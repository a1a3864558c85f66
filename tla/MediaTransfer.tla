---------------------------- MODULE MediaTransfer ----------------------------
(***************************************************************************)
(* How the bytes of an image, a file or a voice message travel: encrypted  *)
(* and uploaded to an IPFS gateway by the sender, named in the message,    *)
(* downloaded, decrypted and cached by the reader, and shown.              *)
(*                                                                         *)
(* A download is a job: a loop of attempts that ends in a path stored in   *)
(* the message's row, or in the failure marker there.  Nothing refers to   *)
(* the job but its own closure: a restart forgets it, and a second tap     *)
(* starts a second one beside it.  Each job pushes the copy of the message *)
(* it was started with to the renderer, which replaces what it shows.      *)
(*                                                                         *)
(* ChatService, TopicService and PrivateGroupService hold the same jobs;   *)
(* the retry handlers of ChatService serve all three.  Keys and contents   *)
(* are left out, and so is the burning of a message.                       *)
(***************************************************************************)
EXTENDS Naturals, Sequences

CONSTANTS
    Msgs,
    Hosts,      \* IPFS gateways
    Private,    \* those with a private or reserved address
    Lists,      \* gateway lists a user may configure
    Tries,      \* attempts of a job
    Slots,      \* bound: jobs of one message at a time
    MaxPipe,    \* bound: pushes of one message the renderer has yet to take
    Limit       \* bound: faults and changes of the settings

ASSUME ListsAssumption == Lists \subseteq Seq(Hosts) \ {<<>>} /\ Lists # {}
ASSUME BoundAssumption ==
    /\ Private \subseteq Hosts
    /\ Tries \in Nat \ {0} /\ Slots \subseteq Nat /\ 1 \in Slots
    /\ MaxPipe \in Nat /\ Limit \in Nat

VARIABLES
    kind,       \* what each message carries, and whether its options name the hash
    lists,      \* the configured gateways of the sender and of the reader
    held,       \* the objects each gateway holds
    upload,     \* the sender's upload of each message
    named,      \* the gateway a sent message names (ipfsIp)
    row,        \* the reader's message row: its file and its thumbnail
    cache,      \* the reader's cache files
    jobs,       \* the reader's jobs
    pipe,       \* pushes on their way to the renderer
    screen,     \* what the renderer shows
    overlap,    \* history: messages that had two jobs at once
    forgotten,  \* history: messages whose job a restart ended, not tapped since
    tally       \* bounded steps so far

setup == <<kind, lists>>
sending == <<held, upload, named>>
reading == <<row, cache, jobs, pipe, screen, overlap, forgotten>>
vars == <<kind, lists, held, upload, named, row, cache, jobs, pipe, screen, overlap,
          forgotten, tally>>

Parts == {"thumb", "full"}
Kinds == [what : {"image", "file", "audio", "voice"}, inOptions : BOOLEAN]
Objects == Msgs \X Parts
Nobody == "nobody"

\* What a row says, or a push, or the screen: "none" is NULL or "", "failed" the marker.
Shown == [path : {"none", "stored", "failed"}, thumb : {"none", "stored"}]
Absent == [path |-> "absent", thumb |-> "none"]
Fresh == [path |-> "none", thumb |-> "none"]

\* left: the gateways the current attempt has yet to hear from, the asked one first;
\* thumb: the thumbnail in the job's own copy of the message.
Job == [phase : {"begin", "asked", "hung", "resting"}, part : Parts, attempt : 1 .. Tries,
        left : Seq(Hosts), thumb : {"none", "stored"}]
Idle == [phase |-> "idle", part |-> "full", attempt |-> 1, left |-> <<>>,
         thumb |-> "none"]

\* mutant: the job's copy of the message is not told of the thumbnail
ForgetfulJob(part, thumb) ==
    [phase |-> "begin", part |-> part, attempt |-> 1, left |-> <<>>, thumb |-> "none"]

NewJob(part, thumb) ==
    [phase |-> "begin", part |-> part, attempt |-> 1, left |-> <<>>, thumb |-> thumb]
Busy(m) == \E s \in Slots : jobs[m][s] # Idle

Spend == tally < Limit /\ tally' = tally + 1

Init ==
    /\ kind \in [Msgs -> Kinds]
    /\ lists \in [{"sender", "reader"} -> Lists]
    /\ held = [h \in Hosts |-> {}]
    /\ upload = [m \in Msgs |-> [step |-> "idle", left |-> <<>>]]
    /\ named = [m \in Msgs |-> Nobody]
    /\ row = [m \in Msgs |-> Absent]
    /\ cache = [o \in Objects |-> "none"]
    /\ jobs = [m \in Msgs |-> [s \in Slots |-> Idle]]
    /\ pipe = [m \in Msgs |-> <<>>]
    /\ screen = [m \in Msgs |-> Absent]
    /\ overlap = {} /\ forgotten = {}
    /\ tally = 0

\* setConfig, live from the settings: requests under way keep the list they began with.
Configure(side, list) ==
    /\ list # lists[side]
    /\ Spend
    /\ lists' = [lists EXCEPT ![side] = list]
    /\ UNCHANGED <<kind, sending, reading>>

-----------------------------------------------------------------------------
(* The sender: processAndUpload. *)

\* The thumbnail of an image goes first; a recording is sent inline, without gateways.
Send(m) ==
    /\ upload[m].step = "idle"
    /\ upload' = [upload EXCEPT ![m] =
         CASE kind[m].what = "image" -> [step |-> "thumb", left |-> lists["sender"]]
           [] kind[m].what = "voice" -> [step |-> "sent", left |-> <<>>]
           [] OTHER -> [step |-> "full", left |-> lists["sender"]]]
    /\ UNCHANGED <<setup, held, named, reading, tally>>

\* The message names the first gateway of the list as it is now, whichever took the
\* upload.
UploadTaken(m) ==
    LET u == upload[m] IN
    /\ u.step \in Parts
    /\ held' = [held EXCEPT ![Head(u.left)] = @ \cup {<<m, u.step>>}]
    /\ IF u.step = "thumb"
       THEN /\ upload' = [upload EXCEPT ![m] = [step |-> "full", left |-> lists["sender"]]]
            /\ UNCHANGED named
       ELSE /\ upload' = [upload EXCEPT ![m] = [step |-> "sent", left |-> <<>>]]
            /\ named' = [named EXCEPT ![m] = Head(lists["sender"])]
    /\ UNCHANGED <<setup, reading, tally>>

UploadRefused(m) ==
    LET u == upload[m] IN
    /\ u.step \in Parts
    /\ upload' = [upload EXCEPT ![m] =
         IF Len(u.left) > 1 THEN [u EXCEPT !.left = Tail(@)]
                            ELSE [step |-> "failed", left |-> <<>>]]
    /\ UNCHANGED <<setup, held, named, reading, tally>>

-----------------------------------------------------------------------------
(* The reader. *)

\* The elements of a list that are in S, in their order.  A recursive function, so that
\* its values can be reasoned about: of SelectSeq nothing can be derived.
Kept(list, S) ==
    LET kept[n \in 0 .. Len(list)] ==
            IF n = 0 THEN <<>>
            ELSE IF list[n] \in S THEN Append(kept[n - 1], list[n]) ELSE kept[n - 1]
    IN  kept[Len(list)]

\* mutant: only the named gateway is asked
NamedOnly(host, list) == Kept(list, {host})

\* orderGateways: the named one first, unless it is private and not configured.
Order(host, list) ==
    CASE \E i \in DOMAIN list : list[i] = host ->
           Kept(list, {host}) \o Kept(list, Hosts \ {host})
      [] host \in Hosts \ Private /\ \A i \in DOMAIN list : list[i] # host -> <<host>> \o list
      [] OTHER -> list

\* The message arrives: its row, its push, and for IPFS content its job.  A recording
\* is saved from the message itself, and pushed once more.
Arrive(m) ==
    LET what == kind[m].what IN
    /\ upload[m].step = "sent" /\ row[m] = Absent
    /\ IF what = "voice"
       THEN /\ row' = [row EXCEPT ![m] = [Fresh EXCEPT !.path = "stored"]]
            /\ cache' = [cache EXCEPT ![<<m, "full">>] = "whole"]
            /\ pipe' = [pipe EXCEPT ![m] = <<Fresh, [Fresh EXCEPT !.path = "stored"]>>]
            /\ UNCHANGED jobs
       ELSE /\ row' = [row EXCEPT ![m] = Fresh]
            /\ pipe' = [pipe EXCEPT ![m] = <<Fresh>>]
            /\ jobs' = [jobs EXCEPT ![m][1] =
                          NewJob(IF what = "image" THEN "thumb" ELSE "full", "none")]
            /\ UNCHANGED cache
    /\ UNCHANGED <<setup, sending, screen, overlap, forgotten, tally>>

\* mutant: the loop has no return, so that a success is not the last attempt
GoOn(m, s, path) ==
    LET j == jobs[m][s]
        more == path = "stored" /\ j.attempt < Tries IN
    /\ row' = [row EXCEPT ![m].path = IF more THEN "stored" ELSE "failed"]
    /\ jobs' = [jobs EXCEPT ![m][s] =
                  IF more THEN [j EXCEPT !.phase = "resting", !.attempt = @ + 1] ELSE Idle]
    /\ UNCHANGED pipe

\* The end of a job: the path, or the marker, in the row and in its copy.
Settle(m, s, path) ==
    /\ row' = [row EXCEPT ![m].path = path]
    /\ pipe' = [pipe EXCEPT ![m] =
                  Append(@, [path |-> path, thumb |-> jobs[m][s].thumb])]
    /\ jobs' = [jobs EXCEPT ![m][s] = Idle]

\* A file is there: what the job does with it.
Stored(m, s) ==
    IF jobs[m][s].part = "thumb"
    THEN /\ row' = [row EXCEPT ![m].thumb = "stored"]
         /\ pipe' = [pipe EXCEPT ![m] = Append(@, [Fresh EXCEPT !.thumb = "stored"])]
         /\ jobs' = [jobs EXCEPT ![m][s] = NewJob("full", "stored")]
    ELSE Settle(m, s, "stored")

\* mutant: the attempts are not counted
SameAttempt(n) == n

NextAttempt(n) == n + 1
Again(j) == [j EXCEPT !.phase = "resting", !.attempt = NextAttempt(@), !.left = <<>>]

\* mutant: the last attempt leaves no marker
NoMarker == "none"

Marker == "failed"

\* An attempt threw: without its thumbnail an image goes on, after the last attempt
\* the marker is stored.
Failed(m, s) ==
    LET j == jobs[m][s] IN
    \/ /\ j.part = "thumb"
       /\ jobs' = [jobs EXCEPT ![m][s] = NewJob("full", "none")]
       /\ UNCHANGED <<row, pipe>>
    \/ /\ j.part = "full" /\ j.attempt < Tries
       /\ jobs' = [jobs EXCEPT ![m][s] = Again(j)]
       /\ UNCHANGED <<row, pipe>>
    \/ /\ j.part = "full" /\ j.attempt = Tries
       /\ Settle(m, s, Marker)

\* downloadAndDecrypt up to its request: a file that exists is not asked for.
Look(m, s) ==
    LET j == jobs[m][s] IN
    /\ j.phase = "begin"
    /\ IF cache[<<m, j.part>>] # "none"
       THEN Stored(m, s)
       ELSE /\ jobs' = [jobs EXCEPT ![m][s] =
                  [j EXCEPT !.phase = "asked", !.left = Order(named[m], lists["reader"])]]
            /\ UNCHANGED <<row, pipe>>
    /\ UNCHANGED <<setup, sending, cache, screen, overlap, forgotten, tally>>

\* The asked gateway delivers, and the decrypted file is written.
Deliver(m, s) ==
    LET j == jobs[m][s] IN
    /\ j.phase = "asked"
    /\ <<m, j.part>> \in held[Head(j.left)]
    /\ cache' = [cache EXCEPT ![<<m, j.part>>] = "whole"]
    /\ Stored(m, s)
    /\ UNCHANGED <<setup, sending, screen, overlap, forgotten, tally>>

\* It delivers, and writeFileSync throws part of the way: the file exists.
WriteFails(m, s) ==
    LET j == jobs[m][s] IN
    /\ j.phase = "asked"
    /\ <<m, j.part>> \in held[Head(j.left)]
    /\ Spend
    /\ cache' = [cache EXCEPT ![<<m, j.part>>] = "torn"]
    /\ Failed(m, s)
    /\ UNCHANGED <<setup, sending, screen, overlap, forgotten>>

\* It does not have the object, cannot be reached or times out: the next one is asked.
Refuse(m, s) ==
    LET j == jobs[m][s] IN
    /\ j.phase = "asked"
    /\ IF Len(j.left) > 1
       THEN /\ jobs' = [jobs EXCEPT ![m][s] = [j EXCEPT !.left = Tail(@)]]
            /\ UNCHANGED <<row, pipe>>
       ELSE Failed(m, s)
    /\ UNCHANGED <<setup, sending, cache, screen, overlap, forgotten, tally>>

\* The connection breaks during the response: it neither ends nor fails the request,
\* and no timeout runs any more.
Hang(m, s) ==
    /\ jobs[m][s].phase = "asked"
    /\ Spend
    /\ jobs' = [jobs EXCEPT ![m][s] = [@ EXCEPT !.phase = "hung"]]
    /\ UNCHANGED <<setup, sending, row, cache, pipe, screen, overlap, forgotten>>

\* The delay between two attempts is over.
Wake(m, s) ==
    /\ jobs[m][s].phase = "resting"
    /\ jobs' = [jobs EXCEPT ![m][s] = [@ EXCEPT !.phase = "begin"]]
    /\ UNCHANGED <<setup, sending, row, cache, pipe, screen, overlap, forgotten, tally>>

\* handleIncomingMessage of the renderer: the pushed copy replaces the shown one.
Show(m) ==
    /\ pipe[m] # <<>>
    /\ screen' = [screen EXCEPT ![m] = Head(pipe[m])]
    /\ pipe' = [pipe EXCEPT ![m] = Tail(@)]
    /\ UNCHANGED <<setup, sending, row, cache, jobs, overlap, forgotten, tally>>

\* Where the bubble offers a tap: on the marker, on a file not yet here, on a
\* recording not yet loaded, on an image that does not load.
Tappable(m) ==
    \/ screen[m].path = "failed"
    \/ screen[m].path = "none" /\ kind[m].what \in {"file", "voice"}
    \/ screen[m].path = "stored" /\ kind[m].what = "image"
         /\ cache[<<m, "full">>] = "torn"

\* retryImageDownload, retryFileDownload and retryAudioDownload of inline content: the
\* row is read, cleared and downloaded once more, beside any job under way.  Without
\* the hash in its stored options a message is left as it is.
Tap(m) ==
    /\ Tappable(m)
    /\ Len(pipe[m]) < MaxPipe
    /\ IF kind[m].what = "voice"
       THEN /\ row' = [row EXCEPT ![m].path = "stored"]
            /\ cache' = [cache EXCEPT ![<<m, "full">>] = "whole"]
            /\ pipe' = [pipe EXCEPT ![m] = Append(@, [row[m] EXCEPT !.path = "stored"])]
            /\ UNCHANGED <<jobs, overlap, forgotten>>
       ELSE \E s \in Slots :
            /\ kind[m].inOptions
            /\ jobs[m][s] = Idle
            /\ row' = [row EXCEPT ![m].path = "none"]
            /\ pipe' = [pipe EXCEPT ![m] = Append(@, [row[m] EXCEPT !.path = "none"])]
            /\ jobs' = [jobs EXCEPT ![m][s] = NewJob("full", row[m].thumb)]
            /\ overlap' = IF Busy(m) THEN overlap \cup {m} ELSE overlap
            /\ forgotten' = forgotten \ {m}
            /\ UNCHANGED cache
    /\ UNCHANGED <<setup, sending, screen, tally>>

\* The reader's program ends and starts, and shows its rows.
Restart ==
    /\ Spend
    /\ jobs' = [m \in Msgs |-> [s \in Slots |-> Idle]]
    /\ forgotten' = forgotten \cup {m \in Msgs : Busy(m)}
    /\ pipe' = [m \in Msgs |-> <<>>]
    /\ screen' = row
    /\ UNCHANGED <<setup, sending, row, cache, overlap>>

-----------------------------------------------------------------------------

UploadStep(m) == Send(m) \/ UploadTaken(m) \/ UploadRefused(m)
JobStep(m, s) == Look(m, s) \/ Deliver(m, s) \/ Refuse(m, s) \/ Wake(m, s)

Next ==
    \/ \E side \in {"sender", "reader"}, list \in Lists : Configure(side, list)
    \/ \E m \in Msgs : UploadStep(m) \/ Arrive(m) \/ Show(m) \/ Tap(m)
    \/ \E m \in Msgs, s \in Slots : JobStep(m, s) \/ WriteFails(m, s) \/ Hang(m, s)
    \/ Restart

Spec == Init /\ [][Next]_vars

\* A request that does not hang is answered or times out, every delay ends, and the renderer takes
\* what it is sent.
FairSpec ==
    /\ Spec
    /\ \A m \in Msgs, s \in Slots : WF_vars(JobStep(m, s))
    /\ \A m \in Msgs : WF_vars(Show(m))

-----------------------------------------------------------------------------
(* Properties. *)

TypeOK ==
    /\ kind \in [Msgs -> Kinds]
    /\ lists \in [{"sender", "reader"} -> Lists]
    /\ held \in [Hosts -> SUBSET Objects]
    /\ upload \in [Msgs -> [step : {"idle", "thumb", "full", "sent", "failed"},
                            left : Seq(Hosts)]]
    /\ \A m \in Msgs : upload[m].step \in Parts => upload[m].left # <<>>
    /\ named \in [Msgs -> Hosts \cup {Nobody}]
    /\ row \in [Msgs -> Shown \cup {Absent}] /\ screen \in [Msgs -> Shown \cup {Absent}]
    /\ pipe \in [Msgs -> Seq(Shown)]
    /\ jobs \in [Msgs -> [Slots -> Job \cup {Idle}]]
    /\ \A m \in Msgs, s \in Slots : jobs[m][s].phase = "asked" => jobs[m][s].left # <<>>
    /\ cache \in [Objects -> {"none", "torn", "whole"}]
    /\ overlap \subseteq Msgs /\ forgotten \subseteq Msgs
    /\ tally \in 0 .. Limit

\* A message without its file is being downloaded, unless the program ended during
\* the download: no order of taps, late failures and cache hits leaves a row cleared
\* with nobody to fill it.
NoLostDownload ==
    \A m \in Msgs : row[m].path = "none" => Busy(m) \/ m \in forgotten

\* A row with a path has the file, for the thumbnail too; the marker stands for a file
\* that is not here whole, unless a second tap ran two jobs of the message at once.
RowIsHonest ==
    \A m \in Msgs :
        /\ row[m].path = "stored" => cache[<<m, "full">>] # "none"
        /\ row[m].thumb = "stored" => cache[<<m, "thumb">>] # "none"
        /\ row[m].path = "failed" /\ m \notin overlap => cache[<<m, "full">>] # "whole"

\* Every job pushes a copy of the message that it took when it began, and the copies
\* of several jobs mix; still the last one shown says what the row says, of the file
\* and of the thumbnail.
ScreenIsRow ==
    \A m \in Msgs : pipe[m] = <<>> => screen[m] = row[m]

\* A download that does not hang and is not forgotten ends, in the file or in the
\* marker, whatever the gateways do and however often it is begun again.
Hung(m) == \E s \in Slots : jobs[m][s].phase = "hung"
Settled(m) == row[m].path \in {"stored", "failed"} \/ m \in forgotten \/ Hung(m)
DownloadEnds == \A m \in Msgs : row[m].path = "none" ~> Settled(m)

=============================================================================
