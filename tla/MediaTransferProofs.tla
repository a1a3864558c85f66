------------------------ MODULE MediaTransferProofs ------------------------
(***************************************************************************)
(* What the reader of MediaTransfer stores and shows is true, for any      *)
(* messages, gateways, numbers of attempts and of jobs at once:            *)
(* NoLostDownload, RowIsHonest and ScreenIsRow; and TypeOK, of the sender too. *)
(*                                                                         *)
(* None of the three is inductive.  What a failure marker says depends on  *)
(* what the job that writes it found when it looked into the cache, and    *)
(* what the screen will show on the copies of the message the jobs hold.   *)
(* MsgInv gathers what is true of one message beside its jobs; steps of    *)
(* other messages do not touch it (Frame).                                 *)
(*                                                                         *)
(* The gateways a job has yet to hear from play no part in them: JobsTyped *)
(* types a job without.  That they are a list of gateways, and one that is *)
(* not empty while one of them is asked, is TInv, on top: it rests on      *)
(* KeptType, what is kept of a list, and so by induction on the length of  *)
(* the list.  The induction theorems of the library take an operator, which *)
(* no prover here can instantiate; AllNaturals derives the same from a     *)
(* smallest counterexample (WFMin), for a set.                             *)
(***************************************************************************)
EXTENDS MediaTransfer, SequenceTheorems, WellFoundedInduction, TLAPS

-----------------------------------------------------------------------------
(* Types. *)

Phases == {"idle", "begin", "asked", "hung", "resting"}
JobOf(L) == [phase : Phases, part : Parts, attempt : 1 .. Tries, left : L,
             thumb : {"none", "stored"}]
JobsTyped == \E L : jobs \in [Msgs -> [Slots -> JobOf(L)]]
CacheTyped == cache \in [Objects -> {"none", "torn", "whole"}]
Typed ==
    /\ row \in [Msgs -> Shown \cup {Absent}]
    /\ screen \in [Msgs -> Shown \cup {Absent}]
    /\ pipe \in [Msgs -> Seq(Shown)]
    /\ CacheTyped
    /\ JobsTyped

Becomes(m, s, j) == jobs' = [jobs EXCEPT ![m][s] = j]

\* One job is replaced: it is what it is replaced by, and the others are what they were.
LEMMA JobSet ==
    ASSUME JobsTyped, NEW m \in Msgs, NEW s \in Slots, NEW L, NEW j \in JobOf(L),
           Becomes(m, s, j)
    PROVE  /\ JobsTyped'
           /\ jobs'[m][s] = j
           /\ \A n \in Msgs, t \in Slots : n # m \/ t # s => jobs'[n][t] = jobs[n][t]
<1>1. PICK K : jobs \in [Msgs -> [Slots -> JobOf(K)]]
  BY DEF JobsTyped
<1>2. JobOf(K) \subseteq JobOf(K \cup L) /\ j \in JobOf(K \cup L)
  BY DEF JobOf
<1>3. jobs \in [Msgs -> [Slots -> JobOf(K \cup L)]]
  BY <1>1, <1>2
<1>4. jobs' \in [Msgs -> [Slots -> JobOf(K \cup L)]]
  BY <1>2, <1>3 DEF Becomes
<1>5. JobsTyped'
  BY <1>4 DEF JobsTyped
<1> QED BY <1>1, <1>5 DEF Becomes

LEMMA JobShape ==
    ASSUME JobsTyped, NEW m \in Msgs, NEW s \in Slots
    PROVE  \E L : jobs[m][s] \in JobOf(L)
BY DEF JobsTyped

LEMMA NewJobTyped ==
    ASSUME NEW part \in Parts, NEW thumb \in {"none", "stored"}
    PROVE  /\ NewJob(part, thumb) \in JobOf({<<>>})
           /\ NewJob(part, thumb).part = part
           /\ NewJob(part, thumb).thumb = thumb
           /\ NewJob(part, thumb).phase = "begin"
           /\ NewJob(part, thumb) # Idle
BY BoundAssumption DEF NewJob, JobOf, Phases, Idle

LEMMA Resting ==
    ASSUME NEW L, NEW x \in JobOf(L), x.attempt < Tries
    PROVE  /\ Again(x) \in JobOf(L \cup {<<>>})
           /\ Again(x).phase = "resting" /\ Again(x).part = x.part
           /\ Again(x).thumb = x.thumb
<1>1. x.attempt + 1 \in 1 .. Tries
  BY BoundAssumption DEF JobOf
<1> QED BY <1>1 DEF Again, JobOf, Phases, NextAttempt

LEMMA IdleTyped == Idle \in JobOf({<<>>}) /\ Idle.part = "full" /\ Idle.phase = "idle"
BY BoundAssumption DEF Idle, JobOf, Phases, Parts

LEMMA ShownTyped == Fresh \in Shown /\ Absent \notin Shown
BY DEF Fresh, Shown, Absent

-----------------------------------------------------------------------------
(* What is true of one message. *)

Working(m, s) == jobs[m][s] # Idle

\* Before it arrives there is nothing.
Nothing(m) ==
    row[m] = Absent =>
        screen[m] = Absent /\ pipe[m] = <<>> /\ \A s \in Slots : ~Working(m, s)
\* The thumbnail of an image is fetched before anything else, and while it is nothing
\* can be tapped: no path is stored, shown or under way.
ThumbFirst(m) ==
    \A s \in Slots : jobs[m][s].part = "thumb" =>
        /\ kind[m].what = "image"
        /\ row[m] = Fresh
        /\ screen[m].path \in {"none", "absent"}
        /\ \A i \in 1 .. Len(pipe[m]) : pipe[m][i].path = "none"
        /\ \A t \in Slots : t # s => ~Working(m, t)
\* The copy a job holds has the row's thumbnail.
CopyIsRow(m) ==
    \A s \in Slots : Working(m, s) /\ jobs[m][s].part = "full" =>
        jobs[m][s].thumb = row[m].thumb
VoiceIsInline(m) == kind[m].what = "voice" => \A s \in Slots : ~Working(m, s)
TwoOverlap(m) ==
    \A s, t \in Slots : s # t /\ Working(m, s) /\ Working(m, t) => m \in overlap
\* A gateway is asked for what the cache does not have.
AsksMissing(m) ==
    \A s \in Slots : jobs[m][s].phase = "asked" /\ jobs[m][s].part = "full" =>
        cache[<<m, "full">>] # "whole" \/ m \in overlap
\* What is shown in the end is what the row says.
LastIsRow(m) ==
    /\ pipe[m] = <<>> => screen[m] = row[m]
    /\ pipe[m] # <<>> => pipe[m][Len(pipe[m])] = row[m]
NotLost(m) == row[m].path = "none" => Busy(m) \/ m \in forgotten
Honest(m) ==
    /\ row[m].path = "stored" => cache[<<m, "full">>] # "none"
    /\ row[m].thumb = "stored" => cache[<<m, "thumb">>] # "none"
    /\ row[m].path = "failed" /\ m \notin overlap => cache[<<m, "full">>] # "whole"

MsgInv(m) ==
    /\ Nothing(m) /\ ThumbFirst(m) /\ CopyIsRow(m) /\ VoiceIsInline(m)
    /\ TwoOverlap(m) /\ AsksMissing(m) /\ LastIsRow(m) /\ NotLost(m) /\ Honest(m)
IInv == Typed /\ kind \in [Msgs -> Kinds] /\ \A m \in Msgs : MsgInv(m)

LEMMA Suffices == IInv => NoLostDownload /\ RowIsHonest /\ ScreenIsRow
BY DEF IInv, MsgInv, NoLostDownload, NotLost, RowIsHonest, Honest, ScreenIsRow, LastIsRow

\* Steps of other messages change nothing of a message.
LEMMA Frame ==
    ASSUME NEW n \in Msgs, MsgInv(n), UNCHANGED kind,
           row'[n] = row[n], screen'[n] = screen[n], pipe'[n] = pipe[n],
           cache'[<<n, "full">>] = cache[<<n, "full">>],
           cache'[<<n, "thumb">>] = cache[<<n, "thumb">>],
           n \in overlap => n \in overlap', n \in forgotten => n \in forgotten',
           \A s \in Slots : jobs'[n][s] = jobs[n][s]
    PROVE  MsgInv(n)'
<1>1. \A s \in Slots : Working(n, s)' <=> Working(n, s)
  BY DEF Working
<1>2. Nothing(n)' /\ VoiceIsInline(n)' /\ TwoOverlap(n)' /\ LastIsRow(n)'
  BY <1>1 DEF MsgInv, Nothing, VoiceIsInline, TwoOverlap, LastIsRow
<1>3. ThumbFirst(n)' /\ CopyIsRow(n)' /\ AsksMissing(n)'
  BY <1>1 DEF MsgInv, ThumbFirst, CopyIsRow, AsksMissing
<1>4. NotLost(n)' /\ Honest(n)'
  BY DEF MsgInv, NotLost, Busy, Honest
<1> QED BY <1>2, <1>3, <1>4 DEF MsgInv

LEMMA InitHolds == Init => IInv
<1> SUFFICES ASSUME Init PROVE IInv
  OBVIOUS
<1>1. JobsTyped /\ \A m \in Msgs, s \in Slots : jobs[m][s] = Idle
  BY IdleTyped DEF Init, JobsTyped
<1>2. Typed
  BY <1>1 DEF Init, Typed, CacheTyped
<1>3. ASSUME NEW m \in Msgs PROVE MsgInv(m)
  <2>1. row[m] = Absent /\ screen[m] = Absent /\ pipe[m] = <<>>
    BY DEF Init
  <2>2. \A s \in Slots : jobs[m][s].part = "full" /\ jobs[m][s].phase = "idle"
    BY <1>1, IdleTyped
  <2> QED
    BY <1>1, <2>1, <2>2 DEF MsgInv, Nothing, ThumbFirst, CopyIsRow, VoiceIsInline,
       TwoOverlap, AsksMissing, LastIsRow, NotLost, Honest, Working, Absent
<1> QED BY <1>2, <1>3 DEF IInv, Init

-----------------------------------------------------------------------------
(* The steps of a job. *)

\* A job goes on, its part and its copy as they were; the file it writes may be torn.
LEMMA GoesOn ==
    ASSUME IInv, NEW m \in Msgs, NEW s \in Slots, NEW L, NEW j \in JobOf(L),
           Working(m, s), j # Idle, Becomes(m, s, j),
           j.part = jobs[m][s].part, j.thumb = jobs[m][s].thumb,
           UNCHANGED <<kind, row, pipe, screen, overlap, forgotten>>, CacheTyped',
           \A n \in Msgs, p \in Parts :
               \/ cache'[<<n, p>>] = cache[<<n, p>>]
               \/ n = m /\ cache'[<<n, p>>] = "torn",
           j.phase = "asked" /\ j.part = "full" =>
               cache'[<<m, "full">>] # "whole" \/ m \in overlap
    PROVE  IInv'
<1>1. /\ JobsTyped' /\ jobs'[m][s] = j
      /\ \A n \in Msgs, t \in Slots : n # m \/ t # s => jobs'[n][t] = jobs[n][t]
  <2>1. JobsTyped
    BY DEF IInv, Typed
  <2> QED BY <2>1, JobSet
<1>2. Typed'
  BY <1>1 DEF IInv, Typed
<1>3. ASSUME NEW n \in Msgs, n # m PROVE MsgInv(n)'
  BY <1>1, <1>3, Frame DEF IInv, Parts
<1>4. MsgInv(m)'
  <2> USE DEF IInv, MsgInv
  <2>1. \A t \in Slots : Working(m, t)' <=> Working(m, t)
    BY <1>1 DEF Working
  <2>2. \A t \in Slots : /\ jobs'[m][t].part = jobs[m][t].part
                         /\ jobs'[m][t].thumb = jobs[m][t].thumb
    BY <1>1
  <2>3. Nothing(m)' /\ VoiceIsInline(m)' /\ TwoOverlap(m)' /\ LastIsRow(m)' /\ NotLost(m)'
    BY <2>1 DEF Nothing, VoiceIsInline, TwoOverlap, LastIsRow, NotLost, Busy, Working
  <2>4. ThumbFirst(m)'
    BY <2>1, <2>2 DEF ThumbFirst
  <2>5. CopyIsRow(m)'
    BY <2>1, <2>2 DEF CopyIsRow
  <2>6. cache'[<<m, "full">>] \in {cache[<<m, "full">>], "torn"}
    BY DEF Parts
  <2>7. cache'[<<m, "thumb">>] \in {cache[<<m, "thumb">>], "torn"}
    BY DEF Parts
  <2>8. AsksMissing(m)'
    BY <1>1, <2>6 DEF AsksMissing
  <2>9. Honest(m)'
    BY <2>6, <2>7 DEF Honest
  <2> QED BY <2>3, <2>4, <2>5, <2>8, <2>9
<1> QED BY <1>2, <1>3, <1>4 DEF IInv

\* The job of a thumbnail turns to the file, with a thumbnail that was stored in the
\* row and pushed, or without.
LEMMA TurnsToFile ==
    ASSUME IInv, NEW m \in Msgs, NEW s \in Slots, NEW thumb \in {"none", "stored"},
           jobs[m][s].part = "thumb",
           Becomes(m, s, NewJob("full", thumb)),
           UNCHANGED <<kind, screen, overlap, forgotten>>, CacheTyped',
           row' = [row EXCEPT ![m] = [path |-> "none", thumb |-> thumb]],
           \/ pipe' = pipe /\ thumb = "none"
           \/ pipe' = [pipe EXCEPT ![m] = Append(@, [path |-> "none", thumb |-> thumb])],
           \A n \in Msgs, p \in Parts :
               <<n, p>> # <<m, "thumb">> => cache'[<<n, p>>] = cache[<<n, p>>],
           thumb = "stored" => cache'[<<m, "thumb">>] # "none"
    PROVE  IInv'
<1> DEFINE r == [path |-> "none", thumb |-> thumb]
<1>1. /\ JobsTyped' /\ jobs'[m][s] = NewJob("full", thumb)
      /\ \A n \in Msgs, t \in Slots : n # m \/ t # s => jobs'[n][t] = jobs[n][t]
  <2>1. JobsTyped /\ NewJob("full", thumb) \in JobOf({<<>>})
    BY NewJobTyped DEF IInv, Typed, Parts
  <2> QED BY <2>1, JobSet
<1>2. r \in Shown /\ row'[m] = r /\ \A n \in Msgs : n # m => row'[n] = row[n]
  BY DEF Shown, IInv, Typed
<1>3. pipe \in [Msgs -> Seq(Shown)] /\ pipe[m] \in Seq(Shown)
  BY DEF IInv, Typed
<1>4. Append(pipe[m], r) \in Seq(Shown)
  BY <1>2, <1>3
<1>5. pipe' \in [Msgs -> Seq(Shown)] /\ \A n \in Msgs : n # m => pipe'[n] = pipe[n]
  BY <1>3, <1>4
<1>6. Typed'
  BY <1>1, <1>2, <1>5 DEF IInv, Typed
<1>7. ASSUME NEW n \in Msgs, n # m PROVE MsgInv(n)'
  BY <1>1, <1>2, <1>5, <1>7, Frame DEF IInv, Parts
<1>8. MsgInv(m)'
  <2> USE DEF IInv, MsgInv
  <2>1. /\ row[m] = Fresh /\ kind[m].what = "image"
        /\ \A t \in Slots : t # s => ~Working(m, t)
    BY DEF ThumbFirst
  <2>2. /\ Working(m, s)' /\ jobs'[m][s].part = "full"
        /\ jobs'[m][s].phase = "begin" /\ jobs'[m][s].thumb = thumb
    BY <1>1, NewJobTyped DEF Working, Parts
  <2>3. \A t \in Slots : t # s => /\ ~Working(m, t)'
                                  /\ jobs'[m][t] = Idle
    BY <1>1, <2>1 DEF Working
  <2>4. \A t \in Slots : jobs'[m][t].part = "full"
    BY <2>2, <2>3, IdleTyped
  <2>5. Nothing(m)'
    BY <1>2 DEF Nothing, Absent
  <2>6. ThumbFirst(m)' /\ CopyIsRow(m)'
    BY <1>2, <2>2, <2>3, <2>4 DEF ThumbFirst, CopyIsRow
  <2>7. VoiceIsInline(m)' /\ TwoOverlap(m)'
    BY <2>1, <2>3 DEF VoiceIsInline, TwoOverlap
  <2>8. AsksMissing(m)'
    BY <2>2, <2>3, IdleTyped DEF AsksMissing
  <2>9. LastIsRow(m)'
    <3>1. CASE pipe' = pipe /\ thumb = "none"
      BY <1>2, <2>1, <3>1 DEF LastIsRow, Fresh
    <3>2. CASE pipe' = [pipe EXCEPT ![m] = Append(@, r)]
      <4>1. pipe'[m] = Append(pipe[m], r)
        BY <1>3, <3>2
      <4>2. pipe'[m] # <<>> /\ pipe'[m][Len(pipe'[m])] = r
        BY <1>2, <1>3, <4>1, AppendProperties
      <4> QED BY <1>2, <4>2 DEF LastIsRow
    <3> QED BY <3>1, <3>2
  <2>10. NotLost(m)'
    BY <2>2 DEF NotLost, Busy, Working
  <2>11. Honest(m)'
    BY <1>2 DEF Honest
  <2> QED BY <2>5, <2>6, <2>7, <2>8, <2>9, <2>10, <2>11
<1> QED BY <1>6, <1>7, <1>8 DEF IInv

\* The end of a job: with the path of a file that is there, or with the marker when it
\* was not there whole.
LEMMA Settles ==
    ASSUME IInv, NEW m \in Msgs, NEW s \in Slots, NEW path \in {"stored", "failed"},
           Working(m, s), jobs[m][s].part = "full", Settle(m, s, path),
           UNCHANGED <<kind, screen, overlap, forgotten>>, CacheTyped',
           \A n \in Msgs, p \in Parts :
               <<n, p>> # <<m, "full">> => cache'[<<n, p>>] = cache[<<n, p>>],
           path = "stored" => cache'[<<m, "full">>] # "none",
           path = "failed" => cache'[<<m, "full">>] # "whole" \/ m \in overlap
    PROVE  IInv'
<1> DEFINE r == [path |-> path, thumb |-> row[m].thumb]
<1>1. /\ JobsTyped' /\ jobs'[m][s] = Idle
      /\ \A n \in Msgs, t \in Slots : n # m \/ t # s => jobs'[n][t] = jobs[n][t]
  <2>1. JobsTyped /\ Becomes(m, s, Idle)
    BY DEF IInv, Typed, Settle, Becomes
  <2> QED BY <2>1, IdleTyped, JobSet
<1>2. row[m] # Absent /\ row[m] \in Shown
  BY DEF IInv, Typed, MsgInv, Nothing
<1>3. r \in Shown
  BY <1>2 DEF Shown
<1>4. row'[m] = r /\ (\A n \in Msgs : n # m => row'[n] = row[n])
                  /\ row' \in [Msgs -> Shown \cup {Absent}]
  BY <1>2, <1>3 DEF IInv, Typed, Settle, Shown
<1>5. pipe \in [Msgs -> Seq(Shown)] /\ pipe[m] \in Seq(Shown)
  BY DEF IInv, Typed
<1>6. jobs[m][s].thumb = row[m].thumb
  BY DEF IInv, MsgInv, CopyIsRow
<1>7. pipe' = [pipe EXCEPT ![m] = Append(@, r)]
  BY <1>6 DEF Settle
<1>8. Append(pipe[m], r) \in Seq(Shown)
  BY <1>3, <1>5
<1>9. /\ pipe' \in [Msgs -> Seq(Shown)] /\ pipe'[m] = Append(pipe[m], r)
      /\ \A n \in Msgs : n # m => pipe'[n] = pipe[n]
  BY <1>5, <1>7, <1>8
<1>10. Typed'
  BY <1>1, <1>4, <1>9 DEF IInv, Typed
<1>11. ASSUME NEW n \in Msgs, n # m PROVE MsgInv(n)'
  BY <1>1, <1>4, <1>9, <1>11, Frame DEF IInv, Parts
<1>12. MsgInv(m)'
  <2> USE DEF IInv, MsgInv
  <2>1. ~Working(m, s)' /\ \A t \in Slots : t # s => (Working(m, t)' <=> Working(m, t))
    BY <1>1 DEF Working
  <2>2. \A t \in Slots : jobs'[m][t].part # "thumb"
    <3>1. \A t \in Slots : jobs[m][t].part = "thumb" => t = s
      BY DEF ThumbFirst
    <3> QED BY <1>1, <3>1, IdleTyped
  <2>3. Nothing(m)'
    BY <1>4 DEF Nothing, Absent
  <2>4. ThumbFirst(m)' /\ CopyIsRow(m)'
    BY <1>1, <1>4, <2>1, <2>2 DEF ThumbFirst, CopyIsRow
  <2>5. VoiceIsInline(m)' /\ TwoOverlap(m)'
    BY <2>1 DEF VoiceIsInline, TwoOverlap
  <2>6. AsksMissing(m)'
    <3> SUFFICES ASSUME NEW t \in Slots, jobs'[m][t].phase = "asked" PROVE m \in overlap
      BY DEF AsksMissing
    <3>1. t # s /\ jobs[m][t].phase = "asked"
      BY <1>1, IdleTyped
    <3>2. Working(m, t)
      BY <3>1, IdleTyped DEF Working
    <3> QED BY <3>1, <3>2 DEF TwoOverlap
  <2>7. LastIsRow(m)'
    <3>1. PICK c : c = pipe[m]
      OBVIOUS
    <3>2. PICK d : d = Append(c, r)
      OBVIOUS
    <3>3. c \in Seq(Shown) /\ Len(c) \in Nat
      BY <1>5, <3>1, LenProperties
    <3>4. d # <<>> /\ Len(d) = Len(c) + 1 /\ d[Len(c) + 1] = r
      BY <1>3, <3>2, <3>3, AppendProperties
    <3>5. d # <<>> /\ d[Len(d)] = r
      BY <3>4
    <3>6. pipe'[m] = d
      BY <1>9, <3>1, <3>2
    <3> QED BY <1>4, <3>5, <3>6 DEF LastIsRow
  <2>8. NotLost(m)'
    BY <1>4 DEF NotLost
  <2>9. Honest(m)'
    <3>1. cache'[<<m, "thumb">>] = cache[<<m, "thumb">>]
      BY DEF Parts
    <3> QED BY <1>4, <3>1 DEF Honest
  <2> QED BY <2>3, <2>4, <2>5, <2>6, <2>7, <2>8, <2>9
<1> QED BY <1>10, <1>11, <1>12 DEF IInv

\* A job whose file is there.
LEMMA StoredStep ==
    ASSUME IInv, NEW m \in Msgs, NEW s \in Slots, Working(m, s), Stored(m, s),
           UNCHANGED <<kind, screen, overlap, forgotten>>, CacheTyped',
           \A n \in Msgs, p \in Parts : <<n, p>> # <<m, jobs[m][s].part>> =>
               cache'[<<n, p>>] = cache[<<n, p>>],
           cache'[<<m, jobs[m][s].part>>] # "none"
    PROVE  IInv'
<1>1. CASE jobs[m][s].part = "thumb"
  <2>1. row[m] = Fresh
    BY <1>1 DEF IInv, MsgInv, ThumbFirst
  <2>2. /\ row' = [row EXCEPT ![m] = [path |-> "none", thumb |-> "stored"]]
        /\ pipe' = [pipe EXCEPT ![m] = Append(@, [path |-> "none", thumb |-> "stored"])]
    BY <1>1, <2>1 DEF Stored, Fresh, IInv, Typed
  <2>3. Becomes(m, s, NewJob("full", "stored"))
    BY <1>1 DEF Stored, Becomes
  <2> QED BY <1>1, <2>2, <2>3, TurnsToFile
<1>2. CASE jobs[m][s].part # "thumb"
  <2>1. jobs[m][s].part = "full"
    BY <1>2 DEF IInv, Typed, JobsTyped, JobOf, Parts
  <2> QED BY <1>2, <2>1, Settles DEF Stored
<1> QED BY <1>1, <1>2

\* A job whose attempt threw, after it asked and perhaps wrote a part of the file.
LEMMA FailedStep ==
    ASSUME IInv, NEW m \in Msgs, NEW s \in Slots, jobs[m][s].phase = "asked", Failed(m, s),
           UNCHANGED <<kind, screen, overlap, forgotten>>, CacheTyped',
           \A n \in Msgs, p \in Parts : <<n, p>> # <<m, jobs[m][s].part>> =>
               cache'[<<n, p>>] = cache[<<n, p>>],
           cache'[<<m, jobs[m][s].part>>] \in {cache[<<m, jobs[m][s].part>>], "torn"}
    PROVE  IInv'
<1>1. PICK L : jobs[m][s] \in JobOf(L)
  BY JobShape DEF IInv, Typed
<1>2. Working(m, s)
  BY IdleTyped DEF Working
<1>3. CASE jobs[m][s].part = "thumb"
  <2>1. row[m] = Fresh
    BY <1>3 DEF IInv, MsgInv, ThumbFirst
  <2>2. row' = row /\ pipe' = pipe /\ row' = [row EXCEPT ![m] = [path |-> "none", thumb |-> "none"]]
    BY <1>3, <2>1 DEF Failed, Fresh, IInv, Typed
  <2>3. Becomes(m, s, NewJob("full", "none"))
    BY <1>3 DEF Failed, Becomes
  <2> QED BY <1>3, <2>2, <2>3, TurnsToFile
<1>4. CASE jobs[m][s].part = "full" /\ jobs[m][s].attempt < Tries
  <2> DEFINE j == Again(jobs[m][s])
  <2>1. j \in JobOf(L \cup {<<>>}) /\ j.phase = "resting" /\ j.part = "full"
        /\ j.thumb = jobs[m][s].thumb
    BY <1>1, <1>4, Resting
  <2>2. j # Idle
    BY <2>1, IdleTyped
  <2>3. Becomes(m, s, j) /\ UNCHANGED <<row, pipe>>
    <3>1. jobs[m][s].part # "thumb" /\ jobs[m][s].attempt # Tries
      BY <1>4, BoundAssumption
    <3> QED BY <3>1 DEF Failed, Becomes
  <2>4. \A n \in Msgs, p \in Parts :
            cache'[<<n, p>>] = cache[<<n, p>>] \/ (n = m /\ cache'[<<n, p>>] = "torn")
    BY <1>4
  <2> HIDE DEF j
  <2> QED BY <1>2, <1>4, <2>1, <2>2, <2>3, <2>4, GoesOn
<1>5. CASE jobs[m][s].part = "full" /\ jobs[m][s].attempt = Tries
  <2>1. Settle(m, s, "failed")
    BY <1>5, BoundAssumption DEF Failed, Marker
  <2>2. cache'[<<m, "full">>] # "whole" \/ m \in overlap
    BY <1>5 DEF IInv, MsgInv, AsksMissing
  <2> QED BY <1>2, <1>5, <2>1, <2>2, Settles
<1>6. jobs[m][s].part \in {"thumb", "full"} /\ jobs[m][s].attempt \in 1 .. Tries
  BY <1>1 DEF JobOf, Parts
<1> QED BY <1>3, <1>4, <1>5, <1>6, BoundAssumption
-----------------------------------------------------------------------------
(* Every step preserves the invariant. *)

LEMMA PhaseSet ==
    ASSUME NEW L, NEW x \in JobOf(L), NEW ph \in Phases
    PROVE  LET y == [x EXCEPT !.phase = ph] IN
           y \in JobOf(L) /\ y.phase = ph /\ y.part = x.part /\ y.thumb = x.thumb
BY DEF JobOf

\* The list of a job is replaced; it asks the first gateway of the list.
Leaves(x, l, y) == y = [x EXCEPT !.left = l]
Asks(x, l, y) == y = [x EXCEPT !.phase = "asked", !.left = l]

LEMMA LeftSet ==
    ASSUME NEW L, NEW x \in JobOf(L), NEW l, NEW y, Leaves(x, l, y)
    PROVE  /\ y \in JobOf(L \cup {l}) /\ y.phase = x.phase /\ y.part = x.part
           /\ y.thumb = x.thumb
BY DEF JobOf, Leaves

LEMMA Asking ==
    ASSUME NEW L, NEW x \in JobOf(L), NEW l, NEW y, Asks(x, l, y)
    PROVE  /\ y \in JobOf(L \cup {l}) /\ y.phase = "asked" /\ y.part = x.part
           /\ y.thumb = x.thumb
BY DEF JobOf, Phases, Asks

LEMMA LookStep ==
    ASSUME IInv, NEW m \in Msgs, NEW s \in Slots, Look(m, s)
    PROVE  IInv'
<1> USE DEF setup, sending
<1>1. PICK L : jobs[m][s] \in JobOf(L)
  BY JobShape DEF IInv, Typed
<1>2. Working(m, s) /\ UNCHANGED <<kind, cache, screen, overlap, forgotten>> /\ CacheTyped'
  BY IdleTyped DEF Look, Working, IInv, Typed, CacheTyped
<1>3. CASE cache[<<m, jobs[m][s].part>>] # "none"
  BY <1>2, <1>3, StoredStep DEF Look
<1>4. CASE cache[<<m, jobs[m][s].part>>] = "none"
  <2> DEFINE l == Order(named[m], lists["reader"])
  <2>0. PICK x : x \in JobOf(L) /\ x = jobs[m][s]
    BY <1>1
  <2>5. PICK j : j = [x EXCEPT !.phase = "asked", !.left = l]
    OBVIOUS
  <2>1. Becomes(m, s, j) /\ UNCHANGED <<row, pipe>>
    BY <1>4, <2>0, <2>5 DEF Look, Becomes
  <2> HIDE DEF l
  <2>7. Asks(x, l, j)
    BY <2>5 DEF Asks
  <2>6. /\ j \in JobOf(L \cup {l}) /\ j.phase = "asked"
        /\ j.part = x.part /\ j.thumb = x.thumb
    BY <2>0, <2>7, Asking
  <2>2. /\ j \in JobOf(L \cup {l}) /\ j.phase = "asked"
        /\ j.part = jobs[m][s].part /\ j.thumb = jobs[m][s].thumb
    BY <2>0, <2>6
  <2>3. j # Idle
    BY <2>2, IdleTyped
  <2>4. j.part = "full" => cache'[<<m, "full">>] # "whole"
    BY <1>2, <1>4, <2>2
  <2> QED BY <1>2, <2>1, <2>2, <2>3, <2>4, GoesOn
<1> QED BY <1>3, <1>4

LEMMA DeliverStep ==
    ASSUME IInv, NEW m \in Msgs, NEW s \in Slots, Deliver(m, s)
    PROVE  IInv'
<1>1. Working(m, s) /\ UNCHANGED <<kind, screen, overlap, forgotten>>
  BY IdleTyped DEF Deliver, Working, setup
<1>2. jobs[m][s].part \in Parts
  BY DEF IInv, Typed, JobsTyped, JobOf
<1>3. cache' = [cache EXCEPT ![<<m, jobs[m][s].part>>] = "whole"]
  BY DEF Deliver
<1>4. CacheTyped' /\ cache'[<<m, jobs[m][s].part>>] = "whole"
  BY <1>2, <1>3 DEF IInv, Typed, CacheTyped, Objects
<1>5. \A n \in Msgs, p \in Parts : <<n, p>> # <<m, jobs[m][s].part>> =>
          cache'[<<n, p>>] = cache[<<n, p>>]
  BY <1>3 DEF IInv, Typed, CacheTyped, Objects
<1> QED BY <1>1, <1>4, <1>5, StoredStep DEF Deliver

LEMMA WriteFailsStep ==
    ASSUME IInv, NEW m \in Msgs, NEW s \in Slots, WriteFails(m, s)
    PROVE  IInv'
<1>1. jobs[m][s].phase = "asked" /\ UNCHANGED <<kind, screen, overlap, forgotten>>
  BY DEF WriteFails, setup
<1>2. jobs[m][s].part \in Parts
  BY DEF IInv, Typed, JobsTyped, JobOf
<1>3. cache' = [cache EXCEPT ![<<m, jobs[m][s].part>>] = "torn"]
  BY DEF WriteFails
<1>4. CacheTyped' /\ cache'[<<m, jobs[m][s].part>>] = "torn"
  BY <1>2, <1>3 DEF IInv, Typed, CacheTyped, Objects
<1>5. \A n \in Msgs, p \in Parts : <<n, p>> # <<m, jobs[m][s].part>> =>
          cache'[<<n, p>>] = cache[<<n, p>>]
  BY <1>3 DEF IInv, Typed, CacheTyped, Objects
<1> QED BY <1>1, <1>4, <1>5, FailedStep DEF WriteFails

LEMMA RefuseStep ==
    ASSUME IInv, NEW m \in Msgs, NEW s \in Slots, Refuse(m, s)
    PROVE  IInv'
<1>1. PICK L : jobs[m][s] \in JobOf(L)
  BY JobShape DEF IInv, Typed
<1>2. /\ jobs[m][s].phase = "asked" /\ Working(m, s) /\ CacheTyped'
      /\ UNCHANGED <<kind, cache, screen, overlap, forgotten>>
  BY IdleTyped DEF Refuse, Working, IInv, Typed, CacheTyped, setup
<1>3. CASE Len(jobs[m][s].left) > 1
  <2> DEFINE l == Tail(jobs[m][s].left)
  <2>0. PICK x : x \in JobOf(L) /\ x = jobs[m][s]
    BY <1>1
  <2>5. PICK j : j = [x EXCEPT !.left = l]
    OBVIOUS
  <2>1. Becomes(m, s, j) /\ UNCHANGED <<row, pipe>>
    BY <1>3, <2>0, <2>5 DEF Refuse, Becomes
  <2> HIDE DEF l
  <2>7. Leaves(x, l, j)
    BY <2>5 DEF Leaves
  <2>6. /\ j \in JobOf(L \cup {l}) /\ j.phase = x.phase
        /\ j.part = x.part /\ j.thumb = x.thumb
    BY <2>0, <2>7, LeftSet
  <2>2. /\ j \in JobOf(L \cup {l}) /\ j.phase = "asked"
        /\ j.part = jobs[m][s].part /\ j.thumb = jobs[m][s].thumb
    BY <1>2, <2>0, <2>6
  <2>3. j # Idle
    BY <2>2, IdleTyped
  <2>4. j.part = "full" => cache'[<<m, "full">>] # "whole" \/ m \in overlap
    BY <1>2, <2>2 DEF IInv, MsgInv, AsksMissing
  <2> QED BY <1>2, <2>1, <2>2, <2>3, <2>4, GoesOn
<1>4. CASE ~(Len(jobs[m][s].left) > 1)
  BY <1>2, <1>4, FailedStep DEF Refuse
<1> QED BY <1>3, <1>4

LEMMA HangStep ==
    ASSUME IInv, NEW m \in Msgs, NEW s \in Slots, Hang(m, s) \/ Wake(m, s)
    PROVE  IInv'
<1>1. PICK L : jobs[m][s] \in JobOf(L)
  BY JobShape DEF IInv, Typed
<1>2. /\ Working(m, s) /\ CacheTyped'
      /\ UNCHANGED <<kind, row, pipe, cache, screen, overlap, forgotten>>
  BY IdleTyped DEF Hang, Wake, Working, IInv, Typed, CacheTyped, setup
<1>3. JobsTyped
  BY DEF IInv, Typed
<1>4. PICK ph \in {"hung", "begin"} : Becomes(m, s, [jobs[m][s] EXCEPT !.phase = ph])
  BY <1>3 DEF Hang, Wake, Becomes, JobsTyped
<1> DEFINE j == [jobs[m][s] EXCEPT !.phase = ph]
<1>5. /\ j \in JobOf(L) /\ j.phase = ph
      /\ j.part = jobs[m][s].part /\ j.thumb = jobs[m][s].thumb
  <2>1. ph \in Phases
    BY DEF Phases
  <2> QED BY <1>1, <2>1, PhaseSet
<1>6. Becomes(m, s, j)
  BY <1>4
<1> HIDE DEF j
<1>7. j # Idle
  BY <1>5, IdleTyped
<1> QED BY <1>2, <1>5, <1>6, <1>7, GoesOn
LEMMA ArriveStep ==
    ASSUME IInv, NEW m \in Msgs, Arrive(m)
    PROVE  IInv'
<1> DEFINE part == IF kind[m].what = "image" THEN "thumb" ELSE "full"
           stored == [Fresh EXCEPT !.path = "stored"]
<1>1. /\ UNCHANGED <<kind, screen, overlap, forgotten>>
      /\ row[m] = Absent /\ screen[m] = Absent /\ \A t \in Slots : jobs[m][t] = Idle
  BY DEF Arrive, setup, IInv, MsgInv, Nothing, Working
<1>2. Fresh \in Shown /\ stored \in Shown /\ stored # Absent
      /\ stored.path = "stored" /\ stored.thumb = "none"
  BY DEF Fresh, Shown, Absent
<1>3. row \in [Msgs -> Shown \cup {Absent}] /\ pipe \in [Msgs -> Seq(Shown)] /\ JobsTyped
  BY DEF IInv, Typed
<1>4. CASE kind[m].what = "voice"
  <2>1. /\ row' = [row EXCEPT ![m] = stored]
        /\ cache' = [cache EXCEPT ![<<m, "full">>] = "whole"]
        /\ pipe' = [pipe EXCEPT ![m] = <<Fresh, stored>>]
        /\ UNCHANGED jobs
    BY <1>4 DEF Arrive
  <2>2. <<Fresh, stored>> \in Seq(Shown) /\ <<Fresh, stored>> # <<>>
        /\ Len(<<Fresh, stored>>) = 2 /\ <<Fresh, stored>>[2] = stored
    BY <1>2
  <2> HIDE DEF stored
  <2>3. JobsTyped'
    BY <1>3, <2>1 DEF JobsTyped
  <2>4. Typed'
    BY <1>1, <1>2, <2>1, <2>2, <2>3 DEF IInv, Typed, CacheTyped, Objects
  <2>5. ASSUME NEW n \in Msgs, n # m PROVE MsgInv(n)'
    <3>1. row'[n] = row[n] /\ pipe'[n] = pipe[n] /\ jobs'[n] = jobs[n]
      BY <1>3, <2>1, <2>5
    <3>2. \A p \in Parts : cache'[<<n, p>>] = cache[<<n, p>>]
      BY <2>1, <2>5 DEF IInv, Typed, CacheTyped, Objects
    <3> QED BY <1>1, <3>1, <3>2, Frame DEF IInv, Parts
  <2>6. /\ row'[m] = stored /\ pipe'[m] = <<Fresh, stored>>
        /\ cache'[<<m, "full">>] = "whole"
    BY <1>3, <2>1 DEF IInv, Typed, CacheTyped, Objects, Parts
  <2>7. \A t \in Slots : ~Working(m, t)' /\ jobs'[m][t] = Idle
    BY <1>1, <2>1 DEF Working
  <2>8. Nothing(m)' /\ LastIsRow(m)' /\ NotLost(m)' /\ Honest(m)'
    BY <1>2, <2>2, <2>6 DEF Nothing, LastIsRow, NotLost, Honest
  <2>9. /\ ThumbFirst(m)' /\ CopyIsRow(m)' /\ VoiceIsInline(m)' /\ TwoOverlap(m)'
        /\ AsksMissing(m)'
    BY <2>7, IdleTyped DEF ThumbFirst, CopyIsRow, VoiceIsInline, TwoOverlap, AsksMissing
  <2> QED BY <1>1, <2>4, <2>5, <2>8, <2>9 DEF IInv, MsgInv
<1>5. CASE kind[m].what # "voice"
  <2>1. /\ row' = [row EXCEPT ![m] = Fresh]
        /\ pipe' = [pipe EXCEPT ![m] = <<Fresh>>]
        /\ Becomes(m, 1, NewJob(part, "none"))
        /\ UNCHANGED cache
    BY <1>5 DEF Arrive, Becomes
  <2>2. part \in Parts /\ (part = "thumb" => kind[m].what = "image")
    BY DEF Parts
  <2> HIDE DEF part
  <2>3. /\ NewJob(part, "none") \in JobOf({<<>>}) /\ NewJob(part, "none") # Idle
        /\ NewJob(part, "none").part = part /\ NewJob(part, "none").thumb = "none"
        /\ NewJob(part, "none").phase = "begin"
    BY <2>2, NewJobTyped
  <2>4. /\ JobsTyped' /\ jobs'[m][1] = NewJob(part, "none")
        /\ \A n \in Msgs, t \in Slots : n # m \/ t # 1 => jobs'[n][t] = jobs[n][t]
    BY <1>3, <2>1, <2>3, BoundAssumption, JobSet
  <2>5. <<Fresh>> \in Seq(Shown) /\ <<Fresh>> # <<>> /\ Len(<<Fresh>>) = 1
        /\ <<Fresh>>[1] = Fresh
    BY <1>2
  <2>6. Typed'
    BY <1>1, <1>2, <2>1, <2>4, <2>5 DEF IInv, Typed, CacheTyped
  <2>7. ASSUME NEW n \in Msgs, n # m PROVE MsgInv(n)'
    <3>1. row'[n] = row[n] /\ pipe'[n] = pipe[n]
      BY <1>3, <2>1, <2>7
    <3> QED BY <1>1, <2>1, <2>4, <2>7, <3>1, Frame DEF IInv
  <2>8. row'[m] = Fresh /\ pipe'[m] = <<Fresh>> /\ 1 \in Slots
    BY <1>3, <2>1, BoundAssumption
  <2>9. \A t \in Slots : t # 1 => ~Working(m, t)' /\ jobs'[m][t] = Idle
    BY <1>1, <2>4 DEF Working
  <2>10. Fresh.path = "none" /\ Fresh.thumb = "none" /\ Fresh # Absent
         /\ screen'[m].path = "absent"
    BY <1>1 DEF Fresh, Absent
  <2>11. Nothing(m)' /\ LastIsRow(m)' /\ NotLost(m)' /\ Honest(m)'
    BY <2>3, <2>4, <2>5, <2>8, <2>10 DEF Nothing, LastIsRow, NotLost, Busy, Honest
  <2>12. ThumbFirst(m)'
    BY <1>1, <2>2, <2>3, <2>4, <2>5, <2>8, <2>9, <2>10, IdleTyped DEF ThumbFirst
  <2>13. CopyIsRow(m)' /\ VoiceIsInline(m)'
    BY <1>1, <1>5, <2>3, <2>4, <2>8, <2>9, <2>10 DEF CopyIsRow, VoiceIsInline
  <2>14. TwoOverlap(m)' /\ AsksMissing(m)'
    BY <2>3, <2>4, <2>9, IdleTyped DEF TwoOverlap, AsksMissing
  <2> QED BY <1>1, <2>6, <2>7, <2>11, <2>12, <2>13, <2>14 DEF IInv, MsgInv
<1> QED BY <1>4, <1>5

LEMMA ShowStep ==
    ASSUME IInv, NEW m \in Msgs, Show(m)
    PROVE  IInv'
<1>1. /\ UNCHANGED <<kind, row, cache, jobs, overlap, forgotten>> /\ pipe[m] # <<>>
      /\ screen' = [screen EXCEPT ![m] = Head(pipe[m])]
      /\ pipe' = [pipe EXCEPT ![m] = Tail(pipe[m])]
  BY DEF Show, setup
<1>2. pipe \in [Msgs -> Seq(Shown)] /\ pipe[m] \in Seq(Shown)
  BY DEF IInv, Typed
<1>3. Len(pipe[m]) \in Nat \ {0} /\ Head(pipe[m]) = pipe[m][1] /\ pipe[m][1] \in Shown
  BY <1>1, <1>2
<1>4. /\ Tail(pipe[m]) \in Seq(Shown) /\ Len(Tail(pipe[m])) = Len(pipe[m]) - 1
      /\ \A i \in 1 .. Len(Tail(pipe[m])) : Tail(pipe[m])[i] = pipe[m][i + 1]
  BY <1>1, <1>2, HeadTailProperties
<1>5. JobsTyped'
  BY <1>1 DEF IInv, Typed, JobsTyped
<1>6. Typed'
  BY <1>1, <1>2, <1>3, <1>4, <1>5 DEF IInv, Typed, CacheTyped
<1>7. ASSUME NEW n \in Msgs, n # m PROVE MsgInv(n)'
  <2>1. screen'[n] = screen[n] /\ pipe'[n] = pipe[n]
    BY <1>1, <1>2, <1>7 DEF IInv, Typed
  <2> QED BY <1>1, <2>1, Frame DEF IInv
<1>8. screen'[m] = pipe[m][1] /\ pipe'[m] = Tail(pipe[m])
  BY <1>1, <1>2, <1>3 DEF IInv, Typed
<1>9. \A t \in Slots : Working(m, t)' <=> Working(m, t)
  BY <1>1 DEF Working
<1>10. MsgInv(m)'
  <2> USE DEF IInv, MsgInv
  <2>1. row[m] # Absent
    BY <1>1 DEF Nothing
  <2>2. LastIsRow(m)'
    <3>1. pipe[m][Len(pipe[m])] = row[m]
      BY <1>1 DEF LastIsRow
    <3>0. /\ Tail(pipe[m]) = <<>> => Len(Tail(pipe[m])) = 0
          /\ Tail(pipe[m]) # <<>> => Len(Tail(pipe[m])) \in Nat \ {0}
      <4> DEFINE q == Tail(pipe[m])
      <4>1. q \in Seq(Shown)
        BY <1>4
      <4> HIDE DEF q
      <4>2. /\ q = <<>> => Len(q) = 0
            /\ q # <<>> => Len(q) \in Nat \ {0}
        BY <4>1, EmptySeq
      <4> QED BY <4>2 DEF q
    <3>2. CASE Tail(pipe[m]) = <<>>
      <4>1. Len(pipe[m]) = 1
        BY <1>3, <1>4, <3>0, <3>2
      <4> QED BY <1>1, <1>8, <3>1, <3>2, <4>1 DEF LastIsRow
    <3>3. CASE Tail(pipe[m]) # <<>>
      <4>1. Len(Tail(pipe[m])) \in Nat \ {0}
        BY <3>3, <3>0, <1>3, <1>4
      <4>2. Tail(pipe[m])[Len(Tail(pipe[m]))] = pipe[m][Len(pipe[m])]
        <5> DEFINE k == Len(Tail(pipe[m]))
        <5> DEFINE l == Len(pipe[m])
        <5>0. k \in Nat \ {0} /\ l \in Nat /\ k = l - 1
          BY <1>3, <1>4, <4>1
        <5> HIDE DEF k, l
        <5>1. k \in 1 .. k /\ k + 1 = l
          BY <5>0
        <5>2. \A i \in 1 .. k : Tail(pipe[m])[i] = pipe[m][i + 1]
          BY <1>4 DEF k
        <5>3. Tail(pipe[m])[k] = pipe[m][l]
          BY <5>1, <5>2
        <5> QED BY <5>3 DEF k, l
      <4> QED BY <1>1, <1>8, <3>1, <3>3, <4>2 DEF LastIsRow
    <3> QED BY <3>2, <3>3
  <2>3. ThumbFirst(m)'
    <3> SUFFICES ASSUME NEW t \in Slots, jobs'[m][t].part = "thumb"
                 PROVE  /\ kind'[m].what = "image" /\ row'[m] = Fresh
                        /\ screen'[m].path \in {"none", "absent"}
                        /\ \A i \in 1 .. Len(pipe'[m]) : pipe'[m][i].path = "none"
                        /\ \A r \in Slots : r # t => ~Working(m, r)'
      BY DEF ThumbFirst
    <3>1. \A i \in 1 .. Len(pipe[m]) : pipe[m][i].path = "none"
      BY <1>1 DEF ThumbFirst
    <3>2. \A i \in 1 .. Len(Tail(pipe[m])) : i + 1 \in 1 .. Len(pipe[m])
      BY <1>3, <1>4
    <3>3. \A i \in 1 .. Len(pipe'[m]) : pipe'[m][i].path = "none"
      BY <1>4, <1>8, <3>1, <3>2
    <3>4. screen'[m].path = "none"
      BY <1>3, <1>8, <3>1
    <3> QED BY <1>1, <1>9, <3>3, <3>4 DEF ThumbFirst
  <2>4. Nothing(m)' /\ VoiceIsInline(m)' /\ TwoOverlap(m)' /\ NotLost(m)' /\ Honest(m)'
    BY <1>1, <1>9, <2>1 DEF Nothing, VoiceIsInline, TwoOverlap, NotLost, Busy, Honest
  <2>5. CopyIsRow(m)' /\ AsksMissing(m)'
    BY <1>1, <1>9 DEF CopyIsRow, AsksMissing
  <2> QED BY <2>2, <2>3, <2>4, <2>5
<1> QED BY <1>1, <1>6, <1>7, <1>10 DEF IInv
LEMMA TapStep ==
    ASSUME IInv, NEW m \in Msgs, Tap(m)
    PROVE  IInv'
<1>1. UNCHANGED <<kind, screen>> /\ Tappable(m)
  BY DEF Tap, setup
<1>2. row \in [Msgs -> Shown \cup {Absent}] /\ pipe \in [Msgs -> Seq(Shown)] /\ JobsTyped
  BY DEF IInv, Typed
<1>3. row[m] \in Shown
  BY <1>1, <1>2 DEF Tappable, IInv, MsgInv, Nothing, Absent
<1>4. ASSUME NEW path \in {"none", "stored"}, NEW r, r = [row[m] EXCEPT !.path = path],
             row' = [row EXCEPT ![m].path = path],
             pipe' = [pipe EXCEPT ![m] = Append(@, r)]
      PROVE  /\ r \in Shown /\ r.path = path /\ r.thumb = row[m].thumb /\ r # Absent
             /\ row' \in [Msgs -> Shown \cup {Absent}] /\ pipe' \in [Msgs -> Seq(Shown)]
             /\ row'[m] = r /\ Nothing(m)' /\ LastIsRow(m)'
             /\ \A n \in Msgs : n # m => row'[n] = row[n] /\ pipe'[n] = pipe[n]
  <2>1. r \in Shown /\ r.path = path /\ r.thumb = row[m].thumb
    BY <1>3, <1>4 DEF Shown
  <2>2. r # Absent
    BY <2>1 DEF Absent
  <2>3. row' = [row EXCEPT ![m] = r]
    BY <1>2, <1>4
  <2>4. pipe[m] \in Seq(Shown) /\ pipe'[m] = Append(pipe[m], r)
    BY <1>2, <1>4
  <2>5. pipe'[m] \in Seq(Shown) /\ pipe'[m] # <<>> /\ pipe'[m][Len(pipe'[m])] = r
    BY <2>1, <2>4, AppendProperties
  <2>6. pipe' \in [Msgs -> Seq(Shown)] /\ \A n \in Msgs : n # m => pipe'[n] = pipe[n]
    BY <1>2, <1>4, <2>4, <2>5
  <2>7. /\ row'[m] = r /\ row' \in [Msgs -> Shown \cup {Absent}]
        /\ \A n \in Msgs : n # m => row'[n] = row[n]
    BY <1>2, <2>1, <2>3
  <2> QED BY <2>1, <2>2, <2>5, <2>6, <2>7 DEF Nothing, LastIsRow
<1>5. CASE kind[m].what = "voice"
  <2>1. /\ row' = [row EXCEPT ![m].path = "stored"]
        /\ cache' = [cache EXCEPT ![<<m, "full">>] = "whole"]
        /\ pipe' = [pipe EXCEPT ![m] = Append(@, [row[m] EXCEPT !.path = "stored"])]
        /\ UNCHANGED <<jobs, overlap, forgotten>>
    BY <1>5 DEF Tap
  <2>2. PICK r : r = [row[m] EXCEPT !.path = "stored"]
    OBVIOUS
  <2>3. pipe' = [pipe EXCEPT ![m] = Append(@, r)]
    BY <2>1, <2>2
  <2>4. /\ r.path = "stored" /\ r.thumb = row[m].thumb
        /\ row' \in [Msgs -> Shown \cup {Absent}] /\ pipe' \in [Msgs -> Seq(Shown)]
        /\ row'[m] = r /\ Nothing(m)' /\ LastIsRow(m)'
        /\ \A n \in Msgs : n # m => row'[n] = row[n] /\ pipe'[n] = pipe[n]
    BY <1>4, <2>1, <2>2, <2>3
  <2>5. /\ CacheTyped' /\ cache'[<<m, "full">>] = "whole"
        /\ cache'[<<m, "thumb">>] = cache[<<m, "thumb">>]
        /\ \A n \in Msgs, p \in Parts : n # m => cache'[<<n, p>>] = cache[<<n, p>>]
    BY <2>1 DEF IInv, Typed, CacheTyped, Objects, Parts
  <2>6. Typed'
    BY <1>1, <1>2, <2>1, <2>4, <2>5 DEF IInv, Typed, JobsTyped
  <2>7. ASSUME NEW n \in Msgs, n # m PROVE MsgInv(n)'
    BY <1>1, <2>1, <2>4, <2>5, <2>7, Frame DEF IInv, Parts
  <2>8. \A t \in Slots : ~Working(m, t)' /\ jobs'[m][t] = Idle
    BY <1>5, <2>1 DEF IInv, MsgInv, VoiceIsInline, Working
  <2>9. NotLost(m)' /\ Honest(m)'
    BY <2>4, <2>5 DEF NotLost, Honest, IInv, MsgInv
  <2>10. /\ ThumbFirst(m)' /\ CopyIsRow(m)' /\ VoiceIsInline(m)' /\ TwoOverlap(m)'
         /\ AsksMissing(m)'
    BY <2>8, IdleTyped DEF ThumbFirst, CopyIsRow, VoiceIsInline, TwoOverlap, AsksMissing
  <2> QED BY <1>1, <2>4, <2>6, <2>7, <2>9, <2>10 DEF IInv, MsgInv
<1>6. CASE kind[m].what # "voice"
  <2>1. PICK s \in Slots :
          /\ jobs[m][s] = Idle
          /\ row' = [row EXCEPT ![m].path = "none"]
          /\ pipe' = [pipe EXCEPT ![m] = Append(@, [row[m] EXCEPT !.path = "none"])]
          /\ Becomes(m, s, NewJob("full", row[m].thumb))
          /\ overlap' = IF Busy(m) THEN overlap \cup {m} ELSE overlap
          /\ forgotten' = forgotten \ {m}
          /\ UNCHANGED cache
    BY <1>6 DEF Tap, Becomes
  <2>2. PICK r : r = [row[m] EXCEPT !.path = "none"]
    OBVIOUS
  <2>3. pipe' = [pipe EXCEPT ![m] = Append(@, r)]
    BY <2>1, <2>2
  <2>4. /\ r.path = "none" /\ r.thumb = row[m].thumb
        /\ row' \in [Msgs -> Shown \cup {Absent}] /\ pipe' \in [Msgs -> Seq(Shown)]
        /\ row'[m] = r /\ Nothing(m)' /\ LastIsRow(m)'
        /\ \A n \in Msgs : n # m => row'[n] = row[n] /\ pipe'[n] = pipe[n]
    BY <1>4, <2>1, <2>2, <2>3
  <2>5. row[m].thumb \in {"none", "stored"}
    BY <1>3 DEF Shown
  <2>6. PICK j : j = NewJob("full", row[m].thumb)
    OBVIOUS
  <2>7. /\ j \in JobOf({<<>>}) /\ j.part = "full" /\ j.thumb = row[m].thumb
        /\ j.phase = "begin" /\ j # Idle
    BY <2>5, <2>6, NewJobTyped DEF Parts
  <2>8. /\ JobsTyped' /\ jobs'[m][s] = j
        /\ \A n \in Msgs, t \in Slots : n # m \/ t # s => jobs'[n][t] = jobs[n][t]
    BY <1>2, <2>1, <2>6, <2>7, JobSet
  <2>9. Typed'
    BY <1>1, <2>1, <2>4, <2>8 DEF IInv, Typed, CacheTyped
  <2>10. ASSUME NEW n \in Msgs, n # m PROVE MsgInv(n)'
    BY <1>1, <2>1, <2>4, <2>8, <2>10, Frame DEF IInv
  <2>11. \A t \in Slots : jobs[m][t].part # "thumb"
    BY <1>1, IdleTyped DEF IInv, MsgInv, ThumbFirst, Tappable
  <2>12. /\ Working(m, s)' /\ Busy(m)'
         /\ \A t \in Slots : t # s => (Working(m, t)' <=> Working(m, t))
    BY <2>7, <2>8 DEF Working, Busy
  <2>13. ThumbFirst(m)'
    BY <2>7, <2>8, <2>11 DEF ThumbFirst
  <2>14. CopyIsRow(m)'
    BY <2>4, <2>7, <2>8, <2>12 DEF CopyIsRow, IInv, MsgInv
  <2>15. VoiceIsInline(m)' /\ NotLost(m)'
    BY <1>1, <1>6, <2>12 DEF VoiceIsInline, NotLost
  <2>16. TwoOverlap(m)'
    <3> SUFFICES ASSUME NEW t \in Slots, NEW u \in Slots, t # u,
                        Working(m, t)', Working(m, u)'
                 PROVE  m \in overlap'
      BY DEF TwoOverlap
    <3>1. CASE t = s \/ u = s
      BY <2>1, <2>12, <3>1 DEF Busy, Working
    <3>2. CASE t # s /\ u # s
      BY <2>1, <2>12, <3>2 DEF TwoOverlap, IInv, MsgInv
    <3> QED BY <3>1, <3>2
  <2>17. AsksMissing(m)'
    BY <2>1, <2>7, <2>8 DEF AsksMissing, IInv, MsgInv
  <2>18. Honest(m)'
    BY <2>1, <2>4 DEF Honest, IInv, MsgInv
  <2> QED
    BY <1>1, <2>4, <2>9, <2>10, <2>13, <2>14, <2>15, <2>16, <2>17, <2>18 DEF IInv, MsgInv
<1> QED BY <1>5, <1>6

LEMMA RestartStep ==
    ASSUME IInv, Restart
    PROVE  IInv'
<1>1. /\ UNCHANGED <<kind, row, cache, overlap>> /\ screen' = row
      /\ jobs' = [m \in Msgs |-> [s \in Slots |-> Idle]]
      /\ forgotten' = forgotten \cup {m \in Msgs : Busy(m)}
      /\ pipe' = [m \in Msgs |-> <<>>]
  BY DEF Restart, setup
<1>2. JobsTyped' /\ \A m \in Msgs, s \in Slots : jobs'[m][s] = Idle
  BY <1>1, IdleTyped DEF JobsTyped
<1>3. Typed'
  BY <1>1, <1>2 DEF IInv, Typed, CacheTyped
<1>4. ASSUME NEW m \in Msgs PROVE MsgInv(m)'
  <2>1. row'[m] = row[m] /\ screen'[m] = row[m] /\ pipe'[m] = <<>>
        /\ \A t \in Slots : ~Working(m, t)' /\ jobs'[m][t] = Idle
    BY <1>1, <1>2 DEF Working
  <2>2. Nothing(m)' /\ LastIsRow(m)' /\ Honest(m)'
    BY <1>1, <2>1 DEF Nothing, LastIsRow, Honest, IInv, MsgInv
  <2>3. NotLost(m)'
    BY <1>1, <2>1 DEF NotLost, IInv, MsgInv
  <2>4. /\ ThumbFirst(m)' /\ CopyIsRow(m)' /\ VoiceIsInline(m)' /\ TwoOverlap(m)'
        /\ AsksMissing(m)'
    BY <2>1, IdleTyped DEF ThumbFirst, CopyIsRow, VoiceIsInline, TwoOverlap, AsksMissing
  <2> QED BY <2>2, <2>3, <2>4 DEF MsgInv
<1> QED BY <1>1, <1>3, <1>4 DEF IInv

\* The sender, the settings and a step of nothing leave the reader as it is.
LEMMA OtherStep ==
    ASSUME IInv, UNCHANGED <<kind, reading>>
    PROVE  IInv'
<1>1. UNCHANGED <<kind, row, cache, jobs, pipe, screen, overlap, forgotten>>
  BY DEF reading
<1>2. Typed'
  BY <1>1 DEF IInv, Typed, CacheTyped, JobsTyped
<1>3. \A n \in Msgs : MsgInv(n)'
  BY <1>1, Frame DEF IInv
<1> QED BY <1>1, <1>2, <1>3 DEF IInv

LEMMA StepHolds == IInv /\ [Next]_vars => IInv'
<1> SUFFICES ASSUME IInv, [Next]_vars PROVE IInv'
  OBVIOUS
<1>1. ASSUME NEW side \in {"sender", "reader"}, NEW list \in Lists, Configure(side, list)
      PROVE  IInv'
  BY <1>1, OtherStep DEF Configure
<1>2. ASSUME NEW m \in Msgs, UploadStep(m) PROVE IInv'
  BY <1>2, OtherStep DEF UploadStep, Send, UploadTaken, UploadRefused, setup
<1>3. ASSUME NEW m \in Msgs, Arrive(m) \/ Show(m) \/ Tap(m) PROVE IInv'
  BY <1>3, ArriveStep, ShowStep, TapStep
<1>4. ASSUME NEW m \in Msgs, NEW s \in Slots,
             JobStep(m, s) \/ WriteFails(m, s) \/ Hang(m, s)
      PROVE  IInv'
  BY <1>4, LookStep, DeliverStep, RefuseStep, WriteFailsStep, HangStep DEF JobStep
<1>5. CASE UNCHANGED vars
  BY <1>5, OtherStep DEF vars, reading
<1> QED BY <1>1, <1>2, <1>3, <1>4, <1>5, RestartStep DEF Next

LEMMA IInvAlways == Spec => []IInv
BY InitHolds, StepHolds, PTL DEF Spec

\* However taps, late failures, cache hits and restarts fall together, a row without
\* its file has a job that will fill it, or the restart that ended it is on record.
THEOREM NoLostDownloadAlways == Spec => []NoLostDownload
BY IInvAlways, Suffices, PTL

\* A row never names a file that is not in the cache, whichever of the jobs of a message
\* stores the last word; and its failure marker is never a lie unless two of them ran.
THEOREM RowIsHonestAlways == Spec => []RowIsHonest
BY IInvAlways, Suffices, PTL

\* However the copies pushed by several jobs mix, the last one shown is the row: no job
\* holds a copy that has missed a change of the thumbnail.
THEOREM ScreenIsRowAlways == Spec => []ScreenIsRow
BY IInvAlways, Suffices, PTL

-----------------------------------------------------------------------------
(* The order in which gateways are asked. *)

\* A set of naturals that has 0 and with each number the next has them all.
LEMMA AllNaturals ==
    ASSUME NEW A, 0 \in A, \A n \in Nat : n \in A => n + 1 \in A
    PROVE  Nat \subseteq A
<1> DEFINE R == OpToRel(<, Nat)
           Rest == Nat \ A
<1>1. IsWellFoundedOn(R, Nat)  BY NatLessThanWellFounded
<1>2. SUFFICES ASSUME Rest # {} PROVE FALSE  OBVIOUS
<1>3. Rest \subseteq Nat  OBVIOUS
<1>4. PICK x \in Rest : \A y \in Rest : ~(<<y, x>> \in R)
    <2> HIDE DEF R, Rest
    <2> QED  BY <1>1, <1>2, <1>3, WFMin
<1>5. x \in Nat /\ x \notin A /\ x # 0  OBVIOUS
<1>6. x - 1 \in Nat /\ x - 1 < x /\ (x - 1) + 1 = x  BY <1>5
<1>7. x - 1 \in A
    <2>1. SUFFICES ASSUME x - 1 \in Rest PROVE FALSE  BY <1>6
    <2>2. <<x - 1, x>> \in R  BY <1>5, <1>6 DEF OpToRel
    <2> QED  BY <1>4, <2>1, <2>2
<1> QED  BY <1>5, <1>6, <1>7

\* f counts up to n, keeping the elements of S.
Counts(f, list, S, n) ==
    f = [k \in 0 .. n |->
            IF k = 0 THEN <<>>
            ELSE IF list[k] \in S THEN Append(f[k - 1], list[k]) ELSE f[k - 1]]

LEMMA Extended ==
    ASSUME NEW list, NEW S, NEW n \in Nat, NEW f, Counts(f, list, S, n)
    PROVE  \E g : Counts(g, list, S, n + 1)
<1> DEFINE last == IF list[n + 1] \in S THEN Append(f[n], list[n + 1]) ELSE f[n]
<1> DEFINE g == [k \in 0 .. n + 1 |-> IF k = n + 1 THEN last ELSE f[k]]
<1>1. \A k \in 0 .. n : f[k] = IF k = 0 THEN <<>>
                       ELSE IF list[k] \in S THEN Append(f[k - 1], list[k]) ELSE f[k - 1]
    BY DEF Counts
<1> HIDE DEF last
<1>2. \A k \in 0 .. n : k \in 0 .. n + 1 /\ k # n + 1 /\ g[k] = f[k]  OBVIOUS
<1>3. g[n + 1] = last  OBVIOUS
<1>4. ASSUME NEW k \in 0 .. n + 1
      PROVE  g[k] = IF k = 0 THEN <<>>
                    ELSE IF list[k] \in S THEN Append(g[k - 1], list[k]) ELSE g[k - 1]
    <2> HIDE DEF g
    <2>1. CASE k = n + 1
        <3>1. n \in 0 .. n /\ k # 0 /\ k - 1 = n  BY <2>1
        <3>2. g[n] = f[n]  BY <1>2, <3>1
        <3> QED  BY <1>3, <2>1, <3>1, <3>2 DEF last
    <2>2. CASE k # n + 1
        <3>1. k \in 0 .. n  BY <2>2
        <3>2. CASE k = 0  BY <1>1, <1>2, <3>1, <3>2
        <3>3. CASE k # 0
            <4>1. k - 1 \in 0 .. n  BY <3>1, <3>3
            <4>2. g[k - 1] = f[k - 1] /\ g[k] = f[k]  BY <1>2, <3>1, <4>1
            <4> QED  BY <1>1, <3>1, <3>3, <4>2
        <3> QED  BY <3>2, <3>3
    <2> QED  BY <2>1, <2>2
<1>5. g = [k \in 0 .. n + 1 |->
             IF k = 0 THEN <<>>
             ELSE IF list[k] \in S THEN Append(g[k - 1], list[k]) ELSE g[k - 1]]
    <2>1. g = [k \in 0 .. n + 1 |-> g[k]]  OBVIOUS
    <2> HIDE DEF g
    <2> QED  BY <1>4, <2>1
<1> HIDE DEF g
<1> QED  BY <1>5 DEF Counts

LEMMA CountsExist ==
    ASSUME NEW list, NEW S PROVE \A n \in Nat : \E f : Counts(f, list, S, n)
<1> DEFINE A == {n \in Nat : \E f : Counts(f, list, S, n)}
<1>1. 0 \in A
    <2>1. PICK f : f = [k \in 0 .. 0 |-> <<>>]  OBVIOUS
    <2>2. Counts(f, list, S, 0)  BY <2>1 DEF Counts
    <2> QED  BY <2>2
<1>2. \A n \in Nat : n \in A => n + 1 \in A  BY Extended
<1> HIDE DEF A
<1>3. Nat \subseteq A  BY <1>1, <1>2, AllNaturals
<1> QED  BY <1>3 DEF A

\* What is kept of a list is made of its elements, and is something if one of them is in S.
LEMMA KeptType ==
    ASSUME NEW T, NEW list \in Seq(T), NEW S
    PROVE  /\ Kept(list, S) \in Seq(T)
           /\ \A i \in 1 .. Len(list) : list[i] \in S => Kept(list, S) # <<>>
<1>1. PICK m \in Nat : m = Len(list)  BY LenProperties
<1>2. PICK f : f = CHOOSE g : Counts(g, list, S, m)  OBVIOUS
<1>3. Counts(f, list, S, m)  BY <1>2, CountsExist
<1>4. Kept(list, S) = f[m]  BY <1>1, <1>2 DEF Kept, Counts
<1> DEFINE A == {n \in Nat : n <= m => /\ f[n] \in Seq(T)
                                       /\ \A i \in 1 .. n : list[i] \in S => f[n] # <<>>}
<1>5. \A k \in 0 .. m : f[k] = IF k = 0 THEN <<>>
                       ELSE IF list[k] \in S THEN Append(f[k - 1], list[k]) ELSE f[k - 1]
    BY <1>3 DEF Counts
<1>6. 0 \in A
    <2>1. 0 \in 0 .. m  OBVIOUS
    <2>2. f[0] = <<>>  BY <1>5, <2>1
    <2>3. f[0] \in Seq(T)  BY <2>2, EmptySeq
    <2>4. \A i \in 1 .. 0 : list[i] \in S => f[0] # <<>>  OBVIOUS
    <2> QED  BY <2>3, <2>4
<1>7. ASSUME NEW n \in Nat, n \in A PROVE n + 1 \in A
    <2> SUFFICES ASSUME n + 1 <= m
                 PROVE  /\ f[n + 1] \in Seq(T)
                        /\ \A i \in 1 .. n + 1 : list[i] \in S => f[n + 1] # <<>>
        OBVIOUS
    <2>1. n <= m /\ n + 1 \in 0 .. m /\ n + 1 # 0 /\ (n + 1) - 1 = n  OBVIOUS
    <2>2. f[n] \in Seq(T) /\ \A i \in 1 .. n : list[i] \in S => f[n] # <<>>  BY <1>7, <2>1
    <2>3. f[n + 1] = IF list[n + 1] \in S THEN Append(f[n], list[n + 1]) ELSE f[n]
        BY <1>5, <2>1
    <2>4. list[n + 1] \in T
        <3>1. n + 1 \in 1 .. Len(list)  BY <1>1
        <3> QED  BY <3>1, ElementOfSeq
    <2>5. CASE list[n + 1] \in S
        <3>1. f[n + 1] = Append(f[n], list[n + 1])  BY <2>3, <2>5
        <3>2. f[n + 1] \in Seq(T) /\ Len(f[n + 1]) = Len(f[n]) + 1
            BY <2>2, <2>4, <3>1, AppendProperties
        <3>3. f[n + 1] # <<>>
            <4>1. Len(f[n]) \in Nat  BY <2>2, LenProperties
            <4>2. Len(f[n + 1]) # 0  BY <3>2, <4>1
            <4> QED  BY <4>2, EmptySeq
        <3> QED  BY <3>2, <3>3
    <2>6. CASE list[n + 1] \notin S
        <3>1. \A i \in 1 .. n + 1 : i = n + 1 \/ i \in 1 .. n  OBVIOUS
        <3> QED  BY <2>2, <2>3, <2>6, <3>1
    <2> QED  BY <2>5, <2>6
<1> HIDE DEF A
<1>8. Nat \subseteq A  BY <1>6, <1>7, AllNaturals
<1>9. m \in A  BY <1>8
<1> QED  BY <1>1, <1>4, <1>9 DEF A

\* Whoever is named and whatever is configured, somebody is asked.
LEMMA OrderType ==
    ASSUME NEW host \in Hosts \cup {Nobody}, NEW list \in Lists
    PROVE  Order(host, list) \in Seq(Hosts) \ {<<>>}
<1>1. list \in Seq(Hosts) /\ list # <<>> /\ DOMAIN list = 1 .. Len(list)
  BY ListsAssumption
<1>2. CASE \E i \in DOMAIN list : list[i] = host
  <2>1. PICK a : a = Kept(list, {host})
    OBVIOUS
  <2>2. PICK b : b = Kept(list, Hosts \ {host})
    OBVIOUS
  <2>3. a \in Seq(Hosts)
    BY <1>1, <2>1, KeptType
  <2>4. a # <<>>
    <3>1. PICK i \in 1 .. Len(list) : list[i] \in {host}
      BY <1>1, <1>2
    <3> QED BY <1>1, <2>1, <3>1, KeptType
  <2>5. b \in Seq(Hosts)
    BY <1>1, <2>2, KeptType
  <2>6. a \o b \in Seq(Hosts)
    BY <2>3, <2>5, ConcatProperties
  <2>7. a \o b # <<>>
    BY <2>3, <2>4, <2>5, ConcatEqualIffEmpty
  <2>8. Order(host, list) = a \o b
    BY <1>2, <2>1, <2>2 DEF Order
  <2> QED BY <2>6, <2>7, <2>8
<1>3. CASE /\ ~(\E i \in DOMAIN list : list[i] = host)
           /\ host \in Hosts \ Private
  <2>1. Order(host, list) = <<host>> \o list
    BY <1>3 DEF Order
  <2>2. <<host>> \in Seq(Hosts)
    BY <1>3
  <2>3. <<host>> \o list \in Seq(Hosts)
    BY <1>1, <2>2, ConcatProperties
  <2>4. <<host>> \o list # <<>>
    BY <1>1, <2>2, ConcatEqualIffEmpty
  <2> QED BY <2>1, <2>3, <2>4
<1>4. CASE ~(\E i \in DOMAIN list : list[i] = host) /\ host \notin Hosts \ Private
  <2>1. Order(host, list) = list
    BY <1>4 DEF Order
  <2> QED BY <1>1, <2>1
<1> QED BY <1>2, <1>3, <1>4

-----------------------------------------------------------------------------
(* Types, with the gateways. *)

WellAsked(j) == j \in Job \cup {Idle} /\ (j.phase = "asked" => j.left # <<>>)
JobsSound == /\ jobs \in [Msgs -> [Slots -> Job \cup {Idle}]]
             /\ \A m \in Msgs, s \in Slots : WellAsked(jobs[m][s])
Uploading == [step : {"idle", "thumb", "full", "sent", "failed"}, left : Seq(Hosts)]
Sends(u) == u \in Uploading /\ (u.step \in Parts => u.left # <<>>)
UploadsSound == /\ upload \in [Msgs -> Uploading]
                /\ \A m \in Msgs : Sends(upload[m])
ListsTyped == lists \in [{"sender", "reader"} -> Lists]
HeldTyped == held \in [Hosts -> SUBSET Objects]
NamedTyped == named \in [Msgs -> Hosts \cup {Nobody}]
MarksTyped == overlap \subseteq Msgs /\ forgotten \subseteq Msgs
TallyTyped == tally \in 0 .. Limit

SenderTyped == ListsTyped /\ HeldTyped /\ UploadsSound /\ NamedTyped
TInv == IInv /\ SenderTyped /\ JobsSound /\ MarksTyped /\ TallyTyped

LEMMA TSuffices == TInv => TypeOK
BY DEF TInv, IInv, Typed, CacheTyped, SenderTyped, JobsSound, WellAsked, UploadsSound, Sends,
   Uploading, ListsTyped, HeldTyped, NamedTyped, MarksTyped, TallyTyped, TypeOK

LEMMA Configured ==
    ASSUME NEW list \in Lists
    PROVE  list \in Seq(Hosts) /\ list # <<>> /\ Head(list) \in Hosts
<1>1. list \in Seq(Hosts) /\ list # <<>>
  BY ListsAssumption
<1> QED BY <1>1, HeadTailProperties

LEMMA IdleAsks == WellAsked(Idle)
BY DEF WellAsked, Idle

LEMMA NewJobAsks ==
    ASSUME NEW part \in Parts, NEW thumb \in {"none", "stored"}
    PROVE  WellAsked(NewJob(part, thumb))
<1>1. <<>> \in Seq(Hosts)
  BY EmptySeq
<1>2. 1 \in 1 .. Tries
  BY BoundAssumption
<1> QED BY <1>1, <1>2 DEF WellAsked, NewJob, Job

\* One job is replaced by a sound one.
LEMMA OneJob ==
    ASSUME JobsSound, NEW m \in Msgs, NEW s \in Slots, NEW j, WellAsked(j), Becomes(m, s, j)
    PROVE  JobsSound'
<1>1. j \in Job \cup {Idle}
  BY DEF WellAsked
<1>2. jobs' \in [Msgs -> [Slots -> Job \cup {Idle}]]
  BY <1>1 DEF JobsSound, Becomes
<1>3. ASSUME NEW n \in Msgs, NEW t \in Slots PROVE WellAsked(jobs'[n][t])
  <2>1. CASE n = m /\ t = s
    BY <2>1 DEF JobsSound, Becomes
  <2>2. CASE ~(n = m /\ t = s)
    <3>1. jobs'[n][t] = jobs[n][t]
      BY <2>2 DEF JobsSound, Becomes
    <3> QED BY <3>1 DEF JobsSound
  <2> QED BY <2>1, <2>2
<1> QED BY <1>2, <1>3 DEF JobsSound

LEMMA Spent ==
    ASSUME TallyTyped, Spend PROVE TallyTyped'
BY BoundAssumption DEF TallyTyped, Spend

\* A job that is not idle.
LEMMA AtWork ==
    ASSUME JobsSound, NEW m \in Msgs, NEW s \in Slots, jobs[m][s].phase # "idle"
    PROVE  jobs[m][s] \in Job /\ WellAsked(jobs[m][s])
BY DEF JobsSound, Idle

LEMMA SettleSound ==
    ASSUME JobsSound, NEW m \in Msgs, NEW s \in Slots, NEW path, Settle(m, s, path)
    PROVE  JobsSound'
<1>1. Becomes(m, s, Idle)
  BY DEF Settle, Becomes
<1> QED BY <1>1, IdleAsks, OneJob

LEMMA StoredSound ==
    ASSUME JobsSound, NEW m \in Msgs, NEW s \in Slots, Stored(m, s)
    PROVE  JobsSound'
<1>1. CASE jobs[m][s].part = "thumb"
  <2>1. Becomes(m, s, NewJob("full", "stored"))
    BY <1>1 DEF Stored, Becomes
  <2> QED BY <2>1, NewJobAsks, OneJob DEF Parts
<1>2. CASE jobs[m][s].part # "thumb"
  BY <1>2, SettleSound DEF Stored
<1> QED BY <1>1, <1>2

LEMMA AgainAsks ==
    ASSUME NEW j \in Job, j.attempt < Tries
    PROVE  WellAsked(Again(j))
<1>1. j.attempt + 1 \in 1 .. Tries
  BY BoundAssumption DEF Job
<1>2. <<>> \in Seq(Hosts)
  BY EmptySeq
<1>3. Again(j) = [j EXCEPT !.phase = "resting", !.attempt = j.attempt + 1, !.left = <<>>]
  BY DEF Again, NextAttempt
<1>4. Again(j) \in Job /\ Again(j).phase = "resting"
  BY <1>1, <1>2, <1>3 DEF Job
<1> QED BY <1>4 DEF WellAsked

LEMMA FailedSound ==
    ASSUME JobsSound, NEW m \in Msgs, NEW s \in Slots, jobs[m][s].phase # "idle",
           Failed(m, s)
    PROVE  JobsSound'
<1>1. jobs[m][s] \in Job
  BY AtWork
<1>2. CASE Becomes(m, s, NewJob("full", "none"))
  BY <1>2, NewJobAsks, OneJob DEF Parts
<1>3. CASE jobs[m][s].attempt < Tries /\ Becomes(m, s, Again(jobs[m][s]))
  BY <1>1, <1>3, AgainAsks, OneJob
<1>4. CASE Settle(m, s, Marker)
  BY <1>4, SettleSound
<1> QED BY <1>2, <1>3, <1>4 DEF Failed, Becomes

LEMMA LookSound ==
    ASSUME TInv, NEW m \in Msgs, NEW s \in Slots, Look(m, s)
    PROVE  JobsSound'
<1>0. JobsSound
  BY DEF TInv
<1>1. CASE Stored(m, s)
  BY <1>0, <1>1, StoredSound
<1>2. CASE ~Stored(m, s)
  <2>1. PICK j : j = jobs[m][s]
    OBVIOUS
  <2>2. PICK q : q = Order(named[m], lists["reader"])
    OBVIOUS
  <2>3. Becomes(m, s, [j EXCEPT !.phase = "asked", !.left = q]) /\ j.phase = "begin"
    BY <1>2, <2>1, <2>2 DEF Look, Becomes
  <2>4. named[m] \in Hosts \cup {Nobody} /\ lists["reader"] \in Lists
    BY DEF TInv, SenderTyped, NamedTyped, ListsTyped
  <2>5. q \in Seq(Hosts) /\ q # <<>>
    BY <2>2, <2>4, OrderType
  <2>6. j \in Job
    BY <1>0, <2>1, <2>3, AtWork
  <2>7. WellAsked([j EXCEPT !.phase = "asked", !.left = q])
    BY <2>5, <2>6 DEF WellAsked, Job
  <2> QED BY <1>0, <2>3, <2>7, OneJob
<1> QED BY <1>1, <1>2

LEMMA RefuseSound ==
    ASSUME TInv, NEW m \in Msgs, NEW s \in Slots, Refuse(m, s)
    PROVE  JobsSound'
<1>0. JobsSound
  BY DEF TInv
<1>1. PICK j : j = jobs[m][s]
  OBVIOUS
<1>2. j.phase = "asked"
  BY <1>1 DEF Refuse
<1>3. j \in Job /\ j.left # <<>>
  BY <1>0, <1>1, <1>2, AtWork DEF WellAsked
<1>4. CASE Len(j.left) > 1
  <2>1. PICK q : q = Tail(j.left)
    OBVIOUS
  <2>2. j.left \in Seq(Hosts)
    BY <1>3 DEF Job
  <2>3. q \in Seq(Hosts) /\ Len(q) = Len(j.left) - 1 /\ Len(j.left) \in Nat
    BY <1>3, <2>1, <2>2, HeadTailProperties, LenProperties
  <2>4. q # <<>>
    <3>1. PICK k \in Nat : k = Len(j.left)
      BY <2>3
    <3>2. k > 1 /\ Len(q) = k - 1
      BY <1>4, <2>3, <3>1
    <3>3. Len(q) # 0
      BY <3>2
    <3> QED BY <3>3, EmptySeq
  <2>5. Becomes(m, s, [j EXCEPT !.left = q])
    BY <1>1, <1>4, <2>1 DEF Refuse, Becomes
  <2>6. WellAsked([j EXCEPT !.left = q])
    BY <1>3, <2>3, <2>4 DEF WellAsked, Job
  <2> QED BY <1>0, <2>5, <2>6, OneJob
<1>5. CASE ~(Len(j.left) > 1)
  <2>1. Failed(m, s)
    BY <1>1, <1>5 DEF Refuse
  <2> QED BY <1>0, <1>1, <1>2, <2>1, FailedSound
<1> QED BY <1>4, <1>5

\* The phase of a job changes, to one in which nothing is asked.
LEMMA PhaseSound ==
    ASSUME JobsSound, NEW m \in Msgs, NEW s \in Slots, NEW phase \in {"hung", "begin"},
           jobs[m][s].phase # "idle", jobs' = [jobs EXCEPT ![m][s].phase = phase]
    PROVE  JobsSound'
<1>1. PICK j : j = jobs[m][s]
  OBVIOUS
<1>2. j \in Job
  BY <1>1, AtWork
<1>3. WellAsked([j EXCEPT !.phase = phase])
  BY <1>2 DEF WellAsked, Job
<1>4. Becomes(m, s, [j EXCEPT !.phase = phase])
  BY <1>1 DEF Becomes, JobsSound
<1> QED BY <1>3, <1>4, OneJob

LEMMA ArriveSound ==
    ASSUME TInv, NEW m \in Msgs, Arrive(m)
    PROVE  JobsSound'
<1>0. JobsSound
  BY DEF TInv
<1>1. CASE kind[m].what = "voice"
  BY <1>0, <1>1 DEF Arrive, JobsSound
<1>2. CASE kind[m].what # "voice"
  <2>1. PICK part : part = IF kind[m].what = "image" THEN "thumb" ELSE "full"
    OBVIOUS
  <2>2. part \in Parts
    BY <2>1 DEF Parts
  <2>3. Becomes(m, 1, NewJob(part, "none"))
    BY <1>2, <2>1 DEF Arrive, Becomes
  <2>4. 1 \in Slots
    BY BoundAssumption
  <2> QED BY <1>0, <2>2, <2>3, <2>4, NewJobAsks, OneJob
<1> QED BY <1>1, <1>2

LEMMA TapSound ==
    ASSUME TInv, NEW m \in Msgs, Tap(m)
    PROVE  JobsSound' /\ MarksTyped'
<1>0. JobsSound /\ MarksTyped
  BY DEF TInv
<1>1. CASE kind[m].what = "voice"
  BY <1>0, <1>1 DEF Tap, JobsSound, MarksTyped
<1>2. CASE kind[m].what # "voice"
  <2>1. PICK s \in Slots :
          /\ Becomes(m, s, NewJob("full", row[m].thumb))
          /\ overlap' = IF Busy(m) THEN overlap \cup {m} ELSE overlap
          /\ forgotten' = forgotten \ {m}
    BY <1>2 DEF Tap, Becomes
  <2>2. row[m].thumb \in {"none", "stored"}
    BY DEF TInv, IInv, Typed, Shown, Absent
  <2>3. JobsSound'
    BY <1>0, <2>1, <2>2, NewJobAsks, OneJob DEF Parts
  <2>4. MarksTyped'
    BY <1>0, <2>1 DEF MarksTyped
  <2> QED BY <2>3, <2>4
<1> QED BY <1>1, <1>2

-----------------------------------------------------------------------------
(* The sender. *)

LEMMA OneUpload ==
    ASSUME UploadsSound, NEW m \in Msgs, NEW u, Sends(u), upload' = [upload EXCEPT ![m] = u]
    PROVE  UploadsSound'
<1>1. u \in Uploading
  BY DEF Sends
<1>2. upload' \in [Msgs -> Uploading]
  BY <1>1 DEF UploadsSound
<1>3. ASSUME NEW n \in Msgs PROVE Sends(upload'[n])
  BY DEF UploadsSound
<1> QED BY <1>2, <1>3 DEF UploadsSound

LEMMA Uploads ==
    /\ \A list \in Lists, part \in Parts : Sends([step |-> part, left |-> list])
    /\ Sends([step |-> "sent", left |-> <<>>])
    /\ Sends([step |-> "failed", left |-> <<>>])
    /\ Sends([step |-> "idle", left |-> <<>>])
<1>1. \A list \in Lists : list \in Seq(Hosts) /\ list # <<>>
  BY Configured
<1>2. <<>> \in Seq(Hosts)
  BY EmptySeq
<1> QED BY <1>1, <1>2 DEF Sends, Uploading, Parts

LEMMA SendSound ==
    ASSUME SenderTyped, NEW m \in Msgs, Send(m)
    PROVE  SenderTyped'
<1>1. UploadsSound /\ lists["sender"] \in Lists
  BY DEF SenderTyped, ListsTyped
<1>2. PICK u : u = CASE kind[m].what = "image" -> [step |-> "thumb", left |-> lists["sender"]]
                     [] kind[m].what = "voice" -> [step |-> "sent", left |-> <<>>]
                     [] OTHER -> [step |-> "full", left |-> lists["sender"]]
  OBVIOUS
<1>3. \/ u = [step |-> "thumb", left |-> lists["sender"]]
      \/ u = [step |-> "sent", left |-> <<>>]
      \/ u = [step |-> "full", left |-> lists["sender"]]
  BY <1>2
<1>4. Sends(u)
  BY <1>1, <1>3, Uploads DEF Parts
<1>5. upload' = [upload EXCEPT ![m] = u] /\ UNCHANGED <<lists, held, named>>
  BY <1>2 DEF Send, setup
<1>6. UploadsSound'
  BY <1>1, <1>4, <1>5, OneUpload
<1> QED BY <1>5, <1>6 DEF SenderTyped, ListsTyped, HeldTyped, NamedTyped

LEMMA TakenSound ==
    ASSUME SenderTyped, NEW m \in Msgs, UploadTaken(m)
    PROVE  SenderTyped'
<1>1. UploadsSound /\ lists["sender"] \in Lists
  BY DEF SenderTyped, ListsTyped
<1>2. Head(lists["sender"]) \in Hosts
  BY <1>1, Configured
<1>3. PICK h : h = Head(upload[m].left)
  OBVIOUS
<1>4. upload[m].step \in Parts /\ held' = [held EXCEPT ![h] = @ \cup {<<m, upload[m].step>>}]
      /\ UNCHANGED lists
  BY <1>3 DEF UploadTaken, setup
<1>5. HeldTyped'
  <2>1. held \in [Hosts -> SUBSET Objects]
    BY DEF SenderTyped, HeldTyped
  <2>2. PICK o : o = <<m, upload[m].step>>
    OBVIOUS
  <2>3. o \in Objects
    BY <1>4, <2>2 DEF Objects
  <2>4. held' = [held EXCEPT ![h] = held[h] \cup {o}]
    BY <1>4, <2>2
  <2>5. held' \in [Hosts -> SUBSET Objects]
    BY <2>1, <2>3, <2>4
  <2> QED BY <2>5 DEF HeldTyped
<1>6. CASE upload[m].step = "thumb"
  <2>1. upload' = [upload EXCEPT ![m] = [step |-> "full", left |-> lists["sender"]]]
        /\ UNCHANGED named
    BY <1>6 DEF UploadTaken
  <2>2. UploadsSound'
    BY <1>1, <2>1, Uploads, OneUpload DEF Parts
  <2> QED BY <1>4, <1>5, <2>1, <2>2 DEF SenderTyped, ListsTyped, NamedTyped
<1>7. CASE upload[m].step # "thumb"
  <2>1. upload' = [upload EXCEPT ![m] = [step |-> "sent", left |-> <<>>]]
        /\ named' = [named EXCEPT ![m] = Head(lists["sender"])]
    BY <1>7 DEF UploadTaken
  <2>2. UploadsSound'
    BY <1>1, <2>1, Uploads, OneUpload
  <2>3. NamedTyped'
    BY <1>2, <2>1 DEF SenderTyped, NamedTyped
  <2> QED BY <1>4, <1>5, <2>2, <2>3 DEF SenderTyped, ListsTyped
<1> QED BY <1>6, <1>7

LEMMA RefusedSound ==
    ASSUME SenderTyped, NEW m \in Msgs, UploadRefused(m)
    PROVE  SenderTyped'
<1>1. PICK u : u = upload[m]
  OBVIOUS
<1>2. UploadsSound /\ u.step \in Parts /\ u \in Uploading /\ u.left # <<>>
  BY <1>1 DEF SenderTyped, UploadsSound, Sends, UploadRefused
<1>3. UNCHANGED <<lists, held, named>>
  BY DEF UploadRefused, setup
<1>4. CASE Len(u.left) > 1
  <2>1. PICK q : q = Tail(u.left)
    OBVIOUS
  <2>2. u.left \in Seq(Hosts)
    BY <1>2 DEF Uploading
  <2>3. q \in Seq(Hosts) /\ Len(q) = Len(u.left) - 1 /\ Len(u.left) \in Nat
    BY <1>2, <2>1, <2>2, HeadTailProperties, LenProperties
  <2>4. q # <<>>
    <3>1. PICK k \in Nat : k = Len(u.left)
      BY <2>3
    <3>2. k > 1 /\ Len(q) = k - 1
      BY <1>4, <2>3, <3>1
    <3>3. Len(q) # 0
      BY <3>2
    <3> QED BY <3>3, EmptySeq
  <2>5. upload' = [upload EXCEPT ![m] = [u EXCEPT !.left = q]]
    BY <1>1, <1>4, <2>1 DEF UploadRefused
  <2>6. Sends([u EXCEPT !.left = q])
    BY <1>2, <2>3, <2>4 DEF Sends, Uploading
  <2>7. UploadsSound'
    BY <1>2, <2>5, <2>6, OneUpload
  <2> QED BY <1>3, <2>7 DEF SenderTyped, ListsTyped, HeldTyped, NamedTyped
<1>5. CASE ~(Len(u.left) > 1)
  <2>1. upload' = [upload EXCEPT ![m] = [step |-> "failed", left |-> <<>>]]
    BY <1>1, <1>5 DEF UploadRefused
  <2>2. UploadsSound'
    BY <1>2, <2>1, Uploads, OneUpload
  <2> QED BY <1>3, <2>2 DEF SenderTyped, ListsTyped, HeldTyped, NamedTyped
<1> QED BY <1>4, <1>5

LEMMA SenderSame ==
    ASSUME SenderTyped, UNCHANGED <<lists, held, upload, named>> PROVE SenderTyped'
BY DEF SenderTyped, ListsTyped, HeldTyped, UploadsSound, NamedTyped

LEMMA ReaderSame ==
    ASSUME JobsSound, MarksTyped, UNCHANGED <<jobs, overlap, forgotten>>
    PROVE  JobsSound' /\ MarksTyped'
BY DEF JobsSound, MarksTyped

LEMMA TInitHolds == Init => TInv
<1> SUFFICES ASSUME Init PROVE TInv
  OBVIOUS
<1>1. UploadsSound
  <2>1. Sends([step |-> "idle", left |-> <<>>])
    BY Uploads
  <2>2. upload = [m \in Msgs |-> [step |-> "idle", left |-> <<>>]]
    BY DEF Init
  <2> QED BY <2>1, <2>2 DEF UploadsSound, Sends
<1>2. JobsSound
  BY IdleAsks DEF Init, JobsSound
<1>3. ListsTyped /\ HeldTyped /\ NamedTyped /\ MarksTyped
  BY DEF Init, ListsTyped, HeldTyped, NamedTyped, MarksTyped
<1>4. TallyTyped
  BY BoundAssumption DEF Init, TallyTyped
<1> QED BY <1>1, <1>2, <1>3, <1>4, InitHolds DEF TInv, SenderTyped

LEMMA TStepHolds == TInv /\ [Next]_vars => TInv'
<1> SUFFICES ASSUME TInv, [Next]_vars PROVE TInv'
  OBVIOUS
<1>0. IInv' /\ SenderTyped /\ JobsSound /\ MarksTyped /\ TallyTyped
  BY StepHolds DEF TInv
<1> DEFINE Rest == SenderTyped' /\ JobsSound' /\ MarksTyped' /\ TallyTyped'
<1> SUFFICES Rest
  BY <1>0 DEF TInv
<1>1. ASSUME NEW side \in {"sender", "reader"}, NEW list \in Lists, Configure(side, list)
      PROVE  Rest
  <2>1. /\ lists' = [lists EXCEPT ![side] = list] /\ Spend
        /\ UNCHANGED <<held, upload, named, jobs, overlap, forgotten>>
    BY <1>1 DEF Configure, sending, reading
  <2>2. ListsTyped'
    BY <1>0, <2>1 DEF SenderTyped, ListsTyped
  <2>3. SenderTyped'
    BY <1>0, <2>1, <2>2 DEF SenderTyped, HeldTyped, UploadsSound, NamedTyped
  <2> QED BY <1>0, <2>1, <2>3, ReaderSame, Spent
<1>2. ASSUME NEW m \in Msgs, UploadStep(m) PROVE Rest
  <2>1. UNCHANGED <<jobs, overlap, forgotten, tally>>
    BY <1>2 DEF UploadStep, Send, UploadTaken, UploadRefused, reading
  <2>2. SenderTyped'
    BY <1>0, <1>2, SendSound, TakenSound, RefusedSound DEF UploadStep
  <2> QED BY <1>0, <2>1, <2>2, ReaderSame DEF TallyTyped
<1>3. ASSUME NEW m \in Msgs, Arrive(m) PROVE Rest
  <2>1. UNCHANGED <<lists, held, upload, named, overlap, forgotten, tally>>
    BY <1>3 DEF Arrive, setup, sending
  <2> QED BY <1>0, <1>3, <2>1, SenderSame, ArriveSound DEF TallyTyped, MarksTyped
<1>4. ASSUME NEW m \in Msgs, Show(m) PROVE Rest
  <2>1. UNCHANGED <<lists, held, upload, named, jobs, overlap, forgotten, tally>>
    BY <1>4 DEF Show, setup, sending
  <2> QED BY <1>0, <2>1, SenderSame, ReaderSame DEF TallyTyped
<1>5. ASSUME NEW m \in Msgs, Tap(m) PROVE Rest
  <2>1. UNCHANGED <<lists, held, upload, named, tally>>
    BY <1>5 DEF Tap, setup, sending
  <2> QED BY <1>0, <1>5, <2>1, SenderSame, TapSound DEF TallyTyped
<1>6. ASSUME NEW m \in Msgs, NEW s \in Slots, JobStep(m, s) PROVE Rest
  <2>1. UNCHANGED <<lists, held, upload, named, overlap, forgotten, tally>>
    BY <1>6 DEF JobStep, Look, Deliver, Refuse, Wake, setup, sending
  <2>2. ASSUME Look(m, s) PROVE JobsSound'
    BY <2>2, LookSound
  <2>3. ASSUME Deliver(m, s) PROVE JobsSound'
    BY <1>0, <2>3, StoredSound DEF Deliver
  <2>4. ASSUME Refuse(m, s) PROVE JobsSound'
    BY <2>4, RefuseSound
  <2>5. ASSUME Wake(m, s) PROVE JobsSound'
    BY <1>0, <2>5, PhaseSound DEF Wake
  <2>6. JobsSound'
    BY <1>6, <2>2, <2>3, <2>4, <2>5 DEF JobStep
  <2> QED BY <1>0, <2>1, <2>6, SenderSame DEF TallyTyped, MarksTyped
<1>7. ASSUME NEW m \in Msgs, NEW s \in Slots, WriteFails(m, s) PROVE Rest
  <2>1. UNCHANGED <<lists, held, upload, named, overlap, forgotten>> /\ Spend
    BY <1>7 DEF WriteFails, setup, sending
  <2>2. JobsSound'
    BY <1>0, <1>7, FailedSound DEF WriteFails
  <2> QED BY <1>0, <2>1, <2>2, SenderSame, Spent DEF MarksTyped
<1>8. ASSUME NEW m \in Msgs, NEW s \in Slots, Hang(m, s) PROVE Rest
  <2>1. UNCHANGED <<lists, held, upload, named, overlap, forgotten>> /\ Spend
    BY <1>8 DEF Hang, setup, sending
  <2>2. JobsSound'
    BY <1>0, <1>8, PhaseSound DEF Hang
  <2> QED BY <1>0, <2>1, <2>2, SenderSame, Spent DEF MarksTyped
<1>9. CASE Restart
  <2>1. UNCHANGED <<lists, held, upload, named, overlap>> /\ Spend
        /\ jobs' = [m \in Msgs |-> [s \in Slots |-> Idle]]
        /\ forgotten' = forgotten \cup {m \in Msgs : Busy(m)}
    BY <1>9 DEF Restart, setup, sending
  <2>2. JobsSound'
    BY <2>1, IdleAsks DEF JobsSound
  <2>3. MarksTyped'
    BY <1>0, <2>1 DEF MarksTyped
  <2> QED BY <1>0, <2>1, <2>2, <2>3, SenderSame, Spent
<1>10. CASE UNCHANGED vars
  <2>1. UNCHANGED <<lists, held, upload, named, jobs, overlap, forgotten, tally>>
    BY <1>10 DEF vars
  <2> QED BY <1>0, <2>1, SenderSame, ReaderSame DEF TallyTyped
<1> HIDE DEF Rest
<1> QED BY <1>1, <1>2, <1>3, <1>4, <1>5, <1>6, <1>7, <1>8, <1>9, <1>10 DEF Next

\* A gateway is always named while it is asked and while it is sent to: no order of
\* gateways leaves an attempt with nobody to turn to, whatever is configured meanwhile.
THEOREM TypeCorrect == Spec => []TypeOK
<1>1. Spec => []TInv
  BY TInitHolds, TStepHolds, PTL DEF Spec
<1> QED BY <1>1, TSuffices, PTL

=============================================================================
