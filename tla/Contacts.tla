------------------------------ MODULE Contacts ------------------------------
(***************************************************************************)
(* What two ends keep of each other: the contact table of every user with  *)
(* the burn setting and the profile of each contact, ContactService,       *)
(* ProfileService, ContactProfileService and handleContactOptions of       *)
(* ChatService.                                                            *)
(*                                                                         *)
(* The burn setting of a conversation is kept at both ends.  Each change   *)
(* is sent once, without an ACK, stamped with the clock of who made it,    *)
(* and the later stamp wins.  A profile is pulled: every displayable       *)
(* message carries its writer's profile version, and a reader that knows   *)
(* another version asks for the profile, at most one answer per contact    *)
(* every 30 seconds.                                                       *)
(*                                                                         *)
(* A version (a UUID) is the number of edits it follows; a profile of the  *)
(* model has a nickname and an avatar.  Session names, which follow the    *)
(* contact's, and the notices shown in the conversation are left out.      *)
(***************************************************************************)
EXTENDS Naturals, FiniteSets

CONSTANTS
    Users,
    Settings,   \* burn delays in seconds, 0 for off
    Writers,    \* users that write messages, and edit their profile
    MaxTime,    \* bound: the last instant of every clock
    Limit       \* bound: edits, settings, additions and faults of all together

ASSUME SettingsAssumption == Settings \subseteq Nat /\ 0 \in Settings
ASSUME WritersAssumption == Writers \subseteq Users
ASSUME BoundAssumption == MaxTime \in Nat /\ Limit \in Nat

VARIABLES
    book,       \* per user, the users that are its contacts
    row,        \* the contact row of u for w, Blank without one
    profile,    \* the profile version of each user
    clock,      \* the time each user last read from its clock
    net,        \* packets on their way
    resizing,   \* profile responses whose avatar is being resized
    throttled,  \* <<w, u>>: w answered a profile request of u in the last 30 s
    apart,      \* history: pairs whose settings an accident may have set apart
    tally       \* bounded steps so far

store == <<book, row>>
answers == <<resizing, throttled>>
vars == <<book, row, profile, clock, net, resizing, throttled, apart, tally>>

Time == 0 .. MaxTime

\* name and avatar say which version of the profile they are from, 0 for one that
\* the reader chose or the address; version 0 is the NULL of a new row.
Row == [name : Nat, avatar : Nat, version : Nat, secs : Settings, at : Time]
Blank == [name |-> 0, avatar |-> 0, version |-> 0, secs |-> 0, at |-> 0]

Note == [type : {"message", "request", "response"}, from : Users, to : Users,
         version : Nat]
Options == [type : {"options"}, from : Users, to : Users, secs : Settings, at : Time]
Resize == [by : Users, of : Users, version : Nat]

Pack(type, u, w, v) == [type |-> type, from |-> u, to |-> w, version |-> v]
OptionsOf(u, w, r) ==
    [type |-> "options", from |-> u, to |-> w, secs |-> r.secs, at |-> r.at]

\* One of the bounded steps.
Spend == tally < Limit /\ tally' = tally + 1

Init ==
    /\ \E all \in BOOLEAN : book = [u \in Users |-> IF all THEN Users \ {u} ELSE {}]
    /\ row = [u \in Users |-> [w \in Users |-> Blank]]
    /\ profile = [u \in Users |-> 1]
    /\ clock = [u \in Users |-> 0]
    /\ net = {}
    /\ resizing = {}
    /\ throttled = {}
    /\ apart = {}
    /\ tally = 0

-----------------------------------------------------------------------------
(* The user's commands. *)

\* A row that held a burn setting is gone, and with it what the two agreed on.
Wiped(u, w) ==
    apart' = IF row[u][w].at = 0 THEN apart ELSE apart \cup {{u, w}}

\* addContact overwrites the row of a contact that is there already.
AddContact(u, w) ==
    /\ u # w
    /\ Spend
    /\ book' = [book EXCEPT ![u] = @ \cup {w}]
    /\ row' = [row EXCEPT ![u][w] = Blank]
    /\ Wiped(u, w)
    /\ UNCHANGED <<profile, clock, net, answers>>

DeleteContact(u, w) ==
    /\ w \in book[u]
    /\ Spend
    /\ book' = [book EXCEPT ![u] = @ \ {w}]
    /\ row' = [row EXCEPT ![u][w] = Blank]
    /\ Wiped(u, w)
    /\ UNCHANGED <<profile, clock, net, answers>>

\* updateContact, and setContactAvatar after its resize: one field is replaced in
\* the row as it is then.
Rename(u, w) ==
    /\ u # w /\ w \in book[u]
    /\ row[u][w].name # 0
    /\ Spend
    /\ row' = [row EXCEPT ![u][w].name = 0]
    /\ UNCHANGED <<book, profile, clock, net, answers, apart>>

\* setNickname and setAvatar: another version.
EditProfile(u) ==
    /\ u \in Writers
    /\ Spend
    /\ profile' = [profile EXCEPT ![u] = @ + 1]
    /\ UNCHANGED <<store, clock, net, answers, apart>>

\* mutant: a new setting keeps the stamp of the old one
StampOld(u, w, t) == row[u][w].at

\* mutant: a new setting is stamped past the present
StampAhead(u, w, t) == t + 1

\* The stamp of a change is the time at which it is made.
Stamp(u, w, t) == t

\* setBurnOptions and sendBurnOptionsToContact.  Clocks are not synchronised: a
\* stamp may be no later than the one it replaces, which is refused at the other
\* end, or equal to the one set there, which each end prefers to the other's.
SetBurn(u, w, secs, t) ==
    LET r == [row[u][w] EXCEPT !.secs = secs, !.at = Stamp(u, w, t)] IN
    /\ u # w /\ w \in book[u]
    /\ t > 0 /\ t >= clock[u]
    /\ Spend
    /\ clock' = [clock EXCEPT ![u] = t]
    /\ row' = [row EXCEPT ![u][w] = r]
    /\ net' = net \cup {OptionsOf(u, w, r)}
    /\ apart' = IF t <= row[u][w].at \/ t = row[w][u].at
                THEN apart \cup {{u, w}} ELSE apart
    /\ UNCHANGED <<book, profile, answers>>

\* Without an address nothing is sent, and nothing is sent later.
SetBurnOffline(u, w, secs, t) ==
    /\ u # w /\ w \in book[u]
    /\ t > 0 /\ t >= clock[u]
    /\ Spend
    /\ clock' = [clock EXCEPT ![u] = t]
    /\ row' = [row EXCEPT ![u][w].secs = secs, ![u][w].at = t]
    /\ apart' = apart \cup {{u, w}}
    /\ UNCHANGED <<book, profile, net, answers>>

\* A displayable message, of which only the profile version matters here.
WriteMessage(u, w) ==
    /\ u \in Writers /\ u # w
    /\ net' = net \cup {Pack("message", u, w, profile[u])}
    /\ UNCHANGED <<store, profile, clock, answers, apart, tally>>

-----------------------------------------------------------------------------
(* Receiving. *)

\* handleContactOptions: the later stamp wins.  Without a row the update does
\* nothing, although the conversation shows the notice.
HandleOptions(n) ==
    LET u == n.to IN
    /\ n.type = "options"
    /\ net' = net \ {n}
    /\ IF n.from \in book[u]
       THEN /\ row' = IF n.at > row[u][n.from].at
                      THEN [row EXCEPT ![u][n.from].secs = n.secs,
                                       ![u][n.from].at = n.at]
                      ELSE row
            /\ UNCHANGED apart
       ELSE /\ apart' = apart \cup {{u, n.from}}
            /\ UNCHANGED row
    /\ UNCHANGED <<book, profile, clock, answers, tally>>

\* mutant: a profile is asked for once
Unseen(u, n) == row[u][n.from].version = 0

\* checkAndRequestProfile: any other version than the stored one is asked for.
Outdated(u, n) == row[u][n.from].version # n.version
HandleMessage(n) ==
    LET u == n.to IN
    /\ n.type = "message"
    /\ net' = (net \ {n}) \cup
         (IF n.from \in book[u] /\ Outdated(u, n)
          THEN {Pack("request", u, n.from, row[u][n.from].version)} ELSE {})
    /\ UNCHANGED <<store, profile, clock, answers, apart, tally>>

\* handleProfileRequest: contacts only, one answer in 30 seconds, and a request that
\* comes too early is dropped.
HandleRequest(n) ==
    LET u == n.to IN
    /\ n.type = "request"
    /\ IF n.from \in book[u] /\ <<u, n.from>> \notin throttled
       THEN /\ net' = (net \ {n}) \cup {Pack("response", u, n.from, profile[u])}
            /\ throttled' = throttled \cup {<<u, n.from>>}
       ELSE /\ net' = net \ {n}
            /\ UNCHANGED throttled
    /\ UNCHANGED <<store, profile, clock, resizing, apart, tally>>

ThrottleEnds(p) ==
    /\ p \in throttled
    /\ throttled' = throttled \ {p}
    /\ UNCHANGED <<store, profile, clock, net, resizing, apart, tally>>

\* handleProfileResponse up to the resize of the avatar.
HandleResponse(n) ==
    LET u == n.to IN
    /\ n.type = "response"
    /\ net' = net \ {n}
    /\ resizing' = IF n.from \in book[u] /\ Outdated(u, n)
                   THEN resizing \cup {[by |-> u, of |-> n.from, version |-> n.version]}
                   ELSE resizing
    /\ UNCHANGED <<store, profile, clock, throttled, apart, tally>>

\* After the await the row takes the response, whatever it has become meanwhile; a
\* row that was deleted is not updated.
TakeProfile(g, avatar) ==
    /\ row' = IF g.of \in book[g.by]
              THEN [row EXCEPT ![g.by][g.of].name = g.version,
                               ![g.by][g.of].version = g.version,
                               ![g.by][g.of].avatar = avatar]
              ELSE row
    /\ resizing' = resizing \ {g}
    /\ UNCHANGED <<book, profile, clock, net, throttled, apart>>

FinishResponse(g) == TakeProfile(g, g.version) /\ UNCHANGED tally

\* An avatar that cannot be decoded is skipped, its version is stored.
ResizeFails(g) == TakeProfile(g, row[g.by][g.of].avatar) /\ Spend

\* Nothing is acknowledged: a packet can be lost.
Lose(n) ==
    /\ Spend
    /\ net' = net \ {n}
    /\ apart' = IF n.type = "options" THEN apart \cup {{n.from, n.to}} ELSE apart
    /\ UNCHANGED <<store, profile, clock, answers>>

\* The program ends and starts: the throttle and what it awaited are forgotten.
Restart(u) ==
    /\ Spend
    /\ throttled' = {p \in throttled : p[1] # u}
    /\ resizing' = {g \in resizing : g.by # u}
    /\ UNCHANGED <<store, profile, clock, net, apart>>

-----------------------------------------------------------------------------

PairStep(u, w) ==
    \/ AddContact(u, w) \/ DeleteContact(u, w) \/ Rename(u, w) \/ WriteMessage(u, w)
    \/ \E secs \in Settings, t \in Time :
         SetBurn(u, w, secs, t) \/ SetBurnOffline(u, w, secs, t)
PacketStep(n) ==
    \/ HandleOptions(n) \/ HandleMessage(n) \/ HandleRequest(n) \/ HandleResponse(n)
    \/ Lose(n)

Next ==
    \/ \E u, w \in Users : PairStep(u, w)
    \/ \E u \in Users : EditProfile(u) \/ Restart(u)
    \/ \E n \in net : PacketStep(n)
    \/ \E p \in throttled : ThrottleEnds(p)
    \/ \E g \in resizing : FinishResponse(g) \/ ResizeFails(g)

Spec == Init /\ [][Next]_vars

\* A packet that is not lost arrives, half a minute passes, an avatar is resized.
FairSpec ==
    /\ Spec
    /\ \A u, w \in Users :
         /\ WF_vars(\E n \in net : n.from = u /\ n.to = w /\ HandleMessage(n))
         /\ WF_vars(\E n \in net : n.from = u /\ n.to = w /\ HandleRequest(n))
         /\ WF_vars(\E n \in net : n.from = u /\ n.to = w /\ HandleResponse(n))
         /\ WF_vars(ThrottleEnds(<<u, w>>))
         /\ WF_vars(\E g \in resizing : g.by = u /\ g.of = w /\ FinishResponse(g))

-----------------------------------------------------------------------------
(* Properties. *)

TypeOK ==
    /\ book \in [Users -> SUBSET Users]
    /\ row \in [Users -> [Users -> Row]]
    /\ profile \in [Users -> Nat \ {0}]
    /\ clock \in [Users -> Time]
    /\ net \subseteq Note \cup Options
    /\ resizing \subseteq Resize
    /\ throttled \subseteq Users \X Users
    /\ apart \subseteq SUBSET Users
    /\ tally \in Nat

\* Two ends that changed the burn setting of their conversation, both of them and
\* at the same time if they like, end with the same one once the changes have
\* arrived, in whatever order they did: unless (apart) one was lost or never sent,
\* found no contact, was stamped by a clock that lags behind what it replaces or
\* with the very instant of the other, or the contact was deleted or added again.
Burn(u, w) == <<row[u][w].secs, row[u][w].at>>
Changing(u, w) == \E n \in net : n.type = "options" /\ {n.from, n.to} = {u, w}
BurnAgrees ==
    \A u, w \in Users :
        u # w /\ {u, w} \notin apart /\ ~Changing(u, w) => Burn(u, w) = Burn(w, u)

\* A reader that keeps hearing from a contact that has it among its own shows the
\* contact's present profile again and again, in the end for good: requests and
\* answers may be lost, dropped by the throttle, forgotten in a restart, or arrive
\* after newer ones.
Hears(u, w) == \E n \in net : n.type = "message" /\ n.from = w /\ n.to = u
Known(u, w) == w \in book[u] /\ u \in book[w]
ProfileArrives ==
    \A u, w \in Users :
        u # w => ([]<>Hears(u, w) =>
                    []<>(Known(u, w) => row[u][w].version = profile[w]))

=============================================================================
