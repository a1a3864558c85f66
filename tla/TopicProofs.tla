---------------------------- MODULE TopicProofs ----------------------------
(***************************************************************************)
(* Proofs about Topic, for any finite set of users, any posts and any      *)
(* bound: its type invariant, the honesty of the member counts and of the  *)
(* "sending" of a post, the completeness of the caches, and that topics    *)
(* implement TopicTable.                                                   *)
(***************************************************************************)
EXTENDS Topic, FiniteSetTheorems, TLAPS

-----------------------------------------------------------------------------
(* Types. *)

LEMMA PacketsTyped ==
    ASSUME NEW u \in Users, NEW dests \in SUBSET Users
    PROVE  /\ \A type \in Control : Announce(type, u, dests) \subseteq Announcement
           /\ \A p \in Posts : Packets(p, u, dests) \subseteq PostPacket
BY DEF Announce, Packets, Announcement, PostPacket

LEMMA CallsTyped ==
    ASSUME TypeOK
    PROVE  /\ \A c \in calls, stage \in Stages, snap \in SUBSET Users :
                Replace(c, stage, snap) \subseteq Call
           /\ \A op \in Ops, u \in Users, stage \in Stages :
                Begin(op, u, stage) \subseteq Call
<1>1. ASSUME NEW c \in calls, NEW stage \in Stages, NEW snap \in SUBSET Users
      PROVE  Replace(c, stage, snap) \subseteq Call
  <2>1. c \in Call
    BY DEF TypeOK
  <2>2. [c EXCEPT !.stage = stage, !.snap = snap] \in Call
    BY <2>1 DEF Call
  <2> QED BY <2>2 DEF TypeOK, Replace
<1>2. ASSUME NEW op \in Ops, NEW u \in Users, NEW stage \in Stages
      PROVE  Begin(op, u, stage) \subseteq Call
  BY DEF TypeOK, Begin, Call
<1> QED BY <1>1, <1>2

LEMMA Counted ==
    ASSUME NEW S \in SUBSET Users
    PROVE  IsFiniteSet(S) /\ Cardinality(S) \in Nat
BY UsersAssumption, FS_Subset, FS_CardinalityType

LEMMA ReplaceTyped ==
    ASSUME TypeOK, NEW u \in Users, NEW addresses \in SUBSET Users,
           ReplaceAll(u, addresses)
    PROVE  /\ cache' \in [Users -> SUBSET Users]
           /\ count' \in [Users -> Nat]
           /\ missed' \subseteq Users \X Users
BY Counted DEF TypeOK, ReplaceAll, Missed

LEMMA InitType == Init => TypeOK
BY DEF Init, TypeOK, Status

LEMMA TypeStep == TypeOK /\ [Next]_vars => TypeOK'
<1> SUFFICES ASSUME TypeOK, [Next]_vars PROVE TypeOK'
  OBVIOUS
<1> USE DEF tables, ledger, work
<1>1. ASSUME NEW u \in Users, UserStep(u) PROVE TypeOK'
  <2>1. CASE StartJoin(u)
    BY <2>1, CallsTyped DEF TypeOK, StartJoin, Spend, Ops, Stages
  <2>2. CASE StartLeave(u)
    BY <2>2, CallsTyped, PacketsTyped DEF TypeOK, StartLeave, Ops, Stages, Control
  <2>3. CASE StartRefresh(u)
    BY <2>3, CallsTyped DEF TypeOK, StartRefresh, Spend, Ops, Stages
  <2>4. CASE ShowMembers(u)
    BY <2>4, Counted DEF TypeOK, ShowMembers
  <2> QED BY <1>1, <2>1, <2>2, <2>3, <2>4 DEF UserStep
<1>2. ASSUME NEW c \in calls, CallStep(c) PROVE TypeOK'
  <2>0. c.by \in Users /\ c.snap \in SUBSET Users
    BY DEF TypeOK, Call
  <2>1. CASE ContinueJoin(c)
    BY <2>0, <2>1, CallsTyped DEF TypeOK, ContinueJoin, Stages
  <2>2. CASE Read(c)
    BY <2>2, CallsTyped DEF TypeOK, Read, Stages
  <2>3. CASE ReadFails(c)
    BY <2>3 DEF TypeOK, ReadFails, Spend
  <2>4. CASE FinishRefresh(c)
    BY <2>0, <2>4, ReplaceTyped DEF TypeOK, FinishRefresh
  <2>5. CASE Unsubscribe(c)
    BY <2>5, CallsTyped DEF TypeOK, Unsubscribe, Stages
  <2>6. CASE UnsubscribeFails(c)
    BY <2>6, CallsTyped DEF TypeOK, UnsubscribeFails, Spend, Stages
  <2>7. CASE FinishLeave(c)
    BY <2>0, <2>7 DEF TypeOK, FinishLeave, Status
  <2> QED BY <1>2, <2>1, <2>2, <2>3, <2>4, <2>5, <2>6, <2>7 DEF CallStep
<1>3. ASSUME NEW c \in calls, JoinEnds(c) PROVE TypeOK'
  <2>0. c.by \in Users /\ c.snap \in SUBSET Users
    BY DEF TypeOK, Call
  <2>1. CASE FinishJoin(c)
    <3>1. net' \subseteq Announcement \cup PostPacket
      BY <2>0, <2>1, PacketsTyped DEF TypeOK, FinishJoin, Control
    <3> QED BY <2>0, <2>1, <3>1, ReplaceTyped DEF TypeOK, FinishJoin
  <2>2. CASE JoinFails(c)
    <3>1. /\ cache' \in [Users -> SUBSET Users]
          /\ count' \in [Users -> Nat]
          /\ missed' \subseteq Users \X Users
      BY <2>0, <2>2, ReplaceTyped DEF TypeOK, JoinFails, Missed
    <3> QED BY <2>2, <3>1 DEF TypeOK, JoinFails, Spend
  <2> QED BY <1>3, <2>1, <2>2 DEF JoinEnds
<1>4. ASSUME NEW p \in Posts, PostStep(p) PROVE TypeOK'
  <2>0. Author[p] \in Users /\ cache[Author[p]] \in SUBSET Users
    BY PostsAssumption DEF TypeOK
  <2>1. CASE SendText(p)
    <3>1. net' \subseteq Announcement \cup PostPacket
      BY <2>0, <2>1, PacketsTyped DEF TypeOK, SendText
    <3>2. rows' \in [Users -> [Posts -> Status]]
      BY <2>0, <2>1 DEF TypeOK, SendText, Status
    <3> QED BY <2>1, <3>1, <3>2 DEF TypeOK, SendText, Spend
  <2>2. CASE StartUpload(p)
    BY <2>0, <2>2 DEF TypeOK, StartUpload, Spend, Status
  <2>3. CASE FinishUpload(p)
    <3>1. PICK new : new = Packets(p, Author[p], cache[Author[p]])
      OBVIOUS
    <3>2. new \subseteq PostPacket
      BY <2>0, <3>1, PacketsTyped
    <3>3. net' = net \cup new
      BY <2>3, <3>1 DEF FinishUpload
    <3>4. net' \subseteq Announcement \cup PostPacket
      BY <3>2, <3>3 DEF TypeOK
    <3>5. rows' \in [Users -> [Posts -> Status]] /\ session' \subseteq Users
      <4>1. /\ rows \in [Users -> [Posts -> Status]] /\ session \subseteq Users
            /\ "none" \in Status /\ "sent" \in Status
        BY DEF TypeOK, Status
      <4>2. PICK u \in Users : u = Author[p]
        BY <2>0
      <4>3. PICK st : st = IF rows[u][p] = "none" THEN rows[u][p] ELSE "sent"
        OBVIOUS
      <4>4. st \in Status
        BY <4>1, <4>3
      <4>5. CASE rows' = [rows EXCEPT ![u][p] = st] /\ UNCHANGED session
        BY <4>1, <4>4, <4>5
      <4>6. CASE rows' = [rows EXCEPT ![u][p] = "sent"] /\ session' = session \cup {u}
        BY <4>1, <4>6
      <4>7. \/ rows' = [rows EXCEPT ![u][p] = st] /\ UNCHANGED session
            \/ rows' = [rows EXCEPT ![u][p] = "sent"] /\ session' = session \cup {u}
        BY <2>3, <4>2, <4>3 DEF FinishUpload
      <4> QED BY <4>5, <4>6, <4>7
    <3> QED BY <2>3, <3>4, <3>5 DEF TypeOK, FinishUpload
  <2>4. CASE UploadFails(p)
    BY <2>0, <2>4 DEF TypeOK, UploadFails, Spend, Status
  <2> QED BY <1>4, <2>1, <2>2, <2>3, <2>4 DEF PostStep
<1>5. ASSUME NEW n \in net, PacketStep(n) PROVE TypeOK'
  <2>0. /\ n.to \in Users /\ n.from \in Users
        /\ n.type = "post" => n.post \in Posts
    BY DEF TypeOK, Announcement, PostPacket, Control
  <2>1. CASE HandleSubscribe(n)
    <3>1. /\ cache' \in [Users -> SUBSET Users]
          /\ missed' \subseteq Users \X Users
      BY <2>0, <2>1 DEF TypeOK, HandleSubscribe, Missed
    <3>2. count' \in [Users -> Nat]
      BY <2>0, <2>1, <3>1, Counted DEF TypeOK, HandleSubscribe
    <3> QED BY <2>1, <3>1, <3>2 DEF TypeOK, HandleSubscribe
  <2>2. CASE HandleUnsubscribe(n)
    <3>1. /\ cache' \in [Users -> SUBSET Users]
          /\ missed' \subseteq Users \X Users
      BY <2>0, <2>2 DEF TypeOK, HandleUnsubscribe, Missed
    <3>2. count' \in [Users -> Nat]
      BY <2>0, <2>2, <3>1, Counted DEF TypeOK, HandleUnsubscribe
    <3> QED BY <2>2, <3>1, <3>2 DEF TypeOK, HandleUnsubscribe
  <2>3. CASE HandlePost(n)
    BY <2>0, <2>3 DEF TypeOK, HandlePost, Status
  <2>4. CASE Lose(n)
    BY <2>0, <2>4 DEF TypeOK, Lose, Spend
  <2> QED BY <1>5, <2>1, <2>2, <2>3, <2>4 DEF PacketStep
<1>6. CASE UNCHANGED vars
  BY <1>6 DEF TypeOK, vars
<1> QED BY <1>1, <1>2, <1>3, <1>4, <1>5, <1>6 DEF Next

\* Every reachable state has its type.
THEOREM TypeCorrect == Spec => []TypeOK
<1>1. Init => TypeOK
  BY InitType
<1>2. TypeOK /\ [Next]_vars => TypeOK'
  BY TypeStep
<1> QED BY <1>1, <1>2, PTL DEF Spec

-----------------------------------------------------------------------------
(* Rows and counts. *)

LEMMA SendingStep ==
    TypeOK /\ SendingIsInFlight /\ [Next]_vars => SendingIsInFlight'
<1> SUFFICES ASSUME TypeOK, SendingIsInFlight, [Next]_vars PROVE SendingIsInFlight'
  OBVIOUS
<1> USE DEF tables, ledger, work
<1>1. CASE UNCHANGED <<rows, uploads>>
  BY <1>1 DEF SendingIsInFlight
<1>2. ASSUME NEW c \in calls, FinishLeave(c) PROVE SendingIsInFlight'
  BY <1>2 DEF FinishLeave, SendingIsInFlight, TypeOK
<1>3. ASSUME NEW p \in Posts, PostStep(p) PROVE SendingIsInFlight'
  <2>0. Author[p] \in Users
    BY PostsAssumption
  <2>1. CASE SendText(p)
    BY <2>0, <2>1 DEF SendText, SendingIsInFlight, TypeOK
  <2>2. CASE StartUpload(p)
    BY <2>0, <2>2 DEF StartUpload, SendingIsInFlight, TypeOK
  <2>3. CASE FinishUpload(p)
    BY <2>0, <2>3 DEF FinishUpload, SendingIsInFlight, TypeOK
  <2>4. CASE UploadFails(p)
    BY <2>0, <2>4 DEF UploadFails, SendingIsInFlight, TypeOK
  <2> QED BY <1>3, <2>1, <2>2, <2>3, <2>4 DEF PostStep
<1>4. ASSUME NEW n \in net, HandlePost(n) PROVE SendingIsInFlight'
  <2>1. n.to \in Users /\ n.post \in Posts
    BY <1>4 DEF HandlePost, TypeOK, Announcement, PostPacket, Control
  <2> QED BY <1>4, <2>1 DEF HandlePost, SendingIsInFlight, TypeOK
<1>5. ASSUME NEW u \in Users, UserStep(u) PROVE UNCHANGED <<rows, uploads>>
  BY <1>5 DEF UserStep, StartJoin, StartLeave, StartRefresh, ShowMembers
<1>6. ASSUME NEW c \in calls, CallStep(c), ~FinishLeave(c)
      PROVE  UNCHANGED <<rows, uploads>>
  BY <1>6 DEF CallStep, ContinueJoin, Read, ReadFails, FinishRefresh, Unsubscribe,
              UnsubscribeFails
<1>7. ASSUME NEW c \in calls, JoinEnds(c) PROVE UNCHANGED <<rows, uploads>>
  BY <1>7 DEF JoinEnds, FinishJoin, JoinFails
<1>8. ASSUME NEW n \in net, PacketStep(n), ~HandlePost(n)
      PROVE  UNCHANGED <<rows, uploads>>
  BY <1>8 DEF PacketStep, HandleSubscribe, HandleUnsubscribe, Lose
<1>9. CASE UNCHANGED vars
  BY <1>1, <1>9 DEF vars
<1> QED BY <1>1, <1>2, <1>3, <1>4, <1>5, <1>6, <1>7, <1>8, <1>9 DEF Next

\* A row of any user says "sending" only while its file is processed, whatever
\* fails and however leaves and joins overlap with the upload.
THEOREM SendingIsInFlightAlways == Spec => []SendingIsInFlight
<1>1. Init => SendingIsInFlight
  BY DEF Init, SendingIsInFlight
<1>2. TypeOK /\ SendingIsInFlight /\ [Next]_vars => SendingIsInFlight'
  BY SendingStep
<1> QED BY <1>1, <1>2, TypeCorrect, PTL DEF Spec

LEMMA ReplaceCounts ==
    ASSUME TypeOK, CountHonest, NEW u \in Users, NEW addresses \in SUBSET Users,
           ReplaceAll(u, addresses), UNCHANGED joined
    PROVE  CountHonest'
BY DEF TypeOK, CountHonest, ReplaceAll

LEMMA CountStep == TypeOK /\ CountHonest /\ [Next]_vars => CountHonest'
<1> SUFFICES ASSUME TypeOK, CountHonest, [Next]_vars PROVE CountHonest'
  OBVIOUS
<1> USE DEF tables, ledger, work
<1>1. CASE UNCHANGED <<joined, count, cache>>
  BY <1>1 DEF CountHonest
<1>2. ASSUME NEW u \in Users, UserStep(u) PROVE CountHonest'
  <2>1. CASE ShowMembers(u)
    BY <2>1 DEF ShowMembers, CountHonest, TypeOK
  <2>2. CASE ~ShowMembers(u)
    BY <1>1, <1>2, <2>2 DEF UserStep, StartJoin, StartLeave, StartRefresh
  <2> QED BY <2>1, <2>2
<1>3. ASSUME NEW c \in calls, CallStep(c) PROVE CountHonest'
  <2>0. c.by \in Users /\ c.snap \in SUBSET Users
    BY DEF TypeOK, Call
  <2>1. CASE ContinueJoin(c)
    BY <2>0, <2>1 DEF ContinueJoin, CountHonest, TypeOK
  <2>2. CASE FinishRefresh(c)
    BY <2>0, <2>2, ReplaceCounts DEF FinishRefresh
  <2>3. CASE FinishLeave(c)
    BY <2>0, <2>3 DEF FinishLeave, CountHonest, TypeOK
  <2>4. CASE Read(c) \/ ReadFails(c) \/ Unsubscribe(c) \/ UnsubscribeFails(c)
    BY <1>1, <2>4 DEF Read, ReadFails, Unsubscribe, UnsubscribeFails
  <2> QED BY <1>3, <2>1, <2>2, <2>3, <2>4 DEF CallStep
<1>4. ASSUME NEW c \in calls, JoinEnds(c) PROVE CountHonest'
  <2>0. c.by \in Users /\ c.snap \in SUBSET Users
    BY DEF TypeOK, Call
  <2>1. UNCHANGED joined
    BY <1>4 DEF JoinEnds, FinishJoin, JoinFails
  <2>2. ReplaceAll(c.by, c.snap) \/ UNCHANGED <<cache, count>>
    BY <1>4 DEF JoinEnds, FinishJoin, JoinFails
  <2> QED BY <1>1, <2>0, <2>1, <2>2, ReplaceCounts
<1>5. ASSUME NEW p \in Posts, PostStep(p) PROVE CountHonest'
  BY <1>1, <1>5 DEF PostStep, SendText, StartUpload, FinishUpload, UploadFails
<1>6. ASSUME NEW n \in net, PacketStep(n) PROVE CountHonest'
  <2>0. n.to \in Users
    BY DEF TypeOK, Announcement, PostPacket
  <2>1. CASE HandleSubscribe(n)
    BY <2>0, <2>1 DEF HandleSubscribe, CountHonest, TypeOK
  <2>2. CASE HandleUnsubscribe(n)
    BY <2>0, <2>2 DEF HandleUnsubscribe, CountHonest, TypeOK
  <2>3. CASE HandlePost(n) \/ Lose(n)
    BY <1>1, <2>3 DEF HandlePost, Lose
  <2> QED BY <1>6, <2>1, <2>2, <2>3 DEF PacketStep
<1>7. CASE UNCHANGED vars
  BY <1>1, <1>7 DEF vars
<1> QED BY <1>2, <1>3, <1>4, <1>5, <1>6, <1>7 DEF Next

\* The member count of a topic is 0 or the size of the cached list, for any number
\* of users and however their announcements and refreshes interleave.
THEOREM CountHonestAlways == Spec => []CountHonest
<1>1. Init => CountHonest
  BY DEF Init, CountHonest
<1>2. TypeOK /\ CountHonest /\ [Next]_vars => CountHonest'
  BY CountStep
<1> QED BY <1>1, <1>2, TypeCorrect, PTL DEF Spec

-----------------------------------------------------------------------------
(* Calls: at most one join and one leave of a user wait for the chain. *)

Single ==
    \A c, d \in calls :
        c.op = d.op /\ c.by = d.by /\ c.op \in {"join", "leave"} => c = d

\* A user is announced only when its join has ended, and leaves what it has joined.
Quiet == \A c \in calls : c.op = "join" => c.by \notin announced
Leaving == \A c \in calls : c.op = "leave" => c.by \in joined
Calling == Single /\ Quiet /\ Leaving

\* What Replace and Begin make of the calls.
LEMMA Replaced ==
    ASSUME TypeOK, NEW c \in calls, NEW stage, NEW snap, calls' = Replace(c, stage, snap)
    PROVE  /\ \A d \in calls' : \/ d \in calls /\ d # c
                                \/ /\ d.op = c.op /\ d.by = c.by
                                   /\ d.stage = stage /\ d.snap = snap
           /\ \A d \in calls : d # c => d \in calls'
           /\ \E d \in calls' : /\ d.op = c.op /\ d.by = c.by
                                /\ d.stage = stage /\ d.snap = snap
                                /\ calls' = (calls \ {c}) \cup {d}
<1>1. c \in Call
  BY DEF TypeOK
<1> DEFINE e == [c EXCEPT !.stage = stage, !.snap = snap]
<1>2. e.op = c.op /\ e.by = c.by /\ e.stage = stage /\ e.snap = snap
  BY <1>1 DEF Call
<1>3. calls' = (calls \ {c}) \cup {e}
  BY DEF Replace
<1> HIDE DEF e
<1> QED BY <1>2, <1>3

LEMMA Begun ==
    ASSUME NEW op, NEW u, NEW stage, calls' = Begin(op, u, stage)
    PROVE  /\ \A d \in calls' : \/ d \in calls
                                \/ d.op = op /\ d.by = u /\ d.stage = stage /\ d.snap = {}
           /\ \A d \in calls : d \in calls'
           /\ \E d \in calls' : /\ d.op = op /\ d.by = u /\ d.stage = stage /\ d.snap = {}
                               /\ calls' = calls \cup {d}
<1> DEFINE e == [op |-> op, by |-> u, stage |-> stage, snap |-> {}]
<1>1. e.op = op /\ e.by = u /\ e.stage = stage /\ e.snap = {}
  OBVIOUS
<1>2. calls' = calls \cup {e}
  BY DEF Begin
<1> HIDE DEF e
<1> QED BY <1>1, <1>2

LEMMA CallingStep == TypeOK /\ Calling /\ [Next]_vars => Calling'
<1> SUFFICES ASSUME TypeOK, Calling, [Next]_vars PROVE Calling'
  OBVIOUS
<1> USE DEF tables, ledger, work, Calling
<1>1. ASSUME calls' \subseteq calls, announced' \subseteq announced, joined \subseteq joined'
      PROVE  Calling'
  BY <1>1 DEF Single, Quiet, Leaving
<1>2. ASSUME NEW c \in calls, NEW stage, NEW snap, calls' = Replace(c, stage, snap),
             UNCHANGED announced, joined \subseteq joined'
      PROVE  Calling'
  <2>1. Single'
    <3>1. PICK e \in calls' : /\ e.op = c.op /\ e.by = c.by
                              /\ calls' = (calls \ {c}) \cup {e}
      BY <1>2, Replaced
    <3> QED BY <3>1 DEF Single
  <2>2. Quiet' /\ Leaving'
    BY <1>2, Replaced DEF Quiet, Leaving
  <2> QED BY <2>1, <2>2
<1>3. ASSUME NEW u \in Users, UserStep(u) PROVE Calling'
  <2>1. CASE StartJoin(u)
    <3>1. calls' = Begin("join", u, "called") /\ \A d \in calls : ~(d.op = "join" /\ d.by = u)
      BY <2>1 DEF StartJoin, Pending
    <3>2. Single'
      <4>1. PICK e \in calls' : e.op = "join" /\ e.by = u /\ calls' = calls \cup {e}
        BY <3>1, Begun
      <4> QED BY <3>1, <4>1 DEF Single
    <3>3. Quiet'
      BY <2>1, <3>1, Begun DEF Quiet, StartJoin
    <3>4. Leaving'
      BY <2>1, <3>1, Begun DEF Leaving, StartJoin
    <3> QED BY <3>2, <3>3, <3>4
  <2>2. CASE StartLeave(u)
    <3>1. calls' = Begin("leave", u, "called") /\ \A d \in calls : ~(d.op = "leave" /\ d.by = u)
      BY <2>2 DEF StartLeave, Pending
    <3>2. Single'
      <4>1. PICK e \in calls' : e.op = "leave" /\ e.by = u /\ calls' = calls \cup {e}
        BY <3>1, Begun
      <4> QED BY <3>1, <4>1 DEF Single
    <3>3. Quiet'
      BY <2>2, <3>1, Begun DEF Quiet, StartLeave
    <3>4. Leaving'
      BY <2>2, <3>1, Begun DEF Leaving, StartLeave
    <3> QED BY <3>2, <3>3, <3>4
  <2>3. CASE StartRefresh(u)
    <3>1. calls' = Begin("refresh", u, "reading")
      BY <2>3 DEF StartRefresh
    <3>2. Single'
      <4>1. PICK e \in calls' : e.op = "refresh" /\ e.by = u /\ calls' = calls \cup {e}
        BY <3>1, Begun
      <4> QED BY <3>1, <4>1 DEF Single
    <3>3. Quiet' /\ Leaving'
      BY <2>3, <3>1, Begun DEF Quiet, Leaving, StartRefresh
    <3> QED BY <3>2, <3>3
  <2>4. CASE ShowMembers(u)
    BY <1>1, <2>4 DEF ShowMembers
  <2> QED BY <1>3, <2>1, <2>2, <2>3, <2>4 DEF UserStep
<1>4. ASSUME NEW c \in calls, CallStep(c) PROVE Calling'
  <2>1. CASE ContinueJoin(c) \/ Read(c) \/ Unsubscribe(c) \/ UnsubscribeFails(c)
    BY <1>2, <2>1 DEF ContinueJoin, Read, Unsubscribe, UnsubscribeFails
  <2>2. CASE ReadFails(c) \/ FinishRefresh(c)
    BY <1>1, <2>2 DEF ReadFails, FinishRefresh
  <2>3. CASE FinishLeave(c)
    BY <2>3 DEF FinishLeave, Single, Quiet, Leaving
  <2> QED BY <1>4, <2>1, <2>2, <2>3 DEF CallStep
<1>5. ASSUME NEW c \in calls, JoinEnds(c) PROVE Calling'
  <2>1. CASE FinishJoin(c)
    BY <2>1 DEF FinishJoin, Single, Quiet, Leaving
  <2>2. CASE JoinFails(c)
    BY <1>1, <2>2 DEF JoinFails
  <2> QED BY <1>5, <2>1, <2>2 DEF JoinEnds
<1>6. ASSUME NEW p \in Posts, PostStep(p) PROVE Calling'
  BY <1>1, <1>6 DEF PostStep, SendText, StartUpload, FinishUpload, UploadFails
<1>7. ASSUME NEW n \in net, PacketStep(n) PROVE Calling'
  BY <1>1, <1>7 DEF PacketStep, HandleSubscribe, HandleUnsubscribe, HandlePost, Lose
<1>8. CASE UNCHANGED vars
  BY <1>1, <1>8 DEF vars
<1> QED BY <1>3, <1>4, <1>5, <1>6, <1>7, <1>8 DEF Next

-----------------------------------------------------------------------------
(* The refinement: everybody the tables, calls and announcements name has been  *)
(* subscribed, so that a member count never exceeds those that ever were.       *)

EverJoined == chain \subseteq ever /\ joined \subseteq ever
EverListed == \A u \in Users : cache[u] \subseteq ever
EverCalled == \A c \in calls : c.by \in ever /\ c.snap \subseteq ever
EverAnnounced == \A n \in net : n.type = "subscribe" => n.from \in ever
Subscribed == EverJoined /\ EverListed /\ EverCalled /\ EverAnnounced

LEMMA ReplaceListed ==
    ASSUME TypeOK, EverListed, NEW u \in Users, NEW addresses \in SUBSET ever,
           ReplaceAll(u, addresses), UNCHANGED ever
    PROVE  EverListed'
BY DEF TypeOK, EverListed, ReplaceAll

\* Steps of users start calls for those that are subscribed.
LEMMA SubscribedByUsers ==
    ASSUME TypeOK, Subscribed, NEW u \in Users, UserStep(u)
    PROVE  Subscribed'
<1> USE DEF tables, ledger, work, Subscribed
<1>1. EverJoined' /\ EverListed'
  BY DEF UserStep, StartJoin, StartLeave, StartRefresh, ShowMembers, EverJoined,
         EverListed
<1>2. EverCalled'
  <2>1. ASSUME NEW op, NEW stage, calls' = Begin(op, u, stage), u \in ever',
               ever \subseteq ever'
        PROVE  EverCalled'
    BY <2>1, Begun DEF EverCalled
  <2>2. CASE StartJoin(u)
    BY <2>1, <2>2 DEF StartJoin
  <2>3. CASE StartLeave(u)
    BY <2>1, <2>3 DEF StartLeave, EverJoined
  <2>4. CASE StartRefresh(u)
    BY <2>1, <2>4 DEF StartRefresh, EverJoined
  <2>5. CASE ShowMembers(u)
    BY <2>5 DEF ShowMembers, EverCalled
  <2> QED BY <2>2, <2>3, <2>4, <2>5 DEF UserStep
<1>3. EverAnnounced'
  <2>1. CASE StartLeave(u)
    BY <2>1 DEF StartLeave, Announce, EverAnnounced
  <2>2. CASE ~StartLeave(u)
    BY <2>2 DEF UserStep, StartJoin, StartRefresh, ShowMembers, EverAnnounced
  <2> QED BY <2>1, <2>2
<1> QED BY <1>1, <1>2, <1>3

\* Answers of the chain name its subscribers, and the tables keep what they name.
LEMMA SubscribedByCalls ==
    ASSUME TypeOK, Subscribed, NEW c \in calls, CallStep(c) \/ JoinEnds(c)
    PROVE  Subscribed'
<1> USE DEF tables, ledger, work, Subscribed
<1>1. c \in Call /\ c.by \in Users /\ c.by \in ever /\ c.snap \subseteq ever
  BY DEF TypeOK, Call, EverCalled
<1>2. EverJoined'
  BY <1>1 DEF CallStep, JoinEnds, ContinueJoin, Read, ReadFails, FinishRefresh,
              Unsubscribe, UnsubscribeFails, FinishLeave, FinishJoin, JoinFails,
              EverJoined
<1>3. UNCHANGED ever
  BY DEF CallStep, JoinEnds, ContinueJoin, Read, ReadFails, FinishRefresh,
         Unsubscribe, UnsubscribeFails, FinishLeave, FinishJoin, JoinFails
<1>4. EverListed'
  <2>1. CASE UNCHANGED cache
    BY <1>3, <2>1 DEF EverListed
  <2>2. CASE ReplaceAll(c.by, c.snap)
    BY <1>1, <1>3, <2>2, ReplaceListed
  <2>3. CASE FinishLeave(c)
    BY <1>1, <1>3, <2>3 DEF FinishLeave, EverListed, TypeOK
  <2> QED BY <2>1, <2>2, <2>3 DEF CallStep, JoinEnds, ContinueJoin, Read, ReadFails,
                  FinishRefresh, Unsubscribe, UnsubscribeFails, FinishJoin, JoinFails
<1>5. EverCalled'
  <2>1. ASSUME NEW stage, NEW snap, snap \subseteq ever, calls' = Replace(c, stage, snap)
        PROVE  EverCalled'
    BY <1>1, <1>3, <2>1, Replaced DEF EverCalled
  <2>2. CASE calls' = calls \ {c}
    BY <1>3, <2>2 DEF EverCalled
  <2>3. CASE ContinueJoin(c) \/ Unsubscribe(c) \/ UnsubscribeFails(c)
    BY <2>1, <2>3 DEF ContinueJoin, Unsubscribe, UnsubscribeFails
  <2>4. CASE Read(c)
    BY <2>1, <2>4 DEF Read, EverJoined
  <2> QED BY <2>2, <2>3, <2>4 DEF CallStep, JoinEnds, ReadFails, FinishRefresh,
                  FinishLeave, FinishJoin, JoinFails
<1>6. EverAnnounced'
  <2>1. CASE FinishJoin(c)
    BY <1>1, <1>3, <2>1 DEF FinishJoin, Announce, EverAnnounced
  <2>2. CASE UNCHANGED net
    BY <1>3, <2>2 DEF EverAnnounced
  <2> QED BY <2>1, <2>2 DEF CallStep, JoinEnds, ContinueJoin, Read, ReadFails,
                  FinishRefresh, Unsubscribe, UnsubscribeFails, FinishLeave, JoinFails
<1> QED BY <1>2, <1>4, <1>5, <1>6

LEMMA SubscribedByPackets ==
    ASSUME TypeOK, Subscribed, NEW n \in net, PacketStep(n)
    PROVE  Subscribed'
<1> USE DEF tables, ledger, work, Subscribed
<1>1. n.to \in Users
  BY DEF TypeOK, Announcement, PostPacket
<1>2. UNCHANGED <<chain, joined, calls, ever>> /\ net' \subseteq net
  BY DEF PacketStep, HandleSubscribe, HandleUnsubscribe, HandlePost, Lose
<1>3. EverListed'
  <2>1. CASE HandleSubscribe(n)
    BY <1>1, <1>2, <2>1 DEF HandleSubscribe, EverListed, EverAnnounced, TypeOK
  <2>2. CASE HandleUnsubscribe(n)
    BY <1>1, <1>2, <2>2 DEF HandleUnsubscribe, EverListed, TypeOK
  <2>3. CASE HandlePost(n) \/ Lose(n)
    BY <1>2, <2>3 DEF HandlePost, Lose, EverListed
  <2> QED BY <2>1, <2>2, <2>3 DEF PacketStep
<1> QED BY <1>2, <1>3 DEF EverJoined, EverCalled, EverAnnounced

LEMMA SubscribedStep == TypeOK /\ Subscribed /\ [Next]_vars => Subscribed'
<1> SUFFICES ASSUME TypeOK, Subscribed, [Next]_vars PROVE Subscribed'
  OBVIOUS
<1> USE DEF tables, ledger, work, Subscribed
<1>1. ASSUME NEW p \in Posts, PostStep(p) PROVE Subscribed'
  <2>1. UNCHANGED <<chain, joined, cache, calls, ever>>
    BY <1>1 DEF PostStep, SendText, StartUpload, FinishUpload, UploadFails
  <2>2. net' = net \/ \E u, dests : net' = net \cup Packets(p, u, dests)
    BY <1>1 DEF PostStep, SendText, StartUpload, FinishUpload, UploadFails
  <2>3. \A n \in net' \ net : n.type = "post"
    BY <2>2 DEF Packets
  <2> QED BY <2>1, <2>3 DEF EverJoined, EverListed, EverCalled, EverAnnounced
<1>2. CASE UNCHANGED vars
  BY <1>2 DEF vars, EverJoined, EverListed, EverCalled, EverAnnounced
<1> QED BY <1>1, <1>2, SubscribedByUsers, SubscribedByCalls, SubscribedByPackets DEF Next

LEMMA Few ==
    ASSUME TypeOK, NEW addresses \in SUBSET ever
    PROVE  Cardinality(addresses) \in 0 .. Cardinality(ever)
<1>1. IsFiniteSet(ever)
  BY UsersAssumption, FS_Subset DEF TypeOK
<1>2. Cardinality(addresses) <= Cardinality(ever)
  BY <1>1, FS_Subset
<1>3. Cardinality(addresses) \in Nat /\ Cardinality(ever) \in Nat
  BY <1>1, FS_Subset, FS_CardinalityType
<1> QED BY <1>2, <1>3

\* Every step of a topic is a step of the directory's table, or changes nothing
\* that it shows.
LEMMA TableStep ==
    TypeOK /\ Subscribed /\ Leaving /\ [Next]_vars => [Table!TableNext]_(Table!table)
<1> SUFFICES ASSUME TypeOK, Subscribed, Leaving, [Next]_vars
             PROVE  [Table!TableNext]_(Table!table)
  OBVIOUS
<1> USE DEF tables, ledger, work, Table!table
<1>1. ASSUME NEW u \in Users, u \in joined, NEW addresses \in SUBSET ever,
             count' = [count EXCEPT ![u] = Cardinality(addresses)],
             UNCHANGED <<chain, joined, ever>>
      PROVE  Table!TableNext
  <2>1. Cardinality(addresses) \in 0 .. Cardinality(ever)
    BY Few
  <2>2. Table!Cardinality(ever) = Cardinality(ever)
    BY DEF Table!Cardinality, Cardinality
  <2>3. Table!Recount(u)
    BY <1>1, <2>1, <2>2 DEF Table!Recount
  <2> QED BY <2>3 DEF Table!TableNext
<1>2. ASSUME NEW u \in Users, NEW addresses \in SUBSET ever, ReplaceAll(u, addresses),
             UNCHANGED <<chain, joined, ever>>
      PROVE  [Table!TableNext]_(Table!table)
  <2>1. CASE u \in joined
    BY <1>1, <1>2, <2>1 DEF ReplaceAll
  <2>2. CASE u \notin joined
    <3>1. UNCHANGED count
      BY <1>2, <2>2 DEF ReplaceAll, TypeOK
    <3> QED BY <1>2, <3>1
  <2> QED BY <2>1, <2>2
<1>3. ASSUME NEW u \in Users, UserStep(u) PROVE [Table!TableNext]_(Table!table)
  <2>1. CASE StartJoin(u)
    <3>1. Table!Subscribe(u)
      BY <2>1 DEF StartJoin, Table!Subscribe
    <3> QED BY <3>1 DEF Table!TableNext
  <2>2. CASE ShowMembers(u)
    BY <1>1, <2>2 DEF ShowMembers, Subscribed, EverListed
  <2>3. CASE StartLeave(u) \/ StartRefresh(u)
    BY <2>3 DEF StartLeave, StartRefresh
  <2> QED BY <1>3, <2>1, <2>2, <2>3 DEF UserStep
<1>4. ASSUME NEW c \in calls, CallStep(c) \/ JoinEnds(c)
      PROVE  [Table!TableNext]_(Table!table)
  <2>0. c.by \in Users /\ c.by \in ever /\ c.snap \in SUBSET ever
    BY DEF TypeOK, Call, Subscribed, EverCalled
  <2>1. CASE ContinueJoin(c)
    <3>1. Table!Keep(c.by)
      BY <2>0, <2>1 DEF ContinueJoin, Table!Keep
    <3> QED BY <2>0, <3>1 DEF Table!TableNext
  <2>2. CASE Unsubscribe(c)
    <3>1. Table!Unsubscribe(c.by)
      BY <2>2 DEF Unsubscribe, Table!Unsubscribe, Leaving
    <3> QED BY <2>0, <3>1 DEF Table!TableNext
  <2>3. CASE FinishLeave(c)
    <3>1. Table!Drop(c.by)
      BY <2>3 DEF FinishLeave, Table!Drop
    <3> QED BY <2>0, <3>1 DEF Table!TableNext
  <2>4. CASE FinishRefresh(c) \/ JoinEnds(c)
    BY <1>2, <2>0, <2>4 DEF FinishRefresh, JoinEnds, FinishJoin, JoinFails
  <2>5. CASE Read(c) \/ ReadFails(c) \/ UnsubscribeFails(c)
    BY <2>5 DEF Read, ReadFails, UnsubscribeFails
  <2> QED BY <1>4, <2>1, <2>2, <2>3, <2>4, <2>5 DEF CallStep
<1>5. ASSUME NEW p \in Posts, PostStep(p) PROVE [Table!TableNext]_(Table!table)
  BY <1>5 DEF PostStep, SendText, StartUpload, FinishUpload, UploadFails
<1>6. ASSUME NEW n \in net, PacketStep(n) PROVE [Table!TableNext]_(Table!table)
  <2>1. ASSUME n.to \in joined, HandleSubscribe(n) \/ HandleUnsubscribe(n)
        PROVE  [Table!TableNext]_(Table!table)
    <3>1. n.to \in Users
      BY DEF TypeOK, Announcement, PostPacket
    <3>2. Subscribed'
      BY <1>6, SubscribedStep DEF Next
    <3>3. cache'[n.to] \in SUBSET ever
      BY <2>1, <3>1, <3>2 DEF Subscribed, EverListed, HandleSubscribe, HandleUnsubscribe
    <3>4. /\ count' = [count EXCEPT ![n.to] = Cardinality(cache'[n.to])]
          /\ UNCHANGED <<chain, joined, ever>>
      BY <2>1 DEF HandleSubscribe, HandleUnsubscribe
    <3> HIDE DEF Table!table
    <3> QED BY <1>1, <2>1, <3>1, <3>3, <3>4
  <2>2. CASE ~(n.to \in joined /\ (HandleSubscribe(n) \/ HandleUnsubscribe(n)))
    BY <1>6, <2>2 DEF PacketStep, HandleSubscribe, HandleUnsubscribe, HandlePost, Lose
  <2> QED BY <2>1, <2>2
<1>7. CASE UNCHANGED vars
  BY <1>7 DEF vars
<1> QED BY <1>3, <1>4, <1>5, <1>6, <1>7 DEF Next

\* Topics implement the table the directory is built on, for any number of users: no
\* cache, snapshot or announcement names a user that never subscribed, and a leave
\* that finishes after another join began still changes the row only as the table may.
THEOREM TableImplemented == Spec => ImplementsTable
<1>1. Init => Table!TableInit
  BY DEF Init, Table!TableInit
<1>2. Init => Calling /\ Subscribed
  BY DEF Init, Calling, Single, Quiet, Leaving, Subscribed, EverJoined, EverListed,
         EverCalled, EverAnnounced
<1>3. TypeOK /\ Calling /\ [Next]_vars => Calling'
  BY CallingStep
<1>4. TypeOK /\ Subscribed /\ [Next]_vars => Subscribed'
  BY SubscribedStep
<1>5. TypeOK /\ Subscribed /\ Calling /\ [Next]_vars => [Table!TableNext]_(Table!table)
  BY TableStep DEF Calling
<1> QED BY <1>1, <1>2, <1>3, <1>4, <1>5, TypeCorrect, PTL
        DEF Spec, ImplementsTable, Table!TableSpec

-----------------------------------------------------------------------------
(* RosterComplete.  The stronger Met says what a reading user will find: a user *)
(* whose snapshot is taken already counts as about to learn of w only when the  *)
(* snapshot lists w.  Seen is what makes the announcement at the end of a join  *)
(* enough: whoever is subscribed and not in the snapshot of a join subscribed   *)
(* after it was taken, and reads the chain later still.                         *)

Knows(u, w) == w \in cache[u] \/ Comes(u, w) \/ <<u, w>> \in missed
WillRead(u, w) ==
    \E d \in calls : /\ d.op = "join" /\ d.by = u
                     /\ d.stage \in {"called", "reading"} \/ w \in d.snap
Aware(u, w) == Knows(u, w) \/ WillRead(u, w)
Met ==
    \A u \in joined \cap chain, w \in joined \cap chain \cap announced :
        u # w => Aware(u, w)
SnapshotOf(c) == c.op = "join" /\ c.stage = "read"
Seen ==
    \A c \in calls, u \in joined \cap chain :
        SnapshotOf(c) /\ c.by \in chain /\ u # c.by => u \in c.snap \/ Aware(u, c.by)
Found == Met /\ Seen

LEMMA MetIsComplete == Met => RosterComplete
BY DEF Met, RosterComplete, Aware, Knows, WillRead, Rereads

\* A step that adds no member, announcement or snapshot, and after which everybody
\* is aware of whom it was aware of.
LEMMA FoundKept ==
    ASSUME Found, joined' \cap chain' \subseteq joined \cap chain,
           announced' \subseteq announced, chain' \subseteq chain,
           \A c \in calls' : SnapshotOf(c) => c \in calls,
           \A u \in joined' \cap chain', w \in chain' : Aware(u, w) => Aware(u, w)'
    PROVE  Found'
<1>1. Met'
  BY DEF Found, Met
<1>2. Seen'
  BY DEF Found, Seen, SnapshotOf
<1> QED BY <1>1, <1>2 DEF Found

LEMMA KnowsKept ==
    ASSUME UNCHANGED <<cache, missed>>, net \subseteq net', NEW u, NEW w
    PROVE  Knows(u, w) => Knows(u, w)'
BY DEF Knows, Comes

LEMMA WillReadKept ==
    ASSUME \A d \in calls : d.op = "join" => d \in calls', NEW u, NEW w
    PROVE  WillRead(u, w) => WillRead(u, w)'
BY DEF WillRead

LEMMA ReplaceKnows ==
    ASSUME TypeOK, NEW u \in Users, NEW addresses \in SUBSET Users,
           ReplaceAll(u, addresses), net \subseteq net'
    PROVE  /\ \A v \in Users, w \in Users : Knows(v, w) => Knows(v, w)'
           /\ \A w \in addresses : Knows(u, w)'
<1>1. cache'[u] = addresses /\ \A v \in Users : v # u => cache'[v] = cache[v]
  BY DEF ReplaceAll, TypeOK
<1>2. \A v \in Users, w \in Users :
          <<v, w>> \in missed => <<v, w>> \in missed' \/ (v = u /\ w \in addresses)
  BY DEF ReplaceAll, Missed
<1>3. \A w \in cache[u] : w \in addresses \/ <<u, w>> \in missed'
  BY DEF ReplaceAll, Missed
<1>4. \A v, w : Comes(v, w) => Comes(v, w)'
  BY DEF Comes
<1> QED BY <1>1, <1>2, <1>3, <1>4 DEF Knows

LEMMA FoundByUsers ==
    ASSUME TypeOK, Calling, Found, NEW u \in Users, UserStep(u)
    PROVE  Found'
<1> USE DEF tables, ledger, work
<1>1. \A v, w : Knows(v, w) => Knows(v, w)'
  <2>1. UNCHANGED <<cache, missed>> /\ net \subseteq net'
    BY DEF UserStep, StartJoin, StartLeave, StartRefresh, ShowMembers
  <2> QED BY <2>1, KnowsKept
<1>2. \A v, w : WillRead(v, w) => WillRead(v, w)'
  <2>1. \A d \in calls : d \in calls'
    BY DEF UserStep, StartJoin, StartLeave, StartRefresh, ShowMembers, Begin
  <2> QED BY <2>1, WillReadKept
<1>3. \A c \in calls' : SnapshotOf(c) => c \in calls
  <2>1. ASSUME NEW op, NEW stage, calls' = Begin(op, u, stage), stage # "read"
        PROVE  \A c \in calls' : SnapshotOf(c) => c \in calls
    BY <2>1, Begun DEF SnapshotOf
  <2> QED BY <2>1 DEF UserStep, StartJoin, StartLeave, StartRefresh, ShowMembers
<1>4. CASE StartJoin(u)
  <2>1. /\ chain' = chain \cup {u} /\ joined' = joined /\ announced' = announced \ {u}
        /\ calls' = Begin("join", u, "called")
        /\ \A c \in calls : ~(c.op = "join" /\ c.by = u)
    BY <1>4 DEF StartJoin, Pending
  <2>2. \A w : Aware(u, w)'
    <3>1. PICK e \in calls' : e.op = "join" /\ e.by = u /\ e.stage = "called"
      BY <2>1, Begun
    <3> QED BY <3>1 DEF Aware, WillRead
  <2>3. \A v, w : Aware(v, w) => Aware(v, w)'
    BY <1>1, <1>2 DEF Aware
  <2>4. Met'
    <3> SUFFICES ASSUME NEW v \in joined' \cap chain',
                        NEW w \in joined' \cap chain' \cap announced', v # w
                 PROVE  Aware(v, w)'
      BY DEF Met
    <3>1. w \in joined \cap chain \cap announced
      BY <2>1
    <3>2. v = u \/ v \in joined \cap chain
      BY <2>1
    <3> QED BY <2>2, <2>3, <3>1, <3>2 DEF Found, Met
  <2>5. Seen'
    <3> SUFFICES ASSUME NEW c \in calls', NEW v \in joined' \cap chain', SnapshotOf(c),
                        c.by \in chain', v # c.by
                 PROVE  v \in c.snap \/ Aware(v, c.by)'
      BY DEF Seen, SnapshotOf
    <3>1. c \in calls /\ c.by # u
      BY <1>3, <2>1 DEF SnapshotOf
    <3>2. c.by \in chain /\ (v = u \/ v \in joined \cap chain)
      BY <2>1, <3>1
    <3> QED BY <2>2, <2>3, <3>1, <3>2 DEF Found, Seen
  <2> QED BY <2>4, <2>5 DEF Found
<1>5. CASE ~StartJoin(u)
  <2>1. UNCHANGED <<chain, joined>> /\ announced' \subseteq announced
    BY <1>5 DEF UserStep, StartLeave, StartRefresh, ShowMembers
  <2> QED BY <1>1, <1>2, <1>3, <2>1, FoundKept DEF Aware
<1> QED BY <1>4, <1>5

LEMMA FoundByPosts ==
    ASSUME Found, NEW p \in Posts, PostStep(p)
    PROVE  Found'
<1>1. /\ UNCHANGED <<chain, joined, announced, calls, cache, missed>>
      /\ net \subseteq net'
  BY DEF PostStep, SendText, StartUpload, FinishUpload, UploadFails, tables, ledger, work
<1>2. \A u, w : Aware(u, w) => Aware(u, w)'
  BY <1>1, KnowsKept, WillReadKept DEF Aware
<1> QED BY <1>1, <1>2, FoundKept

LEMMA FoundByPackets ==
    ASSUME TypeOK, Found, NEW n \in net, PacketStep(n)
    PROVE  Found'
<1> USE DEF tables, ledger, work
<1>1. n.to \in Users /\ n.from \in Users
  BY DEF TypeOK, Announcement, PostPacket
<1>2. UNCHANGED <<chain, joined, announced, calls>> /\ net' = net \ {n}
  BY DEF PacketStep, HandleSubscribe, HandleUnsubscribe, HandlePost, Lose
<1>3. ASSUME NEW u \in joined, NEW w \in Users, Knows(u, w) PROVE Knows(u, w)'
  <2>0. u \in Users
    BY DEF TypeOK
  <2>1. CASE HandleSubscribe(n)
    <3>1. w \in cache[u] => w \in cache'[u]
      BY <1>1, <2>0, <2>1 DEF HandleSubscribe, TypeOK
    <3>2. Comes(u, w) => Comes(u, w)' \/ w \in cache'[u]
      BY <1>1, <1>2, <2>0, <2>1 DEF HandleSubscribe, TypeOK, Comes
    <3>3. <<u, w>> \in missed => <<u, w>> \in missed' \/ w \in cache'[u]
      BY <1>1, <2>0, <2>1 DEF HandleSubscribe, TypeOK, Missed
    <3> QED BY <1>3, <3>1, <3>2, <3>3 DEF Knows
  <2>2. CASE HandleUnsubscribe(n)
    <3>1. w \in cache[u] => w \in cache'[u] \/ <<u, w>> \in missed'
      BY <1>1, <2>0, <2>2 DEF HandleUnsubscribe, TypeOK, Missed
    <3>2. Comes(u, w) => Comes(u, w)'
      BY <1>2, <2>2 DEF HandleUnsubscribe, Comes
    <3>3. <<u, w>> \in missed => <<u, w>> \in missed'
      BY <2>2 DEF HandleUnsubscribe, Missed
    <3> QED BY <1>3, <3>1, <3>2, <3>3 DEF Knows
  <2>3. CASE HandlePost(n)
    BY <1>2, <1>3, <2>3 DEF HandlePost, Knows, Comes
  <2>4. CASE Lose(n)
    <3>1. Comes(u, w) => Comes(u, w)' \/ <<u, w>> \in missed'
      BY <1>2, <2>4 DEF Lose, Comes
    <3>2. UNCHANGED cache /\ missed \subseteq missed'
      BY <2>4 DEF Lose
    <3> QED BY <1>3, <3>1, <3>2 DEF Knows
  <2> QED BY <2>1, <2>2, <2>3, <2>4 DEF PacketStep
<1>4. \A u \in joined, w \in Users : Aware(u, w) => Aware(u, w)'
  BY <1>2, <1>3, WillReadKept DEF Aware
<1>5. chain \subseteq Users
  BY DEF TypeOK
<1> QED BY <1>2, <1>4, <1>5, FoundKept

\* The end of a join, with or without its announcement, after the snapshot is kept.
LEMMA SnapshotKept ==
    ASSUME TypeOK, Calling, Found, NEW c \in calls, SnapshotOf(c),
           ReplaceAll(c.by, c.snap), calls' = calls \ {c}, net \subseteq net'
    PROVE  \A u \in Users, w \in Users : Aware(u, w) => Aware(u, w)'
<1>1. c.by \in Users /\ c.snap \in SUBSET Users
  BY DEF TypeOK, Call
<1>2. \A w \in c.snap : Knows(c.by, w)'
  BY <1>1, ReplaceKnows
<1>3. ASSUME NEW u, NEW w, WillRead(u, w) PROVE WillRead(u, w)' \/ (u = c.by /\ w \in c.snap)
  <2>1. PICK d \in calls : /\ d.op = "join" /\ d.by = u
                           /\ d.stage \in {"called", "reading"} \/ w \in d.snap
    BY <1>3 DEF WillRead
  <2>2. CASE d = c
    BY <2>1, <2>2 DEF SnapshotOf
  <2>3. CASE d # c
    BY <2>1, <2>3 DEF WillRead
  <2> QED BY <2>2, <2>3
<1>4. \A u \in Users, w \in Users : Knows(u, w) => Knows(u, w)'
  BY <1>1, ReplaceKnows
<1> QED BY <1>2, <1>3, <1>4 DEF Aware

LEMMA FoundByJoinEnds ==
    ASSUME TypeOK, Calling, Found, NEW c \in calls, JoinEnds(c)
    PROVE  Found'
<1> USE DEF tables, ledger, work
<1>1. c.op = "join" /\ c.by \in Users /\ c.snap \in SUBSET Users
  BY DEF TypeOK, Call, JoinEnds, FinishJoin, JoinFails
<1>2. UNCHANGED <<chain, joined>> /\ calls' = calls \ {c} /\ net \subseteq net'
  BY DEF JoinEnds, FinishJoin, JoinFails
<1>3. chain \subseteq Users /\ joined \subseteq Users
  BY DEF TypeOK
<1>4. ASSUME SnapshotOf(c), ReplaceAll(c.by, c.snap)
      PROVE  \A u \in Users, w \in Users : Aware(u, w) => Aware(u, w)'
  BY <1>2, <1>4, SnapshotKept
<1>5. CASE FinishJoin(c)
  <2>1. \A u \in Users, w \in Users : Aware(u, w) => Aware(u, w)'
    BY <1>4, <1>5 DEF FinishJoin, SnapshotOf
  <2>2. \A u \in c.snap : u # c.by => Knows(u, c.by)'
    BY <1>5 DEF FinishJoin, Announce, Knows, Comes
  <2>3. \A u \in joined \cap chain : c.by \in chain /\ u # c.by => Aware(u, c.by)'
    BY <1>1, <1>3, <1>5, <2>1, <2>2 DEF FinishJoin, Found, Seen, SnapshotOf, Aware
  <2>4. Met'
    <3> SUFFICES ASSUME NEW u \in joined \cap chain,
                        NEW w \in joined \cap chain \cap announced', u # w
                 PROVE  Aware(u, w)'
      BY <1>2 DEF Met
    <3>1. w = c.by \/ w \in announced
      BY <1>5 DEF FinishJoin
    <3> QED BY <1>3, <2>1, <2>3, <3>1 DEF Found, Met
  <2>5. Seen'
    BY <1>2, <1>3, <2>1 DEF Found, Seen, SnapshotOf
  <2> QED BY <2>4, <2>5 DEF Found
<1>6. CASE JoinFails(c)
  <2>1. \A u \in Users, w \in Users : Aware(u, w) => Aware(u, w)'
    <3>1. CASE ReplaceAll(c.by, c.snap) /\ c.stage = "read"
      BY <1>1, <1>4, <3>1 DEF SnapshotOf
    <3>2. CASE missed' = Missed(c.by, Users, cache[c.by]) /\ UNCHANGED <<cache, count>>
      <4>1. \A w \in Users : w \in cache[c.by] \/ <<c.by, w>> \in missed'
        BY <3>2 DEF Missed
      <4>2. \A w \in Users : Knows(c.by, w)'
        BY <3>2, <4>1 DEF Knows
      <4>3. \A u, w : u # c.by /\ <<u, w>> \in missed => <<u, w>> \in missed'
        BY <3>2 DEF Missed
      <4>4. \A u, w : u # c.by /\ Knows(u, w) => Knows(u, w)'
        BY <1>2, <3>2, <4>3 DEF Knows, Comes
      <4>5. \A u, w : u # c.by /\ WillRead(u, w) => WillRead(u, w)'
        BY <1>2 DEF WillRead
      <4> QED BY <4>2, <4>4, <4>5 DEF Aware
    <3> QED BY <1>6, <3>1, <3>2 DEF JoinFails
  <2>2. UNCHANGED announced
    BY <1>6 DEF JoinFails
  <2> QED BY <1>2, <1>3, <2>1, <2>2, FoundKept
<1> QED BY <1>5, <1>6 DEF JoinEnds

\* A call that is no join, or whose answer is still to come.
LEMMA FoundByCalls ==
    ASSUME TypeOK, Calling, Found, NEW c \in calls, CallStep(c)
    PROVE  Found'
<1> USE DEF tables, ledger, work
<1>1. c \in Call /\ c.by \in Users /\ c.snap \in SUBSET Users
  BY DEF TypeOK, Call
<1>2. chain \subseteq Users /\ joined \subseteq Users
  BY DEF TypeOK
<1>3. CASE ContinueJoin(c)
  <2>1. /\ c.op = "join" /\ joined' = joined \cup {c.by}
        /\ UNCHANGED <<chain, announced, cache, missed, net>>
        /\ calls' = Replace(c, "reading", {})
    BY <1>3 DEF ContinueJoin
  <2>2. PICK e \in calls' : /\ e.op = c.op /\ e.by = c.by /\ e.stage = "reading"
                            /\ calls' = (calls \ {c}) \cup {e}
    BY <2>1, Replaced
  <2>3. \A w : Aware(c.by, w)'
    BY <2>1, <2>2 DEF Aware, WillRead
  <2>4. \A u, w : u # c.by /\ Aware(u, w) => Aware(u, w)'
    BY <2>1, <2>2 DEF Aware, WillRead, Knows, Comes
  <2>5. Met'
    BY <2>1, <2>3, <2>4 DEF Found, Met, Calling, Quiet
  <2>6. Seen'
    BY <2>1, <2>2, <2>3, <2>4 DEF Found, Seen, SnapshotOf
  <2> QED BY <2>5, <2>6 DEF Found
<1>4. CASE Read(c) /\ c.op = "join"
  <2>1. /\ UNCHANGED <<chain, joined, announced, cache, missed, net>>
        /\ calls' = Replace(c, "read", chain)
    BY <1>4 DEF Read
  <2>2. PICK e \in calls' : /\ e.op = c.op /\ e.by = c.by /\ e.stage = "read"
                            /\ e.snap = chain /\ calls' = (calls \ {c}) \cup {e}
    BY <2>1, Replaced
  <2>3. \A w \in chain : Aware(c.by, w)'
    BY <1>4, <2>2 DEF Aware, WillRead
  <2>4. \A u, w : u # c.by /\ Aware(u, w) => Aware(u, w)'
    BY <2>1, <2>2 DEF Aware, WillRead, Knows, Comes
  <2>5. Met'
    BY <2>1, <2>3, <2>4 DEF Found, Met
  <2>6. Seen'
    BY <2>1, <2>2, <2>3, <2>4 DEF Found, Seen, SnapshotOf
  <2> QED BY <2>5, <2>6 DEF Found
<1>5. CASE c.op # "join"
  <2>1. \A d \in calls : d.op = "join" => d \in calls'
    <3>1. ASSUME NEW stage, NEW snap, calls' = Replace(c, stage, snap)
          PROVE  \A d \in calls : d # c => d \in calls'
      BY <3>1, Replaced
    <3> QED BY <1>5, <3>1 DEF CallStep, ContinueJoin, Read, ReadFails, FinishRefresh,
                    Unsubscribe, UnsubscribeFails, FinishLeave
  <2>2. \A d \in calls' : SnapshotOf(d) => d \in calls
    <3>1. ASSUME NEW stage, NEW snap, calls' = Replace(c, stage, snap)
          PROVE  \A d \in calls' : SnapshotOf(d) => d \in calls
      BY <1>5, <3>1, Replaced DEF SnapshotOf
    <3> QED BY <1>5, <3>1 DEF CallStep, ContinueJoin, Read, ReadFails, FinishRefresh,
                    Unsubscribe, UnsubscribeFails, FinishLeave
  <2>3. /\ joined' \subseteq joined /\ chain' \subseteq chain /\ announced' = announced
        /\ net' = net
    BY <1>5 DEF CallStep, ContinueJoin, Read, ReadFails, FinishRefresh,
                Unsubscribe, UnsubscribeFails, FinishLeave
  <2>4. ASSUME NEW u \in joined', NEW w \in Users PROVE Knows(u, w) => Knows(u, w)'
    <3>1. CASE FinishRefresh(c)
      BY <1>1, <1>2, <2>3, <3>1, ReplaceKnows DEF FinishRefresh
    <3>2. CASE FinishLeave(c)
      <4>1. u # c.by /\ u \in Users
        BY <1>2, <3>2 DEF FinishLeave
      <4>2. cache'[u] = cache[u] /\ UNCHANGED <<missed, net>>
        BY <3>2, <4>1 DEF FinishLeave, TypeOK
      <4> QED BY <4>2 DEF Knows, Comes
    <3>3. CASE UNCHANGED <<cache, missed>>
      BY <2>3, <3>3, KnowsKept
    <3> QED BY <1>5, <3>1, <3>2, <3>3 DEF CallStep, ContinueJoin, Read, ReadFails,
                    Unsubscribe, UnsubscribeFails
  <2>5. \A u \in joined' \cap chain', w \in chain' : Aware(u, w) => Aware(u, w)'
    BY <1>2, <2>1, <2>3, <2>4, WillReadKept DEF Aware
  <2> QED BY <2>2, <2>3, <2>5, FoundKept
<1> QED BY <1>3, <1>4, <1>5 DEF CallStep, ReadFails, FinishRefresh, Unsubscribe,
                UnsubscribeFails, FinishLeave

LEMMA FoundStep == TypeOK /\ Calling /\ Found /\ [Next]_vars => Found'
<1> SUFFICES ASSUME TypeOK, Calling, Found, [Next]_vars PROVE Found'
  OBVIOUS
<1>1. CASE UNCHANGED vars
  BY <1>1 DEF vars, Found, Met, Seen, SnapshotOf, Aware, Knows, Comes, WillRead
<1> QED BY <1>1, FoundByUsers, FoundByCalls, FoundByJoinEnds, FoundByPosts,
           FoundByPackets DEF Next

\* Who joined and is subscribed knows every other announced member, expects its
\* announcement, will read the chain itself, or lost it to a fault the history
\* names: two joins that overlap in any way always find each other.
THEOREM RosterCompleteAlways == Spec => []RosterComplete
<1>1. Init => Calling /\ Found
  BY DEF Init, Calling, Single, Quiet, Leaving, Found, Met, Seen
<1>2. TypeOK /\ Calling /\ [Next]_vars => Calling'
  BY CallingStep
<1>3. TypeOK /\ Calling /\ Found /\ [Next]_vars => Found'
  BY FoundStep
<1>4. Found => RosterComplete
  BY MetIsComplete DEF Found
<1> QED BY <1>1, <1>2, <1>3, <1>4, TypeCorrect, PTL DEF Spec

=============================================================================
