-------------------------- MODULE DiscoveryProofs --------------------------
(***************************************************************************)
(* Discovery is type correct, and gossip invents no members, for any number *)
(* of users and peers and any bound.                                        *)
(*                                                                         *)
(* CountsWitnessed speaks of the directory and of the announcements on      *)
(* their way.  A step may fill these from every other place that holds a    *)
(* count, so the inductive invariant Witnessed bounds all of them, and the  *)
(* bound itself, the number of users that were ever subscribed, only grows. *)
(***************************************************************************)
EXTENDS Discovery, FiniteSetTheorems, TLAPS

-----------------------------------------------------------------------------
(* Types. *)

LEMMA ChainCounts == TypeOK => Cardinality(chain) \in Nat /\ Cardinality(ever) \in Nat
BY UsersAssumption, FS_Subset, FS_CardinalityType DEF TypeOK

LEMMA UpsertTyped ==
    ASSUME TypeOK, NEW u \in Users, NEW n \in Nat, Upsert(u, n)
    PROVE  /\ listed' \subseteq Users
           /\ reported' \in [Users -> Nat]
           /\ stale' \subseteq listed'
BY DEF TypeOK, Upsert, Larger

LEMMA InitTyped == Init => TypeOK
BY DEF Init, TableInit, TypeOK

\* Steps of the topics and of a creation.
LEMMA TypedByMembers ==
    ASSUME TypeOK, NEW u \in Members,
           TopicStep(u) \/ CreateGroup(u) \/ FinishCreate(u) \/ CreateFails(u)
    PROVE  TypeOK'
<1> USE DEF table, entry, waiting
<1>1. u \in Users
  BY UsersAssumption
<1>2. CASE TopicStep(u)
  <2>1. /\ chain' \subseteq Users /\ joined' \subseteq Users /\ ever' \subseteq Users
    BY <1>1, <1>2 DEF TopicStep, Subscribe, Keep, Recount, Unsubscribe, Drop, TypeOK
  <2>2. count' \in [Users -> Nat]
    <3>1. CASE Recount(u)
      <4>1. PICK n \in 0 .. Cardinality(ever) : count' = [count EXCEPT ![u] = n]
        BY <3>1 DEF Recount
      <4>2. n \in Nat
        BY <4>1, ChainCounts
      <4> QED BY <4>1, <4>2 DEF TypeOK
    <3>2. CASE ~Recount(u)
      BY <1>1, <1>2, <3>2 DEF TopicStep, Subscribe, Keep, Unsubscribe, Drop, TypeOK
    <3> QED BY <3>1, <3>2
  <2>3. tally' \in Nat /\ UNCHANGED <<entry, waiting, heard>>
    BY <1>2 DEF TopicStep, Spend, TypeOK
  <2> QED BY <2>1, <2>2, <2>3 DEF TypeOK
<1>3. CASE CreateGroup(u) \/ CreateFails(u)
  BY <1>1, <1>3 DEF CreateGroup, CreateFails, Subscribe, Spend, TypeOK
<1>4. CASE FinishCreate(u)
  <2>1. /\ listed' \subseteq Users
        /\ reported' \in [Users -> Nat]
        /\ stale' \subseteq listed'
    BY <1>1, <1>4, UpsertTyped DEF FinishCreate
  <2>2. sending' \subseteq Report
    BY <1>1, <1>4 DEF FinishCreate, Report, TypeOK
  <2> QED BY <1>4, <2>1, <2>2 DEF FinishCreate, TypeOK
<1> QED BY <1>2, <1>3, <1>4

LEMMA TypedByTimers ==
    ASSUME TypeOK, NEW u \in Users,
           Compose(u) \/ StartCheck(u) \/ WeekPasses(u) \/ Cleanup(u) \/ Restart(u)
    PROVE  TypeOK'
<1> USE DEF table, entry, waiting
<1>1. CASE Compose(u)
  <2>1. sending' \subseteq Report
    BY <1>1 DEF Compose, Believed, Report, TypeOK
  <2> QED BY <1>1, <2>1 DEF Compose, TypeOK
<1>2. CASE StartCheck(u)
  <2>1. checking' \subseteq Check
    BY <1>2 DEF StartCheck, Check, TypeOK
  <2> QED BY <1>2, <2>1 DEF StartCheck, TypeOK
<1>3. CASE WeekPasses(u) \/ Cleanup(u)
  BY <1>3 DEF WeekPasses, Cleanup, Spend, TypeOK
<1>4. CASE Restart(u)
  <2>1. listed' \subseteq Users /\ reported' \in [Users -> Nat] /\ stale' \subseteq listed'
    BY <1>4 DEF Restart, Larger, TypeOK
  <2> QED BY <1>4, <2>1 DEF Restart, Spend, TypeOK
<1> QED BY <1>1, <1>2, <1>3, <1>4

LEMMA TypedByAnswers ==
    ASSUME TypeOK,
           \/ \E s \in sending : SendOut(s) \/ SendOutFails(s)
           \/ \E g \in gossip : HandleAnnouncement(g) \/ LoseGossip(g)
           \/ \E k \in checking : FinishCheck(k) \/ CheckFails(k)
    PROVE  TypeOK'
<1> USE DEF table, entry, waiting
<1>1. ASSUME NEW s \in sending, SendOut(s) \/ SendOutFails(s) PROVE TypeOK'
  <2>1. s.by \in Users /\ s.count \in Nat
    BY DEF TypeOK, Report
  <2>2. gossip' \subseteq Announcement
    BY <1>1, <2>1, UsersAssumption DEF SendOut, SendOutFails, Announcement, TypeOK
  <2> QED BY <1>1, <2>2 DEF SendOut, SendOutFails, Spend, TypeOK
<1>2. ASSUME NEW g \in gossip, HandleAnnouncement(g) \/ LoseGossip(g) PROVE TypeOK'
  <2>1. g.to \in Users /\ g.count \in Nat
    BY DEF TypeOK, Announcement
  <2>2. CASE HandleAnnouncement(g)
    <3>1. /\ listed' \subseteq Users
          /\ reported' \in [Users -> Nat]
          /\ stale' \subseteq listed'
      BY <2>1, <2>2, UpsertTyped DEF HandleAnnouncement
    <3>2. heard' \in [Users -> SUBSET Nat]
      BY <2>1, <2>2 DEF HandleAnnouncement, TypeOK
    <3> QED BY <2>2, <3>1, <3>2 DEF HandleAnnouncement, TypeOK
  <2>3. CASE LoseGossip(g)
    BY <2>3 DEF LoseGossip, Spend, TypeOK
  <2> QED BY <1>2, <2>2, <2>3
<1>3. ASSUME NEW k \in checking, FinishCheck(k) \/ CheckFails(k) PROVE TypeOK'
  <2>1. k.by \in Users
    BY DEF TypeOK, Check
  <2>2. reported' \in [Users -> Nat]
    BY <1>3, <2>1, ChainCounts DEF FinishCheck, CheckFails, TypeOK
  <2> QED BY <1>3, <2>2 DEF FinishCheck, CheckFails, Spend, TypeOK
<1> QED BY <1>1, <1>2, <1>3

LEMMA TypeStep == TypeOK /\ [Next]_vars => TypeOK'
<1> SUFFICES ASSUME TypeOK, [Next]_vars PROVE TypeOK'
  OBVIOUS
<1>1. CASE UNCHANGED vars
  BY <1>1 DEF vars, table, entry, waiting, TypeOK
<1> QED BY <1>1, TypedByMembers, TypedByTimers, TypedByAnswers DEF Next

\* The directory is type correct: in particular an entry is stale only while it is
\* listed.
THEOREM TypeCorrect == Spec => []TypeOK
<1>1. TypeOK /\ [Next]_vars => TypeOK'
  BY TypeStep
<1> QED BY <1>1, InitTyped, PTL DEF Spec

-----------------------------------------------------------------------------
(* Counts. *)

Bounded(n) == n <= Cardinality(ever)
WitnessedTable == joined \subseteq ever /\ chain \subseteq ever
WitnessedCounts ==
    \A u \in Users : /\ Bounded(count[u]) /\ Bounded(reported[u])
                     /\ \A n \in heard[u] : Bounded(n)
WitnessedReports == \A r \in sending \cup gossip : Bounded(r.count)
Witnessed == WitnessedTable /\ WitnessedCounts /\ WitnessedReports

LEMMA WitnessedSuffices == TypeOK /\ Witnessed => CountsWitnessed
BY DEF TypeOK, Witnessed, WitnessedCounts, WitnessedReports, Bounded, CountsWitnessed

LEMMA InitWitnessed == Init => Witnessed
<1> SUFFICES ASSUME Init PROVE Witnessed
  OBVIOUS
<1>1. Cardinality(ever) = 0
  BY FS_EmptySet DEF Init, TableInit
<1> QED BY <1>1 DEF Init, TableInit, Witnessed, WitnessedTable, WitnessedCounts,
                    WitnessedReports, Bounded

\* The bound only grows.
LEMMA EverGrows ==
    ASSUME TypeOK, [Next]_vars
    PROVE  /\ ever \subseteq ever'
           /\ \A n \in Nat : Bounded(n) => Bounded(n)'
<1>1. ever \subseteq ever'
  BY DEF Next, TopicStep, Subscribe, Keep, Recount, Unsubscribe, Drop, CreateGroup,
         FinishCreate, CreateFails, Compose, StartCheck, WeekPasses, Cleanup, Restart,
         SendOut, SendOutFails, HandleAnnouncement, LoseGossip, FinishCheck, CheckFails,
         vars, table
<1>2. ever' \subseteq Users
  BY TypeStep DEF TypeOK
<1>3. IsFiniteSet(ever') /\ IsFiniteSet(ever)
  BY <1>1, <1>2, UsersAssumption, FS_Subset
<1>4. Cardinality(ever) <= Cardinality(ever')
  BY <1>1, <1>3, FS_Subset
<1>5. Cardinality(ever) \in Nat /\ Cardinality(ever') \in Nat
  BY <1>3, FS_CardinalityType
<1> QED BY <1>1, <1>4, <1>5 DEF Bounded

\* What the chain answers, and the one member of a group just created.
LEMMA ChainBounded == TypeOK /\ Witnessed => Bounded(Cardinality(chain))
<1> SUFFICES ASSUME TypeOK, Witnessed PROVE Bounded(Cardinality(chain))
  OBVIOUS
<1>1. IsFiniteSet(ever) /\ chain \subseteq ever
  BY UsersAssumption, FS_Subset DEF TypeOK, Witnessed, WitnessedTable
<1> QED BY <1>1, FS_Subset DEF Bounded

LEMMA OneBounded ==
    ASSUME TypeOK, NEW u \in ever
    PROVE  Bounded(1)
<1>1. IsFiniteSet(ever) /\ ever # {}
  BY UsersAssumption, FS_Subset DEF TypeOK
<1>2. Cardinality(ever) \in Nat /\ Cardinality(ever) # 0
  BY <1>1, FS_CardinalityType, FS_EmptySet
<1> QED BY <1>2 DEF Bounded

LEMMA WitnessedStep == TypeOK /\ Witnessed /\ [Next]_vars => Witnessed'
<1> SUFFICES ASSUME TypeOK, Witnessed, [Next]_vars PROVE Witnessed'
  OBVIOUS
<1> USE DEF table, entry, waiting
<1>0. \A n \in Nat : Bounded(n) => Bounded(n)'
  BY EverGrows
<1>1. WitnessedTable'
  BY DEF Witnessed, WitnessedTable, Next, TopicStep, Subscribe, Keep, Recount,
         Unsubscribe, Drop, CreateGroup, FinishCreate, CreateFails, Compose, StartCheck,
         WeekPasses, Cleanup, Restart, SendOut, SendOutFails, HandleAnnouncement,
         LoseGossip, FinishCheck, CheckFails, vars
<1>2. /\ \A u \in Users : count[u] \in Nat /\ reported[u] \in Nat /\ heard[u] \subseteq Nat
      /\ \A r \in sending \cup gossip : r.count \in Nat
  BY DEF TypeOK, Report, Announcement
<1>3. /\ \A u \in Users : Bounded(count[u])' \/ count'[u] # count[u]
      /\ \A u \in Users : Bounded(reported[u])' \/ reported'[u] # reported[u]
      /\ \A u \in Users : \A n \in heard[u] : Bounded(n)'
      /\ \A r \in sending \cup gossip : Bounded(r.count)'
  BY <1>0, <1>2 DEF Witnessed, WitnessedCounts, WitnessedReports, Bounded
<1>4. \A u \in Users : Bounded(count[u])'
  <2>1. ASSUME NEW v \in Users, Recount(v) PROVE \A u \in Users : Bounded(count[u])'
    <3>1. PICK n \in 0 .. Cardinality(ever) : count' = [count EXCEPT ![v] = n]
      BY <2>1 DEF Recount
    <3>2. Bounded(n)'
      BY <1>0, <3>1, ChainCounts DEF Bounded
    <3> QED BY <1>3, <3>1, <3>2 DEF TypeOK, Bounded
  <2>2. ASSUME NEW v \in Users, Keep(v) \/ Drop(v) PROVE \A u \in Users : Bounded(count[u])'
    <3>1. Cardinality(ever') \in Nat
      BY ChainCounts, TypeStep, FS_Subset, FS_CardinalityType, UsersAssumption DEF TypeOK
    <3>2. Bounded(0)'
      BY <3>1 DEF Bounded
    <3>3. count' = [count EXCEPT ![v] = 0]
      BY <2>2 DEF Keep, Drop
    <3> QED BY <1>3, <3>2, <3>3 DEF TypeOK, Bounded
  <2>3. CASE UNCHANGED count
    BY <1>3, <2>3
  <2> QED BY <2>1, <2>2, <2>3, UsersAssumption
          DEF Next, TopicStep, Subscribe, Unsubscribe, CreateGroup, FinishCreate,
              CreateFails, Compose, StartCheck, WeekPasses, Cleanup, Restart, SendOut,
              SendOutFails, HandleAnnouncement, LoseGossip, FinishCheck, CheckFails, vars
<1>5. \A u \in Users : Bounded(reported[u])'
  <2>1. ASSUME NEW v \in Users, NEW n \in Nat, Bounded(n)',
               reported' = [reported EXCEPT ![v] = Larger(n, @)]
        PROVE  \A u \in Users : Bounded(reported[u])'
    BY <1>3, <2>1 DEF TypeOK, Bounded, Larger
  <2>2. ASSUME NEW v \in Users, NEW n \in Nat, Bounded(n)',
               reported' = [reported EXCEPT ![v] = n]
        PROVE  \A u \in Users : Bounded(reported[u])'
    BY <1>3, <2>2 DEF TypeOK, Bounded
  <2>3. ASSUME NEW u \in Members, FinishCreate(u)
        PROVE  \A v \in Users : Bounded(reported[v])'
    <3>1. Bounded(1)'
      BY <1>0, <2>3, OneBounded DEF FinishCreate, Witnessed, WitnessedTable
    <3> QED BY <2>1, <2>3, <3>1, UsersAssumption DEF FinishCreate, Upsert
  <2>4. ASSUME NEW u \in Users, Cleanup(u) PROVE \A v \in Users : Bounded(reported[v])'
    <3>1. Cardinality(ever') \in Nat
      BY TypeStep, FS_Subset, FS_CardinalityType, UsersAssumption DEF TypeOK
    <3>2. Bounded(0)'
      BY <3>1 DEF Bounded
    <3> QED BY <2>2, <2>4, <3>2 DEF Cleanup
  <2>5. ASSUME NEW u \in Users, Restart(u) PROVE \A v \in Users : Bounded(reported[v])'
    BY <1>2, <1>3, <2>1, <2>5 DEF Restart
  <2>6. ASSUME NEW g \in gossip, HandleAnnouncement(g)
        PROVE  \A v \in Users : Bounded(reported[v])'
    BY <1>2, <1>3, <2>1, <2>6 DEF HandleAnnouncement, Upsert, TypeOK, Announcement
  <2>7. ASSUME NEW k \in checking, FinishCheck(k)
        PROVE  \A v \in Users : Bounded(reported[v])'
    BY <1>0, <1>3, <2>2, <2>7, ChainBounded, ChainCounts DEF FinishCheck, TypeOK, Check
  <2>8. CASE UNCHANGED reported
    BY <1>3, <2>8
  <2> QED BY <2>3, <2>4, <2>5, <2>6, <2>7, <2>8
          DEF Next, TopicStep, CreateGroup, CreateFails, Compose, StartCheck, WeekPasses,
              SendOut, SendOutFails, LoseGossip, CheckFails, vars
<1>6. \A u \in Users : \A n \in heard'[u] : Bounded(n)'
  <2>1. ASSUME NEW g \in gossip, HandleAnnouncement(g)
        PROVE  \A u \in Users : \A n \in heard'[u] : Bounded(n)'
    BY <1>3, <2>1 DEF HandleAnnouncement, TypeOK, Announcement
  <2>2. CASE UNCHANGED heard
    BY <1>3, <2>2
  <2> QED BY <2>1, <2>2
          DEF Next, TopicStep, CreateGroup, FinishCreate, CreateFails, Compose,
              StartCheck, WeekPasses, Cleanup, Restart, SendOut, SendOutFails,
              LoseGossip, FinishCheck, CheckFails, vars
<1>7. WitnessedReports'
  <2>1. ASSUME NEW n, Bounded(n)', NEW u,
               sending' \subseteq sending \cup {[by |-> u, count |-> n]},
               gossip' \subseteq gossip
        PROVE  WitnessedReports'
    BY <1>3, <2>1 DEF WitnessedReports
  <2>2. ASSUME NEW u \in Users, Compose(u) PROVE WitnessedReports'
    <3>1. Bounded(count[u]) /\ Bounded(reported[u])
      BY DEF Witnessed, WitnessedCounts
    <3>2. PICK n \in Nat : n = Believed(u) /\ Bounded(n)'
      BY <1>0, <1>2, <3>1 DEF Believed
    <3> QED BY <2>1, <2>2, <3>2 DEF Compose
  <2>3. ASSUME NEW u \in Members, FinishCreate(u) PROVE WitnessedReports'
    <3>1. Bounded(count[u]) /\ count[u] \in Nat
      BY <1>2, UsersAssumption DEF Witnessed, WitnessedCounts
    <3>2. PICK n \in Nat : n = count[u] /\ Bounded(n)'
      BY <1>0, <3>1
    <3> QED BY <2>1, <2>3, <3>2 DEF FinishCreate
  <2>4. ASSUME NEW s \in sending, SendOut(s) PROVE WitnessedReports'
    BY <1>3, <2>4 DEF SendOut, WitnessedReports
  <2>5. CASE sending' \subseteq sending /\ gossip' \subseteq gossip
    BY <1>3, <2>5 DEF WitnessedReports
  <2> QED BY <2>2, <2>3, <2>4, <2>5
          DEF Next, TopicStep, CreateGroup, CreateFails, StartCheck, WeekPasses, Cleanup,
              Restart, SendOutFails, HandleAnnouncement, LoseGossip, FinishCheck,
              CheckFails, vars
<1> QED BY <1>1, <1>4, <1>5, <1>6, <1>7 DEF Witnessed, WitnessedCounts

\* No count of a directory, and none under way to one, exceeds the users that were
\* ever subscribed, for any number of users repeating and merging each other's
\* numbers.
THEOREM CountsWitnessedAlways == Spec => []CountsWitnessed
<1>1. TypeOK /\ Witnessed /\ [Next]_vars => Witnessed'
  BY WitnessedStep
<1>2. TypeOK /\ Witnessed => CountsWitnessed
  BY WitnessedSuffices
<1> QED BY <1>1, <1>2, InitWitnessed, TypeCorrect, PTL DEF Spec
=============================================================================
