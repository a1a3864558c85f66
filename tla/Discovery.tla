----------------------------- MODULE Discovery -----------------------------
(***************************************************************************)
(* The directory of public groups: DiscoveryService and its table          *)
(* discovered_group, on top of the topics of TopicTable.  Peers tell one   *)
(* another every ten minutes which groups they know, with the number of    *)
(* subscribers they believe in; every thirty minutes each compares its own *)
(* numbers with the chain; a group nobody has reported for a week is       *)
(* dropped.  The model follows the entry of one group among users whose    *)
(* client is connected and whose timers run.                               *)
(*                                                                         *)
(* Descriptions, categories and avatars travel with the entry and are      *)
(* left out, and so is the copy of an announcement in the conversation of  *)
(* the discovery topic.                                                    *)
(***************************************************************************)
EXTENDS TopicTable

CONSTANTS
    Peers,      \* the users subscribed to the discovery topic
    Members,    \* the users that ever join or create the group
    Seeded,     \* whether the group is one of SEED_GROUPS
    Limit       \* bound: joins, recounts, faults and weeks of all together

ASSUME UsersAssumption ==
    IsFiniteSet(Users) /\ Peers \subseteq Users /\ Members \subseteq Users
ASSUME SeededAssumption == Seeded \in BOOLEAN
ASSUME LimitAssumption == Limit \in Nat

VARIABLES
    listed,     \* the users whose discovered_group has the entry
    reported,   \* subscriber_count of the entry, 0 without one
    stale,      \* users whose entry was last reported more than a week ago
    sending,    \* announcements composed, waiting for the list of peers
    checking,   \* counts read from the table, waiting for the chain
    gossip,     \* announcements on their way
    heard,      \* counts in the announcements stored in #publicGroups
    creating,   \* users whose join was started by createAndBroadcastGroup
    tally       \* bounded steps so far

entry == <<listed, reported, stale>>
waiting == <<sending, checking, gossip, creating>>
vars == <<table, entry, waiting, heard, tally>>

Report == [by : Users, count : Nat]
Check == [by : Users, seen : Nat]
Announcement == [from : Users, to : Users, count : Nat]

\* One of the bounded steps.
Spend == tally < Limit /\ tally' = tally + 1

\* mutant: reports are added up
UpsertSum(u, n) ==
    /\ listed' = listed \cup {u}
    /\ reported' = [reported EXCEPT ![u] = n + @]
    /\ stale' = stale \ {u}

\* DiscoveredGroupRepository.upsert: the larger count wins, the report is fresh.
Larger(m, n) == IF m > n THEN m ELSE n
Upsert(u, n) ==
    /\ listed' = listed \cup {u}
    /\ reported' = [reported EXCEPT ![u] = Larger(n, @)]
    /\ stale' = stale \ {u}

\* Every user's table starts with the SEED_GROUPS.
Init ==
    /\ TableInit
    /\ listed = IF Seeded THEN Users ELSE {}
    /\ reported = [u \in Users |-> 0]
    /\ stale = {}
    /\ sending = {}
    /\ checking = {}
    /\ gossip = {}
    /\ heard = [u \in Users |-> {}]
    /\ creating = {}
    /\ tally = 0

-----------------------------------------------------------------------------
(* Telling the peers. *)

\* broadcastKnownGroups up to its await.  The count of a joined topic is its
\* memberCount, of any other group the one in the directory.  The announcements of
\* ten minutes ago have arrived or are lost.
Believed(u) == IF u \in joined THEN count[u] ELSE reported[u]
Compose(u) ==
    /\ u \in joined \cup listed
    /\ \A s \in sending : s.by # u
    /\ \A g \in gossip : g.from # u
    /\ sending' = sending \cup {[by |-> u, count |-> Believed(u)]}
    /\ UNCHANGED <<table, entry, checking, gossip, creating, heard, tally>>

\* mutant: only the peers that have joined the topic are told
SendOutToMembers(s) ==
    /\ sending' = sending \ {s}
    /\ gossip' = gossip \cup
         {[from |-> s.by, to |-> w, count |-> s.count] :
            w \in (Peers \cap joined) \ {s.by}}
    /\ UNCHANGED <<table, entry, checking, creating, heard, tally>>

\* After the await: to the subscribers of the discovery topic but oneself.
SendOut(s) ==
    /\ sending' = sending \ {s}
    /\ gossip' = gossip \cup
         {[from |-> s.by, to |-> w, count |-> s.count] : w \in Peers \ {s.by}}
    /\ UNCHANGED <<table, entry, checking, creating, heard, tally>>

SendOutFails(s) ==
    /\ Spend
    /\ sending' = sending \ {s}
    /\ UNCHANGED <<table, entry, checking, gossip, creating, heard>>

\* handleAnnouncementMessage; the message is then stored in #publicGroups.
HandleAnnouncement(g) ==
    /\ gossip' = gossip \ {g}
    /\ Upsert(g.to, g.count)
    /\ heard' = [heard EXCEPT ![g.to] = @ \cup {g.count}]
    /\ UNCHANGED <<table, sending, checking, creating, tally>>

LoseGossip(g) ==
    /\ Spend
    /\ gossip' = gossip \ {g}
    /\ UNCHANGED <<table, entry, sending, checking, creating, heard>>

-----------------------------------------------------------------------------
(* Keeping the entry. *)

\* verifySubscriberCounts reads the table once and then awaits the chain per group:
\* what the answer is compared with is the count of that first reading.
StartCheck(u) ==
    /\ u \in listed
    /\ \A k \in checking : k.by # u
    /\ checking' = checking \cup {[by |-> u, seen |-> reported[u]]}
    /\ UNCHANGED <<table, entry, sending, gossip, creating, heard, tally>>

\* mutant: a count is only ever raised
FinishCheckUp(k) ==
    LET n == Cardinality(chain) IN
    /\ checking' = checking \ {k}
    /\ reported' = IF n # k.seen /\ k.by \in listed
                   THEN [reported EXCEPT ![k.by] = Larger(n, @)] ELSE reported
    /\ UNCHANGED <<table, listed, stale, sending, gossip, creating, heard, tally>>

FinishCheck(k) ==
    LET n == Cardinality(chain) IN
    /\ checking' = checking \ {k}
    /\ reported' = IF n # k.seen /\ k.by \in listed
                   THEN [reported EXCEPT ![k.by] = n] ELSE reported
    /\ UNCHANGED <<table, listed, stale, sending, gossip, creating, heard, tally>>

CheckFails(k) ==
    /\ Spend
    /\ checking' = checking \ {k}
    /\ UNCHANGED <<table, entry, sending, gossip, creating, heard>>

\* A week passes in which nobody reports the group to u.
WeekPasses(u) ==
    /\ u \in listed \ stale
    /\ Spend
    /\ stale' = stale \cup {u}
    /\ UNCHANGED <<table, listed, reported, waiting, heard>>

\* mutant: the report's time is kept when its entry is deleted
CleanupHalf(u) ==
    /\ u \in stale
    /\ listed' = listed \ {u}
    /\ reported' = [reported EXCEPT ![u] = 0]
    /\ UNCHANGED <<table, stale, waiting, heard, tally>>

\* cleanupStale, every hour.
Cleanup(u) ==
    /\ u \in stale
    /\ listed' = listed \ {u}
    /\ stale' = stale \ {u}
    /\ reported' = [reported EXCEPT ![u] = 0]
    /\ UNCHANGED <<table, waiting, heard, tally>>

\* The program ends and starts: what it awaited is forgotten.  The start lists the
\* seeds, and a group of a stored announcement whose avatar is not cached is listed
\* again, as old as that announcement, which is too old if the group was cleaned up.
Restart(u) ==
    /\ Spend
    /\ sending' = {s \in sending : s.by # u}
    /\ checking' = {k \in checking : k.by # u}
    /\ creating' = creating \ {u}
    /\ \/ /\ listed' = IF Seeded THEN listed \cup {u} ELSE listed
          /\ UNCHANGED <<reported, stale>>
       \/ \E n \in heard[u] :
            /\ listed' = listed \cup {u}
            /\ reported' = [reported EXCEPT ![u] = Larger(n, @)]
            /\ stale' = IF u \in listed THEN stale ELSE stale \cup {u}
    /\ UNCHANGED <<table, gossip, heard>>

-----------------------------------------------------------------------------
(* Topic steps, those of createAndBroadcastGroup among them. *)

TopicStep(u) ==
    /\ \/ (Unsubscribe(u) \/ Drop(u)) /\ UNCHANGED tally
       \/ u \notin joined /\ Keep(u) /\ UNCHANGED tally
       \/ (Subscribe(u) \/ Keep(u) \/ Recount(u)) /\ Spend
    /\ UNCHANGED <<entry, waiting, heard>>

\* The Create button: createAndJoin is awaited.
CreateGroup(u) ==
    /\ Subscribe(u)
    /\ Spend
    /\ creating' = creating \cup {u}
    /\ UNCHANGED <<entry, sending, checking, gossip, heard>>

\* The join of a creation has finished: the entry counts its creator, and the
\* group is broadcast at once.
FinishCreate(u) ==
    /\ u \in creating \cap joined
    /\ Upsert(u, 1)
    /\ sending' = sending \cup {[by |-> u, count |-> count[u]]}
    /\ creating' = creating \ {u}
    /\ UNCHANGED <<table, checking, gossip, heard, tally>>

\* A creation whose join throws goes no further.
CreateFails(u) ==
    /\ u \in creating
    /\ Spend
    /\ creating' = creating \ {u}
    /\ UNCHANGED <<table, entry, sending, checking, gossip, heard>>

Next ==
    \/ \E u \in Members :
         TopicStep(u) \/ CreateGroup(u) \/ FinishCreate(u) \/ CreateFails(u)
    \/ \E u \in Users :
         Compose(u) \/ StartCheck(u) \/ WeekPasses(u) \/ Cleanup(u) \/ Restart(u)
    \/ \E s \in sending : SendOut(s) \/ SendOutFails(s)
    \/ \E g \in gossip : HandleAnnouncement(g) \/ LoseGossip(g)
    \/ \E k \in checking : FinishCheck(k) \/ CheckFails(k)

Spec == Init /\ [][Next]_vars

\* The timers of a running program fire for ever, calls to the chain are answered
\* and a packet that is not lost arrives.
FairSpec ==
    /\ Spec
    /\ \A u \in Users :
         /\ WF_vars(Compose(u))
         /\ WF_vars(StartCheck(u))
         /\ WF_vars(\E s \in sending : s.by = u /\ SendOut(s))
         /\ WF_vars(\E k \in checking : k.by = u /\ FinishCheck(k))
         /\ WF_vars(\E g \in gossip : g.to = u /\ HandleAnnouncement(g))

-----------------------------------------------------------------------------
(* Properties. *)

TypeOK ==
    /\ chain \subseteq Users
    /\ joined \subseteq Users
    /\ count \in [Users -> Nat]
    /\ ever \subseteq Users
    /\ listed \subseteq Users
    /\ reported \in [Users -> Nat]
    /\ stale \subseteq listed
    /\ sending \subseteq Report
    /\ checking \subseteq Check
    /\ gossip \subseteq Announcement
    /\ heard \in [Users -> SUBSET Nat]
    /\ creating \subseteq Users
    /\ tally \in Nat

\* Gossip invents no members: however often a count is repeated, merged, checked
\* against a stale reading and reported back to the peer it came from, it never
\* exceeds the number of users that have ever been subscribed.
CountsWitnessed ==
    /\ \A u \in listed : reported[u] <= Cardinality(ever)
    /\ \A g \in gossip : g.count <= Cardinality(ever)

\* A group that its members announce reaches every peer, although announcements are
\* lost and nothing is acknowledged: the timer repeats them.
GroupBecomesKnown ==
    \A u \in Users, w \in Peers :
        u \in joined ~> (w \in listed \/ u \notin joined)

\* Each user's own check brings its count back to the chain's again and again,
\* although gossip may raise it between the reading and the comparison.
CountRecovers ==
    \A u \in Users : []<>(u \in listed => reported[u] = Cardinality(chain))

\* "Subscriber counts from blockchain": in the end a directory shows them.
CountsFollowChain ==
    \A u \in Users : <>[](u \in listed => reported[u] = Cardinality(chain))

=============================================================================
