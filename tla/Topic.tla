------------------------------- MODULE Topic -------------------------------
(***************************************************************************)
(* Public topics: TopicService of every user, its topic, topic_subscriber, *)
(* session and message tables, the subscriptions on the NKN chain, and the *)
(* relay that carries announcements and posts.  One topic is modelled;     *)
(* topics share nothing but the tables.  The chain is the truth, every     *)
(* user posts to the subscribers it has cached, and the announcements      *)
(* topic:subscribe and topic:unsubscribe are all that keeps a cache fresh  *)
(* between two reads of the chain, which only joining and the refresh      *)
(* button make.                                                            *)
(*                                                                         *)
(* A handler runs to its first await as one step; a call that waits for    *)
(* the chain is a record of `calls`, and what follows the await is a step  *)
(* of its own.                                                             *)
(***************************************************************************)
EXTENDS Integers, FiniteSets

CONSTANTS
    Users,
    Posts,          \* what is posted to the topic
    Author,         \* who posts it
    Kind,           \* "text", "placed" (image, file) or "inline" (audio)
    Limit           \* bound: joins, refreshes, posts and faults of all together

ASSUME UsersAssumption == IsFiniteSet(Users)
ASSUME PostsAssumption ==
    /\ Author \in [Posts -> Users]
    /\ Kind \in [Posts -> {"text", "placed", "inline"}]
ASSUME LimitAssumption == Limit \in Nat

VARIABLES
    chain,      \* the subscribers on the chain, its transaction pool included
    joined,     \* the users whose topic table has the row (joined = 1)
    count,      \* topic.member_count, 0 without a row
    cache,      \* topic_subscriber: the addresses each user posts to
    session,    \* the users that have the session of the topic
    rows,       \* per user, the status each post's row has
    calls,      \* joins, leaves and refreshes that wait for the chain
    posted,     \* the posts posted so far
    uploads,    \* posts whose file is being processed
    net,        \* announcements and posts on their way
    announced,  \* history: users whose last join was announced to the others
    ever,       \* history: users that have ever been subscribed
    missed,     \* history: <<u, w>> when u's cache lost w to a race or a failure
    tally       \* joins, refreshes, posts and faults so far, up to Limit

tables == <<joined, count, cache, session, rows>>
ledger == <<chain, ever>>
work == <<posted, uploads>>
vars == <<chain, joined, count, cache, session, rows, calls, posted, uploads, net,
          announced, ever, missed, tally>>

Status == {"none", "sending", "sent", "failed", "delivered"}
Control == {"subscribe", "unsubscribe"}
Ops == {"join", "leave", "refresh"}
Stages == {"called", "reading", "read", "answered"}

Call == [op : Ops, by : Users, stage : Stages, snap : SUBSET Users]
Announcement == [type : Control, from : Users, to : Users]
PostPacket == [type : {"post"}, from : Users, to : Users, post : Posts]

Announce(type, u, dests) ==
    {[type |-> type, from |-> u, to |-> w] : w \in dests \ {u}}
Packets(p, u, dests) ==
    {[type |-> "post", from |-> u, to |-> w, post |-> p] : w \in dests \ {u}}

Pending(op, u) == {c \in calls : c.op = op /\ c.by = u}
Replace(c, stage, snap) ==
    (calls \ {c}) \cup {[c EXCEPT !.stage = stage, !.snap = snap]}
Begin(op, u, stage) ==
    calls \cup {[op |-> op, by |-> u, stage |-> stage, snap |-> {}]}

\* One of the bounded steps.
Spend == tally < Limit /\ tally' = tally + 1

Init ==
    /\ chain = {}
    /\ joined = {}
    /\ count = [u \in Users |-> 0]
    /\ cache = [u \in Users |-> {}]
    /\ session = {}
    /\ rows = [u \in Users |-> [p \in Posts |-> "none"]]
    /\ calls = {}
    /\ posted = {}
    /\ uploads = {}
    /\ net = {}
    /\ announced = {}
    /\ ever = {}
    /\ missed = {}
    /\ tally = 0

-----------------------------------------------------------------------------
(* The subscriber cache. *)

\* The pairs that enter `missed` when u stops listing the members in `lost`, and
\* leave it when u lists those in `found`.
Missed(u, lost, found) ==
    (missed \cup {<<u, w>> : w \in lost}) \ {<<u, w>> : w \in found}

\* mutant: the member count of a refresh is not stored
ReplaceUncounted(u, addresses) ==
    /\ cache' = [cache EXCEPT ![u] = addresses]
    /\ missed' = Missed(u, cache[u] \ addresses, addresses)
    /\ UNCHANGED count

\* TopicSubscriberRepository.replaceAll and setMemberCount of refreshSubscribers.
ReplaceAll(u, addresses) ==
    /\ cache' = [cache EXCEPT ![u] = addresses]
    /\ count' = [count EXCEPT ![u] = IF u \in joined THEN Cardinality(addresses)
                                     ELSE @]
    /\ missed' = Missed(u, cache[u] \ addresses, addresses)

-----------------------------------------------------------------------------
(* Joining. *)

\* createAndJoin up to its first await: the subscription reaches the chain.  A
\* subscription that throws changes nothing.
StartJoin(u) ==
    /\ Spend
    /\ Pending("join", u) = {}
    /\ chain' = chain \cup {u}
    /\ calls' = Begin("join", u, "called")
    /\ announced' = announced \ {u}
    /\ ever' = ever \cup {u}
    /\ UNCHANGED <<tables, work, net, missed>>

\* After the subscription: the topic row is upserted with memberCount 0, the
\* session is made if there is none, and the subscribers are asked for.
ContinueJoin(c) ==
    /\ c.op = "join" /\ c.stage = "called"
    /\ joined' = joined \cup {c.by}
    /\ count' = [count EXCEPT ![c.by] = 0]
    /\ session' = session \cup {c.by}
    /\ calls' = Replace(c, "reading", {})
    /\ UNCHANGED <<ledger, cache, rows, work, net, announced, missed, tally>>

\* mutant: the join is announced to those cached before the refresh
FinishJoinEarly(c) ==
    /\ c.op = "join" /\ c.stage = "read"
    /\ ReplaceAll(c.by, c.snap)
    /\ net' = net \cup Announce("subscribe", c.by, cache[c.by])
    /\ announced' = announced \cup {c.by}
    /\ calls' = calls \ {c}
    /\ UNCHANGED <<ledger, joined, session, rows, work, tally>>

\* After refreshSubscribers: the subscription is announced to the others.
FinishJoin(c) ==
    /\ c.op = "join" /\ c.stage = "read"
    /\ ReplaceAll(c.by, c.snap)
    /\ net' = net \cup Announce("subscribe", c.by, c.snap)
    /\ announced' = announced \cup {c.by}
    /\ calls' = calls \ {c}
    /\ UNCHANGED <<ledger, joined, session, rows, work, tally>>

-----------------------------------------------------------------------------
(* Leaving. *)

\* leave up to its await: the others are told first, then the chain.
StartLeave(u) ==
    /\ u \in joined
    /\ Pending("leave", u) = {}
    /\ net' = net \cup Announce("unsubscribe", u, cache[u])
    /\ calls' = Begin("leave", u, "called")
    /\ announced' = announced \ {u}
    /\ UNCHANGED <<ledger, tables, work, missed, tally>>

\* The chain takes the unsubscription, or it throws, which is caught.
Unsubscribe(c) ==
    /\ c.op = "leave" /\ c.stage = "called"
    /\ chain' = chain \ {c.by}
    /\ calls' = Replace(c, "answered", {})
    /\ UNCHANGED <<tables, work, net, announced, ever, missed, tally>>

UnsubscribeFails(c) ==
    /\ c.op = "leave" /\ c.stage = "called"
    /\ Spend
    /\ calls' = Replace(c, "answered", {})
    /\ UNCHANGED <<ledger, tables, work, net, announced, missed>>

\* After the await everything local is deleted, whatever happened meanwhile.
FinishLeave(c) ==
    /\ c.op = "leave" /\ c.stage = "answered"
    /\ joined' = joined \ {c.by}
    /\ count' = [count EXCEPT ![c.by] = 0]
    /\ cache' = [cache EXCEPT ![c.by] = {}]
    /\ session' = session \ {c.by}
    /\ rows' = [rows EXCEPT ![c.by] = [p \in Posts |-> "none"]]
    /\ calls' = calls \ {c}
    /\ UNCHANGED <<ledger, work, net, announced, missed, tally>>

-----------------------------------------------------------------------------
(* Reading the chain. *)

\* The refresh button of the member panel.
StartRefresh(u) ==
    /\ u \in joined
    /\ Spend
    /\ Pending("refresh", u) = {}
    /\ calls' = Begin("refresh", u, "reading")
    /\ UNCHANGED <<ledger, tables, work, net, announced, missed>>

\* The node answers getSubscribers with what the chain holds now; the answer is
\* applied when it arrives.
Read(c) ==
    /\ c.stage = "reading"
    /\ calls' = Replace(c, "read", chain)
    /\ UNCHANGED <<ledger, tables, work, net, announced, missed, tally>>

FinishRefresh(c) ==
    /\ c.op = "refresh" /\ c.stage = "read"
    /\ ReplaceAll(c.by, c.snap)
    /\ calls' = calls \ {c}
    /\ UNCHANGED <<ledger, joined, session, rows, work, net, announced, tally>>

\* getSubscribers throws: a refresh changes nothing; a join ends where it is, and
\* what it stored remains.  A join may also throw after the refresh, when the client
\* that lost its connection cannot announce it.
ReadFails(c) ==
    /\ c.op = "refresh"
    /\ Spend
    /\ calls' = calls \ {c}
    /\ UNCHANGED <<ledger, tables, work, net, announced, missed>>

JoinFails(c) ==
    /\ c.op = "join" /\ c.stage \in {"reading", "read"}
    /\ Spend
    /\ calls' = calls \ {c}
    /\ \/ /\ missed' = Missed(c.by, Users, cache[c.by])
          /\ UNCHANGED <<cache, count>>
       \/ c.stage = "read" /\ ReplaceAll(c.by, c.snap)
    /\ UNCHANGED <<ledger, joined, session, rows, work, net, announced>>

\* getSubscribers of the service: a count that drifted from the cache is repaired.
ShowMembers(u) ==
    /\ u \in joined
    /\ count[u] # Cardinality(cache[u])
    /\ count' = [count EXCEPT ![u] = Cardinality(cache[u])]
    /\ UNCHANGED <<ledger, joined, cache, session, rows, calls, work, net,
                   announced, missed, tally>>

-----------------------------------------------------------------------------
(* Posting. *)

\* Message ids are random: a post is posted once.
Fresh(p) == p \notin posted

\* sendTopicMessage runs through without an await: row, session, recipients.
SendText(p) ==
    LET u == Author[p] IN
    /\ Kind[p] = "text"
    /\ Fresh(p)
    /\ Spend
    /\ u \in session
    /\ rows' = [rows EXCEPT ![u][p] = "sent"]
    /\ net' = net \cup Packets(p, u, cache[u])
    /\ posted' = posted \cup {p}
    /\ UNCHANGED <<ledger, joined, count, cache, session, calls, uploads,
                   announced, missed>>

\* sendTopicImage and sendTopicFile show a row at once; sendTopicAudio has none
\* before its file is processed.
StartUpload(p) ==
    LET u == Author[p] IN
    /\ Kind[p] # "text"
    /\ Fresh(p)
    /\ Spend
    /\ u \in session
    /\ posted' = posted \cup {p}
    /\ uploads' = uploads \cup {p}
    /\ rows' = IF Kind[p] = "placed" THEN [rows EXCEPT ![u][p] = "sending"] ELSE rows
    /\ UNCHANGED <<ledger, joined, count, cache, session, calls, net, announced,
                   missed>>

\* The file is there.  An image or file updates the row it finds, if any; audio
\* makes session and row, whether or not the topic was left meanwhile.
FinishUpload(p) ==
    LET u == Author[p] IN
    /\ p \in uploads
    /\ uploads' = uploads \ {p}
    /\ \/ /\ Kind[p] = "placed"
          /\ rows' = [rows EXCEPT ![u][p] = IF @ = "none" THEN @ ELSE "sent"]
          /\ UNCHANGED session
       \/ /\ Kind[p] = "inline"
          /\ rows' = [rows EXCEPT ![u][p] = "sent"]
          /\ session' = session \cup {u}
    /\ net' = net \cup Packets(p, u, cache[u])
    /\ UNCHANGED <<ledger, joined, count, cache, calls, posted, announced, missed,
                   tally>>

\* mutant: the catch block does not mark the row
UploadFailsSilently(p) ==
    /\ p \in uploads
    /\ Spend
    /\ uploads' = uploads \ {p}
    /\ UNCHANGED <<ledger, tables, calls, posted, net, announced, missed>>

\* Processing or sending throws: a placed row fails, audio throws to the caller.
UploadFails(p) ==
    LET u == Author[p] IN
    /\ p \in uploads
    /\ Spend
    /\ uploads' = uploads \ {p}
    /\ rows' = [rows EXCEPT ![u][p] = IF @ = "none" THEN @ ELSE "failed"]
    /\ UNCHANGED <<ledger, joined, count, cache, session, calls, posted, net,
                   announced, missed>>

-----------------------------------------------------------------------------
(* Receiving. *)

\* mutant: the newcomer is counted up, whether or not it was listed
HandleSubscribeUp(n) ==
    /\ n.type = "subscribe"
    /\ net' = net \ {n}
    /\ IF n.to \in joined
       THEN /\ cache' = [cache EXCEPT ![n.to] = @ \cup {n.from}]
            /\ count' = [count EXCEPT ![n.to] = @ + 1]
            /\ missed' = Missed(n.to, {}, {n.from})
       ELSE UNCHANGED <<cache, count, missed>>
    /\ UNCHANGED <<ledger, joined, session, rows, calls, work, announced, tally>>

\* handleIncomingTopicControl: an announcement of a topic without a row is dropped.
HandleSubscribe(n) ==
    /\ n.type = "subscribe"
    /\ net' = net \ {n}
    /\ IF n.to \in joined
       THEN /\ cache' = [cache EXCEPT ![n.to] = @ \cup {n.from}]
            /\ count' = [count EXCEPT ![n.to] = Cardinality(cache'[n.to])]
            /\ missed' = Missed(n.to, {}, {n.from})
       ELSE UNCHANGED <<cache, count, missed>>
    /\ UNCHANGED <<ledger, joined, session, rows, calls, work, announced, tally>>

\* mutant: the leaver is counted down, whether or not it was listed
HandleUnsubscribeDown(n) ==
    /\ n.type = "unsubscribe"
    /\ net' = net \ {n}
    /\ IF n.to \in joined
       THEN /\ cache' = [cache EXCEPT ![n.to] = @ \ {n.from}]
            /\ count' = [count EXCEPT ![n.to] = @ - 1]
            /\ missed' = Missed(n.to, {n.from}, {})
       ELSE UNCHANGED <<cache, count, missed>>
    /\ UNCHANGED <<ledger, joined, session, rows, calls, work, announced, tally>>

HandleUnsubscribe(n) ==
    /\ n.type = "unsubscribe"
    /\ net' = net \ {n}
    /\ IF n.to \in joined
       THEN /\ cache' = [cache EXCEPT ![n.to] = @ \ {n.from}]
            /\ count' = [count EXCEPT ![n.to] = Cardinality(cache'[n.to])]
            /\ missed' = Missed(n.to, {n.from}, {})
       ELSE UNCHANGED <<cache, count, missed>>
    /\ UNCHANGED <<ledger, joined, session, rows, calls, work, announced, tally>>

\* handleIncomingTopicMessage does not ask whether the topic is joined: a post to
\* a user that left makes the session again.  A post already stored is dropped.
HandlePost(n) ==
    /\ n.type = "post"
    /\ net' = net \ {n}
    /\ IF rows[n.to][n.post] = "none"
       THEN /\ session' = session \cup {n.to}
            /\ rows' = [rows EXCEPT ![n.to][n.post] = "delivered"]
       ELSE UNCHANGED <<session, rows>>
    /\ UNCHANGED <<ledger, joined, count, cache, calls, work, announced, missed,
                   tally>>

\* The relay keeps a packet for an hour and asks for no ACK: it can be lost.
Lose(n) ==
    /\ Spend
    /\ net' = net \ {n}
    /\ missed' = IF n.type = "subscribe" THEN missed \cup {<<n.to, n.from>>}
                 ELSE missed
    /\ UNCHANGED <<ledger, tables, calls, work, announced>>

-----------------------------------------------------------------------------

UserStep(u) == StartJoin(u) \/ StartLeave(u) \/ StartRefresh(u) \/ ShowMembers(u)
CallStep(c) ==
    \/ ContinueJoin(c) \/ Read(c) \/ ReadFails(c) \/ FinishRefresh(c)
    \/ Unsubscribe(c) \/ UnsubscribeFails(c) \/ FinishLeave(c)
JoinEnds(c) == FinishJoin(c) \/ JoinFails(c)
PostStep(p) == SendText(p) \/ StartUpload(p) \/ FinishUpload(p) \/ UploadFails(p)
PacketStep(n) ==
    HandleSubscribe(n) \/ HandleUnsubscribe(n) \/ HandlePost(n) \/ Lose(n)

Next ==
    \/ \E u \in Users : UserStep(u)
    \/ \E c \in calls : CallStep(c) \/ JoinEnds(c)
    \/ \E p \in Posts : PostStep(p)
    \/ \E n \in net : PacketStep(n)

Spec == Init /\ [][Next]_vars

-----------------------------------------------------------------------------
(* Properties. *)

TypeOK ==
    /\ chain \subseteq Users
    /\ joined \subseteq Users
    /\ count \in [Users -> Nat]
    /\ cache \in [Users -> SUBSET Users]
    /\ session \subseteq Users
    /\ rows \in [Users -> [Posts -> Status]]
    /\ calls \subseteq Call
    /\ posted \subseteq Posts
    /\ uploads \subseteq posted
    /\ net \subseteq Announcement \cup PostPacket
    /\ announced \subseteq Users
    /\ ever \subseteq Users
    /\ missed \subseteq Users \X Users
    /\ tally \in Nat

\* Who joined and is subscribed knows everybody else of whom the same is true: the
\* other is in its cache, or its announcement is on the way, or it is about to read
\* the chain itself, or (missed) the cache lost it to a packet that never came, a
\* snapshot older than the announcement, or a late unsubscription.  There is no
\* other way a post can miss a member: the two joins of createAndJoin find each
\* other whichever comes first.
Comes(u, w) == [type |-> "subscribe", from |-> w, to |-> u] \in net
Rereads(u) == \E c \in calls : c.op = "join" /\ c.by = u
RosterComplete ==
    \A u \in joined \cap chain, w \in joined \cap chain \cap announced :
        u # w => \/ w \in cache[u]
                 \/ Comes(u, w)
                 \/ Rereads(u)
                 \/ <<u, w>> \in missed

\* The member count shown with a topic is the size of the cached list: each of the
\* handlers that change the list stores it.  Only a join that has not read the
\* subscribers yet, or failed to, shows 0.
CountHonest == \A u \in joined : count[u] \in {0, Cardinality(cache[u])}

\* A row says "sending" only while its file is processed, whatever failed and
\* whether or not the topic was left and joined again meanwhile.
SendingIsInFlight ==
    \A u \in Users, p \in Posts :
        rows[u][p] = "sending" => p \in uploads /\ Author[p] = u

\* Topics, with everything that can happen to their caches, are what the directory
\* takes them for: in particular no cache lists a user that never subscribed.
Table == INSTANCE TopicTable
ImplementsTable == Table!TableSpec

=============================================================================
