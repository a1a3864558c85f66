--------------------------- MODULE PrivateGroup ---------------------------
(***************************************************************************)
(* One private group kept by PrivateGroupService on every peer.            *)
(*                                                                         *)
(* There is no server.  Each peer keeps its own copy of the member table   *)
(* (private_group_member), of the group row (private_group) and of the     *)
(* conversation (session, message), and the copies are reconciled only by  *)
(* the control messages below.  The NKN network may deliver them in any    *)
(* order, may never deliver one (an undelivered message stays in net), and *)
(* redelivers at most MaxDups of them.                                     *)
(*                                                                         *)
(* Every handler runs to its end between two events of Node's loop: the    *)
(* awaits of verifySignature and genSignature resolve in microtasks, so a  *)
(* handler is one action.  Peers are honest, hence every signature a       *)
(* handler verifies is valid; an invitation's and an accept's inviter and  *)
(* invitee are its two ends.                                               *)
(***************************************************************************)
EXTENDS Integers, Sequences, FiniteSets, SequencesExt

CONSTANTS
    Peers,        \* addresses of the clients
    Owner,        \* the peer whose public key begins the group id
    NoRow,        \* no row of private_group_member for this pair
    NoGroup,      \* no row of private_group
    InOrder,      \* TRUE: a channel delivers in sending order
    MaxInvites,   \* bound on invitations sent
    MaxKicks,     \* bound on members removed by the owner
    MaxSyncs,     \* bound on the requests of members for a refresh
    MaxPosts,     \* bound on chat messages sent to the group
    MaxDups       \* bound on redeliveries

BLACK  == -20
QUIT   == -10
NONE   == 0
NORMAL == 10
ADMIN  == 20
OWNER  == 30
Perm   == {BLACK, QUIT, NONE, NORMAL, ADMIN, OWNER}

MemberRow == [perm : Perm, inviter : Peers]
GroupRow  == [joined : BOOLEAN, count : Nat, version : Nat]

ASSUME OwnerAssumption  == Owner \in Peers
ASSUME PeersAssumption  == IsFiniteSet(Peers)
ASSUME AbsentAssumption == NoRow \notin MemberRow /\ NoGroup \notin GroupRow
ASSUME BoundsAssumption ==
    /\ InOrder \in BOOLEAN
    /\ MaxInvites \in Nat /\ MaxKicks \in Nat /\ MaxSyncs \in Nat
    /\ MaxPosts \in Nat /\ MaxDups \in Nat

VARIABLES
    members,   \* members[p][q]: the row p keeps about q
    group,     \* group[p]: p's private_group row
    session,   \* session[p]: whether p's session list shows the group
    inbox,     \* inbox[p]: the invitations and posts p's message table holds
    net,       \* net[s][p]: control messages and posts from s that p has not handled
    invited,   \* history: who was ever sent an invitation
    accepted,  \* history: who ever accepted one
    admitted,  \* history: who ever became a member in the owner's table
    spent      \* how much of each bound is used up

vars == <<members, group, session, inbox, net, invited, accepted, admitted, spent>>

---------------------------------------------------------------------------
(* Member tables *)

ActiveRow(r)     == r # NoRow /\ r.perm > NONE
ActiveIn(table)  == {q \in Peers : ActiveRow(table[q])}
SizeOfOthers(table)  == Cardinality(ActiveIn(table)) - 1     \* mutant
Size(table)      == Cardinality(ActiveIn(table))
HasPermAny(table, q, least) == table[q] # NoRow              \* mutant
HasPerm(table, q, least) == table[q] # NoRow /\ table[q].perm >= least

InvitedRowActive(inviter) == [perm |-> NORMAL, inviter |-> inviter]    \* mutant
InvitedRow(inviter)       == [perm |-> NONE, inviter |-> inviter]

Upsert(table, q, r)        == [table EXCEPT ![q] = r]
UpdatePermission(table, q, pm) ==
    IF table[q] = NoRow THEN table ELSE [table EXCEPT ![q].perm = pm]

\* A row that arrives replaces one with another permission, older or newer.
Merge(table, rows) ==
    [q \in Peers |->
        IF rows[q] # NoRow /\ (table[q] = NoRow \/ rows[q].perm # table[q].perm)
        THEN rows[q] ELSE table[q]]

\* SQL UPDATE ... WHERE group_id: nothing happens without the row.
SetCountUpward(g, n) ==                                      \* mutant
    IF g = NoGroup \/ n < g.count THEN g ELSE [g EXCEPT !.count = n]
SetCount(g, n) == IF g = NoGroup THEN g ELSE [g EXCEPT !.count = n]
SetJoined(g, b) == IF g = NoGroup THEN g ELSE [g EXCEPT !.joined = b]

---------------------------------------------------------------------------
(* Channels.  net[src][dst] holds what src has sent to dst and dst has not  *)
(* handled; id is the message id, kept where a handler looks at it.         *)

Note(type) == [type |-> type]
MemberResponse(rows) == [type |-> "memberResponse", rows |-> rows]
OptionResponse(g) == [type |-> "optionResponse", version |-> g.version, count |-> g.count]
OptionNotes(g) == IF g = NoGroup THEN <<>> ELSE <<OptionResponse(g)>>

Nothing == [d \in Peers |-> <<>>]
To(dests, msgs) == [d \in Peers |-> IF d \in dests THEN msgs ELSE <<>>]

\* Channels n after p has sent out[d] to every d.
Put(n, p, out) == [n EXCEPT ![p] = [d \in Peers |-> n[p][d] \o out[d]]]

Deliverable(s, p) == {i \in 1 .. Len(net[s][p]) : InOrder => i = 1}

Send(p, out) == net' = Put(net, p, out)

\* p has handled the i-th message of s and answers with out.
Answer(s, p, i, out) ==
    net' = Put([net EXCEPT ![s][p] = RemoveAt(@, i)], p, out)

Bounds == {"invites", "kicks", "syncs", "posts", "dups"}
Spend(bound, limit) ==
    /\ spent[bound] < limit
    /\ spent' = [spent EXCEPT ![bound] = @ + 1]

Entry(m) == [kind |-> m.type, id |-> m.id]

---------------------------------------------------------------------------
(* What the user of a peer does *)

Init ==
    /\ members = [p \in Peers |-> [q \in Peers |-> NoRow]]
    /\ group = [p \in Peers |-> NoGroup]
    /\ session = [p \in Peers |-> FALSE]
    /\ inbox = [p \in Peers |-> {}]
    /\ net = [p \in Peers |-> Nothing]
    /\ invited = {} /\ accepted = {} /\ admitted = {}
    /\ spent = [b \in Bounds |-> 0]

CreateGroup ==
    /\ group[Owner] = NoGroup
    /\ members' = [members EXCEPT ![Owner][Owner] = [perm |-> OWNER, inviter |-> Owner]]
    /\ group' = [group EXCEPT ![Owner] = [joined |-> TRUE, count |-> 1, version |-> 1]]
    /\ session' = [session EXCEPT ![Owner] = TRUE]
    /\ UNCHANGED <<inbox, net, invited, accepted, admitted, spent>>

\* The invitee gets no row yet: the same peer may be invited again until it accepts.
Invite(p, t) ==
    /\ group[p] # NoGroup
    /\ HasPerm(members[p], p, ADMIN)
    /\ ~ActiveRow(members[p][t])
    /\ Spend("invites", MaxInvites)
    /\ Send(p, To({t}, <<[type |-> "invitation", id |-> spent["invites"] + 1,
                          version |-> group[p].version]>>))
    /\ session' = [session EXCEPT ![p] = TRUE]
    /\ invited' = invited \cup {t}
    /\ UNCHANGED <<members, group, inbox, accepted, admitted>>

\* The window shows Accept on a stored invitation while the group is not joined.
CanAccept(p) ==
    /\ session[p]
    /\ \E e \in inbox[p] : e.kind = "invitation"
    /\ group[p] # NoGroup /\ ~group[p].joined

AcceptInvitation(p) ==
    /\ CanAccept(p)
    /\ members[p][p] # NoRow
    /\ members' = [members EXCEPT ![p][p].perm = NORMAL]
    /\ group' = [group EXCEPT ![p] = SetJoined(@, TRUE)]
    /\ Send(p, To({members[p][p].inviter}, <<Note("accept"), Note("memberRequest")>>))
    /\ accepted' = accepted \cup {p}
    /\ UNCHANGED <<session, inbox, invited, admitted, spent>>

\* A peer tells the owner it leaves only if its own table names an owner.
Quit(p) ==
    /\ session[p] /\ group[p] # NoGroup
    /\ LET owners == {q \in Peers : HasPerm(members[p], q, OWNER)} \ {p} IN
       Send(p, To(owners, <<Note("quit")>>))
    /\ members' = [members EXCEPT ![p] = UpdatePermission(@, p, QUIT)]
    /\ group' = [group EXCEPT ![p] = SetJoined(@, FALSE)]
    /\ session' = [session EXCEPT ![p] = FALSE]
    /\ inbox' = [inbox EXCEPT ![p] = {}]      \* ON DELETE CASCADE
    /\ UNCHANGED <<invited, accepted, admitted, spent>>

SyncActiveMembersToAll(p, table) ==                          \* mutant
    Send(p, To(ActiveIn(table) \ {p},
               <<MemberResponse([q \in Peers |-> IF ActiveRow(table[q]) THEN table[q] ELSE NoRow])>>))
\* Every row is sent, whatever its permission; only active members are addressed.
SyncMembersToAll(p, table) ==
    Send(p, To(ActiveIn(table) \ {p}, <<MemberResponse(table)>>))

\* The member that is removed is not told.
KickOut(p, t) ==
    /\ HasPerm(members[p], p, OWNER)
    /\ t # p /\ members[p][t] # NoRow
    /\ Spend("kicks", MaxKicks)
    /\ LET table == UpdatePermission(members[p], t, BLACK) IN
       /\ members' = [members EXCEPT ![p] = table]
       /\ group' = [group EXCEPT ![p] = SetCount(@, Size(table))]
       /\ SyncMembersToAll(p, table)
    /\ UNCHANGED <<session, inbox, invited, accepted, admitted>>

RequestMemberSync(p) ==
    /\ session[p] /\ ActiveRow(members[p][p])
    /\ Spend("syncs", MaxSyncs)
    /\ IF members[p][p].perm = OWNER
       THEN SyncMembersToAll(p, members[p])
       ELSE Send(p, To({members[p][p].inviter}, <<Note("memberRequest")>>))
    /\ UNCHANGED <<members, group, session, inbox, invited, accepted, admitted>>

\* Opening the member panel corrects a count that has drifted.
GetMembers(p) ==
    /\ session[p] /\ group[p] # NoGroup
    /\ group' = [group EXCEPT ![p] = SetCount(@, Size(members[p]))]
    /\ UNCHANGED <<members, session, inbox, net, invited, accepted, admitted, spent>>

\* No look at p's own row: whoever has the conversation open can post.
SendGroupMessage(p) ==
    /\ session[p] /\ group[p] # NoGroup
    /\ Spend("posts", MaxPosts)
    /\ Send(p, To(ActiveIn(members[p]) \ {p}, <<[type |-> "post", id |-> spent["posts"] + 1]>>))
    /\ UNCHANGED <<members, group, session, inbox, invited, accepted, admitted>>

---------------------------------------------------------------------------
(* What a peer does with a message *)

\* An invitation seen for the first time resets the invitee's own row to NONE, whatever
\* it was.
OnInvitationReceived(s, p, i) ==
    LET m == net[s][p][i] IN
    /\ m.type = "invitation"
    /\ Answer(s, p, i, Nothing)
    /\ session' = [session EXCEPT ![p] = TRUE]
    /\ IF Entry(m) \in inbox[p]
       THEN UNCHANGED <<members, group, inbox>>
       ELSE /\ inbox' = [inbox EXCEPT ![p] = @ \cup {Entry(m)}]
            /\ group' = [group EXCEPT ![p] =
                   IF @ # NoGroup THEN @
                   ELSE [joined |-> FALSE, count |-> 0, version |-> m.version]]
            /\ members' = [members EXCEPT ![p] = Upsert(@, p, InvitedRow(s))]
    /\ UNCHANGED <<invited, accepted, admitted, spent>>

\* What an accept of s is answered with: the group's options for the new member, its
\* row and the options for all others.
AcceptAnswersSelfOnly(p, s, table, g) ==                     \* mutant
    To({s}, OptionNotes(g))
AcceptAnswersRowOnly(p, s, table, g) ==                      \* mutant
    LET newRow == MemberResponse([q \in Peers |-> IF q = s THEN table[q] ELSE NoRow])
    IN  [d \in Peers |-> IF d = s THEN OptionNotes(g)
                         ELSE IF d \in ActiveIn(table) \ {p} THEN <<newRow>> ELSE <<>>]
AcceptAnswers(p, s, table, g) ==
    LET newRow == MemberResponse([q \in Peers |-> IF q = s THEN table[q] ELSE NoRow])
    IN  [d \in Peers |-> IF d = s THEN OptionNotes(g)
                         ELSE IF d \in ActiveIn(table) \ {p}
                              THEN <<newRow>> \o OptionNotes(g) ELSE <<>>]

\* Any accept makes its sender a member, also one that was removed or has left.
OnInviteeAccept(s, p, i) ==
    LET table == Upsert(members[p], s, [perm |-> NORMAL, inviter |-> p])
        g     == IF group[p] = NoGroup THEN NoGroup
                 ELSE [group[p] EXCEPT !.count = Size(table), !.version = @ + 1]
    IN
    /\ net[s][p][i].type = "accept"
    /\ Answer(s, p, i, AcceptAnswers(p, s, table, g))
    /\ members' = [members EXCEPT ![p] = table]
    /\ group' = [group EXCEPT ![p] = g]
    /\ session' = [session EXCEPT ![p] = TRUE]
    /\ admitted' = admitted \cup {s}
    /\ UNCHANGED <<inbox, invited, accepted, spent>>

\* Nobody else is told that the member has left.
OnMemberQuit(s, p, i) ==
    LET table == UpdatePermission(members[p], s, QUIT) IN
    /\ net[s][p][i].type = "quit"
    /\ Answer(s, p, i, Nothing)
    /\ members' = [members EXCEPT ![p] = table]
    /\ group' = [group EXCEPT ![p] = SetCount(@, Size(table))]
    /\ session' = [session EXCEPT ![p] = @ \/ group[p] # NoGroup]
    /\ UNCHANGED <<inbox, invited, accepted, admitted, spent>>

OnMemberRequestAskingBack(s, p, i) ==                        \* mutant
    /\ net[s][p][i].type = "memberRequest"
    /\ Answer(s, p, i, To({s}, <<IF ActiveRow(members[p][s]) THEN MemberResponse(members[p])
                                 ELSE Note("memberRequest")>>))
    /\ UNCHANGED <<members, group, session, inbox, invited, accepted, admitted, spent>>
\* A request from a peer that is not (yet) a member is dropped.
OnMemberRequest(s, p, i) ==
    /\ net[s][p][i].type = "memberRequest"
    /\ Answer(s, p, i, IF ActiveRow(members[p][s])
                       THEN To({s}, <<MemberResponse(members[p])>>)
                       ELSE Nothing)
    /\ UNCHANGED <<members, group, session, inbox, invited, accepted, admitted, spent>>

OnMemberResponse(s, p, i) ==
    LET m == net[s][p][i]
        table == Merge(members[p], m.rows)
    IN
    /\ m.type = "memberResponse"
    /\ Answer(s, p, i, Nothing)
    /\ IF group[p] = NoGroup
       THEN UNCHANGED <<members, group>>
       ELSE /\ members' = [members EXCEPT ![p] = table]
            /\ group' = [group EXCEPT ![p] = SetCount(@, Size(table))]
    /\ UNCHANGED <<session, inbox, invited, accepted, admitted, spent>>

OnOptionResponse(s, p, i) ==
    LET m == net[s][p][i] IN
    /\ m.type = "optionResponse"
    /\ Answer(s, p, i, Nothing)
    /\ group' = [group EXCEPT ![p] =
           IF @ = NoGroup THEN @ ELSE [@ EXCEPT !.version = m.version, !.count = m.count]]
    /\ UNCHANGED <<members, session, inbox, invited, accepted, admitted, spent>>

\* A post counts only if its sender is active in the receiver's own table.
HandleIncomingGroupMessage(s, p, i) ==
    LET m == net[s][p][i]
        fresh == /\ ActiveRow(members[p][s])
                 /\ Entry(m) \notin inbox[p]
                 /\ group[p] # NoGroup
    IN
    /\ m.type = "post"
    /\ Answer(s, p, i, Nothing)
    /\ session' = [session EXCEPT ![p] = @ \/ fresh]
    /\ inbox' = [inbox EXCEPT ![p] = IF fresh THEN @ \cup {Entry(m)} ELSE @]
    /\ UNCHANGED <<members, group, invited, accepted, admitted, spent>>

\* The network redelivers a message it still holds.
Redeliver(s, p, i) ==
    /\ Spend("dups", MaxDups)
    /\ net' = [net EXCEPT ![s][p] = Append(@, @[i])]
    /\ UNCHANGED <<members, group, session, inbox, invited, accepted, admitted>>

---------------------------------------------------------------------------

UserStep ==
    \/ CreateGroup
    \/ \E p, t \in Peers : Invite(p, t) \/ KickOut(p, t)
    \/ \E p \in Peers :
          \/ AcceptInvitation(p) \/ Quit(p) \/ RequestMemberSync(p)
          \/ GetMembers(p) \/ SendGroupMessage(p)

Receive ==
    \E s, p \in Peers : \E i \in Deliverable(s, p) :
        \/ OnInvitationReceived(s, p, i) \/ OnInviteeAccept(s, p, i)
        \/ OnMemberQuit(s, p, i) \/ OnMemberRequest(s, p, i)
        \/ OnMemberResponse(s, p, i) \/ OnOptionResponse(s, p, i)
        \/ HandleIncomingGroupMessage(s, p, i)

Network == \E s, p \in Peers : \E i \in Deliverable(s, p) : Redeliver(s, p, i)

Next == UserStep \/ Receive \/ Network
Spec == Init /\ [][Next]_vars

---------------------------------------------------------------------------
(* Types *)

Table == [Peers -> MemberRow \cup {NoRow}]
Message ==
    [type : {"accept", "quit", "memberRequest"}]
    \cup [type : {"invitation"}, id : Nat, version : Nat]
    \cup [type : {"memberResponse"}, rows : Table]
    \cup [type : {"optionResponse"}, version : Nat, count : Nat]
    \cup [type : {"post"}, id : Nat]
StoredEntry == [kind : {"invitation", "post"}, id : Nat]

TypeOK ==
    /\ members \in [Peers -> Table]
    /\ group \in [Peers -> GroupRow \cup {NoGroup}]
    /\ session \in [Peers -> BOOLEAN]
    /\ inbox \in [Peers -> SUBSET StoredEntry]
    /\ net \in [Peers -> [Peers -> Seq(Message)]]
    /\ invited \subseteq Peers /\ accepted \subseteq Peers /\ admitted \subseteq Peers
    /\ spent \in [Bounds -> Nat]

---------------------------------------------------------------------------
(* Safety *)

\* Roles are fixed at birth: nobody but the owner ever invites, holds the role of owner
\* or of admin, and the owner's row never falls to a removed one.  invite, kickOut and
\* requestMemberSync trust the permission in a peer's own table, which any
\* memberResponse may overwrite.
RolesNeverEscalate ==
    \A p, q \in Peers : members[p][q] # NoRow =>
        /\ members[p][q].inviter = Owner
        /\ IF q = Owner THEN members[p][q].perm \in {OWNER, QUIT}
           ELSE members[p][q].perm <= NORMAL

\* No member table, at any peer, shows as active somebody who was not both invited and
\* willing, whatever stale or repeated control messages built that table.
MembershipNeedsConsent ==
    \A p, q \in Peers :
        ActiveRow(members[p][q]) /\ q # Owner => q \in accepted \cap invited

\* While the owner is in, the member count of its group row is the number of its active
\* rows: every handler that touches a row also recounts (onInviteeAccept, onMemberQuit,
\* kickOut), and no stale optionResponse reaches the owner.
OwnerCountExact ==
    group[Owner] # NoGroup /\ group[Owner].joined =>
        group[Owner].count = Size(members[Owner])

\* The tables of all peers, taken together, implement the abstract roster: the owner
\* admits only who has consented, and everybody else lists only who was admitted.
Roster == INSTANCE GroupRoster WITH lists <- [p \in Peers |-> ActiveIn(members[p])]
ImplementsRoster == Roster!Spec

---------------------------------------------------------------------------
(* Convergence: what the copies agree on once the messages are handled *)

\* Nothing is on its way between the owner and p.
Settled(p) == net[Owner][p] = <<>> /\ net[p][Owner] = <<>>
InGroup(p) == ActiveRow(members[Owner][p]) /\ group[p] # NoGroup /\ group[p].joined

\* With nothing in flight between them, whoever is in the group lists every member the
\* owner lists: the answer to the joiner's memberRequest and the rows the others get add
\* up.
NobodyMissing ==
    \A p, q \in Peers :
        Settled(p) /\ InGroup(p) /\ ActiveRow(members[Owner][q]) => ActiveRow(members[p][q])

\* With nothing in flight between them, nobody in the group still lists a peer the owner
\* removed, although no handler orders member lists by age.
KickReachesEveryone ==
    \A p, q \in Peers :
        /\ Settled(p) /\ InGroup(p)
        /\ members[Owner][q] # NoRow /\ members[Owner][q].perm = BLACK
        => ~ActiveRow(members[p][q])

\* With nothing in flight between them, whoever is in the group has the owner's group
\* version.
VersionSettles ==
    \A p \in Peers : Settled(p) /\ InGroup(p) => group[p].version = group[Owner].version

---------------------------------------------------------------------------
(* What the documentation says and the code does not do *)

\* "Store invitation as a message in a session so UI can show Accept button": whoever
\* has an unanswered invitation can accept it.
AcceptOffered ==
    \A p \in Peers :
        members[p][p] # NoRow /\ members[p][p].perm = NONE => CanAccept(p)

\* "This action cannot be undone and the conversation will be removed": a conversation
\* shows only at who is in the group or holds an invitation to it.
LeftStaysLeft ==
    \A p \in Peers \ {Owner} : session[p] =>
        group[p].joined \/ \E e \in inbox[p] : e.kind = "invitation"

=============================================================================
