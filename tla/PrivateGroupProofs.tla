------------------------ MODULE PrivateGroupProofs ------------------------
(***************************************************************************)
(* What PrivateGroup guarantees for any number of peers and any bounds: its *)
(* types, the fixed roles and the consent behind every listed member; then  *)
(* that it implements GroupRoster, that the owner's count is exact, and,    *)
(* over channels that keep their order and repeat nothing, that the tables  *)
(* converge.                                                                *)
(*                                                                         *)
(* None of the first three is inductive alone, because a table is           *)
(* overwritten by whatever memberResponse arrives: IInv adds what every     *)
(* message in flight may say (Honest), and how the histories are nested.    *)
(* IInv is also all a step of the protocol needs to be a step of the        *)
(* roster, but for the first one: that the group begins empty is            *)
(* EmptyBefore.  Convergence speaks of empty channels; OrderInv says what   *)
(* is in the others: the last word on its way to a member about each row,   *)
(* and about the version, is the owner's.                                   *)
(***************************************************************************)
EXTENDS PrivateGroup, FiniteSetTheorems, SequenceTheorems, TLAPS

RowOK(q, r) ==
    r # NoRow => /\ r.inviter = Owner
                 /\ IF q = Owner THEN r.perm \in {OWNER, QUIT} ELSE r.perm <= NORMAL

\* A row the owner may have sent: if active, then of itself or of a peer it admitted.
OwnersRow(q, r) == RowOK(q, r) /\ (ActiveRow(r) => q = Owner \/ q \in admitted)

\* A row of p about q: besides those, p may be active in its own eyes once it accepted.
KeptRow(p, q, r) ==
    RowOK(q, r) /\ (ActiveRow(r) => q = Owner \/ q \in admitted \/ (q = p /\ p \in accepted))

\* What s may have on its way to p.
Honest(s, p) ==
    {m \in Message :
        /\ m.type = "invitation" => s = Owner /\ p \in invited
        /\ m.type = "accept" => p = Owner /\ s \in accepted
        /\ m.type = "quit" => p = Owner
        /\ m.type = "memberRequest" => p = Owner /\ s # Owner
        /\ m.type = "memberResponse" =>
              s = Owner /\ p # Owner /\ \A q \in Peers : OwnersRow(q, m.rows[q])
        /\ m.type = "optionResponse" => s = Owner /\ p # Owner}

TablesInv  == \A p, q \in Peers : KeptRow(p, q, members[p][q])
NetInv     == \A s, p \in Peers : net[s][p] \in Seq(Honest(s, p))
HistoryInv == admitted \subseteq accepted /\ accepted \subseteq invited /\ Owner \notin invited
InboxInv   == \A p \in Peers : \A e \in inbox[p] : e.kind = "invitation" => p \in invited

IInv == TypeOK /\ TablesInv /\ NetInv /\ HistoryInv /\ InboxInv

---------------------------------------------------------------------------
(* Sequences and messages *)

\* Taking a message out of a channel leaves a channel of the same kind of messages.
LEMMA RemoveAtType ==
    ASSUME NEW T, NEW q \in Seq(T), NEW i \in 1 .. Len(q)
    PROVE  RemoveAt(q, i) \in Seq(T)
<1>1. Len(q) \in Nat /\ \A j \in 1 .. Len(q) : q[j] \in T
    BY LenProperties, ElementOfSeq
<1>2. SubSeq(q, 1, i - 1) \in Seq(T)
    <2>1. \A j \in 1 .. i - 1 : q[j] \in T  BY <1>1
    <2>2. i - 1 \in Int  BY <1>1
    <2> QED  BY <2>1, <2>2, SubSeqProperties
<1>3. SubSeq(q, i + 1, Len(q)) \in Seq(T)
    <2>1. \A j \in i + 1 .. Len(q) : q[j] \in T  BY <1>1
    <2>2. i + 1 \in Int /\ Len(q) \in Int  BY <1>1
    <2> QED  BY <2>1, <2>2, SubSeqProperties
<1> QED  BY <1>2, <1>3, ConcatProperties DEF RemoveAt

\* A message has the fields its type names.
LEMMA MessageFields ==
    ASSUME NEW m \in Message
    PROVE  /\ m.type = "invitation" => m.id \in Nat /\ m.version \in Nat
           /\ m.type = "memberResponse" => m.rows \in Table
           /\ m.type = "optionResponse" => m.version \in Nat /\ m.count \in Nat
           /\ m.type = "post" => m.id \in Nat
BY DEF Message

\* The histories only grow.
Grows == invited \subseteq invited' /\ accepted \subseteq accepted' /\ admitted \subseteq admitted'

LEMMA HonestGrows ==
    ASSUME Grows, NEW s, NEW p
    PROVE  Honest(s, p) \subseteq Honest(s, p)'
BY DEF Grows, Honest, OwnersRow, RowOK

\* Channels of honest messages stay so when p sends honest messages.
LEMMA PutHonest ==
    ASSUME NEW n \in [Peers -> [Peers -> Seq(Message)]], NEW p \in Peers, NEW out,
           \A x, y \in Peers : n[x][y] \in Seq(Honest(x, y)'),
           \A y \in Peers : out[y] \in Seq(Honest(p, y)'),
           net' = Put(n, p, out)
    PROVE  NetInv' /\ net' \in [Peers -> [Peers -> Seq(Message)]]
<1>1. \A x, y \in Peers : net'[x][y] \in Seq(Honest(x, y)')
    <2> SUFFICES ASSUME NEW x \in Peers, NEW y \in Peers
                 PROVE  net'[x][y] \in Seq(Honest(x, y)')
        OBVIOUS
    <2>1. CASE x = p
        <3>1. net'[x][y] = n[p][y] \o out[y]  BY <2>1 DEF Put
        <3>2. n[p][y] \in Seq(Honest(p, y)') /\ out[y] \in Seq(Honest(p, y)')  OBVIOUS
        <3> QED  BY <2>1, <3>1, <3>2, ConcatProperties
    <2>2. CASE x # p  BY <2>2 DEF Put
    <2> QED  BY <2>1, <2>2
<1>2. \A x, y \in Peers : net'[x][y] \in Seq(Message)
    <2>1. \A x, y \in Peers : Honest(x, y)' \subseteq Message  BY DEF Honest, Message
    <2> QED  BY <1>1, <2>1, SeqMonotonic
<1>3. net' \in [Peers -> [Peers -> Seq(Message)]]
    <2>1. net' = [x \in Peers |-> [y \in Peers |-> net'[x][y]]]  BY DEF Put
    <2> QED  BY <1>2, <2>1
<1> QED  BY <1>1, <1>3 DEF NetInv

\* Honest channels stay honest when the histories grow.
LEMMA NetGrows ==
    ASSUME NetInv, Grows
    PROVE  \A x, y \in Peers : net[x][y] \in Seq(Honest(x, y)')
BY HonestGrows, SeqMonotonic DEF NetInv

\* p sends.
LEMMA SendHonest ==
    ASSUME TypeOK, NetInv, Grows, NEW p \in Peers, NEW out, Send(p, out),
           \A y \in Peers : out[y] \in Seq(Honest(p, y)')
    PROVE  NetInv' /\ net' \in [Peers -> [Peers -> Seq(Message)]]
BY PutHonest, NetGrows DEF Send, TypeOK

\* p handles a message and answers.
LEMMA AnswerHonest ==
    ASSUME TypeOK, NetInv, Grows, NEW s \in Peers, NEW p \in Peers,
           NEW i \in 1 .. Len(net[s][p]), NEW out, Answer(s, p, i, out),
           \A y \in Peers : out[y] \in Seq(Honest(p, y)')
    PROVE  NetInv' /\ net' \in [Peers -> [Peers -> Seq(Message)]]
<1> DEFINE n == [net EXCEPT ![s][p] = RemoveAt(@, i)]
<1>1. \A x, y \in Peers : n[x][y] \in Seq(Honest(x, y)')
    <2>1. net[s][p] \in Seq(Honest(s, p)')  BY NetGrows
    <2>2. RemoveAt(net[s][p], i) \in Seq(Honest(s, p)')  BY <2>1, RemoveAtType
    <2> QED  BY <2>2, NetGrows DEF TypeOK
<1>2. n \in [Peers -> [Peers -> Seq(Message)]]
    <2>1. RemoveAt(net[s][p], i) \in Seq(Message)  BY RemoveAtType DEF TypeOK
    <2> QED  BY <2>1 DEF TypeOK
<1>3. net' = Put(n, p, out)  BY DEF Answer
<1> HIDE DEF n
<1> QED  BY <1>1, <1>2, <1>3, PutHonest

\* Silence is honest, and so are the messages of To when they are.
LEMMA NothingHonest ==
    ASSUME NEW p \in Peers
    PROVE  \A y \in Peers : Nothing[y] \in Seq(Honest(p, y)')
BY EmptySeq DEF Nothing

LEMMA ToHonest ==
    ASSUME NEW p \in Peers, NEW dests, NEW msgs,
           \A y \in Peers : y \in dests => msgs \in Seq(Honest(p, y)')
    PROVE  \A y \in Peers : To(dests, msgs)[y] \in Seq(Honest(p, y)')
BY EmptySeq DEF To

---------------------------------------------------------------------------
(* Member tables *)

LEMMA SizeType ==
    ASSUME NEW table PROVE Size(table) \in Nat
BY PeersAssumption, FS_Subset, FS_CardinalityType DEF Size, ActiveIn

LEMMA UpdatePermissionType ==
    ASSUME NEW table \in Table, NEW q \in Peers, NEW pm \in Perm, NEW new,
           new = UpdatePermission(table, q, pm)
    PROVE  /\ new \in Table
           /\ \A x \in Peers : x # q \/ table[q] = NoRow => new[x] = table[x]
           /\ table[q] # NoRow => new[q] = [perm |-> pm, inviter |-> table[q].inviter]
<1>1. table[q] \in MemberRow \cup {NoRow}  BY DEF Table
<1>2. table[q] # NoRow =>
         /\ [table[q] EXCEPT !.perm = pm] = [perm |-> pm, inviter |-> table[q].inviter]
         /\ [perm |-> pm, inviter |-> table[q].inviter] \in MemberRow
    BY <1>1 DEF MemberRow
<1>3. new = IF table[q] = NoRow THEN table
            ELSE [table EXCEPT ![q] = [table[q] EXCEPT !.perm = pm]]
    BY DEF UpdatePermission
<1> QED  BY <1>2, <1>3 DEF Table

LEMMA SpendType ==
    ASSUME NEW bound \in Bounds, NEW limit, Spend(bound, limit), spent \in [Bounds -> Nat]
    PROVE  spent' \in [Bounds -> Nat] /\ spent[bound] + 1 \in Nat
BY DEF Spend

LEMMA UpsertType ==
    ASSUME NEW table \in Table, NEW q \in Peers, NEW r \in MemberRow
    PROVE  /\ Upsert(table, q, r) \in Table
           /\ \A x \in Peers : Upsert(table, q, r)[x] = IF x = q THEN r ELSE table[x]
BY DEF Upsert, Table

LEMMA MergeType ==
    ASSUME NEW table \in Table, NEW rows \in Table
    PROVE  /\ Merge(table, rows) \in Table
           /\ \A x \in Peers : Merge(table, rows)[x] \in {table[x], rows[x]}
BY DEF Merge, Table

LEMMA GroupRowType ==
    ASSUME NEW g \in GroupRow \cup {NoGroup}
    PROVE  /\ \A n \in Nat : SetCount(g, n) \in GroupRow \cup {NoGroup}
           /\ \A b \in BOOLEAN : SetJoined(g, b) \in GroupRow \cup {NoGroup}
BY DEF SetCount, SetJoined, GroupRow

\* p's table becomes one whose rows p may keep.
Keeps(p, table) ==
    /\ table \in Table
    /\ members' = [members EXCEPT ![p] = table]
    /\ \A q \in Peers :
          /\ RowOK(q, table[q])
          /\ ActiveRow(table[q]) => q = Owner \/ q \in admitted' \/ (q = p /\ p \in accepted')

LEMMA TableKept ==
    ASSUME TypeOK, TablesInv, Grows, NEW p \in Peers, NEW table, Keeps(p, table)
    PROVE  TablesInv' /\ members' \in [Peers -> Table]
<1> USE DEF Keeps
<1>1. members' \in [Peers -> Table]  BY DEF TypeOK
<1>2. ASSUME NEW x \in Peers, NEW q \in Peers
      PROVE  KeptRow(x, q, members[x][q])'
    <2>1. CASE x = p
        <3>1. members'[x][q] = table[q]  BY <2>1 DEF TypeOK
        <3> QED  BY <2>1, <3>1 DEF KeptRow, RowOK, ActiveRow
    <2>2. CASE x # p
        <3>1. members'[x][q] = members[x][q]  BY <2>2 DEF TypeOK
        <3>2. KeptRow(x, q, members[x][q])  BY DEF TablesInv
        <3> QED  BY <3>1, <3>2 DEF KeptRow, RowOK, ActiveRow, Grows
    <2> QED  BY <2>1, <2>2
<1> QED  BY <1>1, <1>2 DEF TablesInv

LEMMA TablesSame ==
    ASSUME TypeOK, TablesInv, Grows, UNCHANGED members
    PROVE  TablesInv' /\ members' \in [Peers -> Table]
BY DEF TypeOK, TablesInv, KeptRow, RowOK, ActiveRow, Grows

\* What the members' tables say.
LEMMA KeptRows ==
    ASSUME TypeOK, TablesInv, NEW p \in Peers, NEW q \in Peers
    PROVE  /\ RowOK(q, members[p][q])
           /\ ActiveRow(members[p][q]) =>
                 q = Owner \/ q \in admitted \/ (q = p /\ p \in accepted)
           /\ HasPerm(members[p], p, ADMIN) => p = Owner
           /\ HasPerm(members[p], p, OWNER) => p = Owner
<1>1. \A x \in Peers : KeptRow(p, x, members[p][x])  BY DEF TablesInv
<1>2. members[p][p] # NoRow => members[p][p].perm \in Int
    <2>1. members[p][p] \in MemberRow \cup {NoRow}  BY DEF TypeOK, Table
    <2> QED  BY <2>1 DEF MemberRow, Perm, BLACK, QUIT, NONE, NORMAL, ADMIN, OWNER
<1>3. members[p][p] # NoRow /\ p # Owner => members[p][p].perm <= 10
    BY <1>1 DEF KeptRow, RowOK, NORMAL
<1>4. HasPerm(members[p], p, ADMIN) \/ HasPerm(members[p], p, OWNER) => p = Owner
    BY <1>2, <1>3 DEF HasPerm, ADMIN, OWNER
<1> QED  BY <1>1, <1>4 DEF KeptRow

\* Whomever a table names as an owner is the owner.
LEMMA OnlyOwnerOwns ==
    ASSUME TypeOK, TablesInv, NEW p \in Peers, NEW q \in Peers, HasPerm(members[p], q, OWNER)
    PROVE  q = Owner
<1>1. RowOK(q, members[p][q])  BY KeptRows
<1>2. members[p][q] \in MemberRow \cup {NoRow}  BY DEF TypeOK, Table
<1> QED
    BY <1>1, <1>2 DEF RowOK, HasPerm, MemberRow, Perm, BLACK, QUIT, NONE, NORMAL, ADMIN, OWNER

\* The owner's own rows may be sent to anybody else.
LEMMA OwnersTable ==
    ASSUME TypeOK, TablesInv, HistoryInv, NEW q \in Peers
    PROVE  OwnersRow(q, members[Owner][q])
<1>1. Owner \notin accepted  BY DEF HistoryInv
<1> QED  BY <1>1, KeptRows, OwnerAssumption DEF OwnersRow

---------------------------------------------------------------------------
(* Every step keeps IInv *)

LEMMA InitInv == Init => IInv
<1> SUFFICES ASSUME Init PROVE IInv  OBVIOUS
<1>1. TypeOK
    BY EmptySeq DEF Init, TypeOK, Nothing, Table
<1>2. TablesInv
    BY DEF Init, TablesInv, KeptRow, RowOK, ActiveRow
<1>3. NetInv
    BY EmptySeq DEF Init, NetInv, Nothing
<1>4. HistoryInv /\ InboxInv
    BY DEF Init, HistoryInv, InboxInv
<1> QED  BY <1>1, <1>2, <1>3, <1>4 DEF IInv

LEMMA CreateGroupStep == ASSUME IInv, CreateGroup PROVE IInv'
<1> USE DEF IInv, CreateGroup
<1>1. Grows  BY DEF Grows
<1>2. TablesInv' /\ members' \in [Peers -> Table]
    <2>1. [perm |-> OWNER, inviter |-> Owner] \in MemberRow
        BY OwnerAssumption DEF MemberRow, Perm
    <2>2. PICK table : table = Upsert(members[Owner], Owner, [perm |-> OWNER, inviter |-> Owner])
        OBVIOUS
    <2>3. members[Owner] \in Table  BY OwnerAssumption DEF TypeOK
    <2>4. /\ table \in Table
          /\ \A q \in Peers : table[q] = IF q = Owner THEN [perm |-> OWNER, inviter |-> Owner]
                                         ELSE members[Owner][q]
        BY <2>1, <2>2, <2>3, UpsertType, OwnerAssumption
    <2>5. members' = [members EXCEPT ![Owner] = table]
        BY <2>2, OwnerAssumption DEF Upsert, TypeOK
    <2>6. \A q \in Peers : RowOK(q, table[q]) /\
             (ActiveRow(table[q]) => q = Owner \/ q \in admitted' \/ (q = Owner /\ Owner \in accepted'))
        BY <2>4, KeptRows, OwnerAssumption DEF RowOK
    <2>8. Keeps(Owner, table)  BY <2>4, <2>5, <2>6 DEF Keeps
    <2> QED  BY <1>1, <2>8, TableKept, OwnerAssumption
<1>3. NetInv'
    BY <1>1, NetGrows DEF NetInv
<1>4. [joined |-> TRUE, count |-> 1, version |-> 1] \in GroupRow
    BY DEF GroupRow
<1>5. TypeOK'
    BY <1>2, <1>4, OwnerAssumption DEF TypeOK
<1> QED  BY <1>2, <1>3, <1>5 DEF HistoryInv, InboxInv

LEMMA InviteStep == ASSUME IInv, NEW p \in Peers, NEW t \in Peers, Invite(p, t) PROVE IInv'
<1> USE DEF IInv, Invite
<1>1. Grows  BY DEF Grows
<1>2. p = Owner /\ t # Owner
    <2>1. p = Owner  BY KeptRows
    <2>2. members[p][p] \in MemberRow \cup {NoRow}  BY DEF TypeOK, Table
    <2>3. ActiveRow(members[p][p])
        BY <2>2 DEF HasPerm, ActiveRow, MemberRow, Perm, BLACK, QUIT, NONE, NORMAL, ADMIN, OWNER
    <2> QED  BY <2>1, <2>3
<1> DEFINE msg == [type |-> "invitation", id |-> spent["invites"] + 1, version |-> group[p].version]
<1>3. msg \in Message
    <2>1. spent["invites"] + 1 \in Nat  BY DEF TypeOK, Bounds
    <2>2. group[p].version \in Nat  BY DEF TypeOK, GroupRow
    <2> QED  BY <2>1, <2>2 DEF Message
<1>4. \A y \in Peers : To({t}, <<msg>>)[y] \in Seq(Honest(p, y)')
    <2>1. msg \in Honest(p, t)'  BY <1>2, <1>3 DEF Honest
    <2>2. <<msg>> \in Seq(Honest(p, t)')  BY <2>1
    <2> QED  BY <2>2, ToHonest
<1>5. NetInv' /\ net' \in [Peers -> [Peers -> Seq(Message)]]
    BY <1>1, <1>4, SendHonest
<1>6. TablesInv' /\ members' \in [Peers -> Table]
    BY <1>1, TablesSame
<1>7. spent' \in [Bounds -> Nat]
    BY SpendType DEF TypeOK, Bounds
<1>8. TypeOK'
    BY <1>5, <1>6, <1>7 DEF TypeOK
<1> QED  BY <1>2, <1>5, <1>6, <1>8 DEF HistoryInv, InboxInv

LEMMA AcceptInvitationStep == ASSUME IInv, NEW p \in Peers, AcceptInvitation(p) PROVE IInv'
<1> USE DEF IInv, AcceptInvitation
<1>1. Grows  BY DEF Grows
<1>2. p \in invited /\ p # Owner
    BY DEF CanAccept, InboxInv, HistoryInv
<1>3. members[p] \in Table /\ members[p][p] \in MemberRow
    BY DEF TypeOK, Table
<1>4. members[p][p].inviter = Owner
    BY KeptRows DEF RowOK
<1>5. TablesInv' /\ members' \in [Peers -> Table]
    <2>1. PICK table : table = UpdatePermission(members[p], p, NORMAL)  OBVIOUS
    <2>2. table \in Table /\ \A q \in Peers :
             table[q] = IF q = p THEN [perm |-> NORMAL, inviter |-> members[p][p].inviter]
                        ELSE members[p][q]
        <3>1. NORMAL \in Perm  BY DEF Perm
        <3>2. members[p][p] # NoRow  OBVIOUS
        <3> HIDE DEF AcceptInvitation, IInv
        <3> QED  BY <1>3, <2>1, <3>1, <3>2, UpdatePermissionType
    <2>3. members' = [members EXCEPT ![p] = table]
        BY <2>1 DEF UpdatePermission, TypeOK
    <2>4. table[p].perm = NORMAL /\ table[p].inviter = Owner
        BY <1>4, <2>2
    <2>5. \A q \in Peers : RowOK(q, table[q]) /\
             (ActiveRow(table[q]) => q = Owner \/ q \in admitted' \/ (q = p /\ p \in accepted'))
        BY <1>2, <2>2, <2>4, KeptRows DEF RowOK, NORMAL
    <2>8. Keeps(p, table)  BY <2>2, <2>3, <2>5 DEF Keeps
    <2> QED  BY <1>1, <2>8, TableKept
<1>6. NetInv' /\ net' \in [Peers -> [Peers -> Seq(Message)]]
    <2>1. Note("accept") \in Honest(p, Owner)' /\ Note("memberRequest") \in Honest(p, Owner)'
        BY <1>2 DEF Honest, Message, Note
    <2>2. <<Note("accept"), Note("memberRequest")>> \in Seq(Honest(p, Owner)')  BY <2>1
    <2>3. \A y \in Peers : To({Owner}, <<Note("accept"), Note("memberRequest")>>)[y]
                              \in Seq(Honest(p, y)')
        BY <2>2, ToHonest
    <2> QED  BY <1>1, <1>4, <2>3, SendHonest
<1>7. TypeOK'
    <2>1. SetJoined(group[p], TRUE) \in GroupRow \cup {NoGroup}
        BY GroupRowType DEF TypeOK
    <2> QED  BY <1>5, <1>6, <2>1 DEF TypeOK
<1> QED  BY <1>2, <1>5, <1>6, <1>7 DEF HistoryInv, InboxInv

LEMMA QuitStep == ASSUME IInv, NEW p \in Peers, Quit(p) PROVE IInv'
<1> USE DEF IInv, Quit
<1>1. Grows  BY DEF Grows
<1>2. TablesInv' /\ members' \in [Peers -> Table]
    <2>1. PICK table : table = UpdatePermission(members[p], p, QUIT)  OBVIOUS
    <2>2. members[p] \in Table /\ members[p][p] \in MemberRow \cup {NoRow}
        BY DEF TypeOK, Table
    <2>3. /\ table \in Table
          /\ \A q \in Peers : q # p \/ members[p][p] = NoRow => table[q] = members[p][q]
          /\ members[p][p] # NoRow => table[p] = [perm |-> QUIT, inviter |-> members[p][p].inviter]
        <3>1. QUIT \in Perm  BY DEF Perm
        <3> HIDE DEF Quit, IInv
        <3> QED  BY <2>1, <2>2, <3>1, UpdatePermissionType
    <2>4. members' = [members EXCEPT ![p] = table]  BY <2>1
    <2>5. \A q \in Peers : RowOK(q, table[q]) /\
             (ActiveRow(table[q]) => q = Owner \/ q \in admitted' \/ (q = p /\ p \in accepted'))
        <3>1. CASE members[p][p] = NoRow  BY <2>3, <3>1, KeptRows
        <3>2. CASE members[p][p] # NoRow
            <4>1. RowOK(p, members[p][p])  BY KeptRows
            <4>2. RowOK(p, table[p]) /\ ~ActiveRow(table[p])
                BY <2>3, <3>2, <4>1 DEF RowOK, ActiveRow, QUIT, NONE, NORMAL
            <4> QED  BY <2>3, <4>2, KeptRows
        <3> QED  BY <3>1, <3>2
    <2>8. Keeps(p, table)  BY <2>3, <2>4, <2>5 DEF Keeps
    <2> QED  BY <1>1, <2>8, TableKept
<1>3. NetInv' /\ net' \in [Peers -> [Peers -> Seq(Message)]]
    <2>1. Note("quit") \in Honest(p, Owner)'
        BY DEF Honest, Message, Note
    <2>2. <<Note("quit")>> \in Seq(Honest(p, Owner)')  BY <2>1
    <2>3. PICK owners : /\ owners = {q \in Peers : HasPerm(members[p], q, OWNER)} \ {p}
                        /\ Send(p, To(owners, <<Note("quit")>>))
        OBVIOUS
    <2>5. \A y \in owners : y = Owner  BY <2>3, OnlyOwnerOwns
    <2>4. \A y \in Peers : To(owners, <<Note("quit")>>)[y] \in Seq(Honest(p, y)')
        BY <2>2, <2>5, ToHonest
    <2> QED  BY <1>1, <2>3, <2>4, SendHonest
<1>4. TypeOK'
    <2>1. SetJoined(group[p], FALSE) \in GroupRow \cup {NoGroup}
        BY GroupRowType DEF TypeOK
    <2>2. \A x \in Peers : inbox'[x] \subseteq StoredEntry  BY DEF TypeOK
    <2> QED  BY <1>2, <1>3, <2>1, <2>2 DEF TypeOK
<1> QED  BY <1>2, <1>3, <1>4 DEF HistoryInv, InboxInv

\* The owner may send a table whose rows are its own or those of admitted peers.
LEMMA ResponseHonest ==
    ASSUME NEW p \in Peers, p # Owner, NEW rows \in Table,
           \A q \in Peers : /\ RowOK(q, rows[q])
                            /\ ActiveRow(rows[q]) => q = Owner \/ q \in admitted'
    PROVE  MemberResponse(rows) \in Honest(Owner, p)'
<1>1. MemberResponse(rows) \in Message  BY DEF MemberResponse, Message
<1>2. \A q \in Peers : OwnersRow(q, MemberResponse(rows).rows[q])'
    BY DEF OwnersRow, RowOK, ActiveRow, MemberResponse
<1> QED  BY <1>1, <1>2 DEF Honest, MemberResponse

LEMMA SyncHonest ==
    ASSUME TypeOK, NetInv, Grows, NEW table \in Table, SyncMembersToAll(Owner, table),
           \A q \in Peers : /\ RowOK(q, table[q])
                            /\ ActiveRow(table[q]) => q = Owner \/ q \in admitted'
    PROVE  NetInv' /\ net' \in [Peers -> [Peers -> Seq(Message)]]
<1>1. \A y \in Peers : y \in ActiveIn(table) \ {Owner} =>
         <<MemberResponse(table)>> \in Seq(Honest(Owner, y)')
    BY ResponseHonest
<1>2. \A y \in Peers :
         To(ActiveIn(table) \ {Owner}, <<MemberResponse(table)>>)[y] \in Seq(Honest(Owner, y)')
    BY <1>1, ToHonest, OwnerAssumption
<1> QED  BY <1>2, SendHonest, OwnerAssumption DEF SyncMembersToAll

\* Taking a permission away keeps a table as it may be.
LEMMA PermissionLowered ==
    ASSUME TypeOK, TablesInv, NEW p \in Peers, NEW q \in Peers, NEW pm \in {BLACK, QUIT},
           pm = BLACK => q # Owner, NEW table, table = UpdatePermission(members[p], q, pm)
    PROVE  /\ table \in Table
           /\ \A x \in Peers : /\ RowOK(x, table[x])
                               /\ ActiveRow(table[x]) => ActiveRow(members[p][x])
<1>1. pm \in Perm  BY DEF Perm
<1>2. members[p] \in Table  BY DEF TypeOK
<1>3. /\ table \in Table
      /\ \A x \in Peers : x # q \/ members[p][q] = NoRow => table[x] = members[p][x]
      /\ members[p][q] # NoRow => table[q] = [perm |-> pm, inviter |-> members[p][q].inviter]
    BY <1>1, <1>2, UpdatePermissionType
<1>4. \A x \in Peers : RowOK(x, members[p][x])  BY KeptRows
<1>5. CASE members[p][q] = NoRow  BY <1>3, <1>4, <1>5
<1>6. CASE members[p][q] # NoRow
    <2>1. RowOK(q, table[q]) /\ ~ActiveRow(table[q])
        BY <1>3, <1>4, <1>6 DEF RowOK, ActiveRow, QUIT, BLACK, NONE, NORMAL
    <2> QED  BY <1>3, <1>4, <2>1
<1> QED  BY <1>5, <1>6

LEMMA KickOutStep == ASSUME IInv, NEW p \in Peers, NEW t \in Peers, KickOut(p, t) PROVE IInv'
<1>0. TypeOK /\ TablesInv /\ NetInv /\ HistoryInv /\ InboxInv  BY DEF IInv
<1>1. Grows  BY DEF Grows, KickOut
<1>2. p = Owner /\ t # Owner  BY <1>0, KeptRows DEF KickOut
<1>3. PICK table : /\ table = UpdatePermission(members[p], t, BLACK)
                   /\ members' = [members EXCEPT ![p] = table]
                   /\ group' = [group EXCEPT ![p] = SetCount(@, Size(table))]
                   /\ SyncMembersToAll(p, table)
    BY DEF KickOut
<1>4. table \in Table /\ \A x \in Peers : /\ RowOK(x, table[x])
                                          /\ ActiveRow(table[x]) => ActiveRow(members[p][x])
    BY <1>0, <1>2, <1>3, PermissionLowered
<1>5. \A q \in Peers : ActiveRow(table[q]) => q = Owner \/ q \in admitted'
    BY <1>0, <1>2, <1>4, OwnersTable DEF OwnersRow, KickOut
<1>6. TablesInv' /\ members' \in [Peers -> Table]
    <2>1. Keeps(p, table)  BY <1>2, <1>3, <1>4, <1>5 DEF Keeps
    <2> QED  BY <1>0, <1>1, <2>1, TableKept
<1>7. NetInv' /\ net' \in [Peers -> [Peers -> Seq(Message)]]
    BY <1>0, <1>1, <1>2, <1>3, <1>4, <1>5, SyncHonest
<1>8. TypeOK'
    <2>1. SetCount(group[p], Size(table)) \in GroupRow \cup {NoGroup}
        BY <1>0, GroupRowType, SizeType DEF TypeOK
    <2>2. spent' \in [Bounds -> Nat]  BY <1>0, SpendType DEF TypeOK, KickOut, Bounds
    <2> QED  BY <1>0, <1>3, <1>6, <1>7, <2>1, <2>2 DEF TypeOK, KickOut
<1> QED  BY <1>0, <1>6, <1>7, <1>8 DEF IInv, HistoryInv, InboxInv, KickOut

LEMMA RequestMemberSyncStep ==
    ASSUME IInv, NEW p \in Peers, RequestMemberSync(p) PROVE IInv'
<1>0. TypeOK /\ TablesInv /\ NetInv /\ HistoryInv /\ InboxInv  BY DEF IInv
<1>1. Grows  BY DEF Grows, RequestMemberSync
<1>2. TablesInv' /\ members' \in [Peers -> Table]
    BY <1>0, <1>1, TablesSame DEF RequestMemberSync
<1>3. members[p][p] # NoRow /\ members[p] \in Table  BY <1>0 DEF TypeOK, RequestMemberSync, ActiveRow
<1>4. RowOK(p, members[p][p])  BY <1>0, KeptRows
<1>5. NetInv' /\ net' \in [Peers -> [Peers -> Seq(Message)]]
    <2>1. CASE members[p][p].perm = OWNER
        <3>1. p = Owner  BY <1>3, <1>4, <2>1 DEF RowOK, OWNER, NORMAL
        <3>2. \A q \in Peers : /\ RowOK(q, members[p][q])
                               /\ ActiveRow(members[p][q]) => q = Owner \/ q \in admitted'
            BY <1>0, <3>1, OwnersTable DEF OwnersRow, RequestMemberSync
        <3>3. SyncMembersToAll(p, members[p])  BY <2>1 DEF RequestMemberSync
        <3> QED  BY <1>0, <1>1, <1>3, <3>1, <3>2, <3>3, SyncHonest
    <2>2. CASE members[p][p].perm # OWNER
        <3>1. p # Owner
            BY <1>3, <1>4, <2>2 DEF RowOK, RequestMemberSync, ActiveRow, QUIT, NONE
        <3>2. Send(p, To({Owner}, <<Note("memberRequest")>>))
            BY <1>3, <1>4, <2>2 DEF RowOK, RequestMemberSync
        <3>3. Note("memberRequest") \in Honest(p, Owner)'
            BY <3>1 DEF Honest, Message, Note
        <3>4. <<Note("memberRequest")>> \in Seq(Honest(p, Owner)')  BY <3>3
        <3>5. \A y \in Peers : To({Owner}, <<Note("memberRequest")>>)[y] \in Seq(Honest(p, y)')
            BY <3>4, ToHonest
        <3> QED  BY <1>0, <1>1, <3>2, <3>5, SendHonest
    <2> QED  BY <2>1, <2>2
<1>6. spent' \in [Bounds -> Nat]  BY <1>0, SpendType DEF TypeOK, RequestMemberSync, Bounds
<1>7. TypeOK'  BY <1>0, <1>2, <1>5, <1>6 DEF TypeOK, RequestMemberSync
<1> QED  BY <1>0, <1>2, <1>5, <1>7 DEF IInv, HistoryInv, InboxInv, RequestMemberSync

LEMMA GetMembersStep == ASSUME IInv, NEW p \in Peers, GetMembers(p) PROVE IInv'
<1>0. TypeOK /\ TablesInv /\ NetInv /\ HistoryInv /\ InboxInv  BY DEF IInv
<1>1. Grows  BY DEF Grows, GetMembers
<1>2. TablesInv'  BY <1>0, <1>1, TablesSame DEF GetMembers
<1>3. NetInv'  BY <1>0, <1>1, NetGrows DEF NetInv, GetMembers
<1>4. SetCount(group[p], Size(members[p])) \in GroupRow \cup {NoGroup}
    BY <1>0, GroupRowType, SizeType DEF TypeOK
<1>5. TypeOK'  BY <1>0, <1>4 DEF TypeOK, GetMembers
<1> QED  BY <1>0, <1>2, <1>3, <1>5 DEF IInv, HistoryInv, InboxInv, GetMembers

LEMMA SendGroupMessageStep == ASSUME IInv, NEW p \in Peers, SendGroupMessage(p) PROVE IInv'
<1>0. TypeOK /\ TablesInv /\ NetInv /\ HistoryInv /\ InboxInv  BY DEF IInv
<1>1. Grows  BY DEF Grows, SendGroupMessage
<1>2. TablesInv' /\ members' \in [Peers -> Table]
    BY <1>0, <1>1, TablesSame DEF SendGroupMessage
<1>3. spent' \in [Bounds -> Nat] /\ spent["posts"] + 1 \in Nat
    BY <1>0, SpendType DEF TypeOK, SendGroupMessage, Bounds
<1>4. PICK id, dests : id \in Nat /\ Send(p, To(dests, <<[type |-> "post", id |-> id]>>))
    BY <1>3 DEF SendGroupMessage
<1>5. NetInv' /\ net' \in [Peers -> [Peers -> Seq(Message)]]
    <2>1. \A y \in Peers : [type |-> "post", id |-> id] \in Honest(p, y)'
        BY <1>4 DEF Honest, Message
    <2>2. \A y \in Peers : <<[type |-> "post", id |-> id]>> \in Seq(Honest(p, y)')  BY <2>1
    <2>3. \A y \in Peers : To(dests, <<[type |-> "post", id |-> id]>>)[y] \in Seq(Honest(p, y)')
        BY <2>2, ToHonest
    <2> QED  BY <1>0, <1>1, <1>4, <2>3, SendHonest
<1>6. TypeOK'  BY <1>0, <1>2, <1>3, <1>5 DEF TypeOK, SendGroupMessage
<1> QED  BY <1>0, <1>2, <1>5, <1>6 DEF IInv, HistoryInv, InboxInv, SendGroupMessage

\* The message p takes from s is honest.
LEMMA TakenHonest ==
    ASSUME TypeOK, NetInv, NEW s \in Peers, NEW p \in Peers, NEW i \in Deliverable(s, p)
    PROVE  i \in 1 .. Len(net[s][p]) /\ net[s][p][i] \in Honest(s, p) /\ net[s][p][i] \in Message
<1>1. i \in 1 .. Len(net[s][p])  BY DEF Deliverable
<1>2. net[s][p][i] \in Honest(s, p)  BY <1>1, ElementOfSeq DEF NetInv
<1> QED  BY <1>1, <1>2 DEF Honest

LEMMA OnInvitationReceivedStep ==
    ASSUME IInv, NEW s \in Peers, NEW p \in Peers, NEW i \in Deliverable(s, p),
           OnInvitationReceived(s, p, i)
    PROVE  IInv'
<1>0. TypeOK /\ TablesInv /\ NetInv /\ HistoryInv /\ InboxInv  BY DEF IInv
<1>1. Grows  BY DEF Grows, OnInvitationReceived
<1>2. NetInv' /\ net' \in [Peers -> [Peers -> Seq(Message)]]
    BY <1>0, <1>1, TakenHonest, AnswerHonest, NothingHonest DEF OnInvitationReceived
<1> DEFINE m == net[s][p][i]
<1>3. m.type = "invitation" /\ s = Owner /\ p \in invited /\ p # Owner
      /\ m.id \in Nat /\ m.version \in Nat
    BY <1>0, TakenHonest, MessageFields DEF OnInvitationReceived, Honest, HistoryInv
<1>4. CASE Entry(m) \in inbox[p]
    <2>1. UNCHANGED <<members, group, inbox>>  BY <1>4 DEF OnInvitationReceived
    <2>2. TablesInv'  BY <1>0, <1>1, <2>1, TablesSame
    <2>3. TypeOK'  BY <1>0, <1>2, <2>1 DEF TypeOK, OnInvitationReceived
    <2> QED  BY <1>0, <1>2, <2>1, <2>2, <2>3 DEF IInv, HistoryInv, InboxInv, OnInvitationReceived
<1>5. CASE Entry(m) \notin inbox[p]
    <2>1. InvitedRow(s) \in MemberRow  BY DEF InvitedRow, MemberRow, Perm
    <2>2. PICK table : /\ table = Upsert(members[p], p, InvitedRow(s))
                       /\ members' = [members EXCEPT ![p] = table]
        BY <1>5 DEF OnInvitationReceived
    <2>3. table \in Table /\ \A q \in Peers : table[q] = IF q = p THEN InvitedRow(s) ELSE members[p][q]
        BY <1>0, <2>1, <2>2, UpsertType DEF TypeOK
    <2>4. RowOK(p, InvitedRow(s)) /\ ~ActiveRow(InvitedRow(s))
        BY <1>3 DEF RowOK, ActiveRow, InvitedRow, NONE, NORMAL
    <2>5. \A q \in Peers : RowOK(q, table[q]) /\
             (ActiveRow(table[q]) => q = Owner \/ q \in admitted' \/ (q = p /\ p \in accepted'))
        BY <1>0, <2>3, <2>4, KeptRows DEF OnInvitationReceived
    <2>6. TablesInv' /\ members' \in [Peers -> Table]
        <3>1. Keeps(p, table)  BY <2>2, <2>3, <2>5 DEF Keeps
        <3> QED  BY <1>0, <1>1, <3>1, TableKept
    <2>7. inbox' = [inbox EXCEPT ![p] = @ \cup {Entry(m)}]
        BY <1>5 DEF OnInvitationReceived
    <2>8. Entry(m) \in StoredEntry /\ Entry(m).kind = "invitation"
        BY <1>3 DEF Entry, StoredEntry
    <2>9. \A x \in Peers : inbox'[x] \subseteq inbox[x] \cup {Entry(m)} /\ (x # p => inbox'[x] = inbox[x])
        BY <1>0, <2>7 DEF TypeOK
    <2>10. InboxInv'  BY <1>0, <1>3, <2>8, <2>9 DEF InboxInv, OnInvitationReceived
    <2>11. group' \in [Peers -> GroupRow \cup {NoGroup}]
        <3>1. [joined |-> FALSE, count |-> 0, version |-> m.version] \in GroupRow
            BY <1>3 DEF GroupRow
        <3>2. PICK g : /\ g = IF group[p] # NoGroup THEN group[p]
                              ELSE [joined |-> FALSE, count |-> 0, version |-> m.version]
                       /\ group' = [group EXCEPT ![p] = g]
            BY <1>5 DEF OnInvitationReceived
        <3>3. group \in [Peers -> GroupRow \cup {NoGroup}]  BY <1>0 DEF TypeOK
        <3>4. g \in GroupRow \cup {NoGroup}  BY <3>1, <3>2, <3>3
        <3> QED  BY <3>2, <3>3, <3>4
    <2>12. inbox' \in [Peers -> SUBSET StoredEntry]
        <3>1. inbox \in [Peers -> SUBSET StoredEntry]  BY <1>0 DEF TypeOK
        <3>2. inbox[p] \cup {Entry(m)} \in SUBSET StoredEntry  BY <2>8, <3>1
        <3> QED  BY <2>7, <3>1, <3>2
    <2>13. session' \in [Peers -> BOOLEAN]  BY <1>0 DEF TypeOK, OnInvitationReceived
    <2>14. UNCHANGED <<invited, accepted, admitted, spent>>  BY DEF OnInvitationReceived
    <2>15. TypeOK'
        BY <1>0, <1>2, <2>6, <2>11, <2>12, <2>13, <2>14 DEF TypeOK
    <2> QED  BY <1>0, <1>2, <2>6, <2>10, <2>15 DEF IInv, HistoryInv, OnInvitationReceived
<1> QED  BY <1>4, <1>5

LEMMA OptionNotesHonest ==
    ASSUME NEW g \in GroupRow \cup {NoGroup}, NEW y \in Peers \ {Owner}
    PROVE  OptionNotes(g) \in Seq(Honest(Owner, y)')
<1>1. CASE g = NoGroup  BY <1>1, EmptySeq DEF OptionNotes
<1>2. CASE g # NoGroup
    <2>1. OptionResponse(g) \in Message  BY <1>2 DEF OptionResponse, Message, GroupRow
    <2>2. OptionResponse(g) \in Honest(Owner, y)'  BY <2>1 DEF Honest, OptionResponse
    <2> QED  BY <1>2, <2>2 DEF OptionNotes
<1> QED  BY <1>1, <1>2

LEMMA OnInviteeAcceptStep ==
    ASSUME IInv, NEW s \in Peers, NEW p \in Peers, NEW i \in Deliverable(s, p),
           OnInviteeAccept(s, p, i)
    PROVE  IInv'
<1>0. TypeOK /\ TablesInv /\ NetInv /\ HistoryInv /\ InboxInv  BY DEF IInv
<1>1. Grows  BY DEF Grows, OnInviteeAccept
<1>2. p = Owner /\ s \in accepted /\ s # Owner
    BY <1>0, TakenHonest DEF OnInviteeAccept, Honest, HistoryInv
<1> DEFINE row == [perm |-> NORMAL, inviter |-> p]
<1>3. PICK table, g :
         /\ table = Upsert(members[p], s, row)
         /\ g = IF group[p] = NoGroup THEN NoGroup
                ELSE [group[p] EXCEPT !.count = Size(table), !.version = @ + 1]
         /\ Answer(s, p, i, AcceptAnswers(p, s, table, g))
         /\ members' = [members EXCEPT ![p] = table]
         /\ group' = [group EXCEPT ![p] = g]
    BY DEF OnInviteeAccept
<1>4. row \in MemberRow  BY DEF MemberRow, Perm
<1>5. table \in Table /\ \A q \in Peers : table[q] = IF q = s THEN row ELSE members[p][q]
    BY <1>0, <1>3, <1>4, UpsertType DEF TypeOK
<1>6. RowOK(s, row)  BY <1>2 DEF RowOK, NORMAL
<1>7. s \in admitted'  BY DEF OnInviteeAccept
<1>8. \A q \in Peers : RowOK(q, table[q]) /\ (ActiveRow(table[q]) => q = Owner \/ q \in admitted')
    BY <1>0, <1>1, <1>2, <1>5, <1>6, <1>7, OwnersTable DEF OwnersRow, Grows
<1>9. TablesInv' /\ members' \in [Peers -> Table]
    <2>1. Keeps(p, table)  BY <1>3, <1>5, <1>8 DEF Keeps
    <2> QED  BY <1>0, <1>1, <2>1, TableKept
<1>10. g \in GroupRow \cup {NoGroup}
    <2>1. group[p] \in GroupRow \cup {NoGroup}  BY <1>0 DEF TypeOK
    <2>2. Size(table) \in Nat  BY SizeType
    <2>3. group[p] # NoGroup =>
             g = [joined |-> group[p].joined, count |-> Size(table), version |-> group[p].version + 1]
        BY <1>3, <2>1 DEF GroupRow
    <2> QED  BY <1>3, <2>1, <2>2, <2>3 DEF GroupRow
<1>11. NetInv' /\ net' \in [Peers -> [Peers -> Seq(Message)]]
    <2>1. PICK rows : rows = [q \in Peers |-> IF q = s THEN table[q] ELSE NoRow]  OBVIOUS
    <2>2. /\ rows \in Table
          /\ \A q \in Peers : /\ RowOK(q, rows[q])
                              /\ ActiveRow(rows[q]) => q = Owner \/ q \in admitted'
        BY <1>5, <1>8, <2>1 DEF Table, RowOK, ActiveRow
    <2>3. ASSUME NEW y \in Peers
          PROVE  AcceptAnswers(p, s, table, g)[y] \in Seq(Honest(p, y)')
        <3>1. y # Owner => OptionNotes(g) \in Seq(Honest(p, y)')  BY <1>2, <1>10, OptionNotesHonest
        <3>2. CASE y = s  BY <1>2, <3>1, <3>2 DEF AcceptAnswers
        <3>3. CASE y # s /\ y \in ActiveIn(table) \ {p}
            <4>1. <<MemberResponse(rows)>> \in Seq(Honest(p, y)')
                BY <1>2, <2>2, <3>3, ResponseHonest
            <4>2. AcceptAnswers(p, s, table, g)[y] = <<MemberResponse(rows)>> \o OptionNotes(g)
                BY <2>1, <3>3 DEF AcceptAnswers
            <4> QED  BY <1>2, <3>1, <3>3, <4>1, <4>2, ConcatProperties
        <3>4. CASE y # s /\ y \notin ActiveIn(table) \ {p}
            BY <3>4, EmptySeq DEF AcceptAnswers
        <3> QED  BY <3>2, <3>3, <3>4
    <2> QED  BY <1>0, <1>1, <1>3, <2>3, TakenHonest, AnswerHonest
<1>12. TypeOK'
    BY <1>0, <1>3, <1>9, <1>10, <1>11 DEF TypeOK, OnInviteeAccept
<1>13. HistoryInv'  BY <1>0, <1>2 DEF HistoryInv, OnInviteeAccept
<1> QED  BY <1>0, <1>9, <1>11, <1>12, <1>13 DEF IInv, InboxInv, OnInviteeAccept

LEMMA OnMemberQuitStep ==
    ASSUME IInv, NEW s \in Peers, NEW p \in Peers, NEW i \in Deliverable(s, p),
           OnMemberQuit(s, p, i)
    PROVE  IInv'
<1>0. TypeOK /\ TablesInv /\ NetInv /\ HistoryInv /\ InboxInv  BY DEF IInv
<1>1. Grows  BY DEF Grows, OnMemberQuit
<1>2. NetInv' /\ net' \in [Peers -> [Peers -> Seq(Message)]]
    BY <1>0, <1>1, TakenHonest, AnswerHonest, NothingHonest DEF OnMemberQuit
<1>3. PICK table : /\ table = UpdatePermission(members[p], s, QUIT)
                   /\ members' = [members EXCEPT ![p] = table]
                   /\ group' = [group EXCEPT ![p] = SetCount(@, Size(table))]
    BY DEF OnMemberQuit
<1>4. table \in Table /\ \A x \in Peers : /\ RowOK(x, table[x])
                                          /\ ActiveRow(table[x]) => ActiveRow(members[p][x])
    BY <1>0, <1>3, PermissionLowered DEF QUIT, BLACK
<1>5. TablesInv' /\ members' \in [Peers -> Table]
    <2>1. \A q \in Peers : ActiveRow(table[q]) =>
             q = Owner \/ q \in admitted' \/ (q = p /\ p \in accepted')
        BY <1>0, <1>4, KeptRows DEF OnMemberQuit
    <2>8. Keeps(p, table)  BY <1>3, <1>4, <2>1 DEF Keeps
    <2> QED  BY <1>0, <1>1, <2>8, TableKept
<1>6. SetCount(group[p], Size(table)) \in GroupRow \cup {NoGroup}
    BY <1>0, GroupRowType, SizeType DEF TypeOK
<1>7. TypeOK'  BY <1>0, <1>2, <1>3, <1>5, <1>6 DEF TypeOK, OnMemberQuit
<1> QED  BY <1>0, <1>2, <1>5, <1>7 DEF IInv, HistoryInv, InboxInv, OnMemberQuit

LEMMA OnMemberRequestStep ==
    ASSUME IInv, NEW s \in Peers, NEW p \in Peers, NEW i \in Deliverable(s, p),
           OnMemberRequest(s, p, i)
    PROVE  IInv'
<1>0. TypeOK /\ TablesInv /\ NetInv /\ HistoryInv /\ InboxInv  BY DEF IInv
<1>1. Grows  BY DEF Grows, OnMemberRequest
<1>2. p = Owner /\ s # Owner  BY <1>0, TakenHonest DEF OnMemberRequest, Honest
<1>3. TablesInv'  BY <1>0, <1>1, TablesSame DEF OnMemberRequest
<1>4. NetInv' /\ net' \in [Peers -> [Peers -> Seq(Message)]]
    <2>1. \A q \in Peers : /\ RowOK(q, members[p][q])
                           /\ ActiveRow(members[p][q]) => q = Owner \/ q \in admitted'
        BY <1>0, <1>2, OwnersTable DEF OwnersRow, OnMemberRequest
    <2>2. MemberResponse(members[p]) \in Honest(p, s)'
        BY <1>0, <1>2, <2>1, ResponseHonest DEF TypeOK
    <2>3. <<MemberResponse(members[p])>> \in Seq(Honest(p, s)')  BY <2>2
    <2>4. \A y \in Peers : To({s}, <<MemberResponse(members[p])>>)[y] \in Seq(Honest(p, y)')
        BY <2>3, ToHonest
    <2>5. CASE ActiveRow(members[p][s])
        BY <1>0, <1>1, <2>4, <2>5, TakenHonest, AnswerHonest DEF OnMemberRequest
    <2>6. CASE ~ActiveRow(members[p][s])
        BY <1>0, <1>1, <2>6, TakenHonest, AnswerHonest, NothingHonest DEF OnMemberRequest
    <2> QED  BY <2>5, <2>6
<1>5. TypeOK'  BY <1>0, <1>4 DEF TypeOK, OnMemberRequest
<1> QED  BY <1>0, <1>3, <1>4, <1>5 DEF IInv, HistoryInv, InboxInv, OnMemberRequest

LEMMA OnMemberResponseStep ==
    ASSUME IInv, NEW s \in Peers, NEW p \in Peers, NEW i \in Deliverable(s, p),
           OnMemberResponse(s, p, i)
    PROVE  IInv'
<1>0. TypeOK /\ TablesInv /\ NetInv /\ HistoryInv /\ InboxInv  BY DEF IInv
<1>1. Grows  BY DEF Grows, OnMemberResponse
<1>2. NetInv' /\ net' \in [Peers -> [Peers -> Seq(Message)]]
    BY <1>0, <1>1, TakenHonest, AnswerHonest, NothingHonest DEF OnMemberResponse
<1>3. CASE group[p] = NoGroup
    <2>1. UNCHANGED <<members, group>>  BY <1>3 DEF OnMemberResponse
    <2>2. TablesInv'  BY <1>0, <1>1, <2>1, TablesSame
    <2>3. TypeOK'  BY <1>0, <1>2, <2>1 DEF TypeOK, OnMemberResponse
    <2> QED  BY <1>0, <1>2, <2>2, <2>3 DEF IInv, HistoryInv, InboxInv, OnMemberResponse
<1>4. CASE group[p] # NoGroup
    <2>1. PICK rows : rows = net[s][p][i].rows  OBVIOUS
    <2>2. rows \in Table /\ \A q \in Peers : OwnersRow(q, rows[q])
        BY <1>0, <2>1, TakenHonest, MessageFields DEF OnMemberResponse, Honest
    <2>3. PICK table : /\ table = Merge(members[p], rows)
                       /\ members' = [members EXCEPT ![p] = table]
                       /\ group' = [group EXCEPT ![p] = SetCount(@, Size(table))]
        BY <1>4, <2>1 DEF OnMemberResponse
    <2>4. table \in Table /\ \A q \in Peers : table[q] \in {members[p][q], rows[q]}
        BY <1>0, <2>2, <2>3, MergeType DEF TypeOK
    <2>5. \A q \in Peers : RowOK(q, table[q]) /\
             (ActiveRow(table[q]) => q = Owner \/ q \in admitted' \/ (q = p /\ p \in accepted'))
        BY <1>0, <2>2, <2>4, KeptRows DEF OwnersRow, OnMemberResponse
    <2>6. TablesInv' /\ members' \in [Peers -> Table]
        <3>1. Keeps(p, table)  BY <2>3, <2>4, <2>5 DEF Keeps
        <3> QED  BY <1>0, <1>1, <3>1, TableKept
    <2>7. SetCount(group[p], Size(table)) \in GroupRow \cup {NoGroup}
        BY <1>0, GroupRowType, SizeType DEF TypeOK
    <2>8. TypeOK'  BY <1>0, <1>2, <2>3, <2>6, <2>7 DEF TypeOK, OnMemberResponse
    <2> QED  BY <1>0, <1>2, <2>6, <2>8 DEF IInv, HistoryInv, InboxInv, OnMemberResponse
<1> QED  BY <1>3, <1>4

LEMMA OnOptionResponseStep ==
    ASSUME IInv, NEW s \in Peers, NEW p \in Peers, NEW i \in Deliverable(s, p),
           OnOptionResponse(s, p, i)
    PROVE  IInv'
<1>0. TypeOK /\ TablesInv /\ NetInv /\ HistoryInv /\ InboxInv  BY DEF IInv
<1>1. Grows  BY DEF Grows, OnOptionResponse
<1>2. NetInv' /\ net' \in [Peers -> [Peers -> Seq(Message)]]
    BY <1>0, <1>1, TakenHonest, AnswerHonest, NothingHonest DEF OnOptionResponse
<1>3. TablesInv'  BY <1>0, <1>1, TablesSame DEF OnOptionResponse
<1>4. PICK v \in Nat, c \in Nat :
         group' = [group EXCEPT ![p] = IF @ = NoGroup THEN @ ELSE [@ EXCEPT !.version = v, !.count = c]]
    BY <1>0, TakenHonest, MessageFields DEF OnOptionResponse
<1>5. group' \in [Peers -> GroupRow \cup {NoGroup}]
    <2>1. group[p] \in GroupRow \cup {NoGroup}  BY <1>0 DEF TypeOK
    <2>2. group[p] # NoGroup => [group[p] EXCEPT !.version = v, !.count = c] \in GroupRow
        BY <2>1 DEF GroupRow
    <2> QED  BY <1>0, <1>4, <2>2 DEF TypeOK
<1>6. TypeOK'  BY <1>0, <1>2, <1>5 DEF TypeOK, OnOptionResponse
<1> QED  BY <1>0, <1>2, <1>3, <1>6 DEF IInv, HistoryInv, InboxInv, OnOptionResponse

LEMMA HandleIncomingGroupMessageStep ==
    ASSUME IInv, NEW s \in Peers, NEW p \in Peers, NEW i \in Deliverable(s, p),
           HandleIncomingGroupMessage(s, p, i)
    PROVE  IInv'
<1>0. TypeOK /\ TablesInv /\ NetInv /\ HistoryInv /\ InboxInv  BY DEF IInv
<1>1. Grows  BY DEF Grows, HandleIncomingGroupMessage
<1>2. NetInv' /\ net' \in [Peers -> [Peers -> Seq(Message)]]
    BY <1>0, <1>1, TakenHonest, AnswerHonest, NothingHonest DEF HandleIncomingGroupMessage
<1>3. TablesInv'  BY <1>0, <1>1, TablesSame DEF HandleIncomingGroupMessage
<1>4. PICK e, fresh :
         /\ e = Entry(net[s][p][i])
         /\ fresh \in BOOLEAN
         /\ session' = [session EXCEPT ![p] = @ \/ fresh]
         /\ inbox' = [inbox EXCEPT ![p] = IF fresh THEN @ \cup {e} ELSE @]
    BY Zenon DEF HandleIncomingGroupMessage
<1>5. e \in StoredEntry /\ e.kind # "invitation"
    BY <1>0, <1>4, TakenHonest, MessageFields DEF HandleIncomingGroupMessage, Entry, StoredEntry
<1>6. \A x \in Peers : inbox'[x] \subseteq inbox[x] \cup {e}
    BY <1>0, <1>4 DEF TypeOK
<1>7. InboxInv'  BY <1>0, <1>5, <1>6 DEF InboxInv, HandleIncomingGroupMessage
<1>8. session' \in [Peers -> BOOLEAN] /\ inbox' \in [Peers -> SUBSET StoredEntry]
    <2>1. session' \in [Peers -> BOOLEAN]  BY <1>0, <1>4 DEF TypeOK
    <2>2. inbox \in [Peers -> SUBSET StoredEntry]  BY <1>0 DEF TypeOK
    <2>3. (IF fresh THEN inbox[p] \cup {e} ELSE inbox[p]) \in SUBSET StoredEntry
        BY <1>5, <2>2
    <2>4. inbox' = [inbox EXCEPT ![p] = IF fresh THEN inbox[p] \cup {e} ELSE inbox[p]]
        BY <1>4
    <2>5. inbox' \in [Peers -> SUBSET StoredEntry]  BY <2>2, <2>3, <2>4
    <2> QED  BY <2>1, <2>5
<1>9. UNCHANGED <<members, group, invited, accepted, admitted, spent>>
    BY DEF HandleIncomingGroupMessage
<1>10. TypeOK'  BY <1>0, <1>2, <1>8, <1>9 DEF TypeOK
<1> QED  BY <1>0, <1>2, <1>3, <1>7, <1>9, <1>10 DEF IInv, HistoryInv

LEMMA RedeliverStep ==
    ASSUME IInv, NEW s \in Peers, NEW p \in Peers, NEW i \in Deliverable(s, p), Redeliver(s, p, i)
    PROVE  IInv'
<1>0. TypeOK /\ TablesInv /\ NetInv /\ HistoryInv /\ InboxInv  BY DEF IInv
<1>1. Grows  BY DEF Grows, Redeliver
<1>2. TablesInv'  BY <1>0, <1>1, TablesSame DEF Redeliver
<1>3. Append(net[s][p], net[s][p][i]) \in Seq(Honest(s, p))
    BY <1>0, TakenHonest, AppendProperties DEF NetInv
<1>4. Append(net[s][p], net[s][p][i]) \in Seq(Message)
    BY <1>0, TakenHonest, AppendProperties DEF TypeOK
<1>5. \A x, y \in Peers : net'[x][y] \in Seq(Honest(x, y))
    BY <1>0, <1>3 DEF TypeOK, NetInv, Redeliver
<1>6. NetInv'  BY <1>1, <1>5, HonestGrows, SeqMonotonic DEF NetInv
<1>7. spent' \in [Bounds -> Nat]  BY <1>0, SpendType DEF TypeOK, Redeliver, Bounds
<1>8. TypeOK'  BY <1>0, <1>4, <1>7 DEF TypeOK, Redeliver
<1> QED  BY <1>0, <1>2, <1>6, <1>8 DEF IInv, HistoryInv, InboxInv, Redeliver

LEMMA NextInv == IInv /\ [Next]_vars => IInv'
<1> SUFFICES ASSUME IInv, [Next]_vars PROVE IInv'  OBVIOUS
<1>1. CASE UserStep
    BY <1>1, CreateGroupStep, InviteStep, KickOutStep, AcceptInvitationStep, QuitStep,
       RequestMemberSyncStep, GetMembersStep, SendGroupMessageStep DEF UserStep
<1>2. CASE Receive
    BY <1>2, OnInvitationReceivedStep, OnInviteeAcceptStep, OnMemberQuitStep,
       OnMemberRequestStep, OnMemberResponseStep, OnOptionResponseStep,
       HandleIncomingGroupMessageStep DEF Receive
<1>3. CASE Network
    BY <1>3, RedeliverStep DEF Network
<1>4. CASE UNCHANGED vars
    <2>0. TypeOK /\ TablesInv /\ NetInv /\ HistoryInv /\ InboxInv  BY DEF IInv
    <2>1. Grows  BY <1>4 DEF vars, Grows
    <2>2. TablesInv'  BY <1>4, <2>0, <2>1, TablesSame DEF vars
    <2>3. NetInv'  BY <1>4, <2>0, <2>1, NetGrows DEF vars, NetInv
    <2> QED  BY <1>4, <2>0, <2>2, <2>3 DEF vars, IInv, TypeOK, HistoryInv, InboxInv
<1> QED  BY <1>1, <1>2, <1>3, <1>4 DEF Next

LEMMA SpecInv == Spec => []IInv
BY InitInv, NextInv, PTL DEF Spec

---------------------------------------------------------------------------
(* The theorems *)

\* The state of every peer and every message in flight keeps its type.
THEOREM TypeCorrect == Spec => []TypeOK
<1>1. IInv => TypeOK  BY DEF IInv
<1> QED  BY <1>1, SpecInv, PTL

\* No table anywhere ever shows another inviter, owner or admin than the group began with.
THEOREM RolesSafe == Spec => []RolesNeverEscalate
<1>1. IInv => RolesNeverEscalate
    BY DEF IInv, TablesInv, KeptRow, RowOK, RolesNeverEscalate
<1> QED  BY <1>1, SpecInv, PTL

\* Whoever any table shows as active was invited and has accepted, in whatever order the
\* control messages arrived and however often.
THEOREM ConsentSafe == Spec => []MembershipNeedsConsent
<1>1. IInv => MembershipNeedsConsent
    BY DEF IInv, TablesInv, KeptRow, HistoryInv, MembershipNeedsConsent
<1> QED  BY <1>1, SpecInv, PTL

---------------------------------------------------------------------------
(* The roster *)

\* Before the owner has created the group there is nobody in it and nobody asked.
EmptyBefore ==
    group[Owner] = NoGroup =>
        invited = {} /\ \A q \in Peers : members[Owner][q] = NoRow

RosterInv == IInv /\ EmptyBefore

---------------------------------------------------------------------------
(* EmptyBefore and the count *)

\* What a handler of the owner can be handling.
LEMMA AtOwner ==
    ASSUME IInv, NEW s \in Peers, NEW i \in Deliverable(s, Owner)
    PROVE  /\ net[s][Owner][i].type \notin {"invitation", "memberResponse", "optionResponse"}
           /\ net[s][Owner][i].type = "accept" => s \in accepted /\ s \in invited
<1>1. net[s][Owner][i] \in Honest(s, Owner) /\ Owner \notin invited /\ accepted \subseteq invited
    BY TakenHonest, OwnerAssumption DEF IInv, HistoryInv
<1> QED  BY <1>1 DEF Honest

\* Only the owner invites, and nobody asks the owner.
LEMMA OwnerActs ==
    ASSUME IInv, NEW p \in Peers
    PROVE  /\ \A t \in Peers : Invite(p, t) => p = Owner /\ Owner \in ActiveIn(members[Owner])
           /\ \A t \in Peers : KickOut(p, t) => p = Owner
           /\ AcceptInvitation(p) => p # Owner /\ p \in invited
<1>0. TypeOK /\ TablesInv /\ HistoryInv /\ InboxInv  BY DEF IInv
<1>1. ASSUME NEW t \in Peers, Invite(p, t)
      PROVE  p = Owner /\ Owner \in ActiveIn(members[Owner])
    <2>1. p = Owner  BY <1>0, <1>1, KeptRows DEF Invite
    <2>2. members[p][p] \in MemberRow \cup {NoRow}  BY <1>0 DEF TypeOK, Table
    <2>3. ActiveRow(members[p][p])
        BY <1>1, <2>2 DEF Invite, HasPerm, ActiveRow, MemberRow, Perm,
                          BLACK, QUIT, NONE, NORMAL, ADMIN, OWNER
    <2> QED  BY <2>1, <2>3 DEF ActiveIn
<1>2. \A t \in Peers : KickOut(p, t) => p = Owner  BY <1>0, KeptRows DEF KickOut
<1>3. AcceptInvitation(p) => p # Owner /\ p \in invited
    BY <1>0 DEF AcceptInvitation, CanAccept, InboxInv, HistoryInv
<1> QED  BY <1>1, <1>2, <1>3

\* A group row is never lost again.
LEMMA RowStays ==
    ASSUME NEW g \in GroupRow
    PROVE  /\ \A n \in Nat : SetCount(g, n) # NoGroup
           /\ \A b \in BOOLEAN : SetJoined(g, b) # NoGroup
           /\ \A v, n \in Nat : [g EXCEPT !.version = v, !.count = n] # NoGroup
           /\ \A v, n \in Nat : [g EXCEPT !.count = n, !.version = v] # NoGroup
<1>1. g # NoGroup  BY AbsentAssumption
<1>2. \A n \in Nat : [g EXCEPT !.count = n] \in GroupRow  BY DEF GroupRow
<1>3. \A b \in BOOLEAN : [g EXCEPT !.joined = b] \in GroupRow  BY DEF GroupRow
<1>4. \A v, n \in Nat : /\ [g EXCEPT !.version = v, !.count = n] \in GroupRow
                        /\ [g EXCEPT !.count = n, !.version = v] \in GroupRow
    BY DEF GroupRow
<1> QED  BY <1>1, <1>2, <1>3, <1>4, AbsentAssumption DEF SetCount, SetJoined

LEMMA GroupStays ==
    ASSUME IInv, Next, NEW q \in Peers, group[q] # NoGroup PROVE group'[q] # NoGroup
<1>0. TypeOK /\ TablesInv /\ NetInv  BY DEF IInv
<1>1. group[q] \in GroupRow /\ group \in [Peers -> GroupRow \cup {NoGroup}]
    BY <1>0 DEF TypeOK
<1>7. /\ \A n \in Nat : SetCount(group[q], n) # NoGroup
      /\ \A b \in BOOLEAN : SetJoined(group[q], b) # NoGroup
      /\ \A v, n \in Nat : /\ [group[q] EXCEPT !.count = n, !.version = v] # NoGroup
                            /\ [group[q] EXCEPT !.version = v, !.count = n] # NoGroup
    BY <1>1, RowStays
<1>2. CASE CreateGroup  BY <1>2 DEF CreateGroup
<1>3. ASSUME NEW p \in Peers, NEW t \in Peers, Invite(p, t) \/ KickOut(p, t)
      PROVE  group'[q] # NoGroup
    <2>1. CASE Invite(p, t)  BY <2>1 DEF Invite
    <2>2. CASE KickOut(p, t)
        <3>1. \E n \in Nat : group' = [group EXCEPT ![p] = SetCount(@, n)]
            BY <2>2, SizeType DEF KickOut
        <3> QED  BY <1>1, <3>1, <1>7
    <2> QED  BY <1>3, <2>1, <2>2
<1>4. ASSUME NEW p \in Peers,
             \/ AcceptInvitation(p) \/ Quit(p) \/ RequestMemberSync(p)
             \/ GetMembers(p) \/ SendGroupMessage(p)
      PROVE  group'[q] # NoGroup
    <2>1. CASE AcceptInvitation(p)  BY <1>1, <2>1, <1>7 DEF AcceptInvitation
    <2>2. CASE Quit(p)  BY <1>1, <2>2, <1>7 DEF Quit
    <2>3. CASE RequestMemberSync(p) \/ SendGroupMessage(p)
        BY <2>3 DEF RequestMemberSync, SendGroupMessage
    <2>4. CASE GetMembers(p)  BY <1>1, <2>4, <1>7, SizeType DEF GetMembers
    <2> QED  BY <1>4, <2>1, <2>2, <2>3, <2>4
<1>5. ASSUME NEW s \in Peers, NEW p \in Peers, NEW i \in Deliverable(s, p),
             \/ OnInvitationReceived(s, p, i) \/ OnInviteeAccept(s, p, i)
             \/ OnMemberQuit(s, p, i) \/ OnMemberRequest(s, p, i)
             \/ OnMemberResponse(s, p, i) \/ OnOptionResponse(s, p, i)
             \/ HandleIncomingGroupMessage(s, p, i)
      PROVE  group'[q] # NoGroup
    <2>1. CASE OnInvitationReceived(s, p, i)  BY <1>1, <2>1 DEF OnInvitationReceived
    <2>2. CASE OnInviteeAccept(s, p, i)
        <3>1. PICK n \in Nat :
                 group' = [group EXCEPT ![p] = IF group[p] = NoGroup THEN NoGroup
                               ELSE [group[p] EXCEPT !.count = n, !.version = @ + 1]]
            BY <2>2, SizeType DEF OnInviteeAccept
        <3>2. p = q => group'[q] = [group[q] EXCEPT !.count = n, !.version = group[q].version + 1]
            BY <1>1, <3>1
        <3>3. group[q].version + 1 \in Nat  BY <1>1 DEF GroupRow
        <3> QED  BY <1>1, <3>1, <3>2, <3>3, <1>7
    <2>3. CASE OnMemberQuit(s, p, i)
        <3>1. group' = group \/ \E n \in Nat : group' = [group EXCEPT ![p] = SetCount(@, n)]
            BY <2>3, SizeType DEF OnMemberQuit
        <3> QED  BY <1>1, <3>1, <1>7
    <2>4. CASE OnMemberRequest(s, p, i) \/ HandleIncomingGroupMessage(s, p, i)
        BY <2>4 DEF OnMemberRequest, HandleIncomingGroupMessage
    <2>5. CASE OnMemberResponse(s, p, i)
        <3>1. group' = group \/ \E n \in Nat : group' = [group EXCEPT ![p] = SetCount(@, n)]
            BY <2>5, SizeType DEF OnMemberResponse
        <3> QED  BY <1>1, <3>1, <1>7
    <2>6. CASE OnOptionResponse(s, p, i)
        <3>1. PICK v \in Nat, n \in Nat :
                 group' = [group EXCEPT ![p] = IF group[p] = NoGroup THEN NoGroup
                               ELSE [group[p] EXCEPT !.version = v, !.count = n]]
            BY <1>0, <2>6, TakenHonest, MessageFields DEF OnOptionResponse
        <3>2. p = q => group'[q] = [group[q] EXCEPT !.version = v, !.count = n]
            BY <1>1, <3>1
        <3> QED  BY <1>1, <3>1, <3>2, <1>7
    <2> QED  BY <1>5, <2>1, <2>2, <2>3, <2>4, <2>5, <2>6
<1>6. CASE Network  BY <1>6 DEF Network, Redeliver
<1> QED  BY <1>2, <1>3, <1>4, <1>5, <1>6 DEF Next, UserStep, Receive

\* A table without rows has nobody to strike out.
LEMMA NobodyStruck ==
    ASSUME NEW table, NEW q, NEW pm, table[q] = NoRow
    PROVE  UpdatePermission(table, q, pm) = table
BY DEF UpdatePermission

LEMMA EmptyStep == ASSUME RosterInv, Next PROVE EmptyBefore'
<1> SUFFICES ASSUME group'[Owner] = NoGroup
             PROVE  invited' = {} /\ \A q \in Peers : members'[Owner][q] = NoRow
    BY DEF EmptyBefore
<1> USE OwnerAssumption
<1>0. IInv /\ TypeOK /\ HistoryInv  BY DEF RosterInv, IInv
<1>1. group[Owner] = NoGroup  BY <1>0, GroupStays
<1>2. invited = {} /\ \A q \in Peers : members[Owner][q] = NoRow
    BY <1>1 DEF RosterInv, EmptyBefore
<1>3. accepted = {} /\ ActiveIn(members[Owner]) = {}
    BY <1>0, <1>2 DEF HistoryInv, ActiveIn, ActiveRow
<1>4. ~CreateGroup
    <2>1. [joined |-> TRUE, count |-> 1, version |-> 1] \in GroupRow  BY DEF GroupRow
    <2>2. CreateGroup => group'[Owner] = [joined |-> TRUE, count |-> 1, version |-> 1]
        BY <1>0 DEF CreateGroup, TypeOK
    <2> QED  BY <2>1, <2>2, AbsentAssumption
<1>5. \A p, t \in Peers : ~Invite(p, t) /\ ~KickOut(p, t)
    BY <1>0, <1>2, <1>3, OwnerActs DEF KickOut
<1>6. ASSUME NEW p \in Peers,
             \/ AcceptInvitation(p) \/ Quit(p) \/ RequestMemberSync(p)
             \/ GetMembers(p) \/ SendGroupMessage(p)
      PROVE  invited' = {} /\ members'[Owner] = members[Owner]
    <2>1. ~AcceptInvitation(p)  BY <1>0, <1>2, OwnerActs
    <2>2. CASE Quit(p)
        <3>1. p # Owner  BY <1>1, <2>2 DEF Quit
        <3> QED  BY <1>0, <1>2, <2>2, <3>1 DEF Quit, TypeOK
    <2>3. CASE RequestMemberSync(p) \/ GetMembers(p) \/ SendGroupMessage(p)
        BY <1>2, <2>3 DEF RequestMemberSync, GetMembers, SendGroupMessage
    <2> QED  BY <1>6, <2>1, <2>2, <2>3
<1>7. ASSUME NEW s \in Peers, NEW p \in Peers, NEW i \in Deliverable(s, p),
             \/ OnInvitationReceived(s, p, i) \/ OnInviteeAccept(s, p, i)
             \/ OnMemberQuit(s, p, i) \/ OnMemberRequest(s, p, i)
             \/ OnMemberResponse(s, p, i) \/ OnOptionResponse(s, p, i)
             \/ HandleIncomingGroupMessage(s, p, i)
      PROVE  invited' = {} /\ members'[Owner] = members[Owner]
    <2>1. CASE OnInvitationReceived(s, p, i)
        <3>1. p # Owner  BY <1>0, <2>1, AtOwner DEF OnInvitationReceived
        <3> QED  BY <1>0, <1>2, <2>1, <3>1 DEF OnInvitationReceived, TypeOK
    <2>2. ~OnInviteeAccept(s, p, i)
        BY <1>0, <1>3, TakenHonest DEF OnInviteeAccept, Honest, IInv
    <2>3. CASE OnMemberQuit(s, p, i)
        <3>1. members' = [members EXCEPT ![p] = UpdatePermission(@, s, QUIT)] /\ invited' = invited
            BY <2>3 DEF OnMemberQuit
        <3>2. UpdatePermission(members[Owner], s, QUIT) = members[Owner]  BY <1>2, NobodyStruck
        <3> QED  BY <1>0, <1>2, <3>1, <3>2 DEF TypeOK
    <2>4. CASE OnMemberRequest(s, p, i) \/ OnOptionResponse(s, p, i)
               \/ HandleIncomingGroupMessage(s, p, i)
        BY <1>2, <2>4 DEF OnMemberRequest, OnOptionResponse, HandleIncomingGroupMessage
    <2>5. CASE OnMemberResponse(s, p, i)
        <3>1. p # Owner  BY <1>0, <2>5, AtOwner DEF OnMemberResponse
        <3> QED  BY <1>0, <1>2, <2>5, <3>1 DEF OnMemberResponse, TypeOK
    <2> QED  BY <1>7, <2>1, <2>2, <2>3, <2>4, <2>5
<1>8. CASE Network  BY <1>2, <1>8 DEF Network, Redeliver
<1> QED  BY <1>2, <1>4, <1>5, <1>6, <1>7, <1>8 DEF Next, UserStep, Receive

LEMMA RosterInvStep == RosterInv /\ [Next]_vars => RosterInv'
<1>1. RosterInv /\ UNCHANGED vars => EmptyBefore'  BY DEF vars, EmptyBefore, RosterInv
<1> QED  BY <1>1, NextInv, EmptyStep DEF RosterInv

LEMMA InitRosterInv == Init => RosterInv
<1>1. Init => EmptyBefore  BY OwnerAssumption DEF Init, EmptyBefore
<1> QED  BY <1>1, InitInv DEF RosterInv

---------------------------------------------------------------------------
(* Every step of the protocol is a step of the roster *)

Lists == [p \in Peers |-> ActiveIn(members[p])]

\* One table changes, and with it one list.
LEMMA ListAt ==
    ASSUME TypeOK, NEW p \in Peers, NEW table, members' = [members EXCEPT ![p] = table]
    PROVE  Lists' = [Lists EXCEPT ![p] = ActiveIn(table)]
BY DEF Lists, TypeOK

\* A row that is set to QUIT or BLACK leaves the list, if it was on it.
LEMMA StruckOut ==
    ASSUME NEW table \in Table, NEW q \in Peers, NEW pm \in {QUIT, BLACK}
    PROVE  ActiveIn(UpdatePermission(table, q, pm)) = ActiveIn(table) \ {q}
<1>0. pm \in Perm  BY DEF Perm
<1> DEFINE new == UpdatePermission(table, q, pm)
<1>1. /\ \A x \in Peers : x # q \/ table[q] = NoRow => new[x] = table[x]
      /\ table[q] # NoRow => new[q] = [perm |-> pm, inviter |-> table[q].inviter]
    <2> HIDE DEF new
    <2>1. new = UpdatePermission(table, q, pm)  BY DEF new
    <2> QED  BY <1>0, <2>1, UpdatePermissionType
<1>2. ~ActiveRow(new[q])
    <2>1. CASE table[q] = NoRow  BY <1>1, <2>1 DEF ActiveRow
    <2>2. CASE table[q] # NoRow
        <3>1. new[q].perm = pm  BY <1>1, <2>2
        <3> QED  BY <3>1 DEF ActiveRow, QUIT, BLACK, NONE
    <2> QED  BY <2>1, <2>2
<1>3. \A x \in Peers : x # q => new[x] = table[x]  BY <1>1
<1> HIDE DEF new
<1>4. ActiveIn(new) = ActiveIn(table) \ {q}  BY <1>2, <1>3 DEF ActiveIn, ActiveRow
<1> QED  BY <1>4 DEF new

LEMMA InitRefines == Init => Roster!Init
BY DEF Init, Roster!Init, ActiveIn, ActiveRow

LEMMA CreateRefines == ASSUME RosterInv, CreateGroup PROVE Roster!Open
<1> USE OwnerAssumption
<1>0. TypeOK /\ HistoryInv  BY DEF RosterInv, IInv
<1>1. admitted = {} /\ \A q \in Peers : members[Owner][q] = NoRow
    BY <1>0 DEF RosterInv, EmptyBefore, CreateGroup, HistoryInv
<1> DEFINE row == [perm |-> OWNER, inviter |-> Owner]
<1>2. ActiveRow(row)
    <2>1. row \in MemberRow  BY DEF MemberRow, Perm
    <2> QED  BY <2>1, AbsentAssumption DEF ActiveRow, OWNER, NONE
<1>3. PICK table : table = Upsert(members[Owner], Owner, row)  OBVIOUS
<1>4. \A q \in Peers : table[q] = IF q = Owner THEN row ELSE members[Owner][q]
    BY <1>0, <1>3 DEF Upsert, TypeOK, Table
<1>5. ActiveIn(table) = {Owner}
    BY <1>1, <1>2, <1>4 DEF ActiveIn, ActiveRow
<1>6. members' = [members EXCEPT ![Owner] = table]
    BY <1>0, <1>3 DEF CreateGroup, Upsert, TypeOK
<1>7. Lists' = [Lists EXCEPT ![Owner] = {Owner}]  BY <1>0, <1>5, <1>6, ListAt
<1> QED  BY <1>1, <1>7 DEF Roster!Open, CreateGroup, Lists

LEMMA InviteRefines ==
    ASSUME RosterInv, NEW p \in Peers, NEW t \in Peers, Invite(p, t) PROVE Roster!Ask(t)
<1>0. IInv  BY DEF RosterInv
<1>1. p = Owner /\ Owner \in ActiveIn(members[Owner])  BY <1>0, OwnerActs
<1>2. t \notin ActiveIn(members[Owner])  BY <1>1 DEF Invite, ActiveIn
<1> QED  BY <1>1, <1>2, OwnerAssumption DEF Roster!Ask, Invite

LEMMA AcceptRefines ==
    ASSUME RosterInv, NEW p \in Peers, AcceptInvitation(p) PROVE Roster!Consent(p)
<1>0. IInv /\ TypeOK  BY DEF RosterInv, IInv
<1>1. p \in invited  BY <1>0, OwnerActs
<1>2. PICK table : table = [members[p] EXCEPT ![p].perm = NORMAL]  OBVIOUS
<1>3. members' = [members EXCEPT ![p] = table]
    BY <1>0, <1>2 DEF AcceptInvitation, TypeOK
<1>4. members[p][p] \in MemberRow  BY <1>0 DEF AcceptInvitation, TypeOK, Table
<1>5. table[p].perm = NORMAL /\ table[p] \in MemberRow
    <2>1. table[p] = [members[p][p] EXCEPT !.perm = NORMAL]  BY <1>0, <1>2 DEF TypeOK, Table
    <2> QED  BY <1>4, <2>1 DEF MemberRow, Perm
<1>6. \A q \in Peers : q # p => table[q] = members[p][q]  BY <1>0, <1>2 DEF TypeOK, Table
<1>7. ActiveRow(table[p])  BY <1>5, AbsentAssumption DEF ActiveRow, NORMAL, NONE
<1>8. ActiveIn(table) = ActiveIn(members[p]) \cup {p}
    BY <1>6, <1>7 DEF ActiveIn, ActiveRow
<1>9. Lists' = [Lists EXCEPT ![p] = ActiveIn(members[p]) \cup {p}]  BY <1>0, <1>3, <1>8, ListAt
<1>10. Lists' = [Lists EXCEPT ![p] = @ \cup {p}]  BY <1>9 DEF Lists
<1> QED  BY <1>1, <1>10 DEF Roster!Consent, AcceptInvitation, Lists

LEMMA QuitRefines == ASSUME RosterInv, NEW p \in Peers, Quit(p) PROVE Roster!StepBack(p)
<1>0. TypeOK  BY DEF RosterInv, IInv
<1>1. ActiveIn(UpdatePermission(members[p], p, QUIT)) = ActiveIn(members[p]) \ {p}
    BY <1>0, StruckOut DEF TypeOK
<1>2. members' = [members EXCEPT ![p] = UpdatePermission(members[p], p, QUIT)]
    BY DEF Quit
<1>3. Lists' = [Lists EXCEPT ![p] = ActiveIn(members[p]) \ {p}]  BY <1>0, <1>1, <1>2, ListAt
<1>4. Lists' = [Lists EXCEPT ![p] = @ \ {p}]  BY <1>3 DEF Lists
<1> QED  BY <1>4 DEF Roster!StepBack, Quit, Lists

LEMMA KickOutRefines ==
    ASSUME RosterInv, NEW p \in Peers, NEW t \in Peers, KickOut(p, t) PROVE Roster!Strike(t)
<1>0. IInv /\ TypeOK /\ p = Owner  BY OwnerActs DEF RosterInv, IInv
<1>1. ActiveIn(UpdatePermission(members[p], t, BLACK)) = ActiveIn(members[p]) \ {t}
    BY <1>0, StruckOut DEF TypeOK
<1>2. members' = [members EXCEPT ![p] = UpdatePermission(members[p], t, BLACK)]
    BY DEF KickOut
<1>3. Lists' = [Lists EXCEPT ![p] = ActiveIn(members[p]) \ {t}]  BY <1>0, <1>1, <1>2, ListAt
<1>4. Lists' = [Lists EXCEPT ![Owner] = @ \ {t}]  BY <1>0, <1>3 DEF Lists
<1> QED  BY <1>4 DEF Roster!Strike, KickOut, Lists

\* A handler that takes no part in membership leaves the roster alone.
LEMMA QuietStep ==
    ASSUME UNCHANGED <<members, invited, accepted, admitted>> PROVE UNCHANGED Roster!vars
BY DEF Roster!vars

LEMMA OnInvitationReceivedRefines ==
    ASSUME RosterInv, NEW s \in Peers, NEW p \in Peers, NEW i \in Deliverable(s, p),
           OnInvitationReceived(s, p, i)
    PROVE  Roster!StepBack(p) \/ UNCHANGED Roster!vars
<1>0. TypeOK  BY DEF RosterInv, IInv
<1>1. UNCHANGED <<invited, accepted, admitted>>  BY DEF OnInvitationReceived
<1>2. CASE UNCHANGED members  BY <1>1, <1>2, QuietStep
<1>3. CASE members' # members
    <2>1. members' = [members EXCEPT ![p] = Upsert(members[p], p, InvitedRow(s))]
        BY <1>3 DEF OnInvitationReceived
    <2>2. ~ActiveRow(InvitedRow(s))  BY DEF ActiveRow, InvitedRow, NONE
    <2>3. members[p] \in Table  BY <1>0 DEF TypeOK
    <2>4. ActiveIn(Upsert(members[p], p, InvitedRow(s))) = ActiveIn(members[p]) \ {p}
        BY <2>2, <2>3 DEF ActiveIn, Upsert, Table
    <2>5. Lists' = [Lists EXCEPT ![p] = ActiveIn(members[p]) \ {p}]  BY <1>0, <2>1, <2>4, ListAt
    <2>6. Lists' = [Lists EXCEPT ![p] = @ \ {p}]  BY <2>5 DEF Lists
    <2> QED  BY <1>1, <2>6 DEF Roster!StepBack, Lists
<1> QED  BY <1>2, <1>3

LEMMA OnInviteeAcceptRefines ==
    ASSUME RosterInv, NEW s \in Peers, NEW p \in Peers, NEW i \in Deliverable(s, p),
           OnInviteeAccept(s, p, i)
    PROVE  Roster!Admit(s)
<1>0. TypeOK /\ NetInv  BY DEF RosterInv, IInv
<1>1. p = Owner /\ s \in accepted
    BY <1>0, TakenHonest DEF OnInviteeAccept, Honest
<1> DEFINE row == [perm |-> NORMAL, inviter |-> p]
<1>2. ActiveRow(row)
    <2>1. row \in MemberRow  BY DEF MemberRow, Perm
    <2> QED  BY <2>1, AbsentAssumption DEF ActiveRow, NORMAL, NONE
<1>3. members' = [members EXCEPT ![p] = Upsert(members[p], s, row)]
    BY DEF OnInviteeAccept
<1>4. members[p] \in Table  BY <1>0 DEF TypeOK
<1>5. ActiveIn(Upsert(members[p], s, row)) = ActiveIn(members[p]) \cup {s}
    BY <1>2, <1>4 DEF ActiveIn, Upsert, Table
<1>6. Lists' = [Lists EXCEPT ![p] = ActiveIn(members[p]) \cup {s}]  BY <1>0, <1>3, <1>5, ListAt
<1>7. Lists' = [Lists EXCEPT ![Owner] = @ \cup {s}]  BY <1>1, <1>6 DEF Lists
<1> QED  BY <1>1, <1>7 DEF Roster!Admit, OnInviteeAccept, Lists

\* What a peer other than the owner may put on its list.
LEMMA Learned ==
    ASSUME RosterInv, NEW p \in Peers \ {Owner}, NEW table,
           members' = [members EXCEPT ![p] = table],
           ActiveIn(table) \subseteq {Owner} \cup admitted \cup ActiveIn(members[p]),
           UNCHANGED <<invited, accepted, admitted>>
    PROVE  Roster!Learn(p)
<1>0. TypeOK /\ TablesInv  BY DEF RosterInv, IInv
<1>1. ActiveIn(members[p]) \subseteq {Owner} \cup admitted \cup {p}
    BY <1>0, KeptRows DEF ActiveIn
<1>2. ActiveIn(table) \subseteq {Owner} \cup admitted \cup (Lists[p] \cap {p})
    BY <1>1 DEF Lists
<1>3. Lists' = [Lists EXCEPT ![p] = ActiveIn(table)]  BY <1>0, ListAt
<1> QED  BY <1>2, <1>3 DEF Roster!Learn, Lists

LEMMA OnMemberQuitRefines ==
    ASSUME RosterInv, NEW s \in Peers, NEW p \in Peers, NEW i \in Deliverable(s, p),
           OnMemberQuit(s, p, i)
    PROVE  Roster!Strike(s) \/ Roster!Learn(p)
<1>0. TypeOK  BY DEF RosterInv, IInv
<1>1. ActiveIn(UpdatePermission(members[p], s, QUIT)) = ActiveIn(members[p]) \ {s}
    BY <1>0, StruckOut DEF TypeOK
<1>2. /\ members' = [members EXCEPT ![p] = UpdatePermission(members[p], s, QUIT)]
      /\ UNCHANGED <<invited, accepted, admitted>>
    BY DEF OnMemberQuit
<1>3. CASE p = Owner
    <2>1. Lists' = [Lists EXCEPT ![p] = ActiveIn(members[p]) \ {s}]  BY <1>0, <1>1, <1>2, ListAt
    <2>2. Lists' = [Lists EXCEPT ![Owner] = @ \ {s}]  BY <1>3, <2>1 DEF Lists
    <2> QED  BY <1>2, <2>2 DEF Roster!Strike, Lists
<1>4. CASE p # Owner  BY <1>1, <1>2, <1>4, Learned
<1> QED  BY <1>3, <1>4

LEMMA OnMemberResponseRefines ==
    ASSUME RosterInv, NEW s \in Peers, NEW p \in Peers, NEW i \in Deliverable(s, p),
           OnMemberResponse(s, p, i)
    PROVE  Roster!Learn(p) \/ UNCHANGED Roster!vars
<1>0. IInv /\ TypeOK /\ NetInv  BY DEF RosterInv, IInv
<1>1. UNCHANGED <<invited, accepted, admitted>>  BY DEF OnMemberResponse
<1>2. CASE group[p] = NoGroup  BY <1>1, <1>2, QuietStep DEF OnMemberResponse
<1>3. CASE group[p] # NoGroup
    <2>1. PICK rows : rows = net[s][p][i].rows  OBVIOUS
    <2>2. /\ p # Owner /\ rows \in Table
          /\ \A q \in Peers : OwnersRow(q, rows[q])
        BY <1>0, <2>1, TakenHonest, MessageFields DEF OnMemberResponse, Honest
    <2>3. PICK table : table = Merge(members[p], rows) /\ members' = [members EXCEPT ![p] = table]
        BY <1>3, <2>1 DEF OnMemberResponse
    <2>4. \A q \in Peers : table[q] \in {members[p][q], rows[q]}
        BY <1>0, <2>2, <2>3, MergeType DEF TypeOK
    <2>5. ActiveIn(table) \subseteq {Owner} \cup admitted \cup ActiveIn(members[p])
        BY <2>2, <2>4 DEF ActiveIn, OwnersRow
    <2> QED  BY <1>1, <2>2, <2>3, <2>5, Learned
<1> QED  BY <1>2, <1>3

LEMMA StepRefines == RosterInv /\ [Next]_vars => [Roster!Next]_(Roster!vars)
<1> SUFFICES ASSUME RosterInv, [Next]_vars PROVE Roster!Next \/ UNCHANGED Roster!vars
    OBVIOUS
<1>1. CASE CreateGroup  BY <1>1, CreateRefines DEF Roster!Next
<1>2. ASSUME NEW p \in Peers, NEW t \in Peers, Invite(p, t) \/ KickOut(p, t)
      PROVE  Roster!Next
    BY <1>2, InviteRefines, KickOutRefines DEF Roster!Next
<1>3. ASSUME NEW p \in Peers, AcceptInvitation(p) \/ Quit(p)
      PROVE  Roster!Next
    BY <1>3, AcceptRefines, QuitRefines DEF Roster!Next
<1>4. ASSUME NEW p \in Peers, RequestMemberSync(p) \/ GetMembers(p) \/ SendGroupMessage(p)
      PROVE  UNCHANGED Roster!vars
    BY <1>4, QuietStep DEF RequestMemberSync, GetMembers, SendGroupMessage
<1>5. ASSUME NEW s \in Peers, NEW p \in Peers, NEW i \in Deliverable(s, p),
             \/ OnInvitationReceived(s, p, i) \/ OnInviteeAccept(s, p, i)
             \/ OnMemberQuit(s, p, i) \/ OnMemberResponse(s, p, i)
      PROVE  Roster!Next \/ UNCHANGED Roster!vars
    BY <1>5, OnInvitationReceivedRefines, OnInviteeAcceptRefines, OnMemberQuitRefines,
       OnMemberResponseRefines DEF Roster!Next
<1>6. ASSUME NEW s \in Peers, NEW p \in Peers, NEW i \in Deliverable(s, p),
             \/ OnMemberRequest(s, p, i) \/ OnOptionResponse(s, p, i)
             \/ HandleIncomingGroupMessage(s, p, i)
      PROVE  UNCHANGED Roster!vars
    BY <1>6, QuietStep DEF OnMemberRequest, OnOptionResponse, HandleIncomingGroupMessage
<1>7. CASE Network  BY <1>7, QuietStep DEF Network, Redeliver
<1>8. CASE UNCHANGED vars  BY <1>8, QuietStep DEF vars
<1> QED  BY <1>1, <1>2, <1>3, <1>4, <1>5, <1>6, <1>7, <1>8 DEF Next, UserStep, Receive

\* The control messages of a private group, lost, late or repeated, implement the
\* roster: the owner admits only who was asked and consented, and everybody else's list
\* holds only peers the owner has admitted.
THEOREM ImplementsTheRoster == Spec => ImplementsRoster
<1>1. RosterInv /\ [Next]_vars => RosterInv'  BY RosterInvStep
<1>2. Init => Roster!Init  BY InitRefines
<1>3. Init => RosterInv  BY InitRosterInv
<1>4. RosterInv /\ [Next]_vars => [Roster!Next]_(Roster!vars)  BY StepRefines
<1> QED  BY <1>1, <1>2, <1>3, <1>4, PTL DEF Spec, ImplementsRoster, Roster!Spec

---------------------------------------------------------------------------
(* The owner's count *)

LEMMA Elsewhere ==
    ASSUME OwnerCountExact, group'[Owner] = group[Owner], members'[Owner] = members[Owner]
    PROVE  OwnerCountExact'
BY DEF OwnerCountExact, Size, ActiveIn

LEMMA ElsewhereAt ==
    ASSUME OwnerCountExact, TypeOK, NEW p \in Peers \ {Owner}, NEW t, NEW g,
           members' = [members EXCEPT ![p] = t], group' = [group EXCEPT ![p] = g]
    PROVE  OwnerCountExact'
BY Elsewhere, OwnerAssumption DEF TypeOK

LEMMA Recounted ==
    ASSUME TypeOK, NEW t, members' = [members EXCEPT ![Owner] = t],
           group' = [group EXCEPT ![Owner] = SetCount(@, Size(t))]
    PROVE  OwnerCountExact'
<1> USE OwnerAssumption
<1>1. members'[Owner] = t /\ group'[Owner] = SetCount(group[Owner], Size(t))  BY DEF TypeOK
<1>2. group[Owner] # NoGroup => SetCount(group[Owner], Size(t)).count = Size(t)
    <2>1. group[Owner] \in GroupRow \cup {NoGroup}  BY DEF TypeOK
    <2> QED  BY <2>1 DEF SetCount, GroupRow
<1>3. group[Owner] = NoGroup => SetCount(group[Owner], Size(t)) = NoGroup  BY DEF SetCount
<1>4. Size(members[Owner])' = Size(t)  BY <1>1 DEF Size, ActiveIn
<1> QED  BY <1>1, <1>2, <1>3, <1>4 DEF OwnerCountExact

LEMMA CountStep == ASSUME RosterInv, OwnerCountExact, [Next]_vars PROVE OwnerCountExact'
<1> USE OwnerAssumption
<1>0. IInv /\ TypeOK /\ TablesInv  BY DEF RosterInv, IInv
<1>1. CASE CreateGroup
    <2> DEFINE row == [perm |-> OWNER, inviter |-> Owner]
    <2>1. PICK t : t = Upsert(members[Owner], Owner, row)  OBVIOUS
    <2>2. \A q \in Peers : t[q] = IF q = Owner THEN row ELSE members[Owner][q]
        BY <1>0, <2>1 DEF Upsert, TypeOK, Table
    <2>3. ActiveRow(row)
        <3>1. row \in MemberRow  BY DEF MemberRow, Perm
        <3> QED  BY <3>1, AbsentAssumption DEF ActiveRow, OWNER, NONE
    <2>4. ActiveIn(t) = {Owner}
        BY <1>1, <2>2, <2>3 DEF RosterInv, EmptyBefore, CreateGroup, ActiveIn, ActiveRow
    <2>5. Size(t) = 1  BY <2>4, FS_Singleton DEF Size
    <2>6. members'[Owner] = t  BY <1>0, <1>1, <2>1 DEF CreateGroup, Upsert, TypeOK
    <2>7. group'[Owner].count = 1  BY <1>0, <1>1 DEF CreateGroup, TypeOK
    <2>8. Size(members[Owner])' = Size(t)  BY <2>6 DEF Size, ActiveIn
    <2> QED  BY <2>5, <2>7, <2>8 DEF OwnerCountExact
<1>2. ASSUME NEW p \in Peers, NEW t \in Peers, Invite(p, t) PROVE OwnerCountExact'
    BY <1>2, Elsewhere DEF Invite
<1>3. ASSUME NEW p \in Peers, NEW t \in Peers, KickOut(p, t) PROVE OwnerCountExact'
    <2>1. p = Owner  BY <1>0, <1>3, OwnerActs
    <2> QED  BY <1>0, <1>3, <2>1, Recounted DEF KickOut
<1>4. ASSUME NEW p \in Peers, AcceptInvitation(p) PROVE OwnerCountExact'
    <2>1. p # Owner  BY <1>0, <1>4, OwnerActs
    <2> QED  BY <1>0, <1>4, <2>1, Elsewhere DEF AcceptInvitation, TypeOK
<1>5. ASSUME NEW p \in Peers, Quit(p) PROVE OwnerCountExact'
    <2>1. CASE p = Owner
        <3>1. group[Owner] \in GroupRow \cup {NoGroup}  BY <1>0 DEF TypeOK
        <3>2. group'[Owner] = SetJoined(group[Owner], FALSE)
            BY <1>0, <1>5, <2>1 DEF Quit, TypeOK
        <3>3. group'[Owner] # NoGroup => group'[Owner].joined = FALSE
            BY <3>1, <3>2 DEF SetJoined, GroupRow
        <3> QED  BY <3>3 DEF OwnerCountExact
    <2>2. CASE p # Owner
        BY <1>0, <1>5, <2>2, ElsewhereAt DEF Quit
    <2> QED  BY <2>1, <2>2
<1>6. ASSUME NEW p \in Peers, RequestMemberSync(p) \/ SendGroupMessage(p)
      PROVE  OwnerCountExact'
    BY <1>6, Elsewhere DEF RequestMemberSync, SendGroupMessage
<1>7. ASSUME NEW p \in Peers, GetMembers(p) PROVE OwnerCountExact'
    <2>1. members' = [members EXCEPT ![p] = members[p]]  BY <1>0, <1>7 DEF GetMembers, TypeOK
    <2>2. CASE p = Owner  BY <1>0, <1>7, <2>1, <2>2, Recounted DEF GetMembers
    <2>3. CASE p # Owner  BY <1>0, <1>7, <2>1, <2>3, ElsewhereAt DEF GetMembers
    <2> QED  BY <2>2, <2>3
<1>8. ASSUME NEW s \in Peers, NEW p \in Peers, NEW i \in Deliverable(s, p),
             \/ OnInvitationReceived(s, p, i) \/ OnMemberResponse(s, p, i)
             \/ OnOptionResponse(s, p, i)
      PROVE  OwnerCountExact'
    <2>1. p # Owner
        BY <1>0, <1>8, AtOwner DEF OnInvitationReceived, OnMemberResponse, OnOptionResponse
    <2>2. members'[Owner] = members[Owner] /\ group'[Owner] = group[Owner]
        BY <1>0, <1>8, <2>1
           DEF OnInvitationReceived, OnMemberResponse, OnOptionResponse, TypeOK
    <2> QED  BY <2>2, Elsewhere
<1>9. ASSUME NEW s \in Peers, NEW p \in Peers, NEW i \in Deliverable(s, p),
             OnInviteeAccept(s, p, i)
      PROVE  OwnerCountExact'
    <2>1. p = Owner  BY <1>0, <1>9, TakenHonest DEF IInv, OnInviteeAccept, Honest
    <2>2. PICK t : t = Upsert(members[p], s, [perm |-> NORMAL, inviter |-> p])  OBVIOUS
    <2>3. members'[Owner] = t  BY <1>0, <1>9, <2>1, <2>2 DEF OnInviteeAccept, TypeOK
    <2>4. group'[Owner] = IF group[Owner] = NoGroup THEN NoGroup
                          ELSE [group[Owner] EXCEPT !.count = Size(t), !.version = @ + 1]
        BY <1>0, <1>9, <2>1, <2>2 DEF OnInviteeAccept, TypeOK
    <2>5. group'[Owner] # NoGroup => group'[Owner].count = Size(t)
        <3>1. group[Owner] \in GroupRow \cup {NoGroup}  BY <1>0 DEF TypeOK
        <3> QED  BY <2>4, <3>1 DEF GroupRow
    <2>6. Size(members[Owner])' = Size(t)  BY <2>3 DEF Size, ActiveIn
    <2> QED  BY <2>5, <2>6 DEF OwnerCountExact
<1>10. ASSUME NEW s \in Peers, NEW p \in Peers, NEW i \in Deliverable(s, p),
              OnMemberQuit(s, p, i)
       PROVE  OwnerCountExact'
    <2>1. CASE p = Owner  BY <1>0, <1>10, <2>1, Recounted DEF OnMemberQuit
    <2>2. CASE p # Owner  BY <1>0, <1>10, <2>2, ElsewhereAt DEF OnMemberQuit
    <2> QED  BY <2>1, <2>2
<1>11. ASSUME NEW s \in Peers, NEW p \in Peers, NEW i \in Deliverable(s, p),
              OnMemberRequest(s, p, i) \/ HandleIncomingGroupMessage(s, p, i)
       PROVE  OwnerCountExact'
    BY <1>11, Elsewhere DEF OnMemberRequest, HandleIncomingGroupMessage
<1>12. CASE Network  BY <1>12, Elsewhere DEF Network, Redeliver
<1>13. CASE UNCHANGED vars  BY <1>13, Elsewhere DEF vars
<1> QED  BY <1>1, <1>2, <1>3, <1>4, <1>5, <1>6, <1>7, <1>8, <1>9, <1>10, <1>11, <1>12, <1>13
         DEF Next, UserStep, Receive

\* As long as the owner has not left, the member count of its group row is the number
\* of its active rows: no accept, quit or removal forgets to recount, and no list or
\* option message of somebody else reaches it.
THEOREM CountCorrect == Spec => []OwnerCountExact
<1>1. Init => RosterInv /\ OwnerCountExact
    BY InitRosterInv, OwnerAssumption DEF Init, OwnerCountExact
<1>2. RosterInv /\ OwnerCountExact /\ [Next]_vars => RosterInv' /\ OwnerCountExact'
    BY RosterInvStep, CountStep
<1> QED  BY <1>1, <1>2, PTL DEF Spec

---------------------------------------------------------------------------
(* What a channel will have said in the end, for channels that keep their   *)
(* order.  S is a set of messages about one matter, G those of them that    *)
(* tell the truth about it: the last word about it is one of G.             *)

Silent(c, S) == \A i \in 1 .. Len(c) : c[i] \notin S
LastWord(c, S, G) ==
    \A i \in 1 .. Len(c) :
        c[i] \in S /\ (\A j \in 1 .. Len(c) : j > i => c[j] \notin S) => c[i] \in G

\* out ends the matter with the truth.
Tells(out, S, G) ==
    \E k \in 1 .. Len(out) :
        /\ out[k] \in S /\ out[k] \in G
        /\ \A j \in 1 .. Len(out) : j > k => out[j] \notin S

LEMMA HeadTaken ==
    ASSUME NEW T, NEW c \in Seq(T), 1 \in 1 .. Len(c), NEW d, d = RemoveAt(c, 1)
    PROVE  /\ d \in Seq(T) /\ Len(c) \in Nat /\ Len(d) = Len(c) - 1
           /\ \A k \in 1 .. Len(d) : k + 1 \in 1 .. Len(c) /\ d[k] = c[k + 1]
<1>1. Len(c) \in Nat /\ Len(c) >= 1  BY LenProperties
<1>2. d \in Seq(T)  BY RemoveAtType
<1>3. SubSeq(c, 1, 0) = <<>>  BY <1>1, SubSeqProperties
<1>4. d = <<>> \o SubSeq(c, 2, Len(c))  BY <1>3 DEF RemoveAt
<1>5. SubSeq(c, 2, Len(c)) \in Seq(T)
    <2>1. \A j \in 2 .. Len(c) : c[j] \in T  BY <1>1, ElementOfSeq
    <2> QED  BY <1>1, <2>1, SubSeqProperties
<1>6. d = SubSeq(c, 2, Len(c))  BY <1>4, <1>5, ConcatEmptySeq
<1>7. Len(d) = Len(c) - 1  BY <1>1, <1>6, SubSeqProperties
<1>8. \A k \in 1 .. Len(d) : d[k] = c[k + 1]  BY <1>1, <1>6, <1>7, SubSeqProperties
<1> QED  BY <1>1, <1>2, <1>7, <1>8

\* The first message is taken: if nothing about the matter is left, it was the last word
\* about it, or there was none.
LEMMA WordTaken ==
    ASSUME NEW T, NEW c \in Seq(T), 1 \in 1 .. Len(c), NEW d, d = RemoveAt(c, 1),
           NEW S, NEW G, LastWord(c, S, G)
    PROVE  /\ LastWord(d, S, G)
           /\ Silent(d, S) => (c[1] \in S => c[1] \in G) /\ (c[1] \notin S => Silent(c, S))
<1>1. /\ d \in Seq(T) /\ Len(c) \in Nat /\ Len(d) = Len(c) - 1
      /\ \A k \in 1 .. Len(d) : k + 1 \in 1 .. Len(c) /\ d[k] = c[k + 1]
    BY HeadTaken
<1>2. ASSUME NEW i \in 1 .. Len(d), d[i] \in S,
             \A j \in 1 .. Len(d) : j > i => d[j] \notin S
      PROVE  d[i] \in G
    <2>1. i + 1 \in 1 .. Len(c) /\ c[i + 1] = d[i]  BY <1>1
    <2>2. ASSUME NEW j \in 1 .. Len(c), j > i + 1 PROVE c[j] \notin S
        <3>1. j - 1 \in 1 .. Len(d) /\ j - 1 > i /\ (j - 1) + 1 = j  BY <1>1, <2>2
        <3>2. d[j - 1] \notin S  BY <1>2, <3>1
        <3> QED  BY <1>1, <3>1, <3>2
    <2> QED  BY <1>2, <2>1, <2>2 DEF LastWord
<1>3. ASSUME Silent(d, S)
      PROVE  \A j \in 1 .. Len(c) : j > 1 => c[j] \notin S
    <2> SUFFICES ASSUME NEW j \in 1 .. Len(c), j > 1 PROVE c[j] \notin S
        OBVIOUS
    <2>1. j - 1 \in 1 .. Len(d) /\ (j - 1) + 1 = j  BY <1>1
    <2>2. d[j - 1] \notin S  BY <1>3, <2>1 DEF Silent
    <2> QED  BY <1>1, <2>1, <2>2
<1>4. ASSUME Silent(d, S), c[1] \in S PROVE c[1] \in G
    BY <1>3, <1>4 DEF LastWord
<1>5. ASSUME Silent(d, S), c[1] \notin S PROVE Silent(c, S)
    BY <1>1, <1>3, <1>5 DEF Silent
<1> QED  BY <1>2, <1>4, <1>5 DEF LastWord

\* The places of a channel that something is appended to.
LEMMA Appended ==
    ASSUME NEW T, NEW c \in Seq(T), NEW out \in Seq(T), NEW d, d = c \o out
    PROVE  /\ d \in Seq(T) /\ Len(c) \in Nat /\ Len(out) \in Nat /\ Len(d) \in Nat
           /\ \A i \in 1 .. Len(c) : i \in 1 .. Len(d) /\ d[i] = c[i]
           /\ \A k \in 1 .. Len(out) :
                 /\ Len(c) + k \in 1 .. Len(d) /\ Len(c) + k > Len(c)
                 /\ d[Len(c) + k] = out[k]
           /\ \A i \in 1 .. Len(d) : i \in 1 .. Len(c) \/ \E k \in 1 .. Len(out) : i = Len(c) + k
<1>1. /\ d \in Seq(T) /\ Len(d) = Len(c) + Len(out)
      /\ \A i \in 1 .. Len(c) + Len(out) : d[i] = IF i <= Len(c) THEN c[i] ELSE out[i - Len(c)]
    BY ConcatProperties
<1>2. PICK m \in Nat, n \in Nat : m = Len(c) /\ n = Len(out)  BY LenProperties
<1>3. /\ Len(d) = m + n
      /\ \A i \in 1 .. m + n : d[i] = IF i <= m THEN c[i] ELSE out[i - m]
    BY <1>1, <1>2
<1>4. \A i \in 1 .. m : i \in 1 .. m + n /\ d[i] = c[i]  BY <1>3
<1>5. ASSUME NEW k \in 1 .. n
      PROVE  m + k \in 1 .. m + n /\ m + k > m /\ d[m + k] = out[k]
    <2>1. m + k \in 1 .. m + n /\ ~(m + k <= m) /\ (m + k) - m = k  OBVIOUS
    <2> QED  BY <1>3, <2>1
<1>6. ASSUME NEW i \in 1 .. m + n
      PROVE  i \in 1 .. m \/ \E k \in 1 .. n : i = m + k
    <2>1. CASE i <= m  BY <2>1
    <2>2. CASE ~(i <= m)
        <3>1. i - m \in 1 .. n /\ i = m + (i - m)  BY <2>2
        <3> QED  BY <3>1
    <2> QED  BY <2>1, <2>2
<1> QED  BY <1>1, <1>2, <1>3, <1>4, <1>5, <1>6

\* Messages about something else are sent.
LEMMA WordStays ==
    ASSUME NEW T, NEW c \in Seq(T), NEW out \in Seq(T), NEW S, NEW G, Silent(out, S)
    PROVE  /\ LastWord(c, S, G) => LastWord(c \o out, S, G)
           /\ Silent(c \o out, S) => Silent(c, S)
<1>0. PICK d : d = c \o out  OBVIOUS
<1>1. \A i \in 1 .. Len(c) : i \in 1 .. Len(d) /\ d[i] = c[i]  BY <1>0, Appended
<1>2. \A k \in 1 .. Len(out) : d[Len(c) + k] = out[k]  BY <1>0, Appended
<1>3. ASSUME NEW i \in 1 .. Len(d), d[i] \in S PROVE i \in 1 .. Len(c)
    <2>1. i \in 1 .. Len(c) \/ \E k \in 1 .. Len(out) : i = Len(c) + k  BY <1>0, Appended
    <2> SUFFICES ASSUME NEW k \in 1 .. Len(out), i = Len(c) + k PROVE FALSE  BY <2>1
    <2>2. d[i] = out[k]  BY <1>2
    <2> QED  BY <1>3, <2>2 DEF Silent
<1>4. LastWord(c, S, G) => LastWord(d, S, G)  BY <1>1, <1>3 DEF LastWord
<1>5. Silent(d, S) => Silent(c, S)  BY <1>1 DEF Silent
<1> QED  BY <1>0, <1>4, <1>5

\* The truth is sent.
LEMMA WordTold ==
    ASSUME NEW T, NEW c \in Seq(T), NEW out \in Seq(T), NEW S, NEW G, Tells(out, S, G)
    PROVE  LastWord(c \o out, S, G) /\ ~Silent(c \o out, S)
<1>0. PICK d : d = c \o out  OBVIOUS
<1>1. PICK m \in Nat, n \in Nat, l \in Nat : m = Len(c) /\ n = Len(out) /\ l = Len(d)
    BY <1>0, Appended
<1>2. PICK k \in 1 .. n : /\ out[k] \in S /\ out[k] \in G
                         /\ \A j \in 1 .. n : j > k => out[j] \notin S
    BY <1>1 DEF Tells
<1>3. /\ \A j \in 1 .. n : m + j \in 1 .. l /\ d[m + j] = out[j]
      /\ \A i \in 1 .. l : i \in 1 .. m \/ \E j \in 1 .. n : i = m + j
    <2>1. \A j \in 1 .. Len(out) : Len(c) + j \in 1 .. Len(d) /\ d[Len(c) + j] = out[j]
        BY <1>0, Appended
    <2>2. \A i \in 1 .. Len(d) : i \in 1 .. Len(c) \/ \E j \in 1 .. Len(out) : i = Len(c) + j
        BY <1>0, Appended
    <2> QED  BY <1>1, <2>1, <2>2
<1>4. ASSUME NEW i \in 1 .. l, d[i] \in S, \A j \in 1 .. l : j > i => d[j] \notin S
      PROVE  d[i] \in G
    <2>1. m + k \in 1 .. l /\ d[m + k] \in S  BY <1>2, <1>3
    <2>2. ~(m + k > i)  BY <1>4, <2>1
    <2>3. PICK j \in 1 .. n : i = m + j  BY <1>3, <2>2
    <2>4. d[i] = out[j] /\ ~(j > k)  BY <1>2, <1>3, <1>4, <2>3
    <2>5. j = k  BY <2>2, <2>3, <2>4
    <2> QED  BY <1>2, <2>4, <2>5
<1>5. LastWord(d, S, G)  BY <1>1, <1>4 DEF LastWord
<1>6. ~Silent(d, S)  BY <1>1, <1>2, <1>3 DEF Silent
<1> QED  BY <1>0, <1>5, <1>6

\* What will have been said of the matter in the end is one of G, or nothing, and then r,
\* which is what the receiver holds now, is already one of A.
Settles(c, S, G, r, A) == LastWord(c, S, G) /\ (Silent(c, S) => r \in A)

LEMMA SettlesTaken ==
    ASSUME NEW T, NEW c \in Seq(T), 1 \in 1 .. Len(c), NEW d, d = RemoveAt(c, 1),
           NEW S, NEW G, NEW r, NEW new, NEW A, Settles(c, S, G, r, A),
           c[1] \in S /\ c[1] \in G => new \in A,
           c[1] \notin S /\ r \in A => new \in A
    PROVE  Settles(d, S, G, new, A)
<1>1. LastWord(c, S, G) /\ (Silent(c, S) => r \in A)  BY DEF Settles
<1>2. /\ LastWord(d, S, G)
      /\ Silent(d, S) => (c[1] \in S => c[1] \in G) /\ (c[1] \notin S => Silent(c, S))
    BY <1>1, WordTaken
<1> QED  BY <1>1, <1>2 DEF Settles

LEMMA SettlesSilent ==
    ASSUME NEW T, NEW c \in Seq(T), NEW out \in Seq(T), NEW S, NEW G, NEW r, NEW A,
           Silent(out, S), Settles(c, S, G, r, A)
    PROVE  Settles(c \o out, S, G, r, A)
<1>1. LastWord(c, S, G) /\ (Silent(c, S) => r \in A)  BY DEF Settles
<1>2. LastWord(c \o out, S, G) /\ (Silent(c \o out, S) => Silent(c, S))  BY <1>1, WordStays
<1> QED  BY <1>1, <1>2 DEF Settles

LEMMA SettlesTold ==
    ASSUME NEW T, NEW c \in Seq(T), NEW out \in Seq(T), NEW S, NEW G, NEW r, NEW A,
           Tells(out, S, G)
    PROVE  Settles(c \o out, S, G, r, A)
BY WordTold DEF Settles

\* The truth about the matter may come to allow more.
LEMMA SettlesEased ==
    ASSUME NEW c, NEW S, NEW G, NEW H, NEW r, NEW A, NEW B, Settles(c, S, G, r, A),
           \A m \in S : m \in G => m \in H, r \in A => r \in B
    PROVE  Settles(c, S, H, r, B)
BY DEF Settles, LastWord

\* A single message.
LEMMA Alone ==
    ASSUME NEW m, NEW S, NEW G
    PROVE  /\ m \notin S => Silent(<<m>>, S)
           /\ m \in S /\ m \in G => Tells(<<m>>, S, G)
<1>1. Len(<<m>>) = 1 /\ <<m>>[1] = m  OBVIOUS
<1>2. m \in S /\ m \in G => Tells(<<m>>, S, G)
    <2>1. \A j \in 1 .. Len(<<m>>) : ~(j > 1)  BY <1>1
    <2> QED  BY <1>1, <2>1 DEF Tells
<1> QED  BY <1>1, <1>2 DEF Silent

LEMMA Hush == ASSUME NEW S PROVE Silent(<<>>, S)
BY DEF Silent

---------------------------------------------------------------------------
(* Requests: whoever accepts asks for the members right after.              *)

IsOf(m, type) == m.type = type
Asks(c) == \E i \in 1 .. Len(c) : IsOf(c[i], "memberRequest")
AcceptAsks(c) ==
    \A i \in 1 .. Len(c) : IsOf(c[i], "accept") =>
        i + 1 \in 1 .. Len(c) /\ IsOf(c[i + 1], "memberRequest")

LEMMA RequestTaken ==
    ASSUME NEW T, NEW c \in Seq(T), 1 \in 1 .. Len(c), NEW d, d = RemoveAt(c, 1), AcceptAsks(c)
    PROVE  /\ AcceptAsks(d)
           /\ IsOf(c[1], "accept") => Asks(d)
           /\ ~Asks(d) /\ Asks(c) => IsOf(c[1], "memberRequest")
<1>1. /\ Len(c) \in Nat /\ Len(d) = Len(c) - 1
      /\ \A k \in 1 .. Len(d) : k + 1 \in 1 .. Len(c) /\ d[k] = c[k + 1]
    BY HeadTaken
<1>2. \A j \in 1 .. Len(c) : j > 1 => j - 1 \in 1 .. Len(d) /\ d[j - 1] = c[j]
    BY <1>1
<1>3. AcceptAsks(d)
    <2> SUFFICES ASSUME NEW i \in 1 .. Len(d), IsOf(d[i], "accept")
                 PROVE  i + 1 \in 1 .. Len(d) /\ IsOf(d[i + 1], "memberRequest")
        BY DEF AcceptAsks
    <2>1. i + 1 \in 1 .. Len(c) /\ IsOf(c[i + 1], "accept")  BY <1>1
    <2>2. (i + 1) + 1 \in 1 .. Len(c) /\ IsOf(c[(i + 1) + 1], "memberRequest")
        BY <2>1 DEF AcceptAsks
    <2>3. i + 1 \in 1 .. Len(d) /\ d[i + 1] = c[(i + 1) + 1]  BY <1>1, <2>2
    <2> QED  BY <2>2, <2>3
<1>4. ASSUME IsOf(c[1], "accept") PROVE Asks(d)
    <2>1. 1 + 1 \in 1 .. Len(c) /\ IsOf(c[1 + 1], "memberRequest")  BY <1>4 DEF AcceptAsks
    <2>2. 1 \in 1 .. Len(d) /\ d[1] = c[1 + 1]  BY <1>1, <2>1
    <2> QED  BY <2>1, <2>2 DEF Asks
<1>5. ASSUME Asks(c), ~IsOf(c[1], "memberRequest") PROVE Asks(d)
    <2>1. PICK j \in 1 .. Len(c) : IsOf(c[j], "memberRequest")  BY <1>5 DEF Asks
    <2>2. j > 1  BY <1>5, <2>1
    <2>3. j - 1 \in 1 .. Len(d) /\ d[j - 1] = c[j]  BY <1>2, <2>2
    <2> QED  BY <2>1, <2>3 DEF Asks
<1> QED  BY <1>3, <1>4, <1>5

LEMMA RequestSent ==
    ASSUME NEW T, NEW c \in Seq(T), NEW out \in Seq(T), AcceptAsks(c), AcceptAsks(out)
    PROVE  /\ AcceptAsks(c \o out)
           /\ Asks(c \o out) <=> Asks(c) \/ Asks(out)
<1>1. PICK d : d = c \o out  OBVIOUS
<1>2. \A i \in 1 .. Len(c) : i \in 1 .. Len(d) /\ d[i] = c[i]  BY <1>1, Appended
<1>3. \A k \in 1 .. Len(out) : Len(c) + k \in 1 .. Len(d) /\ d[Len(c) + k] = out[k]
    BY <1>1, Appended
<1>4. \A i \in 1 .. Len(d) : i \in 1 .. Len(c) \/ \E k \in 1 .. Len(out) : i = Len(c) + k
    BY <1>1, Appended
<1>5. AcceptAsks(d)
    <2> SUFFICES ASSUME NEW i \in 1 .. Len(d), IsOf(d[i], "accept")
                 PROVE  i + 1 \in 1 .. Len(d) /\ IsOf(d[i + 1], "memberRequest")
        BY DEF AcceptAsks
    <2>1. CASE i \in 1 .. Len(c)
        <3>1. i + 1 \in 1 .. Len(c) /\ IsOf(c[i + 1], "memberRequest")
            BY <1>2, <2>1 DEF AcceptAsks
        <3> QED  BY <1>2, <3>1
    <2>2. CASE i \notin 1 .. Len(c)
        <3>1. PICK k \in 1 .. Len(out) : i = Len(c) + k  BY <1>4, <2>2
        <3>2. IsOf(out[k], "accept")  BY <1>3, <3>1
        <3>3. k + 1 \in 1 .. Len(out) /\ IsOf(out[k + 1], "memberRequest")
            BY <3>2 DEF AcceptAsks
        <3>4. Len(c) + (k + 1) = i + 1  BY <3>1, LenProperties
        <3> QED  BY <1>3, <3>3, <3>4
    <2> QED  BY <2>1, <2>2
<1>6. Asks(d) => Asks(c) \/ Asks(out)  BY <1>2, <1>3, <1>4 DEF Asks
<1>7. Asks(c) => Asks(d)  BY <1>2 DEF Asks
<1>8. Asks(out) => Asks(d)  BY <1>3 DEF Asks
<1> QED  BY <1>1, <1>5, <1>6, <1>7, <1>8

---------------------------------------------------------------------------
(* What a peer has heard of the owner's table                               *)

\* The rows that agree with the owner's row w: they list who is a member and nobody
\* removed.
Fits(w) ==
    {r \in MemberRow \cup {NoRow} :
        /\ ActiveRow(w) => ActiveRow(r)
        /\ w # NoRow /\ w.perm = BLACK => ~ActiveRow(r)}

\* The messages to p that change its row of q, those that tell the owner's row w of q, and
\* those that tell the group's version.
About(p, q) ==
    {m \in Message : \/ m.type = "memberResponse" /\ m.rows[q] # NoRow
                     \/ m.type = "invitation" /\ q = p}
Telling(w, q) == {m \in Message : m.type = "memberResponse" /\ m.rows[q] \in Fits(w)}
Options == {m \in Message : m.type = "optionResponse"}
OfVersion(v) == {m \in Message : m.type = "optionResponse" /\ m.version = v}

\* What p has of q, or will have once its channel is empty, agrees with the owner's row.
HeardOf(p, q) ==
    Settles(net[Owner][p], About(p, q), Telling(members[Owner][q], q),
            members[p][q], Fits(members[Owner][q]))
Asking(p) == Asks(net[p][Owner])
\* A member that is not waiting for a list has heard of everybody.
Informed(p) == InGroup(p) /\ ~Asking(p) => \A q \in Peers : HeardOf(p, q)
\* A member has the group's version, or it is on its way.
Current(p) ==
    ActiveRow(members[Owner][p]) =>
        Settles(net[Owner][p], Options, OfVersion(group[Owner].version),
                group[p].version, {group[Owner].version})

PeerInv(p) == AcceptAsks(net[p][Owner]) /\ Informed(p) /\ Current(p)
Reached == \A p \in Peers : p # Owner => PeerInv(p)
\* Who has accepted has the group.
Joiners == \A p \in accepted : group[p] # NoGroup
OrderInv == RosterInv /\ Joiners /\ Reached

LEMMA OwnRowFits == ASSUME NEW r \in MemberRow \cup {NoRow} PROVE r \in Fits(r)
BY DEF Fits, ActiveRow, BLACK, NONE

\* Between a member and the owner nothing is on its way: then they agree.
LEMMA AtRest ==
    ASSUME OrderInv, NEW p \in Peers, InGroup(p), Settled(p)
    PROVE  /\ \A q \in Peers : members[p][q] \in Fits(members[Owner][q])
           /\ group[p].version = group[Owner].version
<1>1. CASE p = Owner
    <2>1. \A q \in Peers : members[Owner][q] \in MemberRow \cup {NoRow}
        BY OwnerAssumption DEF OrderInv, RosterInv, IInv, TypeOK, Table
    <2> QED  BY <1>1, <2>1, OwnRowFits
<1>2. CASE p # Owner
    <2>1. ~Asking(p)  BY DEF Asking, Asks, Settled
    <2>2. \A S : Silent(net[Owner][p], S)  BY DEF Silent, Settled
    <2>3. Informed(p) /\ Current(p)  BY <1>2 DEF OrderInv, Reached, PeerInv
    <2>4. \A q \in Peers : HeardOf(p, q)  BY <2>1, <2>3 DEF Informed
    <2>5. group[p].version \in {group[Owner].version}
        BY <2>2, <2>3 DEF Current, InGroup, Settles
    <2> QED  BY <2>2, <2>4, <2>5 DEF HeardOf, Settles
<1> QED  BY <1>1, <1>2

LEMMA InitOrder == Init => OrderInv
<1> SUFFICES ASSUME Init PROVE OrderInv  OBVIOUS
<1>1. RosterInv  BY InitRosterInv
<1>2. Joiners  BY DEF Init, Joiners
<1>3. ASSUME NEW p \in Peers, p # Owner PROVE PeerInv(p)
    <2>1. ~ActiveRow(members[Owner][p])  BY OwnerAssumption DEF Init, ActiveRow
    <2>2. net[p][Owner] = <<>>  BY OwnerAssumption DEF Init, Nothing
    <2>3. AcceptAsks(net[p][Owner])  BY <2>2 DEF AcceptAsks
    <2> QED  BY <2>1, <2>3 DEF PeerInv, Informed, Current, InGroup
<1> QED  BY <1>1, <1>2, <1>3 DEF OrderInv, Reached

---------------------------------------------------------------------------
(* Channels after a step *)

LEMMA SentOn ==
    ASSUME TypeOK, NEW p \in Peers, NEW out, Send(p, out)
    PROVE  \A x, y \in Peers :
              net'[x][y] = IF x = p THEN net[p][y] \o out[y] ELSE net[x][y]
BY DEF Send, Put, TypeOK

\* The channels after p has taken the i-th message of s and sent out.
AfterAnswer(s, p, i, out) ==
    \A x, y \in Peers :
        /\ x # p => net'[x][y] = IF x = s /\ y = p THEN RemoveAt(net[s][p], i) ELSE net[x][y]
        /\ x = p /\ y # p => net'[p][y] = net[p][y] \o out[y]

LEMMA AnsweredOn ==
    ASSUME TypeOK, NEW s \in Peers, NEW p \in Peers, NEW i, NEW out, Answer(s, p, i, out)
    PROVE  AfterAnswer(s, p, i, out)
<1> DEFINE n == [net EXCEPT ![s][p] = RemoveAt(@, i)]
<1>1. \A x, y \in Peers :
         n[x][y] = IF x = s /\ y = p THEN RemoveAt(net[s][p], i) ELSE net[x][y]
    BY DEF TypeOK
<1>2. \A x, y \in Peers : net'[x][y] = IF x = p THEN n[p][y] \o out[y] ELSE n[x][y]
    <2>1. n \in [Peers -> [Peers -> Seq(Message) \cup {RemoveAt(net[s][p], i)}]]
        <3>1. \A x, y \in Peers : net[x][y] \in Seq(Message)  BY DEF TypeOK
        <3> QED  BY <3>1 DEF TypeOK
    <2>2. net' = Put(n, p, out)  BY DEF Answer
    <2> HIDE DEF n
    <2> QED  BY <2>1, <2>2 DEF Put
<1> HIDE DEF n
<1>3. ASSUME NEW x \in Peers, NEW y \in Peers, x # p
      PROVE  net'[x][y] = IF x = s /\ y = p THEN RemoveAt(net[s][p], i) ELSE net[x][y]
    BY <1>1, <1>2, <1>3
<1>4. ASSUME NEW y \in Peers, y # p PROVE net'[p][y] = net[p][y] \o out[y]
    <2>1. n[p][y] = net[p][y]  BY <1>1, <1>4
    <2> QED  BY <1>2, <2>1
<1> QED  BY <1>3, <1>4 DEF AfterAnswer

\* With channels that keep their order, p takes the first message of s.
LEMMA FirstTaken ==
    ASSUME TypeOK, InOrder, NEW s \in Peers, NEW p \in Peers, NEW i \in Deliverable(s, p)
    PROVE  i = 1 /\ 1 \in 1 .. Len(net[s][p]) /\ net[s][p] \in Seq(Message)
BY DEF Deliverable, TypeOK

\* Nothing is added to a channel of p's by silence, or by a message for others.
LEMMA NothingOn ==
    ASSUME TypeOK, NEW x \in Peers, NEW y \in Peers
    PROVE  /\ net[x][y] \o Nothing[y] = net[x][y]
           /\ \A dests, msgs : y \notin dests => net[x][y] \o To(dests, msgs)[y] = net[x][y]
           /\ \A dests, msgs : y \in dests => To(dests, msgs)[y] = msgs
<1>1. net[x][y] \in Seq(Message)  BY DEF TypeOK
<1>2. net[x][y] \o <<>> = net[x][y]  BY <1>1, ConcatEmptySeq
<1> QED  BY <1>2 DEF Nothing, To

\* What becomes of a group row.
LEMMA RowAfter ==
    ASSUME NEW g \in GroupRow \cup {NoGroup}
    PROVE  /\ \A n \in Nat : /\ SetCount(g, n) = NoGroup <=> g = NoGroup
                            /\ SetCount(g, n).version = g.version
                            /\ SetCount(g, n).joined = g.joined
           /\ SetJoined(g, TRUE).version = g.version
           /\ SetJoined(g, FALSE).version = g.version
           /\ g # NoGroup => SetJoined(g, FALSE).joined = FALSE
<1>1. CASE g = NoGroup  BY <1>1 DEF SetCount, SetJoined
<1>2. CASE g # NoGroup
    <2>1. g \in GroupRow  BY <1>2
    <2>2. ASSUME NEW n \in Nat
          PROVE  /\ SetCount(g, n) # NoGroup
                 /\ SetCount(g, n).version = g.version /\ SetCount(g, n).joined = g.joined
        <3>1. PICK h : h = [g EXCEPT !.count = n]  OBVIOUS
        <3>2. h \in GroupRow /\ h.version = g.version /\ h.joined = g.joined
            BY <2>1, <3>1 DEF GroupRow
        <3>3. SetCount(g, n) = h  BY <1>2, <3>1 DEF SetCount
        <3> QED  BY <3>2, <3>3, AbsentAssumption
    <2>3. SetJoined(g, TRUE) = [g EXCEPT !.joined = TRUE]  BY <1>2 DEF SetJoined
    <2>4. SetJoined(g, FALSE) = [g EXCEPT !.joined = FALSE]  BY <1>2 DEF SetJoined
    <2>5. /\ [g EXCEPT !.joined = TRUE].version = g.version
          /\ [g EXCEPT !.joined = FALSE].version = g.version
          /\ [g EXCEPT !.joined = FALSE].joined = FALSE
        BY <2>1 DEF GroupRow
    <2> QED  BY <1>2, <2>2, <2>3, <2>4, <2>5
<1> QED  BY <1>1, <1>2

---------------------------------------------------------------------------
(* Steps that do not concern y *)

Untouched(y) ==
    /\ net'[Owner][y] = net[Owner][y] /\ net'[y][Owner] = net[y][Owner]
    /\ members'[Owner] = members[Owner] /\ members'[y] = members[y]
    /\ group'[y] = group[y] /\ group'[Owner].version = group[Owner].version

LEMMA Framed ==
    ASSUME NEW y \in Peers, PeerInv(y), Untouched(y)
    PROVE  PeerInv(y)'
BY DEF PeerInv, Informed, Current, InGroup, Asking, HeardOf, Untouched

\* Only p's own state and what p sends and receives changes.
Within(p) ==
    /\ \A x \in Peers : x # p => members'[x] = members[x] /\ group'[x] = group[x]
    /\ \A x, y \in Peers : x # p /\ y # p => net'[x][y] = net[x][y]

LEMMA OthersFramed ==
    ASSUME Reached, NEW p \in Peers, p # Owner, Within(p), PeerInv(p)'
    PROVE  Reached'
<1> SUFFICES ASSUME NEW y \in Peers, y # Owner PROVE PeerInv(y)'
    BY DEF Reached
<1>1. CASE y = p  BY <1>1
<1>2. CASE y # p
    <2>1. Untouched(y)  BY <1>2, OwnerAssumption DEF Within, Untouched
    <2> QED  BY <2>1, Framed DEF Reached
<1> QED  BY <1>1, <1>2

---------------------------------------------------------------------------
(* What a member does *)

LEMMA MembersJoined ==
    ASSUME OrderInv, NEW p \in Peers, p # Owner, ActiveRow(members[Owner][p])
    PROVE  group[p] # NoGroup
<1>1. TypeOK /\ TablesInv /\ HistoryInv /\ Joiners  BY DEF OrderInv, RosterInv, IInv
<1>2. p \in admitted  BY <1>1, KeptRows, OwnerAssumption
<1> QED  BY <1>1, <1>2 DEF HistoryInv, Joiners

LEMMA OneMessage ==
    ASSUME NEW m \in Message, m.type # "accept"
    PROVE  /\ <<m>> \in Seq(Message) /\ AcceptAsks(<<m>>)
           /\ Asks(<<m>>) <=> m.type = "memberRequest"
<1>1. Len(<<m>>) = 1 /\ <<m>>[1] = m /\ <<m>> \in Seq(Message)  OBVIOUS
<1> QED  BY <1>1 DEF AcceptAsks, Asks, IsOf

LEMMA AcceptAndAsk ==
    LET out == <<Note("accept"), Note("memberRequest")>> IN
    out \in Seq(Message) /\ AcceptAsks(out) /\ Asks(out)
<1> DEFINE out == <<Note("accept"), Note("memberRequest")>>
<1>1. Note("accept") \in Message /\ Note("memberRequest") \in Message  BY DEF Note, Message
<1>2. out \in Seq(Message) /\ Len(out) = 2  BY <1>1
<1>3. IsOf(out[2], "memberRequest") /\ ~IsOf(out[2], "accept")  BY DEF IsOf, Note
<1> HIDE DEF out
<1>4. \A i \in 1 .. 2 : IsOf(out[i], "accept") => i = 1
    <2>1. \A i \in 1 .. 2 : i = 1 \/ i = 2  OBVIOUS
    <2> QED  BY <1>3, <2>1
<1>5. AcceptAsks(out)
    <2>1. 1 + 1 = 2 /\ 2 \in 1 .. 2  OBVIOUS
    <2> QED  BY <1>2, <1>3, <1>4, <2>1 DEF AcceptAsks
<1>6. Asks(out)  BY <1>2, <1>3 DEF Asks
<1> QED  BY <1>2, <1>5, <1>6 DEF out

\* A member sends: it may be waiting for a list afterwards, or know as much as before.
LEMMA PeerSends ==
    ASSUME OrderInv, NEW p \in Peers, p # Owner, NEW out, Send(p, out),
           out[Owner] \in Seq(Message), AcceptAsks(out[Owner]),
           \A x \in Peers : x # p => members'[x] = members[x] /\ group'[x] = group[x],
           group'[p].version = group[p].version,
           InGroup(p)' /\ ~Asks(out[Owner]) => InGroup(p) /\ members'[p] = members[p]
    PROVE  Reached'
<1> USE OwnerAssumption
<1>0. TypeOK /\ Reached /\ PeerInv(p)  BY DEF OrderInv, RosterInv, IInv, Reached
<1>1. \A x, y \in Peers : net'[x][y] = IF x = p THEN net[p][y] \o out[y] ELSE net[x][y]
    BY <1>0, SentOn
<1>2. Within(p)  BY <1>1 DEF Within
<1>3. net'[Owner][p] = net[Owner][p] /\ net'[p][Owner] = net[p][Owner] \o out[Owner]
    BY <1>1
<1>4. net[p][Owner] \in Seq(Message) /\ AcceptAsks(net[p][Owner])
    BY <1>0 DEF TypeOK, PeerInv
<1>5. /\ AcceptAsks(net'[p][Owner])
      /\ Asks(net'[p][Owner]) <=> Asks(net[p][Owner]) \/ Asks(out[Owner])
    BY <1>3, <1>4, RequestSent
<1>6. members'[Owner] = members[Owner] /\ group'[Owner] = group[Owner]
    OBVIOUS
<1>7. Informed(p)'
    <2> SUFFICES ASSUME InGroup(p)', ~Asks(net'[p][Owner]), NEW q \in Peers
                 PROVE  HeardOf(p, q)'
        BY DEF Informed, Asking
    <2>1. InGroup(p) /\ members'[p] = members[p] /\ ~Asking(p)  BY <1>5 DEF Asking
    <2>2. HeardOf(p, q)  BY <1>0, <2>1 DEF PeerInv, Informed
    <2> QED  BY <1>3, <1>6, <2>1, <2>2 DEF HeardOf
<1>8. Current(p)'  BY <1>0, <1>3, <1>6 DEF PeerInv, Current
<1> QED  BY <1>0, <1>2, <1>5, <1>7, <1>8, OthersFramed DEF PeerInv

\* What p does with m changes its rows, and its version, as m says.
TakesRows(p, m) ==
    \A q \in Peers : \A w :
        /\ m \in About(p, q) /\ m \in Telling(w, q) => members'[p][q] \in Fits(w)
        /\ m \notin About(p, q) /\ members[p][q] \in Fits(w) => members'[p][q] \in Fits(w)
TakesVersion(p, m) ==
    /\ \A v : m \in OfVersion(v) => group'[p].version = v
    /\ m \notin Options => group'[p].version = group[p].version

\* A member takes a message: of another member's nothing comes of its table, and of the
\* owner's what the message says.
LEMMA PeerHears ==
    ASSUME OrderInv, NEW s \in Peers, NEW p \in Peers, p # Owner, Answer(s, p, 1, Nothing),
           1 \in 1 .. Len(net[s][p]),
           \A x \in Peers : x # p => members'[x] = members[x] /\ group'[x] = group[x],
           s # Owner => members'[p] = members[p] /\ group'[p] = group[p],
           InGroup(p)' => InGroup(p),
           InGroup(p)' => TakesRows(p, net[s][p][1]),
           ActiveRow(members[Owner][p]) => TakesVersion(p, net[s][p][1])
    PROVE  Reached'
<1> USE OwnerAssumption
<1>0. TypeOK /\ Reached /\ PeerInv(p)  BY DEF OrderInv, RosterInv, IInv, Reached
<1>1. AfterAnswer(s, p, 1, Nothing)  BY <1>0, AnsweredOn
<1>2. Within(p)  BY <1>1 DEF Within, AfterAnswer
<1>3. net'[p][Owner] = net[p][Owner]  BY <1>0, <1>1, NothingOn DEF AfterAnswer
<1>4. members'[Owner] = members[Owner] /\ group'[Owner] = group[Owner]  OBVIOUS
<1>5. CASE s # Owner
    <2>1. net'[Owner][p] = net[Owner][p]  BY <1>1, <1>5 DEF AfterAnswer
    <2>2. Untouched(p)  BY <1>3, <1>4, <1>5, <2>1 DEF Untouched
    <2> QED  BY <1>0, <1>2, <2>2, Framed, OthersFramed
<1>6. CASE s = Owner
    <2>1. PICK c, d : c = net[Owner][p] /\ d = net'[Owner][p]  OBVIOUS
    <2>2. d = RemoveAt(c, 1) /\ c \in Seq(Message) /\ 1 \in 1 .. Len(c)
        BY <1>0, <1>1, <1>6, <2>1 DEF TypeOK, AfterAnswer
    <2>3. ASSUME InGroup(p)', ~Asking(p)', NEW q \in Peers PROVE HeardOf(p, q)'
        <3>1. InGroup(p) /\ ~Asking(p)  BY <1>3, <2>3 DEF Asking
        <3>2. HeardOf(p, q)  BY <1>0, <3>1 DEF PeerInv, Informed
        <3>3. PICK w, S, G, r, new, A : /\ w = members[Owner][q] /\ S = About(p, q)
                                        /\ G = Telling(w, q) /\ A = Fits(w)
                                        /\ r = members[p][q] /\ new = members'[p][q]
            OBVIOUS
        <3>4. Settles(c, S, G, r, A)  BY <2>1, <3>2, <3>3 DEF HeardOf
        <3>5. c[1] \in S /\ c[1] \in G => new \in A
            BY <1>6, <2>1, <2>3, <3>3 DEF TakesRows
        <3>6. c[1] \notin S /\ r \in A => new \in A
            BY <1>6, <2>1, <2>3, <3>3 DEF TakesRows
        <3>7. Settles(d, S, G, new, A)  BY <2>2, <3>4, <3>5, <3>6, SettlesTaken
        <3> QED  BY <1>4, <2>1, <3>3, <3>7 DEF HeardOf
    <2>4. ASSUME ActiveRow(members[Owner][p])
          PROVE  Settles(d, Options, OfVersion(group[Owner].version), group'[p].version,
                         {group[Owner].version})
        <3>1. PICK v, S, G, r, new, A : /\ v = group[Owner].version /\ S = Options
                                        /\ G = OfVersion(v) /\ A = {v}
                                        /\ r = group[p].version /\ new = group'[p].version
            OBVIOUS
        <3>2. Settles(c, S, G, r, A)  BY <1>0, <2>1, <2>4, <3>1 DEF PeerInv, Current
        <3>3. c[1] \in S /\ c[1] \in G => new \in A
            BY <1>6, <2>1, <2>4, <3>1 DEF TakesVersion
        <3>4. c[1] \notin S /\ r \in A => new \in A
            BY <1>6, <2>1, <2>4, <3>1 DEF TakesVersion
        <3>5. Settles(d, S, G, new, A)  BY <2>2, <3>2, <3>3, <3>4, SettlesTaken
        <3> QED  BY <3>1, <3>5
    <2>5. Informed(p)'  BY <2>3 DEF Informed
    <2>6. Current(p)'  BY <1>4, <2>1, <2>4 DEF Current
    <2>7. PeerInv(p)'  BY <1>0, <1>3, <2>5, <2>6 DEF PeerInv
    <2> QED  BY <1>0, <1>2, <2>7, OthersFramed
<1> QED  BY <1>5, <1>6

LEMMA NoMessage == <<>> \in Seq(Message) /\ AcceptAsks(<<>>) /\ ~Asks(<<>>)
BY EmptySeq DEF AcceptAsks, Asks

LEMMA AcceptInvitationReaches ==
    ASSUME OrderInv, NEW p \in Peers, AcceptInvitation(p) PROVE Reached'
<1> USE OwnerAssumption
<1>0. IInv /\ TypeOK /\ TablesInv  BY DEF OrderInv, RosterInv, IInv
<1>1. p # Owner  BY <1>0, OwnerActs
<1>2. members[p][p].inviter = Owner  BY <1>0, KeptRows DEF AcceptInvitation, RowOK
<1>3. PICK msgs, out : /\ msgs = <<Note("accept"), Note("memberRequest")>>
                       /\ out = To({Owner}, msgs) /\ Send(p, out)
    BY <1>2 DEF AcceptInvitation
<1>4. out[Owner] = msgs  BY <1>3 DEF To
<1>5. msgs \in Seq(Message) /\ AcceptAsks(msgs) /\ Asks(msgs)  BY <1>3, AcceptAndAsk
<1>6. \A x \in Peers : x # p => members'[x] = members[x] /\ group'[x] = group[x]
    BY <1>0 DEF AcceptInvitation, TypeOK
<1>7. group'[p].version = group[p].version
    <2>1. group'[p] = SetJoined(group[p], TRUE)  BY <1>0 DEF AcceptInvitation, TypeOK
    <2>2. group[p] \in GroupRow \cup {NoGroup}  BY <1>0 DEF TypeOK
    <2> QED  BY <2>1, <2>2, RowAfter
<1> QED  BY <1>1, <1>3, <1>4, <1>5, <1>6, <1>7, PeerSends

LEMMA MemberQuitReaches ==
    ASSUME OrderInv, NEW p \in Peers, p # Owner, Quit(p) PROVE Reached'
<1> USE OwnerAssumption
<1>0. TypeOK /\ TablesInv  BY DEF OrderInv, RosterInv, IInv
<1>1. PICK out, owners : out = To(owners, <<Note("quit")>>) /\ Send(p, out)
    BY DEF Quit
<1>2. out[Owner] \in Seq(Message) /\ AcceptAsks(out[Owner])
    <2>1. out[Owner] \in {<<>>, <<Note("quit")>>}  BY <1>1 DEF To
    <2>2. Note("quit") \in Message /\ Note("quit").type # "accept"  BY DEF Note, Message
    <2> QED  BY <2>1, <2>2, OneMessage, NoMessage
<1>3. \A x \in Peers : x # p => members'[x] = members[x] /\ group'[x] = group[x]
    BY <1>0 DEF Quit, TypeOK
<1>4. group'[p].version = group[p].version /\ group'[p].joined = FALSE
    <2>1. group'[p] = SetJoined(group[p], FALSE)  BY <1>0 DEF Quit, TypeOK
    <2>2. group[p] \in GroupRow \cup {NoGroup} /\ group[p] # NoGroup  BY <1>0 DEF TypeOK, Quit
    <2> QED  BY <2>1, <2>2, RowAfter
<1>5. ~InGroup(p)'  BY <1>4 DEF InGroup
<1> QED  BY <1>1, <1>2, <1>3, <1>4, <1>5, PeerSends

LEMMA MemberSyncReaches ==
    ASSUME OrderInv, NEW p \in Peers, p # Owner, RequestMemberSync(p) PROVE Reached'
<1> USE OwnerAssumption
<1>0. TypeOK /\ TablesInv  BY DEF OrderInv, RosterInv, IInv
<1>1. RowOK(p, members[p][p]) /\ members[p][p] # NoRow
    BY <1>0, KeptRows DEF RequestMemberSync, ActiveRow
<1>2. members[p][p].perm # OWNER /\ members[p][p].inviter = Owner
    BY <1>1 DEF RowOK, OWNER, NORMAL
<1>3. PICK out : out = To({Owner}, <<Note("memberRequest")>>) /\ Send(p, out)
    BY <1>2 DEF RequestMemberSync
<1>4. out[Owner] = <<Note("memberRequest")>>  BY <1>3 DEF To
<1>5. out[Owner] \in Seq(Message) /\ AcceptAsks(out[Owner]) /\ Asks(out[Owner])
    <2>1. Note("memberRequest") \in Message /\ Note("memberRequest").type = "memberRequest"
        BY DEF Note, Message
    <2> QED  BY <1>4, <2>1, OneMessage
<1>6. members' = members /\ group' = group  BY DEF RequestMemberSync
<1> QED  BY <1>3, <1>5, <1>6, PeerSends

\* The message of a post, wherever it goes.
LEMMA Posted ==
    ASSUME IInv, NEW p \in Peers, SendGroupMessage(p)
    PROVE  \E dests, id : /\ [type |-> "post", id |-> id] \in Message
                          /\ Send(p, To(dests, <<[type |-> "post", id |-> id]>>))
<1>1. spent["posts"] + 1 \in Nat  BY SpendType DEF IInv, TypeOK, SendGroupMessage, Bounds
<1>2. \A id \in Nat : [type |-> "post", id |-> id] \in Message  BY DEF Message
<1> QED  BY <1>1, <1>2 DEF SendGroupMessage

LEMMA MemberPostReaches ==
    ASSUME OrderInv, NEW p \in Peers, p # Owner, SendGroupMessage(p) PROVE Reached'
<1>0. IInv  BY DEF OrderInv, RosterInv
<1>1. PICK out, dests, id : /\ [type |-> "post", id |-> id] \in Message
                            /\ out = To(dests, <<[type |-> "post", id |-> id]>>)
                            /\ Send(p, out)
    BY <1>0, Posted
<1>2. out[Owner] \in Seq(Message) /\ AcceptAsks(out[Owner])
    <2>1. out[Owner] \in {<<>>, <<[type |-> "post", id |-> id]>>}
        BY <1>1, OwnerAssumption DEF To
    <2>2. [type |-> "post", id |-> id].type # "accept"  OBVIOUS
    <2> QED  BY <1>1, <2>1, <2>2, OneMessage, NoMessage
<1>3. members' = members /\ group' = group  BY DEF SendGroupMessage
<1>4. InGroup(p)' => InGroup(p)  BY <1>3 DEF InGroup
<1> QED  BY <1>1, <1>2, <1>3, <1>4, PeerSends

LEMMA GetMembersReaches ==
    ASSUME OrderInv, NEW p \in Peers, GetMembers(p) PROVE Reached'
<1> USE OwnerAssumption
<1>0. TypeOK /\ Reached  BY DEF OrderInv, RosterInv, IInv
<1>1. members' = members /\ net' = net  BY DEF GetMembers
<1>2. \A x \in Peers : /\ group'[x].version = group[x].version
                       /\ group'[x].joined = group[x].joined
                       /\ group'[x] = NoGroup <=> group[x] = NoGroup
    <2> TAKE x \in Peers
    <2>1. group[x] \in GroupRow \cup {NoGroup}  BY <1>0 DEF TypeOK
    <2>2. group'[x] = group[x] \/ \E n \in Nat : group'[x] = SetCount(group[x], n)
        BY <1>0, SizeType DEF GetMembers, TypeOK
    <2> QED  BY <2>1, <2>2, RowAfter
<1>3. ASSUME NEW y \in Peers, PeerInv(y) PROVE PeerInv(y)'
    <2>1. InGroup(y)' <=> InGroup(y)  BY <1>1, <1>2 DEF InGroup
    <2>2. Informed(y)'  BY <1>1, <1>3, <2>1 DEF PeerInv, Informed, Asking, HeardOf
    <2>3. Current(y)'  BY <1>1, <1>2, <1>3 DEF PeerInv, Current
    <2> QED  BY <1>1, <1>3, <2>2, <2>3 DEF PeerInv
<1> QED  BY <1>0, <1>3 DEF Reached

\* What a row that arrives makes of the row that was there.
LEMMA MergeFits ==
    ASSUME NEW table \in Table, NEW rows \in Table, NEW q \in Peers, NEW w
    PROVE  /\ rows[q] # NoRow /\ rows[q] \in Fits(w) => Merge(table, rows)[q] \in Fits(w)
           /\ rows[q] = NoRow => Merge(table, rows)[q] = table[q]
<1>1. table[q] \in MemberRow \cup {NoRow} /\ rows[q] \in MemberRow \cup {NoRow}  BY DEF Table
<1>2. Merge(table, rows)[q] =
         IF rows[q] # NoRow /\ (table[q] = NoRow \/ rows[q].perm # table[q].perm)
         THEN rows[q] ELSE table[q]
    BY DEF Merge
<1>3. ASSUME rows[q] # NoRow, rows[q] \in Fits(w), table[q] # NoRow, rows[q].perm = table[q].perm
      PROVE  table[q] \in Fits(w)
    <2>1. ActiveRow(table[q]) <=> ActiveRow(rows[q])  BY <1>3 DEF ActiveRow
    <2> QED  BY <1>1, <1>3, <2>1 DEF Fits
<1> QED  BY <1>2, <1>3

\* p, who is not the owner, handles the first message of s.
Handles(s, p) ==
    /\ OrderInv /\ InOrder /\ p # Owner
    /\ 1 \in Deliverable(s, p)

LEMMA HandledFirst ==
    ASSUME NEW s \in Peers, NEW p \in Peers, Handles(s, p)
    PROVE  /\ OrderInv /\ IInv /\ TypeOK /\ InOrder /\ p # Owner
           /\ 1 \in 1 .. Len(net[s][p])
           /\ net[s][p][1] \in Message /\ net[s][p][1] \in Honest(s, p)
<1>1. TypeOK /\ NetInv  BY DEF Handles, OrderInv, RosterInv, IInv
<1> QED  BY <1>1, TakenHonest DEF Handles, OrderInv, RosterInv

LEMMA MemberInvited ==
    ASSUME NEW s \in Peers, NEW p \in Peers, Handles(s, p), OnInvitationReceived(s, p, 1)
    PROVE  Reached'
<1>0. /\ OrderInv /\ IInv /\ TypeOK /\ InOrder /\ p # Owner
      /\ 1 \in 1 .. Len(net[s][p])
      /\ net[s][p][1] \in Message /\ net[s][p][1] \in Honest(s, p)
    BY HandledFirst
<1>1. PICK m : m = net[s][p][1] /\ m.type = "invitation" /\ s = Owner
    BY <1>0 DEF OnInvitationReceived, Honest
<1>2. /\ \A x \in Peers : x # p => members'[x] = members[x] /\ group'[x] = group[x]
      /\ \A q \in Peers : q # p => members'[p][q] = members[p][q]
      /\ group'[p] = group[p] \/ (group[p] = NoGroup /\ group'[p].joined = FALSE)
    <2>1. CASE UNCHANGED <<members, group>>  BY <2>1
    <2>2. CASE /\ group' = [group EXCEPT ![p] =
                      IF @ # NoGroup THEN @
                      ELSE [joined |-> FALSE, count |-> 0, version |-> m.version]]
               /\ members' = [members EXCEPT ![p] = Upsert(@, p, InvitedRow(s))]
        <3>1. members[p] \in [Peers -> MemberRow \cup {NoRow}]  BY <1>0 DEF TypeOK, Table
        <3>2. members'[p] = Upsert(members[p], p, InvitedRow(s))  BY <1>0, <2>2 DEF TypeOK
        <3>3. \A q \in Peers : q # p => members'[p][q] = members[p][q]
            BY <3>1, <3>2 DEF Upsert
        <3>4. \A x \in Peers : x # p => members'[x] = members[x] /\ group'[x] = group[x]
            BY <1>0, <2>2 DEF TypeOK
        <3>5. group'[p] = IF group[p] # NoGroup THEN group[p]
                          ELSE [joined |-> FALSE, count |-> 0, version |-> m.version]
            BY <1>0, <2>2 DEF TypeOK
        <3> QED  BY <3>3, <3>4, <3>5
    <2> QED  BY <1>1, <2>1, <2>2 DEF OnInvitationReceived
<1>3. InGroup(p)' => InGroup(p)  BY <1>0, <1>2, OwnerAssumption DEF InGroup
<1>4. TakesRows(p, m)  BY <1>0, <1>1, <1>2 DEF TakesRows, About, Telling
<1>5. ActiveRow(members[Owner][p]) => TakesVersion(p, m)
    <2>1. ActiveRow(members[Owner][p]) => group'[p] = group[p]  BY <1>0, <1>2, MembersJoined
    <2> QED  BY <1>1, <2>1 DEF TakesVersion, OfVersion
<1>6. Answer(s, p, 1, Nothing)  BY DEF OnInvitationReceived
<1> QED  BY <1>0, <1>1, <1>2, <1>3, <1>4, <1>5, <1>6, PeerHears

LEMMA MemberInformed ==
    ASSUME NEW s \in Peers, NEW p \in Peers, Handles(s, p), OnMemberResponse(s, p, 1)
    PROVE  Reached'
<1>0. /\ OrderInv /\ IInv /\ TypeOK /\ InOrder /\ p # Owner
      /\ 1 \in 1 .. Len(net[s][p])
      /\ net[s][p][1] \in Message /\ net[s][p][1] \in Honest(s, p)
    BY HandledFirst
<1>1. PICK m : m = net[s][p][1] /\ m.type = "memberResponse" /\ s = Owner /\ m.rows \in Table
    BY <1>0, MessageFields DEF OnMemberResponse, Honest
<1>2. /\ \A x \in Peers : x # p => members'[x] = members[x] /\ group'[x] = group[x]
      /\ group[p] # NoGroup => members'[p] = Merge(members[p], m.rows)
      /\ group'[p].version = group[p].version
      /\ group'[p].joined = group[p].joined
      /\ group'[p] = NoGroup <=> group[p] = NoGroup
    <2>1. CASE group[p] = NoGroup  BY <1>0, <2>1 DEF OnMemberResponse
    <2>2. CASE group[p] # NoGroup
        <3>1. PICK n \in Nat : group' = [group EXCEPT ![p] = SetCount(@, n)]
            BY <2>2, SizeType DEF OnMemberResponse
        <3>2. group'[p] = SetCount(group[p], n) /\ group[p] \in GroupRow \cup {NoGroup}
            BY <1>0, <3>1 DEF TypeOK
        <3>3. members'[p] = Merge(members[p], m.rows)
            BY <1>0, <1>1, <2>2 DEF OnMemberResponse, TypeOK
        <3>4. \A x \in Peers : x # p => members'[x] = members[x] /\ group'[x] = group[x]
            BY <1>0, <2>2, <3>1 DEF OnMemberResponse, TypeOK
        <3> QED  BY <3>2, <3>3, <3>4, RowAfter
    <2> QED  BY <2>1, <2>2
<1>3. InGroup(p)' => InGroup(p)  BY <1>0, <1>2, OwnerAssumption DEF InGroup
<1>4. InGroup(p)' => TakesRows(p, m)
    <2> SUFFICES ASSUME InGroup(p)', NEW q \in Peers, NEW w
                 PROVE  /\ m \in About(p, q) /\ m \in Telling(w, q) => members'[p][q] \in Fits(w)
                        /\ m \notin About(p, q) /\ members[p][q] \in Fits(w)
                           => members'[p][q] \in Fits(w)
        BY DEF TakesRows
    <2>1. members'[p] = Merge(members[p], m.rows)  BY <1>2, <1>3 DEF InGroup
    <2>2. members[p] \in Table  BY <1>0 DEF TypeOK
    <2>3. /\ m \in About(p, q) => m.rows[q] # NoRow
          /\ m \in Telling(w, q) => m.rows[q] \in Fits(w)
          /\ m \notin About(p, q) => m.rows[q] = NoRow
        BY <1>0, <1>1 DEF About, Telling
    <2> QED  BY <1>1, <2>1, <2>2, <2>3, MergeFits
<1>5. TakesVersion(p, m)  BY <1>1, <1>2 DEF TakesVersion, OfVersion
<1>6. Answer(s, p, 1, Nothing)  BY DEF OnMemberResponse
<1> QED  BY <1>0, <1>1, <1>2, <1>3, <1>4, <1>5, <1>6, PeerHears

LEMMA MemberUpdated ==
    ASSUME NEW s \in Peers, NEW p \in Peers, Handles(s, p), OnOptionResponse(s, p, 1)
    PROVE  Reached'
<1>0. /\ OrderInv /\ IInv /\ TypeOK /\ InOrder /\ p # Owner
      /\ 1 \in 1 .. Len(net[s][p])
      /\ net[s][p][1] \in Message /\ net[s][p][1] \in Honest(s, p)
    BY HandledFirst
<1>1. PICK m : m = net[s][p][1] /\ m.type = "optionResponse" /\ s = Owner
               /\ m.version \in Nat /\ m.count \in Nat
    BY <1>0, MessageFields DEF OnOptionResponse, Honest
<1>2. group'[p] = IF group[p] = NoGroup THEN group[p]
                  ELSE [group[p] EXCEPT !.version = m.version, !.count = m.count]
    BY <1>0, <1>1 DEF OnOptionResponse, TypeOK
<1>3. group[p] # NoGroup =>
         group'[p] # NoGroup /\ group'[p].version = m.version /\ group'[p].joined = group[p].joined
    <2>1. SUFFICES ASSUME group[p] # NoGroup
                   PROVE  /\ group'[p] # NoGroup /\ group'[p].version = m.version
                          /\ group'[p].joined = group[p].joined
        OBVIOUS
    <2>2. group[p] \in GroupRow  BY <1>0, <2>1 DEF TypeOK
    <2>3. PICK g : g = [group[p] EXCEPT !.version = m.version, !.count = m.count]  OBVIOUS
    <2>4. g \in GroupRow /\ g.version = m.version /\ g.joined = group[p].joined
        BY <1>1, <2>2, <2>3 DEF GroupRow
    <2> QED  BY <1>2, <2>1, <2>3, <2>4, AbsentAssumption
<1>4. members' = members /\ \A x \in Peers : x # p => group'[x] = group[x]
    BY <1>0 DEF OnOptionResponse, TypeOK
<1>5. InGroup(p)' => InGroup(p)  BY <1>2, <1>3, <1>4 DEF InGroup
<1>6. TakesRows(p, m)  BY <1>1, <1>4 DEF TakesRows, About, Telling
<1>7. ActiveRow(members[Owner][p]) => TakesVersion(p, m)
    <2>1. ActiveRow(members[Owner][p]) => group'[p].version = m.version
        BY <1>0, <1>3, MembersJoined
    <2> QED  BY <1>0, <1>1, <2>1 DEF TakesVersion, OfVersion, Options
<1>8. Answer(s, p, 1, Nothing)  BY DEF OnOptionResponse
<1> QED  BY <1>0, <1>1, <1>4, <1>5, <1>6, <1>7, <1>8, PeerHears

LEMMA MemberPosted ==
    ASSUME NEW s \in Peers, NEW p \in Peers, Handles(s, p), HandleIncomingGroupMessage(s, p, 1)
    PROVE  Reached'
<1>0. /\ OrderInv /\ p # Owner /\ 1 \in 1 .. Len(net[s][p])
    BY HandledFirst
<1>1. PICK m : m = net[s][p][1] /\ m.type = "post"
    BY DEF HandleIncomingGroupMessage
<1>2. members' = members /\ group' = group /\ Answer(s, p, 1, Nothing)
    BY DEF HandleIncomingGroupMessage
<1>3. InGroup(p)' => InGroup(p)  BY <1>2 DEF InGroup
<1>4. TakesRows(p, m)  BY <1>1, <1>2 DEF TakesRows, About
<1>5. TakesVersion(p, m)  BY <1>1, <1>2 DEF TakesVersion, OfVersion
<1> QED  BY <1>0, <1>1, <1>2, <1>3, <1>4, <1>5, PeerHears

\* No accept, quit or request ever goes to anybody but the owner.
LEMMA MemberHandles ==
    ASSUME NEW s \in Peers, NEW p \in Peers, Handles(s, p),
           \/ OnInvitationReceived(s, p, 1) \/ OnInviteeAccept(s, p, 1)
           \/ OnMemberQuit(s, p, 1) \/ OnMemberRequest(s, p, 1)
           \/ OnMemberResponse(s, p, 1) \/ OnOptionResponse(s, p, 1)
           \/ HandleIncomingGroupMessage(s, p, 1)
    PROVE  Reached'
<1>1. net[s][p][1] \in Honest(s, p) /\ p # Owner  BY HandledFirst
<1>2. ~OnInviteeAccept(s, p, 1) /\ ~OnMemberQuit(s, p, 1) /\ ~OnMemberRequest(s, p, 1)
    BY <1>1 DEF Honest, OnInviteeAccept, OnMemberQuit, OnMemberRequest
<1> QED  BY <1>2, MemberInvited, MemberInformed, MemberUpdated, MemberPosted

---------------------------------------------------------------------------
(* What the owner does *)

\* What the owner sends to y, out, reports its row of q: it says what the row now is, or
\* nothing of it, if y needs to hear nothing.
Reports(y, q, out) ==
    \/ Tells(out, About(y, q), Telling(members'[Owner][q], q))
    \/ /\ Silent(out, About(y, q)) /\ InGroup(y) /\ ~Asking(y)
       /\ Fits(members[Owner][q]) \subseteq Fits(members'[Owner][q])
    \/ q # y /\ members'[Owner][q] = NoRow
ReportsVersion(y, out) ==
    \/ Tells(out, Options, OfVersion(group'[Owner].version))
    \/ /\ Silent(out, Options) /\ ActiveRow(members[Owner][y])
       /\ group'[Owner].version = group[Owner].version

LEMMA AnythingFits == ASSUME NEW r \in MemberRow \cup {NoRow} PROVE r \in Fits(NoRow)
BY DEF Fits, ActiveRow

LEMMA HeardWhenReported ==
    ASSUME OrderInv, NEW y \in Peers, y # Owner, NEW out \in Seq(Message), NEW q \in Peers,
           net'[Owner][y] = net[Owner][y] \o out, members'[y] = members[y], Reports(y, q, out)
    PROVE  HeardOf(y, q)'
<1> USE OwnerAssumption
<1>0. TypeOK /\ PeerInv(y)  BY DEF OrderInv, RosterInv, IInv, Reached
<1>1. PICK c, S, w, new, r : /\ c = net[Owner][y] /\ S = About(y, q) /\ r = members[y][q]
                             /\ w = members[Owner][q] /\ new = members'[Owner][q]
    OBVIOUS
<1>2. c \in Seq(Message) /\ r \in MemberRow \cup {NoRow}  BY <1>0, <1>1 DEF TypeOK, Table
<1>3. SUFFICES Settles(c \o out, S, Telling(new, q), r, Fits(new))
    BY <1>1 DEF HeardOf
<1>4. CASE Tells(out, S, Telling(new, q))  BY <1>2, <1>4, SettlesTold
<1>5. CASE /\ Silent(out, S) /\ InGroup(y) /\ ~Asking(y) /\ Fits(w) \subseteq Fits(new)
    <2>1. Settles(c, S, Telling(w, q), r, Fits(w))
        BY <1>0, <1>1, <1>5 DEF PeerInv, Informed, HeardOf
    <2>2. Settles(c \o out, S, Telling(w, q), r, Fits(w))
        BY <1>2, <1>5, <2>1, SettlesSilent
    <2>3. \A m \in S : m \in Telling(w, q) => m \in Telling(new, q)  BY <1>5 DEF Telling
    <2>4. r \in Fits(w) => r \in Fits(new)  BY <1>5
    <2> QED  BY <2>2, <2>3, <2>4, SettlesEased
<1>6. CASE q # y /\ new = NoRow
    <2>1. \A m \in S : m \in Telling(new, q)
        <3> SUFFICES ASSUME NEW m \in S PROVE m \in Telling(new, q)
            OBVIOUS
        <3>1. m \in Message /\ m.type = "memberResponse"  BY <1>1, <1>6 DEF About
        <3>2. m.rows[q] \in MemberRow \cup {NoRow}  BY <3>1, MessageFields DEF Table
        <3>3. m.rows[q] \in Fits(new)  BY <1>6, <3>2, AnythingFits
        <3> QED  BY <3>1, <3>3 DEF Telling
    <2>2. r \in Fits(new)  BY <1>2, <1>6, AnythingFits
    <2> QED  BY <2>1, <2>2 DEF Settles, LastWord
<1> QED  BY <1>1, <1>4, <1>5, <1>6 DEF Reports

LEMMA OwnerTells ==
    ASSUME OrderInv, NEW y \in Peers, y # Owner, NEW out \in Seq(Message),
           net'[Owner][y] = net[Owner][y] \o out, AcceptAsks(net'[y][Owner]),
           members'[y] = members[y], group'[y] = group[y],
           InGroup(y)' /\ ~Asking(y)' => \A q \in Peers : Reports(y, q, out),
           ActiveRow(members'[Owner][y]) => ReportsVersion(y, out)
    PROVE  PeerInv(y)'
<1> USE OwnerAssumption
<1>0. TypeOK /\ PeerInv(y)  BY DEF OrderInv, RosterInv, IInv, Reached
<1>1. Informed(y)'  BY HeardWhenReported DEF Informed
<1>2. Current(y)'
    <2> SUFFICES ASSUME ActiveRow(members'[Owner][y])
                 PROVE  Settles(net'[Owner][y], Options, OfVersion(group'[Owner].version),
                                group'[y].version, {group'[Owner].version})
        BY DEF Current
    <2>1. net[Owner][y] \in Seq(Message)  BY <1>0 DEF TypeOK
    <2>2. CASE Tells(out, Options, OfVersion(group'[Owner].version))
        BY <2>1, <2>2, SettlesTold
    <2>3. CASE /\ Silent(out, Options) /\ ActiveRow(members[Owner][y])
               /\ group'[Owner].version = group[Owner].version
        <3>1. Settles(net[Owner][y], Options, OfVersion(group[Owner].version),
                      group[y].version, {group[Owner].version})
            BY <1>0, <2>3 DEF PeerInv, Current
        <3>2. Settles(net[Owner][y] \o out, Options, OfVersion(group[Owner].version),
                      group[y].version, {group[Owner].version})
            BY <2>1, <2>3, <3>1, SettlesSilent
        <3> QED  BY <2>3, <3>2
    <2> QED  BY <2>2, <2>3 DEF ReportsVersion
<1> QED  BY <1>1, <1>2 DEF PeerInv

LEMMA Outsider ==
    ASSUME NEW y \in Peers, ~ActiveRow(members'[Owner][y]), AcceptAsks(net'[y][Owner])
    PROVE  PeerInv(y)'
BY DEF PeerInv, Informed, Current, InGroup

\* The whole table says everything there is to say to a member.
LEMMA FullTable ==
    ASSUME NEW y \in Peers, NEW q \in Peers, NEW table \in Table, members'[Owner] = table,
           ActiveRow(table[y]), NEW out, out = <<MemberResponse(table)>>
    PROVE  Reports(y, q, out) /\ Silent(out, Options) /\ out \in Seq(Message)
<1> DEFINE m == MemberResponse(table)
<1>1. m \in Message /\ m.type = "memberResponse" /\ m.rows = table
    BY DEF MemberResponse, Message
<1> HIDE DEF m
<1>2. out = <<m>>  BY DEF m
<1>3. Silent(out, Options) /\ out \in Seq(Message)
    <2>1. m \notin Options  BY <1>1 DEF Options
    <2> QED  BY <1>1, <1>2, <2>1, Alone
<1>4. Reports(y, q, out)
    <2>1. CASE table[q] = NoRow
        <3>1. q # y  BY <2>1 DEF ActiveRow
        <3> QED  BY <2>1, <3>1 DEF Reports
    <2>2. CASE table[q] # NoRow
        <3>1. m \in About(y, q)  BY <1>1, <2>2 DEF About
        <3>2. table[q] \in MemberRow \cup {NoRow}  BY DEF Table
        <3>3. m \in Telling(table[q], q)  BY <1>1, <3>2, OwnRowFits DEF Telling
        <3>4. Tells(out, About(y, q), Telling(table[q], q))  BY <1>2, <3>1, <3>3, Alone
        <3> QED  BY <3>4 DEF Reports
    <2> QED  BY <2>1, <2>2
<1> QED  BY <1>3, <1>4

LEMMA CreateGroupReaches == ASSUME OrderInv, CreateGroup PROVE Reached'
<1> USE OwnerAssumption
<1>0. TypeOK /\ Reached  BY DEF OrderInv, RosterInv, IInv
<1>1. \A q \in Peers : members[Owner][q] = NoRow
    BY DEF OrderInv, RosterInv, EmptyBefore, CreateGroup
<1>2. \A y \in Peers : y # Owner => members'[Owner][y] = NoRow
    BY <1>0, <1>1 DEF CreateGroup, TypeOK, Table
<1>3. net' = net  BY DEF CreateGroup
<1> QED  BY <1>0, <1>2, <1>3, Outsider DEF Reached, PeerInv, ActiveRow

LEMMA InviteReaches ==
    ASSUME OrderInv, NEW p \in Peers, NEW t \in Peers, Invite(p, t) PROVE Reached'
<1> USE OwnerAssumption
<1>0. IInv /\ TypeOK /\ Reached  BY DEF OrderInv, RosterInv, IInv
<1>1. p = Owner /\ t # Owner  BY <1>0, OwnerActs DEF Invite, ActiveIn
<1>2. PICK out, msgs : out = To({t}, msgs) /\ Send(Owner, out)
    BY <1>1 DEF Invite
<1>3. \A x, y \in Peers : net'[x][y] = IF x = Owner THEN net[Owner][y] \o out[y] ELSE net[x][y]
    BY <1>0, <1>2, SentOn
<1>4. members' = members /\ group' = group  BY DEF Invite
<1>5. ASSUME NEW y \in Peers, y # Owner PROVE PeerInv(y)'
    <2>1. PeerInv(y) /\ net'[y][Owner] = net[y][Owner]  BY <1>0, <1>3, <1>5 DEF Reached
    <2>2. CASE y = t
        <3>1. ~ActiveRow(members'[Owner][y])  BY <1>1, <1>4, <2>2 DEF Invite
        <3> QED  BY <2>1, <3>1, Outsider DEF PeerInv
    <2>3. CASE y # t
        <3>1. net'[Owner][y] = net[Owner][y]
            <4>1. out[y] = <<>>  BY <1>2, <2>3 DEF To
            <4>2. net[Owner][y] \in Seq(Message)  BY <1>0 DEF TypeOK
            <4> QED  BY <1>3, <4>1, <4>2, ConcatEmptySeq
        <3>2. Untouched(y)  BY <1>4, <2>1, <3>1 DEF Untouched
        <3> QED  BY <2>1, <3>2, Framed
    <2> QED  BY <2>2, <2>3
<1> QED  BY <1>5 DEF Reached

\* The owner sends everybody its whole table.
LEMMA OwnerSyncs ==
    ASSUME OrderInv, NEW table \in Table, SyncMembersToAll(Owner, table),
           members'[Owner] = table, group'[Owner].version = group[Owner].version,
           \A y \in Peers : y # Owner => members'[y] = members[y] /\ group'[y] = group[y],
           \A y \in Peers : ActiveRow(table[y]) => ActiveRow(members[Owner][y])
    PROVE  Reached'
<1> USE OwnerAssumption
<1>0. TypeOK /\ Reached  BY DEF OrderInv, RosterInv, IInv
<1>1. PICK out, dests, msgs : /\ dests = ActiveIn(table) \ {Owner}
                              /\ msgs = <<MemberResponse(table)>>
                              /\ out = To(dests, msgs) /\ Send(Owner, out)
    BY DEF SyncMembersToAll
<1>2. \A x, y \in Peers : net'[x][y] = IF x = Owner THEN net[Owner][y] \o out[y] ELSE net[x][y]
    BY <1>0, <1>1, SentOn
<1>3. ASSUME NEW y \in Peers, y # Owner PROVE PeerInv(y)'
    <2>1. AcceptAsks(net'[y][Owner])  BY <1>0, <1>2, <1>3 DEF Reached, PeerInv
    <2>2. CASE ~ActiveRow(table[y])  BY <2>1, <2>2, Outsider
    <2>3. CASE ActiveRow(table[y])
        <3>1. y \in dests  BY <1>1, <1>3, <2>3 DEF ActiveIn
        <3>2. out[y] = msgs  BY <1>1, <3>1 DEF To
        <3>3. net'[Owner][y] = net[Owner][y] \o msgs  BY <1>2, <3>2
        <3>4. /\ \A q \in Peers : Reports(y, q, msgs)
              /\ Silent(msgs, Options) /\ msgs \in Seq(Message)
            BY <1>1, <2>3, FullTable
        <3>5. ReportsVersion(y, msgs)  BY <2>3, <3>4 DEF ReportsVersion
        <3> QED  BY <1>3, <2>1, <3>3, <3>4, <3>5, OwnerTells
    <2> QED  BY <2>2, <2>3
<1> QED  BY <1>3 DEF Reached

LEMMA KickOutReaches ==
    ASSUME OrderInv, NEW p \in Peers, NEW t \in Peers, KickOut(p, t) PROVE Reached'
<1> USE OwnerAssumption
<1>0. IInv /\ TypeOK /\ TablesInv  BY DEF OrderInv, RosterInv, IInv
<1>1. p = Owner /\ t # Owner  BY <1>0, OwnerActs DEF KickOut
<1>2. PICK table : /\ table = UpdatePermission(members[Owner], t, BLACK)
                   /\ members' = [members EXCEPT ![Owner] = table]
                   /\ group' = [group EXCEPT ![Owner] = SetCount(@, Size(table))]
                   /\ SyncMembersToAll(Owner, table)
    BY <1>1 DEF KickOut
<1>3. table \in Table /\ \A y \in Peers : ActiveRow(table[y]) => ActiveRow(members[Owner][y])
    BY <1>0, <1>1, <1>2, PermissionLowered
<1>4. /\ members'[Owner] = table
      /\ \A y \in Peers : y # Owner => members'[y] = members[y] /\ group'[y] = group[y]
      /\ group'[Owner] = SetCount(group[Owner], Size(table))
    BY <1>0, <1>2 DEF TypeOK
<1>5. group'[Owner].version = group[Owner].version
    <2>1. group[Owner] \in GroupRow \cup {NoGroup}  BY <1>0 DEF TypeOK
    <2>2. PICK n \in Nat : n = Size(table)  BY SizeType
    <2>3. group'[Owner] = SetCount(group[Owner], n)  BY <1>4, <2>2
    <2> QED  BY <2>1, <2>3, RowAfter
<1> QED  BY <1>2, <1>3, <1>4, <1>5, OwnerSyncs

LEMMA OwnerSyncReaches == ASSUME OrderInv, RequestMemberSync(Owner) PROVE Reached'
<1> USE OwnerAssumption
<1>0. TypeOK /\ TablesInv  BY DEF OrderInv, RosterInv, IInv
<1>1. RowOK(Owner, members[Owner][Owner]) /\ ActiveRow(members[Owner][Owner])
    BY <1>0, KeptRows DEF RequestMemberSync
<1>2. members[Owner][Owner].perm = OWNER  BY <1>1 DEF RowOK, ActiveRow, QUIT, NONE
<1>3. SyncMembersToAll(Owner, members[Owner])  BY <1>2 DEF RequestMemberSync
<1>4. members' = members /\ group' = group  BY DEF RequestMemberSync
<1>5. members[Owner] \in Table  BY <1>0 DEF TypeOK
<1> QED  BY <1>3, <1>4, <1>5, OwnerSyncs

\* Whatever fits a row fits it once its owner has left.
LEMMA QuitFits ==
    ASSUME NEW table \in Table, NEW s \in Peers, NEW new, new = UpdatePermission(table, s, QUIT),
           NEW q \in Peers
    PROVE  /\ Fits(table[q]) \subseteq Fits(new[q])
           /\ ActiveRow(new[q]) => ActiveRow(table[q])
           /\ q # s => new[q] = table[q]
<1>1. QUIT \in Perm  BY DEF Perm
<1>2. /\ q # s \/ table[s] = NoRow => new[q] = table[q]
      /\ table[s] # NoRow => new[s] = [perm |-> QUIT, inviter |-> table[s].inviter]
    BY <1>1, UpdatePermissionType
<1>3. CASE new[q] = table[q]  BY <1>2, <1>3
<1>4. CASE q = s /\ table[s] # NoRow
    <2>1. ~ActiveRow(new[q]) /\ new[q].perm # BLACK
        BY <1>2, <1>4 DEF ActiveRow, QUIT, BLACK, NONE
    <2> QED  BY <1>4, <2>1 DEF Fits
<1> QED  BY <1>2, <1>3, <1>4

LEMMA OwnerQuitReaches == ASSUME OrderInv, Quit(Owner) PROVE Reached'
<1> USE OwnerAssumption
<1>0. TypeOK /\ TablesInv /\ Reached  BY DEF OrderInv, RosterInv, IInv
<1>1. PICK out, owners, msgs :
         /\ owners = {q \in Peers : HasPerm(members[Owner], q, OWNER)} \ {Owner}
         /\ out = To(owners, msgs) /\ Send(Owner, out)
    BY DEF Quit
<1>2. owners = {}  BY <1>0, <1>1, OnlyOwnerOwns
<1>3. \A x, y \in Peers : net'[x][y] = IF x = Owner THEN net[Owner][y] \o out[y] ELSE net[x][y]
    BY <1>0, <1>1, SentOn
<1>4. PICK table : /\ table = UpdatePermission(members[Owner], Owner, QUIT)
                   /\ members' = [members EXCEPT ![Owner] = table]
    BY DEF Quit
<1>5. /\ members'[Owner] = table /\ members[Owner] \in Table
      /\ \A y \in Peers : y # Owner => members'[y] = members[y] /\ group'[y] = group[y]
      /\ group'[Owner] = SetJoined(group[Owner], FALSE)
    BY <1>0, <1>4 DEF Quit, TypeOK
<1>6. group'[Owner].version = group[Owner].version
    <2>1. group[Owner] \in GroupRow \cup {NoGroup}  BY <1>0 DEF TypeOK
    <2> QED  BY <1>5, <2>1, RowAfter
<1>7. ASSUME NEW y \in Peers, y # Owner PROVE PeerInv(y)'
    <2>1. net'[y][Owner] = net[y][Owner] /\ PeerInv(y)  BY <1>0, <1>3, <1>7 DEF Reached
    <2>2. net'[Owner][y] = net[Owner][y] \o <<>>  BY <1>1, <1>2, <1>3 DEF To
    <2>3. table[y] = members[Owner][y]  BY <1>4, <1>5, <1>7, QuitFits
    <2>4. ASSUME InGroup(y)', ~Asking(y)', NEW q \in Peers PROVE Reports(y, q, <<>>)
        <3>1. InGroup(y) /\ ~Asking(y)
            BY <1>5, <1>7, <2>1, <2>3, <2>4 DEF InGroup, Asking
        <3>2. Fits(members[Owner][q]) \subseteq Fits(members'[Owner][q])
            BY <1>4, <1>5, QuitFits
        <3> QED  BY <3>1, <3>2, Hush DEF Reports
    <2>5. ActiveRow(members'[Owner][y]) => ReportsVersion(y, <<>>)
        BY <1>5, <1>6, <2>3, Hush DEF ReportsVersion
    <2>6. <<>> \in Seq(Message) /\ AcceptAsks(net'[y][Owner])
        BY <2>1, NoMessage DEF PeerInv
    <2> QED  BY <1>5, <1>7, <2>2, <2>4, <2>5, <2>6, OwnerTells
<1> QED  BY <1>7 DEF Reached

\* A post says nothing of the table.
LEMMA PostSilent ==
    ASSUME NEW id, NEW y, NEW q, NEW m, m = [type |-> "post", id |-> id]
    PROVE  Silent(<<m>>, About(y, q)) /\ Silent(<<m>>, Options)
<1>1. m \notin About(y, q) /\ m \notin Options  BY DEF About, Options
<1> QED  BY <1>1, Alone

LEMMA OwnerPostReaches == ASSUME OrderInv, SendGroupMessage(Owner) PROVE Reached'
<1> USE OwnerAssumption
<1>0. IInv /\ TypeOK /\ Reached  BY DEF OrderInv, RosterInv, IInv
<1>1. PICK out, dests, id, m : /\ m = [type |-> "post", id |-> id] /\ m \in Message
                               /\ out = To(dests, <<m>>) /\ Send(Owner, out)
    BY <1>0, Posted
<1>2. \A x, y \in Peers : net'[x][y] = IF x = Owner THEN net[Owner][y] \o out[y] ELSE net[x][y]
    BY <1>0, <1>1, SentOn
<1>3. members' = members /\ group' = group  BY DEF SendGroupMessage
<1>4. ASSUME NEW y \in Peers, y # Owner PROVE PeerInv(y)'
    <2>1. net'[y][Owner] = net[y][Owner] /\ PeerInv(y)  BY <1>0, <1>2, <1>4 DEF Reached
    <2>2. out[y] \in {<<>>, <<m>>}  BY <1>1 DEF To
    <2>3. /\ out[y] \in Seq(Message) /\ Silent(out[y], Options)
          /\ \A q \in Peers : Silent(out[y], About(y, q))
        <3>1. Silent(<<m>>, Options) /\ \A q \in Peers : Silent(<<m>>, About(y, q))
            BY <1>1, PostSilent
        <3>2. <<m>> \in Seq(Message)  BY <1>1
        <3>3. <<>> \in Seq(Message)  BY NoMessage
        <3>4. CASE out[y] = <<>>  BY <3>3, <3>4, Hush
        <3>5. CASE out[y] = <<m>>  BY <3>1, <3>2, <3>5
        <3> QED  BY <2>2, <3>4, <3>5
    <2>4. InGroup(y)' /\ ~Asking(y)' => InGroup(y) /\ ~Asking(y)
        BY <1>3, <2>1 DEF InGroup, Asking
    <2>5. InGroup(y)' /\ ~Asking(y)' => \A q \in Peers : Reports(y, q, out[y])
        BY <1>3, <2>3, <2>4 DEF Reports
    <2>6. ActiveRow(members'[Owner][y]) => ReportsVersion(y, out[y])
        BY <1>3, <2>3 DEF ReportsVersion
    <2>7. net'[Owner][y] = net[Owner][y] \o out[y]  BY <1>2
    <2> QED  BY <1>3, <1>4, <2>1, <2>3, <2>5, <2>6, <2>7, OwnerTells DEF PeerInv
<1> QED  BY <1>4 DEF Reached

---------------------------------------------------------------------------
(* What the owner does with a message *)

\* The owner takes the first message of s.
OwnerHandles(s) == OrderInv /\ InOrder /\ 1 \in Deliverable(s, Owner)

\* The channels between the owner and y after the owner has answered s with out.
AfterTaking(s, y, out) ==
    /\ net'[Owner][y] = net[Owner][y] \o out[y]
    /\ y # s => net'[y][Owner] = net[y][Owner]
    /\ AcceptAsks(net'[y][Owner])
    /\ Asking(y) => Asking(y)' \/ (y = s /\ net[s][Owner][1].type = "memberRequest")
    /\ y = s /\ net[s][Owner][1].type = "accept" => Asking(y)'

LEMMA OwnerTakes ==
    ASSUME NEW s \in Peers, OwnerHandles(s), NEW out, Answer(s, Owner, 1, out),
           NEW y \in Peers, y # Owner
    PROVE  AfterTaking(s, y, out)
<1> USE OwnerAssumption
<1>0. TypeOK /\ PeerInv(y)
    BY DEF OwnerHandles, OrderInv, RosterInv, IInv, Reached
<1>1. 1 \in 1 .. Len(net[s][Owner]) /\ net[s][Owner] \in Seq(Message)
    BY <1>0, FirstTaken DEF OwnerHandles
<1>2. AfterAnswer(s, Owner, 1, out)  BY <1>0, AnsweredOn
<1>3. net'[Owner][y] = net[Owner][y] \o out[y]  BY <1>2 DEF AfterAnswer
<1>4. net'[y][Owner] = IF y = s THEN RemoveAt(net[s][Owner], 1) ELSE net[y][Owner]
    BY <1>2 DEF AfterAnswer
<1>5. AcceptAsks(net[y][Owner])  BY <1>0 DEF PeerInv
<1>6. CASE y # s  BY <1>3, <1>4, <1>5, <1>6 DEF Asking, AfterTaking
<1>7. CASE y = s
    <2>1. PICK c, d : c = net[s][Owner] /\ d = RemoveAt(c, 1)  OBVIOUS
    <2>2. /\ AcceptAsks(d)
          /\ IsOf(c[1], "accept") => Asks(d)
          /\ ~Asks(d) /\ Asks(c) => IsOf(c[1], "memberRequest")
        BY <1>1, <1>5, <1>7, <2>1, RequestTaken
    <2>3. net'[y][Owner] = d  BY <1>4, <1>7, <2>1
    <2> QED  BY <1>3, <1>7, <2>1, <2>2, <2>3 DEF Asking, IsOf, AfterTaking
<1> QED  BY <1>6, <1>7

\* Two messages, the first about one matter and the second about another.
LEMMA Both ==
    ASSUME NEW a, NEW b, NEW S, NEW G, NEW o, o = <<a>> \o <<b>>
    PROVE  /\ a \notin S /\ b \notin S => Silent(o, S)
           /\ b \in S /\ b \in G => Tells(o, S, G)
           /\ a \in S /\ a \in G /\ b \notin S => Tells(o, S, G)
<1>1. <<a>> \in Seq({a, b}) /\ <<b>> \in Seq({a, b}) /\ Len(<<a>>) = 1 /\ Len(<<b>>) = 1
      /\ <<a>>[1] = a /\ <<b>>[1] = b
    OBVIOUS
<1>2. Len(o) = 2 /\ o[1] = a /\ o[2] = b
    <2>1. /\ Len(o) = 1 + 1
          /\ \A i \in 1 .. 1 + 1 : o[i] = IF i <= 1 THEN <<a>>[i] ELSE <<b>>[i - 1]
        BY <1>1, ConcatProperties
    <2>2. 1 \in 1 .. 1 + 1 /\ 2 \in 1 .. 1 + 1 /\ 1 <= 1 /\ ~(2 <= 1) /\ 2 - 1 = 1 /\ 1 + 1 = 2
        OBVIOUS
    <2>3. o[1] = <<a>>[1]  BY <2>1, <2>2
    <2>4. o[2] = <<b>>[1]  BY <2>1, <2>2
    <2> QED  BY <1>1, <2>1, <2>2, <2>3, <2>4
<1>3. \A i \in 1 .. Len(o) : i = 1 \/ i = 2  BY <1>2
<1>4. 1 \in 1 .. Len(o) /\ 2 \in 1 .. Len(o)  BY <1>2
<1>5. a \notin S /\ b \notin S => Silent(o, S)  BY <1>2, <1>3 DEF Silent
<1>6. b \in S /\ b \in G => Tells(o, S, G)
    <2>1. \A j \in 1 .. Len(o) : ~(j > 2)  BY <1>2
    <2> QED  BY <1>2, <1>4, <2>1 DEF Tells
<1>7. a \in S /\ a \in G /\ b \notin S => Tells(o, S, G)
    <2>1. \A j \in 1 .. Len(o) : j > 1 => j = 2  BY <1>3
    <2> QED  BY <1>2, <1>4, <2>1 DEF Tells
<1> QED  BY <1>5, <1>6, <1>7

\* What the owner makes of an accept.
LEMMA Admission ==
    ASSUME NEW s \in Peers, OwnerHandles(s), OnInviteeAccept(s, Owner, 1)
    PROVE  /\ s # Owner /\ net[s][Owner][1].type = "accept"
           /\ \A q \in Peers : q # s => members'[Owner][q] = members[Owner][q]
           /\ members'[Owner][s] \in MemberRow /\ members'[Owner] \in Table
           /\ \A y \in Peers : y # Owner => members'[y] = members[y] /\ group'[y] = group[y]
           /\ group'[Owner] \in GroupRow
           /\ Answer(s, Owner, 1, AcceptAnswers(Owner, s, members'[Owner], group'[Owner]))
<1> USE OwnerAssumption
<1>0. IInv /\ TypeOK /\ EmptyBefore  BY DEF OwnerHandles, OrderInv, RosterInv, IInv
<1>1. s \in accepted /\ s \in invited
    BY <1>0, AtOwner DEF OwnerHandles, OnInviteeAccept
<1>2. s # Owner /\ net[s][Owner][1].type = "accept"
    BY <1>0, <1>1 DEF IInv, HistoryInv, OnInviteeAccept
<1>3. group[Owner] # NoGroup  BY <1>0, <1>1 DEF EmptyBefore
<1>4. PICK row, table, g :
         /\ row = [perm |-> NORMAL, inviter |-> Owner]
         /\ table = Upsert(members[Owner], s, row)
         /\ g = [group[Owner] EXCEPT !.count = Size(table), !.version = @ + 1]
         /\ members' = [members EXCEPT ![Owner] = table]
         /\ group' = [group EXCEPT ![Owner] = g]
         /\ Answer(s, Owner, 1, AcceptAnswers(Owner, s, table, g))
    BY <1>3 DEF OnInviteeAccept
<1>5. row \in MemberRow  BY <1>4 DEF MemberRow, Perm
<1>6. table \in Table /\ \A q \in Peers : table[q] = IF q = s THEN row ELSE members[Owner][q]
    BY <1>0, <1>4, <1>5, UpsertType DEF TypeOK
<1>7. g \in GroupRow
    <2>1. group[Owner] \in GroupRow  BY <1>0, <1>3 DEF TypeOK
    <2>2. group[Owner].version + 1 \in Nat  BY <2>1 DEF GroupRow
    <2>3. PICK n \in Nat : n = Size(table)  BY SizeType
    <2>4. g = [group[Owner] EXCEPT !.count = n, !.version = group[Owner].version + 1]
        BY <1>4, <2>3
    <2> QED  BY <2>1, <2>2, <2>4 DEF GroupRow
<1>8. /\ members'[Owner] = table /\ group'[Owner] = g
      /\ \A y \in Peers : y # Owner => members'[y] = members[y] /\ group'[y] = group[y]
    BY <1>0, <1>4 DEF TypeOK
<1> QED  BY <1>2, <1>4, <1>5, <1>6, <1>7, <1>8

\* The option message tells the version, and nothing of the table.
LEMMA OptionTells ==
    ASSUME NEW g \in GroupRow, NEW m, m = OptionResponse(g)
    PROVE  /\ m \in Message /\ m \in Options /\ m \in OfVersion(g.version)
           /\ \A y, q : m \notin About(y, q)
           /\ OptionNotes(g) = <<m>>
<1>1. m \in Message /\ m.type = "optionResponse" /\ m.version = g.version
    BY DEF OptionResponse, Message, GroupRow
<1> QED  BY <1>1, AbsentAssumption DEF Options, OfVersion, About, OptionNotes

\* The message about the new member tells its row, and nothing else.
LEMMA NewRowTells ==
    ASSUME NEW s \in Peers, NEW table \in Table, table[s] \in MemberRow, NEW m,
           m = MemberResponse([q \in Peers |-> IF q = s THEN table[q] ELSE NoRow])
    PROVE  /\ m \in Message /\ m \notin Options /\ m \in Telling(table[s], s)
           /\ \A y : m \in About(y, s)
           /\ \A y : \A q \in Peers : q # s => m \notin About(y, q)
<1>1. PICK rows : rows = [q \in Peers |-> IF q = s THEN table[q] ELSE NoRow]  OBVIOUS
<1>2. rows \in Table  BY <1>1 DEF Table
<1>3. m \in Message /\ m.type = "memberResponse" /\ m.rows = rows
    BY <1>1, <1>2 DEF MemberResponse, Message
<1>4. m.rows[s] = table[s] /\ \A q \in Peers : q # s => m.rows[q] = NoRow  BY <1>1, <1>3
<1>5. table[s] # NoRow  BY AbsentAssumption
<1>6. m \in Telling(table[s], s)  BY <1>3, <1>4, OwnRowFits DEF Telling
<1> QED  BY <1>3, <1>4, <1>5, <1>6 DEF Options, About

LEMMA AdmissionReaches ==
    ASSUME NEW s \in Peers, OwnerHandles(s), OnInviteeAccept(s, Owner, 1) PROVE Reached'
<1> USE OwnerAssumption
<1>0. OrderInv /\ TypeOK  BY DEF OwnerHandles, OrderInv, RosterInv, IInv
<1>1. PICK table, g, out :
         /\ table = members'[Owner] /\ g = group'[Owner]
         /\ out = AcceptAnswers(Owner, s, table, g)
    OBVIOUS
<1>2. /\ s # Owner /\ net[s][Owner][1].type = "accept"
      /\ \A q \in Peers : q # s => table[q] = members[Owner][q]
      /\ table[s] \in MemberRow /\ table \in Table /\ g \in GroupRow
      /\ \A y \in Peers : y # Owner => members'[y] = members[y] /\ group'[y] = group[y]
      /\ Answer(s, Owner, 1, out)
    BY <1>1, Admission
<1>3. PICK opt : opt = OptionResponse(g)  OBVIOUS
<1>4. /\ opt \in Message /\ opt \in Options /\ opt \in OfVersion(g.version)
      /\ \A y, q : opt \notin About(y, q)
      /\ OptionNotes(g) = <<opt>>
    BY <1>2, <1>3, OptionTells
<1>5. PICK new : new = MemberResponse([q \in Peers |-> IF q = s THEN table[q] ELSE NoRow])
    OBVIOUS
<1>6. /\ new \in Message /\ new \notin Options /\ new \in Telling(table[s], s)
      /\ \A y : new \in About(y, s)
      /\ \A y : \A q \in Peers : q # s => new \notin About(y, q)
    BY <1>2, <1>5, NewRowTells
<1>7. \A y \in Peers :
         out[y] = IF y = s THEN <<opt>>
                  ELSE IF y \in ActiveIn(table) \ {Owner} THEN <<new>> \o <<opt>> ELSE <<>>
    BY <1>1, <1>4, <1>5 DEF AcceptAnswers
<1>8. ASSUME NEW y \in Peers, y # Owner PROVE PeerInv(y)'
    <2>1. /\ net'[Owner][y] = net[Owner][y] \o out[y]
          /\ AcceptAsks(net'[y][Owner])
          /\ Asking(y) => Asking(y)' \/ (y = s /\ net[s][Owner][1].type = "memberRequest")
          /\ y = s /\ net[s][Owner][1].type = "accept" => Asking(y)'
        <3>1. Answer(s, Owner, 1, out)  BY <1>2
        <3>2. AfterTaking(s, y, out)  BY <1>8, <3>1, OwnerTakes
        <3> QED  BY <3>2 DEF AfterTaking
    <2>2. members'[y] = members[y] /\ group'[y] = group[y]  BY <1>2, <1>8
    <2>3. CASE y = s
        <3>1. out[y] = <<opt>>  BY <1>7, <2>3
        <3>2. out[y] \in Seq(Message)  BY <1>4, <3>1
        <3>3. Tells(out[y], Options, OfVersion(g.version))  BY <1>4, <3>1, Alone
        <3>4. ReportsVersion(y, out[y])  BY <1>1, <3>3 DEF ReportsVersion
        <3>5. Asking(y)'  BY <1>2, <2>1, <2>3
        <3> QED  BY <1>0, <1>8, <2>1, <2>2, <3>2, <3>4, <3>5, OwnerTells
    <2>4. CASE y # s /\ ActiveRow(table[y])
        <3>1. out[y] = <<new>> \o <<opt>>  BY <1>7, <1>8, <2>4 DEF ActiveIn
        <3>2. out[y] \in Seq(Message)
            <4>1. <<new>> \in Seq(Message) /\ <<opt>> \in Seq(Message)  BY <1>4, <1>6
            <4> QED  BY <3>1, <4>1, ConcatProperties
        <3>3. Tells(out[y], Options, OfVersion(g.version))  BY <1>4, <3>1, Both
        <3>4. ReportsVersion(y, out[y])  BY <1>1, <3>3 DEF ReportsVersion
        <3>5. ASSUME InGroup(y)', ~Asking(y)', NEW q \in Peers PROVE Reports(y, q, out[y])
            <4>1. CASE q = s
                <5>1. Tells(out[y], About(y, s), Telling(table[s], s))
                    BY <1>4, <1>6, <3>1, Both
                <5> QED  BY <1>1, <4>1, <5>1 DEF Reports
            <4>2. CASE q # s
                <5>1. Silent(out[y], About(y, q))  BY <1>4, <1>6, <3>1, <4>2, Both
                <5>2. InGroup(y) /\ ~Asking(y)
                    BY <1>1, <1>2, <2>1, <2>2, <2>4, <3>5 DEF InGroup
                <5>3. members'[Owner][q] = members[Owner][q]  BY <1>1, <1>2, <4>2
                <5> QED  BY <5>1, <5>2, <5>3 DEF Reports
            <4> QED  BY <4>1, <4>2
        <3> QED  BY <1>0, <1>8, <2>1, <2>2, <3>2, <3>4, <3>5, OwnerTells
    <2>5. CASE ~ActiveRow(table[y])  BY <1>1, <2>1, <2>5, Outsider
    <2> QED  BY <2>3, <2>4, <2>5
<1> QED  BY <1>8 DEF Reached

\* The owner's table changes only where nothing has to be said, and y is not waiting.
LEMMA NothingToSay ==
    ASSUME OrderInv, NEW y \in Peers, y # Owner, net'[Owner][y] = net[Owner][y] \o <<>>,
           AcceptAsks(net'[y][Owner]), members'[y] = members[y], group'[y] = group[y],
           Asking(y) => Asking(y)', members'[Owner][y] = members[Owner][y],
           \A q \in Peers : Fits(members[Owner][q]) \subseteq Fits(members'[Owner][q]),
           group'[Owner].version = group[Owner].version
    PROVE  PeerInv(y)'
<1>1. ASSUME InGroup(y)', ~Asking(y)', NEW q \in Peers PROVE Reports(y, q, <<>>)
    <2>1. InGroup(y) /\ ~Asking(y)  BY <1>1 DEF InGroup
    <2> QED  BY <2>1, Hush DEF Reports
<1>2. ActiveRow(members'[Owner][y]) => ReportsVersion(y, <<>>)  BY Hush DEF ReportsVersion
<1>3. <<>> \in Seq(Message)  BY NoMessage
<1> QED  BY <1>1, <1>2, <1>3, OwnerTells

LEMMA FarewellReaches ==
    ASSUME NEW s \in Peers, OwnerHandles(s), OnMemberQuit(s, Owner, 1) PROVE Reached'
<1> USE OwnerAssumption
<1>0. OrderInv /\ TypeOK  BY DEF OwnerHandles, OrderInv, RosterInv, IInv
<1>1. PICK table : /\ table = UpdatePermission(members[Owner], s, QUIT)
                   /\ members' = [members EXCEPT ![Owner] = table]
                   /\ group' = [group EXCEPT ![Owner] = SetCount(@, Size(table))]
                   /\ Answer(s, Owner, 1, Nothing) /\ net[s][Owner][1].type = "quit"
    BY DEF OnMemberQuit
<1>2. /\ members'[Owner] = table /\ members[Owner] \in Table
      /\ \A y \in Peers : y # Owner => members'[y] = members[y] /\ group'[y] = group[y]
      /\ group'[Owner] = SetCount(group[Owner], Size(table))
    BY <1>0, <1>1 DEF TypeOK
<1>3. group'[Owner].version = group[Owner].version
    <2>1. group[Owner] \in GroupRow \cup {NoGroup}  BY <1>0 DEF TypeOK
    <2>2. PICK n \in Nat : n = Size(table)  BY SizeType
    <2>3. group'[Owner] = SetCount(group[Owner], n)  BY <1>2, <2>2
    <2> QED  BY <2>1, <2>3, RowAfter
<1>4. ASSUME NEW y \in Peers, y # Owner PROVE PeerInv(y)'
    <2>1. AfterTaking(s, y, Nothing)  BY <1>1, <1>4, OwnerTakes
    <2>2. /\ net'[Owner][y] = net[Owner][y] \o <<>> /\ AcceptAsks(net'[y][Owner])
          /\ Asking(y) => Asking(y)'
        BY <1>1, <2>1 DEF AfterTaking, Nothing
    <2>3. CASE y = s
        <3>1. ActiveIn(table) = ActiveIn(members[Owner]) \ {s}  BY <1>1, <1>2, StruckOut
        <3>2. ~ActiveRow(members'[Owner][y])  BY <1>2, <2>3, <3>1 DEF ActiveIn
        <3> QED  BY <2>2, <3>2, Outsider
    <2>4. CASE y # s
        <3>1. table[y] = members[Owner][y]  BY <1>1, <1>2, <2>4, QuitFits
        <3>2. \A q \in Peers : Fits(members[Owner][q]) \subseteq Fits(table[q])
            BY <1>1, <1>2, QuitFits
        <3> QED  BY <1>0, <1>2, <1>3, <1>4, <2>2, <3>1, <3>2, NothingToSay
    <2> QED  BY <2>3, <2>4
<1> QED  BY <1>4 DEF Reached

LEMMA RequestReaches ==
    ASSUME NEW s \in Peers, OwnerHandles(s), OnMemberRequest(s, Owner, 1) PROVE Reached'
<1> USE OwnerAssumption
<1>0. OrderInv /\ TypeOK  BY DEF OwnerHandles, OrderInv, RosterInv, IInv
<1>1. PICK out, msgs : /\ msgs = <<MemberResponse(members[Owner])>>
                       /\ out = IF ActiveRow(members[Owner][s]) THEN To({s}, msgs) ELSE Nothing
                       /\ Answer(s, Owner, 1, out)
    BY DEF OnMemberRequest
<1>2. members' = members /\ group' = group  BY DEF OnMemberRequest
<1>3. net[s][Owner][1].type = "memberRequest"  BY DEF OnMemberRequest
<1>4. ASSUME NEW y \in Peers, y # Owner PROVE PeerInv(y)'
    <2>1. AfterTaking(s, y, out)  BY <1>1, <1>4, OwnerTakes
    <2>2. net'[Owner][y] = net[Owner][y] \o out[y] /\ AcceptAsks(net'[y][Owner])
        BY <2>1 DEF AfterTaking
    <2>3. CASE ~ActiveRow(members[Owner][y])  BY <1>2, <2>2, <2>3, Outsider
    <2>4. CASE ActiveRow(members[Owner][y]) /\ y = s
        <3>1. out[y] = msgs  BY <1>1, <2>4 DEF To
        <3>2. members[Owner] \in Table  BY <1>0 DEF TypeOK
        <3>3. /\ \A q \in Peers : Reports(y, q, msgs)
              /\ Silent(msgs, Options) /\ msgs \in Seq(Message)
            BY <1>1, <1>2, <2>4, <3>2, FullTable
        <3>4. ReportsVersion(y, msgs)  BY <1>2, <2>4, <3>3 DEF ReportsVersion
        <3>5. net'[Owner][y] = net[Owner][y] \o msgs  BY <2>2, <3>1
        <3> QED  BY <1>0, <1>2, <1>4, <2>2, <3>3, <3>4, <3>5, OwnerTells
    <2>5. CASE y # s
        <3>1. out[y] = <<>>  BY <1>1, <2>5 DEF To, Nothing
        <3>2. Asking(y) => Asking(y)'  BY <2>1, <2>5 DEF AfterTaking
        <3> QED  BY <1>0, <1>2, <1>4, <2>2, <3>1, <3>2, NothingToSay
    <2> QED  BY <2>3, <2>4, <2>5
<1> QED  BY <1>4 DEF Reached

LEMMA OwnerPosted ==
    ASSUME NEW s \in Peers, OwnerHandles(s), HandleIncomingGroupMessage(s, Owner, 1)
    PROVE  Reached'
<1> USE OwnerAssumption
<1>0. OrderInv  BY DEF OwnerHandles
<1>1. /\ members' = members /\ group' = group /\ Answer(s, Owner, 1, Nothing)
      /\ net[s][Owner][1].type = "post"
    BY DEF HandleIncomingGroupMessage
<1>2. ASSUME NEW y \in Peers, y # Owner PROVE PeerInv(y)'
    <2>1. AfterTaking(s, y, Nothing)  BY <1>1, <1>2, OwnerTakes
    <2>2. /\ net'[Owner][y] = net[Owner][y] \o <<>> /\ AcceptAsks(net'[y][Owner])
          /\ Asking(y) => Asking(y)'
        BY <1>1, <2>1 DEF AfterTaking, Nothing
    <2> QED  BY <1>0, <1>1, <1>2, <2>2, NothingToSay
<1> QED  BY <1>2 DEF Reached

LEMMA OwnerHandlesStep ==
    ASSUME NEW s \in Peers, OwnerHandles(s),
           \/ OnInvitationReceived(s, Owner, 1) \/ OnInviteeAccept(s, Owner, 1)
           \/ OnMemberQuit(s, Owner, 1) \/ OnMemberRequest(s, Owner, 1)
           \/ OnMemberResponse(s, Owner, 1) \/ OnOptionResponse(s, Owner, 1)
           \/ HandleIncomingGroupMessage(s, Owner, 1)
    PROVE  Reached'
<1>1. IInv  BY DEF OwnerHandles, OrderInv, RosterInv
<1>2. net[s][Owner][1].type \notin {"invitation", "memberResponse", "optionResponse"}
    BY <1>1, AtOwner DEF OwnerHandles
<1>3. /\ ~OnInvitationReceived(s, Owner, 1) /\ ~OnMemberResponse(s, Owner, 1)
      /\ ~OnOptionResponse(s, Owner, 1)
    BY <1>2 DEF OnInvitationReceived, OnMemberResponse, OnOptionResponse
<1> QED  BY <1>3, AdmissionReaches, FarewellReaches, RequestReaches, OwnerPosted

---------------------------------------------------------------------------
(* Every step keeps OrderInv, if channels keep their order and repeat nothing *)

LEMMA JoinersStep == ASSUME OrderInv, Next PROVE Joiners'
<1>0. IInv /\ Joiners  BY DEF OrderInv, RosterInv
<1>1. \A p \in Peers : group[p] # NoGroup => group'[p] # NoGroup  BY <1>0, GroupStays
<1>2. accepted \subseteq Peers  BY <1>0 DEF IInv, TypeOK
<1>3. CASE accepted' = accepted  BY <1>0, <1>1, <1>2, <1>3 DEF Joiners
<1>4. ASSUME NEW p \in Peers, AcceptInvitation(p) PROVE Joiners'
    <2>1. group[p] # NoGroup /\ accepted' = accepted \cup {p}
        BY <1>4 DEF AcceptInvitation, CanAccept
    <2> QED  BY <1>0, <1>1, <1>2, <2>1 DEF Joiners
<1>5. accepted' = accepted \/ \E p \in Peers : AcceptInvitation(p)
    <2>1. UserStep => accepted' = accepted \/ \E p \in Peers : AcceptInvitation(p)
        BY DEF UserStep, CreateGroup, Invite, KickOut, Quit, RequestMemberSync, GetMembers,
               SendGroupMessage
    <2>2. Receive => accepted' = accepted
        BY DEF Receive, OnInvitationReceived, OnInviteeAccept, OnMemberQuit, OnMemberRequest,
               OnMemberResponse, OnOptionResponse, HandleIncomingGroupMessage
    <2>3. Network => accepted' = accepted  BY DEF Network, Redeliver
    <2> QED  BY <2>1, <2>2, <2>3 DEF Next
<1> QED  BY <1>3, <1>4, <1>5

LEMMA OrderStep == ASSUME InOrder, MaxDups = 0, OrderInv, [Next]_vars PROVE OrderInv'
<1> USE OwnerAssumption
<1>0. RosterInv /\ IInv /\ TypeOK /\ Joiners /\ Reached  BY DEF OrderInv, RosterInv, IInv
<1>1. RosterInv'  BY <1>0, RosterInvStep
<1>2. CASE UNCHANGED vars
    <2>1. Joiners'  BY <1>0, <1>2 DEF Joiners, vars
    <2>2. \A y \in Peers : Untouched(y)  BY <1>2 DEF Untouched, vars
    <2>3. Reached'  BY <1>0, <2>2, Framed DEF Reached
    <2> QED  BY <1>1, <2>1, <2>3 DEF OrderInv
<1>3. CASE Next
    <2>1. Joiners'  BY <1>3, JoinersStep
    <2>2. ASSUME UserStep PROVE Reached'
        <3>1. ASSUME NEW p \in Peers, Quit(p) PROVE Reached'
            BY <3>1, MemberQuitReaches, OwnerQuitReaches
        <3>2. ASSUME NEW p \in Peers, RequestMemberSync(p) PROVE Reached'
            BY <3>2, MemberSyncReaches, OwnerSyncReaches
        <3>3. ASSUME NEW p \in Peers, SendGroupMessage(p) PROVE Reached'
            BY <3>3, MemberPostReaches, OwnerPostReaches
        <3> QED  BY <2>2, <3>1, <3>2, <3>3, CreateGroupReaches, InviteReaches, KickOutReaches,
                    AcceptInvitationReaches, GetMembersReaches DEF UserStep
    <2>3. ASSUME Receive PROVE Reached'
        <3> SUFFICES ASSUME NEW s \in Peers, NEW p \in Peers, NEW i \in Deliverable(s, p),
                            \/ OnInvitationReceived(s, p, i) \/ OnInviteeAccept(s, p, i)
                            \/ OnMemberQuit(s, p, i) \/ OnMemberRequest(s, p, i)
                            \/ OnMemberResponse(s, p, i) \/ OnOptionResponse(s, p, i)
                            \/ HandleIncomingGroupMessage(s, p, i)
                     PROVE  Reached'
            BY <2>3 DEF Receive
        <3>2. i = 1  BY <1>0, FirstTaken
        <3>3. CASE p = Owner
            <4>1. OwnerHandles(s)  BY <3>2, <3>3 DEF OwnerHandles
            <4> QED  BY <3>2, <3>3, <4>1, OwnerHandlesStep
        <3>4. CASE p # Owner
            <4>1. Handles(s, p)  BY <3>2, <3>4 DEF Handles
            <4> QED  BY <3>2, <4>1, MemberHandles
        <3> QED  BY <3>3, <3>4
    <2>4. ~Network
        <3>1. spent["dups"] \in Nat  BY <1>0 DEF TypeOK, Bounds
        <3> QED  BY <3>1 DEF Network, Redeliver, Spend
    <2>5. Reached'  BY <1>3, <2>2, <2>3, <2>4 DEF Next
    <2> QED  BY <1>1, <2>1, <2>5 DEF OrderInv
<1> QED  BY <1>2, <1>3

LEMMA OrderKept == ASSUME InOrder, MaxDups = 0 PROVE Spec => []OrderInv
<1>1. OrderInv /\ [Next]_vars => OrderInv'  BY OrderStep
<1> QED  BY <1>1, InitOrder, PTL DEF Spec

\* Over channels that keep their order and repeat nothing, whoever is in the group lists,
\* once nothing is on its way between it and the owner, every member the owner lists: the
\* full table that answers a request and the single rows sent at each accept add up, for
\* any number of peers and whoever joins, leaves or is removed meanwhile.
THEOREM NobodyIsMissing == ASSUME InOrder, MaxDups = 0 PROVE Spec => []NobodyMissing
<1>1. OrderInv => NobodyMissing
    BY AtRest DEF NobodyMissing, Fits
<1> QED  BY <1>1, OrderKept, PTL

\* And nobody in the group lists a peer the owner has removed: no older list of members
\* arrives after the one that says so.
THEOREM KicksReachEveryone == ASSUME InOrder, MaxDups = 0 PROVE Spec => []KickReachesEveryone
<1>1. OrderInv => KickReachesEveryone
    BY AtRest DEF KickReachesEveryone, Fits
<1> QED  BY <1>1, OrderKept, PTL

\* And everybody in the group has the owner's version of it.
THEOREM VersionsSettle == ASSUME InOrder, MaxDups = 0 PROVE Spec => []VersionSettles
<1>1. OrderInv => VersionSettles
    BY AtRest DEF VersionSettles
<1> QED  BY <1>1, OrderKept, PTL

===========================================================================
