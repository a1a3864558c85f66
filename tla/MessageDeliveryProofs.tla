----------------------- MODULE MessageDeliveryProofs -----------------------
(***************************************************************************)
(* Proofs about MessageDelivery, for any finite set of messages and any    *)
(* bound: its type invariant, the truth of the statuses an author sees,    *)
(* the exactness of the unread badge, the agreement of the renderer with   *)
(* the tables, and the order of the statuses of a settled message.         *)
(***************************************************************************)
EXTENDS MessageDelivery, FiniteSetTheorems, TLAPS

\* The two ends of the conversation know each other.
LEMMA Ends ==
    /\ \A p \in Peers : Other(p) \in Peers /\ Other(p) # p
    /\ \A p, q \in Peers : q # p => q = Other(p)
    /\ \A m \in Messages : Author[m] \in Peers
<1>1. PICK p, q \in Peers : p # q /\ Peers = {p, q}
  BY MessagesAssumption
<1>2. Other(p) = q /\ Other(q) = p
  BY <1>1 DEF Other
<1> QED BY <1>1, <1>2, MessagesAssumption

LEMMA RecipientIs ==
    ASSUME NEW m \in Messages
    PROVE  /\ Author[m] \in Peers /\ Recipient(m) \in Peers
           /\ Recipient(m) # Author[m]
           /\ \A p \in Peers : p # Author[m] => p = Recipient(m)
BY Ends DEF Recipient

LEMMA InitType == Init => TypeOK
BY Ends DEF Init, TypeOK, Status, Task

\* A packet of one message, or of several received at one end, is addressed to
\* one end.
LEMMA PacketTyped ==
    /\ \A m \in Messages : \A type \in PacketTypes :
          /\ Packet(type, {m}) \in [type : PacketTypes, ids : SUBSET Messages]
          /\ \E p \in Peers : Addressee(p, Packet(type, {m}))
          /\ Packet(type, {m}).ids = {m}
    /\ \A p \in Peers : \A ids \in SUBSET Received(p) :
          /\ Packet("read", ids) \in [type : PacketTypes, ids : SUBSET Messages]
          /\ Packet("read", ids).type = "read"
          /\ \E q \in Peers : Addressee(q, Packet("read", ids))
<1>1. ASSUME NEW m \in Messages, NEW type \in PacketTypes
      PROVE  \E p \in Peers : Addressee(p, Packet(type, {m}))
  <2>1. CASE type = "message"
    <3>1. Addressee(Recipient(m), Packet(type, {m}))
      BY <2>1, RecipientIs DEF Addressee, Packet, Received
    <3> QED BY <3>1, RecipientIs
  <2>2. CASE type # "message"
    <3>1. Addressee(Author[m], Packet(type, {m}))
      BY <2>2 DEF Addressee, Packet, Sent
    <3> QED BY <3>1, RecipientIs
  <2> QED BY <2>1, <2>2
<1>2. ASSUME NEW p \in Peers, NEW ids \in SUBSET Received(p)
      PROVE  Addressee(Other(p), Packet("read", ids))
  BY Ends DEF Addressee, Packet, Sent, Received
<1>3. ASSUME NEW p \in Peers, NEW ids \in SUBSET Received(p)
      PROVE  Packet("read", ids) \in [type : PacketTypes, ids : SUBSET Messages]
  BY DEF Packet, PacketTypes, Received
<1> QED BY <1>1, <1>2, <1>3, Ends DEF Packet

WireTyped(packets) ==
    /\ packets \subseteq [type : PacketTypes, ids : SUBSET Messages]
    /\ \A packet \in packets :
          /\ \E p \in Peers : Addressee(p, packet)
          /\ packet.type # "read" => \E m \in Messages : packet.ids = {m}

LEMMA WireGrows ==
    ASSUME NEW packets, WireTyped(packets)
    PROVE  /\ \A m \in Messages : \A type \in PacketTypes :
                WireTyped(packets \cup {Packet(type, {m})})
           /\ \A p \in Peers : \A ids \in SUBSET Received(p) :
                WireTyped(packets \cup {Packet("read", ids)})
           /\ \A rest \in SUBSET packets : WireTyped(rest)
<1>1. ASSUME NEW m \in Messages, NEW type \in PacketTypes
      PROVE  WireTyped(packets \cup {Packet(type, {m})})
  <2> DEFINE new == Packet(type, {m})
  <2>1. /\ new \in [type : PacketTypes, ids : SUBSET Messages]
        /\ \E p \in Peers : Addressee(p, new)
        /\ new.ids = {m}
    BY PacketTyped
  <2> HIDE DEF new
  <2>2. WireTyped(packets \cup {new})
    BY <2>1 DEF WireTyped
  <2> QED BY <2>2 DEF new
<1>2. ASSUME NEW p \in Peers, NEW ids \in SUBSET Received(p)
      PROVE  WireTyped(packets \cup {Packet("read", ids)})
  BY <1>2, PacketTyped DEF WireTyped
<1>3. ASSUME NEW rest \in SUBSET packets
      PROVE  WireTyped(rest)
  BY <1>3 DEF WireTyped
<1> QED BY <1>1, <1>2, <1>3

LEMMA PushTyped ==
    ASSUME TypeOK, NEW p \in Peers, NEW m \in Messages, NEW status \in Status
    PROVE  Push(p, m, status) \in [Peers -> [Messages -> Status]]
BY DEF TypeOK, Push

\* What a packet in the relay gives the handler it is handed to.
LEMMA Handled ==
    ASSUME TypeOK, NEW p \in Peers, Receive(p) \/ ReceiveAgain(p)
    PROVE  \E packet \in wire, rest \in SUBSET wire : Handle(p, packet, rest)
BY DEF Receive, ReceiveAgain

LEMMA TypeStep == TypeOK /\ [Next]_vars => TypeOK'
<1> SUFFICES ASSUME TypeOK, [Next]_vars PROVE TypeOK'
  OBVIOUS
<1> USE DEF rows, link
<1>0. /\ WireTyped(wire)
      /\ TypeOK' <=> /\ own' \in [Messages -> Status]
                     /\ copy' \in [Messages -> {"none", "delivered", "read"}]
                     /\ gone' \in [Peers -> SUBSET Messages]
                     /\ unread' \in [Peers -> Nat]
                     /\ shown' \in [Peers -> [Messages -> Status]]
                     /\ loaded' \subseteq Peers /\ online' \subseteq Peers
                     /\ task' \in [Messages -> Task]
                     /\ fetching' \subseteq Attachments
                     /\ WireTyped(wire')
                     /\ cuts' \in Nat
  BY DEF TypeOK, WireTyped, Addressee
<1>1. ASSUME NEW m \in Messages, StartSend(m) PROVE TypeOK'
  <2>1. WireTyped(wire')
    BY <1>1, <1>0, WireGrows DEF StartSend, PacketTypes
  <2>2. shown' \in [Peers -> [Messages -> Status]]
    BY <1>1, PushTyped, RecipientIs DEF StartSend, Status
  <2> QED BY <1>0, <1>1, <2>1, <2>2 DEF StartSend, TypeOK, Status, Task
<1>2. ASSUME NEW m \in Messages, NEW status \in Status, Finish(m, status),
             WireTyped(wire')
      PROVE  TypeOK'
  <2>1. shown' \in [Peers -> [Messages -> Status]]
    BY <1>2, PushTyped, RecipientIs DEF Finish
  <2> QED BY <1>0, <1>2, <2>1 DEF Finish, TypeOK, Task
<1>3. ASSUME NEW m \in Messages, EndOfTask(m) PROVE TypeOK'
  <2>1. WireTyped(wire')
    BY <1>3, <1>0, WireGrows
    DEF EndOfTask, Acknowledged, TimesOut, Uploaded, UploadFails, PacketTypes
  <2>2. \E status \in Status : Finish(m, status)
    BY <1>3 DEF EndOfTask, Acknowledged, TimesOut, Uploaded, UploadFails, Status
  <2> QED BY <1>2, <2>1, <2>2
<1>4. ASSUME NEW m \in Messages, Downloaded(m) PROVE TypeOK'
  <2>1. shown' \in [Peers -> [Messages -> Status]]
    BY <1>4, PushTyped, RecipientIs DEF Downloaded, Status
  <2> QED BY <1>0, <1>4, <2>1 DEF Downloaded, TypeOK
<1>5. ASSUME NEW p \in Peers, NEW packet \in wire, NEW rest \in SUBSET wire,
             Handle(p, packet, rest)
      PROVE  TypeOK'
  <2>0. WireTyped(rest)
    BY <1>0, WireGrows
  <2>i. packet.ids \subseteq Messages
    BY DEF TypeOK
  <2>1. ASSUME NEW m \in packet.ids, OnMessage(m, rest) PROVE TypeOK'
    <3>1. CASE Known(m)
      BY <3>1, <2>0, <2>1, <1>0 DEF OnMessage, TypeOK
    <3>2. CASE ~Known(m)
      <4>1. m \in Messages /\ Recipient(m) \in Peers
        BY <2>i, RecipientIs
      <4>2. WireTyped(wire')
        BY <3>2, <4>1, <2>0, <2>1, WireGrows DEF OnMessage, PacketTypes
      <4>3. shown' \in [Peers -> [Messages -> Status]]
        BY <3>2, <4>1, <2>1, PushTyped DEF OnMessage, Status
      <4>4. /\ copy' = [copy EXCEPT ![m] = "delivered"]
            /\ unread' = [unread EXCEPT ![Recipient(m)] = @ + 1]
            /\ fetching' = fetching \cup Downloads(m)
            /\ UNCHANGED <<own, gone, loaded, task, online, cuts>>
        BY <3>2, <2>1 DEF OnMessage
      <4> QED BY <1>0, <4>1, <4>2, <4>3, <4>4 DEF TypeOK, Downloads
    <3> QED BY <3>1, <3>2
  <2>2. ASSUME NEW m \in packet.ids, OnReceipt(m, rest) PROVE TypeOK'
    <3>1. shown' \in [Peers -> [Messages -> Status]]
      <4>1. Push(Author[m], m, "delivered") \in [Peers -> [Messages -> Status]]
        BY <2>i, PushTyped, RecipientIs DEF Status
      <4> QED BY <2>2, <4>1 DEF OnReceipt, TypeOK
    <3> QED BY <1>0, <2>0, <2>2, <2>i, <3>1 DEF OnReceipt, TypeOK, Status
  <2>3. ASSUME OnRead(p, packet.ids, rest) PROVE TypeOK'
    BY <1>0, <2>0, <2>3 DEF OnRead, TypeOK, Status
  <2> QED BY <1>5, <2>1, <2>2, <2>3 DEF Handle
<1>6. ASSUME NEW p \in Peers, LoadMessages(p) PROVE TypeOK'
  <2>1. \A m \in Messages : Row(p, m) \in Status
    BY DEF Row, TypeOK, Status
  <2> QED BY <1>0, <1>6, <2>1 DEF LoadMessages, TypeOK, Status
<1>7. ASSUME NEW p \in Peers, MarkSessionRead(p) PROVE TypeOK'
  <2>1. WireTyped(wire')
    BY <1>0, <1>7, WireGrows DEF MarkSessionRead, NotYetRead
  <2> QED BY <1>0, <1>7, <2>1 DEF MarkSessionRead, TypeOK
<1>8. ASSUME NEW p \in Peers, Tick(p) PROVE TypeOK'
  BY <1>0, <1>8 DEF Tick, Burn, TypeOK, Status
<1>9. ASSUME NEW p \in Peers, Restart(p) PROVE TypeOK'
  BY <1>0, <1>9 DEF Restart, TypeOK, Status, Task
<1>10. ASSUME NEW p \in Peers, Disconnect(p) \/ Connect(p) PROVE TypeOK'
  BY <1>0, <1>10 DEF Disconnect, Connect, TypeOK, Task
<1>11. CASE UNCHANGED vars
  BY <1>11, <1>0 DEF vars, TypeOK
<1> QED
  BY <1>1, <1>3, <1>4, <1>5, <1>6, <1>7, <1>8, <1>9, <1>10, <1>11, Handled DEF Next

\* Every variable of MessageDelivery keeps its type in every behaviour.
THEOREM TypeCorrect == Spec => []TypeOK
BY InitType, TypeStep, PTL DEF Spec

-----------------------------------------------------------------------------

\* The order of the statuses of a settled message needs no more than the types.
LEMMA SettledStep ==
    ASSUME TypeOK, [Next]_vars, NEW m \in Messages, task[m] = "idle"
    PROVE  Advances(m)
<1>1. SUFFICES ASSUME Next, own'[m] # own[m] PROVE own'[m] \in Later(own[m])
  BY DEF Advances, vars
<1>2. ASSUME NEW n \in Messages, StartSend(n) PROVE own'[m] \in Later(own[m])
  BY <1>1, <1>2 DEF StartSend, Later, Status, TypeOK
<1>3. ASSUME NEW n \in Messages, EndOfTask(n) PROVE FALSE
  BY <1>1, <1>3
  DEF EndOfTask, Acknowledged, TimesOut, Uploaded, UploadFails, Finish, TypeOK
<1>4. ASSUME NEW n \in Messages, Downloaded(n) PROVE FALSE
  BY <1>1, <1>4 DEF Downloaded, rows
<1>5. ASSUME NEW p \in Peers, NEW packet \in wire, NEW rest \in SUBSET wire,
             Handle(p, packet, rest)
      PROVE  own'[m] \in Later(own[m])
  <2>1. ASSUME NEW n \in packet.ids, OnMessage(n, rest) PROVE FALSE
    BY <1>1, <2>1 DEF OnMessage, rows
  <2>2. ASSUME NEW n \in packet.ids, OnReceipt(n, rest)
        PROVE  own'[m] \in Later(own[m])
    <3>1. own[n] \in {"sending", "sent"} /\ own' = [own EXCEPT ![n] = "delivered"]
      BY <1>1, <2>2 DEF OnReceipt
    <3> QED BY <1>1, <3>1 DEF TypeOK, Later
  <2>3. ASSUME OnRead(p, packet.ids, rest) PROVE own'[m] \in Later(own[m])
    <3>1. own[m] \in Status \ {"none", "read", "failed"} /\ own'[m] = "read"
      BY <1>1, <2>3 DEF OnRead, Readable, TypeOK
    <3> QED BY <3>1 DEF Status, Later
  <2> QED BY <1>5, <2>1, <2>2, <2>3 DEF Handle
<1>6. ASSUME NEW p \in Peers,
             \/ LoadMessages(p) \/ MarkSessionRead(p) \/ Tick(p)
             \/ Restart(p) \/ Disconnect(p) \/ Connect(p)
      PROVE  FALSE
  BY <1>1, <1>6
  DEF LoadMessages, MarkSessionRead, Tick, Burn, Restart, Disconnect, Connect, rows
<1> QED BY <1>1, <1>2, <1>3, <1>4, <1>5, <1>6, Handled DEF Next

\* Once a send has ended, receipts move the status forward only (OnReceipt,
\* OnRead): read and failed are final.
THEOREM SettledForward == Spec => SettledAdvances
<1>1. TypeOK /\ [Next]_vars => [\A m \in Messages : task[m] = "idle" => Advances(m)]_vars
  BY SettledStep
<1> QED BY <1>1, TypeCorrect, PTL DEF Spec, SettledAdvances

-----------------------------------------------------------------------------

\* What makes StatusHonest inductive: a receipt is in the relay only after the
\* row it speaks of was inserted, a read receipt only after its rows were marked
\* (markSessionRead marks first), and an upload belongs to an attachment.
Truth ==
    /\ StatusHonest
    /\ \A packet \in wire : \A m \in packet.ids :
          /\ packet.type = "receipt" => copy[m] # "none"
          /\ packet.type = "read" => copy[m] = "read"
    /\ \A m \in Messages : task[m] = "upload" => m \in Attachments

\* A recipient's row never goes back.
CopyGrows ==
    \A m \in Messages :
        /\ copy[m] # "none" => copy'[m] # "none"
        /\ copy[m] = "read" => copy'[m] = "read"

LEMMA TruthOfPackets ==
    ASSUME TypeOK, Truth, TypeOK', CopyGrows,
           \A packet \in wire' \ wire : \A m \in packet.ids :
              /\ packet.type = "receipt" => copy'[m] # "none"
              /\ packet.type = "read" => copy'[m] = "read"
    PROVE  \A packet \in wire' : \A m \in packet.ids :
              /\ packet.type = "receipt" => copy'[m] # "none"
              /\ packet.type = "read" => copy'[m] = "read"
BY DEF TypeOK, Truth, CopyGrows

\* A step that leaves every outbound status and every task alone, or ends tasks.
LEMMA TruthKept ==
    ASSUME TypeOK, Truth, TypeOK', CopyGrows, own' = own,
           \A m \in Messages : task'[m] = "upload" => task[m] = "upload",
           \A packet \in wire' \ wire : \A m \in packet.ids :
              /\ packet.type = "receipt" => copy'[m] # "none"
              /\ packet.type = "read" => copy'[m] = "read"
    PROVE  Truth'
BY TruthOfPackets DEF Truth, StatusHonest, CopyGrows

LEMMA TruthStep == TypeOK /\ Truth /\ TypeOK' /\ [Next]_vars => Truth'
<1> SUFFICES ASSUME TypeOK, Truth, TypeOK', [Next]_vars PROVE Truth'
  OBVIOUS
<1> USE DEF rows, link
<1>1. ASSUME NEW n \in Messages, StartSend(n) PROVE Truth'
  <2>1. /\ CopyGrows
        /\ \A m \in Messages : task'[m] = "upload" => m \in Attachments
        /\ own' = [own EXCEPT ![n] = "sending"]
        /\ \A packet \in wire' \ wire : packet.type = "message"
    BY <1>1 DEF StartSend, CopyGrows, Packet, Messages, Truth, TypeOK
  <2>2. StatusHonest'
    BY <1>1, <2>1 DEF StatusHonest, Truth, TypeOK, StartSend
  <2> QED BY <2>1, <2>2, TruthOfPackets DEF Truth
<1>2. ASSUME NEW n \in Messages, EndOfTask(n) PROVE Truth'
  <2>1. /\ CopyGrows /\ copy' = copy
        /\ \A m \in Messages : task'[m] = "upload" => task[m] = "upload"
        /\ \A packet \in wire' \ wire : packet.type = "message"
    BY <1>2 DEF EndOfTask, Acknowledged, TimesOut, Uploaded, UploadFails, Finish,
                CopyGrows, Packet, TypeOK
  <2>2. PICK status \in {"sent", "failed"} :
          /\ own' = [own EXCEPT ![n] = status]
          /\ status = "sent" => copy[n] # "none" \/ n \in Attachments
    BY <1>2 DEF EndOfTask, Acknowledged, TimesOut, Uploaded, UploadFails, Finish,
                Truth
  <2>3. StatusHonest'
    BY <2>1, <2>2, MessagesAssumption DEF StatusHonest, Truth, TypeOK, Messages
  <2> QED BY <2>1, <2>3, TruthOfPackets DEF Truth
<1>3. ASSUME NEW n \in Messages, Downloaded(n) PROVE Truth'
  BY <1>3, TruthKept DEF Downloaded, CopyGrows
<1>4. ASSUME NEW p \in Peers, NEW packet \in wire, NEW rest \in SUBSET wire,
             Handle(p, packet, rest)
      PROVE  Truth'
  <2>i. packet.ids \subseteq Messages
    BY DEF TypeOK
  <2>1. ASSUME NEW n \in packet.ids, OnMessage(n, rest) PROVE Truth'
    <3>1. CopyGrows
      <4>1. \/ copy' = copy
            \/ copy[n] = "none" /\ copy' = [copy EXCEPT ![n] = "delivered"]
        BY <2>1 DEF OnMessage, Known
      <4> QED BY <4>1 DEF CopyGrows, TypeOK
    <3>2. ASSUME NEW new \in wire' \ wire
          PROVE  /\ new.type = "receipt"
                 /\ \A m \in new.ids : copy'[m] # "none"
      <4>1. new = Packet("receipt", {n}) /\ copy' = [copy EXCEPT ![n] = "delivered"]
        BY <2>1, <3>2 DEF OnMessage
      <4>2. new.type = "receipt" /\ new.ids = {n}
        BY <4>1 DEF Packet
      <4>3. copy'[n] = "delivered"
        BY <4>1, <2>i DEF TypeOK
      <4> QED BY <4>2, <4>3
    <3>3. own' = own /\ task' = task
      BY <2>1 DEF OnMessage
    <3> QED BY <3>1, <3>2, <3>3, TruthKept
  <2>2. ASSUME NEW n \in packet.ids, packet.type = "receipt", OnReceipt(n, rest)
        PROVE  Truth'
    <3>1. copy[n] # "none"
      BY <2>2 DEF Truth
    <3>2. CopyGrows /\ copy' = copy /\ task' = task /\ wire' \subseteq wire
      BY <2>2 DEF OnReceipt, CopyGrows
    <3>3. own' = own \/ own' = [own EXCEPT ![n] = "delivered"]
      BY <2>2 DEF OnReceipt
    <3>4. StatusHonest'
      BY <2>i, <3>1, <3>2, <3>3 DEF StatusHonest, Truth, TypeOK
    <3> QED BY <3>2, <3>4, TruthOfPackets DEF Truth
  <2>3. ASSUME packet.type = "read", OnRead(p, packet.ids, rest) PROVE Truth'
    <3>1. \A m \in packet.ids : copy[m] = "read"
      BY <2>3 DEF Truth
    <3>2. CopyGrows /\ copy' = copy /\ task' = task /\ wire' \subseteq wire
      BY <2>3 DEF OnRead, CopyGrows
    <3>3. \A m \in Messages :
             own'[m] = own[m] \/ (m \in packet.ids /\ own'[m] = "read")
      BY <2>3 DEF OnRead, Readable
    <3>4. StatusHonest'
      BY <3>1, <3>2, <3>3 DEF StatusHonest, Truth
    <3> QED BY <3>2, <3>4, TruthOfPackets DEF Truth
  <2> QED BY <1>4, <2>1, <2>2, <2>3 DEF Handle
<1>5. ASSUME NEW p \in Peers, MarkSessionRead(p) PROVE Truth'
  <2>1. CopyGrows
    BY <1>5 DEF MarkSessionRead, CopyGrows
  <2>2. ASSUME NEW new \in wire' \ wire
        PROVE  /\ new.type = "read"
               /\ \A m \in new.ids : copy'[m] = "read"
    <3>1. new = Packet("read", NotYetRead(p))
      BY <1>5, <2>2 DEF MarkSessionRead
    <3> QED BY <1>5, <3>1 DEF Packet, MarkSessionRead, NotYetRead, Received
  <2>3. own' = own /\ task' = task
    BY <1>5 DEF MarkSessionRead
  <2> QED BY <2>1, <2>2, <2>3, TruthKept
<1>6. ASSUME NEW p \in Peers,
             \/ LoadMessages(p) \/ Tick(p)
             \/ Restart(p) \/ Disconnect(p) \/ Connect(p)
      PROVE  Truth'
  <2>1. /\ own' = own /\ copy' = copy /\ wire' = wire
        /\ \A m \in Messages : task'[m] = "upload" => task[m] = "upload"
    BY <1>6 DEF LoadMessages, Tick, Burn, Restart, Disconnect, Connect
  <2> QED BY <2>1, TruthKept DEF CopyGrows
<1>7. CASE UNCHANGED vars
  BY <1>7, TruthKept DEF vars, CopyGrows
<1> QED BY <1>1, <1>2, <1>3, <1>4, <1>5, <1>6, <1>7, Handled DEF Next

LEMMA InitTruth == Init => Truth
BY DEF Init, Truth, StatusHonest

\* An author's check marks never claim more than the recipient's table holds,
\* whatever is duplicated, reordered, restarted or disconnected.
THEOREM StatusTruthful == Spec => []StatusHonest
<1>1. Truth => StatusHonest
  BY DEF Truth
<1> QED BY <1>1, InitType, TypeStep, InitTruth, TruthStep, PTL DEF Spec

-----------------------------------------------------------------------------

\* The inbound rows that the badge counts.
Unseen(p) == {m \in Received(p) : copy[m] = "delivered"}

LEMMA UnseenFinite == \A p \in Peers : IsFiniteSet(Unseen(p))
<1>1. \A p \in Peers : Unseen(p) \subseteq Messages
  BY DEF Unseen, Received
<1> QED BY <1>1, FS_Subset, MessagesAssumption

LEMMA UnreadStep == TypeOK /\ UnreadExact /\ [Next]_vars => UnreadExact'
<1> SUFFICES ASSUME TypeOK, UnreadExact, [Next]_vars PROVE UnreadExact'
  OBVIOUS
<1> USE DEF rows, link
<1>0. /\ UnreadExact <=> \A p \in Peers : unread[p] = Cardinality(Unseen(p))
      /\ UnreadExact' <=> \A p \in Peers : unread'[p] = Cardinality(Unseen(p)')
  BY DEF UnreadExact, Unseen
<1>1. ASSUME copy' = copy, unread' = unread PROVE UnreadExact'
  BY <1>0, <1>1 DEF Unseen
<1>2. ASSUME NEW n \in Messages, StartSend(n) \/ EndOfTask(n) \/ Downloaded(n)
      PROVE  UnreadExact'
  BY <1>1, <1>2
  DEF StartSend, EndOfTask, Acknowledged, TimesOut, Uploaded, UploadFails, Finish,
      Downloaded
<1>3. ASSUME NEW p \in Peers, NEW packet \in wire, NEW rest \in SUBSET wire,
             Handle(p, packet, rest)
      PROVE  UnreadExact'
  <2>1. ASSUME NEW n \in packet.ids, ~Known(n), OnMessage(n, rest)
        PROVE  UnreadExact'
    <3>0. n \in Messages
      BY DEF TypeOK
    <3>1. /\ copy[n] = "none"
          /\ copy' = [copy EXCEPT ![n] = "delivered"]
          /\ unread' = [unread EXCEPT ![Recipient(n)] = @ + 1]
      BY <2>1 DEF OnMessage, Known
    <3>2. SUFFICES ASSUME NEW q \in Peers
                   PROVE  unread'[q] = Cardinality(Unseen(q)')
      BY <1>0
    <3>3. CASE q = Recipient(n)
      <4>1. n \notin Unseen(q) /\ Unseen(q)' = Unseen(q) \cup {n}
        BY <3>0, <3>1, <3>3, RecipientIs DEF Unseen, Received, TypeOK
      <4>2. Cardinality(Unseen(q) \cup {n}) = Cardinality(Unseen(q)) + 1
        BY <4>1, UnseenFinite, FS_AddElement
      <4>3. unread'[q] = unread[q] + 1
        BY <3>1, <3>3 DEF TypeOK
      <4> QED BY <1>0, <4>1, <4>2, <4>3
    <3>4. CASE q # Recipient(n)
      <4>1. Unseen(q)' = Unseen(q)
        BY <3>0, <3>1, <3>4, RecipientIs DEF Unseen, Received, TypeOK
      <4>2. unread'[q] = unread[q]
        BY <3>0, <3>1, <3>4, RecipientIs DEF TypeOK
      <4> QED BY <1>0, <4>1, <4>2
    <3> QED BY <3>3, <3>4
  <2>2. ASSUME NEW n \in packet.ids, Known(n), OnMessage(n, rest)
        PROVE  UnreadExact'
    BY <1>1, <2>2 DEF OnMessage
  <2>3. ASSUME NEW n \in packet.ids, OnReceipt(n, rest) PROVE UnreadExact'
    BY <1>1, <2>3 DEF OnReceipt
  <2>4. ASSUME OnRead(p, packet.ids, rest) PROVE UnreadExact'
    BY <1>1, <2>4 DEF OnRead
  <2> QED BY <1>3, <2>1, <2>2, <2>3, <2>4 DEF Handle
<1>4. ASSUME NEW p \in Peers, MarkSessionRead(p) PROVE UnreadExact'
  <2>1. /\ unread' = [unread EXCEPT ![p] = 0]
        /\ copy' = [m \in Messages |-> IF m \in NotYetRead(p) THEN "read" ELSE copy[m]]
    BY <1>4 DEF MarkSessionRead
  <2>2. SUFFICES ASSUME NEW q \in Peers
                 PROVE  unread'[q] = Cardinality(Unseen(q)')
    BY <1>0
  <2>3. CASE q = p
    <3>1. Unseen(q)' = {}
      BY <2>1, <2>3 DEF Unseen, NotYetRead, Received
    <3> QED BY <2>1, <2>3, <3>1, FS_EmptySet DEF TypeOK
  <2>4. CASE q # p
    <3>1. Unseen(q)' = Unseen(q)
      BY <2>1, <2>4, Ends DEF Unseen, NotYetRead, Received
    <3> QED BY <1>0, <2>1, <2>4, <3>1 DEF TypeOK
  <2> QED BY <2>3, <2>4
<1>5. ASSUME NEW p \in Peers,
             \/ LoadMessages(p) \/ Tick(p)
             \/ Restart(p) \/ Disconnect(p) \/ Connect(p)
      PROVE  UnreadExact'
  BY <1>1, <1>5 DEF LoadMessages, Tick, Burn, Restart, Disconnect, Connect
<1>6. CASE UNCHANGED vars
  BY <1>1, <1>6 DEF vars
<1> QED BY <1>2, <1>3, <1>4, <1>5, <1>6, Handled DEF Next

LEMMA InitUnread == Init => UnreadExact
<1> SUFFICES ASSUME Init, NEW p \in Peers
             PROVE  unread[p] = Cardinality({m \in Received(p) : copy[m] = "delivered"})
  BY DEF UnreadExact
<1>1. {m \in Received(p) : copy[m] = "delivered"} = {}
  BY DEF Init, Received
<1> QED BY <1>1, FS_EmptySet DEF Init

\* The badge of a session is the number of its inbound rows that are not read.
THEOREM UnreadCorrect == Spec => []UnreadExact
BY InitType, TypeStep, InitUnread, UnreadStep, PTL DEF Spec

-----------------------------------------------------------------------------

\* ViewAgrees for one end and one message.
Agrees(p, m) ==
    p \in loaded /\ m \in Stored(p) \ gone[p] =>
        IF Author[m] = p THEN shown[p][m] = own[m] ELSE shown[p][m] # "none"

LEMMA ViewStep == TypeOK /\ ViewAgrees /\ [Next]_vars => ViewAgrees'
<1> SUFFICES ASSUME TypeOK, ViewAgrees, [Next]_vars,
                    NEW p \in Peers, NEW m \in Messages
             PROVE  Agrees(p, m)'
  <2>1. ASSUME TypeOK, [Next]_vars PROVE loaded' \subseteq Peers
    BY <2>1, TypeStep DEF TypeOK
  <2> QED BY <2>1 DEF ViewAgrees, Agrees, Stored
<1> USE DEF rows, link, Stored, Row
<1>0. Agrees(p, m)
  BY DEF ViewAgrees, Agrees
\* A push shows the row it was made of, and leaves the rest of the lists alone.
<1>1. ASSUME NEW n \in Messages, NEW status,
             own' = [own EXCEPT ![n] = status], shown' = Push(Author[n], n, status),
             UNCHANGED <<copy, gone, loaded>>
      PROVE  Agrees(p, m)'
  BY <1>0, <1>1, RecipientIs DEF Agrees, Push, TypeOK
<1>2. ASSUME UNCHANGED <<own, copy, gone, shown, loaded>> PROVE Agrees(p, m)'
  BY <1>0, <1>2 DEF Agrees
<1>3. ASSUME NEW n \in Messages, StartSend(n) PROVE Agrees(p, m)'
  BY <1>1, <1>3 DEF StartSend
<1>4. ASSUME NEW n \in Messages, EndOfTask(n) PROVE Agrees(p, m)'
  BY <1>1, <1>4
  DEF EndOfTask, Acknowledged, TimesOut, Uploaded, UploadFails, Finish
<1>5. ASSUME NEW n \in Messages, Downloaded(n) PROVE Agrees(p, m)'
  <2>1. /\ shown' = Push(Recipient(n), n, "delivered")
        /\ UNCHANGED <<own, copy, gone, loaded>>
    BY <1>5 DEF Downloaded
  <2> QED BY <1>0, <2>1, RecipientIs DEF Agrees, Push, TypeOK
<1>6. ASSUME NEW q \in Peers, NEW packet \in wire, NEW rest \in SUBSET wire,
             Handle(q, packet, rest)
      PROVE  Agrees(p, m)'
  <2>i. packet.ids \subseteq Messages
    BY DEF TypeOK
  <2>1. ASSUME NEW n \in packet.ids, Known(n), OnMessage(n, rest)
        PROVE  Agrees(p, m)'
    BY <1>2, <2>1 DEF OnMessage
  <2>2. ASSUME NEW n \in packet.ids, ~Known(n), OnMessage(n, rest)
        PROVE  Agrees(p, m)'
    <3>1. /\ copy' = [copy EXCEPT ![n] = "delivered"]
          /\ shown' = Push(Recipient(n), n, "delivered")
          /\ UNCHANGED <<own, gone, loaded>>
      BY <2>2 DEF OnMessage
    <3> QED BY <1>0, <2>i, <3>1, RecipientIs DEF Agrees, Push, TypeOK
  <2>3. ASSUME NEW n \in packet.ids, OnReceipt(n, rest) PROVE Agrees(p, m)'
    BY <1>1, <1>2, <2>i, <2>3 DEF OnReceipt
  <2>4. ASSUME packet.type = "read", Addressee(q, packet), OnRead(q, packet.ids, rest)
        PROVE  Agrees(p, m)'
    <3>1. Readable(packet.ids) \subseteq Sent(q)
      BY <2>4 DEF Readable, Addressee
    <3>2. /\ own' = [n \in Messages |->
                        IF n \in Readable(packet.ids) THEN "read" ELSE own[n]]
          /\ shown' = [shown EXCEPT ![q] = [n \in Messages |->
                        IF n \in Readable(packet.ids) THEN "read" ELSE @[n]]]
          /\ UNCHANGED <<copy, gone, loaded>>
      BY <2>4 DEF OnRead
    <3>3. m \in Readable(packet.ids) => own[m] # "none" /\ Author[m] = q
      BY <3>1 DEF Readable, Sent
    <3> QED BY <1>0, <3>2, <3>3 DEF Agrees, TypeOK
  <2> QED BY <1>6, <2>1, <2>2, <2>3, <2>4 DEF Handle
<1>7. ASSUME NEW q \in Peers, LoadMessages(q) PROVE Agrees(p, m)'
  BY <1>0, <1>7 DEF LoadMessages, Agrees, TypeOK
<1>8. ASSUME NEW q \in Peers, MarkSessionRead(q) PROVE Agrees(p, m)'
  BY <1>0, <1>8 DEF MarkSessionRead, NotYetRead, Agrees, TypeOK
<1>9. ASSUME NEW q \in Peers, NEW expired, Burn(q, expired) PROVE Agrees(p, m)'
  BY <1>0, <1>9 DEF Burn, Agrees, TypeOK
<1>10. ASSUME NEW q \in Peers, Restart(q) PROVE Agrees(p, m)'
  <2>1. CASE p = q
    BY <1>10, <2>1 DEF Restart, Agrees
  <2>2. CASE p # q
    BY <1>0, <1>10, <2>2 DEF Restart, Agrees, TypeOK
  <2> QED BY <2>1, <2>2
<1>11. ASSUME NEW q \in Peers, Disconnect(q) \/ Connect(q) PROVE Agrees(p, m)'
  BY <1>2, <1>11 DEF Disconnect, Connect
<1>12. CASE UNCHANGED vars
  BY <1>2, <1>12 DEF vars
<1> QED
  BY <1>3, <1>4, <1>5, <1>6, <1>7, <1>8, <1>9, <1>10, <1>11, <1>12, Handled
  DEF Next, Tick

LEMMA InitView == Init => ViewAgrees
BY DEF Init, ViewAgrees

\* A renderer that has loaded the conversation never misses a message and never
\* shows an outbound one with a status its row no longer has.
THEOREM ViewCorrect == Spec => []ViewAgrees
BY InitType, TypeStep, InitView, ViewStep, PTL DEF Spec

=============================================================================
