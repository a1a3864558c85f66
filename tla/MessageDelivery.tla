-------------------------- MODULE MessageDelivery --------------------------
(***************************************************************************)
(* The life of the messages of one 1-to-1 conversation: ChatService of the *)
(* two ends (main process), their message and session tables, the list of  *)
(* messages each renderer keeps (chat-store), and the NKN relay between    *)
(* them.  A message has two rows that never see each other, the author's   *)
(* and the recipient's; receipts are all that ties them together.          *)
(*                                                                         *)
(* A handler of the main process runs to its first await, so it is one     *)
(* step; what follows the await is a step of its own, taken from `task`    *)
(* (sends and uploads of the author) or `fetching` (background downloads   *)
(* of the recipient).  The pushes of the main process reach the renderer   *)
(* in order on one IPC channel and no handler waits for one, so a push is  *)
(* applied to the renderer's list in the step that emits it.               *)
(***************************************************************************)
EXTENDS Naturals, FiniteSets

CONSTANTS
    Peers,          \* the two ends of the conversation
    Texts,          \* messages sent with sendMessage
    Attachments,    \* messages sent with sendImage, sendAudio or sendFile
    Burns,          \* the messages sent with deleteAfterSeconds > 0
    Author,         \* who sends each message
    CutLimit        \* bound: how often an end is restarted or disconnected

Messages == Texts \cup Attachments

ASSUME MessagesAssumption ==
    /\ IsFiniteSet(Messages)
    /\ Texts \cap Attachments = {}
    /\ Burns \subseteq Messages
    /\ Author \in [Messages -> Peers]
    /\ \E p, q \in Peers : p # q /\ Peers = {p, q}
ASSUME BoundAssumption == CutLimit \in Nat

VARIABLES
    own,        \* status of the author's row, "none" before it is inserted
    copy,       \* status of the recipient's row
    gone,       \* per end, the rows marked is_delete
    unread,     \* per end, session.unread_count
    shown,      \* per end, the renderer's list: the status each message shows
    loaded,     \* the ends whose renderer has loaded the conversation
    task,       \* what the author's process still awaits for each message
    fetching,   \* messages the recipient's process is downloading
    online,     \* the ends whose NKN client is connected
    wire,       \* packets the relay holds
    cuts        \* restarts and disconnections so far, up to CutLimit

rows == <<own, copy, gone, unread>>
link == <<online, wire>>
vars == <<own, copy, gone, unread, shown, loaded, task, fetching, online,
          wire, cuts>>

Status == {"none", "sending", "sent", "delivered", "read", "failed"}
Task == {"idle", "send", "orphan", "upload"}

Other(p) == CHOOSE q \in Peers : q # p
Recipient(m) == Other(Author[m])
Sent(p) == {m \in Messages : Author[m] = p}
Received(p) == {m \in Messages : Author[m] # p}

Packet(type, ids) == [type |-> type, ids |-> ids]
PacketTypes == {"message", "receipt", "read"}

\* The end a packet is addressed to.
Addressee(p, packet) ==
    packet.ids \subseteq
        (IF packet.type = "message" THEN Received(p) ELSE Sent(p))

\* The row p's table keeps of a message.
Row(p, m) == IF Author[m] = p THEN own[m] ELSE copy[m]
Stored(p) == {m \in Messages : Row(p, m) # "none"}

\* pushToRenderer("chat:onMessage"): update in place or append.
Push(p, m, status) == [shown EXCEPT ![p][m] = status]

Init ==
    /\ own = [m \in Messages |-> "none"]
    /\ copy = [m \in Messages |-> "none"]
    /\ gone = [p \in Peers |-> {}]
    /\ unread = [p \in Peers |-> 0]
    /\ shown = [p \in Peers |-> [m \in Messages |-> "none"]]
    /\ loaded = {}
    /\ task = [m \in Messages |-> "idle"]
    /\ fetching = {}
    /\ online = Peers
    /\ wire = {}
    /\ cuts = 0

-----------------------------------------------------------------------------
(* The author. *)

\* sendMessage and send*Message up to the await: the row is inserted as
\* "sending"; a text is handed to the relay at once, an attachment is uploaded
\* first.  Without an address ("Not connected") both throw before the insert.
StartSend(m) ==
    /\ own[m] = "none"
    /\ Author[m] \in online
    /\ own' = [own EXCEPT ![m] = "sending"]
    /\ shown' = Push(Author[m], m, "sending")
    /\ task' = [task EXCEPT ![m] = IF m \in Texts THEN "send" ELSE "upload"]
    /\ wire' = IF m \in Texts THEN wire \cup {Packet("message", {m})} ELSE wire
    /\ UNCHANGED <<copy, gone, unread, loaded, fetching, online, cuts>>

\* mutant: the outcome is stored but the renderer is not told
FinishSilently(m, status) ==
    /\ task' = [task EXCEPT ![m] = "idle"]
    /\ own' = [own EXCEPT ![m] = status]
    /\ UNCHANGED <<copy, gone, unread, shown, loaded, fetching, online, cuts>>

\* The end of a send: the row and the renderer get the outcome, whatever the
\* row holds by now.
Finish(m, status) ==
    /\ task' = [task EXCEPT ![m] = "idle"]
    /\ own' = [own EXCEPT ![m] = status]
    /\ shown' = Push(Author[m], m, status)
    /\ UNCHANGED <<copy, gone, unread, loaded, fetching, online, cuts>>

\* The awaited client.send of a text resolves: nkn-sdk saw the recipient's ACK.
Acknowledged(m) ==
    /\ task[m] = "send"
    /\ copy[m] # "none"
    /\ Finish(m, "sent")
    /\ UNCHANGED wire

\* It rejects: no ACK in time, or the client that sent it was closed.
TimesOut(m) ==
    /\ task[m] \in {"send", "orphan"}
    /\ Finish(m, "failed")
    /\ UNCHANGED wire

\* processAndUpload resolves: the announcement is handed over without waiting
\* for an ACK, and sendMessageNoReply throws when the client is gone.
Uploaded(m) ==
    /\ task[m] = "upload"
    /\ IF Author[m] \in online
       THEN Finish(m, "sent") /\ wire' = wire \cup {Packet("message", {m})}
       ELSE Finish(m, "failed") /\ UNCHANGED wire

UploadFails(m) ==
    /\ task[m] = "upload"
    /\ Finish(m, "failed")
    /\ UNCHANGED wire

\* mutant: the status of the row is not looked at
OnReceiptAnyStatus(m, rest) ==
    /\ wire' = rest
    /\ own' = [own EXCEPT ![m] = "delivered"]
    /\ shown' = Push(Author[m], m, "delivered")
    /\ UNCHANGED <<copy, gone, unread, loaded, task, fetching, online, cuts>>

\* handleIncomingMessage, "receipt".
OnReceipt(m, rest) ==
    /\ wire' = rest
    /\ IF own[m] \in {"sending", "sent"}
       THEN /\ own' = [own EXCEPT ![m] = "delivered"]
            /\ shown' = Push(Author[m], m, "delivered")
       ELSE UNCHANGED <<own, shown>>
    /\ UNCHANGED <<copy, gone, unread, loaded, task, fetching, online, cuts>>

\* mutant: every row of the author, as if ids were an upper bound
ReadableUpTo(ids) == {m \in Messages : own[m] \notin {"none", "read", "failed"}}

\* mutant: only rows whose delivery receipt has come
ReadableDelivered(ids) == {m \in ids : own[m] = "delivered"}

\* handleIncomingMessage, "read": the rows named that are neither read nor
\* failed.
Readable(ids) == {m \in ids : own[m] \notin {"none", "read", "failed"}}

OnRead(p, ids, rest) ==
    LET news == Readable(ids) IN
    /\ wire' = rest
    /\ own' = [m \in Messages |-> IF m \in news THEN "read" ELSE own[m]]
    /\ shown' = [shown EXCEPT ![p] =
                    [m \in Messages |-> IF m \in news THEN "read" ELSE @[m]]]
    /\ UNCHANGED <<copy, gone, unread, loaded, task, fetching, online, cuts>>

-----------------------------------------------------------------------------
(* The recipient. *)

\* findById: the row is already there, deleted or not.
Known(m) == copy[m] # "none"

\* mutant: whatever arrives is downloaded
DownloadsAny(m) == {m}

\* Only a message that announces content on IPFS is downloaded.
Downloads(m) == {m} \cap Attachments

\* handleIncomingMessage, displayable types: a known id is dropped without a
\* receipt; a new one is inserted, counted and shown, the receipt goes out, and
\* an attachment starts downloading.
OnMessage(m, rest) ==
    LET p == Recipient(m) IN
    IF Known(m)
    THEN /\ wire' = rest
         /\ UNCHANGED <<rows, shown, loaded, task, fetching, online, cuts>>
    ELSE /\ copy' = [copy EXCEPT ![m] = "delivered"]
         /\ unread' = [unread EXCEPT ![p] = @ + 1]
         /\ shown' = Push(p, m, "delivered")
         /\ wire' = rest \cup {Packet("receipt", {m})}
         /\ fetching' = fetching \cup Downloads(m)
         /\ UNCHANGED <<own, gone, loaded, task, online, cuts>>

\* A download ends, fetched or given up after three attempts: the message is
\* pushed as it was when it arrived.
Downloaded(m) ==
    /\ m \in fetching
    /\ fetching' = fetching \ {m}
    /\ shown' = Push(Recipient(m), m, "delivered")
    /\ UNCHANGED <<rows, loaded, task, link, cuts>>

\* mutant: no rows are marked while there is no connection
NotYetReadOnline(p) ==
    {m \in Received(p) : p \in online /\ copy[m] = "delivered"}

\* findInboundBySessionIdAndStatus(session, "read"): it does not look at
\* is_delete.
NotYetRead(p) == {m \in Received(p) : copy[m] = "delivered"}

\* markSessionRead: the rows are marked before the receipt is sent, and a send
\* that throws (no connection) is only logged.
MarkSessionRead(p) ==
    LET ids == NotYetRead(p) IN
    /\ p \in loaded
    /\ unread' = [unread EXCEPT ![p] = 0]
    /\ copy' = [m \in Messages |-> IF m \in ids THEN "read" ELSE copy[m]]
    /\ wire' = IF ids # {} /\ p \in online
               THEN wire \cup {Packet("read", ids)} ELSE wire
    /\ UNCHANGED <<own, gone, shown, loaded, task, fetching, online, cuts>>

-----------------------------------------------------------------------------
(* Either end. *)

\* loadMessages: the renderer's list becomes the rows that are not deleted.
LoadMessages(p) ==
    /\ loaded' = loaded \cup {p}
    /\ shown' = [shown EXCEPT ![p] =
                    [m \in Messages |-> IF m \in gone[p] THEN "none" ELSE Row(p, m)]]
    /\ UNCHANGED <<rows, task, fetching, link, cuts>>

\* mutant: only the recipient's rows get one
TimedReceived(p) == Stored(p) \cap Burns \cap Received(p)

\* The rows that have a delete_at: insert leaves it out and updateDeleteAt
\* writes it, on both ends.
Timed(p) == Stored(p) \cap Burns

\* One tick of the burn scheduler that finds rows expired; which ones is up to
\* the clocks.
Burn(p, expired) ==
    /\ expired # {}
    /\ expired \subseteq Timed(p) \ gone[p]
    /\ gone' = [gone EXCEPT ![p] = @ \cup expired]
    /\ shown' = [shown EXCEPT ![p] =
                    [m \in Messages |-> IF m \in expired THEN "none" ELSE @[m]]]
    /\ UNCHANGED <<own, copy, unread, loaded, task, fetching, link, cuts>>

\* The application is quit and started again: what it awaited is forgotten,
\* the renderer's list is empty and nothing is connected yet.
Restart(p) ==
    /\ cuts < CutLimit
    /\ cuts' = cuts + 1
    /\ task' = [m \in Messages |-> IF Author[m] = p THEN "idle" ELSE task[m]]
    /\ fetching' = fetching \ Received(p)
    /\ shown' = [shown EXCEPT ![p] = [m \in Messages |-> "none"]]
    /\ loaded' = loaded \ {p}
    /\ online' = online \ {p}
    /\ UNCHANGED <<rows, wire>>

\* NknClientService.disconnect: a send that waits for its ACK waits in vain.
Disconnect(p) ==
    /\ p \in online
    /\ cuts < CutLimit
    /\ cuts' = cuts + 1
    /\ online' = online \ {p}
    /\ task' = [m \in Messages |->
                   IF Author[m] = p /\ task[m] = "send" THEN "orphan" ELSE task[m]]
    /\ UNCHANGED <<rows, shown, loaded, fetching, wire>>

Connect(p) ==
    /\ p \notin online
    /\ online' = online \cup {p}
    /\ UNCHANGED <<rows, shown, loaded, task, fetching, wire, cuts>>

-----------------------------------------------------------------------------

\* The relay hands a packet over, in any order; `rest` says whether a duplicate
\* stays behind.  A packet that is never handed over is a lost one.
Handle(p, packet, rest) ==
    /\ p \in online
    /\ Addressee(p, packet)
    /\ \/ packet.type = "message" /\ \E m \in packet.ids : OnMessage(m, rest)
       \/ packet.type = "receipt" /\ \E m \in packet.ids : OnReceipt(m, rest)
       \/ packet.type = "read" /\ OnRead(p, packet.ids, rest)

Receive(p) == \E packet \in wire : Handle(p, packet, wire \ {packet})
ReceiveAgain(p) == \E packet \in wire : Handle(p, packet, wire)

EndOfTask(m) == Acknowledged(m) \/ TimesOut(m) \/ Uploaded(m) \/ UploadFails(m)

Tick(p) == \E expired \in SUBSET Messages : Burn(p, expired)

Next ==
    \/ \E m \in Messages : StartSend(m) \/ EndOfTask(m) \/ Downloaded(m)
    \/ \E p \in Peers :
          \/ Receive(p) \/ ReceiveAgain(p)
          \/ LoadMessages(p) \/ MarkSessionRead(p)
          \/ Tick(p)
          \/ Restart(p) \/ Disconnect(p) \/ Connect(p)

Spec == Init /\ [][Next]_vars

\* The relay holds a packet for an hour and hands it to an end that is online
\* (msgHoldingSeconds); an awaited call returns or times out; the scheduler's
\* interval fires every five seconds.  Users owe nothing.
Fairness ==
    /\ \A p \in Peers : WF_vars(Receive(p)) /\ WF_vars(Tick(p))
    /\ \A m \in Messages : WF_vars(EndOfTask(m))

FairSpec == Spec /\ Fairness

-----------------------------------------------------------------------------
(* Properties. *)

\* Every variable keeps its type, and a packet names messages of one author
\* only, a single one unless it is a read receipt (the wire format of
\* handleIncomingMessage).
TypeOK ==
    /\ own \in [Messages -> Status]
    /\ copy \in [Messages -> {"none", "delivered", "read"}]
    /\ gone \in [Peers -> SUBSET Messages]
    /\ unread \in [Peers -> Nat]
    /\ shown \in [Peers -> [Messages -> Status]]
    /\ loaded \subseteq Peers /\ online \subseteq Peers
    /\ task \in [Messages -> Task]
    /\ fetching \subseteq Attachments
    /\ wire \subseteq [type : PacketTypes, ids : SUBSET Messages]
    /\ \A packet \in wire :
          /\ \E p \in Peers : Addressee(p, packet)
          /\ packet.type # "read" => \E m \in Messages : packet.ids = {m}
    /\ cuts \in Nat

\* What the author's row claims is true of the recipient's row: two check marks
\* only when the recipient stored the message, blue ones only when it was
\* marked read there; a text counts as sent only when it arrived.  This must
\* survive duplicates, overtaking receipts, restarts and disconnections.
StatusHonest ==
    \A m \in Messages :
        /\ own[m] = "delivered" => copy[m] # "none"
        /\ own[m] = "read" => copy[m] = "read"
        /\ own[m] = "sent" /\ m \in Texts => copy[m] # "none"

\* The badge counts the inbound rows not marked read, whatever was duplicated,
\* deleted, or marked while offline: incrementUnread and resetUnread on the
\* session stay in step with insert and updateStatusBatch on the messages.
UnreadExact ==
    \A p \in Peers :
        unread[p] = Cardinality({m \in Received(p) : copy[m] = "delivered"})

\* Once it has loaded the conversation, a renderer shows every row that is not
\* deleted, the outbound ones with the status of their row: no update of a
\* row goes without its push, and no push carries an older status.
ViewAgrees ==
    \A p \in loaded : \A m \in Stored(p) \ gone[p] :
        IF Author[m] = p THEN shown[p][m] = own[m] ELSE shown[p][m] # "none"

\* The statuses that may follow one.
Later(status) ==
    CASE status = "none" -> Status
      [] status = "sending" -> {"sent", "delivered", "read", "failed"}
      [] status = "sent" -> {"delivered", "read"}
      [] status = "delivered" -> {"read"}
      [] OTHER -> {}

Advances(m) == own'[m] = own[m] \/ own'[m] \in Later(own[m])

\* When its send has ended, a message's status only moves forward, and read
\* and failed are final: late and duplicate receipts change nothing.
SettledAdvances == [][\A m \in Messages : task[m] = "idle" => Advances(m)]_vars

\* A read receipt that waits in the relay for an author who stays online turns
\* an attachment blue in the end, also when it overtakes the delivery receipt.
ReadIsReported ==
    \A m \in Attachments : \A p \in Peers :
        (/\ Author[m] = p /\ p \in online
         /\ \E packet \in wire : packet.type = "read" /\ m \in packet.ids)
            ~> (own[m] = "read" \/ p \notin online)

\* A message sent to burn disappears from the tables of both ends that stored
\* it, restarts or not (findExpired reads delete_at from the table).
BurnsEverywhere ==
    \A m \in Burns : \A p \in Peers : (m \in Stored(p)) ~> (m \in gone[p])

\* The claim of a test, "does not downgrade read to delivered", for every
\* message at all times.  The code breaks it: the resolution of the awaited
\* send overwrites the status a receipt has already set.
NeverDowngrades == [][\A m \in Messages : Advances(m)]_vars

\* The claim of the README, self-destructing messages: what the scheduler has
\* deleted is not on the screen again.  The code breaks it: a status or
\* download that comes late pushes the message and the renderer appends it.
BurnedStaysGone == \A p \in Peers : \A m \in gone[p] : shown[p][m] = "none"

=============================================================================
