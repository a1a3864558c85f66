--------------------------- MODULE StartupProofs ---------------------------
(***************************************************************************)
(* Startup is type correct, and its status and its key are those of the     *)
(* client in place, for any set of wallets and any bounds.                  *)
(*                                                                         *)
(* The two hold together: that a client which connects was opened for a     *)
(* wallet, which types what the status and the history say, is a part of    *)
(* StatusIsOfClient.                                                        *)
(***************************************************************************)
EXTENDS Startup, SequenceTheorems, TLAPS

IInv == TypeOK /\ StatusIsOfClient

Messages == States \cup {"reply"}

LEMMA InitHolds == Init => IInv
<1> SUFFICES ASSUME Init PROVE IInv
  OBVIOUS
<1>1. StatusIsOfClient
  BY DEF Init, StatusIsOfClient, Out
<1>2. pipe \in Seq(Messages) /\ conn \in [Calls -> Call \cup {NoCall}]
  BY DEF Init
<1>3. status \in [state : States, who : Wallets \cup {None}] /\ screen \in States
  BY DEF Init, Out, States
<1>4. /\ saved \in Wallets \cup {None} /\ services \in Wallets \cup {None}
      /\ db \in Wallets \cup {"absent", "plain", "torn"}
      /\ handle \in Wallets \cup {None, "broken"} /\ key \in Wallets \cup {None}
      /\ client \in Calls \cup {0} /\ used \subseteq Wallets /\ tally \in Nat
      /\ loading \in BOOLEAN /\ tried \in BOOLEAN
  BY DEF Init
<1> QED BY <1>1, <1>2, <1>3, <1>4 DEF IInv, TypeOK, Messages

-----------------------------------------------------------------------------
(* The parts of steps. *)

LEMMA PipeGrows ==
    ASSUME NEW q \in Seq(Messages), pipe \in Seq(Messages)
    PROVE  pipe \o q \in Seq(Messages)
BY ConcatProperties

LEMMA ReplyTyped == ASSUME NEW by PROVE Reply(by) \in Seq(Messages)
<1>1. <<"reply">> \in Seq(Messages) /\ <<>> \in Seq(Messages)
  BY DEF Messages
<1> QED BY <1>1 DEF Reply

\* Nothing of a service changes: the invariant of the client stays.
LEMMA ClientKept ==
    ASSUME StatusIsOfClient, UNCHANGED nkn
    PROVE  StatusIsOfClient'
BY DEF StatusIsOfClient, nkn, Out

\* Only the call of the client in place, which is open, is closed.
LEMMA ClosedTyped == IInv => Closed \in [Calls -> Call \cup {NoCall}]
<1> SUFFICES ASSUME IInv PROVE Closed \in [Calls -> Call \cup {NoCall}]
  OBVIOUS
<1>1. \A d \in Calls : conn[d] \in Call \cup {NoCall}
  BY DEF IInv, TypeOK
<1>2. \A d \in Calls : d = client => conn[d] \in Call
  BY <1>1, BoundAssumption DEF IInv, StatusIsOfClient, NoCall
<1>3. \A r \in Call : [r EXCEPT !.open = FALSE] \in Call
  BY DEF Call
<1> QED BY <1>1, <1>2, <1>3 DEF Closed

\* connect() replaces client, key and status together.
LEMMA ConnectHolds ==
    ASSUME IInv, NEW w \in Wallets, NEW by \in {"auto", "user"}, Connect(w, by)
    PROVE  /\ StatusIsOfClient'
           /\ conn' \in [Calls -> Call \cup {NoCall}] /\ client' \in Calls
           /\ key' \in Wallets
           /\ status' \in [state : States, who : Wallets \cup {None}]
           /\ pipe' \in Seq(Messages)
<1> DEFINE e == [who |-> w, by |-> by, call |-> "waiting", open |-> TRUE]
<1>1. PICK c \in Calls : conn' = [Closed EXCEPT ![c] = e] /\ client' = c
  BY DEF Connect
<1>2. e \in Call
  BY DEF Call
<1>3. Closed \in [Calls -> Call \cup {NoCall}]
  BY ClosedTyped
<1>4. conn' \in [Calls -> Call \cup {NoCall}] /\ conn'[c] = e
  BY <1>1, <1>2, <1>3
<1>5. key' = w /\ status' = [state |-> "connecting", who |-> None]
  BY DEF Connect
<1>6. StatusIsOfClient'
  BY <1>1, <1>4, <1>5, BoundAssumption DEF StatusIsOfClient
<1>7. pipe' \in Seq(Messages)
  <2>1. pipe \in Seq(Messages)
    BY DEF IInv, TypeOK, Messages
  <2>2. /\ <<>> \in Seq(Messages) /\ <<"disconnected">> \in Seq(Messages)
        /\ <<"connecting">> \in Seq(Messages)
    BY DEF Messages, States
  <2>3. \A p, q \in Seq(Messages) : p \o q \in Seq(Messages)
    BY ConcatProperties
  <2>4. pipe' = pipe \o (IF client = 0 THEN <<>> ELSE <<"disconnected">>) \o <<"connecting">>
    BY DEF Connect
  <2> QED BY <2>1, <2>2, <2>3, <2>4
<1> QED BY <1>1, <1>4, <1>5, <1>6, <1>7 DEF States

\* A call that fails leaves no client, no key and the status that says so.
LEMMA FailHolds ==
    ASSUME IInv, NEW c \in Calls, conn[c].call = "waiting", Fail(c)
    PROVE  /\ StatusIsOfClient'
           /\ conn' \in [Calls -> Call \cup {NoCall}] /\ client' = 0 /\ key' = None
           /\ status' \in [state : States, who : Wallets \cup {None}]
           /\ pipe' \in Seq(Messages)
<1>1. conn' \in [Calls -> Call \cup {NoCall}]
  <2>1. conn[c] \in Call
    BY DEF IInv, TypeOK, NoCall
  <2>2. [conn[c] EXCEPT !.call = "settled"] \in Call
    BY <2>1 DEF Call
  <2> QED BY <2>2 DEF IInv, TypeOK, Fail
<1>2. client' = 0 /\ key' = None /\ status' = Out
  BY DEF Fail, DropKey
<1>3. pipe' \in Seq(Messages)
  <2>1. pipe \in Seq(Messages) /\ <<"disconnected">> \in Seq(Messages)
    BY DEF IInv, TypeOK, Messages, States
  <2>2. \A p, q \in Seq(Messages) : p \o q \in Seq(Messages)
    BY ConcatProperties
  <2> QED BY <2>1, <2>2, ReplyTyped DEF Fail
<1> QED BY <1>1, <1>2, <1>3 DEF StatusIsOfClient, Out, States

\* initServices keys the database of a fresh or an own file only.
LEMMA ServicesTyped ==
    ASSUME TypeOK, NEW w \in Wallets, InitServices(w)
    PROVE  /\ db' \in Wallets \cup {"absent", "plain", "torn"}
           /\ handle' \in Wallets \cup {None, "broken"}
           /\ services' \in Wallets \cup {None}
BY DEF TypeOK, InitServices, disk, process

-----------------------------------------------------------------------------
(* The steps. *)

LEMMA SignInHolds ==
    ASSUME IInv, NEW w \in Wallets, NEW by \in {"auto", "user"}, SignIn(w, by),
           saved' \in Wallets \cup {None}, tried' \in BOOLEAN, UNCHANGED tally
    PROVE  IInv'
<1>1. /\ db' \in Wallets \cup {"absent", "plain", "torn"}
      /\ handle' \in Wallets \cup {None, "broken"}
      /\ services' \in Wallets \cup {None}
  BY ServicesTyped DEF IInv, SignIn
<1>2. screen' \in States /\ loading' \in BOOLEAN /\ used' \subseteq Wallets
  BY DEF IInv, TypeOK, SignIn, States
<1>3. CASE Ready(w)
  <2>1. Connect(w, by)
    BY <1>3 DEF SignIn
  <2> QED BY <1>1, <1>2, <2>1, ConnectHolds DEF IInv, TypeOK, Messages
<1>4. CASE ~Ready(w)
  <2>1. UNCHANGED nkn /\ pipe' = pipe \o <<"disconnected">> \o Reply(by)
    BY <1>4 DEF SignIn
  <2>2. pipe' \in Seq(Messages)
    <3>1. pipe \in Seq(Messages) /\ <<"disconnected">> \in Seq(Messages)
      BY DEF IInv, TypeOK, Messages, States
    <3>2. \A p, q \in Seq(Messages) : p \o q \in Seq(Messages)
      BY ConcatProperties
    <3> QED BY <2>1, <3>1, <3>2, ReplyTyped
  <2> QED BY <1>1, <1>2, <2>1, <2>2, ClientKept DEF IInv, TypeOK, Messages, nkn
<1> QED BY <1>3, <1>4

LEMMA PageHolds ==
    ASSUME IInv,
           \/ \E w \in Wallets : EnterWallet(w)
           \/ Restore \/ AutoConnect
    PROVE  IInv'
<1>1. ASSUME NEW w \in Wallets, EnterWallet(w) PROVE IInv'
  BY <1>1, SignInHolds DEF EnterWallet, IInv, TypeOK
<1>2. CASE Restore
  BY <1>2, SignInHolds DEF Restore, IInv, TypeOK
<1>3. CASE AutoConnect
  <2>1. CASE saved # None
    BY <1>3, <2>1, SignInHolds DEF AutoConnect, IInv, TypeOK
  <2>2. CASE saved = None
    BY <1>3, <2>2, ClientKept DEF AutoConnect, IInv, TypeOK, process, nkn
  <2> QED BY <2>1, <2>2
<1> QED BY <1>1, <1>2, <1>3

LEMMA WrongPasswordHolds == IInv /\ WrongPassword => IInv'
<1> SUFFICES ASSUME IInv, WrongPassword PROVE IInv'
  OBVIOUS
<1>1. pipe' \in Seq(Messages)
  <2>1. pipe \in Seq(Messages) /\ <<"disconnected", "reply">> \in Seq(Messages)
    BY DEF IInv, TypeOK, Messages, States
  <2> QED BY <2>1, ConcatProperties DEF WrongPassword
<1> QED BY <1>1, ClientKept
        DEF WrongPassword, Spend, IInv, TypeOK, Messages, States, disk, process, nkn

LEMMA ShowHolds == IInv /\ Show => IInv'
<1> SUFFICES ASSUME IInv, Show PROVE IInv'
  OBVIOUS
<1>1. pipe \in Seq(Messages) /\ pipe # <<>>
  BY DEF IInv, TypeOK, Messages, Show
<1>2. Head(pipe) \in Messages /\ Tail(pipe) \in Seq(Messages)
  BY <1>1, HeadTailProperties
<1>3. screen' \in States /\ loading' \in BOOLEAN /\ pipe' \in Seq(Messages)
  BY <1>2 DEF Show, IInv, TypeOK, Messages
<1>4. UNCHANGED <<disk, process, nkn, tried, used, tally>>
  BY DEF Show
<1> QED BY <1>3, <1>4, ClientKept DEF IInv, TypeOK, Messages, disk, process, nkn

LEMMA LogoutHolds == IInv /\ Logout => IInv'
<1> SUFFICES ASSUME IInv, Logout PROVE IInv'
  OBVIOUS
<1>1. pipe' \in Seq(Messages)
  <2>1. pipe \in Seq(Messages) /\ "disconnected" \in Messages
    BY DEF IInv, TypeOK, Messages, States
  <2> QED BY <2>1, AppendProperties DEF Logout
<1>2. conn' \in [Calls -> Call \cup {NoCall}]
  BY ClosedTyped DEF Logout
<1>3. StatusIsOfClient'
  BY DEF Logout, DropKey, StatusIsOfClient, Out
<1> QED BY <1>1, <1>2, <1>3
        DEF Logout, DropKey, IInv, TypeOK, Messages, States, Out, process

LEMMA CallsHold ==
    ASSUME IInv, NEW c \in Calls, OnConnect(c) \/ Timeout(c)
    PROVE  IInv'
<1> USE DEF disk, process
<1>1. conn[c].call = "waiting"
  BY DEF OnConnect, Timeout
<1>2. CASE Fail(c) /\ UNCHANGED used
  BY <1>1, <1>2, FailHolds DEF OnConnect, Timeout, IInv, TypeOK, Messages
<1>3. CASE OnConnect(c) /\ client # 0
  <2>1. /\ client \in Calls /\ key = conn[client].who /\ conn[client].open
        /\ conn \in [Calls -> Call \cup {NoCall}]
    BY <1>3 DEF IInv, TypeOK, StatusIsOfClient
  <2>2. conn[client] \in Call /\ conn[c] \in Call
    BY <1>1, <2>1 DEF NoCall
  <2>3. /\ conn' = [conn EXCEPT ![c].call = "settled"]
        /\ status' = [state |-> "connected", who |-> key]
        /\ pipe' = pipe \o <<"connected">> \o Reply(conn[c].by)
        /\ used' = used \cup {key}
        /\ UNCHANGED <<client, key>>
    BY <1>3, <2>1 DEF OnConnect
  <2>4. /\ conn' \in [Calls -> Call \cup {NoCall}]
        /\ conn'[client].who = conn[client].who /\ conn'[client].open
    BY <2>1, <2>2, <2>3 DEF Call
  <2>5. StatusIsOfClient'
    BY <1>3, <2>1, <2>3, <2>4 DEF StatusIsOfClient
  <2>6. key \in Wallets
    BY <2>1, <2>2 DEF Call
  <2>7. pipe' \in Seq(Messages)
    <3>1. pipe \in Seq(Messages) /\ <<"connected">> \in Seq(Messages)
      BY DEF IInv, TypeOK, Messages, States
    <3>2. \A p, q \in Seq(Messages) : p \o q \in Seq(Messages)
      BY ConcatProperties
    <3> QED BY <2>3, <3>1, <3>2, ReplyTyped
  <2> QED BY <1>3, <2>3, <2>4, <2>5, <2>6, <2>7
          DEF OnConnect, IInv, TypeOK, Messages, States
<1> QED BY <1>2, <1>3 DEF OnConnect, Timeout

LEMMA ProcessHolds == IInv /\ (Restart \/ RestoreBackup \/ RestoreCrashes) => IInv'
<1> SUFFICES ASSUME IInv, Restart \/ RestoreBackup \/ RestoreCrashes PROVE IInv'
  OBVIOUS
<1>1. NewProcess /\ Spend /\ UNCHANGED <<saved, used>>
  BY DEF Restart, RestoreBackup, RestoreCrashes, disk
<1>2. db' \in Wallets \cup {"absent", "plain", "torn"}
  BY DEF Restart, RestoreBackup, RestoreCrashes, disk, IInv, TypeOK
<1>3. StatusIsOfClient'
  BY <1>1 DEF NewProcess, StatusIsOfClient, Out
<1>4. conn' \in [Calls -> Call \cup {NoCall}]
  BY <1>1 DEF NewProcess
<1>5. pipe' \in Seq(Messages)
  BY <1>1 DEF NewProcess
<1>6. status' \in [state : States, who : Wallets \cup {None}] /\ screen' \in States
  BY <1>1 DEF NewProcess, Out, States
<1>7. saved' \in Wallets \cup {None} /\ used' \subseteq Wallets /\ tally' \in Nat
  BY <1>1 DEF Spend, IInv, TypeOK
<1>8. /\ handle' \in Wallets \cup {None, "broken"} /\ services' \in Wallets \cup {None}
      /\ client' \in Calls \cup {0} /\ key' \in Wallets \cup {None}
      /\ loading' \in BOOLEAN /\ tried' \in BOOLEAN
  BY <1>1 DEF NewProcess
<1> QED BY <1>2, <1>3, <1>4, <1>5, <1>6, <1>7, <1>8 DEF IInv, TypeOK, Messages

LEMMA Step == IInv /\ [Next]_vars => IInv'
<1> SUFFICES ASSUME IInv, [Next]_vars PROVE IInv'
  OBVIOUS
<1>1. CASE UNCHANGED vars
  BY <1>1, ClientKept DEF vars, nkn, IInv, TypeOK
<1> QED BY <1>1, PageHolds, WrongPasswordHolds, ShowHolds, LogoutHolds, CallsHold,
           ProcessHolds DEF Next

\* Signing in and out is type correct: whatever connects was opened for a wallet.
THEOREM TypeCorrect == Spec => []TypeOK
<1>1. IInv /\ [Next]_vars => IInv'
  BY Step
<1>2. IInv => TypeOK
  BY DEF IInv
<1> QED BY <1>1, <1>2, InitHolds, PTL DEF Spec

\* However many connect() calls overlap and whichever fails or times out late, the
\* key, the status and the open client belong together.
THEOREM StatusIsOfClientAlways == Spec => []StatusIsOfClient
<1>1. IInv /\ [Next]_vars => IInv'
  BY Step
<1>2. IInv => StatusIsOfClient
  BY DEF IInv
<1> QED BY <1>1, <1>2, InitHolds, PTL DEF Spec
=============================================================================
