------------------------------- MODULE Startup -------------------------------
(***************************************************************************)
(* Signing in and out: the saved wallet, the database it keys, the services *)
(* built once per process, NknClientService and what the login page shows. *)
(*                                                                         *)
(* connect() waits for its network client beside whatever else happens: the *)
(* automatic sign-in of the start and one by the user may overlap, and the *)
(* 30 seconds of the one may run out when the other has long connected or  *)
(* signed out.  What a call does at its end, it does to this.client as it  *)
(* is then.  Passwords, keys and migrations of the schema are left out.    *)
(***************************************************************************)
EXTENDS Naturals, Sequences

CONSTANTS
    Wallets,
    Calls,      \* bound: connect() calls of one run of the program
    MaxPipe,    \* bound: messages to the renderer that are under way
    Limit       \* bound: restarts, backups restored and wrong passwords

ASSUME BoundAssumption ==
    Calls \subseteq Nat \ {0} /\ MaxPipe \in Nat /\ Limit \in Nat

VARIABLES
    saved,      \* the wallet of wallet.json
    db,         \* dchat.db: whose seed it is keyed to
    handle,     \* the module's open database
    services,   \* the wallet whose seed built the services
    conn,       \* the connect() calls and their network clients
    client,     \* this.client: the call that made it, 0 for null
    key,        \* the cached key pair
    status,     \* ClientStatus
    pipe,       \* statuses, and the replies to the user's requests, on their way
    screen,     \* the status the renderer holds
    loading,    \* the login page awaits a reply
    tried,      \* the renderer signed in by itself
    used,       \* history: wallets that have been connected
    tally       \* bounded steps so far

disk == <<saved, db>>
process == <<handle, services>>
nkn == <<conn, client, key, status>>
page == <<pipe, screen, loading, tried>>
vars == <<saved, db, handle, services, conn, client, key, status, pipe, screen,
          loading, tried, used, tally>>

None == "none"
States == {"disconnected", "connecting", "connected"}
Out == [state |-> "disconnected", who |-> None]

\* by: who called; call: whether its promise is settled; open: its network client.
NoCall == [who |-> None, by |-> None, call |-> "none", open |-> FALSE]
Call == [who : Wallets, by : {"auto", "user"}, call : {"waiting", "settled"},
         open : BOOLEAN]
Reply(by) == IF by = "user" THEN <<"reply">> ELSE <<>>

Spend == tally < Limit /\ tally' = tally + 1

Init ==
    /\ saved = None
    /\ db \in {"absent", "plain"}
    /\ handle = None /\ services = None
    /\ conn = [c \in Calls |-> NoCall]
    /\ client = 0 /\ key = None /\ status = Out
    /\ pipe = <<>> /\ screen = "disconnected" /\ loading = FALSE /\ tried = FALSE
    /\ used = {}
    /\ tally = 0

-----------------------------------------------------------------------------
(* The database and the services. *)

\* migrateToEncrypted and initDatabase: the first wallet keys a new or plain file.  A
\* database of another wallet, or a torn one, throws, and what was opened stays in the
\* module: every later try in this process gets it back, and throws as well.
Opens(w) == handle = None /\ db \in {"absent", "plain", w}

\* initServices: once per process, for whichever wallet came first.
InitServices(w) ==
    CASE services # None -> UNCHANGED <<db, process>>
      [] services = None /\ Opens(w) -> /\ db' = w
                                        /\ handle' = w
                                        /\ services' = w
      [] OTHER -> /\ handle' = "broken"
                  /\ UNCHANGED <<db, services>>
Ready(w) == services # None \/ Opens(w)

-----------------------------------------------------------------------------
(* NknClientService. *)

\* connect() up to its wait: an earlier client is disconnected, whoever waits for it.
\* The calls of one process are numbered in their order.
NextCall(c) == conn[c] = NoCall /\ \A d \in Calls : conn[d] = NoCall => c <= d
Closed ==
    [d \in Calls |-> IF d = client THEN [conn[d] EXCEPT !.open = FALSE] ELSE conn[d]]
Connect(w, by) ==
    /\ \E c \in Calls :
         /\ NextCall(c)
         /\ conn' = [Closed EXCEPT ![c] =
                       [who |-> w, by |-> by, call |-> "waiting", open |-> TRUE]]
         /\ client' = c
    /\ key' = w
    /\ status' = [state |-> "connecting", who |-> None]
    /\ pipe' = pipe \o (IF client = 0 THEN <<>> ELSE <<"disconnected">>)
                    \o <<"connecting">>

\* mutant: a failed call leaves the key in memory
KeepKey(k) == k

\* mutant: the key is overwritten and stays there
ZeroKey(k) == "zeroes"

\* The key is zeroed and dropped.
DropKey(k) == None

\* The failure of a call takes this.client with it, whichever call that is of; the
\* network client of the call is left open.
Fail(c) ==
    /\ conn' = [conn EXCEPT ![c].call = "settled"]
    /\ client' = 0
    /\ key' = DropKey(key)
    /\ status' = Out
    /\ pipe' = pipe \o <<"disconnected">> \o Reply(conn[c].by)

\* A network client is connected: the status names the address of this.client as it is
\* then, and with this.client gone the call throws.
OnConnect(c) ==
    /\ conn[c].call = "waiting" /\ conn[c].open
    /\ IF client = 0
       THEN Fail(c) /\ UNCHANGED used
       ELSE /\ conn' = [conn EXCEPT ![c].call = "settled"]
            /\ status' = [state |-> "connected", who |-> conn[client].who]
            /\ pipe' = pipe \o <<"connected">> \o Reply(conn[c].by)
            /\ used' = used \cup {conn[client].who}
            /\ UNCHANGED <<client, key>>
    /\ UNCHANGED <<disk, process, screen, loading, tried, tally>>

\* mutant: a client that was not closed is waited for without a timer
Patient(c) == ~conn[c].open

\* The 30 seconds run out, for a closed client as for any other.
TimesOut(c) == TRUE
Timeout(c) ==
    /\ conn[c].call = "waiting" /\ TimesOut(c)
    /\ Fail(c)
    /\ UNCHANGED <<disk, process, screen, loading, tried, used, tally>>

-----------------------------------------------------------------------------
(* The login page and the handlers behind it. *)

\* initServices, and the connection when it does not throw.
SignIn(w, by) ==
    /\ Len(pipe) < MaxPipe
    /\ InitServices(w)
    /\ IF Ready(w)
       THEN Connect(w, by)
       ELSE /\ pipe' = pipe \o <<"disconnected">> \o Reply(by)
            /\ UNCHANGED nkn
    /\ screen' = "connecting"
    /\ loading' = (loading \/ by = "user")
    /\ UNCHANGED used

\* The page shows until the renderer holds "connected", and takes one request of the
\* user at a time, beside the automatic one.
AtLogin == screen # "connected" /\ ~loading

\* createAndConnect and importAndConnect save the wallet before all else.
EnterWallet(w) ==
    /\ AtLogin
    /\ saved' = w
    /\ SignIn(w, "user")
    /\ UNCHANGED <<tried, tally>>

\* restoreAndConnect, with the right password.
Restore ==
    /\ AtLogin /\ saved # None
    /\ SignIn(saved, "user")
    /\ UNCHANGED <<saved, tried, tally>>

\* With a wrong one the handler throws before it does anything.
WrongPassword ==
    /\ AtLogin /\ saved # None
    /\ Len(pipe) < MaxPipe
    /\ Spend
    /\ screen' = "connecting"
    /\ loading' = TRUE
    /\ pipe' = pipe \o <<"disconnected", "reply">>
    /\ UNCHANGED <<disk, process, nkn, tried, used>>

\* autoConnect of the renderer, once.
AutoConnect ==
    /\ ~tried
    /\ tried' = TRUE
    /\ IF saved # None THEN SignIn(saved, "auto")
       ELSE UNCHANGED <<db, process, nkn, pipe, screen, loading, used>>
    /\ UNCHANGED <<saved, tally>>

\* The renderer's disconnect is the logout of the wallet: the client is closed and the
\* saved wallet deleted.
Logout ==
    /\ screen = "connected" /\ Len(pipe) < MaxPipe
    /\ conn' = Closed
    /\ client' = 0
    /\ key' = DropKey(key)
    /\ status' = Out
    /\ saved' = None
    /\ pipe' = Append(pipe, "disconnected")
    /\ screen' = "disconnected"
    /\ UNCHANGED <<db, process, loading, tried, used, tally>>

\* The renderer takes a status, pushed or set by the failure of its own request, or
\* the end of that.
Show ==
    /\ pipe # <<>>
    /\ IF Head(pipe) = "reply"
       THEN loading' = FALSE /\ UNCHANGED screen
       ELSE screen' = Head(pipe) /\ UNCHANGED loading
    /\ pipe' = Tail(pipe)
    /\ UNCHANGED <<disk, process, nkn, tried, used, tally>>

-----------------------------------------------------------------------------
(* The end of the process. *)

NewProcess ==
    /\ handle' = None /\ services' = None
    /\ conn' = [c \in Calls |-> NoCall]
    /\ client' = 0 /\ key' = None /\ status' = Out
    /\ pipe' = <<>> /\ screen' = "disconnected" /\ loading' = FALSE /\ tried' = FALSE

Restart ==
    /\ Spend
    /\ NewProcess
    /\ UNCHANGED <<disk, used>>

\* The backup, keyed anew to the saved wallet, replaces the file, and the program is
\* relaunched.
RestoreBackup ==
    /\ screen = "connected" /\ saved # None /\ services # None
    /\ Spend
    /\ db' = saved
    /\ NewProcess
    /\ UNCHANGED <<saved, used>>

\* It ends while the file is being replaced.
RestoreCrashes ==
    /\ screen = "connected" /\ saved # None /\ services # None
    /\ Spend
    /\ db' = "torn"
    /\ NewProcess
    /\ UNCHANGED <<saved, used>>

-----------------------------------------------------------------------------

Next ==
    \/ \E w \in Wallets : EnterWallet(w)
    \/ Restore \/ WrongPassword \/ AutoConnect \/ Logout \/ Show
    \/ \E c \in Calls : OnConnect(c) \/ Timeout(c)
    \/ Restart \/ RestoreBackup \/ RestoreCrashes

Spec == Init /\ [][Next]_vars

\* Timers run out and the renderer takes what it is sent.
FairSpec ==
    /\ Spec
    /\ \A c \in Calls : WF_vars(Timeout(c))
    /\ WF_vars(Show)

-----------------------------------------------------------------------------
(* Properties. *)

TypeOK ==
    /\ saved \in Wallets \cup {None}
    /\ db \in Wallets \cup {"absent", "plain", "torn"}
    /\ handle \in Wallets \cup {None, "broken"}
    /\ services \in Wallets \cup {None}
    /\ conn \in [Calls -> Call \cup {NoCall}]
    /\ client \in Calls \cup {0}
    /\ key \in Wallets \cup {None}
    /\ status \in [state : States, who : Wallets \cup {None}]
    /\ pipe \in Seq(States \cup {"reply"}) /\ screen \in States
    /\ loading \in BOOLEAN /\ tried \in BOOLEAN
    /\ used \subseteq Wallets
    /\ tally \in Nat

\* However many calls overlap, and whichever of them fails late: the key in memory is
\* that of the client in place, and without one there is no key; a status that says
\* connected names the wallet of that client, which is not closed.
StatusIsOfClient ==
    /\ client = 0 => key = None /\ status = Out
    /\ client # 0 => /\ key = conn[client].who
                     /\ conn[client].open
                     /\ status.state # "disconnected"
    /\ status.state = "connected" => client # 0 /\ status.who = key

\* A sign-in ends, for the renderer too: the page does not say "connecting" for ever.
SignInEnds == screen = "connecting" ~> screen # "connecting"

\* The page's promise to whoever imports a wallet: "Restoring a previously used wallet
\* will recover all your conversations."
UsedWalletsRecover == \A w \in used : db \in {w, "torn"}

=============================================================================
