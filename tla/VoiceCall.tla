------------------------------ MODULE VoiceCall ------------------------------
(***************************************************************************)
(* Calls between two peers: VoiceCallService of both (main process), the   *)
(* dchat-tuna sidecar processes each of them starts and stops, and the     *)
(* signals they exchange over NKN.                                         *)
(*                                                                         *)
(* The caller's sidecar listens; its addresses travel in the invitation;   *)
(* the callee accepts and its sidecar dials.  A sidecar belongs to one     *)
(* call: the end of a call sends it "shutdown".                            *)
(*                                                                         *)
(* A handler of the service runs to its first await; what follows is a     *)
(* task, resumed when the sidecar's response or the command's timeout      *)
(* comes.  Responses are matched by request id, so they find their task    *)
(* whatever process the service holds by then; a resumed task sends its    *)
(* next command to the process held at that moment.  A process and a       *)
(* session are numbered; addresses stand for the process they lead to.     *)
(***************************************************************************)
EXTENDS Naturals, FiniteSets

CONSTANTS
    Peers,        \* the two peers
    Calls,        \* call ids, each used once (crypto.randomUUID)
    Caller,       \* who places each call
    NoCall,       \* null
    MaxRetries,   \* maxRetries of dialTuna
    ProcLimit,    \* bound: sidecar processes a peer starts
    FaultLimit,   \* bound: sidecars that crash and sessions the network loses
    Hurried       \* FALSE: users place and accept calls only when the sidecar of
                  \* the call before has exited and its stop() has ended

Procs == 1 .. ProcLimit

ASSUME CallsAssumption ==
    /\ IsFiniteSet(Calls) /\ NoCall \notin Calls
    /\ Caller \in [Calls -> Peers]
    /\ \E p, q \in Peers : p # q /\ Peers = {p, q}
ASSUME LimitAssumption ==
    ProcLimit \in Nat /\ FaultLimit \in Nat /\ MaxRetries \in Nat \ {0} /\ Hurried \in BOOLEAN

VARIABLES
    active,     \* activeCall
    incoming,   \* incomingCall
    proc,       \* sidecar: the process held, 0 for null
    ready,      \* sidecarReady
    addrs,      \* cachedPubAddrs: the process they lead to, 0 for null
    tasks,      \* the awaits of each service
    stage,      \* what each process of each peer is doing
    side,       \* each peer's side of the TUNA session a call's dial made
    host,       \* the process that side belongs to
    wire,       \* signals on their way
    placed,     \* calls that were started
    accepted,   \* calls whose callee has sent the accept
    faults      \* crashes and losses so far

service == <<active, incoming, proc, ready, addrs, tasks>>
sidecar == <<stage, side, host>>
history == <<placed, accepted>>
vars == <<service, sidecar, wire, history, faults>>

Ids == Calls \cup {NoCall}
NoActive == [id |-> NoCall, state |-> "none", session |-> NoCall]
NoIncoming == [id |-> NoCall, addrs |-> 0]

Other(p) == CHOOSE q \in Peers : q # p
Callee(c) == Other(Caller[c])

\* What a task awaits: start() its init, listen or getPubAddrs, startForDial() its
\* init, acceptCall() the setPubAddrs, dialTuna() the dial ("linked" once the session
\* is made), stop() the shutdown ("stopped" once it is answered).
\* `tries` counts the dials.
Task(op, c, g, a) == [op |-> op, call |-> c, proc |-> g, addrs |-> a, tries |-> 1]
Ops == {"init", "listen", "addrs", "answer", "set", "dial", "linked", "stop", "stopped"}

Signal(type, c, to, a) == [type |-> type, call |-> c, to |-> to, addrs |-> a]

Alive == {"up", "inited", "listening"}
Living(p) == {g \in Procs : stage[p][g] \in Alive}
Fresh(p) == {g \in Procs : stage[p][g] = "none" /\ \A h \in 1 .. g - 1 : stage[p][h] # "none"}

Init ==
    /\ active = [p \in Peers |-> NoActive]
    /\ incoming = [p \in Peers |-> NoIncoming]
    /\ proc = [p \in Peers |-> 0]
    /\ ready = [p \in Peers |-> FALSE]
    /\ addrs = [p \in Peers |-> 0]
    /\ tasks = [p \in Peers |-> {}]
    /\ stage = [p \in Peers |-> [g \in Procs |-> "none"]]
    /\ side = [p \in Peers |-> [c \in Calls |-> "none"]]
    /\ host = [p \in Peers |-> [c \in Calls |-> 0]]
    /\ wire = {} /\ placed = {} /\ accepted = {} /\ faults = 0

-----------------------------------------------------------------------------
(* The service: helpers *)

CallOf(c, state) == [id |-> c, state |-> state, session |-> NoCall]

Linked(p, c) == active' = [active EXCEPT ![p] = [@ EXCEPT !.session = c, !.state = "connected"]]

Await(p, rest, new) == tasks' = [tasks EXCEPT ![p] = rest \cup {new}]
Return(p, rest) == tasks' = [tasks EXCEPT ![p] = rest]

\* stop() up to its await.
StopTask(p) ==
    IF proc[p] = 0 THEN {} ELSE {Task("stop", NoCall, proc[p], 0)}

\* mutant: the sidecar is left running
EndCallOnly(p, rest) ==
    /\ active' = [active EXCEPT ![p] = NoActive]
    /\ Return(p, rest)
    /\ addrs' = [addrs EXCEPT ![p] = 0]
\* endCallInternal; `rest` are the tasks that go on.
EndCallInternal(p, rest) ==
    /\ active' = [active EXCEPT ![p] = NoActive]
    /\ tasks' = [tasks EXCEPT ![p] = rest \cup StopTask(p)]
    /\ addrs' = [addrs EXCEPT ![p] = 0]

\* spawnSidecar and the init that follows it.
Spawn(p, op, c, a) ==
    \E g \in Fresh(p) :
        /\ stage' = [stage EXCEPT ![p][g] = "up"]
        /\ proc' = [proc EXCEPT ![p] = g]
        /\ Await(p, tasks[p], Task(op, c, g, a))

\* start() and startForDial() do nothing when a process is held.
NeedsSpawn(p) == ~ready[p] /\ proc[p] = 0

\* A user who does not hurry lets the call before come to its end.
Settled(p) ==
    \/ Hurried \/ active[p] # NoActive
    \/ /\ \A g \in Procs : stage[p][g] \in {"none", "gone"}
       /\ \A t \in tasks[p] : t.op \notin {"stop", "stopped"}

\* The "exit" listener takes the exit of any process for that of the one held.
LoseSidecar(p) ==
    /\ proc' = [proc EXCEPT ![p] = 0]
    /\ ready' = [ready EXCEPT ![p] = FALSE]

Invite(c, a) == Signal("invite", c, Callee(c), a)

-----------------------------------------------------------------------------
(* What users do *)

\* startCall: at once when a sidecar is ready or held, or after start().
StartCall(p, c) ==
    /\ Caller[c] = p /\ c \notin placed
    /\ active[p] = NoActive
    /\ Settled(p)
    /\ placed' = placed \cup {c}
    /\ active' = [active EXCEPT ![p] = CallOf(c, "ringing")]
    /\ IF NeedsSpawn(p)
       THEN Spawn(p, "init", c, 0) /\ UNCHANGED wire
       ELSE wire' = wire \cup {Invite(c, addrs[p])} /\ UNCHANGED <<stage, proc, tasks>>
    /\ UNCHANGED <<incoming, ready, addrs, side, host, accepted>>

\* The second half of acceptCall: the accept goes out whatever has become of the call,
\* and an invitation without addresses cannot be dialled.  `act` is the active call.
Accept(p, c, a, rest, act) ==
    /\ wire' = wire \cup {Signal("accept", c, Caller[c], 0)}
    /\ accepted' = accepted \cup {c}
    /\ IF a = 0 THEN EndCallInternal(p, rest)
       ELSE /\ Await(p, rest, Task("set", c, proc[p], a))
            /\ active' = [active EXCEPT ![p] = act]
            /\ UNCHANGED addrs

\* acceptCall does not look at the active call, which it replaces.
AcceptCall(p, c) ==
    /\ incoming[p].id = c
    /\ Settled(p)
    /\ incoming' = [incoming EXCEPT ![p] = NoIncoming]
    /\ LET a == incoming[p].addrs
           act == CallOf(c, "connecting")
       IN IF NeedsSpawn(p)
          THEN /\ Spawn(p, "answer", c, a)
               /\ active' = [active EXCEPT ![p] = act]
               /\ UNCHANGED <<wire, addrs, accepted>>
          ELSE Accept(p, c, a, tasks[p], act) /\ UNCHANGED <<stage, proc>>
    /\ UNCHANGED <<ready, side, host, placed>>

DeclineCall(p, c) ==
    /\ incoming[p].id = c
    /\ incoming' = [incoming EXCEPT ![p] = NoIncoming]
    /\ wire' = wire \cup {Signal("decline", c, Caller[c], 0)}
    /\ UNCHANGED <<active, proc, ready, addrs, tasks, sidecar, history>>

\* endCall; the hangup it sends the sidecar is overtaken by nothing and followed by the
\* shutdown, which closes the session as well.
EndCall(p) ==
    /\ active[p] # NoActive
    /\ wire' = wire \cup {Signal("end", active[p].id, Other(p), 0)}
    /\ EndCallInternal(p, tasks[p])
    /\ UNCHANGED <<incoming, proc, ready, sidecar, history>>

-----------------------------------------------------------------------------
(* Signals *)

OnInvite(p, m) ==
    IF active[p] # NoActive
    THEN /\ wire' = (wire \ {m}) \cup {Signal("decline", m.call, Other(p), 0)}
         /\ UNCHANGED <<active, incoming, tasks, addrs>>
    ELSE /\ incoming' = [incoming EXCEPT ![p] = [id |-> m.call, addrs |-> m.addrs]]
         /\ wire' = wire \ {m}
         /\ UNCHANGED <<active, tasks, addrs>>

OnAccept(p, m) ==
    /\ wire' = wire \ {m}
    /\ active' = [active EXCEPT ![p].state =
           IF active[p].id # m.call THEN @
           ELSE IF active[p].session # NoCall THEN "connected" ELSE "connecting"]
    /\ UNCHANGED <<incoming, tasks, addrs>>

\* A decline or an end of the active call; the incoming call is not looked at.
OnEnd(p, m) ==
    /\ wire' = wire \ {m}
    /\ IF active[p].id = m.call
       THEN EndCallInternal(p, tasks[p])
       ELSE UNCHANGED <<active, tasks, addrs>>
    /\ UNCHANGED incoming

HandleSignalingMessage(p, m) ==
    /\ m \in wire /\ m.to = p
    /\ \/ m.type = "invite" /\ OnInvite(p, m)
       \/ m.type = "accept" /\ OnAccept(p, m)
       \/ m.type \in {"decline", "end"} /\ OnEnd(p, m)
    /\ UNCHANGED <<proc, ready, sidecar, history>>

-----------------------------------------------------------------------------
(* Tasks that resume *)

\* A response may still come while the process is closing.
Advance(p, g, next) ==
    stage' = [stage EXCEPT ![p][g] = IF @ = "closing" THEN @ ELSE next]

\* start() got its init answered and sends listen.
InitReturns(p, t) ==
    /\ t.op = "init" /\ stage[p][t.proc] \in {"up", "closing"} /\ proc[p] # 0
    /\ Advance(p, t.proc, "inited")
    /\ Await(p, tasks[p] \ {t}, Task("listen", t.call, proc[p], 0))
    /\ UNCHANGED <<active, incoming, proc, ready, addrs, side, host, wire, history>>

\* It got listen answered: the sidecar counts as ready, the addresses are asked for.
ListenReturns(p, t) ==
    /\ t.op = "listen" /\ stage[p][t.proc] \in {"inited", "listening", "closing"}
    /\ Advance(p, t.proc, "listening")
    /\ ready' = [ready EXCEPT ![p] = TRUE]
    /\ Await(p, tasks[p] \ {t}, Task("addrs", t.call, proc[p], 0))
    /\ UNCHANGED <<active, incoming, proc, addrs, side, host, wire, history>>

\* An error or a timeout of either makes start() throw; whatever call is active by
\* then is ended.
StartFails(p, t) ==
    /\ t.op \in {"init", "listen"}
    /\ EndCallInternal(p, tasks[p] \ {t})
    /\ UNCHANGED <<incoming, proc, ready, sidecar, wire, history>>

\* The addresses come, or fifteen attempts do not bring them; the invitation goes out
\* if its call is still the active one.
AddrsReturn(p, t) ==
    /\ t.op = "addrs"
    /\ \/ \E g \in {t.proc, proc[p]} \ {0} :
             /\ stage[p][g] = "listening" \/ (g = t.proc /\ stage[p][g] = "closing")
             /\ addrs' = [addrs EXCEPT ![p] = g]
       \/ UNCHANGED addrs
    /\ Return(p, tasks[p] \ {t})
    /\ wire' = IF active[p].id = t.call THEN wire \cup {Invite(t.call, addrs'[p])} ELSE wire
    /\ UNCHANGED <<active, incoming, proc, ready, sidecar, history>>

\* startForDial() got its init answered.
AnswerReady(p, t) ==
    /\ t.op = "answer" /\ stage[p][t.proc] \in {"up", "closing"}
    /\ Advance(p, t.proc, "inited")
    /\ ready' = [ready EXCEPT ![p] = TRUE]
    /\ Accept(p, t.call, t.addrs, tasks[p] \ {t}, active[p])
    /\ UNCHANGED <<incoming, proc, side, host, placed>>

\* It throws, and acceptCall with it: the call stays as it is.
AnswerFails(p, t) ==
    /\ t.op = "answer"
    /\ Return(p, tasks[p] \ {t})
    /\ UNCHANGED <<active, incoming, proc, ready, addrs, sidecar, wire, history>>

\* setPubAddrs is answered or fails; dialTuna begins if the call is still active.
SetReturns(p, t) ==
    /\ t.op = "set"
    /\ tasks' = [tasks EXCEPT ![p] = (@ \ {t}) \cup
           (IF active[p].id = t.call THEN {Task("dial", t.call, proc[p], t.addrs)} ELSE {})]
    /\ UNCHANGED <<active, incoming, proc, ready, addrs, sidecar, wire, history>>

\* The dial reaches the caller's listener: each sidecar has a side of the session.
DialOpens(p, t) ==
    LET q == Caller[t.call] IN
    /\ t.op = "dial" /\ t.proc # 0
    /\ stage[p][t.proc] \in {"inited", "listening"}
    /\ stage[q][t.addrs] = "listening"
    /\ side' = [side EXCEPT ![p][t.call] = "open", ![q][t.call] = "arriving"]
    /\ host' = [host EXCEPT ![p][t.call] = t.proc, ![q][t.call] = t.addrs]
    /\ Await(p, tasks[p] \ {t}, [t EXCEPT !.op = "linked"])
    /\ UNCHANGED <<active, incoming, proc, ready, addrs, stage, wire, history>>

\* mutant: the call id is not looked at again after the await
DialReturnsAny(p, t) ==
    /\ t.op = "linked"
    /\ IF active[p] # NoActive THEN Linked(p, t.call) ELSE UNCHANGED active
    /\ Return(p, tasks[p] \ {t})
    /\ UNCHANGED <<incoming, proc, ready, addrs, sidecar, wire, history>>
\* The response of the dial: the session is linked, open or already closed again.
DialReturns(p, t) ==
    /\ t.op = "linked"
    /\ IF active[p].id = t.call THEN Linked(p, t.call) ELSE UNCHANGED active
    /\ Return(p, tasks[p] \ {t})
    /\ UNCHANGED <<incoming, proc, ready, addrs, sidecar, wire, history>>

\* mutant: one dial too many
RedialsLonger(t) == t.tries <= MaxRetries
Redials(t) == t.tries < MaxRetries

\* mutant: the call stays as it is
GivesUpQuietly(p, t) == Return(p, tasks[p] \ {t}) /\ UNCHANGED <<active, addrs>>
\* All retries exhausted: the call ends, of which the caller is not told.
GivesUp(p, t) == EndCallInternal(p, tasks[p] \ {t})

\* A dial fails; the next one goes to the process held by then.
DialFails(p, t) ==
    /\ t.op \in {"dial", "linked"}
    /\ t.op = "linked" => stage[p][t.proc] \in {"dead", "gone"}
    /\ \/ /\ active[p].id # t.call
          /\ Return(p, tasks[p] \ {t}) /\ UNCHANGED <<active, addrs>>
       \/ /\ active[p].id = t.call /\ Redials(t)
          /\ Await(p, tasks[p] \ {t}, [t EXCEPT !.op = "dial", !.proc = proc[p], !.tries = @ + 1])
          /\ UNCHANGED <<active, addrs>>
       \/ active[p].id = t.call /\ ~Redials(t) /\ GivesUp(p, t)
    /\ UNCHANGED <<incoming, proc, ready, sidecar, wire, history>>

\* stop() got its shutdown answered, after everything the process had to report.
StopReturns(p, t) ==
    /\ t.op = "stopped"
    /\ \A c \in Calls : host[p][c] = t.proc => side[p][c] # "closed"
    /\ Return(p, tasks[p] \ {t})
    /\ LoseSidecar(p)
    /\ UNCHANGED <<active, incoming, addrs, sidecar, wire, history>>

-----------------------------------------------------------------------------
(* The sidecar *)

\* A process closes the sides it hosts; it reports the open ones as closed if it can.
Closed(p, g, report) ==
    [side EXCEPT ![p] = [c \in Calls |->
        IF host[p][c] # g \/ side[p][c] \notin {"arriving", "open"} THEN side[p][c]
        ELSE IF report /\ side[p][c] = "open" THEN "closed" ELSE "told"]]

\* handleShutdown: all sessions are closed, the response is written, the exit follows.
HandleShutdown(p, t) ==
    /\ t.op = "stop" /\ stage[p][t.proc] \in Alive \cup {"closing"}
    /\ stage' = [stage EXCEPT ![p][t.proc] = "closing"]
    /\ side' = Closed(p, t.proc, TRUE)
    /\ Await(p, tasks[p] \ {t}, [t EXCEPT !.op = "stopped"])
    /\ UNCHANGED <<active, incoming, proc, ready, addrs, host, wire, history>>

\* A shutdown nobody answers any more times out; stop() kills the process held by then.
StopTimesOut(p, t) ==
    /\ t.op = "stop" /\ stage[p][t.proc] \in {"dead", "gone"}
    /\ IF proc[p] # 0 /\ stage[p][proc[p]] \in Alive
       THEN /\ stage' = [stage EXCEPT ![p][proc[p]] = "dead"]
            /\ side' = Closed(p, proc[p], FALSE)
       ELSE UNCHANGED <<stage, side>>
    /\ Return(p, tasks[p] \ {t})
    /\ LoseSidecar(p)
    /\ UNCHANGED <<active, incoming, addrs, host, wire, history>>

Exits(p, g) ==
    /\ stage[p][g] = "closing"
    /\ stage' = [stage EXCEPT ![p][g] = "dead"]
    /\ UNCHANGED <<service, side, host, wire, history>>

Crashes(p, g) ==
    /\ stage[p][g] \in Alive
    /\ stage' = [stage EXCEPT ![p][g] = "dead"]
    /\ side' = Closed(p, g, FALSE)
    /\ UNCHANGED <<service, host, wire, history>>

\* The "exit" event: the service lets go of whatever process it holds, and an active
\* call ends; stop() finds no process.
ExitEvent(p, g) ==
    /\ stage[p][g] = "dead"
    /\ stage' = [stage EXCEPT ![p][g] = "gone"]
    /\ LoseSidecar(p)
    /\ active' = [active EXCEPT ![p] = NoActive]
    /\ addrs' = [addrs EXCEPT ![p] = IF active[p] = NoActive THEN @ ELSE 0]
    /\ UNCHANGED <<incoming, tasks, side, host, wire, history>>

\* The "incoming" event: the session is linked to the active call if that has none,
\* and rejected if it has one.
Incoming(p, c) ==
    /\ side[p][c] = "arriving" /\ stage[p][host[p][c]] = "listening"
    /\ IF active[p] # NoActive /\ active[p].session = NoCall
       THEN Linked(p, c) /\ side' = [side EXCEPT ![p][c] = "open"]
       ELSE /\ side' = [side EXCEPT ![p][c] = IF active[p] # NoActive THEN "told" ELSE "open"]
            /\ UNCHANGED active
    /\ UNCHANGED <<incoming, proc, ready, addrs, tasks, stage, host, wire, history>>

\* readLoop ends because the other side is closed.
HearsClose(p, c) ==
    /\ side[p][c] = "open" /\ side[Other(p)][c] \in {"closed", "told"}
    /\ side' = [side EXCEPT ![p][c] = "closed"]
    /\ UNCHANGED <<service, stage, host, wire, history>>

\* It ends because the connection is lost.
NetworkFails(p, c) ==
    /\ side[p][c] = "open"
    /\ side' = [side EXCEPT ![p][c] = "closed"]
    /\ UNCHANGED <<service, stage, host, wire, history>>

\* mutant: the event is not acted on
SessionClosedUnheard(p, c) ==
    /\ side[p][c] = "closed"
    /\ side' = [side EXCEPT ![p][c] = "told"]
    /\ UNCHANGED <<service, stage, host, wire, history>>
\* The "sessionClosed" event.
SessionClosed(p, c) ==
    /\ side[p][c] = "closed"
    /\ side' = [side EXCEPT ![p][c] = "told"]
    /\ IF active[p].session = c THEN EndCallInternal(p, tasks[p])
       ELSE UNCHANGED <<active, tasks, addrs>>
    /\ UNCHANGED <<incoming, proc, ready, stage, host, wire, history>>

-----------------------------------------------------------------------------
User(p) ==
    \/ \E c \in Calls : StartCall(p, c) \/ AcceptCall(p, c) \/ DeclineCall(p, c)
    \/ EndCall(p)

\* What follows an await, and what the sidecar does with a shutdown.
Resume(p) == \E t \in tasks[p] :
    \/ InitReturns(p, t) \/ ListenReturns(p, t) \/ StartFails(p, t) \/ AddrsReturn(p, t)
    \/ AnswerReady(p, t) \/ AnswerFails(p, t) \/ SetReturns(p, t)
    \/ DialOpens(p, t) \/ DialReturns(p, t) \/ DialFails(p, t)
    \/ HandleShutdown(p, t) \/ StopReturns(p, t) \/ StopTimesOut(p, t)

Event(p) ==
    \/ \E g \in Procs : Exits(p, g) \/ ExitEvent(p, g)
    \/ \E c \in Calls : Incoming(p, c) \/ HearsClose(p, c) \/ SessionClosed(p, c)

Fault(p) ==
    /\ faults < FaultLimit /\ faults' = faults + 1
    /\ \/ \E g \in Procs : Crashes(p, g)
       \/ \E c \in Calls : NetworkFails(p, c)

Next == \E p \in Peers :
    \/ /\ \/ User(p) \/ Resume(p) \/ Event(p)
          \/ \E m \in wire : HandleSignalingMessage(p, m)
       /\ UNCHANGED faults
    \/ Fault(p)

Spec == Init /\ [][Next]_vars

\* Every command is answered or times out, a process that is told to exits, and its
\* events are read.  Neither users nor the relay owe anything.
Fairness == \A p \in Peers : WF_vars((Resume(p) \/ Event(p)) /\ UNCHANGED faults)
FairSpec == Spec /\ Fairness

-----------------------------------------------------------------------------
(* Properties *)

Stages == {"none", "gone", "dead", "closing"} \cup Alive
TaskSet == [op : Ops, call : Ids, proc : 0 .. ProcLimit, addrs : 0 .. ProcLimit,
            tries : 1 .. MaxRetries]
SignalSet == [type : {"invite", "accept", "decline", "end"}, call : Calls, to : Peers,
              addrs : 0 .. ProcLimit]

\* The variables keep their types: no call is active or rings under no id, no task
\* dials more often than dialTuna allows.
TypeOK ==
    /\ \A p \in Peers : active[p] = NoActive \/ active[p] \in
           [id : Calls, state : {"ringing", "connecting", "connected"}, session : Ids]
    /\ incoming \in [Peers -> [id : Ids, addrs : 0 .. ProcLimit]]
    /\ proc \in [Peers -> 0 .. ProcLimit] /\ ready \in [Peers -> BOOLEAN]
    /\ addrs \in [Peers -> 0 .. ProcLimit]
    /\ tasks \in [Peers -> SUBSET TaskSet]
    /\ stage \in [Peers -> [Procs -> Stages]]
    /\ side \in [Peers -> [Calls -> {"none", "arriving", "open", "closed", "told"}]]
    /\ host \in [Peers -> [Calls -> 0 .. ProcLimit]]
    /\ wire \subseteq SignalSet
    /\ placed \subseteq Calls /\ accepted \subseteq placed /\ faults \in 0 .. FaultLimit

\* "Stop sidecar so next call starts fresh in the correct mode" (endCallInternal): a
\* peer with no call and nothing left to wait for runs no sidecar, which would go on
\* listening and paying for relays.
IdleIsClean == \A p \in Peers :
    active[p] = NoActive /\ tasks[p] = {} => Living(p) = {}

\* A call counts as connected only over the session its own callee dialled after
\* accepting: handleSidecarMessage links whatever session arrives to whatever call is
\* active.
SessionIsOfCall == \A p \in Peers :
    active[p].state = "connected" => active[p].session = active[p].id /\ active[p].id \in accepted

\* A caller who is connected does not stay in the call once the callee's side of its
\* session is closed, whatever signals are lost: sessionClosed, or the end of the sidecar.
CallerHearsEnd == \A c \in Calls :
    (active[Caller[c]].session = c /\ side[Callee(c)][c] \in {"closed", "told"})
        ~> active[Caller[c]].id # c

\* A callee who has sent the accept does not stay "connecting": the call is connected or
\* given up after the last dial.
AcceptedCallResolves == \A c \in Calls :
    LET call == active[Callee(c)] IN
    (call.id = c /\ c \in accepted) ~> (call.id # c \/ call.state = "connected")

=============================================================================
