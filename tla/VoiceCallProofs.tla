-------------------------- MODULE VoiceCallProofs --------------------------
(***************************************************************************)
(* What VoiceCall guarantees for any calls, any number of sidecar          *)
(* processes, crashes and dials: its types; that users who do not hurry    *)
(* have one sidecar at a time, the one of their call, and leave none       *)
(* running; and, when one peer places all calls, that a call is connected  *)
(* only over the session of its own callee.                                *)
(*                                                                         *)
(* A process is held while it is neither new nor gone.  The last two rest  *)
(* on there being at most one held process of a peer (CleanAt): a stop()   *)
(* that answers late, or an exit that is read late, then finds no process  *)
(* of another call.                                                        *)
(***************************************************************************)
EXTENDS VoiceCall, FiniteSetTheorems, TLAPS

LEMMA OtherPeer ==
    ASSUME NEW p \in Peers
    PROVE  Other(p) \in Peers /\ Other(p) # p /\ \A q \in Peers : q = p \/ q = Other(p)
BY CallsAssumption DEF Other

LEMMA CalleeIs ==
    ASSUME NEW c \in Calls
    PROVE  Caller[c] \in Peers /\ Callee(c) \in Peers /\ Callee(c) # Caller[c]
BY CallsAssumption, OtherPeer DEF Callee

-----------------------------------------------------------------------------
(* Types, and what the tasks and signals under way refer to *)

\* A task of p: what its call is, and the processes it may name.
GoodTask(p, t) ==
    /\ t.op \notin {"stop", "stopped"} => t.call \in placed
    /\ t.op \in {"init", "listen", "addrs"} => p = Caller[t.call]
    /\ t.op \in {"answer", "set", "dial", "linked"} => p = Callee(t.call)
    /\ t.op \in {"set", "dial", "linked"} => t.call \in accepted /\ t.addrs # 0
    /\ t.op \in {"init", "listen", "answer", "stop", "stopped", "linked"} => t.proc # 0
GoodSignal(m) == m.type = "invite" => m.call \in placed /\ m.to = Callee(m.call)

ActiveTyped ==
    /\ active \in [Peers -> [id : Ids, state : {"none", "ringing", "connecting", "connected"},
                             session : Ids]]
    /\ \A p \in Peers : active[p] = NoActive \/ active[p] \in
           [id : Calls, state : {"ringing", "connecting", "connected"}, session : Ids]
IncomingTyped ==
    /\ incoming \in [Peers -> [id : Ids, addrs : 0 .. ProcLimit]]
    /\ \A p \in Peers : incoming[p].id # NoCall =>
           incoming[p].id \in placed /\ p = Callee(incoming[p].id)
HeldTyped ==
    /\ proc \in [Peers -> 0 .. ProcLimit] /\ ready \in [Peers -> BOOLEAN]
    /\ addrs \in [Peers -> 0 .. ProcLimit]
TasksTyped ==
    /\ tasks \in [Peers -> SUBSET TaskSet]
    /\ \A p \in Peers : \A t \in tasks[p] : GoodTask(p, t)
SidecarTyped ==
    /\ stage \in [Peers -> [Procs -> Stages]]
    /\ side \in [Peers -> [Calls -> {"none", "arriving", "open", "closed", "told"}]]
    /\ host \in [Peers -> [Calls -> 0 .. ProcLimit]]
WireTyped == wire \subseteq SignalSet /\ \A m \in wire : GoodSignal(m)
HistoryTyped == placed \subseteq Calls /\ accepted \subseteq placed

Typed ==
    /\ ActiveTyped /\ IncomingTyped /\ HeldTyped /\ TasksTyped
    /\ SidecarTyped /\ WireTyped /\ HistoryTyped
FaultsTyped == faults \in 0 .. FaultLimit

LEMMA TypedIsTypeOK == Typed /\ FaultsTyped => TypeOK
BY DEF Typed, ActiveTyped, IncomingTyped, HeldTyped, TasksTyped, SidecarTyped, WireTyped,
   HistoryTyped, FaultsTyped, TypeOK

LEMMA InitTyped == Init => Typed /\ FaultsTyped
<1> SUFFICES ASSUME Init PROVE Typed /\ FaultsTyped
  OBVIOUS
<1>1. ActiveTyped
  BY DEF Init, ActiveTyped, NoActive, Ids
<1>2. IncomingTyped
  BY LimitAssumption DEF Init, IncomingTyped, NoIncoming, Ids
<1>3. HeldTyped /\ FaultsTyped
  BY LimitAssumption DEF Init, HeldTyped, FaultsTyped
<1>4. TasksTyped /\ WireTyped /\ HistoryTyped
  BY DEF Init, TasksTyped, WireTyped, HistoryTyped
<1>5. SidecarTyped
  BY LimitAssumption DEF Init, SidecarTyped, Stages, Procs
<1> QED BY <1>1, <1>2, <1>3, <1>4, <1>5 DEF Typed

\* Calls are only ever placed and accepted.
Grows == placed \subseteq placed' /\ accepted \subseteq accepted'

LEMMA TaskTyped ==
    ASSUME NEW op \in Ops, NEW c \in Ids, NEW g \in 0 .. ProcLimit, NEW a \in 0 .. ProcLimit
    PROVE  /\ Task(op, c, g, a) \in TaskSet
           /\ Task(op, c, g, a).op = op /\ Task(op, c, g, a).call = c
           /\ Task(op, c, g, a).proc = g /\ Task(op, c, g, a).addrs = a
BY LimitAssumption DEF Task, TaskSet

LEMMA TaskShape ==
    ASSUME TasksTyped, NEW p \in Peers, NEW t \in tasks[p]
    PROVE  /\ t \in TaskSet /\ GoodTask(p, t)
           /\ t.op \in Ops /\ t.call \in Ids /\ t.proc \in 0 .. ProcLimit
           /\ t.addrs \in 0 .. ProcLimit /\ t.tries \in 1 .. MaxRetries
BY DEF TasksTyped, TaskSet

\* The tasks of a peer become some of those it had and perhaps a new one.
LEMMA TasksBecome ==
    ASSUME TasksTyped, Grows, NEW p \in Peers, NEW S, tasks' = [tasks EXCEPT ![p] = S],
           \A x \in S : x \in tasks[p] \/ (x \in TaskSet /\ GoodTask(p, x)')
    PROVE  TasksTyped'
<1>1. tasks'[p] = S /\ \A q \in Peers : q # p => tasks'[q] = tasks[q]
  BY DEF TasksTyped
<1>2. ASSUME NEW q \in Peers, NEW x \in tasks[q] PROVE GoodTask(q, x)'
  BY <1>2 DEF TasksTyped, GoodTask, Grows
<1>3. S \subseteq TaskSet
  BY DEF TasksTyped
<1> QED BY <1>1, <1>2, <1>3 DEF TasksTyped

LEMMA TasksStay == ASSUME TasksTyped, Grows, UNCHANGED tasks PROVE TasksTyped'
BY DEF TasksTyped, GoodTask, Grows

LEMMA WireBecomes ==
    ASSUME WireTyped, Grows, NEW W, wire' = W,
           \A m \in W : m \in wire \/ (m \in SignalSet /\ GoodSignal(m)')
    PROVE  WireTyped'
BY DEF WireTyped, GoodSignal, Grows

LEMMA WireStays == ASSUME WireTyped, Grows, UNCHANGED wire PROVE WireTyped'
BY DEF WireTyped, GoodSignal, Grows

LEMMA IncomingStays == ASSUME IncomingTyped, Grows, UNCHANGED incoming PROVE IncomingTyped'
BY DEF IncomingTyped, Grows

LEMMA SignalTyped ==
    ASSUME NEW c \in Calls, NEW to \in Peers, NEW a \in 0 .. ProcLimit,
           NEW type \in {"accept", "decline", "end"}
    PROVE  /\ Signal(type, c, to, a) \in SignalSet /\ GoodSignal(Signal(type, c, to, a))'
BY DEF Signal, SignalSet, GoodSignal

LEMMA InviteTyped ==
    ASSUME NEW c \in placed', c \in Calls, NEW a \in 0 .. ProcLimit
    PROVE  Invite(c, a) \in SignalSet /\ GoodSignal(Invite(c, a))'
BY CalleeIs DEF Invite, Signal, SignalSet, GoodSignal

CallSet == [id : Calls, state : {"ringing", "connecting", "connected"}, session : Ids]

LEMMA ActiveBecomes ==
    ASSUME ActiveTyped, NEW p \in Peers, NEW x \in CallSet \cup {NoActive},
           active' = [active EXCEPT ![p] = x]
    PROVE  ActiveTyped'
<1>1. x \in [id : Ids, state : {"none", "ringing", "connecting", "connected"}, session : Ids]
  BY DEF CallSet, NoActive, Ids
<1> QED BY <1>1 DEF ActiveTyped, CallSet

\* The end of a call.
LEMMA EndTyped ==
    ASSUME Typed, Grows, NEW p \in Peers, NEW rest, rest \subseteq tasks[p],
           EndCallInternal(p, rest)
    PROVE  ActiveTyped' /\ TasksTyped' /\ addrs' \in [Peers -> 0 .. ProcLimit]
<1>1. ActiveTyped' /\ addrs' \in [Peers -> 0 .. ProcLimit]
  <2>1. ActiveTyped'
    BY ActiveBecomes DEF EndCallInternal, Typed
  <2> QED BY <2>1, LimitAssumption DEF EndCallInternal, Typed, HeldTyped
<1>2. StopTask(p) \subseteq TaskSet /\ \A x \in StopTask(p) : GoodTask(p, x)'
  <2>1. CASE proc[p] = 0
    BY <2>1 DEF StopTask
  <2>2. CASE proc[p] # 0
    <3>1. proc[p] \in 0 .. ProcLimit /\ 0 \in 0 .. ProcLimit
      BY LimitAssumption DEF Typed, HeldTyped
    <3>2. NoCall \in Ids /\ "stop" \in Ops
      BY DEF Ids, Ops
    <3>3. PICK x : x = Task("stop", NoCall, proc[p], 0)
      OBVIOUS
    <3>4. x \in TaskSet /\ x.op = "stop" /\ x.proc = proc[p]
      BY <3>1, <3>2, <3>3, TaskTyped
    <3>5. GoodTask(p, x)'
      BY <2>2, <3>4 DEF GoodTask
    <3> QED BY <2>2, <3>3, <3>4, <3>5 DEF StopTask
  <2> QED BY <2>1, <2>2
<1>3. TasksTyped'
  <2> DEFINE S == rest \cup StopTask(p)
  <2>1. tasks' = [tasks EXCEPT ![p] = S] /\ TasksTyped
    BY DEF EndCallInternal, Typed
  <2>2. \A x \in S : x \in tasks[p] \/ (x \in TaskSet /\ GoodTask(p, x)')
    BY <1>2
  <2> HIDE DEF S
  <2> QED BY <2>1, <2>2, TasksBecome
<1> QED BY <1>1, <1>3

LEMMA AwaitTyped ==
    ASSUME TasksTyped, Grows, NEW p \in Peers, NEW rest, rest \subseteq tasks[p],
           NEW x \in TaskSet, GoodTask(p, x)', Await(p, rest, x)
    PROVE  TasksTyped'
<1> DEFINE S == rest \cup {x}
<1>1. tasks' = [tasks EXCEPT ![p] = S]
  BY DEF Await
<1>2. \A y \in S : y \in tasks[p] \/ (y \in TaskSet /\ GoodTask(p, y)')
  OBVIOUS
<1> HIDE DEF S
<1> QED BY <1>1, <1>2, TasksBecome

LEMMA ReturnTyped ==
    ASSUME TasksTyped, Grows, NEW p \in Peers, NEW rest, rest \subseteq tasks[p],
           Return(p, rest)
    PROVE  TasksTyped'
BY TasksBecome DEF Return

LEMMA SpawnTyped ==
    ASSUME Typed, Grows, NEW p \in Peers, NEW op \in {"init", "answer"}, NEW c \in Calls,
           c \in placed', IF op = "init" THEN p = Caller[c] ELSE p = Callee(c),
           NEW a \in 0 .. ProcLimit, Spawn(p, op, c, a)
    PROVE  /\ stage' \in [Peers -> [Procs -> Stages]] /\ proc' \in [Peers -> 0 .. ProcLimit]
           /\ TasksTyped'
<1>1. PICK g \in Fresh(p) : /\ stage' = [stage EXCEPT ![p][g] = "up"]
                            /\ proc' = [proc EXCEPT ![p] = g]
                            /\ Await(p, tasks[p], Task(op, c, g, a))
  BY DEF Spawn
<1>2. g \in Procs /\ g \in 0 .. ProcLimit /\ g # 0
  BY LimitAssumption DEF Fresh, Procs
<1>3. stage' \in [Peers -> [Procs -> Stages]] /\ proc' \in [Peers -> 0 .. ProcLimit]
  BY <1>1, <1>2 DEF Typed, SidecarTyped, HeldTyped, Stages, Alive
<1>4. PICK x : x = Task(op, c, g, a)
  OBVIOUS
<1>5. /\ x \in TaskSet /\ x.op = op /\ x.call = c /\ x.proc = g
  BY <1>2, <1>4, TaskTyped DEF Ops, Ids
<1>6. GoodTask(p, x)'
  BY <1>2, <1>5 DEF GoodTask
<1>7. TasksTyped'
  BY <1>1, <1>4, <1>5, <1>6, AwaitTyped DEF Typed
<1> QED BY <1>3, <1>7

LEMMA CallTyped ==
    ASSUME NEW c \in Calls, NEW state \in {"ringing", "connecting", "connected"}
    PROVE  /\ CallOf(c, state) \in CallSet /\ CallOf(c, state) # NoActive
           /\ CallOf(c, state).id = c /\ CallOf(c, state).session = NoCall
           /\ CallOf(c, state).state = state
BY CallsAssumption DEF CallOf, CallSet, Ids, NoActive

LEMMA AcceptTyped ==
    ASSUME Typed, NEW p \in Peers, NEW c \in Calls, c \in placed, p = Callee(c),
           NEW a \in 0 .. ProcLimit, NEW rest, rest \subseteq tasks[p],
           NEW act \in CallSet \cup {NoActive}, Accept(p, c, a, rest, act), UNCHANGED placed
    PROVE  /\ Grows /\ HistoryTyped' /\ ActiveTyped' /\ TasksTyped' /\ WireTyped'
           /\ addrs' \in [Peers -> 0 .. ProcLimit]
<1>1. Grows /\ HistoryTyped' /\ c \in accepted'
  BY DEF Grows, HistoryTyped, Typed, Accept
<1>2. WireTyped'
  <2>1. PICK m : m = Signal("accept", c, Caller[c], 0)
    OBVIOUS
  <2>2. m \in SignalSet /\ GoodSignal(m)'
    BY <2>1, CalleeIs, SignalTyped, LimitAssumption
  <2>3. wire' = wire \cup {m}
    BY <2>1 DEF Accept
  <2> QED BY <1>1, <2>2, <2>3, WireBecomes DEF Typed
<1>3. CASE a = 0
  BY <1>1, <1>2, <1>3, EndTyped DEF Accept
<1>4. CASE a # 0
  <2>1. ActiveTyped' /\ addrs' \in [Peers -> 0 .. ProcLimit]
    BY <1>4, ActiveBecomes DEF Accept, Typed, HeldTyped
  <2>2. PICK x : x = Task("set", c, proc[p], a)
    OBVIOUS
  <2>3. x \in TaskSet /\ x.op = "set" /\ x.call = c /\ x.addrs = a
    BY <2>2, TaskTyped DEF Ops, Ids, Typed, HeldTyped
  <2>4. GoodTask(p, x)'
    BY <1>1, <1>4, <2>3 DEF GoodTask, HistoryTyped
  <2>5. TasksTyped'
    BY <1>1, <1>4, <2>2, <2>3, <2>4, AwaitTyped DEF Accept, Typed
  <2> QED BY <1>1, <1>2, <2>1, <2>5
<1> QED BY <1>3, <1>4

-----------------------------------------------------------------------------
(* Types: users and signals *)

LEMMA StartCallTyped ==
    ASSUME Typed, NEW p \in Peers, NEW c \in Calls, StartCall(p, c)
    PROVE  Typed'
<1>1. Grows /\ HistoryTyped' /\ c \in placed' /\ p = Caller[c]
  BY DEF Grows, HistoryTyped, Typed, StartCall
<1>2. ActiveTyped'
  BY CallTyped, ActiveBecomes DEF StartCall, Typed
<1>3. /\ stage' \in [Peers -> [Procs -> Stages]] /\ proc' \in [Peers -> 0 .. ProcLimit]
      /\ TasksTyped' /\ WireTyped'
  <2>1. CASE NeedsSpawn(p)
    <3>1. Spawn(p, "init", c, 0) /\ UNCHANGED wire
      BY <2>1 DEF StartCall
    <3> QED BY <1>1, <3>1, SpawnTyped, WireStays, LimitAssumption DEF Typed
  <2>2. CASE ~NeedsSpawn(p)
    <3>1. wire' = wire \cup {Invite(c, addrs[p])} /\ UNCHANGED <<stage, proc, tasks>>
      BY <2>2 DEF StartCall
    <3>2. PICK m : m = Invite(c, addrs[p])
      OBVIOUS
    <3>3. m \in SignalSet /\ GoodSignal(m)'
      BY <1>1, <3>2, InviteTyped DEF Typed, HeldTyped
    <3>4. WireTyped'
      BY <1>1, <3>1, <3>2, <3>3, WireBecomes DEF Typed
    <3> QED BY <1>1, <3>1, <3>4, TasksStay DEF Typed, SidecarTyped, HeldTyped
  <2> QED BY <2>1, <2>2
<1>4. IncomingTyped'
  BY <1>1, IncomingStays DEF StartCall, Typed
<1> QED
  BY <1>1, <1>2, <1>3, <1>4 DEF StartCall, Typed, HeldTyped, SidecarTyped

LEMMA AcceptCallTyped ==
    ASSUME Typed, NEW p \in Peers, NEW c \in Calls, AcceptCall(p, c)
    PROVE  Typed'
<1> DEFINE a == incoming[p].addrs
           act == CallOf(c, "connecting")
<1>1. c \in placed /\ p = Callee(c) /\ a \in 0 .. ProcLimit
  BY CallsAssumption DEF AcceptCall, Typed, IncomingTyped
<1>2. act \in CallSet \cup {NoActive}
  BY CallTyped
<1>3. IncomingTyped' /\ UNCHANGED <<ready, side, host, placed>>
  BY LimitAssumption DEF AcceptCall, Typed, IncomingTyped, NoIncoming, Ids
<1>4. CASE NeedsSpawn(p)
  <2>1. /\ Spawn(p, "answer", c, a) /\ active' = [active EXCEPT ![p] = act]
        /\ UNCHANGED <<wire, addrs, accepted>>
    BY <1>4 DEF AcceptCall
  <2>2. Grows
    BY <1>3, <2>1 DEF Grows
  <2>3. /\ stage' \in [Peers -> [Procs -> Stages]] /\ proc' \in [Peers -> 0 .. ProcLimit]
        /\ TasksTyped'
    BY <1>1, <1>3, <2>1, <2>2, SpawnTyped
  <2>4. ActiveTyped' /\ WireTyped'
    BY <1>2, <2>1, <2>2, ActiveBecomes, WireStays DEF Typed
  <2> QED
    BY <1>3, <2>1, <2>3, <2>4 DEF Typed, HeldTyped, SidecarTyped, HistoryTyped
<1>5. CASE ~NeedsSpawn(p)
  <2>1. Accept(p, c, a, tasks[p], act) /\ UNCHANGED <<stage, proc>>
    BY <1>5 DEF AcceptCall
  <2>2. /\ HistoryTyped' /\ ActiveTyped' /\ TasksTyped' /\ WireTyped'
        /\ addrs' \in [Peers -> 0 .. ProcLimit]
    BY <1>1, <1>2, <1>3, <2>1, AcceptTyped
  <2> QED BY <1>3, <2>1, <2>2 DEF Typed, HeldTyped, SidecarTyped
<1> QED BY <1>4, <1>5

LEMMA DeclineCallTyped ==
    ASSUME Typed, NEW p \in Peers, NEW c \in Calls, DeclineCall(p, c)
    PROVE  Typed'
<1>1. UNCHANGED <<active, proc, ready, addrs, tasks, stage, side, host, placed, accepted>>
  BY DEF DeclineCall, sidecar, history
<1>2. Grows
  BY <1>1 DEF Grows
<1>3. IncomingTyped'
  BY <1>1, LimitAssumption DEF DeclineCall, Typed, IncomingTyped, NoIncoming, Ids
<1>4. WireTyped'
  <2>1. PICK m : m = Signal("decline", c, Caller[c], 0)
    OBVIOUS
  <2>2. m \in SignalSet /\ GoodSignal(m)'
    BY <2>1, CalleeIs, SignalTyped, LimitAssumption
  <2>3. wire' = wire \cup {m}
    BY <2>1 DEF DeclineCall
  <2> QED BY <1>2, <2>2, <2>3, WireBecomes DEF Typed
<1>5. TasksTyped'
  BY <1>1, <1>2, TasksStay DEF Typed
<1> QED
  BY <1>1, <1>3, <1>4, <1>5
     DEF Typed, ActiveTyped, HeldTyped, SidecarTyped, HistoryTyped

LEMMA EndCallTyped ==
    ASSUME Typed, NEW p \in Peers, EndCall(p)
    PROVE  Typed'
<1>1. UNCHANGED <<incoming, proc, ready, stage, side, host, placed, accepted>>
  BY DEF EndCall, sidecar, history
<1>2. Grows
  BY <1>1 DEF Grows
<1>3. ActiveTyped' /\ TasksTyped' /\ addrs' \in [Peers -> 0 .. ProcLimit]
  BY <1>2, EndTyped DEF EndCall
<1>4. WireTyped'
  <2>1. PICK m : m = Signal("end", active[p].id, Other(p), 0)
    OBVIOUS
  <2>2. active[p].id \in Calls
    BY DEF EndCall, Typed, ActiveTyped
  <2>3. m \in SignalSet /\ GoodSignal(m)'
    BY <2>1, <2>2, OtherPeer, SignalTyped, LimitAssumption
  <2>4. wire' = wire \cup {m}
    BY <2>1 DEF EndCall
  <2> QED BY <1>2, <2>3, <2>4, WireBecomes DEF Typed
<1>5. IncomingTyped'
  BY <1>1, <1>2, IncomingStays DEF Typed
<1> QED BY <1>1, <1>3, <1>4, <1>5 DEF Typed, HeldTyped, SidecarTyped, HistoryTyped

LEMMA SignalHandled ==
    ASSUME Typed, NEW p \in Peers, NEW m \in wire, HandleSignalingMessage(p, m)
    PROVE  Typed'
<1>1. UNCHANGED <<proc, ready, stage, side, host, placed, accepted>> /\ m.to = p
  BY DEF HandleSignalingMessage, sidecar, history
<1>2. Grows
  BY <1>1 DEF Grows
<1>3. m \in SignalSet /\ GoodSignal(m) /\ m.call \in Calls /\ m.addrs \in 0 .. ProcLimit
  BY DEF Typed, WireTyped, SignalSet
<1>4. /\ ActiveTyped' /\ TasksTyped' /\ addrs' \in [Peers -> 0 .. ProcLimit]
      /\ IncomingTyped' /\ WireTyped'
  <2>1. CASE m.type = "invite" /\ OnInvite(p, m) /\ active[p] # NoActive
    <3>1. /\ wire' = (wire \ {m}) \cup {Signal("decline", m.call, Other(p), 0)}
          /\ UNCHANGED <<active, incoming, tasks, addrs>>
      BY <2>1 DEF OnInvite
    <3>2. PICK n : n = Signal("decline", m.call, Other(p), 0)
      OBVIOUS
    <3>3. n \in SignalSet /\ GoodSignal(n)'
      BY <1>3, <3>2, OtherPeer, SignalTyped, LimitAssumption
    <3>4. WireTyped'
      BY <1>2, <3>1, <3>2, <3>3, WireBecomes DEF Typed
    <3>5. TasksTyped' /\ IncomingTyped'
      BY <1>2, <3>1, TasksStay, IncomingStays DEF Typed
    <3> QED BY <3>1, <3>4, <3>5 DEF Typed, ActiveTyped, HeldTyped
  <2>2. CASE m.type = "invite" /\ OnInvite(p, m) /\ active[p] = NoActive
    <3>1. /\ incoming' = [incoming EXCEPT ![p] = [id |-> m.call, addrs |-> m.addrs]]
          /\ wire' = wire \ {m} /\ UNCHANGED <<active, tasks, addrs>>
      BY <2>2 DEF OnInvite
    <3>2. WireTyped' /\ TasksTyped'
      BY <1>2, <3>1, WireBecomes, TasksStay DEF Typed
    <3>3. m.call \in placed /\ p = Callee(m.call)
      BY <1>1, <1>3, <2>2 DEF GoodSignal
    <3>4. IncomingTyped'
      BY <1>1, <1>3, <3>1, <3>3 DEF Typed, IncomingTyped, Ids
    <3> QED BY <3>1, <3>2, <3>4 DEF Typed, ActiveTyped, HeldTyped
  <2>3. CASE m.type = "accept" /\ OnAccept(p, m)
    <3>1. wire' = wire \ {m} /\ UNCHANGED <<incoming, tasks, addrs>>
      BY <2>3 DEF OnAccept
    <3>2. WireTyped' /\ TasksTyped' /\ IncomingTyped'
      BY <1>2, <3>1, WireBecomes, TasksStay, IncomingStays DEF Typed
    <3>3. ActiveTyped'
      <4>1. CASE active[p].id # m.call
        <5>1. active' = active
          BY <2>3, <4>1 DEF OnAccept, Typed, ActiveTyped
        <5> QED BY <5>1 DEF Typed, ActiveTyped
      <4>2. CASE active[p].id = m.call
        <5>1. active[p] \in CallSet
          BY <1>3, <4>2, CallsAssumption DEF Typed, ActiveTyped, NoActive, CallSet
        <5>2. PICK st \in {"connecting", "connected"} : active' = [active EXCEPT ![p].state = st]
          BY <2>3, <4>2 DEF OnAccept
        <5>3. PICK x : x = [active[p] EXCEPT !.state = st]
          OBVIOUS
        <5>4. x \in CallSet /\ active' = [active EXCEPT ![p] = x]
          BY <5>1, <5>2, <5>3 DEF CallSet
        <5> QED BY <5>4, ActiveBecomes DEF Typed
      <4> QED BY <4>1, <4>2
    <3> QED BY <3>1, <3>2, <3>3 DEF Typed, HeldTyped
  <2>4. CASE OnEnd(p, m)
    <3>1. WireTyped' /\ IncomingTyped'
      BY <1>2, <2>4, WireBecomes, IncomingStays DEF OnEnd, Typed
    <3>2. CASE active[p].id = m.call
      BY <1>2, <2>4, <3>1, <3>2, EndTyped DEF OnEnd
    <3>3. CASE active[p].id # m.call
      BY <1>2, <2>4, <3>1, <3>3, TasksStay DEF OnEnd, Typed, ActiveTyped, HeldTyped
    <3> QED BY <3>2, <3>3
  <2> QED BY <2>1, <2>2, <2>3, <2>4 DEF HandleSignalingMessage
<1> QED BY <1>1, <1>4 DEF Typed, HeldTyped, SidecarTyped, HistoryTyped
-----------------------------------------------------------------------------
(* Types: tasks that resume *)

LEMMA LinkTyped ==
    ASSUME Typed, NEW p \in Peers, NEW c \in Calls, active[p] # NoActive, Linked(p, c)
    PROVE  ActiveTyped'
<1>1. active[p] \in CallSet
  BY DEF Typed, ActiveTyped, CallSet
<1>2. PICK x : x = [active[p] EXCEPT !.session = c, !.state = "connected"]
  OBVIOUS
<1>3. x \in CallSet /\ active' = [active EXCEPT ![p] = x]
  BY <1>1, <1>2 DEF Linked, CallSet, Ids
<1> QED BY <1>3, ActiveBecomes DEF Typed

LEMMA AdvanceTyped ==
    ASSUME SidecarTyped, NEW p \in Peers, NEW g \in Procs, NEW next \in Stages,
           Advance(p, g, next)
    PROVE  stage' \in [Peers -> [Procs -> Stages]]
BY DEF SidecarTyped, Advance

LEMMA ClosedTyped ==
    ASSUME SidecarTyped, NEW p \in Peers, NEW g, NEW report, side' = Closed(p, g, report)
    PROVE  side' \in [Peers -> [Calls -> {"none", "arriving", "open", "closed", "told"}]]
<1> DEFINE f == [c \in Calls |->
        IF host[p][c] # g \/ side[p][c] \notin {"arriving", "open"} THEN side[p][c]
        ELSE IF report /\ side[p][c] = "open" THEN "closed" ELSE "told"]
<1>1. f \in [Calls -> {"none", "arriving", "open", "closed", "told"}]
  BY DEF SidecarTyped
<1>2. side' = [side EXCEPT ![p] = f]
  BY DEF Closed
<1> HIDE DEF f
<1> QED BY <1>1, <1>2 DEF SidecarTyped

LEMMA InProcs == \A g \in 0 .. ProcLimit : g # 0 => g \in Procs
BY LimitAssumption DEF Procs

LEMMA StartTyped ==
    ASSUME Typed, NEW p \in Peers, NEW t \in tasks[p],
           InitReturns(p, t) \/ ListenReturns(p, t)
    PROVE  Typed'
<1>1. /\ t \in TaskSet /\ GoodTask(p, t) /\ t.call \in Ids /\ t.proc \in Procs
      /\ t.op \in {"init", "listen"} /\ t.call \in Calls /\ t.call \in placed
  BY TaskShape, InProcs
     DEF Typed, InitReturns, ListenReturns, GoodTask, HistoryTyped
<1>2. UNCHANGED <<active, incoming, proc, addrs, side, host, wire, placed, accepted>>
  BY DEF InitReturns, ListenReturns, history
<1>3. Grows
  BY <1>2 DEF Grows
<1>4. stage' \in [Peers -> [Procs -> Stages]]
  BY <1>1, AdvanceTyped DEF InitReturns, ListenReturns, Typed, Stages, Alive
<1>5. ready' \in [Peers -> BOOLEAN]
  BY DEF InitReturns, ListenReturns, Typed, HeldTyped
<1>6. PICK op \in {"listen", "addrs"} :
          /\ Await(p, tasks[p] \ {t}, Task(op, t.call, proc[p], 0))
          /\ op = "listen" => proc[p] # 0
  BY DEF InitReturns, ListenReturns
<1>7. PICK x : x = Task(op, t.call, proc[p], 0)
  OBVIOUS
<1>8. proc[p] \in 0 .. ProcLimit /\ 0 \in 0 .. ProcLimit /\ op \in Ops
  BY LimitAssumption DEF Typed, HeldTyped, Ops
<1>9. x \in TaskSet /\ x.op = op /\ x.call = t.call /\ x.proc = proc[p]
  BY <1>1, <1>7, <1>8, TaskTyped
<1>10. GoodTask(p, x)'
  BY <1>1, <1>2, <1>6, <1>9 DEF GoodTask
<1>11. TasksTyped'
  BY <1>3, <1>6, <1>7, <1>9, <1>10, AwaitTyped DEF Typed
<1>12. IncomingTyped' /\ WireTyped'
  BY <1>2, <1>3, IncomingStays, WireStays DEF Typed
<1> QED
  BY <1>2, <1>4, <1>5, <1>11, <1>12 DEF Typed, ActiveTyped, HeldTyped, SidecarTyped, HistoryTyped

LEMMA StartFailsTyped ==
    ASSUME Typed, NEW p \in Peers, NEW t \in tasks[p], StartFails(p, t)
    PROVE  Typed'
<1>1. UNCHANGED <<incoming, proc, ready, stage, side, host, wire, placed, accepted>>
  BY DEF StartFails, sidecar, history
<1>2. Grows
  BY <1>1 DEF Grows
<1>3. ActiveTyped' /\ TasksTyped' /\ addrs' \in [Peers -> 0 .. ProcLimit]
  BY <1>2, EndTyped DEF StartFails
<1>4. IncomingTyped' /\ WireTyped'
  BY <1>1, <1>2, IncomingStays, WireStays DEF Typed
<1> QED BY <1>1, <1>3, <1>4 DEF Typed, HeldTyped, SidecarTyped, HistoryTyped

LEMMA AddrsTyped ==
    ASSUME Typed, NEW p \in Peers, NEW t \in tasks[p], AddrsReturn(p, t)
    PROVE  Typed'
<1>1. UNCHANGED <<active, incoming, proc, ready, stage, side, host, placed, accepted>>
  BY DEF AddrsReturn, sidecar, history
<1>2. Grows
  BY <1>1 DEF Grows
<1>3. /\ t.proc \in 0 .. ProcLimit /\ t.call \in Calls /\ t.call \in placed
      /\ proc[p] \in 0 .. ProcLimit
  BY TaskShape DEF AddrsReturn, GoodTask, Typed, HistoryTyped, HeldTyped
<1>4. addrs' \in [Peers -> 0 .. ProcLimit]
  BY <1>3 DEF AddrsReturn, Typed, HeldTyped
<1>5. WireTyped'
  <2>1. PICK m : m = Invite(t.call, addrs'[p])
    OBVIOUS
  <2>2. m \in SignalSet /\ GoodSignal(m)'
    BY <1>1, <1>3, <1>4, <2>1, InviteTyped
  <2>3. wire' \in {wire, wire \cup {m}}
    BY <2>1 DEF AddrsReturn
  <2> QED BY <1>2, <2>2, <2>3, WireBecomes DEF Typed
<1>6. TasksTyped'
  BY <1>2, ReturnTyped DEF AddrsReturn, Typed
<1>7. IncomingTyped'
  BY <1>1, <1>2, IncomingStays DEF Typed
<1> QED
  BY <1>1, <1>4, <1>5, <1>6, <1>7 DEF Typed, ActiveTyped, HeldTyped, SidecarTyped, HistoryTyped

LEMMA AnswerReadyTyped ==
    ASSUME Typed, NEW p \in Peers, NEW t \in tasks[p], AnswerReady(p, t)
    PROVE  Typed'
<1>1. /\ t.op = "answer" /\ Accept(p, t.call, t.addrs, tasks[p] \ {t}, active[p])
      /\ Advance(p, t.proc, "inited") /\ ready' = [ready EXCEPT ![p] = TRUE]
      /\ UNCHANGED <<incoming, proc, side, host, placed>>
  BY DEF AnswerReady
<1>2. /\ t.call \in Calls /\ t.call \in placed /\ p = Callee(t.call)
      /\ t.addrs \in 0 .. ProcLimit /\ t.proc \in Procs
  BY <1>1, TaskShape, InProcs DEF GoodTask, Typed, HistoryTyped
<1>3. active[p] \in CallSet \cup {NoActive}
  BY DEF Typed, ActiveTyped, CallSet
<1>4. /\ Grows /\ HistoryTyped' /\ ActiveTyped' /\ TasksTyped' /\ WireTyped'
      /\ addrs' \in [Peers -> 0 .. ProcLimit]
  BY <1>1, <1>2, <1>3, AcceptTyped
<1>5. stage' \in [Peers -> [Procs -> Stages]]
  BY <1>1, <1>2, AdvanceTyped DEF Typed, Stages, Alive
<1>6. IncomingTyped'
  BY <1>1, <1>4, IncomingStays DEF Typed
<1> QED BY <1>1, <1>4, <1>5, <1>6 DEF Typed, HeldTyped, SidecarTyped

LEMMA AnswerFailsTyped ==
    ASSUME Typed, NEW p \in Peers, NEW t \in tasks[p], AnswerFails(p, t)
    PROVE  Typed'
<1>1. UNCHANGED <<active, incoming, proc, ready, addrs, stage, side, host, wire, placed,
                  accepted>>
  BY DEF AnswerFails, sidecar, history
<1>2. Grows
  BY <1>1 DEF Grows
<1>3. TasksTyped' /\ IncomingTyped' /\ WireTyped'
  BY <1>1, <1>2, ReturnTyped, IncomingStays, WireStays DEF AnswerFails, Typed
<1> QED BY <1>1, <1>3 DEF Typed, ActiveTyped, HeldTyped, SidecarTyped, HistoryTyped

LEMMA SetTyped ==
    ASSUME Typed, NEW p \in Peers, NEW t \in tasks[p], SetReturns(p, t)
    PROVE  Typed'
<1>1. UNCHANGED <<active, incoming, proc, ready, addrs, stage, side, host, wire, placed,
                  accepted>>
  BY DEF SetReturns, sidecar, history
<1>2. Grows
  BY <1>1 DEF Grows
<1>3. PICK x : x = Task("dial", t.call, proc[p], t.addrs)
  OBVIOUS
<1>4. t.op = "set" /\ GoodTask(p, t) /\ t.call \in Ids /\ t.addrs \in 0 .. ProcLimit
      /\ proc[p] \in 0 .. ProcLimit
  BY TaskShape DEF SetReturns, Typed, HeldTyped
<1>5. x \in TaskSet /\ x.op = "dial" /\ x.call = t.call /\ x.addrs = t.addrs
  BY <1>3, <1>4, TaskTyped DEF Ops
<1>6. GoodTask(p, x)'
  BY <1>1, <1>4, <1>5 DEF GoodTask
<1> DEFINE S == (tasks[p] \ {t}) \cup (IF active[p].id = t.call THEN {x} ELSE {})
<1>7. tasks' = [tasks EXCEPT ![p] = S] /\ TasksTyped
  BY <1>3 DEF SetReturns, Typed
<1>8. \A y \in S : y \in tasks[p] \/ (y \in TaskSet /\ GoodTask(p, y)')
  BY <1>5, <1>6
<1> HIDE DEF S
<1>9. TasksTyped' /\ IncomingTyped' /\ WireTyped'
  BY <1>1, <1>2, <1>7, <1>8, TasksBecome, IncomingStays, WireStays DEF Typed
<1> QED BY <1>1, <1>9 DEF Typed, ActiveTyped, HeldTyped, SidecarTyped, HistoryTyped

\* A task that goes on under another op, for the same call.
LEMMA TaskGoesOn ==
    ASSUME NEW t \in TaskSet, NEW op \in Ops
    PROVE  LET x == [t EXCEPT !.op = op] IN
           x \in TaskSet /\ x.op = op /\ x.call = t.call /\ x.proc = t.proc
           /\ x.addrs = t.addrs
BY DEF TaskSet

LEMMA DialOpensTyped ==
    ASSUME Typed, NEW p \in Peers, NEW t \in tasks[p], DialOpens(p, t)
    PROVE  Typed'
<1> DEFINE q == Caller[t.call]
<1>1. UNCHANGED <<active, incoming, proc, ready, addrs, stage, wire, placed, accepted>>
      /\ t.op = "dial" /\ t.proc # 0
  BY DEF DialOpens, history
<1>2. Grows
  BY <1>1 DEF Grows
<1>3. t \in TaskSet /\ GoodTask(p, t) /\ t.call \in Calls /\ q \in Peers
      /\ t.proc \in 0 .. ProcLimit /\ t.addrs \in 0 .. ProcLimit
  BY <1>1, TaskShape, CalleeIs DEF GoodTask, Typed, HistoryTyped
<1>4. PICK x : x = [t EXCEPT !.op = "linked"]
  OBVIOUS
<1>5. x \in TaskSet /\ x.op = "linked" /\ x.call = t.call /\ x.proc = t.proc
      /\ x.addrs = t.addrs
  BY <1>3, <1>4, TaskGoesOn DEF Ops
<1>6. GoodTask(p, x)'
  BY <1>1, <1>3, <1>5 DEF GoodTask
<1>7. Await(p, tasks[p] \ {t}, x)
  BY <1>4 DEF DialOpens
<1>8. TasksTyped' /\ IncomingTyped' /\ WireTyped'
  BY <1>1, <1>2, <1>5, <1>6, <1>7, AwaitTyped, IncomingStays, WireStays DEF Typed
<1>9. SidecarTyped'
  BY <1>1, <1>3 DEF DialOpens, Typed, SidecarTyped
<1> QED BY <1>1, <1>8, <1>9 DEF Typed, ActiveTyped, HeldTyped, HistoryTyped

LEMMA DialReturnsTyped ==
    ASSUME Typed, NEW p \in Peers, NEW t \in tasks[p], DialReturns(p, t)
    PROVE  Typed'
<1>1. UNCHANGED <<incoming, proc, ready, addrs, stage, side, host, wire, placed, accepted>>
      /\ t.op = "linked"
  BY DEF DialReturns, sidecar, history
<1>2. Grows
  BY <1>1 DEF Grows
<1>3. t.call \in Calls
  BY <1>1, TaskShape DEF GoodTask, Typed, HistoryTyped
<1>4. ActiveTyped'
  <2>1. CASE active[p].id = t.call
    <3>1. active[p] # NoActive
      BY <1>3, <2>1, CallsAssumption DEF NoActive
    <3> QED BY <1>3, <2>1, <3>1, LinkTyped DEF DialReturns
  <2>2. CASE active[p].id # t.call
    BY <2>2 DEF DialReturns, Typed, ActiveTyped
  <2> QED BY <2>1, <2>2
<1>5. TasksTyped' /\ IncomingTyped' /\ WireTyped'
  BY <1>1, <1>2, ReturnTyped, IncomingStays, WireStays DEF DialReturns, Typed
<1> QED BY <1>1, <1>4, <1>5 DEF Typed, HeldTyped, SidecarTyped, HistoryTyped

LEMMA DialFailsTyped ==
    ASSUME Typed, NEW p \in Peers, NEW t \in tasks[p], DialFails(p, t)
    PROVE  Typed'
<1>1. UNCHANGED <<incoming, proc, ready, stage, side, host, wire, placed, accepted>>
      /\ t.op \in {"dial", "linked"}
  BY DEF DialFails, sidecar, history
<1>2. Grows
  BY <1>1 DEF Grows
<1>3. ActiveTyped' /\ TasksTyped' /\ addrs' \in [Peers -> 0 .. ProcLimit]
  <2>1. CASE Return(p, tasks[p] \ {t}) /\ UNCHANGED <<active, addrs>>
    BY <1>2, <2>1, ReturnTyped DEF Typed, ActiveTyped, HeldTyped
  <2>2. CASE /\ Redials(t) /\ UNCHANGED <<active, addrs>>
             /\ Await(p, tasks[p] \ {t},
                      [t EXCEPT !.op = "dial", !.proc = proc[p], !.tries = @ + 1])
    <3>1. PICK x : x = [t EXCEPT !.op = "dial", !.proc = proc[p], !.tries = @ + 1]
      OBVIOUS
    <3>2. t \in TaskSet /\ GoodTask(p, t) /\ proc[p] \in 0 .. ProcLimit
      BY TaskShape DEF Typed, HeldTyped
    <3>3. t.tries + 1 \in 1 .. MaxRetries
      BY <2>2, <3>2, LimitAssumption DEF TaskSet, Redials
    <3>4. x \in TaskSet /\ x.op = "dial" /\ x.call = t.call /\ x.addrs = t.addrs
      BY <3>1, <3>2, <3>3 DEF TaskSet, Ops
    <3>5. GoodTask(p, x)'
      BY <1>1, <3>2, <3>4 DEF GoodTask
    <3>6. TasksTyped'
      BY <1>2, <2>2, <3>1, <3>4, <3>5, AwaitTyped DEF Typed
    <3> QED BY <2>2, <3>6 DEF Typed, ActiveTyped, HeldTyped
  <2>3. CASE GivesUp(p, t)
    BY <1>2, <2>3, EndTyped DEF GivesUp
  <2> QED BY <2>1, <2>2, <2>3 DEF DialFails
<1>4. IncomingTyped' /\ WireTyped'
  BY <1>1, <1>2, IncomingStays, WireStays DEF Typed
<1> QED BY <1>1, <1>3, <1>4 DEF Typed, HeldTyped, SidecarTyped, HistoryTyped

LEMMA StopReturnsTyped ==
    ASSUME Typed, NEW p \in Peers, NEW t \in tasks[p], StopReturns(p, t)
    PROVE  Typed'
<1>1. UNCHANGED <<active, incoming, addrs, stage, side, host, wire, placed, accepted>>
  BY DEF StopReturns, sidecar, history
<1>2. Grows
  BY <1>1 DEF Grows
<1>3. proc' \in [Peers -> 0 .. ProcLimit] /\ ready' \in [Peers -> BOOLEAN]
  BY LimitAssumption DEF StopReturns, LoseSidecar, Typed, HeldTyped
<1>4. TasksTyped' /\ IncomingTyped' /\ WireTyped'
  BY <1>1, <1>2, ReturnTyped, IncomingStays, WireStays DEF StopReturns, Typed
<1> QED BY <1>1, <1>3, <1>4 DEF Typed, ActiveTyped, HeldTyped, SidecarTyped, HistoryTyped

LEMMA StopTimesOutTyped ==
    ASSUME Typed, NEW p \in Peers, NEW t \in tasks[p], StopTimesOut(p, t)
    PROVE  Typed'
<1>1. UNCHANGED <<active, incoming, addrs, host, wire, placed, accepted>>
  BY DEF StopTimesOut, history
<1>2. Grows
  BY <1>1 DEF Grows
<1>3. proc' \in [Peers -> 0 .. ProcLimit] /\ ready' \in [Peers -> BOOLEAN]
  BY LimitAssumption DEF StopTimesOut, LoseSidecar, Typed, HeldTyped
<1>4. TasksTyped' /\ IncomingTyped' /\ WireTyped'
  BY <1>1, <1>2, ReturnTyped, IncomingStays, WireStays DEF StopTimesOut, Typed
<1>5. SidecarTyped'
  <2>1. CASE proc[p] # 0 /\ stage[p][proc[p]] \in Alive
    <3>1. /\ stage' = [stage EXCEPT ![p][proc[p]] = "dead"]
          /\ side' = Closed(p, proc[p], FALSE)
      BY <2>1 DEF StopTimesOut
    <3>2. proc[p] \in Procs /\ "dead" \in Stages
      BY <2>1, InProcs DEF Typed, HeldTyped, Stages
    <3> QED BY <1>1, <3>1, <3>2, ClosedTyped DEF Typed, SidecarTyped
  <2>2. CASE ~(proc[p] # 0 /\ stage[p][proc[p]] \in Alive)
    BY <1>1, <2>2 DEF StopTimesOut, Typed, SidecarTyped
  <2> QED BY <2>1, <2>2
<1> QED BY <1>1, <1>3, <1>4, <1>5 DEF Typed, ActiveTyped, HeldTyped, HistoryTyped

LEMMA ShutdownTyped ==
    ASSUME Typed, NEW p \in Peers, NEW t \in tasks[p], HandleShutdown(p, t)
    PROVE  Typed'
<1>1. UNCHANGED <<active, incoming, proc, ready, addrs, host, wire, placed, accepted>>
      /\ t.op = "stop"
  BY DEF HandleShutdown, history
<1>2. Grows
  BY <1>1 DEF Grows
<1>3. t \in TaskSet /\ GoodTask(p, t) /\ t.proc \in Procs
  BY <1>1, TaskShape, InProcs DEF GoodTask, Typed
<1>4. PICK x : x = [t EXCEPT !.op = "stopped"]
  OBVIOUS
<1>5. x \in TaskSet /\ x.op = "stopped" /\ x.proc = t.proc
  BY <1>3, <1>4, TaskGoesOn DEF Ops
<1>6. GoodTask(p, x)'
  BY <1>1, <1>3, <1>5 DEF GoodTask
<1>7. Await(p, tasks[p] \ {t}, x)
  BY <1>4 DEF HandleShutdown
<1>8. TasksTyped' /\ IncomingTyped' /\ WireTyped'
  BY <1>1, <1>2, <1>5, <1>6, <1>7, AwaitTyped, IncomingStays, WireStays DEF Typed
<1>9. SidecarTyped'
  BY <1>1, <1>3, ClosedTyped DEF HandleShutdown, Typed, SidecarTyped, Stages
<1> QED BY <1>1, <1>8, <1>9 DEF Typed, ActiveTyped, HeldTyped, HistoryTyped
-----------------------------------------------------------------------------
(* Types: the sidecar, and the theorem *)

LEMMA ProcessTyped ==
    ASSUME Typed, NEW p \in Peers, NEW g \in Procs,
           Exits(p, g) \/ Crashes(p, g) \/ ExitEvent(p, g)
    PROVE  Typed'
<1>1. UNCHANGED <<incoming, tasks, host, wire, placed, accepted>>
  BY DEF Exits, Crashes, ExitEvent, service, history
<1>2. Grows
  BY <1>1 DEF Grows
<1>3. TasksTyped' /\ IncomingTyped' /\ WireTyped'
  BY <1>1, <1>2, TasksStay, IncomingStays, WireStays DEF Typed
<1>4. SidecarTyped'
  <2>1. stage' \in [Peers -> [Procs -> Stages]]
    <3>1. PICK st \in {"dead", "gone"} : stage' = [stage EXCEPT ![p][g] = st]
      BY DEF Exits, Crashes, ExitEvent
    <3> QED BY <3>1 DEF Typed, SidecarTyped, Stages
  <2>2. side' \in [Peers -> [Calls -> {"none", "arriving", "open", "closed", "told"}]]
    BY ClosedTyped DEF Exits, Crashes, ExitEvent, Typed, SidecarTyped
  <2> QED BY <1>1, <2>1, <2>2 DEF Typed, SidecarTyped
<1>5. ActiveTyped' /\ HeldTyped'
  <2>1. CASE ExitEvent(p, g)
    <3>1. ActiveTyped'
      BY <2>1, ActiveBecomes DEF ExitEvent, Typed
    <3> QED
      BY <2>1, <3>1, LimitAssumption DEF ExitEvent, LoseSidecar, Typed, HeldTyped
  <2>2. CASE Exits(p, g) \/ Crashes(p, g)
    BY <2>2 DEF Exits, Crashes, service, Typed, ActiveTyped, HeldTyped
  <2> QED BY <2>1, <2>2
<1> QED BY <1>1, <1>3, <1>4, <1>5 DEF Typed, HistoryTyped

LEMMA SessionTyped ==
    ASSUME Typed, NEW p \in Peers, NEW c \in Calls,
           Incoming(p, c) \/ HearsClose(p, c) \/ NetworkFails(p, c) \/ SessionClosed(p, c)
    PROVE  Typed'
<1>1. UNCHANGED <<incoming, proc, ready, stage, host, wire, placed, accepted>>
  BY DEF Incoming, HearsClose, NetworkFails, SessionClosed, service, history
<1>2. Grows
  BY <1>1 DEF Grows
<1>3. SidecarTyped'
  <2>1. PICK st \in {"open", "closed", "told"} : side' = [side EXCEPT ![p][c] = st]
    <3>1. CASE Incoming(p, c)
      BY <3>1 DEF Incoming
    <3>2. CASE HearsClose(p, c) \/ NetworkFails(p, c) \/ SessionClosed(p, c)
      BY <3>2 DEF HearsClose, NetworkFails, SessionClosed
    <3> QED BY <3>1, <3>2
  <2> QED BY <1>1, <2>1 DEF Typed, SidecarTyped
<1>4. ActiveTyped' /\ TasksTyped' /\ addrs' \in [Peers -> 0 .. ProcLimit]
  <2>1. CASE Incoming(p, c)
    <3>1. UNCHANGED <<addrs, tasks>>
      BY <2>1 DEF Incoming
    <3>2. ActiveTyped'
      <4>1. CASE active[p] # NoActive /\ active[p].session = NoCall
        BY <2>1, <4>1, LinkTyped DEF Incoming
      <4>2. CASE ~(active[p] # NoActive /\ active[p].session = NoCall)
        BY <2>1, <4>2 DEF Incoming, Typed, ActiveTyped
      <4> QED BY <4>1, <4>2
    <3> QED BY <1>2, <3>1, <3>2, TasksStay DEF Typed, HeldTyped
  <2>2. CASE HearsClose(p, c) \/ NetworkFails(p, c)
    BY <1>2, <2>2, TasksStay DEF HearsClose, NetworkFails, service, Typed, ActiveTyped, HeldTyped
  <2>3. CASE SessionClosed(p, c)
    BY <1>2, <2>3, TasksStay, EndTyped DEF SessionClosed, Typed, ActiveTyped, HeldTyped
  <2> QED BY <2>1, <2>2, <2>3
<1>5. IncomingTyped' /\ WireTyped'
  BY <1>1, <1>2, IncomingStays, WireStays DEF Typed
<1> QED BY <1>1, <1>3, <1>4, <1>5 DEF Typed, HeldTyped, HistoryTyped

LEMMA StutterTyped == Typed /\ UNCHANGED vars => Typed'
<1> SUFFICES ASSUME Typed, UNCHANGED vars PROVE Typed'
  OBVIOUS
<1>1. /\ UNCHANGED <<active, incoming, proc, ready, addrs, tasks, stage, side, host, wire,
                     placed, accepted>>
      /\ Grows
  BY DEF vars, service, sidecar, history, Grows
<1>2. TasksTyped' /\ IncomingTyped' /\ WireTyped'
  BY <1>1, TasksStay, IncomingStays, WireStays DEF Typed
<1> QED BY <1>1, <1>2 DEF Typed, ActiveTyped, HeldTyped, SidecarTyped, HistoryTyped

\* The steps of a peer, one way of naming them for every invariant below.
Step(p) ==
    \/ User(p) \/ Resume(p) \/ Event(p)
    \/ \E m \in wire : HandleSignalingMessage(p, m)
    \/ \E g \in Procs : Crashes(p, g)
    \/ \E c \in Calls : NetworkFails(p, c)

LEMMA NextIsStep == Next => \E p \in Peers : Step(p)
BY DEF Next, Step, Fault

LEMMA StepTyped == ASSUME Typed, NEW p \in Peers, Step(p) PROVE Typed'
<1>1. CASE User(p)
  BY <1>1, StartCallTyped, AcceptCallTyped, DeclineCallTyped, EndCallTyped DEF User
<1>2. CASE Resume(p)
  <2>1. PICK t \in tasks[p] :
          \/ InitReturns(p, t) \/ ListenReturns(p, t) \/ StartFails(p, t)
          \/ AddrsReturn(p, t) \/ AnswerReady(p, t) \/ AnswerFails(p, t)
          \/ SetReturns(p, t) \/ DialOpens(p, t) \/ DialReturns(p, t) \/ DialFails(p, t)
          \/ HandleShutdown(p, t) \/ StopReturns(p, t) \/ StopTimesOut(p, t)
    BY <1>2 DEF Resume
  <2>2. CASE InitReturns(p, t) \/ ListenReturns(p, t) \/ StartFails(p, t) \/ AddrsReturn(p, t)
    BY <2>2, StartTyped, StartFailsTyped, AddrsTyped
  <2>3. CASE AnswerReady(p, t) \/ AnswerFails(p, t) \/ SetReturns(p, t)
    BY <2>3, AnswerReadyTyped, AnswerFailsTyped, SetTyped
  <2>4. CASE DialOpens(p, t) \/ DialReturns(p, t) \/ DialFails(p, t)
    BY <2>4, DialOpensTyped, DialReturnsTyped, DialFailsTyped
  <2>5. CASE HandleShutdown(p, t) \/ StopReturns(p, t) \/ StopTimesOut(p, t)
    BY <2>5, ShutdownTyped, StopReturnsTyped, StopTimesOutTyped
  <2> QED BY <2>1, <2>2, <2>3, <2>4, <2>5
<1>3. CASE Event(p)
  BY <1>3, ProcessTyped, SessionTyped DEF Event
<1>4. CASE \E m \in wire : HandleSignalingMessage(p, m)
  BY <1>4, SignalHandled
<1>5. CASE (\E g \in Procs : Crashes(p, g)) \/ (\E c \in Calls : NetworkFails(p, c))
  BY <1>5, ProcessTyped, SessionTyped
<1> QED BY <1>1, <1>2, <1>3, <1>4, <1>5 DEF Step

LEMMA TypedAlways == Spec => [](Typed /\ FaultsTyped)
<1>1. Typed /\ FaultsTyped /\ [Next]_vars => Typed' /\ FaultsTyped'
  <2> SUFFICES ASSUME Typed, FaultsTyped, [Next]_vars PROVE Typed' /\ FaultsTyped'
    OBVIOUS
  <2>1. CASE Next
    <3>1. FaultsTyped'
      BY <2>1, LimitAssumption DEF Next, Fault, FaultsTyped
    <3> QED BY <2>1, <3>1, NextIsStep, StepTyped
  <2>2. CASE UNCHANGED vars
    BY <2>2, StutterTyped DEF vars, FaultsTyped
  <2> QED BY <2>1, <2>2
<1> QED BY <1>1, InitTyped, PTL DEF Spec

\* Whatever order responses, timeouts, exits and signals come in, the variables keep
\* their types; in particular no task dials more often than dialTuna allows, and only
\* calls that were placed are accepted.
THEOREM TypeCorrect == Spec => []TypeOK
BY TypedAlways, TypedIsTypeOK, PTL
-----------------------------------------------------------------------------
(* One sidecar at a time *)

Stopping == {"stop", "stopped"}
Held(p, g) == stage[p][g] \notin {"none", "gone"}

OneHeld(p) == \A g, h \in Procs : Held(p, g) /\ Held(p, h) => g = h
ProcHeld(p) == proc[p] # 0 => Held(p, proc[p])
ReadyHeld(p) == ready[p] => \E g \in Procs : Held(p, g)
\* While there is a call its process is the one held, and nothing of another ends.
CallHolds(p) ==
    active[p] # NoActive =>
        /\ \A t \in tasks[p] : t.op \notin Stopping
        /\ \A g \in Procs : Held(p, g) => proc[p] = g
\* When there is none, whatever still runs has a stop() on the way to it.
IdleStops(p) ==
    active[p] = NoActive =>
        \A g \in Procs : stage[p][g] \in Alive =>
            \E t \in tasks[p] : t.op = "stop" /\ t.proc = g

CleanAt(p) == OneHeld(p) /\ ProcHeld(p) /\ ReadyHeld(p) /\ CallHolds(p) /\ IdleStops(p)
Clean == \A p \in Peers : CleanAt(p)

LEMMA CleanIsIdleClean == Clean => IdleIsClean
BY DEF Clean, CleanAt, IdleStops, IdleIsClean, Living

LEMMA InitClean == Init => Clean
BY DEF Init, Clean, CleanAt, OneHeld, ProcHeld, ReadyHeld, CallHolds, IdleStops, Held, Alive

LEMMA AliveIsHeld ==
    ASSUME NEW p, NEW g, stage[p][g] \in Alive \cup {"closing", "dead"}
    PROVE  Held(p, g)
BY DEF Alive, Held

SameHeld(p) ==
    \A g \in Procs : /\ Held(p, g)' <=> Held(p, g)
                     /\ stage'[p][g] \in Alive => stage[p][g] \in Alive

LEMMA AdvanceHeld ==
    ASSUME SidecarTyped, NEW p \in Peers, NEW g \in Procs, NEW next \in Alive,
           Advance(p, g, next), stage[p][g] \in Alive \cup {"closing"}
    PROVE  SameHeld(p)
<1> SUFFICES ASSUME NEW h \in Procs
             PROVE  /\ Held(p, h)' <=> Held(p, h)
                    /\ stage'[p][h] \in Alive => stage[p][h] \in Alive
  BY DEF SameHeld
<1>1. CASE h # g
  BY <1>1 DEF SidecarTyped, Advance, Held
<1>2. CASE h = g
  <2>1. stage'[p][g] = IF stage[p][g] = "closing" THEN "closing" ELSE next
    BY DEF SidecarTyped, Advance
  <2> QED BY <1>2, <2>1 DEF Alive, Held
<1> QED BY <1>1, <1>2

LEMMA StageStays == ASSUME NEW p, UNCHANGED stage PROVE SameHeld(p)
BY DEF SameHeld, Held

ReadyJustified(p) == ready'[p] => ready[p] \/ \E g \in Procs : Held(p, g)

\* A step that neither begins nor ends a call, nor touches a stop().
LEMMA GoOnClean ==
    ASSUME NEW p \in Peers, CleanAt(p), SameHeld(p), ReadyJustified(p), proc'[p] = proc[p],
           proc[p] \in {0} \cup Procs,
           active'[p] = NoActive <=> active[p] = NoActive,
           \A x \in tasks'[p] : x \in tasks[p] \/ x.op \notin Stopping,
           \A x \in tasks[p] : x.op = "stop" => x \in tasks'[p]
    PROVE  CleanAt(p)'
<1>1. OneHeld(p)' /\ ProcHeld(p)' /\ ReadyHeld(p)'
  BY DEF CleanAt, OneHeld, ProcHeld, ReadyHeld, SameHeld, ReadyJustified
<1>2. CallHolds(p)' /\ IdleStops(p)'
  BY DEF CleanAt, CallHolds, IdleStops, SameHeld
<1> QED BY <1>1, <1>2 DEF CleanAt

LEMMA EndClean ==
    ASSUME Typed, NEW p \in Peers, CleanAt(p), SameHeld(p), ReadyJustified(p),
           proc'[p] = proc[p], NEW rest, EndCallInternal(p, rest),
           \A x \in tasks[p] : x.op = "stop" => x \in rest
    PROVE  CleanAt(p)'
<1>1. OneHeld(p)' /\ ProcHeld(p)' /\ ReadyHeld(p)'
  BY InProcs
     DEF CleanAt, OneHeld, ProcHeld, ReadyHeld, SameHeld, ReadyJustified, Typed, HeldTyped
<1>2. active'[p] = NoActive /\ tasks'[p] = rest \cup StopTask(p)
  BY DEF EndCallInternal, Typed, ActiveTyped, TasksTyped
<1>3. ASSUME NEW g \in Procs, stage'[p][g] \in Alive
      PROVE  \E t \in tasks'[p] : t.op = "stop" /\ t.proc = g
  <2>1. stage[p][g] \in Alive /\ Held(p, g)
    BY <1>3, AliveIsHeld DEF SameHeld
  <2>2. CASE active[p] = NoActive
    BY <1>2, <2>1, <2>2 DEF CleanAt, IdleStops
  <2>3. CASE active[p] # NoActive
    <3>1. proc[p] = g /\ g # 0
      BY <2>1, <2>3 DEF CleanAt, CallHolds, Procs
    <3>2. Task("stop", NoCall, proc[p], 0) \in tasks'[p]
      BY <1>2, <3>1 DEF StopTask
    <3> QED BY <3>1, <3>2 DEF Task
  <2> QED BY <2>2, <2>3
<1> QED BY <1>1, <1>2, <1>3 DEF CleanAt, CallHolds, IdleStops

NothingHeld(p) == \A g \in Procs : ~Held(p, g)

\* With nothing held, a process is started for the call.
LEMMA SpawnClean ==
    ASSUME Typed, NEW p \in Peers, NothingHeld(p), \A t \in tasks[p] : t.op \notin Stopping,
           ready'[p] = ready[p], active'[p] # NoActive,
           NEW op \in {"init", "answer"}, NEW c, NEW a, Spawn(p, op, c, a)
    PROVE  CleanAt(p)'
<1>1. PICK g \in Fresh(p) : /\ stage' = [stage EXCEPT ![p][g] = "up"]
                            /\ proc' = [proc EXCEPT ![p] = g]
                            /\ Await(p, tasks[p], Task(op, c, g, a))
  BY DEF Spawn
<1>2. g \in Procs /\ proc'[p] = g /\ stage'[p][g] = "up"
      /\ \A h \in Procs : h # g => stage'[p][h] = stage[p][h]
  BY <1>1 DEF Fresh, Typed, HeldTyped, SidecarTyped
<1>3. \A h \in Procs : Held(p, h)' <=> h = g
  BY <1>2 DEF NothingHeld, Held
<1>4. tasks'[p] = tasks[p] \cup {Task(op, c, g, a)} /\ Task(op, c, g, a).op = op
  BY <1>1 DEF Await, Typed, TasksTyped, Task
<1>5. OneHeld(p)' /\ ProcHeld(p)' /\ ReadyHeld(p)'
  BY <1>2, <1>3 DEF OneHeld, ProcHeld, ReadyHeld
<1>6. CallHolds(p)' /\ IdleStops(p)'
  BY <1>2, <1>3, <1>4 DEF CallHolds, IdleStops, Stopping
<1> QED BY <1>5, <1>6 DEF CleanAt

\* Whoever has no call and does not hurry finds nothing held.
LEMMA SettledHoldsNothing ==
    ASSUME Typed, NEW p \in Peers, CleanAt(p), Hurried = FALSE, Settled(p),
           active[p] = NoActive
    PROVE  /\ NothingHeld(p) /\ NeedsSpawn(p) /\ \A t \in tasks[p] : t.op \notin Stopping
<1>1. NothingHeld(p) /\ \A t \in tasks[p] : t.op \notin Stopping
  BY DEF Settled, NothingHeld, Held, Stopping
<1>2. NeedsSpawn(p)
  BY <1>1, InProcs
     DEF NeedsSpawn, NothingHeld, CleanAt, ReadyHeld, ProcHeld, Typed, HeldTyped
<1> QED BY <1>1, <1>2

LEMMA UserClean ==
    ASSUME Typed, NEW p \in Peers, CleanAt(p), Hurried = FALSE, User(p)
    PROVE  CleanAt(p)'
<1>1. ASSUME NEW c \in Calls, StartCall(p, c) PROVE CleanAt(p)'
  <2>1. NothingHeld(p) /\ NeedsSpawn(p) /\ \A t \in tasks[p] : t.op \notin Stopping
    BY <1>1, SettledHoldsNothing DEF StartCall
  <2>2. Spawn(p, "init", c, 0) /\ UNCHANGED ready /\ active'[p] = CallOf(c, "ringing")
    BY <1>1, <2>1 DEF StartCall, Typed, ActiveTyped
  <2> QED BY <2>1, <2>2, SpawnClean, CallTyped
<1>2. ASSUME NEW c \in Calls, AcceptCall(p, c) PROVE CleanAt(p)'
  <2> DEFINE a == incoming[p].addrs
             act == CallOf(c, "connecting")
  <2>1. act # NoActive
    BY CallTyped
  <2>2. CASE NeedsSpawn(p)
    <3>1. NothingHeld(p) /\ \A t \in tasks[p] : t.op \notin Stopping
      <4>1. CASE active[p] = NoActive
        BY <1>2, <4>1, SettledHoldsNothing DEF AcceptCall
      <4>2. CASE active[p] # NoActive
        BY <2>2, <4>2 DEF NeedsSpawn, CleanAt, CallHolds, NothingHeld, Procs
      <4> QED BY <4>1, <4>2
    <3>2. Spawn(p, "answer", c, a) /\ UNCHANGED ready /\ active'[p] = act
      BY <1>2, <2>2 DEF AcceptCall, Typed, ActiveTyped
    <3> QED BY <2>1, <3>1, <3>2, SpawnClean
  <2>3. CASE ~NeedsSpawn(p)
    <3>1. active[p] # NoActive
      BY <1>2, <2>3, SettledHoldsNothing DEF AcceptCall
    <3>2. Accept(p, c, a, tasks[p], act) /\ UNCHANGED <<stage, proc, ready>>
      BY <1>2, <2>3 DEF AcceptCall
    <3>3. SameHeld(p) /\ ReadyJustified(p)
      BY <3>2, StageStays DEF ReadyJustified
    <3>4. CASE a = 0
      BY <3>2, <3>3, <3>4, EndClean DEF Accept
    <3>5. CASE a # 0
      <4>1. tasks'[p] = tasks[p] \cup {Task("set", c, proc[p], a)} /\ active'[p] = act
        BY <3>2, <3>5 DEF Accept, Await, Typed, TasksTyped, ActiveTyped
      <4>2. Task("set", c, proc[p], a).op \notin Stopping
        BY DEF Task, Stopping
      <4> QED BY <2>1, <3>1, <3>2, <3>3, <4>1, <4>2, InProcs, GoOnClean DEF Typed, HeldTyped
    <3> QED BY <3>4, <3>5
  <2> QED BY <2>2, <2>3
<1>3. ASSUME NEW c \in Calls, DeclineCall(p, c) PROVE CleanAt(p)'
  <2>1. UNCHANGED <<active, proc, ready, tasks, stage>>
    BY <1>3 DEF DeclineCall, sidecar
  <2>2. SameHeld(p) /\ ReadyJustified(p)
    BY <2>1, StageStays DEF ReadyJustified
  <2> QED BY <2>1, <2>2, InProcs, GoOnClean DEF Typed, HeldTyped
<1>4. CASE EndCall(p)
  <2>1. UNCHANGED <<proc, ready, stage>> /\ EndCallInternal(p, tasks[p])
    BY <1>4 DEF EndCall, sidecar
  <2>2. SameHeld(p) /\ ReadyJustified(p)
    BY <2>1, StageStays DEF ReadyJustified
  <2> QED BY <2>1, <2>2, EndClean
<1> QED BY <1>1, <1>2, <1>3, <1>4 DEF User

LEMMA SignalClean ==
    ASSUME Typed, NEW p \in Peers, CleanAt(p), NEW m \in wire, HandleSignalingMessage(p, m)
    PROVE  CleanAt(p)'
<1>1. UNCHANGED <<proc, ready, stage>>
  BY DEF HandleSignalingMessage, sidecar
<1>2. SameHeld(p) /\ ReadyJustified(p)
  BY <1>1, StageStays DEF ReadyJustified
<1>3. CASE OnInvite(p, m) \/ OnAccept(p, m)
  <2>1. tasks'[p] = tasks[p] /\ (active'[p] = NoActive <=> active[p] = NoActive)
    <3>1. CASE OnInvite(p, m)
      BY <3>1 DEF OnInvite
    <3>2. CASE OnAccept(p, m)
      <4>1. active'[p].id = active[p].id
        BY <3>2 DEF OnAccept, Typed, ActiveTyped
      <4>2. ActiveTyped' /\ ActiveTyped
        BY SignalHandled DEF Typed
      <4> QED BY <3>2, <4>1, <4>2, CallsAssumption DEF OnAccept, ActiveTyped, NoActive
    <3> QED BY <1>3, <3>1, <3>2
  <2> QED BY <1>1, <1>2, <2>1, InProcs, GoOnClean DEF Typed, HeldTyped
<1>4. CASE OnEnd(p, m)
  <2>1. CASE active[p].id = m.call
    BY <1>1, <1>2, <1>4, <2>1, EndClean DEF OnEnd
  <2>2. CASE active[p].id # m.call
    BY <1>1, <1>2, <1>4, <2>2, InProcs, GoOnClean DEF OnEnd, Typed, HeldTyped
  <2> QED BY <2>1, <2>2
<1> QED BY <1>3, <1>4 DEF HandleSignalingMessage
LEMMA StartClean ==
    ASSUME Typed, NEW p \in Peers, CleanAt(p), NEW t \in tasks[p],
           InitReturns(p, t) \/ ListenReturns(p, t) \/ AnswerReady(p, t)
    PROVE  CleanAt(p)'
<1>1. t.proc \in Procs /\ t.op \in {"init", "listen", "answer"}
  BY TaskShape, InProcs DEF InitReturns, ListenReturns, AnswerReady, GoodTask, Typed
<1>2. /\ stage[p][t.proc] \in Alive \cup {"closing"} /\ UNCHANGED proc
      /\ ready' = ready \/ ready' = [ready EXCEPT ![p] = TRUE]
  BY DEF InitReturns, ListenReturns, AnswerReady, Alive
<1>3. PICK next \in Alive : Advance(p, t.proc, next)
  BY DEF InitReturns, ListenReturns, AnswerReady, Alive
<1>4. SameHeld(p)
  BY <1>1, <1>2, <1>3, AdvanceHeld DEF Typed
<1>5. Held(p, t.proc)
  BY <1>2, AliveIsHeld
<1>6. ReadyJustified(p)
  BY <1>1, <1>5 DEF ReadyJustified
<1>7. CASE \E op, c, g, a : /\ op \in {"listen", "addrs", "set"}
                              /\ Await(p, tasks[p] \ {t}, Task(op, c, g, a))
                              /\ active'[p] = active[p]
  <2>1. PICK op, c, g, a : /\ op \in {"listen", "addrs", "set"}
                           /\ Await(p, tasks[p] \ {t}, Task(op, c, g, a))
                           /\ active'[p] = active[p]
    BY <1>7
  <2>2. tasks'[p] = (tasks[p] \ {t}) \cup {Task(op, c, g, a)}
    BY <2>1 DEF Await, Typed, TasksTyped
  <2>3. Task(op, c, g, a).op \notin Stopping
    BY <2>1 DEF Task, Stopping
  <2> QED BY <1>1, <1>2, <1>4, <1>6, <2>1, <2>2, <2>3, InProcs, GoOnClean DEF Typed, HeldTyped
<1>8. CASE InitReturns(p, t) \/ ListenReturns(p, t)
  BY <1>7, <1>8 DEF InitReturns, ListenReturns
<1>9. CASE AnswerReady(p, t)
  <2>1. Accept(p, t.call, t.addrs, tasks[p] \ {t}, active[p])
    BY <1>9 DEF AnswerReady
  <2>2. CASE t.addrs = 0
    BY <1>1, <1>2, <1>4, <1>6, <2>1, <2>2, EndClean DEF Accept
  <2>3. CASE t.addrs # 0
    BY <1>7, <2>1, <2>3 DEF Accept, Typed, ActiveTyped
  <2> QED BY <2>2, <2>3
<1> QED BY <1>8, <1>9

\* What leaves the processes and the held one alone.
LEMMA QuietClean ==
    ASSUME Typed, NEW p \in Peers, CleanAt(p), NEW t \in tasks[p], t.op \notin Stopping,
           UNCHANGED <<proc, ready, stage>>,
           active'[p] = NoActive <=> active[p] = NoActive,
           \/ Return(p, tasks[p] \ {t})
           \/ \E x : x.op \notin Stopping /\ Await(p, tasks[p] \ {t}, x)
    PROVE  CleanAt(p)'
<1>1. SameHeld(p) /\ ReadyJustified(p)
  BY StageStays DEF ReadyJustified
<1>2. /\ \A x \in tasks'[p] : x \in tasks[p] \/ x.op \notin Stopping
      /\ \A x \in tasks[p] : x.op = "stop" => x \in tasks'[p]
  BY DEF Return, Await, Typed, TasksTyped, Stopping
<1> QED BY <1>1, <1>2, InProcs, GoOnClean DEF Typed, HeldTyped

LEMMA DialClean ==
    ASSUME Typed, NEW p \in Peers, CleanAt(p), NEW t \in tasks[p],
           \/ AddrsReturn(p, t) \/ AnswerFails(p, t) \/ SetReturns(p, t)
           \/ DialOpens(p, t) \/ DialReturns(p, t) \/ DialFails(p, t) \/ StartFails(p, t)
    PROVE  CleanAt(p)'
<1>1. UNCHANGED <<proc, ready, stage>> /\ t.op \notin Stopping /\ t \in TaskSet
  BY TaskShape DEF AddrsReturn, AnswerFails, SetReturns, DialOpens, DialReturns, DialFails,
     StartFails, sidecar, Stopping, Typed
<1>2. SameHeld(p) /\ ReadyJustified(p)
  BY <1>1, StageStays DEF ReadyJustified
<1>3. CASE AddrsReturn(p, t) \/ AnswerFails(p, t)
  BY <1>1, <1>3, QuietClean DEF AddrsReturn, AnswerFails
<1>4. CASE SetReturns(p, t)
  <2>1. Task("dial", t.call, proc[p], t.addrs).op \notin Stopping
    BY DEF Task, Stopping
  <2>2. /\ \A x \in tasks'[p] : x \in tasks[p] \/ x.op \notin Stopping
        /\ \A x \in tasks[p] : x.op = "stop" => x \in tasks'[p]
    BY <1>1, <1>4, <2>1 DEF SetReturns, Typed, TasksTyped, Stopping
  <2> QED BY <1>1, <1>2, <1>4, <2>2, InProcs, GoOnClean DEF SetReturns, Typed, HeldTyped
<1>5. CASE DialOpens(p, t)
  <2>1. [t EXCEPT !.op = "linked"].op \notin Stopping
    BY <1>1 DEF TaskSet, Stopping
  <2> QED BY <1>1, <1>5, <2>1, QuietClean DEF DialOpens
<1>6. CASE DialReturns(p, t)
  <2>1. active'[p] = NoActive <=> active[p] = NoActive
    <3>1. CASE active[p].id = t.call
      <4>1. t.call \in Calls
        BY <1>6, TaskShape DEF DialReturns, GoodTask, Typed, HistoryTyped
      <4>2. active[p] # NoActive
        BY <3>1, <4>1, CallsAssumption DEF NoActive
      <4>3. active'[p].state = "connected"
        BY <1>6, <3>1 DEF DialReturns, Linked, Typed, ActiveTyped
      <4> QED BY <4>2, <4>3 DEF NoActive
    <3>2. CASE active[p].id # t.call
      BY <1>6, <3>2 DEF DialReturns
    <3> QED BY <3>1, <3>2
  <2> QED BY <1>1, <1>6, <2>1, QuietClean DEF DialReturns
<1>7. CASE DialFails(p, t)
  <2>1. CASE Return(p, tasks[p] \ {t}) /\ UNCHANGED <<active, addrs>>
    BY <1>1, <2>1, QuietClean
  <2>2. CASE /\ UNCHANGED <<active, addrs>>
             /\ Await(p, tasks[p] \ {t},
                      [t EXCEPT !.op = "dial", !.proc = proc[p], !.tries = @ + 1])
    <3>1. [t EXCEPT !.op = "dial", !.proc = proc[p], !.tries = @ + 1].op \notin Stopping
      BY <1>1 DEF TaskSet, Stopping
    <3> QED BY <1>1, <2>2, <3>1, QuietClean
  <2>3. CASE EndCallInternal(p, tasks[p] \ {t})
    BY <1>1, <1>2, <2>3, EndClean DEF Stopping
  <2> QED BY <1>7, <2>1, <2>2, <2>3 DEF DialFails, GivesUp
<1>8. CASE StartFails(p, t)
  BY <1>1, <1>2, <1>8, EndClean DEF StartFails, Stopping
<1> QED BY <1>3, <1>4, <1>5, <1>6, <1>7, <1>8

\* While something stops there is no call.
LEMMA StopClean ==
    ASSUME Typed, NEW p \in Peers, CleanAt(p), NEW t \in tasks[p],
           HandleShutdown(p, t) \/ StopReturns(p, t) \/ StopTimesOut(p, t)
    PROVE  CleanAt(p)'
<1>1. active[p] = NoActive /\ active' = active /\ t \in TaskSet /\ t.proc \in Procs
  BY TaskShape, InProcs
     DEF HandleShutdown, StopReturns, StopTimesOut, CleanAt, CallHolds, Stopping, GoodTask, Typed
<1>2. CASE HandleShutdown(p, t)
  <2>1. /\ stage[p][t.proc] \in Alive \cup {"closing"} /\ UNCHANGED <<proc, ready>>
        /\ stage'[p][t.proc] = "closing"
        /\ \A g \in Procs : g # t.proc => stage'[p][g] = stage[p][g]
    BY <1>1, <1>2 DEF HandleShutdown, Typed, SidecarTyped
  <2>2. SameHeld(p)
    BY <2>1, AliveIsHeld DEF SameHeld, Held, Alive
  <2>3. OneHeld(p)' /\ ProcHeld(p)' /\ ReadyHeld(p)'
    BY <2>1, <2>2, InProcs
       DEF CleanAt, OneHeld, ProcHeld, ReadyHeld, SameHeld, Typed, HeldTyped
  <2>4. ASSUME NEW g \in Procs, stage'[p][g] \in Alive
        PROVE  \E x \in tasks'[p] : x.op = "stop" /\ x.proc = g
    <3>1. g # t.proc /\ stage[p][g] \in Alive
      BY <2>1, <2>2, <2>4 DEF SameHeld, Alive
    <3>2. PICK x \in tasks[p] : x.op = "stop" /\ x.proc = g
      BY <1>1, <3>1 DEF CleanAt, IdleStops
    <3>3. x \in tasks'[p]
      BY <1>2, <3>1, <3>2 DEF HandleShutdown, Await, Typed, TasksTyped
    <3> QED BY <3>2, <3>3
  <2> QED BY <1>1, <2>3, <2>4 DEF CleanAt, CallHolds, IdleStops
<1>3. CASE StopReturns(p, t) \/ StopTimesOut(p, t)
  <2>1. /\ proc'[p] = 0 /\ ready'[p] = FALSE /\ tasks'[p] = tasks[p] \ {t}
    BY <1>3 DEF StopReturns, StopTimesOut, LoseSidecar, Return, Typed, HeldTyped, TasksTyped
  <2>2. SameHeld(p)
    <3>1. CASE stage' = stage
      BY <3>1, StageStays
    <3>2. CASE /\ proc[p] # 0 /\ stage[p][proc[p]] \in Alive
               /\ stage' = [stage EXCEPT ![p][proc[p]] = "dead"]
      <4>1. proc[p] \in Procs
        BY <3>2, InProcs DEF Typed, HeldTyped
      <4>2. /\ stage'[p][proc[p]] = "dead"
            /\ \A g \in Procs : g # proc[p] => stage'[p][g] = stage[p][g]
        BY <3>2, <4>1 DEF Typed, SidecarTyped
      <4> QED BY <3>2, <4>2 DEF SameHeld, Held, Alive
    <3> QED BY <1>3, <3>1, <3>2 DEF StopReturns, StopTimesOut, sidecar
  <2>3. OneHeld(p)' /\ ProcHeld(p)' /\ ReadyHeld(p)'
    BY <2>1, <2>2 DEF CleanAt, OneHeld, ProcHeld, ReadyHeld, SameHeld
  <2>4. ASSUME NEW g \in Procs, stage'[p][g] \in Alive
        PROVE  \E x \in tasks'[p] : x.op = "stop" /\ x.proc = g
    <3>1. stage[p][g] \in Alive
      BY <2>2, <2>4 DEF SameHeld
    <3>2. PICK x \in tasks[p] : x.op = "stop" /\ x.proc = g
      BY <1>1, <3>1 DEF CleanAt, IdleStops
    <3>3. x # t
      BY <1>3, <3>1, <3>2 DEF StopReturns, StopTimesOut, Alive
    <3> QED BY <2>1, <3>2, <3>3
  <2> QED BY <1>1, <2>3, <2>4 DEF CleanAt, CallHolds, IdleStops
<1> QED BY <1>2, <1>3

LEMMA ProcessClean ==
    ASSUME Typed, NEW p \in Peers, CleanAt(p), NEW g \in Procs,
           Exits(p, g) \/ Crashes(p, g) \/ ExitEvent(p, g)
    PROVE  CleanAt(p)'
<1>1. CASE Exits(p, g) \/ Crashes(p, g)
  <2>1. /\ stage'[p][g] = "dead" /\ stage[p][g] \in Alive \cup {"closing"}
        /\ \A h \in Procs : h # g => stage'[p][h] = stage[p][h]
        /\ UNCHANGED <<active, proc, ready, tasks>>
    BY <1>1 DEF Exits, Crashes, service, Typed, SidecarTyped
  <2>2. SameHeld(p) /\ ReadyJustified(p)
    BY <2>1, AliveIsHeld DEF SameHeld, Held, Alive, ReadyJustified
  <2> QED BY <2>1, <2>2, InProcs, GoOnClean DEF Typed, HeldTyped
<1>2. CASE ExitEvent(p, g)
  <2>1. /\ stage[p][g] = "dead" /\ stage'[p][g] = "gone"
        /\ \A h \in Procs : h # g => stage'[p][h] = stage[p][h]
        /\ active'[p] = NoActive /\ proc'[p] = 0 /\ ready'[p] = FALSE
    BY <1>2 DEF ExitEvent, LoseSidecar, Typed, SidecarTyped, ActiveTyped, HeldTyped
  <2>2. \A h \in Procs : ~Held(p, h)'
    BY <2>1, AliveIsHeld DEF CleanAt, OneHeld, Held
  <2>3. \A h \in Procs : stage'[p][h] \notin Alive
    BY <2>2 DEF Held, Alive
  <2> QED BY <2>1, <2>2, <2>3 DEF CleanAt, OneHeld, ProcHeld, ReadyHeld, CallHolds, IdleStops
<1> QED BY <1>1, <1>2

LEMMA SessionClean ==
    ASSUME Typed, NEW p \in Peers, CleanAt(p), NEW c \in Calls,
           Incoming(p, c) \/ HearsClose(p, c) \/ NetworkFails(p, c) \/ SessionClosed(p, c)
    PROVE  CleanAt(p)'
<1>1. UNCHANGED <<proc, ready, stage>>
  BY DEF Incoming, HearsClose, NetworkFails, SessionClosed, service
<1>2. SameHeld(p) /\ ReadyJustified(p)
  BY <1>1, StageStays DEF ReadyJustified
<1>3. CASE UNCHANGED tasks /\ (active'[p] = NoActive <=> active[p] = NoActive)
  BY <1>1, <1>2, <1>3, InProcs, GoOnClean DEF Typed, HeldTyped
<1>4. CASE Incoming(p, c)
  <2>1. CASE active[p] # NoActive /\ active[p].session = NoCall
    <3>1. active'[p].state = "connected" /\ UNCHANGED tasks
      BY <1>4, <2>1 DEF Incoming, Linked, Typed, ActiveTyped
    <3> QED BY <1>3, <2>1, <3>1 DEF NoActive
  <2>2. CASE ~(active[p] # NoActive /\ active[p].session = NoCall)
    BY <1>3, <1>4, <2>2 DEF Incoming
  <2> QED BY <2>1, <2>2
<1>5. CASE HearsClose(p, c) \/ NetworkFails(p, c)
  BY <1>3, <1>5 DEF HearsClose, NetworkFails, service
<1>6. CASE SessionClosed(p, c)
  BY <1>1, <1>2, <1>3, <1>6, EndClean DEF SessionClosed
<1> QED BY <1>4, <1>5, <1>6

\* The steps of a peer change nothing that CleanAt says of the other.
Same(q) ==
    /\ active'[q] = active[q] /\ proc'[q] = proc[q] /\ ready'[q] = ready[q]
    /\ tasks'[q] = tasks[q] /\ stage'[q] = stage[q] /\ incoming'[q] = incoming[q]
    /\ addrs'[q] = addrs[q]

LEMMA SameIsClean == ASSUME NEW q, CleanAt(q), Same(q) PROVE CleanAt(q)'
<1>1. OneHeld(q)' /\ ProcHeld(q)' /\ ReadyHeld(q)'
  BY DEF Same, CleanAt, OneHeld, ProcHeld, ReadyHeld, Held
<1>2. CallHolds(q)' /\ IdleStops(q)'
  BY DEF Same, CleanAt, CallHolds, IdleStops, Held
<1> QED BY <1>1, <1>2 DEF CleanAt

LEMMA Elsewhere ==
    ASSUME Typed, NEW p \in Peers, NEW q \in Peers, q # p, Step(p)
    PROVE  Same(q)
<1> USE DEF Same, Typed, ActiveTyped, IncomingTyped, HeldTyped, TasksTyped, SidecarTyped,
            Await, Return, EndCallInternal, LoseSidecar, Linked, Advance, service, sidecar
<1>1. CASE User(p)
  BY <1>1 DEF User, StartCall, AcceptCall, DeclineCall, EndCall, Accept, Spawn
<1>2. CASE Resume(p)
  <2>1. PICK t \in tasks[p] :
          \/ InitReturns(p, t) \/ ListenReturns(p, t) \/ StartFails(p, t)
          \/ AddrsReturn(p, t) \/ AnswerReady(p, t) \/ AnswerFails(p, t)
          \/ SetReturns(p, t) \/ DialOpens(p, t) \/ DialReturns(p, t) \/ DialFails(p, t)
          \/ HandleShutdown(p, t) \/ StopReturns(p, t) \/ StopTimesOut(p, t)
    BY <1>2 DEF Resume
  <2>2. CASE InitReturns(p, t) \/ ListenReturns(p, t) \/ StartFails(p, t) \/ AddrsReturn(p, t)
    BY <2>2 DEF InitReturns, ListenReturns, StartFails, AddrsReturn
  <2>3. CASE AnswerReady(p, t) \/ AnswerFails(p, t) \/ SetReturns(p, t)
    BY <2>3 DEF AnswerReady, AnswerFails, SetReturns, Accept
  <2>4. CASE DialOpens(p, t)
    BY <2>4 DEF DialOpens
  <2>5. CASE DialReturns(p, t)
    BY <2>5 DEF DialReturns
  <2>6. CASE DialFails(p, t)
    BY <2>6 DEF DialFails, GivesUp
  <2>7. CASE HandleShutdown(p, t) \/ StopReturns(p, t)
    BY <2>7 DEF HandleShutdown, StopReturns
  <2>8. CASE StopTimesOut(p, t)
    BY <2>8 DEF StopTimesOut
  <2> QED BY <2>1, <2>2, <2>3, <2>4, <2>5, <2>6, <2>7, <2>8
<1>3. CASE Event(p)
  <2>1. CASE \E g \in Procs : Exits(p, g) \/ ExitEvent(p, g)
    BY <2>1 DEF Exits, ExitEvent
  <2>2. CASE \E c \in Calls : Incoming(p, c)
    BY <2>2 DEF Incoming
  <2>3. CASE \E c \in Calls : HearsClose(p, c) \/ SessionClosed(p, c)
    BY <2>3 DEF HearsClose, SessionClosed
  <2> QED BY <1>3, <2>1, <2>2, <2>3 DEF Event
<1>4. CASE \E m \in wire : HandleSignalingMessage(p, m)
  BY <1>4 DEF HandleSignalingMessage, OnInvite, OnAccept, OnEnd
<1>5. CASE (\E g \in Procs : Crashes(p, g)) \/ (\E c \in Calls : NetworkFails(p, c))
  BY <1>5 DEF Crashes, NetworkFails
<1> QED BY <1>1, <1>2, <1>3, <1>4, <1>5 DEF Step

LEMMA StepClean ==
    ASSUME Typed, Clean, Hurried = FALSE, NEW p \in Peers, Step(p)
    PROVE  Clean'
<1>1. CleanAt(p)
  BY DEF Clean
<1>2. CASE User(p)
  BY <1>1, <1>2, UserClean, Elsewhere, SameIsClean DEF Clean
<1>3. ASSUME NEW t \in tasks[p],
          \/ InitReturns(p, t) \/ ListenReturns(p, t) \/ StartFails(p, t)
          \/ AddrsReturn(p, t) \/ AnswerReady(p, t) \/ AnswerFails(p, t)
          \/ SetReturns(p, t) \/ DialOpens(p, t) \/ DialReturns(p, t) \/ DialFails(p, t)
          \/ HandleShutdown(p, t) \/ StopReturns(p, t) \/ StopTimesOut(p, t)
      PROVE  CleanAt(p)'
  BY <1>1, <1>3, StartClean, DialClean, StopClean
<1>4. CASE Resume(p)
  BY <1>3, <1>4, Elsewhere, SameIsClean DEF Resume, Clean
<1>5. CASE Event(p)
  BY <1>1, <1>5, ProcessClean, SessionClean, Elsewhere, SameIsClean DEF Event, Clean
<1>6. CASE \E m \in wire : HandleSignalingMessage(p, m)
  BY <1>1, <1>6, SignalClean, Elsewhere, SameIsClean DEF Clean
<1>7. CASE (\E g \in Procs : Crashes(p, g)) \/ (\E c \in Calls : NetworkFails(p, c))
  BY <1>1, <1>7, ProcessClean, SessionClean, Elsewhere, SameIsClean DEF Clean
<1> QED BY <1>2, <1>4, <1>5, <1>6, <1>7 DEF Step

LEMMA CleanAlways ==
    ASSUME Hurried = FALSE
    PROVE  Spec => [](Typed /\ Clean)
<1>1. Typed /\ Clean /\ [Next]_vars => Typed' /\ Clean'
  <2> SUFFICES ASSUME Typed, Clean, [Next]_vars PROVE Typed' /\ Clean'
    OBVIOUS
  <2>1. CASE Next
    BY <2>1, NextIsStep, StepTyped, StepClean
  <2>2. CASE UNCHANGED vars
    <3>1. \A q \in Peers : Same(q)
      BY <2>2 DEF vars, service, sidecar, Same
    <3> QED BY <2>2, <3>1, StutterTyped, SameIsClean DEF Clean
  <2> QED BY <2>1, <2>2
<1> QED BY <1>1, InitTyped, InitClean, PTL DEF Spec

\* When users give the sidecar of one call the time to end before the next one, no late
\* answer, exit, timeout or crash leaves a sidecar running that no call and no stop() owns.
THEOREM IdleIsCleanAlways ==
    ASSUME Hurried = FALSE
    PROVE  Spec => []IdleIsClean
BY CleanAlways, CleanIsIdleClean, PTL

\* A peer has one sidecar at a time, and during a call it is the one the service holds
\* and no stop() of an earlier call is on its way to it.
OneSidecar ==
    \A p \in Peers :
        /\ \A g, h \in Procs :
              stage[p][g] \notin {"none", "gone"} /\ stage[p][h] \notin {"none", "gone"}
              => g = h
        /\ active[p] # NoActive =>
              /\ \A g \in Living(p) : proc[p] = g
              /\ \A t \in tasks[p] : t.op \notin {"stop", "stopped"}

LEMMA CleanIsOneSidecar == Clean => OneSidecar
<1> SUFFICES ASSUME Clean, NEW p \in Peers
             PROVE  /\ OneHeld(p)
                    /\ active[p] # NoActive =>
                          /\ \A g \in Living(p) : proc[p] = g
                          /\ \A t \in tasks[p] : t.op \notin {"stop", "stopped"}
  BY DEF OneSidecar, OneHeld, Held
<1>1. OneHeld(p) /\ CallHolds(p)
  BY DEF Clean, CleanAt
<1>2. \A g \in Living(p) : g \in Procs /\ Held(p, g)
  BY AliveIsHeld DEF Living
<1> QED BY <1>1, <1>2 DEF CallHolds, Stopping

\* The end of one call never reaches the next one: when users do not hurry, no order of
\* answers, timeouts, crashes and exits leaves a second sidecar, or a stop() of the first
\* call that lets go of the sidecar of the second.
THEOREM OneSidecarAlways ==
    ASSUME Hurried = FALSE
    PROVE  Spec => []OneSidecar
BY CleanAlways, CleanIsOneSidecar, PTL

-----------------------------------------------------------------------------
(* The session of a call *)

OneCaller == \A c, d \in Calls : Caller[c] = Caller[d]

\* What is under way that may lead a callee of c to the process a of its caller.
InviteTo(c, a) == \E m \in wire : m.type = "invite" /\ m.call = c /\ m.addrs = a
RingsWith(c, a) == incoming[Callee(c)].id = c /\ incoming[Callee(c)].addrs = a
DialsTo(c, a) ==
    \E t \in tasks[Callee(c)] :
        t.op \in {"answer", "set", "dial", "linked"} /\ t.call = c /\ t.addrs = a
ArrivesAt(c, a) == side[Caller[c]][c] = "arriving" /\ host[Caller[c]][c] = a
LeadsTo(c, a) == InviteTo(c, a) \/ RingsWith(c, a) \/ DialsTo(c, a) \/ ArrivesAt(c, a)

\* A process that is held and can be reached for c was started for c.
Reached(c, a) ==
    /\ stage[Caller[c]][a] # "none"
    /\ Held(Caller[c], a) => active[Caller[c]] = NoActive \/ active[Caller[c]].id = c
ReachesItsCall == \A c \in Calls, a \in Procs : LeadsTo(c, a) => Reached(c, a)
AddrsKnown == \A p \in Peers : addrs[p] # 0 => stage[p][addrs[p]] # "none"
Arriving ==
    \A p \in Peers, c \in Calls : side[p][c] = "arriving" =>
        p = Caller[c] /\ c \in accepted /\ host[p][c] # 0
SessionOwned ==
    \A p \in Peers :
        /\ active[p].session # NoCall =>
              active[p].session = active[p].id /\ active[p].id \in accepted
        /\ active[p].state = "connected" => active[p].session # NoCall

Owned == ReachesItsCall /\ AddrsKnown /\ Arriving /\ SessionOwned

LEMMA OwnedIsSession == Owned => SessionIsOfCall
BY DEF Owned, SessionOwned, SessionIsOfCall

LEMMA InitOwned == Init => Owned
<1> SUFFICES ASSUME Init PROVE Owned
  OBVIOUS
<1>1. ReachesItsCall
  BY CalleeIs, CallsAssumption
     DEF Init, ReachesItsCall, LeadsTo, InviteTo, RingsWith, DialsTo, ArrivesAt, NoIncoming
<1>2. AddrsKnown /\ Arriving /\ SessionOwned
  BY DEF Init, AddrsKnown, Arriving, SessionOwned, NoActive
<1> QED BY <1>1, <1>2 DEF Owned

LEMMA LinkKeeps ==
    ASSUME Typed, NEW p \in Peers, NEW c, Linked(p, c)
    PROVE  /\ active'[p].id = active[p].id /\ active'[p].session = c
           /\ active'[p].state = "connected"
<1>1. PICK x : x = active[p]
  OBVIOUS
<1>2. x \in [id : Ids, state : {"none", "ringing", "connecting", "connected"}, session : Ids]
  BY <1>1 DEF Typed, ActiveTyped
<1>3. active'[p] = [x EXCEPT !.session = c, !.state = "connected"]
  BY <1>1 DEF Linked, Typed, ActiveTyped
<1> QED BY <1>1, <1>2, <1>3

LEMMA OneProcess ==
    ASSUME SidecarTyped, NEW p \in Peers, NEW g, NEW st \in {"closing", "dead", "gone"},
           stage' = [stage EXCEPT ![p][g] = st],
           stage[p][g] \in Alive \cup {"closing", "dead"},
           NEW q \in Peers, NEW a \in Procs, stage[q][a] # "none"
    PROVE  stage'[q][a] # "none" /\ (Held(q, a)' => Held(q, a))
BY DEF SidecarTyped, Held, Alive

\* A process never comes back.
LEMMA OldProcs ==
    ASSUME Typed, NEW p \in Peers, Step(p), NEW q \in Peers, NEW a \in Procs,
           stage[q][a] # "none"
    PROVE  stage'[q][a] # "none" /\ (Held(q, a)' => Held(q, a))
<1> USE DEF Held, Typed, SidecarTyped, service, sidecar
<1>1. CASE User(p)
  BY <1>1 DEF User, StartCall, AcceptCall, DeclineCall, EndCall, Spawn, Fresh
<1>2. CASE Resume(p)
  <2>1. PICK t \in tasks[p] :
          \/ InitReturns(p, t) \/ ListenReturns(p, t) \/ StartFails(p, t)
          \/ AddrsReturn(p, t) \/ AnswerReady(p, t) \/ AnswerFails(p, t)
          \/ SetReturns(p, t) \/ DialOpens(p, t) \/ DialReturns(p, t) \/ DialFails(p, t)
          \/ HandleShutdown(p, t) \/ StopReturns(p, t) \/ StopTimesOut(p, t)
    BY <1>2 DEF Resume
  <2>2. CASE InitReturns(p, t) \/ ListenReturns(p, t) \/ AnswerReady(p, t)
    BY <2>2 DEF InitReturns, ListenReturns, AnswerReady, Advance
  <2>3. CASE \/ StartFails(p, t) \/ AddrsReturn(p, t) \/ AnswerFails(p, t) \/ SetReturns(p, t)
             \/ DialOpens(p, t) \/ DialReturns(p, t) \/ DialFails(p, t) \/ StopReturns(p, t)
    BY <2>3 DEF StartFails, AddrsReturn, AnswerFails, SetReturns, DialOpens, DialReturns,
       DialFails, StopReturns
  <2>4. CASE HandleShutdown(p, t) \/ StopTimesOut(p, t)
    <3>1. CASE stage' = stage
      BY <3>1
    <3>2. CASE stage' # stage
      <4>1. PICK g \in {t.proc, proc[p]} : \E st \in {"closing", "dead"} :
              /\ stage' = [stage EXCEPT ![p][g] = st]
              /\ stage[p][g] \in Alive \cup {"closing", "dead"}
        BY <2>4, <3>2 DEF HandleShutdown, StopTimesOut
      <4> HIDE DEF Typed, SidecarTyped, Held
      <4>2. SidecarTyped
        BY DEF Typed
      <4> QED BY <4>1, <4>2, OneProcess
    <3> QED BY <3>1, <3>2
  <2> QED BY <2>1, <2>2, <2>3, <2>4
<1>3. CASE Event(p)
  <2>1. ASSUME NEW g \in Procs, Exits(p, g) \/ ExitEvent(p, g)
        PROVE  stage'[q][a] # "none" /\ (Held(q, a)' => Held(q, a))
    <3>1. PICK st \in {"dead", "gone"} : stage' = [stage EXCEPT ![p][g] = st]
      BY <2>1 DEF Exits, ExitEvent
    <3>2. stage[p][g] \in Alive \cup {"closing", "dead"}
      BY <2>1 DEF Exits, ExitEvent
    <3> HIDE DEF Typed, SidecarTyped, Held
    <3>3. SidecarTyped
      BY DEF Typed
    <3> QED BY <3>1, <3>2, <3>3, OneProcess
  <2> QED BY <1>3, <2>1 DEF Event, Incoming, HearsClose, SessionClosed
<1>4. CASE \E m \in wire : HandleSignalingMessage(p, m)
  BY <1>4 DEF HandleSignalingMessage
<1>5. CASE (\E g \in Procs : Crashes(p, g)) \/ (\E c \in Calls : NetworkFails(p, c))
  <2>1. ASSUME NEW g \in Procs, Crashes(p, g)
        PROVE  stage'[q][a] # "none" /\ (Held(q, a)' => Held(q, a))
    <3>1. /\ stage' = [stage EXCEPT ![p][g] = "dead"]
          /\ stage[p][g] \in Alive \cup {"closing", "dead"}
      BY <2>1 DEF Crashes
    <3> HIDE DEF Typed, SidecarTyped, Held
    <3>2. SidecarTyped
      BY DEF Typed
    <3> QED BY <3>1, <3>2, OneProcess
  <2> QED BY <1>5, <2>1 DEF NetworkFails
<1> QED BY <1>1, <1>2, <1>3, <1>4, <1>5 DEF Step

\* The caller's call ends, or goes on, or begins with no process held.
LEMMA CallerCall ==
    ASSUME Typed, Clean, Hurried = FALSE, OneCaller, NEW p \in Peers, Step(p),
           NEW c \in Calls, NEW b, b = Caller[c]
    PROVE  \/ active'[b] = NoActive \/ active'[b].id = active[b].id
           \/ active[b] = NoActive /\ NothingHeld(b)
<1> USE DEF service, sidecar
<1>1. b \in Peers /\ active[b] \in [id : Ids, state : {"none", "ringing", "connecting",
                                    "connected"}, session : Ids]
      /\ active \in [Peers -> [id : Ids, state : {"none", "ringing", "connecting",
                                    "connected"}, session : Ids]]
  BY CalleeIs DEF Typed, ActiveTyped
<1>2. CASE p # b
  BY <1>1, <1>2, Elsewhere DEF Same
<1>3. CASE p = b
  <2>1. CASE User(p)
    <3>1. ASSUME NEW d \in Calls, StartCall(p, d) PROVE active[b] = NoActive /\ NothingHeld(b)
      BY <1>3, <3>1, SettledHoldsNothing DEF StartCall, Clean
    <3>2. ASSUME NEW d \in Calls, AcceptCall(p, d) PROVE FALSE
      <4>1. b = Callee(d) /\ b = Caller[d]
        BY <1>3, <3>2, CallsAssumption DEF AcceptCall, Typed, IncomingTyped, OneCaller
      <4> QED BY <4>1, CalleeIs
    <3>3. CASE EndCall(p) \/ \E d \in Calls : DeclineCall(p, d)
      BY <1>1, <1>3, <3>3 DEF EndCall, EndCallInternal, DeclineCall
    <3> QED BY <2>1, <3>1, <3>2, <3>3 DEF User
  <2>2. CASE Resume(p)
    <3>1. PICK t \in tasks[p] :
          \/ InitReturns(p, t) \/ ListenReturns(p, t) \/ StartFails(p, t)
          \/ AddrsReturn(p, t) \/ AnswerReady(p, t) \/ AnswerFails(p, t)
          \/ SetReturns(p, t) \/ DialOpens(p, t) \/ DialReturns(p, t) \/ DialFails(p, t)
          \/ HandleShutdown(p, t) \/ StopReturns(p, t) \/ StopTimesOut(p, t)
      BY <2>2 DEF Resume
    <3>2. CASE InitReturns(p, t) \/ ListenReturns(p, t) \/ StartFails(p, t) \/ AddrsReturn(p, t)
      BY <1>1, <1>3, <3>2 DEF InitReturns, ListenReturns, StartFails, AddrsReturn, EndCallInternal
    <3>3. CASE AnswerReady(p, t) \/ AnswerFails(p, t) \/ SetReturns(p, t)
      BY <1>1, <1>3, <3>3 DEF AnswerReady, AnswerFails, SetReturns, Accept, EndCallInternal
    <3>4. CASE DialOpens(p, t) \/ DialReturns(p, t) \/ DialFails(p, t)
      BY <1>1, <1>3, <3>4, LinkKeeps
         DEF DialOpens, DialReturns, DialFails, GivesUp, EndCallInternal
    <3>5. CASE HandleShutdown(p, t) \/ StopReturns(p, t) \/ StopTimesOut(p, t)
      BY <1>1, <1>3, <3>5 DEF HandleShutdown, StopReturns, StopTimesOut
    <3> QED BY <3>1, <3>2, <3>3, <3>4, <3>5
  <2>3. CASE Event(p)
    <3>1. ASSUME NEW g \in Procs, Exits(p, g) \/ ExitEvent(p, g)
          PROVE  active'[b] = NoActive \/ active'[b] = active[b]
      BY <1>1, <1>3, <3>1 DEF Exits, ExitEvent
    <3>2. ASSUME NEW d \in Calls, Incoming(p, d)
          PROVE  active'[b].id = active[b].id
      BY <1>1, <1>3, <3>2, LinkKeeps DEF Incoming
    <3>3. ASSUME NEW d \in Calls, HearsClose(p, d) \/ SessionClosed(p, d)
          PROVE  active'[b] = NoActive \/ active'[b] = active[b]
      BY <1>1, <1>3, <3>3 DEF HearsClose, SessionClosed, EndCallInternal
    <3> QED BY <2>3, <3>1, <3>2, <3>3 DEF Event
  <2>4. CASE \E m \in wire : HandleSignalingMessage(p, m)
    BY <1>1, <1>3, <2>4 DEF HandleSignalingMessage, OnInvite, OnAccept, OnEnd, EndCallInternal
  <2>5. CASE (\E g \in Procs : Crashes(p, g)) \/ (\E d \in Calls : NetworkFails(p, d))
    BY <1>1, <1>3, <2>5 DEF Crashes, NetworkFails
  <2> QED BY <2>1, <2>2, <2>3, <2>4, <2>5, <1>3 DEF Step
<1> QED BY <1>2, <1>3

\* An invitation is new only if its call is active and its process known.
NewInvite(c, a) ==
    /\ active'[Caller[c]].id = c
    /\ stage[Caller[c]][a] # "none"

LEMMA InviteIs ==
    ASSUME NEW c, NEW a, NEW m \in wire' \ wire, m.type = "invite", m.call = c, m.addrs = a,
           NEW d, NEW b, wire' \in {wire, wire \cup {Invite(d, b)}}
    PROVE  c = d /\ a = b
BY DEF Invite, Signal

LEMMA NoInvite ==
    ASSUME NEW W, W \subseteq wire, NEW type \in {"accept", "decline", "end"},
           NEW d, NEW to, wire' \subseteq W \cup {Signal(type, d, to, 0)}, NEW c, NEW a,
           InviteTo(c, a)'
    PROVE  InviteTo(c, a)
BY DEF InviteTo, Signal

LEMMA Invites ==
    ASSUME Typed, Clean, AddrsKnown, Hurried = FALSE, NEW p \in Peers, Step(p),
           NEW c \in Calls, NEW a \in Procs, InviteTo(c, a)'
    PROVE  InviteTo(c, a) \/ NewInvite(c, a)
<1> USE DEF service, sidecar
<1>1. CASE wire' \subseteq wire
  BY <1>1 DEF InviteTo
<1>2. CASE User(p)
  <2>1. ASSUME NEW d \in Calls, StartCall(p, d) PROVE wire' = wire
    <3>1. NeedsSpawn(p)
      BY <2>1, SettledHoldsNothing DEF StartCall, Clean
    <3> QED BY <2>1, <3>1 DEF StartCall
  <2>2. ASSUME NEW d \in Calls, AcceptCall(p, d) \/ DeclineCall(p, d)
        PROVE  InviteTo(c, a)
    <3>1. PICK type \in {"accept", "decline"} :
            wire' \subseteq wire \cup {Signal(type, d, Caller[d], 0)}
      BY <2>2 DEF AcceptCall, Accept, DeclineCall
    <3> QED BY <3>1, NoInvite
  <2>3. CASE EndCall(p)
    BY <2>3, NoInvite DEF EndCall
  <2> QED BY <1>1, <1>2, <2>1, <2>2, <2>3 DEF User
<1>3. CASE Resume(p)
  <2>1. PICK t \in tasks[p] :
          \/ InitReturns(p, t) \/ ListenReturns(p, t) \/ StartFails(p, t)
          \/ AddrsReturn(p, t) \/ AnswerReady(p, t) \/ AnswerFails(p, t)
          \/ SetReturns(p, t) \/ DialOpens(p, t) \/ DialReturns(p, t) \/ DialFails(p, t)
          \/ HandleShutdown(p, t) \/ StopReturns(p, t) \/ StopTimesOut(p, t)
    BY <1>3 DEF Resume
  <2>2. CASE AddrsReturn(p, t)
    <3>1. PICK m \in wire' : m.type = "invite" /\ m.call = c /\ m.addrs = a
      BY DEF InviteTo
    <3>2. CASE m \in wire
      BY <3>1, <3>2 DEF InviteTo
    <3>3. CASE m \notin wire
      <4>1. /\ active[p].id = t.call /\ wire' = wire \cup {Invite(t.call, addrs'[p])}
            /\ UNCHANGED active
        BY <2>2, <3>1, <3>3 DEF AddrsReturn
      <4>2. t.call = c /\ a = addrs'[p]
        BY <3>1, <3>3, <4>1, InviteIs
      <4>3. p = Caller[c]
        BY <2>2, <4>2, TaskShape DEF AddrsReturn, GoodTask, Typed
      <4>4. a # 0
        BY LimitAssumption DEF Procs
      <4>5. stage[p][a] # "none"
        <5>1. CASE UNCHANGED addrs
          BY <4>2, <4>4, <5>1 DEF AddrsKnown
        <5>2. CASE \E g \in {t.proc, proc[p]} \ {0} :
                     /\ stage[p][g] = "listening" \/ (g = t.proc /\ stage[p][g] = "closing")
                     /\ addrs' = [addrs EXCEPT ![p] = g]
          BY <4>2, <5>2 DEF Typed, HeldTyped
        <5> QED BY <2>2, <5>1, <5>2 DEF AddrsReturn
      <4> QED BY <4>1, <4>2, <4>3, <4>5 DEF NewInvite
    <3> QED BY <3>2, <3>3
  <2>3. CASE AnswerReady(p, t)
    <3>1. wire' \subseteq wire \cup {Signal("accept", t.call, Caller[t.call], 0)}
      BY <2>3 DEF AnswerReady, Accept
    <3> QED BY <3>1, NoInvite
  <2>4. CASE InitReturns(p, t) \/ ListenReturns(p, t) \/ StartFails(p, t) \/ AnswerFails(p, t)
    BY <1>1, <2>4 DEF InitReturns, ListenReturns, StartFails, AnswerFails
  <2>5. CASE SetReturns(p, t) \/ DialOpens(p, t) \/ DialReturns(p, t) \/ DialFails(p, t)
    BY <1>1, <2>5 DEF SetReturns, DialOpens, DialReturns, DialFails
  <2>6. CASE HandleShutdown(p, t) \/ StopReturns(p, t) \/ StopTimesOut(p, t)
    BY <1>1, <2>6 DEF HandleShutdown, StopReturns, StopTimesOut
  <2> QED BY <2>1, <2>2, <2>3, <2>4, <2>5, <2>6
<1>4. CASE Event(p)
  BY <1>1, <1>4 DEF Event, Exits, ExitEvent, Incoming, HearsClose, SessionClosed
<1>5. CASE \E m \in wire : HandleSignalingMessage(p, m)
  <2>1. PICK m \in wire : HandleSignalingMessage(p, m)
    BY <1>5
  <2>2. \/ wire' \subseteq wire
        \/ wire' = (wire \ {m}) \cup {Signal("decline", m.call, Other(p), 0)}
    BY <2>1 DEF HandleSignalingMessage, OnInvite, OnAccept, OnEnd
  <2> QED BY <1>1, <2>2, NoInvite
<1>6. CASE (\E g \in Procs : Crashes(p, g)) \/ (\E d \in Calls : NetworkFails(p, d))
  BY <1>1, <1>6 DEF Crashes, NetworkFails
<1> QED BY <1>2, <1>3, <1>4, <1>5, <1>6 DEF Step

\* A callee rings with what an invitation brought.
LEMMA Rings ==
    ASSUME Typed, NEW p \in Peers, Step(p), NEW c \in Calls, NEW a \in Procs, RingsWith(c, a)'
    PROVE  InviteTo(c, a) \/ RingsWith(c, a)
<1> DEFINE q == Callee(c)
<1> USE DEF service, sidecar, history
<1>1. q \in Peers /\ c # NoCall
  BY CalleeIs, CallsAssumption
<1>2. CASE incoming'[q] = incoming[q]
  BY <1>2 DEF RingsWith
<1>3. CASE q # p
  BY <1>1, <1>2, <1>3, Elsewhere DEF Same
<1>4. CASE q = p
  <2>1. CASE incoming' = [incoming EXCEPT ![p] = NoIncoming]
    BY <1>1, <1>4, <2>1 DEF RingsWith, NoIncoming, Typed, IncomingTyped
  <2>2. CASE User(p)
    BY <1>2, <2>1, <2>2 DEF User, StartCall, AcceptCall, DeclineCall, EndCall
  <2>3. CASE Resume(p)
    BY <1>2, <2>3 DEF Resume, InitReturns, ListenReturns, StartFails, AddrsReturn, AnswerReady,
       AnswerFails, SetReturns, DialOpens, DialReturns, DialFails, HandleShutdown, StopReturns,
       StopTimesOut
  <2>4. CASE Event(p)
    BY <1>2, <2>4 DEF Event, Exits, ExitEvent, Incoming, HearsClose, SessionClosed
  <2>5. CASE \E m \in wire : HandleSignalingMessage(p, m)
    <3>1. PICK m \in wire : HandleSignalingMessage(p, m)
      BY <2>5
    <3>2. CASE /\ m.type = "invite"
               /\ incoming' = [incoming EXCEPT ![p] = [id |-> m.call, addrs |-> m.addrs]]
      <4>1. m.call = c /\ m.addrs = a
        BY <1>1, <1>4, <3>2 DEF RingsWith, Typed, IncomingTyped
      <4> QED BY <3>2, <4>1 DEF InviteTo
    <3> QED BY <1>2, <3>1, <3>2 DEF HandleSignalingMessage, OnInvite, OnAccept, OnEnd
  <2>6. CASE (\E g \in Procs : Crashes(p, g)) \/ (\E d \in Calls : NetworkFails(p, d))
    BY <1>2, <2>6 DEF Crashes, NetworkFails
  <2> QED BY <2>2, <2>3, <2>4, <2>5, <2>6 DEF Step
<1> QED BY <1>3, <1>4

Dialling == {"answer", "set", "dial", "linked"}

\* Where a task of a callee has its call and addresses from.
Derived(p, x) ==
    \/ x \in tasks[p] \/ x.op \notin Dialling
    \/ \E t \in tasks[p] : t.op \in Dialling /\ t.call = x.call /\ t.addrs = x.addrs
    \/ incoming[p].id = x.call /\ incoming[p].addrs = x.addrs

LEMMA DerivedEnd ==
    ASSUME TasksTyped, NEW p \in Peers, NEW rest, rest \subseteq tasks[p],
           EndCallInternal(p, rest), NEW x \in tasks'[p]
    PROVE  Derived(p, x)
<1>1. x \in rest \cup StopTask(p)
  BY DEF EndCallInternal, TasksTyped
<1>2. \A y \in StopTask(p) : y.op = "stop"
  BY DEF StopTask, Task
<1> QED BY <1>1, <1>2 DEF Derived, Dialling

LEMMA DerivedAwait ==
    ASSUME TasksTyped, NEW p \in Peers, NEW rest, rest \subseteq tasks[p], NEW y,
           Await(p, rest, y), Derived(p, y), NEW x \in tasks'[p]
    PROVE  Derived(p, x)
<1>1. x \in rest \cup {y}
  BY DEF Await, TasksTyped
<1> QED BY <1>1 DEF Derived

LEMMA DerivedReturn ==
    ASSUME TasksTyped, NEW p \in Peers, NEW rest, rest \subseteq tasks[p],
           Return(p, rest) \/ (UNCHANGED tasks), NEW x \in tasks'[p]
    PROVE  Derived(p, x)
BY DEF Return, TasksTyped, Derived

LEMMA DerivedAccept ==
    ASSUME TasksTyped, NEW p \in Peers, NEW rest, rest \subseteq tasks[p], NEW d, NEW b,
           NEW act, Accept(p, d, b, rest, act),
           \/ incoming[p].id = d /\ incoming[p].addrs = b
           \/ \E t \in tasks[p] : t.op \in Dialling /\ t.call = d /\ t.addrs = b,
           NEW x \in tasks'[p]
    PROVE  Derived(p, x)
<1>1. CASE b = 0
  BY <1>1, DerivedEnd DEF Accept
<1>2. CASE b # 0
  <2>1. PICK y : y = Task("set", d, proc[p], b)
    OBVIOUS
  <2>2. Derived(p, y)
    BY <2>1 DEF Task, Derived
  <2> QED BY <1>2, <2>1, <2>2, DerivedAwait DEF Accept
<1> QED BY <1>1, <1>2

LEMMA DerivedSpawn ==
    ASSUME TasksTyped, NEW p \in Peers, NEW op, NEW d, NEW b, Spawn(p, op, d, b),
           op = "init" \/ (incoming[p].id = d /\ incoming[p].addrs = b), NEW x \in tasks'[p]
    PROVE  Derived(p, x)
<1>1. PICK g : Await(p, tasks[p], Task(op, d, g, b))
  BY DEF Spawn
<1>2. PICK y : y = Task(op, d, g, b)
  OBVIOUS
<1>3. Derived(p, y)
  BY <1>2 DEF Task, Derived, Dialling
<1> QED BY <1>1, <1>2, <1>3, DerivedAwait

LEMMA TasksDerived ==
    ASSUME Typed, NEW p \in Peers, Step(p), NEW x \in tasks'[p]
    PROVE  Derived(p, x)
<1>0. TasksTyped
  BY DEF Typed
<1>1. CASE User(p)
  <2>1. ASSUME NEW d \in Calls, StartCall(p, d) PROVE Derived(p, x)
    BY <1>0, <2>1, DerivedSpawn, DerivedReturn DEF StartCall
  <2>2. ASSUME NEW d \in Calls, AcceptCall(p, d) PROVE Derived(p, x)
    BY <1>0, <2>2, DerivedSpawn, DerivedAccept DEF AcceptCall
  <2>3. ASSUME NEW d \in Calls, DeclineCall(p, d) PROVE Derived(p, x)
    BY <1>0, <2>3, DerivedReturn DEF DeclineCall
  <2>4. CASE EndCall(p)
    BY <1>0, <2>4, DerivedEnd DEF EndCall
  <2> QED BY <1>1, <2>1, <2>2, <2>3, <2>4 DEF User
<1>2. CASE Resume(p)
  <2>1. PICK t \in tasks[p] :
          \/ InitReturns(p, t) \/ ListenReturns(p, t) \/ StartFails(p, t)
          \/ AddrsReturn(p, t) \/ AnswerReady(p, t) \/ AnswerFails(p, t)
          \/ SetReturns(p, t) \/ DialOpens(p, t) \/ DialReturns(p, t) \/ DialFails(p, t)
          \/ HandleShutdown(p, t) \/ StopReturns(p, t) \/ StopTimesOut(p, t)
    BY <1>2 DEF Resume
  <2>2. t \in TaskSet
    BY <1>0, TaskShape
  <2>3. CASE InitReturns(p, t) \/ ListenReturns(p, t)
    <3>1. PICK op \in {"listen", "addrs"} :
            Await(p, tasks[p] \ {t}, Task(op, t.call, proc[p], 0))
      BY <2>3 DEF InitReturns, ListenReturns
    <3>2. PICK y : y = Task(op, t.call, proc[p], 0)
      OBVIOUS
    <3>3. Derived(p, y)
      BY <3>2 DEF Task, Derived, Dialling
    <3> QED BY <1>0, <3>1, <3>2, <3>3, DerivedAwait
  <2>4. CASE StartFails(p, t)
    BY <1>0, <2>4, DerivedEnd DEF StartFails
  <2>5. CASE \/ AddrsReturn(p, t) \/ AnswerFails(p, t) \/ DialReturns(p, t)
             \/ StopReturns(p, t) \/ StopTimesOut(p, t)
    <3>1. Return(p, tasks[p] \ {t})
      BY <2>5 DEF AddrsReturn, AnswerFails, DialReturns, StopReturns, StopTimesOut
    <3> QED BY <1>0, <3>1, DerivedReturn
  <2>6. CASE AnswerReady(p, t)
    BY <1>0, <2>6, DerivedAccept DEF AnswerReady, Dialling
  <2>7. CASE SetReturns(p, t)
    <3>1. x \in tasks[p] \/ x = Task("dial", t.call, proc[p], t.addrs)
      BY <1>0, <2>7 DEF SetReturns, TasksTyped
    <3> QED BY <2>7, <3>1 DEF SetReturns, Task, Derived, Dialling
  <2>8. CASE \E y : /\ y.call = t.call /\ y.addrs = t.addrs /\ t.op \in Dialling
                    /\ Await(p, tasks[p] \ {t}, y)
    BY <1>0, <2>8, DerivedAwait DEF Derived
  <2>9. CASE DialOpens(p, t)
    <3>1. PICK y : y = [t EXCEPT !.op = "linked"]
      OBVIOUS
    <3>2. y.call = t.call /\ y.addrs = t.addrs
      BY <2>2, <3>1 DEF TaskSet
    <3> QED BY <2>8, <2>9, <3>1, <3>2 DEF DialOpens, Dialling
  <2>10. CASE DialFails(p, t)
    <3>1. PICK y : y = [t EXCEPT !.op = "dial", !.proc = proc[p], !.tries = @ + 1]
      OBVIOUS
    <3>2. y.call = t.call /\ y.addrs = t.addrs /\ t.op \in Dialling
      BY <2>2, <2>10, <3>1 DEF TaskSet, DialFails, Dialling
    <3>3. \/ Return(p, tasks[p] \ {t}) \/ Await(p, tasks[p] \ {t}, y)
          \/ EndCallInternal(p, tasks[p] \ {t})
      BY <2>10, <3>1 DEF DialFails, GivesUp
    <3> QED BY <1>0, <2>8, <3>2, <3>3, DerivedReturn, DerivedEnd
  <2>11. CASE HandleShutdown(p, t)
    <3>1. PICK y : y = [t EXCEPT !.op = "stopped"]
      OBVIOUS
    <3>2. y.op = "stopped"
      BY <2>2, <3>1 DEF TaskSet
    <3>3. Derived(p, y)
      BY <3>2 DEF Derived, Dialling
    <3> QED BY <1>0, <2>11, <3>1, <3>3, DerivedAwait DEF HandleShutdown
  <2> QED BY <2>1, <2>3, <2>4, <2>5, <2>6, <2>7, <2>9, <2>10, <2>11
<1>3. CASE Event(p)
  BY <1>0, <1>3, DerivedReturn, DerivedEnd
     DEF Event, Exits, ExitEvent, Incoming, HearsClose, SessionClosed, service
<1>4. CASE \E m \in wire : HandleSignalingMessage(p, m)
  BY <1>0, <1>4, DerivedReturn, DerivedEnd DEF HandleSignalingMessage, OnInvite, OnAccept, OnEnd
<1>5. CASE (\E g \in Procs : Crashes(p, g)) \/ (\E d \in Calls : NetworkFails(p, d))
  BY <1>0, <1>5, DerivedReturn DEF Crashes, NetworkFails, service
<1> QED BY <1>1, <1>2, <1>3, <1>4, <1>5 DEF Step

\* A callee dials what it rang with.
LEMMA Dials ==
    ASSUME Typed, NEW p \in Peers, Step(p), NEW c \in Calls, NEW a \in Procs, DialsTo(c, a)'
    PROVE  RingsWith(c, a) \/ DialsTo(c, a)
<1>1. PICK x \in tasks'[Callee(c)] : x.op \in Dialling /\ x.call = c /\ x.addrs = a
  BY DEF DialsTo, Dialling
<1>2. CASE Callee(c) # p
  <2>1. x \in tasks[Callee(c)]
    BY <1>1, <1>2, CalleeIs, Elsewhere DEF Same
  <2> QED BY <1>1, <2>1 DEF DialsTo, Dialling
<1>3. CASE Callee(c) = p
  BY <1>1, <1>3, TasksDerived DEF Derived, DialsTo, RingsWith, Dialling
<1> QED BY <1>2, <1>3

\* A session arrives where it was dialled to.
LEMMA Arrives ==
    ASSUME Typed, NEW p \in Peers, Step(p), NEW q \in Peers, NEW c \in Calls,
           side'[q][c] = "arriving"
    PROVE  \/ side[q][c] = "arriving" /\ host'[q][c] = host[q][c]
           \/ /\ q = Caller[c] /\ c \in accepted /\ host'[q][c] # 0
              /\ DialsTo(c, host'[q][c])
<1> USE DEF Typed, SidecarTyped, service, history
<1>1. CASE UNCHANGED <<side, host>>
  BY <1>1
<1>2. ASSUME NEW r \in Peers, NEW g, NEW report, side' = Closed(r, g, report), UNCHANGED host
      PROVE  side[q][c] = "arriving" /\ host'[q][c] = host[q][c]
  BY <1>2 DEF Closed
<1>3. CASE User(p)
  BY <1>1, <1>3 DEF User, StartCall, AcceptCall, DeclineCall, EndCall, sidecar
<1>4. CASE Resume(p)
  <2>1. PICK t \in tasks[p] :
          \/ InitReturns(p, t) \/ ListenReturns(p, t) \/ StartFails(p, t)
          \/ AddrsReturn(p, t) \/ AnswerReady(p, t) \/ AnswerFails(p, t)
          \/ SetReturns(p, t) \/ DialOpens(p, t) \/ DialReturns(p, t) \/ DialFails(p, t)
          \/ HandleShutdown(p, t) \/ StopReturns(p, t) \/ StopTimesOut(p, t)
    BY <1>4 DEF Resume
  <2>2. CASE DialOpens(p, t)
    <3>1. /\ t.op = "dial" /\ GoodTask(p, t) /\ t.call \in Calls
          /\ Caller[t.call] \in Peers /\ Caller[t.call] # p
      BY <2>2, TaskShape, CalleeIs DEF DialOpens, GoodTask, HistoryTyped
    <3>2. /\ side' = [side EXCEPT ![p][t.call] = "open", ![Caller[t.call]][t.call] = "arriving"]
          /\ host' = [host EXCEPT ![p][t.call] = t.proc, ![Caller[t.call]][t.call] = t.addrs]
      BY <2>2 DEF DialOpens
    <3>3. CASE c = t.call /\ q = Caller[c]
      <4>1. host'[q][c] = t.addrs
        BY <3>1, <3>2, <3>3
      <4>2. DialsTo(c, t.addrs)
        BY <3>1, <3>3 DEF GoodTask, DialsTo
      <4> QED BY <3>1, <3>3, <4>1, <4>2 DEF GoodTask
    <3>4. CASE c # t.call
      BY <3>1, <3>2, <3>4
    <3>5. CASE c = t.call /\ q # Caller[c]
      <4>1. q = p
        BY <3>1, <3>5, OtherPeer, CalleeIs
      <4>2. side'[p][t.call] = "open"
        BY <3>1, <3>2
      <4> QED BY <3>5, <4>1, <4>2
    <3> QED BY <3>3, <3>4, <3>5
  <2>3. CASE HandleShutdown(p, t) \/ StopTimesOut(p, t)
    BY <1>1, <1>2, <2>3 DEF HandleShutdown, StopTimesOut
  <2>4. CASE InitReturns(p, t) \/ ListenReturns(p, t) \/ StartFails(p, t) \/ AddrsReturn(p, t)
    BY <1>1, <2>4 DEF InitReturns, ListenReturns, StartFails, AddrsReturn, sidecar
  <2>5. CASE AnswerReady(p, t) \/ AnswerFails(p, t) \/ SetReturns(p, t)
    BY <1>1, <2>5 DEF AnswerReady, AnswerFails, SetReturns, sidecar
  <2>6. CASE DialReturns(p, t) \/ DialFails(p, t) \/ StopReturns(p, t)
    BY <1>1, <2>6 DEF DialReturns, DialFails, StopReturns, sidecar
  <2> QED BY <2>1, <2>2, <2>3, <2>4, <2>5, <2>6
<1>5. CASE Event(p)
  <2>1. ASSUME NEW g \in Procs, Exits(p, g) \/ ExitEvent(p, g)
        PROVE  UNCHANGED <<side, host>>
    BY <2>1 DEF Exits, ExitEvent
  <2>2. ASSUME NEW d \in Calls, Incoming(p, d) \/ HearsClose(p, d) \/ SessionClosed(p, d)
        PROVE  side[q][c] = "arriving" /\ host'[q][c] = host[q][c]
    <3>1. UNCHANGED host /\ \E st \in {"open", "closed", "told"} :
                                side' = [side EXCEPT ![p][d] = st]
      <4>1. CASE Incoming(p, d)
        BY <4>1 DEF Incoming
      <4>2. CASE HearsClose(p, d) \/ SessionClosed(p, d)
        BY <4>2 DEF HearsClose, SessionClosed
      <4> QED BY <2>2, <4>1, <4>2
    <3> QED BY <3>1
  <2> QED BY <1>1, <1>5, <2>1, <2>2 DEF Event
<1>6. CASE \E m \in wire : HandleSignalingMessage(p, m)
  BY <1>1, <1>6 DEF HandleSignalingMessage, sidecar
<1>7. ASSUME NEW g \in Procs, Crashes(p, g)
      PROVE  side[q][c] = "arriving" /\ host'[q][c] = host[q][c]
  BY <1>2, <1>7 DEF Crashes
<1>8. ASSUME NEW d \in Calls, NetworkFails(p, d)
      PROVE  side[q][c] = "arriving" /\ host'[q][c] = host[q][c]
  BY <1>8 DEF NetworkFails
<1> QED BY <1>3, <1>4, <1>5, <1>6, <1>7, <1>8 DEF Step

\* What leads to a process stays with its call: its old processes are let go of before
\* the caller has another call.
LEMMA ReachesStep ==
    ASSUME Typed, Clean, Hurried = FALSE, OneCaller, ReachesItsCall, AddrsKnown,
           NEW p \in Peers, Step(p)
    PROVE  ReachesItsCall'
<1>1. SUFFICES ASSUME NEW c \in Calls, NEW a \in Procs, LeadsTo(c, a)'
               PROVE  Reached(c, a)'
  BY DEF ReachesItsCall
<1> DEFINE b == Caller[c]
<1>2. b \in Peers /\ ActiveTyped /\ ActiveTyped'
  BY CalleeIs, StepTyped DEF Typed
<1>3. LeadsTo(c, a) \/ NewInvite(c, a)
  <2>1. CASE ArrivesAt(c, a)'
    BY <1>2, <2>1, Arrives DEF ArrivesAt, LeadsTo
  <2>2. CASE InviteTo(c, a)' \/ RingsWith(c, a)' \/ DialsTo(c, a)'
    BY <2>2, Invites, Rings, Dials DEF LeadsTo
  <2> QED BY <1>1, <2>1, <2>2 DEF LeadsTo
<1>4. stage[b][a] # "none"
  BY <1>3 DEF LeadsTo, ReachesItsCall, Reached, NewInvite
<1>5. stage'[b][a] # "none" /\ (Held(b, a)' => Held(b, a))
  BY <1>2, <1>4, OldProcs
<1>6. ASSUME Held(b, a)' PROVE active'[b] = NoActive \/ active'[b].id = c
  <2>1. CASE NewInvite(c, a)
    BY <2>1 DEF NewInvite
  <2>2. CASE LeadsTo(c, a)
    <3>1. active[b] = NoActive \/ active[b].id = c
      BY <1>5, <1>6, <2>2 DEF ReachesItsCall, Reached
    <3>2. ~NothingHeld(b)
      BY <1>5, <1>6 DEF NothingHeld
    <3>3. active'[b] = NoActive \/ active'[b].id = active[b].id
      BY <3>2, CallerCall
    <3>4. CASE active[b] = NoActive /\ active'[b] # NoActive
      BY <1>2, <3>3, <3>4, CallsAssumption DEF ActiveTyped, NoActive
    <3> QED BY <3>1, <3>3, <3>4
  <2> QED BY <1>3, <2>1, <2>2
<1> QED BY <1>5, <1>6 DEF Reached

\* The addresses are those of a process there is.
LEMMA AddrsStep ==
    ASSUME Typed, AddrsKnown, NEW p \in Peers, Step(p)
    PROVE  AddrsKnown'
<1> USE DEF service
<1>1. SUFFICES ASSUME NEW q \in Peers, addrs'[q] # 0
               PROVE  addrs'[q] \in Procs /\ stage[q][addrs'[q]] # "none"
  BY OldProcs DEF AddrsKnown
<1>2. addrs'[q] = addrs[q] => addrs'[q] \in Procs /\ stage[q][addrs'[q]] # "none"
  BY <1>1, InProcs DEF AddrsKnown, Typed, HeldTyped
<1>3. CASE q # p
  BY <1>2, <1>3, Elsewhere DEF Same
<1>4. CASE q = p
  <2> USE DEF EndCallInternal, Typed, HeldTyped
  <2>1. CASE User(p)
    BY <1>1, <1>2, <1>4, <2>1 DEF User, StartCall, AcceptCall, Accept, DeclineCall, EndCall
  <2>2. CASE Resume(p)
    <3>1. PICK t \in tasks[p] :
          \/ InitReturns(p, t) \/ ListenReturns(p, t) \/ StartFails(p, t)
          \/ AddrsReturn(p, t) \/ AnswerReady(p, t) \/ AnswerFails(p, t)
          \/ SetReturns(p, t) \/ DialOpens(p, t) \/ DialReturns(p, t) \/ DialFails(p, t)
          \/ HandleShutdown(p, t) \/ StopReturns(p, t) \/ StopTimesOut(p, t)
      BY <2>2 DEF Resume
    <3>2. CASE AddrsReturn(p, t)
      <4>1. CASE UNCHANGED addrs
        BY <1>2, <4>1
      <4>2. CASE \E g \in {t.proc, proc[p]} \ {0} :
                   /\ stage[p][g] = "listening" \/ (g = t.proc /\ stage[p][g] = "closing")
                   /\ addrs' = [addrs EXCEPT ![p] = g]
        <5>1. t.proc \in 0 .. ProcLimit
          BY TaskShape
        <5> QED BY <1>4, <4>2, <5>1, InProcs
      <4> QED BY <3>2, <4>1, <4>2 DEF AddrsReturn
    <3>3. CASE InitReturns(p, t) \/ ListenReturns(p, t) \/ StartFails(p, t)
      BY <1>1, <1>2, <1>4, <3>3 DEF InitReturns, ListenReturns, StartFails
    <3>4. CASE AnswerReady(p, t) \/ AnswerFails(p, t) \/ SetReturns(p, t)
      BY <1>1, <1>2, <1>4, <3>4 DEF AnswerReady, AnswerFails, SetReturns, Accept
    <3>5. CASE DialOpens(p, t) \/ DialReturns(p, t) \/ DialFails(p, t)
      BY <1>1, <1>2, <1>4, <3>5 DEF DialOpens, DialReturns, DialFails, GivesUp
    <3>6. CASE HandleShutdown(p, t) \/ StopReturns(p, t) \/ StopTimesOut(p, t)
      BY <1>2, <1>4, <3>6 DEF HandleShutdown, StopReturns, StopTimesOut
    <3> QED BY <3>1, <3>2, <3>3, <3>4, <3>5, <3>6
  <2>3. CASE Event(p)
    BY <1>1, <1>2, <1>4, <2>3
       DEF Event, Exits, ExitEvent, Incoming, HearsClose, SessionClosed
  <2>4. CASE \E m \in wire : HandleSignalingMessage(p, m)
    BY <1>1, <1>2, <1>4, <2>4 DEF HandleSignalingMessage, OnInvite, OnAccept, OnEnd
  <2>5. CASE (\E g \in Procs : Crashes(p, g)) \/ (\E d \in Calls : NetworkFails(p, d))
    BY <1>2, <1>4, <2>5 DEF Crashes, NetworkFails
  <2> QED BY <2>1, <2>2, <2>3, <2>4, <2>5 DEF Step
<1> QED BY <1>3, <1>4

LEMMA StepGrows == ASSUME NEW p, Step(p) PROVE Grows
<1> USE DEF Grows, history
<1>1. CASE User(p)
  BY <1>1 DEF User, StartCall, AcceptCall, Accept, DeclineCall, EndCall
<1>2. CASE Resume(p)
  BY <1>2 DEF Resume, InitReturns, ListenReturns, StartFails, AddrsReturn, AnswerReady, Accept,
     AnswerFails, SetReturns, DialOpens, DialReturns, DialFails, HandleShutdown, StopReturns,
     StopTimesOut
<1>3. CASE Event(p)
  BY <1>3 DEF Event, Exits, ExitEvent, Incoming, HearsClose, SessionClosed
<1>4. CASE \E m \in wire : HandleSignalingMessage(p, m)
  BY <1>4 DEF HandleSignalingMessage
<1>5. CASE (\E g \in Procs : Crashes(p, g)) \/ (\E d \in Calls : NetworkFails(p, d))
  BY <1>5 DEF Crashes, NetworkFails
<1> QED BY <1>1, <1>2, <1>3, <1>4, <1>5 DEF Step

LEMMA ArrivingStep ==
    ASSUME Typed, Arriving, NEW p \in Peers, Step(p)
    PROVE  Arriving'
<1>1. SUFFICES ASSUME NEW q \in Peers, NEW c \in Calls, side'[q][c] = "arriving"
               PROVE  q = Caller[c] /\ c \in accepted /\ host'[q][c] # 0
  BY StepGrows DEF Arriving, Grows
<1> QED BY <1>1, Arrives DEF Arriving

\* What SessionOwned says of one call.
OwnSession(x) ==
    /\ x.session # NoCall => x.session = x.id /\ x.id \in accepted
    /\ x.state = "connected" => x.session # NoCall

LEMMA OwnSessionKept ==
    ASSUME SessionOwned, Grows, NEW q \in Peers,
           \/ active'[q] \in {active[q], NoActive}
           \/ \E c \in Calls : active'[q] \in {CallOf(c, "ringing"), CallOf(c, "connecting")}
    PROVE  OwnSession(active[q])'
<1>1. CASE active'[q] = active[q]
  BY <1>1 DEF SessionOwned, OwnSession, Grows
<1>2. CASE active'[q] = NoActive
  BY <1>2 DEF OwnSession, NoActive
<1>3. CASE \E c \in Calls : active'[q] \in {CallOf(c, "ringing"), CallOf(c, "connecting")}
  <2>1. active'[q].session = NoCall /\ active'[q].state # "connected"
    BY <1>3, CallTyped
  <2> QED BY <2>1 DEF OwnSession
<1> QED BY <1>1, <1>2, <1>3

LEMMA SessionLinked ==
    ASSUME Typed, Grows, NEW p \in Peers, NEW c \in accepted, active[p].id = c, Linked(p, c)
    PROVE  OwnSession(active[p])'
BY LinkKeeps, CallsAssumption DEF OwnSession, Grows, Typed, HistoryTyped

\* A session is linked to the call it was dialled for.
LEMMA SessionStep ==
    ASSUME Typed, Owned, NEW p \in Peers, Step(p)
    PROVE  SessionOwned'
<1> USE DEF service
<1>0. SessionOwned /\ Grows
  BY StepGrows DEF Owned
<1>1. SUFFICES ASSUME NEW q \in Peers PROVE OwnSession(active[q])'
  BY DEF SessionOwned, OwnSession
<1>2. CASE active'[q] \in {active[q], NoActive}
  BY <1>0, <1>2, OwnSessionKept
<1>3. CASE q # p
  BY <1>2, <1>3, Elsewhere DEF Same
<1>4. CASE q = p
  <2>1. ASSUME NEW x, active' = [active EXCEPT ![p] = x] PROVE active'[q] = x
    BY <1>4, <2>1 DEF Typed, ActiveTyped
  <2>2. ASSUME NEW rest, EndCallInternal(p, rest) PROVE active'[q] = NoActive
    BY <2>1, <2>2 DEF EndCallInternal
  <2>3. CASE User(p)
    <3>1. ASSUME NEW d \in Calls, StartCall(p, d) PROVE OwnSession(active[q])'
      <4>1. active'[q] = CallOf(d, "ringing")
        BY <2>1, <3>1 DEF StartCall
      <4> QED BY <1>0, <4>1, OwnSessionKept
    <3>2. ASSUME NEW d \in Calls, AcceptCall(p, d) PROVE OwnSession(active[q])'
      <4>1. active'[q] = CallOf(d, "connecting") \/ active'[q] = NoActive
        BY <2>1, <2>2, <3>2 DEF AcceptCall, Accept
      <4> QED BY <1>0, <4>1, OwnSessionKept
    <3>3. CASE EndCall(p) \/ \E d \in Calls : DeclineCall(p, d)
      BY <1>2, <2>2, <3>3 DEF EndCall, DeclineCall
    <3> QED BY <2>3, <3>1, <3>2, <3>3 DEF User
  <2>4. CASE Resume(p)
    <3>1. PICK t \in tasks[p] :
          \/ InitReturns(p, t) \/ ListenReturns(p, t) \/ StartFails(p, t)
          \/ AddrsReturn(p, t) \/ AnswerReady(p, t) \/ AnswerFails(p, t)
          \/ SetReturns(p, t) \/ DialOpens(p, t) \/ DialReturns(p, t) \/ DialFails(p, t)
          \/ HandleShutdown(p, t) \/ StopReturns(p, t) \/ StopTimesOut(p, t)
      BY <2>4 DEF Resume
    <3>2. CASE InitReturns(p, t) \/ ListenReturns(p, t) \/ StartFails(p, t) \/ AddrsReturn(p, t)
      BY <1>2, <2>2, <3>2 DEF InitReturns, ListenReturns, StartFails, AddrsReturn
    <3>3. CASE AnswerReady(p, t) \/ AnswerFails(p, t) \/ SetReturns(p, t)
      BY <1>2, <1>4, <2>1, <2>2, <3>3 DEF AnswerReady, AnswerFails, SetReturns, Accept
    <3>4. CASE DialReturns(p, t)
      <4>1. CASE active[p].id = t.call
        <5>1. t.call \in accepted
          BY <3>4, TaskShape DEF DialReturns, GoodTask, Typed
        <5> QED BY <1>0, <1>4, <3>4, <4>1, <5>1, SessionLinked DEF DialReturns
      <4>2. CASE active[p].id # t.call
        BY <1>2, <3>4, <4>2 DEF DialReturns
      <4> QED BY <4>1, <4>2
    <3>5. CASE DialOpens(p, t) \/ DialFails(p, t)
      BY <1>2, <2>2, <3>5 DEF DialOpens, DialFails, GivesUp
    <3>6. CASE HandleShutdown(p, t) \/ StopReturns(p, t) \/ StopTimesOut(p, t)
      BY <1>2, <3>6 DEF HandleShutdown, StopReturns, StopTimesOut
    <3> QED BY <3>1, <3>2, <3>3, <3>4, <3>5, <3>6
  <2>5. CASE Event(p)
    <3>1. ASSUME NEW g \in Procs, Exits(p, g) \/ ExitEvent(p, g) PROVE OwnSession(active[q])'
      BY <1>2, <2>1, <3>1 DEF Exits, ExitEvent
    <3>2. ASSUME NEW d \in Calls, Incoming(p, d) PROVE OwnSession(active[q])'
      <4>1. CASE active[p] # NoActive /\ active[p].session = NoCall
        <5>1. p = Caller[d] /\ d \in accepted /\ host[p][d] \in Procs
          BY <3>2, InProcs DEF Incoming, Owned, Arriving, Typed, SidecarTyped
        <5>2. LeadsTo(d, host[p][d]) /\ Held(p, host[p][d])
          BY <3>2, <5>1 DEF Incoming, LeadsTo, ArrivesAt, Held
        <5>3. active[p].id = d
          BY <4>1, <5>1, <5>2 DEF Owned, ReachesItsCall, Reached
        <5> QED BY <1>0, <1>4, <3>2, <4>1, <5>1, <5>3, SessionLinked DEF Incoming
      <4>2. CASE ~(active[p] # NoActive /\ active[p].session = NoCall)
        BY <1>2, <3>2, <4>2 DEF Incoming
      <4> QED BY <4>1, <4>2
    <3>3. ASSUME NEW d \in Calls, HearsClose(p, d) \/ SessionClosed(p, d)
          PROVE  OwnSession(active[q])'
      BY <1>2, <2>2, <3>3 DEF HearsClose, SessionClosed
    <3> QED BY <2>5, <3>1, <3>2, <3>3 DEF Event
  <2>6. CASE \E m \in wire : HandleSignalingMessage(p, m)
    <3>1. PICK m \in wire : HandleSignalingMessage(p, m)
      BY <2>6
    <3>2. CASE OnAccept(p, m)
      <4>1. PICK x : x = active[p]
        OBVIOUS
      <4>2. /\ active \in [Peers -> [id : Ids, session : Ids,
                                    state : {"none", "ringing", "connecting", "connected"}]]
            /\ x \in [id : Ids, session : Ids,
                      state : {"none", "ringing", "connecting", "connected"}]
        BY <4>1 DEF Typed, ActiveTyped
      <4>3. /\ active'[p].id = x.id /\ active'[p].session = x.session
            /\ active'[p].state \in {x.state, "connecting"} \/ x.session # NoCall
        BY <3>2, <4>1, <4>2 DEF OnAccept
      <4> QED BY <1>0, <1>4, <4>1, <4>3 DEF OwnSession, SessionOwned, Grows
    <3> QED BY <1>2, <2>2, <3>1, <3>2 DEF HandleSignalingMessage, OnInvite, OnEnd
  <2>7. CASE (\E g \in Procs : Crashes(p, g)) \/ (\E d \in Calls : NetworkFails(p, d))
    BY <1>2, <2>7 DEF Crashes, NetworkFails
  <2> QED BY <2>3, <2>4, <2>5, <2>6, <2>7 DEF Step
<1> QED BY <1>3, <1>4

LEMMA OwnedStutter == Owned /\ UNCHANGED vars => Owned'
<1> SUFFICES ASSUME Owned, UNCHANGED vars PROVE Owned'
  OBVIOUS
<1> USE DEF vars, service, sidecar, history
<1>1. ASSUME NEW c \in Calls, NEW a \in Procs
      PROVE  (LeadsTo(c, a)' => LeadsTo(c, a)) /\ (Reached(c, a) => Reached(c, a)')
  BY DEF LeadsTo, InviteTo, RingsWith, DialsTo, ArrivesAt, Reached, Held
<1>2. ReachesItsCall'
  BY <1>1 DEF Owned, ReachesItsCall
<1>3. AddrsKnown' /\ Arriving' /\ SessionOwned'
  BY DEF Owned, AddrsKnown, Arriving, SessionOwned
<1> QED BY <1>2, <1>3 DEF Owned

LEMMA OwnedAlways ==
    ASSUME Hurried = FALSE, OneCaller
    PROVE  Spec => []Owned
<1>1. Typed /\ Clean /\ Owned /\ [Next]_vars => Owned'
  <2> SUFFICES ASSUME Typed, Clean, Owned, [Next]_vars PROVE Owned'
    OBVIOUS
  <2>1. CASE Next
    BY <2>1, NextIsStep, ReachesStep, AddrsStep, ArrivingStep, SessionStep DEF Owned
  <2>2. CASE UNCHANGED vars
    BY <2>2, OwnedStutter
  <2> QED BY <2>1, <2>2
<1> QED BY <1>1, InitOwned, CleanAlways, PTL DEF Spec

\* When users do not hurry and one peer places all calls, a call is connected only over the
\* session its own callee dialled after accepting, although the sidecar links whatever
\* session arrives to whatever call is active.
THEOREM SessionIsOfCallAlways ==
    ASSUME Hurried = FALSE, OneCaller
    PROVE  Spec => []SessionIsOfCall
BY OwnedAlways, OwnedIsSession, PTL


=============================================================================
