--------------------------- MODULE AcpProxyProofs ---------------------------
(***************************************************************************)
(* Proofs about AcpProxy, for any number of requests, agents, models and   *)
(* rosters, every set of request kinds (close_session included) and both   *)
(* ways the SDK may treat the handlers of a client that has left.          *)
(***************************************************************************)
EXTENDS AcpProxy, TLAPS

\* The binding handler is the head of the lock queue.
LockHeld ==
    \A r \in Requests : Binding(r) => lockQueue # <<>> /\ Head(lockQueue) = r

\* A pick that waits for the lock is well-formed, and a bind under way knows
\* its agent and its model.
PickKept(r) ==
    /\ pc[r] = "lock" /\ call[r].op = "pick" => call[r].pick \in Picks
    /\ Binding(r) => proc[r].agent \in Agents /\ proc[r].asked \in Models
PicksKept == \A r \in Requests : PickKept(r)

IInv == TypeOK /\ LockHeld /\ PicksKept

\* Nothing is bound and no handler is queued when a client connects.
LEMMA InitIInv == Init => IInv
<1> SUFFICES ASSUME Init PROVE IInv
    OBVIOUS
<1>1. proc \in [Requests -> Processes]
  BY DEF Init, Unspawned, Processes, Statuses
<1>2. pc \in [Requests -> Pcs]
  BY DEF Init, Pcs
<1>3. ProxyTypes
  BY DEF Init, ProxyTypes
<1>4. TaskTypes
  BY <1>2 DEF Init, TaskTypes
<1>5. WrapperTypes
  BY <1>1 DEF Init, WrapperTypes
<1>6. LockHeld /\ PicksKept
  BY DEF Init, LockHeld, PicksKept, PickKept, Binding, BindPcs
<1> QED BY <1>3, <1>4, <1>5, <1>6 DEF IInv, TypeOK

-----------------------------------------------------------------------------
(* What the pieces of the handlers do to the state.                         *)

\* A handler that parks at step changes no other handler; it holds the lock
\* afterwards only if step is a step of the bind.
LEMMA GotoEffect ==
  ASSUME TaskTypes, NEW r \in Requests, NEW step \in Pcs, Goto(r, step)
  PROVE  /\ pc' \in [Requests -> Pcs] /\ pc'[r] = step
         /\ \A s \in Requests : s # r => pc'[s] = pc[s]
         /\ \A s \in Requests : Binding(s)' => Binding(s) \/ s = r
         /\ step \notin BindPcs => \A s \in Requests : Binding(s)' => Binding(s) /\ s # r
BY DEF TaskTypes, Goto, Binding

\* The steps of a handler, by name, and which of them hold the lock.
LEMMA Steps ==
  /\ \A step \in {"idle", "roster", "lock", "repick", "call", "close", "reap",
                  "reapError", "ok", "error", "cancelled"} :
       step \in Pcs /\ step \notin BindPcs
  /\ \A step \in {"spawn", "init", "new", "model", "unwind"} :
       step \in Pcs /\ step \in BindPcs
BY DEF Pcs, BindPcs, Finals

\* The lock stays with its holder: nobody starts to bind and the queue is kept.
LEMMA LockKept ==
  ASSUME LockHeld, lockQueue' = lockQueue,
         \A s \in Requests : Binding(s)' => Binding(s)
  PROVE  LockHeld'
BY DEF LockHeld

\* A handler that queues behind the holder leaves it at the head.
LEMMA LockQueued ==
  ASSUME LockHeld, TaskTypes, NEW r \in Requests, lockQueue # <<>>,
         lockQueue' = Append(lockQueue, r),
         \A s \in Requests : Binding(s)' => Binding(s)
  PROVE  LockHeld' /\ lockQueue' \in Seq(Requests)
<1>1. lockQueue \in Seq(Requests)
  BY DEF TaskTypes
<1>2. lockQueue' \in Seq(Requests) /\ lockQueue' # <<>> /\ Head(lockQueue') = Head(lockQueue)
  BY <1>1
<1> QED BY <1>2 DEF LockHeld

\* A handler that takes the lock while nobody binds becomes its holder.
LEMMA LockTaken ==
  ASSUME NEW r \in Requests, NEW waiters \in Seq(Requests),
         lockQueue' = <<r>> \o waiters,
         \A s \in Requests : Binding(s)' => s = r
  PROVE  LockHeld' /\ lockQueue' \in Seq(Requests)
<1>1. lockQueue' \in Seq(Requests) /\ lockQueue' # <<>> /\ Head(lockQueue') = r
  OBVIOUS
<1> QED BY <1>1 DEF LockHeld

\* The holder lets go of the lock: nobody binds then.
LEMMA LockReleased ==
  ASSUME LockHeld, TaskTypes, NEW r \in Requests, Binding(r),
         lockQueue' = Tail(lockQueue),
         \A s \in Requests : Binding(s)' => Binding(s) /\ s # r
  PROVE  LockHeld' /\ lockQueue' \in Seq(Requests)
<1>1. lockQueue \in Seq(Requests) /\ lockQueue # <<>>
  BY DEF TaskTypes, LockHeld
<1>2. lockQueue' \in Seq(Requests)
  BY <1>1
<1> QED BY <1>2 DEF LockHeld

\* Whoever is at the head of the queue without binding, nobody else binds.
LEMMA NobodyBinds ==
  ASSUME LockHeld, NEW r \in Requests, ~Binding(r),
         lockQueue = <<>> \/ Head(lockQueue) = r
  PROVE  \A s \in Requests : ~Binding(s)
BY DEF LockHeld

\* Only the pick of the handler that moves needs to be looked at again.
LEMMA PicksStable ==
  ASSUME PicksKept, NEW r \in Requests, PickKept(r)',
         \A s \in Requests : s # r =>
           /\ pc'[s] = pc[s] /\ call'[s] = call[s]
           /\ proc'[s].agent = proc[s].agent /\ proc'[s].asked = proc[s].asked
  PROVE  PicksKept'
BY DEF PicksKept, PickKept, Binding

\* A change of status is all that happens to a wrapper, whoever makes it.
LEMMA StatusTyped ==
  ASSUME NEW procs \in [Requests -> Processes], NEW p \in Requests, NEW st \in Statuses
  PROVE  /\ [procs EXCEPT ![p].status = st] \in [Requests -> Processes]
         /\ \A q \in Requests :
              /\ [procs EXCEPT ![p].status = st][q].agent = procs[q].agent
              /\ [procs EXCEPT ![p].status = st][q].asked = procs[q].asked
BY DEF Processes

\* Popping the exit stack changes statuses only.
LEMMA PoppedTyped ==
  ASSUME NEW procs \in [Requests -> Processes]
  PROVE  /\ Popped(procs) \in [Requests -> Processes]
         /\ \A q \in Requests : /\ Popped(procs)[q].agent = procs[q].agent
                                /\ Popped(procs)[q].asked = procs[q].asked
<1>1. \A q \in Requests : [procs[q] EXCEPT !.status = "closing"] \in Processes
  BY DEF Processes, Statuses
<1>2. \A q \in Requests : /\ [procs[q] EXCEPT !.status = "closing"].agent = procs[q].agent
                          /\ [procs[q] EXCEPT !.status = "closing"].asked = procs[q].asked
  BY DEF Processes
<1> QED BY <1>1, <1>2 DEF Popped
-----------------------------------------------------------------------------
(* The parts of the handlers that run under the lock.                       *)

\* The part of the type invariant that a handler's own step can disturb.
HandlerTypes ==
    /\ lockQueue \in Seq(Requests)
    /\ pc \in [Requests -> Pcs]
    /\ via \in [Requests -> Requests \cup {None}]
    /\ proc \in [Requests -> Processes]
    /\ wire \in [Requests -> Seq(SetModelCalls)]

\* A handler that starts to bind is the only one that does.
LEMMA StartBindEffect ==
  ASSUME IInv, NEW r \in Requests, NEW pick \in Picks, NEW waiters \in Seq(Requests),
         \A s \in Requests : ~Binding(s),
         \A s \in Requests : s # r => call'[s] = call[s],
         StartBind(r, pick, waiters)
  PROVE  HandlerTypes' /\ LockHeld' /\ PicksKept'
<1> USE DEF IInv, TypeOK
<1>1. Goto(r, "spawn") /\ "spawn" \in Pcs
  BY Steps DEF StartBind
<1>2. LockHeld' /\ lockQueue' \in Seq(Requests)
  BY <1>1, GotoEffect, LockTaken DEF StartBind
<1>3. pick.agent \in Agents /\ pick.model \in Models
  BY DEF Picks
<1>4. [status |-> "spawning", stack |-> stack, agent |-> pick.agent,
       asked |-> pick.model, model |-> None, selector |-> None] \in Processes
  BY <1>3 DEF Processes, Statuses, ProxyTypes
<1>5. proc' \in [Requests -> Processes]
  BY <1>4 DEF StartBind, WrapperTypes
<1>6. /\ proc'[r].agent = pick.agent /\ proc'[r].asked = pick.model
      /\ \A s \in Requests : s # r => proc'[s] = proc[s]
  BY DEF StartBind, WrapperTypes
<1>7. PickKept(r)'
  BY <1>1, <1>3, <1>6, GotoEffect DEF PickKept
<1>8. PicksKept'
  BY <1>1, <1>6, <1>7, GotoEffect, PicksStable
<1> QED BY <1>1, <1>2, <1>5, <1>8, GotoEffect
           DEF HandlerTypes, StartBind, TaskTypes, WrapperTypes

\* A set-model call goes out on the wire of the backend.
LEMMA SendModelTyped ==
  ASSUME TypeOK, NEW r \in Requests, NEW model \in Models, backend # None,
         SendModel(r, model)
  PROVE  /\ via' \in [Requests -> Requests \cup {None}]
         /\ wire' \in [Requests -> Seq(SetModelCalls)]
<1>1. backend \in Requests
  BY DEF TypeOK, ProxyTypes
<1>2. [req |-> r, model |-> model] \in SetModelCalls
  BY DEF SetModelCalls
<1>3. wire[backend] \in Seq(SetModelCalls)
  BY <1>1 DEF TypeOK, WrapperTypes
<1>4. Append(wire[backend], [req |-> r, model |-> model]) \in Seq(SetModelCalls)
  BY <1>2, <1>3
<1> QED BY <1>1, <1>4 DEF SendModel, TypeOK, TaskTypes, WrapperTypes

\* A handler that lets go of the lock, or never took it, without binding.
LEMMA HandsOver ==
  ASSUME IInv, NEW r \in Requests, NEW waiters \in Seq(Requests),
         NEW step \in Pcs, step \notin BindPcs, step # "lock",
         \A s \in Requests : ~Binding(s),
         \A s \in Requests : s # r => call'[s] = call[s],
         \A s \in Requests : proc'[s].agent = proc[s].agent /\ proc'[s].asked = proc[s].asked,
         lockQueue' = waiters, Goto(r, step)
  PROVE  /\ lockQueue' \in Seq(Requests) /\ pc' \in [Requests -> Pcs]
         /\ LockHeld' /\ PicksKept'
<1> USE DEF IInv, TypeOK
<1>1. \A s \in Requests : ~Binding(s)'
  BY GotoEffect
<1>2. LockHeld'
  BY <1>1 DEF LockHeld
<1>3. PickKept(r)'
  BY <1>1, GotoEffect DEF PickKept
<1>4. PicksKept'
  BY <1>3, GotoEffect, PicksStable
<1> QED BY <1>2, <1>4, GotoEffect

\* _select_model under the lock: bind, reject, or re-pick.
LEMMA SelectModelEffect ==
  ASSUME IInv, NEW r \in Requests, NEW pick \in Picks, NEW waiters \in Seq(Requests),
         \A s \in Requests : ~Binding(s),
         \A s \in Requests : s # r => call'[s] = call[s],
         SelectModel(r, pick, waiters)
  PROVE  HandlerTypes' /\ LockHeld' /\ PicksKept'
<1> USE DEF IInv, TypeOK
<1>1. CASE boundAgent = None /\ StartBind(r, pick, waiters)
  BY <1>1, StartBindEffect
<1>2. CASE /\ lockQueue' = waiters /\ Goto(r, "error")
           /\ UNCHANGED <<via, proc, wire>>
  BY <1>2, HandsOver, Steps DEF HandlerTypes, TaskTypes, WrapperTypes
<1>3. CASE /\ lockQueue' = waiters /\ SetBackendModel(r, pick.model)
           /\ UNCHANGED proc
  <2>1. CASE Goto(r, "ok") /\ UNCHANGED <<via, wire>>
    BY <1>3, <2>1, HandsOver, Steps DEF HandlerTypes, TaskTypes, WrapperTypes
  <2>2. CASE Goto(r, "error") /\ UNCHANGED <<via, wire>>
    BY <1>3, <2>2, HandsOver, Steps DEF HandlerTypes, TaskTypes, WrapperTypes
  <2>3. CASE RequireBound /\ Goto(r, "repick") /\ SendModel(r, pick.model)
    <3>1. pick.model \in Models /\ backend # None
      BY <2>3 DEF Picks, RequireBound
    <3>2. /\ via' \in [Requests -> Requests \cup {None}]
          /\ wire' \in [Requests -> Seq(SetModelCalls)]
      BY <2>3, <3>1, SendModelTyped
    <3> QED BY <1>3, <2>3, <3>2, HandsOver, Steps DEF HandlerTypes, WrapperTypes
  <2> QED BY <1>3, <2>1, <2>2, <2>3 DEF SetBackendModel
<1> QED BY <1>1, <1>2, <1>3 DEF SelectModel

\* _ensure_bound_for_default and the rest of prompt: forward, fail, or bind.
LEMMA EnsureBoundEffect ==
  ASSUME IInv, NEW r \in Requests, NEW waiters \in Seq(Requests),
         \A s \in Requests : ~Binding(s),
         \A s \in Requests : s # r => call'[s] = call[s],
         EnsureBoundForDefault(r, waiters)
  PROVE  HandlerTypes' /\ LockHeld' /\ PicksKept'
<1> USE DEF IInv, TypeOK
<1>1. CASE lockQueue' = waiters /\ Forward(r) /\ UNCHANGED <<proc, wire>>
  <2>1. CASE RequireBound /\ Goto(r, "call") /\ via' = [via EXCEPT ![r] = backend]
    BY <1>1, <2>1, HandsOver, Steps DEF HandlerTypes, ProxyTypes, TaskTypes, WrapperTypes
  <2>2. CASE Goto(r, "error") /\ UNCHANGED via
    BY <1>1, <2>2, HandsOver, Steps DEF HandlerTypes, TaskTypes, WrapperTypes
  <2> QED BY <1>1, <2>1, <2>2 DEF Forward
<1>2. CASE lockQueue' = waiters /\ Goto(r, "error") /\ UNCHANGED <<via, proc, wire>>
  BY <1>2, HandsOver, Steps DEF HandlerTypes, TaskTypes, WrapperTypes
<1>3. CASE aggregated # <<>> /\ StartBind(r, Head(aggregated), waiters)
  <2>1. Head(aggregated) \in Picks
    BY <1>3, RosterAssumption DEF ProxyTypes
  <2> QED BY <1>3, <2>1, StartBindEffect
<1> QED BY <1>1, <1>2, <1>3 DEF EnsureBoundForDefault
-----------------------------------------------------------------------------
(* The end of a bind, and teardown.                                         *)

\* The attributes that a teardown resets keep their types.
LEMMA ResetTyped ==
  ASSUME TypeOK, ResetBackend
  PROVE  /\ backend' \in Requests \cup {None} /\ session' \in Requests \cup {None}
         /\ modelConfig' \in Requests \cup {None} /\ stack' \in Nat
BY DEF ResetBackend, TypeOK, ProxyTypes

\* A teardown that has to wait remembers the processes of the exit stack.
LEMMA AwaitsTyped ==
  ASSUME TypeOK, NEW t \in Tasks, TeardownAwaits(t)
  PROVE  reaping' \in [Tasks -> SUBSET Requests]
<1>1. OnStack(stack) \in SUBSET Requests
  BY DEF OnStack
<1> QED BY <1>1 DEF TeardownAwaits, TypeOK, TaskTypes

\* Either way a teardown starts, the attributes keep their types.
LEMMA TeardownTyped ==
  ASSUME TypeOK, NEW t \in Tasks, TeardownAtOnce \/ TeardownAwaits(t)
  PROVE  /\ backend' \in Requests \cup {None} /\ session' \in Requests \cup {None}
         /\ modelConfig' \in Requests \cup {None} /\ stack' \in Nat
         /\ reaping' \in [Tasks -> SUBSET Requests]
<1>1. CASE TeardownAtOnce
  BY <1>1, ResetTyped DEF TeardownAtOnce, TypeOK, TaskTypes
<1>2. CASE TeardownAwaits(t)
  BY <1>2, AwaitsTyped DEF TeardownAwaits, backendVars, TypeOK, ProxyTypes
<1> QED BY <1>1, <1>2

\* The end of a teardown: the attributes are reset, the task waits no longer.
LEMMA EndReapTyped ==
  ASSUME TypeOK, NEW t \in Tasks, EndReap(t)
  PROVE  /\ backend' \in Requests \cup {None} /\ session' \in Requests \cup {None}
         /\ modelConfig' \in Requests \cup {None} /\ stack' \in Nat
         /\ reaping' \in [Tasks -> SUBSET Requests]
BY ResetTyped DEF EndReap, TypeOK, TaskTypes

\* A handler that moves on without ever having held the lock.
LEMMA Moves ==
  ASSUME IInv, NEW r \in Requests, NEW step \in Pcs, step \notin BindPcs, step # "lock",
         Goto(r, step), lockQueue' = lockQueue,
         \A s \in Requests : s # r => call'[s] = call[s],
         \A s \in Requests : proc'[s].agent = proc[s].agent /\ proc'[s].asked = proc[s].asked
  PROVE  pc' \in [Requests -> Pcs] /\ LockHeld' /\ PicksKept'
<1> USE DEF IInv, TypeOK
<1>1. LockHeld'
  BY GotoEffect, LockKept
<1>2. ~Binding(r)'
  BY GotoEffect DEF Binding
<1>3. PickKept(r)'
  BY <1>2, GotoEffect DEF PickKept
<1>4. PicksKept'
  BY <1>3, GotoEffect, PicksStable
<1> QED BY <1>1, <1>4, GotoEffect

\* The handler that binds lets go of the lock.
LEMMA Releases ==
  ASSUME IInv, NEW r \in Requests, NEW step \in Pcs, step \notin BindPcs, step # "lock",
         Binding(r), Goto(r, step), lockQueue' = Tail(lockQueue), call' = call,
         \A s \in Requests : proc'[s].agent = proc[s].agent /\ proc'[s].asked = proc[s].asked
  PROVE  /\ lockQueue' \in Seq(Requests) /\ pc' \in [Requests -> Pcs]
         /\ LockHeld' /\ PicksKept'
<1> USE DEF IInv, TypeOK
<1>1. LockHeld' /\ lockQueue' \in Seq(Requests)
  BY GotoEffect, LockReleased
<1>2. PickKept(r)'
  BY GotoEffect DEF PickKept
<1>3. PicksKept'
  BY <1>2, GotoEffect, PicksStable
<1> QED BY <1>1, <1>3, GotoEffect

\* The handler that binds goes from one step of the handshake to the next.
LEMMA Continues ==
  ASSUME IInv, NEW r \in Requests, NEW step \in BindPcs, step \in Pcs, step # "lock",
         Binding(r), Goto(r, step), lockQueue' = lockQueue, call' = call,
         \A s \in Requests : proc'[s].agent = proc[s].agent /\ proc'[s].asked = proc[s].asked
  PROVE  pc' \in [Requests -> Pcs] /\ LockHeld' /\ PicksKept'
<1> USE DEF IInv, TypeOK
<1>1. LockHeld'
  BY GotoEffect, LockKept
<1>2. PickKept(r)'
  BY GotoEffect DEF PickKept, PicksKept
<1>3. PicksKept'
  BY <1>2, GotoEffect, PicksStable
<1> QED BY <1>1, <1>3, GotoEffect

\* A failing bind tears down and lets go of the lock when that is done.
LEMMA BindFailsEffect ==
  ASSUME IInv, NEW r \in Requests, Binding(r), call' = call,
         NEW procs \in [Requests -> Processes],
         \A s \in Requests : procs[s].agent = proc[s].agent /\ procs[s].asked = proc[s].asked,
         BindFails(r, procs)
  PROVE  /\ lockQueue' \in Seq(Requests) /\ pc' \in [Requests -> Pcs]
         /\ proc' \in [Requests -> Processes]
         /\ backend' \in Requests \cup {None} /\ session' \in Requests \cup {None}
         /\ modelConfig' \in Requests \cup {None} /\ stack' \in Nat
         /\ reaping' \in [Tasks -> SUBSET Requests]
         /\ LockHeld' /\ PicksKept'
<1> USE DEF IInv, TypeOK
<1>1. /\ proc' \in [Requests -> Processes]
      /\ \A s \in Requests : proc'[s].agent = proc[s].agent /\ proc'[s].asked = proc[s].asked
  BY PoppedTyped DEF BindFails
<1>2. r \in Tasks /\ (TeardownAtOnce \/ TeardownAwaits(r))
  BY DEF BindFails, Tasks
<1>3. CASE Goto(r, "error") /\ lockQueue' = Tail(lockQueue)
  BY <1>1, <1>2, <1>3, TeardownTyped, Releases, Steps
<1>4. CASE Goto(r, "unwind") /\ UNCHANGED lockQueue
  BY <1>1, <1>2, <1>4, TeardownTyped, Continues, Steps DEF TaskTypes
<1> QED BY <1>3, <1>4 DEF BindFails

\* A bind that succeeds sets the agent and lets go of the lock.
LEMMA BindSucceedsEffect ==
  ASSUME IInv, NEW r \in Requests, Binding(r), call' = call,
         \A s \in Requests : proc'[s].agent = proc[s].agent /\ proc'[s].asked = proc[s].asked,
         BindSucceeds(r)
  PROVE  /\ lockQueue' \in Seq(Requests) /\ pc' \in [Requests -> Pcs]
         /\ via' \in [Requests -> Requests \cup {None}]
         /\ boundAgent' \in Agents
         /\ LockHeld' /\ PicksKept'
<1> USE DEF IInv, TypeOK
<1>1. boundAgent' \in Agents
  BY DEF BindSucceeds, PicksKept, PickKept
<1>2. lockQueue' = Tail(lockQueue)
  BY DEF BindSucceeds
<1>3. CASE Goto(r, "ok") /\ UNCHANGED via
  BY <1>1, <1>2, <1>3, Releases, Steps DEF TaskTypes
<1>4. CASE Goto(r, "call") /\ via' = [via EXCEPT ![r] = backend]
  BY <1>1, <1>2, <1>4, Releases, Steps DEF TaskTypes, ProxyTypes
<1>5. CASE Goto(r, "error") /\ UNCHANGED via
  BY <1>1, <1>2, <1>5, Releases, Steps DEF TaskTypes
<1> QED BY <1>3, <1>4, <1>5 DEF BindSucceeds
-----------------------------------------------------------------------------
(* Every action preserves the invariant.                                    *)

\* A request that arrives is not binding, and leaves the others alone.
LEMMA ArrivesEffect ==
  ASSUME TypeOK, NEW r \in Requests, NEW op, NEW pick \in Picks \cup {None},
         Arrives(r, op, pick)
  PROVE  /\ ~Binding(r)
         /\ call' \in [Requests -> [op : Ops \cup {None}, pick : Picks \cup {None}]]
         /\ call'[r] = [op |-> op, pick |-> pick]
         /\ \A s \in Requests : s # r => call'[s] = call[s]
<1>1. [op |-> op, pick |-> pick] \in [op : Ops \cup {None}, pick : Picks \cup {None}]
  BY DEF Arrives
<1> QED BY <1>1, Steps DEF Arrives, TypeOK, TaskTypes, Binding

\* _require_bound and the call, or the refusal: no type is disturbed.
LEMMA ForwardTyped ==
  ASSUME IInv, NEW r \in Requests, Forward(r) \/ (Goto(r, "error") /\ UNCHANGED via),
         UNCHANGED <<lockQueue, proc>>, \A s \in Requests : s # r => call'[s] = call[s]
  PROVE  /\ pc' \in [Requests -> Pcs] /\ via' \in [Requests -> Requests \cup {None}]
         /\ LockHeld' /\ PicksKept'
<1> USE DEF IInv, TypeOK
<1>1. CASE Goto(r, "call") /\ via' = [via EXCEPT ![r] = backend]
  BY <1>1, Moves, Steps DEF TaskTypes, ProxyTypes
<1>2. CASE Goto(r, "error") /\ UNCHANGED via
  BY <1>2, Moves, Steps DEF TaskTypes
<1> QED BY <1>1, <1>2 DEF Forward

\* A request that arrives, whatever it asks for.
LEMMA RequestStep ==
  ASSUME IInv, NEW r \in Requests, Request(r)
  PROVE  IInv'
<1> USE DEF IInv, TypeOK
<1>1. CASE NewSession(r)
  <2>1. Arrives(r, "new", None) /\ UNCHANGED <<lockQueue, proc>>
    BY <1>1 DEF NewSession
  <2>2. pc' \in [Requests -> Pcs] /\ LockHeld' /\ PicksKept'
    BY <1>1, <2>1, ArrivesEffect, Moves, Steps DEF NewSession
  <2>3. ProxyTypes'
    BY <1>1 DEF NewSession, ProxyTypes, backendVars
  <2>4. TaskTypes'
    BY <1>1, <2>1, <2>2, ArrivesEffect DEF NewSession, TaskTypes
  <2>5. WrapperTypes'
    BY <1>1 DEF NewSession, WrapperTypes
  <2> QED BY <2>2, <2>3, <2>4, <2>5
<1>2. CASE PickModel(r)
  <2>1. PICK pick \in Picks \cup {None} :
          /\ Arrives(r, "pick", pick)
          /\ \/ (~announced \/ pick = None) /\ AnswersAtOnce(r, "error")
             \/ announced /\ pick # None /\ WaitsForLock(r)
             \/ /\ announced /\ pick # None /\ lockQueue = <<>>
                /\ SelectModel(r, pick, <<>>)
    BY <1>2 DEF PickModel
  <2>2. HandlerTypes' /\ LockHeld' /\ PicksKept'
    <3>1. CASE AnswersAtOnce(r, "error")
      BY <2>1, <3>1, ArrivesEffect, Moves, Steps
         DEF AnswersAtOnce, HandlerTypes, TaskTypes, WrapperTypes
    <3>2. CASE pick # None /\ WaitsForLock(r)
      <4>1. Goto(r, "lock") /\ LockHeld' /\ lockQueue' \in Seq(Requests)
        BY <2>1, <3>2, ArrivesEffect, GotoEffect, LockQueued, Steps DEF WaitsForLock
      <4>2. PickKept(r)'
        <5>1. "lock" \in Pcs /\ "lock" \notin BindPcs
          BY Steps
        <5>2. pc'[r] = "lock" /\ ~Binding(r)'
          BY <4>1, <5>1, GotoEffect
        <5>3. call'[r] = [op |-> "pick", pick |-> pick] /\ pick \in Picks
          BY <2>1, <3>2, ArrivesEffect
        <5> QED BY <5>2, <5>3 DEF PickKept
      <4>3. PicksKept'
        BY <2>1, <3>2, <4>1, <4>2, ArrivesEffect, GotoEffect, PicksStable, Steps
           DEF WaitsForLock
      <4> QED BY <3>2, <4>1, <4>3, GotoEffect, Steps
                 DEF WaitsForLock, HandlerTypes, TaskTypes, WrapperTypes
    <3>3. CASE pick # None /\ lockQueue = <<>> /\ SelectModel(r, pick, <<>>)
      <4>1. \A s \in Requests : ~Binding(s)
        BY <2>1, <3>3, ArrivesEffect, NobodyBinds
      <4>2. pick \in Picks /\ <<>> \in Seq(Requests)
        BY <3>3
      <4> QED BY <2>1, <3>3, <4>1, <4>2, ArrivesEffect, SelectModelEffect
    <3> QED BY <2>1, <3>1, <3>2, <3>3
  <2>3. ProxyTypes'
    BY <1>2 DEF PickModel, ProxyTypes, announceVars, backendVars
  <2>4. TaskTypes'
    BY <1>2, <2>1, <2>2, ArrivesEffect DEF PickModel, TaskTypes, HandlerTypes
  <2>5. WrapperTypes'
    BY <1>2, <2>2 DEF PickModel, WrapperTypes, HandlerTypes
  <2> QED BY <2>2, <2>3, <2>4, <2>5
<1>3. CASE Prompt(r)
  <2>1. Arrives(r, "prompt", None)
    BY <1>3 DEF Prompt
  <2>2. HandlerTypes' /\ LockHeld' /\ PicksKept'
    <3>1. CASE AnswersAtOnce(r, "error")
      BY <2>1, <3>1, ArrivesEffect, Moves, Steps
         DEF AnswersAtOnce, HandlerTypes, TaskTypes, WrapperTypes
    <3>2. CASE WaitsForLock(r)
      <4>1. Goto(r, "lock") /\ LockHeld' /\ lockQueue' \in Seq(Requests)
        BY <2>1, <3>2, ArrivesEffect, GotoEffect, LockQueued, Steps DEF WaitsForLock
      <4>2. PickKept(r)'
        <5>1. "lock" \in Pcs /\ "lock" \notin BindPcs
          BY Steps
        <5>2. pc'[r] = "lock" /\ ~Binding(r)'
          BY <4>1, <5>1, GotoEffect
        <5>3. call'[r] = [op |-> "prompt", pick |-> None]
          BY <2>1, <3>2, ArrivesEffect
        <5> QED BY <5>2, <5>3 DEF PickKept
      <4>3. PicksKept'
        BY <2>1, <3>2, <4>1, <4>2, ArrivesEffect, GotoEffect, PicksStable, Steps
           DEF WaitsForLock
      <4> QED BY <3>2, <4>1, <4>3, GotoEffect, Steps
                 DEF WaitsForLock, HandlerTypes, TaskTypes, WrapperTypes
    <3>3. CASE lockQueue = <<>> /\ EnsureBoundForDefault(r, <<>>)
      <4>1. \A s \in Requests : ~Binding(s)
        BY <2>1, <3>3, ArrivesEffect, NobodyBinds
      <4>2. <<>> \in Seq(Requests)
        OBVIOUS
      <4> QED BY <2>1, <3>3, <4>1, <4>2, ArrivesEffect, EnsureBoundEffect
    <3> QED BY <1>3, <3>1, <3>2, <3>3 DEF Prompt
  <2>3. ProxyTypes'
    BY <1>3 DEF Prompt, ProxyTypes, announceVars, backendVars
  <2>4. TaskTypes'
    BY <1>3, <2>1, <2>2, ArrivesEffect DEF Prompt, TaskTypes, HandlerTypes
  <2>5. WrapperTypes'
    BY <1>3, <2>2 DEF Prompt, WrapperTypes, HandlerTypes
  <2> QED BY <2>2, <2>3, <2>4, <2>5
<1>4. CASE ForwardOnly(r)
  <2>1. PICK op \in {"option", "forward"} : Arrives(r, op, None)
    BY <1>4 DEF ForwardOnly
  <2>2. /\ pc' \in [Requests -> Pcs] /\ via' \in [Requests -> Requests \cup {None}]
        /\ LockHeld' /\ PicksKept'
    BY <1>4, <2>1, ArrivesEffect, ForwardTyped DEF ForwardOnly
  <2>3. ProxyTypes'
    BY <1>4 DEF ForwardOnly, ProxyTypes, announceVars, backendVars
  <2>4. TaskTypes'
    BY <1>4, <2>1, <2>2, ArrivesEffect DEF ForwardOnly, TaskTypes
  <2>5. WrapperTypes'
    BY <1>4 DEF ForwardOnly, WrapperTypes
  <2> QED BY <2>2, <2>3, <2>4, <2>5
<1>5. CASE CloseSession(r)
  <2>1. Arrives(r, "close", None) /\ UNCHANGED <<lockQueue, proc>>
    BY <1>5 DEF CloseSession
  <2>2. PICK step \in {"error", "ok", "close"} : Goto(r, step)
    BY <1>5 DEF CloseSession
  <2>3. pc' \in [Requests -> Pcs] /\ LockHeld' /\ PicksKept'
    BY <2>1, <2>2, ArrivesEffect, Moves, Steps
  <2>4. via' \in [Requests -> Requests \cup {None}]
    BY <1>5 DEF CloseSession, TaskTypes, ProxyTypes
  <2>5. ProxyTypes'
    BY <1>5 DEF CloseSession, ProxyTypes, announceVars, backendVars
  <2>6. TaskTypes'
    BY <1>5, <2>1, <2>3, <2>4, ArrivesEffect DEF CloseSession, TaskTypes
  <2>7. WrapperTypes'
    BY <1>5 DEF CloseSession, WrapperTypes
  <2> QED BY <2>3, <2>5, <2>6, <2>7
<1> QED BY <1>1, <1>2, <1>3, <1>4, <1>5 DEF Request
\* A frame that is shown is recorded with an agent and a prefix.
LEMMA FrameTyped ==
  ASSUME TypeOK, NEW p \in Requests
  PROVE  Frame(p) \in [agent : Agents \cup {None}, prefix : Agents \cup {None},
                       marked : BOOLEAN, bound : BOOLEAN]
<1>1. proc[p].agent \in Agents \cup {None} /\ boundAgent \in Agents \cup {None}
  BY DEF TypeOK, ProxyTypes, WrapperTypes, Processes
<1> QED BY <1>1 DEF Frame

\* Taking the next set-model call off the wire keeps the wire well-typed.
LEMMA NextTyped ==
  ASSUME TypeOK, NEW r \in Requests, NextOnWire(r)
  PROVE  /\ via[r] \in Requests
         /\ Head(wire[via[r]]) \in SetModelCalls
         /\ [wire EXCEPT ![via[r]] = Tail(@)] \in [Requests -> Seq(SetModelCalls)]
<1>1. via[r] \in Requests /\ wire[via[r]] # <<>>
  BY DEF NextOnWire, Up
<1>2. wire[via[r]] \in Seq(SetModelCalls)
  BY <1>1 DEF TypeOK, WrapperTypes
<1>3. Head(wire[via[r]]) \in SetModelCalls /\ Tail(wire[via[r]]) \in Seq(SetModelCalls)
  BY <1>1, <1>2
<1> QED BY <1>1, <1>3 DEF TypeOK, WrapperTypes

\* A process that switches its model stays the process it was.
LEMMA TakesModelTyped ==
  ASSUME TypeOK, NEW r \in Requests, TakesModel(r)
  PROVE  /\ proc' \in [Requests -> Processes]
         /\ wire' \in [Requests -> Seq(SetModelCalls)]
         /\ \A s \in Requests : proc'[s].agent = proc[s].agent /\ proc'[s].asked = proc[s].asked
<1>1. /\ via[r] \in Requests /\ Head(wire[via[r]]).model \in Models
      /\ wire' \in [Requests -> Seq(SetModelCalls)]
  BY NextTyped DEF TakesModel, SetModelCalls
<1>2. proc' = [proc EXCEPT ![via[r]].model = Head(wire[via[r]]).model]
  BY DEF TakesModel
<1>3. proc \in [Requests -> Processes]
  BY DEF TypeOK, WrapperTypes
<1>4. \A m \in Models, p \in Requests :
        /\ [proc EXCEPT ![p].model = m] \in [Requests -> Processes]
        /\ \A s \in Requests : /\ [proc EXCEPT ![p].model = m][s].agent = proc[s].agent
                               /\ [proc EXCEPT ![p].model = m][s].asked = proc[s].asked
  BY <1>3 DEF Processes
<1> QED BY <1>1, <1>2, <1>4

\* The reply to session/new tells how the wrapper marks its model selector.
LEMMA SelectorTyped ==
  ASSUME TypeOK, NEW r \in Requests, NEW selector \in Selectors
  PROVE  /\ [proc EXCEPT ![r].selector = selector] \in [Requests -> Processes]
         /\ \A s \in Requests :
              /\ [proc EXCEPT ![r].selector = selector][s].agent = proc[s].agent
              /\ [proc EXCEPT ![r].selector = selector][s].asked = proc[s].asked
BY DEF TypeOK, WrapperTypes, Processes

\* A step of the handler that binds.
LEMMA BindStep ==
  ASSUME IInv, NEW r \in Requests,
         \/ Spawned(r) \/ SpawnFails(r) \/ Initialized(r) \/ SessionOpened(r)
         \/ HandshakeFails(r) \/ ModelSet(r) \/ Unwound(r)
  PROVE  IInv'
<1> USE DEF IInv, TypeOK
<1>1. CASE Spawned(r)
  <2>1. Binding(r) /\ "up" \in Statuses /\ "init" \in BindPcs /\ "init" \in Pcs
    BY <1>1 DEF Spawned, Binding, BindPcs, Pcs, Statuses
  <2>2. /\ proc' \in [Requests -> Processes]
        /\ \A s \in Requests : proc'[s].agent = proc[s].agent /\ proc'[s].asked = proc[s].asked
    BY <1>1, <2>1, StatusTyped DEF Spawned, WrapperTypes
  <2>3. pc' \in [Requests -> Pcs] /\ LockHeld' /\ PicksKept'
    BY <1>1, <2>1, <2>2, Continues DEF Spawned
  <2>4. ProxyTypes'
    BY <1>1 DEF Spawned, ProxyTypes, announceVars
  <2>5. TaskTypes'
    BY <1>1, <2>3 DEF Spawned, TaskTypes
  <2>6. WrapperTypes'
    BY <1>1, <2>2 DEF Spawned, WrapperTypes
  <2> QED BY <2>3, <2>4, <2>5, <2>6
<1>2. CASE SpawnFails(r)
  <2> DEFINE procs == [proc EXCEPT ![r].status = "dead"]
  <2>1. Binding(r) /\ "dead" \in Statuses /\ call' = call
    BY <1>2 DEF SpawnFails, Binding, BindPcs, Statuses, taskVars
  <2>2. /\ procs \in [Requests -> Processes]
        /\ \A s \in Requests : procs[s].agent = proc[s].agent /\ procs[s].asked = proc[s].asked
    BY <2>1, StatusTyped DEF WrapperTypes
  <2>3. BindFails(r, procs)
    BY <1>2 DEF SpawnFails
  <2> HIDE DEF procs
  <2>4. /\ lockQueue' \in Seq(Requests) /\ pc' \in [Requests -> Pcs]
        /\ proc' \in [Requests -> Processes]
        /\ backend' \in Requests \cup {None} /\ session' \in Requests \cup {None}
        /\ modelConfig' \in Requests \cup {None} /\ stack' \in Nat
        /\ reaping' \in [Tasks -> SUBSET Requests]
        /\ LockHeld' /\ PicksKept'
    BY <2>1, <2>2, <2>3, BindFailsEffect
  <2>5. ProxyTypes'
    BY <1>2, <2>4 DEF SpawnFails, ProxyTypes, announceVars
  <2>6. TaskTypes'
    BY <1>2, <2>4 DEF SpawnFails, TaskTypes, taskVars
  <2>7. WrapperTypes'
    BY <1>2, <2>4 DEF SpawnFails, WrapperTypes, taskVars
  <2> QED BY <2>4, <2>5, <2>6, <2>7
<1>3. CASE Initialized(r)
  <2>1. Binding(r) /\ "new" \in BindPcs /\ "new" \in Pcs
    BY <1>3 DEF Initialized, Binding, BindPcs, Pcs
  <2>2. pc' \in [Requests -> Pcs] /\ LockHeld' /\ PicksKept'
    BY <1>3, <2>1, Continues DEF Initialized, taskVars
  <2>3. ProxyTypes'
    BY <1>3 DEF Initialized, ProxyTypes, announceVars, backendVars
  <2>4. TaskTypes'
    BY <1>3, <2>2 DEF Initialized, TaskTypes, taskVars
  <2>5. WrapperTypes'
    BY <1>3 DEF Initialized, WrapperTypes, taskVars
  <2> QED BY <2>2, <2>3, <2>4, <2>5
<1>4. CASE SessionOpened(r)
  <2>1. Binding(r) /\ call' = call /\ seen' = seen /\ conn' = conn
    BY <1>4 DEF SessionOpened, Binding, BindPcs
  <2>2. UNCHANGED <<announced, aggregated>>
    BY <1>4 DEF SessionOpened, announceVars
  <2>3. PICK selector \in Selectors :
          LET opened == [proc EXCEPT ![r].selector = selector] IN
          \/ /\ selector = "none"
             /\ session' = r /\ modelConfig' = None
             /\ proc' = opened
             /\ BindSucceeds(r)
             /\ UNCHANGED <<backend, stack, wire, reaping>>
          \/ /\ selector # "none" /\ backend # None
             /\ session' = r /\ modelConfig' = r
             /\ proc' = opened
             /\ SendModel(r, proc[r].asked) /\ Goto(r, "model")
             /\ UNCHANGED <<backend, stack, boundAgent, lockQueue, reaping>>
          \/ /\ selector # "none" /\ backend = None
             /\ BindFails(r, opened)
             /\ UNCHANGED <<boundAgent, via, wire>>
    BY <1>4 DEF SessionOpened
  <2> DEFINE procs == [proc EXCEPT ![r].selector = selector]
  <2>4. /\ procs \in [Requests -> Processes]
        /\ \A s \in Requests : procs[s].agent = proc[s].agent /\ procs[s].asked = proc[s].asked
    BY SelectorTyped
  <2> HIDE DEF procs
  <2>5. CASE /\ session' = r /\ modelConfig' = None /\ BindSucceeds(r) /\ proc' = procs
             /\ UNCHANGED <<backend, stack, wire, reaping>>
    <3>1. /\ lockQueue' \in Seq(Requests) /\ pc' \in [Requests -> Pcs]
          /\ via' \in [Requests -> Requests \cup {None}] /\ boundAgent' \in Agents
          /\ LockHeld' /\ PicksKept'
      BY <2>1, <2>4, <2>5, BindSucceedsEffect
    <3>2. ProxyTypes'
      BY <2>1, <2>2, <2>5, <3>1 DEF ProxyTypes
    <3>3. TaskTypes' /\ WrapperTypes'
      BY <2>1, <2>4, <2>5, <3>1 DEF TaskTypes, WrapperTypes
    <3> QED BY <3>1, <3>2, <3>3
  <2>6. CASE /\ backend # None /\ session' = r /\ modelConfig' = r /\ proc' = procs
             /\ SendModel(r, proc[r].asked) /\ Goto(r, "model")
             /\ UNCHANGED <<backend, stack, boundAgent, lockQueue, reaping>>
    <3>1. proc[r].asked \in Models
      BY <2>1 DEF PicksKept, PickKept
    <3>2. /\ via' \in [Requests -> Requests \cup {None}]
          /\ wire' \in [Requests -> Seq(SetModelCalls)]
      BY <2>6, <3>1, SendModelTyped
    <3>3. pc' \in [Requests -> Pcs] /\ LockHeld' /\ PicksKept'
      BY <2>1, <2>4, <2>6, Continues, Steps
    <3>4. ProxyTypes'
      BY <2>1, <2>2, <2>6 DEF ProxyTypes
    <3>5. TaskTypes' /\ WrapperTypes'
      BY <2>1, <2>4, <2>6, <3>2, <3>3 DEF TaskTypes, WrapperTypes
    <3> QED BY <3>3, <3>4, <3>5
  <2>7. CASE BindFails(r, procs) /\ UNCHANGED <<boundAgent, via, wire>>
    <3>1. /\ lockQueue' \in Seq(Requests) /\ pc' \in [Requests -> Pcs]
          /\ proc' \in [Requests -> Processes]
          /\ backend' \in Requests \cup {None} /\ session' \in Requests \cup {None}
          /\ modelConfig' \in Requests \cup {None} /\ stack' \in Nat
          /\ reaping' \in [Tasks -> SUBSET Requests]
          /\ LockHeld' /\ PicksKept'
      BY <2>1, <2>4, <2>7, BindFailsEffect
    <3>2. ProxyTypes'
      BY <2>1, <2>2, <2>7, <3>1 DEF ProxyTypes
    <3>3. TaskTypes' /\ WrapperTypes'
      BY <2>1, <2>7, <3>1 DEF TaskTypes, WrapperTypes
    <3> QED BY <3>1, <3>2, <3>3
  <2> QED BY <2>3, <2>5, <2>6, <2>7 DEF procs
<1>5. CASE HandshakeFails(r)
  <2>1. Binding(r) /\ call' = call /\ BindFails(r, proc)
    BY <1>5 DEF HandshakeFails, Binding, BindPcs
  <2>2. /\ lockQueue' \in Seq(Requests) /\ pc' \in [Requests -> Pcs]
        /\ proc' \in [Requests -> Processes]
        /\ backend' \in Requests \cup {None} /\ session' \in Requests \cup {None}
        /\ modelConfig' \in Requests \cup {None} /\ stack' \in Nat
        /\ reaping' \in [Tasks -> SUBSET Requests]
        /\ LockHeld' /\ PicksKept'
    BY <2>1, BindFailsEffect DEF WrapperTypes
  <2>3. wire' \in [Requests -> Seq(SetModelCalls)]
    BY <1>5, NextTyped DEF HandshakeFails, WrapperTypes
  <2>4. ProxyTypes'
    BY <1>5, <2>2 DEF HandshakeFails, ProxyTypes, announceVars
  <2>5. TaskTypes' /\ WrapperTypes'
    BY <1>5, <2>2, <2>3 DEF HandshakeFails, TaskTypes, WrapperTypes
  <2> QED BY <2>2, <2>4, <2>5
<1>6. CASE ModelSet(r)
  <2>1. Binding(r) /\ call' = call /\ TakesModel(r) /\ BindSucceeds(r)
    BY <1>6 DEF ModelSet, Binding, BindPcs
  <2>2. /\ lockQueue' \in Seq(Requests) /\ pc' \in [Requests -> Pcs]
        /\ via' \in [Requests -> Requests \cup {None}] /\ boundAgent' \in Agents
        /\ LockHeld' /\ PicksKept'
    BY <2>1, TakesModelTyped, BindSucceedsEffect
  <2>3. ProxyTypes'
    BY <1>6, <2>2 DEF ModelSet, ProxyTypes, announceVars
  <2>4. TaskTypes' /\ WrapperTypes'
    BY <1>6, <2>1, <2>2, TakesModelTyped DEF ModelSet, TaskTypes, WrapperTypes
  <2> QED BY <2>2, <2>3, <2>4
<1>7. CASE Unwound(r)
  <2>1. Binding(r) /\ call' = call /\ EndReap(r) /\ r \in Tasks
    BY <1>7 DEF Unwound, Binding, BindPcs, taskVars, Tasks
  <2>2. /\ lockQueue' \in Seq(Requests) /\ pc' \in [Requests -> Pcs]
        /\ LockHeld' /\ PicksKept'
    BY <1>7, <2>1, Releases, Steps DEF Unwound
  <2>3. ProxyTypes'
    BY <1>7, <2>1, EndReapTyped DEF Unwound, ProxyTypes, announceVars
  <2>4. TaskTypes' /\ WrapperTypes'
    BY <1>7, <2>1, <2>2, EndReapTyped DEF Unwound, TaskTypes, WrapperTypes, taskVars
  <2> QED BY <2>2, <2>3, <2>4
<1> QED BY <1>1, <1>2, <1>3, <1>4, <1>5, <1>6, <1>7
\* A handler that gets its answer, or the lock, outside a bind.
LEMMA AnswerStep ==
  ASSUME IInv, NEW r \in Requests,
         \/ SessionListed(r) \/ Acquire(r) \/ Repicked(r) \/ CallAnswered(r)
         \/ CloseAnswered(r) \/ Closed(r)
  PROVE  IInv'
<1> USE DEF IInv, TypeOK
<1>1. CASE SessionListed(r)
  <2>1. PICK step \in {"ok", "error"} : Goto(r, step)
    BY <1>1 DEF SessionListed
  <2>2. pc' \in [Requests -> Pcs] /\ LockHeld' /\ PicksKept'
    BY <1>1, <2>1, Moves, Steps DEF SessionListed, taskVars
  <2>3. ProxyTypes'
    BY <1>1 DEF SessionListed, ProxyTypes, backendVars
  <2>4. TaskTypes' /\ WrapperTypes'
    BY <1>1, <2>2 DEF SessionListed, TaskTypes, WrapperTypes, taskVars
  <2> QED BY <2>2, <2>3, <2>4
<1>2. CASE Acquire(r)
  <2>1. /\ pc[r] = "lock" /\ lockQueue # <<>> /\ Head(lockQueue) = r /\ call' = call
        /\ lockQueue \in Seq(Requests)
    BY <1>2 DEF Acquire, TaskTypes
  <2>2. \A s \in Requests : ~Binding(s)
    BY <2>1, NobodyBinds, Steps DEF Binding
  <2>3. Tail(lockQueue) \in Seq(Requests)
    BY <2>1
  <2>4. HandlerTypes' /\ LockHeld' /\ PicksKept'
    <3>1. CASE call[r].op = "pick" /\ SelectModel(r, call[r].pick, Tail(lockQueue))
      <4>1. call[r].pick \in Picks
        BY <2>1, <3>1 DEF PicksKept, PickKept
      <4> QED BY <2>1, <2>2, <2>3, <3>1, <4>1, SelectModelEffect
    <3>2. CASE EnsureBoundForDefault(r, Tail(lockQueue))
      BY <2>1, <2>2, <2>3, <3>2, EnsureBoundEffect
    <3> QED BY <1>2, <3>1, <3>2 DEF Acquire
  <2>5. ProxyTypes'
    BY <1>2 DEF Acquire, ProxyTypes, announceVars, backendVars
  <2>6. TaskTypes' /\ WrapperTypes'
    BY <1>2, <2>4 DEF Acquire, TaskTypes, WrapperTypes, HandlerTypes
  <2> QED BY <2>4, <2>5, <2>6
<1>3. CASE Repicked(r)
  <2>1. PICK step \in {"ok", "error"} : Goto(r, step)
    BY <1>3 DEF Repicked
  <2>2. /\ proc' \in [Requests -> Processes] /\ wire' \in [Requests -> Seq(SetModelCalls)]
        /\ \A s \in Requests : proc'[s].agent = proc[s].agent /\ proc'[s].asked = proc[s].asked
    BY <1>3, TakesModelTyped, NextTyped DEF Repicked, WrapperTypes
  <2>3. pc' \in [Requests -> Pcs] /\ LockHeld' /\ PicksKept'
    BY <1>3, <2>1, <2>2, Moves, Steps DEF Repicked
  <2>4. ProxyTypes'
    BY <1>3 DEF Repicked, ProxyTypes, announceVars, backendVars
  <2>5. TaskTypes' /\ WrapperTypes'
    BY <1>3, <2>2, <2>3 DEF Repicked, TaskTypes, WrapperTypes
  <2> QED BY <2>3, <2>4, <2>5
<1>4. CASE CallAnswered(r)
  <2>1. PICK step \in {"ok", "error"} : Goto(r, step)
    BY <1>4 DEF CallAnswered
  <2>2. pc' \in [Requests -> Pcs] /\ LockHeld' /\ PicksKept'
    BY <1>4, <2>1, Moves, Steps DEF CallAnswered, taskVars
  <2>3. ProxyTypes'
    BY <1>4 DEF CallAnswered, ProxyTypes, announceVars, backendVars
  <2>4. seen' \subseteq [agent : Agents \cup {None}, prefix : Agents \cup {None},
                        marked : BOOLEAN, bound : BOOLEAN]
    <3>1. seen' = seen \/ (Up(via[r]) /\ seen' = seen \cup {Frame(via[r])})
      BY <1>4 DEF CallAnswered
    <3> QED BY <3>1, FrameTyped DEF Up, WrapperTypes
  <2>5. TaskTypes' /\ WrapperTypes'
    BY <1>4, <2>2, <2>4 DEF CallAnswered, TaskTypes, WrapperTypes, taskVars
  <2> QED BY <2>2, <2>3, <2>5
<1>5. CASE CloseAnswered(r)
  <2>1. PICK step \in {"ok", "error", "reap", "reapError"} : Goto(r, step)
    BY <1>5 DEF CloseAnswered
  <2>2. r \in Tasks /\ (TeardownAtOnce \/ TeardownAwaits(r))
    BY <1>5 DEF CloseAnswered, Tasks
  <2>3. /\ proc' \in [Requests -> Processes]
        /\ \A s \in Requests : proc'[s].agent = proc[s].agent /\ proc'[s].asked = proc[s].asked
    BY <1>5, PoppedTyped DEF CloseAnswered, WrapperTypes
  <2>4. pc' \in [Requests -> Pcs] /\ LockHeld' /\ PicksKept'
    BY <1>5, <2>1, <2>3, Moves, Steps DEF CloseAnswered, taskVars
  <2>5. ProxyTypes'
    BY <1>5, <2>2, TeardownTyped DEF CloseAnswered, ProxyTypes, announceVars
  <2>6. TaskTypes' /\ WrapperTypes'
    BY <1>5, <2>2, <2>3, <2>4, TeardownTyped
       DEF CloseAnswered, TaskTypes, WrapperTypes, taskVars
  <2> QED BY <2>4, <2>5, <2>6
<1>6. CASE Closed(r)
  <2>1. PICK step \in {"ok", "error"} : Goto(r, step)
    BY <1>6 DEF Closed
  <2>2. EndReap(r) /\ r \in Tasks
    BY <1>6 DEF Closed, Tasks
  <2>3. pc' \in [Requests -> Pcs] /\ LockHeld' /\ PicksKept'
    BY <1>6, <2>1, Moves, Steps DEF Closed, taskVars
  <2>4. ProxyTypes'
    BY <1>6, <2>2, EndReapTyped DEF Closed, ProxyTypes, announceVars
  <2>5. TaskTypes' /\ WrapperTypes'
    BY <1>6, <2>2, <2>3, EndReapTyped DEF Closed, TaskTypes, WrapperTypes, taskVars
  <2> QED BY <2>3, <2>4, <2>5
<1> QED BY <1>1, <1>2, <1>3, <1>4, <1>5, <1>6

\* A wrapper process acts by itself.
LEMMA WrapperStep ==
  ASSUME IInv, NEW p \in Requests, SessionUpdate(p) \/ Crash(p) \/ Exit(p)
  PROVE  IInv'
<1> USE DEF IInv, TypeOK
<1>1. CASE SessionUpdate(p)
  <2>1. LockHeld' /\ PicksKept'
    BY <1>1 DEF SessionUpdate, LockHeld, PicksKept, PickKept, Binding
  <2>2. WrapperTypes'
    BY <1>1, FrameTyped DEF SessionUpdate, WrapperTypes
  <2>3. ProxyTypes' /\ TaskTypes'
    BY <1>1 DEF SessionUpdate, ProxyTypes, TaskTypes, announceVars, backendVars
  <2> QED BY <2>1, <2>2, <2>3
<1>2. CASE Crash(p) \/ Exit(p)
  <2>1. PICK st \in Statuses : proc' = [proc EXCEPT ![p].status = st]
    BY <1>2 DEF Crash, Exit, Becomes, Statuses
  <2>2. /\ proc' \in [Requests -> Processes]
        /\ \A s \in Requests : proc'[s].agent = proc[s].agent /\ proc'[s].asked = proc[s].asked
    <3>1. proc \in [Requests -> Processes]
      BY DEF WrapperTypes
    <3> QED BY <2>1, <3>1, StatusTyped
  <2>3. UNCHANGED <<announceVars, backendVars, boundAgent, lockQueue, call, pc, via,
                    wire, reaping, conn, seen>>
    BY <1>2 DEF Crash, Exit, Becomes
  <2>4. LockHeld' /\ PicksKept'
    BY <2>2, <2>3 DEF LockHeld, PicksKept, PickKept, Binding
  <2>5. ProxyTypes' /\ TaskTypes' /\ WrapperTypes'
    BY <2>2, <2>3 DEF ProxyTypes, TaskTypes, WrapperTypes, announceVars, backendVars
  <2> QED BY <2>4, <2>5
<1> QED BY <1>1, <1>2

\* The client leaves: the handlers are cancelled, or left alone.
LEMMA DisconnectStep == IInv /\ Disconnect => IInv'
<1> SUFFICES ASSUME IInv, Disconnect PROVE IInv'
    OBVIOUS
<1> USE DEF IInv, TypeOK
<1>1. OnStack(stack) \in SUBSET Requests /\ RunTask \in Tasks
  BY DEF OnStack, Tasks
<1>2. ProxyTypes'
  BY ResetTyped DEF Disconnect, ProxyTypes, announceVars, backendVars
<1>3. CASE CancelsInFlight
  <2>1. /\ pc' = [r \in Requests |-> IF Active(r) THEN "cancelled" ELSE pc[r]]
        /\ lockQueue' = <<>> /\ call' = call
        /\ reaping' = [t \in Tasks |-> IF t = RunTask THEN OnStack(stack) ELSE {}]
    BY <1>3 DEF Disconnect, taskVars
  <2>2. pc' \in [Requests -> Pcs]
    BY <2>1, Steps DEF TaskTypes
  <2>3. \A s \in Requests : pc'[s] \in Finals \cup {"idle"}
    BY <2>1 DEF Active, Finals
  <2>4. \A s \in Requests : ~Binding(s)' /\ pc'[s] # "lock"
    BY <2>3 DEF Binding, BindPcs, Finals
  <2>5. LockHeld' /\ PicksKept'
    BY <2>4 DEF LockHeld, PicksKept, PickKept
  <2> DEFINE procs == [p \in Requests |->
                         IF proc[p].status = "spawning"
                           THEN [proc[p] EXCEPT !.status = "dead"] ELSE proc[p]]
  <2>6. procs \in [Requests -> Processes]
    <3>1. \A p \in Requests :
             proc[p] \in Processes /\ [proc[p] EXCEPT !.status = "dead"] \in Processes
      BY DEF WrapperTypes, Processes, Statuses
    <3> QED BY <3>1
  <2>7. proc' = Popped(procs)
    BY <1>3 DEF Disconnect
  <2> HIDE DEF procs
  <2>8. proc' \in [Requests -> Processes]
    BY <2>6, <2>7, PoppedTyped
  <2>9. TaskTypes' /\ WrapperTypes'
    BY <1>1, <2>1, <2>2, <2>8 DEF Disconnect, TaskTypes, WrapperTypes, taskVars
  <2> QED BY <1>2, <2>5, <2>9
<1>4. CASE ~CancelsInFlight
  <2>1. /\ UNCHANGED <<pc, lockQueue, call>> /\ proc' = Popped(proc)
        /\ reaping' = [reaping EXCEPT ![RunTask] = OnStack(stack)]
    BY <1>4 DEF Disconnect, taskVars
  <2>2. /\ proc' \in [Requests -> Processes]
        /\ \A s \in Requests : proc'[s].agent = proc[s].agent /\ proc'[s].asked = proc[s].asked
    BY <2>1, PoppedTyped DEF WrapperTypes
  <2>3. LockHeld' /\ PicksKept'
    BY <2>1, <2>2 DEF LockHeld, PicksKept, PickKept, Binding
  <2>4. TaskTypes' /\ WrapperTypes'
    BY <1>1, <2>1, <2>2 DEF Disconnect, TaskTypes, WrapperTypes, taskVars
  <2> QED BY <1>2, <2>3, <2>4
<1> QED BY <1>3, <1>4

\* run has torn down the backend and returns.
LEMMA RunEndsStep == IInv /\ RunEnds => IInv'
<1> SUFFICES ASSUME IInv, RunEnds PROVE IInv'
    OBVIOUS
<1> USE DEF IInv, TypeOK
<1>1. EndReap(RunTask) /\ RunTask \in Tasks
  BY DEF RunEnds, Tasks
<1>2. ProxyTypes'
  BY <1>1, EndReapTyped DEF RunEnds, ProxyTypes, announceVars
<1>3. TaskTypes' /\ WrapperTypes'
  BY <1>1, EndReapTyped DEF RunEnds, TaskTypes, WrapperTypes
<1>4. LockHeld' /\ PicksKept'
  BY DEF RunEnds, LockHeld, PicksKept, PickKept, Binding
<1> QED BY <1>2, <1>3, <1>4

\* The inductive invariant is preserved by every step.
LEMMA StepIInv == IInv /\ [Next]_vars => IInv'
<1> SUFFICES ASSUME IInv, [Next]_vars PROVE IInv'
    OBVIOUS
<1>1. CASE \E r \in Requests : Request(r)
  BY <1>1, RequestStep
<1>2. CASE \E r \in Requests : Progress(r)
  BY <1>2, BindStep, AnswerStep DEF Progress
<1>3. CASE \E p \in Requests : SessionUpdate(p) \/ Crash(p) \/ Exit(p)
  BY <1>3, WrapperStep
<1>4. CASE Disconnect
  BY <1>4, DisconnectStep
<1>5. CASE RunEnds
  BY <1>5, RunEndsStep
<1>6. CASE UNCHANGED vars
  BY <1>6 DEF vars, IInv, TypeOK, ProxyTypes, TaskTypes, WrapperTypes, LockHeld,
              PicksKept, PickKept, Binding
<1> QED BY <1>1, <1>2, <1>3, <1>4, <1>5, <1>6 DEF Next

-----------------------------------------------------------------------------
\* The attributes of the proxy and its tasks always have their types.
THEOREM TypeCorrect == Spec => []TypeOK
<1>1. IInv => TypeOK
  BY DEF IInv
<1> QED BY <1>1, InitIInv, StepIInv, PTL DEF Spec

\* _bind runs for one handler at a time, whatever the client sends: picks,
\* prompts and closes in any order, wrappers that crash, a client that leaves.
THEOREM BindIsExclusive == Spec => []BindExclusive
<1>1. IInv => BindExclusive
  BY DEF IInv, LockHeld, BindExclusive
<1> QED BY <1>1, InitIInv, StepIInv, PTL DEF Spec

=============================================================================
