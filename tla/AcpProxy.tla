------------------------------ MODULE AcpProxy ------------------------------
(***************************************************************************)
(* One ACP client connection: the class ACPProxy of acp/proxy.py.          *)
(*                                                                         *)
(* Every frame of the client runs its handler in an asyncio task of its    *)
(* own, so the handlers interleave at each await and nowhere else.  An     *)
(* action below is the stretch of one task between two awaits; pc[r] names *)
(* the await at which the task of request r is parked.                     *)
(*                                                                         *)
(* Requests are numbered in the order in which the client sends them.  A   *)
(* request binds at most once, so the wrapper process that request r       *)
(* spawns is identified with r.                                            *)
(***************************************************************************)
EXTENDS Integers, Sequences, FiniteSets

CONSTANTS
    MaxRequests,     \* how many requests the client sends on the connection
    Agents,          \* agent ids
    Models,          \* model ids, as one backend names them
    Rosters,         \* the id lists list_available_agents may answer
    Ops,             \* the kinds of request this client uses
    Selectors,       \* how a wrapper may mark its model selector
    CancelsInFlight, \* does the SDK cancel handlers when the client leaves?
    None             \* Python's None

Requests == 1 .. MaxRequests
Picks    == [agent : Agents, model : Models]      \* a namespaced agent:model id
AllOps   == {"new", "pick", "option", "prompt", "forward", "close"}

\* A pick carries the chosen id; None is an id that lacks one of its halves.
Calls == [op : Ops \ {"pick"}, pick : {None}]
         \cup [op : Ops \cap {"pick"}, pick : Picks \cup {None}]

ASSUME RequestsAssumption == MaxRequests \in Nat \ {0}
ASSUME OpsAssumption      == Ops \subseteq AllOps
ASSUME SelectorAssumption == Selectors \subseteq {"none", "category", "id"}
ASSUME CancelAssumption   == CancelsInFlight \in BOOLEAN
ASSUME RosterAssumption   == Rosters \subseteq Seq(Picks)
ASSUME NoneAssumption     == None \notin Agents \cup Models \cup Picks \cup Requests

VARIABLES
    announced,   \* _session_announced
    aggregated,  \* _aggregated_models; its head is _default_namespaced
    backend,     \* _backend: the process the proxy forwards to
    session,     \* _backend_session_id: the process that issued it
    modelConfig, \* _backend_model_config_id: the process whose option it is
    boundAgent,  \* _bound_agent
    stack,       \* which AsyncExitStack object _backend_stack currently is
    lockQueue,   \* _bind_lock: its holder, then its waiters in FIFO order
    call,        \* call[r]: what request r asks for
    pc,          \* pc[r]: the await where the handler of r is parked
    via,         \* via[r]: the process whose answer r is waiting for
    proc,        \* proc[p]: the wrapper process spawned for request p
    wire,        \* wire[p]: set-model calls p received and has not answered
    reaping,     \* reaping[t]: the processes task t waits for in aclose
    conn,        \* the client connection: open, closing (run's finally), closed
    seen         \* frames with model ids the client got: whose, with which prefix

announceVars == <<announced, aggregated>>
backendVars  == <<backend, session, modelConfig, stack>>
taskVars     == <<call, via, wire>>
vars == <<announced, aggregated, backend, session, modelConfig, boundAgent,
          stack, lockQueue, call, pc, via, proc, wire, reaping, conn, seen>>

RunTask == 0                      \* ACPProxy.run, which tears down on its way out
Tasks   == Requests \cup {RunTask}

Finals  == {"ok", "error", "cancelled"}
BindPcs == {"spawn", "init", "new", "model", "unwind"}
Pcs     == {"idle", "roster", "lock", "repick", "call", "close", "reap", "reapError"}
           \cup BindPcs \cup Finals

Unspawned == [status |-> "unused", stack |-> 0, agent |-> None,
              asked |-> None, model |-> None, selector |-> None]

Init ==
    /\ announced = FALSE /\ aggregated = <<>>
    /\ backend = None /\ session = None /\ modelConfig = None
    /\ boundAgent = None /\ stack = 0 /\ lockQueue = <<>>
    /\ call = [r \in Requests |-> [op |-> None, pick |-> None]]
    /\ pc = [r \in Requests |-> "idle"]
    /\ via = [r \in Requests |-> None]
    /\ proc = [p \in Requests |-> Unspawned]
    /\ wire = [p \in Requests |-> <<>>]
    /\ reaping = [t \in Tasks |-> {}]
    /\ conn = "open" /\ seen = {}

Active(r)    == pc[r] \notin Finals \cup {"idle"}
Binding(r)   == pc[r] \in BindPcs                  \* r holds _bind_lock
Up(p)        == p \in Requests /\ proc[p].status = "up"
RequireBound == backend # None /\ session # None
Goto(r, step) == pc' = [pc EXCEPT ![r] = step]

-----------------------------------------------------------------------------
(* Frames with model ids that reach the client.  The update is stamped with *)
(* whatever agent the proxy believes bound, and only when the wrapper marks *)
(* its selector by category.                                               *)

ShowsModels(p) == proc[p].selector \in {"category", "id"}
\* Bug: frames are stamped with the default agent instead of the bound one.
FrameOfDefault(p) ==
    [agent  |-> proc[p].agent,
     prefix |-> IF boundAgent # None /\ aggregated # <<>> THEN Head(aggregated).agent
                  ELSE boundAgent,
     marked |-> proc[p].selector = "category", bound |-> boundAgent # None]

Frame(p) ==
    [agent  |-> proc[p].agent,
     prefix |-> IF boundAgent # None /\ proc[p].selector = "category"
                  THEN boundAgent ELSE None,
     marked |-> proc[p].selector = "category",   \* for the properties only
     bound  |-> boundAgent # None]

-----------------------------------------------------------------------------
(* Tearing the backend down: pop what the current exit stack holds, wait    *)
(* for it to exit, then reset.  Nothing serialises two teardowns.           *)

OnStack(k) == {p \in Requests : /\ proc[p].stack = k
                                /\ proc[p].status \in {"up", "crashed"}}

\* Bug: the reset leaves no exit stack behind.
ResetWithoutStack ==
    /\ stack' = None
    /\ backend' = None /\ session' = None /\ modelConfig' = None

ResetBackend ==
    /\ stack' = stack + 1
    /\ backend' = None /\ session' = None /\ modelConfig' = None

\* aclose finds nothing to wait for: the reset follows without an await.
TeardownAtOnce ==
    /\ OnStack(stack) = {}
    /\ ResetBackend
    /\ UNCHANGED reaping

\* aclose pops every process of the stack and parks until they have exited.
TeardownAwaits(t) ==
    /\ OnStack(stack) # {}
    /\ reaping' = [reaping EXCEPT ![t] = OnStack(stack)]
    /\ UNCHANGED backendVars

Popped(procs) ==
    [p \in Requests |-> IF p \in OnStack(stack)
                          THEN [procs[p] EXCEPT !.status = "closing"]
                          ELSE procs[p]]

Reaped(t) == reaping[t] # {} /\ \A p \in reaping[t] : proc[p].status = "dead"
EndReap(t) == ResetBackend /\ reaping' = [reaping EXCEPT ![t] = {}]
-----------------------------------------------------------------------------
(* The pieces the handlers share.                                           *)

\* A request the client sends while it is connected, after those before it.
Arrives(r, op, pick) ==
    /\ op \in Ops /\ conn = "open"
    /\ pc[r] = "idle" /\ \A s \in 1 .. (r - 1) : pc[s] # "idle"
    /\ call' = [call EXCEPT ![r] = [op |-> op, pick |-> pick]]

\* The handler of r answers, or fails, before it touches anything.
AnswersAtOnce(r, outcome) ==
    /\ Goto(r, outcome)
    /\ UNCHANGED <<lockQueue, via, proc, wire>>

\* Send a call to the bound backend and wait for its answer.
Forward(r) ==
    \/ RequireBound /\ Goto(r, "call") /\ via' = [via EXCEPT ![r] = backend]
    \/ ~RequireBound /\ Goto(r, "error") /\ UNCHANGED via

\* async with _bind_lock: run the locked part now, or queue behind the holder.
WaitsForLock(r) ==
    /\ lockQueue # <<>>
    /\ lockQueue' = Append(lockQueue, r)
    /\ Goto(r, "lock")
    /\ UNCHANGED <<via, proc, wire>>

\* _bind up to its first await.  The exit stack is looked up before the await.
StartBind(r, pick, waiters) ==
    /\ lockQueue' = <<r>> \o waiters
    /\ proc' = [proc EXCEPT ![r] =
                  [status |-> "spawning", stack |-> stack, agent |-> pick.agent,
                   asked |-> pick.model, model |-> None, selector |-> None]]
    /\ Goto(r, "spawn")
    /\ UNCHANGED <<via, wire>>

SendModel(r, model) ==
    /\ via'  = [via EXCEPT ![r] = backend]
    /\ wire' = [wire EXCEPT ![backend] = Append(@, [req |-> r, model |-> model])]

\* Bug: a re-pick is acknowledged without telling the backend.
RepickNotSent(r, model) == Goto(r, "ok") /\ UNCHANGED <<via, wire>>

\* _set_backend_model of a re-pick.
SetBackendModel(r, model) ==
    \/ modelConfig = None /\ Goto(r, "ok") /\ UNCHANGED <<via, wire>>
    \/ modelConfig # None /\ ~RequireBound /\ Goto(r, "error") /\ UNCHANGED <<via, wire>>
    \/ modelConfig # None /\ RequireBound /\ Goto(r, "repick") /\ SendModel(r, model)

\* Bug: a pick of another agent binds again.
SelectModelSwitches(r, pick, waiters) ==
    \/ boundAgent # pick.agent /\ StartBind(r, pick, waiters)
    \/ /\ boundAgent = pick.agent
       /\ lockQueue' = waiters /\ SetBackendModel(r, pick.model)
       /\ UNCHANGED proc

\* The locked part of _select_model; waiters get the lock when r lets go of it.
SelectModel(r, pick, waiters) ==
    \/ boundAgent = None /\ StartBind(r, pick, waiters)
    \/ /\ boundAgent \notin {None, pick.agent}
       /\ lockQueue' = waiters /\ Goto(r, "error")
       /\ UNCHANGED <<via, proc, wire>>
    \/ /\ boundAgent = pick.agent
       /\ lockQueue' = waiters /\ SetBackendModel(r, pick.model)
       /\ UNCHANGED proc

\* The locked part of _ensure_bound_for_default, and the rest of prompt.
EnsureBoundForDefault(r, waiters) ==
    \/ /\ backend # None
       /\ lockQueue' = waiters /\ Forward(r)
       /\ UNCHANGED <<proc, wire>>
    \/ /\ backend = None /\ aggregated = <<>>
       /\ lockQueue' = waiters /\ Goto(r, "error")
       /\ UNCHANGED <<via, proc, wire>>
    \/ /\ backend = None /\ aggregated # <<>>
       /\ StartBind(r, Head(aggregated), waiters)

-----------------------------------------------------------------------------
(* Requests of the client.                                                  *)

NewSession(r) ==
    /\ Arrives(r, "new", None)
    /\ IF announced THEN Goto(r, "error") ELSE Goto(r, "roster")
    /\ announced' = TRUE
    /\ UNCHANGED <<aggregated, backendVars, boundAgent, lockQueue, via, proc, wire,
                   reaping, conn, seen>>

\* list_available_agents answers, or raises: the session stays announced.
SessionListed(r) ==
    /\ pc[r] = "roster"
    /\ \/ Goto(r, "ok") /\ aggregated' \in Rosters
       \/ Goto(r, "error") /\ UNCHANGED aggregated
    /\ UNCHANGED <<announced, backendVars, boundAgent, lockQueue, taskVars, proc,
                   reaping, conn, seen>>

\* Bug: a pick decides without taking the lock.
PickWithoutLock(r) ==
    /\ \E pick \in Picks :
          /\ Arrives(r, "pick", pick)
          /\ \/ ~announced /\ AnswersAtOnce(r, "error")
             \/ announced /\ SelectModel(r, pick, lockQueue)
    /\ UNCHANGED <<announceVars, backendVars, boundAgent, reaping, conn, seen>>

PickModel(r) ==
    /\ \E pick \in Picks \cup {None} :
          /\ Arrives(r, "pick", pick)
          /\ \/ (~announced \/ pick = None) /\ AnswersAtOnce(r, "error")
             \/ announced /\ pick # None /\ WaitsForLock(r)
             \/ /\ announced /\ pick # None /\ lockQueue = <<>>
                /\ SelectModel(r, pick, <<>>)
    /\ UNCHANGED <<announceVars, backendVars, boundAgent, reaping, conn, seen>>

\* Bug: a prompt checks for a backend without taking the lock.
PromptWithoutLock(r) ==
    /\ Arrives(r, "prompt", None)
    /\ \/ ~announced /\ AnswersAtOnce(r, "error")
       \/ announced /\ EnsureBoundForDefault(r, lockQueue)
    /\ UNCHANGED <<announceVars, backendVars, boundAgent, reaping, conn, seen>>

Prompt(r) ==
    /\ Arrives(r, "prompt", None)
    /\ \/ ~announced /\ AnswersAtOnce(r, "error")
       \/ announced /\ WaitsForLock(r)
       \/ announced /\ lockQueue = <<>> /\ EnsureBoundForDefault(r, <<>>)
    /\ UNCHANGED <<announceVars, backendVars, boundAgent, reaping, conn, seen>>

\* A config option that is not the model, or any of the forward-only methods.
ForwardOnly(r) ==
    /\ \E op \in {"option", "forward"} : Arrives(r, op, None)
    /\ IF announced THEN Forward(r) ELSE Goto(r, "error") /\ UNCHANGED via
    /\ UNCHANGED <<announceVars, backendVars, boundAgent, lockQueue, proc, wire,
                   reaping, conn, seen>>

CloseSession(r) ==
    /\ Arrives(r, "close", None)
    /\ \/ ~announced /\ Goto(r, "error") /\ UNCHANGED via
       \/ announced /\ ~RequireBound /\ Goto(r, "ok") /\ UNCHANGED via
       \/ /\ announced /\ RequireBound
          /\ Goto(r, "close") /\ via' = [via EXCEPT ![r] = backend]
    /\ UNCHANGED <<announceVars, backendVars, boundAgent, lockQueue, proc, wire,
                   reaping, conn, seen>>

\* The lock is handed to the waiter at the head of the queue.
Acquire(r) ==
    /\ pc[r] = "lock" /\ lockQueue # <<>> /\ Head(lockQueue) = r
    /\ \/ call[r].op = "pick" /\ SelectModel(r, call[r].pick, Tail(lockQueue))
       \/ call[r].op = "prompt" /\ EnsureBoundForDefault(r, Tail(lockQueue))
    /\ UNCHANGED <<announceVars, backendVars, boundAgent, call, reaping, conn, seen>>

-----------------------------------------------------------------------------
(* _bind, from the spawn to the last answer of the handshake.               *)

\* Bugs: a failing bind lets the next handler in while it still tears down, or
\* forgets the process on the exit stack.
BindFailsUnlocked(r, procs) ==
    /\ proc' = Popped(procs)
    /\ lockQueue' = Tail(lockQueue)
    /\ \/ TeardownAtOnce /\ Goto(r, "error")
       \/ TeardownAwaits(r) /\ Goto(r, "unwind")
BindFailsForgets(r, procs) ==
    /\ proc' = procs /\ ResetBackend
    /\ Goto(r, "error") /\ lockQueue' = Tail(lockQueue)
    /\ UNCHANGED reaping

\* except Exception: tear down, still holding the lock, and report the error.
BindFails(r, procs) ==
    /\ proc' = Popped(procs)
    /\ \/ TeardownAtOnce /\ Goto(r, "error") /\ lockQueue' = Tail(lockQueue)
       \/ TeardownAwaits(r) /\ Goto(r, "unwind") /\ UNCHANGED lockQueue

\* _bound_agent is set, the lock released, and the caller goes on.
BindSucceeds(r) ==
    /\ boundAgent' = proc[r].agent
    /\ lockQueue' = Tail(lockQueue)
    /\ \/ call[r].op = "pick" /\ Goto(r, "ok") /\ UNCHANGED via
       \/ /\ call[r].op = "prompt" /\ backend # None /\ session' # None
          /\ Goto(r, "call") /\ via' = [via EXCEPT ![r] = backend]
       \/ /\ call[r].op = "prompt" /\ (backend = None \/ session' = None)
          /\ Goto(r, "error") /\ UNCHANGED via

Spawned(r) ==
    /\ pc[r] = "spawn"
    /\ proc' = [proc EXCEPT ![r].status = "up"]
    /\ backend' = r
    /\ via' = [via EXCEPT ![r] = r]
    /\ Goto(r, "init")
    /\ UNCHANGED <<announceVars, session, modelConfig, stack, boundAgent, lockQueue,
                   call, wire, reaping, conn, seen>>

SpawnFails(r) ==
    /\ pc[r] = "spawn"
    /\ BindFails(r, [proc EXCEPT ![r].status = "dead"])
    /\ UNCHANGED <<announceVars, boundAgent, taskVars, conn, seen>>

Initialized(r) ==
    /\ pc[r] = "init" /\ Up(r)
    /\ Goto(r, "new")
    /\ UNCHANGED <<announceVars, backendVars, boundAgent, lockQueue, taskVars, proc,
                   reaping, conn, seen>>

\* The backend's session/new reply, with its model selector if it has one.
SessionOpened(r) ==
    /\ pc[r] = "new" /\ Up(r)
    /\ \E selector \in Selectors :
          LET opened == [proc EXCEPT ![r].selector = selector] IN
          \/ /\ selector = "none"
             /\ session' = r /\ modelConfig' = None
             /\ proc' = opened
             /\ BindSucceeds(r)
             /\ UNCHANGED <<backend, stack, wire, reaping>>
          \/ /\ selector # "none" /\ backend # None
             /\ session' = r /\ modelConfig' = r
             /\ proc' = opened
             /\ SendModel(r, proc[r].asked) /\ Goto(r, "model")
             /\ UNCHANGED <<backend, stack, boundAgent, lockQueue, reaping>>
          \* A close_session has reset the proxy meanwhile: _require_bound raises.
          \/ /\ selector # "none" /\ backend = None
             /\ BindFails(r, opened)
             /\ UNCHANGED <<boundAgent, via, wire>>
    /\ UNCHANGED <<announceVars, call, conn, seen>>

\* The set-model call of r is the next one its process takes up.
NextOnWire(r) ==
    Up(via[r]) /\ wire[via[r]] # <<>> /\ Head(wire[via[r]]).req = r

\* A call of the handshake is refused, or the wrapper is gone.
HandshakeFails(r) ==
    /\ pc[r] \in {"init", "new", "model"}
    /\ \/ /\ pc[r] = "model" /\ NextOnWire(r)
          /\ wire' = [wire EXCEPT ![via[r]] = Tail(@)]
       \/ (pc[r] # "model" \/ ~Up(via[r])) /\ UNCHANGED wire
    /\ BindFails(r, proc)
    /\ UNCHANGED <<announceVars, boundAgent, call, via, conn, seen>>

\* The process at the other end of via[r] switches to the model r asks for.
TakesModel(r) ==
    /\ NextOnWire(r)
    /\ proc' = [proc EXCEPT ![via[r]].model = Head(wire[via[r]]).model]
    /\ wire' = [wire EXCEPT ![via[r]] = Tail(@)]

ModelSet(r) ==
    /\ pc[r] = "model" /\ TakesModel(r)
    /\ UNCHANGED session /\ BindSucceeds(r)
    /\ UNCHANGED <<announceVars, backend, modelConfig, stack, call, reaping, conn, seen>>

\* Bug: a failed bind keeps the lock.
UnwoundLocked(r) ==
    /\ pc[r] = "unwind" /\ Reaped(r) /\ EndReap(r)
    /\ Goto(r, "error")
    /\ UNCHANGED <<announceVars, boundAgent, lockQueue, taskVars, proc, conn, seen>>

Unwound(r) ==
    /\ pc[r] = "unwind" /\ Reaped(r) /\ EndReap(r)
    /\ Goto(r, "error") /\ lockQueue' = Tail(lockQueue)
    /\ UNCHANGED <<announceVars, boundAgent, taskVars, proc, conn, seen>>

-----------------------------------------------------------------------------
(* Answers of the bound backend.                                            *)

Repicked(r) ==
    /\ pc[r] = "repick"
    /\ \/ TakesModel(r) /\ Goto(r, "ok")
       \/ /\ NextOnWire(r)
          /\ wire' = [wire EXCEPT ![via[r]] = Tail(@)]
          /\ Goto(r, "error") /\ UNCHANGED proc
       \/ ~Up(via[r]) /\ Goto(r, "error") /\ UNCHANGED <<proc, wire>>
    /\ UNCHANGED <<announceVars, backendVars, boundAgent, lockQueue, call, via,
                   reaping, conn, seen>>

\* The answer to a config option lists every option, the model among them.
CallAnswered(r) ==
    /\ pc[r] = "call"
    /\ \/ /\ Up(via[r]) /\ Goto(r, "ok")
          /\ seen' = IF call[r].op = "option" /\ conn = "open" /\ ShowsModels(via[r])
                       THEN seen \cup {Frame(via[r])} ELSE seen
       \/ Goto(r, "error") /\ UNCHANGED seen
    /\ UNCHANGED <<announceVars, backendVars, boundAgent, lockQueue, taskVars, proc,
                   reaping, conn>>

\* close_session is answered or fails; either way the wrapper is torn down.
CloseAnswered(r) ==
    /\ pc[r] = "close"
    /\ \E failed \in BOOLEAN :
          /\ failed \/ Up(via[r])
          /\ \/ TeardownAtOnce /\ Goto(r, IF failed THEN "error" ELSE "ok")
             \/ TeardownAwaits(r) /\ Goto(r, IF failed THEN "reapError" ELSE "reap")
    /\ proc' = Popped(proc)
    /\ UNCHANGED <<announceVars, boundAgent, lockQueue, taskVars, conn, seen>>

Closed(r) ==
    /\ pc[r] \in {"reap", "reapError"} /\ Reaped(r) /\ EndReap(r)
    /\ Goto(r, IF pc[r] = "reap" THEN "ok" ELSE "error")
    /\ UNCHANGED <<announceVars, boundAgent, lockQueue, taskVars, proc, conn, seen>>

\* config_option_update: a wrapper may send one whenever its session is open.
SessionUpdate(p) ==
    /\ Up(p) /\ conn = "open" /\ ShowsModels(p)
    /\ seen' = seen \cup {Frame(p)}
    /\ UNCHANGED <<announceVars, backendVars, boundAgent, lockQueue, call, pc, via,
                   proc, wire, reaping, conn>>

-----------------------------------------------------------------------------
(* Processes that die or exit, and the end of the connection.               *)

Becomes(p, old, new) ==
    /\ proc[p].status = old
    /\ proc' = [proc EXCEPT ![p].status = new]
    /\ UNCHANGED <<announceVars, backendVars, boundAgent, lockQueue, call, pc, via,
                   wire, reaping, conn, seen>>

Crash(p) == Becomes(p, "up", "crashed")
Exit(p)  == Becomes(p, "closing", "dead")

\* listen returns and run tears down.  What becomes of the handlers still
\* running is the SDK's choice: left alone, or cancelled, which gives back the
\* lock and stops a spawn half way, without running any except Exception.
Disconnect ==
    /\ conn = "open"
    /\ IF CancelsInFlight
         THEN /\ pc' = [r \in Requests |-> IF Active(r) THEN "cancelled" ELSE pc[r]]
              /\ lockQueue' = <<>>
              /\ proc' = Popped([p \in Requests |->
                                   IF proc[p].status = "spawning"
                                     THEN [proc[p] EXCEPT !.status = "dead"] ELSE proc[p]])
              /\ reaping' = [t \in Tasks |-> IF t = RunTask THEN OnStack(stack) ELSE {}]
         ELSE /\ UNCHANGED <<pc, lockQueue>>
              /\ proc' = Popped(proc)
              /\ reaping' = [reaping EXCEPT ![RunTask] = OnStack(stack)]
    /\ IF OnStack(stack) = {}
         THEN conn' = "closed" /\ ResetBackend
         ELSE conn' = "closing" /\ UNCHANGED backendVars
    /\ UNCHANGED <<announceVars, boundAgent, taskVars, seen>>

RunEnds ==
    /\ conn = "closing" /\ Reaped(RunTask) /\ EndReap(RunTask)
    /\ conn' = "closed"
    /\ UNCHANGED <<announceVars, boundAgent, lockQueue, call, pc, via, proc, wire, seen>>

-----------------------------------------------------------------------------
Request(r) == \/ NewSession(r) \/ PickModel(r) \/ Prompt(r)
              \/ ForwardOnly(r) \/ CloseSession(r)

\* What moves the handler of r from one await to the next.
Progress(r) == \/ SessionListed(r) \/ Acquire(r)
               \/ Spawned(r) \/ SpawnFails(r) \/ Initialized(r) \/ SessionOpened(r)
               \/ HandshakeFails(r) \/ ModelSet(r) \/ Unwound(r)
               \/ Repicked(r) \/ CallAnswered(r) \/ CloseAnswered(r) \/ Closed(r)

Next == \/ \E r \in Requests : Request(r) \/ Progress(r)
        \/ \E p \in Requests : SessionUpdate(p) \/ Crash(p) \/ Exit(p)
        \/ Disconnect \/ RunEnds

Spec == Init /\ [][Next]_vars

\* The event loop resumes every task whose await is over, a live backend
\* answers each call or refuses it, and a process told to exit does.
Fairness == /\ \A r \in Requests : WF_vars(Progress(r)) /\ WF_vars(Exit(r))
            /\ WF_vars(RunEnds)
FairSpec == Spec /\ Fairness
-----------------------------------------------------------------------------
(* Properties.                                                              *)

Statuses == {"unused", "spawning", "up", "crashed", "closing", "dead"}
Processes ==
    [status : Statuses, stack : Nat, agent : Agents \cup {None},
     asked : Models \cup {None}, model : Models \cup {None},
     selector : Selectors \cup {None}]

SetModelCalls == [req : Requests, model : Models]

ProxyTypes ==
    /\ announced \in BOOLEAN
    /\ aggregated \in Rosters \cup {<<>>}
    /\ backend \in Requests \cup {None}
    /\ session \in Requests \cup {None}
    /\ modelConfig \in Requests \cup {None}
    /\ boundAgent \in Agents \cup {None}
    /\ stack \in Nat
    /\ conn \in {"open", "closing", "closed"}

TaskTypes ==
    /\ lockQueue \in Seq(Requests)
    /\ call \in [Requests -> [op : Ops \cup {None}, pick : Picks \cup {None}]]
    /\ pc \in [Requests -> Pcs]
    /\ via \in [Requests -> Requests \cup {None}]
    /\ reaping \in [Tasks -> SUBSET Requests]

WrapperTypes ==
    /\ proc \in [Requests -> Processes]
    /\ wire \in [Requests -> Seq(SetModelCalls)]
    /\ seen \subseteq [agent : Agents \cup {None}, prefix : Agents \cup {None},
                       marked : BOOLEAN, bound : BOOLEAN]

\* The attributes of ACPProxy, its tasks and its processes have their types.
TypeOK == ProxyTypes /\ TaskTypes /\ WrapperTypes

\* _bind, proxy.py:618-620: a racing prompt and set_config_option collapse to
\* one bind.  No two handlers are ever between the spawn and its outcome.
BindExclusive == \A r, s \in Requests : Binding(r) /\ Binding(s) => r = s

\* One backend per connection, proxy.py:403: while the client is connected at
\* most one wrapper runs, failed binds and their retries included.
OneLiveBackend ==
    conn = "open" =>
      \A p, q \in Requests :
        proc[p].status \in {"spawning", "up", "closing"} /\
        proc[q].status \in {"spawning", "up", "closing"} => p = q

\* run, proxy.py:209-210: the backend is always torn down on exit.  When the
\* connection is over no wrapper is left behind, however it ended.
NothingLeftBehind ==
    conn = "closed" =>
      \A p \in Requests : proc[p].status \notin {"spawning", "up", "crashed"}

\* _teardown_backend, proxy.py:652-665: when the exit stack is replaced, no
\* wrapper that was pushed on the replaced one, or is about to be, still runs
\* unnoticed: each is over, or has been told to exit.  Only where nobody closes
\* the session: a close_session resets while others bind (NothingLeftBehind).
ResetLosesNothing ==
    [][stack' # stack =>
         \A p \in Requests :
           proc'[p].stack = stack =>
             proc'[p].status \notin {"spawning", "up", "crashed"}]_vars

\* The agent that frames are attributed to is the agent of the process that
\* requests go to, whenever a connected client has both.
ForwardsToBoundAgent ==
    conn = "open" /\ backend # None /\ boundAgent # None
      => proc[backend].agent = boundAgent

\* A frame shown while an agent is bound carries the prefix of the agent it
\* came from, provided the wrapper marks its model selector by category.
BoundFramesNamespaced ==
    \A f \in seen : f.bound /\ f.marked => f.prefix = f.agent

\* When nothing is in flight the live backend runs the model of the last pick
\* that was acknowledged, whatever binds, re-picks and failures raced.
AckedPick(r) == call[r].op = "pick" /\ pc[r] = "ok"
LastPickWins ==
    \A r \in Requests :
      /\ \A s \in Requests : ~Active(s) /\ (AckedPick(s) => s <= r)
      /\ AckedPick(r) /\ backend # None /\ ShowsModels(backend)
      => proc[backend].model = call[r].pick.model

\* v1 has no cross-agent switches, proxy.py:45-46: once a connection has an
\* agent, it has that agent for good.
AgentNeverSwitches == [][boundAgent # None => boundAgent' = boundAgent]_vars

\* Every request the client sends is answered, or cancelled with the
\* connection: no await of the proxy waits for ever, the bind lock included.
EveryRequestAnswered ==
    \A r \in Requests : Active(r) ~> pc[r] \in Finals
-----------------------------------------------------------------------------
(* The binding contract.                                                    *)

Binder == IF \E r \in Requests : Binding(r)
            THEN CHOOSE r \in Requests : Binding(r) ELSE None

Contract == INSTANCE AcpBinding
              WITH Handlers <- Requests, agent <- boundAgent, binder <- Binder,
                   target <- IF Binder = None THEN None ELSE proc[Binder].agent

\* The proxy, as long as nobody closes the session, implements the binding
\* contract: handlers racing through _select_model, prompt, failed binds and
\* disconnects step from unbound to binding to bound and nowhere else.
ImplementsBinding == Contract!Spec

=============================================================================
