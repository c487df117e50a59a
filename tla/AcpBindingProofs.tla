--------------------------- MODULE AcpBindingProofs ---------------------------
(***************************************************************************)
(* Proofs about the connections of AcpProxy on which nobody closes the     *)
(* session and the SDK cancels the handlers of a client that has left: one *)
(* agent, one wrapper at a time, none forgotten, none left at the end, and *)
(* the binding contract of AcpBinding.                                     *)
(***************************************************************************)
EXTENDS AcpProxyProofs

\* What the theorems below assume of the connection.
Single == "close" \notin Ops /\ CancelsInFlight

Handshake == {"init", "new", "model"}
OverPcs   == {"unused", "dead"}

\* The handler that binds and its wrapper.
Place(r) ==
    /\ Binding(r) => proc[r].stack = stack /\ boundAgent = None
    /\ pc[r] = "spawn" => proc[r].status = "spawning" /\ backend = None
    /\ pc[r] \in Handshake => proc[r].status \in {"up", "crashed"} /\ backend = r
    /\ pc[r] = "unwind" => \/ proc[r].status = "dead"
                           \/ proc[r].status = "closing" /\ r \in reaping[r]

\* A wrapper that is not over is being bound, or is the bound one.
Kept(p) ==
    proc[p].status \notin OverPcs =>
        \/ Binding(p)
        \/ /\ backend = p /\ boundAgent # None
           /\ proc[p].status \in {"up", "crashed"} /\ proc[p].stack = stack

NoneCloses == \A r \in Requests : pc[r] \notin {"close", "reap", "reapError"}
Left ==
    conn # "open" =>
        \A r \in Requests : ~Active(r) /\ proc[r].status \in OverPcs \cup {"closing"}
Bound ==
    conn = "open" =>
        /\ \A r \in Requests : Place(r) /\ Kept(r)
        /\ boundAgent # None => backend # None /\ proc[backend].agent = boundAgent
        /\ backend # None => Binding(backend) \/ boundAgent # None

Settled == NoneCloses /\ Left /\ Bound

-----------------------------------------------------------------------------
(* What a handler may rely on.                                              *)

\* The types that the steps below need, by name.
LEMMA Types ==
  ASSUME IInv
  PROVE  /\ pc \in [Requests -> Pcs] /\ proc \in [Requests -> Processes]
         /\ backend \in Requests \cup {None} /\ boundAgent \in Agents \cup {None}
         /\ stack \in Nat /\ reaping \in [Tasks -> SUBSET Requests]
         /\ None \notin Requests /\ None \notin Agents
         /\ \A r \in Requests : r \in Tasks
BY NoneAssumption DEF IInv, TypeOK, ProxyTypes, TaskTypes, WrapperTypes, Tasks

\* One handler binds at a time.
LEMMA Unique ==
  ASSUME IInv, NEW r \in Requests, NEW s \in Requests, Binding(r), Binding(s)
  PROVE  r = s
BY DEF IInv, LockHeld

\* A handler that runs has a connected client.
LEMMA ActiveOpen ==
  ASSUME Settled, NEW r \in Requests, Active(r)
  PROVE  conn = "open"
BY DEF Settled, Left

\* While a handler binds no other wrapper is left, and the proxy has no agent.
LEMMA Alone ==
  ASSUME IInv, Settled, NEW r \in Requests, Binding(r)
  PROVE  /\ conn = "open" /\ Place(r) /\ boundAgent = None /\ backend \in {None, r}
         /\ proc[r].stack = stack
         /\ \A p \in Requests \ {r} : proc[p].status \in OverPcs /\ ~Binding(p)
<1>1. conn = "open"
  BY ActiveOpen DEF Binding, BindPcs, Active, Finals
<1>2. Place(r) /\ boundAgent = None /\ proc[r].stack = stack
  BY <1>1 DEF Settled, Bound, Place
<1>3. backend \in {None, r}
  BY <1>1, <1>2, Unique, Types DEF Settled, Bound
<1>4. \A p \in Requests \ {r} : proc[p].status \in OverPcs /\ ~Binding(p)
  BY <1>1, <1>2, Unique DEF Settled, Bound, Kept
<1> QED BY <1>1, <1>2, <1>3, <1>4

\* Before the first bind, and after one that failed, there is no wrapper.
LEMMA Vacant ==
  ASSUME IInv, Settled, conn = "open", boundAgent = None, \A s \in Requests : ~Binding(s)
  PROVE  backend = None /\ \A p \in Requests : proc[p].status \in OverPcs
BY Types DEF Settled, Bound, Kept

\* Without a backend a connected client has no agent either.
LEMMA Unbound ==
  ASSUME Settled, conn = "open", backend = None
  PROVE  boundAgent = None
BY DEF Settled, Bound

-----------------------------------------------------------------------------
(* The steps.                                                               *)

\* How a step of the connection looks to the binding contract.
Keeps == /\ boundAgent' = boundAgent
         /\ \A s \in Requests : Binding(s)' <=> Binding(s)
         /\ \A s \in Requests : Binding(s) => proc'[s].agent = proc[s].agent
Starts(r) == /\ \A s \in Requests : ~Binding(s)
             /\ \A s \in Requests : Binding(s)' <=> s = r
             /\ boundAgent = None /\ boundAgent' = None /\ proc'[r].agent \in Agents
Ends(r)   == /\ Binding(r) /\ \A s \in Requests : ~Binding(s)'
             /\ boundAgent' \in {boundAgent, proc[r].agent}
Follows   == Keeps \/ \E r \in Requests : Starts(r) \/ Ends(r)

Alike == \A p \in Requests : /\ proc'[p].status = proc[p].status
                             /\ proc'[p].stack = proc[p].stack
                             /\ proc'[p].agent = proc[p].agent

\* A handler moves outside a bind.
LEMMA MovesSettled ==
  ASSUME IInv, Settled, NEW r \in Requests, conn = "open", ~Binding(r),
         NEW step \in Pcs, step \notin BindPcs \cup {"close", "reap", "reapError"},
         Goto(r, step), Alike, UNCHANGED <<backend, boundAgent, stack, reaping, conn>>
  PROVE  Settled' /\ Follows
<1>1. pc'[r] = step /\ \A s \in Requests : s # r => pc'[s] = pc[s]
  BY Types DEF Goto
<1>2. \A s \in Requests : Binding(s)' = Binding(s)
  BY <1>1 DEF Binding
<1>3. NoneCloses'
  BY <1>1 DEF Settled, NoneCloses
<1>4. \A s \in Requests : Place(s)'
  <2>1. Place(r)'
    BY <1>1 DEF Place, Binding, BindPcs, Handshake
  <2>2. \A s \in Requests : s # r => Place(s)'
    BY <1>1, <1>2 DEF Settled, Bound, Place, Alike
  <2> QED BY <2>1, <2>2
<1>5. \A s \in Requests : Kept(s)'
  BY <1>2 DEF Settled, Bound, Kept, Alike
<1>6. Bound'
  BY <1>2, <1>4, <1>5, Types DEF Settled, Bound, Alike
<1>7. Keeps
  BY <1>2 DEF Keeps, Alike
<1> QED BY <1>3, <1>6, <1>7 DEF Settled, Left, Follows

\* A handler takes the lock and starts to bind.
LEMMA StartSettled ==
  ASSUME IInv, Settled, NEW r \in Requests, NEW pick \in Picks, NEW waiters, conn = "open",
         boundAgent = None, \A s \in Requests : ~Binding(s),
         StartBind(r, pick, waiters), UNCHANGED <<backend, boundAgent, stack, reaping, conn>>
  PROVE  Settled' /\ Follows
<1>1. pc'[r] = "spawn" /\ \A s \in Requests : s # r => pc'[s] = pc[s]
  BY Types DEF StartBind, Goto
<1>2. /\ proc'[r].status = "spawning" /\ proc'[r].stack = stack
      /\ \A s \in Requests : s # r => proc'[s] = proc[s]
  BY Types DEF StartBind
<1>3. backend = None /\ \A p \in Requests : proc[p].status \in OverPcs
  BY Vacant
<1>4. \A s \in Requests : Binding(s)' <=> s = r
  BY <1>1 DEF Binding, BindPcs
<1>5. NoneCloses'
  BY <1>1 DEF Settled, NoneCloses
<1>6. \A s \in Requests : Place(s)' /\ Kept(s)'
  <2>1. Place(r)' /\ Kept(r)'
    BY <1>1, <1>2, <1>3, <1>4 DEF Place, Kept, Handshake
  <2>2. ASSUME NEW s \in Requests, s # r PROVE Place(s)' /\ Kept(s)'
    <3>1. ~Binding(s)' /\ pc'[s] \notin BindPcs
      BY <1>4, <2>2 DEF Binding
    <3> QED BY <1>2, <1>3, <2>2, <3>1 DEF Place, Kept, Handshake, BindPcs
  <2> QED BY <2>1, <2>2
<1>7. Bound'
  BY <1>3, <1>6 DEF Bound
<1>8. proc'[r].agent \in Agents
  BY Types DEF StartBind, Picks
<1>9. Starts(r)
  BY <1>4, <1>8 DEF Starts
<1> QED BY <1>5, <1>7, <1>9 DEF Settled, Left, Follows

\* A handler moves within its bind, or ends it with success or without a wrapper.
LEMMA BinderSettled ==
  ASSUME IInv, Settled, NEW r \in Requests, Binding(r), NEW step \in Pcs,
         step \notin {"close", "reap", "reapError"}, Goto(r, step), UNCHANGED conn,
         \A p \in Requests \ {r} : proc'[p].status = proc[p].status,
         Place(r)', Kept(r)',
         boundAgent' # None => backend' # None /\ proc'[backend'].agent = boundAgent',
         backend' # None => (backend' = r /\ step \in BindPcs) \/ boundAgent' # None,
         step \in BindPcs => boundAgent' = boundAgent /\ proc'[r].agent = proc[r].agent,
         boundAgent' \in {boundAgent, proc[r].agent}
  PROVE  Settled' /\ Follows
<1>1. pc'[r] = step /\ \A s \in Requests : s # r => pc'[s] = pc[s]
  BY Types DEF Goto
<1>2. conn = "open" /\ \A p \in Requests \ {r} : proc[p].status \in OverPcs /\ ~Binding(p)
  BY Alone
<1>3. NoneCloses'
  BY <1>1 DEF Settled, NoneCloses
<1>4. \A s \in Requests : Place(s)' /\ Kept(s)'
  <2>1. ASSUME NEW s \in Requests, s # r PROVE Place(s)' /\ Kept(s)'
    <3>1. pc'[s] \notin BindPcs /\ proc'[s].status \in OverPcs
      BY <1>1, <1>2, <2>1 DEF Binding
    <3> QED BY <3>1 DEF Place, Kept, Binding, Handshake, BindPcs
  <2> QED BY <2>1
<1>5. backend' # None => Binding(backend)' \/ boundAgent' # None
  BY <1>1 DEF Binding
<1>6. Bound'
  BY <1>4, <1>5 DEF Bound
<1>7. CASE step \in BindPcs
  <2>1. Keeps
    BY <1>1, <1>2, <1>7 DEF Keeps, Binding
  <2> QED BY <1>2, <1>3, <1>6, <2>1 DEF Settled, Left, Follows
<1>8. CASE step \notin BindPcs
  <2>1. Ends(r)
    BY <1>1, <1>2, <1>8 DEF Ends, Binding
  <2> QED BY <1>2, <1>3, <1>6, <2>1 DEF Settled, Left, Follows
<1> QED BY <1>7, <1>8

-----------------------------------------------------------------------------
(* The requests and their answers.                                          *)

\* The awaits outside the lock, and the outcomes.
LEMMA Goes ==
  \A step \in {"roster", "lock", "repick", "call", "ok", "error"} :
    step \in Pcs /\ step \notin BindPcs \cup {"close", "reap", "reapError"}
BY DEF Pcs, BindPcs, Finals

\* _select_model under the lock.
LEMMA SelectSettled ==
  ASSUME IInv, Settled, NEW r \in Requests, NEW pick \in Picks, NEW waiters, conn = "open",
         \A s \in Requests : ~Binding(s), SelectModel(r, pick, waiters),
         UNCHANGED <<backend, boundAgent, stack, reaping, conn>>
  PROVE  Settled' /\ Follows
<1>1. CASE boundAgent = None /\ StartBind(r, pick, waiters)
  BY <1>1, StartSettled
<1>2. CASE Goto(r, "error") /\ UNCHANGED proc
  BY <1>2, Goes, MovesSettled DEF Alike
<1>3. CASE SetBackendModel(r, pick.model) /\ UNCHANGED proc
  <2>1. PICK step \in {"ok", "error", "repick"} : Goto(r, step)
    BY <1>3 DEF SetBackendModel
  <2> QED BY <1>3, <2>1, Goes, MovesSettled DEF Alike
<1> QED BY <1>1, <1>2, <1>3 DEF SelectModel

\* _ensure_bound_for_default under the lock, and the rest of prompt.
LEMMA EnsureSettled ==
  ASSUME IInv, Settled, NEW r \in Requests, NEW waiters, conn = "open",
         \A s \in Requests : ~Binding(s), EnsureBoundForDefault(r, waiters),
         UNCHANGED <<backend, boundAgent, stack, reaping, conn>>
  PROVE  Settled' /\ Follows
<1>1. CASE Forward(r) /\ UNCHANGED proc
  <2>1. PICK step \in {"call", "error"} : Goto(r, step)
    BY <1>1 DEF Forward
  <2> QED BY <1>1, <2>1, Goes, MovesSettled DEF Alike
<1>2. CASE Goto(r, "error") /\ UNCHANGED proc
  BY <1>2, Goes, MovesSettled DEF Alike
<1>3. CASE backend = None /\ aggregated # <<>> /\ StartBind(r, Head(aggregated), waiters)
  <2>1. Head(aggregated) \in Picks
    BY <1>3, RosterAssumption DEF IInv, TypeOK, ProxyTypes
  <2> QED BY <1>3, <2>1, Unbound, StartSettled
<1> QED BY <1>1, <1>2, <1>3 DEF EnsureBoundForDefault

\* A request that arrives.
LEMMA RequestSettled ==
  ASSUME IInv, Settled, Single, NEW r \in Requests, Request(r)
  PROVE  Settled' /\ Follows
<1>1. ~Binding(r) /\ conn = "open"
  BY DEF Request, NewSession, PickModel, Prompt, ForwardOnly, CloseSession, Arrives, Binding,
         BindPcs
<1>2. UNCHANGED <<backend, boundAgent, stack, reaping, conn>>
  BY DEF Request, NewSession, PickModel, Prompt, ForwardOnly, CloseSession, backendVars
<1>3. lockQueue = <<>> => \A s \in Requests : ~Binding(s)
  BY DEF IInv, LockHeld
<1>4. CASE NewSession(r)
  <2>1. PICK step \in {"roster", "error"} : Goto(r, step)
    BY <1>4 DEF NewSession
  <2> QED BY <1>1, <1>2, <1>4, <2>1, Goes, MovesSettled DEF NewSession, Alike
<1>5. CASE PickModel(r)
  <2>1. CASE \E step \in {"error", "lock"} : Goto(r, step) /\ UNCHANGED proc
    BY <1>1, <1>2, <2>1, Goes, MovesSettled DEF Alike
  <2>2. CASE \E pick \in Picks : lockQueue = <<>> /\ SelectModel(r, pick, <<>>)
    BY <1>1, <1>2, <1>3, <2>2, SelectSettled
  <2> QED BY <1>5, <2>1, <2>2 DEF PickModel, AnswersAtOnce, WaitsForLock
<1>6. CASE Prompt(r)
  <2>1. CASE \E step \in {"error", "lock"} : Goto(r, step) /\ UNCHANGED proc
    BY <1>1, <1>2, <2>1, Goes, MovesSettled DEF Alike
  <2>2. CASE lockQueue = <<>> /\ EnsureBoundForDefault(r, <<>>)
    BY <1>1, <1>2, <1>3, <2>2, EnsureSettled
  <2> QED BY <1>6, <2>1, <2>2 DEF Prompt, AnswersAtOnce, WaitsForLock
<1>7. CASE ForwardOnly(r)
  <2>1. PICK step \in {"call", "error"} : Goto(r, step)
    BY <1>7 DEF ForwardOnly, Forward
  <2> QED BY <1>1, <1>2, <1>7, <2>1, Goes, MovesSettled DEF ForwardOnly, Alike
<1>8. CASE CloseSession(r)
  BY <1>8 DEF CloseSession, Arrives, Single
<1> QED BY <1>4, <1>5, <1>6, <1>7, <1>8 DEF Request

\* A handler gets its roster, the lock, or the answer of the backend.
LEMMA AnswerSettled ==
  ASSUME IInv, Settled, NEW r \in Requests,
         \/ SessionListed(r) \/ Acquire(r) \/ Repicked(r) \/ CallAnswered(r)
         \/ CloseAnswered(r) \/ Closed(r)
  PROVE  Settled' /\ Follows
<1>1. pc[r] \in {"roster", "lock", "repick", "call"}
  BY DEF SessionListed, Acquire, Repicked, CallAnswered, CloseAnswered, Closed, Settled,
         NoneCloses
<1>2. ~Binding(r) /\ conn = "open"
  BY <1>1, ActiveOpen DEF Binding, BindPcs, Active, Finals
<1>3. UNCHANGED <<backend, boundAgent, stack, reaping, conn>>
  BY <1>1 DEF SessionListed, Acquire, Repicked, CallAnswered, CloseAnswered, Closed, backendVars
<1>4. CASE SessionListed(r) \/ CallAnswered(r)
  <2>1. PICK step \in {"ok", "error"} : Goto(r, step)
    BY <1>4 DEF SessionListed, CallAnswered
  <2>2. proc' = proc
    BY <1>4 DEF SessionListed, CallAnswered
  <2> QED BY <1>2, <1>3, <2>1, <2>2, Goes, MovesSettled DEF Alike
<1>5. CASE Repicked(r)
  <2>1. PICK step \in {"ok", "error"} : Goto(r, step)
    BY <1>5 DEF Repicked
  <2>2. Alike
    <3>1. CASE TakesModel(r)
      BY <3>1, Types DEF TakesModel, Alike
    <3>2. CASE proc' = proc
      BY <3>2 DEF Alike
    <3> QED BY <1>5, <3>1, <3>2 DEF Repicked
  <2> QED BY <1>2, <1>3, <2>1, <2>2, Goes, MovesSettled
<1>6. CASE Acquire(r)
  <2>1. \A s \in Requests : ~Binding(s)
    BY <1>2, <1>6, NobodyBinds DEF Acquire, IInv
  <2>2. CASE call[r].op = "pick" /\ SelectModel(r, call[r].pick, Tail(lockQueue))
    <3>1. call[r].pick \in Picks
      BY <1>6, <2>2 DEF Acquire, IInv, PicksKept, PickKept
    <3> QED BY <1>2, <1>3, <2>1, <2>2, <3>1, SelectSettled
  <2>3. CASE EnsureBoundForDefault(r, Tail(lockQueue))
    BY <1>2, <1>3, <2>1, <2>3, EnsureSettled
  <2> QED BY <1>6, <2>2, <2>3 DEF Acquire
<1>7. ~CloseAnswered(r) /\ ~Closed(r)
  BY <1>1 DEF CloseAnswered, Closed
<1> QED BY <1>4, <1>5, <1>6, <1>7

-----------------------------------------------------------------------------
(* The bind.                                                                *)

\* A handler between the spawn and its outcome.
LEMMA HandshakePlace ==
  ASSUME IInv, Settled, NEW r \in Requests, Binding(r)
  PROVE  /\ conn = "open" /\ boundAgent = None /\ proc[r].agent \in Agents
         /\ pc[r] = "spawn" => /\ OnStack(stack) = {} /\ backend = None
         /\ pc[r] \in Handshake => /\ OnStack(stack) = {r} /\ backend = r
                                   /\ proc[r].status \in {"up", "crashed"}
<1>1. /\ conn = "open" /\ Place(r) /\ boundAgent = None /\ proc[r].stack = stack
      /\ \A p \in Requests \ {r} : proc[p].status \in OverPcs
  BY Alone
<1>2. \A p \in Requests : p \in OnStack(stack) => p = r
  BY <1>1 DEF OnStack, OverPcs
<1>3. r \in OnStack(stack) <=> proc[r].status \in {"up", "crashed"}
  BY <1>1 DEF OnStack
<1>4. OnStack(stack) \subseteq Requests
  BY DEF OnStack
<1>5. proc[r].agent \in Agents
  BY DEF IInv, PicksKept, PickKept
<1> QED BY <1>1, <1>2, <1>3, <1>4, <1>5 DEF Place

\* The bind succeeds: the wrapper of r is the backend of the connection.
LEMMA SucceedsSettled ==
  ASSUME IInv, Settled, NEW r \in Requests, pc[r] \in Handshake, BindSucceeds(r), Alike,
         UNCHANGED <<backend, stack, reaping, conn>>
  PROVE  Settled' /\ Follows
<1>1. Binding(r)
  BY DEF Binding, BindPcs, Handshake
<1>2. /\ boundAgent = None /\ proc[r].agent \in Agents /\ backend = r
      /\ proc[r].status \in {"up", "crashed"} /\ proc[r].stack = stack
  BY <1>1, HandshakePlace, Alone
<1>3. PICK step \in {"ok", "call", "error"} : Goto(r, step)
  BY DEF BindSucceeds
<1>4. boundAgent' = proc[r].agent /\ boundAgent' # None
  BY <1>2, Types DEF BindSucceeds
<1>5. pc'[r] = step
  BY <1>3, Types DEF Goto
<1>6. Place(r)' /\ Kept(r)'
  BY <1>2, <1>4, <1>5 DEF Place, Kept, Alike, Binding, BindPcs, Handshake
<1>7. step \in Pcs /\ step \notin BindPcs /\ step \notin {"close", "reap", "reapError"}
  BY Goes
<1>8. /\ backend' # None /\ proc'[backend'].agent = boundAgent' /\ conn' = conn
      /\ \A p \in Requests \ {r} : proc'[p].status = proc[p].status
  BY <1>2, <1>4, Types DEF Alike
<1> QED BY <1>1, <1>3, <1>4, <1>6, <1>7, <1>8, BinderSettled

\* The bind fails: there is nothing to tear down, or the wrapper of r alone.
LEMMA FailsSettled ==
  ASSUME IInv, Settled, NEW r \in Requests, NEW procs \in [Requests -> Processes],
         BindFails(r, procs), UNCHANGED <<boundAgent, conn>>,
         \/ pc[r] = "spawn" /\ procs = [proc EXCEPT ![r].status = "dead"]
         \/ pc[r] \in Handshake /\ procs = proc
  PROVE  Settled' /\ Follows
<1>1. Binding(r)
  BY DEF Binding, BindPcs, Handshake
<1>2. boundAgent = None /\ proc[r].stack = stack
  BY <1>1, Alone
<1>3. proc' = Popped(procs) /\ \A p \in Requests : procs[p].agent = proc[p].agent
  BY Types DEF BindFails, Processes
<1>4. CASE pc[r] = "spawn"
  <2>1. OnStack(stack) = {} /\ procs = [proc EXCEPT ![r].status = "dead"]
    BY <1>1, <1>4, HandshakePlace DEF Handshake
  <2>2. /\ backend' = None /\ Goto(r, "error") /\ "error" \in Pcs
    BY <2>1, Goes DEF BindFails, TeardownAwaits, TeardownAtOnce, ResetBackend
  <2>3. \A p \in Requests : proc'[p] = procs[p]
    BY <1>3, <2>1 DEF Popped
  <2>4. procs[r].status = "dead" /\ \A p \in Requests \ {r} : procs[p] = proc[p]
    BY <2>1, Types
  <2>5. pc'[r] = "error"
    BY <2>2, Types DEF Goto
  <2>6. Place(r)' /\ Kept(r)'
    BY <2>3, <2>4, <2>5 DEF Place, Kept, Binding, BindPcs, Handshake, OverPcs
  <2> QED BY <1>1, <1>2, <1>3, <2>2, <2>3, <2>4, <2>6, BinderSettled DEF BindPcs
<1>5. CASE pc[r] \in Handshake
  <2>1. OnStack(stack) = {r} /\ backend = r /\ procs = proc
    BY <1>1, <1>5, HandshakePlace DEF Handshake
  <2>2. TeardownAwaits(r) /\ Goto(r, "unwind")
    BY <2>1 DEF BindFails, TeardownAtOnce
  <2>3. /\ reaping'[r] = {r} /\ UNCHANGED <<backend, stack>>
    BY <2>1, <2>2, Types DEF TeardownAwaits, backendVars
  <2>4. \A p \in Requests \ {r} : proc'[p] = proc[p]
    BY <1>3, <2>1 DEF Popped
  <2>5. /\ proc'[r].status = "closing" /\ proc'[r].stack = proc[r].stack
        /\ proc'[r].agent = proc[r].agent
    <3>1. proc'[r] = [proc[r] EXCEPT !.status = "closing"]
      BY <1>3, <2>1 DEF Popped
    <3> QED BY <3>1, Types DEF Processes
  <2>6. pc'[r] = "unwind" /\ "unwind" \in Pcs /\ "unwind" \in BindPcs
    BY <2>2, Types DEF Goto, Pcs, BindPcs
  <2>7. Place(r)'
    BY <1>2, <2>3, <2>5, <2>6 DEF Place, Handshake
  <2>8. Kept(r)'
    BY <2>6 DEF Kept, Binding
  <2> QED BY <1>1, <1>2, <2>1, <2>2, <2>3, <2>4, <2>5, <2>6, <2>7, <2>8, BinderSettled
<1> QED BY <1>4, <1>5

\* A step of the handler that binds.
LEMMA BindSettled ==
  ASSUME IInv, Settled, NEW r \in Requests,
         \/ Spawned(r) \/ SpawnFails(r) \/ Initialized(r) \/ SessionOpened(r)
         \/ HandshakeFails(r) \/ ModelSet(r) \/ Unwound(r)
  PROVE  Settled' /\ Follows
<1>1. Binding(r)
  BY DEF Spawned, SpawnFails, Initialized, SessionOpened, HandshakeFails, ModelSet, Unwound,
         Binding, BindPcs
<1>2. /\ boundAgent = None /\ proc[r].stack = stack /\ Place(r)
      /\ backend \in {None, r} /\ conn' = conn
  BY <1>1, Alone DEF Spawned, SpawnFails, Initialized, SessionOpened, HandshakeFails, ModelSet,
                     Unwound
<1>3. CASE Spawned(r)
  <2>1. /\ Goto(r, "init") /\ "init" \in Pcs /\ "init" \in BindPcs
        /\ backend' = r /\ UNCHANGED <<stack, boundAgent>>
    BY <1>3 DEF Spawned, Pcs, BindPcs
  <2>2. /\ proc'[r].status = "up" /\ proc'[r].stack = proc[r].stack
        /\ proc'[r].agent = proc[r].agent
        /\ \A p \in Requests \ {r} : proc'[p] = proc[p]
    BY <1>3, Types DEF Spawned, Processes
  <2>3. pc'[r] = "init"
    BY <2>1, Types DEF Goto
  <2>4. Place(r)' /\ Kept(r)'
    BY <1>2, <2>1, <2>2, <2>3 DEF Place, Kept, Handshake, Binding
  <2> QED BY <1>1, <1>2, <2>1, <2>2, <2>4, BinderSettled
<1>4. CASE Initialized(r)
  <2>1. /\ pc[r] = "init" /\ Goto(r, "new") /\ "new" \in Pcs /\ "new" \in BindPcs
        /\ UNCHANGED <<backend, stack, boundAgent, proc>>
    BY <1>4 DEF Initialized, Pcs, BindPcs, backendVars
  <2>2. pc'[r] = "new"
    BY <2>1, Types DEF Goto
  <2>3. Place(r)' /\ Kept(r)'
    BY <1>2, <2>1, <2>2 DEF Place, Kept, Handshake, Binding
  <2> QED BY <1>1, <1>2, <2>1, <2>3, BinderSettled
<1>5. CASE SpawnFails(r)
  <2>1. [proc EXCEPT ![r].status = "dead"] \in [Requests -> Processes]
    BY Types, StatusTyped DEF Statuses
  <2> QED BY <1>2, <1>5, <2>1, FailsSettled DEF SpawnFails
<1>6. CASE HandshakeFails(r)
  BY <1>2, <1>6, Types, FailsSettled DEF HandshakeFails, Handshake
<1>7. CASE ModelSet(r)
  <2>1. Alike
    BY <1>7, Types DEF ModelSet, TakesModel, Alike
  <2> QED BY <1>2, <1>7, <2>1, SucceedsSettled DEF ModelSet, Handshake
<1>8. CASE SessionOpened(r)
  <2>1. backend = r /\ backend # None /\ pc[r] \in Handshake
    BY <1>1, <1>8, HandshakePlace, Types DEF SessionOpened, Handshake
  <2>2. PICK selector \in Selectors :
          /\ proc' = [proc EXCEPT ![r].selector = selector]
          /\ \/ BindSucceeds(r) /\ UNCHANGED <<backend, stack, reaping>>
             \/ Goto(r, "model") /\ UNCHANGED <<backend, stack, boundAgent>>
    BY <1>8, <2>1 DEF SessionOpened
  <2>3. Alike
    BY <2>2, Types DEF Alike
  <2>4. CASE BindSucceeds(r) /\ UNCHANGED <<backend, stack, reaping>>
    BY <1>2, <2>1, <2>3, <2>4, SucceedsSettled
  <2>5. CASE Goto(r, "model") /\ UNCHANGED <<backend, stack, boundAgent>>
    <3>1. pc'[r] = "model" /\ "model" \in Pcs /\ "model" \in BindPcs
      BY <2>5, Types DEF Goto, Pcs, BindPcs
    <3>2. proc[r].status \in {"up", "crashed"}
      BY <1>1, <2>1, HandshakePlace
    <3>3. Place(r)' /\ Kept(r)'
      BY <1>2, <2>1, <2>3, <2>5, <3>1, <3>2 DEF Place, Kept, Handshake, Binding, Alike
    <3> QED BY <1>1, <1>2, <2>1, <2>3, <2>5, <3>1, <3>3, BinderSettled DEF Alike
  <2> QED BY <2>2, <2>4, <2>5
<1>9. CASE Unwound(r)
  <2>1. proc[r].status = "dead"
    BY <1>2, <1>9 DEF Unwound, Place, Reaped
  <2>2. /\ Goto(r, "error") /\ UNCHANGED <<boundAgent, proc>> /\ backend' = None
    BY <1>9 DEF Unwound, EndReap, ResetBackend
  <2>3. pc'[r] = "error" /\ "error" \in Pcs /\ "error" \notin BindPcs
    BY <2>2, Types, Goes DEF Goto
  <2>4. Place(r)' /\ Kept(r)'
    BY <2>1, <2>2, <2>3 DEF Place, Kept, Handshake, Binding, OverPcs
  <2> QED BY <1>1, <1>2, <2>2, <2>3, <2>4, BinderSettled
<1> QED BY <1>3, <1>4, <1>5, <1>6, <1>7, <1>8, <1>9

-----------------------------------------------------------------------------
(* The wrappers, and the end of the connection.                             *)

\* A wrapper sends an update, crashes, or exits.
LEMMA WrapperSettled ==
  ASSUME IInv, Settled, NEW p \in Requests, SessionUpdate(p) \/ Crash(p) \/ Exit(p)
  PROVE  Settled' /\ Follows
<1>1. UNCHANGED <<backend, boundAgent, stack, pc, reaping, conn>>
  BY DEF SessionUpdate, Crash, Exit, Becomes, backendVars
<1>2. /\ \A q \in Requests \ {p} : proc'[q] = proc[q]
      /\ proc'[p].stack = proc[p].stack /\ proc'[p].agent = proc[p].agent
      /\ \/ proc'[p].status = proc[p].status
         \/ proc[p].status = "up" /\ proc'[p].status = "crashed"
         \/ proc[p].status = "closing" /\ proc'[p].status = "dead"
  BY Types DEF SessionUpdate, Crash, Exit, Becomes, Processes
<1>3. \A s \in Requests : Binding(s)' <=> Binding(s)
  BY <1>1 DEF Binding
<1>4. NoneCloses'
  BY <1>1 DEF Settled, NoneCloses
<1>5. Left'
  BY <1>1, <1>2 DEF Settled, Left, Active, OverPcs
<1>6. ASSUME conn = "open" PROVE \A s \in Requests : Place(s)' /\ Kept(s)'
  <2>1. \A s \in Requests \ {p} : Place(s)' /\ Kept(s)'
    BY <1>1, <1>2, <1>3, <1>6 DEF Settled, Bound, Place, Kept
  <2>2. Place(p) /\ Kept(p)
    BY <1>6 DEF Settled, Bound
  <2>3. Place(p)'
    BY <1>1, <1>2, <1>3, <2>2 DEF Place, Handshake
  <2>4. Kept(p)'
    BY <1>1, <1>2, <1>3, <2>2 DEF Kept, OverPcs
  <2> QED BY <2>1, <2>3, <2>4
<1>7. \A q \in Requests : proc'[q].agent = proc[q].agent
  BY <1>2
<1>8. Bound'
  BY <1>1, <1>3, <1>6, <1>7, Types DEF Settled, Bound
<1>9. Keeps
  BY <1>1, <1>3, <1>7 DEF Keeps
<1> QED BY <1>4, <1>5, <1>8, <1>9 DEF Settled, Follows

\* The client leaves: no handler is left, and every wrapper is told to exit.
LEMMA DisconnectSettled ==
  ASSUME IInv, Settled, Single, Disconnect
  PROVE  Settled' /\ Follows
<1> DEFINE procs == [p \in Requests |->
                       IF proc[p].status = "spawning"
                         THEN [proc[p] EXCEPT !.status = "dead"] ELSE proc[p]]
<1>1. /\ conn = "open" /\ conn' # "open" /\ boundAgent' = boundAgent
      /\ pc' = [r \in Requests |-> IF Active(r) THEN "cancelled" ELSE pc[r]]
      /\ proc' = Popped(procs)
  BY DEF Disconnect, Single
<1>2. \A r \in Requests : pc'[r] \in Finals \cup {"idle"}
  BY <1>1 DEF Active, Finals
<1>3. \A r \in Requests : ~Active(r)' /\ ~Binding(r)'
  BY <1>2 DEF Active, Binding, BindPcs, Finals
<1>4. ASSUME NEW p \in Requests PROVE proc'[p].status \in OverPcs \cup {"closing"}
  <2>1. proc'[p] = IF p \in OnStack(stack) THEN [procs[p] EXCEPT !.status = "closing"]
                                          ELSE procs[p]
    BY <1>1 DEF Popped
  <2>2. procs[p] \in Processes
    BY Types DEF Processes, Statuses
  <2>3. CASE p \in OnStack(stack)
    BY <2>1, <2>2, <2>3 DEF Processes
  <2>4. CASE p \notin OnStack(stack)
    <3>1. proc[p] \in Processes /\ Place(p) /\ Kept(p)
      BY <1>1, Types DEF Settled, Bound
    <3>2. proc[p].status \in {"up", "crashed"} => proc[p].stack # stack
      BY <2>4 DEF OnStack
    <3>3. proc[p].status \in OverPcs \cup {"spawning", "closing"}
      BY <3>1, <3>2 DEF Place, Kept, Binding, OverPcs, Processes, Statuses
    <3>4. CASE proc[p].status = "spawning"
      BY <2>1, <2>4, <3>1, <3>4 DEF Processes, OverPcs
    <3>5. CASE proc[p].status # "spawning"
      BY <2>1, <2>4, <3>3, <3>5
    <3> QED BY <3>4, <3>5
  <2> QED BY <2>3, <2>4
<1>5. NoneCloses'
  BY <1>2 DEF NoneCloses, Finals
<1>6. Settled'
  BY <1>1, <1>3, <1>4, <1>5 DEF Settled, Left, Bound
<1>7. Follows
  <2>1. CASE \E r \in Requests : Binding(r)
    BY <1>1, <1>3, <2>1 DEF Follows, Ends
  <2>2. CASE \A r \in Requests : ~Binding(r)
    BY <1>1, <1>3, <2>2 DEF Follows, Keeps
  <2> QED BY <2>1, <2>2
<1> QED BY <1>6, <1>7

\* Every step of a connection that nobody closes.
LEMMA StepSettled ==
  ASSUME IInv, Settled, Single, [Next]_vars
  PROVE  Settled' /\ Follows
<1>1. CASE \E r \in Requests : Request(r)
  BY <1>1, RequestSettled
<1>2. CASE \E r \in Requests : Progress(r)
  BY <1>2, BindSettled, AnswerSettled DEF Progress
<1>3. CASE \E p \in Requests : SessionUpdate(p) \/ Crash(p) \/ Exit(p)
  BY <1>3, WrapperSettled
<1>4. CASE Disconnect
  BY <1>4, DisconnectSettled
<1>5. CASE RunEnds
  <2>1. conn # "open" /\ conn' # "open" /\ UNCHANGED <<boundAgent, pc, proc>>
    BY <1>5 DEF RunEnds
  <2> QED BY <2>1 DEF Settled, NoneCloses, Left, Bound, Active, Follows, Keeps, Binding
<1>6. CASE UNCHANGED vars
  <2>1. UNCHANGED <<backend, boundAgent, stack, pc, proc, reaping, conn>>
    BY <1>6 DEF vars
  <2> QED BY <2>1 DEF Settled, NoneCloses, Left, Bound, Active, Follows, Keeps, Binding, Place,
                      Kept
<1> QED BY <1>1, <1>2, <1>3, <1>4, <1>5, <1>6 DEF Next

\* A client that connects finds no agent and no wrapper.
LEMMA InitSettled == Init => Settled
<1> SUFFICES ASSUME Init PROVE Settled
    OBVIOUS
<1>1. /\ conn = "open" /\ backend = None /\ boundAgent = None
      /\ \A r \in Requests : pc[r] = "idle" /\ proc[r].status = "unused"
  BY DEF Init, Unspawned
<1> QED BY <1>1 DEF Settled, NoneCloses, Left, Bound, Place, Kept, Binding, BindPcs, Handshake,
                    OverPcs

-----------------------------------------------------------------------------
(* The theorems.                                                            *)

SInv == IInv /\ Settled

\* The invariant of a connection on which nobody closes the session.
LEMMA SingleInv ==
  ASSUME Single
  PROVE  Spec => []SInv
<1>1. Init => SInv
  BY InitIInv, InitSettled DEF SInv
<1>2. SInv /\ [Next]_vars => SInv'
  BY StepIInv, StepSettled DEF SInv
<1> QED BY <1>1, <1>2, PTL DEF Spec

\* While the client is connected at most one wrapper runs: a bind that failed
\* has reaped its own before another may start, proxy.py:636-641.
THEOREM OneBackendAtATime ==
  ASSUME Single
  PROVE  Spec => []OneLiveBackend
<1>1. SInv => OneLiveBackend
  <2> SUFFICES ASSUME SInv, conn = "open", NEW p \in Requests, NEW q \in Requests,
                      proc[p].status \in {"spawning", "up", "closing"},
                      proc[q].status \in {"spawning", "up", "closing"}
               PROVE  p = q
      BY DEF OneLiveBackend
  <2>1. Kept(p) /\ Kept(q) /\ p \in Requests /\ q \in Requests
    BY DEF SInv, Settled, Bound
  <2>2. CASE Binding(p) \/ Binding(q)
    <3>1. ASSUME NEW s \in Requests, Binding(s) PROVE p = s /\ q = s
      BY <3>1, Alone DEF SInv, OverPcs
    <3> QED BY <2>2, <3>1
  <2>3. CASE ~Binding(p) /\ ~Binding(q)
    BY <2>1, <2>3 DEF Kept, OverPcs
  <2> QED BY <2>2, <2>3
<1> QED BY <1>1, SingleInv, PTL

\* When the connection is over, no wrapper is left that nobody told to exit.
THEOREM NoneLeftBehind ==
  ASSUME Single
  PROVE  Spec => []NothingLeftBehind
<1>1. SInv => NothingLeftBehind
  BY DEF SInv, Settled, Left, NothingLeftBehind, OverPcs
<1> QED BY <1>1, SingleInv, PTL

\* When a teardown replaces the exit stack, no wrapper of the old one is left
\* to run: a live wrapper is on the stack that _backend_stack then is.
THEOREM TeardownLosesNothing ==
  ASSUME Single
  PROVE  Spec => ResetLosesNothing
<1>1. SInv /\ [Next]_vars =>
        [stack' # stack =>
           \A p \in Requests :
             proc'[p].stack = stack =>
               proc'[p].status \notin {"spawning", "up", "crashed"}]_vars
  <2> SUFFICES ASSUME SInv, [Next]_vars, stack' # stack, NEW p \in Requests,
                      proc'[p].stack = stack
               PROVE  proc'[p].status \notin {"spawning", "up", "crashed"}
      OBVIOUS
  <2>1. Settled'
    BY StepSettled DEF SInv
  <2>2. CASE conn' # "open"
    BY <2>1, <2>2 DEF Settled, Left, OverPcs
  <2>3. CASE conn' = "open"
    <3>1. Place(p)' /\ Kept(p)'
      BY <2>1, <2>3 DEF Settled, Bound
    <3> QED BY <3>1 DEF Place, Kept, OverPcs
  <2> QED BY <2>2, <2>3
<1> QED BY <1>1, SingleInv, PTL DEF Spec, ResetLosesNothing

\* The wrapper that requests go to is one of the agent the client is told of.
THEOREM ForwardsToTheAgent ==
  ASSUME Single
  PROVE  Spec => []ForwardsToBoundAgent
<1>1. SInv => ForwardsToBoundAgent
  BY DEF SInv, Settled, Bound, ForwardsToBoundAgent
<1> QED BY <1>1, SingleInv, PTL

\* Once a connection has an agent it keeps it: _select_model refuses another,
\* and no bind that was already under way can replace it.
THEOREM NeverSwitches ==
  ASSUME Single
  PROVE  Spec => AgentNeverSwitches
<1>1. SInv /\ [Next]_vars => [boundAgent # None => boundAgent' = boundAgent]_vars
  <2> SUFFICES ASSUME SInv, [Next]_vars, boundAgent # None PROVE boundAgent' = boundAgent
      OBVIOUS
  <2>1. Follows
    BY StepSettled DEF SInv
  <2>2. \A r \in Requests : ~Binding(r)
    BY Alone DEF SInv
  <2> QED BY <2>1, <2>2 DEF Follows, Keeps, Starts, Ends
<1> QED BY <1>1, SingleInv, PTL DEF Spec, AgentNeverSwitches

-----------------------------------------------------------------------------
(* The frames that show model ids.                                          *)

\* The frames of an agent's wrapper appear while it is the bound one.
LEMMA FramesGrow ==
  ASSUME [Next]_vars
  PROVE  \/ seen' = seen
         \/ \E p \in Requests : Up(p) /\ conn = "open" /\ seen' = seen \cup {Frame(p)}
<1>1. CASE \E r \in Requests : Request(r)
  BY <1>1 DEF Request, NewSession, PickModel, Prompt, ForwardOnly, CloseSession
<1>2. ASSUME NEW r \in Requests, CallAnswered(r)
      PROVE  \/ seen' = seen
             \/ Up(via[r]) /\ conn = "open" /\ seen' = seen \cup {Frame(via[r])}
  BY <1>2 DEF CallAnswered
<1>3. \A r \in Requests : Up(via[r]) => via[r] \in Requests
  BY DEF Up
<1>4. CASE \E r \in Requests : Progress(r)
  <2>1. \A r \in Requests : Progress(r) => CallAnswered(r) \/ seen' = seen
    BY DEF Progress, SessionListed, Acquire, Spawned, SpawnFails, Initialized, SessionOpened,
           HandshakeFails, ModelSet, Unwound, Repicked, CloseAnswered, Closed
  <2> QED BY <1>2, <1>3, <1>4, <2>1
<1>5. CASE \E p \in Requests : SessionUpdate(p) \/ Crash(p) \/ Exit(p)
  BY <1>5 DEF SessionUpdate, Crash, Exit, Becomes
<1>6. CASE Disconnect \/ RunEnds \/ UNCHANGED vars
  BY <1>6 DEF Disconnect, RunEnds, vars
<1> QED BY <1>1, <1>4, <1>5, <1>6 DEF Next

\* A frame that marks its selector by category names the agent it came from.
THEOREM FramesNamespaced ==
  ASSUME Single
  PROVE  Spec => []BoundFramesNamespaced
<1>1. Init => BoundFramesNamespaced
  BY DEF Init, BoundFramesNamespaced
<1>2. SInv /\ BoundFramesNamespaced /\ [Next]_vars => BoundFramesNamespaced'
  <2> SUFFICES ASSUME SInv, BoundFramesNamespaced, [Next]_vars PROVE BoundFramesNamespaced'
      OBVIOUS
  <2>1. ASSUME NEW p \in Requests, Up(p), conn = "open", boundAgent # None
        PROVE  proc[p].agent = boundAgent
    <3>1. Kept(p) /\ proc[p].status = "up"
      BY <2>1 DEF SInv, Settled, Bound, Up
    <3>2. ~Binding(p)
      BY <2>1, Alone DEF SInv
    <3> QED BY <2>1, <3>1, <3>2 DEF SInv, Settled, Bound, Kept, OverPcs
  <2>2. ASSUME NEW p \in Requests, Up(p), conn = "open", Frame(p).bound, Frame(p).marked
        PROVE  Frame(p).prefix = Frame(p).agent
    BY <2>1, <2>2 DEF Frame
  <2> QED BY <2>2, FramesGrow DEF BoundFramesNamespaced
<1> QED BY <1>1, <1>2, SingleInv, PTL DEF Spec

-----------------------------------------------------------------------------
(* The binding contract.                                                    *)

\* The binder of the contract is the handler that binds.
LEMMA BinderIs ==
  ASSUME IInv
  PROVE  /\ \A r \in Requests : Binding(r) => Binder = r
         /\ (\A r \in Requests : ~Binding(r)) => Binder = None
BY Unique DEF Binder

\* The same after a step.
LEMMA BinderNext ==
  ASSUME IInv'
  PROVE  /\ \A r \in Requests : Binding(r)' => Binder' = r
         /\ (\A r \in Requests : ~Binding(r)') => Binder' = None
<1>1. \A r \in Requests, s \in Requests : Binding(r)' /\ Binding(s)' => r = s
  BY DEF IInv, LockHeld
<1> QED BY <1>1 DEF Binder

\* What the mapping takes for the agent that is being bound.
Target == IF Binder = None THEN None ELSE proc[Binder].agent

\* Handlers that race through picks, prompts, failing binds and a client that
\* leaves never do but what the contract allows: from unbound to binding one
\* agent, and from there back, or to bound for good.
THEOREM Implements ==
  ASSUME Single
  PROVE  Spec => ImplementsBinding
<1>1. Init => Contract!Init
  <2> SUFFICES ASSUME Init PROVE Contract!Init
      OBVIOUS
  <2>1. IInv /\ \A r \in Requests : ~Binding(r)
    BY InitIInv DEF Init, Binding, BindPcs
  <2> QED BY <2>1, BinderIs DEF Init, Contract!Init
<1>2. SInv /\ [Next]_vars => [Contract!Next]_(Contract!vars)
  <2> SUFFICES ASSUME SInv, [Next]_vars PROVE [Contract!Next]_(Contract!vars)
      OBVIOUS
  <2>1. Follows /\ IInv /\ IInv' /\ None \notin Requests
    BY StepSettled, StepIInv, Types DEF SInv
  <2>2. CASE Keeps
    <3>1. CASE \E r \in Requests : Binding(r)
      <4>1. PICK r \in Requests : Binding(r)
        BY <3>1
      <4>2. Binder = r /\ Binder' = r /\ proc'[r].agent = proc[r].agent
        BY <2>1, <2>2, <4>1, BinderIs, BinderNext DEF Keeps
      <4>3. Target' = Target
        BY <4>2 DEF Target
      <4> QED BY <2>2, <4>2, <4>3 DEF Contract!vars, Target, Keeps
    <3>2. CASE \A r \in Requests : ~Binding(r)
      <4>1. Binder = None /\ Binder' = None
        BY <2>1, <2>2, <3>2, BinderIs, BinderNext DEF Keeps
      <4> QED BY <2>2, <4>1 DEF Contract!vars, Keeps
    <3> QED BY <3>1, <3>2
  <2>3. ASSUME NEW r \in Requests, Starts(r) PROVE Contract!Next
    <3>1. Binder = None /\ Binder' = r
      BY <2>1, <2>3, BinderIs, BinderNext DEF Starts
    <3>2. Contract!StartBind(r, proc'[r].agent) /\ proc'[r].agent \in Agents
      BY <2>1, <2>3, <3>1 DEF Starts, Contract!StartBind
    <3> QED BY <3>2 DEF Contract!Next
  <2>4. ASSUME NEW r \in Requests, Ends(r) PROVE Contract!Next
    <3>1. Binder = r /\ Binder' = None
      BY <2>1, <2>4, BinderIs, BinderNext DEF Ends
    <3> QED BY <2>1, <2>4, <3>1
            DEF Ends, Contract!Next, Contract!EndBind, Contract!BindSucceeds, Contract!BindFails
  <2> QED BY <2>1, <2>2, <2>3, <2>4 DEF Follows
<1> QED BY <1>1, <1>2, SingleInv, PTL DEF Spec, ImplementsBinding, Contract!Spec

=============================================================================
