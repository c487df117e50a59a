---------------------------- MODULE AcpPicksProofs ----------------------------
(***************************************************************************)
(* The last pick wins: on a connection of AcpBindingProofs the picks reach *)
(* the wrapper in the order in which the client sent them, so the model it *)
(* runs is the one of the last pick that was acknowledged, also while      *)
(* others are still under way.                                             *)
(*                                                                         *)
(* The order is kept from the client through the lock queue and the wire:  *)
(* an acknowledged pick is before those on the wire, those on the wire are *)
(* before those that wait for the lock, and these before those to come.    *)
(***************************************************************************)
EXTENDS AcpBindingProofs

Members(q) == {q[i] : i \in DOMAIN q}
Rising(q)  == \A i, j \in DOMAIN q : i < j => q[i] < q[j]
Ordered(w) == \A i, j \in DOMAIN w : i < j => w[i].req < w[j].req

\* Requests arrive one after the other.
Arrived == \A r, s \in Requests : s < r /\ pc[r] # "idle" => pc[s] # "idle"

\* They wait for the lock in that order.
Queued ==
    /\ Rising(lockQueue)
    /\ \A s \in Members(lockQueue) : pc[s] \in {"lock"} \cup BindPcs

\* What they have told a wrapper is on its wire in that order, and nobody who
\* waits for the lock came before.
SentPcs == {"repick", "model", "unwind", "call"} \cup Finals
Sent(c) ==
    /\ pc[c.req] \in SentPcs
    /\ call[c.req].op = "pick" => c.model = call[c.req].pick.model
    /\ \A s \in Members(lockQueue) : c.req <= s
Wired(p) == Ordered(wire[p]) /\ \A c \in Members(wire[p]) : Sent(c)

\* What a handler that waits for the wrapper knows of it.
Told(r) ==
    /\ pc[r] \in {"roster", "call"} => call[r].op # "pick"
    /\ pc[r] = "repick" => via[r] = backend /\ boundAgent # None /\ call[r].op = "pick"
    /\ pc[r] = "model" => via[r] = backend /\ modelConfig # None
    /\ Binding(r) /\ call[r].op = "pick" => proc[r].asked = call[r].pick.model

\* A wrapper that shows models has the option through which they are set.
Settable ==
    conn = "open" /\ boundAgent # None /\ modelConfig = None => ~ShowsModels(backend)

\* An acknowledged pick is before all that are still under way.
Before(a) ==
    /\ boundAgent # None
    /\ \A s \in Members(lockQueue) : a < s
    /\ backend # None /\ ShowsModels(backend) => \A c \in Members(wire[backend]) : a < c.req
Acked == \A a \in Requests : AckedPick(a) => Before(a)

\* The wrapper runs the model of the last one.
Latest ==
    \A a \in Requests :
        /\ AckedPick(a) /\ \A s \in Requests : AckedPick(s) => s <= a
        /\ backend # None /\ ShowsModels(backend)
        => proc[backend].model = call[a].pick.model

InOrder ==
    /\ Arrived /\ Queued /\ \A p \in Requests : Wired(p) /\ Told(p)
    /\ Settable /\ Acked /\ Latest

-----------------------------------------------------------------------------
(* Sequences.                                                               *)

\* The tail of a queue holds what was behind its head.
LEMMA TailOf ==
  ASSUME NEW S, NEW q \in Seq(S), q # <<>>
  PROVE  /\ Tail(q) \in Seq(S) /\ Head(q) \in Members(q)
         /\ \A x \in Members(Tail(q)) : x \in Members(q) /\ \E i \in DOMAIN q : 1 < i /\ x = q[i]
<1>1. Tail(q) \in Seq(S) /\ Len(Tail(q)) = Len(q) - 1 /\ Len(q) \in Nat /\ Len(q) > 0
  OBVIOUS
<1>2. \A i \in 1 .. Len(q) - 1 : Tail(q)[i] = q[i + 1]
  OBVIOUS
<1>3. DOMAIN q = 1 .. Len(q) /\ DOMAIN Tail(q) = 1 .. Len(q) - 1
  BY <1>1
<1>4. Head(q) = q[1] /\ 1 \in DOMAIN q
  BY <1>1, <1>3
<1> QED BY <1>1, <1>2, <1>3, <1>4 DEF Members

\* Appending adds what is appended.
LEMMA AppendOf ==
  ASSUME NEW S, NEW q \in Seq(S), NEW x \in S
  PROVE  Append(q, x) \in Seq(S) /\ Members(Append(q, x)) = Members(q) \cup {x}
<1>1. /\ Append(q, x) \in Seq(S) /\ Len(q) \in Nat /\ DOMAIN q = 1 .. Len(q)
      /\ DOMAIN Append(q, x) = 1 .. Len(q) + 1
  OBVIOUS
<1>2. Append(q, x)[Len(q) + 1] = x /\ \A i \in 1 .. Len(q) : Append(q, x)[i] = q[i]
  OBVIOUS
<1>3. ASSUME NEW y \in Members(Append(q, x)) PROVE y \in Members(q) \cup {x}
  BY <1>1, <1>2 DEF Members
<1>4. ASSUME NEW y \in Members(q) \cup {x} PROVE y \in Members(Append(q, x))
  BY <1>1, <1>2 DEF Members
<1> QED BY <1>1, <1>3, <1>4

\* A queue that rises does so without its head, which is before all others.
LEMMA RisingTail ==
  ASSUME NEW q \in Seq(Requests), q # <<>>, Rising(q)
  PROVE  Rising(Tail(q)) /\ \A s \in Members(Tail(q)) : Head(q) < s
<1>1. /\ Len(Tail(q)) = Len(q) - 1 /\ Len(q) \in Nat /\ Len(q) > 0
      /\ DOMAIN q = 1 .. Len(q) /\ DOMAIN Tail(q) = 1 .. Len(q) - 1
  OBVIOUS
<1>2. \A i \in 1 .. Len(q) - 1 : Tail(q)[i] = q[i + 1]
  OBVIOUS
<1>3. Head(q) = q[1]
  OBVIOUS
<1>4. Rising(Tail(q))
  BY <1>1, <1>2 DEF Rising
<1> QED BY <1>1, <1>2, <1>3, <1>4 DEF Rising, Members

\* The same of what is on a wire.
LEMMA OrderedTail ==
  ASSUME NEW w \in Seq(SetModelCalls), w # <<>>, Ordered(w)
  PROVE  Ordered(Tail(w)) /\ \A c \in Members(Tail(w)) : Head(w).req < c.req
<1>1. /\ Len(Tail(w)) = Len(w) - 1 /\ Len(w) \in Nat /\ Len(w) > 0
      /\ DOMAIN w = 1 .. Len(w) /\ DOMAIN Tail(w) = 1 .. Len(w) - 1
  OBVIOUS
<1>2. \A i \in 1 .. Len(w) - 1 : Tail(w)[i] = w[i + 1]
  OBVIOUS
<1>3. Head(w) = w[1]
  OBVIOUS
<1>4. Ordered(Tail(w))
  BY <1>1, <1>2 DEF Ordered
<1> QED BY <1>1, <1>2, <1>3, <1>4 DEF Ordered, Members

\* Whoever comes last may be appended.
LEMMA RisingAppend ==
  ASSUME NEW q \in Seq(Requests), NEW r \in Requests, Rising(q), \A s \in Members(q) : s < r
  PROVE  Rising(Append(q, r))
<1>1. /\ Len(q) \in Nat /\ DOMAIN q = 1 .. Len(q) /\ DOMAIN Append(q, r) = 1 .. Len(q) + 1
      /\ Append(q, r)[Len(q) + 1] = r /\ \A i \in 1 .. Len(q) : Append(q, r)[i] = q[i]
  OBVIOUS
<1> QED BY <1>1 DEF Rising, Members

\* The same of what is sent.
LEMMA OrderedAppend ==
  ASSUME NEW w \in Seq(SetModelCalls), NEW d \in SetModelCalls, Ordered(w),
         \A c \in Members(w) : c.req < d.req
  PROVE  Ordered(Append(w, d))
<1>1. /\ Len(w) \in Nat /\ DOMAIN w = 1 .. Len(w) /\ DOMAIN Append(w, d) = 1 .. Len(w) + 1
      /\ Append(w, d)[Len(w) + 1] = d /\ \A i \in 1 .. Len(w) : Append(w, d)[i] = w[i]
  OBVIOUS
<1> QED BY <1>1 DEF Ordered, Members

-----------------------------------------------------------------------------
(* A handler that moves.                                                    *)

\* The handler of r goes on to step; it may be one that has just been made.
Advances(r, step) ==
    /\ Goto(r, step) /\ step \in Pcs \ {"idle"} /\ pc[r] \notin Finals
    /\ pc[r] \in SentPcs => step \in SentPcs
    /\ \A s \in Requests : s # r => call'[s] = call[s] /\ via'[s] = via[s]
    /\ \/ pc[r] # "idle" /\ call'[r] = call[r]
       \/ pc[r] = "idle" /\ \A s \in Requests : s < r => pc[s] # "idle"

\* It enters the queue when it arrives, and stays there while it waits or binds.
Queues(r, step) ==
    /\ Rising(lockQueue')
    /\ \A s \in Members(lockQueue') : s \in Members(lockQueue) \/ (s = r /\ pc[r] = "idle")
    /\ r \in Members(lockQueue') => step \in {"lock"} \cup BindPcs

\* It may send what it asks for, ahead of those that wait.
Sends(r, step) ==
    \A p \in Requests :
        /\ Ordered(wire'[p])
        /\ \A c \in Members(wire'[p]) :
              \/ c \in Members(wire[p])
              \/ /\ c.req = r /\ step \in SentPcs
                 /\ call'[r].op = "pick" => c.model = call'[r].pick.model
                 /\ \A s \in Members(lockQueue') : r <= s
                 /\ pc[r] = "idle" \/ r \in Members(lockQueue)

\* What is on a wire was asked for by a request.
LEMMA WireTyped ==
  ASSUME IInv
  PROVE  /\ lockQueue \in Seq(Requests) /\ Members(lockQueue) \subseteq Requests
         /\ \A p \in Requests : /\ wire[p] \in Seq(SetModelCalls)
                                /\ Members(wire[p]) \subseteq SetModelCalls
         /\ \A c \in SetModelCalls : c.req \in Requests
         /\ via \in [Requests -> Requests \cup {None}]
         /\ Requests \subseteq Int
<1>1. lockQueue \in Seq(Requests) /\ \A p \in Requests : wire[p] \in Seq(SetModelCalls)
  BY DEF IInv, TypeOK, TaskTypes, WrapperTypes
<1>2. Members(lockQueue) \subseteq Requests
  BY <1>1 DEF Members
<1>3. \A p \in Requests : Members(wire[p]) \subseteq SetModelCalls
  BY <1>1 DEF Members
<1>4. Requests \subseteq Int
  BY RequestsAssumption DEF Requests
<1> QED BY <1>1, <1>2, <1>3, <1>4 DEF SetModelCalls, IInv, TypeOK, TaskTypes

\* A request that arrives is the last so far.
LEMMA Newest ==
  ASSUME IInv, Arrived, NEW r \in Requests, pc[r] = "idle"
  PROVE  \A s \in Requests : pc[s] # "idle" => s < r
BY WireTyped DEF Arrived

\* The order of arrival, of the queue and of the wires is kept.
LEMMA OrderKept ==
  ASSUME IInv, IInv', InOrder, NEW r \in Requests, NEW step, Advances(r, step), Queues(r, step),
         Sends(r, step)
  PROVE  Arrived' /\ Queued' /\ \A p \in Requests : Wired(p)'
<1>1. pc'[r] = step /\ \A s \in Requests : s # r => pc'[s] = pc[s]
  BY Types DEF Advances, Goto
<1>2. Arrived'
  BY <1>1 DEF InOrder, Arrived, Advances
<1>3. Queued'
  <2>1. ASSUME NEW s \in Members(lockQueue)' PROVE pc'[s] \in {"lock"} \cup BindPcs
    <3>1. s \in Requests /\ (s # r => s \in Members(lockQueue))
      BY <2>1, WireTyped DEF Queues, Members
    <3> QED BY <1>1, <2>1, <3>1 DEF InOrder, Queued, Queues
  <2> QED BY <2>1 DEF Queued, Queues
<1>4. ASSUME NEW p \in Requests PROVE Wired(p)'
  <2>1. ASSUME NEW c \in Members(wire'[p]) PROVE Sent(c)'
    <3>1. CASE c \in Members(wire[p])
      <4>1. Sent(c) /\ c.req \in Requests
        BY <3>1, WireTyped DEF InOrder, Wired
      <4>2. c.req = r => pc[r] # "idle" /\ step \in SentPcs
        BY <4>1 DEF Sent, SentPcs, Advances, Finals
      <4>3. pc'[c.req] \in SentPcs /\ call'[c.req] = call[c.req]
        BY <1>1, <4>1, <4>2 DEF Sent, Advances
      <4>4. ASSUME NEW s \in Members(lockQueue') PROVE c.req <= s
        <5>1. CASE s \in Members(lockQueue)
          BY <4>1, <5>1 DEF Sent
        <5>2. CASE s = r /\ pc[r] = "idle"
          <6>1. pc[c.req] # "idle"
            BY <4>1 DEF Sent, SentPcs, Finals
          <6> QED BY <4>1, <5>2, <6>1, Newest, WireTyped DEF InOrder
        <5> QED BY <5>1, <5>2 DEF Queues
      <4> QED BY <4>1, <4>3, <4>4 DEF Sent, Members
    <3>2. CASE c \notin Members(wire[p])
      BY <1>1, <2>1, <3>2 DEF Sends, Sent, Members
    <3> QED BY <3>1, <3>2
  <2> QED BY <2>1 DEF Wired, Sends, Members
<1> QED BY <1>2, <1>3, <1>4

\* Whatever a handler does, an acknowledged pick stays before the others.
LEMMA BeforeKept ==
  ASSUME IInv, IInv', InOrder, NEW r \in Requests, NEW step, Advances(r, step), Queues(r, step),
         Sends(r, step), NEW a \in Requests, AckedPick(a),
         boundAgent # None => /\ boundAgent' # None /\ backend' = backend
                              /\ \A p \in Requests : proc'[p].selector = proc[p].selector
  PROVE  Before(a)' /\ AckedPick(a)' /\ call'[a] = call[a]
<1>1. pc'[r] = step /\ \A s \in Requests : s # r => pc'[s] = pc[s]
  BY Types DEF Advances, Goto
<1>2. a # r /\ pc[a] # "idle"
  BY DEF AckedPick, Advances, Finals
<1>3. AckedPick(a)' /\ call'[a] = call[a]
  BY <1>1, <1>2 DEF AckedPick, Advances
<1>4. Before(a) /\ boundAgent # None /\ backend' = backend
  BY DEF InOrder, Acked, Before
<1>5. pc[r] = "idle" => a < r
  BY <1>2, Newest DEF InOrder
<1>6. \A s \in Members(lockQueue') : a < s
  BY <1>4, <1>5 DEF Before, Queues
<1>7. ASSUME backend # None, ShowsModels(backend), NEW c \in Members(wire'[backend])
      PROVE  a < c.req
  <2>1. backend \in Requests
    BY <1>7, Types
  <2>2. CASE c \in Members(wire[backend])
    BY <1>4, <1>7, <2>2 DEF Before
  <2>3. CASE c \notin Members(wire[backend])
    BY <1>4, <1>5, <1>7, <2>1, <2>3 DEF Sends, Before
  <2> QED BY <2>2, <2>3
<1>8. backend # None => (ShowsModels(backend)' <=> ShowsModels(backend))
  BY <1>4, Types DEF ShowsModels
<1> QED BY <1>3, <1>4, <1>6, <1>7, <1>8 DEF Before, Members

\* Nobody is acknowledged anew.
LEMMA AcksKept ==
  ASSUME IInv, IInv', InOrder, NEW r \in Requests, NEW step, Advances(r, step), Queues(r, step),
         Sends(r, step), ~(call'[r].op = "pick" /\ step = "ok"),
         boundAgent # None => /\ boundAgent' # None /\ backend' = backend
                              /\ \A p \in Requests : /\ proc'[p].model = proc[p].model
                                                     /\ proc'[p].selector = proc[p].selector
  PROVE  Acked' /\ Latest'
<1>1. pc'[r] = step /\ \A s \in Requests : s # r => pc'[s] = pc[s]
  BY Types DEF Advances, Goto
<1>2. ~AckedPick(r) /\ ~AckedPick(r)'
  BY <1>1 DEF AckedPick, Advances, Finals
<1>3. \A a \in Requests : AckedPick(a)' => AckedPick(a)
  BY <1>1, <1>2 DEF AckedPick, Advances
<1>4. \A a \in Requests : AckedPick(a) => Before(a)' /\ AckedPick(a)' /\ call'[a] = call[a]
  BY BeforeKept
<1>5. Acked'
  BY <1>3, <1>4 DEF Acked
<1>6. ASSUME NEW a \in Requests, AckedPick(a)', \A s \in Requests : AckedPick(s)' => s <= a,
             (backend # None /\ ShowsModels(backend))'
      PROVE  (proc[backend].model = call[a].pick.model)'
  <2>1. AckedPick(a) /\ \A s \in Requests : AckedPick(s) => s <= a
    BY <1>3, <1>4, <1>6
  <2>2. boundAgent # None
    BY <2>1 DEF InOrder, Acked, Before
  <2>3. /\ backend' = backend /\ backend \in Requests
        /\ proc'[backend].model = proc[backend].model
        /\ proc'[backend].selector = proc[backend].selector
    BY <1>6, <2>2, Types
  <2>4. ShowsModels(backend)
    BY <1>6, <2>3 DEF ShowsModels
  <2>5. proc[backend].model = call[a].pick.model
    BY <2>1, <2>3, <2>4, Types DEF InOrder, Latest
  <2> QED BY <1>4, <2>1, <2>3, <2>5
<1> QED BY <1>5, <1>6 DEF Latest

\* The pick of r is acknowledged: it is the last one, and the wrapper runs its model.
LEMMA AckAdded ==
  ASSUME IInv, IInv', InOrder, NEW r \in Requests, Advances(r, "ok"), Queues(r, "ok"),
         Sends(r, "ok"), Before(r)', call'[r].op = "pick",
         boundAgent # None => /\ boundAgent' # None /\ backend' = backend
                              /\ \A p \in Requests : proc'[p].selector = proc[p].selector,
         (backend # None /\ ShowsModels(backend))' =>
            /\ (proc[backend].model = call[r].pick.model)'
            /\ \A a \in Requests : AckedPick(a) => a < r
  PROVE  Acked' /\ Latest'
<1>1. pc'[r] = "ok" /\ \A s \in Requests : s # r => pc'[s] = pc[s]
  BY Types DEF Advances, Goto
<1>2. \A a \in Requests : a # r /\ AckedPick(a)' => AckedPick(a)
  BY <1>1 DEF AckedPick, Advances
<1>3. \A a \in Requests : AckedPick(a) => Before(a)' /\ AckedPick(a)' /\ call'[a] = call[a]
  BY BeforeKept
<1>4. Acked'
  BY <1>2, <1>3 DEF Acked
<1>5. ASSUME NEW a \in Requests, AckedPick(a)', \A s \in Requests : AckedPick(s)' => s <= a,
             (backend # None /\ ShowsModels(backend))'
      PROVE  (proc[backend].model = call[a].pick.model)'
  <2>1. AckedPick(r)'
    BY <1>1 DEF AckedPick
  <2>2. a = r
    BY <1>2, <1>5, <2>1, WireTyped
  <2> QED BY <1>5, <2>2
<1> QED BY <1>4, <1>5 DEF Latest

\* A step that touches neither the backend nor what the others have been told.
Steady(r) ==
    /\ conn' = conn
    /\ ~Binding(r) => UNCHANGED <<backend, modelConfig, boundAgent>>
    /\ boundAgent # None => \A p \in Requests : proc'[p].selector = proc[p].selector
    /\ \A p \in Requests \ {r} : proc'[p].asked = proc[p].asked

\* What the handlers have been told stays true.
LEMMA ToldKept ==
  ASSUME IInv, IInv', Settled, InOrder, NEW r \in Requests, NEW step, Advances(r, step),
         Steady(r), Told(r)',
         Binding(r) /\ boundAgent' # None /\ modelConfig' = None => ~ShowsModels(backend)'
  PROVE  (\A s \in Requests : Told(s)') /\ Settable'
<1>1. pc'[r] = step /\ \A s \in Requests : s # r => pc'[s] = pc[s]
  BY Types DEF Advances, Goto
<1>2. ASSUME NEW s \in Requests, s # r PROVE Told(s)'
  <2>1. Told(s) /\ pc'[s] = pc[s] /\ call'[s] = call[s] /\ via'[s] = via[s]
        /\ proc'[s].asked = proc[s].asked
    BY <1>1, <1>2 DEF InOrder, Advances, Steady
  <2>2. CASE Binding(r)
    <3>1. boundAgent = None /\ ~Binding(s)
      BY <1>2, <2>2, Alone
    <3>2. pc[s] \notin {"repick"} \cup BindPcs
      BY <2>1, <3>1 DEF Told, Binding
    <3> QED BY <2>1, <3>2 DEF Told, Binding, BindPcs
  <2>3. CASE ~Binding(r)
    BY <2>1, <2>3 DEF Told, Binding, Steady
  <2> QED BY <2>2, <2>3
<1>3. Settable'
  <2>1. CASE Binding(r)
    BY <2>1 DEF Settable
  <2>2. CASE ~Binding(r)
    <3>1. UNCHANGED <<conn, backend, modelConfig, boundAgent>>
      BY <2>2 DEF Steady
    <3>2. ASSUME conn = "open", boundAgent # None, modelConfig = None PROVE ~ShowsModels(backend)'
      <4>1. backend \in Requests /\ ~ShowsModels(backend)
        BY <3>2, Types DEF Settled, Bound, InOrder, Settable
      <4>2. proc'[backend].selector = proc[backend].selector
        BY <3>2, <4>1 DEF Steady
      <4> QED BY <3>1, <4>1, <4>2 DEF ShowsModels
    <3> QED BY <3>1, <3>2 DEF Settable
  <2> QED BY <2>1, <2>2
<1> QED BY <1>2, <1>3

\* A step that acknowledges no pick.
LEMMA QuietStep ==
  ASSUME IInv, IInv', Settled, InOrder, NEW r \in Requests, NEW step, Advances(r, step),
         Queues(r, step), Sends(r, step), Steady(r), Told(r)',
         ~(call'[r].op = "pick" /\ step = "ok"),
         boundAgent # None => \A p \in Requests : proc'[p].model = proc[p].model,
         Binding(r) /\ boundAgent' # None /\ modelConfig' = None => ~ShowsModels(backend)'
  PROVE  InOrder'
<1>1. boundAgent # None => ~Binding(r)
  BY Alone
<1>2. Acked' /\ Latest'
  BY <1>1, AcksKept DEF Steady
<1> QED BY <1>2, OrderKept, ToldKept DEF InOrder

\* A step that acknowledges the pick of r.
LEMMA AckStep ==
  ASSUME IInv, IInv', Settled, InOrder, NEW r \in Requests, Advances(r, "ok"),
         Queues(r, "ok"), Sends(r, "ok"), Steady(r), call'[r].op = "pick", Before(r)',
         (backend # None /\ ShowsModels(backend))' =>
            /\ (proc[backend].model = call[r].pick.model)'
            /\ \A a \in Requests : AckedPick(a) => a < r,
         Binding(r) /\ boundAgent' # None /\ modelConfig' = None => ~ShowsModels(backend)'
  PROVE  InOrder'
<1>1. boundAgent # None => ~Binding(r)
  BY Alone
<1>2. Acked' /\ Latest'
  BY <1>1, AckAdded DEF Steady
<1>3. Told(r)'
  <2>1. pc'[r] = "ok"
    BY Types DEF Advances, Goto
  <2> QED BY <2>1 DEF Told, Binding, BindPcs
<1> QED BY <1>2, <1>3, OrderKept, ToldKept DEF InOrder

-----------------------------------------------------------------------------
(* The lock queue and the wires.                                            *)

\* Who waits for the lock, and who has it, is not done yet.
LEMMA QueueKept ==
  ASSUME IInv, InOrder, NEW r \in Requests, NEW step, lockQueue' = lockQueue,
         pc[r] \notin {"lock"} \cup BindPcs \/ step \in {"lock"} \cup BindPcs
  PROVE  Queues(r, step)
BY DEF InOrder, Queued, Queues, Members

\* A request that arrives queues behind the others.
LEMMA QueueJoined ==
  ASSUME IInv, InOrder, NEW r \in Requests, pc[r] = "idle", lockQueue' = Append(lockQueue, r)
  PROVE  Queues(r, "lock")
<1>1. /\ lockQueue \in Seq(Requests) /\ Members(lockQueue') = Members(lockQueue) \cup {r}
      /\ Members(lockQueue) \subseteq Requests
  BY WireTyped, AppendOf
<1>2. \A s \in Members(lockQueue) : s < r
  BY <1>1, Newest DEF InOrder, Queued, BindPcs
<1>3. Rising(lockQueue')
  BY <1>1, <1>2, RisingAppend DEF InOrder, Queued
<1> QED BY <1>1, <1>3 DEF Queues, Members

\* r runs with the lock in reach: nobody holds it, or r is the next to get it.
Turn(r, waiters) ==
    \/ pc[r] = "idle" /\ lockQueue = <<>> /\ waiters = <<>>
    \/ lockQueue # <<>> /\ Head(lockQueue) = r /\ waiters = Tail(lockQueue)

\* Whether it takes the lock or passes it on, those that wait come after it.
LEMMA QueueTurn ==
  ASSUME IInv, InOrder, NEW r \in Requests, NEW waiters, Turn(r, waiters)
  PROVE  /\ \A s \in Members(waiters) : r < s
         /\ lockQueue' = waiters => \A step : Queues(r, step)
         /\ lockQueue' = <<r>> \o waiters =>
              \A step : step \in {"lock"} \cup BindPcs => Queues(r, step)
<1>1. CASE pc[r] = "idle" /\ lockQueue = <<>> /\ waiters = <<>>
  <2>1. Members(waiters) = {}
    BY <1>1 DEF Members
  <2>2. lockQueue' = waiters => Rising(lockQueue') /\ Members(lockQueue') = {}
    BY <1>1 DEF Rising, Members
  <2>3. <<r>> \o waiters = <<r>>
    BY <1>1
  <2>4. lockQueue' = <<r>> => Rising(lockQueue') /\ Members(lockQueue') = {r}
    BY DEF Rising, Members
  <2> QED BY <1>1, <2>1, <2>2, <2>3, <2>4 DEF Queues, Members
<1>2. CASE lockQueue # <<>> /\ Head(lockQueue) = r /\ waiters = Tail(lockQueue)
  <2>1. lockQueue \in Seq(Requests) /\ Rising(lockQueue) /\ Requests \subseteq Int
    BY WireTyped DEF InOrder, Queued
  <2>2. Rising(waiters) /\ \A s \in Members(waiters) : r < s
    BY <1>2, <2>1, RisingTail
  <2>3. /\ waiters \in Seq(Requests)
        /\ \A s \in Members(waiters) : s \in Members(lockQueue) /\ s \in Requests
    BY <1>2, <2>1, TailOf, WireTyped
  <2>4. r \notin Members(waiters)
    BY <2>1, <2>2
  <2>5. <<r>> \o waiters = lockQueue
    BY <1>2, <2>1
  <2>6. lockQueue' = waiters => \A step : Queues(r, step)
    BY <2>2, <2>3, <2>4 DEF Queues, Members
  <2> QED BY <2>1, <2>2, <2>5, <2>6 DEF Queues, Members
<1> QED BY <1>1, <1>2 DEF Turn

\* The head of the queue came first.
LEMMA HeadFirst ==
  ASSUME IInv, InOrder, lockQueue # <<>>
  PROVE  \A s \in Members(lockQueue) : Head(lockQueue) <= s
<1>1. lockQueue \in Seq(Requests) /\ Rising(lockQueue) /\ Requests \subseteq Int
  BY WireTyped DEF InOrder, Queued
<1>2. /\ Head(lockQueue) = lockQueue[1] /\ 1 \in DOMAIN lockQueue
      /\ DOMAIN lockQueue \subseteq Nat \ {0}
  BY <1>1
<1>3. \A i \in DOMAIN lockQueue : lockQueue[i] \in Requests
  BY <1>1
<1>4. ASSUME NEW i \in DOMAIN lockQueue PROVE lockQueue[1] <= lockQueue[i]
  <2>1. i = 1 \/ lockQueue[1] < lockQueue[i]
    BY <1>1, <1>2 DEF Rising
  <2>2. lockQueue[1] \in Int /\ lockQueue[i] \in Int
    BY <1>1, <1>2, <1>3
  <2> QED BY <2>1, <2>2
<1>5. \A s \in Members(lockQueue) : \E i \in DOMAIN lockQueue : s = lockQueue[i]
  BY DEF Members
<1> QED BY <1>2, <1>4, <1>5

\* Nothing is sent, or the next call is taken up.
LEMMA SendsNothing ==
  ASSUME IInv, InOrder, NEW r \in Requests, NEW step,
         \/ wire' = wire
         \/ \E p \in Requests : wire[p] # <<>> /\ wire' = [wire EXCEPT ![p] = Tail(@)]
  PROVE  Sends(r, step)
<1>1. ASSUME NEW p \in Requests
      PROVE  Ordered(wire'[p]) /\ \A c \in Members(wire'[p]) : c \in Members(wire[p])
  <2>1. Ordered(wire[p]) /\ wire[p] \in Seq(SetModelCalls)
    BY WireTyped DEF InOrder, Wired
  <2>2. CASE wire'[p] = wire[p]
    BY <2>1, <2>2 DEF Ordered, Members
  <2>3. CASE wire[p] # <<>> /\ wire'[p] = Tail(wire[p])
    <3>1. Ordered(Tail(wire[p]))
      BY <2>1, <2>3, OrderedTail
    <3>2. \A c \in Members(Tail(wire[p])) : c \in Members(wire[p])
      BY <2>1, <2>3, TailOf
    <3> QED BY <2>3, <3>1, <3>2 DEF Ordered, Members
  <2>4. wire \in [Requests -> Seq(SetModelCalls)]
    BY DEF IInv, TypeOK, WrapperTypes
  <2> QED BY <2>2, <2>3, <2>4
<1> QED BY <1>1 DEF Sends

\* What r sends comes after all that is on the wire.
LEMMA SendsLast ==
  ASSUME IInv, IInv', InOrder, NEW r \in Requests, NEW step, NEW m \in Models,
         backend \in Requests, SendModel(r, m), step \in SentPcs, pc[r] \notin SentPcs,
         pc[r] = "idle" \/ r \in Members(lockQueue),
         call'[r].op = "pick" => m = call'[r].pick.model,
         \A s \in Members(lockQueue') : r <= s
  PROVE  /\ Sends(r, step) /\ via'[r] = backend /\ \A s \in Requests : s # r => via'[s] = via[s]
<1> DEFINE d == [req |-> r, model |-> m]
<1>1. d \in SetModelCalls /\ wire \in [Requests -> Seq(SetModelCalls)]
  BY DEF SetModelCalls, IInv, TypeOK, WrapperTypes
<1>2. /\ wire'[backend] = Append(wire[backend], d)
      /\ \A p \in Requests : p # backend => wire'[p] = wire[p]
  BY <1>1 DEF SendModel
<1>3. \A p \in Requests : Ordered(wire[p]) /\ \A c \in Members(wire[p]) : Sent(c)
  BY DEF InOrder, Wired
<1>4. ASSUME NEW c \in Members(wire[backend]) PROVE c.req < r
  <2>1. c.req \in Requests /\ Sent(c)
    BY <1>3, <1>4, WireTyped
  <2>2. pc[c.req] # "idle" /\ c.req # r
    BY <2>1 DEF Sent, SentPcs, Finals
  <2>3. CASE pc[r] = "idle"
    BY <2>1, <2>2, <2>3, Newest DEF InOrder
  <2>4. CASE r \in Members(lockQueue)
    BY <2>1, <2>2, <2>4, WireTyped DEF Sent
  <2> QED BY <2>3, <2>4
<1>5. /\ wire[backend] \in Seq(SetModelCalls)
      /\ Members(wire'[backend]) = Members(wire[backend]) \cup {d}
  BY <1>1, <1>2, AppendOf
<1>6. Ordered(wire'[backend])
  BY <1>1, <1>2, <1>3, <1>4, <1>5, OrderedAppend
<1>7. ASSUME NEW p \in Requests
      PROVE  Ordered(wire'[p]) /\ \A c \in Members(wire'[p]) : c \in Members(wire[p]) \/ c = d
  <2>1. CASE p = backend
    BY <1>5, <1>6, <2>1 DEF Members
  <2>2. CASE p # backend
    BY <1>2, <1>3, <2>2 DEF Members
  <2> QED BY <2>1, <2>2
<1>8. via'[r] = backend /\ \A s \in Requests : s # r => via'[s] = via[s]
  BY WireTyped DEF SendModel
<1> QED BY <1>7, <1>8 DEF Sends

-----------------------------------------------------------------------------
(* The requests and their answers.                                          *)

\* A request that has just arrived, or has waited for the lock.
Asks(r) ==
    /\ \A s \in Requests : s # r => call'[s] = call[s] /\ via'[s] = via[s]
    /\ \/ pc[r] = "idle" /\ \A s \in Requests : s < r => pc[s] # "idle"
       \/ pc[r] = "lock" /\ call'[r] = call[r]

\* Wherever it goes from there, it advances.
LEMMA AsksAdvances ==
  ASSUME NEW r \in Requests, NEW step \in Pcs \ {"idle"}, Goto(r, step), Asks(r)
  PROVE  Advances(r, step)
BY DEF Asks, Advances, Finals, SentPcs

\* A handler outside the bind that leaves backend and wrappers alone is steady.
LEMMA Unmoved ==
  ASSUME NEW r \in Requests, UNCHANGED <<conn, backend, modelConfig, boundAgent, proc>>
  PROVE  Steady(r) /\ (boundAgent # None => \A p \in Requests : proc'[p].model = proc[p].model)
BY DEF Steady

\* An outcome is no longer told anything.
LEMMA ToldOver ==
  ASSUME IInv, NEW r \in Requests, NEW step \in {"lock"} \cup Finals, Goto(r, step)
  PROVE  Told(r)'
<1>1. pc'[r] = step
  BY Types DEF Goto
<1> QED BY <1>1 DEF Told, Binding, BindPcs, Finals

\* StartBind: r takes the lock for the bind.
LEMMA StartOrdered ==
  ASSUME IInv, IInv', Settled, InOrder, NEW r \in Requests, NEW pick \in Picks, NEW waiters,
         Turn(r, waiters), Asks(r), StartBind(r, pick, waiters), boundAgent = None, ~Binding(r),
         UNCHANGED <<conn, backend, modelConfig, boundAgent>>,
         call'[r].op = "pick" => call'[r].pick = pick
  PROVE  InOrder'
<1>1. Goto(r, "spawn") /\ lockQueue' = <<r>> \o waiters /\ UNCHANGED <<via, wire>>
  BY DEF StartBind
<1>2. Advances(r, "spawn") /\ Queues(r, "spawn") /\ Sends(r, "spawn")
  BY <1>1, AsksAdvances, QueueTurn, SendsNothing DEF Pcs, BindPcs
<1>3. proc'[r].asked = pick.model /\ \A p \in Requests \ {r} : proc'[p] = proc[p]
  BY Types DEF StartBind
<1>4. Told(r)'
  <2>1. pc'[r] = "spawn"
    BY <1>1, Types DEF Goto
  <2> QED BY <1>3, <2>1 DEF Told
<1>5. Steady(r)
  BY <1>3 DEF Steady
<1> QED BY <1>2, <1>4, <1>5, QuietStep

\* A handler whose turn it is gives up, forwards, or queues.
LEMMA PassOrdered ==
  ASSUME IInv, IInv', Settled, InOrder, NEW r \in Requests, NEW step \in {"call", "error"},
         Asks(r), Goto(r, step), ~Binding(r), wire' = wire, Queues(r, step),
         UNCHANGED <<conn, backend, modelConfig, boundAgent, proc>>,
         step = "call" => call'[r].op # "pick"
  PROVE  InOrder'
<1>1. Advances(r, step) /\ Sends(r, step)
  BY AsksAdvances, SendsNothing DEF Pcs, Finals
<1>2. Told(r)'
  <2>1. pc'[r] = step
    BY Types DEF Goto
  <2> QED BY <2>1 DEF Told, Binding, BindPcs
<1> QED BY <1>1, <1>2, Unmoved, QuietStep

\* _select_model under the lock.
LEMMA SelectOrdered ==
  ASSUME IInv, IInv', Settled, InOrder, NEW r \in Requests, NEW pick \in Picks, NEW waiters,
         Turn(r, waiters), Asks(r), SelectModel(r, pick, waiters), conn = "open", ~Binding(r),
         pc[r] # "idle" => pc[r] = "lock",
         UNCHANGED <<conn, backend, modelConfig, boundAgent>>,
         call'[r].op = "pick", call'[r].pick = pick
  PROVE  InOrder'
<1>1. CASE boundAgent = None /\ StartBind(r, pick, waiters)
  BY <1>1, StartOrdered
<1>2. CASE lockQueue' = waiters /\ Goto(r, "error") /\ UNCHANGED <<wire, proc>>
  BY <1>2, QueueTurn, PassOrdered
<1>3. CASE boundAgent = pick.agent /\ lockQueue' = waiters /\ proc' = proc /\ modelConfig = None
           /\ Goto(r, "ok") /\ wire' = wire
  <2>1. Advances(r, "ok") /\ Queues(r, "ok") /\ Sends(r, "ok") /\ Steady(r)
    BY <1>3, AsksAdvances, QueueTurn, SendsNothing, Unmoved DEF Pcs, Finals
  <2>2. boundAgent # None /\ ~ShowsModels(backend)
    BY <1>3, Types DEF Picks, InOrder, Settable
  <2>3. ~ShowsModels(backend)'
    BY <1>3, <2>2 DEF ShowsModels
  <2>4. Before(r)'
    <3>1. \A s \in Members(waiters) : r < s
      BY QueueTurn
    <3>2. Members(lockQueue)' = Members(waiters) /\ boundAgent' # None
      BY <1>3, <2>2 DEF Members
    <3> QED BY <2>3, <3>1, <3>2 DEF Before
  <2> QED BY <2>1, <2>3, <2>4, AckStep
<1>4. CASE boundAgent = pick.agent /\ lockQueue' = waiters /\ proc' = proc /\ modelConfig # None
           /\ RequireBound /\ Goto(r, "repick") /\ SendModel(r, pick.model)
  <2>0. Advances(r, "repick")
    BY <1>4, AsksAdvances DEF Pcs
  <2>1. Queues(r, "repick") /\ Steady(r)
    BY <1>4, QueueTurn, Unmoved
  <2>2. \A s \in Members(lockQueue') : r <= s
    <3>1. waiters \in Seq(Requests)
      BY <1>4 DEF IInv, TypeOK, TaskTypes
    <3>2. \A s \in Members(waiters) : s \in Requests
      BY <3>1 DEF Members
    <3>3. \A s \in Members(waiters) : r < s
      BY QueueTurn
    <3> QED BY <1>4, <3>2, <3>3, WireTyped
  <2>3. pc[r] = "idle" \/ r \in Members(lockQueue)
    BY TailOf, WireTyped DEF Turn
  <2>4. /\ pick.model \in Models /\ backend \in Requests /\ "repick" \in SentPcs
        /\ pc[r] \notin SentPcs
    BY <1>4, Types DEF Picks, RequireBound, SentPcs, Finals
  <2>5. Sends(r, "repick") /\ via'[r] = backend
    BY <1>4, <2>2, <2>3, <2>4, SendsLast
  <2>6. Told(r)'
    <3>1. pc'[r] = "repick" /\ boundAgent' # None
      BY <1>4, Types DEF Goto, Picks
    <3> QED BY <2>5, <3>1 DEF Told, Binding, BindPcs
  <2> QED BY <1>4, <2>0, <2>1, <2>5, <2>6, QuietStep, Unmoved
<1> QED BY <1>1, <1>2, <1>3, <1>4 DEF SelectModel, SetBackendModel

\* _ensure_bound_for_default under the lock, and the rest of prompt.
LEMMA EnsureOrdered ==
  ASSUME IInv, IInv', Settled, InOrder, NEW r \in Requests, NEW waiters, Turn(r, waiters), Asks(r),
         EnsureBoundForDefault(r, waiters), conn = "open", ~Binding(r),
         UNCHANGED <<conn, backend, modelConfig, boundAgent>>, call'[r].op # "pick"
  PROVE  InOrder'
<1>1. CASE lockQueue' = waiters /\ (Forward(r) \/ Goto(r, "error")) /\ UNCHANGED <<wire, proc>>
  <2>1. PICK step \in {"call", "error"} : Goto(r, step)
    BY <1>1 DEF Forward
  <2> QED BY <1>1, <2>1, QueueTurn, PassOrdered
<1>2. CASE backend = None /\ aggregated # <<>> /\ StartBind(r, Head(aggregated), waiters)
  <2>1. Head(aggregated) \in Picks
    BY <1>2, RosterAssumption DEF IInv, TypeOK, ProxyTypes
  <2> QED BY <1>2, <2>1, Unbound, StartOrdered
<1> QED BY <1>1, <1>2 DEF EnsureBoundForDefault

\* A request that arrives.
LEMMA RequestOrdered ==
  ASSUME IInv, IInv', Settled, InOrder, Single, NEW r \in Requests, Request(r)
  PROVE  InOrder'
<1>1. /\ pc[r] = "idle" /\ conn = "open" /\ ~Binding(r)
      /\ \A s \in Requests : s < r => pc[s] # "idle"
      /\ \A s \in Requests : s # r => call'[s] = call[s]
  <2>1. PICK op, pick : Arrives(r, op, pick)
    BY DEF Request, NewSession, PickModel, Prompt, ForwardOnly, CloseSession
  <2>2. call \in [Requests -> [op : Ops \cup {None}, pick : Picks \cup {None}]]
    BY DEF IInv, TypeOK, TaskTypes
  <2>3. \A s \in Requests : s < r => s \in 1 .. (r - 1)
    BY RequestsAssumption DEF Requests
  <2> QED BY <2>1, <2>2, <2>3 DEF Arrives, Binding, BindPcs
<1>2. UNCHANGED <<conn, backend, modelConfig, boundAgent>>
  BY DEF Request, NewSession, PickModel, Prompt, ForwardOnly, CloseSession, backendVars
<1>3. \A op, pick : Arrives(r, op, pick) => call'[r].op = op /\ call'[r].pick = pick
  BY DEF Arrives, IInv, TypeOK, TaskTypes
<1>4. (\A s \in Requests : s # r => via'[s] = via[s]) => Asks(r)
  BY <1>1 DEF Asks
<1>5. lockQueue = <<>> => Turn(r, <<>>)
  BY <1>1 DEF Turn
<1>6. lockQueue' = lockQueue => \A step : Queues(r, step)
  BY <1>1, QueueKept DEF BindPcs
<1>7. ASSUME AnswersAtOnce(r, "error") PROVE InOrder'
  BY <1>1, <1>2, <1>4, <1>6, <1>7, PassOrdered DEF AnswersAtOnce
<1>8. ASSUME WaitsForLock(r) PROVE InOrder'
  <2>1. Goto(r, "lock") /\ lockQueue' = Append(lockQueue, r) /\ UNCHANGED <<via, proc, wire>>
    BY <1>8 DEF WaitsForLock
  <2>2. Advances(r, "lock") /\ Queues(r, "lock") /\ Sends(r, "lock") /\ Told(r)'
    BY <1>1, <1>4, <2>1, AsksAdvances, QueueJoined, SendsNothing, ToldOver DEF Pcs
  <2> QED BY <1>1, <1>2, <2>1, <2>2, Unmoved, QuietStep
<1>9. CASE NewSession(r)
  <2>1. PICK step \in {"roster", "error"} : Goto(r, step)
    BY <1>9 DEF NewSession
  <2>2. call'[r].op = "new" /\ UNCHANGED <<lockQueue, via, proc, wire>>
    BY <1>3, <1>9 DEF NewSession
  <2>3. Advances(r, step) /\ Queues(r, step) /\ Sends(r, step)
    BY <1>4, <1>6, <2>1, <2>2, AsksAdvances, SendsNothing DEF Pcs, Finals
  <2>4. Told(r)'
    <3>1. pc'[r] = step
      BY <2>1, Types DEF Goto
    <3> QED BY <2>2, <3>1 DEF Told, Binding, BindPcs
  <2> QED BY <1>1, <1>2, <2>2, <2>3, <2>4, Unmoved, QuietStep
<1>10. CASE PickModel(r)
  <2>1. PICK pick \in Picks \cup {None} :
          /\ Arrives(r, "pick", pick)
          /\ \/ AnswersAtOnce(r, "error") \/ WaitsForLock(r)
             \/ pick # None /\ lockQueue = <<>> /\ SelectModel(r, pick, <<>>)
    BY <1>10 DEF PickModel
  <2>2. CASE pick # None /\ lockQueue = <<>> /\ SelectModel(r, pick, <<>>)
    <3>1. \A s \in Requests : s # r => via'[s] = via[s]
      BY <2>2, WireTyped DEF SelectModel, StartBind, SetBackendModel, SendModel
    <3> QED BY <1>1, <1>2, <1>3, <1>4, <1>5, <2>1, <2>2, <3>1, SelectOrdered
  <2> QED BY <1>7, <1>8, <2>1, <2>2
<1>11. CASE Prompt(r)
  <2>1. /\ Arrives(r, "prompt", None)
        /\ \/ AnswersAtOnce(r, "error") \/ WaitsForLock(r)
           \/ lockQueue = <<>> /\ EnsureBoundForDefault(r, <<>>)
    BY <1>11 DEF Prompt
  <2>2. CASE lockQueue = <<>> /\ EnsureBoundForDefault(r, <<>>)
    <3>1. \A s \in Requests : s # r => via'[s] = via[s]
      BY <2>2, WireTyped DEF EnsureBoundForDefault, StartBind, Forward
    <3>2. call'[r].op # "pick"
      BY <1>3, <2>1
    <3> QED BY <1>1, <1>2, <1>4, <1>5, <2>2, <3>1, <3>2, EnsureOrdered
  <2> QED BY <1>7, <1>8, <2>1, <2>2
<1>12. CASE ForwardOnly(r)
  <2>1. PICK step \in {"call", "error"} : Goto(r, step)
    BY <1>12 DEF ForwardOnly, Forward
  <2>2. call'[r].op # "pick" /\ UNCHANGED <<lockQueue, proc, wire>>
    BY <1>3, <1>12 DEF ForwardOnly
  <2>3. \A s \in Requests : s # r => via'[s] = via[s]
    BY <1>12, WireTyped DEF ForwardOnly, Forward
  <2> QED BY <1>1, <1>2, <1>4, <1>6, <2>1, <2>2, <2>3, PassOrdered
<1>13. ~CloseSession(r)
  BY DEF CloseSession, Arrives, Single
<1> QED BY <1>9, <1>10, <1>11, <1>12, <1>13 DEF Request

\* The pick of r has been taken up by the wrapper it was sent to.
LEMMA TakenUp ==
  ASSUME IInv, InOrder, NEW r \in Requests, via[r] \in Requests, NextOnWire(r)
  PROVE  /\ wire[via[r]] # <<>> /\ Head(wire[via[r]]) \in Members(wire[via[r]])
         /\ \A s \in Members(lockQueue) : r <= s
         /\ call[r].op = "pick" => Head(wire[via[r]]).model = call[r].pick.model
         /\ \A c \in Members(Tail(wire[via[r]])) : r < c.req
<1> DEFINE w == wire[via[r]]
<1>1. w \in Seq(SetModelCalls) /\ w # <<>> /\ Head(w).req = r
  BY WireTyped DEF NextOnWire
<1>2. Head(w) \in Members(w)
  BY <1>1, TailOf
<1>3. Ordered(w) /\ Sent(Head(w))
  BY <1>2 DEF InOrder, Wired
<1>4. \A c \in Members(Tail(w)) : r < c.req
  BY <1>1, <1>3, OrderedTail
<1> QED BY <1>1, <1>2, <1>3, <1>4 DEF Sent

\* A handler gets its roster, the lock, or the answer of the backend.
LEMMA AnswerOrdered ==
  ASSUME IInv, IInv', Settled, InOrder, NEW r \in Requests,
         \/ SessionListed(r) \/ Acquire(r) \/ Repicked(r) \/ CallAnswered(r)
         \/ CloseAnswered(r) \/ Closed(r)
  PROVE  InOrder'
<1>1. pc[r] \in {"roster", "lock", "repick", "call"}
  BY DEF SessionListed, Acquire, Repicked, CallAnswered, CloseAnswered, Closed, Settled,
         NoneCloses
<1>2. ~Binding(r) /\ conn = "open"
  BY <1>1, ActiveOpen DEF Binding, BindPcs, Active, Finals
<1>3. UNCHANGED <<conn, backend, modelConfig, boundAgent, call>>
  BY <1>1 DEF SessionListed, Acquire, Repicked, CallAnswered, CloseAnswered, Closed, backendVars,
              taskVars
<1>4. ASSUME NEW step \in {"ok", "error"}, Goto(r, step), pc[r] # "lock",
             UNCHANGED <<via, lockQueue>>
      PROVE  Advances(r, step) /\ Queues(r, step) /\ Told(r)'
  BY <1>1, <1>3, <1>4, QueueKept, ToldOver DEF Advances, Pcs, Finals, SentPcs, BindPcs
<1>5. CASE SessionListed(r) \/ CallAnswered(r)
  <2>1. PICK step \in {"ok", "error"} : Goto(r, step)
    BY <1>5 DEF SessionListed, CallAnswered
  <2>2. UNCHANGED <<proc, via, wire, lockQueue>> /\ pc[r] \in {"roster", "call"}
    BY <1>5 DEF SessionListed, CallAnswered, taskVars
  <2>3. call'[r].op # "pick"
    BY <1>3, <2>2 DEF InOrder, Told
  <2> QED BY <1>2, <1>3, <1>4, <2>1, <2>2, <2>3, SendsNothing, Unmoved, QuietStep
<1>6. CASE Repicked(r)
  <2>1. UNCHANGED <<via, lockQueue>> /\ pc[r] = "repick"
    BY <1>6 DEF Repicked
  <2>2. /\ via[r] = backend /\ boundAgent # None /\ backend \in Requests
        /\ backend # None
    BY <1>2, <2>1, Types DEF InOrder, Told, Settled, Bound
  <2>3. CASE /\ Goto(r, "error") /\ proc' = proc
             /\ \/ wire' = wire
                \/ NextOnWire(r) /\ wire' = [wire EXCEPT ![via[r]] = Tail(@)]
    <3>1. Sends(r, "error")
      BY <2>2, <2>3, TakenUp, SendsNothing
    <3> QED BY <1>2, <1>3, <1>4, <2>1, <2>3, <3>1, Unmoved, QuietStep
  <2>4. CASE TakesModel(r) /\ Goto(r, "ok")
    <3>1. /\ NextOnWire(r) /\ wire' = [wire EXCEPT ![backend] = Tail(@)]
          /\ proc' = [proc EXCEPT ![backend].model = Head(wire[backend]).model]
      BY <2>2, <2>4 DEF TakesModel
    <3>2. /\ wire[backend] # <<>> /\ Head(wire[backend]) \in Members(wire[backend])
          /\ \A s \in Members(lockQueue) : r <= s
          /\ call[r].op = "pick" => Head(wire[backend]).model = call[r].pick.model
          /\ \A c \in Members(Tail(wire[backend])) : r < c.req
      BY <2>2, <3>1, TakenUp
    <3>3. Advances(r, "ok") /\ Queues(r, "ok") /\ Sends(r, "ok") /\ Told(r)'
      BY <1>4, <2>1, <2>2, <2>4, <3>1, <3>2, SendsNothing
    <3>4. /\ proc'[backend].model = Head(wire[backend]).model
          /\ \A p \in Requests : /\ proc'[p].selector = proc[p].selector
                                 /\ proc'[p].asked = proc[p].asked
      BY <2>2, <3>1, Types DEF Processes
    <3>5. Steady(r)
      BY <1>3, <3>4 DEF Steady
    <3>6. wire'[backend] = Tail(wire[backend])
      BY <2>2, <3>1 DEF IInv, TypeOK, WrapperTypes
    <3>7. r \notin Members(lockQueue)
      BY <2>1 DEF InOrder, Queued, BindPcs
    <3>8. \A s \in Members(lockQueue) : r < s
      BY <3>2, <3>7, WireTyped
    <3>9. Before(r)'
      BY <1>3, <2>1, <2>2, <3>2, <3>6, <3>8 DEF Before, Members
    <3>10. call'[r].op = "pick"
      BY <1>3, <2>1 DEF InOrder, Told
    <3>11. ASSUME ShowsModels(backend)', NEW a \in Requests, AckedPick(a) PROVE a < r
      <4>1. ShowsModels(backend) /\ Head(wire[backend]).req = r
        BY <1>3, <2>2, <3>1, <3>4, <3>11 DEF ShowsModels, NextOnWire
      <4> QED BY <2>2, <3>2, <3>11, <4>1 DEF InOrder, Acked, Before
    <3> QED BY <1>2, <1>3, <2>2, <3>2, <3>3, <3>4, <3>5, <3>9, <3>10, <3>11, AckStep
  <2> QED BY <1>6, <2>3, <2>4 DEF Repicked
<1>7. CASE Acquire(r)
  <2>1. Turn(r, Tail(lockQueue)) /\ pc[r] = "lock"
    BY <1>7 DEF Acquire, Turn
  <2>2. (\A s \in Requests : s # r => via'[s] = via[s]) => Asks(r)
    BY <1>3, <2>1 DEF Asks
  <2>3. CASE call[r].op = "pick" /\ SelectModel(r, call[r].pick, Tail(lockQueue))
    <3>1. call[r].pick \in Picks
      BY <2>1, <2>3 DEF IInv, PicksKept, PickKept
    <3>2. \A s \in Requests : s # r => via'[s] = via[s]
      BY <2>3, WireTyped DEF SelectModel, StartBind, SetBackendModel, SendModel
    <3> QED BY <1>2, <1>3, <2>1, <2>2, <2>3, <3>1, <3>2, SelectOrdered
  <2>4. CASE call[r].op = "prompt" /\ EnsureBoundForDefault(r, Tail(lockQueue))
    <3>1. \A s \in Requests : s # r => via'[s] = via[s]
      BY <2>4, WireTyped DEF EnsureBoundForDefault, StartBind, Forward
    <3>2. call'[r].op # "pick"
      BY <1>3, <2>4
    <3> QED BY <1>2, <1>3, <2>1, <2>2, <2>4, <3>1, <3>2, EnsureOrdered
  <2> QED BY <1>7, <2>3, <2>4 DEF Acquire
<1>8. ~CloseAnswered(r) /\ ~Closed(r)
  BY <1>1 DEF CloseAnswered, Closed
<1> QED BY <1>5, <1>6, <1>7, <1>8

-----------------------------------------------------------------------------
(* The bind.                                                                *)

\* The handler that binds goes on, or gives up and passes on the lock.
LEMMA BinderOrdered ==
  ASSUME IInv, IInv', Settled, InOrder, NEW r \in Requests, NEW step \in BindPcs \cup {"error"},
         Binding(r), Goto(r, step), Sends(r, step), UNCHANGED <<boundAgent, conn, call>>,
         \/ step \in BindPcs /\ lockQueue' = lockQueue
         \/ step = "error" /\ lockQueue' = Tail(lockQueue),
         pc[r] \in SentPcs => step \in SentPcs,
         \A s \in Requests : s # r => via'[s] = via[s],
         \A p \in Requests : proc'[p].asked = proc[p].asked,
         step = "model" => via'[r] = backend' /\ modelConfig' # None
  PROVE  InOrder'
<1>1. boundAgent = None
  BY Alone
<1>2. lockQueue # <<>> /\ Head(lockQueue) = r
  BY DEF IInv, LockHeld
<1>3. Turn(r, Tail(lockQueue))
  BY <1>2 DEF Turn
<1>4. Queues(r, step)
  BY <1>3, QueueTurn, QueueKept
<1>5. Advances(r, step)
  BY DEF Advances, Pcs, Binding, BindPcs, Finals
<1>6. Told(r)'
  <2>1. pc'[r] = step
    BY Types DEF Goto
  <2> QED BY <2>1 DEF InOrder, Told, BindPcs
<1>7. Steady(r)
  BY <1>1 DEF Steady
<1>8. step # "ok"
  BY DEF BindPcs
<1> QED BY <1>1, <1>4, <1>5, <1>6, <1>7, <1>8, QuietStep

\* The wrapper is bound, and the pick that asked for it acknowledged.
LEMMA SucceedsOrdered ==
  ASSUME IInv, IInv', Settled, InOrder, NEW r \in Requests, Binding(r), BindSucceeds(r),
         backend = r, UNCHANGED <<backend, conn, call>>, Sends(r, "ok"),
         \A step : Sends(r, "ok") /\ step \in {"call", "error"} => Sends(r, step),
         \A p \in Requests : proc'[p].asked = proc[p].asked,
         modelConfig' = None => ~ShowsModels(r)',
         call[r].op = "pick" /\ ShowsModels(r)' =>
            /\ proc'[r].model = call[r].pick.model
            /\ \A c \in Members(wire'[r]) : r < c.req
  PROVE  InOrder'
<1>1. boundAgent = None /\ boundAgent' # None
  BY Alone, Types DEF BindSucceeds, IInv, PicksKept, PickKept
<1>2. lockQueue # <<>> /\ Head(lockQueue) = r /\ lockQueue' = Tail(lockQueue)
  BY DEF IInv, LockHeld, BindSucceeds
<1>3. (\A step : Queues(r, step)) /\ \A s \in Members(lockQueue') : r < s
  <2>1. Turn(r, Tail(lockQueue))
    BY <1>2 DEF Turn
  <2>2. \A s \in Members(Tail(lockQueue)) : r < s
    BY <2>1, QueueTurn
  <2>3. \A step : Queues(r, step)
    BY <1>2, <2>1, QueueTurn
  <2> QED BY <1>2, <2>2, <2>3
<1>4. pc[r] # "idle" /\ pc[r] \notin Finals
  BY DEF Binding, BindPcs, Finals
<1>5. Steady(r)
  BY <1>1 DEF Steady
<1>6. ShowsModels(backend)' <=> ShowsModels(r)'
  BY DEF ShowsModels
<1>7. CASE call[r].op = "pick" /\ Goto(r, "ok") /\ via' = via
  <2>1. Advances(r, "ok")
    BY <1>4, <1>7 DEF Advances, Pcs, Finals, SentPcs
  <2>2. Before(r)'
    BY <1>1, <1>3, <1>6, <1>7 DEF Before, Members
  <2>3. \A a \in Requests : ~AckedPick(a)
    BY <1>1 DEF InOrder, Acked, Before
  <2> QED BY <1>3, <1>5, <1>6, <1>7, <2>1, <2>2, <2>3, AckStep
<1>8. ASSUME NEW step \in {"call", "error"}, call[r].op = "prompt", Goto(r, step),
             \A s \in Requests : s # r => via'[s] = via[s]
      PROVE  InOrder'
  <2>1. Advances(r, step)
    BY <1>4, <1>8 DEF Advances, Pcs, Finals, SentPcs
  <2>2. Told(r)'
    <3>1. pc'[r] = step
      BY <1>8, Types DEF Goto
    <3> QED BY <1>8, <3>1 DEF Told, Binding, BindPcs
  <2> QED BY <1>1, <1>3, <1>5, <1>6, <1>8, <2>1, <2>2, QuietStep
<1> QED BY <1>7, <1>8, WireTyped DEF BindSucceeds

\* Every step of the bind.
LEMMA BindOrdered ==
  ASSUME IInv, IInv', Settled, InOrder, NEW r \in Requests,
         \/ Spawned(r) \/ SpawnFails(r) \/ Initialized(r) \/ SessionOpened(r)
         \/ HandshakeFails(r) \/ ModelSet(r) \/ Unwound(r)
  PROVE  InOrder'
<1>1. Binding(r) /\ pc[r] \in BindPcs
  BY DEF Spawned, SpawnFails, Initialized, SessionOpened, HandshakeFails, ModelSet, Unwound,
         Binding, BindPcs
<1>2. /\ boundAgent = None /\ conn' = conn /\ call' = call
      /\ pc[r] \in Handshake => backend = r
  BY <1>1, HandshakePlace DEF Spawned, SpawnFails, Initialized, SessionOpened, HandshakeFails,
                              ModelSet, Unwound, taskVars
<1>3. r \in Members(lockQueue)
  BY <1>1, TailOf, WireTyped DEF IInv, LockHeld
<1>4. CASE Spawned(r)
  <2>1. Goto(r, "init") /\ UNCHANGED <<boundAgent, lockQueue, wire>> /\ pc[r] = "spawn"
    BY <1>4 DEF Spawned
  <2>2. \A s \in Requests : s # r => via'[s] = via[s]
    BY <1>4, WireTyped DEF Spawned
  <2>3. \A p \in Requests : proc'[p].asked = proc[p].asked
    BY <1>4, Types DEF Spawned, Processes
  <2>4. Sends(r, "init")
    BY <2>1, SendsNothing
  <2> QED BY <1>1, <1>2, <2>1, <2>2, <2>3, <2>4, BinderOrdered DEF BindPcs, SentPcs, Finals
<1>5. CASE Initialized(r)
  <2>1. /\ Goto(r, "new") /\ UNCHANGED <<boundAgent, lockQueue, via, wire, proc>>
        /\ pc[r] = "init"
    BY <1>5 DEF Initialized, taskVars
  <2>2. Sends(r, "new")
    BY <2>1, SendsNothing
  <2> QED BY <1>1, <1>2, <2>1, <2>2, BinderOrdered DEF BindPcs, SentPcs, Finals
<1>6. CASE SpawnFails(r) \/ HandshakeFails(r)
  <2>1. PICK procs \in [Requests -> Processes] :
          /\ BindFails(r, procs)
          /\ \A p \in Requests : procs[p].asked = proc[p].asked
    <3>1. [proc EXCEPT ![r].status = "dead"] \in [Requests -> Processes]
      BY Types, StatusTyped DEF Statuses
    <3>2. \A p \in Requests : [proc EXCEPT ![r].status = "dead"][p].asked = proc[p].asked
      BY Types, StatusTyped DEF Statuses
    <3> QED BY <1>6, <3>1, <3>2, Types DEF SpawnFails, HandshakeFails
  <2>2. \A p \in Requests : proc'[p].asked = proc[p].asked
    BY <2>1, PoppedTyped DEF BindFails
  <2>3. UNCHANGED <<boundAgent, via>>
    BY <1>6 DEF SpawnFails, HandshakeFails, taskVars
  <2>4. \A step : Sends(r, step)
    <3>1. \/ wire' = wire
          \/ NextOnWire(r) /\ wire' = [wire EXCEPT ![via[r]] = Tail(@)]
      BY <1>6 DEF SpawnFails, HandshakeFails, taskVars
    <3>2. NextOnWire(r) => via[r] \in Requests /\ wire[via[r]] # <<>>
      BY DEF NextOnWire, Up
    <3> QED BY <3>1, <3>2, SendsNothing
  <2>5. \/ Goto(r, "error") /\ lockQueue' = Tail(lockQueue)
        \/ Goto(r, "unwind") /\ lockQueue' = lockQueue
    BY <2>1 DEF BindFails
  <2> QED BY <1>1, <1>2, <2>2, <2>3, <2>4, <2>5, BinderOrdered DEF BindPcs, SentPcs, Finals
<1>7. CASE Unwound(r)
  <2>1. /\ Goto(r, "error") /\ lockQueue' = Tail(lockQueue)
        /\ UNCHANGED <<boundAgent, via, wire, proc>>
    BY <1>7 DEF Unwound, taskVars
  <2>2. Sends(r, "error")
    BY <2>1, SendsNothing
  <2> QED BY <1>1, <1>2, <2>1, <2>2, BinderOrdered DEF BindPcs, SentPcs, Finals
<1>8. CASE ModelSet(r)
  <2>1. pc[r] = "model" /\ backend = r /\ via[r] = r /\ modelConfig # None
    BY <1>2, <1>8 DEF ModelSet, Handshake, InOrder, Told
  <2>2. /\ NextOnWire(r) /\ wire' = [wire EXCEPT ![r] = Tail(@)]
        /\ proc' = [proc EXCEPT ![r].model = Head(wire[r]).model]
        /\ BindSucceeds(r) /\ UNCHANGED <<backend, modelConfig>>
    BY <1>8, <2>1 DEF ModelSet, TakesModel
  <2>3. /\ wire[r] # <<>>
        /\ call[r].op = "pick" => Head(wire[r]).model = call[r].pick.model
        /\ \A c \in Members(Tail(wire[r])) : r < c.req
    BY <2>1, <2>2, TakenUp
  <2>4. \A step : Sends(r, step)
    BY <2>1, <2>2, TakenUp, SendsNothing
  <2>5. /\ proc'[r].model = Head(wire[r]).model /\ wire'[r] = Tail(wire[r])
        /\ \A p \in Requests : proc'[p].asked = proc[p].asked
    BY <2>2, Types DEF Processes, IInv, TypeOK, WrapperTypes
  <2>6. \A c \in Members(wire'[r]) : r < c.req
    BY <2>3, <2>5 DEF Members
  <2> QED BY <1>1, <1>2, <2>1, <2>2, <2>3, <2>4, <2>5, <2>6, SucceedsOrdered
<1>9. CASE SessionOpened(r)
  <2>1. PICK selector \in Selectors :
          LET opened == [proc EXCEPT ![r].selector = selector] IN
          /\ proc' = opened
          /\ \/ /\ selector = "none" /\ modelConfig' = None /\ BindSucceeds(r)
                /\ UNCHANGED <<backend, wire>>
             \/ /\ selector # "none" /\ modelConfig' = r
                /\ SendModel(r, proc[r].asked) /\ Goto(r, "model")
                /\ UNCHANGED <<backend, boundAgent, lockQueue>>
    <3>1. backend = r /\ backend # None
      BY <1>2, <1>9, Types DEF SessionOpened, Handshake
    <3> QED BY <1>9, <3>1 DEF SessionOpened
  <2>2. /\ proc'[r].selector = selector /\ pc[r] = "new" /\ backend = r
        /\ \A p \in Requests : proc'[p].asked = proc[p].asked
    BY <1>2, <1>9, <2>1, Types DEF Processes, SessionOpened, Handshake
  <2>3. CASE /\ selector = "none" /\ modelConfig' = None /\ BindSucceeds(r)
             /\ UNCHANGED <<backend, wire>>
    <3>1. ~ShowsModels(r)'
      BY <2>2, <2>3 DEF ShowsModels
    <3>2. \A step : Sends(r, step)
      BY <2>3, SendsNothing
    <3> QED BY <1>1, <1>2, <2>2, <2>3, <3>1, <3>2, SucceedsOrdered
  <2>4. CASE /\ selector # "none" /\ modelConfig' = r
             /\ SendModel(r, proc[r].asked) /\ Goto(r, "model")
             /\ UNCHANGED <<backend, boundAgent, lockQueue>>
    <3>1. proc[r].asked \in Models /\ (call[r].op = "pick" => proc[r].asked = call[r].pick.model)
      BY <1>1 DEF IInv, PicksKept, PickKept, InOrder, Told
    <3>2. \A s \in Members(lockQueue) : r <= s
      BY <1>1, HeadFirst DEF IInv, LockHeld
    <3>3. Sends(r, "model") /\ via'[r] = backend /\ \A s \in Requests : s # r => via'[s] = via[s]
      BY <1>2, <1>3, <2>2, <2>4, <3>1, <3>2, SendsLast DEF SentPcs, Finals
    <3> QED BY <1>1, <1>2, <2>2, <2>4, <3>3, Types, BinderOrdered DEF BindPcs, SentPcs, Finals
  <2> QED BY <2>1, <2>3, <2>4
<1> QED BY <1>4, <1>5, <1>6, <1>7, <1>8, <1>9

-----------------------------------------------------------------------------
(* The wrappers, the end of the connection, and the theorem.                *)

\* What stays when only wrappers and the connection change: the order of all
\* that is under way.
LEMMA RestOrdered ==
  ASSUME IInv, Settled, InOrder, UNCHANGED <<boundAgent, lockQueue, call, pc, via, wire>>,
         \/ UNCHANGED <<conn, backend, modelConfig>>
         \/ conn' # "open" /\ backend' = None /\ \A r \in Requests : ~Active(r),
         \A q \in Requests : /\ proc'[q].asked = proc[q].asked
                             /\ proc'[q].model = proc[q].model
                             /\ proc'[q].selector = proc[q].selector
  PROVE  InOrder'
<1>1. Arrived' /\ Queued' /\ \A p \in Requests : Wired(p)'
  BY DEF InOrder, Arrived, Queued, Wired, Sent, Ordered, Rising, Members
<1>2. backend' # None => /\ UNCHANGED <<conn, backend, modelConfig>> /\ backend \in Requests
                         /\ (ShowsModels(backend)' <=> ShowsModels(backend))
                         /\ proc'[backend].model = proc[backend].model
  BY Types DEF ShowsModels
<1>3. \A r \in Requests : Told(r)'
  <2>1. CASE UNCHANGED <<conn, backend, modelConfig>>
    BY <2>1 DEF InOrder, Told, Binding
  <2>2. CASE \A r \in Requests : ~Active(r)
    BY <2>2 DEF Told, Binding, BindPcs, Active, Finals
  <2> QED BY <2>1, <2>2
<1>4. Settable'
  BY <1>2 DEF InOrder, Settable, Settled, Bound
<1>5. ASSUME NEW a \in Requests, AckedPick(a)' PROVE Before(a)'
  <2>1. Before(a)
    BY <1>5 DEF InOrder, Acked, AckedPick
  <2> QED BY <1>2, <2>1 DEF Before, Members
<1>6. Latest'
  BY <1>2 DEF InOrder, Latest, AckedPick
<1> QED BY <1>1, <1>3, <1>4, <1>5, <1>6 DEF InOrder, Acked

\* The client leaves: all that is under way is cancelled, the acknowledged
\* picks stay acknowledged.
LEMMA DisconnectOrdered ==
  ASSUME IInv, Settled, InOrder, Single, Disconnect
  PROVE  InOrder'
<1> DEFINE procs == [p \in Requests |->
                       IF proc[p].status = "spawning"
                         THEN [proc[p] EXCEPT !.status = "dead"] ELSE proc[p]]
<1>1. /\ pc' = [r \in Requests |-> IF Active(r) THEN "cancelled" ELSE pc[r]]
      /\ lockQueue' = <<>> /\ proc' = Popped(procs) /\ conn' # "open"
      /\ UNCHANGED <<boundAgent, call, via, wire>>
      /\ backend' = None \/ backend' = backend
  BY DEF Disconnect, Single, taskVars, ResetBackend, backendVars
<1>2. Members(lockQueue') = {} /\ Rising(lockQueue') /\ Members(lockQueue)' = {}
  BY <1>1 DEF Members, Rising
<1>3. ASSUME NEW q \in Requests
      PROVE  proc'[q].model = proc[q].model /\ proc'[q].selector = proc[q].selector
  BY <1>1, Types DEF Popped, Processes
<1>4. \A r \in Requests : /\ pc'[r] \in Finals \cup {"idle"}
                          /\ pc'[r] = "idle" <=> pc[r] = "idle"
                          /\ pc[r] \in SentPcs => pc'[r] \in SentPcs
                          /\ pc'[r] = "ok" <=> pc[r] = "ok"
  BY <1>1 DEF Active, Finals, SentPcs
<1>5. Arrived' /\ Queued'
  BY <1>2, <1>4 DEF InOrder, Arrived, Queued
<1>6. ASSUME NEW p \in Requests PROVE Wired(p)'
  <2>1. Wired(p) /\ wire'[p] = wire[p]
    BY <1>1 DEF InOrder
  <2>2. ASSUME NEW c \in Members(wire[p]) PROVE Sent(c)'
    <3>1. Sent(c) /\ c.req \in Requests
      BY <2>1, <2>2, WireTyped DEF Wired
    <3> QED BY <1>1, <1>2, <1>4, <3>1 DEF Sent
  <2> QED BY <2>1, <2>2 DEF Wired, Ordered, Members
<1>7. \A r \in Requests : Told(r)'
  BY <1>4 DEF Told, Binding, BindPcs, Finals
<1>8. Settable'
  BY <1>1 DEF Settable
<1>9. backend' # None => /\ backend' = backend /\ backend \in Requests
                         /\ (ShowsModels(backend)' <=> ShowsModels(backend))
                         /\ proc'[backend].model = proc[backend].model
  BY <1>1, <1>3, Types DEF ShowsModels
<1>10. \A a \in Requests : AckedPick(a)' <=> AckedPick(a)
  BY <1>1, <1>4 DEF AckedPick
<1>11. Acked'
  BY <1>1, <1>2, <1>9, <1>10 DEF InOrder, Acked, Before, Members
<1>12. Latest'
  BY <1>1, <1>9, <1>10 DEF InOrder, Latest
<1> QED BY <1>5, <1>6, <1>7, <1>8, <1>11, <1>12 DEF InOrder

\* Every step of a connection that nobody closes.
LEMMA StepOrdered ==
  ASSUME IInv, IInv', Settled, InOrder, Single, [Next]_vars
  PROVE  InOrder'
<1>1. CASE \E r \in Requests : Request(r)
  BY <1>1, RequestOrdered
<1>2. CASE \E r \in Requests : Progress(r)
  BY <1>2, BindOrdered, AnswerOrdered DEF Progress
<1>3. CASE \E p \in Requests : SessionUpdate(p) \/ Crash(p) \/ Exit(p)
  <2>1. UNCHANGED <<backend, modelConfig, boundAgent, lockQueue, call, pc, via, wire, conn>>
    BY <1>3 DEF SessionUpdate, Crash, Exit, Becomes, backendVars
  <2>2. \A q \in Requests : /\ proc'[q].asked = proc[q].asked
                            /\ proc'[q].model = proc[q].model
                            /\ proc'[q].selector = proc[q].selector
    BY <1>3, Types DEF SessionUpdate, Crash, Exit, Becomes, Processes
  <2> QED BY <2>1, <2>2, RestOrdered
<1>4. CASE Disconnect
  BY <1>4, DisconnectOrdered
<1>5. CASE RunEnds
  <2>1. /\ UNCHANGED <<boundAgent, lockQueue, call, pc, via, wire, proc>>
        /\ conn # "open" /\ conn' # "open" /\ backend' = None
    BY <1>5 DEF RunEnds, EndReap, ResetBackend
  <2> QED BY <2>1, RestOrdered DEF Settled, Left
<1>6. CASE UNCHANGED vars
  BY <1>6, RestOrdered DEF vars
<1> QED BY <1>1, <1>2, <1>3, <1>4, <1>5, <1>6 DEF Next

\* When a client connects nothing is under way.
LEMMA InitOrdered == Init => InOrder
<1> SUFFICES ASSUME Init PROVE InOrder
    OBVIOUS
<1>1. /\ boundAgent = None /\ lockQueue = <<>> /\ \A r \in Requests : pc[r] = "idle"
      /\ \A p \in Requests : wire[p] = <<>>
  BY DEF Init
<1>2. \A w : w = <<>> => Members(w) = {} /\ Ordered(w) /\ Rising(w)
  BY DEF Members, Ordered, Rising
<1>3. Arrived /\ Queued /\ \A p \in Requests : Wired(p)
  BY <1>1, <1>2 DEF Arrived, Queued, Wired
<1>4. \A r \in Requests : Told(r) /\ ~AckedPick(r)
  BY <1>1 DEF Told, Binding, BindPcs, AckedPick
<1> QED BY <1>1, <1>3, <1>4 DEF InOrder, Settable, Acked, Latest

\* When nothing is under way the live wrapper runs the model of the last pick
\* that was acknowledged, for any number of picks and prompts that bind, fail,
\* re-pick and are cancelled: _bind_lock keeps them in order, proxy.py:618-620,
\* and so does the wire after it, where the lock has been let go.
THEOREM LastPickHolds ==
  ASSUME Single
  PROVE  Spec => []LastPickWins
<1>1. Init => InOrder
  BY InitOrdered
<1>2. SInv /\ SInv' /\ InOrder /\ [Next]_vars => InOrder'
  BY StepOrdered DEF SInv
<1>3. InOrder => LastPickWins
  BY DEF InOrder, Latest, LastPickWins
<1> QED BY <1>1, <1>2, <1>3, SingleInv, PTL DEF Spec
=============================================================================
