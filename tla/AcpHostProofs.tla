---------------------------- MODULE AcpHostProofs ----------------------------
(***************************************************************************)
(* What holds of an ACP daemon beside its connections, for any number of    *)
(* daemons, clients, sessions and rotations, any label and any options a    *)
(* wrapper may advertise:                                                   *)
(*   - of the socket file: types, that litter was left by a kill, and that  *)
(*     daemons which start one after another are reachable;                 *)
(*   - of the roster: types, that a session lists every agent that answers, *)
(*     and in which order;                                                  *)
(*   - of the options: that a pick names the model it was shown as.         *)
(***************************************************************************)
EXTENDS AcpHost, SequenceLemmas

-----------------------------------------------------------------------------
(* Litter.  The file belongs to a daemon that has bound it and that, unless *)
(* it was killed, has not yet done its last unlink.                        *)

LitterInv ==
    /\ path \in Daemons \cup {None}
    /\ pc \in [Daemons -> Pcs]
    /\ path \in Daemons => pc[path] \in {"listen", "serve", "closing", "dead"}

\* Only the daemon that binds the file gets it, and it keeps it until it is dead
\* or has unlinked it.
LEMMA LitterStep == LitterInv /\ [Next]_vars => LitterInv'
<1> SUFFICES ASSUME LitterInv, [Next]_vars PROVE LitterInv'
    OBVIOUS
<1> USE NoDaemonAssumption DEF LitterInv, Goto, Pcs, Starting, Ended
<1>1. ASSUME NEW d \in Daemons, Spawn(d) PROVE LitterInv'
    BY <1>1 DEF Spawn, MaySpawn
<1>2. ASSUME NEW d \in Daemons, Run(d) PROVE LitterInv'
    <2>1. CASE Start(d)
        BY <2>1 DEF Start
    <2>2. CASE Probe(d)
        BY <2>2 DEF Probe
    <2>3. CASE Unlink(d)
        BY <2>3 DEF Unlink
    <2>4. CASE ReadImage(d)
        BY <2>4 DEF ReadImage
    <2>5. CASE RemoveSocket(d)
        BY <2>5 DEF RemoveSocket
    <2>6. CASE BindSocket(d)
        BY <2>6 DEF BindSocket
    <2>7. CASE Listen(d)
        BY <2>7 DEF Listen
    <2>8. CASE CleanUp(d)
        BY <2>8 DEF CleanUp
    <2> QED
        BY <1>2, <2>1, <2>2, <2>3, <2>4, <2>5, <2>6, <2>7, <2>8 DEF Run
<1>3. ASSUME NEW d \in Daemons, CloseServer(d) PROVE LitterInv'
    BY <1>3 DEF CloseServer
<1>4. ASSUME NEW d \in Daemons, Kill(d) PROVE LitterInv'
    BY <1>4 DEF Kill
<1>5. ASSUME UNCHANGED <<path, pc>> PROVE LitterInv'
    BY <1>5
<1> QED
    BY <1>1, <1>2, <1>3, <1>4, <1>5
    DEF Next, vars, Connect, Disconnect, ContainerExits,
        ContainerRestarts, ContainerRemoved

\* Whatever the spawner does and whatever disturbs the daemons, a file that
\* outlives them all was bound by one that was killed (daemon.py:188-191).
THEOREM LitterOnlyFromKills == Spec => []LitterIsFromKills
<1>1. Init => LitterInv
    BY NoDaemonAssumption DEF Init, LitterInv, Pcs
<1>2. LitterInv => LitterIsFromKills
    BY DEF LitterInv, LitterIsFromKills, Alive, Ended, Pcs
<1> QED
    BY <1>1, <1>2, LitterStep, PTL DEF Spec

-----------------------------------------------------------------------------
(* Reachability.  While the container runs, a daemon past its probe has the *)
(* path to itself, and one that has bound the file owns it.                *)

Looking   == {"start", "probe"}
Settling  == {"unlink", "image", "remove", "bind", "listen"}

SettledInv ==
    /\ Settled
    /\ path \in Daemons \cup {None}
    /\ pc \in [Daemons -> Pcs]
    /\ container = "running" =>
          /\ \A d \in Daemons : pc[d] # "closing"
          /\ \A d \in Daemons : pc[d] \in {"listen", "serve"} => path = d
          /\ \A d, e \in Daemons : pc[d] \in Settling /\ d # e => ~Alive(e)
          /\ \A d, e \in Daemons : pc[d] \in Looking /\ pc[e] \in Looking => d = e

\* A daemon that is settled has nobody beside it whose unlink could hit its file.
LEMMA SettledStep ==
    ASSUME SettledInv, [Next]_vars
    PROVE  SettledInv'
<1> USE NoDaemonAssumption
    DEF SettledInv, Settled, Disturbances, Goto, Pcs, Starting, Ended, Alive, Looking, Settling
<1>1. ASSUME NEW d \in Daemons, Spawn(d) PROVE SettledInv'
    BY <1>1 DEF Spawn, MaySpawn, Listening
<1>2. ASSUME NEW d \in Daemons, Run(d) PROVE SettledInv'
    <2>1. CASE Start(d)
        BY <2>1 DEF Start
    <2>2. CASE Probe(d)
        BY <2>2 DEF Probe, SocketIsLive, Listening
    <2>3. CASE Unlink(d)
        BY <2>3 DEF Unlink
    <2>4. CASE ReadImage(d)
        BY <2>4 DEF ReadImage
    <2>5. CASE RemoveSocket(d)
        BY <2>5 DEF RemoveSocket
    <2>6. CASE BindSocket(d)
        BY <2>6 DEF BindSocket
    <2>7. CASE Listen(d)
        BY <2>7 DEF Listen
    <2>8. CASE CleanUp(d)
        BY <2>8 DEF CleanUp
    <2> QED
        BY <1>2, <2>1, <2>2, <2>3, <2>4, <2>5, <2>6, <2>7, <2>8 DEF Run
<1>3. ASSUME NEW d \in Daemons, CloseServer(d) PROVE SettledInv'
    BY <1>3 DEF CloseServer, StopIsRequested
<1>4. ASSUME NEW d \in Daemons, Kill(d) PROVE SettledInv'
    BY <1>4 DEF Kill
<1>5. ASSUME UNCHANGED <<regime, path, pc>>, container' = "running" => container = "running"
      PROVE SettledInv'
    BY <1>5
<1>6. ~ContainerRestarts
    BY DEF ContainerRestarts
<1> QED
    BY <1>1, <1>2, <1>3, <1>4, <1>5, <1>6
    DEF Next, vars, Connect, Disconnect, ContainerExits, ContainerRemoved

\* Daemons that are started one after another, and at worst killed, never take
\* the path from one that serves (daemon.py:123-126).
THEOREM SettledIsReachable == Spec => []ReachableWhenSettled
<1>1. Init /\ Settled => SettledInv
    BY NoDaemonAssumption DEF Init, SettledInv, Pcs, Looking, Settling
<1>2. ~Settled /\ [Next]_vars => ~Settled'
    BY DEF Settled, Disturbances, Next, vars, Spawn, Run, Start, Probe, Unlink, ReadImage,
           RemoveSocket, BindSocket, Listen, CleanUp, CloseServer, Kill, Connect,
           Disconnect, ContainerExits, ContainerRestarts, ContainerRemoved
<1>3. SettledInv \/ ~Settled => ReachableWhenSettled
    BY DEF SettledInv, ReachableWhenSettled, Reachable, Listening
<1> QED
    BY <1>1, <1>2, <1>3, SettledStep, PTL DEF Spec

-----------------------------------------------------------------------------
(* Types.                                                                   *)

\* A daemon that stops serving has waited for its connections, or was killed and
\* has taken them along.
LEMMA TypeStep ==
    ASSUME TypeOK, [Next]_vars
    PROVE  TypeOK'
<1> USE NoDaemonAssumption DEF TypeOK, Goto, Pcs, Starting, Ended
<1>1. ASSUME NEW d \in Daemons, Spawn(d) PROVE TypeOK'
    BY <1>1 DEF Spawn, MaySpawn
<1>2. ASSUME NEW d \in Daemons, Run(d) PROVE TypeOK'
    <2>1. CASE Start(d)
        BY <2>1 DEF Start
    <2>2. CASE Probe(d)
        BY <2>2 DEF Probe
    <2>3. CASE Unlink(d)
        BY <2>3 DEF Unlink
    <2>4. CASE ReadImage(d)
        BY <2>4 DEF ReadImage
    <2>5. CASE RemoveSocket(d)
        BY <2>5 DEF RemoveSocket
    <2>6. CASE BindSocket(d)
        BY <2>6 DEF BindSocket
    <2>7. CASE Listen(d)
        BY <2>7 DEF Listen
    <2>8. CASE CleanUp(d)
        BY <2>8 DEF CleanUp, ServedBy
    <2> QED
        BY <1>2, <2>1, <2>2, <2>3, <2>4, <2>5, <2>6, <2>7, <2>8 DEF Run
<1>3. ASSUME NEW d \in Daemons, CloseServer(d) PROVE TypeOK'
    BY <1>3 DEF CloseServer
<1>4. ASSUME NEW d \in Daemons, Kill(d) PROVE TypeOK'
    BY <1>4 DEF Kill
<1>5. ASSUME NEW c \in Clients, Connect(c) PROVE TypeOK'
    BY <1>5 DEF Connect, SocketIsLive, Listening
<1>6. ASSUME NEW c \in Clients, Disconnect(c) PROVE TypeOK'
    BY <1>6 DEF Disconnect
<1>7. CASE ContainerExits \/ ContainerRestarts \/ ContainerRemoved
    BY <1>7 DEF ContainerExits, ContainerRestarts, ContainerRemoved
<1>8. CASE UNCHANGED vars
    BY <1>8 DEF vars
<1> QED
    BY <1>1, <1>2, <1>3, <1>4, <1>5, <1>6, <1>7, <1>8 DEF Next

\* The state of daemons and clients is well typed, and a client is connected to a
\* daemon that serves or waits for it to leave (daemon.py:182-187).
THEOREM TypeCorrect == Spec => []TypeOK
<1>1. Init => TypeOK
    BY NoDaemonAssumption DEF Init, TypeOK, Pcs
<1> QED
    BY <1>1, TypeStep, PTL DEF Spec

-----------------------------------------------------------------------------
(* The roster.  What a session lists is read out of the cache in one step,  *)
(* which is a matter of sequences only.                                     *)

RosterAgents == Roster!Agents
Shelves      == [RosterAgents -> Roster!Lists \cup {None}]

\* What the label assumes, in the words of the proofs.
LEMMA LabelFacts ==
    /\ Label \in Seq(RosterAgents) /\ Wrapped \subseteq RosterAgents
    /\ \A i, j \in DOMAIN Label : Label[i] = Label[j] => i = j
    /\ \A a \in RosterAgents : \E i \in DOMAIN Label : Label[i] = a
    /\ None \notin Roster!Lists /\ \A S \in SUBSET RosterAgents : S # None
BY RosterAssumptions
DEF Roster!Assumptions, Roster!IsInjective, RosterAgents, Roster!Agents, Roster!ToSet

\* Of two ids the one that comes first is of an agent further up the label.
IdsInLabelOrder(ids) ==
    \A i, j \in DOMAIN ids :
        i < j => Roster!PlaceOf(ids[i].agent) <= Roster!PlaceOf(ids[j].agent)

\* The ids of one agent.
Piece(kept, models, a) ==
    IF a \notin kept \/ models[a] = None THEN <<>>
    ELSE [i \in DOMAIN models[a] |-> [agent |-> a, auth |-> models[a][i]]]

\* A list of models is empty only when there are none.
LEMMA ListFacts ==
    ASSUME NEW k \in 0 .. MaxModels, NEW v \in Roster!Rotations
    PROVE  /\ Roster!List(k, v) \in Roster!Lists
           /\ Roster!List(k, v) \in Seq(Roster!Rotations) /\ Len(Roster!List(k, v)) = k
           /\ Roster!List(k, v) = <<>> => k = 0
<1>1. Roster!List(k, v) = [i \in 1 .. k |-> v] /\ k \in Nat
    BY RosterAssumptions DEF Roster!List, Roster!Assumptions
<1>2. Roster!List(k, v) \in Seq(Roster!Rotations) /\ Len(Roster!List(k, v)) = k
    BY <1>1
<1>3. Roster!List(k, v) \in Roster!Lists
    BY DEF Roster!Lists
<1> QED
    BY <1>2, <1>3

LEMMA NoModels == <<>> \in Roster!Lists /\ <<>> # None
<1>1. 0 \in 0 .. MaxModels /\ 0 \in Roster!Rotations
    BY RosterAssumptions DEF Roster!Assumptions, Roster!Rotations
<1>2. Roster!List(0, 0) = <<>>
    BY <1>1, ListFacts
<1> QED
    BY <1>1, <1>2, ListFacts, LabelFacts

\* They are of its own name, and there are some if it offers models.
LEMMA PieceOfAgent ==
    ASSUME NEW kept \in SUBSET RosterAgents, NEW models \in Shelves, NEW a \in RosterAgents
    PROVE  /\ Piece(kept, models, a) \in Seq(Roster!Ids)
           /\ \A k \in 1 .. Len(Piece(kept, models, a)) : Piece(kept, models, a)[k].agent = a
           /\ a \in kept /\ models[a] \notin {None, <<>>} => Len(Piece(kept, models, a)) > 0
<1>1. CASE a \notin kept \/ models[a] = None
    BY <1>1 DEF Piece
<1>2. CASE a \in kept /\ models[a] # None
    <2>1. PICK k \in 0 .. MaxModels, v \in Roster!Rotations : models[a] = Roster!List(k, v)
        BY <1>2 DEF Shelves, Roster!Lists
    <2>2. models[a] \in Seq(Roster!Rotations)
        BY <2>1, ListFacts
    <2>3. Piece(kept, models, a) = [i \in 1 .. Len(models[a]) |-> [agent |-> a, auth |-> models[a][i]]]
        BY <1>2, <2>2 DEF Piece
    <2>4. \A i \in 1 .. Len(models[a]) : [agent |-> a, auth |-> models[a][i]] \in Roster!Ids
        BY <2>2 DEF Roster!Ids, RosterAgents
    <2>5. /\ Piece(kept, models, a) \in Seq(Roster!Ids)
          /\ Len(Piece(kept, models, a)) = Len(models[a])
        BY <2>2, <2>3, <2>4
    <2>6. \A k1 \in 1 .. Len(models[a]) : Piece(kept, models, a)[k1].agent = a
        BY <2>3
    <2>7. models[a] # <<>> => Len(models[a]) > 0
        BY <2>2
    <2> QED
        BY <2>5, <2>6, <2>7
<1> QED
    BY <1>1, <1>2

\* list_available_agents lists the ids of the agents it keeps in the order of the label,
\* and some of every agent whose list in the cache is not empty (roster.py:199-203).
LEMMA WalkLists ==
    ASSUME NEW kept \in SUBSET RosterAgents, NEW models \in Shelves
    PROVE  /\ Roster!Walk(kept, models) \in Seq(Roster!Ids)
           /\ IdsInLabelOrder(Roster!Walk(kept, models))
           /\ \A a \in kept : models[a] \notin {None, <<>>} =>
                 \E j \in DOMAIN Roster!Walk(kept, models) :
                    Roster!Walk(kept, models)[j].agent = a
<1> DEFINE pieces == [i \in DOMAIN Label |-> Piece(kept, models, Label[i])]
           walk == FlattenSeq(pieces)
<1>1. Roster!Walk(kept, models) = walk
    BY DEF Roster!Walk, Piece, Roster!FlattenSeq, FlattenSeq
<1>2. \A i \in DOMAIN Label : Label[i] \in RosterAgents
    BY LabelFacts
<1>3. ASSUME NEW i \in DOMAIN Label
      PROVE  /\ pieces[i] \in Seq(Roster!Ids)
             /\ \A k \in 1 .. Len(pieces[i]) : pieces[i][k].agent = Label[i]
             /\ Label[i] \in kept /\ models[Label[i]] \notin {None, <<>>} => Len(pieces[i]) > 0
    <2>1. Label[i] \in RosterAgents
        BY <1>2
    <2>2. pieces[i] = Piece(kept, models, Label[i])
        OBVIOUS
    <2> HIDE DEF pieces
    <2> QED
        BY <2>1, <2>2, PieceOfAgent
<1>4. DOMAIN Label = 1 .. Len(Label) /\ Len(Label) \in Nat
    BY LabelFacts
<1>5. pieces \in Seq(Seq(Roster!Ids)) /\ Len(pieces) = Len(Label)
    <2>1. pieces = [i \in 1 .. Len(Label) |-> Piece(kept, models, Label[i])]
        BY <1>4
    <2>2. \A i \in 1 .. Len(Label) : pieces[i] \in Seq(Roster!Ids)
        BY <1>3, <1>4
    <2> HIDE DEF pieces
    <2> QED
        BY <1>4, <2>1, <2>2
<1> HIDE DEF pieces
<1>6. walk \in Seq(Roster!Ids) /\ \E ends : Laid(pieces, Len(pieces), walk, ends)
    BY <1>5, FlattenLaid
<1> HIDE DEF walk
<1>7. PICK ends : Laid(pieces, Len(Label), walk, ends)
    BY <1>5, <1>6
<1> DEFINE m == Len(Label)
<1>8. /\ m \in Nat
      /\ \A i \in 0 .. m : ends[i] \in Nat
      /\ \A h, i \in 0 .. m : h <= i => ends[h] <= ends[i]
      /\ \A i \in 1 .. m : ends[i] = ends[i - 1] + Len(pieces[i])
      /\ \A i \in 1 .. m : \A k \in 1 .. Len(pieces[i]) : walk[ends[i - 1] + k] = pieces[i][k]
      /\ \A j \in 1 .. Len(walk) : \E i \in 1 .. m : ends[i - 1] < j /\ j <= ends[i]
      /\ Len(walk) = ends[m]
    BY <1>4, <1>7 DEF Laid
<1>9. ASSUME NEW i \in 1 .. m
      PROVE  /\ i \in DOMAIN Label /\ i \in 0 .. m /\ i - 1 \in 0 .. m /\ m \in 0 .. m
             /\ ends[i - 1] \in Nat /\ ends[i] \in Nat /\ ends[m] \in Nat /\ ends[i] <= ends[m]
             /\ Len(pieces[i]) \in Nat /\ ends[i] = ends[i - 1] + Len(pieces[i])
    <2>1. i \in DOMAIN Label /\ i \in 0 .. m /\ i - 1 \in 0 .. m /\ m \in 0 .. m /\ i <= m
        BY <1>4, <1>8
    <2>2. Len(pieces[i]) \in Nat
        BY <1>3, <2>1
    <2> QED
        BY <1>8, <2>1, <2>2
<1>10. ASSUME NEW j \in 1 .. Len(walk)
       PROVE  \E i \in 1 .. m : ends[i - 1] < j /\ j <= ends[i] /\ walk[j].agent = Label[i]
    <2>1. PICK i \in 1 .. m : ends[i - 1] < j /\ j <= ends[i]
        BY <1>8
    <2>2. j - ends[i - 1] \in 1 .. Len(pieces[i]) /\ ends[i - 1] + (j - ends[i - 1]) = j
        BY <1>9, <2>1
    <2>3. walk[j] = pieces[i][j - ends[i - 1]]
        BY <1>8, <2>2
    <2>4. pieces[i][j - ends[i - 1]].agent = Label[i]
        BY <1>3, <1>9, <2>2
    <2> QED
        BY <2>1, <2>3, <2>4
<1>11. ASSUME NEW i \in DOMAIN Label PROVE Roster!PlaceOf(Label[i]) = i
    BY LabelFacts DEF Roster!PlaceOf
<1>12. IdsInLabelOrder(walk)
    <2> SUFFICES ASSUME NEW j \in 1 .. Len(walk), NEW l \in 1 .. Len(walk), j < l
                 PROVE  Roster!PlaceOf(walk[j].agent) <= Roster!PlaceOf(walk[l].agent)
        BY <1>6 DEF IdsInLabelOrder
    <2>1. PICK h \in 1 .. m : ends[h - 1] < j /\ j <= ends[h] /\ walk[j].agent = Label[h]
        BY <1>10
    <2>2. PICK i \in 1 .. m : ends[i - 1] < l /\ l <= ends[i] /\ walk[l].agent = Label[i]
        BY <1>10
    <2>3. Roster!PlaceOf(walk[j].agent) = h /\ Roster!PlaceOf(walk[l].agent) = i
        BY <1>9, <1>11, <2>1, <2>2
    <2>4. h <= i
        <3>1. i <= h - 1 => ends[i] <= ends[h - 1]
            BY <1>8, <1>9
        <3>2. ends[i] \in Nat /\ ends[h - 1] \in Nat /\ j \in Int /\ l \in Int
            BY <1>9
        <3>3. ~(i <= h - 1)
            BY <2>1, <2>2, <3>1, <3>2
        <3> QED
            BY <1>8, <3>3
    <2> QED
        BY <2>3, <2>4
<1>13. ASSUME NEW a \in kept, models[a] \notin {None, <<>>}
       PROVE  \E j \in DOMAIN walk : walk[j].agent = a
    <2>1. PICK i \in DOMAIN Label : Label[i] = a
        BY LabelFacts
    <2>2. Len(pieces[i]) > 0 /\ i \in 1 .. m
        BY <1>3, <1>4, <1>13, <2>1
    <2>3. 1 \in 1 .. Len(pieces[i]) /\ ends[i - 1] + 1 \in 1 .. Len(walk)
        BY <1>8, <1>9, <2>2
    <2>4. walk[ends[i - 1] + 1] = pieces[i][1] /\ pieces[i][1].agent = a
        BY <1>3, <1>8, <2>1, <2>2, <2>3
    <2> QED
        BY <1>6, <2>3, <2>4
<1> QED
    BY <1>1, <1>6, <1>12, <1>13

-----------------------------------------------------------------------------
(* What the sessions know.                                                  *)

\* Types, with those of what a session was answered; the first one to start has
\* looked for the wrappers.
RosterTyped ==
    /\ RosterTypeOK
    /\ answer \in [Roster!Sessions -> Seq(Roster!Ids)]
    /\ \A s \in Roster!Sessions : session[s] # "idle" => capable # None

\* A list that is empty is one of an agent without models; an agent that session s
\* still owes is being asked, failed on it or is cached, unless it started before the
\* last flush; and it owes nothing once it is answered.
EmptyIsModelless ==
    /\ \A a \in Wrapped : cache[a] = <<>> => offers[a] = 0
    /\ \A s \in Roster!Sessions : \A a \in Wrapped : reply[s][a] = <<>> => offers[a] = 0
NothingIsForgotten ==
    \A s \in Roster!Sessions : session[s] = "gather" /\ began[s] = flushes =>
        \A a \in capable : a \in asked[s] \cup failed[s] \/ cache[a] # None
RosterInv ==
    /\ RosterTyped
    /\ \A s \in Roster!Sessions : began[s] <= flushes
    /\ EmptyIsModelless /\ NothingIsForgotten
    /\ ListsEveryResponsive
    /\ \A s \in Roster!Sessions : IdsInLabelOrder(answer[s])

\* Every step keeps the types: what is read out of the cache is a list of ids.
LEMMA RosterTypedStep ==
    ASSUME RosterTyped, [Roster!Next]_(Roster!vars)
    PROVE  RosterTyped'
<1> USE DEF RosterTyped, RosterTypeOK, Roster!TypeOK, Roster!NoReply
<1>1. /\ Wrapped \subseteq Roster!Agents
      /\ cache \in Shelves
      /\ \A k \in 0 .. MaxModels, v \in Roster!Rotations : Roster!List(k, v) \in Roster!Lists
    BY LabelFacts, ListFacts DEF Shelves, RosterAgents
<1>2. ASSUME NEW ids \in Seq(Roster!Ids) PROVE Roster!ToSet(ids) \subseteq Roster!Ids
    BY DEF Roster!ToSet
<1>3. ASSUME NEW s \in Roster!Sessions, Roster!ListAgents(s) PROVE RosterTyped'
    <2>1. PICK kept \in Roster!FirstUse :
             /\ capable' = kept
             /\ asked' = [asked EXCEPT ![s] = {a \in kept : cache[a] = None}]
             /\ \/ session' = [session EXCEPT ![s] = "gather"] /\ answer' = answer
                \/ /\ session' = [session EXCEPT ![s] = "done"]
                   /\ answer' = [answer EXCEPT ![s] = Roster!Walk(kept, cache)]
        BY <1>3 DEF Roster!ListAgents
    <2>2. kept \in SUBSET Roster!Agents /\ kept # None
        BY <1>1, LabelFacts DEF Roster!FirstUse, RosterAgents
    <2>3. Roster!Walk(kept, cache) \in Seq(Roster!Ids)
        BY <1>1, <2>2, WalkLists DEF RosterAgents
    <2>4. /\ answer' \in [Roster!Sessions -> Seq(Roster!Ids)]
          /\ session' \in [Roster!Sessions -> {"idle", "gather", "done", "cancelled"}]
        <3> DEFINE walk == Roster!Walk(kept, cache)
        <3>1. /\ answer \in [Roster!Sessions -> Seq(Roster!Ids)] /\ walk \in Seq(Roster!Ids)
              /\ session \in [Roster!Sessions -> {"idle", "gather", "done", "cancelled"}]
              /\ answer' = answer \/ answer' = [answer EXCEPT ![s] = walk]
              /\ \/ session' = [session EXCEPT ![s] = "gather"]
                 \/ session' = [session EXCEPT ![s] = "done"]
            BY <2>1, <2>3
        <3> HIDE DEF walk, RosterTyped
        <3> QED
            BY <3>1
    <2>5. asked' \in [Roster!Sessions -> SUBSET Roster!Agents]
        BY <2>1, <2>2
    <2>6. /\ UNCHANGED <<offers, cache, auth, flushes, reply, failed>>
          /\ began' \in [Roster!Sessions -> Roster!Rotations]
        BY <1>3 DEF Roster!ListAgents
    <2> QED
        BY <1>2, <2>1, <2>2, <2>4, <2>5, <2>6
<1>4. ASSUME NEW s \in Roster!Sessions, Roster!Gathered(s) PROVE RosterTyped'
    <2>1. Roster!Walk(capable, cache) \in Seq(Roster!Ids)
        BY <1>1, <1>4, WalkLists DEF RosterAgents, Roster!Gathered
    <2> QED
        BY <1>2, <1>4, <2>1 DEF Roster!Gathered
<1>5. ASSUME NEW s \in Roster!Sessions, Roster!Cancel(s) PROVE RosterTyped'
    BY <1>5 DEF Roster!Cancel
<1>6. ASSUME NEW s \in Roster!Sessions, NEW a \in Roster!Agents, Roster!WrapperReplies(s, a)
      PROVE  RosterTyped'
    BY <1>1, <1>6 DEF Roster!WrapperReplies
<1>7. ASSUME NEW s \in Roster!Sessions, NEW a \in Roster!Agents, Roster!Warm(s, a)
      PROVE  RosterTyped'
    BY <1>7 DEF Roster!Warm
<1>8. ASSUME NEW s \in Roster!Sessions, NEW a \in Roster!Agents, Roster!ProbeFails(s, a)
      PROVE  RosterTyped'
    BY <1>8 DEF Roster!ProbeFails
<1>9. CASE Roster!Rotate
    <2>1. /\ auth + 1 \in Roster!Rotations
          /\ auth' = auth + 1 /\ UNCHANGED <<offers, capable, cache, flushes, session, asked,
                                             reply, answer, began, failed>>
        BY <1>9, RosterAssumptions DEF Roster!Rotate, Roster!Rotations, Roster!Assumptions
    <2> QED
        BY <2>1
<1>11. CASE Roster!InvalidateAuth
    <2>1. flushes + 1 \in Roster!Rotations
        BY <1>11, RosterAssumptions DEF Roster!InvalidateAuth, Roster!Rotations, Roster!Assumptions
    <2> QED
        BY <1>11, <2>1 DEF Roster!InvalidateAuth
<1>10. CASE UNCHANGED Roster!vars
    BY <1>10 DEF Roster!vars
<1> QED
    BY <1>3, <1>4, <1>5, <1>6, <1>7, <1>8, <1>9, <1>10, <1>11 DEF Roster!Next, Roster!ProbeEnds

\* The agents session s has to list, if no flush has come between.
Promised(s) == {a \in capable \cap Wrapped : offers[a] > 0} \ failed[s]

\* A list enters the cache through a probe that has answered, so a gather ends with
\* every agent either cached or failed; what was answered before a flush is owed
\* nothing any more.
LEMMA RosterStep ==
    ASSUME RosterInv, [Roster!Next]_(Roster!vars)
    PROVE  RosterInv'
<1>1. RosterTyped'
    BY RosterTypedStep DEF RosterInv
<1> USE DEF RosterInv, RosterTyped, RosterTypeOK, Roster!TypeOK, EmptyIsModelless,
            NothingIsForgotten, ListsEveryResponsive, Roster!ListsEveryResponsive,
            Roster!Answered, Roster!Undisturbed
<1>2. /\ Wrapped \subseteq Roster!Agents /\ cache \in Shelves
      /\ Roster!Rotations \subseteq Nat /\ <<>> # None
      /\ \A k \in 0 .. MaxModels, v \in Roster!Rotations :
            /\ Roster!List(k, v) = <<>> => k = 0
            /\ Roster!List(k, v) # None
    BY LabelFacts, ListFacts, NoModels, RosterAssumptions
    DEF Shelves, RosterAgents, Roster!Rotations, Roster!Assumptions
<1>3. ASSUME NEW kept \in SUBSET Roster!Agents, NEW s \in Roster!Sessions,
             answer'[s] = Roster!Walk(kept, cache), kept = capable',
             failed' = failed, offers' = offers,
             \A a \in kept : cache[a] # None \/ a \in failed[s]
      PROVE  IdsInLabelOrder(answer'[s]) /\ Promised(s)' \subseteq Roster!Listed(s)'
    <2>1. /\ IdsInLabelOrder(Roster!Walk(kept, cache))
          /\ \A a \in kept : cache[a] \notin {None, <<>>} =>
                \E j \in DOMAIN Roster!Walk(kept, cache) : Roster!Walk(kept, cache)[j].agent = a
        BY <1>2, WalkLists DEF RosterAgents
    <2>2. ASSUME NEW a \in Promised(s)' PROVE a \in Roster!Listed(s)'
        <3>1. a \in kept /\ a \in Wrapped /\ offers[a] > 0 /\ a \notin failed[s]
            BY <1>3, <2>2 DEF Promised
        <3>2. cache[a] \notin {None, <<>>}
            BY <1>3, <3>1
        <3>3. PICK j \in DOMAIN answer'[s] : answer'[s][j].agent = a
            BY <1>3, <2>1, <3>1, <3>2
        <3> QED
            BY <3>3 DEF Roster!Listed, Roster!ToSet
    <2> QED
        BY <1>3, <2>1, <2>2
<1>12. ASSUME UNCHANGED answer
       PROVE  /\ \A s \in Roster!Sessions : Roster!Listed(s)' = Roster!Listed(s)
              /\ (\A s \in Roster!Sessions : IdsInLabelOrder(answer[s]))'
    BY <1>12 DEF Roster!Listed, IdsInLabelOrder
<1>4. ASSUME NEW s \in Roster!Sessions, Roster!ListAgents(s) PROVE RosterInv'
    <2> DEFINE cold(kept) == {a \in kept : cache[a] = None}
    <2>1. PICK kept \in Roster!FirstUse :
             /\ capable' = kept
             /\ asked' = [asked EXCEPT ![s] = cold(kept)]
             /\ IF cold(kept) # {} THEN session' = [session EXCEPT ![s] = "gather"] /\ answer' = answer
                ELSE /\ session' = [session EXCEPT ![s] = "done"]
                     /\ answer' = [answer EXCEPT ![s] = Roster!Walk(kept, cache)]
        BY <1>4 DEF Roster!ListAgents
    <2>2. /\ kept \in SUBSET Roster!Agents
          /\ \A t \in Roster!Sessions : session[t] # "idle" => kept = capable
        BY <1>2 DEF Roster!FirstUse
    <2>3. /\ session[s] = "idle" /\ began' = [began EXCEPT ![s] = flushes]
          /\ UNCHANGED <<offers, cache, auth, flushes, reply, failed>>
        BY <1>4 DEF Roster!ListAgents
    <2>4. (\A t \in Roster!Sessions : began[t] <= flushes)' /\ EmptyIsModelless'
        BY <1>2, <2>3
    <2>5. NothingIsForgotten'
        BY <2>1, <2>2, <2>3
    <2>6. ASSUME NEW t \in Roster!Sessions
          PROVE  /\ IdsInLabelOrder(answer'[t])
                 /\ session'[t] = "done" /\ began'[t] = flushes' => Promised(t)' \subseteq Roster!Listed(t)'
        <3>1. CASE t = s /\ cold(kept) = {}
            <4>1. answer'[t] = Roster!Walk(kept, cache)
                BY <2>1, <3>1
            <4> QED
                BY <1>3, <2>1, <2>2, <2>3, <3>1, <4>1
        <3>2. CASE t = s /\ cold(kept) # {}
            BY <2>1, <3>2
        <3>3. CASE t # s
            <4>1. answer'[t] = answer[t] /\ session'[t] = session[t] /\ began'[t] = began[t]
                BY <2>1, <2>3, <3>3
            <4>2. session[t] = "done" => Promised(t)' = Promised(t)
                BY <2>1, <2>2, <2>3 DEF Promised
            <4>3. Roster!Listed(t)' = Roster!Listed(t)
                BY <4>1 DEF Roster!Listed
            <4> QED
                BY <2>3, <4>1, <4>2, <4>3 DEF Promised
        <3> QED
            BY <3>1, <3>2, <3>3
    <2> QED
        BY <1>1, <2>4, <2>5, <2>6 DEF Promised
<1>5. ASSUME NEW s \in Roster!Sessions, Roster!Gathered(s) PROVE RosterInv'
    <2>1. /\ session[s] = "gather" /\ asked[s] = {} /\ session' = [session EXCEPT ![s] = "done"]
          /\ answer' = [answer EXCEPT ![s] = Roster!Walk(capable, cache)]
          /\ UNCHANGED <<offers, capable, cache, auth, flushes, asked, reply, began, failed>>
        BY <1>5 DEF Roster!Gathered
    <2>2. (\A t \in Roster!Sessions : began[t] <= flushes)' /\ EmptyIsModelless' /\ NothingIsForgotten'
        BY <2>1
    <2>3. ASSUME NEW t \in Roster!Sessions
          PROVE  /\ IdsInLabelOrder(answer'[t])
                 /\ session'[t] = "done" /\ began'[t] = flushes' => Promised(t)' \subseteq Roster!Listed(t)'
        <3>1. CASE t = s
            <4>1. answer'[s] = Roster!Walk(capable, cache) /\ capable \in SUBSET Roster!Agents
                BY <2>1
            <4>2. IdsInLabelOrder(answer'[s])
                BY <1>2, <4>1, WalkLists DEF RosterAgents
            <4>3. began[s] = flushes => Promised(s)' \subseteq Roster!Listed(s)'
                BY <1>3, <2>1, <4>1
            <4> QED
                BY <2>1, <3>1, <4>2, <4>3
        <3>2. CASE t # s
            <4>1. answer'[t] = answer[t] /\ session'[t] = session[t]
                BY <2>1, <3>2
            <4>2. Roster!Listed(t)' = Roster!Listed(t) /\ Promised(t)' = Promised(t)
                BY <2>1, <4>1 DEF Roster!Listed, Promised
            <4> QED
                BY <2>1, <4>1, <4>2 DEF Promised
        <3> QED
            BY <3>1, <3>2
    <2> QED
        BY <1>1, <2>2, <2>3 DEF Promised
<1>6. ASSUME NEW s \in Roster!Sessions, Roster!Cancel(s) PROVE RosterInv'
    <2>1. /\ session' = [session EXCEPT ![s] = "cancelled"]
          /\ reply' = [reply EXCEPT ![s] = Roster!NoReply]
          /\ asked' = [asked EXCEPT ![s] = {}]
          /\ UNCHANGED <<offers, capable, cache, auth, flushes, answer, began, failed>>
        BY <1>6 DEF Roster!Cancel
    <2>2. EmptyIsModelless'
        BY <1>2, <2>1 DEF Roster!NoReply
    <2>3. NothingIsForgotten'
        BY <2>1
    <2>4. ASSUME NEW t \in Roster!Sessions, session'[t] = "done"
          PROVE  session[t] = "done" /\ Roster!Listed(t)' = Roster!Listed(t)
        BY <2>1, <2>4 DEF Roster!Listed
    <2> QED
        BY <1>1, <2>1, <2>2, <2>3, <2>4
<1>7. ASSUME NEW s \in Roster!Sessions, NEW a \in Roster!Agents, Roster!WrapperReplies(s, a)
      PROVE  RosterInv'
    <2>1. /\ reply' = [reply EXCEPT ![s][a] = Roster!List(offers[a], auth)]
          /\ UNCHANGED <<offers, capable, cache, auth, flushes, session, asked, answer, began, failed>>
        BY <1>7 DEF Roster!WrapperReplies
    <2>2. EmptyIsModelless'
        BY <1>2, <2>1
    <2> QED
        BY <1>1, <1>12, <2>1, <2>2
<1>8. ASSUME NEW s \in Roster!Sessions, NEW a \in Roster!Agents, Roster!Warm(s, a)
      PROVE  RosterInv'
    <2>1. /\ reply[s][a] # None
          /\ cache' = [cache EXCEPT ![a] = reply[s][a]]
          /\ asked' = [asked EXCEPT ![s] = @ \ {a}]
          /\ reply' = [reply EXCEPT ![s][a] = None]
          /\ UNCHANGED <<offers, capable, auth, flushes, session, answer, began, failed>>
        BY <1>8 DEF Roster!Warm
    <2>2. EmptyIsModelless'
        BY <1>2, <2>1
    <2>3. NothingIsForgotten'
        BY <2>1
    <2> QED
        BY <1>1, <1>12, <2>1, <2>2, <2>3
<1>9. ASSUME NEW s \in Roster!Sessions, NEW a \in Roster!Agents, Roster!ProbeFails(s, a)
      PROVE  RosterInv'
    <2>1. /\ asked' = [asked EXCEPT ![s] = @ \ {a}]
          /\ failed' = [failed EXCEPT ![s] = @ \cup {a}]
          /\ reply' = [reply EXCEPT ![s][a] = None]
          /\ UNCHANGED <<offers, capable, cache, auth, flushes, session, answer, began>>
        BY <1>9 DEF Roster!ProbeFails
    <2>2. EmptyIsModelless'
        BY <1>2, <2>1
    <2>3. NothingIsForgotten'
        BY <2>1
    <2>4. \A t \in Roster!Sessions : failed[t] \subseteq failed'[t]
        BY <2>1
    <2> QED
        BY <1>1, <1>12, <2>1, <2>2, <2>3, <2>4
<1>10. CASE Roster!InvalidateAuth
    <2>1. /\ flushes' = flushes + 1 /\ cache' = [a \in Roster!Agents |-> None]
          /\ UNCHANGED <<offers, capable, auth, session, asked, reply, answer, began, failed>>
        BY <1>10 DEF Roster!InvalidateAuth
    <2>2. \A t \in Roster!Sessions : began[t] \in Nat /\ flushes \in Nat /\ began[t] <= flushes
        BY <1>2
    <2>3. \A t \in Roster!Sessions : began'[t] <= flushes' /\ began'[t] # flushes'
        BY <2>1, <2>2
    <2>4. EmptyIsModelless'
        BY <1>2, <2>1
    <2> QED
        BY <1>1, <1>12, <2>1, <2>3, <2>4
<1>13. CASE Roster!Rotate
    <2>1. UNCHANGED <<offers, capable, cache, flushes, session, asked, reply, answer, began, failed>>
        BY <1>13 DEF Roster!Rotate
    <2> QED
        BY <1>1, <1>12, <2>1
<1>11. CASE UNCHANGED Roster!vars
    BY <1>11, <1>12 DEF Roster!vars
<1> QED
    BY <1>4, <1>5, <1>6, <1>7, <1>8, <1>9, <1>10, <1>11, <1>13 DEF Roster!Next, Roster!ProbeEnds

\* Nobody has asked yet.
LEMMA RosterStarts == Roster!Init => RosterInv
<1> SUFFICES ASSUME Roster!Init PROVE RosterInv
    OBVIOUS
<1>1. /\ 0 \in Roster!Rotations /\ None \notin Roster!Lists /\ <<>> # None
      /\ Wrapped \subseteq Roster!Agents
    BY LabelFacts, NoModels, RosterAssumptions
    DEF Roster!Rotations, Roster!Assumptions, RosterAgents
<1>2. RosterTypeOK
    BY <1>1 DEF Roster!Init, RosterTypeOK, Roster!TypeOK, Roster!ToSet, Roster!NoReply
<1>3. RosterTyped
    BY <1>1, <1>2 DEF Roster!Init, RosterTyped
<1>4. EmptyIsModelless /\ NothingIsForgotten /\ ListsEveryResponsive
    BY <1>1 DEF Roster!Init, EmptyIsModelless, NothingIsForgotten, ListsEveryResponsive,
                Roster!ListsEveryResponsive, Roster!Answered, Roster!NoReply
<1>5. \A s \in Roster!Sessions : began[s] <= flushes /\ IdsInLabelOrder(answer[s])
    BY DEF Roster!Init, IdsInLabelOrder
<1> QED
    BY <1>3, <1>4, <1>5 DEF RosterInv

\* The inductive invariant of the roster holds.
LEMMA RosterAlways == Roster!Spec => []RosterInv
BY RosterStarts, RosterStep, PTL DEF Roster!Spec

\* The roster keeps its types: a list in the cache is empty or made in one rotation,
\* never put together from two (roster.py:220-227).
THEOREM RosterTypeCorrect == Roster!Spec => []RosterTypeOK
<1>1. RosterInv => RosterTypeOK
    BY DEF RosterInv, RosterTyped
<1> QED
    BY <1>1, RosterAlways, PTL

\* Whatever the order the probes end in and whatever failed before: a session lists
\* every agent with a model selector whose probe did not fail in it
\* (roster.py:187-191).
THEOREM EveryResponsiveIsListed == Roster!Spec => []ListsEveryResponsive
<1>1. RosterInv => ListsEveryResponsive
    BY DEF RosterInv
<1> QED
    BY <1>1, RosterAlways, PTL

\* The ids of an answer come in the order of the label (roster.py:199-203).
THEOREM AnswersInLabelOrder == Roster!Spec => []InLabelOrder
<1>1. RosterInv => InLabelOrder
    BY DEF RosterInv, InLabelOrder, Roster!InLabelOrder, IdsInLabelOrder
<1> QED
    BY <1>1, RosterAlways, PTL

-----------------------------------------------------------------------------
(* The options.                                                             *)

\* The ids a wrapper may use: none begins with its own name and the separator.
BareIds == {id \in Options!Ids : ~Options!IsPrefix(Options!Prefix, id)}

\* The prefix of a prefixed id is found again, and is put on once (model_options.py:179-182).
LEMMA PrefixFacts ==
    ASSUME NEW id \in Options!Ids
    PROVE  /\ Options!Prefix \o id \in Options!Ids
           /\ Options!IsPrefix(Options!Prefix, Options!Prefix \o id)
           /\ Options!MaybePrefix(id) \in Options!Ids
           /\ Options!MaybePrefix(Options!MaybePrefix(id)) = Options!MaybePrefix(id)
<1> DEFINE longer == Options!Prefix \o id
<1>1. /\ Options!Prefix \in Seq(Words) /\ Len(Options!Prefix) = 2
      /\ Options!Prefix[1] = Agent /\ Options!Prefix[2] = Sep
    BY OptionsAssumptions DEF Options!Assumptions, Options!Prefix
<1>2. /\ longer \in Options!Ids /\ Len(longer) = 2 + Len(id)
      /\ \A k \in 1 .. 2 : longer[k] = Options!Prefix[k]
    <2>1. Options!Prefix \in Seq(Words) /\ id \in Seq(Words)
        BY <1>1 DEF Options!Ids
    <2>2. /\ longer \in Seq(Words) /\ Len(longer) = Len(Options!Prefix) + Len(id)
          /\ \A k \in 1 .. Len(Options!Prefix) : longer[k] = Options!Prefix[k]
        BY <2>1, AppendPiece
    <2> QED
        BY <1>1, <2>2 DEF Options!Ids
<1>3. Options!IsPrefix(Options!Prefix, longer)
    <2>1. id \in Seq(Words) /\ Len(id) \in Nat
        BY DEF Options!Ids
    <2> HIDE DEF longer
    <2>2. SubSeq(longer, 1, 2) = SubSeq(Options!Prefix, 1, 2)
        <3> DEFINE l == SubSeq(longer, 1, 2)
                   p == SubSeq(Options!Prefix, 1, 2)
        <3>1. l \in Seq(Words) /\ Len(l) = 2 /\ \A i \in 1 .. 2 : l[i] = longer[i]
            BY <1>2, <2>1, Cut DEF Options!Ids
        <3>2. p \in Seq(Words) /\ Len(p) = 2 /\ \A i \in 1 .. 2 : p[i] = Options!Prefix[i]
            BY <1>1, Cut
        <3> HIDE DEF l, p
        <3>3. l = p
            BY <1>2, <3>1, <3>2, SeqEqual
        <3> QED
            BY <3>3 DEF l, p
    <2> QED
        BY <1>1, <1>2, <2>1, <2>2 DEF Options!IsPrefix
<1> QED
    BY <1>2, <1>3 DEF Options!MaybePrefix

\* split_namespaced takes off what the namespace has put on (model_options.py:185-194).
LEMMA SplitNamespaces ==
    ASSUME NEW id \in Options!Ids
    PROVE  Options!SplitNamespaced(Options!Prefix \o id) = [agent |-> <<Agent>>, model |-> id]
<1> DEFINE longer == Options!Prefix \o id
           at == CHOOSE i \in DOMAIN longer :
                    longer[i] = Sep /\ \A j \in DOMAIN longer : longer[j] = Sep => i <= j
<1>1. /\ id \in Seq(Words) /\ Len(id) \in Nat
      /\ longer \in Seq(Words) /\ Len(longer) = 2 + Len(id)
      /\ longer[1] = Agent /\ longer[2] = Sep
      /\ \A k \in 1 .. Len(id) : longer[2 + k] = id[k]
      /\ Agent # Sep
    BY OptionsAssumptions DEF Options!Assumptions, Options!Prefix, Options!Ids
<1>2. DOMAIN longer = 1 .. 2 + Len(id)
    BY <1>1
<1> HIDE DEF longer
<1>3. 2 \in DOMAIN longer /\ longer[2] = Sep /\ \A j \in DOMAIN longer : longer[j] = Sep => 2 <= j
    BY <1>1, <1>2
<1>4. at = 2
    BY <1>2, <1>3
<1>5. Sep \in Options!ToSet(longer)
    BY <1>3 DEF Options!ToSet
<1>6. SubSeq(longer, 1, 1) = <<Agent>>
    <2> DEFINE l == SubSeq(longer, 1, 1)
    <2>1. l \in Seq(Words) /\ Len(l) = 1 /\ l[1] = Agent
        BY <1>1, Cut
    <2> HIDE DEF l
    <2>2. l = <<Agent>>
        BY <2>1
    <2> QED
        BY <2>2 DEF l
<1>7. SubSeq(longer, 3, Len(longer)) = id
    <2> DEFINE l == SubSeq(longer, 3, Len(longer))
    <2>1. l \in Seq(Words) /\ Len(l) = Len(id) /\ \A i \in 1 .. Len(id) : l[i] = longer[2 + i]
        BY <1>1, Cut
    <2> HIDE DEF l
    <2>2. l = id
        BY <1>1, <2>1, SeqEqual
    <2> QED
        BY <2>2 DEF l
<1>8. Options!SplitNamespaced(longer) =
          [agent |-> SubSeq(longer, 1, at - 1), model |-> SubSeq(longer, at + 1, Len(longer))]
    BY <1>5 DEF Options!SplitNamespaced
<1> HIDE DEF at
<1>9. at - 1 = 1 /\ at + 1 = 3
    BY <1>4
<1> QED
    BY <1>6, <1>7, <1>8, <1>9 DEF longer

\* Whatever splits into the agent and a model began with the namespace.
LEMMA SplitOwn ==
    ASSUME NEW id \in Options!Ids, Options!SplitNamespaced(id).agent = <<Agent>>,
           Options!SplitNamespaced(id).model # <<>>
    PROVE  Options!IsPrefix(Options!Prefix, id)
<1>1. id \in Seq(Words) /\ Len(id) \in Nat /\ DOMAIN id = 1 .. Len(id)
    BY DEF Options!Ids
<1>2. Sep \in Options!ToSet(id)
    BY DEF Options!SplitNamespaced
<1> DEFINE Seps == {i \in DOMAIN id : id[i] = Sep}
           at == CHOOSE i \in DOMAIN id : id[i] = Sep /\ \A j \in DOMAIN id : id[j] = Sep => i <= j
<1>3. at \in 1 .. Len(id) /\ id[at] = Sep
    <2>1. Seps # {} /\ Seps \subseteq Nat
        BY <1>1, <1>2 DEF Options!ToSet
    <2>2. \E i \in Seps : \A j \in Seps : i <= j
        BY <2>1, LeastNumber
    <2>3. \E i \in DOMAIN id : id[i] = Sep /\ \A j \in DOMAIN id : id[j] = Sep => i <= j
        BY <2>2
    <2> HIDE DEF Seps
    <2> QED
        BY <1>1, <2>3
<1>4. SubSeq(id, 1, at - 1) = <<Agent>>
    BY <1>2 DEF Options!SplitNamespaced
<1> HIDE DEF at, Seps
<1>5. at = 2 /\ id[1] = Agent
    <2> DEFINE l == SubSeq(id, 1, at - 1)
    <2>1. Len(l) = at - 1 /\ \A i \in 1 .. at - 1 : l[i] = id[i]
        BY <1>1, <1>3, Cut
    <2>2. l = <<Agent>>
        BY <1>4
    <2> HIDE DEF l
    <2>3. at - 1 = 1
        BY <2>1, <2>2
    <2>4. id[1] = Agent
        BY <2>1, <2>2, <2>3
    <2> QED
        BY <1>1, <1>3, <2>3, <2>4
<1>6. SubSeq(id, 1, 2) = Options!Prefix /\ Len(id) >= 2
    <2> DEFINE l == SubSeq(id, 1, 2)
    <2>1. Len(id) >= 2 /\ id[2] = Sep
        BY <1>1, <1>3, <1>5
    <2>2. l \in Seq(Words) /\ Len(l) = 2 /\ l[1] = Agent /\ l[2] = Sep
        BY <1>1, <1>5, <2>1, Cut
    <2> HIDE DEF l
    <2>3. l = <<Agent, Sep>>
        BY <2>2
    <2> QED
        BY <2>1, <2>3 DEF l, Options!Prefix
<1>7. Options!Prefix \in Seq(Words) /\ Len(Options!Prefix) = 2
    BY OptionsAssumptions DEF Options!Assumptions, Options!Prefix
<1>8. SubSeq(Options!Prefix, 1, 2) = Options!Prefix
    BY <1>7, SubSeqFull
<1> QED
    BY <1>6, <1>7, <1>8 DEF Options!IsPrefix

-----------------------------------------------------------------------------
(* The namespaced options, beside those the wrapper has advertised.         *)

\* A selector of a wrapper that knows nothing of the namespace.
Selector(opt) ==
    /\ DOMAIN opt = {"type", "category", "id", "current", "entries"}
    /\ opt.type = "select" /\ opt.current \in Options!Ids /\ opt.entries \in Seq(Seq(BareIds))

\* A selector among the advertised options offers bare ids only.
LEMMA AdvertisedFacts ==
    ASSUME NEW options \in Advertisements
    PROVE  /\ DOMAIN options \subseteq Nat
           /\ \A i \in DOMAIN options :
                 options[i] # None /\ (Options!IsSelect(options[i]) => Selector(options[i]))
<1>1. DOMAIN options = 1 .. Len(options) /\ \A n \in 1 .. Len(options) : n \in Nat
    BY OptionsAssumptions DEF Options!Assumptions
<1>2. ASSUME NEW opt, Options!IsSelect(opt), Options!Advertisable(opt) PROVE Selector(opt)
    <2> DEFINE e == opt.entries
    <2>1. e \in Seq(Seq(Options!Ids))
        BY <1>2 DEF Options!Advertisable
    <2>2. \A i \in DOMAIN e : \A k \in DOMAIN e[i] : ~Options!IsPrefix(Options!Prefix, e[i][k])
        BY <1>2 DEF Options!Advertisable
    <2> HIDE DEF e
    <2>3. \A i \in 1 .. Len(e) : \A k \in 1 .. Len(e[i]) : e[i][k] \in BareIds
        BY <2>1, <2>2 DEF BareIds
    <2>4. \A i \in 1 .. Len(e) : e[i] \in Seq(BareIds)
        BY <2>1, <2>3
    <2>5. e \in Seq(Seq(BareIds))
        BY <2>1, <2>4
    <2> QED
        BY <1>2, <2>5 DEF Selector, Options!Advertisable, Options!IsSelect, e
<1> QED
    BY <1>1, <1>2, OptionsAssumptions DEF Options!Assumptions

\* What namespacing does to one option (model_options.py:141-158).
Namespaced(opt) ==
    IF Options!IsSelect(opt) /\ opt.category = "model" THEN Options!NamespaceSelect(opt) ELSE opt

\* Namespacing rewrites the current value and the entries, nothing else
\* (model_options.py:161-176).
LEMMA NamespacedEntries ==
    ASSUME NEW opt, Selector(opt)
    PROVE  LET more == Options!NamespaceSelect(opt) IN
           /\ DOMAIN more = DOMAIN opt
           /\ more.type = opt.type /\ more.category = opt.category /\ more.id = opt.id
           /\ more.current = Options!MaybePrefix(opt.current)
           /\ more.entries = [i \in DOMAIN opt.entries |->
                                [k \in DOMAIN opt.entries[i] |->
                                    Options!MaybePrefix(opt.entries[i][k])]]
BY DEF Selector, Options!NamespaceSelect, Options!MapSeq

\* A namespaced option matches when the advertised one does, and is its own
\* namespaced form: the frame that passes twice is the frame that passes once.
LEMMA NamespacedFacts ==
    ASSUME NEW opt, Options!IsSelect(opt) => Selector(opt)
    PROVE  /\ Options!Matches(Namespaced(opt)) <=> Options!Matches(opt)
           /\ Namespaced(Namespaced(opt)) = Namespaced(opt)
<1>1. CASE ~(Options!IsSelect(opt) /\ opt.category = "model")
    BY <1>1 DEF Namespaced
<1>2. CASE Options!IsSelect(opt) /\ opt.category = "model"
    <2> DEFINE more == Options!NamespaceSelect(opt)
               most == Options!NamespaceSelect(more)
    <2>1. Namespaced(opt) = more
        BY <1>2 DEF Namespaced
    <2>2. Selector(opt)
        BY <1>2
    <2>3. /\ DOMAIN more = DOMAIN opt
          /\ more.type = opt.type /\ more.category = opt.category /\ more.id = opt.id
          /\ more.current = Options!MaybePrefix(opt.current)
          /\ more.entries = [i \in DOMAIN opt.entries |->
                                [k \in DOMAIN opt.entries[i] |->
                                    Options!MaybePrefix(opt.entries[i][k])]]
        BY <2>2, NamespacedEntries
    <2>4. Namespaced(more) = most
        BY <1>2, <2>3 DEF Namespaced, Options!IsSelect
    <2>5. most = [more EXCEPT !.current = Options!MaybePrefix(more.current),
                             !.entries = [i \in DOMAIN more.entries |->
                                [k \in DOMAIN more.entries[i] |->
                                    Options!MaybePrefix(more.entries[i][k])]]]
        BY DEF Options!NamespaceSelect, Options!MapSeq
    <2>6. Options!MaybePrefix(more.current) = more.current
        BY <2>2, <2>3, PrefixFacts DEF Selector
    <2>7. [i \in DOMAIN more.entries |->
              [k \in DOMAIN more.entries[i] |->
                  Options!MaybePrefix(more.entries[i][k])]] = more.entries
        <3> DEFINE e == opt.entries
        <3>1. \A i \in DOMAIN e : \A k \in DOMAIN e[i] : e[i][k] \in Options!Ids
            BY <2>2 DEF Selector, BareIds
        <3>2. \A i \in DOMAIN e : \A k \in DOMAIN e[i] :
                 Options!MaybePrefix(Options!MaybePrefix(e[i][k])) = Options!MaybePrefix(e[i][k])
            BY <3>1, PrefixFacts
        <3> HIDE DEF e, more
        <3>3. more.entries = [i \in DOMAIN e |->
                                [k \in DOMAIN e[i] |-> Options!MaybePrefix(e[i][k])]]
            BY <2>3 DEF e
        <3> QED
            BY <3>2, <3>3
    <2>9. more = [field \in DOMAIN more |-> more[field]]
        BY DEF Options!NamespaceSelect
    <2> HIDE DEF more, most
    <2>8. most = more
        <3>1. most = [more EXCEPT !.current = more.current, !.entries = more.entries]
            BY <2>5, <2>6, <2>7
        <3>2. most = [field \in DOMAIN more |-> more[field]]
            BY <3>1
        <3> QED
            BY <2>9, <3>2
    <2> QED
        BY <1>2, <2>1, <2>3, <2>4, <2>8 DEF Options!Matches, Options!IsSelect
<1> QED
    BY <1>1, <1>2

\* The same of the whole list: every option keeps its place.
LEMMA NamespaceShape ==
    ASSUME NEW options \in Advertisements
    PROVE  LET shape == Options!NamespaceModelOptions(options) IN
           /\ DOMAIN shape = DOMAIN options
           /\ \A i \in DOMAIN options : shape[i] = Namespaced(options[i])
           /\ Options!NamespaceModelOptions(shape) = shape
<1> DEFINE shape == Options!NamespaceModelOptions(options)
<1>1. \A seq : Options!NamespaceModelOptions(seq) = [i \in DOMAIN seq |-> Namespaced(seq[i])]
    BY DEF Options!NamespaceModelOptions, Options!MapSeq, Namespaced
<1>2. shape = [i \in DOMAIN options |-> Namespaced(options[i])]
    BY <1>1
<1>3. \A i \in DOMAIN options : Namespaced(Namespaced(options[i])) = Namespaced(options[i])
    BY AdvertisedFacts, NamespacedFacts
<1>4. Options!NamespaceModelOptions(shape) = [i \in DOMAIN shape |-> Namespaced(shape[i])]
    BY <1>1
<1> QED
    BY <1>2, <1>3, <1>4

\* The first model selector of the namespaced options is the one of the advertised
\* ones, namespaced.
LEMMA SameSelector ==
    ASSUME NEW options \in Advertisements
    PROVE  LET opt   == Options!FindModelOption(options)
               shape == Options!NamespaceModelOptions(options)
           IN  IF opt = None THEN Options!FindModelOption(shape) = None
               ELSE /\ Selector(opt)
                    /\ Options!FindModelOption(shape) = Namespaced(opt)
<1> DEFINE shape == Options!NamespaceModelOptions(options)
           Places(seq) == {i \in DOMAIN seq : Options!Matches(seq[i])}
           p == CHOOSE i \in Places(options) : \A j \in Places(options) : i <= j
<1>1. Places(shape) = Places(options) /\ \A i \in DOMAIN options : shape[i] = Namespaced(options[i])
    BY NamespaceShape, AdvertisedFacts, NamespacedFacts
<1>2. \A seq : Options!FindModelOption(seq) =
                 IF Places(seq) = {} THEN None
                 ELSE seq[CHOOSE i \in Places(seq) : \A j \in Places(seq) : i <= j]
    BY DEF Options!FindModelOption
<1>3. CASE Places(options) = {}
    <2> HIDE DEF Places
    <2> QED
        BY <1>1, <1>2, <1>3
<1>4. CASE Places(options) # {}
    <2>1. Places(options) \subseteq Nat
        BY AdvertisedFacts
    <2> HIDE DEF Places
    <2>2. \E i \in Places(options) : \A j \in Places(options) : i <= j
        BY <1>4, <2>1, LeastNumber
    <2>3. p \in Places(options)
        BY <2>2
    <2>4. Options!FindModelOption(options) = options[p] /\ Options!FindModelOption(shape) = shape[p]
        BY <1>1, <1>2, <1>4
    <2>5. p \in DOMAIN options /\ Options!IsSelect(options[p])
        BY <2>3 DEF Places, Options!Matches
    <2> QED
        BY <1>1, <2>4, <2>5, AdvertisedFacts
<1> QED
    BY <1>3, <1>4

\* A selector's ids are bare, and namespaced one by one: its groups stay as they are.
LEMMA SelectorIds ==
    ASSUME NEW opt, Selector(opt)
    PROVE  LET ids  == Options!ModelIdsInOption(opt)
               more == Options!ModelIdsInOption(Options!NamespaceSelect(opt))
           IN  /\ ids \in Seq(BareIds) /\ DOMAIN more = DOMAIN ids
               /\ \A j \in DOMAIN ids : more[j] = Options!Prefix \o ids[j]
<1> DEFINE e == opt.entries
           h == [id \in BareIds |-> Options!MaybePrefix(id)]
           n == [i \in DOMAIN e |-> [k \in DOMAIN e[i] |-> Options!MaybePrefix(e[i][k])]]
<1>1. e \in Seq(Seq(BareIds))
    BY DEF Selector
<1>2. (Options!NamespaceSelect(opt)).entries = n
    BY NamespacedEntries
<1> HIDE DEF e
<1>3. /\ \A i \in 1 .. Len(e) : e[i] \in Seq(BareIds)
      /\ \A i \in 1 .. Len(e) : \A k \in 1 .. Len(e[i]) : e[i][k] \in BareIds
    BY <1>1
<1>4. ASSUME NEW i \in 1 .. Len(e)
      PROVE  /\ n[i] \in Seq(Options!Ids) /\ Len(n[i]) = Len(e[i])
             /\ \A k \in 1 .. Len(e[i]) : n[i][k] = h[e[i][k]]
    <2>1. e[i] \in Seq(BareIds) /\ DOMAIN e[i] = 1 .. Len(e[i]) /\ Len(e[i]) \in Nat /\ i \in DOMAIN e
        BY <1>1, <1>3
    <2>2. n[i] = [k \in 1 .. Len(e[i]) |-> Options!MaybePrefix(e[i][k])]
        BY <2>1
    <2>3. \A k \in 1 .. Len(e[i]) : e[i][k] \in BareIds /\ Options!MaybePrefix(e[i][k]) \in Options!Ids
        BY <1>3, PrefixFacts DEF BareIds
    <2> HIDE DEF n
    <2> QED
        BY <2>1, <2>2, <2>3
<1>5. n \in Seq(Seq(Options!Ids)) /\ Len(n) = Len(e)
    <2>1. DOMAIN e = 1 .. Len(e) /\ Len(e) \in Nat
        BY <1>1
    <2>2. n \in [1 .. Len(e) -> Seq(Options!Ids)]
        <3>1. n = [i \in 1 .. Len(e) |-> n[i]]
            BY <2>1
        <3> HIDE DEF n
        <3> QED
            BY <1>4, <3>1
    <2> HIDE DEF n
    <2> QED
        BY <2>1, <2>2
<1> HIDE DEF n, h
<1>6. /\ Len(FlattenSeq(n)) = Len(FlattenSeq(e))
      /\ \A j \in 1 .. Len(FlattenSeq(e)) : FlattenSeq(n)[j] = h[FlattenSeq(e)[j]]
    <2>1. \A i \in 1 .. Len(e) : Mapped(h, e[i], n[i])
        BY <1>4 DEF Mapped
    <2>2. Mapped(h, FlattenSeq(e), FlattenSeq(n))
        BY <1>1, <1>5, <2>1, FlattenMapped
    <2> QED
        BY <2>2 DEF Mapped
<1>7. FlattenSeq(e) \in Seq(BareIds) /\ FlattenSeq(n) \in Seq(Options!Ids)
    BY <1>1, <1>5, FlattenLaid
<1>8. Options!ModelIdsInOption(opt) = FlattenSeq(e)
    BY DEF Options!ModelIdsInOption, Options!FlattenSeq, FlattenSeq, e
<1>9. Options!ModelIdsInOption(Options!NamespaceSelect(opt)) = FlattenSeq(n)
    BY <1>2 DEF Options!ModelIdsInOption, Options!FlattenSeq, FlattenSeq
<1>10. \A id \in BareIds : h[id] = Options!Prefix \o id
    BY DEF h, BareIds, Options!MaybePrefix
<1>11. \A j \in 1 .. Len(FlattenSeq(e)) : FlattenSeq(e)[j] \in BareIds
    BY <1>7
<1>12. /\ DOMAIN FlattenSeq(e) = 1 .. Len(FlattenSeq(e))
       /\ DOMAIN FlattenSeq(n) = 1 .. Len(FlattenSeq(n))
    BY <1>7
<1> QED
    BY <1>6, <1>7, <1>8, <1>9, <1>10, <1>11, <1>12

-----------------------------------------------------------------------------
(* Picks.  Both routes show the ids the wrapper has advertised, namespaced; *)
(* a selector known by its id only keeps bare ones, which no pick can name. *)

\* What was shown is made of what is advertised.
OptionsInv ==
    /\ advertised \in Advertisements
    /\ roster # None => roster = Options!RosterIds(advertised)
    /\ shown # None => shown = Options!NamespaceModelOptions(advertised)
    /\ PickNamesTheModel

\* What the client can pick at a place is the id advertised there, namespaced or not.
LEMMA OfferedIds ==
    ASSUME OptionsInv, NEW route \in {"roster", "frame"}, NEW i \in DOMAIN Options!Offered(route)
    PROVE  LET offered == Options!Offered(route)[i] IN
           /\ Options!AdvertisedIds[i] \in BareIds
           /\ offered \in {Options!Prefix \o Options!AdvertisedIds[i], Options!AdvertisedIds[i]}
<1> DEFINE opt == Options!FindModelOption(advertised)
           shape == Options!NamespaceModelOptions(advertised)
           ids == Options!ModelIdsInOption(opt)
<1>1. advertised \in Advertisements
    BY DEF OptionsInv
<1>2. IF opt = None THEN Options!FindModelOption(shape) = None
      ELSE Selector(opt) /\ Options!FindModelOption(shape) = Namespaced(opt)
    BY <1>1, SameSelector
<1>3. opt # None => /\ Options!AdvertisedIds = ids /\ ids \in Seq(BareIds)
                    /\ \A j \in DOMAIN ids : ids[j] \in BareIds
    BY <1>2, SelectorIds DEF Options!AdvertisedIds
<1>4. CASE route = "roster"
    <2>1. Options!Offered(route) = roster /\ roster = Options!RosterIds(advertised)
        BY <1>4 DEF Options!Offered, OptionsInv
    <2>2. opt # None /\ roster = [j \in DOMAIN ids |-> Options!Prefix \o ids[j]]
        BY <2>1 DEF Options!RosterIds, Options!MapSeq
    <2> HIDE DEF ids, opt
    <2> QED
        BY <1>3, <2>1, <2>2
<1>5. CASE route = "frame"
    <2>1. /\ shown = shape /\ Options!FindModelOption(shape) # None
          /\ Options!Offered(route) = Options!ModelIdsInOption(Options!FindModelOption(shape))
        BY <1>5 DEF Options!Offered, OptionsInv
    <2>2. opt # None /\ Selector(opt)
          /\ Options!Offered(route) = Options!ModelIdsInOption(Namespaced(opt))
        BY <1>2, <2>1
    <2> DEFINE more == Options!ModelIdsInOption(Options!NamespaceSelect(opt))
    <2>3. DOMAIN more = DOMAIN ids /\ \A j \in DOMAIN ids : more[j] = Options!Prefix \o ids[j]
        BY <2>2, SelectorIds
    <2>4. Options!Offered(route) = more \/ Options!Offered(route) = ids
        BY <2>2 DEF Namespaced
    <2> HIDE DEF more, ids, opt
    <2> QED
        BY <1>3, <2>2, <2>3, <2>4
<1> QED
    BY <1>4, <1>5

\* A pick is sent only when it carries the namespace, which is taken off again.
LEMMA OptionsStep ==
    ASSUME OptionsInv, [Options!Next]_(Options!vars)
    PROVE  OptionsInv'
<1> USE DEF OptionsInv
<1>1. CASE Options!Probe
    BY <1>1 DEF Options!Probe, PickNamesTheModel, Options!PickNamesTheModel, Options!AdvertisedIds
<1>2. CASE Options!Update
    BY <1>2 DEF Options!Update, PickNamesTheModel, Options!PickNamesTheModel, Options!AdvertisedIds
<1>3. CASE Options!Echo
    <2>1. Options!NamespaceModelOptions(shown) = shown
        BY <1>3, NamespaceShape DEF Options!Echo
    <2> QED
        BY <1>3, <2>1 DEF Options!Echo, PickNamesTheModel, Options!PickNamesTheModel,
                          Options!AdvertisedIds
<1>4. CASE Options!Pick
    <2> DEFINE Picks(route, i) ==
                 LET half == Options!SplitNamespaced(Options!Offered(route)[i]) IN
                 /\ half.model # <<>> /\ half.agent = <<Agent>>
                 /\ pick' = [place |-> i, sent |-> half.model]
    <2>0. PICK route \in {"roster", "frame"} : \E j \in DOMAIN Options!Offered(route) : Picks(route, j)
        BY <1>4 DEF Options!Pick
    <2>1. PICK i \in DOMAIN Options!Offered(route) : Picks(route, i)
        BY <2>0
    <2> DEFINE offered == Options!Offered(route)[i]
               own == Options!AdvertisedIds[i]
    <2>2. own \in BareIds /\ offered \in {Options!Prefix \o own, own}
        BY OfferedIds
    <2>3. own \in Options!Ids /\ ~Options!IsPrefix(Options!Prefix, own)
        BY <2>2 DEF BareIds
    <2>4. offered # own
        BY <2>1, <2>3, SplitOwn
    <2>5. Options!SplitNamespaced(offered) = [agent |-> <<Agent>>, model |-> own]
        BY <2>2, <2>3, <2>4, SplitNamespaces
    <2>6. pick'.place = i /\ pick'.sent = own
        BY <2>1, <2>5
    <2>7. UNCHANGED <<advertised, shown, roster>>
        BY <1>4 DEF Options!Pick
    <2>8. Options!AdvertisedIds' = Options!AdvertisedIds
        BY <2>7 DEF Options!AdvertisedIds
    <2> HIDE DEF own
    <2>9. PickNamesTheModel'
        BY <2>6, <2>8 DEF PickNamesTheModel, Options!PickNamesTheModel, own
    <2> QED
        BY <2>7, <2>9
<1>5. CASE UNCHANGED Options!vars
    BY <1>5 DEF Options!vars, PickNamesTheModel, Options!PickNamesTheModel, Options!AdvertisedIds
<1> QED
    BY <1>1, <1>2, <1>3, <1>4, <1>5 DEF Options!Next

\* The wrapper is asked for the model the client has picked from its list, whichever
\* way the client learnt of it (model_options.py:161-167, 185-192).
THEOREM PicksNameTheModel == Options!Spec => []PickNamesTheModel
<1>1. Options!Init => OptionsInv
    BY DEF Options!Init, OptionsInv, PickNamesTheModel, Options!PickNamesTheModel
<1>2. OptionsInv => PickNamesTheModel
    BY DEF OptionsInv
<1> QED
    BY <1>1, <1>2, OptionsStep, PTL DEF Options!Spec

=============================================================================
