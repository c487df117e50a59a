------------------------------ MODULE AcpDaemon ------------------------------
(***************************************************************************)
(* The per-container daemons of acp/daemon.py, all told to serve the same  *)
(* socket path, from their first look at the path to their last unlink.    *)
(*                                                                         *)
(* Daemons are processes: they interleave between any two system calls.    *)
(* An action is one system call that reads or changes the path, the        *)
(* container or the clients.  A socket file is named by the daemon that    *)
(* bound it; connecting to it succeeds while that daemon listens.          *)
(***************************************************************************)
EXTENDS Integers, FiniteSets

CONSTANTS
    MaxDaemons,    \* how many daemons are ever spawned for the container
    Clients,       \* editors that connect to the socket
    Regimes,       \* the surroundings the daemons may find themselves in
    None

Daemons == 1 .. MaxDaemons

\* When the host starts one more daemon (see MaySpawn), what else may happen, and
\* whether server.close() removes the file it bound (from Python 3.13 on).
Surroundings ==
    [spawner : {"settled", "notLive", "any"},
     disturbances : SUBSET {"kill", "signal", "flaky", "restart"},
     unlinksOnClose : BOOLEAN]

ASSUME DaemonsAssumption  == MaxDaemons \in Nat
ASSUME RegimesAssumption  == Regimes \subseteq Surroundings
ASSUME NoDaemonAssumption == None \notin Daemons

VARIABLES
    regime,    \* the surroundings of this behaviour
    path,      \* the socket file: None, or the daemon that bound it
    pc,        \* pc[d]: where daemon d stands in _run
    container, \* running, exited, removed
    client     \* client[c]: the daemon c is connected to, or None

vars == <<regime, path, pc, container, client>>

Disturbances == regime.disturbances

\* The stops of _run before, and in, its steady state; its ways to end.
Starting == {"start", "probe", "unlink", "image", "remove", "bind", "listen"}
Ended    == {"done", "dead"}
Pcs      == {"idle", "serve", "closing"} \cup Starting \cup Ended

\* Types, and that a connection has a daemon at its other end.
TypeOK ==
    /\ regime \in Regimes
    /\ path \in Daemons \cup {None}
    /\ pc \in [Daemons -> Pcs]
    /\ container \in {"running", "exited", "removed"}
    /\ client \in [Clients -> Daemons \cup {None}]
    /\ \A c \in Clients : client[c] # None => pc[client[c]] \in {"serve", "closing"}

Init ==
    /\ regime \in Regimes
    /\ path = None
    /\ pc = [d \in Daemons |-> "idle"]
    /\ container = "running"
    /\ client = [c \in Clients |-> None]

Listening(d) == d \in Daemons /\ pc[d] = "serve"
Alive(d)     == pc[d] \notin {"idle"} \cup Ended
ServedBy(d)  == {c \in Clients : client[c] = d}
Goto(d, step) == pc' = [pc EXCEPT ![d] = step]

\* acp_socket_is_live: somebody accepts on the file.
SocketIsLive == Listening(path)

-----------------------------------------------------------------------------
(* The host: it decides when one more daemon is started.                    *)

\* settled: no other daemon is starting up or shutting down; notLive: none is
\* starting up and the socket does not answer, what a host goes by that
\* connects one client after another; any: at any time.
MaySpawn(d) ==
    /\ pc[d] = "idle" /\ \A e \in 1 .. (d - 1) : pc[e] # "idle"
    /\ \/ regime.spawner = "any"
       \/ /\ regime.spawner = "notLive"
          /\ ~SocketIsLive /\ \A e \in Daemons : pc[e] \notin Starting
       \/ regime.spawner = "settled" /\ \A e \in Daemons : Alive(e) => Listening(e)

Spawn(d) ==
    /\ MaySpawn(d) /\ container = "running"
    /\ Goto(d, "start")
    /\ UNCHANGED <<regime, path, container, client>>

-----------------------------------------------------------------------------
(* _run, up to the socket that accepts.                                     *)

\* Bug: a daemon that finds a file goes on without probing it.
StartUnprobed(d) ==
    /\ pc[d] = "start"
    /\ IF path = None THEN Goto(d, "image") ELSE Goto(d, "unlink")
    /\ UNCHANGED <<regime, path, container, client>>

Start(d) ==
    /\ pc[d] = "start"
    /\ IF path = None THEN Goto(d, "image") ELSE Goto(d, "probe")
    /\ UNCHANGED <<regime, path, container, client>>

\* A probe that connects is a client that leaves at once: it changes nothing.
Probe(d) ==
    /\ pc[d] = "probe"
    /\ IF SocketIsLive THEN Goto(d, "done") ELSE Goto(d, "unlink")
    /\ UNCHANGED <<regime, path, container, client>>

Unlink(d) ==
    /\ pc[d] = "unlink"
    /\ path' = None
    /\ Goto(d, "image")
    /\ UNCHANGED <<regime, container, client>>

\* A removed container has no image: give up.
ReadImage(d) ==
    /\ pc[d] = "image"
    /\ IF container = "removed" THEN Goto(d, "done") ELSE Goto(d, "remove")
    /\ UNCHANGED <<regime, path, container, client>>

\* start_unix_server removes a socket file of that name, whoever bound it.
RemoveSocket(d) ==
    /\ pc[d] = "remove"
    /\ path' = None
    /\ Goto(d, "bind")
    /\ UNCHANGED <<regime, container, client>>

\* A file that another daemon has bound meanwhile is EADDRINUSE.
BindSocket(d) ==
    /\ pc[d] = "bind"
    /\ IF path = None THEN path' = d /\ Goto(d, "listen")
                      ELSE Goto(d, "done") /\ UNCHANGED path
    /\ UNCHANGED <<regime, container, client>>

Listen(d) ==
    /\ pc[d] = "listen"
    /\ Goto(d, "serve")
    /\ UNCHANGED <<regime, path, container, client>>

-----------------------------------------------------------------------------
(* Supervision and the way out.                                             *)

\* Bug: only a container that still exists is seen to have stopped.
SeesExitedOnly == container = "exited" \/ {"signal", "flaky"} \cap Disturbances # {}

\* _watch_container: the container does not run, or podman did not say;
\* or a SIGTERM or SIGINT asked the daemon to stop.
StopIsRequested == container # "running" \/ {"signal", "flaky"} \cap Disturbances # {}

\* server.close(): nobody can connect any more.
CloseServer(d) ==
    /\ pc[d] = "serve" /\ StopIsRequested
    /\ Goto(d, "closing")
    /\ path' = IF regime.unlinksOnClose /\ path = d THEN None ELSE path
    /\ UNCHANGED <<regime, container, client>>

\* Bug: the file is left where it is.
CleanUpKeepsFile(d) ==
    /\ pc[d] = "closing" /\ ServedBy(d) = {}
    /\ Goto(d, "done")
    /\ UNCHANGED <<regime, path, container, client>>

\* Bug: the daemon ends without waiting for its clients' connections to close.
CleanUpAtOnce(d) ==
    /\ pc[d] = "closing"
    /\ path' = None
    /\ Goto(d, "done")
    /\ UNCHANGED <<regime, container, client>>

\* wait_closed() returns once the last client has left; then the file goes,
\* whoever has bound it by now.
CleanUp(d) ==
    /\ pc[d] = "closing" /\ ServedBy(d) = {}
    /\ path' = None
    /\ Goto(d, "done")
    /\ UNCHANGED <<regime, container, client>>

\* SIGKILL, or SIGTERM before its handler is installed.
Kill(d) ==
    /\ "kill" \in Disturbances /\ Alive(d)
    /\ Goto(d, "dead")
    /\ client' = [c \in Clients |-> IF client[c] = d THEN None ELSE client[c]]
    /\ UNCHANGED <<regime, path, container>>

-----------------------------------------------------------------------------
(* Clients, each with a proxy of its own, and the container.                *)

Connect(c) ==
    /\ client[c] = None /\ SocketIsLive
    /\ client' = [client EXCEPT ![c] = path]
    /\ UNCHANGED <<regime, path, pc, container>>

Disconnect(c) ==
    /\ client[c] # None
    /\ client' = [client EXCEPT ![c] = None]
    /\ UNCHANGED <<regime, path, pc, container>>

ContainerExits ==
    /\ container = "running"
    /\ container' = "exited"
    /\ UNCHANGED <<regime, path, pc, client>>

ContainerRestarts ==
    /\ "restart" \in Disturbances /\ container = "exited"
    /\ container' = "running"
    /\ UNCHANGED <<regime, path, pc, client>>

ContainerRemoved ==
    /\ container # "removed"
    /\ container' = "removed"
    /\ UNCHANGED <<regime, path, pc, client>>

-----------------------------------------------------------------------------
Run(d) ==
    \/ Start(d)     \/ Probe(d)        \/ Unlink(d)     \/ ReadImage(d)
    \/ RemoveSocket(d) \/ BindSocket(d) \/ Listen(d)    \/ CleanUp(d)

Next ==
    \/ \E d \in Daemons : Spawn(d) \/ Run(d) \/ CloseServer(d) \/ Kill(d)
    \/ \E c \in Clients : Connect(c) \/ Disconnect(c)
    \/ ContainerExits \/ ContainerRestarts \/ ContainerRemoved

Spec == Init /\ [][Next]_vars

\* Processes run, and a daemon polls its container again and again.  Nothing is
\* assumed of the clients: nothing makes one hang up.
Polls(d) == container # "running" /\ CloseServer(d)
Fairness == \A d \in Daemons : WF_vars(Run(d)) /\ WF_vars(Polls(d))

FairSpec == Spec /\ Fairness

-----------------------------------------------------------------------------
(* Properties.                                                              *)

\* A daemon that accepts is the one that the socket path leads to, as long as
\* the container it serves runs (daemon.py:123-126).
Reachable ==
    \A d \in Daemons : Listening(d) /\ container = "running" => path = d

\* That holds when daemons are started one after another and at worst killed.
Settled == regime.spawner = "settled" /\ Disturbances \subseteq {"kill"}
ReachableWhenSettled == Settled => Reachable

\* Once every daemon has ended, a socket file is left only by one that was
\* killed (daemon.py:188-191, "Always exits cleanly" in 120).
LitterIsFromKills ==
    (\A d \in Daemons : ~Alive(d)) /\ path # None => pc[path] = "dead"

\* Once its container is gone every daemon ends, daemon.py:8-10, or has stopped
\* accepting and waits for nothing but clients that stay connected: wait_closed,
\* daemon.py:187, has no timeout.
EndsWithContainer ==
    container = "removed" ~>
      \A d \in Daemons : ~Alive(d) \/ (pc[d] = "closing" /\ ServedBy(d) # {})

=============================================================================
