------------------------------- MODULE Launch -------------------------------
(***************************************************************************)
(* The run, start, stop and rm verbs over the images: container/runner.py, *)
(* preflight.py and the handlers of commands.py, from the setup verdict to *)
(* the container that ends and the state that is removed.                  *)
(*                                                                         *)
(* A run creates its container state step by step and may be refused, fail *)
(* or be killed between any two of them.  Whatever a run creates is named  *)
(* by the run: its state directory, its staged agent config, its gate      *)
(* token and ports.  A container reads the supervisor sidecar as it starts. *)
(***************************************************************************)
EXTENDS Images

CONSTANT Names  \* names an operator gives; other containers are named by their run

ASSUME NamesAssumption == Names \cap Verbs = {} /\ None \notin Names

\* The ways to run: an agent with a prompt, with a terminal, behind a web page, or a
\* tool in its sidecar image.
Modes == {"headless", "interactive", "web", "tool"}

ASSUME JobsAssumption ==
    \A r \in Regimes : \A j \in r.jobs :
        /\ j.verb = "run" => j.mode \in Modes
        /\ j.name \in Names \cup {None}
        /\ j.gate \in BOOLEAN /\ j.ephemeral \in BOOLEAN /\ j.follow \in BOOLEAN

ContainerNames == Names \cup Verbs

VARIABLES
    ready,      \* ready[v]: the preflight of v has found nothing missing so far
    container,  \* container[n]: None, or the container of that name
    sidecar,    \* sidecar[n]: None, or whose token and ports the supervisor serves
    stateDir,   \* stateDir[n]: None, or the run that made the state directory
    staged,     \* the runs whose agent config is staged
    gone        \* the names rm has removed and no run has taken since

launchVars == <<ready, container, sidecar, stateDir, staged, gone>>
vars == <<imageVars, launchVars>>

Served == [by : Verbs, gate : BOOLEAN]
Containers == [by : Verbs, up : BOOLEAN, sup : Served, ephemeral : BOOLEAN]

LaunchInit ==
    /\ ready = [v \in Verbs |-> TRUE]
    /\ container = [n \in ContainerNames |-> None]
    /\ sidecar = [n \in ContainerNames |-> None]
    /\ stateDir = [n \in ContainerNames |-> None]
    /\ staged = {} /\ gone = {}

Init == ImagesInit /\ LaunchInit

CName(v) == IF job[v].name = None THEN v ELSE job[v].name
Up(n)    == container[n] # None /\ container[n].up

\* A verb that may still change what belongs to the name.
Busy(n) == \E u \in Verbs :
    Alive(u) /\ job[u].verb \notin ImageVerbs /\ CName(u) = n /\ pc[u] \notin {"follow", "wait"}

ContainerVerbs == {"run", "start", "stop", "rm"}

\* Unless the regime says otherwise, a name is used by one verb at a time.  A run may
\* take a name whose container was kept.
Spawn(v) ==
    /\ MaySpawn(v)
    /\ \E j \in regime.jobs :
          LET n == IF j.name = None THEN v ELSE j.name IN
          /\ j.verb \in ContainerVerbs
          /\ ~regime.reuse => ~Busy(n)
          /\ job' = [job EXCEPT ![v] = j]
          /\ Goto(v, j.verb)
          /\ gone' = IF j.verb = "run" THEN gone \ {n} ELSE gone
    /\ UNCHANGED <<regime, roster, image, task, announced, login>>
    /\ UNCHANGED <<ready, container, sidecar, stateDir, staged>>

-----------------------------------------------------------------------------
(* The setup verdict and the preflight.                                     *)

Steps(v, steps) == \E s \in steps : Goto(v, s)

\* needs_setup: exit code 3, or 4 for a downgrade, unless the gate is waived.
SetupVerdict(v) ==
    /\ pc[v] = "run"
    /\ Steps(v, {"preflight"} \cup IF regime.failures /\ job[v].preflight # "skip"
                                   THEN {"refused"} ELSE {})
    /\ Unchanged /\ UNCHANGED launchVars

\* No terminal and no --yes: nothing is checked, and the run refused.
Preflight(v) ==
    /\ pc[v] = "preflight"
    /\ Goto(v, IF job[v].preflight = "skip" THEN "resolve"
               ELSE IF job[v].preflight = "notty" THEN "refused" ELSE "checkPodman")
    /\ Unchanged /\ UNCHANGED launchVars

\* What a check may find, and what the operator answers: --yes agrees to all.
PodmanFound   == {TRUE, ~regime.failures}
ServicesFound == {TRUE, ~regime.failures}
Confirms(v)   == IF job[v].preflight = "ask" THEN BOOLEAN ELSE {TRUE}

\* Nothing can be checked, or fixed, without podman.
RequirePodman(v) ==
    /\ pc[v] = "checkPodman"
    /\ \E found \in PodmanFound : Goto(v, IF found THEN "checkServices" ELSE "refused")
    /\ Unchanged /\ UNCHANGED launchVars

\* The shield hooks: found, or installed on the spot and found then.
RequireServices(v) ==
    /\ pc[v] = "checkServices"
    /\ \E found, agreed, then \in BOOLEAN :
          /\ {found, then} \subseteq ServicesFound /\ agreed \in Confirms(v)
          /\ ready' = [ready EXCEPT ![v] = found \/ (agreed /\ then)]
    /\ Goto(v, "checkImages")
    /\ Unchanged /\ UNCHANGED <<container, sidecar, stateDir, staged, gone>>

\* The images: there, or built on the spot.
CheckImages(v) ==
    /\ pc[v] = "checkImages"
    /\ \/ ImagesReady(job[v].base) /\ Goto(v, "credentials") /\ UNCHANGED task
       \/ /\ ~ImagesReady(job[v].base)
          /\ \/ FALSE \in Confirms(v) /\ Goto(v, "noImages") /\ UNCHANGED task
             \/ Call(v, "select",
                     BaseTask(job[v], Everything, "no", FALSE, "builtImages", "noImages"))
    /\ UNCHANGED <<regime, roster, image, job, announced, login>> /\ UNCHANGED launchVars

\* The build is announced and checked again.
RecheckImages(v) ==
    /\ pc[v] = "builtImages"
    /\ announced' = [announced EXCEPT ![job[v].base] = TRUE]
    /\ Goto(v, IF ImagesReady(job[v].base) THEN "credentials" ELSE "noImages")
    /\ UNCHANGED <<regime, roster, image, job, task, login>> /\ UNCHANGED launchVars

NoImages(v) ==
    /\ pc[v] = "noImages"
    /\ ready' = [ready EXCEPT ![v] = FALSE]
    /\ Goto(v, "credentials")
    /\ Unchanged /\ UNCHANGED <<container, sidecar, stateDir, staged, gone>>

\* The operator logs in with an API key, or in a container.
FixCredentials(v) ==
    \/ Goto(v, "checked") /\ UNCHANGED task
    \/ Call(v, "ensure", LoginTask(job[v], "checked", "refused"))

\* The credentials are optional: stored, declined, or captured, and checked again
\* for the report only.  Nothing but a failed image build ends the run.
OfferCredentials(v) ==
    /\ pc[v] = "credentials"
    /\ \E stored \in BOOLEAN, agreed \in Confirms(v) :
          IF stored \/ ~agreed THEN Goto(v, "checked") /\ UNCHANGED task ELSE FixCredentials(v)
    /\ UNCHANGED <<regime, roster, image, job, announced, login>> /\ UNCHANGED launchVars

PreflightEnds(v) ==
    /\ pc[v] = "checked"
    /\ Goto(v, IF ready[v] THEN "resolve" ELSE "refused")
    /\ Unchanged /\ UNCHANGED launchVars

-----------------------------------------------------------------------------
(* _run and launch_prepared.                                                *)

KnownAgent(v) ==
    /\ roster # None
    /\ job[v].agent \in (IF job[v].mode = "tool" THEN roster.sidecars ELSE roster.agents)

\* The agent or the tool, then its image.
Resolve(v) ==
    /\ pc[v] = "resolve"
    /\ \/ ~KnownAgent(v) /\ Goto(v, "refused") /\ UNCHANGED task
       \/ /\ KnownAgent(v)
          /\ IF job[v].mode = "tool"
               THEN Call(v, "side", SidecarTask(job[v], job[v].agent, "no", "provision", "refused"))
               ELSE Call(v, "select",
                         BaseTask(job[v], Everything, "no", FALSE, "provision", "refused"))
    /\ UNCHANGED <<regime, roster, image, job, announced, login>> /\ UNCHANGED launchVars

ImageOf(v) == IF job[v].mode = "tool" THEN SidecarTag(job[v].base) ELSE Target(v)

MakesStateDir(v) ==
    stateDir' = [stateDir EXCEPT ![CName(v)] = IF @ = None THEN v ELSE @]

\* _provision_workspace: a repo the container cannot reach, or a gate that cannot
\* mirror it, refuses the run.
Provision(v) ==
    /\ pc[v] = "provision"
    /\ Steps(v, {"stateDir"} \cup IF regime.failures THEN {"refused"} ELSE {})
    /\ Unchanged /\ UNCHANGED launchVars

MakeStateDir(v) ==
    /\ pc[v] = "stateDir"
    /\ MakesStateDir(v)
    /\ Goto(v, "assemble")
    /\ Unchanged /\ UNCHANGED <<ready, container, sidecar, staged, gone>>

\* Bug: the agent config is staged under the name of the container.
StagedByName(v) == CName(v)

\* The agent config is staged under the id of the run, beside the state directory.
StagedAs(v) == v

\* The config is staged; then a shared directory that is none refuses the run, and
\* the environment is assembled.  A tool gets neither.
Assemble(v) ==
    /\ pc[v] = "assemble"
    /\ staged' = IF job[v].mode = "tool" THEN staged ELSE staged \cup {StagedAs(v)}
    /\ Steps(v, {"sidecar"} \cup IF regime.failures /\ job[v].mode # "tool"
                                 THEN {"refused"} ELSE {})
    /\ Unchanged /\ UNCHANGED <<ready, container, sidecar, stateDir, gone>>

Serving(v) == [by |-> v, gate |-> job[v].gate]

\* Bug: a sidecar that is there is left as it is.
KeepSidecar(v) ==
    /\ pc[v] = "sidecar"
    /\ \/ /\ sidecar' = [sidecar EXCEPT ![CName(v)] = IF @ = None THEN Serving(v) ELSE @]
          /\ Goto(v, "podman")
       \/ regime.failures /\ Goto(v, "refused") /\ UNCHANGED sidecar
    /\ Unchanged /\ UNCHANGED <<ready, container, stateDir, staged, gone>>

\* The sidecar carries the token and the ports the environment was assembled
\* with, whether or not the name has a container already.  The GPUs may be refused
\* before it is written; without it, no launch.
WriteSidecar(v) ==
    /\ pc[v] = "sidecar"
    /\ \/ /\ sidecar' = [sidecar EXCEPT ![CName(v)] = Serving(v)]
          /\ Goto(v, "podman")
       \/ regime.failures /\ Goto(v, "refused") /\ UNCHANGED sidecar
    /\ Unchanged /\ UNCHANGED <<ready, container, stateDir, staged, gone>>

Created(v, sup) == [by |-> v, up |-> TRUE, sup |-> sup, ephemeral |-> job[v].ephemeral]

\* The command line always asks to follow; a caller of run_headless need not.
Attended(v) == job[v].follow /\ job[v].mode \in {"headless", "tool"}

\* podman run: the name is free, the image there, and the hook finds the sidecar.
PodmanRun(v) ==
    LET n == CName(v) IN
    /\ pc[v] = "podman"
    /\ \/ /\ container[n] = None /\ Exists(ImageOf(v)) /\ sidecar[n] # None
          /\ container' = [container EXCEPT ![n] = Created(v, sidecar[n])]
          /\ Goto(v, IF Attended(v) THEN "follow" ELSE "attach")
       \/ /\ regime.failures \/ container[n] # None \/ ~Exists(ImageOf(v)) \/ sidecar[n] = None
          /\ Goto(v, "aborted") /\ UNCHANGED container
    /\ Unchanged /\ UNCHANGED <<ready, sidecar, stateDir, staged, gone>>

\* A terminal or a web page: the log, up to the ready marker or for 120 seconds.
\* A run that nobody follows just returns.
Attach(v) ==
    /\ pc[v] = "attach"
    /\ Goto(v, "done")
    /\ Unchanged /\ UNCHANGED launchVars

\* _stream_headless: the log ends with the container, or cannot be read.
Follow(v) ==
    /\ pc[v] = "follow" /\ (regime.failures \/ ~Up(CName(v)))
    /\ Goto(v, "wait")
    /\ Unchanged /\ UNCHANGED launchVars

\* podman wait, for ten seconds: the exit code, or a warning.
Wait(v) ==
    /\ pc[v] = "wait"
    /\ Goto(v, "done")
    /\ Unchanged /\ UNCHANGED launchVars

-----------------------------------------------------------------------------
(* start, stop and rm.                                                      *)

\* The hook reads the sidecar again.
Start(v) ==
    LET n == CName(v) IN
    /\ pc[v] = "start"
    /\ \/ /\ container[n] # None /\ ~Up(n) /\ sidecar[n] # None
          /\ container' = [container EXCEPT ![n].up = TRUE, ![n].sup = sidecar[n]]
          /\ Goto(v, "done")
       \/ /\ ~Up(n) /\ (container[n] = None \/ sidecar[n] = None \/ regime.failures)
          /\ Goto(v, "failed") /\ UNCHANGED container
       \/ Up(n) /\ Goto(v, "done") /\ UNCHANGED container
    /\ Unchanged /\ UNCHANGED <<ready, sidecar, stateDir, staged, gone>>

\* A container that has ended is kept, unless it was ephemeral.
Halted(c) == IF c.ephemeral THEN None ELSE [c EXCEPT !.up = FALSE]

Stop(v) ==
    LET n == CName(v) IN
    /\ pc[v] = "stop"
    /\ IF container[n] = None
         THEN Goto(v, "failed") /\ UNCHANGED container
         ELSE /\ container' = [container EXCEPT ![n] = IF Up(n) THEN Halted(@) ELSE @]
              /\ Goto(v, "done")
    /\ Unchanged /\ UNCHANGED <<ready, sidecar, stateDir, staged, gone>>

\* Bug: without a container there is nothing to sweep.
RemovePresent(v) ==
    LET n == CName(v) IN
    /\ pc[v] = "rm"
    /\ container' = [container EXCEPT ![n] = None]
    /\ IF container[n] = None THEN Goto(v, "done") /\ gone' = gone \cup {n}
       ELSE Goto(v, "rmState") /\ UNCHANGED gone
    /\ Unchanged /\ UNCHANGED <<ready, sidecar, stateDir, staged>>

\* The container, also one that is gone already; then the supervisor's state and
\* the state directory.
RemoveContainer(v) ==
    /\ pc[v] = "rm"
    /\ \/ container' = [container EXCEPT ![CName(v)] = None] /\ Goto(v, "rmState")
       \/ regime.failures /\ Goto(v, "failed") /\ UNCHANGED container
    /\ Unchanged /\ UNCHANGED <<ready, sidecar, stateDir, staged, gone>>

RemoveState(v) ==
    /\ pc[v] = "rmState"
    /\ sidecar' = [sidecar EXCEPT ![CName(v)] = None]
    /\ Goto(v, "rmDir")
    /\ Unchanged /\ UNCHANGED <<ready, container, stateDir, staged, gone>>

RemoveDir(v) ==
    /\ pc[v] = "rmDir"
    /\ stateDir' = [stateDir EXCEPT ![CName(v)] = None]
    /\ gone' = gone \cup {CName(v)}
    /\ Goto(v, "done")
    /\ Unchanged /\ UNCHANGED <<ready, container, sidecar, staged>>

-----------------------------------------------------------------------------
(* What happens around the verbs.                                           *)

\* The agent ends, by itself or by its timeout.
AgentEnds(n) ==
    /\ Up(n)
    /\ container' = [container EXCEPT ![n] = Halted(@)]
    /\ UNCHANGED imageVars /\ UNCHANGED <<ready, sidecar, stateDir, staged, gone>>

\* podman rm, behind the back of the program.
RemovedOutOfBand(n) ==
    /\ regime.failures /\ container[n] # None
    /\ container' = [container EXCEPT ![n] = None]
    /\ UNCHANGED imageVars /\ UNCHANGED <<ready, sidecar, stateDir, staged, gone>>

\* A verb is killed between two steps.
Kill(v) ==
    /\ regime.failures /\ Alive(v)
    /\ Goto(v, "aborted")
    /\ Unchanged /\ UNCHANGED launchVars

-----------------------------------------------------------------------------
RunStep(v) ==
    \/ SetupVerdict(v) \/ Preflight(v) \/ RequirePodman(v) \/ RequireServices(v)
    \/ CheckImages(v) \/ RecheckImages(v) \/ NoImages(v) \/ OfferCredentials(v) \/ PreflightEnds(v)
    \/ Resolve(v) \/ Provision(v) \/ MakeStateDir(v) \/ Assemble(v) \/ WriteSidecar(v)
    \/ PodmanRun(v) \/ Attach(v) \/ Follow(v) \/ Wait(v)

LifecycleStep(v) == Start(v) \/ Stop(v) \/ RemoveContainer(v) \/ RemoveState(v) \/ RemoveDir(v)

Next ==
    \/ \E v \in Verbs : ImageStep(v) /\ UNCHANGED launchVars
    \/ \E v \in Verbs : Spawn(v) \/ RunStep(v) \/ LifecycleStep(v) \/ Kill(v)
    \/ \E n \in ContainerNames : AgentEnds(n) \/ RemovedOutOfBand(n)

Spec == Init /\ [][Next]_vars

-----------------------------------------------------------------------------
(* Properties.                                                              *)

\* Types, and that what was created was created by verbs that did start.
TypeOK ==
    /\ login \in Verbs \cup {None}
    /\ ready \in [Verbs -> BOOLEAN]
    /\ container \in [ContainerNames -> Containers \cup {None}]
    /\ sidecar \in [ContainerNames -> Served \cup {None}]
    /\ stateDir \in [ContainerNames -> Verbs \cup {None}]
    /\ staged \subseteq Verbs
    /\ gone \subseteq ContainerNames
    /\ \A v \in staged : pc[v] # "idle"
    /\ \A n \in ContainerNames : container[n] # None => pc[container[n].by] # "idle"

\* The run whose token and ports these are is a run of that name.
RunOf(served, n) ==
    LET u == served.by
    IN  pc[u] # "idle" /\ job[u].verb = "run" /\ CName(u) = n /\ served = Serving(u)

\* The supervisor behind a running container serves the token and the ports of the
\* run that created it, or else of a later run of the same name that was refused or
\* broke off after it had written the sidecar: never those of an earlier run, of
\* another name, or of a run that has a container.  So it is whatever runs, failures
\* and removals of that name came before, as long as no two verbs use one name at a
\* time (runner.py:592-620, 662-690).
Supervised ==
    \A n \in ContainerNames : Up(n) /\ ~regime.reuse =>
        LET u == container[n].sup.by IN
        /\ RunOf(container[n].sup, n)
        /\ u = container[n].by \/ (u > container[n].by /\ pc[u] \in {"refused", "aborted"})

\* The environment a container was given and the sidecar its supervisor reads all
\* see the same values (runner.py:596-598).
OwnSupervisor ==
    \A n \in ContainerNames : Up(n) /\ ~regime.reuse => container[n].sup = Serving(container[n].by)

\* After rm, a name has neither container nor sidecar nor state directory, also
\* when the container was gone before: what rm finds by the name.  The agent config,
\* staged under the id of the run, is not found by it and stays (commands.py:600-622,
\* provider/agents.py:64-66).
AfterRm ==
    \A n \in gone : ~regime.reuse =>
        container[n] = None /\ sidecar[n] = None /\ stateDir[n] = None

=============================================================================
