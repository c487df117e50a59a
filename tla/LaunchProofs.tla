---------------------------- MODULE LaunchProofs ----------------------------
(***************************************************************************)
(* Proofs about Launch, for any files, verbs, overlaps and failures: what  *)
(* the images hold, whose sidecar a container finds, and what a removal    *)
(* leaves.                                                                 *)
(***************************************************************************)
EXTENDS Launch, SequenceLemmas

-----------------------------------------------------------------------------
(* Control: where a verb may stand, and where the builder it is in returns. *)

BuilderSteps == {"ensure", "select", "look0", "look1", "tag", "family", "context", "buildL0",
                 "buildL1", "side", "sideL0", "sideFamily", "sideBuild"}
LoginPcs     == {"login", "loginRun", "loggingIn", "loginOver"}
ImageSteps   == {"build", "buildSide", "setup", "announce", "auth", "uninstall"}
EarlySteps   == {"run", "preflight", "checkPodman", "checkServices", "checkImages",
                 "builtImages", "noImages", "credentials", "checked", "resolve", "provision",
                 "stateDir"}
LateSteps    == {"assemble", "sidecar", "podman", "attach", "follow", "wait"}

ImageReturns == {"done", "failed", "buildSide", "announce"}
RunReturns   == {"builtImages", "noImages", "checked", "provision", "refused"}

\* The builder returns to a step of the verb it was called by.
ReturnsTo(t, steps) ==
    t.ok \in steps \cup {"login", "sideBuild"} /\ t.fail \in steps /\ t.back \in steps

Returning(v, steps) == pc[v] \in BuilderSteps \cup LoginPcs /\ ReturnsTo(task[v], steps)

Placed(v) ==
    \/ pc[v] \in {"idle"} \cup Ended
    \/ job[v].verb \in ImageVerbs /\ (pc[v] \in ImageSteps \/ Returning(v, ImageReturns))
    \/ job[v].verb = "run" /\ (pc[v] \in EarlySteps \cup LateSteps \/ Returning(v, RunReturns))
    \/ job[v].verb \in {"start", "stop"} /\ pc[v] = job[v].verb
    \/ job[v].verb = "rm" /\ pc[v] \in {"rm", "rmState", "rmDir"}

Control ==
    /\ DOMAIN pc = Verbs /\ DOMAIN job = Verbs /\ DOMAIN task = Verbs
    /\ regime \in Regimes
    /\ \A v \in Verbs : Placed(v)
    /\ \A v \in Verbs : IF pc[v] = "idle" THEN job[v] = None ELSE job[v] \in regime.jobs

\* One verb moves, and keeps its command line.
Moves(v) ==
    /\ pc' = [pc EXCEPT ![v] = pc'[v]]
    /\ \A u \in Verbs \ {v} : task'[u] = task[u]
    /\ DOMAIN task' = DOMAIN task
    /\ UNCHANGED <<regime, roster>>

\* A verb that moves to a step of its own keeps the control.
LEMMA ControlOfMove ==
    ASSUME Control, NEW v \in Verbs, Moves(v), UNCHANGED job, Placed(v)',
           pc[v] # "idle", pc'[v] # "idle"
    PROVE  Control'
<1>1. \A u \in Verbs \ {v} : pc'[u] = pc[u] /\ task'[u] = task[u] /\ job'[u] = job[u]
    BY DEF Moves, Control
<1>2. \A u \in Verbs \ {v} : Placed(u)'
    BY <1>1 DEF Control, Placed, Returning
<1> QED
    BY <1>1, <1>2 DEF Control, Moves


\* What a step of the builder does, whichever it is.
LEMMA BuilderMove ==
    ASSUME Control, NEW v \in Verbs, Builder(v)
    PROVE  /\ pc[v] \in BuilderSteps
           /\ pc' = [pc EXCEPT ![v] = pc'[v]]
           /\ pc'[v] \in BuilderSteps \cup {task[v].ok, task[v].fail, task[v].back}
           /\ UNCHANGED <<regime, roster, job, task, announced, login>>
<1> USE DEF Control, BuilderSteps, Goto, Unchanged
<1>1. CASE Select(v) \/ LookForL0(v) \/ LookForL1(v) \/ TagImage(v)
    BY <1>1 DEF Select, LookForL0, LookForL1, TagImage
<1>2. CASE DetectFamily(v) \/ PrepareContext(v) \/ BuildL0(v) \/ BuildL1(v)
    BY <1>2 DEF DetectFamily, PrepareContext, BuildL0, BuildL1
<1>3. CASE PodmanFails(v) \/ EnsureDefaultL1(v) \/ LookForSidecar(v)
    BY <1>3 DEF PodmanFails, EnsureDefaultL1, LookForSidecar
<1>4. CASE LookUnderSidecar(v) \/ PrepareSidecar(v) \/ BuildSidecar(v)
    BY <1>4 DEF LookUnderSidecar, PrepareSidecar, BuildSidecar
<1> QED
    BY <1>1, <1>2, <1>3, <1>4 DEF Builder

\* What a step of the login does.
LEMMA LoginMove ==
    ASSUME Control, NEW v \in Verbs, LoginSteps(v), ~OrphanEnds(v)
    PROVE  /\ pc[v] \in LoginPcs
           /\ pc' = [pc EXCEPT ![v] = pc'[v]]
           /\ \/ pc'[v] \in LoginPcs \cup {task[v].back}
              \/ job[v].verb = "auth" /\ pc'[v] = "failed"
           /\ UNCHANGED <<regime, roster, job, task, announced, image>>
BY DEF Control, LoginPcs, Goto, LoginSteps, PrepareLogin, RunLogin, LoginEnds, CleanUpLogin

\* A builder goes to its next step, or returns.
LEMMA BuilderControl ==
    ASSUME Control, NEW v \in Verbs, Builder(v) \/ LoginSteps(v)
    PROVE  /\ Control' /\ UNCHANGED <<regime, roster, job, task>>
           /\ pc[v] \in BuilderSteps \cup LoginPcs \cup {"aborted"}
           /\ pc' = pc \/ pc' = [pc EXCEPT ![v] = pc'[v]]
           /\ pc'[v] \notin LateSteps \cup {"rm", "rmState", "rmDir"}
<1>1. CASE OrphanEnds(v)
    <2>1. UNCHANGED <<regime, roster, pc, job, task>> /\ pc[v] = "aborted"
        BY <1>1 DEF OrphanEnds
    <2> QED
        BY <2>1 DEF Control, Placed, Returning, LateSteps
<1>2. CASE ~OrphanEnds(v)
    <2>1. /\ pc[v] \in BuilderSteps \cup LoginPcs
          /\ pc' = [pc EXCEPT ![v] = pc'[v]]
          /\ \/ pc'[v] \in BuilderSteps \cup LoginPcs
             \/ pc'[v] \in {task[v].ok, task[v].fail, task[v].back}
             \/ job[v].verb = "auth" /\ pc'[v] = "failed"
          /\ UNCHANGED <<regime, roster, job, task>>
        BY <1>2, BuilderMove, LoginMove
    <2>2. \/ job[v].verb \in ImageVerbs /\ ReturnsTo(task[v], ImageReturns)
          \/ job[v].verb = "run" /\ ReturnsTo(task[v], RunReturns)
        BY <2>1 DEF Control, Placed, Returning, BuilderSteps, LoginPcs, ImageSteps, EarlySteps,
                    LateSteps, Ended
    <2>3. Placed(v)' /\ pc'[v] # "idle" /\ pc[v] # "idle"
        BY <2>1, <2>2 DEF Placed, Returning, ReturnsTo, ImageReturns, RunReturns, ImageSteps,
                    EarlySteps, BuilderSteps, LoginPcs, Ended, ImageVerbs
    <2>4. Moves(v)
        BY <2>1 DEF Moves
    <2>5. pc'[v] \notin LateSteps \cup {"rm", "rmState", "rmDir"}
        BY <2>1, <2>2 DEF ReturnsTo, ImageReturns, RunReturns, BuilderSteps, LoginPcs, LateSteps
    <2> QED
        BY <2>1, <2>3, <2>4, <2>5, ControlOfMove
<1> QED
    BY <1>1, <1>2

\* Building, for which a verb calls, returns to the verb.
LEMMA CallControl ==
    ASSUME Control, NEW v \in Verbs, NEW step \in {"ensure", "select", "side"}, NEW t,
           Call(v, step, t), pc[v] # "idle", UNCHANGED <<regime, roster, job>>,
           \/ job[v].verb \in ImageVerbs /\ ReturnsTo(t, ImageReturns)
           \/ job[v].verb = "run" /\ ReturnsTo(t, RunReturns)
    PROVE  Control'
<1>1. pc'[v] = step /\ task'[v] = t
    BY DEF Call, Goto, Control
<1>2. Moves(v)
    BY <1>1 DEF Moves, Call, Goto, Control
<1>3. Placed(v)'
    BY <1>1 DEF Placed, Returning, BuilderSteps
<1> QED
    BY <1>1, <1>2, <1>3, ControlOfMove

\* The image verbs, between two calls of a builder.
LEMMA ImageVerbControl ==
    ASSUME Control, NEW v \in Verbs,
           Build(v) \/ BuildSidecarToo(v) \/ Setup(v) \/ Announce(v) \/ Auth(v) \/ Uninstall(v)
    PROVE  /\ Control' /\ UNCHANGED <<regime, roster, job>>
           /\ pc[v] \in ImageSteps /\ pc' = [pc EXCEPT ![v] = pc'[v]]
<1>1. pc[v] \in ImageSteps /\ pc[v] # "idle" /\ UNCHANGED <<regime, roster, job>>
    BY DEF Build, BuildSidecarToo, Setup, Announce, Auth, Uninstall, ImageSteps
<1>2. job[v].verb \in ImageVerbs
    BY <1>1 DEF Control, Placed, Returning, ImageSteps, EarlySteps, LateSteps, BuilderSteps,
                LoginPcs, Ended
<1>3. ASSUME NEW step \in {"done", "failed"}, Goto(v, step), UNCHANGED task PROVE Control'
    <2>1. Moves(v) /\ pc'[v] = step
        BY <1>1, <1>3 DEF Moves, Goto, Control
    <2>2. Placed(v)'
        BY <2>1 DEF Placed, Ended
    <2> QED
        BY <1>1, <2>1, <2>2, ControlOfMove
<1>4. ASSUME Build(v) PROVE Control'
    <2> DEFINE t == BaseTask(job[v], job[v].select, job[v].force, FALSE,
                             IF job[v].tool = None THEN "done" ELSE "buildSide", "failed")
    <2>1. ReturnsTo(t, ImageReturns)
        BY DEF BaseTask, ReturnsTo, ImageReturns
    <2>2. Call(v, "select", t)
        BY <1>4 DEF Build
    <2> HIDE DEF t
    <2> QED
        BY <1>1, <1>2, <2>1, <2>2, CallControl
<1>5. ASSUME BuildSidecarToo(v) PROVE Control'
    <2> DEFINE t == SidecarTask(job[v], job[v].tool, job[v].force, "done", "failed")
    <2>1. ReturnsTo(t, ImageReturns)
        BY DEF SidecarTask, ReturnsTo, ImageReturns
    <2>2. Call(v, "side", t)
        BY <1>5 DEF BuildSidecarToo
    <2> HIDE DEF t
    <2> QED
        BY <1>1, <1>2, <2>1, <2>2, CallControl
<1>6. ASSUME Setup(v) PROVE Control'
    <2> DEFINE t == BaseTask(job[v], Everything, "no", FALSE, "announce", "failed")
    <2>1. ReturnsTo(t, ImageReturns)
        BY DEF BaseTask, ReturnsTo, ImageReturns
    <2>2. Call(v, "select", t) \/ (Goto(v, "failed") /\ UNCHANGED task)
        BY <1>6 DEF Setup
    <2> HIDE DEF t
    <2> QED
        BY <1>1, <1>2, <1>3, <2>1, <2>2, CallControl
<1>7. ASSUME Auth(v) PROVE Control'
    <2> DEFINE t == LoginTask(job[v], "done", "failed")
    <2>1. ReturnsTo(t, ImageReturns)
        BY DEF LoginTask, BaseTask, ReturnsTo, ImageReturns
    <2>2. Call(v, "ensure", t) \/ (Goto(v, "done") /\ UNCHANGED task)
        BY <1>7 DEF Auth
    <2> HIDE DEF t
    <2> QED
        BY <1>1, <1>2, <1>3, <2>1, <2>2, CallControl
<1>8. ASSUME Announce(v) \/ Uninstall(v) PROVE Control'
    BY <1>3, <1>8 DEF Announce, Uninstall
<1>9. pc' = [pc EXCEPT ![v] = pc'[v]]
    BY DEF Build, BuildSidecarToo, Setup, Announce, Auth, Uninstall, Call, Goto, Control
<1>10. Control'
    BY <1>4, <1>5, <1>6, <1>7, <1>8
<1> QED
    BY <1>1, <1>9, <1>10

\* The run, between two calls of a builder.
LEMMA RunControl ==
    ASSUME Control, NEW v \in Verbs, RunStep(v)
    PROVE  /\ Control' /\ UNCHANGED <<regime, roster, job, image, login>>
           /\ job[v].verb = "run" /\ pc[v] \in EarlySteps \cup LateSteps
           /\ pc' = [pc EXCEPT ![v] = pc'[v]]
<1> USE DEF Unchanged
<1>1. pc[v] \in EarlySteps \cup LateSteps /\ UNCHANGED <<regime, roster, job, image, login>>
    <2>1. CASE SetupVerdict(v) \/ Preflight(v) \/ RequirePodman(v) \/ RequireServices(v)
        BY <2>1 DEF SetupVerdict, Preflight, RequirePodman, RequireServices, EarlySteps
    <2>2. CASE CheckImages(v) \/ RecheckImages(v) \/ NoImages(v) \/ OfferCredentials(v)
        BY <2>2 DEF CheckImages, RecheckImages, NoImages, OfferCredentials, EarlySteps
    <2>3. CASE PreflightEnds(v) \/ Resolve(v) \/ Provision(v) \/ MakeStateDir(v)
        BY <2>3 DEF PreflightEnds, Resolve, Provision, MakeStateDir, EarlySteps
    <2>4. CASE Assemble(v) \/ WriteSidecar(v) \/ PodmanRun(v) \/ Attach(v) \/ Follow(v) \/ Wait(v)
        BY <2>4 DEF Assemble, WriteSidecar, PodmanRun, Attach, Follow, Wait, LateSteps
    <2> QED
        BY <2>1, <2>2, <2>3, <2>4 DEF RunStep
<1>2. job[v].verb = "run" /\ pc[v] # "idle"
    BY <1>1 DEF Control, Placed, Returning, ImageSteps, EarlySteps, LateSteps, BuilderSteps,
                LoginPcs, Ended
<1>3. ASSUME NEW step \in EarlySteps \cup LateSteps \cup Ended, Goto(v, step), UNCHANGED task
      PROVE  Control'
    <2>1. Moves(v) /\ pc'[v] = step
        BY <1>1, <1>3 DEF Moves, Goto, Control
    <2>2. Placed(v)' /\ step # "idle"
        BY <1>1, <1>2, <2>1 DEF Placed, Ended, EarlySteps, LateSteps
    <2> QED
        BY <1>1, <1>2, <2>1, <2>2, ControlOfMove
<1> USE DEF EarlySteps, LateSteps, Ended
<1>4. ASSUME SetupVerdict(v) \/ Preflight(v) \/ RequirePodman(v) \/ RequireServices(v)
      PROVE  Control'
    <2>1. UNCHANGED task
        BY <1>4 DEF SetupVerdict, Preflight, RequirePodman, RequireServices
    <2>2. \E step \in EarlySteps \cup Ended : Goto(v, step)
        BY <1>4 DEF SetupVerdict, Preflight, RequirePodman, RequireServices, Steps
    <2> QED
        BY <1>3, <2>1, <2>2
<1>5. ASSUME RecheckImages(v) \/ NoImages(v) \/ PreflightEnds(v) \/ Provision(v) \/ MakeStateDir(v)
      PROVE  Control'
    <2>1. UNCHANGED task
        BY <1>5 DEF RecheckImages, NoImages, PreflightEnds, Provision, MakeStateDir
    <2>2. \E step \in EarlySteps \cup LateSteps \cup Ended : Goto(v, step)
        BY <1>5 DEF RecheckImages, NoImages, PreflightEnds, Provision, MakeStateDir, Steps
    <2> QED
        BY <1>3, <2>1, <2>2
<1>6. ASSUME Assemble(v) \/ WriteSidecar(v) \/ PodmanRun(v) \/ Attach(v) \/ Follow(v) \/ Wait(v)
      PROVE  Control'
    <2>1. UNCHANGED task
        BY <1>6 DEF Assemble, WriteSidecar, PodmanRun, Attach, Follow, Wait
    <2>2. \E step \in LateSteps \cup Ended : Goto(v, step)
        BY <1>6 DEF Assemble, WriteSidecar, PodmanRun, Attach, Follow, Wait, Steps
    <2> QED
        BY <1>3, <2>1, <2>2
<1>7. ASSUME CheckImages(v) PROVE Control'
    <2> DEFINE t == BaseTask(job[v], Everything, "no", FALSE, "builtImages", "noImages")
    <2>1. ReturnsTo(t, RunReturns)
        BY DEF BaseTask, ReturnsTo, RunReturns
    <2>2. \/ Call(v, "select", t)
          \/ Goto(v, "credentials") /\ UNCHANGED task
          \/ Goto(v, "noImages") /\ UNCHANGED task
        BY <1>7 DEF CheckImages
    <2> HIDE DEF t
    <2> QED
        BY <1>1, <1>2, <1>3, <2>1, <2>2, CallControl
<1>8. ASSUME OfferCredentials(v) PROVE Control'
    <2> DEFINE t == LoginTask(job[v], "checked", "refused")
    <2>1. ReturnsTo(t, RunReturns)
        BY DEF LoginTask, BaseTask, ReturnsTo, RunReturns
    <2>2. Call(v, "ensure", t) \/ (Goto(v, "checked") /\ UNCHANGED task)
        BY <1>8 DEF OfferCredentials, FixCredentials
    <2> HIDE DEF t
    <2> QED
        BY <1>1, <1>2, <1>3, <2>1, <2>2, CallControl
<1>9. ASSUME Resolve(v) PROVE Control'
    <2> DEFINE t == SidecarTask(job[v], job[v].agent, "no", "provision", "refused")
               u == BaseTask(job[v], Everything, "no", FALSE, "provision", "refused")
    <2>1. ReturnsTo(t, RunReturns) /\ ReturnsTo(u, RunReturns)
        BY DEF SidecarTask, BaseTask, ReturnsTo, RunReturns
    <2>2. \/ Call(v, "side", t) \/ Call(v, "select", u)
          \/ Goto(v, "refused") /\ UNCHANGED task
        BY <1>9 DEF Resolve
    <2> HIDE DEF t, u
    <2> QED
        BY <1>1, <1>2, <1>3, <2>1, <2>2, CallControl
<1>10. pc' = [pc EXCEPT ![v] = pc'[v]]
    <2>1. CASE SetupVerdict(v) \/ Preflight(v) \/ RequirePodman(v) \/ RequireServices(v)
        BY <2>1 DEF SetupVerdict, Preflight, RequirePodman, RequireServices, Steps, Goto, Control
    <2>2. CASE CheckImages(v) \/ RecheckImages(v) \/ NoImages(v) \/ OfferCredentials(v)
        BY <2>2 DEF CheckImages, RecheckImages, NoImages, OfferCredentials, FixCredentials, Call,
                    Goto, Control
    <2>3. CASE PreflightEnds(v) \/ Resolve(v) \/ Provision(v) \/ MakeStateDir(v)
        BY <2>3 DEF PreflightEnds, Resolve, Provision, MakeStateDir, Steps, Call, Goto, Control
    <2>4. CASE Assemble(v) \/ WriteSidecar(v) \/ PodmanRun(v) \/ Attach(v) \/ Follow(v) \/ Wait(v)
        BY <2>4 DEF Assemble, WriteSidecar, PodmanRun, Attach, Follow, Wait, Steps, Goto, Control
    <2> QED
        BY <2>1, <2>2, <2>3, <2>4 DEF RunStep
<1>11. Control'
    BY <1>4, <1>5, <1>6, <1>7, <1>8, <1>9 DEF RunStep
<1> QED
    BY <1>1, <1>2, <1>10, <1>11

\* start, stop and rm, and a verb that is killed.
LEMMA LifecycleControl ==
    ASSUME Control, NEW v \in Verbs, LifecycleStep(v) \/ Kill(v)
    PROVE  /\ Control' /\ UNCHANGED <<regime, roster, job, task, image, login>>
           /\ pc' = [pc EXCEPT ![v] = pc'[v]]
<1>1. UNCHANGED <<regime, roster, job, task, image, login>> /\ pc' = [pc EXCEPT ![v] = pc'[v]]
    BY DEF LifecycleStep, Kill, Start, Stop, RemoveContainer, RemoveState, RemoveDir, Goto,
           Unchanged, Control
<1>2. /\ pc[v] \in {"start", "stop", "rm", "rmState", "rmDir"} \/ Kill(v)
      /\ pc'[v] \in Ended \/ (pc[v] = "rm" /\ pc'[v] = "rmState")
         \/ (pc[v] = "rmState" /\ pc'[v] = "rmDir")
    BY DEF LifecycleStep, Kill, Start, Stop, RemoveContainer, RemoveState, RemoveDir, Goto, Ended,
           Control
<1>3. pc[v] # "idle" /\ Placed(v)' /\ pc'[v] # "idle"
    BY <1>1, <1>2 DEF Kill, Alive, Ended, Control, Placed, Returning, ImageSteps, EarlySteps,
                      LateSteps, BuilderSteps, LoginPcs
<1>4. Moves(v)
    BY <1>1 DEF Moves
<1> QED
    BY <1>1, <1>3, <1>4, ControlOfMove

\* A verb that begins has a command line of the regime.
LEMMA SpawnControl ==
    ASSUME Control, NEW v \in Verbs, SpawnImageVerb(v) \/ Spawn(v)
    PROVE  /\ Control' /\ pc[v] = "idle" /\ job[v] = None
           /\ job' = [job EXCEPT ![v] = job'[v]] /\ job'[v] \in regime.jobs
           /\ job'[v].verb \in ImageVerbs \cup ContainerVerbs
           /\ pc' = [pc EXCEPT ![v] = job'[v].verb]
           /\ UNCHANGED <<regime, roster, task, image, login>>
<1>1. PICK j \in regime.jobs :
          /\ j.verb \in ImageVerbs \cup ContainerVerbs
          /\ job' = [job EXCEPT ![v] = j] /\ pc' = [pc EXCEPT ![v] = j.verb]
    BY DEF SpawnImageVerb, Spawn, Goto
<1>2. pc[v] = "idle" /\ UNCHANGED <<regime, roster, task, image, login>>
    BY DEF SpawnImageVerb, Spawn, MaySpawn
<1>3. job[v] = None /\ job'[v] = j /\ pc'[v] = j.verb /\ j.verb # "idle"
    BY <1>1, <1>2 DEF Control, ImageVerbs, ContainerVerbs
<1>4. \A u \in Verbs \ {v} : pc'[u] = pc[u] /\ task'[u] = task[u] /\ job'[u] = job[u]
    BY <1>1, <1>2 DEF Control
<1>5. \A u \in Verbs \ {v} : Placed(u)'
    BY <1>4 DEF Control, Placed, Returning
<1>6. Placed(v)'
    BY <1>1, <1>3 DEF Placed, ImageVerbs, ContainerVerbs, ImageSteps, EarlySteps
<1> QED
    BY <1>1, <1>2, <1>3, <1>4, <1>5, <1>6 DEF Control

\* No verb has begun.
LEMMA InitControl == Init => Control
BY DEF Init, ImagesInit, Control, Placed

\* Containers that end or are removed move no verb.
LEMMA OutsideControl ==
    ASSUME Control, UNCHANGED imageVars \/ \E n \in ContainerNames : AgentEnds(n) \/ RemovedOutOfBand(n)
    PROVE  Control' /\ UNCHANGED imageVars
<1>1. UNCHANGED imageVars
    BY DEF AgentEnds, RemovedOutOfBand
<1> QED
    BY <1>1 DEF imageVars, Control, Placed, Returning

\* A verb that has begun has begun for good, and keeps its command line.
Begun == \A v \in Verbs : pc[v] # "idle" => pc'[v] # "idle" /\ job'[v] = job[v]

\* Every step.
LEMMA StepControl ==
    Control /\ [Next]_vars => Control' /\ Begun /\ UNCHANGED <<regime, roster>>
<1> SUFFICES ASSUME Control, [Next]_vars
             PROVE  Control' /\ Begun /\ UNCHANGED <<regime, roster>>
    OBVIOUS
<1> DEFINE Kept == UNCHANGED <<regime, roster>>
                   /\ \A v \in Verbs : pc[v] # "idle" => job'[v] = job[v]
<1>1. ASSUME NEW v \in Verbs, ImageStep(v) PROVE Control' /\ Kept
    <2>1. CASE SpawnImageVerb(v)
        BY <2>1, SpawnControl DEF Control
    <2>2. CASE ~SpawnImageVerb(v)
        BY <1>1, <2>2, BuilderControl, ImageVerbControl DEF ImageStep
    <2> QED
        BY <2>1, <2>2
<1>2. ASSUME NEW v \in Verbs, Spawn(v) \/ RunStep(v) \/ LifecycleStep(v) \/ Kill(v)
      PROVE  Control' /\ Kept
    <2>1. CASE Spawn(v)
        BY <2>1, SpawnControl DEF Control
    <2>2. CASE ~Spawn(v)
        BY <1>2, <2>2, RunControl, LifecycleControl
    <2> QED
        BY <2>1, <2>2
<1>3. ASSUME UNCHANGED vars \/ \E n \in ContainerNames : AgentEnds(n) \/ RemovedOutOfBand(n)
      PROVE  Control' /\ Kept
    BY <1>3, OutsideControl DEF vars, imageVars
<1>4. Control' /\ Kept
    BY <1>1, <1>2, <1>3 DEF Next
<1>5. \A v \in Verbs : pc[v] # "idle" => job[v] # None
    BY NoJobAssumption DEF Control
<1>6. \A v \in Verbs : pc[v] # "idle" => pc'[v] # "idle"
    BY <1>4, <1>5 DEF Control
<1> QED
    BY <1>4, <1>6 DEF Begun

\* Spec => []Control: a verb is only ever where its code can be, and a builder
\* returns to the verb that called it.
THEOREM Controlled == Spec => []Control
BY InitControl, StepControl, PTL DEF Spec

-----------------------------------------------------------------------------
(* Types.                                                                   *)

\* The steps that change what belongs to a container name; all others leave it.
Traces == <<container, sidecar, stateDir, staged>>

\* What a run step does to them, by action.
QuietStep(v) ==
    \/ SetupVerdict(v) \/ Preflight(v) \/ RequirePodman(v) \/ RequireServices(v)
    \/ CheckImages(v) \/ RecheckImages(v) \/ NoImages(v) \/ OfferCredentials(v) \/ PreflightEnds(v)
    \/ Resolve(v) \/ Provision(v) \/ Attach(v) \/ Follow(v) \/ Wait(v) \/ Kill(v)

\* A quiet step leaves everything that bears a name.
LEMMA QuietLeavesAll ==
    ASSUME TypeOK, NEW v \in Verbs, QuietStep(v)
    PROVE  UNCHANGED <<container, sidecar, stateDir, staged, gone>> /\ ready' \in [Verbs -> BOOLEAN]
<1>1. CASE RequireServices(v)
    BY <1>1 DEF RequireServices, TypeOK
<1>2. CASE NoImages(v)
    BY <1>2 DEF NoImages, TypeOK
<1>3. CASE UNCHANGED launchVars
    BY <1>3 DEF launchVars, TypeOK
<1>4. CASE SetupVerdict(v) \/ Preflight(v) \/ RequirePodman(v) \/ CheckImages(v) \/ RecheckImages(v)
    BY <1>3, <1>4 DEF SetupVerdict, Preflight, RequirePodman, CheckImages, RecheckImages
<1>5. CASE OfferCredentials(v) \/ PreflightEnds(v) \/ Resolve(v) \/ Provision(v)
    BY <1>3, <1>5 DEF OfferCredentials, PreflightEnds, Resolve, Provision
<1>6. CASE Attach(v) \/ Follow(v) \/ Wait(v) \/ Kill(v)
    BY <1>3, <1>6 DEF Attach, Follow, Wait, Kill
<1> QED
    BY <1>1, <1>2, <1>4, <1>5, <1>6 DEF QuietStep

\* A verb that has begun has a name and switches of the right type.
LEMMA JobTyped ==
    ASSUME Control, NEW v \in Verbs, pc[v] # "idle"
    PROVE  CName(v) \in ContainerNames /\ job[v].gate \in BOOLEAN /\ job[v].ephemeral \in BOOLEAN
BY JobsAssumption DEF Control, CName, ContainerNames

\* What is left of a container that ends is that container.
LEMMA HaltedTyped ==
    ASSUME NEW c \in Containers
    PROVE  Halted(c) \in Containers \cup {None} /\ (Halted(c) # None => Halted(c).by = c.by)
           /\ (Halted(c) # None => Halted(c).sup = c.sup)
BY DEF Halted, Containers

\* Every step keeps the types.
LEMMA TypeStep ==
    ASSUME TypeOK, Control, [Next]_vars
    PROVE  TypeOK'
<1>1. Control' /\ Begun
    BY StepControl
<1>2. ASSUME UNCHANGED Traces, ready' \in [Verbs -> BOOLEAN], gone' \subseteq ContainerNames,
             login' \in Verbs \cup {None}
      PROVE  TypeOK'
    BY <1>1, <1>2 DEF TypeOK, Traces, Begun, Containers
<1>3. ASSUME NEW v \in Verbs, ImageStep(v), UNCHANGED launchVars PROVE TypeOK'
    <2>1. login' \in Verbs \cup {None}
        <3>1. CASE LoginSteps(v)
            BY <3>1 DEF LoginSteps, OrphanEnds, PrepareLogin, RunLogin, LoginEnds, CleanUpLogin, TypeOK
        <3>2. CASE Builder(v) \/ SpawnImageVerb(v)
            BY <3>2, BuilderMove, SpawnControl DEF TypeOK
        <3>3. CASE Build(v) \/ BuildSidecarToo(v) \/ Setup(v) \/ Announce(v) \/ Auth(v) \/ Uninstall(v)
            BY <3>3 DEF Build, BuildSidecarToo, Setup, Announce, Auth, Uninstall, TypeOK
        <3> QED
            BY <1>3, <3>1, <3>2, <3>3 DEF ImageStep
    <2> QED
        BY <1>2, <1>3, <2>1 DEF launchVars, Traces, TypeOK
<1>4. ASSUME NEW v \in Verbs, Spawn(v) PROVE TypeOK'
    BY <1>2, <1>4, SpawnControl DEF Spawn, Traces, TypeOK
<1>5. ASSUME NEW v \in Verbs, QuietStep(v) PROVE TypeOK'
    <2>1. UNCHANGED login
        BY <1>5, RunControl, LifecycleControl DEF QuietStep, RunStep
    <2> QED
        BY <1>2, <1>5, <2>1, QuietLeavesAll DEF Traces, TypeOK
<1>6. ASSUME NEW v \in Verbs, MakeStateDir(v) PROVE TypeOK'
    <2>1. pc[v] # "idle" /\ stateDir' \in [ContainerNames -> Verbs \cup {None}]
          /\ UNCHANGED <<container, sidecar, staged, ready, gone, login>>
        BY <1>6 DEF MakeStateDir, MakesStateDir, TypeOK, Unchanged
    <2> QED
        BY <1>1, <2>1 DEF TypeOK, Begun, Containers
<1>7. ASSUME NEW v \in Verbs, Assemble(v) PROVE TypeOK'
    <2>1. pc[v] # "idle" /\ staged' \subseteq staged \cup {v}
          /\ UNCHANGED <<container, sidecar, stateDir, ready, gone, login>>
        BY <1>7 DEF Assemble, StagedAs, Unchanged
    <2> QED
        BY <1>1, <2>1 DEF TypeOK, Begun, Containers
<1>8. ASSUME NEW v \in Verbs, WriteSidecar(v) PROVE TypeOK'
    <2>1. pc[v] # "idle" /\ UNCHANGED <<container, stateDir, staged, ready, gone, login>>
        BY <1>8 DEF WriteSidecar, Unchanged
    <2>2. Serving(v) \in Served
        BY <2>1, JobTyped DEF Serving, Served
    <2>3. sidecar' \in [ContainerNames -> Served \cup {None}]
        BY <1>8, <2>2 DEF WriteSidecar, TypeOK
    <2> QED
        BY <1>1, <2>1, <2>3 DEF TypeOK, Begun, Containers
<1>9. ASSUME NEW v \in Verbs, PodmanRun(v) PROVE TypeOK'
    <2>1. pc[v] # "idle" /\ UNCHANGED <<sidecar, stateDir, staged, ready, gone, login>>
        BY <1>9 DEF PodmanRun, Unchanged
    <2>2. CName(v) \in ContainerNames
        BY <2>1, JobTyped
    <2>3. ASSUME NEW sup \in Served PROVE Created(v, sup) \in Containers /\ Created(v, sup).by = v
        BY <2>1, JobTyped DEF Created, Containers
    <2>4. \/ UNCHANGED container
          \/ /\ sidecar[CName(v)] \in Served
             /\ container' = [container EXCEPT ![CName(v)] = Created(v, sidecar[CName(v)])]
        BY <1>9, <2>2 DEF PodmanRun, TypeOK
    <2>5. container' \in [ContainerNames -> Containers \cup {None}]
        BY <2>3, <2>4 DEF TypeOK
    <2>6. \A n \in ContainerNames : container'[n] = container[n] \/ container'[n].by = v
        BY <2>3, <2>4 DEF TypeOK
    <2>7. \A n \in ContainerNames : container'[n] # None => pc'[container'[n].by] # "idle"
        BY <1>1, <2>1, <2>6 DEF TypeOK, Begun, Containers
    <2> QED
        BY <1>1, <2>1, <2>5, <2>7 DEF TypeOK, Begun
<1>10. ASSUME UNCHANGED <<sidecar, stateDir, staged, ready, gone, login>>,
              NEW n \in ContainerNames, NEW c \in Containers \cup {None},
              container' = [container EXCEPT ![n] = c],
              c # None => container[n] # None /\ c.by = container[n].by
       PROVE  TypeOK'
    <2>1. container' \in [ContainerNames -> Containers \cup {None}]
        BY <1>10 DEF TypeOK
    <2>2. \A m \in ContainerNames : container'[m] # None => pc'[container'[m].by] # "idle"
        BY <1>1, <1>10 DEF TypeOK, Begun, Containers
    <2> QED
        BY <1>1, <1>10, <2>1, <2>2 DEF TypeOK, Begun
<1>11. ASSUME NEW v \in Verbs, Start(v) PROVE TypeOK'
    <2> DEFINE n == CName(v)
               c == [container[n] EXCEPT !.up = TRUE, !.sup = sidecar[n]]
    <2>1. n \in ContainerNames /\ UNCHANGED <<sidecar, stateDir, staged, ready, gone, login>>
        BY <1>11, JobTyped DEF Start, Unchanged
    <2>2. CASE UNCHANGED container
        BY <1>2, <2>1, <2>2 DEF Traces, TypeOK
    <2>3. CASE container[n] # None /\ sidecar[n] # None
               /\ container' = [container EXCEPT ![n].up = TRUE, ![n].sup = sidecar[n]]
        <3>1. container[n] \in Containers /\ sidecar[n] \in Served
            BY <2>1, <2>3 DEF TypeOK
        <3>2. c \in Containers /\ c.by = container[n].by
            BY <3>1 DEF Containers
        <3>3. container' = [container EXCEPT ![n] = c]
            BY <2>1, <2>3 DEF TypeOK
        <3> HIDE DEF c
        <3> QED
            BY <1>10, <2>1, <2>3, <3>2, <3>3
    <2> QED
        BY <1>11, <2>2, <2>3 DEF Start
<1>12. ASSUME NEW n \in ContainerNames, container[n] # None,
              UNCHANGED <<sidecar, stateDir, staged, ready, gone, login>>,
              container' = [container EXCEPT ![n] = Halted(@)]
       PROVE  TypeOK'
    <2>1. container[n] \in Containers
        BY <1>12 DEF TypeOK
    <2> QED
        BY <1>10, <1>12, <2>1, HaltedTyped DEF TypeOK
<1>13. ASSUME NEW v \in Verbs, Stop(v) PROVE TypeOK'
    <2>1. CName(v) \in ContainerNames /\ UNCHANGED <<sidecar, stateDir, staged, ready, gone, login>>
        BY <1>13, JobTyped DEF Stop, Unchanged
    <2>2. \/ UNCHANGED container
          \/ container[CName(v)] # None
             /\ container' = [container EXCEPT ![CName(v)] = Halted(@)]
        BY <1>13, <2>1 DEF Stop, Up, TypeOK
    <2>3. CASE UNCHANGED container
        BY <1>2, <2>1, <2>3 DEF Traces, TypeOK
    <2> QED
        BY <1>12, <2>1, <2>2, <2>3
<1>14. ASSUME NEW v \in Verbs, RemoveContainer(v) PROVE TypeOK'
    <2>1. CName(v) \in ContainerNames /\ UNCHANGED <<sidecar, stateDir, staged, ready, gone, login>>
        BY <1>14, JobTyped DEF RemoveContainer, Unchanged
    <2>2. UNCHANGED container \/ container' = [container EXCEPT ![CName(v)] = None]
        BY <1>14 DEF RemoveContainer
    <2>3. CASE UNCHANGED container
        BY <1>2, <2>1, <2>3 DEF Traces, TypeOK
    <2> QED
        BY <1>10, <2>1, <2>2, <2>3
<1>15. ASSUME NEW v \in Verbs, RemoveState(v) \/ RemoveDir(v) PROVE TypeOK'
    <2>1. /\ CName(v) \in ContainerNames /\ UNCHANGED <<container, staged, ready, login>>
          /\ sidecar' \in [ContainerNames -> Served \cup {None}]
          /\ stateDir' \in [ContainerNames -> Verbs \cup {None}]
          /\ gone' \subseteq ContainerNames
        BY <1>15, JobTyped DEF RemoveState, RemoveDir, Unchanged, TypeOK
    <2> QED
        BY <1>1, <2>1 DEF TypeOK, Begun, Containers
<1>16. ASSUME NEW n \in ContainerNames, AgentEnds(n) \/ RemovedOutOfBand(n) PROVE TypeOK'
    <2>1. CASE AgentEnds(n)
        BY <1>12, <2>1 DEF AgentEnds, Up, imageVars
    <2>2. CASE RemovedOutOfBand(n)
        BY <1>10, <2>2 DEF RemovedOutOfBand, imageVars
    <2> QED
        BY <1>16, <2>1, <2>2
<1>17. CASE UNCHANGED vars
    BY <1>2, <1>17 DEF vars, imageVars, launchVars, Traces, TypeOK
<1> QED
    BY <1>3, <1>4, <1>5, <1>6, <1>7, <1>8, <1>9, <1>11, <1>13, <1>14, <1>15, <1>16, <1>17
       DEF Next, RunStep, LifecycleStep, QuietStep

\* The types hold at the beginning.
LEMMA InitTyped == Init => TypeOK
BY DEF Init, ImagesInit, LaunchInit, TypeOK

\* Spec => []TypeOK: containers, sidecars, state directories and agent configs have
\* their types and belong to verbs that did begin.
THEOREM TypeCorrect == Spec => []TypeOK
<1>1. Init => Control /\ TypeOK
    BY InitControl, InitTyped
<1>2. Control /\ TypeOK /\ [Next]_vars => Control' /\ TypeOK'
    BY StepControl, TypeStep
<1> QED
    BY <1>1, <1>2, PTL DEF Spec

-----------------------------------------------------------------------------
(* Names.  Unless names are reused at will, a verb that may still change    *)
(* what belongs to a name is alone with it.  A launch may find a container   *)
(* of its name, of an earlier run: it overwrites the sidecar, and fails.     *)

Holder(v) ==
    Alive(v) /\ job[v].verb \notin ImageVerbs /\ pc[v] \notin {"follow", "wait"}

Launching(v) == job[v].verb = "run" /\ Holder(v) /\ pc[v] # "attach"

Failed(v) == pc[v] \in {"refused", "aborted"}

Alone == \A u, v \in Verbs : Holder(u) /\ Holder(v) /\ CName(u) = CName(v) => u = v

Ordered == \A u, v \in Verbs : u < v /\ pc[u] = "idle" => pc[v] = "idle"

NameFree ==
    \A v \in Verbs : Launching(v) =>
        /\ CName(v) \notin gone
        /\ container[CName(v)] # None => container[CName(v)].by < v

SidecarWritten == \A v \in Verbs : pc[v] = "podman" => sidecar[CName(v)] = Serving(v)

Removing ==
    \A v \in Verbs :
        /\ pc[v] \in {"rmState", "rmDir"} => container[CName(v)] = None
        /\ pc[v] = "rmDir" => sidecar[CName(v)] = None

\* The sidecar of a container is its run's or a later one's, which has failed or is
\* about to; what a start has read is its run's or a failed one's.
Supported(n) ==
    container[n] # None =>
        LET c == container[n]
        IN  /\ RunOf(c.sup, n) /\ (c.sup.by = c.by \/ (c.sup.by > c.by /\ Failed(c.sup.by)))
            /\ sidecar[n] \in Served /\ RunOf(sidecar[n], n)
            /\ \/ sidecar[n].by = c.by
               \/ sidecar[n].by > c.by /\ (Failed(sidecar[n].by) \/ Launching(sidecar[n].by))

OwnSidecar == \A n \in ContainerNames : Supported(n)

Gone == \A n \in gone : container[n] = None /\ sidecar[n] = None /\ stateDir[n] = None

NamesInv ==
    /\ Ordered
    /\ ~regime.reuse => Alone /\ NameFree /\ SidecarWritten /\ Removing /\ OwnSidecar /\ Gone

\* A step of v that a container's sidecar is not hurt by: a launch goes on or fails.
Harmless(v) ==
    /\ \A u \in Verbs \ {v} : pc'[u] = pc[u]
    /\ pc'[v] = "idle" => pc[v] = "idle"
    /\ Failed(v) => pc'[v] = pc[v]
    /\ Launching(v) => Launching(v)' \/ Failed(v)'

\* The run behind a sidecar stays the run behind it.
LEMMA RunStays ==
    ASSUME NEW v \in Verbs, \A u \in Verbs \ {v} : pc'[u] = pc[u], UNCHANGED job,
           NEW CONSTANT m, Harmless(v) \/ CName(v) # m, NEW CONSTANT s \in Served, RunOf(s, m)
    PROVE  /\ RunOf(s, m)' /\ (Failed(s.by) => Failed(s.by)')
           /\ Launching(s.by) => Launching(s.by)' \/ Failed(s.by)'
<1>1. s.by \in Verbs
    BY DEF Served
<1>2. CName(s.by)' = CName(s.by) /\ Serving(s.by)' = Serving(s.by)
    BY DEF CName, Serving
<1>3. CASE s.by = v
    <2>1. Harmless(v) /\ RunOf(s, m)
        BY <1>3 DEF RunOf
    <2> QED
        BY <1>1, <1>2, <1>3, <2>1 DEF RunOf, Harmless, Failed
<1>4. CASE s.by # v
    <2>1. pc'[s.by] = pc[s.by]
        BY <1>1, <1>4
    <2> QED
        BY <1>1, <1>2, <2>1 DEF RunOf, Failed, Launching, Holder, Alive
<1> QED
    BY <1>3, <1>4

\* A container that keeps its sidecar keeps what it stands for, also when it ends.
LEMMA StaySupported ==
    ASSUME TypeOK, NEW v \in Verbs, \A u \in Verbs \ {v} : pc'[u] = pc[u], UNCHANGED job,
           NEW m \in ContainerNames, Harmless(v) \/ CName(v) # m, Supported(m),
           sidecar'[m] = sidecar[m],
           container'[m] # None =>
               container[m] # None /\ container'[m].by = container[m].by
               /\ container'[m].sup = container[m].sup
    PROVE  Supported(m)'
<1> SUFFICES ASSUME container'[m] # None PROVE Supported(m)'
    BY DEF Supported
<1>1. PICK r \in Served, s \in Served, b \in Verbs :
          r = container[m].sup /\ s = sidecar[m] /\ b = container[m].by
    BY DEF TypeOK, Containers, Supported
<1>2. /\ RunOf(r, m) /\ (r.by = b \/ (r.by > b /\ Failed(r.by)))
      /\ RunOf(s, m) /\ (s.by = b \/ (s.by > b /\ (Failed(s.by) \/ Launching(s.by))))
    BY <1>1 DEF Supported
<1>3. RunOf(r, m)' /\ (Failed(r.by) => Failed(r.by)')
    BY <1>2, RunStays
<1>4. RunOf(s, m)' /\ (Failed(s.by) \/ Launching(s.by) => (Failed(s.by) \/ Launching(s.by))')
    BY <1>2, RunStays
<1>5. container'[m].sup = r /\ sidecar'[m] = s /\ container'[m].by = b
    BY <1>1
<1> QED
    BY <1>2, <1>3, <1>4, <1>5 DEF Supported

\* Who has not begun has not begun before.
LEMMA OrderStays ==
    ASSUME Ordered, \A u \in Verbs : pc'[u] = "idle" <=> pc[u] = "idle"
    PROVE  Ordered'
BY DEF Ordered

\* A step that leaves the containers alone, and neither takes a name nor gets to
\* where the invariant says more.
LEMMA QuietNames ==
    ASSUME TypeOK, NamesInv, NEW v \in Verbs,
           UNCHANGED <<regime, job, container, sidecar, stateDir, gone>>,
           Harmless(v), pc[v] # "idle", pc'[v] # "idle",
           Holder(v)' => Holder(v), Launching(v)' => Launching(v),
           pc'[v] \notin {"podman", "rmState", "rmDir"}
    PROVE  NamesInv'
<1>0. Ordered'
    BY OrderStays DEF NamesInv, Harmless
<1> SUFFICES ASSUME ~regime.reuse
             PROVE  (Alone /\ NameFree /\ SidecarWritten /\ Removing /\ OwnSidecar /\ Gone)'
    BY <1>0 DEF NamesInv
<1>1. \A u \in Verbs : CName(u)' = CName(u) /\ Serving(u)' = Serving(u)
    BY DEF CName, Serving
<1>2. \A u \in Verbs : (Holder(u)' => Holder(u)) /\ (Launching(u)' => Launching(u))
    BY DEF Holder, Launching, Alive, Harmless
<1>3. Alone'
    BY <1>1, <1>2 DEF NamesInv, Alone
<1>4. NameFree'
    BY <1>1, <1>2 DEF NamesInv, NameFree
<1>5. SidecarWritten' /\ Removing'
    BY <1>1 DEF NamesInv, SidecarWritten, Removing, Harmless
<1>6. OwnSidecar'
    BY StaySupported DEF NamesInv, OwnSidecar, Harmless
<1>7. Gone'
    BY DEF NamesInv, Gone
<1> QED
    BY <1>3, <1>4, <1>5, <1>6, <1>7

\* The containers, sidecars and removals that a holder's step on its own name may
\* leave, in a state where it is still the holder or nobody is.
LEMMA OwnNames ==
    ASSUME Control, TypeOK, NamesInv, ~regime.reuse, NEW v \in Verbs, Holder(v),
           UNCHANGED <<regime, job>>, \A u \in Verbs \ {v} : pc'[u] = pc[u], pc'[v] # "idle",
           \A n \in ContainerNames \ {CName(v)} :
               container'[n] = container[n] /\ sidecar'[n] = sidecar[n] /\ stateDir'[n] = stateDir[n],
           gone' \subseteq gone \cup {CName(v)},
           Launching(v)' => Launching(v) /\ container'[CName(v)] = container[CName(v)] /\ gone' = gone,
           pc'[v] = "podman" => sidecar'[CName(v)] = Serving(v),
           pc'[v] \in {"rmState", "rmDir"} => container'[CName(v)] = None,
           pc'[v] = "rmDir" => sidecar'[CName(v)] = None,
           \A n \in ContainerNames : n = CName(v) => Supported(n)',
           CName(v) \in gone' => /\ container'[CName(v)] = None /\ sidecar'[CName(v)] = None
                                 /\ stateDir'[CName(v)] = None,
           gone \subseteq ContainerNames, \A u \in Verbs : pc[u] # "idle" => CName(u) \in ContainerNames
    PROVE  NamesInv'
<1>0. Ordered'
    BY OrderStays DEF NamesInv, Holder, Alive
<1>1. \A u \in Verbs : CName(u)' = CName(u) /\ Serving(u)' = Serving(u)
    BY DEF CName, Serving
<1>2. \A u \in Verbs \ {v} :
          (Holder(u)' => Holder(u)) /\ (Launching(u)' => Launching(u))
          /\ (pc'[u] \in {"podman", "rmState", "rmDir"} => pc[u] = pc'[u])
    BY DEF Holder, Launching, Alive
<1>3. \A u \in Verbs \ {v} : Holder(u) => CName(u) # CName(v) /\ CName(u) \in ContainerNames
    BY DEF NamesInv, Alone, Holder, Alive
<1>4. Alone'
    BY <1>1, <1>2, <1>3 DEF NamesInv, Alone
<1>5. NameFree'
    <2>1. ASSUME NEW u \in Verbs \ {v}, Launching(u)'
          PROVE  /\ CName(u)' \notin gone'
                 /\ container'[CName(u)'] # None => container'[CName(u)'].by < u
        <3>1. Launching(u) /\ CName(u) # CName(v) /\ CName(u) \in ContainerNames
            BY <1>2, <1>3, <2>1 DEF Launching
        <3> QED
            BY <1>1, <3>1 DEF NamesInv, NameFree
    <2>2. ASSUME Launching(v)'
          PROVE  /\ CName(v)' \notin gone'
                 /\ container'[CName(v)'] # None => container'[CName(v)'].by < v
        BY <1>1, <2>2 DEF NamesInv, NameFree
    <2> QED
        BY <2>1, <2>2 DEF NameFree
<1>6. \A u \in Verbs \ {v} : pc[u] \in {"podman", "rmState", "rmDir"} => Holder(u)
    BY DEF Control, Holder, Alive, Ended, Placed, ImageSteps, Returning, BuilderSteps, LoginPcs,
           ImageVerbs
<1>7. SidecarWritten' /\ Removing'
    BY <1>1, <1>2, <1>3, <1>6 DEF NamesInv, SidecarWritten, Removing
<1>8. OwnSidecar'
    <2>1. ASSUME NEW n \in ContainerNames, n # CName(v) PROVE Supported(n)'
        BY <2>1, StaySupported DEF NamesInv, OwnSidecar
    <2> QED
        BY <2>1 DEF OwnSidecar
<1>9. Gone'
    BY DEF NamesInv, Gone
<1> QED
    BY <1>0, <1>4, <1>5, <1>7, <1>8, <1>9 DEF NamesInv

\* Verbs begin in their order.
LEMMA SpawnOrdered ==
    ASSUME Control, NamesInv, NEW v \in Verbs, SpawnImageVerb(v) \/ Spawn(v)
    PROVE  Ordered'
<1>1. pc[v] = "idle" /\ \A u \in 1 .. (v - 1) : pc[u] # "idle"
    BY DEF SpawnImageVerb, Spawn, MaySpawn
<1>2. pc'[v] # "idle" /\ \A u \in Verbs \ {v} : pc'[u] = pc[u]
    BY SpawnControl DEF Control, ImageVerbs, ContainerVerbs
<1>3. \A u \in Verbs : u < v => u \in 1 .. (v - 1)
    BY DEF Verbs
<1> QED
    BY <1>1, <1>2, <1>3 DEF NamesInv, Ordered

\* What there is was created by a verb before the one that begins.
LEMMA EarlierRun ==
    ASSUME TypeOK, NamesInv, NEW v \in Verbs, pc[v] = "idle",
           NEW n \in ContainerNames, container[n] # None
    PROVE  container[n].by < v
<1>1. container[n].by \in Verbs /\ pc[container[n].by] # "idle"
    BY DEF TypeOK, Containers
<1>2. container[n].by # v /\ ~(v < container[n].by)
    BY <1>1 DEF NamesInv, Ordered
<1> QED
    BY <1>1, <1>2 DEF Verbs

\* A verb that begins is the run behind no sidecar.
LEMMA SpawnSupported ==
    ASSUME TypeOK, NEW v \in Verbs, pc[v] = "idle", UNCHANGED <<container, sidecar>>,
           \A u \in Verbs \ {v} : pc'[u] = pc[u] /\ job'[u] = job[u],
           NEW m \in ContainerNames, Supported(m)
    PROVE  Supported(m)'
<1> SUFFICES ASSUME container[m] # None PROVE Supported(m)'
    BY DEF Supported
<1>1. /\ RunOf(container[m].sup, m) /\ RunOf(sidecar[m], m)
      /\ container[m].sup.by \in Verbs /\ sidecar[m].by \in Verbs
    BY DEF Supported, TypeOK, Containers, Served
<1>2. \A u \in {container[m].sup.by, sidecar[m].by} :
          u # v /\ pc'[u] = pc[u] /\ job'[u] = job[u]
    BY <1>1 DEF RunOf
<1>3. \A u \in {container[m].sup.by, sidecar[m].by} :
          /\ CName(u)' = CName(u) /\ Serving(u)' = Serving(u)
          /\ Failed(u)' = Failed(u) /\ Launching(u)' = Launching(u)
    BY <1>2 DEF CName, Serving, Failed, Launching, Holder, Alive
<1> QED
    BY <1>2, <1>3 DEF Supported, RunOf

\* A verb takes a name that no other holds, if names are kept apart.
LEMMA SpawnNames ==
    ASSUME Control, TypeOK, NamesInv, NEW v \in Verbs, Spawn(v)
    PROVE  NamesInv'
<1>1. /\ pc[v] = "idle" /\ pc' = [pc EXCEPT ![v] = job'[v].verb]
      /\ job' = [job EXCEPT ![v] = job'[v]] /\ UNCHANGED regime
    BY SpawnControl
<1>2. UNCHANGED <<container, sidecar, stateDir>>
    BY DEF Spawn
<1>3. \A u \in Verbs \ {v} : pc'[u] = pc[u] /\ job'[u] = job[u]
    BY <1>1 DEF Control
<1>4. Ordered'
    BY SpawnOrdered
<1> SUFFICES ASSUME ~regime.reuse
             PROVE  (Alone /\ NameFree /\ SidecarWritten /\ Removing /\ OwnSidecar /\ Gone)'
    BY <1>1, <1>4 DEF NamesInv
<1>5. /\ ~\E u \in Verbs : Holder(u) /\ CName(u) = CName(v)'
      /\ job'[v].verb = "run" => gone' = gone \ {CName(v)'}
      /\ job'[v].verb # "run" => gone' = gone
      /\ job'[v].verb \in ContainerVerbs
    <2>1. PICK j \in regime.jobs :
             LET n == IF j.name = None THEN v ELSE j.name IN
             /\ j.verb \in ContainerVerbs
             /\ ~Busy(n)
             /\ job' = [job EXCEPT ![v] = j]
             /\ gone' = IF j.verb = "run" THEN gone \ {n} ELSE gone
        BY DEF Spawn
    <2>2. job'[v] = j
        BY <2>1 DEF Control
    <2> QED
        BY <2>1, <2>2 DEF Busy, Holder, CName
<1>6. \A u \in Verbs \ {v} :
          /\ CName(u)' = CName(u) /\ Serving(u)' = Serving(u)
          /\ Holder(u)' = Holder(u) /\ Launching(u)' = Launching(u)
    BY <1>3 DEF CName, Serving, Holder, Launching, Alive
<1>7. pc'[v] \in ContainerVerbs
    BY <1>1, <1>5 DEF Control
<1>8. Alone'
    BY <1>5, <1>6 DEF NamesInv, Alone
<1>9. NameFree'
    <2>1. ASSUME NEW u \in Verbs \ {v}, Launching(u)'
          PROVE  /\ CName(u)' \notin gone'
                 /\ container'[CName(u)'] # None => container'[CName(u)'].by < u
        BY <1>2, <1>5, <1>6, <2>1 DEF NamesInv, NameFree
    <2>2. ASSUME Launching(v)'
          PROVE  /\ CName(v)' \notin gone'
                 /\ container'[CName(v)'] # None => container'[CName(v)'].by < v
        <3>1. CName(v)' \in ContainerNames
            BY SpawnControl, JobsAssumption DEF Control, CName, ContainerNames
        <3>2. CName(v)' \notin gone'
            BY <1>5, <2>2 DEF Launching
        <3> QED
            BY <1>1, <1>2, <3>1, <3>2, EarlierRun
    <2> QED
        BY <2>1, <2>2 DEF NameFree
<1>10. SidecarWritten' /\ Removing'
    BY <1>2, <1>3, <1>6, <1>7 DEF NamesInv, SidecarWritten, Removing, ContainerVerbs
<1>11. OwnSidecar'
    BY <1>1, <1>2, <1>3, SpawnSupported DEF NamesInv, OwnSidecar
<1>12. Gone'
    BY <1>2, <1>5 DEF NamesInv, Gone
<1> QED
    BY <1>8, <1>9, <1>10, <1>11, <1>12

\* A container that ends or is removed frees no name that a verb holds.
LEMMA EndsNames ==
    ASSUME Control, TypeOK, NamesInv, NEW n \in ContainerNames,
           AgentEnds(n) \/ RemovedOutOfBand(n)
    PROVE  NamesInv'
<1>1. UNCHANGED <<regime, pc, job, sidecar, stateDir, gone>>
    BY DEF AgentEnds, RemovedOutOfBand, imageVars
<1>2. /\ \A m \in ContainerNames \ {n} : container'[m] = container[m]
      /\ container[n] # None
      /\ container'[n] # None => /\ container'[n].by = container[n].by
                                 /\ container'[n].sup = container[n].sup
    BY HaltedTyped DEF AgentEnds, RemovedOutOfBand, Up, TypeOK
<1>3. \A u \in Verbs : CName(u)' = CName(u) /\ Serving(u)' = Serving(u)
                       /\ Holder(u)' = Holder(u) /\ Launching(u)' = Launching(u)
    BY <1>1 DEF CName, Serving, Holder, Launching, Alive
<1>4. \A u \in Verbs : pc[u] # "idle" => CName(u) \in ContainerNames
    BY JobTyped
<1>5. \A u \in Verbs : Launching(u) => CName(u) \in ContainerNames
    BY <1>4 DEF Launching, Holder, Alive
<1>6. Ordered'
    BY <1>1 DEF NamesInv, Ordered
<1> SUFFICES ASSUME ~regime.reuse
             PROVE  (Alone /\ NameFree /\ SidecarWritten /\ Removing /\ OwnSidecar /\ Gone)'
    BY <1>1, <1>6 DEF NamesInv
<1>7. Alone' /\ SidecarWritten'
    BY <1>1, <1>3 DEF NamesInv, Alone, SidecarWritten
<1>8. NameFree'
    <2>1. ASSUME NEW u \in Verbs, Launching(u), container'[CName(u)] # None
          PROVE  container'[CName(u)].by < u
        BY <1>2, <1>5, <2>1 DEF NamesInv, NameFree
    <2> QED
        BY <1>1, <1>3, <2>1 DEF NamesInv, NameFree
<1>9. Removing'
    BY <1>1, <1>2, <1>3, <1>4 DEF NamesInv, Removing
<1>10. OwnSidecar'
    <2>1. PICK v \in Verbs : v = container[n].by
        BY <1>2 DEF TypeOK, Containers
    <2>2. Harmless(v)
        BY <1>1, <1>3 DEF Harmless
    <2>3. ASSUME NEW m \in ContainerNames PROVE Supported(m)'
        <3>1. Supported(m)
            BY DEF NamesInv, OwnSidecar
        <3> QED
            BY <1>1, <1>2, <2>2, <3>1, StaySupported DEF Harmless
    <2> QED
        BY <2>3 DEF OwnSidecar
<1>11. Gone'
    BY <1>1, <1>2 DEF NamesInv, Gone, TypeOK
<1> QED
    BY <1>7, <1>8, <1>9, <1>10, <1>11

\* Where a verb stands when it holds a name, and where it is launching.
LEMMA HoldersStand ==
    ASSUME Control, NEW v \in Verbs
    PROVE  /\ pc[v] \in {"stateDir", "assemble", "sidecar", "podman"} => Launching(v) /\ Holder(v)
           /\ pc[v] \in {"start", "stop", "rm", "rmState", "rmDir"} => Holder(v)
           /\ job[v].verb \in ImageVerbs => ~Holder(v) /\ ~Launching(v)
BY DEF Control, Placed, Returning, Holder, Launching, Alive, Ended, ImageVerbs, ImageSteps,
       EarlySteps, LateSteps, BuilderSteps, LoginPcs

\* A verb that starts, stops or removes is no launch.
LEMMA NotLaunched ==
    ASSUME Control, NEW v \in Verbs, LifecycleStep(v)
    PROVE  ~Launching(v)
BY DEF LifecycleStep, Start, Stop, RemoveContainer, RemoveState, RemoveDir, Control, Placed,
       Returning, ImageSteps, EarlySteps, LateSteps, BuilderSteps, LoginPcs, Ended, ImageVerbs,
       Launching

\* Image verbs, and the image steps of a run, use no name.
LEMMA ImageNames ==
    ASSUME Control, TypeOK, NamesInv, NEW v \in Verbs, ImageStep(v), UNCHANGED launchVars
    PROVE  NamesInv'
<1>1. UNCHANGED <<regime, container, sidecar, stateDir, gone>>
    BY StepControl DEF Next, launchVars
<1>2. CASE Builder(v) \/ LoginSteps(v)
    <2>1. /\ UNCHANGED job /\ pc[v] \in BuilderSteps \cup LoginPcs \cup {"aborted"}
          /\ pc' = pc \/ pc' = [pc EXCEPT ![v] = pc'[v]]
          /\ pc'[v] \notin LateSteps \cup {"rm", "rmState", "rmDir"}
        BY <1>2, BuilderControl
    <2>2. pc[v] = "aborted" => pc' = pc
        BY <1>2, BuilderMove, LoginMove DEF OrphanEnds, BuilderSteps, LoginPcs
    <2>3. (Holder(v)' => Holder(v)) /\ (Launching(v)' => Launching(v))
        BY <2>1, <2>2 DEF Holder, Launching, Alive, Ended, BuilderSteps, LoginPcs
    <2>4. pc[v] # "idle" /\ pc'[v] # "idle" /\ \A u \in Verbs \ {v} : pc'[u] = pc[u]
        BY <2>1, StepControl DEF Control, Begun, Next, BuilderSteps, LoginPcs
    <2>5. Launching(v) => Launching(v)' \/ Failed(v)'
        <3>1. ASSUME job[v].verb = "run", pc[v] \in BuilderSteps \cup LoginPcs
              PROVE  pc'[v] \in BuilderSteps \cup LoginPcs \cup RunReturns
            <4>1. ReturnsTo(task[v], RunReturns)
                BY <3>1 DEF Control, Placed, Returning, BuilderSteps, LoginPcs, ImageVerbs, Ended,
                            EarlySteps, LateSteps
            <4> QED
                BY <1>2, <3>1, <4>1, BuilderMove, LoginMove
                   DEF ReturnsTo, OrphanEnds, BuilderSteps, LoginPcs
        <3> QED
            BY <2>1, <2>2, <3>1 DEF Launching, Holder, Alive, Ended, Failed, BuilderSteps, LoginPcs,
                                    RunReturns, ImageVerbs
    <2>6. Harmless(v)
        BY <2>1, <2>2, <2>4, <2>5 DEF Harmless, Failed, BuilderSteps, LoginPcs
    <2> QED
        BY <1>1, <2>1, <2>3, <2>4, <2>6, QuietNames DEF LateSteps
<1>3. CASE Build(v) \/ BuildSidecarToo(v) \/ Setup(v) \/ Announce(v) \/ Auth(v) \/ Uninstall(v)
    <2>1. Control' /\ UNCHANGED job /\ pc[v] \in ImageSteps /\ pc' = [pc EXCEPT ![v] = pc'[v]]
        BY <1>3, ImageVerbControl
    <2>2. job[v].verb \in ImageVerbs
        BY <2>1 DEF Control, Placed, Returning, ImageSteps, EarlySteps, LateSteps, BuilderSteps,
                    LoginPcs, Ended
    <2>3. ~Holder(v)' /\ ~Launching(v)'
        BY <2>1, <2>2 DEF Holder, Launching
    <2>4. pc'[v] \notin {"podman", "rmState", "rmDir"}
        BY <2>1, <2>2 DEF Control, Placed, Returning, ImageSteps, BuilderSteps, LoginPcs, Ended,
                    ImageVerbs
    <2>5. pc[v] # "idle" /\ pc'[v] # "idle" /\ \A u \in Verbs \ {v} : pc'[u] = pc[u]
        BY <2>1, StepControl DEF Control, Begun, Next, ImageSteps
    <2>6. Harmless(v)
        BY <2>1, <2>2, <2>5 DEF Harmless, Failed, Launching, Holder, ImageSteps
    <2> QED
        BY <1>1, <2>1, <2>3, <2>4, <2>5, <2>6, QuietNames
<1>4. CASE SpawnImageVerb(v)
    <2>1. /\ pc[v] = "idle" /\ pc' = [pc EXCEPT ![v] = job'[v].verb]
          /\ job' = [job EXCEPT ![v] = job'[v]]
        BY <1>4, SpawnControl
    <2>2. job'[v].verb \in ImageVerbs
        <3>1. PICK j \in regime.jobs : j.verb \in ImageVerbs /\ job' = [job EXCEPT ![v] = j]
            BY <1>4 DEF SpawnImageVerb
        <3> QED
            BY <3>1 DEF Control
    <2>3. \A u \in Verbs \ {v} :
             /\ pc'[u] = pc[u] /\ CName(u)' = CName(u) /\ Serving(u)' = Serving(u)
             /\ Holder(u)' = Holder(u) /\ Launching(u)' = Launching(u)
        BY <2>1 DEF Control, CName, Serving, Holder, Launching, Alive
    <2>4. ~Holder(v)' /\ ~Launching(v)' /\ pc'[v] \in ImageVerbs
        BY <2>1, <2>2 DEF Holder, Launching, Control
    <2>5. Ordered'
        BY <1>4, SpawnOrdered
    <2> SUFFICES ASSUME ~regime.reuse
                 PROVE  (Alone /\ NameFree /\ SidecarWritten /\ Removing /\ OwnSidecar /\ Gone)'
        BY <1>1, <2>5 DEF NamesInv
    <2>6. Alone' /\ NameFree'
        BY <1>1, <2>3, <2>4 DEF NamesInv, Alone, NameFree
    <2>7. SidecarWritten' /\ Removing'
        BY <1>1, <2>3, <2>4 DEF NamesInv, SidecarWritten, Removing, ImageVerbs
    <2>8. OwnSidecar'
        <3>1. \A u \in Verbs \ {v} : pc'[u] = pc[u] /\ job'[u] = job[u]
            BY <2>1 DEF Control
        <3> QED
            BY <1>1, <2>1, <3>1, SpawnSupported DEF NamesInv, OwnSidecar
    <2>9. Gone'
        BY <1>1 DEF NamesInv, Gone
    <2> QED
        BY <2>6, <2>7, <2>8, <2>9
<1> QED
    BY <1>2, <1>3, <1>4 DEF ImageStep

\* A verb's step on its own name keeps what the name stands for.
LEMMA OwnStepNames ==
    ASSUME Control, TypeOK, NamesInv, NEW v \in Verbs,
           \/ MakeStateDir(v) \/ Assemble(v) \/ WriteSidecar(v) \/ PodmanRun(v)
           \/ LifecycleStep(v)
    PROVE  NamesInv'
<1> DEFINE n == CName(v)
<1>1. /\ Holder(v) /\ pc[v] # "attach" /\ n \in ContainerNames /\ UNCHANGED <<regime, job>>
      /\ \A u \in Verbs \ {v} : pc'[u] = pc[u]
      /\ gone \subseteq ContainerNames
      /\ \A u \in Verbs : pc[u] # "idle" => CName(u) \in ContainerNames
    <2>1. pc[v] \in {"stateDir", "assemble", "sidecar", "podman", "start", "stop", "rm", "rmState",
                    "rmDir"}
        BY DEF MakeStateDir, Assemble, WriteSidecar, PodmanRun, LifecycleStep, Start, Stop,
               RemoveContainer, RemoveState, RemoveDir
    <2>2. UNCHANGED <<regime, job>> /\ \A u \in Verbs \ {v} : pc'[u] = pc[u]
        BY RunControl, LifecycleControl DEF RunStep, Control
    <2>3. Holder(v) /\ pc[v] # "attach" /\ n \in ContainerNames
        BY <2>1, JobTyped, HoldersStand
    <2>4. gone \subseteq ContainerNames /\ \A u \in Verbs : pc[u] # "idle" => CName(u) \in ContainerNames
        BY JobTyped DEF TypeOK
    <2> QED
        BY <2>2, <2>3, <2>4
<1>2. CASE regime.reuse
    <2>1. \A u \in Verbs : pc'[u] = "idle" <=> pc[u] = "idle"
        BY <1>1, StepControl DEF Next, RunStep, Begun, Holder, Alive
    <2>2. Ordered'
        BY <2>1, OrderStays DEF NamesInv
    <2> QED
        BY <1>1, <1>2, <2>2 DEF NamesInv
<1> SUFFICES ASSUME ~regime.reuse PROVE NamesInv'
    BY <1>2
<1>3. Launching(v)' => Launching(v)
    BY <1>1 DEF Launching
<1> DEFINE Going == pc'[v] # "idle" /\ (Launching(v) => Launching(v)' \/ Failed(v)')
<1>14. Going => Harmless(v)
    BY <1>1 DEF Harmless, Failed, Holder, Alive, Ended
<1>15. ASSUME Going, sidecar'[n] = sidecar[n],
              container'[n] # None =>
                  container[n] # None /\ container'[n].by = container[n].by
                  /\ container'[n].sup = container[n].sup,
              NEW m \in ContainerNames, m = n
       PROVE  Supported(m)'
    <2>1. Supported(m) /\ UNCHANGED job /\ Harmless(v)
        BY <1>1, <1>14, <1>15 DEF NamesInv, OwnSidecar
    <2> HIDE DEF n
    <2> QED
        BY <1>1, <1>15, <2>1, StaySupported
<1>4. CASE MakeStateDir(v)
    <2>1. /\ Launching(v) /\ pc'[v] = "assemble" /\ UNCHANGED <<container, sidecar, gone>>
          /\ \A m \in ContainerNames \ {n} : stateDir'[m] = stateDir[m]
        BY <1>4, HoldersStand DEF MakeStateDir, MakesStateDir, Goto, Control, TypeOK
    <2>2. Going /\ n \notin gone
        BY <1>1, <2>1 DEF NamesInv, NameFree, Launching, Holder, Alive, Ended
    <2>3. \A m \in ContainerNames : m = n => Supported(m)'
        BY <1>15, <2>1, <2>2
    <2> QED
        BY <1>1, <2>1, <2>2, <2>3, OwnNames
<1>5. CASE Assemble(v)
    <2>1. /\ Launching(v) /\ pc'[v] \in {"sidecar", "refused"}
          /\ UNCHANGED <<container, sidecar, stateDir, gone>>
        BY <1>5, HoldersStand DEF Assemble, Steps, Goto, Control
    <2>2. Going /\ n \notin gone
        BY <1>1, <2>1 DEF NamesInv, NameFree, Launching, Holder, Alive, Ended, Failed
    <2>3. \A m \in ContainerNames : m = n => Supported(m)'
        BY <1>15, <2>1, <2>2
    <2> QED
        BY <1>1, <2>1, <2>2, <2>3, OwnNames
<1>6. CASE WriteSidecar(v)
    <2>1. /\ Launching(v) /\ UNCHANGED <<container, stateDir, gone>>
          /\ \/ pc'[v] = "podman" /\ sidecar'[n] = Serving(v)
             \/ pc'[v] = "refused" /\ sidecar'[n] = sidecar[n]
          /\ \A m \in ContainerNames \ {n} : sidecar'[m] = sidecar[m]
        BY <1>1, <1>6, HoldersStand DEF WriteSidecar, Goto, Control, TypeOK
    <2>2. Going /\ n \notin gone
        BY <1>1, <2>1 DEF NamesInv, NameFree, Launching, Holder, Alive, Ended, Failed
    <2>3. CASE sidecar'[n] = sidecar[n]
        BY <1>1, <1>15, <2>1, <2>2, <2>3, OwnNames
    <2>4. CASE pc'[v] = "podman" /\ sidecar'[n] = Serving(v)
        <3>1. ASSUME NEW m \in ContainerNames, m = n PROVE Supported(m)'
            <4> SUFFICES ASSUME container'[m] # None PROVE Supported(m)'
                BY DEF Supported
            <4>1. PICK r \in Served, t \in Served, b \in Verbs :
                      r = container[m].sup /\ t = Serving(v) /\ b = container[m].by
                BY <1>1, <2>1, JobTyped DEF TypeOK, Containers, Serving, Served, Holder, Alive
            <4>2. t.by = v /\ Serving(v)' = t /\ CName(v)' = m /\ Launching(v)'
                BY <1>1, <2>1, <2>4, <3>1, <4>1
                   DEF Serving, CName, Launching, Holder, Alive, Ended
            <4>3. RunOf(t, m)'
                BY <1>1, <2>4, <4>2 DEF RunOf, Launching
            <4>4. b < v
                BY <2>1, <3>1, <4>1 DEF NamesInv, NameFree
            <4>5. Supported(m)
                BY DEF NamesInv, OwnSidecar
            <4>6. RunOf(r, m) /\ (r.by = b \/ (r.by > b /\ Failed(r.by)))
                BY <2>1, <4>1, <4>5 DEF Supported
            <4>7. RunOf(r, m)' /\ (Failed(r.by) => Failed(r.by)')
                BY <1>1, <1>14, <2>2, <4>6, RunStays
            <4>8. container'[m].sup = r /\ sidecar'[m] = t /\ container'[m].by = b
                BY <2>1, <2>4, <3>1, <4>1
            <4> QED
                BY <4>2, <4>3, <4>4, <4>6, <4>7, <4>8 DEF Supported, Verbs
        <3> QED
            BY <1>1, <2>1, <2>2, <2>4, <3>1, OwnNames
    <2> QED
        BY <2>1, <2>3, <2>4
<1>7. CASE PodmanRun(v)
    <2>1. /\ Launching(v) /\ pc[v] = "podman" /\ UNCHANGED <<sidecar, stateDir, gone>>
          /\ \/ container'[n] = container[n] /\ pc'[v] = "aborted"
             \/ container'[n] = Created(v, sidecar[n]) /\ pc'[v] \in {"follow", "attach"}
          /\ \A m \in ContainerNames \ {n} : container'[m] = container[m]
        BY <1>1, <1>7, HoldersStand DEF PodmanRun, Goto, Control, TypeOK
    <2>2. n \notin gone /\ sidecar[n] = Serving(v)
        BY <2>1 DEF NamesInv, NameFree, SidecarWritten
    <2>3. ~Launching(v)' /\ pc'[v] # "idle"
        BY <2>1 DEF Launching, Holder, Alive, Ended
    <2>4. CASE container'[n] = container[n] /\ pc'[v] = "aborted"
        <3>1. Going
            BY <2>3, <2>4 DEF Failed
        <3> QED
            BY <1>1, <1>15, <2>1, <2>2, <2>3, <2>4, <3>1, OwnNames
    <2>5. CASE container'[n] = Created(v, sidecar[n]) /\ pc'[v] \in {"follow", "attach"}
        <3>1. ASSUME NEW m \in ContainerNames, m = n PROVE Supported(m)'
            <4>1. PICK t \in Served : t = Serving(v)
                BY <1>1, JobTyped DEF Serving, Served, Holder, Alive
            <4>2. t.by = v /\ Serving(v)' = t /\ CName(v)' = m
                BY <1>1, <3>1, <4>1 DEF Serving, CName
            <4>3. RunOf(t, m)'
                BY <1>1, <2>1, <2>3, <4>2 DEF RunOf, Launching
            <4>4. container'[m].sup = t /\ sidecar'[m] = t /\ container'[m].by = v
                BY <2>1, <2>2, <2>5, <3>1, <4>1 DEF Created
            <4> QED
                BY <4>2, <4>3, <4>4 DEF Supported
        <3> QED
            BY <1>1, <2>1, <2>2, <2>3, <2>5, <3>1, OwnNames
    <2> QED
        BY <2>1, <2>4, <2>5
<1>8. LifecycleStep(v) => ~Launching(v)'
    BY <1>3, NotLaunched
<1>9. CASE Start(v)
    <2>1. /\ UNCHANGED <<sidecar, stateDir, gone>> /\ pc'[v] \in {"done", "failed"}
          /\ \A m \in ContainerNames \ {n} : container'[m] = container[m]
          /\ \/ container'[n] = container[n]
             \/ container[n] # None
                /\ container' = [container EXCEPT ![n].up = TRUE, ![n].sup = sidecar[n]]
        BY <1>1, <1>9 DEF Start, Goto, Control, TypeOK
    <2>2. container[n] # None => container[n] \in Containers
        BY <1>1 DEF TypeOK
    <2>3. container'[n] # None =>
             /\ container[n] # None /\ container'[n].by = container[n].by
             /\ container'[n].sup \in {container[n].sup, sidecar[n]}
        <3>1. CASE container'[n] = container[n]
            BY <3>1
        <3>2. CASE container[n] # None
                   /\ container' = [container EXCEPT ![n].up = TRUE, ![n].sup = sidecar[n]]
            <4>1. container'[n] = [container[n] EXCEPT !.up = TRUE, !.sup = sidecar[n]]
                BY <1>1, <3>2 DEF TypeOK
            <4>2. \A c \in Containers :
                     LET d == [c EXCEPT !.up = TRUE, !.sup = sidecar[n]]
                     IN  d.by = c.by /\ d.sup = sidecar[n]
                BY DEF Containers
            <4> QED
                BY <2>2, <3>2, <4>1, <4>2
        <3> QED
            BY <2>1, <3>1, <3>2
    <2>4. container[n] # None => n \notin gone
        BY DEF NamesInv, Gone
    <2>5. Going
        BY <1>8, <1>9, <2>1, NotLaunched DEF LifecycleStep
    <2>6. ASSUME NEW m \in ContainerNames, m = n PROVE Supported(m)'
        <3>1. CASE container'[n] # None => container'[n].sup = container[n].sup
            BY <1>15, <2>1, <2>3, <2>5, <2>6, <3>1
        <3>2. CASE container'[n] # None /\ container'[n].sup = sidecar[n]
            <4>1. Supported(m) /\ container[m] # None
                BY <2>3, <2>6, <3>2 DEF NamesInv, OwnSidecar
            <4>2. PICK t \in Served, b \in Verbs : t = sidecar[m] /\ b = container[m].by
                BY <4>1 DEF Supported, TypeOK, Containers
            <4>3. RunOf(t, m) /\ (t.by = b \/ (t.by > b /\ (Failed(t.by) \/ Launching(t.by))))
                BY <4>1, <4>2 DEF Supported
            <4>4. ~Launching(t.by)
                <5>1. t.by \in Verbs /\ CName(t.by) = n
                    BY <2>6, <4>3 DEF Served, RunOf
                <5>2. ~Launching(v)
                    BY <1>9, NotLaunched DEF LifecycleStep
                <5> QED
                    BY <1>1, <5>1, <5>2 DEF NamesInv, Alone, Launching
            <4>5. RunOf(t, m)' /\ (Failed(t.by) => Failed(t.by)')
                BY <1>1, <1>14, <2>5, <4>3, RunStays
            <4>6. container'[m].sup = t /\ sidecar'[m] = t /\ container'[m].by = b
                BY <2>1, <2>3, <2>6, <3>2, <4>2
            <4> QED
                BY <4>3, <4>4, <4>5, <4>6 DEF Supported
        <3> QED
            BY <2>3, <3>1, <3>2
    <2>7. n \in gone' => container'[n] = None /\ sidecar'[n] = None /\ stateDir'[n] = None
        BY <2>1, <2>3, <2>4 DEF NamesInv, Gone
    <2> QED
        BY <1>1, <1>8, <1>9, <2>1, <2>5, <2>6, <2>7, OwnNames DEF LifecycleStep
<1>10. CASE Stop(v)
    <2>1. /\ UNCHANGED <<sidecar, stateDir, gone>> /\ pc'[v] \in {"done", "failed"}
          /\ \A m \in ContainerNames \ {n} : container'[m] = container[m]
          /\ \/ container'[n] = container[n]
             \/ container[n] # None /\ container'[n] = Halted(container[n])
        BY <1>1, <1>10 DEF Stop, Up, Goto, Control, TypeOK
    <2>2. container'[n] # None =>
             /\ container[n] # None /\ container'[n].by = container[n].by
             /\ container'[n].sup = container[n].sup
        BY <1>1, <2>1, HaltedTyped DEF TypeOK
    <2>3. Going /\ \A m \in ContainerNames : m = n => Supported(m)'
        BY <1>10, <1>15, <2>1, <2>2, NotLaunched DEF LifecycleStep
    <2>4. n \in gone' => container'[n] = None /\ sidecar'[n] = None /\ stateDir'[n] = None
        BY <2>1, <2>2 DEF NamesInv, Gone
    <2> QED
        BY <1>1, <1>8, <1>10, <2>1, <2>3, <2>4, OwnNames DEF LifecycleStep
<1>11. CASE RemoveContainer(v)
    <2>1. /\ UNCHANGED <<sidecar, stateDir, gone>>
          /\ \A m \in ContainerNames \ {n} : container'[m] = container[m]
          /\ \/ container'[n] = None /\ pc'[v] = "rmState"
             \/ container'[n] = container[n] /\ pc'[v] = "failed"
        BY <1>1, <1>11 DEF RemoveContainer, Goto, Control, TypeOK
    <2>2. Going /\ \A m \in ContainerNames : m = n => Supported(m)'
        BY <1>11, <1>15, <2>1, NotLaunched DEF LifecycleStep
    <2>3. n \in gone' => container'[n] = None /\ sidecar'[n] = None /\ stateDir'[n] = None
        BY <2>1 DEF NamesInv, Gone
    <2> QED
        BY <1>1, <1>8, <1>11, <2>1, <2>2, <2>3, OwnNames DEF LifecycleStep
<1>12. CASE RemoveState(v)
    <2>1. /\ pc[v] = "rmState" /\ pc'[v] = "rmDir" /\ UNCHANGED <<container, stateDir, gone>>
          /\ \A m \in ContainerNames \ {n} : sidecar'[m] = sidecar[m]
          /\ sidecar'[n] = None
        BY <1>1, <1>12 DEF RemoveState, Goto, Control, TypeOK
    <2>2. container'[n] = None /\ (n \in gone' => stateDir'[n] = None)
          /\ \A m \in ContainerNames : m = n => Supported(m)'
        BY <2>1 DEF NamesInv, Removing, Gone, Supported
    <2> QED
        BY <1>1, <1>8, <1>12, <2>1, <2>2, OwnNames DEF LifecycleStep
<1>13. CASE RemoveDir(v)
    <2>1. /\ pc[v] = "rmDir" /\ pc'[v] = "done" /\ UNCHANGED <<container, sidecar>>
          /\ \A m \in ContainerNames \ {n} : stateDir'[m] = stateDir[m]
          /\ stateDir'[n] = None /\ gone' = gone \cup {n}
        BY <1>1, <1>13 DEF RemoveDir, Goto, Control, TypeOK
    <2>2. container'[n] = None /\ sidecar'[n] = None
          /\ \A m \in ContainerNames : m = n => Supported(m)'
        BY <2>1 DEF NamesInv, Removing, Supported
    <2> QED
        BY <1>1, <1>8, <1>13, <2>1, <2>2, OwnNames DEF LifecycleStep
<1> QED
    BY <1>4, <1>5, <1>6, <1>7, <1>9, <1>10, <1>11, <1>12, <1>13 DEF LifecycleStep

\* Every other step of a run.
LEMMA QuietStepNames ==
    ASSUME Control, TypeOK, NamesInv, NEW v \in Verbs, QuietStep(v)
    PROVE  NamesInv'
<1>1. /\ UNCHANGED <<regime, job, container, sidecar, stateDir, gone>>
      /\ \A u \in Verbs \ {v} : pc'[u] = pc[u]
    BY RunControl, LifecycleControl, QuietLeavesAll DEF QuietStep, RunStep, Control
<1>2. /\ pc'[v] \notin {"podman", "rmState", "rmDir"}
      /\ pc[v] \notin {"idle"} \cup Ended /\ pc'[v] # "idle"
      /\ pc[v] \in {"follow", "wait", "attach"} => pc'[v] \in Ended \cup {"wait"}
      /\ pc'[v] \in (Ended \ {"refused", "aborted"}) \cup {"wait", "attach", "follow"} =>
             pc[v] \in {"follow", "wait", "attach"}
    <2> USE DEF Steps, Goto, Control, Ended, Alive
    <2>1. CASE SetupVerdict(v) \/ Preflight(v) \/ RequirePodman(v) \/ RequireServices(v)
        BY <2>1 DEF SetupVerdict, Preflight, RequirePodman, RequireServices
    <2>2. CASE CheckImages(v) \/ RecheckImages(v) \/ NoImages(v) \/ OfferCredentials(v)
        BY <2>2 DEF CheckImages, RecheckImages, NoImages, OfferCredentials, FixCredentials, Call
    <2>3. CASE PreflightEnds(v) \/ Resolve(v) \/ Provision(v)
        BY <2>3 DEF PreflightEnds, Resolve, Provision, Call
    <2>4. CASE Attach(v) \/ Follow(v) \/ Wait(v) \/ Kill(v)
        BY <2>4 DEF Attach, Follow, Wait, Kill
    <2> QED
        BY <2>1, <2>2, <2>3, <2>4 DEF QuietStep
<1>3. (Holder(v)' => Holder(v)) /\ (Launching(v)' => Launching(v))
    BY <1>1, <1>2 DEF Holder, Launching, Alive, Ended
<1>4. Harmless(v)
    BY <1>1, <1>2 DEF Harmless, Launching, Holder, Alive, Failed, Ended
<1> QED
    BY <1>1, <1>2, <1>3, <1>4, QuietNames

NamesHold == Control /\ TypeOK /\ NamesInv

\* Every step keeps the names apart.
LEMMA NamesStep == NamesHold /\ [Next]_vars => NamesHold'
<1> SUFFICES ASSUME Control, TypeOK, NamesInv, [Next]_vars
             PROVE  NamesHold'
    BY DEF NamesHold
<1>1. ASSUME UNCHANGED vars PROVE NamesInv'
    <2>1. UNCHANGED <<regime, pc, job, container, sidecar, stateDir, gone>>
        BY <1>1 DEF vars, imageVars, launchVars
    <2> QED
        BY <2>1 DEF NamesInv, Ordered, Alone, NameFree, SidecarWritten, Removing, OwnSidecar,
                    Supported, RunOf, Failed, Gone, Holder, Launching, Alive, CName, Serving
<1>2. NamesInv'
    BY <1>1, ImageNames, SpawnNames, OwnStepNames, QuietStepNames, EndsNames
       DEF Next, RunStep, QuietStep
<1> QED
    BY <1>2, StepControl, TypeStep DEF NamesHold

\* No name is used at the beginning.
LEMMA InitNames == Init => NamesHold
<1> SUFFICES ASSUME Init PROVE NamesHold
    OBVIOUS
<1>1. Control /\ TypeOK
    BY InitControl, InitTyped
<1>2. \A v \in Verbs : pc[v] = "idle"
    BY DEF Init, ImagesInit
<1>3. Alone /\ NameFree /\ SidecarWritten /\ Removing
    BY <1>2 DEF Alone, NameFree, SidecarWritten, Removing, Launching, Holder, Alive
<1>4. OwnSidecar /\ Gone
    BY DEF Init, LaunchInit, OwnSidecar, Supported, Gone
<1>5. Ordered
    BY <1>2 DEF Ordered
<1> QED
    BY <1>1, <1>3, <1>4, <1>5 DEF NamesHold, NamesInv

\* Spec => []Supervised: however many runs, starts, stops and removals of a name
\* follow one another, fail and are killed, a running container has the supervisor of
\* its own run, or of a later one of that name that did not get to a container.
THEOREM EachSupervised == Spec => []Supervised
<1>1. NamesHold => Supervised
    BY DEF NamesHold, NamesInv, OwnSidecar, Supported, Failed, Supervised, Up
<1> QED
    BY <1>1, InitNames, NamesStep, PTL DEF Spec

\* Spec => []AfterRm: a name that was removed, and not taken since, has nothing left.
THEOREM RmLeavesNothing == Spec => []AfterRm
<1>1. NamesHold => AfterRm
    BY DEF NamesHold, NamesInv, Gone, AfterRm
<1> QED
    BY <1>1, InitNames, NamesStep, PTL DEF Spec

-----------------------------------------------------------------------------
(* Images.  What the builder was called for, and what it has made sure of. *)

SelectedSteps == {"look0", "look1", "tag", "family", "context", "buildL0", "buildL1"}

Asked(v) ==
    /\ pc[v] \in BuilderSteps \cup LoginPcs =>
          /\ task[v].alias => task[v].select = Everything
          /\ task[v].ok = "login" => task[v].alias /\ task[v].base = job[v].base
    /\ pc[v] \in SelectedSteps => Selected(v) # None
    /\ pc[v] \in {"buildL0", "buildL1"} => Content(v) # None
    /\ pc[v] \in LoginPcs => task[v].base = job[v].base

AllAsked == \A v \in Verbs : Asked(v)

\* A selection is closed over something that holds it.
LEMMA ClosureHolds ==
    ASSUME NEW installs, NEW seed
    PROVE  seed \subseteq Closure(installs, seed)
BY DEF Closure

\* What is selected can be installed.
LEMMA SelectedInstallable ==
    ASSUME NEW ros, NEW sel, ResolveSelection(ros, sel) # None
    PROVE  ResolveSelection(ros, sel) \subseteq DOMAIN ros.installs
BY DEF ResolveSelection

\* Everything is what can be installed.
LEMMA EverythingResolves ==
    ASSUME NEW ros
    PROVE  ResolveSelection(ros, Everything) = DOMAIN ros.installs
BY DEF ResolveSelection, Everything

\* What has been resolved once and is resolved again loses nothing.
LEMMA ResolvedAgain ==
    ASSUME NEW ros, NEW names, names \subseteq DOMAIN ros.installs,
           ResolveSelection(ros, Selection(names, {})) # None
    PROVE  names \subseteq ResolveSelection(ros, Selection(names, {}))
<1> DEFINE sel  == Selection(names, {})
           seed == IF All \in names \/ names = {} THEN DOMAIN ros.installs ELSE names \ {All}
<1>1. sel.literal = FALSE /\ sel.includes = names /\ sel.excludes = {}
    BY DEF Selection
<1>2. ResolveSelection(ros, sel) = Closure(ros.installs, seed) \ {}
    BY <1>1 DEF ResolveSelection
<1>3. names \subseteq seed
    OBVIOUS
<1>4. seed \subseteq Closure(ros.installs, seed)
    BY ClosureHolds
<1> QED
    BY <1>2, <1>3, <1>4

\* What a build of the L1 installs: the selection, and everything for the alias.
LEMMA ContentComplete ==
    ASSUME AllAsked, NEW v \in Verbs, pc[v] = "buildL1"
    PROVE  /\ Selected(v) \subseteq Content(v)
           /\ task[v].alias => DOMAIN roster.installs \subseteq Content(v)
<1>1. Selected(v) # None /\ Content(v) # None /\ (task[v].alias => task[v].select = Everything)
    BY DEF AllAsked, Asked, SelectedSteps, BuilderSteps
<1>2. Selected(v) = ResolveSelection(roster, task[v].select)
    BY <1>1 DEF Selected
<1>3. Selected(v) \subseteq DOMAIN roster.installs
    BY <1>1, <1>2, SelectedInstallable
<1>4. Selected(v) \subseteq Content(v)
    BY <1>1, <1>3, ResolvedAgain DEF Content
<1> QED
    BY <1>1, <1>2, <1>4, EverythingResolves

\* A step leaves the question a verb asked as it was, or asks a new one.
LEMMA AskedStep ==
    ASSUME Control, AllAsked, [Next]_vars
    PROVE  AllAsked'
<1>1. Control' /\ Begun /\ UNCHANGED <<regime, roster>>
    BY StepControl
<1>2. ASSUME NEW u \in Verbs, task'[u] = task[u], job'[u] = job[u],
             pc'[u] \in BuilderSteps \cup LoginPcs => pc[u] \in BuilderSteps \cup LoginPcs,
             pc'[u] \in SelectedSteps => pc[u] \in SelectedSteps \/ Selected(u) # None,
             pc'[u] \in {"buildL0", "buildL1"} =>
                 pc[u] \in {"buildL0", "buildL1"} \/ Content(u) # None,
             pc'[u] \in LoginPcs => pc[u] \in LoginPcs \/ task[u].ok = "login"
      PROVE  Asked(u)'
    BY <1>1, <1>2 DEF AllAsked, Asked, Selected, Content
<1>3. ASSUME NEW v \in Verbs, \A u \in Verbs \ {v} : pc'[u] = pc[u] /\ task'[u] = task[u],
             \A u \in Verbs \ {v} : job'[u] = job[u], Asked(v)'
      PROVE  AllAsked'
    BY <1>2, <1>3 DEF AllAsked
<1>4. ASSUME NEW v \in Verbs, pc'[v] \notin BuilderSteps \cup LoginPcs PROVE Asked(v)'
    BY <1>4 DEF Asked, SelectedSteps, BuilderSteps
<1>5. ASSUME NEW v \in Verbs, NEW step \in {"ensure", "select", "side"}, NEW t, Call(v, step, t),
             UNCHANGED <<roster, job>>, t.alias => t.select = Everything,
             t.ok = "login" => t.alias /\ t.base = job[v].base
      PROVE  AllAsked'
    <2>1. /\ pc'[v] = step /\ task'[v] = t
          /\ \A u \in Verbs \ {v} : pc'[u] = pc[u] /\ task'[u] = task[u]
        BY <1>5 DEF Call, Goto, Control
    <2>2. Asked(v)'
        BY <1>5, <2>1 DEF Asked, SelectedSteps, LoginPcs
    <2> QED
        BY <1>3, <1>5, <2>1, <2>2
<1>6. ASSUME NEW v \in Verbs, Builder(v) PROVE AllAsked'
    <2>1. /\ pc[v] \in BuilderSteps /\ UNCHANGED <<task, job>>
          /\ \A u \in Verbs \ {v} : pc'[u] = pc[u]
        BY <1>6, BuilderMove DEF Control
    <2>2. ReturnsTo(task[v], ImageReturns) \/ ReturnsTo(task[v], RunReturns)
        BY <2>1 DEF Control, Placed, Returning, BuilderSteps, ImageSteps, EarlySteps, LateSteps,
                    Ended
    <2>3. /\ {task[v].ok, task[v].fail, task[v].back} \cap SelectedSteps = {}
          /\ {task[v].ok, task[v].fail, task[v].back} \cap LoginPcs \subseteq {"login"}
          /\ "login" \notin {task[v].fail, task[v].back}
        BY <2>2 DEF ReturnsTo, ImageReturns, RunReturns, SelectedSteps, LoginPcs
    <2>4. /\ pc'[v] \in SelectedSteps => pc[v] \in SelectedSteps \/ Selected(v) # None
          /\ pc'[v] \in {"buildL0", "buildL1"} =>
                 pc[v] \in {"buildL0", "buildL1"} \/ Content(v) # None
          /\ pc'[v] \in LoginPcs => task[v].ok = "login"
        <3> USE <2>3 DEF Control, Goto, SelectedSteps, LoginPcs
        <3>1. CASE Select(v) \/ LookForL0(v) \/ LookForL1(v) \/ TagImage(v)
            BY <3>1 DEF Select, LookForL0, LookForL1, TagImage
        <3>2. CASE DetectFamily(v) \/ PrepareContext(v) \/ BuildL0(v) \/ BuildL1(v)
            BY <3>2 DEF DetectFamily, PrepareContext, BuildL0, BuildL1
        <3>3. CASE PodmanFails(v) \/ EnsureDefaultL1(v) \/ LookForSidecar(v)
            BY <3>3 DEF PodmanFails, EnsureDefaultL1, LookForSidecar
        <3>4. CASE LookUnderSidecar(v) \/ PrepareSidecar(v) \/ BuildSidecar(v)
            BY <3>4 DEF LookUnderSidecar, PrepareSidecar, BuildSidecar
        <3> QED
            BY <1>6, <3>1, <3>2, <3>3, <3>4 DEF Builder
    <2>5. Asked(v)'
        BY <1>2, <2>1, <2>4
    <2> QED
        BY <1>3, <2>1, <2>5
<1>7. ASSUME NEW v \in Verbs, LoginSteps(v) PROVE AllAsked'
    <2>1. CASE OrphanEnds(v)
        <3>1. UNCHANGED <<pc, task, job>>
            BY <2>1 DEF OrphanEnds
        <3>2. Asked(v)'
            BY <1>2, <3>1
        <3> QED
            BY <1>3, <3>1, <3>2
    <2>2. CASE ~OrphanEnds(v)
        <3>1. /\ pc[v] \in LoginPcs /\ UNCHANGED <<task, job>>
              /\ pc'[v] \in LoginPcs \cup {task[v].back, "failed"}
              /\ \A u \in Verbs \ {v} : pc'[u] = pc[u]
            BY <1>7, <2>2, LoginMove DEF Control
        <3>2. ReturnsTo(task[v], ImageReturns) \/ ReturnsTo(task[v], RunReturns)
            BY <3>1 DEF Control, Placed, Returning, LoginPcs, ImageSteps, EarlySteps, LateSteps,
                        Ended
        <3>3. pc'[v] \notin BuilderSteps
            BY <3>1, <3>2 DEF ReturnsTo, ImageReturns, RunReturns, LoginPcs, BuilderSteps
        <3>4. Asked(v)'
            BY <1>2, <3>1, <3>3 DEF SelectedSteps, BuilderSteps
        <3> QED
            BY <1>3, <3>1, <3>4
    <2> QED
        BY <2>1, <2>2
<1>8. ASSUME NEW v \in Verbs, NEW step, step \notin BuilderSteps \cup LoginPcs, Goto(v, step),
             UNCHANGED <<task, job>>
      PROVE  AllAsked'
    <2>1. pc'[v] = step /\ \A u \in Verbs \ {v} : pc'[u] = pc[u]
        BY <1>8 DEF Goto, Control
    <2> QED
        BY <1>3, <1>4, <1>8, <2>1
<1>9. ASSUME NEW v \in Verbs, Build(v) \/ BuildSidecarToo(v) \/ Setup(v) PROVE AllAsked'
    <2>1. /\ UNCHANGED <<roster, job>>
          /\ \/ \E step \in {"select", "side"} : \E t : Call(v, step, t) /\ ~t.alias /\ t.ok # "login"
             \/ Goto(v, "failed") /\ UNCHANGED task
        BY <1>9 DEF Build, BuildSidecarToo, Setup, BaseTask, SidecarTask
    <2> QED
        BY <1>5, <1>8, <2>1 DEF BuilderSteps, LoginPcs
<1>10. ASSUME NEW v \in Verbs, Announce(v) \/ Uninstall(v) PROVE AllAsked'
    BY <1>8, <1>10 DEF Announce, Uninstall, BuilderSteps, LoginPcs
<1>11. ASSUME NEW v \in Verbs, Auth(v) \/ OfferCredentials(v) PROVE AllAsked'
    <2>1. /\ UNCHANGED <<roster, job>>
          /\ \/ \E t : Call(v, "ensure", t) /\ t.select = Everything /\ t.alias /\ t.base = job[v].base
             \/ \E step \in {"done", "checked"} : Goto(v, step) /\ UNCHANGED task
        BY <1>11 DEF Auth, OfferCredentials, FixCredentials, LoginTask, BaseTask
    <2> QED
        BY <1>5, <1>8, <2>1 DEF BuilderSteps, LoginPcs
<1>12. ASSUME NEW v \in Verbs, CheckImages(v) \/ Resolve(v) PROVE AllAsked'
    <2>1. /\ UNCHANGED <<roster, job>>
          /\ \/ \E step \in {"select", "side"} : \E t : Call(v, step, t) /\ ~t.alias /\ t.ok # "login"
             \/ \E step \in {"credentials", "noImages", "refused"} : Goto(v, step) /\ UNCHANGED task
        <3> DEFINE t1 == BaseTask(job[v], Everything, "no", FALSE, "builtImages", "noImages")
                   t2 == SidecarTask(job[v], job[v].agent, "no", "provision", "refused")
                   t3 == BaseTask(job[v], Everything, "no", FALSE, "provision", "refused")
        <3>1. \A t \in {t1, t2, t3} : ~t.alias /\ t.ok # "login"
            BY DEF BaseTask, SidecarTask
        <3>2. \/ Call(v, "select", t1) \/ Call(v, "side", t2) \/ Call(v, "select", t3)
              \/ \E step \in {"credentials", "noImages", "refused"} : Goto(v, step) /\ UNCHANGED task
            BY <1>12 DEF CheckImages, Resolve
        <3>3. UNCHANGED <<roster, job>>
            BY <1>12 DEF CheckImages, Resolve
        <3> HIDE DEF t1, t2, t3
        <3> QED
            BY <3>1, <3>2, <3>3
    <2> QED
        BY <1>5, <1>8, <2>1 DEF BuilderSteps, LoginPcs
<1>13. ASSUME NEW v \in Verbs, RunStep(v), ~CheckImages(v), ~Resolve(v), ~OfferCredentials(v)
       PROVE  AllAsked'
    <2>1. UNCHANGED <<task, job>> /\ \E step \in EarlySteps \cup LateSteps \cup Ended : Goto(v, step)
        <3> USE DEF EarlySteps, LateSteps, Ended, Unchanged, Steps
        <3>1. CASE SetupVerdict(v) \/ Preflight(v) \/ RequirePodman(v) \/ RequireServices(v)
            BY <3>1 DEF SetupVerdict, Preflight, RequirePodman, RequireServices
        <3>2. CASE RecheckImages(v) \/ NoImages(v) \/ PreflightEnds(v) \/ Provision(v)
            BY <3>2 DEF RecheckImages, NoImages, PreflightEnds, Provision
        <3>3. CASE MakeStateDir(v) \/ Assemble(v) \/ WriteSidecar(v)
            BY <3>3 DEF MakeStateDir, Assemble, WriteSidecar
        <3>4. CASE PodmanRun(v) \/ Attach(v) \/ Follow(v) \/ Wait(v)
            BY <3>4 DEF PodmanRun, Attach, Follow, Wait
        <3> QED
            BY <1>13, <3>1, <3>2, <3>3, <3>4 DEF RunStep
    <2> QED
        BY <1>8, <2>1 DEF EarlySteps, LateSteps, Ended, BuilderSteps, LoginPcs
<1>14. ASSUME NEW v \in Verbs, LifecycleStep(v) \/ Kill(v) PROVE AllAsked'
    <2>1. UNCHANGED <<task, job>> /\ \E step \in {"rmState", "rmDir"} \cup Ended : Goto(v, step)
        BY <1>14 DEF LifecycleStep, Kill, Start, Stop, RemoveContainer, RemoveState, RemoveDir,
                     Unchanged, Ended
    <2> QED
        BY <1>8, <2>1 DEF Ended, BuilderSteps, LoginPcs
<1>15. ASSUME NEW v \in Verbs, SpawnImageVerb(v) \/ Spawn(v) PROVE AllAsked'
    <2>1. /\ UNCHANGED task /\ pc'[v] \in ImageVerbs \cup ContainerVerbs
          /\ \A u \in Verbs \ {v} : pc'[u] = pc[u] /\ job'[u] = job[u]
        BY <1>15, SpawnControl DEF Control
    <2> QED
        BY <1>3, <1>4, <2>1 DEF ImageVerbs, ContainerVerbs, BuilderSteps, LoginPcs
<1>16. ASSUME UNCHANGED vars \/ \E n \in ContainerNames : AgentEnds(n) \/ RemovedOutOfBand(n)
       PROVE  AllAsked'
    <2>1. UNCHANGED imageVars
        BY <1>16, OutsideControl DEF vars
    <2> QED
        BY <2>1 DEF imageVars, AllAsked, Asked, Selected, Content
<1> QED
    BY <1>6, <1>7, <1>9, <1>10, <1>11, <1>12, <1>13, <1>14, <1>15, <1>16 DEF Next, ImageStep

\* Tagging keeps every image complete if what is tagged is complete for its tags.
LEMMA TaggedComplete ==
    ASSUME NothingMissing, UNCHANGED roster, NEW tags, NEW content, Tagged(tags, content),
           \A t \in tags :
               /\ t[1] = "l1" => t[3] \subseteq content
               /\ t[1] = "alias" /\ roster # None => DOMAIN roster.installs \subseteq content
    PROVE  NothingMissing'
<1>1. DOMAIN image' = DOMAIN image \cup tags
    BY DEF Tagged
<1>2. \A t \in DOMAIN image \cup tags : image'[t] = IF t \in tags THEN content ELSE image[t]
    BY DEF Tagged
<1> QED
    BY <1>1, <1>2 DEF NothingMissing, Complete

\* A builder tags no image that misses an agent its tag names.
LEMMA BuilderComplete ==
    ASSUME Control, AllAsked, NothingMissing, NEW v \in Verbs, Builder(v)
    PROVE  NothingMissing'
<1>1. UNCHANGED roster
    BY BuilderMove
<1>2. CASE TagImage(v)
    <2>1. /\ pc[v] = "tag" /\ Target(v) \in DOMAIN image
          /\ Tagged(ExtraTags(v), image[Target(v)])
        BY <1>2 DEF TagImage, Exists
    <2>2. Selected(v) # None /\ (task[v].alias => task[v].select = Everything)
        BY <2>1 DEF AllAsked, Asked, SelectedSteps, BuilderSteps
    <2>3. Target(v)[1] = "l1" /\ Target(v)[3] = Selected(v)
        BY DEF Target, L1Tag
    <2>4. Selected(v) \subseteq image[Target(v)]
        BY <2>1, <2>3 DEF NothingMissing, Complete
    <2>5. roster # None /\ task[v].alias => Selected(v) = DOMAIN roster.installs
        BY <2>2, EverythingResolves DEF Selected
    <2>6. \A t \in ExtraTags(v) : t[1] = "alias" /\ task[v].alias
        BY DEF ExtraTags, AliasTag
    <2> QED
        BY <1>1, <2>1, <2>4, <2>5, <2>6, TaggedComplete
<1>3. CASE BuildL1(v)
    <2>1. /\ pc[v] = "buildL1"
          /\ Tagged({Target(v)} \cup ExtraTags(v), Content(v))
        BY <1>3 DEF BuildL1
    <2>2. Target(v)[1] = "l1" /\ Target(v)[3] = Selected(v)
        BY DEF Target, L1Tag
    <2>3. \A t \in ExtraTags(v) : t[1] = "alias" /\ task[v].alias
        BY DEF ExtraTags, AliasTag
    <2>4. \A t \in {Target(v)} \cup ExtraTags(v) :
             /\ t[1] = "l1" => t[3] \subseteq Content(v)
             /\ t[1] = "alias" /\ roster # None => DOMAIN roster.installs \subseteq Content(v)
        BY <2>1, <2>2, <2>3, ContentComplete
    <2> QED
        BY <1>1, <2>1, <2>4, TaggedComplete
<1>4. CASE BuildL0(v)
    <2>1. Tagged({L0Tag(task[v].base)}, {}) /\ L0Tag(task[v].base)[1] = "l0"
        BY <1>4 DEF BuildL0, L0Tag
    <2> QED
        BY <1>1, <2>1, TaggedComplete
<1>5. CASE BuildSidecar(v)
    <2>1. Tagged({SidecarTag(task[v].base)}, SidecarContent(v)) /\ SidecarTag(task[v].base)[1] = "sidecar"
        BY <1>5 DEF BuildSidecar, SidecarTag
    <2> QED
        BY <1>1, <2>1, TaggedComplete
<1>6. UNCHANGED image => NothingMissing'
    BY <1>1 DEF NothingMissing
<1>7. CASE Select(v) \/ LookForL0(v) \/ LookForL1(v) \/ DetectFamily(v) \/ PrepareContext(v)
    BY <1>6, <1>7 DEF Select, LookForL0, LookForL1, DetectFamily, PrepareContext, Unchanged
<1>8. CASE PodmanFails(v) \/ EnsureDefaultL1(v) \/ LookForSidecar(v) \/ LookUnderSidecar(v)
           \/ PrepareSidecar(v)
    BY <1>6, <1>8 DEF PodmanFails, EnsureDefaultL1, LookForSidecar, LookUnderSidecar,
                     PrepareSidecar, Unchanged
<1> QED
    BY <1>2, <1>3, <1>4, <1>5, <1>7, <1>8 DEF Builder

\* Beside the builder only uninstall touches the images, and it only removes some.
LEMMA OthersKeepImages ==
    ASSUME Control, [Next]_vars, ~\E v \in Verbs : Builder(v)
    PROVE  \/ UNCHANGED image
           \/ \E v \in Verbs : Uninstall(v)
<1>1. ASSUME NEW v \in Verbs, ImageStep(v), ~Uninstall(v) PROVE UNCHANGED image
    <2>1. CASE LoginSteps(v)
        BY <2>1, LoginMove DEF OrphanEnds
    <2>2. CASE SpawnImageVerb(v)
        BY <2>2, SpawnControl
    <2>3. CASE Build(v) \/ BuildSidecarToo(v) \/ Setup(v) \/ Announce(v) \/ Auth(v)
        BY <2>3 DEF Build, BuildSidecarToo, Setup, Announce, Auth
    <2> QED
        BY <1>1, <2>1, <2>2, <2>3 DEF ImageStep
<1>2. ASSUME NEW v \in Verbs, Spawn(v) \/ RunStep(v) \/ LifecycleStep(v) \/ Kill(v)
      PROVE  UNCHANGED image
    BY <1>2, SpawnControl, RunControl, LifecycleControl
<1>3. ASSUME UNCHANGED vars \/ \E n \in ContainerNames : AgentEnds(n) \/ RemovedOutOfBand(n)
      PROVE  UNCHANGED image
    BY <1>3, OutsideControl DEF vars, imageVars
<1> QED
    BY <1>1, <1>2, <1>3 DEF Next

ImagesHold == Control /\ AllAsked /\ NothingMissing

\* Every step keeps the images complete.
LEMMA ImagesHoldStep == ImagesHold /\ [Next]_vars => ImagesHold'
<1> SUFFICES ASSUME Control, AllAsked, NothingMissing, [Next]_vars
             PROVE  ImagesHold'
    BY DEF ImagesHold
<1>1. Control' /\ UNCHANGED roster /\ AllAsked'
    BY StepControl, AskedStep
<1>2. NothingMissing'
    <2>1. CASE \E v \in Verbs : Builder(v)
        BY <2>1, BuilderComplete
    <2>2. CASE UNCHANGED image
        BY <1>1, <2>2 DEF NothingMissing
    <2>3. ASSUME NEW v \in Verbs, Uninstall(v) PROVE NothingMissing'
        <3>1. DOMAIN image' \subseteq DOMAIN image /\ \A t \in DOMAIN image' : image'[t] = image[t]
            BY <2>3 DEF Uninstall
        <3> QED
            BY <1>1, <3>1 DEF NothingMissing, Complete
    <2> QED
        BY <2>1, <2>2, <2>3, OthersKeepImages
<1> QED
    BY <1>1, <1>2 DEF ImagesHold

\* They are complete at the beginning.
LEMMA InitImages == Init => ImagesHold
<1> SUFFICES ASSUME Init PROVE ImagesHold
    OBVIOUS
<1>1. \A v \in Verbs : pc[v] = "idle"
    BY DEF Init, ImagesInit
<1>2. AllAsked
    BY <1>1 DEF AllAsked, Asked, SelectedSteps, BuilderSteps, LoginPcs
<1>3. NothingMissing
    BY BuiltAssumption DEF Init, ImagesInit, NothingMissing
<1> QED
    BY <1>2, <1>3, InitControl DEF ImagesHold

\* Spec => []NothingMissing: an image holds every agent its tag names, and the alias
\* all there are, for any files and selections, in any interleaving.
THEOREM ImagesMissNothing == Spec => []NothingMissing
<1>1. ImagesHold => NothingMissing
    BY DEF ImagesHold
<1> QED
    BY <1>1, InitImages, ImagesHoldStep, PTL DEF Spec

\* Spec => []ExposedReachable: whatever the files of the host say, an exposed agent is
\* denied no host of its provider that no other provider is behind.
THEOREM ExposedReach == Spec => []ExposedReachable
<1>1. ExposedReachable
    BY DEF ExposedReachable, DenyToVault, ExposedProviders
<1> QED
    BY <1>1, PTL

-----------------------------------------------------------------------------
(* Selections.  Closure goes round as often as there are entries: each round *)
(* but the last ones finds an entry, so that in the end none is left out.    *)

\* f[k] is what k rounds of Closure find.
Rounds(installs, seed, n, f) ==
    f = [k \in 0 .. n |->
            IF k = 0 THEN {}
            ELSE LET known == seed \cup f[k - 1]
                 IN  known \cup UNION {installs[m] : m \in known \cap DOMAIN installs}]

\* One more round.
Found(installs, known) == known \cup UNION {installs[m] : m \in known \cap DOMAIN installs}

\* Such a function exists, so a CHOOSE of one is one.
LEMMA RoundsExist ==
    ASSUME NEW installs, NEW seed, NEW n \in Nat
    PROVE  \E f : Rounds(installs, seed, n, f)
<1> DEFINE S == {k \in Nat : \E f : Rounds(installs, seed, k, f)}
<1>1. 0 \in S
    <2> DEFINE f == [k \in 0 .. 0 |-> {}]
    <2>1. Rounds(installs, seed, 0, f)
        BY DEF Rounds
    <2> QED
        BY <2>1
<1>2. ASSUME NEW k \in Nat, k \in S PROVE k + 1 \in S
    <2>1. PICK f : Rounds(installs, seed, k, f)
        BY <1>2
    <2> DEFINE g == [i \in 0 .. (k + 1) |->
                       IF i = k + 1 THEN Found(installs, seed \cup f[k]) ELSE f[i]]
    <2>2. \A i \in 0 .. (k + 1) :
             g[i] = IF i = 0 THEN {} ELSE Found(installs, seed \cup g[i - 1])
        <3> TAKE i \in 0 .. (k + 1)
        <3>1. CASE i = k + 1
            <4>1. k \in 0 .. (k + 1) /\ k # k + 1 /\ i - 1 = k /\ i # 0
                BY <3>1
            <4>2. g[k] = f[k] /\ g[i] = Found(installs, seed \cup f[k])
                BY <3>1, <4>1
            <4> QED
                BY <4>1, <4>2
        <3>2. CASE i \in 0 .. k
            <4>1. f[i] = IF i = 0 THEN {} ELSE Found(installs, seed \cup f[i - 1])
                BY <2>1, <3>2 DEF Rounds, Found
            <4>2. i # 0 => i - 1 \in 0 .. (k + 1) /\ i - 1 # k + 1
                BY <3>2
            <4>3. g[i] = f[i] /\ (i # 0 => g[i - 1] = f[i - 1])
                BY <3>2, <4>2
            <4> QED
                BY <4>1, <4>3
        <3> QED
            BY <3>1, <3>2
    <2> HIDE DEF g
    <2>3. g = [i \in 0 .. (k + 1) |->
                 IF i = 0 THEN {} ELSE Found(installs, seed \cup g[i - 1])]
        <3>1. g = [i \in 0 .. (k + 1) |-> g[i]]
            BY DEF g
        <3> QED
            BY <2>2, <3>1
    <2>4. Rounds(installs, seed, k + 1, g)
        BY <2>3 DEF Rounds, Found
    <2> QED
        BY <2>4
<1> HIDE DEF S
<1>3. Nat \subseteq S
    BY <1>1, <1>2, SetInduction
<1> QED
    BY <1>3 DEF S

\* Closure is what its last round knows.
LEMMA ClosureRounds ==
    ASSUME NEW installs, NEW seed, Cardinality(DOMAIN installs) \in Nat
    PROVE  \E f : /\ Rounds(installs, seed, Cardinality(DOMAIN installs), f)
                  /\ Closure(installs, seed) = seed \cup f[Cardinality(DOMAIN installs)]
<1> DEFINE n == Cardinality(DOMAIN installs)
           found == CHOOSE f : f = [k \in 0 .. n |->
                        IF k = 0 THEN {}
                        ELSE LET known == seed \cup f[k - 1]
                             IN  known \cup UNION {installs[m] : m \in known \cap DOMAIN installs}]
<1>1. \E f : Rounds(installs, seed, n, f)
    BY RoundsExist
<1>2. \E f : f = [k \in 0 .. n |->
                    IF k = 0 THEN {}
                    ELSE LET known == seed \cup f[k - 1]
                         IN  known \cup UNION {installs[m] : m \in known \cap DOMAIN installs}]
    BY <1>1 DEF Rounds
<1>3. found = [k \in 0 .. n |->
                    IF k = 0 THEN {}
                    ELSE LET known == seed \cup found[k - 1]
                         IN  known \cup UNION {installs[m] : m \in known \cap DOMAIN installs}]
    BY <1>2, Zenon
<1>4. Closure(installs, seed) = seed \cup found[n]
    BY DEF Closure
<1>5. Rounds(installs, seed, n, found)
    BY <1>3 DEF Rounds
<1> QED
    BY <1>4, <1>5

\* Everything that a name in S depends on is in S.
Followed(installs, S) == \A n \in S : installs[n] \subseteq S

\* The rounds suffice: each but the last finds something, or nothing is left to find.
LEMMA ClosureLeast ==
    ASSUME NEW installs, IsFiniteSet(DOMAIN installs), NEW seed,
           Closure(installs, seed) \subseteq DOMAIN installs
    PROVE  /\ seed \subseteq Closure(installs, seed)
           /\ Followed(installs, Closure(installs, seed))
           /\ \A S \in SUBSET DOMAIN installs :
                 seed \subseteq S /\ Followed(installs, S) => Closure(installs, seed) \subseteq S
<1> DEFINE N == Cardinality(DOMAIN installs)
           C == Closure(installs, seed)
<1> HIDE DEF N, C
<1>1. N \in Nat
    BY FS_CardinalityType DEF N
<1>2. PICK f : Rounds(installs, seed, N, f) /\ C = seed \cup f[N]
    <2>1. \E f : /\ Rounds(installs, seed, Cardinality(DOMAIN installs), f)
                 /\ Closure(installs, seed) = seed \cup f[Cardinality(DOMAIN installs)]
        <3>1. Cardinality(DOMAIN installs) \in Nat
            BY FS_CardinalityType
        <3> QED
            BY <3>1, ClosureRounds
    <2> QED
        BY <2>1 DEF N, C
<1> DEFINE K(k) == seed \cup f[k]
<1>3. /\ K(0) = seed
      /\ \A k \in 0 .. N - 1 : K(k + 1) = Found(installs, K(k))
    <2>1. \A k \in 0 .. N : f[k] = IF k = 0 THEN {} ELSE Found(installs, seed \cup f[k - 1])
        BY <1>2 DEF Rounds, Found
    <2>2. f[0] = {}
        <3>1. 0 \in 0 .. N
            BY <1>1
        <3> HIDE DEF K
        <3> QED
            BY <2>1, <3>1
    <2>3. ASSUME NEW k \in 0 .. N - 1 PROVE K(k + 1) = Found(installs, K(k))
        <3>1. k + 1 \in 0 .. N /\ k + 1 # 0 /\ (k + 1) - 1 = k
            BY <1>1
        <3>2. f[k + 1] = Found(installs, K(k))
            BY <2>1, <3>1
        <3> QED
            BY <3>2 DEF Found
    <2> QED
        BY <2>2, <2>3
<1>4. C = K(N)
    BY <1>2
<1> HIDE DEF K
<1>5. \A k \in 0 .. N - 1 : K(k) \subseteq K(k + 1)
    BY <1>3 DEF Found
<1>6. \A k \in 0 .. N : K(k) \subseteq C
    <2> DEFINE T == {k \in Nat : k \in 0 .. N => K(N - k) \subseteq C}
    <2>1. 0 \in T
        BY <1>1, <1>4
    <2>2. ASSUME NEW k \in Nat, k \in T PROVE k + 1 \in T
        <3> SUFFICES ASSUME k + 1 \in 0 .. N PROVE K(N - (k + 1)) \subseteq C
            OBVIOUS
        <3>1. k \in 0 .. N /\ N - (k + 1) \in 0 .. N - 1 /\ (N - (k + 1)) + 1 = N - k
            BY <1>1
        <3> QED
            BY <1>5, <2>2, <3>1
    <2> HIDE DEF T
    <2>3. Nat \subseteq T
        BY <2>1, <2>2, SetInduction
    <2>4. ASSUME NEW k \in 0 .. N PROVE K(k) \subseteq C
        <3>1. N - k \in Nat /\ N - k \in 0 .. N /\ N - (N - k) = k
            BY <1>1
        <3> QED
            BY <2>3, <3>1 DEF T
    <2> QED
        BY <2>4
<1>7. \A k \in 0 .. N : K(k) \subseteq DOMAIN installs /\ IsFiniteSet(K(k)) /\ Cardinality(K(k)) \in Nat
    <2> TAKE k \in 0 .. N
    <2>1. K(k) \in SUBSET DOMAIN installs
        BY <1>6 DEF C
    <2>2. IsFiniteSet(K(k))
        BY <2>1, FS_Subset
    <2> QED
        BY <2>1, <2>2, FS_CardinalityType
\* A round that finds nothing is the last to find anything.
<1>8. Followed(installs, C)
    <2> DEFINE Done(k) == Followed(installs, K(k)) \/ k + 1 <= Cardinality(K(k))
               T == {k \in Nat : k \in 0 .. N => Done(k)}
    <2>1. 0 \in T
        <3>1. CASE K(0) = {}
            BY <3>1 DEF Followed
        <3>2. CASE K(0) # {}
            <4>1. 0 \in 0 .. N
                BY <1>1
            <4>2. IsFiniteSet(K(0)) /\ {} \in SUBSET K(0) /\ {} # K(0)
                BY <1>7, <3>2, <4>1
            <4>3. Cardinality({}) \in Nat /\ Cardinality(K(0)) \in Nat /\ Cardinality({}) < Cardinality(K(0))
                BY <4>2, SmallerSubset
            <4> QED
                BY <4>3
        <3> QED
            BY <3>1, <3>2
    <2>2. ASSUME NEW k \in Nat, k \in T PROVE k + 1 \in T
        <3> SUFFICES ASSUME k + 1 \in 0 .. N PROVE Done(k + 1)
            OBVIOUS
        <3>1. k \in 0 .. N /\ k \in 0 .. N - 1
            BY <1>1
        <3>2. Done(k)
            BY <2>2, <3>1
        <3>3. K(k + 1) = Found(installs, K(k)) /\ K(k) \subseteq K(k + 1)
            BY <1>3, <1>5, <3>1
        <3>4. CASE K(k + 1) = K(k)
            <4>1. Followed(installs, K(k))
                BY <1>7, <3>1, <3>3, <3>4 DEF Found, Followed
            <4> QED
                BY <3>4, <4>1
        <3>5. CASE K(k + 1) # K(k)
            <4>1. ~Followed(installs, K(k))
                BY <3>3, <3>5 DEF Found, Followed
            <4>2. k + 1 <= Cardinality(K(k))
                BY <3>2, <4>1
            <4>3. IsFiniteSet(K(k + 1)) /\ K(k) \in SUBSET K(k + 1) /\ K(k) # K(k + 1)
                BY <1>7, <3>3, <3>5
            <4>4. Cardinality(K(k)) \in Nat /\ Cardinality(K(k + 1)) \in Nat
                  /\ Cardinality(K(k)) < Cardinality(K(k + 1))
                BY <4>3, SmallerSubset
            <4> QED
                BY <4>2, <4>4
        <3> QED
            BY <3>4, <3>5
    <2> HIDE DEF T
    <2>3. Nat \subseteq T
        BY <2>1, <2>2, SetInduction
    <2>4. Done(N)
        BY <1>1, <2>3 DEF T
    <2>5. Cardinality(K(N)) <= N
        <3>1. K(N) \in SUBSET DOMAIN installs
            BY <1>1, <1>7
        <3> QED
            BY <3>1, FS_Subset DEF N
    <2>6. Cardinality(K(N)) \in Nat
        BY <1>1, <1>7
    <2>7. Followed(installs, K(N))
        BY <1>1, <2>4, <2>5, <2>6
    <2> QED
        BY <1>4, <2>7
<1>9. ASSUME NEW S \in SUBSET DOMAIN installs, seed \subseteq S, Followed(installs, S)
      PROVE  C \subseteq S
    <2> DEFINE T == {k \in Nat : k \in 0 .. N => K(k) \subseteq S}
    <2>1. 0 \in T
        BY <1>3, <1>9
    <2>2. ASSUME NEW k \in Nat, k \in T PROVE k + 1 \in T
        <3> SUFFICES ASSUME k + 1 \in 0 .. N PROVE K(k + 1) \subseteq S
            OBVIOUS
        <3>1. k \in 0 .. N /\ k \in 0 .. N - 1
            BY <1>1
        <3>2. K(k) \subseteq S /\ K(k + 1) = Found(installs, K(k))
            BY <1>3, <2>2, <3>1
        <3> QED
            BY <1>9, <3>2 DEF Found, Followed
    <2> HIDE DEF T
    <2>3. Nat \subseteq T
        BY <2>1, <2>2, SetInduction
    <2>4. K(N) \subseteq S
        BY <1>1, <2>3 DEF T
    <2> QED
        BY <1>4, <2>4
<1>10. seed \subseteq C
    BY <1>4 DEF K
<1> QED
    BY <1>8, <1>9, <1>10 DEF C

-----------------------------------------------------------------------------
(* What the files of the host amount to, whatever they say.                  *)

\* The roster is that of the host's files throughout.
FilesRead == regime \in Regimes /\ roster = LoadRoster(regime.raw)

LEMMA ReadOnce == Control /\ FilesRead /\ [Next]_vars => FilesRead'
BY StepControl DEF FilesRead

LEMMA AlwaysRead == Spec => []FilesRead
<1>1. Init => FilesRead
    BY DEF Init, ImagesInit, FilesRead
<1> QED
    BY <1>1, ReadOnce, Controlled, PTL DEF Spec

\* Layers of files are named as the files are.
LEMMA LayeredNames ==
    ASSUME NEW lower, NEW upper
    PROVE  DOMAIN Layered(lower, upper) \subseteq DOMAIN lower \cup DOMAIN upper
BY DEF Layered, Readable

\* What can be installed is an entry of some file, of which there are finitely many.
LEMMA InstallsFinite ==
    ASSUME NEW raw, Directories(raw), NEW ros, ros = LoadRoster(raw), ros # None
    PROVE  IsFiniteSet(DOMAIN ros.installs)
<1> DEFINE agents    == Parsed(AgentFiles(raw), AgentFields)
           files     == Parsed(ProviderFiles(raw), ProviderFields)
           providers == [p \in DOMAIN files |->
                            [files[p] EXCEPT !.oauth = ModeOf(@), !.key = ModeOf(@)]]
<1>1. ros = Join(agents, providers)
    BY DEF LoadRoster
<1>2. DOMAIN ros.installs \subseteq DOMAIN agents \cup DOMAIN providers
    <2> HIDE DEF agents, providers
    <2> QED
        BY <1>1 DEF Join
<1>3. DOMAIN agents \cup DOMAIN providers \subseteq ToSet(Sorted)
    <2>1. DOMAIN agents = DOMAIN AgentFiles(raw) /\ DOMAIN providers = DOMAIN ProviderFiles(raw)
        BY DEF Parsed
    <2>2. /\ DOMAIN raw.agents \subseteq ToSet(Sorted)
          /\ DOMAIN raw.userAgents \subseteq ToSet(Sorted)
          /\ DOMAIN raw.providers \subseteq ToSet(Sorted)
          /\ DOMAIN raw.legacyProviders \subseteq ToSet(Sorted)
          /\ DOMAIN raw.userProviders \subseteq ToSet(Sorted)
        BY DEF Directories, Layers
    <2>3. \A dir : DOMAIN Readable(dir) \subseteq DOMAIN dir
        BY DEF Readable
    <2> QED
        BY <2>1, <2>2, <2>3, LayeredNames DEF AgentFiles, ProviderFiles
<1>4. IsFiniteSet(ToSet(Sorted))
    <2> DEFINE P == 1 .. Len(Sorted)
    <2>1. Len(Sorted) \in Nat /\ DOMAIN Sorted = P
        BY SortedAssumption
    <2>2. IsFiniteSet(P)
        BY <2>1, FS_Interval
    <2>3. Sorted \in Surjection(P, ToSet(Sorted))
        <3>1. Sorted \in [P -> ToSet(Sorted)]
            BY SortedAssumption
        <3>2. \A x \in ToSet(Sorted) : \E i \in P : Sorted[i] = x
            BY <2>1 DEF ToSet
        <3> QED
            BY <3>1, <3>2 DEF Surjection
    <2> QED
        BY <2>2, <2>3, FS_Surjection
<1>5. DOMAIN ros.installs \in SUBSET ToSet(Sorted)
    BY <1>2, <1>3
<1> QED
    BY <1>4, <1>5, FS_Subset

\* A selection, once resolved, is the least closed set.
LEMMA ResolvedLeast ==
    ASSUME NEW ros, IsFiniteSet(DOMAIN ros.installs), NEW sel, ~sel.literal,
           ResolveSelection(ros, sel) # None
    PROVE  LET seed == IF sel.includes \subseteq {All} \/ All \in sel.includes
                       THEN DOMAIN ros.installs ELSE sel.includes
               closed == {S \in SUBSET DOMAIN ros.installs :
                             seed \subseteq S /\ Followed(ros.installs, S)}
           IN  /\ closed # {}
               /\ ResolveSelection(ros, sel) =
                     {n \in seed \cup UNION closed :
                         n \notin sel.excludes /\ \A S \in closed : n \in S}
<1> DEFINE installs == ros.installs
           seed == IF sel.includes \subseteq {All} \/ All \in sel.includes
                   THEN DOMAIN installs ELSE sel.includes
           all == Closure(installs, seed)
           closed == {S \in SUBSET DOMAIN installs : seed \subseteq S /\ Followed(installs, S)}
<1>1. seed = IF All \in sel.includes \/ sel.includes = {}
             THEN DOMAIN installs ELSE sel.includes \ {All}
    OBVIOUS
<1>2. all \subseteq DOMAIN installs /\ ResolveSelection(ros, sel) = all \ sel.excludes
    <2> HIDE DEF seed
    <2> QED
        BY <1>1 DEF ResolveSelection
<1> HIDE DEF seed, installs, all, closed
<1>3. /\ seed \subseteq all /\ Followed(installs, all)
      /\ \A S \in SUBSET DOMAIN installs : seed \subseteq S /\ Followed(installs, S) => all \subseteq S
    <2>1. IsFiniteSet(DOMAIN installs) /\ Closure(installs, seed) \subseteq DOMAIN installs
        BY <1>2 DEF installs, all
    <2> QED
        BY <2>1, ClosureLeast DEF all
<1>4. all \in closed /\ \A S \in closed : all \subseteq S
    BY <1>2, <1>3 DEF closed
<1>5. closed # {} /\ all \ sel.excludes =
         {n \in seed \cup UNION closed : n \notin sel.excludes /\ \A S \in closed : n \in S}
    BY <1>4
<1> QED
    BY <1>2, <1>5 DEF seed, closed, installs

\* Spec => []SelectionClosed: whatever the files of the host say, a selection that
\* resolves holds all its entries depend on, at any depth, and nothing else.
THEOREM SelectionsClosed == Spec => []SelectionClosed
<1>1. ASSUME FilesRead PROVE SelectionClosed
    <2> SUFFICES ASSUME AtRest, NEW sel \in Picks,
                        ResolveSelection(roster, sel) # None, ~sel.literal
                 PROVE  LET seed == IF sel.includes \subseteq {All} \/ All \in sel.includes
                                    THEN DOMAIN roster.installs ELSE sel.includes
                            closed == {S \in SUBSET DOMAIN roster.installs :
                                          seed \subseteq S /\ ClosedOver(S)}
                        IN  /\ closed # {}
                            /\ ResolveSelection(roster, sel) =
                                  {n \in seed \cup UNION closed :
                                      n \notin sel.excludes /\ \A S \in closed : n \in S}
        BY DEF SelectionClosed
    <2>1. Directories(regime.raw)
        BY <1>1, FilesAssumption DEF FilesRead
    <2>2. IsFiniteSet(DOMAIN roster.installs)
        BY <1>1, <2>1, InstallsFinite DEF FilesRead, AtRest
    <2>3. \A S : ClosedOver(S) <=> Followed(roster.installs, S)
        BY DEF ClosedOver, Followed
    <2> QED
        BY <2>2, <2>3, ResolvedLeast
<1> QED
    BY <1>1, AlwaysRead, PTL

-----------------------------------------------------------------------------
(* Shared directories.  The claims are laid out agent by agent, the login of *)
(* each before what it mounts besides.                                       *)

\* An agent's directories are a sequence, whichever layers its file has.
LEMMA MountsTyped ==
    ASSUME NEW raw, Directories(raw), NEW n \in DOMAIN AgentFiles(raw)
    PROVE  LET m == Parsed(AgentFiles(raw), AgentFields)[n].mounts IN m \in Seq(ToSet(m))
<1> DEFINE base == Readable(raw.agents)
           above == Readable(raw.userAgents)
           file == AgentFiles(raw)[n]
           Listed(f) == "mounts" \in DOMAIN f => f.mounts \in Seq(ToSet(f.mounts))
<1>1. /\ \A m \in DOMAIN base : Listed(base[m])
      /\ \A m \in DOMAIN above : Listed(above[m])
    BY DEF Directories, Layers, Readable
<1>2. file = IF n \in DOMAIN base \cap DOMAIN above THEN Merged(base[n], above[n])
             ELSE IF n \in DOMAIN above THEN above[n] ELSE base[n]
    BY DEF AgentFiles, Layered
<1>3. n \in DOMAIN base \cup DOMAIN above
    BY DEF AgentFiles, Layered
<1> HIDE DEF base, above, file
<1>4. \A lower, upper : Listed(lower) /\ Listed(upper) => Listed(Merged(lower, upper))
    <2> SUFFICES ASSUME NEW lower, NEW upper, Listed(lower), Listed(upper),
                        "mounts" \in DOMAIN Merged(lower, upper)
                 PROVE  LET m == Merged(lower, upper).mounts IN m \in Seq(ToSet(m))
        OBVIOUS
    <2>1. /\ "mounts" \in DOMAIN lower \cup DOMAIN upper
          /\ Merged(lower, upper).mounts = Over(lower, upper).mounts
        BY DEF Merged, Over
    <2>2. Over(lower, upper).mounts = IF "mounts" \in DOMAIN upper THEN upper.mounts ELSE lower.mounts
        BY <2>1 DEF Over
    <2> QED
        BY <2>1, <2>2
<1>5. Listed(file)
    <2> HIDE DEF Listed
    <2> QED
        BY <1>1, <1>2, <1>3, <1>4
<1>6. Parsed(AgentFiles(raw), AgentFields)[n] = Over(AgentFields, file)
    BY DEF Parsed, file
<1>7. "mounts" \in DOMAIN AgentFields /\ AgentFields.mounts = <<>>
    BY DEF AgentFields, BindingFields, AuthFields, MountFields, InstallFields, SidecarFields, Over
<1>8. Over(AgentFields, file).mounts = IF "mounts" \in DOMAIN file THEN file.mounts ELSE <<>>
    BY <1>7 DEF Over
<1>9. <<>> \in Seq(ToSet(<<>>))
    OBVIOUS
<1> QED
    BY <1>5, <1>6, <1>8, <1>9

\* The dir of a claim is one the agent's file names, and the login comes first.
LEMMA ClaimsTyped ==
    ASSUME NEW agents, NEW n, agents[n].mounts \in Seq(ToSet(agents[n].mounts))
    PROVE  /\ ClaimsOf(agents, n) \in Seq(ToSet(ClaimsOf(agents, n)))
           /\ \A k \in 1 .. Len(ClaimsOf(agents, n)) :
                 ClaimsOf(agents, n)[k].dir \in {agents[n].auth} \cup ToSet(agents[n].mounts)
           /\ agents[n].auth = None =>
                 \A k \in 1 .. Len(ClaimsOf(agents, n)) :
                     ClaimsOf(agents, n)[k].dir \in ToSet(agents[n].mounts)
           /\ agents[n].auth # None =>
                 /\ 1 \in 1 .. Len(ClaimsOf(agents, n))
                 /\ ClaimsOf(agents, n)[1] =
                       Claim(agents[n].auth, agents[n].cred, n, agents[n].writable)
<1> DEFINE mounts == agents[n].mounts
           own == [i \in DOMAIN mounts |-> Claim(mounts[i], FALSE, None, FALSE)]
           Q == {Claim(d, FALSE, None, FALSE) : d \in ToSet(mounts)}
           first == Claim(agents[n].auth, agents[n].cred, n, agents[n].writable)
<1>1. Len(mounts) \in Nat /\ DOMAIN mounts = 1 .. Len(mounts)
      /\ \A i \in DOMAIN mounts : mounts[i] \in ToSet(mounts)
    BY DEF ToSet
<1>2. own \in Seq(Q) /\ Len(own) = Len(mounts)
    <2>1. \A i \in 1 .. Len(mounts) : own[i] \in Q
        BY <1>1
    <2>2. own = [i \in 1 .. Len(mounts) |-> own[i]]
        BY <1>1
    <2> HIDE DEF own, Q
    <2>3. Len(mounts) \in Nat /\ own \in [1 .. Len(mounts) -> Q]
        BY <1>1, <2>1, <2>2
    <2> QED
        BY <2>3
<1>3. \A i \in 1 .. Len(own) : own[i].dir \in ToSet(mounts)
    BY <1>1, <1>2 DEF Claim
<1> HIDE DEF own, Q, first, mounts
<1>4. CASE agents[n].auth = None
    <2>1. ClaimsOf(agents, n) = own
        BY <1>4 DEF ClaimsOf, own, mounts
    <2>2. own \in Seq(ToSet(own))
        <3>1. \A i \in 1 .. Len(own) : own[i] \in ToSet(own)
            BY <1>2 DEF ToSet
        <3> QED
            BY <1>2, <3>1
    <2> QED
        BY <1>3, <1>4, <2>1, <2>2 DEF mounts
<1>5. CASE agents[n].auth # None
    <2>1. ClaimsOf(agents, n) = <<first>> \o own
        BY <1>5 DEF ClaimsOf, own, first, mounts
    <2> DEFINE all == <<first>> \o own
    <2>2. /\ all \in Seq({first} \cup Q) /\ Len(all) = 1 + Len(own) /\ Len(own) \in Nat
          /\ all[1] = first /\ \A k \in 1 .. Len(own) : all[1 + k] = own[k]
        <3>1. <<first>> \in Seq({first} \cup Q) /\ own \in Seq({first} \cup Q)
            BY <1>2
        <3>2. Len(<<first>>) = 1 /\ <<first>>[1] = first
            OBVIOUS
        <3> QED
            BY <3>1, <3>2, AppendPiece
    <2> HIDE DEF all
    <2>3. \A k \in 1 .. Len(all) : k = 1 \/ \E i \in 1 .. Len(own) : k = 1 + i
        <3> TAKE k \in 1 .. Len(all)
        <3>1. k = 1 \/ (k - 1 \in 1 .. Len(own) /\ k = 1 + (k - 1))
            BY <2>2
        <3> QED
            BY <3>1
    <2>4. first.dir = agents[n].auth
        BY DEF first, Claim
    <2>5. \A k \in 1 .. Len(all) : all[k].dir \in {agents[n].auth} \cup ToSet(mounts)
        BY <1>3, <2>2, <2>3, <2>4
    <2>6. all \in Seq(ToSet(all))
        <3>1. \A i \in 1 .. Len(all) : all[i] \in ToSet(all)
            BY <2>2 DEF ToSet
        <3> QED
            BY <2>2, <3>1
    <2> QED
        BY <1>5, <2>1, <2>2, <2>5, <2>6 DEF all, mounts, first
<1> QED
    BY <1>4, <1>5

\* Every agent's directories are a sequence; no agent that comes earlier claims the
\* one n logs in to.
MountsListed(agents) ==
    \A m \in DOMAIN agents : agents[m].mounts \in Seq(ToSet(agents[m].mounts))
NobodyBefore(agents, n) ==
    \A i, j \in DOMAIN Sorted :
        i < j /\ Sorted[j] = n /\ Sorted[i] \in DOMAIN agents =>
            /\ agents[Sorted[i]].auth # agents[n].auth
            /\ agents[n].auth \notin ToSet(agents[Sorted[i]].mounts)

\* The directory an agent logs in to, when nobody before it claims it, is that of its
\* login.
LEMMA LoginClaimsFirst ==
    ASSUME NEW agents, NEW harnessed, NEW n \in DOMAIN agents, n \in ToSet(Sorted),
           MountsListed(agents), agents[n].auth # None, NobodyBefore(agents, n)
    PROVE  Claim(agents[n].auth, agents[n].cred, n, agents[n].writable)
              \in FirstClaims(agents, harnessed)
<1> DEFINE first == Claim(agents[n].auth, agents[n].cred, n, agents[n].writable)
           ofAgent(m)    == IF m \in DOMAIN agents THEN ClaimsOf(agents, m) ELSE <<>>
           ofProvider(p) == IF p \in harnessed THEN <<Claim(ConfigDir(p), TRUE, p, FALSE)>>
                            ELSE <<>>
           A == [i \in DOMAIN Sorted |-> ofAgent(Sorted[i])]
           P == [i \in DOMAIN Sorted |-> ofProvider(Sorted[i])]
           S == UNION ({ToSet(A[i]) : i \in DOMAIN Sorted} \cup {ToSet(P[i]) : i \in DOMAIN Sorted})
           claims == FlattenSeq(A) \o FlattenSeq(P)
<1>1. Len(Sorted) \in Nat /\ DOMAIN Sorted = 1 .. Len(Sorted)
    BY SortedAssumption
<1>2. \A m : ofAgent(m) \in Seq(ToSet(ofAgent(m)))
    <2> TAKE m
    <2>1. CASE m \in DOMAIN agents
        <3>1. ClaimsOf(agents, m) \in Seq(ToSet(ClaimsOf(agents, m)))
            BY <2>1, ClaimsTyped DEF MountsListed
        <3> QED
            BY <2>1, <3>1
    <2>2. CASE m \notin DOMAIN agents
        BY <2>2
    <2> QED
        BY <2>1, <2>2
<1>3. \A p : ofProvider(p) \in Seq(ToSet(ofProvider(p)))
    <2> TAKE p
    <2> DEFINE c == Claim(ConfigDir(p), TRUE, p, FALSE)
    <2> HIDE DEF c
    <2>1. ToSet(<<c>>) = {c} /\ <<c>> \in Seq({c}) /\ <<>> \in Seq(ToSet(<<>>))
        BY DEF ToSet
    <2> QED
        BY <2>1 DEF c
<1> HIDE DEF ofAgent, ofProvider, S
<1>4. A \in Seq(Seq(S)) /\ P \in Seq(Seq(S)) /\ Len(A) = Len(Sorted)
    <2>1. \A i \in 1 .. Len(Sorted) : A[i] \in Seq(S) /\ P[i] \in Seq(S)
        <3> TAKE i \in 1 .. Len(Sorted)
        <3>2. A[i] \in Seq(ToSet(A[i])) /\ P[i] \in Seq(ToSet(P[i]))
            BY <1>1, <1>2, <1>3
        <3> HIDE DEF A, P
        <3>1. ToSet(A[i]) \subseteq S /\ ToSet(P[i]) \subseteq S
            <4>1. i \in DOMAIN Sorted
                BY <1>1
            <4> QED
                BY <4>1 DEF S
        <3> QED
            BY <3>1, <3>2
    <2>2. A = [i \in 1 .. Len(Sorted) |-> A[i]] /\ P = [i \in 1 .. Len(Sorted) |-> P[i]]
        BY <1>1
    <2> HIDE DEF A, P
    <2> DEFINE T == Seq(S)
    <2> HIDE DEF T
    <2>3. A \in [1 .. Len(Sorted) -> T] /\ P \in [1 .. Len(Sorted) -> T]
        BY <2>1, <2>2 DEF T
    <2>4. A \in Seq(T) /\ P \in Seq(T) /\ Len(A) = Len(Sorted)
        BY <1>1, <2>3
    <2> QED
        BY <2>4 DEF T
<1>5. PICK i \in 1 .. Len(Sorted) : Sorted[i] = n
    BY <1>1 DEF ToSet
<1>6. A[i] = ClaimsOf(agents, n) /\ 1 \in 1 .. Len(A[i]) /\ A[i][1] = first
    BY <1>1, <1>5, ClaimsTyped DEF ofAgent, MountsListed
<1>7. ASSUME NEW h \in 1 .. Len(Sorted), h < i, NEW m \in 1 .. Len(A[h])
      PROVE  A[h][m].dir # agents[n].auth
    <2>1. h \in DOMAIN Sorted /\ i \in DOMAIN Sorted /\ Sorted[i] = n
        BY <1>1, <1>5
    <2>2. A[h] = ofAgent(Sorted[h])
        BY <1>1
    <2>3. Sorted[h] \in DOMAIN agents
        BY <1>7, <2>2 DEF ofAgent
    <2>4. A[h] = ClaimsOf(agents, Sorted[h])
        BY <2>2, <2>3 DEF ofAgent
    <2>5. A[h][m].dir \in {agents[Sorted[h]].auth} \cup ToSet(agents[Sorted[h]].mounts)
        <3> HIDE DEF A
        <3> QED
            BY <1>7, <2>3, <2>4, ClaimsTyped DEF MountsListed
    <2> QED
        BY <1>7, <2>1, <2>3, <2>5 DEF NobodyBefore
<1> HIDE DEF A, P
<1>8. PICK j \in 1 .. Len(FlattenSeq(A)) :
         /\ FlattenSeq(A)[j] = first
         /\ \A k \in 1 .. j - 1 : FlattenSeq(A)[k].dir # agents[n].auth
    <2>1. i \in 1 .. Len(A)
        BY <1>4
    <2>2. PICK j \in 1 .. Len(FlattenSeq(A)) :
             /\ FlattenSeq(A)[j] = A[i][1]
             /\ \A k \in 1 .. j - 1 : Earlier(FlattenSeq(A), A, i, k)
        BY <1>4, <1>6, <2>1, BeforePiece
    <2>3. \A k \in 1 .. j - 1 : FlattenSeq(A)[k].dir # agents[n].auth
        <3> TAKE k \in 1 .. j - 1
        <3>1. PICK h \in 1 .. Len(Sorted) : h < i /\ \E m \in 1 .. Len(A[h]) : FlattenSeq(A)[k] = A[h][m]
            BY <1>4, <2>2 DEF Earlier
        <3> QED
            BY <1>7, <3>1
    <2> QED
        BY <1>6, <2>2, <2>3
<1>9. FlattenSeq(A) \in Seq(S) /\ FlattenSeq(P) \in Seq(S)
    BY <1>4, FlattenLaid
<1>10. /\ Len(FlattenSeq(A)) \in Nat /\ Len(FlattenSeq(P)) \in Nat
       /\ claims \in Seq(S) /\ Len(claims) = Len(FlattenSeq(A)) + Len(FlattenSeq(P))
       /\ \A k \in 1 .. Len(FlattenSeq(A)) : claims[k] = FlattenSeq(A)[k]
    BY <1>9, AppendPiece
<1>11. first.dir = agents[n].auth
    BY DEF Claim
<1> HIDE DEF claims, first
<1>12. j \in DOMAIN claims /\ claims[j] = first
       /\ \A k \in 1 .. j - 1 : claims[k].dir # claims[j].dir
    <2>1. j \in 1 .. Len(claims) /\ \A k \in 1 .. j - 1 : k \in 1 .. Len(FlattenSeq(A))
        BY <1>10
    <2>2. DOMAIN claims = 1 .. Len(claims)
        BY <1>10
    <2>3. claims[j] = first
        BY <1>8, <1>10
    <2>4. \A k \in 1 .. j - 1 : claims[k].dir # agents[n].auth
        BY <1>8, <1>10, <2>1
    <2> QED
        BY <1>11, <2>1, <2>2, <2>3, <2>4
<1>13. FirstClaims(agents, harnessed) =
          {claims[k] : k \in {l \in DOMAIN claims :
                                 \A m \in 1 .. (l - 1) : claims[m].dir # claims[l].dir}}
    BY DEF FirstClaims, claims, A, P, ofAgent, ofProvider
<1>14. first \in FirstClaims(agents, harnessed)
    BY <1>12, <1>13
<1> QED
    BY <1>14 DEF first

\* Spec => []CredentialsShadowed: whatever the files of the host say, a login whose
\* directory nobody before it claims has its credential file behind a read-only mount
\* when it is to be, whoever else claims the directory after it.
THEOREM CredentialsAreShadowed == Spec => []CredentialsShadowed
<1>1. ASSUME FilesRead PROVE CredentialsShadowed
    <2> DEFINE agents == Parsed(AgentFiles(regime.raw), AgentFields)
    <2> SUFFICES ASSUME AtRest, NEW n \in DOMAIN agents,
                        agents[n].auth # None, agents[n].cred, ~agents[n].writable,
                        \A i, j \in DOMAIN Sorted :
                            i < j /\ Sorted[j] = n => Sorted[i] \notin Claimants(agents[n].auth)
                 PROVE  agents[n].auth \in Shadowed(roster, {})
        BY DEF CredentialsShadowed
    <2>1. Directories(regime.raw) /\ roster = LoadRoster(regime.raw) /\ roster # None
        BY <1>1, FilesAssumption DEF FilesRead, AtRest
    <2>2. PICK harnessed : roster.mounts = FirstClaims(agents, harnessed)
        <3> DEFINE files     == Parsed(ProviderFiles(regime.raw), ProviderFields)
                   providers == [p \in DOMAIN files |->
                                    [files[p] EXCEPT !.oauth = ModeOf(@), !.key = ModeOf(@)]]
        <3>1. roster = Join(agents, providers)
            BY <2>1 DEF LoadRoster
        <3> HIDE DEF agents, providers
        <3> QED
            BY <3>1 DEF Join
    <2>3. MountsListed(agents)
        <3>1. DOMAIN agents = DOMAIN AgentFiles(regime.raw)
            BY DEF Parsed
        <3> QED
            BY <2>1, <3>1, MountsTyped DEF MountsListed
    <2>4. n \in ToSet(Sorted)
        <3>1. DOMAIN agents \subseteq DOMAIN regime.raw.agents \cup DOMAIN regime.raw.userAgents
            BY DEF Parsed, AgentFiles, Layered, Readable
        <3> QED
            BY <2>1, <3>1 DEF Directories, Layers
    <2>5. NobodyBefore(agents, n)
        BY DEF Claimants, NobodyBefore
    <2> DEFINE first == Claim(agents[n].auth, agents[n].cred, n, agents[n].writable)
    <2> HIDE DEF agents
    <2>6. first \in roster.mounts
        BY <2>2, <2>3, <2>4, <2>5, LoginClaimsFirst
    <2>7. first.dir = agents[n].auth /\ first.cred = agents[n].cred
          /\ first.writable = agents[n].writable
        BY DEF Claim
    <2> HIDE DEF first
    <2> QED
        BY <2>6, <2>7 DEF Shadowed
<1> QED
    BY <1>1, AlwaysRead, PTL

-----------------------------------------------------------------------------
(* Logins.  On a settled host one verb is at work, and the alias stays once *)
(* it is there, unless the images are uninstalled.                          *)

Solo == regime.spawner = "settled" => \A u, v \in Verbs : Alive(u) /\ Alive(v) => u = v

Undisturbed(v) == regime.spawner = "settled" \/ ~Uninstalled(job[v].base)

LoginInv ==
    /\ Solo
    /\ \A v \in Verbs : pc[v] = "uninstall" => job[v].verb = "uninstall"
    /\ \A v \in Verbs :
          /\ pc[v] \in {"login", "loginRun"} /\ Undisturbed(v) => Exists(AliasTag(job[v].base))
          /\ pc[v] = "loginRun" /\ regime.spawner = "settled" => login = None

\* Where any step takes the verb that takes it, and that all others stay.
LEMMA OneMoves ==
    ASSUME Control, NEW v \in Verbs,
           ImageStep(v) \/ Spawn(v) \/ RunStep(v) \/ LifecycleStep(v) \/ Kill(v)
    PROVE  /\ \A u \in Verbs \ {v} : pc'[u] = pc[u]
           /\ ~Alive(v) => UNCHANGED pc \/ MaySpawn(v)
<1>1. CASE SpawnImageVerb(v) \/ Spawn(v)
    BY <1>1, SpawnControl DEF SpawnImageVerb, Spawn, Control
<1>2. CASE Builder(v) \/ LoginSteps(v)
    BY <1>2, BuilderControl, BuilderMove, LoginMove
       DEF OrphanEnds, Alive, Ended, BuilderSteps, LoginPcs, Control
<1>3. CASE RunStep(v)
    BY <1>3, RunControl DEF Alive, Ended, EarlySteps, LateSteps, Control
<1>4. CASE Build(v) \/ BuildSidecarToo(v) \/ Setup(v) \/ Announce(v) \/ Auth(v) \/ Uninstall(v)
    BY <1>4, ImageVerbControl DEF Alive, Ended, ImageSteps, Control
<1>5. CASE LifecycleStep(v) \/ Kill(v)
    <2>1. Alive(v)
        BY <1>5 DEF LifecycleStep, Kill, Start, Stop, RemoveContainer, RemoveState, RemoveDir,
                    Alive, Ended
    <2> QED
        BY <1>5, <2>1, LifecycleControl DEF Control
<1> QED
    BY <1>1, <1>2, <1>3, <1>4, <1>5 DEF ImageStep

\* On a settled host a verb begins when the others have ended.
LEMMA SoloStep ==
    ASSUME Control, Solo, [Next]_vars
    PROVE  Solo'
<1>1. UNCHANGED regime
    BY StepControl
<1>2. CASE UNCHANGED pc
    BY <1>1, <1>2 DEF Solo, Alive
<1>3. ASSUME NEW v \in Verbs,
             ImageStep(v) \/ Spawn(v) \/ RunStep(v) \/ LifecycleStep(v) \/ Kill(v)
      PROVE  Solo'
    <2>1. CASE UNCHANGED pc
        BY <1>2, <2>1
    <2>2. CASE Alive(v)
        BY <1>1, <1>3, <2>2, OneMoves DEF Solo, Alive
    <2>3. CASE MaySpawn(v)
        BY <1>1, <1>3, <2>3, OneMoves DEF Solo, Alive, MaySpawn
    <2> QED
        BY <1>3, <2>1, <2>2, <2>3, OneMoves
<1>4. ASSUME UNCHANGED vars \/ \E n \in ContainerNames : AgentEnds(n) \/ RemovedOutOfBand(n)
      PROVE  UNCHANGED pc
    BY <1>4, OutsideControl DEF vars, imageVars
<1> QED
    BY <1>2, <1>3, <1>4 DEF Next

\* The alias of a base outlives every step but its uninstall, and no uninstall is
\* undone.
LEMMA AliasStays ==
    ASSUME Control, [Next]_vars, NEW b
    PROVE  /\ Uninstalled(b) => Uninstalled(b)'
           /\ Exists(AliasTag(b)) =>
                 Exists(AliasTag(b))' \/ \E u \in Verbs : Uninstall(u) /\ job[u].base = b
<1>1. \A u \in Verbs : job[u] # None => job'[u] = job[u]
    BY StepControl DEF Control, Begun
<1>2. CASE \E v \in Verbs : Builder(v)
    <2>1. PICK v \in Verbs : Builder(v)
        BY <1>2
    <2>2. UNCHANGED image \/ \E tags, content : Tagged(tags, content)
        BY <2>1 DEF Builder, Select, LookForL0, LookForL1, TagImage, DetectFamily, PrepareContext,
                    BuildL0, BuildL1, PodmanFails, EnsureDefaultL1, LookForSidecar,
                    LookUnderSidecar, PrepareSidecar, BuildSidecar, Unchanged
    <2>3. DOMAIN image \subseteq DOMAIN image'
        BY <2>2 DEF Tagged
    <2> QED
        BY <1>1, <2>3 DEF Uninstalled, Exists
<1>3. CASE UNCHANGED image
    BY <1>1, <1>3 DEF Uninstalled, Exists
<1>4. ASSUME NEW u \in Verbs, Uninstall(u), job[u].base # b
      PROVE  Exists(AliasTag(b)) => Exists(AliasTag(b))'
    BY <1>4 DEF Uninstall, Exists, AliasTag, L0Tag
<1>5. \A c : Uninstalled(c) => Uninstalled(c)'
    BY <1>1 DEF Uninstalled
<1> QED
    BY <1>2, <1>3, <1>4, <1>5, OthersKeepImages

\* The builder hands over to the login only with the alias in place.
LEMMA BuilderToLogin ==
    ASSUME Control, AllAsked, NEW v \in Verbs, Builder(v)
    PROVE  /\ pc'[v] \notin {"loginRun", "uninstall"}
           /\ pc'[v] = "login" => Exists(AliasTag(job[v].base))'
<1>1. pc[v] \in BuilderSteps /\ pc'[v] \in BuilderSteps \cup {task[v].ok, task[v].fail, task[v].back}
    BY BuilderMove
<1>2. ReturnsTo(task[v], ImageReturns) \/ ReturnsTo(task[v], RunReturns)
    BY <1>1 DEF Control, Placed, Returning, BuilderSteps, ImageSteps, EarlySteps, LateSteps, Ended
<1>3. /\ {task[v].ok, task[v].fail, task[v].back} \cap {"loginRun", "uninstall"} = {}
      /\ "login" \notin {task[v].fail, task[v].back}
    BY <1>2 DEF ReturnsTo, ImageReturns, RunReturns
<1>4. pc'[v] \notin {"loginRun", "uninstall"}
    BY <1>1, <1>3 DEF BuilderSteps
<1>5. ASSUME pc'[v] = "login" PROVE Exists(AliasTag(job[v].base))'
    <2>1. task[v].ok = "login"
        BY <1>1, <1>3, <1>5 DEF BuilderSteps
    <2>2. task[v].alias /\ task[v].base = job[v].base /\ UNCHANGED job
        BY <1>1, <2>1, BuilderMove DEF AllAsked, Asked
    <2>3. ExtraTags(v) = {AliasTag(job[v].base)}
        BY <2>2 DEF ExtraTags
    <2>4. CASE EnsureDefaultL1(v)
        BY <1>5, <2>2, <2>4 DEF EnsureDefaultL1, Goto, Control, Exists, Unchanged
    <2>5. CASE TagImage(v)
        BY <2>2, <2>3, <2>5 DEF TagImage, Tagged, Exists
    <2>6. CASE BuildL1(v)
        BY <2>2, <2>3, <2>6 DEF BuildL1, Tagged, Exists
    <2>7. ~(Select(v) \/ LookForL0(v) \/ LookForL1(v) \/ DetectFamily(v) \/ PrepareContext(v))
        BY <1>3, <1>5, <2>3 DEF Select, LookForL0, LookForL1, DetectFamily, PrepareContext, Goto,
                                Control
    <2>8. ~(BuildL0(v) \/ PodmanFails(v) \/ LookForSidecar(v) \/ LookUnderSidecar(v)
            \/ PrepareSidecar(v) \/ BuildSidecar(v))
        BY <1>3, <1>5 DEF BuildL0, PodmanFails, LookForSidecar, LookUnderSidecar, PrepareSidecar,
                          BuildSidecar, Goto, Control
    <2> QED
        BY <2>4, <2>5, <2>6, <2>7, <2>8 DEF Builder
<1> QED
    BY <1>4, <1>5

\* No other step leads to a login.
LEMMA OthersToLogin ==
    ASSUME Control, NEW v \in Verbs,
           RunStep(v) \/ LifecycleStep(v) \/ Kill(v) \/ Build(v) \/ BuildSidecarToo(v) \/ Setup(v)
           \/ Announce(v) \/ Auth(v) \/ Uninstall(v)
    PROVE  pc'[v] \notin {"login", "loginRun", "uninstall"} /\ UNCHANGED login
<1> USE DEF Goto, Steps, Call, Control, Unchanged
<1>1. CASE SetupVerdict(v) \/ Preflight(v) \/ RequirePodman(v) \/ RequireServices(v)
    BY <1>1 DEF SetupVerdict, Preflight, RequirePodman, RequireServices
<1>2. CASE CheckImages(v) \/ RecheckImages(v) \/ NoImages(v)
    BY <1>2 DEF CheckImages, RecheckImages, NoImages
<1>3. CASE OfferCredentials(v) \/ PreflightEnds(v) \/ Resolve(v) \/ Provision(v)
    BY <1>3 DEF OfferCredentials, FixCredentials, PreflightEnds, Resolve, Provision
<1>4. CASE MakeStateDir(v) \/ Assemble(v) \/ WriteSidecar(v)
    BY <1>4 DEF MakeStateDir, Assemble, WriteSidecar
<1>5. CASE PodmanRun(v) \/ Attach(v) \/ Follow(v) \/ Wait(v) \/ Kill(v)
    BY <1>5 DEF PodmanRun, Attach, Follow, Wait, Kill
<1>6. CASE LifecycleStep(v)
    BY <1>6 DEF LifecycleStep, Start, Stop, RemoveContainer, RemoveState, RemoveDir
<1>7. CASE Build(v) \/ BuildSidecarToo(v) \/ Setup(v) \/ Announce(v) \/ Auth(v) \/ Uninstall(v)
    BY <1>7 DEF Build, BuildSidecarToo, Setup, Announce, Auth, Uninstall
<1> QED
    BY <1>1, <1>2, <1>3, <1>4, <1>5, <1>6, <1>7 DEF RunStep

\* How a verb gets to its login, and who may take the name of the login container.
LEMMA WaysToLogin ==
    ASSUME Control, AllAsked, [Next]_vars, NEW v \in Verbs
    PROVE  /\ pc'[v] \in {"login", "loginRun"} =>
                  pc[v] \in {"login", "loginRun"} \/ Exists(AliasTag(job[v].base))'
           /\ pc'[v] = "loginRun" => (pc[v] = "loginRun" \/ login' = None)
           /\ pc'[v] = "uninstall" => (pc[v] = "uninstall" \/ job'[v].verb = "uninstall")
           /\ login' \in {login, None} \/ \E u \in Verbs : RunLogin(u)
<1>1. ASSUME UNCHANGED vars \/ \E n \in ContainerNames : AgentEnds(n) \/ RemovedOutOfBand(n)
      PROVE  UNCHANGED <<pc, login>>
    BY <1>1, OutsideControl DEF vars, imageVars
<1>2. ASSUME NEW w \in Verbs,
             ImageStep(w) \/ Spawn(w) \/ RunStep(w) \/ LifecycleStep(w) \/ Kill(w)
      PROVE  /\ w # v => pc'[v] = pc[v]
             /\ pc'[w] \in {"login", "loginRun"} =>
                    pc[w] \in {"login", "loginRun"} \/ Exists(AliasTag(job[w].base))'
             /\ pc'[w] = "loginRun" => (pc[w] = "loginRun" \/ login' = None)
             /\ pc'[w] = "uninstall" => (pc[w] = "uninstall" \/ job'[w].verb = "uninstall")
             /\ login' \in {login, None} \/ RunLogin(w)
    <2>1. w # v => pc'[v] = pc[v]
        BY <1>2, OneMoves
    <2>2. CASE Builder(w)
        BY <2>1, <2>2, BuilderMove, BuilderToLogin
    <2>3. CASE LoginSteps(w)
        <3>1. pc[w] \in LoginPcs =>
                 ReturnsTo(task[w], ImageReturns) \/ ReturnsTo(task[w], RunReturns)
            BY DEF Control, Placed, Returning, LoginPcs, ImageSteps, EarlySteps, LateSteps, Ended
        <3>2. pc[w] \in LoginPcs => task[w].back \notin {"login", "loginRun", "uninstall"}
            BY <3>1 DEF ReturnsTo, ImageReturns, RunReturns
        <3>3. /\ pc'[w] \in {"login", "loginRun"} => pc[w] \in {"login", "loginRun"}
              /\ pc'[w] = "loginRun" => (pc[w] = "loginRun" \/ login' = None)
              /\ pc'[w] = "uninstall" => pc[w] = "uninstall"
              /\ login' \in {login, None} \/ RunLogin(w)
            BY <2>3, <3>2 DEF LoginSteps, OrphanEnds, PrepareLogin, RunLogin, LoginEnds,
                              CleanUpLogin, Goto, Control, LoginPcs
        <3> QED
            BY <2>1, <3>3
    <2>4. CASE SpawnImageVerb(w) \/ Spawn(w)
        <3>1. /\ pc'[w] = job'[w].verb /\ pc'[w] \in ImageVerbs \cup ContainerVerbs
              /\ UNCHANGED login
            BY <2>4, SpawnControl DEF Control
        <3> QED
            BY <2>1, <3>1 DEF ImageVerbs, ContainerVerbs
    <2>5. CASE ~(Builder(w) \/ LoginSteps(w) \/ SpawnImageVerb(w) \/ Spawn(w))
        BY <1>2, <2>1, <2>5, OthersToLogin DEF ImageStep
    <2> QED
        BY <2>2, <2>3, <2>4, <2>5
<1>3. CASE \E w \in Verbs :
              ImageStep(w) \/ Spawn(w) \/ RunStep(w) \/ LifecycleStep(w) \/ Kill(w)
    BY <1>2, <1>3
<1> QED
    BY <1>1, <1>3 DEF Next

\* Whoever is about to log in finds the alias, or it is being uninstalled.
LEMMA LoginStep ==
    ASSUME Control, AllAsked, LoginInv, [Next]_vars
    PROVE  LoginInv'
<1>1. Control' /\ Begun /\ UNCHANGED <<regime, roster>>
    BY StepControl
<1>2. Solo'
    BY SoloStep DEF LoginInv
<1>3. ASSUME NEW v \in Verbs, pc'[v] = "uninstall" PROVE job'[v].verb = "uninstall"
    BY <1>1, <1>3, WaysToLogin DEF LoginInv, Begun
<1>4. ASSUME NEW v \in Verbs, pc'[v] \in {"login", "loginRun"}, Undisturbed(v)'
      PROVE  Exists(AliasTag(job[v].base))'
    <2>1. CASE pc[v] \in {"login", "loginRun"}
        <3>1. job'[v] = job[v] /\ Alive(v)
            BY <1>1, <2>1 DEF Begun, Alive, Ended
        <3>2. Undisturbed(v)
            BY <1>1, <1>4, <3>1, AliasStays DEF Undisturbed
        <3>3. Exists(AliasTag(job[v].base))
            BY <2>1, <3>2 DEF LoginInv
        <3>4. ~\E u \in Verbs : Uninstall(u) /\ job[u].base = job[v].base
            <4> SUFFICES ASSUME NEW u \in Verbs, Uninstall(u), job[u].base = job[v].base
                         PROVE  FALSE
                OBVIOUS
            <4>1. pc[u] = "uninstall" /\ Alive(u) /\ u # v
                BY <2>1 DEF Uninstall, Alive, Ended
            <4>2. regime.spawner # "settled"
                BY <3>1, <4>1 DEF LoginInv, Solo
            <4>3. job[u] # None /\ job[u].verb = "uninstall"
                BY <4>1, NoJobAssumption DEF LoginInv, Control
            <4> QED
                BY <3>2, <4>2, <4>3 DEF Undisturbed, Uninstalled
        <3>5. Exists(AliasTag(job[v].base))' \/ \E u \in Verbs : Uninstall(u) /\ job[u].base = job[v].base
            BY <3>1, <3>3, AliasStays DEF Exists, AliasTag
        <3> QED
            BY <3>4, <3>5
    <2>2. CASE pc[v] \notin {"login", "loginRun"}
        BY <1>4, <2>2, WaysToLogin
    <2> QED
        BY <2>1, <2>2
<1>5. ASSUME NEW v \in Verbs, pc'[v] = "loginRun", regime.spawner = "settled" PROVE login' = None
    <2>1. CASE pc[v] = "loginRun"
        <3>1. login = None
            BY <1>5, <2>1 DEF LoginInv
        <3>2. ~\E u \in Verbs : RunLogin(u)
            <4> SUFFICES ASSUME NEW u \in Verbs, RunLogin(u) PROVE FALSE
                OBVIOUS
            <4>1. Alive(u) /\ Alive(v)
                BY <2>1 DEF RunLogin, Alive, Ended
            <4>2. u = v
                BY <1>5, <4>1 DEF LoginInv, Solo
            <4> QED
                BY <1>5, <4>2 DEF RunLogin, Goto, Control
        <3> QED
            BY <3>1, <3>2, WaysToLogin
    <2>2. CASE pc[v] # "loginRun"
        BY <1>5, <2>2, WaysToLogin
    <2> QED
        BY <2>1, <2>2
<1> QED
    BY <1>1, <1>2, <1>3, <1>4, <1>5 DEF LoginInv

\* Spec => []LoginStarts: a login finds its image, unless that is being uninstalled, and
\* on a settled host its name.
THEOREM LoginsStart == Spec => []LoginStarts
<1> DEFINE I == Control /\ AllAsked /\ LoginInv
<1>1. Init => I
    <2> SUFFICES ASSUME Init PROVE LoginInv
        BY InitImages, InitControl DEF ImagesHold
    <2>1. \A v \in Verbs : pc[v] = "idle"
        BY DEF Init, ImagesInit
    <2> QED
        BY <2>1 DEF LoginInv, Solo, Alive
<1>2. I /\ [Next]_vars => I'
    BY StepControl, AskedStep, LoginStep
<1>3. I => LoginStarts
    BY DEF LoginInv, LoginStarts, Undisturbed
<1> QED
    BY <1>1, <1>2, <1>3, PTL DEF Spec

=============================================================================
