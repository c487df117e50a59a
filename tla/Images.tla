------------------------------- MODULE Images -------------------------------
(***************************************************************************)
(* The image store and the verbs that fill and empty it: container/build.py *)
(* and the build, setup, auth and uninstall handlers of commands.py.       *)
(*                                                                         *)
(* A verb is a process; an action is one podman call, or the code between  *)
(* two of them.  The builders are subroutines: task[v] holds the arguments *)
(* of the one verb v is in, and where it returns to.  A tag names an image; *)
(* of an image only the agents it installs are kept.  The suffix of a tag  *)
(* is one per selection as long as no name carries a dash.                 *)
(***************************************************************************)
EXTENDS AgentRoster

CONSTANTS
    MaxVerbs,      \* how many verbs are ever started on the host
    Bases,         \* base images
    Recognized,    \* those whose package family is known
    Regimes        \* the surroundings the verbs may find themselves in

Verbs == 1 .. MaxVerbs

\* The files of the host; the verbs that may be started, how many, and whether
\* they overlap; whether calls may fail; the images there are; and whether a run
\* may take a name that is in use.
RegimeFields == {"raw", "jobs", "atMost", "spawner", "failures", "built", "reuse"}

ASSUME VerbsAssumption == MaxVerbs \in Nat
ASSUME BasesAssumption == Recognized \subseteq Bases
ASSUME RegimesAssumption ==
    \A r \in Regimes : DOMAIN r = RegimeFields /\ r.spawner \in {"settled", "any"}
ASSUME FilesAssumption == \A r \in Regimes : Directories(r.raw)
ASSUME NoVerbAssumption == None \notin Verbs
ASSUME NoJobAssumption == \A r \in Regimes : None \notin r.jobs

\* Of each image, what its tag promises: the selection, and all there is.
Complete(images, ros) ==
    \A t \in DOMAIN images :
        /\ t[1] = "l1" => t[3] \subseteq images[t]
        /\ t[1] = "alias" /\ ros # None => DOMAIN ros.installs \subseteq images[t]

ASSUME BuiltAssumption == \A r \in Regimes : Complete(r.built, LoadRoster(r.raw))

VARIABLES
    regime,     \* the surroundings of this behaviour
    roster,     \* the roster the files of the host amount to
    image,      \* image[tag]: the agents installed in the image, per tag there is
    pc,         \* pc[v]: where verb v stands
    job,        \* job[v]: its command line, once started
    task,       \* task[v]: the builder call it is in, or was in last
    announced,  \* announced[b]: "Next run will skip this step" was printed for b
    login       \* None, or the verb whose login container there is

imageVars == <<regime, roster, image, pc, job, task, announced, login>>

L0Tag(b)      == <<"l0", b>>
L1Tag(b, sel) == <<"l1", b, sel>>
AliasTag(b)   == <<"alias", b>>
SidecarTag(b) == <<"sidecar", b>>

Exists(tag) == tag \in DOMAIN image
Tagged(tags, content) ==
    image' = [t \in DOMAIN image \cup tags |-> IF t \in tags THEN content ELSE image[t]]

\* Its ways to end; a refused run has not begun to set up its container.
Ended    == {"done", "failed", "refused", "aborted"}
Alive(v) == pc[v] \notin {"idle"} \cup Ended

Goto(v, step) == pc' = [pc EXCEPT ![v] = step]

ImagesInit ==
    /\ regime \in Regimes
    /\ roster = LoadRoster(regime.raw)
    /\ image = regime.built
    /\ pc = [v \in Verbs |-> "idle"]
    /\ job = [v \in Verbs |-> None] /\ task = [v \in Verbs |-> None]
    /\ announced = [b \in Bases |-> FALSE]
    /\ login = None

\* settled: one verb after another; any: they overlap.
MaySpawn(v) ==
    /\ pc[v] = "idle" /\ v <= regime.atMost /\ \A u \in 1 .. (v - 1) : pc[u] # "idle"
    /\ regime.spawner = "settled" => \A u \in Verbs : ~Alive(u)

-----------------------------------------------------------------------------
(* build_base_images.                                                       *)

BaseTask(j, select, force, alias, ok, fail) ==
    [base |-> j.base, family |-> j.family, select |-> select, force |-> force,
     alias |-> alias, tool |-> None, ok |-> ok, fail |-> fail, back |-> ok]
Call(v, step, t) == task' = [task EXCEPT ![v] = t] /\ Goto(v, step)

Selected(v) == IF roster = None THEN None ELSE ResolveSelection(roster, task[v].select)
Target(v)   == L1Tag(task[v].base, Selected(v))

\* Bug: every build of an L1 takes the alias, whatever it was built from.
ExtraTagsAlways(v) == {AliasTag(task[v].base)}

\* The tags beside its own that an L1 gets: the alias, when it is asked for.
ExtraTags(v) == IF task[v].alias THEN {AliasTag(task[v].base)} ELSE {}

Unchanged == UNCHANGED <<regime, roster, image, job, task, announced, login>>

\* An unknown name in the selection is a ValueError.
Select(v) ==
    /\ pc[v] = "select"
    /\ Goto(v, IF Selected(v) = None THEN task[v].fail
               ELSE IF task[v].force # "no" THEN "family" ELSE "look0")
    /\ Unchanged

LookForL0(v) ==
    /\ pc[v] = "look0"
    /\ Goto(v, IF Exists(L0Tag(task[v].base)) THEN "look1" ELSE "family")
    /\ Unchanged

\* Bug: an L1 that is there ends the call, with or without the alias.
LookForL1Only(v) ==
    /\ pc[v] = "look1"
    /\ Goto(v, IF Exists(Target(v)) THEN task[v].ok ELSE "family")
    /\ Unchanged

\* Both are there: nothing to build, but the alias may have to be set.
LookForL1(v) ==
    /\ pc[v] = "look1"
    /\ Goto(v, IF ~Exists(Target(v)) THEN "family"
               ELSE IF ExtraTags(v) # {} THEN "tag" ELSE task[v].ok)
    /\ Unchanged

TagImage(v) ==
    /\ pc[v] = "tag" /\ Exists(Target(v))
    /\ Tagged(ExtraTags(v), image[Target(v)])
    /\ Goto(v, task[v].ok)
    /\ UNCHANGED <<regime, roster, job, task, announced, login>>

\* The package family is known, or given.
KnownFamily(t) == t.base \in Recognized \/ t.family

\* detect_family: an unknown base without an override is a BuildError.
DetectFamily(v) ==
    /\ pc[v] = "family"
    /\ Goto(v, IF KnownFamily(task[v]) THEN "context" ELSE task[v].fail)
    /\ Unchanged

\* render_l1 takes the names that were resolved for a selection of the user's,
\* and resolves them once more: that may be a ValueError, and adds what the names
\* depend on although it was left out, or every entry when none is left.
Content(v) == ResolveSelection(roster, Selection(Selected(v), {}))

PrepareContext(v) ==
    /\ pc[v] = "context"
    /\ Goto(v, IF Content(v) = None THEN task[v].fail ELSE "buildL0")
    /\ Unchanged

BuildL0(v) ==
    /\ pc[v] = "buildL0"
    /\ Tagged({L0Tag(task[v].base)}, {})
    /\ Goto(v, "buildL1")
    /\ UNCHANGED <<regime, roster, job, task, announced, login>>

BuildL1(v) ==
    /\ pc[v] = "buildL1" /\ Exists(L0Tag(task[v].base))
    /\ Tagged({Target(v)} \cup ExtraTags(v), Content(v))
    /\ Goto(v, task[v].ok)
    /\ UNCHANGED <<regime, roster, job, task, announced, login>>

\* podman fails, or finds the image it starts from gone: BuildError.
PodmanFails(v) ==
    /\ \/ regime.failures /\ pc[v] \in {"tag", "buildL0", "buildL1", "sideBuild"}
       \/ pc[v] \in {"buildL1", "sideBuild"} /\ ~Exists(L0Tag(task[v].base))
       \/ pc[v] = "tag" /\ ~Exists(Target(v))
    /\ Goto(v, task[v].fail)
    /\ Unchanged

-----------------------------------------------------------------------------
(* ensure_default_l1 and build_sidecar_image.                               *)

\* The alias is trusted when it is there, and built when it is not.
EnsureDefaultL1(v) ==
    /\ pc[v] = "ensure"
    /\ Goto(v, IF Exists(AliasTag(task[v].base)) THEN task[v].ok ELSE "select")
    /\ Unchanged

SidecarTask(j, tool, force, ok, fail) ==
    [base |-> j.base, family |-> j.family, select |-> Everything, force |-> force,
     alias |-> FALSE, tool |-> tool, ok |-> "sideBuild", fail |-> fail, back |-> ok]

LookForSidecar(v) ==
    /\ pc[v] = "side"
    /\ Goto(v, IF task[v].force = "no" /\ Exists(SidecarTag(task[v].base)) THEN "sideL0"
               ELSE "sideFamily")
    /\ Unchanged

LookUnderSidecar(v) ==
    /\ pc[v] = "sideL0"
    /\ Goto(v, IF Exists(L0Tag(task[v].base)) THEN task[v].back ELSE "sideFamily")
    /\ Unchanged

\* Without an L0, or for a full rebuild, the base images are built first.
PrepareSidecar(v) ==
    /\ pc[v] = "sideFamily"
    /\ Goto(v, IF ~KnownFamily(task[v]) THEN task[v].fail
               ELSE IF Exists(L0Tag(task[v].base)) /\ task[v].force # "full" THEN "sideBuild"
               ELSE "select")
    /\ Unchanged

\* render_l1_sidecar: one tool.
SidecarContent(v) == {task[v].tool}

BuildSidecar(v) ==
    /\ pc[v] = "sideBuild" /\ Exists(L0Tag(task[v].base))
    /\ Tagged({SidecarTag(task[v].base)}, SidecarContent(v))
    /\ Goto(v, task[v].back)
    /\ UNCHANGED <<regime, roster, job, task, announced, login>>

Builder(v) ==
    \/ Select(v) \/ LookForL0(v) \/ LookForL1(v) \/ TagImage(v) \/ DetectFamily(v)
    \/ PrepareContext(v) \/ BuildL0(v) \/ BuildL1(v) \/ PodmanFails(v) \/ EnsureDefaultL1(v)
    \/ LookForSidecar(v) \/ LookUnderSidecar(v) \/ PrepareSidecar(v) \/ BuildSidecar(v)

-----------------------------------------------------------------------------
(* The login container, for which ensure_default_l1 builds.  All logins are *)
(* of one provider, and its name is made of the provider's alone.           *)

LoginTask(j, over, fail) ==
    [BaseTask(j, Everything, "no", TRUE, "login", fail) EXCEPT !.back = over]

\* A container of that name is taken for the rest of an aborted login.
PrepareLogin(v) ==
    /\ pc[v] = "login"
    /\ login' = None
    /\ Goto(v, "loginRun")
    /\ UNCHANGED <<regime, roster, image, job, task, announced>>

\* podman run --rm --name.
RunLogin(v) ==
    /\ pc[v] = "loginRun"
    /\ \/ /\ Exists(AliasTag(task[v].base)) /\ login = None
          /\ login' = v
          /\ Goto(v, "loggingIn")
       \/ /\ ~Exists(AliasTag(task[v].base)) \/ login # None \/ regime.failures
          /\ Goto(v, "loginOver") /\ UNCHANGED login
    /\ UNCHANGED <<regime, roster, image, job, task, announced>>

\* The user is done, or has given up, or the container was removed.
LoginEnds(v) ==
    /\ pc[v] = "loggingIn"
    /\ login' = IF login = v THEN None ELSE login
    /\ Goto(v, "loginOver")
    /\ UNCHANGED <<regime, roster, image, job, task, announced>>

\* What was captured is stored (see Credentials), and the name removed, whoever
\* has it by now.  Without a login, auth fails, and a preflight goes on.
CleanUpLogin(v) ==
    /\ pc[v] = "loginOver"
    /\ login' = None
    /\ Goto(v, task[v].back) \/ (job[v].verb = "auth" /\ Goto(v, "failed"))
    /\ UNCHANGED <<regime, roster, image, job, task, announced>>

\* The container of a login that was killed ends at last.
OrphanEnds(v) ==
    /\ login = v /\ pc[v] = "aborted"
    /\ login' = None
    /\ UNCHANGED <<regime, roster, image, pc, job, task, announced>>

LoginSteps(v) == OrphanEnds(v) \/ PrepareLogin(v) \/ RunLogin(v) \/ LoginEnds(v) \/ CleanUpLogin(v)

-----------------------------------------------------------------------------
(* The verbs of the command line.                                           *)

ImageVerbs == {"build", "setup", "auth", "uninstall"}

SpawnImageVerb(v) ==
    /\ MaySpawn(v)
    /\ \E j \in regime.jobs :
          /\ j.verb \in ImageVerbs
          /\ job' = [job EXCEPT ![v] = j]
          /\ Goto(v, j.verb)
    /\ UNCHANGED <<regime, roster, image, task, announced, login>>

\* build: the selection of the command line, and the sidecar image on request.
Build(v) ==
    /\ pc[v] = "build"
    /\ Call(v, "select", BaseTask(job[v], job[v].select, job[v].force, FALSE,
                                  IF job[v].tool = None THEN "done" ELSE "buildSide", "failed"))
    /\ UNCHANGED <<regime, roster, image, job, announced, login>>

BuildSidecarToo(v) ==
    /\ pc[v] = "buildSide"
    /\ Call(v, "side", SidecarTask(job[v], job[v].tool, job[v].force, "done", "failed"))
    /\ UNCHANGED <<regime, roster, image, job, announced, login>>

\* ensure_vault_routes, with which setup begins.
RoutesWritten == roster # None /\ GenerateRoutes(roster) # None

\* setup: the routes, the sandbox services, which may fail, then every agent.
Setup(v) ==
    /\ pc[v] = "setup"
    /\ \/ /\ RoutesWritten
          /\ Call(v, "select", BaseTask(job[v], Everything, "no", FALSE, "announce", "failed"))
       \/ (~RoutesWritten \/ regime.failures) /\ Goto(v, "failed") /\ UNCHANGED task
    /\ UNCHANGED <<regime, roster, image, job, announced, login>>

\* "Images ready.  Next run will skip this step."
Announce(v) ==
    /\ pc[v] = "announce"
    /\ announced' = [announced EXCEPT ![job[v].base] = TRUE]
    /\ Goto(v, "done")
    /\ UNCHANGED <<regime, roster, image, job, task, login>>

\* auth: an API key needs no image, the login container runs the default L1.
Auth(v) ==
    /\ pc[v] = "auth"
    /\ \/ Call(v, "ensure", LoginTask(job[v], "done", "failed"))
       \/ Goto(v, "done") /\ UNCHANGED task
    /\ UNCHANGED <<regime, roster, image, job, announced, login>>

\* uninstall: the alias and the L0 go, or podman fails, which is not looked at.
Uninstall(v) ==
    /\ pc[v] = "uninstall"
    /\ \/ image' = [t \in DOMAIN image \ {AliasTag(job[v].base), L0Tag(job[v].base)} |-> image[t]]
       \/ regime.failures /\ UNCHANGED image
    /\ announced' = [announced EXCEPT ![job[v].base] = FALSE]
    /\ Goto(v, "done")
    /\ UNCHANGED <<regime, roster, job, task, login>>

ImageStep(v) ==
    \/ Builder(v) \/ LoginSteps(v)
    \/ SpawnImageVerb(v) \/ Build(v) \/ BuildSidecarToo(v) \/ Setup(v) \/ Announce(v)
    \/ Auth(v) \/ Uninstall(v)

-----------------------------------------------------------------------------
(* Properties.                                                              *)

\* An image has every agent that its tag names, and the alias has them all, whatever
\* other verbs build, tag and remove at the same time: no login runs in an image
\* that misses its agent (build.py:668-673, 1090-1101).
NothingMissing == Complete(image, roster)

\* The suffix of a tag names the very agents in the image (build.py:567-569).
TagTellsContent == \A t \in DOMAIN image : t[1] = "l1" => image[t] = t[3]

\* The roster never changes: what it promises is judged before anything runs.
AtRest == roster # None /\ \A v \in Verbs : pc[v] = "idle"
Picks  == {Everything} \cup {ParseSelection(in, out) :
             in, out \in {S \in SUBSET (DOMAIN roster.installs \cup {All}) : Cardinality(S) < 3}}

\* A selection resolves to the smallest set of entries that holds what was asked
\* for and everything an entry depends on, without what was left out; it depends
\* on no order in which the dependencies are found (loader.py:204-221).
ClosedOver(S) == \A n \in S : roster.installs[n] \subseteq S
SelectionClosed ==
    AtRest => \A sel \in Picks :
        LET got  == ResolveSelection(roster, sel)
            seed == IF sel.includes \subseteq {All} \/ All \in sel.includes
                    THEN DOMAIN roster.installs ELSE sel.includes
            closed == {S \in SUBSET DOMAIN roster.installs : seed \subseteq S /\ ClosedOver(S)}
        IN  got # None /\ ~sel.literal =>
               /\ closed # {}
               /\ got = {n \in seed \cup UNION closed :
                           n \notin sel.excludes /\ \A S \in closed : n \in S}

\* The credential file of a login is shadowed in the containers unless its tool must
\* write to it or it is exposed: whatever the entry mounts besides, and whoever else
\* claims the directory, unless it is an entry that comes before it in the alphabet,
\* whose claim stands, with or without a credential (loader.py:592-655, env.py:450-504).
Claimants(dir) ==
    LET agents == Parsed(AgentFiles(regime.raw), AgentFields)
    IN  {n \in DOMAIN agents : agents[n].auth = dir \/ dir \in ToSet(agents[n].mounts)}
CredentialsShadowed ==
    AtRest =>
        LET agents == Parsed(AgentFiles(regime.raw), AgentFields) IN
        \A n \in DOMAIN agents :
            agents[n].auth # None /\ agents[n].cred /\ ~agents[n].writable
            /\ (\A i, j \in DOMAIN Sorted :
                   i < j /\ Sorted[j] = n => Sorted[i] \notin Claimants(agents[n].auth))
            => agents[n].auth \in Shadowed(roster, {})

\* An agent whose credential is exposed reaches the hosts of the provider it binds,
\* but for those another provider is reached at through the vault
\* (loader.py:302-322, env.py:407-411).
ExposedReachable ==
    AtRest => \A n \in roster.agents :
        LET bound  == roster.bindings[n]
            others == UNION {roster.providers[p].hosts : p \in DOMAIN roster.providers \ {bound}}
        IN  bound # None =>
               DenyToVault(roster, {n}) \cap roster.providers[bound].hosts \subseteq others

Uninstalled(b) == \E u \in Verbs : job[u] # None /\ job[u].verb = "uninstall" /\ job[u].base = b

\* What the login container needs is there: its image, unless the images are being
\* removed meanwhile, and its name, which an aborted login may have kept, unless
\* another login takes it meanwhile (build.py:612-628, 1338-1369, auth.py:753).
LoginStarts ==
    \A v \in Verbs : pc[v] = "loginRun" =>
        /\ regime.spawner = "settled" \/ ~Uninstalled(job[v].base) =>
              Exists(AliasTag(job[v].base))
        /\ regime.spawner = "settled" => login = None

ImagesReady(b) == Exists(AliasTag(b))

\* Once the images were announced as ready, the check of the next run finds them
\* (commands.py:734, preflight.py:495).
NextRunSkips == \A b \in Bases : announced[b] => ImagesReady(b)

=============================================================================
