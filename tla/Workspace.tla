----------------------------- MODULE Workspace -----------------------------
(***************************************************************************)
(* One workspace directory, from launch to launch: the host side of        *)
(* container/runner.py (_provision_workspace, _setup_gate) and             *)
(* container/cache.py, and the script init-ssh-and-repo.sh that every      *)
(* start of a container runs in it.                                        *)
(*                                                                         *)
(* A commit is the number of times upstream has advanced; all its branches *)
(* advance together.  The gate serves its mirror under a URL that carries  *)
(* the launch's token, so the gate URL of each launch is another one.      *)
(***************************************************************************)
EXTENDS Integers, FiniteSets

CONSTANTS
    MaxLaunches,    \* how many containers are created on the workspace
    MaxCommits,     \* how far upstream advances
    RemoteBranches, \* the branches upstream has
    Default,        \* the one its HEAD names
    Wanted,         \* what GIT_BRANCH may be: Absent, or a branch it may not have
    Failures,       \* what may go wrong
    Absent

Local    == "local"           \* a branch that the agent has made
Branches == RemoteBranches \cup {Local}
Commits  == 0 .. MaxCommits
Launches == 1 .. MaxLaunches
AllFailures == {"copy", "cut", "setUrl", "checkout", "reset", "network"}

ASSUME BoundsAssumption == MaxLaunches \in Nat \ {0} /\ MaxCommits \in Nat \ {0}
ASSUME BranchAssumption == Default \in RemoteBranches /\ Local \notin RemoteBranches
ASSUME WantedAssumption == Absent \in Wanted
ASSUME FailureAssumption == Failures \subseteq AllFailures

Gate(l)  == [at |-> "gate", launch |-> l]
Url(at)  == [at |-> at, launch |-> 0]
Upstream == Url("upstream")
Mirror   == Url("mirror")     \* the gate's bare repository, as a file
Urls     == {Gate(l) : l \in Launches}
            \cup {Upstream, Mirror, Url("cache"), Url("elsewhere")}

ASSUME AbsentAssumption == Absent \notin Urls /\ Absent \notin Branches

VARIABLES
    upstream, \* the newest commit
    mirror,   \* the commit of the gate mirror, 0 if there is none
    cache,    \* the commit of the clone cache, 0 if there is none
    place,    \* whose directory it is: the user's, terok's, the container's
    dir,      \* what is in it
    launch,   \* the current launch: its number, and what its env says
    step,     \* where the launch, or the script in the container, is
    isNew,    \* IS_NEW_TASK of the script
    owed,     \* the task was announced as new and nobody has worked on it yet
    spoilt    \* what has gone wrong since the launch

workspaceVars ==
    <<upstream, mirror, cache, place, dir, launch, step, isNew, owed, spoilt>>
hostVars == <<upstream, mirror, cache, place>>

\* git is "partial" when a copy or a clone was cut short; work stands for the
\* agent's (or the user's) commits and edits, stray for files git does not know.
EmptyDir == [marker |-> FALSE, git |-> "none", origin |-> Absent, branch |-> Default,
             head |-> 0, work |-> FALSE, stray |-> FALSE]
Checkout == [EmptyDir EXCEPT !.git = "full", !.origin = Url("elsewhere"), !.work = TRUE]
Files    == [EmptyDir EXCEPT !.stray = TRUE]

WorkspaceInit ==
    /\ upstream = 1 /\ mirror = 0 /\ cache = 0
    /\ place \in {"user", "terok", "container"}
    /\ dir \in IF place = "user" THEN {EmptyDir, Files, Checkout} ELSE {EmptyDir}
    /\ launch = [number |-> 0, gated |-> FALSE, from |-> Absent, wanted |-> Absent,
                 base |-> 0]
    /\ step = "none" /\ isNew = FALSE /\ owed = FALSE /\ spoilt = {}

-----------------------------------------------------------------------------
(* The environment of the launch, and what git can reach from inside it.    *)

CodeRepo == IF launch.gated THEN Gate(launch.number) ELSE Upstream
SrcRepo  == IF launch.from # Absent THEN launch.from ELSE CodeRepo
HasGit   == dir.git # "none"
OnRemote(branch) == branch \in RemoteBranches

\* Only the supervisor of this launch honours its token; the shield blocks the
\* other remotes of a gated launch; the cache's path exists on the host only.
Reaches(url) ==
    \/ url = CodeRepo
    \/ url # Absent /\ url = launch.from
    \/ ~launch.gated /\ url = Url("elsewhere")
Serves(url) == IF url.at \in {"gate", "mirror"} THEN mirror ELSE upstream

Happens(failure) == failure \in Failures /\ spoilt' = spoilt \cup {failure}

-----------------------------------------------------------------------------
(* The host side of a launch.                                               *)

\* Syncing the gate refreshes the mirror and the clone cache.  Only a mounted
\* workspace without a .git is seeded, and only if there is a cache.
Launch(new, gated, from, wanted) ==
    /\ step = "none" /\ launch.number < MaxLaunches
    /\ new => place = "terok"
    /\ from # Absent => place = "terok" /\ ~gated /\ mirror > 0
    /\ mirror' = IF gated THEN upstream ELSE mirror
    /\ cache'  = IF gated THEN upstream ELSE cache
    /\ launch' = [number |-> launch.number + 1, gated |-> gated, from |-> from,
                  wanted |-> wanted,
                  base |-> IF gated \/ from # Absent THEN mirror' ELSE upstream]
    /\ dir' = [dir EXCEPT !.marker = @ \/ new]
    /\ owed' = new /\ spoilt' = {}
    /\ step' = IF place # "container" /\ ~HasGit /\ cache' > 0 THEN "copying" ELSE "created"
    /\ UNCHANGED <<upstream, place, isNew>>

Seeded(origin) == [dir EXCEPT !.git = "full", !.origin = origin, !.branch = Default,
                              !.head = cache]

\* The copy succeeds; the origin is rewritten, or that fails and is logged.
Copied ==
    /\ step = "copying" /\ step' = "created"
    /\ \/ dir' = Seeded(CodeRepo) /\ UNCHANGED spoilt
       \/ dir' = Seeded(Url("cache")) /\ Happens("setUrl")
    /\ UNCHANGED <<hostVars, launch, isNew, owed>>

\* The copy fails: whatever is in the workspace is wiped.
CopyFails ==
    /\ step = "copying" /\ step' = "created"
    /\ dir' = EmptyDir /\ Happens("copy")
    /\ UNCHANGED <<hostVars, launch, isNew, owed>>

\* cp or git is killed, or takes longer than its timeout: that exception is not
\* caught, and the launch ends with a part of the copy left behind.
CopyCut ==
    /\ step = "copying" /\ step' = "none"
    /\ \/ \E git \in {"none", "partial"} :
             dir' = [dir EXCEPT !.git = git, !.stray = TRUE]
       \/ dir' = Seeded(Url("cache"))
    /\ Happens("cut")
    /\ UNCHANGED <<hostVars, launch, isNew, owed>>

-----------------------------------------------------------------------------
(* The script, up to the first fetch.                                       *)

ScriptStarts ==
    /\ step \in {"created", "stopped", "failed", "refused"}
    /\ step' = "begin" /\ isNew' = dir.marker
    /\ UNCHANGED <<hostVars, dir, launch, owed, spoilt>>

\* A new task whose repository came from somewhere else starts from nothing.
StaleOrigin ==
    isNew /\ HasGit /\ (dir.origin = Absent \/ dir.origin \notin {CodeRepo, launch.from})

Proceed == IF isNew THEN "update" ELSE "restart"

\* Bug: only the repository is removed, not what was checked out of it.
WipeGitOnly ==
    /\ step = "begin" /\ StaleOrigin
    /\ dir' = [dir EXCEPT !.git = "none", !.origin = Absent] /\ step' = "clone"
    /\ UNCHANGED <<hostVars, launch, isNew, owed, spoilt>>

WipeStale ==
    /\ step = "begin" /\ StaleOrigin
    /\ dir' = EmptyDir /\ step' = "clone"
    /\ UNCHANGED <<hostVars, launch, isNew, owed, spoilt>>

\* Bug: the origin is fixed on new tasks only.
FixOriginOfNew ==
    /\ step = "begin" /\ ~StaleOrigin /\ HasGit
    /\ dir' = IF isNew THEN [dir EXCEPT !.origin = CodeRepo] ELSE dir
    /\ step' = Proceed
    /\ UNCHANGED <<hostVars, launch, isNew, owed, spoilt>>

FixOrigin ==
    /\ step = "begin" /\ ~StaleOrigin /\ HasGit
    /\ \/ dir.origin \in {Absent, CodeRepo} /\ UNCHANGED <<dir, spoilt>>
       \/ /\ dir.origin \notin {Absent, CodeRepo}
          /\ \/ dir' = [dir EXCEPT !.origin = CodeRepo] /\ UNCHANGED spoilt
             \/ Happens("setUrl") /\ UNCHANGED dir
    /\ step' = Proceed
    /\ UNCHANGED <<hostVars, launch, isNew, owed>>

NoRepository ==
    /\ step = "begin" /\ ~HasGit
    /\ step' = "clone"
    /\ UNCHANGED <<hostVars, dir, launch, isNew, owed, spoilt>>

-----------------------------------------------------------------------------
(* The first clone.                                                         *)

\* The marker goes first, and nothing else may be there.
BeginClone ==
    /\ step = "clone"
    /\ IF dir.stray
         THEN step' = "refused" /\ dir' = [dir EXCEPT !.marker = FALSE]
         ELSE /\ step' = "cloning"
              /\ dir' = [EmptyDir EXCEPT !.git = "partial", !.origin = SrcRepo]
    /\ UNCHANGED <<hostVars, launch, isNew, owed, spoilt>>

\* The wanted branch, or the default one if the remote lacks it.
Cloned ==
    /\ step = "cloning" /\ Reaches(SrcRepo)
    /\ dir' = [dir EXCEPT !.git = "full", !.head = Serves(SrcRepo),
                 !.branch = IF OnRemote(launch.wanted) THEN launch.wanted ELSE Default]
    /\ step' = IF SrcRepo # CodeRepo THEN "repoint" ELSE "ready"
    /\ UNCHANGED <<hostVars, launch, isNew, owed, spoilt>>

\* git removes what it had cloned, and the script ends with its error.
CloneFails ==
    /\ step = "cloning" /\ Happens("network")
    /\ dir' = EmptyDir /\ step' = "failed"
    /\ UNCHANGED <<hostVars, launch, isNew, owed>>

\* Cloned from CLONE_FROM: set-url and fetch, which may fail without ending the
\* script, and the checkout of the wanted branch, which may not.
Repoint ==
    /\ step = "repoint"
    /\ \E failing \in SUBSET ({"setUrl", "network", "checkout"} \cap Failures) :
          LET origin == IF "setUrl" \in failing THEN dir.origin ELSE CodeRepo
              moves  == OnRemote(launch.wanted)
              moved  == [dir EXCEPT !.origin = origin, !.branch = launch.wanted,
                           !.head = IF "network" \in failing THEN @ ELSE Serves(origin)]
          IN  /\ spoilt' = spoilt \cup failing
              /\ \/ ~moves /\ dir' = [dir EXCEPT !.origin = origin] /\ step' = "ready"
                 \/ moves /\ "checkout" \notin failing /\ dir' = moved /\ step' = "ready"
                 \/ /\ moves /\ "checkout" \in failing
                    /\ dir' = [dir EXCEPT !.origin = origin] /\ step' = "failed"
    /\ UNCHANGED <<hostVars, launch, isNew, owed>>

-----------------------------------------------------------------------------
(* A repository that is already there.                                      *)

\* Bug: the restarted task is reset like a new one.
RestartedReset ==
    /\ step = "restart" /\ Reaches(dir.origin)
    /\ step' = "ready"
    /\ dir' = [dir EXCEPT !.head = Serves(dir.origin), !.work = FALSE]
    /\ UNCHANGED <<hostVars, launch, isNew, owed, spoilt>>

\* No marker: fetch, and leave the rest alone (GIT_RESET_MODE is none).
Restarted ==
    /\ step = "restart" /\ Reaches(dir.origin)
    /\ step' = "ready"
    /\ UNCHANGED <<hostVars, dir, launch, isNew, owed, spoilt>>

FetchFails ==
    /\ step \in {"update", "restart"}
    /\ \/ Happens("network")
       \/ /\ dir.origin = Absent \/ ~Reaches(dir.origin) \/ dir.git = "partial"
          /\ UNCHANGED spoilt
    /\ step' = "failed"
    /\ UNCHANGED <<hostVars, dir, launch, isNew, owed>>

\* clean -fd removes what git does not know, the marker included.
Cleaned(d) == [d EXCEPT !.stray = FALSE, !.marker = FALSE]

\* checkout -B to the wanted branch; edits that do not conflict stay.
CheckedOut ==
    \E kept \in {dir.work, FALSE} :
       dir' = Cleaned([dir EXCEPT !.git = "full", !.branch = launch.wanted,
                                  !.head = Serves(dir.origin), !.work = kept])

\* Bug: without a wanted branch there is no reset.
ResetToRemoteSkipped ==
    /\ OnRemote(dir.branch)
    /\ dir' = Cleaned(dir)

\* reset_to_current_remote: reset --hard, unless upstream lacks the branch or,
\* in a damaged repository, HEAD names none.
ResetToRemote ==
    /\ OnRemote(dir.branch)
    /\ dir' = Cleaned([dir EXCEPT !.git = "full", !.head = Serves(dir.origin),
                                  !.work = FALSE])

\* A new task over a repository: fetch, check out or reset, clean, unmark.
Updated ==
    /\ step = "update" /\ dir.origin # Absent /\ Reaches(dir.origin)
    /\ \/ OnRemote(launch.wanted) /\ CheckedOut /\ UNCHANGED spoilt
       \/ OnRemote(launch.wanted) /\ Happens("checkout") /\ dir' = Cleaned(dir)
       \/ ~OnRemote(launch.wanted) /\ ResetToRemote /\ UNCHANGED spoilt
       \/ ~OnRemote(launch.wanted) /\ Happens("reset") /\ dir' = Cleaned(dir)
       \/ /\ ~OnRemote(launch.wanted)
          /\ ~OnRemote(dir.branch) \/ dir.git = "partial"
          /\ dir' = Cleaned(dir) /\ UNCHANGED spoilt
    /\ step' = "ready"
    /\ UNCHANGED <<hostVars, launch, isNew, owed>>

-----------------------------------------------------------------------------
(* The life around it.                                                      *)

\* The agent edits and commits, on this branch or on one of its own.
Work ==
    /\ step = "ready"
    /\ \E branch \in {dir.branch, Local} :
          dir' = [dir EXCEPT !.work = TRUE, !.branch = branch]
    /\ owed' = FALSE
    /\ UNCHANGED <<hostVars, launch, step, isNew, spoilt>>

\* What a wipe that is cut short may leave: files without the repository they
\* belonged to, or a damaged repository.
HalfWiped ==
    {[EmptyDir EXCEPT !.marker = marker, !.stray = TRUE] : marker \in BOOLEAN}
    \cup {[dir EXCEPT !.marker = marker, !.git = "partial", !.stray = FALSE] :
             marker \in BOOLEAN}

\* podman stop ends in a SIGKILL: the script is stopped wherever it is, a wipe
\* half done and a clone as far as it got.
ScriptStops ==
    /\ step \in {"begin", "clone", "cloning", "repoint", "update", "restart", "ready"}
    /\ step' = "stopped"
    /\ IF step = "begin" /\ StaleOrigin
         THEN dir' \in HalfWiped /\ Happens("cut")
         ELSE /\ UNCHANGED dir
              /\ IF step \in {"cloning", "repoint"} THEN Happens("cut")
                                                     ELSE UNCHANGED spoilt
    /\ UNCHANGED <<hostVars, launch, isNew, owed>>

ContainerRemoved ==
    /\ step \in {"created", "stopped", "failed", "refused"}
    /\ step' = "none"
    /\ dir' = IF place = "container" THEN EmptyDir ELSE dir
    /\ UNCHANGED <<hostVars, launch, isNew, owed, spoilt>>

Advance ==
    /\ upstream < MaxCommits /\ upstream' = upstream + 1
    /\ UNCHANGED <<mirror, cache, place, dir, launch, step, isNew, owed, spoilt>>

-----------------------------------------------------------------------------
Script == \/ WipeStale \/ FixOrigin \/ NoRepository
          \/ BeginClone \/ Cloned \/ CloneFails \/ Repoint
          \/ Restarted \/ FetchFails \/ Updated

WorkspaceNext ==
    \/ \E new, gated \in BOOLEAN, from \in {Absent, Mirror}, wanted \in Wanted :
          Launch(new, gated, from, wanted)
    \/ Copied \/ CopyFails \/ CopyCut
    \/ ScriptStarts \/ Script \/ Work \/ ScriptStops \/ ContainerRemoved \/ Advance

WorkspaceSpec == WorkspaceInit /\ [][WorkspaceNext]_workspaceVars

-----------------------------------------------------------------------------
(* Properties.                                                              *)

Contents ==
    [marker : BOOLEAN, git : {"none", "partial", "full"}, origin : Urls \cup {Absent},
     branch : Branches, head : Commits, work : BOOLEAN, stray : BOOLEAN]

WorkspaceTypeOK ==
    /\ upstream \in Commits /\ mirror \in Commits /\ cache \in Commits
    /\ place \in {"user", "terok", "container"}
    /\ dir \in Contents /\ (dir.work => HasGit)
    /\ launch \in [number : 0 .. MaxLaunches, gated : BOOLEAN, from : {Absent, Mirror},
                   wanted : Wanted, base : Commits]
    /\ step \in {"none", "copying", "created", "begin", "clone", "cloning", "repoint",
               "update", "restart", "ready", "stopped", "failed", "refused"}
    /\ isNew \in BOOLEAN /\ owed \in BOOLEAN /\ spoilt \subseteq AllFailures

\* Work survives stops, restarts and relaunches (launch-modes.md:64-68, the
\* script's marker protocol, lines 168-181): only a new task, or the removal of
\* a workspace kept in the container, may drop commits and edits.
WorkSurvives ==
    [][dir.work /\ ~dir'.work =>
          \/ isNew /\ step # "ready"
          \/ place = "container" /\ step' = "none"]_workspaceVars

\* When the script is done, origin is the CODE_REPO of this very launch, not one
\* that an earlier launch has left (script, lines 205-210).
OriginIsCodeRepo ==
    step = "ready" => dir.origin = CodeRepo \/ "setUrl" \in spoilt

\* The newest commit the launch could know of, on the branch it asked for.
Fresh ==
    /\ dir.git = "full" /\ dir.head >= launch.base
    /\ OnRemote(launch.wanted) => dir.branch = launch.wanted

\* New tasks always start with fresh code (script, lines 178-181), unless the
\* script was killed half way, a git command failed, or it found an abandoned
\* workspace damaged or on a branch that upstream does not have.
NewTaskStartsFresh ==
    step = "ready" /\ owed =>
        \/ Fresh
        \/ spoilt \cap {"cut", "checkout", "reset"} # {}
        \/ dir.branch = Local \/ dir.git = "partial"

\* The marker is removed only after a successful checkout or reset, and kept for
\* a retry otherwise (script, lines 305 and 317).
MarkerKeptForRetry ==
    step = "ready" /\ owed => Fresh \/ dir.marker

=============================================================================
