-------------------------- MODULE WorkspaceProofs --------------------------
(***************************************************************************)
(* Proofs about Workspace: its types, and what holds of the origin and of  *)
(* the agent's work, for any number of launches, commits and branches.     *)
(***************************************************************************)
EXTENDS Workspace, TLAPS

\* Whatever runs, runs in a launch; and where the repository is known to be.
Launched ==
    /\ step # "none" => launch.number \in Launches
    /\ step = "copying" => ~HasGit
    /\ step \in {"cloning", "repoint", "update", "restart", "ready"} => HasGit

\* What the script has read of the marker, and when the marker is gone.
MarkerRead ==
    /\ step \in {"begin", "update"} => isNew = dir.marker
    /\ step = "update" => isNew
    /\ step \in {"clone", "cloning", "copying"} => ~dir.work
    /\ step = "clone" => ~HasGit
    /\ step \in {"cloning", "repoint", "restart", "ready"} => ~dir.marker

\* Where origin points while the script runs.
OriginKnown ==
    /\ step = "update" => dir.origin # Absent /\ dir.origin \in {CodeRepo, launch.from}
    /\ step \in {"update", "restart"} =>
          dir.origin \in {Absent, CodeRepo} \/ "setUrl" \in spoilt
    /\ step = "ready" => dir.origin = CodeRepo \/ "setUrl" \in spoilt
    /\ step \in {"cloning", "repoint"} => dir.origin = SrcRepo

\* The launch's commit can be had wherever the launch may clone or fetch from.
BaseServed ==
    /\ mirror \in 0 .. upstream
    /\ step # "none" => /\ launch.base \in 0 .. upstream
                        /\ launch.gated \/ launch.from # Absent => launch.base \in 0 .. mirror

\* Why a workspace may be stale, and what becomes of a new task meanwhile.
Excused ==
    \/ spoilt \cap {"cut", "checkout", "reset"} # {}
    \/ dir.branch = Local \/ dir.git = "partial"
OwedIsPending ==
    /\ owed => dir.marker \/ ~HasGit \/ Fresh \/ Excused
    /\ owed /\ step = "copying" => dir.marker
    /\ step = "repoint" => Fresh

Pcs == {"none", "copying", "created", "begin", "clone", "cloning", "repoint",
        "update", "restart", "ready", "stopped", "failed", "refused"}
Envs == [number : 0 .. MaxLaunches, gated : BOOLEAN, from : {Absent, Mirror},
         wanted : Wanted, base : Commits]

\* What each action may make of the directory is a directory again.
LEMMA UrlsTyped ==
    ASSUME launch \in Envs, launch.number \in Launches
    PROVE  CodeRepo \in Urls /\ SrcRepo \in Urls \cup {Absent}
           /\ Url("cache") \in Urls /\ Url("elsewhere") \in Urls
BY DEF Envs, CodeRepo, SrcRepo, Urls, Upstream, Mirror

\* The contents a directory may be given are typed.
LEMMA EmptyTyped == EmptyDir \in Contents
BY BoundsAssumption, BranchAssumption DEF EmptyDir, Contents, Commits, Branches

\* So are those of a copy and of a clone.
LEMMA FilesTyped == Files \in Contents /\ Checkout \in Contents
<1>1. Url("elsewhere") \in Urls \cup {Absent}
  BY DEF Urls
<1> QED BY <1>1, EmptyTyped DEF Files, Checkout, Contents

\* None of them holds work.
LEMMA NoWork == ~EmptyDir.work /\ ~Files.work /\ EmptyDir.git = "none" /\ Checkout.git = "full"
<1>1. ~EmptyDir.work /\ EmptyDir.git = "none"
  BY DEF EmptyDir
<1>2. ~Files.work /\ Checkout.git = "full"
  BY <1>1, EmptyTyped DEF Files, Checkout, Contents
<1> QED BY <1>1, <1>2

\* The types hold at the beginning.
LEMMA InitTyped == WorkspaceInit => WorkspaceTypeOK /\ Launched
<1> SUFFICES ASSUME WorkspaceInit PROVE WorkspaceTypeOK /\ Launched
  OBVIOUS
<1>1. dir \in Contents /\ (dir.work => HasGit)
  BY EmptyTyped, FilesTyped, NoWork DEF WorkspaceInit, HasGit
<1>2. 0 \in Commits /\ 1 \in Commits /\ 0 \in 0 .. MaxLaunches
  BY BoundsAssumption DEF Commits
<1>3. launch \in Envs
  BY <1>2, WantedAssumption DEF WorkspaceInit, Envs
<1> QED BY <1>1, <1>2, <1>3 DEF WorkspaceInit, WorkspaceTypeOK, Envs, Launched

\* What follows leaves the launch and the upstream side alone.
Inner == \/ Copied \/ CopyFails \/ CopyCut \/ ScriptStarts \/ Script \/ Work \/ ScriptStops \/ ContainerRemoved

\* A command of the script leaves a typed directory.
LEMMA InnerTyped ==
    ASSUME WorkspaceTypeOK, Launched, Inner
    PROVE  dir' \in Contents /\ (dir'.work => dir'.git # "none")
<1>0. /\ dir \in Contents /\ (dir.work => dir.git # "none")
      /\ upstream \in Commits /\ mirror \in Commits /\ cache \in Commits
      /\ launch \in Envs /\ (step # "none" => launch.number \in Launches)
      /\ (step = "copying" => dir.git = "none") /\ (step = "ready" => dir.git # "none")
  BY DEF WorkspaceTypeOK, Launched, Envs, HasGit
<1>1. \A url : Serves(url) \in Commits
  BY <1>0 DEF Serves
<1>2. Default \in Branches /\ Local \in Branches
      /\ (OnRemote(launch.wanted) => launch.wanted \in Branches)
  BY BranchAssumption DEF Branches, OnRemote
<1>3. step # "none" => CodeRepo \in Urls \cup {Absent} /\ SrcRepo \in Urls \cup {Absent}
                     /\ Url("cache") \in Urls \cup {Absent}
  BY <1>0, UrlsTyped
<1>4. EmptyDir \in Contents /\ ~EmptyDir.work /\ EmptyDir.git = "none"
  BY EmptyTyped, NoWork
<1>5. \A origin \in Urls \cup {Absent} :
         Seeded(origin) \in Contents /\ Seeded(origin).git = "full"
  BY <1>0, <1>2 DEF Seeded, Contents
<1>6. CASE Copied
  BY <1>6, <1>3, <1>5 DEF Copied
<1>7. CASE CopyFails
  BY <1>7, <1>4 DEF CopyFails
<1>8. CASE CopyCut
  <2>1. ASSUME NEW git \in {"none", "partial"},
               dir' = [dir EXCEPT !.git = git, !.stray = TRUE]
        PROVE  dir' \in Contents /\ ~dir'.work
    BY <2>1, <1>8, <1>0 DEF CopyCut, Contents
  <2>2. CASE dir' = Seeded(Url("cache"))
    BY <2>2, <1>8, <1>3, <1>5 DEF CopyCut
  <2> QED BY <2>1, <2>2, <1>8 DEF CopyCut
<1>9. CASE ScriptStarts
  BY <1>9, <1>0 DEF ScriptStarts
<1>10. CASE Work
  <2>1. PICK branch \in {dir.branch, Local} :
            dir' = [dir EXCEPT !.work = TRUE, !.branch = branch]
    BY <1>10 DEF Work
  <2>2. branch \in Branches /\ dir.git \in {"partial", "full"}
    BY <1>0, <1>2, <1>10 DEF Work, Contents
  <2> QED BY <2>1, <2>2, <1>0 DEF Contents
<1>11. CASE ScriptStops
  <2>1. \A d \in HalfWiped : d \in Contents /\ (d.work => d.git # "none")
    <3>1. \A marker \in BOOLEAN :
             LET d == [EmptyDir EXCEPT !.marker = marker, !.stray = TRUE]
             IN  d \in Contents /\ ~d.work
      BY <1>4 DEF Contents
    <3>2. \A marker \in BOOLEAN :
             LET d == [dir EXCEPT !.marker = marker, !.git = "partial", !.stray = FALSE]
             IN  d \in Contents /\ d.git = "partial"
      BY <1>0 DEF Contents
    <3> QED BY <3>1, <3>2 DEF HalfWiped
  <2> QED BY <2>1, <1>11, <1>0 DEF ScriptStops
<1>12. CASE ContainerRemoved
  BY <1>12, <1>0, <1>4 DEF ContainerRemoved
<1>13. CASE WipeStale
  BY <1>13, <1>4 DEF WipeStale
<1>14. CASE FixOrigin
  <2>1. dir' \in {dir, [dir EXCEPT !.origin = CodeRepo]} /\ step = "begin"
    BY <1>14 DEF FixOrigin
  <2>2. [dir EXCEPT !.origin = CodeRepo] \in Contents
    BY <2>1, <1>0, <1>3 DEF Contents
  <2>3. [dir EXCEPT !.origin = CodeRepo].work = dir.work
        /\ [dir EXCEPT !.origin = CodeRepo].git = dir.git
    BY <1>0 DEF Contents
  <2> QED BY <2>1, <2>2, <2>3, <1>0
<1>15. CASE NoRepository
  BY <1>15, <1>0 DEF NoRepository
<1>16. CASE BeginClone
  <2>1. dir' \in {[dir EXCEPT !.marker = FALSE],
                 [EmptyDir EXCEPT !.git = "partial", !.origin = SrcRepo]} /\ step = "clone"
    BY <1>16 DEF BeginClone
  <2>2. CASE dir' = [dir EXCEPT !.marker = FALSE]
    BY <2>2, <1>0 DEF Contents
  <2>3. CASE dir' = [EmptyDir EXCEPT !.git = "partial", !.origin = SrcRepo]
    BY <2>1, <2>3, <1>3, <1>4 DEF Contents
  <2> QED BY <2>1, <2>2, <2>3
<1>17. CASE Cloned
  <2>1. PICK branch \in Branches, head \in Commits :
            dir' = [dir EXCEPT !.git = "full", !.head = head, !.branch = branch]
    BY <1>17, <1>1, <1>2 DEF Cloned
  <2> QED BY <2>1, <1>0 DEF Contents
<1>18. CASE CloneFails
  BY <1>18, <1>4 DEF CloneFails
<1>19. CASE Repoint
  <2> PICK failing \in SUBSET ({"setUrl", "network", "checkout"} \cap Failures) :
         LET origin == IF "setUrl" \in failing THEN dir.origin ELSE CodeRepo
             head   == IF "network" \in failing THEN dir.head ELSE Serves(origin)
         IN  \/ dir' = [dir EXCEPT !.origin = origin]
             \/ /\ OnRemote(launch.wanted)
                /\ dir' = [dir EXCEPT !.origin = origin, !.branch = launch.wanted, !.head = head]
    BY <1>19, <1>0 DEF Repoint, Contents
  <2> DEFINE origin == IF "setUrl" \in failing THEN dir.origin ELSE CodeRepo
             head   == IF "network" \in failing THEN dir.head ELSE Serves(origin)
  <2>1. origin \in Urls \cup {Absent} /\ head \in Commits
    BY <1>19, <1>0, <1>1, <1>3 DEF Repoint, Contents
  <2> HIDE DEF origin, head
  <2>2. CASE dir' = [dir EXCEPT !.origin = origin]
    BY <2>1, <2>2, <1>0, <1>19 DEF Contents, Repoint
  <2>3. CASE /\ OnRemote(launch.wanted)
             /\ dir' = [dir EXCEPT !.origin = origin, !.branch = launch.wanted, !.head = head]
    BY <2>1, <2>3, <1>0, <1>2 DEF Contents
  <2> QED BY <2>2, <2>3 DEF origin, head
<1>20. CASE Restarted
  BY <1>20, <1>0 DEF Restarted
<1>21. CASE FetchFails
  BY <1>21, <1>0 DEF FetchFails
<1>22. CASE Updated
  <2>0. Serves(dir.origin) \in Commits
    BY <1>1
  <2>1. Cleaned(dir) \in Contents /\ Cleaned(dir).work = dir.work
        /\ Cleaned(dir).git = dir.git
    BY <1>0 DEF Cleaned, Contents
  <2>2. CASE OnRemote(launch.wanted) /\ CheckedOut
    BY <2>0, <2>2, <1>0, <1>2 DEF CheckedOut, Cleaned, Contents
  <2>3. CASE ResetToRemote
    BY <2>0, <2>3, <1>0 DEF ResetToRemote, Cleaned, Contents
  <2>4. CASE dir' = Cleaned(dir)
    BY <2>1, <2>4, <1>0
  <2> QED BY <2>2, <2>3, <2>4, <1>22 DEF Updated
<1> QED BY <1>6, <1>7, <1>8, <1>9, <1>10, <1>11, <1>12, <1>13, <1>14, <1>15, <1>16, <1>17, <1>18, <1>19, <1>20, <1>21, <1>22 DEF Inner, Script

\* So does a launch.
LEMMA LaunchTyped ==
    ASSUME WorkspaceTypeOK, Launched,
           NEW new \in BOOLEAN, NEW gated \in BOOLEAN, NEW from \in {Absent, Mirror},
           NEW wanted \in Wanted, Launch(new, gated, from, wanted)
    PROVE  WorkspaceTypeOK' /\ Launched'
<1>0. /\ dir \in Contents /\ (dir.work => dir.git # "none")
      /\ upstream \in Commits /\ mirror \in Commits /\ cache \in Commits
      /\ launch \in Envs
  BY DEF WorkspaceTypeOK, Envs, HasGit
<1>1. mirror' \in Commits /\ cache' \in Commits
  BY <1>0 DEF Launch
<1>2. launch.number + 1 \in Launches
  BY <1>0, BoundsAssumption DEF Launch, Envs, Launches
<1>3. launch' \in Envs /\ launch'.number \in Launches
  <2> DEFINE base == IF gated \/ from # Absent THEN mirror' ELSE upstream
  <2>1. base \in Commits
    BY <1>0, <1>1
  <2>2. launch' = [number |-> launch.number + 1, gated |-> gated, from |-> from,
                   wanted |-> wanted, base |-> base]
    BY DEF Launch
  <2>3. launch.number + 1 \in 0 .. MaxLaunches
    BY <1>2, BoundsAssumption DEF Launches
  <2> HIDE DEF base
  <2> QED BY <2>1, <2>2, <2>3, <1>2 DEF Envs
<1>4. dir' \in Contents /\ dir'.work = dir.work /\ dir'.git = dir.git
  <2>1. (dir.marker \/ new) \in BOOLEAN
    OBVIOUS
  <2>2. dir' = [dir EXCEPT !.marker = dir.marker \/ new]
    BY <1>0 DEF Launch, Contents
  <2> QED BY <2>1, <2>2, <1>0 DEF Contents
<1>5. step' \in {"copying", "created"} /\ (step' = "copying" => dir'.git = "none")
  BY <1>4 DEF Launch, HasGit
<1> QED BY <1>0, <1>1, <1>3, <1>4, <1>5 DEF Launch, WorkspaceTypeOK, Launched, HasGit, Envs, AllFailures

\* Every step.
LEMMA StepTyped ==
    ASSUME WorkspaceTypeOK, Launched, [WorkspaceNext]_workspaceVars
    PROVE  WorkspaceTypeOK' /\ Launched'
<1>1. ASSUME NEW new \in BOOLEAN, NEW gated \in BOOLEAN, NEW from \in {Absent, Mirror},
             NEW wanted \in Wanted, Launch(new, gated, from, wanted)
      PROVE  WorkspaceTypeOK' /\ Launched'
  BY <1>1, LaunchTyped
<1>2. CASE Inner
  <2>1. dir' \in Contents /\ (dir'.work => dir'.git # "none")
    BY <1>2, InnerTyped
  <2>2. upstream' \in Commits /\ mirror' \in Commits /\ cache' \in Commits
        /\ place' \in {"user", "terok", "container"} /\ launch' \in Envs
        /\ launch' = launch
    BY <1>2 DEF Inner, Script, WorkspaceTypeOK, Envs, hostVars, Copied, CopyFails, CopyCut, ScriptStarts,
       Work, ScriptStops, ContainerRemoved, WipeStale, FixOrigin, NoRepository, BeginClone, Cloned,
       CloneFails, Repoint, Restarted, FetchFails, Updated
  <2>3. isNew' \in BOOLEAN /\ owed' \in BOOLEAN
    BY <1>2 DEF Inner, Script, WorkspaceTypeOK, Contents, Copied, CopyFails, CopyCut, ScriptStarts,
       Work, ScriptStops, ContainerRemoved, WipeStale, FixOrigin, NoRepository, BeginClone, Cloned,
       CloneFails, Repoint, Restarted, FetchFails, Updated
  <2>4. spoilt' \subseteq AllFailures
    <3>1. spoilt \subseteq AllFailures
      BY DEF WorkspaceTypeOK
    <3>2. \A failure : Happens(failure) => spoilt' \subseteq AllFailures
      BY <3>1, FailureAssumption DEF Happens
    <3>3. CASE Repoint
      BY <3>3, <3>1, FailureAssumption DEF Repoint
    <3>4. CASE spoilt' = spoilt
      BY <3>1, <3>4
    <3> QED BY <1>2, <3>2, <3>3, <3>4 DEF Inner, Script, Copied, CopyFails, CopyCut, ScriptStarts,
       Work, ScriptStops, ContainerRemoved, WipeStale, FixOrigin, NoRepository, BeginClone, Cloned,
       CloneFails, Restarted, FetchFails, Updated
  <2>5. step' \in Pcs /\ Launched'
    <3> USE <2>2 DEF Launched, Pcs, HasGit, WorkspaceTypeOK
    <3>1. CASE Copied \/ CopyFails \/ CopyCut
      <4>1. step' \in {"created", "none"} /\ step # "none"
        BY <3>1 DEF Copied, CopyFails, CopyCut
      <4> QED BY <4>1
    <3>2. CASE ScriptStarts \/ ScriptStops \/ ContainerRemoved
      <4>1. step' \in {"begin", "stopped", "none"} /\ step # "none"
        BY <3>2 DEF ScriptStarts, ScriptStops, ContainerRemoved
      <4> QED BY <4>1
    <3>3. CASE Work
      <4>1. step' = "ready" /\ step = "ready" /\ dir'.git = dir.git
        BY <3>3 DEF Work, Contents
      <4> QED BY <4>1
    <3>4. CASE WipeStale \/ NoRepository \/ CloneFails \/ FetchFails
      <4>1. step' \in {"clone", "failed"} /\ step # "none"
        BY <3>4 DEF WipeStale, NoRepository, CloneFails, FetchFails
      <4> QED BY <4>1
    <3>5. CASE FixOrigin
      <4>1. step' \in {"update", "restart"} /\ step # "none" /\ dir.git # "none"
            /\ dir'.git = dir.git
        BY <3>5 DEF FixOrigin, Proceed, Contents
      <4> QED BY <4>1
    <3>6. CASE BeginClone
      <4>1. CASE dir.stray
        BY <3>6, <4>1 DEF BeginClone
      <4>2. CASE ~dir.stray
        <5>1. dir'.git = "partial"
          BY <3>6, <4>2, EmptyTyped DEF BeginClone, Contents
        <5> QED BY <3>6, <4>2, <5>1 DEF BeginClone
      <4> QED BY <4>1, <4>2
    <3>7. CASE Cloned
      <4>1. step' \in {"ready", "repoint"} /\ step # "none" /\ dir'.git = "full"
        BY <3>7 DEF Cloned, Contents
      <4> QED BY <4>1
    <3>8. CASE Repoint
      <4>1. step' \in {"ready", "failed"} /\ step = "repoint" /\ dir'.git = dir.git
        BY <3>8 DEF Repoint, Contents
      <4> QED BY <4>1
    <3>9. CASE Restarted
      BY <3>9 DEF Restarted
    <3>10. CASE Updated
      <4>1. step' = "ready" /\ step = "update"
        BY <3>10 DEF Updated
      <4>2. dir'.git \in {"full", dir.git}
        BY <3>10 DEF Updated, CheckedOut, ResetToRemote, Cleaned, Contents
      <4> QED BY <4>1, <4>2
    <3> QED BY <1>2, <3>1, <3>2, <3>3, <3>4, <3>5, <3>6, <3>7, <3>8, <3>9, <3>10
            DEF Inner, Script
  <2> QED BY <2>1, <2>2, <2>3, <2>4, <2>5 DEF WorkspaceTypeOK, Envs, Pcs, HasGit
<1>3. CASE Advance
  BY <1>3, BoundsAssumption DEF Advance, WorkspaceTypeOK, Launched, HasGit, Commits
<1>4. CASE UNCHANGED workspaceVars
  BY <1>4 DEF workspaceVars, WorkspaceTypeOK, Launched, HasGit
<1> QED BY <1>1, <1>2, <1>3, <1>4 DEF WorkspaceNext, Inner, Script

\* WorkspaceSpec => []WorkspaceTypeOK: every workspace, launch and script state has
\* its type, and there is work only where there is a repository.
THEOREM TypeCorrect == WorkspaceSpec => []WorkspaceTypeOK
<1>1. WorkspaceInit => WorkspaceTypeOK /\ Launched
  BY InitTyped
<1>2. WorkspaceTypeOK /\ Launched /\ [WorkspaceNext]_workspaceVars => WorkspaceTypeOK' /\ Launched'
  BY StepTyped
<1> QED BY <1>1, <1>2, PTL DEF WorkspaceSpec

-----------------------------------------------------------------------------
(* What the script knows of the marker and of the origin.                   *)

\* All three hold before the first launch.
LEMMA InitKnown == WorkspaceInit => MarkerRead /\ OriginKnown /\ BaseServed
BY BoundsAssumption DEF WorkspaceInit, MarkerRead, OriginKnown, BaseServed

\* A script acts on the marker that its own start has read.
LEMMA MarkerReadStep ==
    ASSUME WorkspaceTypeOK, Launched, MarkerRead, [WorkspaceNext]_workspaceVars
    PROVE  MarkerRead'
<1>0. dir \in Contents /\ (dir.work => dir.git # "none")
  BY DEF WorkspaceTypeOK, HasGit
<1>1. EmptyDir \in Contents /\ ~EmptyDir.work /\ EmptyDir.git = "none" /\ ~EmptyDir.marker
  BY EmptyTyped, NoWork DEF EmptyDir
<1>2. ASSUME NEW new \in BOOLEAN, NEW gated \in BOOLEAN, NEW from \in {Absent, Mirror},
             NEW wanted \in Wanted, Launch(new, gated, from, wanted)
      PROVE  MarkerRead'
  BY <1>2, <1>0 DEF Launch, MarkerRead, HasGit, Contents
<1>3. CASE Copied \/ CopyFails \/ CopyCut \/ FetchFails \/ CloneFails \/ ScriptStops \/ ContainerRemoved
  <2>1. step' \in {"created", "none", "failed", "stopped"}
    BY <1>3 DEF Copied, CopyFails, CopyCut, FetchFails, CloneFails, ScriptStops, ContainerRemoved
  <2> QED BY <2>1 DEF MarkerRead
<1>4. CASE ScriptStarts
  BY <1>4 DEF ScriptStarts, MarkerRead
<1>5. CASE WipeStale
  BY <1>5, <1>1 DEF WipeStale, MarkerRead, HasGit
<1>6. CASE FixOrigin
  <2>1. dir'.marker = dir.marker /\ step' = Proceed /\ isNew' = isNew /\ isNew = dir.marker
    BY <1>6, <1>0 DEF FixOrigin, Contents, MarkerRead
  <2> QED BY <2>1, <1>0 DEF Proceed, MarkerRead, Contents
<1>7. CASE NoRepository
  BY <1>7, <1>0 DEF NoRepository, MarkerRead, HasGit
<1>8. CASE BeginClone
  <2>1. CASE dir.stray
    BY <1>8, <2>1 DEF BeginClone, MarkerRead
  <2>2. CASE ~dir.stray
    <3>1. step' = "cloning" /\ ~dir'.work /\ ~dir'.marker
      BY <1>8, <1>1, <2>2 DEF BeginClone, Contents
    <3> QED BY <3>1 DEF MarkerRead
  <2> QED BY <2>1, <2>2
<1>9. CASE Cloned
  <2>1. ~dir'.marker /\ step' \in {"ready", "repoint"}
    BY <1>9, <1>0 DEF Cloned, Contents, MarkerRead
  <2> QED BY <2>1 DEF MarkerRead
<1>10. CASE Repoint
  <2>1. dir'.marker = dir.marker /\ ~dir.marker /\ step' \in {"ready", "failed"}
    BY <1>10, <1>0 DEF Repoint, Contents, MarkerRead
  <2> QED BY <2>1 DEF MarkerRead
<1>11. CASE Restarted
  BY <1>11 DEF Restarted, MarkerRead
<1>12. CASE Updated
  <2>1. ~dir'.marker /\ step' = "ready"
    BY <1>12, <1>0 DEF Updated, CheckedOut, ResetToRemote, Cleaned, Contents
  <2> QED BY <2>1 DEF MarkerRead
<1>13. CASE Work
  <2>1. ~dir'.marker /\ step' = "ready"
    BY <1>13, <1>0 DEF Work, Contents, MarkerRead
  <2> QED BY <2>1 DEF MarkerRead
<1>14. CASE Advance \/ UNCHANGED workspaceVars
  BY <1>14 DEF Advance, workspaceVars, MarkerRead, HasGit
<1> QED BY <1>2, <1>3, <1>4, <1>5, <1>6, <1>7, <1>8, <1>9, <1>10, <1>11, <1>12, <1>13, <1>14
        DEF WorkspaceNext, Script

\* Where the script has come to tells where origin points, unless a set-url failed.
LEMMA OriginKnownStep ==
    ASSUME WorkspaceTypeOK, Launched, MarkerRead, OriginKnown,
           [WorkspaceNext]_workspaceVars
    PROVE  OriginKnown'
<1>0. dir \in Contents /\ launch \in Envs /\ (step # "none" => CodeRepo \in Urls)
  BY UrlsTyped DEF WorkspaceTypeOK, Envs, Launched
<1>1. ASSUME NEW new \in BOOLEAN, NEW gated \in BOOLEAN, NEW from \in {Absent, Mirror},
             NEW wanted \in Wanted, Launch(new, gated, from, wanted)
      PROVE  OriginKnown'
  <2>1. step' \in {"copying", "created"}
    BY <1>1 DEF Launch
  <2> QED BY <2>1 DEF OriginKnown
<1>2. CASE \/ Copied \/ CopyFails \/ CopyCut \/ ScriptStarts \/ FetchFails \/ CloneFails
           \/ WipeStale \/ NoRepository \/ ScriptStops \/ ContainerRemoved
  <2>1. step' \notin {"cloning", "repoint", "update", "restart", "ready"}
    BY <1>2 DEF Copied, CopyFails, CopyCut, ScriptStarts, FetchFails, CloneFails, WipeStale,
                NoRepository, ScriptStops, ContainerRemoved
  <2> QED BY <2>1 DEF OriginKnown
<1>3. ASSUME UNCHANGED launch PROVE CodeRepo' = CodeRepo /\ SrcRepo' = SrcRepo
  BY <1>3 DEF CodeRepo, SrcRepo
<1>4. CASE FixOrigin
  <2>1. \/ dir.origin \in {Absent, CodeRepo} /\ dir' = dir
        \/ dir'.origin = CodeRepo
        \/ dir' = dir /\ "setUrl" \in spoilt'
    <3>1. CASE dir' = [dir EXCEPT !.origin = CodeRepo]
      BY <3>1, <1>0 DEF Contents
    <3>2. CASE UNCHANGED dir /\ Happens("setUrl")
      BY <3>2 DEF Happens
    <3> QED BY <1>4, <3>1, <3>2 DEF FixOrigin
  <2>2. isNew => dir.origin # Absent /\ dir.origin \in {CodeRepo, launch.from}
    BY <1>4 DEF FixOrigin, StaleOrigin
  <2>3. UNCHANGED launch /\ step' = Proceed /\ CodeRepo # Absent
    BY <1>4, <1>0, AbsentAssumption DEF FixOrigin
  <2> QED BY <2>1, <2>2, <2>3, <1>3 DEF OriginKnown, Proceed
<1>5. CASE BeginClone
  <2>1. CASE dir.stray
    BY <1>5, <2>1 DEF BeginClone, OriginKnown
  <2>2. CASE ~dir.stray
    <3>1. step' = "cloning" /\ UNCHANGED launch /\ dir'.origin = SrcRepo
      BY <1>5, <2>2, EmptyTyped DEF BeginClone, Contents
    <3> QED BY <3>1, <1>3 DEF OriginKnown
  <2> QED BY <2>1, <2>2
<1>6. CASE Cloned
  <2>1. dir'.origin = dir.origin /\ dir.origin = SrcRepo /\ UNCHANGED launch
    BY <1>6, <1>0 DEF Cloned, Contents, OriginKnown
  <2>2. step' = "repoint" \/ (step' = "ready" /\ SrcRepo = CodeRepo)
    BY <1>6 DEF Cloned
  <2> QED BY <2>1, <2>2, <1>3 DEF OriginKnown
<1>7. CASE Repoint
  <2>1. /\ UNCHANGED launch /\ step' \in {"ready", "failed"}
        /\ dir'.origin = CodeRepo \/ "setUrl" \in spoilt'
    BY <1>7, <1>0 DEF Repoint, Contents
  <2> QED BY <2>1, <1>3 DEF OriginKnown
<1>8. CASE Restarted \/ Updated
  <2>1. step' = "ready" /\ UNCHANGED launch /\ Reaches(dir.origin) /\ dir'.origin = dir.origin
        /\ spoilt \subseteq spoilt'
    BY <1>8, <1>0 DEF Restarted, Updated, Happens, CheckedOut, ResetToRemote, Cleaned, Contents
  <2>2. dir.origin # Absent
    BY <2>1, <1>0, <1>8, AbsentAssumption DEF Reaches, Urls, Restarted, Updated
  <2>3. dir.origin = CodeRepo \/ "setUrl" \in spoilt
    BY <2>2, <1>8 DEF OriginKnown, Restarted, Updated
  <2> QED BY <2>1, <2>3, <1>3 DEF OriginKnown
<1>9. CASE Work
  <2>1. dir'.origin = dir.origin /\ UNCHANGED <<step, launch, spoilt>> /\ step = "ready"
    BY <1>9, <1>0 DEF Work, Contents
  <2> QED BY <2>1, <1>3 DEF OriginKnown
<1>10. CASE Advance \/ UNCHANGED workspaceVars
  BY <1>10, <1>3 DEF Advance, workspaceVars, OriginKnown
<1> QED BY <1>1, <1>2, <1>4, <1>5, <1>6, <1>7, <1>8, <1>9, <1>10 DEF WorkspaceNext, Script

\* WorkspaceSpec => []OriginIsCodeRepo: whenever the script has finished its repository
\* part, git fetches from and pushes to the CODE_REPO of the current launch,
\* whatever earlier launches left, unless a set-url failed.
THEOREM OriginOfThisLaunch == WorkspaceSpec => []OriginIsCodeRepo
<1> DEFINE IInv == WorkspaceTypeOK /\ Launched /\ MarkerRead /\ OriginKnown
<1>1. WorkspaceInit => IInv
  BY InitTyped, InitKnown
<1>2. IInv /\ [WorkspaceNext]_workspaceVars => IInv'
  BY StepTyped, MarkerReadStep, OriginKnownStep
<1>3. IInv => OriginIsCodeRepo
  BY DEF OriginKnown, OriginIsCodeRepo
<1> QED BY <1>1, <1>2, <1>3, PTL DEF WorkspaceSpec

\* WorkspaceSpec => WorkSurvives: over any sequence of launches, stops, failures and
\* restarts, commits and edits are dropped only by the script of a new task, or
\* with the container that holds them.
THEOREM WorkIsKept == WorkspaceSpec => WorkSurvives
<1> DEFINE IInv == WorkspaceTypeOK /\ Launched /\ MarkerRead
           Kept == dir.work /\ ~dir'.work =>
                      (isNew /\ step # "ready") \/ (place = "container" /\ step' = "none")
<1>1. WorkspaceInit => IInv
  BY InitTyped, InitKnown
<1>2. IInv /\ [WorkspaceNext]_workspaceVars => IInv'
  BY StepTyped, MarkerReadStep
<1>3. ASSUME IInv, [WorkspaceNext]_workspaceVars, dir.work, ~dir'.work
      PROVE  (isNew /\ step # "ready") \/ (place = "container" /\ step' = "none")
  <2>0. dir \in Contents /\ dir.git # "none"
    BY <1>3 DEF WorkspaceTypeOK, HasGit
  <2>1. ASSUME NEW new \in BOOLEAN, NEW gated \in BOOLEAN, NEW from \in {Absent, Mirror},
               NEW wanted \in Wanted, Launch(new, gated, from, wanted)
        PROVE  FALSE
    BY <2>1, <2>0, <1>3 DEF Launch, Contents
  <2>2. CASE \/ Copied \/ CopyFails \/ CopyCut \/ NoRepository
             \/ BeginClone \/ Cloned \/ CloneFails
    BY <2>2, <1>3 DEF MarkerRead, WorkspaceTypeOK, HasGit, Copied, CopyFails, CopyCut, NoRepository,
                      BeginClone, Cloned, CloneFails
  <2>3. CASE ScriptStarts \/ Restarted \/ FetchFails \/ Advance \/ UNCHANGED workspaceVars
    BY <2>3, <1>3 DEF ScriptStarts, Restarted, FetchFails, Advance, workspaceVars
  <2>4. CASE WipeStale
    BY <2>4 DEF WipeStale, StaleOrigin
  <2>5. CASE FixOrigin
    BY <2>5, <2>0, <1>3 DEF FixOrigin, Contents
  <2>6. CASE Repoint
    BY <2>6, <2>0, <1>3 DEF Repoint, Contents
  <2>7. CASE Updated
    BY <2>7, <1>3 DEF Updated, MarkerRead
  <2>8. CASE Work
    BY <2>8, <2>0, <1>3 DEF Work, Contents
  <2>9. CASE ScriptStops
    BY <2>9, <1>3 DEF ScriptStops, StaleOrigin
  <2>10. CASE ContainerRemoved
    BY <2>10, <1>3 DEF ContainerRemoved
  <2> QED BY <1>3, <2>1, <2>2, <2>3, <2>4, <2>5, <2>6, <2>7, <2>8, <2>9, <2>10 DEF WorkspaceNext, Script
<1>4. IInv /\ [WorkspaceNext]_workspaceVars => [Kept]_workspaceVars
  BY <1>3
<1> QED BY <1>1, <1>2, <1>4, PTL DEF WorkspaceSpec, WorkSurvives

-----------------------------------------------------------------------------
(* New tasks.                                                               *)

\* The gate mirror never falls behind the commit of the launch it serves.
LEMMA BaseServedStep ==
    ASSUME WorkspaceTypeOK, BaseServed, [WorkspaceNext]_workspaceVars PROVE BaseServed'
<1>0. upstream \in Nat /\ mirror \in Nat /\ launch \in Envs
  BY BoundsAssumption DEF WorkspaceTypeOK, Envs, Commits
<1>1. ASSUME NEW new \in BOOLEAN, NEW gated \in BOOLEAN, NEW from \in {Absent, Mirror},
             NEW wanted \in Wanted, Launch(new, gated, from, wanted)
      PROVE  BaseServed'
  <2>1. mirror' \in {mirror, upstream} /\ upstream' = upstream
    BY <1>1 DEF Launch
  <2>2. launch'.base = IF gated \/ from # Absent THEN mirror' ELSE upstream
    BY <1>1 DEF Launch
  <2>3. (launch'.gated <=> gated) /\ launch'.from = from
    BY <1>1 DEF Launch
  <2>4. mirror' \in 0 .. upstream' /\ mirror' \in 0 .. mirror' /\ upstream' \in 0 .. upstream'
    BY <2>1, <1>0 DEF BaseServed
  <2>5. launch'.base \in 0 .. upstream'
    BY <2>1, <2>2, <2>4
  <2>6. launch'.gated \/ launch'.from # Absent => launch'.base = mirror'
    BY <2>2, <2>3
  <2> QED BY <2>4, <2>5, <2>6 DEF BaseServed
<1>2. CASE Inner
  <2>1. UNCHANGED <<upstream, mirror, launch>> /\ step # "none"
    BY <1>2 DEF Inner, Script, hostVars, Copied, CopyFails, CopyCut, ScriptStarts, Work, ScriptStops,
       ContainerRemoved, WipeStale, FixOrigin, NoRepository, BeginClone, Cloned, CloneFails, Repoint,
       Restarted, FetchFails, Updated
  <2> QED BY <2>1 DEF BaseServed
<1>3. CASE Advance
  BY <1>3, <1>0 DEF Advance, BaseServed
<1>4. CASE UNCHANGED workspaceVars
  BY <1>4 DEF workspaceVars, BaseServed
<1> QED BY <1>1, <1>2, <1>3, <1>4 DEF WorkspaceNext, Inner

\* Whatever the script may clone or fetch from has the launch's commit.
LEMMA SourcesServe ==
    ASSUME WorkspaceTypeOK, Launched, BaseServed, step # "none"
    PROVE  /\ launch.base \in Commits
           /\ Serves(CodeRepo) >= launch.base /\ Serves(SrcRepo) >= launch.base
           /\ \A url \in {CodeRepo, launch.from} : url # Absent => Serves(url) >= launch.base
<1>0. upstream \in Nat /\ mirror \in Nat /\ launch.base \in Nat /\ launch \in Envs
  BY BoundsAssumption DEF WorkspaceTypeOK, Envs, Commits
<1>1. Serves(CodeRepo) >= launch.base
  BY <1>0 DEF BaseServed, CodeRepo, Serves, Gate, Upstream, Url
<1>2. launch.from # Absent => Serves(launch.from) >= launch.base
  BY <1>0 DEF BaseServed, Serves, Mirror, Url, Envs
<1> QED BY <1>0, <1>1, <1>2 DEF SrcRepo, Envs

\* A new task that is owed stays pending until it is fresh, or a failure excuses it.
LEMMA OwedIsPendingStep ==
    ASSUME WorkspaceTypeOK, Launched, MarkerRead, OriginKnown, BaseServed, OwedIsPending,
           [WorkspaceNext]_workspaceVars
    PROVE  OwedIsPending'
<1>0. dir \in Contents /\ launch \in Envs /\ (step # "none" => launch.base \in Commits)
  BY DEF WorkspaceTypeOK, Envs
<1>1. EmptyDir \in Contents /\ EmptyDir.git = "none"
  BY EmptyTyped, NoWork
<1>2. ASSUME NEW new \in BOOLEAN, NEW gated \in BOOLEAN, NEW from \in {Absent, Mirror},
             NEW wanted \in Wanted, Launch(new, gated, from, wanted)
      PROVE  OwedIsPending'
  <2>1. owed' = new /\ step' \in {"copying", "created"} /\ (new => dir'.marker)
    BY <1>2, <1>0 DEF Launch, Contents
  <2> QED BY <2>1 DEF OwedIsPending
<1>3. CASE Copied
  <2>1. step = "copying" /\ step' = "created" /\ owed' = owed /\ dir'.marker = dir.marker
    BY <1>3, <1>0 DEF Copied, Seeded, Contents
  <2> QED BY <2>1 DEF OwedIsPending
<1>4. CASE CopyFails \/ WipeStale \/ CloneFails
  <2>1. step' \in {"created", "clone", "failed"} /\ ~HasGit'
    BY <1>4, <1>1 DEF CopyFails, WipeStale, CloneFails, HasGit
  <2> QED BY <2>1 DEF OwedIsPending
<1>5. CASE CopyCut
  <2>1. step' = "none" /\ "cut" \in spoilt'
    BY <1>5 DEF CopyCut, Happens
  <2> QED BY <2>1 DEF OwedIsPending, Excused
<1>6. ASSUME UNCHANGED <<dir, launch, owed>>, spoilt \subseteq spoilt',
             step' \notin {"copying", "repoint"}
      PROVE  OwedIsPending'
  BY <1>6 DEF OwedIsPending, HasGit, Fresh, Excused, OnRemote
<1>7. CASE ScriptStarts \/ NoRepository \/ Restarted \/ FetchFails
  <2>1. UNCHANGED <<dir, launch, owed>> /\ spoilt \subseteq spoilt'
        /\ step' \notin {"copying", "repoint"}
    BY <1>7 DEF ScriptStarts, NoRepository, Restarted, FetchFails, Happens
  <2> QED BY <2>1, <1>6
<1>8. CASE FixOrigin
  <2>1. /\ dir'.marker = dir.marker /\ dir'.git = dir.git
        /\ dir'.head = dir.head /\ dir'.branch = dir.branch
    BY <1>8, <1>0 DEF FixOrigin, Contents
  <2>2. UNCHANGED <<launch, owed>> /\ spoilt \subseteq spoilt'
        /\ step' \notin {"copying", "repoint"}
    BY <1>8 DEF FixOrigin, Happens, Proceed
  <2> QED BY <2>1, <2>2 DEF OwedIsPending, HasGit, Fresh, Excused, OnRemote
<1>9. CASE BeginClone
  <2>1. CASE dir.stray
    <3>1. dir'.git = dir.git /\ dir.git = "none" /\ step' = "refused"
      BY <1>9, <2>1, <1>0 DEF BeginClone, Contents, MarkerRead, HasGit
    <3> QED BY <3>1 DEF OwedIsPending, HasGit
  <2>2. CASE ~dir.stray
    <3>1. dir'.git = "partial" /\ step' = "cloning"
      BY <1>9, <2>2, <1>1 DEF BeginClone, Contents
    <3> QED BY <3>1 DEF OwedIsPending, Excused
  <2> QED BY <2>1, <2>2
<1>10. CASE Cloned
  <2>1. dir'.git = "full" /\ dir'.head = Serves(SrcRepo) /\ UNCHANGED launch
        /\ (OnRemote(launch.wanted) => dir'.branch = launch.wanted)
    BY <1>10, <1>0 DEF Cloned, Contents
  <2>2. Fresh' /\ step' # "copying"
    BY <2>1, <1>10, SourcesServe DEF Cloned, Fresh, OnRemote
  <2> QED BY <2>2 DEF OwedIsPending
<1>11. CASE Repoint
  <2>0. step = "repoint" /\ step' \notin {"copying", "repoint"} /\ UNCHANGED <<launch, owed>>
        /\ Fresh /\ dir.origin = SrcRepo
    BY <1>11 DEF Repoint, OwedIsPending, OriginKnown
  <2> PICK failing \in SUBSET ({"setUrl", "network", "checkout"} \cap Failures) :
         LET origin == IF "setUrl" \in failing THEN dir.origin ELSE CodeRepo
             head   == IF "network" \in failing THEN dir.head ELSE Serves(origin)
         IN  \/ ~OnRemote(launch.wanted) /\ dir' = [dir EXCEPT !.origin = origin]
             \/ "checkout" \in spoilt'
             \/ dir' = [dir EXCEPT !.origin = origin, !.branch = launch.wanted, !.head = head]
    BY <1>11, <1>0 DEF Repoint, Contents
  <2> DEFINE origin == IF "setUrl" \in failing THEN dir.origin ELSE CodeRepo
             head   == IF "network" \in failing THEN dir.head ELSE Serves(origin)
  <2>1. head >= launch.base
    BY <2>0, SourcesServe DEF Fresh
  <2> HIDE DEF origin, head
  <2>2. CASE ~OnRemote(launch.wanted) /\ dir' = [dir EXCEPT !.origin = origin]
    <3>1. dir'.git = dir.git /\ dir'.head = dir.head
      BY <2>2, <1>0 DEF Contents
    <3> QED BY <3>1, <2>0, <2>2 DEF OwedIsPending, Fresh, OnRemote
  <2>3. CASE "checkout" \in spoilt'
    BY <2>0, <2>3 DEF OwedIsPending, Excused
  <2>4. CASE dir' = [dir EXCEPT !.origin = origin, !.branch = launch.wanted, !.head = head]
    <3>1. dir'.git = dir.git /\ dir'.head = head /\ dir'.branch = launch.wanted
      BY <2>4, <1>0 DEF Contents
    <3> QED BY <3>1, <2>0, <2>1 DEF OwedIsPending, Fresh, OnRemote
  <2> QED BY <2>2, <2>3, <2>4 DEF origin, head
<1>12. CASE Updated
  <2>0. step' = "ready" /\ UNCHANGED <<launch, owed>> /\ spoilt \subseteq spoilt'
    BY <1>12 DEF Updated, Happens
  <2>1. Serves(dir.origin) >= launch.base
    BY <1>12, SourcesServe DEF Updated, OriginKnown
  <2>2. CASE CheckedOut
    <3>1. dir'.git = "full" /\ dir'.head = Serves(dir.origin) /\ dir'.branch = launch.wanted
      BY <2>2, <1>0 DEF CheckedOut, Cleaned, Contents
    <3> QED BY <3>1, <2>0, <2>1 DEF OwedIsPending, Fresh, OnRemote
  <2>3. CASE ResetToRemote /\ ~OnRemote(launch.wanted)
    <3>1. dir'.git = "full" /\ dir'.head = Serves(dir.origin)
      BY <2>3, <1>0 DEF ResetToRemote, Cleaned, Contents
    <3> QED BY <3>1, <2>0, <2>1, <2>3 DEF OwedIsPending, Fresh, OnRemote
  <2>4. CASE Happens("checkout") \/ Happens("reset")
    BY <2>0, <2>4 DEF Happens, OwedIsPending, Excused
  <2>5. CASE dir' = Cleaned(dir) /\ (~OnRemote(dir.branch) \/ dir.git = "partial")
    <3>1. dir'.git = dir.git /\ dir'.branch = dir.branch /\ dir.branch \in Branches
      BY <2>5, <1>0 DEF Cleaned, Contents
    <3>2. dir'.branch = Local \/ dir'.git = "partial"
      BY <3>1, <2>5 DEF Branches, OnRemote
    <3> QED BY <3>2, <2>0 DEF OwedIsPending, Excused
  <2> QED BY <1>12, <2>2, <2>3, <2>4, <2>5 DEF Updated
<1>13. CASE Work
  BY <1>13 DEF Work, OwedIsPending
<1>14. CASE ScriptStops
  <2>1. CASE "cut" \in spoilt' /\ step' = "stopped"
    BY <2>1 DEF OwedIsPending, Excused
  <2>2. CASE UNCHANGED <<dir, spoilt>> /\ step' = "stopped"
    BY <2>2, <1>14, <1>6 DEF ScriptStops
  <2> QED BY <1>14, <2>1, <2>2 DEF ScriptStops, Happens
<1>15. CASE ContainerRemoved
  <2>1. CASE place = "container"
    BY <2>1, <1>15, <1>1 DEF ContainerRemoved, OwedIsPending, HasGit
  <2>2. CASE place # "container"
    BY <2>2, <1>15, <1>6 DEF ContainerRemoved
  <2> QED BY <2>1, <2>2
<1>16. CASE Advance \/ UNCHANGED workspaceVars
  BY <1>16 DEF Advance, workspaceVars, OwedIsPending, HasGit, Fresh, Excused, OnRemote
<1> QED BY <1>2, <1>3, <1>4, <1>5, <1>7, <1>8, <1>9, <1>10, <1>11, <1>12, <1>13, <1>14, <1>15, <1>16
        DEF WorkspaceNext, Script

\* WorkspaceSpec => []NewTaskStartsFresh: when the script of a task that was
\* announced as new has finished, the checkout holds the launch's commit on the wanted branch,
\* or something that the property names went wrong.
THEOREM NewTasksAreFresh == WorkspaceSpec => []NewTaskStartsFresh
<1> DEFINE IInv == /\ WorkspaceTypeOK /\ Launched /\ MarkerRead
                   /\ OriginKnown /\ BaseServed /\ OwedIsPending
<1>1. WorkspaceInit => IInv
  BY InitTyped, InitKnown DEF WorkspaceInit, OwedIsPending
<1>2. IInv /\ [WorkspaceNext]_workspaceVars => IInv'
  BY StepTyped, MarkerReadStep, OriginKnownStep, BaseServedStep, OwedIsPendingStep
<1>3. IInv => NewTaskStartsFresh
  BY DEF Launched, MarkerRead, OwedIsPending, Excused, NewTaskStartsFresh
<1> QED BY <1>1, <1>2, <1>3, PTL DEF WorkspaceSpec

=============================================================================
