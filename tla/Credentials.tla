----------------------------- MODULE Credentials -----------------------------
(***************************************************************************)
(* One provider's credential on the host: the row of the credential DB, the *)
(* credential file and the config file of its shared mount, and the sidecar *)
(* that records which config values terok owns.  credentials/auth.py,      *)
(* credentials/vault_config.py and the parts 8b and 9 of                   *)
(* container/env.py write them, each from a process of its own.            *)
(*                                                                         *)
(* A process runs one job after another: a launch that enables the patch   *)
(* of the provider or disables it, a login, vault clean.  Processes        *)
(* interleave between any two system calls; an action is a system call on  *)
(* one of these files.                                                     *)
(***************************************************************************)
EXTENDS Integers, FiniteSets

CONSTANTS
    Processes,  \* how many jobs may run at the same time
    Layouts,    \* how the patch is laid out in the file: top, table
    Regimes,    \* what happens on a host: kinds of job, mishaps, whether jobs overlap
    Logins,     \* the credentials that logins may obtain
    None

Kinds   == {"enable", "disable", "apiKey", "oauth", "exposed", "clean"}
Mishaps == {"edit", "agentLogin", "wipe", "kill", "dbFails"}
Types    == {"oauth", "api_key"}
Records  == [route : Types, created : BOOLEAN]

ASSUME LayoutAssumption == Layouts \subseteq {"top", "table"}
ASSUME RegimeAssumption == \A r \in Regimes : r \subseteq Kinds \cup Mishaps \cup {"overlap"}
ASSUME NoneAssumption ==
    /\ None \notin Types \cup {"patch", "own"} \cup Kinds /\ None \notin Processes /\ None \notin Logins
    /\ None \notin [type : Types, login : Logins] /\ None \notin Records

VARIABLES
    regime,  \* what happens on this host
    layout,  \* codex's patch sets a key at the top, vibe's one in a table entry
    stored,  \* the DB row: the type of the credential and its login, or None
    mount,   \* the credential file: nothing, a phantom, or a real credential
    config,  \* the config file
    sidecar, \* terok's record of what it owns in it, or None
    job,     \* job[p]: the kind of job p runs, or None
    pc,      \* pc[p]: where it stands
    seen,    \* seen[p]: what it has read or obtained
    alone,   \* the process whose job nothing has disturbed so far, or None
    owned,   \* the file's route is that of a launch that was alone to the end
    mine     \* the user has settings in the file, and nothing may have cost them

vars == <<regime, layout, stored, mount, config, sidecar, job, pc, seen,
          alone, owned, mine>>
files  == <<regime, layout, stored, mount, config, sidecar>>
ghosts == <<alone, owned, mine>>               \* no process reads these

\* A config file: whether it parses, whether the user has settings beside the
\* patch (in its table entry, if that is where it goes), whether the entry is
\* there, and the values of the two keys that a patch sets: the one that routes
\* the provider, to a vault address for a type of credential or to one of the
\* user's own, and the other, whose value is the same in every patch.
Blank == [broken |-> FALSE, settings |-> FALSE, entry |-> FALSE, route |-> None, other |-> None]
Configs ==
    {c \in [broken : BOOLEAN, settings : BOOLEAN, entry : BOOLEAN,
            route : Types \cup {"own", None}, other : {"patch", "own", None}] :
        IF layout = "top" THEN ~c.entry
        ELSE c.settings \/ c.route # None \/ c.other # None => c.entry}

Nothing    == [holds |-> "nothing", login |-> None]
Phantom    == [holds |-> "phantom", login |-> None]
RealOf(l)  == [holds |-> "real", login |-> l]
Real(file) == file.holds = "real"

Unseen == [type |-> None, login |-> None, file |-> Blank, record |-> None]

Init ==
    /\ regime \in Regimes
    /\ layout \in Layouts
    /\ stored = None /\ mount = Nothing /\ config = Blank /\ sidecar = None
    /\ job = [p \in Processes |-> None]
    /\ pc = [p \in Processes |-> "idle"]
    /\ seen = [p \in Processes |-> Unseen]
    /\ alone = None /\ owned = FALSE /\ mine = FALSE

Active(p)   == pc[p] # "idle"
Goto(p, at) == pc' = [pc EXCEPT ![p] = at]
IsLogin(p)  == job[p] \in {"apiKey", "oauth", "exposed"}

-----------------------------------------------------------------------------
(* The patch and the sidecar as functions.                                  *)

\* Bug: the address does not depend on how the user has logged in.
ResolveDeclared(type) == IF layout = "top" THEN "oauth" ELSE "api_key"

\* The address for the stored type; the provider's declared type if there is none.
ResolvePatch(type) ==
    IF layout = "table" THEN "api_key" ELSE IF type = None THEN "oauth" ELSE type

\* Bugs: the file is written anew, with nothing but the patch in it; or the patch
\* goes to an entry, wherever it belongs.
ApplyToBlank(c, route) ==
    [Blank EXCEPT !.route = route, !.other = "patch", !.entry = layout = "table"]
ApplyAsEntry(c, route) == [c EXCEPT !.route = route, !.other = "patch", !.entry = TRUE]

\* A file that does not parse counts as an empty one.
Parsed(c) == IF c.broken THEN Blank ELSE c
ApplyPatch(c, route) ==
    [Parsed(c) EXCEPT !.route = route, !.other = "patch", !.entry = layout = "table"]

\* What the sidecar will say: the value, and whether the patch made the entry.
Ownership(c, route) ==
    [route |-> route, created |-> layout = "table" /\ ~Parsed(c).entry]

\* What is left when these values have been taken out, and with them the entry if
\* terok made it and nothing else is in it.
Without(c, route, other, created) ==
    [c EXCEPT !.route = route, !.other = other,
              !.entry = @ /\ ~(created /\ route = None /\ other = None /\ ~c.settings)]

\* Bug: the route is removed whatever it is now.
RemoveWhatever(c, record) ==
    Without(c, None, IF c.other = "patch" THEN None ELSE c.other, record.created)

\* Each of the two keys is taken out if it still has the recorded value.
RemoveRecords(c, record) ==
    Without(c, IF c.route = record.route THEN None ELSE c.route,
               IF c.other = "patch" THEN None ELSE c.other, record.created)

\* What write leaves: it does not truncate again, so the tail of a longer text that
\* somebody has written since O_TRUNC stays.  A sidecar that does not parse is none.
Written(file) ==
    IF config = Blank THEN {file} ELSE {file, [file EXCEPT !.broken = TRUE]}
WrittenSidecar(record) == IF sidecar = None THEN {record} ELSE {record, None}

-----------------------------------------------------------------------------
(* The beginning and the end of a job.                                      *)

FirstStep == [enable |-> "type", disable |-> "load", apiKey |-> "store",
              oauth |-> "capture", exposed |-> "capture", clean |-> "scan"]

\* Something happens while jobs are active.
Disturb ==
    IF \E p \in Processes : Active(p) THEN owned' = FALSE /\ mine' = FALSE
                                      ELSE UNCHANGED <<owned, mine>>

\* A launch begins to assemble the environment of its container: the mounts, the
\* patches, and then the tokens; a login or a cleaning begins with its verb.  Vibe
\* is logged in to by API key only.
Begin(p, kind) ==
    /\ pc[p] = "idle" /\ kind \in regime
    /\ "overlap" \in regime \/ \A q \in Processes : ~Active(q)
    /\ kind \in {"oauth", "exposed"} => layout = "top"
    /\ job' = [job EXCEPT ![p] = kind]
    /\ Goto(p, FirstStep[kind])
    /\ alone' = IF \E q \in Processes : Active(q) THEN None ELSE p
    /\ Disturb
    /\ UNCHANGED <<files, seen>>

Forget(p) ==
    /\ job' = [job EXCEPT ![p] = None]
    /\ seen' = [seen EXCEPT ![p] = Unseen]
    /\ Goto(p, "idle")
    /\ alone' = IF alone = p THEN None ELSE alone

Exit(p) ==
    /\ pc[p] = "ended"
    /\ Forget(p)
    /\ UNCHANGED <<files, owned, mine>>

\* The process is killed, or a system call fails and its exception ends the job.
Kill(p) ==
    /\ pc[p] \notin {"idle", "ended"} /\ "kill" \in regime
    /\ Forget(p)
    /\ owned' = (owned /\ pc[p] # "rewrite")
    /\ mine' = (mine /\ pc[p] \notin {"write", "removeWrite"})
    /\ UNCHANGED files

-----------------------------------------------------------------------------
(* Applying the patch: every launch that enables it, and every login.       *)

ReadType(p) ==
    /\ pc[p] = "type"
    /\ seen' = [seen EXCEPT ![p].type = IF stored = None THEN None ELSE stored.type]
    /\ Goto(p, "read")
    /\ UNCHANGED <<files, job, ghosts>>

\* The DB cannot be opened just now: the declared type will do.
ReadTypeFails(p) ==
    /\ pc[p] = "type" /\ "dbFails" \in regime
    /\ Goto(p, "read")
    /\ alone' = IF alone = p THEN None ELSE alone
    /\ UNCHANGED <<files, job, seen, owned, mine>>

ReadConfig(p) ==
    /\ pc[p] = "read"
    /\ seen' = [seen EXCEPT ![p].file = config]
    /\ Goto(p, "trunc")
    /\ UNCHANGED <<files, job, ghosts>>

\* O_TRUNC.  An unparsable file is lost here with all that the user had in it.
Truncate(p) ==
    /\ pc[p] = "trunc"
    /\ config' = Blank
    /\ Goto(p, "write")
    /\ mine' = (mine /\ ~seen[p].file.broken)
    /\ UNCHANGED <<regime, layout, stored, mount, sidecar, job, seen, alone, owned>>

\* Only a launch goes on to record what it owns; a login is done here.
WriteConfig(p) ==
    /\ pc[p] = "write"
    /\ LET file == seen[p].file
           route == ResolvePatch(seen[p].type)
       IN  /\ config' \in Written(ApplyPatch(file, route))
           /\ seen' = [seen EXCEPT ![p] =
                         [Unseen EXCEPT !.record = IF IsLogin(p) THEN None
                                                   ELSE Ownership(file, route)]]
    /\ Goto(p, IF IsLogin(p) THEN "ended" ELSE "record")
    /\ owned' = FALSE
    /\ UNCHANGED <<regime, layout, stored, mount, sidecar, job, alone, mine>>

\* An empty sidecar does not parse, and counts as none.
TruncateSidecar(p) ==
    /\ pc[p] = "record"
    /\ sidecar' = None
    /\ Goto(p, "recordWrite")
    /\ UNCHANGED <<regime, layout, stored, mount, config, job, seen, ghosts>>

RecordManaged(p) ==
    /\ pc[p] = "recordWrite"
    /\ sidecar' \in WrittenSidecar(seen[p].record)
    /\ Goto(p, "inject")
    /\ UNCHANGED <<regime, layout, stored, mount, config, job, seen, ghosts>>

-----------------------------------------------------------------------------
(* Removing it: a launch that disables the provider.                        *)

LoadSidecar(p) ==
    /\ pc[p] = "load"
    /\ seen' = [seen EXCEPT ![p].record = sidecar]
    /\ Goto(p, IF sidecar = None THEN "drop" ELSE "check")
    /\ UNCHANGED <<files, job, ghosts>>

\* Bug: the record of a file that does not parse is dropped.
CheckDropsBroken(p) ==
    /\ pc[p] = "check"
    /\ LET left == RemoveRecords(config, seen[p].record) IN
       \/ /\ config.broken \/ left = config
          /\ Goto(p, "drop") /\ seen' = [seen EXCEPT ![p] = Unseen]
       \/ /\ ~config.broken /\ left # config
          /\ Goto(p, "removeTrunc")
          /\ seen' = [seen EXCEPT ![p] = [Unseen EXCEPT !.file = left]]
    /\ UNCHANGED <<files, job, ghosts>>

\* A file that does not parse is left alone, and its record is written back.
CheckConfig(p) ==
    /\ pc[p] = "check"
    /\ LET left == RemoveRecords(config, seen[p].record) IN
       \/ config.broken /\ Goto(p, "keep") /\ UNCHANGED seen
       \/ /\ ~config.broken /\ left = config
          /\ Goto(p, "drop") /\ seen' = [seen EXCEPT ![p] = Unseen]
       \/ /\ ~config.broken /\ left # config
          /\ Goto(p, "removeTrunc")
          /\ seen' = [seen EXCEPT ![p] = [Unseen EXCEPT !.file = left]]
    /\ UNCHANGED <<files, job, ghosts>>

RemoveTruncate(p) ==
    /\ pc[p] = "removeTrunc"
    /\ config' = Blank
    /\ Goto(p, "removeWrite")
    /\ UNCHANGED <<regime, layout, stored, mount, sidecar, job, seen, ghosts>>

RemoveWrite(p) ==
    /\ pc[p] = "removeWrite"
    /\ config' \in Written(seen[p].file)
    /\ Goto(p, "drop") /\ seen' = [seen EXCEPT ![p] = Unseen]
    /\ UNCHANGED <<regime, layout, stored, mount, sidecar, job, ghosts>>

\* Nothing is owned any more: the sidecar is deleted.
DropRecord(p) ==
    /\ pc[p] = "drop"
    /\ sidecar' = None
    /\ Goto(p, "inject")
    /\ UNCHANGED <<regime, layout, stored, mount, config, job, seen, ghosts>>

KeepRecord(p) ==
    /\ \/ pc[p] = "keep" /\ sidecar' = None /\ Goto(p, "rewrite")
       \/ /\ pc[p] = "rewrite"
          /\ sidecar' \in WrittenSidecar(seen[p].record) /\ Goto(p, "inject")
    /\ UNCHANGED <<regime, layout, stored, mount, config, job, seen, ghosts>>

-----------------------------------------------------------------------------
(* The rest of a launch: a phantom token, and the variable that holds it.   *)

\* Without a credential there is no token.  When the routes or the DB fail, a
\* launch that does not require the vault goes on without one as well.
InjectVaultTokens(p) ==
    /\ pc[p] = "inject"
    /\ \E token \in {None} \cup (IF stored = None THEN {} ELSE {stored.type}) :
          seen' = [seen EXCEPT ![p] = [Unseen EXCEPT !.type = token]]
    /\ owned' = (owned \/ (job[p] = "enable" /\ alone = p))
    /\ Goto(p, "ended")
    /\ UNCHANGED <<files, job, alone, mine>>

-----------------------------------------------------------------------------
(* Logins.  Those of the command line patch the config file afterwards, even *)
(* if nothing was captured; an exposed one hands the real credential to the *)
(* containers and keeps it out of the vault.                                *)

\* A credential that nobody has.
New(l) == /\ stored # None => stored.login # l
          /\ mount.login # l
          /\ \A p \in Processes : seen[p].login # l

\* Bug: an exposed credential is stored like any other.
CaptureAlwaysStores(p) ==
    /\ pc[p] = "capture"
    /\ \/ /\ \E l \in Logins : New(l) /\ seen' = [seen EXCEPT ![p].login = l]
          /\ Goto(p, "store")
       \/ Goto(p, IF job[p] = "exposed" THEN "ended" ELSE "type") /\ UNCHANGED seen
    /\ UNCHANGED <<files, job, ghosts>>

\* A login in a container, whose file is then read; or one that is cancelled, or
\* whose file cannot be read.
Capture(p) ==
    /\ pc[p] = "capture"
    /\ \/ /\ \E l \in Logins : New(l) /\ seen' = [seen EXCEPT ![p].login = l]
          /\ Goto(p, IF job[p] = "exposed" THEN "mount" ELSE "store")
       \/ Goto(p, IF job[p] = "exposed" THEN "ended" ELSE "type") /\ UNCHANGED seen
    /\ UNCHANGED <<files, job, ghosts>>

\* A failure to store an API key ends the job, one to store a capture does not.
StoreCapture(p) ==
    /\ pc[p] = "store" /\ job[p] # "apiKey"
    /\ \/ /\ stored' = [type |-> "oauth", login |-> seen[p].login]
          /\ Goto(p, "mount") /\ UNCHANGED seen
       \/ /\ Goto(p, "type") /\ seen' = [seen EXCEPT ![p] = Unseen]
          /\ UNCHANGED stored
    /\ UNCHANGED <<regime, layout, mount, config, sidecar, job, ghosts>>
StoreApiKey(p) ==
    /\ pc[p] = "store" /\ job[p] = "apiKey"
    /\ \E l \in Logins : New(l) /\ stored' = [type |-> "api_key", login |-> l]
    /\ Goto(p, "routes")
    /\ UNCHANGED <<regime, layout, mount, config, sidecar, job, seen, ghosts>>

\* The writer of the provider copies the file of the login, or leaves a marker.
MountWritten(p) == IF job[p] = "exposed" THEN RealOf(seen[p].login) ELSE Phantom

\* The mount's writer replaces the file atomically, or fails with a warning.
WriteMount(p) ==
    /\ pc[p] = "mount"
    /\ \/ mount' = MountWritten(p)
       \/ UNCHANGED mount
    /\ Goto(p, "routes")
    /\ UNCHANGED <<regime, layout, stored, config, sidecar, job, seen, ghosts>>

\* The routes depend on the roster alone; when they cannot be written the job
\* ends (Kill): what has been stored stays, and the config file is not patched.
RefreshVaultRoutes(p) ==
    /\ pc[p] = "routes"
    /\ seen' = [seen EXCEPT ![p] = Unseen]
    /\ Goto(p, IF job[p] = "exposed" THEN "ended" ELSE "type")
    /\ UNCHANGED <<files, job, ghosts>>

-----------------------------------------------------------------------------
(* vault clean.                                                             *)

ScanLeaked(p) ==
    /\ pc[p] = "scan"
    /\ Goto(p, IF Real(mount) THEN "unlink" ELSE "ended")
    /\ UNCHANGED <<files, job, seen, ghosts>>

\* The file is removed, whatever is in it by now.  If it is gone, the job fails (Kill).
Clean(p) ==
    /\ pc[p] = "unlink"
    /\ mount' = Nothing
    /\ Goto(p, "ended")
    /\ UNCHANGED <<regime, layout, stored, config, sidecar, job, seen, ghosts>>

-----------------------------------------------------------------------------
(* Containers and users, who write to the shared mount at any time.         *)

\* Somebody edits the config file.  Nobody else writes an address of the vault, as
\* the route and codex's other key are; vibe's other key names a variable.
Edit ==
    /\ "edit" \in regime
    /\ \E c \in Configs :
          /\ c # config /\ c.route \in {config.route, None, "own"}
          /\ layout = "top" => c.other \in {config.other, None, "own"}
          /\ config' = c
          /\ mine' = (c.settings /\ \A p \in Processes : ~Active(p))
    /\ owned' = (owned /\ \A p \in Processes : ~Active(p))
    /\ alone' = None
    /\ UNCHANGED <<regime, layout, stored, mount, sidecar, job, pc, seen>>

\* An agent whose credential file is writable logs in, or rotates its token.
AgentLogsIn ==
    /\ "agentLogin" \in regime
    /\ \E l \in Logins : New(l) /\ mount' = RealOf(l)
    /\ Disturb /\ alone' = None
    /\ UNCHANGED <<regime, layout, stored, config, sidecar, job, pc, seen>>

\* The shared mount is removed, and created anew.
WipeMount ==
    /\ "wipe" \in regime
    /\ mount' = Nothing /\ config' = Blank /\ sidecar' = None
    /\ owned' = FALSE /\ mine' = FALSE /\ alone' = None
    /\ UNCHANGED <<regime, layout, stored, job, pc, seen>>

-----------------------------------------------------------------------------
Step(p) ==
    \/ ReadType(p) \/ ReadTypeFails(p) \/ ReadConfig(p) \/ Truncate(p)
    \/ WriteConfig(p) \/ TruncateSidecar(p) \/ RecordManaged(p)
    \/ LoadSidecar(p) \/ CheckConfig(p) \/ RemoveTruncate(p) \/ RemoveWrite(p)
    \/ DropRecord(p) \/ KeepRecord(p) \/ InjectVaultTokens(p)
    \/ Capture(p) \/ StoreCapture(p) \/ StoreApiKey(p) \/ WriteMount(p)
    \/ RefreshVaultRoutes(p) \/ ScanLeaked(p) \/ Clean(p)
    \/ Exit(p) \/ Kill(p)

Next == \/ \E p \in Processes : Step(p) \/ \E kind \in regime \cap Kinds : Begin(p, kind)
        \/ Edit \/ AgentLogsIn \/ WipeMount

Spec == Init /\ [][Next]_vars

-----------------------------------------------------------------------------
(* Properties.                                                              *)

Pcs == {"idle", "type", "read", "trunc", "write", "record", "recordWrite",
        "load", "check", "removeTrunc", "removeWrite", "drop", "keep", "rewrite",
        "inject", "capture", "store", "mount", "routes", "scan", "unlink", "ended"}
TypeOK ==
    /\ regime \in Regimes
    /\ layout \in Layouts
    /\ stored \in [type : Types, login : Logins] \cup {None}
    /\ mount \in {Nothing, Phantom} \cup {RealOf(l) : l \in Logins}
    /\ config \in Configs
    /\ sidecar \in Records \cup {None}
    /\ job \in [Processes -> Kinds \cup {None}]
    /\ pc \in [Processes -> Pcs]
    /\ seen \in [Processes -> [type : Types \cup {None}, login : Logins \cup {None},
                               file : Configs, record : Records \cup {None}]]
    /\ alone \in Processes \cup {None}
    /\ owned \in BOOLEAN /\ mine \in BOOLEAN

EndsAlone(p, kind) == pc[p] = "ended" /\ job[p] = kind /\ alone = p

\* Whatever races, kills and edits have left behind, the next launch that runs by
\* itself routes the file to the credential that is stored, owns what it wrote,
\* and has a token of the same type, or none (vault_config.py:166-169).
RoutedAfterLaunch ==
    \A p \in Processes : EndsAlone(p, "enable") =>
        /\ ~config.broken /\ sidecar # None /\ sidecar.route = config.route
        /\ config.route = ResolvePatch(IF stored = None THEN None ELSE stored.type)
        /\ seen[p].type # None /\ layout = "top" => seen[p].type = config.route

\* The user's own settings stay in the file, whichever patches are applied and
\* removed: they are lost only if the file did not parse, if two writers met, or
\* if one was stopped in the middle of writing (vault_config.py:167-170, 447).
UserSettingsKept ==
    mine /\ (\A p \in Processes : pc[p] \notin {"write", "removeWrite"})
        => config.settings

\* The user's route is in the file or, between O_TRUNC and the write, in the hands
\* of the process that writes it back because another key has to go.
InHand(p) == IF pc[p] = "removeWrite" THEN seen[p].file.route ELSE config.route

\* A launch that disables the provider and runs by itself never loses a value that
\* the user has set, whatever it removes beside it: unless it is killed in the
\* middle of its write (vault_config.py:168-170, docs/vault.md:138-140).
UserRouteSurvivesDisable ==
    [][\A p \in Processes :
          job[p] = "disable" /\ alone = p /\ pc' # pc /\ InHand(p) = "own" =>
              InHand(p)' = "own" \/ (pc[p] = "removeWrite" /\ pc'[p] = "idle")]_vars

\* After it, no route of a launch is left, unless the file does not parse
\* (docs/vault.md:246-250).  One that a login has written does stay.
UnroutedAfterDisable ==
    \A p \in Processes : EndsAlone(p, "disable") =>
        config.route \notin Types \/ config.broken \/ ~owned

\* A credential that containers can read is never in the vault as well, whose
\* refresher would invalidate it (auth.py:874-878, 904-906).
ExposedNotInVault ==
    Real(mount) /\ stored # None => stored.login # mount.login

=============================================================================
