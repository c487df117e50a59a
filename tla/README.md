# A verification project for terok-executor

TLA+ models of `terok-executor`, checked with TLC on small instances, with
theorems checked by TLAPS for every value of the constants. Paths below are
relative to `src/terok_executor/` of the repository.

Contents: 1 inventory; 2 how the modules correspond to the code; 3 runs and
bounds; 4 fairness; 5 proofs; 6 what the work showed; 7 what is not modelled;
8 plan.

## 1. The system

`terok-executor` builds and launches hardened Podman containers that run AI
coding agents. It keeps the agents' credentials in a vault, gives containers
phantom tokens and config files that point at the vault, prepares a workspace
directory with a git checkout, and offers the agents of a running container to
an editor through one ACP (Agent Client Protocol) socket.

Four kinds of actor meet in this code: short-lived host processes (`run`,
`auth`, `rm`, `vault clean`), which share directories and a credential DB and
take no locks; one ACP daemon per container, an asyncio program; the script
that starts a container, which may be killed at any command; and what the code
does not control: agents in containers, users, clients, podman, upstream.

### 1.1 ACP

| component | state | operations | hard behaviour | what makes it correct |
|---|---|---|---|---|
| Proxy, `acp/proxy.py`: one per client connection | announced?, backend, its session and model option, bound agent, exit stack, bind lock, tasks in flight | `new_session`, model pick, other option, prompt, forwards, `close_session`, end of the connection; frames from the wrapper | every request is a task of its own; the exit stack is read before an await and used after it; crash of a wrapper; client leaves at any await | racing picks and prompts collapse to one bind; one wrapper at most; none survives a reset or the connection; the last pick wins; ids carry the right agent; every request is answered |
| Daemon, `acp/daemon.py`, `endpoint.py` | socket file, listening server, container state | probe, unlink, bind, serve, watch, close, unlink | two daemons on one path; stale files after SIGKILL; clients that do not hang up | the daemon that accepts is the one the path leads to; no litter; once its container is gone it ends, or waits for clients alone |
| Roster, cache, probe, `acp/roster.py`, `cache.py`, `probe.py` | capable agents, cached ids by (image, agent, auth identity) | list, warm in parallel, invalidate | probes that end in any order, fail or hang; rotation in mid-probe | every responsive agent is listed, in label order; every session is answered |
| Model options, `acp/model_options.py` | none | find, namespace, split, aggregate | ids that hold the separator; grouped options; passing twice | a pick reaches the wrapper as the model it advertised; both routes show the same ids |

The daemon makes a proxy for each connection; all proxies of a daemon share one
roster and cache. The proxy asks the roster for ids at `session/new`, takes the
first as its default, and spawns a wrapper in the container at the first prompt
or pick.

### 1.2 Credentials

| component | state | operations | hard behaviour | what makes it correct |
|---|---|---|---|---|
| Capture, `credentials/auth.py`, `extractors.py`, `vendor_files.py` | row of the credential DB, credential file in the shared mount, `routes.json` | login in a container, API key, exposed login | each step may fail and none is undone; other processes in between | what is exposed to containers is not in the vault as well; a later launch repairs the rest |
| Config patches, `credentials/vault_config.py`, `vault_addr.py` | config file in the shared mount; sidecar of owned values | apply on every launch, apply after login, remove for disabled providers | `O_TRUNC` then write, no lock; users and agents edit the same file; unparsable files | routing matches the stored credential; users keep their settings; disabling removes only what terok wrote |
| Housekeeping, `credentials/vault_commands.py` | none of its own | scan, `vault clean` | the scan and the unlink are two steps | real credentials go, phantoms stay |
| Environment, `container/env.py`, `inject.py` | the container's environment and mounts | patches (8b), tokens (9), mounts, transports | soft failures without the vault | token and routing agree |

### 1.3 Workspaces and launches

| component | state | operations | hard behaviour | what makes it correct |
|---|---|---|---|---|
| Provisioning and repository init, `container/cache.py`, `resources/scripts/init-ssh-and-repo.sh` | workspace directory: marker, `.git`, origin, branch, commit, work; gate mirror, clone cache | seed from the cache, wipe, clone, repoint, fetch, checkout, reset, clean | a kill between any two commands; relaunch and restart on what is left; failing git commands under `set -e` | work is never lost to a restart; a new task starts on fresh code; origin is that of this launch |
| Launch, `container/runner.py` | state directory, staged config, supervisor sidecar, container | `run`, `launch_prepared`, `wait_for_exit`, log stream | a refusal, kill or failure between any two steps; names that are used again | a supervisor serves the token and ports of its container's own run, never those of an earlier one |
| Verbs, `commands.py`, `cli.py`, `_tree.py` | the same | start, stop, rm, setup, uninstall | `rm` of what is half there, or gone already | after `rm` nothing that is found by the name is left |
| Preflight, `preflight.py` | none of its own | check, repair, re-check | a repair that fails, or does not repair | a launch starts only when the mandatory checks hold; what was repaired is found |
| Images, `container/build.py` | image tags | build base, default, alias, sidecar | builds that overlap, fail, or find their base removed | an image has the agents its tag names, the alias all of them |
| Roster of agents, `roster/loader.py`, `schema.py` | none: a function of the files | layer, validate, bind, mount, select, derive routes and egress | user files over bundled ones; dependencies in any shape | selections are closed; the login's credential is shadowed; an exposed agent reaches its provider |
| krun keypair, `krun.py` | private and public key file | ensure, rotate | the two files are replaced separately | they are halves of one pair |

### 1.4 The rest

Providers and wrappers (`provider/`) generate text, the `timeout` around a headless
agent included. Doctor reads. `sandbox.py` and `integrations/`
delegate to the package terok-sandbox. Paths, config, storage report: pure
functions of the file system. The other in-container scripts run once and write
their own files.

Every hazard that the survey found is in `PROJECT.json`, at its line.

## 2. Modules

| module | models | proofs |
|---|---|---|
| `AcpProxy` | one client connection | `AcpProxyProofs`, `AcpBindingProofs`, `AcpPicksProofs` |
| `AcpBinding` | what binding promises; `AcpProxy` implements it | `AcpBindingProofs` |
| `AcpDaemon` | daemons on one socket path | `AcpHostProofs` |
| `AcpRoster` | sessions of one daemon over one roster and cache | `AcpHostProofs` |
| `AcpModelOptions` | the option lists of one wrapper, by either route, and a pick | `AcpHostProofs` |
| `AcpHost` | the three above, side by side | `AcpHostProofs` |
| `Credentials` | processes on the files of one provider | `CredentialsProofs` |
| `Workspace` | launches, one after another, on one directory | `WorkspaceProofs` |
| `AgentRoster` | what the YAML files of a host amount to, as operators | `LaunchProofs` |
| `Images` | the image store, the builders, the login container; extends `AgentRoster` | `LaunchProofs` |
| `Launch` | run, start, stop and rm on top; extends `Images` | `LaunchProofs` |
| `SequenceLemmas` | nothing: lemmas on numbers and sequences that the proofs share | itself |

Each `MC...` module gives TLC values for the constants of its module.
`AcpHost` holds `AcpDaemon`, `AcpRoster` and `AcpModelOptions` side by side, with the
properties of each by name; they share no state, so `MCAcpHost` checks their sum,
and its variable `part` says whose behaviour it is. `MCTask` is such a sum of
`Launch` and `Workspace`, the two sides of a task; the names of `Workspace` differ from
those of `Launch` for its sake (`WorkspaceInit`, `step`, `Absent`). A
definition whose comment starts with "Bug" is a variant of the one after it, a
mistake that could be made there; it is no part of any specification.

**AcpProxy.** An asyncio task runs undisturbed from one await to the next, so an
action is that stretch of one handler, and `pc[r]` names the await at which the
task of request `r` is parked: `roster`, `lock`, `spawn`, `init`, `new`,
`model`, `unwind`, `repick`, `call`, `close`, `reap`. A request binds at most
once, so its wrapper process is called `r` as well. `stack` is the identity of
the current `AsyncExitStack` object; a process remembers the stack it was
pushed on, which is what tells a reaped wrapper from a forgotten one.
`lockQueue` is `asyncio.Lock`: the holder, then the waiters in order, and a
cancelled waiter leaves the queue. `wire[p]` are the set-model calls `p` has
received and not yet answered. `seen` are the frames with ids the client got.
`conn` is closing while `run` tears down in its `finally`. `initialize`,
`cancel`, `ext_notification` and the calls from the wrapper to the client change
no state of the proxy and are left out; the other forwards are `forward`.

**AcpBinding.** Three variables: who binds, to what, and the agent of the
connection. The refinement mapping takes the agent from `_bound_agent`, and the
binder from the handler that is between the spawn and its outcome.

**AcpDaemon.** An action per system call that reads or changes the path. The
file is identified with the daemon that bound it. `regime`, chosen in `Init`,
says how daemons are started (`settled`: one at a time; `notLive`: when the path
does not answer, as a host does; `any`) and which disturbances occur.
`unlinksOnClose` is Python 3.13, whose server unlinks its own socket.

**AcpRoster.** Sessions interleave at `gather`. A wrapper offers some number of
models (`offers`); each is identified with the rotation of credentials it was
probed under, which shows which lists are stale. A rotation (`Rotate`) and the hook
that flushes the cache for it (`InvalidateAuth`) are two actions: nothing in the
repository calls the hook. `capable` is the result of the wrapper check, done once:
any part of the wrappers (an exec that ends early prints a part of them), or every
agent when it raises.

**AcpModelOptions.** An id is a sequence of words and separators, so that a split
at the first separator means something; option lists are grouped or flat. The
wrapper advertises a list (`Probe`), sends it in a frame of its own or in a reply
(`Update`), or repeats ids that are namespaced already (`Echo`, external), and the
client picks an id it was shown.

**Credentials.** A process runs jobs: a launch that enables the patch or
disables it, a login by API key, in a container, or exposed, and `vault clean`.
An action is one system call on one of the files. A config file is a record:
does it parse, are there settings of the user's, is the table entry there, and the
values of the two keys that a patch sets: `route`, which points at the vault or
elsewhere, and `other`. Each may be the patch's, the user's own, or missing; a
removal takes out those that are still the patch's (`RemoveRecords`) and writes the
file anew if there was one. `layout` is codex (keys at the top, by
credential type) or vibe (keys in an entry of a table). `O_TRUNC` and write are
two steps, and a write over somebody else's text may leave its tail behind
(`Written`). `alone`, `owned` and `mine` are ghosts: whether a job was
disturbed, who wrote the route, whether the user's settings should be there.

**Workspace.** A launch seeds or copies on the host (`Launch`, `Copied`,
`CopyFails`, `CopyCut`) and the script goes on from `ScriptStarts`, an action per git
command or group of commands with one outcome. A commit is the number of
advances of upstream that it holds. `owed` says that a new task was announced
and not yet worked on; `spoilt` collects the failures since.

**AgentRoster.** A file is a function from the fields it sets to their values,
nested sections flattened; a directory is a function from names to files. What
is not set, set to nothing, and broken are told apart, because layering treats
them differently: broken and empty files are passed over with a warning, auth
modes are merged field by field, everything else is replaced. A load that
raises is `None`. Claims on shared directories go to the first in the order of
the loader (`FirstClaims`); `Closure` is the walk over `depends_on`, a recursive
function of rounds, and `ResolveSelection` is `None` for a `ValueError`.

**Images.** A verb (`build`, `setup`, `auth`, `uninstall`, and the image steps of
a `run`) is a process; an action is one podman call or the code between two.
The builders are subroutines: `task[v]` has the arguments of the call `v` is in
and where it goes on after success and failure. `image[tag]` is the set of
agents installed, since that is what a tag promises. `render_l1` resolves the
selection a second time (`Content`). The login container is in this module
because `auth` builds for it; its name is made of the provider's alone, so
`login` is one variable.

**Launch.** A run goes from the setup verdict over the preflight (podman, hooks,
images, credentials), agent, image, workspace, state directory, staged config,
sidecar, to `podman run`, and then attaches, follows the log or waits. A run that
the code ends before it has written the sidecar, before or after its state directory
exists, is `refused`; one that podman turns down, or that is killed anywhere, is
`aborted`. A run may take a name whose container was kept, as in the code: podman
turns it down, after the sidecar has been overwritten.
`sup` of a container is what its hook read from the sidecar as it started.
`start`, `stop` and the three steps of `rm` (container, supervisor state,
directory) are actions; so are a kill between any two steps, an agent that
ends, and a container removed behind the program's back. `gone` is a ghost:
names removed and not taken since. What a run creates (state directory, token,
ports) is identified with the run; the agent config is staged under the run's own
id, beside the state directory, which has the container's name.

`regime`, chosen in `Init`, holds the surroundings: the raw files, the command
lines that may be started, how many, whether verbs overlap (`spawner`), whether
calls fail, the images there are, and whether a name in use may be taken
(`reuse`). Each property says in its own text what it asks of the regime.

## 3. Runs

| run | what it checks | bounds | states |
|---|---|---|---|
| binding | a client that never closes its session: types, one live wrapper, none left by a reset or after the connection, the last pick wins, frames and forwards go with the bound agent, the agent never changes, `AcpBinding` is implemented | 4 requests, 2 agents of 2 models | 1,785,374 |
| closing | with `close_session`: binds exclude each other, every request is answered | 4 requests, 1 agent, 1 model, fairness | 331,468 |
| switch (violation) | after `close_session` a prompt binds the default agent | 4 requests, 2 agents | trace of 17 |
| leftbehind (violation) | `close_session` during a bind leaves a wrapper alive | 4 requests, 2 agents | trace of 14 |
| daemon_race (violation) | two daemons started together: one serves unreachable | 2 daemons | trace of 11 |
| host | the path is reachable, litter is a killed daemon's, a daemon whose container is gone ends or waits for clients alone; every responsive agent is listed, in order, and every session answered; a pick names the model | 3 daemons, 1 client, every regime; 2 sessions, 3 agents (one has no wrapper) of no model or two, 1 rotation and its flush; lists of up to 2 options over 3 ids, one with a colon of its own | 168,056 |
| credentials | the next undisturbed launch repairs the routing; the user's settings and route survive; disabling unroutes; exposed credentials stay out of the vault | 2 processes, 3 logins, 4 regimes | 1,222,749 |
| task | images have what their tags name, logins start; selections are closed, credentials shadowed, exposed agents reach their provider; a supervisor never serves an earlier run, nothing rm looks for is left of a removed name; work survives, origin is this launch's, new tasks are fresh | up to 3 verbs, 2 base images (one of unknown family), 1 given name beside those of the runs, 4 agents and 3 providers, 70 overlays of agents with 11 of providers, and a legacy file under each of these; 3 launches on a workspace, 2 commits, branches main and topic, asked for: none, topic, a missing one; all six failures | 570,755 |
| skips (violation) | a setup announces that the next run will skip the image check, and it does not | 2 verbs | trace of 10 |
| parts (violation) | an image holds an agent its tag leaves out | 1 build | trace of 9 |
| rerun (violation) | after a second run under the name of a kept container, a start gives the container the second run's supervisor | 3 verbs, one after the other, no failure | trace of 30 |
| workspace_retry (violation) | a failed checkout of a new task is not retried | 2 launches, only checkout fails | trace of 6 |

Why the bounds are enough to meet the hard cases:

- *Requests.* A race in the proxy takes a session, a handler that binds, one that
  waits for the lock or tears down, and one that comes after: 4 requests. Both
  known faults are found with 4. Two agents are needed to switch; two models to
  tell which pick won. Liveness runs with one agent and one model because its
  graph is the largest; which agent is bound does not decide who waits for
  whom. `CancelsInFlight` (what the SDK does with handlers when the client
  leaves) is TRUE in the other runs and FALSE in closing, where every request must be
  answered: the harder of the two.
- *Daemons.* One that left a file, one that judges it, one that binds meanwhile.
- *Sessions.* Two sessions and one rotation give a probe that starts before the
  rotation and ends after it, with another session reading the cache.
- *Credentials.* Two processes, because every race here is a read by one and a
  write by the other. The product of all jobs, edits and kills is too large,
  so four regimes divide it: everything, one job at a time; launches and edits
  that overlap; launches and API-key logins; logins, cleanings and agents' logins. Processes and logins are symmetric; no liveness is checked. What
  no regime holds: a kill of a launch while another one runs, and three at once.
- *Launches.* Two kinds of verb, image and container, meet only where a run
  resolves its image, so the regimes divide them. `Catalog`: no verb, every
  combination of user files over the bundled ones. `Overlaps`: two of `build`,
  `setup`, `auth` and `uninstall` at once, with failures; a race on a tag takes
  two. `Sequences3`: two image verbs of any kind one after the other, with the
  unusual command lines (a forced rebuild, an exclusion, an unknown base, a
  sidecar, each answer to the preflight). `Untroubled` and `Troubled`: three
  verbs on one name and on names of runs, overlapping on different names,
  without and with failures and kills: one leaves something, one finds it, one
  comes after. `Colliding`: two verbs on one name at once. Verbs run on one
  base where the other base is not the point; names are made of the base, and
  nothing is shared between two bases.
- *Workspace.* Three launches: one leaves something, one is damaged on it, one
  relaunches on the result.

`CHECK_DEADLOCK FALSE` stands where the system really ends: requests, launches,
verbs or daemons are used up, the connection is over.

## 4. Fairness

The code has no timeouts in the proxy's handshake, so `FairSpec` of `AcpProxy`
assumes that a live wrapper answers or refuses (`Progress`), that a process
told to exit does (`Exit`), and that the event loop resumes tasks. A wrapper
that hangs is excluded by this assumption, not by the code. `AcpDaemon`: the
daemon's own steps run, and a poll that finds the container gone closes the
server; nothing is assumed of clients, for nothing makes one hang up and
`wait_closed` has no timeout. `AcpRoster`: a probe ends, since it has a timeout,
and `gather` returns. All are weak fairness of actions that stay enabled until
taken. `Credentials`, `Workspace`, `Images` and `Launch` state safety only: an agent
may run for ever, headless ones included, since the `timeout` in the container wraps
the agent and not the script that runs before it.

## 5. Proofs

For every value of the constants that meets the named assumptions of the
modules:

| theorem | says | by |
|---|---|---|
| `AcpProxyProofs!TypeCorrect`, `BindIsExclusive` | types; no two handlers bind at once, with `close_session`, crashes and disconnects at any await | `IInv` |
| `AcpBindingProofs!OneBackendAtATime`, `NoneLeftBehind`, `TeardownLosesNothing`, `ForwardsToTheAgent`, `NeverSwitches`, `FramesNamespaced`, `Implements` | as the run binding, under `Single` | `IInv`, `Settled` |
| `AcpPicksProofs!LastPickHolds` | the last acknowledged pick wins, without `close_session` | `InOrder` |
| `AcpHostProofs!LitterOnlyFromKills` | when all daemons have ended, a file that is left is a killed daemon's | `LitterInv` |
| `AcpHostProofs!SettledIsReachable` | daemons that do not overlap are reachable while they serve | `SettledInv` |
| `AcpHostProofs!TypeCorrect` | types, and that a connection has a daemon at its other end | `TypeOK` |
| `AcpHostProofs!RosterTypeCorrect`, `EveryResponsiveIsListed`, `AnswersInLabelOrder` | of `AcpRoster`, for any label, sessions and rotations, and any number of models of a wrapper | `RosterInv` |
| `AcpHostProofs!PicksNameTheModel` | of `AcpModelOptions`, for lists and ids of any length | `OptionsInv` |
| `CredentialsProofs!TypeCorrect`, `ExposedKeptOut`, `SettingsKept`, `LaunchRoutes`, `DisableUnroutes`, `UserRouteKept` | every property of the run credentials, for any number of processes and logins | `Control`, `Fresh`, `Sheltered`, `Undisturbed`, `Owned` |
| `LaunchProofs!TypeCorrect`, `EachSupervised`, `RmLeavesNothing` | the containers' part of the run task, for any verbs, names and interleavings of the regime | `Control`, `NamesInv` |
| `LaunchProofs!ImagesMissNothing`, `LoginsStart`, `ExposedReach` | images and logins, for any files; what egress lets an exposed agent reach | `AllAsked`, `LoginInv` |
| `LaunchProofs!SelectionsClosed`, `CredentialsAreShadowed` | what any files of a host amount to: what a selection resolves to, and whose login a shared directory holds | `FilesRead` |
| `WorkspaceProofs!TypeCorrect`, `OriginOfThisLaunch`, `WorkIsKept`, `NewTasksAreFresh` | the workspace's part of the run task, for any number of launches, commits and branches | `Launched`, `MarkerRead`, `OriginKnown`, `BaseServed`, `OwedIsPending` |

*Proxy.* `BindExclusive` alone is not inductive: nothing in it says that a
handler that waits for the lock does not bind. `LockHeld` does: whoever binds is
the head of `lockQueue`, and there is one head. `PicksKept` says that a pick
that waits for the lock has both halves of its id, and that a bind under way
knows its agent and model, which the type of what it sends depends on. From the named assumptions of
`AcpProxy` on its constants, `IInv = TypeOK /\ LockHeld /\ PicksKept` holds
initially and is kept by each action; the effect of the shared pieces (taking
and releasing the lock, starting and ending a bind, tearing down) is stated in
a lemma each, and one lemma per group of actions puts them together.

*Binding.* Seven of the theorems assume `Single`: no request is a
`close_session`, and the SDK cancels handlers in flight. The first is needed:
switch and leftbehind, in which the SDK does cancel them, break without it. The
second is an assumption about the SDK, which nothing in the repository shows. `Settled` then says who may be where: no handler
closes (`NoneCloses`), a wrapper of an open connection is being bound, or is the
bound one on the current stack, or is over (`Bound`), and none is left running
once the connection is closing (`Left`).
From it each step keeps, starts or ends a binding as `AcpBinding` allows
(`Keeps`, `Starts`, `Ends`), which is `Implements`. `TeardownLosesNothing` is about
the stack that a reset replaces: a wrapper of an open connection that is not over is
on the stack that `_backend_stack` then is (`Place`, `Kept`), so none is on the old
one. With a `close_session` under way it does not hold, for the reason of leftbehind.

*Picks.* That the last pick wins is about order all the way: picks take the lock
in the order they came (`Queued`), the wire holds calls in the order of the
lock, before those still waiting (`Wired`), a handler that waits for the wrapper
knows what it sent (`Told`), an acknowledged pick came before all that are still
under way (`Acked`), and the wrapper runs the model of the last one (`Latest`).
`InOrder` is their conjunction, with two more parts (`Arrived`, `Settable`).

*Daemon.* `LitterInv` adds who may own the path: a daemon between its bind and
its last unlink, or a killed one. `SettledInv` says of a settled
regime that, while the container runs, a daemon past its probe is the only one
alive until it serves, one that has bound the file owns it, and two are never
probing at once.

*Roster.* Two things are kept back from a session: an agent whose probe failed in
it, and one whose wrapper has no model selector. `RosterInv` says that nothing else
is. An empty list in the cache, or told to a probe, is of an agent without a
selector (`EmptyIsModelless`); as long as a session waits and nobody has flushed the
cache since it began, each capable agent is being asked, has failed, or is in the
cache (`NothingIsForgotten`). `ProbeFails` is the step to look
at: it stores nothing, so that a failure neither hides the agent from the session
that comes next nor counts as an answer. The order is not an invariant of the
probes, which end as they like, but of the walk over the label that makes the
answer: all of an agent's ids come in one piece, and `FlattenLaid` says that
pieces lie one behind the other.

*Options.* `OptionsInv` says that both routes show what namespacing makes of the
advertised list. The pick then undoes the prefix of the id at the same place:
flattening a list and prefixing each id commute (`FlattenMapped`), and the first
separator of a prefixed id is that of the prefix, whatever the id holds
(`SplitNamespaces`). It rests on one assumption beside the types: no wrapper
advertises an id that starts with its own name and a separator, which the code
would take for one it has prefixed (section 6).

*Credentials.* What a process holds is a copy of a file that others may have
changed. `Fresh` says that a captured login is in one hand and not yet where it
would be exposed; `Sheltered`, that as long as the user's settings are owed one
process writes at most, and what it holds has them; `Undisturbed` follows an
undisturbed launch stage by stage from its read to its sidecar; `Owned`, that
the route of an undisturbed launch is on record until it is removed.
`UserRouteKept` follows the user's route through the removal of the patch's other key:
it is in the file or in what the process is about to write back (`InHand`), and a kill
between `O_TRUNC` and the write is the one way to lose it.

*Launch.* `Control` relates the place of a verb to its job and to what it has
created. `NamesInv` is about one name. Verbs start in order (`Ordered`), and at most one
that may still change what belongs to the name uses it (`Alone`); a run finds no
container of its name, or one of an earlier run (`NameFree`), and the sidecar before its
`podman run` is its own (`SidecarWritten`). What makes `Supervised` inductive is
`Supported`: the sidecar of a container is that of its own run, or of a later run that
got no container or is about to get none, and the same of what its supervisor has read.
`Removing` and `Gone` follow `rm` step by step. `Supervised` and `AfterRm` have these as
their cases. For images, `AllAsked` says that
whoever is about to tag the alias builds every agent, so `NothingMissing` is kept
by each tag; it uses that the closure of a selection holds the selection
itself. `LoginInv` and `Solo` are the same argument for the login container's
name. `ExposedReach` is about every roster that any files load to.

*Files.* `SelectionClosed` and `CredentialsShadowed` speak of the roster alone, which no
step changes (`FilesRead`); all their content is in lemmas about the operators, for
any files in which `mounts` is a list and names are among those of `Sorted`.
`ClosureLeast`: the rounds of `Closure` never leave a closed set that holds the
seed, and each round but those at the end finds an entry, so that as many rounds
as there are entries reach a closed set, cycles and chains of any length included.
`LoginClaimsFirst`: the claims on shared directories are laid out by the names of
the agents, the login of each before its mounts, so that where no agent that comes
earlier claims the directory of a login, the first claim is the login's own, whatever
later agents and harnesses claim; `MountsTyped` follows the list of mounts through the
layers.

*Sequences.* `SequenceLemmas` has what these proofs share. The library's induction
takes an operator as a parameter, which no installed prover can instantiate;
`SetInduction` states it of a set instead, and follows from the library's
well-foundedness of finite sets (`LeastNumber`). With it, the recursive functions
of `FlattenSeq` and `Closure` are shown to exist (`UnfoldingExists`, `RoundsExist`), so
that the `CHOOSE` in their definitions is one of them.

*Workspace.* What the script does depends on the marker it has read and on the
repository it found, so the invariant relates the place in the script to both
(`MarkerRead`, `Launched`), then to origin (`OriginKnown`), then to the commits
that each source can serve (`BaseServed`); `OwedIsPending` says that an
announced new task is either marked, or has no repository yet, or is fresh, or
one of the excuses holds. `WorkIsKept` is an action property and follows from
`MarkerRead` step by step.

Only model-checked: liveness (`EveryRequestAnswered`, `EndsWithContainer`,
`EverySessionAnswered`), which the prover does not reach. Every
invariant and every action property of a passing run, and the refinement, is
proved.

The theorems of `AcpRoster` and `AcpModelOptions` are about their own specifications,
`Roster!Spec` and `Options!Spec`, under the assumptions that `AcpHost` makes of them and
that TLC evaluates in the run host. What the proofs take from the surroundings
besides is in the named assumptions: `SortedAssumption`, `FilesAssumption`,
`BuiltAssumption` and `JobsAssumption` for the launches, those of `AcpProxy`, `AcpDaemon`,
`Credentials` and `Workspace` for the rest. They say what the constants are, not what
the code does.

## 6. What the work showed

Runs that end in a violation, each of a sentence in the repository:

1. `switch`: `_ensure_bound_for_default` looks at `_backend` and not at
   `_bound_agent` (`acp/proxy.py:604`), so a prompt after `close_session` may
   switch agents, which 662-664 means to prevent.
2. `leftbehind`: `close_session` tears down outside the bind lock (414); a
   wrapper that is being spawned lands on an exit stack that nobody closes.
3. `daemon_race`: probe, unlink and bind are three system calls
   (`acp/daemon.py:127-158`), and the second of two daemons removes the socket
   of the first.
4. `workspace_retry`: `git clean -fd` removes the untracked marker after a failed
   checkout (`init-ssh-and-repo.sh:316`).
5. `skips`: `check_images` asks for the alias (`preflight.py:291`), which setup,
   build and the preflight's own repair do not set, so the next run does not skip
   the step as 495 and `commands.py:734` announce, and is refused.
6. `parts`: `render_l1` resolves the resolved names again
   (`container/build.py:860`, against 853), so an excluded dependency is installed
   after all, under a tag that leaves it out; `roster/loader.py:171-173` says that
   it is dropped.
7. `rerun`: a run writes the sidecar (`container/runner.py:668`) before podman is
   asked for the name. After a second run under the name of a kept container, which
   podman turns down, `start` gives the first run's container a supervisor with the
   second run's token and ports, while 596-598 has ports allocated once so that the
   mount, the environment and the sidecar all see the same values. No two verbs
   overlap. What podman and the hook do is taken from how the code uses them.

Further disagreements met while reading, which no run is spent on:

- A pick after `close_session` is acknowledged though there is no backend
  (`acp/proxy.py:592`); options of a binding wrapper are shown with bare ids
  (649); a selector marked by id only is not namespaced
  (`acp/model_options.py:157`), and a model whose own id starts with the prefix is
  left as it is (181).
- The daemon's last unlink may remove a successor's socket (`acp/daemon.py:189`);
  `_client_session_id`, which 202 speaks of, does not exist.
- A probe that was under way during `invalidate_auth` puts its stale list back
  (`acp/roster.py:226`); failed probes are documented as cached empty and are
  not cached.
- The patch that a login writes is not recorded in the sidecar
  (`commands.py:411`), so a disabled provider keeps that routing, against
  `docs/vault.md:246-250`; `UnroutedAfterDisable` therefore speaks of the routes of
  launches only. A second launch records `created = false`
  (`credentials/vault_config.py:559`), so disabling leaves an empty table entry.
  A launch overwrites a file that does not parse.
- `runner.py:983-984` makes the state directory late, so that a refused launch leaves no
  orphan; the refusals for a shared mount (1047-1053), for GPUs (593-594) and those of
  the sidecar come after it and leave it.
- `rm` sweeps the directory of the container's name (`commands.py:621`); a named run
  stages its agent config at `run/<task_id>/agent-config` (`provider/agents.py:64-66`),
  which stays, against `runner.py:981-982` and `paths.py:38-43`. `AfterRm` speaks of what
  `rm` looks for.
- A headless run waits without a timeout of its own (`runner.py:1363`); the one in the
  container wraps the agent only (`provider/wrappers.py:174`), not the git commands of the
  script before it.
- A daemon whose container is gone waits for its clients without bound (`acp/daemon.py:187`),
  against 8-10; `EndsWithContainer` therefore says that it ends or waits for clients
  alone.
- A user's own route is lost if the launch that disables the provider is killed between
  `O_TRUNC` and write (`credentials/vault_config.py:345`), though it only takes out the
  patch's other key (606-642).
- An agent that sorts earlier and claims the directory of a login takes the shadow of its
  credential away (`roster/loader.py:620`); the hosts of an exposed tool that is no agent
  stay denied, against 316-320.
- A clone that is killed leaves a `.git` that counts as a restarted task with
  nothing in it; a copy that fails wipes files the user had in the directory;
  a timeout of `cp` is not caught; `reset_to_current_remote` does nothing on a
  branch that upstream lacks, and the marker goes all the same.

## 7. What is not modelled

`PROJECT.json` gives the reason for each component. In short:

- *Text.* Wrappers and command lines (`provider/`), Dockerfiles (abstracted to the
  agents they install), help, display names of models, the fields of the schema
  that the loader only carries along.
- *Read-only or stateless.* Doctor, paths, configuration, storage report, `list`,
  `login`, `show-config`.
- *Others' code.* The package terok-sandbox, whose gate mirror, clone cache and
  supervisor appear in `Workspace` and `Launch` as externals; podman.
- *In containers.* Every script but the repository part of
  `init-ssh-and-repo.sh`; each runs once and writes its own files.
- *The krun key pair*: two files replaced one after the other, for one runtime.
- *Within modelled components.* YAML patches, which have the shape of the top
  layout; symlink and permission checks of the credential files; the offer of an
  SSH key; the prepared launch, whose mounts its caller chooses; the values of
  ports and tokens; what an exposed tool that is no agent may reach; the timeout
  of a headless agent; a daemon whose backlog is full; reset modes that the code never
  selects.

## 8. Plan

Done: ACP (first, because it is the one concurrent program here), Workspace,
Credentials, images and launches with the agent roster they rest on, and the
proofs of section 5. What is left, in this order:

1. **krun key pair** (`krun.py`): launches that rotate it at once, as a regime of
   Launch.
2. **Post-capture state** of a login, and the symlink checks, in Credentials.
