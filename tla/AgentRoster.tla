----------------------------- MODULE AgentRoster -----------------------------
(***************************************************************************)
(* The agent roster of roster/loader.py: what the YAML files of a host,    *)
(* bundled ones and the user's, amount to.                                 *)
(*                                                                         *)
(* A file is a function from the fields it sets to their values, nested    *)
(* sections flattened; a directory maps the names of its files to them.    *)
(* Broken is a file that does not parse.  A load that raises yields None.  *)
(***************************************************************************)
EXTENDS Integers, Sequences, FiniteSets, SequencesExt

CONSTANTS
    Sorted,   \* every name a file may have, in alphabetical order
    Broken,
    None

ASSUME SortedAssumption == Sorted \in Seq(ToSet(Sorted)) /\ IsInjective(Sorted)

-----------------------------------------------------------------------------
(* The files.                                                               *)

Over(lower, upper) ==
    [f \in DOMAIN lower \cup DOMAIN upper |-> IF f \in DOMAIN upper THEN upper[f] ELSE lower[f]]

\* The directories of a host, in which mounts is a list.
Layers == {"agents", "userAgents", "providers", "legacyProviders", "userProviders"}
Directories(raw) ==
    \A l \in Layers :
        /\ DOMAIN raw[l] \subseteq ToSet(Sorted)
        /\ \A n \in DOMAIN raw[l] : raw[l][n] # Broken /\ "mounts" \in DOMAIN raw[l][n] =>
              raw[l][n].mounts \in Seq(ToSet(raw[l][n].mounts))

\* The sections of an agent's file: the provider it binds, and whether its login is
\* a credential file and the tool must write to it; the shared directory of the
\* login; those it mounts besides; the entries its install section depends on.
BindingFields == [default |-> None, cred |-> FALSE, writable |-> FALSE]
AuthFields    == [auth |-> None]
MountFields   == [mounts |-> <<>>]
InstallFields == [deps |-> None]
SidecarFields == [sidecar |-> FALSE]

AgentFields ==
    Over([kind |-> "native"],
         Over(BindingFields, Over(AuthFields, Over(MountFields, Over(InstallFields, SidecarFields)))))

\* oauth and key are the two auth modes, shared says that the hosts serve more than
\* the API, serves that the endpoint speaks a protocol a harness does; hosts are
\* those of upstream, path_upstreams and token_url.
ProviderFields ==
    Over([hosts |-> {}, oauth |-> None, key |-> None, shared |-> FALSE,
          serves |-> FALSE, opencode |-> FALSE], InstallFields)

\* An auth mode that sets nothing is a bearer token; any other names its header.
Bearer == [header |-> "Authorization", prefix |-> "Bearer"]
ModeRefused(mode) == mode \notin {None, <<>>} /\ "header" \notin DOMAIN mode
ModeOf(mode) ==
    IF mode = None THEN None
    ELSE IF mode = <<>> THEN Bearer ELSE Over([prefix |-> ""], mode)

\* A file that is broken, or sets nothing, is passed over with a warning.
Readable(dir) ==
    [n \in {m \in DOMAIN dir : dir[m] # Broken /\ dir[m] # <<>>} |-> dir[n]]

\* Two layers of one file: field by field, the auth modes likewise.
Merged(lower, upper) ==
    [f \in DOMAIN Over(lower, upper) |->
        IF f \in {"oauth", "key"} /\ f \in DOMAIN lower \cap DOMAIN upper
           /\ None \notin {lower[f], upper[f]}
        THEN Over(lower[f], upper[f]) ELSE Over(lower, upper)[f]]

Layered(lower, upper) ==
    LET above == Readable(upper)
        Both  == DOMAIN lower \cap DOMAIN above
    IN  [n \in DOMAIN lower \cup DOMAIN above |->
            IF n \in Both THEN Merged(lower[n], above[n])
            ELSE IF n \in DOMAIN above THEN above[n] ELSE lower[n]]

AgentFiles(raw)    == Layered(Readable(raw.agents), raw.userAgents)
ProviderFiles(raw) ==
    Layered(Layered(Readable(raw.providers), raw.legacyProviders), raw.userProviders)

OnlyFields(files, fields) == \A n \in DOMAIN files : DOMAIN files[n] \subseteq DOMAIN fields
Parsed(files, fields) == [n \in DOMAIN files |-> Over(fields, files[n])]

\* A provider the user adds may not take the name of an agent or a tool.
NameConflict(raw) ==
    \E n \in DOMAIN Readable(raw.legacyProviders) \cup DOMAIN Readable(raw.userProviders) :
       n \in DOMAIN AgentFiles(raw) /\ n \notin DOMAIN Readable(raw.providers)

\* A provider's file names its upstream and at least one auth mode.
ProviderRefused(file) ==
    \/ "hosts" \notin DOMAIN file
    \/ LET set == Over(ProviderFields, file)
       IN  {set.oauth, set.key} = {None} \/ \E m \in {set.oauth, set.key} : ModeRefused(m)

FilesRefused(raw) ==
    \/ ~OnlyFields(AgentFiles(raw), AgentFields) \/ ~OnlyFields(ProviderFiles(raw), ProviderFields)
    \/ \E n \in DOMAIN ProviderFiles(raw) : ProviderRefused(ProviderFiles(raw)[n])
    \/ NameConflict(raw)

-----------------------------------------------------------------------------
(* load_roster.                                                             *)

\* wire_auth: one mode, two under different headers, or two that are the same.
Wirable(provider) ==
    None \notin {provider.oauth, provider.key} =>
        provider.oauth.header # provider.key.header \/ provider.oauth = provider.key

\* Under two headers, the vault looks at the credential it holds.
WireAuth(provider) ==
    IF None \notin {provider.oauth, provider.key} /\ provider.oauth.header # provider.key.header
    THEN [header |-> "dynamic", prefix |-> ""]
    ELSE IF provider.oauth # None THEN provider.oauth ELSE provider.key

\* The entry of a provider in the routes, and the route of a binding or a harness.
RouteOf(provider) ==
    [upstream |-> provider.hosts, wire |-> WireAuth(provider), shared |-> provider.shared]

Binders(agents, p) == {n \in DOMAIN agents : agents[n].default = p}

\* A harness can drive it: curated for OpenCode, or an endpoint no agent binds.
DrivenByHarness(agents, providers, p) ==
    \/ providers[p].opencode
    \/ Binders(agents, p) = {} /\ providers[p].serves /\ providers[p].key # None

\* An agent binds a provider that is there, and alone; every route has its auth.
BindingRefused(agents, providers) ==
    \/ \E n \in DOMAIN agents :
          agents[n].default # None /\ agents[n].default \notin DOMAIN providers
    \/ \E p \in DOMAIN providers :
          \/ Cardinality(Binders(agents, p)) > 1
          \/ /\ Binders(agents, p) # {} \/ DrivenByHarness(agents, providers, p)
             /\ ~Wirable(providers[p])

ConfigDir(n) == <<"config", n>>
Claim(dir, cred, owner, writable) ==
    [dir |-> dir, cred |-> cred, owner |-> owner, writable |-> writable]

\* Bug: the directories an agent mounts are claimed before the one it logs in to.
ClaimsMountsFirst(agents, n) ==
    LET own == [i \in DOMAIN agents[n].mounts |->
                   Claim(agents[n].mounts[i], FALSE, None, FALSE)]
    IN  IF agents[n].auth = None THEN own
        ELSE own \o <<Claim(agents[n].auth, agents[n].cred, n, agents[n].writable)>>

\* The shared directories an agent asks for, in turn.
ClaimsOf(agents, n) ==
    LET own == [i \in DOMAIN agents[n].mounts |->
                   Claim(agents[n].mounts[i], FALSE, None, FALSE)]
    IN  IF agents[n].auth = None THEN own
        ELSE <<Claim(agents[n].auth, agents[n].cred, n, agents[n].writable)>> \o own

\* A directory belongs to the first claim, the agents' before the providers'.
FirstClaims(agents, harnessed) ==
    LET ofAgent(n)    == IF n \in DOMAIN agents THEN ClaimsOf(agents, n) ELSE <<>>
        ofProvider(p) == IF p \in harnessed THEN <<Claim(ConfigDir(p), TRUE, p, FALSE)>>
                         ELSE <<>>
        claims == FlattenSeq([i \in DOMAIN Sorted |-> ofAgent(Sorted[i])])
                  \o FlattenSeq([i \in DOMAIN Sorted |-> ofProvider(Sorted[i])])
    IN  {claims[i] : i \in {j \in DOMAIN claims :
                               \A k \in 1 .. (j - 1) : claims[k].dir # claims[j].dir}}

\* The provider a captured credential is kept under.
KeyedBy(agents, n) == IF agents[n].default = None THEN n ELSE agents[n].default

Join(agents, providers) ==
    LET logins    == {n \in DOMAIN agents : agents[n].auth # None}
        driven    == {p \in DOMAIN providers : DrivenByHarness(agents, providers, p)}
        installed == {n \in DOMAIN agents : agents[n].deps # None}
        shipped   == {p \in DOMAIN providers : providers[p].deps # None}
    IN  [agents    |-> {n \in DOMAIN agents :
                           agents[n].kind \notin {"tool", "frontend", "infra"}},
         bindings  |-> [n \in DOMAIN agents |-> agents[n].default],
         providers |-> providers,
         auth      |-> [n \in logins \cup driven |->
                           IF n \in logins THEN KeyedBy(agents, n) ELSE n],
         routes    |-> [p \in {q \in DOMAIN providers : Binders(agents, q) # {}} \cup driven |->
                           RouteOf(providers[p])],
         installs  |-> [n \in installed \cup shipped |->
                           IF n \in installed THEN agents[n].deps ELSE providers[n].deps],
         mounts    |-> FirstClaims(agents, driven \ logins),
         sidecars  |-> {n \in DOMAIN agents : agents[n].sidecar}]

LoadRoster(raw) ==
    LET agents    == Parsed(AgentFiles(raw), AgentFields)
        files     == Parsed(ProviderFiles(raw), ProviderFields)
        providers == [p \in DOMAIN files |->
            [files[p] EXCEPT !.oauth = ModeOf(@), !.key = ModeOf(@)]]
    IN  IF FilesRefused(raw) \/ BindingRefused(agents, providers) THEN None
        ELSE Join(agents, providers)

\* routes.json has an entry for every provider, or is not written: one provider
\* whose modes cannot share a header fails it for all.
GenerateRoutes(roster) ==
    IF \A p \in DOMAIN roster.providers : Wirable(roster.providers[p])
    THEN [p \in DOMAIN roster.providers |-> RouteOf(roster.providers[p])] ELSE None

-----------------------------------------------------------------------------
(* Selections: every installable entry, or names to include and to leave out. *)

All == "all"
Selection(includes, excludes) ==
    [literal |-> FALSE, includes |-> includes, excludes |-> excludes]
Everything == [literal |-> TRUE, includes |-> {All}, excludes |-> {}]

\* parse_selection: nothing, or the one word all, is everything.
ParseSelection(includes, excludes) ==
    IF excludes = {} /\ includes \in {{}, {All}} THEN Everything
    ELSE Selection(includes, excludes)

\* Bug: only what the chosen entries name themselves is added.
ClosureOneLevel(installs, seed) == seed \cup UNION {installs[n] : n \in seed \cap DOMAIN installs}

\* Everything that depends_on leads to, round by round.
Closure(installs, seed) ==
    LET found[k \in 0 .. Cardinality(DOMAIN installs)] ==
            IF k = 0 THEN {}
            ELSE LET known == seed \cup found[k - 1]
                 IN  known \cup UNION {installs[n] : n \in known \cap DOMAIN installs}
    IN  seed \cup found[Cardinality(DOMAIN installs)]

\* The names to install, or None for a ValueError: a name that cannot be
\* installed, as a provider without a command, or a dependency that cannot.
ResolveSelection(roster, sel) ==
    LET installable == DOMAIN roster.installs
        named  == sel.includes \ {All}
        seed   == IF All \in sel.includes \/ sel.includes = {} THEN installable ELSE named
        all    == Closure(roster.installs, seed)
    IN  IF sel.literal THEN installable
        ELSE IF ~((named \cup sel.excludes) \ {All} \subseteq installable) THEN None
        ELSE IF ~(all \subseteq installable) THEN None
        ELSE all \ sel.excludes

-----------------------------------------------------------------------------
(* Shared mounts and egress.                                                *)

\* The directories whose credential file a read-only mount covers.
Shadowed(roster, exposed) ==
    {m.dir : m \in {x \in roster.mounts : x.cred /\ ~x.writable /\ x.owner \notin exposed}}

\* Bug: an exposed name is taken for that of a provider.
ExposedByOwnName(roster, exposed) == exposed \cap DOMAIN roster.providers

\* The providers of the exposed entries, which are looked for among the agents.
ExposedProviders(roster, exposed) ==
    {roster.bindings[n] : n \in exposed \cap roster.agents} \ {None}

\* The hosts a container may reach through the vault only.
DenyToVault(roster, exposed) ==
    UNION {roster.providers[p].hosts : p \in {q \in DOMAIN roster.providers :
        ~roster.providers[q].shared /\ q \notin ExposedProviders(roster, exposed)}}

=============================================================================
