------------------------------ MODULE MCLaunch ------------------------------
(***************************************************************************)
(* TLC instances of Launch.  The bundled files are four entries, of which  *)
(* toad needs opencode and opencode may need gh, and three providers, of   *)
(* which router is driven by a harness.                                    *)
(***************************************************************************)
EXTENDS Launch

CONSTANTS anthropic, claude, gh, github, opencode, router, toad,
          bearer, plain, apiHost, gitHost, routerHost, fedora, custom, box

MCSorted == <<anthropic, box, claude, gh, github, opencode, router, toad>>

-----------------------------------------------------------------------------
(* The files.                                                               *)

Empty == <<>>
Dir(n, file) == [x \in {n} |-> file]

MCAgents == [n \in {claude, gh, opencode, toad} |->
    IF n = claude THEN [default |-> anthropic, cred |-> TRUE, auth |-> ConfigDir(claude),
                        deps |-> {}]
    ELSE IF n = gh THEN [kind |-> "tool", default |-> github, cred |-> TRUE,
                         auth |-> ConfigDir(gh), deps |-> {}, sidecar |-> TRUE]
    ELSE IF n = opencode THEN [kind |-> "harness", deps |-> {}]
    ELSE [kind |-> "frontend", deps |-> {opencode}]]

Header(h) == [header |-> h, prefix |-> bearer]
MCProviders == [n \in {anthropic, github, router} |->
    IF n = anthropic THEN [hosts |-> {apiHost}, oauth |-> Header(bearer), key |-> Header(plain),
                           serves |-> TRUE]
    ELSE IF n = github THEN [hosts |-> {gitHost}, oauth |-> Empty]
    ELSE [hosts |-> {routerHost}, key |-> Header(bearer), serves |-> TRUE, opencode |-> TRUE,
          deps |-> {opencode}]]

Raw(userAgents, legacyProviders, userProviders) ==
    [agents |-> MCAgents, userAgents |-> userAgents, providers |-> MCProviders,
     legacyProviders |-> legacyProviders, userProviders |-> userProviders]

MCBundled == Raw(Empty, Empty, Empty)

\* What the user may write over an entry, or beside it.
Claudes   == {Empty, Broken, [mounts |-> <<ConfigDir(claude), ConfigDir(gh)>>],
              [mounts |-> <<ConfigDir(claude)>>, writable |-> TRUE], [deps |-> {toad}],
              [default |-> github], [typo |-> TRUE]}
Gitters   == {Empty, [auth |-> ConfigDir(claude)], [default |-> None], [kind |-> "native"],
              [deps |-> {claude}]}
Opencodes == {Empty, [deps |-> {gh}], [default |-> router], [deps |-> {toad}],
              [auth |-> ConfigDir(router)]}
Routers   == {Empty, [hosts |-> {apiHost}], [opencode |-> FALSE, deps |-> None],
              [oauth |-> [header |-> bearer, prefix |-> plain]], [oauth |-> [prefix |-> plain]],
              [key |-> Empty, oauth |-> Empty], [deps |-> {box}]}

UserAgents == {[n \in {claude, gh} |-> IF n = claude THEN c ELSE g] :
                   c \in Claudes, g \in Gitters}
              \cup {[n \in {claude, opencode} |-> IF n = claude THEN c ELSE o] :
                   c \in Claudes, o \in Opencodes}
UserProviders == {Dir(router, r) : r \in Routers}
                 \cup {Dir(gh, [hosts |-> {gitHost}]), Dir(anthropic, [shared |-> TRUE]),
                    Dir(anthropic, [key |-> [header |-> bearer]]), Dir(box, [hosts |-> {gitHost}])}

MCRaws == {Raw(u, Empty, p) : u \in UserAgents, p \in UserProviders}
          \cup {Raw(Empty, Dir(router, [hosts |-> {gitHost}]), p) : p \in UserProviders}

-----------------------------------------------------------------------------
(* The verbs.                                                               *)

Plain == [verb |-> "run", base |-> fedora, family |-> FALSE, select |-> Everything,
          force |-> "no", tool |-> None, name |-> None, mode |-> "interactive",
          agent |-> claude, ephemeral |-> FALSE, preflight |-> "skip", gate |-> TRUE,
          follow |-> TRUE]

Verb(verb, base) == [Plain EXCEPT !.verb = verb, !.base = base]
BuildOf(sel, force, tool) ==
    [Plain EXCEPT !.verb = "build", !.select = sel, !.force = force, !.tool = tool]
Run(mode, name) == [Plain EXCEPT !.mode = mode, !.name = name,
                                 !.agent = IF mode = "tool" THEN gh ELSE claude]
On(verb, name) == [Plain EXCEPT !.verb = verb, !.name = name]

Claude == ParseSelection({claude}, {})
AllBut == ParseSelection({}, {claude})
Toad   == ParseSelection({toad}, {opencode})
Bogus  == ParseSelection({router, github}, {})

BuildJobs == {BuildOf(Claude, "no", None), BuildOf(Everything, "no", None),
              Verb("auth", fedora), Verb("uninstall", fedora), Verb("setup", fedora)}
OtherJobs == {BuildOf(AllBut, "rebuild", gh), BuildOf(Claude, "full", gh), BuildOf(Toad, "no", None),
              BuildOf(Bogus, "no", None),
              Verb("setup", custom), [Verb("setup", custom) EXCEPT !.family = TRUE],
              Run("tool", None), [Run("headless", None) EXCEPT !.agent = toad, !.follow = FALSE]}
              \cup {[Run("headless", None) EXCEPT !.preflight = p] : p \in {"ask", "yes", "notty"}}

Built == LET all == {claude, gh, opencode, toad, router}
             tags == {L0Tag(fedora), L1Tag(fedora, all), AliasTag(fedora), SidecarTag(fedora)}
         IN  [t \in tags |-> IF t = L0Tag(fedora) THEN {}
                             ELSE IF t = SidecarTag(fedora) THEN {gh} ELSE all]

Surroundings(raw, jobs, atMost, spawner, failures, built, reuse) ==
    [raw |-> raw, jobs |-> jobs, atMost |-> atMost, spawner |-> spawner,
     failures |-> failures, built |-> built, reuse |-> reuse]

\* The files alone; the image verbs, overlapping and one after another; the
\* containers, with and without failures, with names apart and not.
Catalog    == {Surroundings(raw, {}, 0, "settled", FALSE, Empty, FALSE) : raw \in MCRaws}
Overlaps   == Surroundings(MCBundled, BuildJobs, 2, "any", TRUE, Empty, FALSE)
Sequences3 == Surroundings(MCBundled, BuildJobs \cup OtherJobs, 2, "settled", TRUE, Empty, FALSE)
Lives      == {Run("headless", box), [Run("interactive", None) EXCEPT !.gate = FALSE],
               On("rm", box), On("start", box), On("stop", box)}
Untroubled == Surroundings(MCBundled, Lives, 3, "any", FALSE, Built, FALSE)
Troubled   == Surroundings(MCBundled, Lives, 3, "any", TRUE, Built, FALSE)
Colliding  == Surroundings(MCBundled, Lives, 2, "any", TRUE, Built, TRUE)

MCRegimes == Catalog \cup {Overlaps, Sequences3, Untroubled, Troubled, Colliding}

\* A setup and the run after it.
Afterwards == {Verb("setup", fedora), [Run("headless", None) EXCEPT !.preflight = "ask"]}
MCSkipRegimes == {Surroundings(MCBundled, Afterwards, 2, "settled", FALSE, Empty, FALSE)}

\* toad without the opencode it depends on.
MCPartRegimes ==
    {Surroundings(MCBundled, {BuildOf(Toad, "no", None)}, 1, "settled", FALSE, Empty, FALSE)}

\* A name that is run, and whose container is started, without any failure.
MCRerunRegimes ==
    {Surroundings(MCBundled, {Run("headless", box), On("start", box)}, 3, "settled", FALSE,
                  Built, FALSE)}

=============================================================================
