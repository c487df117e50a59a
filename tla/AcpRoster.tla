------------------------------ MODULE AcpRoster ------------------------------
(***************************************************************************)
(* The roster of one daemon, acp/roster.py, over the cache of acp/cache.py *)
(* and the probe of acp/probe.py.                                          *)
(*                                                                         *)
(* A session is one client connection's session/new, which runs            *)
(* list_available_agents once.  Sessions share the cache and interleave at *)
(* the gather that waits for the probes of the cold agents.  Credentials   *)
(* rotate under the roster; what a wrapper answers depends on those it     *)
(* reads, so a model is known by the rotation its list was made for.       *)
(***************************************************************************)
EXTENDS Integers, Sequences, SequencesExt

CONSTANTS
    Label,          \* the image's agents label: a sequence of agent ids
    Wrapped,        \* the agents that ship an ACP wrapper
    MaxModels,      \* the most models a wrapper offers
    MaxSessions,    \* how many times a client sends session/new
    MaxRotations,   \* how often the credentials rotate
    None

Agents    == ToSet(Label)
Sessions  == 1 .. MaxSessions
Rotations == 0 .. MaxRotations

List(k, v) == [i \in 1 .. k |-> v]     \* the k models a wrapper offers at rotation v
Lists == {List(k, v) : k \in 0 .. MaxModels, v \in Rotations}
Ids   == [agent : Agents, auth : Rotations]

\* What an instance must see to.
Assumptions ==
    /\ Label \in Seq(Agents) /\ IsInjective(Label) /\ Wrapped \subseteq Agents
    /\ MaxModels \in Nat /\ MaxSessions \in Nat /\ MaxRotations \in Nat
    /\ None \notin Lists /\ \A S \in SUBSET Agents : S # None

VARIABLES
    offers,   \* offers[a]: how many models the wrapper of a offers
    capable,  \* acp_capable_agents: None until first used
    cache,    \* cache[a]: None, or the tuple of models stored for a
    auth,     \* how often the credentials have rotated
    flushes,  \* for how many of the rotations the cache was flushed
    pc,       \* pc[s]: idle, gather, done, cancelled
    asked,    \* asked[s]: the agents whose probe session s waits for
    reply,    \* reply[s][a]: what the wrapper of a has told the probe of s
    answer,   \* answer[s]: the ids session s got, as agent and rotation
    began,    \* began[s]: the value of flushes when session s started
    failed    \* failed[s]: the agents whose probe failed in session s

vars == <<offers, capable, cache, auth, flushes, pc, asked, reply, answer, began,
          failed>>

TypeOK ==
    /\ offers \in [Wrapped -> 0 .. MaxModels]
    /\ capable \in (SUBSET Agents) \cup {None}
    /\ cache \in [Agents -> Lists \cup {None}]
    /\ auth \in Rotations /\ flushes \in Rotations
    /\ pc \in [Sessions -> {"idle", "gather", "done", "cancelled"}]
    /\ asked \in [Sessions -> SUBSET Agents]
    /\ reply \in [Sessions -> [Agents -> Lists \cup {None}]]
    /\ \A s \in Sessions : ToSet(answer[s]) \subseteq Ids
    /\ began \in [Sessions -> Rotations]
    /\ failed \in [Sessions -> SUBSET Agents]

NoReply == [a \in Agents |-> None]

Init ==
    /\ offers \in [Wrapped -> 0 .. MaxModels]
    /\ capable = None /\ auth = 0 /\ flushes = 0
    /\ cache = [a \in Agents |-> None]
    /\ pc = [s \in Sessions |-> "idle"]
    /\ asked = [s \in Sessions |-> {}]
    /\ reply = [s \in Sessions |-> NoReply]
    /\ answer = [s \in Sessions |-> <<>>]
    /\ began = [s \in Sessions |-> 0]
    /\ failed = [s \in Sessions |-> {}]

-----------------------------------------------------------------------------
(* list_available_agents.                                                   *)

\* Bug: each agent's ids are put before those already listed.
WalkPrepends(kept, models) ==
    LET IdsOf(a) == IF a \notin kept \/ models[a] = None THEN <<>>
                    ELSE [i \in DOMAIN models[a] |-> [agent |-> a, auth |-> models[a][i]]]
    IN  FlattenSeq([i \in DOMAIN Label |-> IdsOf(Label[Len(Label) + 1 - i])])

\* The ids of the cached agents, in the order of the label.
Walk(kept, models) ==
    LET IdsOf(a) == IF a \notin kept \/ models[a] = None THEN <<>>
                    ELSE [i \in DOMAIN models[a] |-> [agent |-> a, auth |-> models[a][i]]]
    IN  FlattenSeq([i \in DOMAIN Label |-> IdsOf(Label[i])])

\* The check for wrappers runs once, and what it finds is kept.  It keeps the agents
\* its output names, which is cut short when the exec ends early; when it raises,
\* every agent.  It blocks the event loop, so nothing interleaves with it.
FirstUse == IF capable # None THEN {capable}
            ELSE (SUBSET (Agents \cap Wrapped)) \cup {Agents}

\* session/new up to the gather, or to its answer when no agent is cold.
ListAgents(s) ==
    /\ pc[s] = "idle" /\ \A t \in 1 .. (s - 1) : pc[t] # "idle"
    /\ \E kept \in FirstUse :
          LET cold == {a \in kept : cache[a] = None} IN
          /\ capable' = kept
          /\ asked' = [asked EXCEPT ![s] = cold]
          /\ IF cold # {}
               THEN pc' = [pc EXCEPT ![s] = "gather"] /\ UNCHANGED answer
               ELSE /\ pc' = [pc EXCEPT ![s] = "done"]
                    /\ answer' = [answer EXCEPT ![s] = Walk(kept, cache)]
    /\ began' = [began EXCEPT ![s] = flushes]
    /\ UNCHANGED <<offers, cache, auth, flushes, reply, failed>>

\* The wrapper answers the probe with the credentials it finds.
WrapperReplies(s, a) ==
    /\ a \in asked[s] \cap Wrapped /\ reply[s][a] = None
    /\ reply' = [reply EXCEPT ![s][a] = List(offers[a], auth)]
    /\ UNCHANGED <<offers, capable, cache, auth, flushes, pc, asked, answer, began, failed>>

\* Bug: a list is added to the one another session has cached meanwhile.
WarmAppends(s, a) ==
    /\ a \in asked[s] /\ reply[s][a] # None
    /\ cache' = [cache EXCEPT ![a] = IF @ = None THEN reply[s][a] ELSE @ \o reply[s][a]]
    /\ asked' = [asked EXCEPT ![s] = @ \ {a}]
    /\ reply' = [reply EXCEPT ![s][a] = None]
    /\ UNCHANGED <<offers, capable, auth, flushes, pc, answer, began, failed>>

\* warm: the probe returns and its list is cached.
Warm(s, a) ==
    /\ a \in asked[s] /\ reply[s][a] # None
    /\ cache' = [cache EXCEPT ![a] = reply[s][a]]
    /\ asked' = [asked EXCEPT ![s] = @ \ {a}]
    /\ reply' = [reply EXCEPT ![s][a] = None]
    /\ UNCHANGED <<offers, capable, auth, flushes, pc, answer, began, failed>>

\* Bug: a failed probe is cached as an agent without models.
ProbeFailsCached(s, a) ==
    /\ a \in asked[s]
    /\ cache' = [cache EXCEPT ![a] = <<>>]
    /\ asked' = [asked EXCEPT ![s] = @ \ {a}]
    /\ failed' = [failed EXCEPT ![s] = @ \cup {a}]
    /\ UNCHANGED <<offers, capable, auth, flushes, pc, reply, answer, began>>

\* Bug: gather goes on waiting for a probe that failed.
ProbeFailsUnnoticed(s, a) ==
    /\ a \in asked[s]
    /\ failed' = [failed EXCEPT ![s] = @ \cup {a}]
    /\ UNCHANGED <<offers, capable, cache, auth, flushes, pc, asked, reply, answer, began>>

\* warm: the probe times out or the wrapper refuses; nothing is cached.
ProbeFails(s, a) ==
    /\ a \in asked[s]
    /\ asked' = [asked EXCEPT ![s] = @ \ {a}]
    /\ failed' = [failed EXCEPT ![s] = @ \cup {a}]
    /\ reply' = [reply EXCEPT ![s][a] = None]
    /\ UNCHANGED <<offers, capable, cache, auth, flushes, pc, answer, began>>

\* gather returns: read the whole roster out of the cache.
Gathered(s) ==
    /\ pc[s] = "gather" /\ asked[s] = {}
    /\ pc' = [pc EXCEPT ![s] = "done"]
    /\ answer' = [answer EXCEPT ![s] = Walk(capable, cache)]
    /\ UNCHANGED <<offers, capable, cache, auth, flushes, asked, reply, began, failed>>

\* The client hangs up: gather cancels the probes it waits for.
Cancel(s) ==
    /\ pc[s] = "gather"
    /\ pc' = [pc EXCEPT ![s] = "cancelled"]
    /\ asked' = [asked EXCEPT ![s] = {}]
    /\ reply' = [reply EXCEPT ![s] = NoReply]
    /\ UNCHANGED <<offers, capable, cache, auth, flushes, answer, began, failed>>

\* The credentials rotate; the roster is not told.
Rotate ==
    /\ auth < MaxRotations
    /\ auth' = auth + 1
    /\ UNCHANGED <<offers, capable, cache, flushes, pc, asked, reply, answer, began, failed>>

\* invalidate_auth drops every entry: all agents share one auth identity.  Nothing in
\* the repository calls the hook; whoever does, does so once for a rotation.
InvalidateAuth ==
    /\ flushes < auth
    /\ flushes' = flushes + 1
    /\ cache' = [a \in Agents |-> None]
    /\ UNCHANGED <<offers, capable, auth, pc, asked, reply, answer, began, failed>>

-----------------------------------------------------------------------------
ProbeEnds(s, a) == Warm(s, a) \/ ProbeFails(s, a)

Next ==
    \/ \E s \in Sessions : ListAgents(s) \/ Gathered(s) \/ Cancel(s)
    \/ \E s \in Sessions, a \in Agents : WrapperReplies(s, a) \/ ProbeEnds(s, a)
    \/ Rotate \/ InvalidateAuth

Spec == Init /\ [][Next]_vars

\* A probe has a timeout of its own, and a task that can go on does.
Fairness ==
    /\ \A s \in Sessions : WF_vars(Gathered(s))
    /\ \A s \in Sessions, a \in Agents : WF_vars(ProbeEnds(s, a))

FairSpec == Spec /\ Fairness

-----------------------------------------------------------------------------
(* Properties.                                                              *)

Answered(s)  == pc[s] = "done"
Listed(s)    == {id.agent : id \in ToSet(answer[s])}
Undisturbed(s) == began[s] = flushes   \* nobody has flushed the cache under it

\* Whatever order the probes end in, and whatever failed in earlier sessions: a
\* session lists every agent that offers a model, that the check for wrappers has
\* kept, and whose probe did not fail in this very session (roster.py:187-191).
ListsEveryResponsive ==
    \A s \in Sessions :
        Answered(s) /\ Undisturbed(s) =>
            {a \in capable \cap Wrapped : offers[a] > 0} \ failed[s] \subseteq Listed(s)

\* The ids come in the order of the label, all those of an agent together: the first
\* is the default of the session (roster.py:199-203, proxy.py:269).
PlaceOf(a) == CHOOSE i \in DOMAIN Label : Label[i] = a
InLabelOrder ==
    \A s \in Sessions : \A i, j \in DOMAIN answer[s] :
        i < j => PlaceOf(answer[s][i].agent) <= PlaceOf(answer[s][j].agent)

\* Every session/new is answered, whatever its probes do (probe.py:43-47).
EverySessionAnswered ==
    \A s \in Sessions : pc[s] = "gather" ~> pc[s] \in {"done", "cancelled"}

=============================================================================
