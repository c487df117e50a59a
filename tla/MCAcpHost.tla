------------------------------ MODULE MCAcpHost ------------------------------
(***************************************************************************)
(* TLC instance of the three components of an ACP daemon beside its        *)
(* connections: the socket file (AcpDaemon, the surroundings of            *)
(* MCAcpDaemon), the roster (AcpRoster) and the options (AcpModelOptions). *)
(* They share no state: a behaviour is one of one of them.                 *)
(*                                                                         *)
(* The image lists three agents, of which gh ships no ACP wrapper.  The    *)
(* wrapper of claude advertises one or two options; its model ids are one  *)
(* word, or carry a separator.                                             *)
(***************************************************************************)
EXTENDS AcpHost, MCAcpDaemon

CONSTANTS claude, gh, codex, azure, opus, haiku

MCLabel   == <<claude, gh, codex>>
MCWrapped == {claude, codex}
MCWords   == {claude, azure, opus, haiku, Sep}

-----------------------------------------------------------------------------
(* What the wrapper advertises.                                             *)

\* azure:opus is a model of claude's that carries a colon of its own.
MCPlain == {<<opus>>, <<haiku>>, <<azure, Sep, opus>>}

\* Two options side by side, or a group of them.
Entries(ids) == {<<<<x>>, <<y>>>> : x, y \in ids} \cup {<<<<x, y>>>> : x, y \in ids}

Selects(ids, categories) ==
    [type : {"select"}, category : categories, id : {"model", "other"},
     current : ids, entries : Entries(ids)]
Effort == [type |-> "select", category |-> "effort", id |-> "effort",
           current |-> <<opus>>, entries |-> <<<<<<opus>>>>>>]
Toggle == [type |-> "boolean", category |-> None, id |-> "model"]

Before == {<<>>, <<Effort>>, <<Toggle>>}
Advertise(ids) == {others \o <<opt>> : others \in Before, opt \in Selects(ids, {"model"})}
                  \cup Before
MCAdvertisements == Advertise(MCPlain)

VARIABLE part   \* whose behaviour it is

-----------------------------------------------------------------------------
(* The sum of the three.                                                    *)

NoRoster == offers = [a \in Wrapped |-> 0] /\ Roster!Init
NoOption == advertised = <<>> /\ shown = None /\ roster = None /\ pick = None

\* To keep the sum small a wrapper offers no model, or as many as it may.
NothingOrAll == \A a \in Wrapped : offers[a] \in {0, MaxModels}

MCInit ==
    \/ part = "socket" /\ Init /\ NoRoster /\ NoOption
    \/ /\ Init /\ regime = CHOOSE r \in Regimes : TRUE
       /\ \/ part = "roster" /\ Roster!Init /\ NothingOrAll /\ NoOption
          \/ part = "options" /\ NoRoster /\ Options!Init

MCNext ==
    \/ part = "socket" /\ Next /\ UNCHANGED <<part, rosterVars, optionVars>>
    \/ part = "roster" /\ Roster!Next /\ UNCHANGED <<part, vars, optionVars>>
    \/ part = "options" /\ Options!Next /\ UNCHANGED <<part, vars, rosterVars>>

MCSpec ==
    MCInit /\ [][MCNext]_<<part, vars, rosterVars, optionVars>> /\ Fairness /\ Roster!Fairness

=============================================================================
