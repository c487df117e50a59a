------------------------------- MODULE AcpHost -------------------------------
(***************************************************************************)
(* What an ACP daemon has beside its connections: the socket file          *)
(* (AcpDaemon), the roster of its agents (AcpRoster) and the options of a  *)
(* bound wrapper (AcpModelOptions).                                        *)
(***************************************************************************)
EXTENDS AcpDaemon, Sequences

CONSTANTS
    Label, Wrapped, MaxModels, MaxSessions, MaxRotations,   \* see AcpRoster
    Words, Agent, Sep, Advertisements                       \* see AcpModelOptions

VARIABLES
    offers, capable, cache, auth, flushes, session, asked, reply, answer, began, failed,
    advertised, shown, roster, pick

rosterVars == <<offers, capable, cache, auth, flushes, session, asked, reply, answer,
                began, failed>>
optionVars == <<advertised, shown, roster, pick>>

Roster  == INSTANCE AcpRoster WITH pc <- session
Options == INSTANCE AcpModelOptions

ASSUME RosterAssumptions  == Roster!Assumptions
ASSUME OptionsAssumptions == Options!Assumptions

\* The properties of AcpRoster and AcpModelOptions, as they are stated there: what
\* a session lists, in which order, that it ends, and that a pick names its model
\* (roster.py:187-203, probe.py:43-47, model_options.py:185-194).
RosterTypeOK          == Roster!TypeOK
ListsEveryResponsive  == Roster!ListsEveryResponsive
InLabelOrder          == Roster!InLabelOrder
EverySessionAnswered  == Roster!EverySessionAnswered
PickNamesTheModel     == Options!PickNamesTheModel

=============================================================================
