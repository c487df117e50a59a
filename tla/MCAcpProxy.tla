----------------------------- MODULE MCAcpProxy -----------------------------
(***************************************************************************)
(* TLC instances of AcpProxy: two agents, one of them the default of the   *)
(* roster, each with two models.                                           *)
(***************************************************************************)
EXTENDS AcpProxy

CONSTANTS claude, codex, opus, haiku

MCAgents  == {claude, codex}
MCModels  == {opus, haiku}

\* For longer runs of requests: one agent, or one model each.
MCOneAgent == {claude}
MCOneModel == {opus}

\* A roster that answers with the default pick claude:opus.
MCFullRosters == {<<[agent |-> claude, model |-> opus]>>}

=============================================================================
