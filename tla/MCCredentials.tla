---------------------------- MODULE MCCredentials ----------------------------
(* A small instance of Credentials for TLC.                                  *)
EXTENDS Credentials, TLC

\* Everything that can happen, to one job at a time; two launches at once, and
\* edits; launches and logins with an API key at once; two logins or cleanings at
\* once, and logins by agents.
MCRegimes ==
    {Kinds \cup Mishaps,
     {"enable", "disable", "edit", "overlap"},
     {"enable", "disable", "apiKey", "overlap"},
     {"apiKey", "oauth", "exposed", "clean", "agentLogin", "kill", "overlap"}}

\* Neither processes nor logins are told apart, and no property is one of liveness.
MCSymmetry == Permutations(Processes) \cup Permutations(Logins)

=============================================================================
