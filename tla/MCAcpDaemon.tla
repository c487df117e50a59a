----------------------------- MODULE MCAcpDaemon -----------------------------
(***************************************************************************)
(* TLC instances of AcpDaemon: a host that starts daemons one after the    *)
(* other, and one that starts them at any time with everything going on.   *)
(***************************************************************************)
EXTENDS AcpDaemon

Everything == {"kill", "signal", "flaky", "restart"}

MCRegimes ==
    [spawner : {"settled"}, disturbances : {{"kill"}}, unlinksOnClose : BOOLEAN]
    \cup [spawner : {"any", "notLive"}, disturbances : {Everything}, unlinksOnClose : {FALSE}]

\* Two daemons started together, nothing else going on.
MCRace == [spawner : {"any"}, disturbances : {{}}, unlinksOnClose : {TRUE}]

=============================================================================
