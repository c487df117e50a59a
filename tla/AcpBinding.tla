----------------------------- MODULE AcpBinding -----------------------------
(***************************************************************************)
(* What the bind phase of an ACP connection promises its client, by the    *)
(* two phases of acp/proxy.py:23-36 and the v1 rules of proxy.py:44-47:    *)
(* binding is done by one handler at a time, a failed bind leaves the      *)
(* connection as it was, and the first bind that succeeds settles the      *)
(* agent of the connection for good.                                       *)
(***************************************************************************)
CONSTANTS Handlers, Agents, None

VARIABLES
    binder,  \* the handler that is binding, if one is
    target,  \* the agent it is binding to
    agent    \* the agent of the connection

vars == <<binder, target, agent>>

Init == binder = None /\ target = None /\ agent = None

StartBind(h, a) ==
    /\ binder = None /\ agent = None
    /\ binder' = h /\ target' = a
    /\ UNCHANGED agent

EndBind == binder # None /\ binder' = None /\ target' = None

BindSucceeds == EndBind /\ agent' = target
BindFails    == EndBind /\ UNCHANGED agent     \* or the client has left

Next == \/ \E h \in Handlers, a \in Agents : StartBind(h, a)
        \/ BindSucceeds \/ BindFails

Spec == Init /\ [][Next]_vars
=============================================================================
