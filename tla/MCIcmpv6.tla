------------------------------ MODULE MCIcmpv6 ------------------------------
(* The two parts of Icmpv6L4Protocol for TLC: a neighbour cache entry and   *)
(* duplicate address detection.  They share no state, so a behaviour is of  *)
(* one part and the other stands still.                                     *)
EXTENDS NdiscCache, DuplicateAddress

VARIABLE part   \* "resolution" or "detection"

Icmpv6Init ==
    /\ Init /\ DadInit
    /\ \/ part = "resolution" /\ noDad = {}
       \/ part = "detection" /\ ~forwarding /\ own = "none"

Icmpv6Next ==
    /\ UNCHANGED part
    /\ \/ part = "resolution" /\ Next /\ UNCHANGED dadVars
       \/ part = "detection" /\ DadNext /\ UNCHANGED vars

(* The fairness of both parts. *)
Icmpv6Spec ==
    /\ Icmpv6Init /\ [][Icmpv6Next]_<<part, vars, dadVars>>
    /\ WF_vars(Timeout)
    /\ WF_dadVars(Tick)
    /\ \A h \in Hosts : WF_dadVars(FunctionDadTimeout(h))
    /\ WF_dadVars(\E msg \in net : DadHandleNS(msg) \/ DadHandleNA(msg))
=============================================================================
