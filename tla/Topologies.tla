----------------------------- MODULE Topologies -----------------------------
(***************************************************************************)
(* Builders for the topologies the runs are checked on.  A topology is     *)
(* given by the sequence of its channels, each with its kind and the list  *)
(* of the nodes attached to it; the p-th device of channel c gets the      *)
(* address 16 * c + p, so the order of the list decides who becomes the    *)
(* designated router.                                                      *)
(***************************************************************************)
EXTENDS GlobalRouter

P2P(a, b)    == [kind |-> "p2p", members |-> <<a, b>>]
LAN(members) == [kind |-> "lan", members |-> members]

(***************************************************************************)
(* n nodes, those in routers with a GlobalRouter; metric, up and fwd give  *)
(* the interface of device p on channel c, inject the injected routes.     *)
(***************************************************************************)
Topology(n, routers, chans, inject, Metric(_, _), Up(_, _), Fwd(_, _)) ==
    [nodes   |-> 0 .. n - 1,
     routers |-> routers,
     kind    |-> [c \in DOMAIN chans |-> chans[c].kind],
     injected |-> inject,
     ifs |-> [x \in 0 .. n - 1 |->
        FlattenSeq([c \in DOMAIN chans |->
            LET here == SelectSeq([p \in DOMAIN chans[c].members |-> p],
                                  LAMBDA p : chans[c].members[p] = x)
            IN  [k \in DOMAIN here |->
                    [ch |-> c, addr |-> SubnetMask * c + here[k],
                     metric |-> Metric(c, here[k]),
                     up |-> Up(c, here[k]), fwd |-> Fwd(c, here[k])]]])]]

NoInjected(n) == [x \in 0 .. n - 1 |-> << >>]

(***************************************************************************)
(* All n nodes are routers, every interface is up and forwards, and both   *)
(* ends of channel c have the metric m[c].                                 *)
(***************************************************************************)
Uniform(n, chans, m) ==
    Topology(n, 0 .. n - 1, chans, NoInjected(n),
             LAMBDA c, p : m[c], LAMBDA c, p : TRUE, LAMBDA c, p : TRUE)
=============================================================================
