----------------------------- MODULE MCSocketPool -----------------------------
(* SocketPool with and without the failures after which its counters       *)
(* drift, for two threads, and for one, whose timer never finds the mutex  *)
(* taken. Requests that fail go from one balancer's target to the next.    *)
EXTENDS SocketPool, TLC

Pools == {[global |-> TRUE, balancer |-> "none"],
          [global |-> FALSE, balancer |-> "rr"], [global |-> FALSE, balancer |-> "lc"]}

MCScenarios ==
    {[threads |-> ths, global |-> p.global, balancer |-> p.balancer, failures |-> fs] :
        ths \in {Threads, {TimerThread}}, p \in Pools,
        fs \in {AllFailures, AllFailures \ Drifting}}

MCWeight == [t \in Targets |-> IF t \in Named THEN 2 ELSE 1]

Symmetry == Permutations(Conns)
==============================================================================
