--------------------------- MODULE MCClientCalls ---------------------------
(***************************************************************************)
(* Instances of ClientCalls for TLC: the calls the threads of a client     *)
(* make.                                                                   *)
(***************************************************************************)
EXTENDS ClientCalls, TLC

NoCalls == {}

AcquireOnly == {StatusCall}

TwoWayCalls == AcquireOnly \cup {[type |-> "Transaction", one_way |-> FALSE]}

OneWayOnly == {[type |-> "Transaction", one_way |-> TRUE]}

AllCalls == TwoWayCalls \cup OneWayOnly
=============================================================================
