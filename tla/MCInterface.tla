---------------------------- MODULE MCInterface ----------------------------
(* A small instance of Interface for TLC: a CAN controller that is up and  *)
(* a bonding device.                                                       *)
EXTENDS Interface, TLC

TwoDevices ==
    1 :> [name |-> "can0", kind |-> "can", up |-> TRUE, raw |-> ERROR_ACTIVE,
          starts |-> 1] @@
    2 :> [name |-> "can1", kind |-> "bond", up |-> FALSE, raw |-> STOPPED,
          starts |-> 0]

Symmetry == Permutations(Threads)
=============================================================================
