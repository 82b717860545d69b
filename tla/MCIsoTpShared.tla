---------------------------- MODULE MCIsoTpShared ----------------------------
(* A small instance of IsoTpShared for TLC, with the sizes of               *)
(* MCIsoTpRequest.                                                          *)
EXTENDS IsoTpShared

\* Requests and responses of one frame or several, an Overflow or none,
\* and either side may give up.
OneCallEach ==
    {[reqLens |-> {1, 3}, respLens |-> {1, 4}, blocks |-> {0},
      pads |-> TRUE, faulty |-> TRUE, patient |-> FALSE, fails |-> FALSE,
      calls |-> 1, waits |-> 0, lost |-> 0, noise |-> 0]}
=============================================================================
