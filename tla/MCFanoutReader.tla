--------------------------- MODULE MCFanoutReader ---------------------------
(* Small instances of FanoutReader for TLC.                                *)
EXTENDS FanoutRefinement, TLC

\* Subscriptions and addresses are interchangeable: no safety property and no
\* action tells two of them apart.
Symmetry == Permutations(Subs) \cup Permutations(Addrs)
=============================================================================
