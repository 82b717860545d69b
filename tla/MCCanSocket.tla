---------------------------- MODULE MCCanSocket ----------------------------
(* Small instances of CanSocket for TLC.                                   *)
EXTENDS CanSocket, TLC

Plain ==
    [filter |-> "unset", clear |-> FALSE, err |-> FALSE, fd |-> FALSE,
     nonblocking |-> FALSE, timeout |-> "unset"]

\* Ownership: the options that decide which calls can fail.
OwnershipOpts == {Plain, [Plain EXCEPT !.filter = "match", !.err = TRUE]}

\* Delivery: no filter, an error-only socket, a filter that precedes
\* clear_filter, an empty one; receives that wait for ever, time out, wait for
\* ever because the timeout is below a microsecond, or poll.
DeliveryOpts ==
    {[Plain EXCEPT !.err = TRUE, !.fd = TRUE],
     [Plain EXCEPT !.clear = TRUE, !.err = TRUE, !.timeout = "usual"],
     [Plain EXCEPT !.filter = "match", !.clear = TRUE, !.timeout = "sub_us"],
     [Plain EXCEPT !.filter = "empty", !.nonblocking = TRUE]}

Symmetry == Permutations(Threads) \cup Permutations(Sockets)
=============================================================================
