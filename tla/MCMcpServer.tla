---------------------------- MODULE MCMcpServer ----------------------------
(* Small instances of McpServer for TLC.                                   *)
EXTENDS McpServer, TLC

CONSTANTS c1, c2, i1, i2

Base ==
    [tool |-> "capture", iface |-> i1, rx |-> i1, max |-> 2, filter |-> "all",
     args |-> "good"]

\* More than the hard cap, on either interface.
Capture == {[Base EXCEPT !.max = 3, !.iface = i] : i \in Ifaces}

\* send_and_capture on one interface, or received on the other, or filtered,
\* or with a limit of no frames.
Asking ==
    {[Base EXCEPT !.tool = "send_and_capture", !.rx = w[1], !.max = w[2],
                  !.filter = w[3]] :
        w \in {<<i1, 2, "all">>, <<i2, 2, "all">>, <<i1, 2, "replies">>,
               <<i1, 0, "all">>}}

\* The tools that only send, on either interface.
Sending ==
    {[Base EXCEPT !.tool = t, !.iface = i] :
        t \in {"send_frame", "isotp_request"}, i \in Ifaces}

\* Arguments that do not parse, and a payload that cannot be cut into pairs.
Garbled ==
    {[Base EXCEPT !.tool = t, !.args = a] :
        t \in {"send_frame", "capture", "send_and_capture"}, a \in {"bad", "split"}}

\* What the other call does meanwhile: listen, ask on the same interface, or
\* send on either.
Meanwhile ==
    {[Base EXCEPT !.max = 1],
     [Base EXCEPT !.tool = "send_and_capture", !.max = 1],
     [Base EXCEPT !.tool = "send_frame", !.iface = i2]}

AllRequests ==
    (c1 :> Capture \cup Asking \cup Sending \cup Garbled) @@ (c2 :> Meanwhile)

\* Everything is allowed, one interface is, or it is and only for reading.
AllConfigs ==
    {[allowlist |-> {i1, i2}, readonly |-> FALSE],
     [allowlist |-> {i1}, readonly |-> FALSE],
     [allowlist |-> {i1}, readonly |-> TRUE]}

=============================================================================
