--------------------------- MODULE McpServerProofs ---------------------------
(***************************************************************************)
(* Proofs about McpServer, for every set of calls, interfaces and          *)
(* configurations, all arguments the calls may have, and every bound.      *)
(***************************************************************************)
EXTENDS McpServer, SequenceTheorems, FiniteSetTheorems, TLAPS

USE CallsAssumption, IfacesAssumption, RequestsAssumption,
    ConfigsAssumption, BoundsAssumption

-----------------------------------------------------------------------------
(* The inductive invariant.                                                *)

LogFrames == [on: Ifaces, by: Calls \cup {NoCall}, reply: BOOLEAN]

Types ==
    /\ config \in Configs
    /\ bus \in Seq(LogFrames)
    /\ pc \in [Calls -> Steps]
    /\ DOMAIN req = Calls
    /\ open \in [Calls -> BOOLEAN] /\ shared \in [Calls -> BOOLEAN]
    /\ expired \in [Calls -> BOOLEAN] /\ overrun \in [Calls -> BOOLEAN]
    /\ queue \in [Calls -> Seq(Nat)] /\ out \in [Calls -> Seq(Nat)]
    /\ sent \in [Calls -> Nat] /\ late \in [Calls -> Nat]

\* What calls put on the bus, they were allowed to.
LogInv ==
    \A i \in 1..Len(bus) :
        bus[i].by \in Calls => Allowed(bus[i].on) /\ ~config.readonly

CallTypes(c) ==
    /\ req[c] \in Requests[c]
    /\ \A j \in 1..Len(queue[c]) : queue[c][j] \in 1..Len(bus)
    /\ \A j \in 1..Len(out[c]) : out[c][j] \in 1..Len(bus)
    /\ Len(queue[c]) <= RcvBuf
    /\ sent[c] \in 0..Len(bus) /\ late[c] \in 0..Len(bus)
    /\ open[c] <=> pc[c] \in Holding

\* A call past the gates was let through, holds frames only while it has its
\* socket, and takes the steps of its tool.
Stage(c) ==
    /\ pc[c] \in {"none", "failed", "panicked"} => out[c] = <<>>
    /\ pc[c] \in {"none", "open", "done", "failed", "panicked"} => queue[c] = <<>>
    /\ pc[c] \notin {"none", "failed"} => Gated(req[c])
    /\ pc[c] = "open_tx" => req[c].tool = "send_and_capture"
    /\ pc[c] = "send" => req[c].tool \in {"send_frame", "send_and_capture"}
    /\ pc[c] = "exchange" => req[c].tool = "isotp_request"
    /\ pc[c] = "none" => shared[c]

\* The limits of a capture.  A receive that began before the deadline has no
\* late frame before it.
Limits(c) ==
    /\ Len(out[c]) <= Limit(req[c])
    /\ pc[c] = "recv" => Len(out[c]) < Limit(req[c])
    /\ expired[c] => \A j \in 1..Len(out[c]) - 1 : out[c][j] <= late[c]
    /\ expired[c] /\ pc[c] = "recv" =>
         \A j \in 1..Len(out[c]) : out[c][j] <= late[c]

\* What is captured, and then what is queued, is in the order of the log.
Order(c) ==
    /\ \A i, j \in 1..Len(out[c]) : i < j => out[c][i] < out[c][j]
    /\ \A i, j \in 1..Len(queue[c]) : i < j => queue[c][i] < queue[c][j]
    /\ \A i \in 1..Len(out[c]), j \in 1..Len(queue[c]) :
         out[c][i] < queue[c][j]

\* A frame of the log is captured or queued.
Held(i, c) ==
    \/ \E j \in 1..Len(out[c]) : out[c][j] = i
    \/ \E j \in 1..Len(queue[c]) : queue[c][j] = i

Complete(c) ==
    pc[c] \in {"loop", "recv"} /\ req[c].tool = "send_and_capture"
    /\ ~overrun[c] =>
        \A i \in sent[c] + 1..Len(bus) : Hears(bus[i], c) => Held(i, c)

\* A call that sends and captures on one interface shares the socket, which
\* does not hear what it sends.
Own(c) ==
    req[c].rx = req[c].iface =>
        /\ shared[c]
        /\ \A j \in 1..Len(queue[c]) : bus[queue[c][j]].by # c
        /\ \A j \in 1..Len(out[c]) : bus[out[c][j]].by # c

CallInv(c) ==
    /\ CallTypes(c) /\ Stage(c) /\ Limits(c)
    /\ Order(c) /\ Complete(c) /\ Own(c)

IInv == Types /\ LogInv /\ \A c \in Calls : CallInv(c)

-----------------------------------------------------------------------------
(* The steps.                                                              *)

Arguments ==
    [tool: {"send_frame", "capture", "send_and_capture", "isotp_request"},
     iface: Ifaces, rx: Ifaces, max: Nat, filter: {"all", "replies"},
     args: {"good", "bad", "split"}]

LEMMA ArgumentsLemma ==
    ASSUME NEW c \in Calls, NEW r \in Requests[c]
    PROVE  r \in Arguments
  BY DEF Arguments

LEMMA LimitType ==
    ASSUME NEW r \in Arguments
    PROVE  Limit(r) \in Nat
  BY DEF Limit, Arguments

\* The variables of one call.
Unmoved(d) ==
    /\ pc'[d] = pc[d] /\ req'[d] = req[d]
    /\ open'[d] = open[d] /\ shared'[d] = shared[d]
    /\ queue'[d] = queue[d] /\ out'[d] = out[d]
    /\ expired'[d] = expired[d] /\ sent'[d] = sent[d]
    /\ overrun'[d] = overrun[d] /\ late'[d] = late[d]

LEMMA OthersStay ==
    ASSUME NEW d \in Calls, CallInv(d), Unmoved(d), UNCHANGED <<config, bus>>
    PROVE  CallInv(d)'
<1>1. CallTypes(d)'
  BY DEF CallInv, CallTypes, Unmoved
<1>2. Stage(d)'
  BY DEF CallInv, Stage, Unmoved, Gated, Allowed, Writes
<1>3. Limits(d)'
  BY DEF CallInv, Limits, Unmoved, Limit
<1>4. Order(d)'
  BY DEF CallInv, Order, Unmoved
<1>5. Complete(d)'
  BY DEF CallInv, Complete, Unmoved, Held, Hears, OnWire, Wanted, RxIface
<1>6. Own(d)'
  BY DEF CallInv, Own, Unmoved
<1> QED
  BY <1>1, <1>2, <1>3, <1>4, <1>5, <1>6 DEF CallInv

\* The steps that put no frame on the bus are those of one call.
Local(c) ==
    \/ Admit(c) \/ OpenSocket(c) \/ OpenTx(c) \/ ExchangeEnds(c)
    \/ CheckLoop(c) \/ RecvFrame(c) \/ RecvNothing(c) \/ Fail(c)
    \/ Close(c) \/ Expire(c)

LEMMA LocalFrame ==
    ASSUME Types, NEW c \in Calls, Local(c)
    PROVE  /\ UNCHANGED <<config, bus, sent, overrun>>
           /\ \A d \in Calls \ {c} : Unmoved(d)
<1>1. UNCHANGED <<config, bus, sent, overrun>>
  BY DEF Local, Admit, OpenSocket, OpenTx, ExchangeEnds, CheckLoop, RecvFrame,
         RecvNothing, Fail, Close, Expire, sockVars, argVars
<1>2. \A d \in Calls \ {c} :
         /\ pc'[d] = pc[d] /\ req'[d] = req[d]
         /\ expired'[d] = expired[d] /\ late'[d] = late[d]
  BY DEF Types, Local, Admit, OpenSocket, OpenTx, ExchangeEnds, CheckLoop,
         RecvFrame, RecvNothing, Fail, Close, Expire, Goto, argVars
<1>3. \A d \in Calls \ {c} :
         /\ open'[d] = open[d] /\ shared'[d] = shared[d]
         /\ queue'[d] = queue[d] /\ out'[d] = out[d]
  BY DEF Types, Local, Admit, OpenSocket, OpenTx, ExchangeEnds, CheckLoop,
         RecvFrame, RecvNothing, Fail, Close, Expire, sockVars
<1> QED
  BY <1>1, <1>2, <1>3 DEF Unmoved

LEMMA LocalTypes ==
    ASSUME Types, \A d \in Calls : CallTypes(d), NEW c \in Calls, Local(c)
    PROVE  Types'
<1>1. /\ config' \in Configs /\ bus' \in Seq(LogFrames)
      /\ sent' \in [Calls -> Nat] /\ overrun' \in [Calls -> BOOLEAN]
  BY LocalFrame DEF Types
<1>2. pc' \in [Calls -> Steps]
  <2>0. \A r : Admitted(r) \in Steps
    BY DEF Admitted, Steps
  <2>1. req[c].tool \in {"send_frame", "capture", "send_and_capture",
                         "isotp_request"}
    BY ArgumentsLemma DEF CallTypes, Arguments
  <2>2. \E step \in Steps : pc' = [pc EXCEPT ![c] = step]
    <3>1. CASE OpenSocket(c)
      <4>1. AfterOpen[req[c].tool] \in Steps
        BY <2>1 DEF AfterOpen, Steps
      <4> QED
        BY <3>1, <4>1 DEF OpenSocket, Goto
    <3>2. CASE Expire(c)
      BY <3>2 DEF Expire, Types
    <3>3. CASE Admit(c)
      BY <2>0, <3>3 DEF Admit, Goto
    <3>4. CASE ~OpenSocket(c) /\ ~Expire(c) /\ ~Admit(c)
      BY <3>4 DEF Local, OpenTx, ExchangeEnds, CheckLoop, RecvFrame,
                  RecvNothing, Fail, Close, Goto, Steps
    <3> QED
      BY <3>1, <3>2, <3>3, <3>4
  <2> QED
    BY <2>2 DEF Types
<1>3. /\ DOMAIN req' = Calls
      /\ expired' \in [Calls -> BOOLEAN] /\ late' \in [Calls -> Nat]
  <2>1. CASE Admit(c)
    <3>1. PICK r : req' = [req EXCEPT ![c] = r]
      BY <2>1 DEF Admit
    <3> QED
      BY <2>1, <3>1 DEF Admit, Types
  <2>2. CASE Expire(c)
    <3>1. Len(bus) \in Nat /\ UNCHANGED req
      BY <2>2 DEF Expire, Types
    <3> QED
      BY <2>2, <3>1 DEF Expire, Types
  <2>3. CASE ~Admit(c) /\ ~Expire(c)
    BY <2>3 DEF Types, Local, OpenSocket, OpenTx, ExchangeEnds, CheckLoop,
                RecvFrame, RecvNothing, Fail, Close, argVars
  <2> QED
    BY <2>1, <2>2, <2>3
<1>4. open' \in [Calls -> BOOLEAN] /\ shared' \in [Calls -> BOOLEAN]
  <2>1. ClonesTx(c) \in BOOLEAN
    BY DEF ClonesTx
  <2> QED
    BY <2>1 DEF Types, Local, Admit, OpenSocket, OpenTx, ExchangeEnds,
         CheckLoop, RecvFrame, RecvNothing, Fail, Close, Expire, sockVars
<1>5. queue' \in [Calls -> Seq(Nat)] /\ out' \in [Calls -> Seq(Nat)]
  <2>1. CASE RecvFrame(c)
    <3>1. queue[c] \in Seq(Nat) /\ queue[c] # <<>> /\ out[c] \in Seq(Nat)
      BY <2>1 DEF RecvFrame, Types
    <3>2. Head(queue[c]) \in Nat /\ Tail(queue[c]) \in Seq(Nat)
      BY <3>1
    <3>3. Append(out[c], Head(queue[c])) \in Seq(Nat)
      BY <3>1, <3>2
    <3> QED
      BY <2>1, <3>2, <3>3 DEF RecvFrame, Types
  <2>2. CASE Fail(c) \/ Close(c)
    <3>1. <<>> \in Seq(Nat)
      OBVIOUS
    <3>2. queue' \in [Calls -> Seq(Nat)]
      <4>1. queue' = [queue EXCEPT ![c] = <<>>]
        BY <2>2 DEF Fail, Close
      <4> QED
        BY <3>1, <4>1 DEF Types
    <3>3. out' \in [Calls -> Seq(Nat)]
      <4>1. out' = out \/ out' = [out EXCEPT ![c] = <<>>]
        BY <2>2 DEF Fail, Close
      <4> QED
        BY <3>1, <4>1 DEF Types
    <3> QED
      BY <3>2, <3>3
  <2>3. CASE ~RecvFrame(c) /\ ~Fail(c) /\ ~Close(c)
    BY <2>3 DEF Types, Local, Admit, OpenSocket, OpenTx, ExchangeEnds,
                CheckLoop, RecvNothing, Expire
  <2> QED
    BY <2>1, <2>2, <2>3
<1> QED
  BY <1>1, <1>2, <1>3, <1>4, <1>5 DEF Types

\* A step that leaves the frames of the call alone.
Keeps(c) ==
    /\ UNCHANGED <<config, bus, sent, overrun>>
    /\ queue'[c] = queue[c] /\ out'[c] = out[c]

\* A step of the program counter alone.
Moves(c, step) ==
    /\ Keeps(c)
    /\ pc'[c] = step /\ req'[c] = req[c]
    /\ open'[c] = open[c] /\ shared'[c] = shared[c]
    /\ expired'[c] = expired[c] /\ late'[c] = late[c]

LEMMA AdmitStep ==
    ASSUME IInv, NEW c \in Calls, Admit(c)
    PROVE  CallInv(c)'
<1>1. PICK r \in Requests[c] :
         /\ req' = [req EXCEPT ![c] = r]
         /\ pc' = [pc EXCEPT ![c] = Admitted(r)]
         /\ Admitted(r) \in {"failed", "panicked", "open"}
         /\ Admitted(r) # "failed" => Gated(r)
  BY DEF Admit, Goto, Admitted
<1>2. /\ pc[c] = "none"
      /\ UNCHANGED <<config, bus, expired, late, open, shared, queue, out,
                     sent, overrun>>
  BY DEF Admit, sockVars
<1>3. /\ req'[c] = r
      /\ pc'[c] \in {"failed", "panicked", "open"}
      /\ pc'[c] # "failed" => Gated(r)
  BY <1>1 DEF IInv, Types
<1>4. out[c] = <<>> /\ queue[c] = <<>> /\ shared[c]
  BY <1>2 DEF IInv, CallInv, Stage
<1>5. CallTypes(c)'
  <2>1. CallTypes(c)
    BY DEF IInv, CallInv
  <2> QED
    BY <1>2, <1>3, <2>1 DEF CallTypes, Steps, Holding
<1>6. Stage(c)'
  <2>1. Gated(r) => Gated(r)'
    BY <1>2 DEF Gated, Allowed, Writes
  <2> QED
    BY <1>2, <1>3, <1>4, <2>1 DEF Stage
<1>7. Limits(c)'
  <2>1. Limit(r) \in Nat
    BY ArgumentsLemma, LimitType
  <2> QED
    BY <1>2, <1>3, <1>4, <2>1 DEF Limits, Limit
<1>8. Order(c)' /\ Complete(c)' /\ Own(c)'
  BY <1>2, <1>3, <1>4 DEF Order, Complete, Own
<1> QED
  BY <1>5, <1>6, <1>7, <1>8 DEF CallInv

LEMMA OpenSocketStep ==
    ASSUME IInv, NEW c \in Calls, OpenSocket(c)
    PROVE  CallInv(c)'
<1>0. CallInv(c) /\ req[c] \in Arguments
  BY ArgumentsLemma DEF IInv, CallInv, CallTypes
<1>1. /\ pc[c] = "open" /\ pc'[c] = AfterOpen[req[c].tool] /\ open'[c] = TRUE
      /\ UNCHANGED <<config, bus, req, expired, late, shared, queue, out,
                     sent, overrun>>
  BY DEF OpenSocket, Goto, argVars, IInv, Types
<1>2. \/ pc'[c] = "send" /\ req[c].tool = "send_frame"
      \/ pc'[c] = "loop" /\ req[c].tool = "capture"
      \/ pc'[c] = "open_tx" /\ req[c].tool = "send_and_capture"
      \/ pc'[c] = "exchange" /\ req[c].tool = "isotp_request"
  BY <1>0, <1>1 DEF AfterOpen, Arguments
<1>3. CallTypes(c)'
  BY <1>0, <1>1, <1>2 DEF CallInv, CallTypes, Steps, Holding
<1>4. Stage(c)'
  <2>1. Gated(req[c])'
    BY <1>0, <1>1 DEF CallInv, Stage, Gated, Allowed, Writes
  <2> QED
    BY <1>0, <1>1, <1>2, <2>1 DEF CallInv, Stage
<1>5. Limits(c)' /\ Order(c)'
  BY <1>0, <1>1, <1>2 DEF CallInv, Limits, Limit, Order
<1>6. Complete(c)' /\ Own(c)'
  BY <1>0, <1>1, <1>2 DEF CallInv, Complete, Own
<1> QED
  BY <1>3, <1>4, <1>5, <1>6 DEF CallInv

LEMMA OpenTxStep ==
    ASSUME IInv, NEW c \in Calls, OpenTx(c)
    PROVE  CallInv(c)'
<1>0. CallInv(c)
  BY DEF IInv
<1>1. /\ pc[c] = "open_tx" /\ pc'[c] = "send"
      /\ shared'[c] = (req[c].rx = req[c].iface)
      /\ UNCHANGED <<config, bus, req, expired, late, open, queue, out,
                     sent, overrun>>
  BY DEF OpenTx, ClonesTx, Goto, argVars, IInv, Types
<1>2. CallTypes(c)'
  BY <1>0, <1>1 DEF CallInv, CallTypes, Steps, Holding
<1>3. Stage(c)'
  <2>1. Gated(req[c])'
    BY <1>0, <1>1 DEF CallInv, Stage, Gated, Allowed, Writes
  <2> QED
    BY <1>0, <1>1, <2>1 DEF CallInv, Stage
<1>4. Limits(c)' /\ Order(c)' /\ Complete(c)'
  BY <1>0, <1>1 DEF CallInv, Limits, Limit, Order, Complete
<1>5. Own(c)'
  BY <1>0, <1>1 DEF CallInv, Own
<1> QED
  BY <1>2, <1>3, <1>4, <1>5 DEF CallInv

\* isotp::request returns, or a receive brings nothing.
LEMMA MoveStep ==
    ASSUME IInv, NEW c \in Calls,
           ExchangeEnds(c) \/ CheckLoop(c) \/ RecvNothing(c)
    PROVE  CallInv(c)'
<1>0. CallInv(c)
  BY DEF IInv
<1>1. /\ UNCHANGED <<config, bus, req, expired, late, open, shared, queue,
                     out, sent, overrun>>
      /\ \/ pc[c] = "exchange" /\ pc'[c] = "close"
         \/ pc[c] = "recv" /\ pc'[c] = "loop"
         \/ pc[c] = "loop" /\ pc'[c] = "close"
         \/ pc[c] = "loop" /\ pc'[c] = "recv" /\ MoreToCapture(c)
  BY DEF ExchangeEnds, CheckLoop, RecvNothing, Goto, argVars, sockVars,
         IInv, Types
<1>2. CallTypes(c)'
  BY <1>0, <1>1 DEF CallInv, CallTypes, Steps, Holding
<1>3. Stage(c)'
  <2>1. Gated(req[c])'
    BY <1>0, <1>1 DEF CallInv, Stage, Gated, Allowed, Writes
  <2> QED
    BY <1>0, <1>1, <2>1 DEF CallInv, Stage
<1>4. Limits(c)'
  BY <1>0, <1>1 DEF CallInv, Limits, Limit, MoreToCapture
<1>5. Order(c)' /\ Own(c)'
  BY <1>0, <1>1 DEF CallInv, Order, Own
<1>6. Complete(c)'
  BY <1>0, <1>1 DEF CallInv, Complete, Held, Hears, OnWire, Wanted, RxIface
<1> QED
  BY <1>2, <1>3, <1>4, <1>5, <1>6 DEF CallInv

LEMMA EndStep ==
    ASSUME IInv, NEW c \in Calls, Fail(c) \/ Close(c)
    PROVE  CallInv(c)'
<1>0. CallInv(c) /\ req[c] \in Requests[c]
  BY DEF IInv, CallInv, CallTypes
<1>1. /\ UNCHANGED <<config, bus, req, expired, late, shared, sent, overrun>>
      /\ queue'[c] = <<>> /\ open'[c] = FALSE
      /\ \/ pc[c] = "close" /\ pc'[c] = "done" /\ out'[c] = out[c]
         \/ pc'[c] = "failed" /\ out'[c] = <<>>
  BY DEF Fail, Close, Goto, argVars, IInv, Types
<1>2. CallTypes(c)'
  <2>1. CallTypes(c)
    BY <1>0 DEF CallInv
  <2>2. \A j \in 1..Len(out'[c]) : out'[c][j] \in 1..Len(bus)
    BY <1>1, <2>1 DEF CallTypes
  <2>3. ~open'[c] /\ pc'[c] \in {"done", "failed"}
    BY <1>1
  <2> QED
    BY <1>1, <2>1, <2>2, <2>3 DEF CallTypes, Steps, Holding
<1>3. Stage(c)'
  <2>1. pc'[c] = "done" => Gated(req[c])'
    BY <1>0, <1>1 DEF CallInv, Stage, Gated, Allowed, Writes
  <2> QED
    BY <1>0, <1>1, <2>1 DEF CallInv, Stage
<1>4. Limits(c)'
  <2>1. Limit(req[c]) \in Nat
    BY <1>0, ArgumentsLemma, LimitType
  <2> QED
    BY <1>0, <1>1, <2>1 DEF CallInv, Limits, Limit
<1>5. Order(c)' /\ Complete(c)'
  <2>1. Complete(c)'
    BY <1>1 DEF Complete
  <2>2. CASE out'[c] = <<>>
    BY <1>1, <2>1, <2>2 DEF Order
  <2>3. CASE out'[c] = out[c]
    BY <1>0, <1>1, <2>1, <2>3 DEF CallInv, Order
  <2> QED
    BY <1>1, <2>2, <2>3
<1>6. Own(c)'
  <2>1. CASE out'[c] = <<>>
    BY <1>0, <1>1, <2>1 DEF CallInv, Own
  <2>2. CASE out'[c] = out[c]
    BY <1>0, <1>1, <2>2 DEF CallInv, Own
  <2> QED
    BY <1>1, <2>1, <2>2
<1> QED
  BY <1>2, <1>3, <1>4, <1>5, <1>6 DEF CallInv

LEMMA ExpireStep ==
    ASSUME IInv, NEW c \in Calls, Expire(c)
    PROVE  CallInv(c)'
<1>0. CallInv(c) /\ out[c] \in Seq(Nat) /\ Len(bus) \in Nat
  BY DEF IInv, Types
<1>1. /\ UNCHANGED <<config, bus, pc, req, open, shared, queue, out, sent,
                     overrun>>
      /\ late'[c] = Len(bus)
  BY DEF Expire, sockVars, IInv, Types
<1>2. CallTypes(c)'
  BY <1>0, <1>1 DEF CallInv, CallTypes, Steps, Holding
<1>3. Stage(c)'
  BY <1>0, <1>1 DEF CallInv, Stage, Gated, Allowed, Writes
<1>4. Limits(c)'
  <2>1. \A j \in 1..Len(out[c]) : out[c][j] <= Len(bus)
    BY <1>0 DEF CallInv, CallTypes
  <2>2. \A j \in 1..Len(out[c]) - 1 : j \in 1..Len(out[c])
    BY <1>0
  <2> QED
    BY <1>0, <1>1, <2>1, <2>2 DEF CallInv, Limits, Limit
<1>5. Order(c)' /\ Own(c)'
  BY <1>0, <1>1 DEF CallInv, Order, Own
<1>6. Complete(c)'
  BY <1>0, <1>1 DEF CallInv, Complete, Held, Hears, OnWire, Wanted, RxIface
<1> QED
  BY <1>2, <1>3, <1>4, <1>5, <1>6 DEF CallInv

\* recv() moves the oldest frame of the queue behind those captured.
LEMMA RecvFrameStep ==
    ASSUME IInv, NEW c \in Calls, RecvFrame(c)
    PROVE  CallInv(c)'
<1> DEFINE q == queue[c]
           o == out[c]
<1>0. CallTypes(c) /\ Stage(c) /\ Limits(c) /\ Order(c) /\ Complete(c) /\ Own(c)
  BY DEF IInv, CallInv
<1>1. /\ pc[c] = "recv" /\ pc'[c] = "loop" /\ q # <<>>
      /\ out'[c] = Append(o, Head(q)) /\ queue'[c] = Tail(q)
      /\ UNCHANGED <<config, bus, req, expired, late, open, shared, sent,
                     overrun>>
  BY DEF RecvFrame, Goto, argVars, sockVars, IInv, Types
<1>2. /\ q \in Seq(Nat) /\ o \in Seq(Nat)
      /\ Len(q) \in Nat /\ Len(q) >= 1 /\ Len(o) \in Nat
  BY <1>1 DEF IInv, Types
<1>3. Head(q) = q[1]
  BY <1>1, <1>2
<1>4. /\ Len(queue'[c]) = Len(q) - 1
      /\ \A j \in 1..Len(queue'[c]) : queue'[c][j] = q[j + 1]
  BY <1>1, <1>2, HeadTailProperties
<1>5. /\ Len(out'[c]) = Len(o) + 1
      /\ \A j \in 1..Len(o) : out'[c][j] = o[j]
      /\ out'[c][Len(o) + 1] = q[1]
  BY <1>1, <1>2, <1>3, AppendProperties
<1> HIDE DEF q, o
<1>6. \A j \in 1..Len(out'[c]) : j \in 1..Len(o) \/ j = Len(o) + 1
  BY <1>2, <1>5
<1>7. \A j \in 1..Len(queue'[c]) : j + 1 \in 1..Len(q)
  BY <1>2, <1>4
<1>8. 1 \in 1..Len(q)
  BY <1>2
<1>9. CallTypes(c)'
  <2>1. \A j \in 1..Len(out'[c]) : out'[c][j] \in 1..Len(bus)
    BY <1>0, <1>5, <1>6, <1>8 DEF CallTypes, q, o
  <2>2. \A j \in 1..Len(queue'[c]) : queue'[c][j] \in 1..Len(bus)
    BY <1>0, <1>4, <1>7 DEF CallTypes, q
  <2>3. Len(queue'[c]) <= RcvBuf
    BY <1>0, <1>2, <1>4 DEF CallTypes, q
  <2> QED
    BY <1>0, <1>1, <2>1, <2>2, <2>3 DEF CallTypes, Steps, Holding
<1>10. Stage(c)'
  <2>1. Gated(req[c])'
    BY <1>0, <1>1 DEF Stage, Gated, Allowed, Writes
  <2> QED
    BY <1>0, <1>1, <2>1 DEF Stage
<1>11. Limits(c)'
  <2>1. Limit(req[c]) \in Nat
    BY <1>0, ArgumentsLemma, LimitType DEF CallTypes
  <2>2. Len(out'[c]) <= Limit(req[c])
    BY <1>0, <1>1, <1>2, <1>5, <2>1 DEF Limits, o
  <2>3. expired[c] => \A j \in 1..Len(out'[c]) - 1 : out'[c][j] <= late[c]
    BY <1>0, <1>1, <1>2, <1>5 DEF Limits, o
  <2> QED
    BY <1>1, <2>2, <2>3 DEF Limits, Limit
<1>12. Order(c)'
  <2>1. \A i, j \in 1..Len(out'[c]) : i < j => out'[c][i] < out'[c][j]
    <3> SUFFICES ASSUME NEW i \in 1..Len(out'[c]), NEW j \in 1..Len(out'[c]),
                        i < j
                 PROVE  out'[c][i] < out'[c][j]
      OBVIOUS
    <3>1. i \in 1..Len(o) /\ out'[c][i] = o[i]
      BY <1>2, <1>5
    <3>2. CASE j \in 1..Len(o)
      BY <1>0, <1>5, <3>1, <3>2 DEF Order, o
    <3>3. CASE j = Len(o) + 1
      BY <1>0, <1>5, <1>8, <3>1, <3>3 DEF Order, q, o
    <3> QED
      BY <1>6, <3>2, <3>3
  <2>2. \A i, j \in 1..Len(queue'[c]) : i < j => queue'[c][i] < queue'[c][j]
    <3> SUFFICES ASSUME NEW i \in 1..Len(queue'[c]),
                        NEW j \in 1..Len(queue'[c]), i < j
                 PROVE  queue'[c][i] < queue'[c][j]
      OBVIOUS
    <3>1. i + 1 \in 1..Len(q) /\ j + 1 \in 1..Len(q) /\ i + 1 < j + 1
      BY <1>7
    <3>2. q[i + 1] < q[j + 1]
      BY <1>0, <3>1 DEF Order, q
    <3> QED
      BY <1>4, <3>2
  <2>3. \A i \in 1..Len(out'[c]), j \in 1..Len(queue'[c]) :
           out'[c][i] < queue'[c][j]
    <3> SUFFICES ASSUME NEW i \in 1..Len(out'[c]), NEW j \in 1..Len(queue'[c])
                 PROVE  out'[c][i] < queue'[c][j]
      OBVIOUS
    <3>1. j + 1 \in 1..Len(q) /\ 1 < j + 1 /\ queue'[c][j] = q[j + 1]
      BY <1>4, <1>7
    <3>2. CASE i \in 1..Len(o)
      BY <1>0, <1>5, <3>1, <3>2 DEF Order, q, o
    <3>3. CASE i = Len(o) + 1
      BY <1>0, <1>5, <1>8, <3>1, <3>3 DEF Order, q
    <3> QED
      BY <1>6, <3>2, <3>3
  <2> QED
    BY <2>1, <2>2, <2>3 DEF Order
<1>13. Complete(c)'
  <2>1. \A i : Held(i, c) => Held(i, c)'
    <3> SUFFICES ASSUME NEW i, Held(i, c) PROVE Held(i, c)'
      OBVIOUS
    <3>1. CASE \E j \in 1..Len(o) : o[j] = i
      <4>1. PICK j \in 1..Len(o) : o[j] = i
        BY <3>1
      <4>2. j \in 1..Len(out'[c]) /\ out'[c][j] = i
        BY <1>2, <1>5, <4>1
      <4> QED
        BY <4>2 DEF Held
    <3>2. CASE \E j \in 1..Len(q) : q[j] = i
      <4>1. PICK j \in 1..Len(q) : q[j] = i
        BY <3>2
      <4>2. CASE j = 1
        <5>1. Len(o) + 1 \in 1..Len(out'[c])
          BY <1>2, <1>5
        <5> QED
          BY <1>5, <4>1, <4>2, <5>1 DEF Held
      <4>3. CASE j # 1
        <5>1. j - 1 \in 1..Len(queue'[c]) /\ (j - 1) + 1 = j
          BY <1>2, <1>4, <4>1, <4>3
        <5>2. queue'[c][j - 1] = i
          BY <1>4, <4>1, <5>1
        <5> QED
          BY <5>1, <5>2 DEF Held
      <4> QED
        BY <4>2, <4>3
    <3> QED
      BY <3>1, <3>2 DEF Held, q, o
  <2> QED
    BY <1>0, <1>1, <2>1 DEF Complete, Hears, OnWire, Wanted, RxIface
<1>14. Own(c)'
  <2> SUFFICES ASSUME req[c].rx = req[c].iface
               PROVE  /\ shared[c]
                      /\ \A j \in 1..Len(queue'[c]) : bus[queue'[c][j]].by # c
                      /\ \A j \in 1..Len(out'[c]) : bus[out'[c][j]].by # c
    BY <1>1 DEF Own
  <2>1. /\ shared[c]
        /\ \A j \in 1..Len(q) : bus[q[j]].by # c
        /\ \A j \in 1..Len(o) : bus[o[j]].by # c
    BY <1>0 DEF Own, q, o
  <2>2. \A j \in 1..Len(queue'[c]) : bus[queue'[c][j]].by # c
    BY <1>4, <1>7, <2>1
  <2>3. \A j \in 1..Len(out'[c]) : bus[out'[c][j]].by # c
    BY <1>5, <1>6, <1>8, <2>1
  <2> QED
    BY <2>1, <2>2, <2>3
<1> QED
  BY <1>9, <1>10, <1>11, <1>12, <1>13, <1>14 DEF CallInv

-----------------------------------------------------------------------------
(* The steps that put a frame on the bus.                                  *)

\* What they do to each call besides filling its queue.
Goes(d) ==
    \/ pc'[d] = pc[d] /\ sent'[d] = sent[d]
    \/ /\ pc[d] = "exchange" /\ pc'[d] = pc[d]
       /\ sent'[d] = Len(bus) + 1
    \/ /\ pc[d] = "send" /\ pc'[d] = "loop"
       /\ req[d].tool # "send_frame"
       /\ sent'[d] = Len(bus) + 1
    \/ /\ pc[d] = "send" /\ pc'[d] = "close"
       /\ sent'[d] = Len(bus) + 1

Sending(f) ==
    /\ f \in LogFrames /\ Transmit(f)
    /\ f.by \in Calls => Allowed(f.on) /\ ~config.readonly
    /\ UNCHANGED <<config, req, expired, late, open, shared, out>>
    /\ pc' \in [Calls -> Steps] /\ sent' \in [Calls -> Nat]
    /\ \A d \in Calls : Goes(d)

LEMMA OtherNodeSends ==
    ASSUME Types, OtherNode
    PROVE  \E f : Sending(f)
<1>1. PICK i \in Attached, reply \in BOOLEAN :
         Transmit([on |-> i, by |-> NoCall, reply |-> reply])
  BY DEF OtherNode
<1> DEFINE f == [on |-> i, by |-> NoCall, reply |-> reply]
<1>2. i \in Ifaces
  BY DEF Attached
<1>3. f \in LogFrames /\ f.by \notin Calls
  BY <1>2 DEF LogFrames
<1> HIDE DEF f
<1>4. UNCHANGED <<config, pc, req, expired, late, open, shared, out, sent>>
  BY DEF OtherNode, argVars, sockVars
<1>5. Transmit(f)
  BY <1>1 DEF f
<1>6. Sending(f)
  BY <1>3, <1>4, <1>5 DEF Sending, Goes, Types
<1> QED
  BY <1>6

LEMMA CallSends ==
    ASSUME IInv, NEW c \in Calls, SendFrame(c) \/ ExchangeSends(c)
    PROVE  \E f : Sending(f)
<1> DEFINE f == [on |-> req[c].iface, by |-> c, reply |-> FALSE]
<1>1. CallTypes(c) /\ Stage(c) /\ Types /\ req[c] \in Arguments
  BY ArgumentsLemma DEF IInv, CallInv, CallTypes
<1>2. pc[c] \in {"send", "exchange"}
  BY DEF SendFrame, ExchangeSends
<1>3. Gated(req[c]) /\ req[c].tool # "capture"
  BY <1>1, <1>2 DEF Stage
<1>4. Allowed(req[c].iface) /\ ~config.readonly
  BY <1>3 DEF Gated, Writes
<1>5. /\ f \in LogFrames /\ f.on = req[c].iface /\ Transmit(f)
  BY <1>1 DEF LogFrames, Arguments, SendFrame, ExchangeSends
<1> HIDE DEF f
<1>6. UNCHANGED <<config, req, expired, late, open, shared, out>>
  BY DEF SendFrame, ExchangeSends, argVars, sockVars
<1>7. sent' = [sent EXCEPT ![c] = Len(bus) + 1] /\ Len(bus) + 1 \in Nat
  BY <1>1 DEF SendFrame, ExchangeSends, Types
<1>8. \/ pc[c] = "exchange" /\ pc' = pc
      \/ /\ pc[c] = "send" /\ req[c].tool # "send_frame"
         /\ pc' = [pc EXCEPT ![c] = "loop"]
      \/ pc[c] = "send" /\ pc' = [pc EXCEPT ![c] = "close"]
  BY DEF SendFrame, ExchangeSends, Goto
<1>9. pc' \in [Calls -> Steps] /\ sent' \in [Calls -> Nat]
  BY <1>1, <1>7, <1>8 DEF Types, Steps
<1>10. ASSUME NEW d \in Calls PROVE Goes(d)
  <2>1. CASE d = c
    BY <1>1, <1>7, <1>8, <2>1 DEF Goes, Types
  <2>2. CASE d # c
    BY <1>1, <1>7, <1>8, <2>2 DEF Goes, Types
  <2> QED
    BY <2>1, <2>2
<1>11. Sending(f)
  BY <1>4, <1>5, <1>6, <1>9, <1>10 DEF Sending
<1> QED
  BY <1>11

\* The log and the queue of a call after a frame.
LEMMA HearLemma ==
    ASSUME IInv, NEW f, Sending(f), NEW d \in Calls
    PROVE  /\ Len(bus) \in Nat /\ Len(bus') = Len(bus) + 1
           /\ \A i \in 1..Len(bus) : bus'[i] = bus[i]
           /\ bus'[Len(bus) + 1] = f
           /\ queue[d] \in Seq(Nat) /\ Len(queue[d]) \in Nat
           /\ \/ /\ queue'[d] = queue[d]
                 /\ open[d] /\ Hears(f, d) => overrun'[d]
              \/ /\ Len(queue'[d]) = Len(queue[d]) + 1
                 /\ \A j \in 1..Len(queue[d]) : queue'[d][j] = queue[d][j]
                 /\ queue'[d][Len(queue[d]) + 1] = Len(bus) + 1
                 /\ Len(queue[d]) < RcvBuf /\ open[d] /\ Hears(f, d)
           /\ overrun[d] => overrun'[d]
<1>1. bus \in Seq(LogFrames) /\ f \in LogFrames /\ bus' = Append(bus, f)
  BY DEF Sending, Transmit, IInv, Types
<1>2. /\ Len(bus) \in Nat /\ Len(bus') = Len(bus) + 1
      /\ \A i \in 1..Len(bus) : bus'[i] = bus[i]
      /\ bus'[Len(bus) + 1] = f
  BY <1>1, AppendProperties, LenProperties
<1>3. queue[d] \in Seq(Nat) /\ Len(queue[d]) \in Nat
  BY DEF IInv, Types
<1>4. queue'[d] = IF open[d] /\ Hears(f, d) /\ Len(queue[d]) < RcvBuf
                  THEN Append(queue[d], Len(bus) + 1) ELSE queue[d]
  BY DEF Sending, Transmit
<1>5. overrun'[d] <=>
         overrun[d] \/ (/\ open[d] /\ Hears(f, d) /\ Len(queue[d]) >= RcvBuf)
  BY DEF Sending, Transmit
<1>6. CASE open[d] /\ Hears(f, d) /\ Len(queue[d]) < RcvBuf
  <2>1. queue'[d] = Append(queue[d], Len(bus) + 1)
    BY <1>4, <1>6
  <2>2. /\ Len(queue'[d]) = Len(queue[d]) + 1
        /\ \A j \in 1..Len(queue[d]) : queue'[d][j] = queue[d][j]
        /\ queue'[d][Len(queue[d]) + 1] = Len(bus) + 1
    BY <1>2, <1>3, <2>1, AppendProperties
  <2> QED
    BY <1>2, <1>3, <1>5, <1>6, <2>2
<1>7. CASE ~(open[d] /\ Hears(f, d) /\ Len(queue[d]) < RcvBuf)
  <2>1. queue'[d] = queue[d]
    BY <1>4, <1>7
  <2>2. open[d] /\ Hears(f, d) => overrun'[d]
    BY <1>3, <1>5, <1>7
  <2> QED
    BY <1>2, <1>3, <1>5, <2>1, <2>2
<1> QED
  BY <1>6, <1>7

LEMMA SendingTypes ==
    ASSUME IInv, NEW f, Sending(f)
    PROVE  Types' /\ LogInv'
<1>1. Types /\ f \in LogFrames /\ Len(bus) \in Nat
  BY DEF IInv, Sending, Types
<1>2. bus' \in Seq(LogFrames)
  BY <1>1, AppendProperties DEF Sending, Transmit, Types
<1>3. queue' \in [Calls -> Seq(Nat)]
  <2>1. \A d \in Calls : queue[d] \in Seq(Nat)
                         /\ Append(queue[d], Len(bus) + 1) \in Seq(Nat)
    BY <1>1 DEF Types
  <2> QED
    BY <2>1 DEF Sending, Transmit
<1>4. overrun' \in [Calls -> BOOLEAN]
  BY DEF Sending, Transmit
<1>5. Types'
  BY <1>1, <1>2, <1>3, <1>4 DEF Sending, Types
<1>6. LogInv'
  <2>1. bus \in Seq(LogFrames) /\ bus' = Append(bus, f)
    BY <1>1 DEF Sending, Transmit, Types
  <2>2. /\ Len(bus') = Len(bus) + 1 /\ bus'[Len(bus) + 1] = f
        /\ \A i \in 1..Len(bus) : bus'[i] = bus[i]
    BY <1>1, <2>1, AppendProperties
  <2>3. UNCHANGED config /\ (f.by \in Calls => Allowed(f.on) /\ ~config.readonly)
    BY DEF Sending
  <2>4. ASSUME NEW i \in 1..Len(bus'), bus'[i].by \in Calls
        PROVE  Allowed(bus'[i].on) /\ ~config.readonly
    <3>1. CASE i = Len(bus) + 1
      BY <2>2, <2>3, <2>4, <3>1
    <3>2. CASE i \in 1..Len(bus)
      BY <2>2, <2>4, <3>2 DEF IInv, LogInv
    <3> QED
      BY <1>1, <2>2, <3>1, <3>2
  <2> QED
    BY <2>3, <2>4 DEF LogInv, Allowed
<1> QED
  BY <1>5, <1>6

LEMMA SendingStep ==
    ASSUME IInv, NEW f, Sending(f), NEW d \in Calls
    PROVE  CallInv(d)'
<1> DEFINE n == Len(bus) + 1
           q == queue[d]
<1>0. CallTypes(d) /\ Stage(d) /\ Limits(d) /\ Order(d) /\ Complete(d) /\ Own(d)
  BY DEF IInv, CallInv
<1>1. /\ UNCHANGED <<config, req, expired, late, open, shared, out>>
      /\ Goes(d)
  BY DEF Sending
<1>2. /\ n \in Nat /\ Len(bus) = n - 1 /\ Len(bus') = n
      /\ \A i \in 1..n - 1 : bus'[i] = bus[i]
      /\ bus'[n] = f
      /\ q \in Seq(Nat) /\ Len(q) \in Nat
  BY HearLemma
<1>3. \/ queue'[d] = q
      \/ /\ Len(queue'[d]) = Len(q) + 1
         /\ \A j \in 1..Len(q) : queue'[d][j] = q[j]
         /\ queue'[d][Len(q) + 1] = n
         /\ Len(q) < RcvBuf /\ open[d] /\ Hears(f, d)
  BY HearLemma
<1>4. open[d] /\ Hears(f, d) /\ ~overrun'[d] =>
         /\ Len(queue'[d]) = Len(q) + 1
         /\ queue'[d][Len(q) + 1] = n
  BY HearLemma
<1>5. overrun[d] => overrun'[d]
  BY HearLemma
<1> HIDE DEF n, q
<1>6. \A j \in 1..Len(queue'[d]) :
         \/ j \in 1..Len(q) /\ queue'[d][j] = q[j]
         \/ /\ j = Len(q) + 1 /\ queue'[d][j] = n
            /\ open[d] /\ Hears(f, d)
  BY <1>2, <1>3
<1>7. /\ \A j \in 1..Len(q) : q[j] \in 1..n - 1
      /\ \A j \in 1..Len(out[d]) : out[d][j] \in 1..n - 1
  BY <1>0, <1>2 DEF CallTypes, q
<1>8. \A j \in 1..Len(q) : j \in 1..Len(queue'[d]) /\ queue'[d][j] = q[j]
  BY <1>2, <1>3
<1>9. CallTypes(d)'
  <2>1. ASSUME NEW j \in 1..Len(queue'[d]) PROVE queue'[d][j] \in 1..n
    <3>1. CASE j \in 1..Len(q) /\ queue'[d][j] = q[j]
      <4>1. q[j] \in 1..n - 1
        BY <1>7, <3>1
      <4> QED
        BY <1>2, <3>1, <4>1
    <3>2. CASE queue'[d][j] = n
      <4>1. n >= 1
        BY <1>2, HearLemma
      <4> QED
        BY <1>2, <3>2, <4>1
    <3> QED
      BY <1>6, <3>1, <3>2
  <2>2. \A j \in 1..Len(out'[d]) : out'[d][j] \in 1..n
    BY <1>1, <1>2, <1>7
  <2>3. Len(queue'[d]) <= RcvBuf
    BY <1>0, <1>2, <1>3 DEF CallTypes, q
  <2>4. sent'[d] \in 0..n /\ late'[d] \in 0..n
    BY <1>0, <1>1, <1>2 DEF CallTypes, Goes
  <2>5. open'[d] <=> pc'[d] \in Holding
    BY <1>0, <1>1 DEF CallTypes, Goes, Steps, Holding
  <2> QED
    BY <1>0, <1>1, <1>2, <2>1, <2>2, <2>3, <2>4, <2>5 DEF CallTypes
<1>10. Stage(d)'
  <2>1. /\ pc'[d] \in {"none", "open", "open_tx", "send", "exchange", "failed",
                       "panicked", "done"} => pc'[d] = pc[d]
        /\ pc'[d] \notin {"none", "failed"} => pc[d] \notin {"none", "failed"}
    BY <1>1 DEF Goes
  <2>2. pc'[d] \notin {"none", "failed"} => Gated(req[d])'
    BY <1>0, <1>1, <2>1 DEF Stage, Gated, Allowed, Writes
  <2>3. ~open[d] => queue'[d] = q
    BY <1>3
  <2>4. pc'[d] \in {"none", "open", "done", "failed", "panicked"} =>
          queue'[d] = <<>>
    BY <1>0, <2>1, <2>3 DEF Stage, CallTypes, Holding, q
  <2> QED
    BY <1>0, <1>1, <2>1, <2>2, <2>4 DEF Stage
<1>11. Limits(d)'
  <2>1. pc'[d] = "recv" => pc[d] = "recv"
    BY <1>1 DEF Goes
  <2> QED
    BY <1>0, <1>1, <2>1 DEF Limits, Limit
<1>12. Order(d)'
  <2>1. \A i, j \in 1..Len(queue'[d]) : i < j => queue'[d][i] < queue'[d][j]
    <3> SUFFICES ASSUME NEW i \in 1..Len(queue'[d]),
                        NEW j \in 1..Len(queue'[d]), i < j
                 PROVE  queue'[d][i] < queue'[d][j]
      OBVIOUS
    <3>1. i \in 1..Len(q) /\ queue'[d][i] = q[i]
      <4>1. j \in 1..Len(q) \/ j = Len(q) + 1
        BY <1>6
      <4>2. i \in 1..Len(q)
        BY <1>2, <4>1
      <4> QED
        BY <1>8, <4>2
    <3>2. CASE j \in 1..Len(q) /\ queue'[d][j] = q[j]
      BY <1>0, <3>1, <3>2 DEF Order, q
    <3>3. CASE queue'[d][j] = n
      BY <1>2, <1>7, <3>1, <3>3
    <3> QED
      BY <1>6, <3>2, <3>3
  <2>2. \A i \in 1..Len(out[d]), j \in 1..Len(queue'[d]) :
           out[d][i] < queue'[d][j]
    <3> SUFFICES ASSUME NEW i \in 1..Len(out[d]), NEW j \in 1..Len(queue'[d])
                 PROVE  out[d][i] < queue'[d][j]
      OBVIOUS
    <3>1. CASE j \in 1..Len(q) /\ queue'[d][j] = q[j]
      BY <1>0, <3>1 DEF Order, q
    <3>2. CASE queue'[d][j] = n
      <4>1. out[d][i] \in 1..n - 1
        BY <1>7
      <4> QED
        BY <1>2, <3>2, <4>1
    <3> QED
      BY <1>6, <3>1, <3>2
  <2> QED
    BY <1>0, <1>1, <2>1, <2>2 DEF Order
<1>13. Complete(d)'
  <2> SUFFICES ASSUME pc'[d] \in {"loop", "recv"},
                      req[d].tool = "send_and_capture", ~overrun'[d],
                      NEW i \in sent'[d] + 1..n, Hears(bus[i], d)'
               PROVE  Held(i, d)'
    BY <1>1, <1>2 DEF Complete
  <2>1. CASE pc'[d] = pc[d] /\ sent'[d] = sent[d]
    <3>1. open[d]
      BY <1>0, <2>1 DEF CallTypes, Steps, Holding
    <3>2. sent[d] \in Nat
      BY DEF IInv, Types
    <3>3. CASE i = n
      <4>1. Hears(f, d)
        BY <1>1, <1>2, <3>3 DEF Hears, OnWire, Wanted, RxIface
      <4>2. Len(queue'[d]) = Len(q) + 1 /\ queue'[d][Len(q) + 1] = n
        BY <1>4, <3>1, <4>1
      <4>3. Len(q) + 1 \in 1..Len(queue'[d])
        BY <1>2, <4>2
      <4> QED
        BY <3>3, <4>2, <4>3 DEF Held
    <3>4. CASE i # n
      <4>1. i \in sent[d] + 1..Len(bus) /\ i \in 1..n - 1
        BY <1>2, <2>1, <3>2, <3>4
      <4>2. Hears(bus[i], d)
        BY <1>1, <1>2, <4>1 DEF Hears, OnWire, Wanted, RxIface
      <4>3. Held(i, d)
        BY <1>0, <1>5, <2>1, <4>1, <4>2 DEF Complete
      <4> QED
        BY <1>1, <1>8, <4>3 DEF Held, q
    <3> QED
      BY <3>3, <3>4
  <2>2. CASE sent'[d] = Len(bus) + 1
    BY <1>2, <2>2
  <2> QED
    BY <1>1, <2>1, <2>2 DEF Goes
<1>14. Own(d)'
  <2> SUFFICES ASSUME req[d].rx = req[d].iface
               PROVE  /\ shared[d]
                      /\ \A j \in 1..Len(queue'[d]) : bus'[queue'[d][j]].by # d
                      /\ \A j \in 1..Len(out[d]) : bus'[out[d][j]].by # d
    BY <1>1 DEF Own
  <2>1. /\ shared[d]
        /\ \A j \in 1..Len(q) : bus[q[j]].by # d
        /\ \A j \in 1..Len(out[d]) : bus[out[d][j]].by # d
    BY <1>0 DEF Own, q
  <2>2. Hears(f, d) => f.by # d
    BY <2>1 DEF Hears
  <2>3. ASSUME NEW j \in 1..Len(queue'[d]) PROVE bus'[queue'[d][j]].by # d
    <3>1. CASE j \in 1..Len(q) /\ queue'[d][j] = q[j]
      <4>1. bus'[q[j]] = bus[q[j]]
        BY <1>2, <1>7, <3>1
      <4> QED
        BY <2>1, <3>1, <4>1
    <3>2. CASE queue'[d][j] = n /\ Hears(f, d)
      BY <1>2, <2>2, <3>2
    <3> QED
      BY <1>6, <3>1, <3>2
  <2> QED
    BY <1>2, <1>7, <2>1, <2>3
<1> QED
  BY <1>9, <1>10, <1>11, <1>12, <1>13, <1>14 DEF CallInv

-----------------------------------------------------------------------------
(* The theorems.                                                           *)

LEMMA InitInv == Init => IInv
<1> SUFFICES ASSUME Init PROVE IInv
  OBVIOUS
<1>1. <<>> \in Seq(Nat) /\ <<>> \in Seq(LogFrames)
  OBVIOUS
<1>2. Types
  BY <1>1 DEF Init, Types, Steps
<1>3. LogInv
  BY DEF Init, LogInv
<1>4. ASSUME NEW c \in Calls PROVE CallInv(c)
  <2>1. req[c] \in Requests[c]
    BY DEF Init
  <2>2. /\ pc[c] = "none" /\ open[c] = FALSE /\ shared[c] = TRUE
        /\ queue[c] = <<>> /\ out[c] = <<>> /\ expired[c] = FALSE
        /\ sent[c] = 0 /\ late[c] = 0 /\ bus = <<>>
    BY DEF Init
  <2>3. CallTypes(c)
    BY <2>1, <2>2 DEF CallTypes, Steps, Holding
  <2>4. Limits(c)
    <3>1. Limit(req[c]) \in Nat
      BY <2>1, ArgumentsLemma, LimitType
    <3> QED
      BY <2>2, <3>1 DEF Limits
  <2>5. Stage(c) /\ Order(c) /\ Complete(c) /\ Own(c)
    BY <2>2 DEF Stage, Order, Complete, Own
  <2> QED
    BY <2>3, <2>4, <2>5 DEF CallInv
<1> QED
  BY <1>2, <1>3, <1>4 DEF IInv

LEMMA NextInv == IInv /\ [Next]_vars => IInv'
<1> SUFFICES ASSUME IInv, [Next]_vars PROVE IInv'
  OBVIOUS
<1>1. ASSUME NEW f, Sending(f) PROVE IInv'
  BY <1>1, SendingTypes, SendingStep DEF IInv
<1>2. ASSUME NEW c \in Calls, Local(c) PROVE IInv'
  <2>1. Types'
    BY <1>2, LocalTypes DEF IInv, CallInv
  <2>2. LogInv'
    BY <1>2, LocalFrame DEF IInv, LogInv, Allowed
  <2>3. CallInv(c)'
    BY <1>2, AdmitStep, OpenSocketStep, OpenTxStep, MoveStep, RecvFrameStep,
       EndStep, ExpireStep DEF Local
  <2>4. \A d \in Calls \ {c} : CallInv(d)'
    BY <1>2, LocalFrame, OthersStay DEF IInv
  <2> QED
    BY <2>1, <2>2, <2>3, <2>4 DEF IInv
<1>3. CASE UNCHANGED vars
  <2>1. UNCHANGED <<config, bus, pc, req, open, shared, queue, out, expired,
                    sent, overrun, late>>
    BY <1>3 DEF vars, argVars, sockVars
  <2>2. \A c \in Calls : CallInv(c)'
    BY <2>1, OthersStay DEF IInv, Unmoved
  <2> QED
    BY <2>1, <2>2 DEF IInv, Types, LogInv, Allowed
<1>4. CASE OtherNode
  BY <1>1, <1>4, OtherNodeSends DEF IInv
<1>5. ASSUME NEW c \in Calls, SendFrame(c) \/ ExchangeSends(c) PROVE IInv'
  BY <1>1, <1>5, CallSends
<1> QED
  BY <1>2, <1>3, <1>4, <1>5 DEF Next, CallStep, Local

\* The inductive invariant holds in every reachable state.
THEOREM ServerInvariant == Spec => []IInv
  BY InitInv, NextInv, PTL DEF Spec

LEMMA ElementsType ==
    ASSUME NEW s \in Seq(Nat), NEW S, \A j \in 1..Len(s) : s[j] \in S
    PROVE  s \in Seq(S)
<1>1. Len(s) \in Nat /\ s = [j \in 1..Len(s) |-> s[j]]
  BY LenProperties
<1>2. s \in [1..Len(s) -> S]
  BY <1>1
<1>3. Seq(S) = UNION {[1..n -> S] : n \in Nat}
  BY SeqDef
<1> QED
  BY <1>1, <1>2, <1>3, Zenon

\* The state of every call of a tool stays in its type, and a call has its
\* receiving socket open exactly from the first Socket::open to its return.
THEOREM TypeCorrect == Spec => []TypeOK
<1>1. IInv => TypeOK
  <2> SUFFICES ASSUME IInv PROVE TypeOK
    OBVIOUS
  <2>1. ASSUME NEW c \in Calls
        PROVE  /\ req[c] \in Requests[c]
               /\ queue[c] \in Seq(1..Len(bus)) /\ Len(queue[c]) <= RcvBuf
               /\ out[c] \in Seq(1..Len(bus))
               /\ sent[c] \in 0..Len(bus) /\ late[c] \in 0..Len(bus)
               /\ open[c] <=> pc[c] \in Holding
    <3>1. queue[c] \in Seq(Nat) /\ out[c] \in Seq(Nat) /\ CallTypes(c)
      BY DEF IInv, Types, CallInv
    <3>2. queue[c] \in Seq(1..Len(bus)) /\ out[c] \in Seq(1..Len(bus))
      BY <3>1, ElementsType DEF CallTypes
    <3> QED
      BY <3>1, <3>2 DEF CallTypes
  <2>2. bus \in Seq([on: Ifaces, by: Calls \cup {NoCall}, reply: BOOLEAN])
    BY DEF IInv, Types, LogFrames
  <2> QED
    BY <2>1, <2>2 DEF IInv, Types, TypeOK
<1> QED
  BY <1>1, ServerInvariant, PTL

\* No tool, whatever its arguments, puts a frame on an interface outside the
\* allowlist or of a read-only server, or returns one heard on such an
\* interface.
THEOREM AllowlistHolds == Spec => []OnlyAllowedInterfacesAreUsed
<1>1. IInv => OnlyAllowedInterfacesAreUsed
  <2> SUFFICES ASSUME IInv, NEW c \in Calls
               PROVE  /\ \A i \in 1..Len(bus) : bus[i].by = c =>
                            Allowed(bus[i].on) /\ ~config.readonly
                      /\ out[c] # <<>> => Allowed(RxIface(req[c]))
    BY DEF OnlyAllowedInterfacesAreUsed
  <2>1. \A i \in 1..Len(bus) : bus[i].by = c =>
           Allowed(bus[i].on) /\ ~config.readonly
    BY DEF IInv, LogInv
  <2>2. out[c] # <<>> => Gated(req[c])
    BY DEF IInv, CallInv, Stage
  <2> QED
    BY <2>1, <2>2 DEF Gated, RxIface
<1> QED
  BY <1>1, ServerInvariant, PTL

\* send_and_capture opens its receiving socket early enough, for every number
\* of calls and however they interleave.
THEOREM RepliesAreKept == Spec => []NothingAfterTheSendIsMissed
<1>1. IInv => NothingAfterTheSendIsMissed
  <2> SUFFICES ASSUME IInv, NEW c \in Calls,
                      req[c].tool = "send_and_capture", pc[c] \in {"loop", "recv"}
               PROVE  LET heard == out[c] \o queue[c]
                      IN  /\ \A i, j \in 1..Len(heard) :
                                i < j => heard[i] < heard[j]
                          /\ \A i \in sent[c] + 1..Len(bus) :
                                Hears(bus[i], c) /\ ~overrun[c] =>
                                    \E j \in 1..Len(heard) : heard[j] = i
    BY DEF NothingAfterTheSendIsMissed
  <2> DEFINE o == out[c]
             q == queue[c]
             heard == o \o q
  <2>1. /\ o \in Seq(Nat) /\ q \in Seq(Nat)
        /\ Len(o) \in Nat /\ Len(q) \in Nat
    BY DEF IInv, Types
  <2>2. /\ \A i, j \in 1..Len(o) : i < j => o[i] < o[j]
        /\ \A i, j \in 1..Len(q) : i < j => q[i] < q[j]
        /\ \A i \in 1..Len(o), j \in 1..Len(q) : o[i] < q[j]
    BY DEF IInv, CallInv, Order
  <2>3. ASSUME NEW i \in sent[c] + 1..Len(bus), Hears(bus[i], c), ~overrun[c]
        PROVE  (\E j \in 1..Len(o) : o[j] = i) \/ \E j \in 1..Len(q) : q[j] = i
    BY <2>3 DEF IInv, CallInv, Complete, Held
  <2> HIDE DEF o, q
  <2>4. /\ Len(heard) = Len(o) + Len(q)
        /\ \A i \in 1..Len(o) + Len(q) :
             heard[i] = IF i <= Len(o) THEN o[i] ELSE q[i - Len(o)]
    BY <2>1, ConcatProperties
  <2> HIDE DEF heard
  <2>5. ASSUME NEW i \in 1..Len(heard)
        PROVE  \/ i \in 1..Len(o) /\ heard[i] = o[i]
               \/ /\ i - Len(o) \in 1..Len(q) /\ heard[i] = q[i - Len(o)]
                  /\ i > Len(o)
    BY <2>1, <2>4
  <2>6. ASSUME NEW i \in 1..Len(heard), NEW j \in 1..Len(heard), i < j
        PROVE  heard[i] < heard[j]
    <3>1. CASE i \in 1..Len(o) /\ heard[i] = o[i]
      <4>1. CASE j \in 1..Len(o) /\ heard[j] = o[j]
        BY <2>2, <2>6, <3>1, <4>1
      <4>2. CASE j - Len(o) \in 1..Len(q) /\ heard[j] = q[j - Len(o)]
        BY <2>2, <3>1, <4>2
      <4> QED
        BY <2>5, <4>1, <4>2
    <3>2. CASE i - Len(o) \in 1..Len(q) /\ heard[i] = q[i - Len(o)] /\ i > Len(o)
      <4>1. j - Len(o) \in 1..Len(q) /\ heard[j] = q[j - Len(o)]
        <5>1. j \notin 1..Len(o)
          BY <2>1, <2>4, <2>6, <3>2
        <5> QED
          BY <2>5, <5>1
      <4>2. i - Len(o) < j - Len(o)
        BY <2>1, <2>6
      <4> QED
        BY <2>2, <3>2, <4>1, <4>2
    <3> QED
      BY <2>5, <3>1, <3>2
  <2>7. ASSUME NEW i \in sent[c] + 1..Len(bus), Hears(bus[i], c), ~overrun[c]
        PROVE  \E j \in 1..Len(heard) : heard[j] = i
    <3>1. CASE \E j \in 1..Len(o) : o[j] = i
      <4>1. PICK j \in 1..Len(o) : o[j] = i
        BY <3>1
      <4>2. j \in 1..Len(heard) /\ heard[j] = i
        BY <2>1, <2>4, <4>1
      <4> QED
        BY <4>2
    <3>2. CASE \E j \in 1..Len(q) : q[j] = i
      <4>1. PICK j \in 1..Len(q) : q[j] = i
        BY <3>2
      <4>2. /\ Len(o) + j \in 1..Len(o) + Len(q)
            /\ ~(Len(o) + j <= Len(o)) /\ (Len(o) + j) - Len(o) = j
        BY <2>1
      <4>3. Len(o) + j \in 1..Len(heard) /\ heard[Len(o) + j] = i
        BY <2>4, <4>1, <4>2
      <4> QED
        BY <4>3
    <3> QED
      BY <2>3, <2>7, <3>1, <3>2
  <2> QED
    BY <2>6, <2>7 DEF heard, o, q
<1> QED
  BY <1>1, ServerInvariant, PTL

\* send_and_capture on one interface hears replies and not itself.
THEOREM OwnFramesAreNotHeard == Spec => []OwnFrameIsNoResponse
<1>1. IInv => OwnFrameIsNoResponse
  BY DEF IInv, CallInv, Own, OwnFrameIsNoResponse
<1> QED
  BY <1>1, ServerInvariant, PTL

\* Neither max_frames nor the hard cap is exceeded, and at most one captured
\* frame came after the deadline, for every value of these limits.
THEOREM LimitsAreKept == Spec => []CaptureEndsAtItsLimits
<1>1. IInv => CaptureEndsAtItsLimits
  <2> SUFFICES ASSUME IInv, NEW c \in Calls
               PROVE  /\ Len(out[c]) <= Limit(req[c])
                      /\ expired[c] =>
                           Cardinality({j \in 1..Len(out[c]) :
                                           out[c][j] > late[c]}) <= 1
    BY DEF CaptureEndsAtItsLimits
  <2>1. Limits(c) /\ Len(out[c]) \in Nat /\ late[c] \in Nat /\ out[c] \in Seq(Nat)
    BY DEF IInv, CallInv, Types
  <2> DEFINE After == {j \in 1..Len(out[c]) : out[c][j] > late[c]}
  <2>2. ASSUME expired[c] PROVE After \subseteq {Len(out[c])}
    <3> SUFFICES ASSUME NEW j \in 1..Len(out[c]), out[c][j] > late[c]
                 PROVE  j = Len(out[c])
      OBVIOUS
    <3>1. j \in 1..Len(out[c]) - 1 => out[c][j] <= late[c]
      BY <2>1, <2>2 DEF Limits
    <3>2. out[c][j] \in Nat
      BY <2>1
    <3> QED
      BY <2>1, <3>1, <3>2
  <2>3. ASSUME expired[c] PROVE Cardinality(After) <= 1
    <3>1. After = {} \/ After = {Len(out[c])}
      BY <2>2, <2>3
    <3>2. Cardinality({}) = 0 /\ Cardinality({Len(out[c])}) = 1
      BY FS_EmptySet, FS_Singleton
    <3> HIDE DEF After
    <3>3. Cardinality(After) = 0 \/ Cardinality(After) = 1
      BY <3>1, <3>2, Zenon
    <3> QED
      BY <3>3
  <2> QED
    BY <2>1, <2>3 DEF Limits
<1> QED
  BY <1>1, ServerInvariant, PTL
=============================================================================
