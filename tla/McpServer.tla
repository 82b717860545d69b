------------------------------ MODULE McpServer ------------------------------
(***************************************************************************)
(* The tools of socketcan-mcp/src/main.rs that touch a bus.  Calls run     *)
(* concurrently, each with sockets of its own; they meet on the bus, where *)
(* other nodes talk and reply as well.                                     *)
(*                                                                         *)
(* A frame is its index in the log of the bus.  A CAN_RAW socket hears     *)
(* every frame of its interface that passes its filter, those its own host *)
(* sends included, but not those sent through itself or a clone of it.     *)
(* isotp::request is modelled in IsoTpRequest: here it is an exchange that *)
(* sends some frames.  list_interfaces and iface_state open no socket.     *)
(***************************************************************************)
EXTENDS Integers, Sequences, SequencesExt, FiniteSets

CONSTANTS
    Calls,      \* tool calls, each made at most once
    NoCall,     \* the sender of a frame of another node
    Ifaces,     \* the CAN interfaces
    SameWire,   \* whether the interfaces are attached to one wire
    Configs,    \* the configurations the server is started with
    Requests,   \* per call: the arguments it may be made with
    HardCap,    \* the limit on max_frames, 4096 in the code
    RcvBuf,     \* frames a receive queue holds
    MaxFrames   \* bound on the length of the log of the bus

ASSUME CallsAssumption == NoCall \notin Calls
ASSUME IfacesAssumption == Ifaces # {} /\ SameWire \in BOOLEAN
ASSUME RequestsAssumption ==
    /\ Requests \in [Calls -> SUBSET [tool: {"send_frame", "capture",
                                             "send_and_capture", "isotp_request"},
                                      iface: Ifaces, rx: Ifaces, max: Nat,
                                      filter: {"all", "replies"},
                                      args: {"good", "bad", "split"}]]
    /\ \A c \in Calls : Requests[c] # {}
ASSUME ConfigsAssumption ==
    Configs \subseteq [allowlist: SUBSET Ifaces, readonly: BOOLEAN]
ASSUME BoundsAssumption ==
    HardCap \in Nat /\ RcvBuf \in Nat /\ MaxFrames \in Nat

VARIABLES
    config,    \* Config, read from the environment when the server starts
    bus,       \* the log: interface, sender and whether it is a reply
    pc,        \* per call: where its handler is
    req,       \* its arguments
    open,      \* whether its receiving socket is open
    shared,    \* whether it sends through that socket or a clone of it
    queue,     \* the receive queue of that socket
    out,       \* the frames captured
    expired,   \* whether its deadline has passed
    \* history, read by no action
    sent,      \* index of the last frame it sent, 0 before
    overrun,   \* whether its receive queue has lost a frame
    late       \* length of the log when its deadline passed

argVars  == <<req, expired, late>>
sockVars == <<open, shared>>
vars == <<config, bus, pc, argVars, sockVars, queue, out, sent, overrun>>

-----------------------------------------------------------------------------
Writes(tool) == tool # "capture"

Allowed(i) == i \in config.allowlist

\* MUTANT: rx_iface is not looked up in the allowlist.
GatedSkipsRx(r) == Allowed(r.iface) /\ (Writes(r.tool) => ~config.readonly)

\* MUTANT: a read-only server is not told apart.
GatedIgnoresReadOnly(r) ==
    /\ Allowed(r.iface)
    /\ r.tool = "send_and_capture" => Allowed(r.rx)

\* check_iface and check_writable, rx_iface included.
Gated(r) ==
    /\ Allowed(r.iface)
    /\ Writes(r.tool) => ~config.readonly
    /\ r.tool = "send_and_capture" => Allowed(r.rx)

\* parse_hex_bytes cuts the text of a payload every two bytes.  "split" is a
\* payload whose first pair that is not two hex digits ends in the middle of a
\* character: it cannot be cut there, and the handler's task panics.  (A panic
\* inside spawn_blocking is an error of its join and answered; what capture
\* parses, it parses there.)
ParsePanics(r) == r.args = "split" /\ Writes(r.tool)

\* The interface the receiving socket is bound to.
RxIface(r) == IF r.tool = "send_and_capture" THEN r.rx ELSE r.iface

\* max_frames.min(4096).
Limit(r) == IF r.max < HardCap THEN r.max ELSE HardCap

\* Whether a frame on the bus is delivered to the receiving socket of c.
OnWire(f, c) == f.on = RxIface(req[c]) \/ SameWire
Wanted(f, c) == req[c].filter = "all" \/ f.reply
Hears(f, c) == OnWire(f, c) /\ Wanted(f, c) /\ ~(f.by = c /\ shared[c])

\* Frame f goes on the bus and into the queues of the sockets that hear it.
Transmit(f) ==
    /\ Len(bus) < MaxFrames
    /\ bus' = Append(bus, f)
    /\ queue' = [c \in Calls |->
                   IF open[c] /\ Hears(f, c) /\ Len(queue[c]) < RcvBuf
                   THEN Append(queue[c], Len(bus) + 1) ELSE queue[c]]
    /\ overrun' = [c \in Calls |->
                     overrun[c] \/ (/\ open[c] /\ Hears(f, c)
                                    /\ Len(queue[c]) >= RcvBuf)]

Goto(c, step) == pc' = [pc EXCEPT ![c] = step]

Init ==
    /\ config \in Configs
    /\ bus = <<>>
    /\ pc = [c \in Calls |-> "none"]
    /\ req = [c \in Calls |-> CHOOSE r \in Requests[c] : TRUE]
    /\ open = [c \in Calls |-> FALSE]
    /\ shared = [c \in Calls |-> TRUE]
    /\ queue = [c \in Calls |-> <<>>]
    /\ out = [c \in Calls |-> <<>>]
    /\ expired = [c \in Calls |-> FALSE]
    /\ sent = [c \in Calls |-> 0]
    /\ overrun = [c \in Calls |-> FALSE]
    /\ late = [c \in Calls |-> 0]

-----------------------------------------------------------------------------
(* Other nodes.                                                            *)

\* The interfaces they reach; on one wire it makes no difference which.
Attached == IF SameWire THEN {CHOOSE i \in Ifaces : TRUE} ELSE Ifaces

\* Unsolicited traffic, or a reply to something a call has sent.
OtherNode ==
    /\ \E i \in Attached, reply \in BOOLEAN :
        /\ reply => \E c \in Calls : sent[c] # 0
        /\ Transmit([on |-> i, by |-> NoCall, reply |-> reply])
    /\ UNCHANGED <<config, pc, argVars, sockVars, out, sent>>

-----------------------------------------------------------------------------
(* The handlers.                                                           *)

\* What becomes of a request before any socket is opened: the gates come
\* first, then the arguments are parsed.
Admitted(r) ==
    IF ~Gated(r) THEN "failed"
    ELSE IF ParsePanics(r) THEN "panicked"
    ELSE IF r.args # "good" THEN "failed"
    ELSE "open"

\* A request comes in.
Admit(c) ==
    /\ pc[c] = "none"
    /\ \E r \in Requests[c] :
        /\ req' = [req EXCEPT ![c] = r]
        /\ Goto(c, Admitted(r))
    /\ UNCHANGED <<config, bus, expired, late, sockVars, queue, out, sent,
                   overrun>>

\* What follows the first Socket::open of a tool.
AfterOpen ==
    [send_frame |-> "send", capture |-> "loop",
     send_and_capture |-> "open_tx", isotp_request |-> "exchange"]

\* MUTANT: send_and_capture sends before it opens the receiving socket.
OpenSocketAfterSend(c) ==
    /\ pc[c] = "open"
    /\ IF req[c].tool = "send_and_capture" /\ sent[c] = 0
       THEN /\ Transmit([on |-> req[c].iface, by |-> c, reply |-> FALSE])
            /\ sent' = [sent EXCEPT ![c] = Len(bus) + 1]
            /\ UNCHANGED <<config, pc, argVars, sockVars, out>>
       ELSE /\ open' = [open EXCEPT ![c] = TRUE]
            /\ Goto(c, IF sent[c] # 0 THEN "loop" ELSE AfterOpen[req[c].tool])
            /\ UNCHANGED <<config, bus, argVars, shared, queue, out, sent,
                           overrun>>

\* The call opens its receiving, or only, socket.
OpenSocket(c) ==
    /\ pc[c] = "open"
    /\ open' = [open EXCEPT ![c] = TRUE]
    /\ Goto(c, AfterOpen[req[c].tool])
    /\ UNCHANGED <<config, bus, argVars, shared, queue, out, sent, overrun>>

\* MUTANT: the sending socket is always opened anew.
ClonesTxNever(c) == FALSE

\* Whether send_and_capture sends through a clone of its receiving socket.
ClonesTx(c) == req[c].rx = req[c].iface

\* send_and_capture gets its sending socket, while the other one is open.
OpenTx(c) ==
    /\ pc[c] = "open_tx"
    /\ shared' = [shared EXCEPT ![c] = ClonesTx(c)]
    /\ Goto(c, "send")
    /\ UNCHANGED <<config, bus, argVars, open, queue, out, sent, overrun>>

\* The frame is sent.  The deadline of a capture counts from here.
SendFrame(c) ==
    /\ pc[c] = "send"
    /\ Transmit([on |-> req[c].iface, by |-> c, reply |-> FALSE])
    /\ sent' = [sent EXCEPT ![c] = Len(bus) + 1]
    /\ Goto(c, IF req[c].tool = "send_frame" THEN "close" ELSE "loop")
    /\ UNCHANGED <<config, argVars, sockVars, out>>

\* isotp::request sends one of its frames ...
ExchangeSends(c) ==
    /\ pc[c] = "exchange"
    /\ Transmit([on |-> req[c].iface, by |-> c, reply |-> FALSE])
    /\ sent' = [sent EXCEPT ![c] = Len(bus) + 1]
    /\ UNCHANGED <<config, pc, argVars, sockVars, out>>

\* ... and returns.
ExchangeEnds(c) ==
    /\ pc[c] = "exchange"
    /\ Goto(c, "close")
    /\ UNCHANGED <<config, bus, argVars, sockVars, queue, out, sent, overrun>>

\* MUTANT: the deadline is not looked at.
MoreToCaptureForever(c) == Len(out[c]) < Limit(req[c])

\* MUTANT: a frame is captured before the limit is looked at.
MoreToCaptureLate(c) == Len(out[c]) <= Limit(req[c]) /\ ~expired[c]

\* while out.len() < max_frames && Instant::now() < deadline
MoreToCapture(c) == Len(out[c]) < Limit(req[c]) /\ ~expired[c]

CheckLoop(c) ==
    /\ pc[c] = "loop"
    /\ Goto(c, IF MoreToCapture(c) THEN "recv" ELSE "close")
    /\ UNCHANGED <<config, bus, argVars, sockVars, queue, out, sent, overrun>>

\* recv() returns a frame ...
RecvFrame(c) ==
    /\ pc[c] = "recv"
    /\ queue[c] # <<>>
    /\ out' = [out EXCEPT ![c] = Append(@, Head(queue[c]))]
    /\ queue' = [queue EXCEPT ![c] = Tail(@)]
    /\ Goto(c, "loop")
    /\ UNCHANGED <<config, bus, argVars, sockVars, sent, overrun>>

\* ... or nothing: its timeout expired, or a signal came.
RecvNothing(c) ==
    /\ pc[c] = "recv"
    /\ Goto(c, "loop")
    /\ UNCHANGED <<config, bus, argVars, sockVars, queue, out, sent, overrun>>

\* Opening, cloning, sending or receiving fails: the sockets are closed and
\* what was captured is not returned.
Fail(c) ==
    /\ pc[c] \in {"open", "open_tx", "send", "exchange", "recv"}
    /\ Goto(c, "failed")
    /\ open' = [open EXCEPT ![c] = FALSE]
    /\ queue' = [queue EXCEPT ![c] = <<>>]
    /\ out' = [out EXCEPT ![c] = <<>>]
    /\ UNCHANGED <<config, bus, argVars, shared, sent, overrun>>

\* MUTANT: the socket outlives the call.
CloseKeepsSocket(c) ==
    /\ pc[c] = "close"
    /\ Goto(c, "done")
    /\ UNCHANGED <<config, bus, argVars, sockVars, queue, out, sent, overrun>>

\* The handler returns its result and its sockets are dropped.
Close(c) ==
    /\ pc[c] = "close"
    /\ Goto(c, "done")
    /\ open' = [open EXCEPT ![c] = FALSE]
    /\ queue' = [queue EXCEPT ![c] = <<>>]
    /\ UNCHANGED <<config, bus, argVars, shared, out, sent, overrun>>

\* The deadline passes.
Expire(c) ==
    /\ pc[c] \in {"loop", "recv"}
    /\ ~expired[c]
    /\ expired' = [expired EXCEPT ![c] = TRUE]
    /\ late' = [late EXCEPT ![c] = Len(bus)]
    /\ UNCHANGED <<config, bus, pc, req, sockVars, queue, out, sent, overrun>>

-----------------------------------------------------------------------------
CallStep(c) ==
    \/ OpenSocket(c)
    \/ OpenTx(c)
    \/ SendFrame(c)
    \/ ExchangeEnds(c)
    \/ CheckLoop(c)
    \/ RecvFrame(c)
    \/ RecvNothing(c)
    \/ Fail(c)
    \/ Close(c)

Next ==
    \/ OtherNode
    \/ \E c \in Calls : Admit(c) \/ CallStep(c) \/ ExchangeSends(c) \/ Expire(c)

Spec == Init /\ [][Next]_vars

(***************************************************************************)
(* Fairness.  A handler keeps running, because its sockets have a receive  *)
(* timeout and isotp::request returns, and time passes.                    *)
(***************************************************************************)
FairSpec == Spec /\ \A c \in Calls : WF_vars(CallStep(c)) /\ WF_vars(Expire(c))

-----------------------------------------------------------------------------
(* Properties.                                                             *)

Steps == {"none", "open", "open_tx", "send", "exchange", "loop", "recv",
          "close", "done", "failed", "panicked"}

\* The steps at which the call has its receiving socket.
Holding == Steps \ {"none", "open", "done", "failed", "panicked"}

\* Every variable is in its type, and only indices of the log are captured.
TypeOK ==
    /\ config \in Configs
    /\ bus \in Seq([on: Ifaces, by: Calls \cup {NoCall}, reply: BOOLEAN])
    /\ pc \in [Calls -> Steps]
    /\ \A c \in Calls : req[c] \in Requests[c]
    /\ open \in [Calls -> BOOLEAN]
    /\ shared \in [Calls -> BOOLEAN]
    /\ \A c \in Calls :
        /\ queue[c] \in Seq(1..Len(bus)) /\ Len(queue[c]) <= RcvBuf
        /\ out[c] \in Seq(1..Len(bus))
        /\ sent[c] \in 0..Len(bus)
        /\ late[c] \in 0..Len(bus)
        /\ open[c] <=> pc[c] \in Holding
    /\ expired \in [Calls -> BOOLEAN]
    /\ overrun \in [Calls -> BOOLEAN]

\* "Agents cannot touch any device that isn't explicitly permitted": a frame
\* a call put on the bus went to an allowed interface of a writable server,
\* and a frame it captured was heard on an allowed interface.
OnlyAllowedInterfacesAreUsed ==
    \A c \in Calls :
        /\ \A i \in 1..Len(bus) :
              bus[i].by = c => Allowed(bus[i].on) /\ ~config.readonly
        /\ out[c] # <<>> => Allowed(RxIface(req[c]))

\* "Open RX before we send so we don't miss a fast reply": during the capture
\* every frame the call should hear that follows its own is captured or still
\* queued, and what it has captured is in order and without repetition.
NothingAfterTheSendIsMissed ==
    \A c \in Calls :
        req[c].tool = "send_and_capture" /\ pc[c] \in {"loop", "recv"} =>
            LET heard == out[c] \o queue[c]
            IN  /\ \A i, j \in 1..Len(heard) : i < j => heard[i] < heard[j]
                /\ \A i \in sent[c] + 1..Len(bus) :
                      Hears(bus[i], c) /\ ~overrun[c] =>
                          \E j \in 1..Len(heard) : heard[j] = i

\* A call that sends and captures on one interface does not report its own
\* frame as a response to it.
OwnFrameIsNoResponse ==
    \A c \in Calls : \A j \in 1..Len(out[c]) :
        req[c].rx = req[c].iface => bus[out[c][j]].by # c

\* "Returns as soon as max_frames is reached or the timeout expires": never
\* more frames than asked for or than the hard cap, and at most the receive
\* that was under way brings in a frame that came after the deadline.
CaptureEndsAtItsLimits ==
    \A c \in Calls :
        /\ Len(out[c]) <= Limit(req[c])
        /\ expired[c] =>
              Cardinality({j \in 1..Len(out[c]) : out[c][j] > late[c]}) <= 1

\* Every call that is made is answered, with a result or an error, however busy
\* the bus is, but for a sending tool whose payload cannot be cut into pairs.
CallIsAnswered ==
    \A c \in Calls :
        pc[c] # "none" /\ (req[c].args = "split" => req[c].tool = "capture")
            ~> pc[c] \in {"done", "failed"}
=============================================================================
