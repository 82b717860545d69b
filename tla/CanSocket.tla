------------------------------ MODULE CanSocket ------------------------------
(***************************************************************************)
(* The CAN_RAW sockets of one process: mcanbus/src/socket.rs against the   *)
(* kernel's descriptor table and receive queues.                           *)
(*                                                                         *)
(* Socket::open is a sequence of system calls.  Threads interleave between *)
(* them, frames keep arriving, and each call may fail; a guard closes the  *)
(* descriptor on every early return until it is defused.  The kernel gives *)
(* out the lowest free descriptor number, so a number closed once too      *)
(* often is soon somebody else's socket.                                   *)
(*                                                                         *)
(* A frame is its number and its kind; a filter lets "data", "fd" and      *)
(* "rtr" through and stops "other".  The frames a thread sends are those   *)
(* of a stream of its own, and each send continues after what the one      *)
(* before reported.                                                        *)
(***************************************************************************)
EXTENDS Integers, Sequences, SequencesExt, FiniteSets, FiniteSetsExt

CONSTANTS
    Threads,    \* threads that open and use sockets
    Fds,        \* descriptor numbers
    NoFd,       \* what a defused guard holds
    Sockets,    \* kernel sockets, each created at most once
    NoSocket,   \* what an unused descriptor number refers to
    Opts,       \* the OpenOpts that sockets are opened with
    Kinds,      \* kinds of frames on the interface
    Calls,      \* the calls made on a socket
    Slots,      \* length of the buffer given to recv_batch
    MaxBatch,   \* frames of one batch at most, 64 in the code
    Slices,     \* lengths of the slices given to send and send_batch
    MaxSent,    \* bound on the frames that a thread sends
    RcvBuf,     \* frames a receive queue holds
    MaxFrames   \* bound on the frames that arrive in a behaviour

ASSUME FdsAssumption == Fds \subseteq Nat /\ NoFd \notin Fds
ASSUME SocketsAssumption == NoSocket \notin Sockets
ASSUME OptsAssumption ==
    /\ Opts # {}
    /\ Opts \subseteq [filter: {"unset", "match", "empty"}, clear: BOOLEAN,
                       err: BOOLEAN, fd: BOOLEAN, nonblocking: BOOLEAN,
                       timeout: {"unset", "sub_us", "usual"}]
ASSUME CallsAssumption ==
    Calls \subseteq {"recv", "recv_decoded", "recv_batch", "send"}
ASSUME SendAssumption ==
    /\ MaxBatch \in Nat \ {0} /\ MaxSent \in Nat
    /\ Slices \subseteq Nat \ {0}
ASSUME BoundsAssumption ==
    /\ Slots \in Nat \ {0} /\ RcvBuf \in Nat /\ MaxFrames \in Nat
ASSUME KindsAssumption ==
    Kinds \subseteq {"data", "fd", "other", "rtr", "error"}

VARIABLES
    \* the kernel
    fdTable,   \* descriptor number -> kernel socket
    kern,      \* kernel socket -> its state and options
    queue,     \* kernel socket -> its receive queue
    arrived,   \* frames that have arrived on the interface
    \* the threads
    pc,        \* "idle", a step of open, "unwind", or one of Calls
    opts,      \* the options of the open under way
    guard,     \* FdGuard of the open under way
    using,     \* the handle a receive borrows
    out,       \* the buffer passed to recv_batch, reused from call to call
    reported,  \* frames of its stream that sends have reported as sent
    count,     \* frames handed to the kernel by the send under way
    accepted,  \* and how many of them it has accepted
    \* ownership
    handles,   \* live Socket values
    raws,      \* descriptors released by into_raw_fd
    \* history, read by no action
    taken,     \* per thread: the frames the kernel gave it, and to which call
    got,       \* per thread: the frames its receives returned
    onBus      \* per thread: the frames of its stream on the bus

kernelVars == <<fdTable, kern, queue>>
openVars   == <<opts, guard>>
ownVars    == <<handles, raws>>
recvVars   == <<using, out, taken, got>>
sendVars   == <<reported, count, accepted, onBus>>
vars == <<kernelVars, arrived, pc, openVars, ownVars, recvVars, sendVars>>

-----------------------------------------------------------------------------
\* An owner of a descriptor: its number and, as history, the kernel socket it
\* stood for when it was handed over.
Handle == [fd: Fds, of: Sockets]

NoHandle == [fd |-> NoFd, of |-> NoSocket]

Zeroed == [n |-> 0, kind |-> "data"]

Fresh ==
    [state |-> "unused", bound |-> FALSE, filter |-> "default",
     err |-> FALSE, fd |-> FALSE, timeo |-> "forever", nonblock |-> FALSE,
     wish |-> NoSocket, refused |-> FALSE]  \* the last two are history

FreeFds == {f \in Fds : fdTable[f] = NoSocket}

\* What the option asks of CAN_RAW_FILTER: filter precedes clear_filter.
FilterOf(o) ==
    IF o.filter # "unset" THEN o.filter
    ELSE IF o.clear THEN "empty" ELSE "default"

\* SO_RCVTIMEO gets whole microseconds, and zero of them wait for ever.
TimeoOf(o) == IF o.timeout = "usual" THEN "expires" ELSE "forever"

\* The kernel delivers a frame of this kind to a socket with these options.
Passes(kind, filter, err, fd) ==
    \/ kind = "error" /\ err
    \/ kind = "other" /\ filter = "default"
    \/ kind = "fd" /\ filter # "empty" /\ fd
    \/ kind \in {"data", "rtr"} /\ filter # "empty"

\* MUTANT: a remote request is taken for a data frame.
IsDataOrRemote(frame) == frame.kind \in {"data", "fd", "other", "rtr"}

\* The frames that decode_wire returns as Data.
IsData(frame) == frame.kind \in {"data", "fd", "other"}

\* MUTANT: bind comes before the receive filter is set.
AfterBindsEarly ==
    [socket |-> "ifindex", ifindex |-> "fd_frames", fd_frames |-> "bind",
     bind |-> "filter", filter |-> "err_filter", err_filter |-> "tune",
     tune |-> "done"]

\* The order of the system calls of Socket::open.
After ==
    [socket |-> "ifindex", ifindex |-> "fd_frames", fd_frames |-> "filter",
     filter |-> "err_filter", err_filter |-> "tune", tune |-> "bind",
     bind |-> "done"]

-----------------------------------------------------------------------------
Init ==
    /\ fdTable = [f \in Fds |-> NoSocket]
    /\ kern = [k \in Sockets |-> Fresh]
    /\ queue = [k \in Sockets |-> <<>>]
    /\ arrived = 0
    /\ pc = [t \in Threads |-> "idle"]
    /\ opts = [t \in Threads |-> CHOOSE o \in Opts : TRUE]
    /\ guard = [t \in Threads |-> NoFd]
    /\ using = [t \in Threads |-> NoHandle]
    /\ out = [t \in Threads |-> [i \in 1..Slots |-> Zeroed]]
    /\ handles = {}
    /\ raws = {}
    /\ taken = [t \in Threads |-> <<>>]
    /\ got = [t \in Threads |-> <<>>]
    /\ reported = [t \in Threads |-> 0]
    /\ count = [t \in Threads |-> 0]
    /\ accepted = [t \in Threads |-> 0]
    /\ onBus = [t \in Threads |-> <<>>]

-----------------------------------------------------------------------------
(* The kernel.                                                             *)

\* A frame arrives: each bound socket whose filter it passes queues it, unless
\* its queue is full.
Arrive ==
    /\ arrived < MaxFrames
    /\ arrived' = arrived + 1
    /\ \E kind \in Kinds :
         queue' = [k \in Sockets |->
            IF /\ kern[k].state = "open" /\ kern[k].bound
               /\ Passes(kind, kern[k].filter, kern[k].err, kern[k].fd)
               /\ Len(queue[k]) < RcvBuf
            THEN Append(queue[k], [n |-> arrived + 1, kind |-> kind])
            ELSE queue[k]]
    /\ UNCHANGED <<fdTable, kern, pc, openVars, ownVars, recvVars,
                   sendVars>>

\* close(f): the kernel socket goes with the last descriptor that refers to it.
Close(f) ==
    LET k == fdTable[f]
    IN  /\ fdTable' = [fdTable EXCEPT ![f] = NoSocket]
        /\ IF k \in Sockets /\ \A g \in Fds \ {f} : fdTable[g] # k
           THEN /\ kern' = [kern EXCEPT ![k] = [Fresh EXCEPT !.state = "freed"]]
                /\ queue' = [queue EXCEPT ![k] = <<>>]
           ELSE UNCHANGED <<kern, queue>>

-----------------------------------------------------------------------------
(* Socket::open.                                                           *)

BeginOpen(t) ==
    /\ pc[t] = "idle"
    /\ pc' = [pc EXCEPT ![t] = "socket"]
    /\ \E o \in Opts : opts' = [opts EXCEPT ![t] = o]
    /\ UNCHANGED <<kernelVars, arrived, guard, ownVars, recvVars, sendVars>>

\* socket() succeeds: from here on the guard owns the descriptor.
MakeSocket(t) ==
    /\ pc[t] = "socket"
    /\ FreeFds # {}
    /\ \E k \in Sockets :
        /\ kern[k].state = "unused"
        /\ fdTable' = [fdTable EXCEPT ![Min(FreeFds)] = k]
        /\ kern' = [kern EXCEPT ![k].state = "open", ![k].wish = opts[t]]
    /\ guard' = [guard EXCEPT ![t] = Min(FreeFds)]
    /\ pc' = [pc EXCEPT ![t] = After["socket"]]
    /\ UNCHANGED <<queue, arrived, opts, ownVars, recvVars, sendVars>>

\* socket() fails, and there is nothing to close.
SocketFails(t) ==
    /\ pc[t] = "socket"
    /\ pc' = [pc EXCEPT ![t] = "idle"]
    /\ UNCHANGED <<kernelVars, arrived, openVars, ownVars, recvVars,
                   sendVars>>

\* MUTANT: handing the descriptor over does not disarm the guard.
DefuseForgets(t) ==
    /\ handles' = handles \cup {[fd |-> guard[t], of |-> fdTable[guard[t]]]}
    /\ pc' = [pc EXCEPT ![t] = "unwind"]
    /\ UNCHANGED <<guard, raws>>

\* guard.defuse(): a Socket takes the descriptor over.
Defuse(t) ==
    /\ handles' = handles \cup {[fd |-> guard[t], of |-> fdTable[guard[t]]]}
    /\ guard' = [guard EXCEPT ![t] = NoFd]
    /\ pc' = [pc EXCEPT ![t] = "idle"]
    /\ UNCHANGED raws

\* The call at pc[t] succeeded and leaves the kernel socket with attributes a.
Proceed(t, a) ==
    /\ kern' = [kern EXCEPT ![fdTable[guard[t]]] = a]
    /\ IF After[pc[t]] = "done"
       THEN Defuse(t)
       ELSE /\ pc' = [pc EXCEPT ![t] = After[pc[t]]]
            /\ UNCHANGED <<guard, ownVars>>
    /\ UNCHANGED <<fdTable, queue, arrived, opts, recvVars, sendVars>>

\* One step of open on the descriptor in the guard.
Step(t, name) == pc[t] = name

Attrs(t) == kern[fdTable[guard[t]]]

\* SIOCGIFINDEX finds the interface.
ResolveIndex(t) == Step(t, "ifindex") /\ Proceed(t, Attrs(t))

\* CAN_RAW_FD_FRAMES is asked for and granted, or not; either will do.
EnableFd(t) ==
    /\ Step(t, "fd_frames")
    /\ \E granted \in BOOLEAN :
         Proceed(t, [Attrs(t) EXCEPT !.fd = opts[t].fd /\ granted])

\* CAN_RAW_FILTER, if there is a filter to apply.
SetFilter(t) ==
    /\ Step(t, "filter")
    /\ Proceed(t, [Attrs(t) EXCEPT !.filter = FilterOf(opts[t])])

\* CAN_RAW_ERR_FILTER, if a mask is given.
SetErrFilter(t) ==
    /\ Step(t, "err_filter")
    /\ Proceed(t, [Attrs(t) EXCEPT !.err = opts[t].err])

\* MUTANT: the receive timeout is left out.
TuneForgetsTimeout(t) ==
    /\ Step(t, "tune")
    /\ Proceed(t, [Attrs(t) EXCEPT !.nonblock = opts[t].nonblocking])

\* The calls whose results are not looked at: buffer sizes, timestamps (which
\* show in no frame here), SO_RCVTIMEO and O_NONBLOCK.  Where one fails, open
\* goes on without it.  (A timeout that waits for ever is no loss.)
Tune(t) ==
    /\ Step(t, "tune")
    /\ \E timed, polls \in BOOLEAN :
        /\ ~timed => TimeoOf(opts[t]) = "expires"
        /\ polls => opts[t].nonblocking
        /\ Proceed(t, [Attrs(t) EXCEPT
                         !.timeo = IF timed THEN TimeoOf(opts[t]) ELSE "forever",
                         !.refused = ~timed, !.nonblock = polls])

\* bind(): frames can be queued from now on.
Bind(t) == Step(t, "bind") /\ Proceed(t, [Attrs(t) EXCEPT !.bound = TRUE])

\* The steps that return early when their system call fails.
Fallible(t) ==
    \/ pc[t] \in {"ifindex", "bind"}
    \/ pc[t] = "filter" /\ FilterOf(opts[t]) # "default"
    \/ pc[t] = "err_filter" /\ opts[t].err

StepFails(t) ==
    /\ Fallible(t)
    /\ pc' = [pc EXCEPT ![t] = "unwind"]
    /\ UNCHANGED <<kernelVars, arrived, openVars, ownVars, recvVars,
                   sendVars>>

\* MUTANT: nothing closes the descriptor on the way out.
UnwindLeaks(t) ==
    /\ pc[t] = "unwind"
    /\ guard' = [guard EXCEPT ![t] = NoFd]
    /\ pc' = [pc EXCEPT ![t] = "idle"]
    /\ UNCHANGED <<kernelVars, arrived, opts, ownVars, recvVars, sendVars>>

\* The guard is dropped on an early return.
Unwind(t) ==
    /\ pc[t] = "unwind"
    /\ Close(guard[t])
    /\ guard' = [guard EXCEPT ![t] = NoFd]
    /\ pc' = [pc EXCEPT ![t] = "idle"]
    /\ UNCHANGED <<arrived, opts, ownVars, recvVars, sendVars>>

-----------------------------------------------------------------------------
(* Ownership of a descriptor after open.                                   *)

Borrowed(h) == \E t \in Threads : using[t] = h

\* try_clone(): dup() gives a second descriptor of the same kernel socket.
TryClone(h) ==
    /\ h \in handles
    /\ FreeFds # {}
    /\ fdTable' = [fdTable EXCEPT ![Min(FreeFds)] = fdTable[h.fd]]
    /\ handles' = handles \cup {[fd |-> Min(FreeFds), of |-> h.of]}
    /\ UNCHANGED <<kern, queue, arrived, pc, openVars, raws, recvVars,
                   sendVars>>

\* MUTANT: nothing keeps a drop away from a receive under way.
DropWhileBorrowed(h) ==
    /\ h \in handles
    /\ Close(h.fd)
    /\ handles' = handles \ {h}
    /\ UNCHANGED <<arrived, pc, openVars, raws, recvVars, sendVars>>

\* Drop, which the borrow checker keeps away from a receive under way.
DropSocket(h) ==
    /\ h \in handles
    /\ ~Borrowed(h)
    /\ Close(h.fd)
    /\ handles' = handles \ {h}
    /\ UNCHANGED <<arrived, pc, openVars, raws, recvVars, sendVars>>

\* into_raw_fd(): the Socket is forgotten, its descriptor stays open.
IntoRawFd(h) ==
    /\ h \in handles
    /\ ~Borrowed(h)
    /\ handles' = handles \ {h}
    /\ raws' = raws \cup {h}
    /\ UNCHANGED <<kernelVars, arrived, pc, openVars, recvVars, sendVars>>

\* from_raw_fd() adopts it again.
FromRawFd(h) ==
    /\ h \in raws
    /\ raws' = raws \ {h}
    /\ handles' = handles \cup {h}
    /\ UNCHANGED <<kernelVars, arrived, pc, openVars, recvVars, sendVars>>

-----------------------------------------------------------------------------
(* Receiving.                                                              *)

Receives == {"recv", "recv_decoded", "recv_batch"}

\* A receive is called, and waits in the kernel.
BeginRecv(t, h, call) ==
    /\ pc[t] = "idle"
    /\ h \in handles
    /\ pc' = [pc EXCEPT ![t] = call]
    /\ using' = [using EXCEPT ![t] = h]
    /\ UNCHANGED <<kernelVars, arrived, openVars, ownVars, out, taken, got,
                   sendVars>>

\* The kernel socket behind the descriptor, as the system call finds it.
Source(t) == fdTable[using[t].fd]

Return(t) ==
    /\ pc' = [pc EXCEPT ![t] = "idle"]
    /\ using' = [using EXCEPT ![t] = NoHandle]

\* The data frames of a batch: those of its first i frames, for i from 0 on.
DataOf(batch) ==
    LET upTo[i \in 0..Len(batch)] ==
          IF i = 0 THEN <<>>
          ELSE IF IsData(batch[i]) THEN Append(upTo[i - 1], batch[i])
          ELSE upTo[i - 1]
    IN  upTo[Len(batch)]

\* The frames of a batch that the call under way reports: recv_decoded() all
\* of them, the others data frames only.
Reported(t, batch) ==
    IF pc[t] = "recv_decoded" THEN batch ELSE DataOf(batch)

\* The frames of a batch as history: with the call they are given to.
Given(t, batch) ==
    [i \in 1..Len(batch) |-> [frame |-> batch[i], by |-> pc[t]]]

\* recv() and recv_decoded() take one frame; recv() returns Ok(None) for a
\* remote or error frame.
Recv(t) ==
    /\ pc[t] \in {"recv", "recv_decoded"}
    /\ queue[Source(t)] # <<>>
    /\ queue' = [queue EXCEPT ![Source(t)] = Tail(@)]
    /\ LET frame == <<Head(queue[Source(t)])>>
       IN  /\ taken' = [taken EXCEPT ![t] = @ \o Given(t, frame)]
           /\ got' = [got EXCEPT ![t] = @ \o Reported(t, frame)]
    /\ Return(t)
    /\ UNCHANGED <<fdTable, kern, arrived, openVars, ownVars, out, sendVars>>

\* MUTANT: a frame goes to the slot it was received in.
FillInPlace(slots, batch) ==
    [i \in 1..Slots |->
        IF i <= Len(batch) /\ IsData(batch[i]) THEN batch[i] ELSE slots[i]]

\* Data frames close ranks at the front of the buffer; the slots behind them
\* keep what earlier calls left there.
Fill(slots, batch) ==
    LET data == DataOf(batch)
    IN  [i \in 1..Slots |-> IF i <= Len(data) THEN data[i] ELSE slots[i]]

\* recv_batch() takes what is queued, up to the slots it has and the largest
\* batch, and returns how many data frames are at the front of the buffer.
RecvBatch(t) ==
    /\ pc[t] = "recv_batch"
    /\ \E n \in 1..Min({Slots, MaxBatch, Len(queue[Source(t)])}) :
         LET batch == SubSeq(queue[Source(t)], 1, n)
             delivered == Len(DataOf(batch))
         IN  /\ queue' = [queue EXCEPT ![Source(t)] = SubSeq(@, n + 1, Len(@))]
             /\ taken' = [taken EXCEPT ![t] = @ \o Given(t, batch)]
             /\ out' = [out EXCEPT ![t] = Fill(@, batch)]
             /\ got' = [got EXCEPT ![t] = @ \o SubSeq(out'[t], 1, delivered)]
    /\ Return(t)
    /\ UNCHANGED <<fdTable, kern, arrived, openVars, ownVars, sendVars>>

\* EAGAIN: the timeout expired, or the socket does not block.
RecvEmpty(t) ==
    /\ pc[t] \in Receives
    /\ queue[Source(t)] = <<>>
    /\ kern[Source(t)].timeo = "expires" \/ kern[Source(t)].nonblock
    /\ Return(t)
    /\ UNCHANGED <<kernelVars, arrived, openVars, ownVars, out, taken, got,
                   sendVars>>

\* EINTR, which is Ok(None) or Ok(0), or an error of the interface.
RecvBroken(t) ==
    /\ pc[t] \in Receives
    /\ Return(t)
    /\ UNCHANGED <<kernelVars, arrived, openVars, ownVars, out, taken, got,
                   sendVars>>

-----------------------------------------------------------------------------
(* Sending.                                                                *)

\* frames.len().min(MAX_BATCH)
HandOver(len) == Min({len, MaxBatch})

\* send() or send_batch() is called with the next len frames of the stream.
BeginSend(t, h, len) ==
    /\ "send" \in Calls
    /\ pc[t] = "idle"
    /\ h \in handles
    /\ reported[t] + len <= MaxSent
    /\ pc' = [pc EXCEPT ![t] = "send"]
    /\ using' = [using EXCEPT ![t] = h]
    /\ count' = [count EXCEPT ![t] = HandOver(len)]
    /\ UNCHANGED <<kernelVars, arrived, openVars, ownVars, out, taken, got,
                   reported, accepted, onBus>>

\* The kernel accepts the next frame handed over.
Transmit(t) ==
    /\ pc[t] = "send"
    /\ accepted[t] < count[t]
    /\ accepted' = [accepted EXCEPT ![t] = @ + 1]
    /\ onBus' = [onBus EXCEPT ![t] =
                    Append(@, reported[t] + accepted[t] + 1)]
    /\ UNCHANGED <<kernelVars, arrived, pc, openVars, ownVars, recvVars,
                   reported, count>>

\* MUTANT: the whole batch is reported, whatever the kernel accepted.
SendReturnsCount(t) ==
    /\ pc[t] = "send"
    /\ reported' = [reported EXCEPT ![t] = @ + count[t]]
    /\ count' = [count EXCEPT ![t] = 0]
    /\ accepted' = [accepted EXCEPT ![t] = 0]
    /\ Return(t)
    /\ UNCHANGED <<kernelVars, arrived, openVars, ownVars, out, taken, got,
                   onBus>>

\* The call returns how many were accepted: all of them, or those before the
\* one that was refused (the queue is full, the interface is down); an error
\* if that was the first.
SendReturns(t) ==
    /\ pc[t] = "send"
    /\ reported' = [reported EXCEPT ![t] = @ + accepted[t]]
    /\ count' = [count EXCEPT ![t] = 0]
    /\ accepted' = [accepted EXCEPT ![t] = 0]
    /\ Return(t)
    /\ UNCHANGED <<kernelVars, arrived, openVars, ownVars, out, taken, got,
                   onBus>>

-----------------------------------------------------------------------------
OpenStep(t) ==
    \/ MakeSocket(t)
    \/ SocketFails(t)
    \/ ResolveIndex(t)
    \/ EnableFd(t)
    \/ SetFilter(t)
    \/ SetErrFilter(t)
    \/ Tune(t)
    \/ Bind(t)
    \/ StepFails(t)
    \/ Unwind(t)

OwnerStep(h) ==
    \/ TryClone(h)
    \/ DropSocket(h)
    \/ IntoRawFd(h)
    \/ FromRawFd(h)

RecvStep(t) ==
    \/ Recv(t)
    \/ RecvBatch(t)
    \/ RecvEmpty(t)

Next ==
    \/ Arrive
    \/ \E t \in Threads :
         \/ BeginOpen(t)
         \/ OpenStep(t)
         \/ \E h \in handles, call \in Calls \cap Receives :
              BeginRecv(t, h, call)
         \/ RecvStep(t)
         \/ RecvBroken(t)
         \/ \E h \in handles, len \in Slices : BeginSend(t, h, len)
         \/ Transmit(t)
         \/ SendReturns(t)
    \/ \E h \in handles \cup raws : OwnerStep(h)

Spec == Init /\ [][Next]_vars

(***************************************************************************)
(* Fairness.  A system call of open returns, and a receive that has a      *)
(* frame, or whose timeout runs, returns.  Nobody promises frames, signals *)
(* or errors, so nothing is assumed of Arrive and RecvBroken.              *)
(***************************************************************************)
FairSpec ==
    Spec /\ \A t \in Threads : WF_vars(OpenStep(t)) /\ WF_vars(RecvStep(t))

-----------------------------------------------------------------------------
(* Properties.                                                             *)

Frames == [n: 0..MaxFrames, kind: Kinds \cup {"data"}]

TakenFrames == [frame: Frames, by: Receives]

OpenSteps == {"socket", "ifindex", "fd_frames", "filter", "err_filter",
              "tune", "bind", "unwind"}

\* Every variable is in its type, a guard is armed exactly while open holds a
\* descriptor, and a borrowed handle is live.
TypeOK ==
    /\ fdTable \in [Fds -> Sockets \cup {NoSocket}]
    /\ \A k \in Sockets :
        /\ kern[k].state \in {"unused", "open", "freed"}
        /\ kern[k].filter \in {"default", "match", "empty"}
        /\ queue[k] \in Seq(Frames) /\ Len(queue[k]) <= RcvBuf
    /\ arrived \in 0..MaxFrames
    /\ pc \in [Threads -> OpenSteps \cup Calls \cup {"idle"}]
    /\ opts \in [Threads -> Opts]
    /\ guard \in [Threads -> Fds \cup {NoFd}]
    /\ \A t \in Threads : guard[t] # NoFd <=> pc[t] \in OpenSteps \ {"socket"}
    /\ handles \subseteq Handle
    /\ raws \subseteq Handle
    /\ \A t \in Threads : using[t] \in handles \cup {NoHandle}
    /\ \A t \in Threads : out[t] \in [1..Slots -> Frames]
    /\ \A t \in Threads : taken[t] \in Seq(TakenFrames) /\ got[t] \in Seq(Frames)
    /\ \A t \in Threads :
        /\ reported[t] \in 0..MaxSent /\ count[t] \in 0..MaxBatch
        /\ accepted[t] \in 0..count[t] /\ onBus[t] \in Seq(1..MaxSent)

\* A Socket, or a descriptor released by into_raw_fd, refers to the kernel
\* socket it was made for as long as it lives: no other thread's early return,
\* drop or clone closes it or has its number reused.
HandleKeepsItsSocket ==
    \A h \in handles \cup raws :
        /\ fdTable[h.fd] = h.of
        /\ kern[h.of].bound

\* Each open descriptor has one owner that will close it: a live Socket, the
\* caller of into_raw_fd, or the guard of an open under way.
EveryDescriptorIsOwnedOnce ==
    \A f \in Fds :
        fdTable[f] # NoSocket =>
            Cardinality({h \in handles \cup raws : h.fd = f})
            + Cardinality({t \in Threads : guard[t] = f}) = 1

\* "Only frames matching one of these patterns are delivered": also among the
\* frames that arrived while the socket was being opened.
OnlyWantedFramesAreQueued ==
    \A k \in Sockets : \A i \in 1..Len(queue[k]) :
        LET o == kern[k].wish
        IN  Passes(queue[k][i].kind, FilterOf(o), o.err, o.fd)

\* What a caller is due of the frames that the kernel gave to its calls: all of
\* those taken by recv_decoded ("returns the full decoded variant"), and but
\* for "RTR / error frames" those taken by recv and recv_batch.
DueTo(e) == e.by = "recv_decoded" \/ e.frame.kind \notin {"rtr", "error"}

Due(s) ==
    LET upTo[i \in 0..Len(s)] ==
          IF i = 0 THEN <<>>
          ELSE IF DueTo(s[i]) THEN Append(upTo[i - 1], s[i].frame)
          ELSE upTo[i - 1]
    IN  upTo[Len(s)]

\* A thread's receives return what they took from the kernel and its caller is
\* due, each frame once and in order, and nothing else: however the three calls
\* alternate, wherever in a batch the frames stand that are left out, and
\* whatever earlier batches left in the buffer.
ReceivesReturnWhatTheyTook == \A t \in Threads : got[t] = Due(taken[t])

\* A caller that continues after what send or send_batch reported puts every
\* frame of its stream on the bus once and in order, wherever the kernel stops
\* accepting and however long the slices are.
SendsLoseAndRepeatNothing ==
    \A t \in Threads : \A i \in 1..Len(onBus[t]) : onBus[t][i] = i

\* "A small value lets a read loop poll a stop flag without blocking for
\* ever": a receive on a socket opened with a receive timeout returns.  The
\* timeout must not be below the microsecond that SO_RCVTIMEO can express, and
\* the kernel must have taken it: open does not tell whether it has.
ReceiveWithTimeoutReturns ==
    \A t \in Threads :
        (/\ pc[t] \in Receives
         /\ kern[using[t].of].wish.timeout = "usual"
         /\ ~kern[using[t].of].refused)
        ~> pc[t] = "idle"
=============================================================================
