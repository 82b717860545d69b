---------------------------- MODULE FanoutReader ----------------------------
(***************************************************************************)
(* The multi-consumer fan-out reader of mcanbus/src/reader.rs.             *)
(*                                                                         *)
(* One thread (run_reader) drains a CAN socket in batches and copies every *)
(* frame into the queue of every subscriber.  The owner of the Reader      *)
(* subscribes and shuts down from its own thread; every Subscriber is      *)
(* consumed, and eventually dropped, by a thread of its own.  All of them  *)
(* interleave at the granularity of the shared operations of the code: an  *)
(* atomic load or store, a critical section of the subscriber list, one    *)
(* channel operation, one counter update.                                  *)
(*                                                                         *)
(* A frame is the number of its arrival on the interface.  Remote and      *)
(* error frames never reach a batch (recv_batch drops them), so they only  *)
(* show as a recv_batch that returns Ok(0).                                *)
(***************************************************************************)
EXTENDS Integers, Sequences, FiniteSets

CONSTANTS
    Subs,        \* subscriptions that may be made, each at most once
    NoSub,       \* the value of cur while no subscriber is being served
    Addrs,       \* heap addresses an Arc<SubscriberInner> can be given
    NoAddr,      \* the address of a subscription not made yet
    Unbounded,   \* the capacity of a queue made by subscribe()
    Capacities,  \* the capacities subscriptions are made with
    BatchSize,   \* ReaderConfig::batch_size
    MaxBatch,    \* the length of the batch buffer, 64 in the code
    RcvBuf,      \* frames the socket's receive buffer holds
    MaxFrames    \* bound on the frames that arrive in a behaviour

ASSUME SubsAssumption == NoSub \notin Subs
ASSUME AddrsAssumption == NoAddr \notin Addrs
ASSUME CapacitiesAssumption ==
    /\ Unbounded \notin Nat
    /\ Capacities \subseteq Nat \cup {Unbounded}
ASSUME BoundsAssumption ==
    /\ BatchSize \in Nat
    /\ MaxBatch \in Nat \ {0}
    /\ RcvBuf \in Nat \ {0}
    /\ MaxFrames \in Nat

VARIABLES
    \* the kernel's side of the socket
    arrived,      \* frames that have arrived on the interface
    rxq,          \* frames waiting in the socket's receive buffer
    \* ReaderInner, shared by the thread and the owner
    stop,         \* the stop flag
    subscribers,  \* the list of subscribers, as a set
    owner,        \* "running", "joining" the thread, or "joined"
    \* locals of run_reader
    pc,
    buf,          \* the frames of the current batch, &buf[..n]
    snapshot,     \* the clones of the list taken for the batch
    todo,         \* those of them the fan-out loop has not reached
    cur,          \* the one it is serving
    pos,          \* the index of the frame it is sending
    dead,         \* addresses of subscribers found disconnected
    \* each subscription
    life,         \* "none", "held" by its user, "dropped"
    addr,         \* address of its SubscriberInner
    cap,          \* capacity of its queue
    got,          \* frames its queue ever accepted, in order
    taken,        \* how many of those its user has consumed
    received,     \* the received counter
    dropped,      \* the dropped counter
    consumer,     \* "idle", or blocked in "recv" or "recv_timeout"
    \* history, read by no action
    read,         \* every frame taken from the socket, in order
    base,         \* how many of those precede the first one offered
    since,        \* how many frames had arrived when it was created
    left          \* how many frames had been read when it was dropped

kernelVars == <<arrived, rxq>>
threadVars == <<pc, buf, snapshot, todo, cur, pos, dead>>
queueVars  == <<got, taken, consumer>>
statVars   == <<received, dropped>>
subVars    == <<life, addr, cap>>
histVars   == <<base, since, left>>
vars == <<kernelVars, stop, subscribers, owner, threadVars, queueVars,
          statVars, subVars, read, histVars>>

-----------------------------------------------------------------------------
Min2(a, b) == IF a < b THEN a ELSE b
Max2(a, b) == IF a < b THEN b ELSE a

\* MUTANT: no lower clamp.
ActiveUnclamped == Min2(BatchSize, MaxBatch)

\* The number of slots handed to recv_batch: batch_size.clamp(1, 64).
Active == Min2(Max2(BatchSize, 1), MaxBatch)

\* Subscriber::pending(): frames queued and not consumed.
Pending(s) == Len(got[s]) - taken[s]

\* The SubscriberInner is not freed: its Subscriber, the list (which lives
\* until the owner has joined) or the snapshot still holds an Arc of it.
\* The channel's only sender is a field of it and lives exactly as long.
Alive(s) ==
    \/ life[s] = "held"
    \/ s \in subscribers /\ owner # "joined"
    \/ s \in snapshot

\* What try_send finds: room in the queue or, in a queue of capacity 0, a
\* consumer that waits for a hand-over.
HasRoom(s) ==
    CASE cap[s] = Unbounded -> TRUE
      [] cap[s] = 0         -> consumer[s] # "idle"
      [] OTHER              -> Pending(s) < cap[s]

-----------------------------------------------------------------------------
Init ==
    /\ arrived = 0
    /\ rxq = <<>>
    /\ stop = FALSE
    /\ subscribers = {}
    /\ owner = "running"
    /\ pc = "check"
    /\ buf = <<>>
    /\ snapshot = {}
    /\ todo = {}
    /\ cur = NoSub
    /\ pos = 0
    /\ dead = {}
    /\ life = [s \in Subs |-> "none"]
    /\ addr = [s \in Subs |-> NoAddr]
    /\ cap = [s \in Subs |-> Unbounded]
    /\ got = [s \in Subs |-> <<>>]
    /\ taken = [s \in Subs |-> 0]
    /\ received = [s \in Subs |-> 0]
    /\ dropped = [s \in Subs |-> 0]
    /\ consumer = [s \in Subs |-> "idle"]
    /\ read = <<>>
    /\ base = [s \in Subs |-> 0]
    /\ since = [s \in Subs |-> 0]
    /\ left = [s \in Subs |-> 0]

-----------------------------------------------------------------------------
(* The kernel.                                                             *)

\* A data frame arrives.  A full receive buffer loses it.
Arrive ==
    /\ pc # "done"
    /\ arrived < MaxFrames
    /\ arrived' = arrived + 1
    /\ rxq' = IF Len(rxq) < RcvBuf THEN Append(rxq, arrived + 1) ELSE rxq
    /\ UNCHANGED <<stop, subscribers, owner, threadVars, queueVars, statVars,
                   subVars, read, histVars>>

-----------------------------------------------------------------------------
(* The reader thread.                                                      *)

\* while !inner.stop.load(..)
CheckStop ==
    /\ pc = "check"
    /\ pc' = IF stop THEN "done" ELSE "recv"
    /\ UNCHANGED <<kernelVars, stop, subscribers, owner, buf, snapshot, todo,
                   cur, pos, dead, queueVars, statVars, subVars, read,
                   histVars>>

\* recv_batch delivers n of the queued frames, at most one per slot.
RecvBatch ==
    /\ pc = "recv"
    /\ \E n \in 1..Min2(Active, Len(rxq)) :
        /\ buf' = SubSeq(rxq, 1, n)
        /\ rxq' = SubSeq(rxq, n + 1, Len(rxq))
    /\ read' = read \o buf'
    /\ pc' = "snap"
    /\ UNCHANGED <<arrived, stop, subscribers, owner, snapshot, todo, cur,
                   pos, dead, queueVars, statVars, subVars, histVars>>

\* recv_batch returns Ok(0): its timeout expired, a signal interrupted it, or
\* the kernel had only remote and error frames for it.
RecvNothing ==
    /\ pc = "recv"
    /\ pc' = "check"
    /\ UNCHANGED <<kernelVars, stop, subscribers, owner, buf, snapshot, todo,
                   cur, pos, dead, queueVars, statVars, subVars, read,
                   histVars>>

\* recv_batch fails: the thread sleeps 20 ms ...
RecvError ==
    /\ pc = "recv"
    /\ pc' = "sleep"
    /\ UNCHANGED <<kernelVars, stop, subscribers, owner, buf, snapshot, todo,
                   cur, pos, dead, queueVars, statVars, subVars, read,
                   histVars>>

\* MUTANT: the thread tries again without a look at the stop flag.
WakeRetries ==
    /\ pc = "sleep"
    /\ pc' = "recv"
    /\ UNCHANGED <<kernelVars, stop, subscribers, owner, buf, snapshot, todo,
                   cur, pos, dead, queueVars, statVars, subVars, read,
                   histVars>>

\* ... and goes back to the stop flag.
Wake ==
    /\ pc = "sleep"
    /\ pc' = "check"
    /\ UNCHANGED <<kernelVars, stop, subscribers, owner, buf, snapshot, todo,
                   cur, pos, dead, queueVars, statVars, subVars, read,
                   histVars>>

\* The list is cloned under its lock; dead starts out empty.
Snapshot ==
    /\ pc = "snap"
    /\ snapshot' = subscribers
    /\ todo' = subscribers
    /\ dead' = {}
    /\ pc' = "pick"
    /\ UNCHANGED <<kernelVars, stop, subscribers, owner, buf, cur, pos,
                   queueVars, statVars, subVars, read, histVars>>

\* for sub in &snapshot: the order of the list is left open.
PickSub ==
    /\ pc = "pick"
    /\ \E s \in todo :
        /\ cur' = s
        /\ todo' = todo \ {s}
    /\ pos' = 1
    /\ pc' = "send"
    /\ UNCHANGED <<kernelVars, stop, subscribers, owner, buf, snapshot, dead,
                   queueVars, statVars, subVars, read, histVars>>

\* sub.tx.try_send(*frame) is Ok.  A hand-over also ends the wait of the
\* consumer it is made to.
TrySendOk ==
    /\ pc = "send"
    /\ life[cur] # "dropped"
    /\ HasRoom(cur)
    /\ got' = [got EXCEPT ![cur] = Append(@, buf[pos])]
    /\ IF cap[cur] = 0
       THEN /\ taken' = [taken EXCEPT ![cur] = @ + 1]
            /\ consumer' = [consumer EXCEPT ![cur] = "idle"]
       ELSE UNCHANGED <<taken, consumer>>
    /\ pc' = "sent"
    /\ UNCHANGED <<kernelVars, stop, subscribers, owner, buf, snapshot, todo,
                   cur, pos, dead, statVars, subVars, read, histVars>>

\* MUTANT: send() in place of try_send() waits while the queue is full.
TrySendFullBlocks ==
    /\ pc = "send"
    /\ life[cur] # "dropped"
    /\ ~HasRoom(cur)
    /\ UNCHANGED vars

\* It is Full.
TrySendFull ==
    /\ pc = "send"
    /\ life[cur] # "dropped"
    /\ ~HasRoom(cur)
    /\ pc' = "full"
    /\ UNCHANGED <<kernelVars, stop, subscribers, owner, buf, snapshot, todo,
                   cur, pos, dead, queueVars, statVars, subVars, read,
                   histVars>>

\* It is Disconnected: the pointer is noted and the inner loop left.
TrySendDisconnected ==
    /\ pc = "send"
    /\ life[cur] = "dropped"
    /\ dead' = dead \cup {addr[cur]}
    /\ cur' = NoSub
    /\ pos' = 0
    /\ pc' = "pick"
    /\ UNCHANGED <<kernelVars, stop, subscribers, owner, buf, snapshot, todo,
                   queueVars, statVars, subVars, read, histVars>>

\* MUTANT: the loop runs one index too far.
NextFrameOffByOne ==
    IF pos <= Len(buf)
    THEN /\ pos' = pos + 1
         /\ pc' = "send"
         /\ UNCHANGED cur
    ELSE /\ pos' = 0
         /\ pc' = "pick"
         /\ cur' = NoSub

\* The inner loop moves to the next frame, or to the next subscriber.
NextFrame ==
    IF pos < Len(buf)
    THEN /\ pos' = pos + 1
         /\ pc' = "send"
         /\ UNCHANGED cur
    ELSE /\ pos' = 0
         /\ pc' = "pick"
         /\ cur' = NoSub

\* sub.received.fetch_add(1), a step after the queue took the frame.
CountReceived ==
    /\ pc = "sent"
    /\ received' = [received EXCEPT ![cur] = @ + 1]
    /\ NextFrame
    /\ UNCHANGED <<kernelVars, stop, subscribers, owner, buf, snapshot, todo,
                   dead, queueVars, dropped, subVars, read, histVars>>

\* MUTANT: a full queue ends the batch for its subscriber.
CountDroppedBreaks ==
    /\ pc = "full"
    /\ dropped' = [dropped EXCEPT ![cur] = @ + 1]
    /\ pos' = 0
    /\ pc' = "pick"
    /\ cur' = NoSub
    /\ UNCHANGED <<kernelVars, stop, subscribers, owner, buf, snapshot, todo,
                   dead, queueVars, received, subVars, read, histVars>>

\* MUTANT: the refused frame is tried again.
CountDroppedRetries ==
    /\ pc = "full"
    /\ dropped' = [dropped EXCEPT ![cur] = @ + 1]
    /\ pc' = "send"
    /\ UNCHANGED <<kernelVars, stop, subscribers, owner, buf, snapshot, todo,
                   cur, pos, dead, queueVars, received, subVars, read,
                   histVars>>

\* sub.dropped.fetch_add(1), a step after the queue refused the frame.
CountDropped ==
    /\ pc = "full"
    /\ dropped' = [dropped EXCEPT ![cur] = @ + 1]
    /\ NextFrame
    /\ UNCHANGED <<kernelVars, stop, subscribers, owner, buf, snapshot, todo,
                   dead, queueVars, received, subVars, read, histVars>>

\* MUTANT: the disconnected subscribers are never culled.
EndFanoutForgetsDead ==
    /\ pc = "pick"
    /\ todo = {}
    /\ snapshot' = {}
    /\ buf' = <<>>
    /\ pc' = "check"
    /\ UNCHANGED <<kernelVars, stop, subscribers, owner, todo, cur, pos, dead,
                   queueVars, statVars, subVars, read, histVars>>

\* MUTANT: the snapshot, less the dead, is written back as the list.
EndFanoutWritesBack ==
    /\ pc = "pick"
    /\ todo = {}
    /\ snapshot' = {}
    /\ subscribers' = {s \in snapshot : addr[s] \notin dead}
    /\ buf' = <<>>
    /\ pc' = "check"
    /\ UNCHANGED <<kernelVars, stop, owner, todo, cur, pos, dead, queueVars,
                   statVars, subVars, read, histVars>>

\* The loop is over: drop(snapshot), then cull if anything was found dead.
EndFanout ==
    /\ pc = "pick"
    /\ todo = {}
    /\ snapshot' = {}
    /\ buf' = <<>>
    /\ pc' = IF dead = {} THEN "check" ELSE "cull"
    /\ UNCHANGED <<kernelVars, stop, subscribers, owner, todo, cur, pos, dead,
                   queueVars, statVars, subVars, read, histVars>>

\* subs.retain(..) under the lock.  Entries are told apart by address alone.
Cull ==
    /\ pc = "cull"
    /\ subscribers' = {s \in subscribers : addr[s] \notin dead}
    /\ dead' = {}
    /\ pc' = "check"
    /\ UNCHANGED <<kernelVars, stop, owner, buf, snapshot, todo, cur, pos,
                   queueVars, statVars, subVars, read, histVars>>

-----------------------------------------------------------------------------
(* The owner of the Reader.                                                *)

\* subscribe() and subscribe_bounded(c): a fresh allocation, pushed under the
\* lock.  A batch already read but not yet snapshotted will be offered to it.
Subscribe(s, c, a) ==
    /\ owner = "running"
    /\ life[s] = "none"
    /\ \A t \in Subs : Alive(t) => addr[t] # a
    /\ life' = [life EXCEPT ![s] = "held"]
    /\ addr' = [addr EXCEPT ![s] = a]
    /\ cap' = [cap EXCEPT ![s] = c]
    /\ subscribers' = subscribers \cup {s}
    /\ base' = [base EXCEPT ![s] =
                  IF pc = "snap" THEN Len(read) - Len(buf) ELSE Len(read)]
    /\ since' = [since EXCEPT ![s] = arrived]
    /\ UNCHANGED <<kernelVars, stop, owner, threadVars, queueVars, statVars,
                   read, left>>

\* shutdown(self) and Drop: raise the flag and wait for the thread ...
Shutdown ==
    /\ owner = "running"
    /\ stop' = TRUE
    /\ owner' = "joining"
    /\ UNCHANGED <<kernelVars, subscribers, threadVars, queueVars, statVars,
                   subVars, read, histVars>>

\* ... which frees the list once the thread has ended.
Join ==
    /\ owner = "joining"
    /\ pc = "done"
    /\ owner' = "joined"
    /\ UNCHANGED <<kernelVars, stop, subscribers, threadVars, queueVars,
                   statVars, subVars, read, histVars>>

-----------------------------------------------------------------------------
(* The user of a Subscriber.                                               *)

\* recv() or recv_timeout() is called and blocks until a case below applies.
BeginRecv(s, kind) ==
    /\ life[s] = "held"
    /\ consumer[s] = "idle"
    /\ consumer' = [consumer EXCEPT ![s] = kind]
    /\ UNCHANGED <<kernelVars, stop, subscribers, owner, threadVars, got,
                   taken, statVars, subVars, read, histVars>>

\* It returns: a queued frame or, when no sender is left, None.
RecvReturn(s) ==
    /\ consumer[s] # "idle"
    /\ Pending(s) > 0 \/ ~Alive(s)
    /\ taken' = IF Pending(s) > 0 THEN [taken EXCEPT ![s] = @ + 1] ELSE taken
    /\ consumer' = [consumer EXCEPT ![s] = "idle"]
    /\ UNCHANGED <<kernelVars, stop, subscribers, owner, threadVars, got,
                   statVars, subVars, read, histVars>>

\* recv_timeout() gives up.
RecvTimesOut(s) ==
    /\ consumer[s] = "recv_timeout"
    /\ consumer' = [consumer EXCEPT ![s] = "idle"]
    /\ UNCHANGED <<kernelVars, stop, subscribers, owner, threadVars, got,
                   taken, statVars, subVars, read, histVars>>

\* try_recv() finds a frame (finding none changes nothing).
TryRecv(s) ==
    /\ life[s] = "held"
    /\ consumer[s] = "idle"
    /\ Pending(s) > 0
    /\ taken' = [taken EXCEPT ![s] = @ + 1]
    /\ UNCHANGED <<kernelVars, stop, subscribers, owner, threadVars, got,
                   consumer, statVars, subVars, read, histVars>>

\* MUTANT: the drop takes the subscription off the list itself.
DropSubscriberUnlists(s) ==
    /\ life[s] = "held"
    /\ consumer[s] = "idle"
    /\ life' = [life EXCEPT ![s] = "dropped"]
    /\ left' = [left EXCEPT ![s] = Len(read)]
    /\ subscribers' = subscribers \ {s}
    /\ UNCHANGED <<kernelVars, stop, owner, threadVars, queueVars, statVars,
                   addr, cap, read, base, since>>

\* The Subscriber is dropped: its receiver disconnects, its Arc is released.
DropSubscriber(s) ==
    /\ life[s] = "held"
    /\ consumer[s] = "idle"
    /\ life' = [life EXCEPT ![s] = "dropped"]
    /\ left' = [left EXCEPT ![s] = Len(read)]
    /\ UNCHANGED <<kernelVars, stop, subscribers, owner, threadVars, queueVars,
                   statVars, addr, cap, read, base, since>>

-----------------------------------------------------------------------------
ReaderStep ==
    \/ CheckStop
    \/ RecvBatch
    \/ RecvNothing
    \/ RecvError
    \/ Wake
    \/ Snapshot
    \/ PickSub
    \/ TrySendOk
    \/ TrySendFull
    \/ TrySendDisconnected
    \/ CountReceived
    \/ CountDropped
    \/ EndFanout
    \/ Cull

OwnerStep ==
    \/ \E s \in Subs, c \in Capacities, a \in Addrs : Subscribe(s, c, a)
    \/ Shutdown
    \/ Join

UserStep(s) ==
    \/ \E kind \in {"recv", "recv_timeout"} : BeginRecv(s, kind)
    \/ RecvReturn(s)
    \/ RecvTimesOut(s)
    \/ TryRecv(s)
    \/ DropSubscriber(s)

Next ==
    \/ Arrive
    \/ ReaderStep
    \/ OwnerStep
    \/ \E s \in Subs : UserStep(s)

Spec == Init /\ [][Next]_vars

(***************************************************************************)
(* Fairness.  The thread keeps running and recv_batch returns within the   *)
(* socket's receive timeout (WF of ReaderStep).  While frames are queued   *)
(* recv_batch does not for ever answer with an error, an interruption or a *)
(* batch of nothing but remote and error frames (SF of RecvBatch).  A join *)
(* whose thread has ended returns, and so does a blocked receive that has  *)
(* a frame to return.  Users owe nothing: they may never receive.          *)
(***************************************************************************)
Fairness ==
    /\ WF_vars(ReaderStep)
    /\ SF_vars(RecvBatch)
    /\ WF_vars(Join)
    /\ \A s \in Subs : WF_vars(RecvReturn(s))

FairSpec == Spec /\ Fairness

-----------------------------------------------------------------------------
(* Properties.                                                             *)

PCs == {"check", "recv", "sleep", "snap", "pick", "send", "sent", "full",
        "cull", "done"}

KernelType ==
    /\ arrived \in 0..MaxFrames
    /\ rxq \in Seq(1..MaxFrames)

ListType ==
    /\ stop \in BOOLEAN
    /\ subscribers \subseteq Subs
    /\ owner \in {"running", "joining", "joined"}

ThreadType ==
    /\ pc \in PCs
    /\ buf \in Seq(1..MaxFrames)
    /\ snapshot \subseteq Subs
    /\ todo \subseteq snapshot
    /\ cur \in Subs \cup {NoSub}
    /\ pos \in 0..Len(buf)
    /\ dead \subseteq Addrs

SubType ==
    /\ life \in [Subs -> {"none", "held", "dropped"}]
    /\ addr \in [Subs -> Addrs \cup {NoAddr}]
    /\ \A s \in Subs : addr[s] = NoAddr <=> life[s] = "none"
    /\ cap \in [Subs -> Nat \cup {Unbounded}]

QueueType ==
    /\ got \in [Subs -> Seq(1..MaxFrames)]
    /\ taken \in [Subs -> Nat]
    /\ \A s \in Subs : taken[s] <= Len(got[s])
    /\ consumer \in [Subs -> {"idle", "recv", "recv_timeout"}]

StatType ==
    /\ received \in [Subs -> Nat]
    /\ dropped \in [Subs -> Nat]

HistType ==
    /\ read \in Seq(1..MaxFrames)
    /\ base \in [Subs -> Nat]
    /\ since \in [Subs -> Nat]
    /\ left \in [Subs -> Nat]

\* Every variable is in its type; no user consumes a frame it was not given.
TypeOK ==
    /\ KernelType
    /\ ListType
    /\ ThreadType
    /\ SubType
    /\ QueueType
    /\ StatType
    /\ HistType

\* The thread is between two batches: everything it read has been fanned out.
AtRest == pc \in {"check", "recv", "sleep", "done"}

\* A subscription its user still holds is on the list until the Reader is
\* gone, whatever the thread culls meanwhile by raw address and whichever
\* addresses the allocator hands out again.
LiveStaysListed ==
    \A s \in Subs : life[s] = "held" /\ owner # "joined" => s \in subscribers

\* "Each sees every frame from the time it was created": between batches an
\* unbounded queue has been given, without gap, repetition or reordering,
\* every frame read since its first one, and a frame read before that one
\* had arrived before the subscription was made.
SeesEveryFrameSinceCreation ==
    \A s \in Subs :
        life[s] = "held" /\ cap[s] = Unbounded /\ AtRest =>
            /\ got[s] = SubSeq(read, base[s] + 1, Len(read))
            /\ \A i \in 1..base[s] : read[i] <= since[s]

\* Between batches the two counters of a subscription account for each frame
\* offered to it: received counts what its queue took, dropped the rest.
CountersAccountForEveryFrame ==
    \A s \in Subs :
        life[s] = "held" /\ AtRest =>
            /\ received[s] = Len(got[s])
            /\ received[s] + dropped[s] = Len(read) - base[s]

\* A dropped subscription stays on the list only until a batch has been read
\* after the drop: the fan-out of that batch finds it and culls it.
DroppedIsCulledByNextBatch ==
    \A s \in Subs :
        life[s] = "dropped" /\ s \in subscribers /\ AtRest =>
            left[s] = Len(read)

\* shutdown() and the drop of a Reader return.
ShutdownCompletes == owner = "joining" ~> owner = "joined"

\* Whatever the other subscribers do or fail to do, a frame the socket holds
\* reaches an unbounded subscription, unless its user or the owner ends it.
FrameReachesSubscriber ==
    \A s \in Subs, f \in 1..MaxFrames :
        (/\ \E i \in 1..Len(rxq) : rxq[i] = f
         /\ life[s] = "held"
         /\ cap[s] = Unbounded)
        ~>
        (\/ \E i \in 1..Len(got[s]) : got[s][i] = f
         \/ life[s] = "dropped"
         \/ owner # "running")

\* Documented of Subscriber::recv: a receive that blocks returns once the
\* reader has shut down and the queue is drained.
RecvReturnsAfterShutdown ==
    \A s \in Subs :
        owner = "joined" /\ consumer[s] = "recv" ~> consumer[s] # "recv"
=============================================================================
