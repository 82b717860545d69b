---------------------------- MODULE FanoutProofs ----------------------------
(***************************************************************************)
(* What holds of the fan-out reader for every number of subscriptions,     *)
(* addresses and frames, every capacity and every batch size: its types,   *)
(* the list of subscribers, the account of every frame, and that it        *)
(* implements the safety part of Broadcast.                                *)
(***************************************************************************)
EXTENDS FanoutRefinement, SequenceTheorems, TLAPS

-----------------------------------------------------------------------------
(* Facts about sequences.                                                  *)

\* A part of a sequence is a sequence of the same elements.
LEMMA PartType ==
    ASSUME NEW S, NEW q \in Seq(S), NEW i \in 1..Len(q) + 1,
           NEW j \in i - 1..Len(q)
    PROVE  /\ SubSeq(q, i, j) \in Seq(S)
           /\ Len(SubSeq(q, i, j)) = j - i + 1
           /\ \A k \in 1..j - i + 1 : SubSeq(q, i, j)[k] = q[i + k - 1]
<1>1. i - 1 <= j
  OBVIOUS
<1>2. CASE j < i
  <2>1. SubSeq(q, i, j) = << >> /\ j - i + 1 = 0
    BY <1>2, <1>1, SubSeqProperties
  <2> QED BY <2>1
<1>3. CASE i <= j
  <2>1. i \in 1..Len(q) /\ j \in i..Len(q)
    BY <1>3
  <2> QED BY <2>1, SubSeqProperties
<1> QED BY <1>2, <1>3

\* What is left of a sequence when its first n elements are taken.
LEMMA RestType ==
    ASSUME NEW S, NEW q \in Seq(S), NEW n \in 1..Len(q)
    PROVE  SubSeq(q, n + 1, Len(q)) \in Seq(S)
<1>1. n + 1 \in 1..Len(q) + 1 /\ Len(q) \in n + 1 - 1..Len(q)
  BY LenProperties
<1> QED BY <1>1, PartType

-----------------------------------------------------------------------------
(* Type correctness.                                                       *)

\* Where the thread's locals are meaningful: a batch is there from the read to
\* the end of the fan-out, a subscriber and an index while one is served.
Shape ==
    /\ pc \in {"snap", "pick", "send", "sent", "full"} => buf # <<>>
    /\ IF pc \in {"send", "sent", "full"}
       THEN cur \in snapshot /\ pos # 0
       ELSE pos = 0
    /\ Len(buf) <= Len(read)
    /\ \A s \in subscribers \cup snapshot : life[s] # "none"
    /\ \A s \in Subs : consumer[s] # "idle" => life[s] = "held"

TypeInv == TypeOK /\ Shape

\* The clamped batch size is a number.
LEMMA ActiveType == Active \in Nat
BY BoundsAssumption DEF Active, Min2, Max2

\* A part of the type invariant can only be disturbed by a change of its own
\* variables.
LEMMA TypeFrame ==
    ASSUME TypeInv
    PROVE  /\ UNCHANGED kernelVars => KernelType'
           /\ UNCHANGED <<stop, subscribers, owner>> => ListType'
           /\ UNCHANGED threadVars => ThreadType'
           /\ UNCHANGED subVars => SubType'
           /\ UNCHANGED queueVars => QueueType'
           /\ UNCHANGED statVars => StatType'
           /\ UNCHANGED <<read, histVars>> => HistType'
<1>1. UNCHANGED kernelVars => KernelType'
  BY DEF TypeInv, TypeOK, KernelType, kernelVars
<1>2. UNCHANGED <<stop, subscribers, owner>> => ListType'
  BY DEF TypeInv, TypeOK, ListType
<1>3. UNCHANGED threadVars => ThreadType'
  BY DEF TypeInv, TypeOK, ThreadType, threadVars
<1>4. UNCHANGED subVars => SubType'
  BY DEF TypeInv, TypeOK, SubType, subVars
<1>5. UNCHANGED queueVars => QueueType'
  BY DEF TypeInv, TypeOK, QueueType, queueVars
<1>6. UNCHANGED statVars => StatType'
  BY DEF TypeInv, TypeOK, StatType, statVars
<1>7. UNCHANGED <<read, histVars>> => HistType'
  BY DEF TypeInv, TypeOK, HistType, histVars
<1> QED BY <1>1, <1>2, <1>3, <1>4, <1>5, <1>6, <1>7

\* The initial state is of the right types and shape.
LEMMA TypeInit == Init => TypeInv
<1> SUFFICES ASSUME Init PROVE TypeInv
  OBVIOUS
<1> USE DEF Init
<1>1. KernelType BY BoundsAssumption DEF KernelType
<1>2. ListType BY DEF ListType
<1>3. ThreadType BY DEF ThreadType, PCs
<1>4. SubType BY DEF SubType
<1>5. QueueType BY DEF QueueType
<1>6. StatType BY DEF StatType
<1>7. HistType BY DEF HistType
<1>8. Shape BY DEF Shape
<1> QED BY <1>1, <1>2, <1>3, <1>4, <1>5, <1>6, <1>7, <1>8 DEF TypeInv, TypeOK

\* Every step keeps them; only the clauses an action disturbs are proved anew.
LEMMA TypeNext == TypeInv /\ [Next]_vars => TypeInv'
<1> SUFFICES ASSUME TypeInv, [Next]_vars PROVE TypeInv'
  OBVIOUS
<1>k. KernelType BY DEF TypeInv, TypeOK
<1>l. ListType BY DEF TypeInv, TypeOK
<1>t. ThreadType BY DEF TypeInv, TypeOK
<1>s. SubType BY DEF TypeInv, TypeOK
<1>q. QueueType BY DEF TypeInv, TypeOK
<1>c. StatType BY DEF TypeInv, TypeOK
<1>h. HistType BY DEF TypeInv, TypeOK
<1>p. Shape BY DEF TypeInv
<1>1. CASE Arrive
  <2>1. KernelType'
    <3>1. arrived + 1 \in 1..MaxFrames /\ arrived + 1 \in 0..MaxFrames
      BY <1>1, <1>k, BoundsAssumption DEF KernelType, Arrive
    <3>2. Append(rxq, arrived + 1) \in Seq(1..MaxFrames)
      BY <3>1, <1>k, AppendProperties DEF KernelType
    <3> QED BY <1>1, <1>k, <3>1, <3>2 DEF KernelType, Arrive
  <2>2. Shape'
    BY <1>1, <1>p, <1>t, <1>s, <1>l, <1>q
    DEF Shape, Arrive, ThreadType, SubType, ListType, threadVars, queueVars,
        subVars, QueueType
  <2> QED
    BY <1>1, <2>1, <2>2, TypeFrame
    DEF Arrive, TypeInv, TypeOK, kernelVars, threadVars, queueVars, statVars,
        subVars, histVars
<1>2. CASE CheckStop
  <2>1. ThreadType'
    BY <1>2, <1>t DEF ThreadType, CheckStop, PCs
  <2>2. Shape'
    BY <1>2, <1>p, <1>t, <1>s, <1>l, <1>q
    DEF Shape, CheckStop, ThreadType, SubType, ListType, threadVars, queueVars,
        subVars, QueueType
  <2> QED
    BY <1>2, <2>1, <2>2, TypeFrame
    DEF CheckStop, TypeInv, TypeOK, kernelVars, threadVars, queueVars,
        statVars, subVars, histVars
<1>3. CASE RecvBatch
  <2>1. PICK n \in 1..Min2(Active, Len(rxq)) :
            buf' = SubSeq(rxq, 1, n) /\ rxq' = SubSeq(rxq, n + 1, Len(rxq))
    BY <1>3 DEF RecvBatch
  <2>2. n \in 1..Len(rxq) /\ rxq \in Seq(1..MaxFrames)
    BY <1>k, <2>1, ActiveType DEF Min2, KernelType
  <2>a. /\ 1 \in 1..Len(rxq) + 1 /\ n \in 1 - 1..Len(rxq)
        /\ n + 1 \in 1..Len(rxq) + 1 /\ Len(rxq) \in n + 1 - 1..Len(rxq)
    BY <2>2, LenProperties
  <2>3. buf' \in Seq(1..MaxFrames) /\ Len(buf') = n
    <3>1. /\ Len(SubSeq(rxq, 1, n)) = n - 1 + 1
          /\ SubSeq(rxq, 1, n) \in Seq(1..MaxFrames)
      BY <2>a, <2>2, PartType
    <3> QED BY <3>1, <2>1, <2>2
  <2>4. rxq' \in Seq(1..MaxFrames)
    <3>1. SubSeq(rxq, n + 1, Len(rxq)) \in Seq(1..MaxFrames)
      BY <2>2, RestType
    <3> QED BY <3>1, <2>1
  <2>b. read' \in Seq(1..MaxFrames) /\ Len(read') = Len(read) + n
    BY <1>3, <1>h, <2>3, ConcatProperties DEF RecvBatch, HistType
  <2>5. KernelType'
    BY <1>3, <1>k, <2>4 DEF RecvBatch, KernelType
  <2>6. ThreadType'
    BY <1>3, <1>t, <1>p, <2>3, <2>2 DEF RecvBatch, ThreadType, PCs, Shape
  <2>7. HistType'
    BY <1>3, <1>h, <2>b DEF RecvBatch, HistType, histVars
  <2>8. Shape'
    <3>1. Len(read) \in Nat /\ n \in Nat /\ n # 0
      BY <1>h, <2>2, LenProperties DEF HistType
    <3>2. buf' # <<>> /\ Len(buf') <= Len(read')
      BY <3>1, <2>3, <2>b
    <3> QED
      BY <1>3, <1>p, <3>2 DEF RecvBatch, Shape, subVars, queueVars
  <2> QED
    BY <1>3, <2>5, <2>6, <2>7, <2>8, TypeFrame
    DEF RecvBatch, TypeInv, TypeOK, queueVars, statVars, subVars
<1>4. CASE RecvNothing
  <2>1. ThreadType'
    BY <1>4, <1>t DEF ThreadType, RecvNothing, PCs
  <2>2. Shape'
    BY <1>4, <1>p, <1>t, <1>s, <1>l, <1>q
    DEF Shape, RecvNothing, ThreadType, SubType, ListType, threadVars,
        queueVars, subVars, QueueType
  <2> QED
    BY <1>4, <2>1, <2>2, TypeFrame
    DEF RecvNothing, TypeInv, TypeOK, kernelVars, threadVars, queueVars,
        statVars, subVars, histVars
<1>5. CASE RecvError
  <2>1. ThreadType'
    BY <1>5, <1>t DEF ThreadType, RecvError, PCs
  <2>2. Shape'
    BY <1>5, <1>p, <1>t, <1>s, <1>l, <1>q
    DEF Shape, RecvError, ThreadType, SubType, ListType, threadVars, queueVars,
        subVars, QueueType
  <2> QED
    BY <1>5, <2>1, <2>2, TypeFrame
    DEF RecvError, TypeInv, TypeOK, kernelVars, threadVars, queueVars,
        statVars, subVars, histVars
<1>6. CASE Wake
  <2>1. ThreadType'
    BY <1>6, <1>t DEF ThreadType, Wake, PCs
  <2>2. Shape'
    BY <1>6, <1>p, <1>t, <1>s, <1>l, <1>q
    DEF Shape, Wake, ThreadType, SubType, ListType, threadVars, queueVars,
        subVars, QueueType
  <2> QED
    BY <1>6, <2>1, <2>2, TypeFrame
    DEF Wake, TypeInv, TypeOK, kernelVars, threadVars, queueVars, statVars,
        subVars, histVars
<1>7. CASE Snapshot
  <2>1. ThreadType'
    BY <1>7, <1>t, <1>l DEF ThreadType, Snapshot, ListType, PCs
  <2>2. Shape'
    BY <1>7, <1>p, <1>t, <1>s, <1>l, <1>q
    DEF Shape, Snapshot, ThreadType, SubType, ListType, threadVars, queueVars,
        subVars, QueueType
  <2> QED
    BY <1>7, <2>1, <2>2, TypeFrame
    DEF Snapshot, TypeInv, TypeOK, kernelVars, threadVars, queueVars, statVars,
        subVars, histVars
<1>8. CASE PickSub
  <2>1. ThreadType'
    BY <1>8, <1>t, <1>p DEF ThreadType, PickSub, Shape, PCs
  <2>2. Shape'
    BY <1>8, <1>p, <1>t, <1>s, <1>l, <1>q
    DEF Shape, PickSub, ThreadType, SubType, ListType, threadVars, queueVars,
        subVars, QueueType
  <2> QED
    BY <1>8, <2>1, <2>2, TypeFrame
    DEF PickSub, TypeInv, TypeOK, kernelVars, threadVars, queueVars, statVars,
        subVars, histVars
<1>9. CASE TrySendOk
  <2>1. ThreadType'
    BY <1>9, <1>t DEF ThreadType, TrySendOk, PCs
  <2>2. QueueType'
    <3>0. cur \in Subs /\ buf \in Seq(1..MaxFrames) /\ pos \in 1..Len(buf)
      BY <1>9, <1>p, <1>t, LenProperties DEF Shape, ThreadType, TrySendOk
    <3>1. cur \in Subs /\ buf[pos] \in 1..MaxFrames
      BY <3>0, ElementOfSeq
    <3>2. /\ got' \in [Subs -> Seq(1..MaxFrames)]
          /\ \A s \in Subs : Len(got'[s]) >= Len(got[s])
          /\ Len(got'[cur]) = Len(got[cur]) + 1
      BY <1>9, <1>q, <3>1, AppendProperties, LenProperties
      DEF TrySendOk, QueueType
    <3>3. CASE cap[cur] = 0
      <4>1. /\ taken' = [taken EXCEPT ![cur] = @ + 1]
            /\ consumer' = [consumer EXCEPT ![cur] = "idle"]
        BY <1>9, <3>3 DEF TrySendOk
      <4>2. /\ \A s \in Subs : Len(got[s]) \in Nat /\ Len(got'[s]) \in Nat
            /\ taken[cur] <= Len(got[cur]) /\ taken \in [Subs -> Nat]
        BY <1>q, <3>1, <3>2, LenProperties DEF QueueType
      <4>3. \A s \in Subs : taken'[s] <= Len(got'[s])
        BY <4>1, <4>2, <3>1, <3>2, <1>q DEF QueueType
      <4>4. taken' \in [Subs -> Nat]
        BY <4>1, <4>2, <3>1
      <4>5. consumer' \in [Subs -> {"idle", "recv", "recv_timeout"}]
        BY <4>1, <1>q, <3>1 DEF QueueType
      <4> QED BY <3>2, <4>3, <4>4, <4>5 DEF QueueType
    <3>4. CASE cap[cur] # 0
      BY <1>9, <1>q, <3>1, <3>2, <3>4, LenProperties DEF TrySendOk, QueueType
    <3> QED BY <3>3, <3>4
  <2>3. Shape'
    BY <1>9, <1>p, <1>t, <1>s, <1>l, <1>q
    DEF Shape, TrySendOk, ThreadType, SubType, ListType, threadVars, queueVars,
        subVars, QueueType
  <2> QED
    BY <1>9, <2>1, <2>2, <2>3, TypeFrame
    DEF TrySendOk, TypeInv, TypeOK, kernelVars, threadVars, queueVars,
        statVars, subVars, histVars
<1>10. CASE TrySendFull
  <2>1. ThreadType'
    BY <1>10, <1>t DEF ThreadType, TrySendFull, PCs
  <2>2. Shape'
    BY <1>10, <1>p, <1>t, <1>s, <1>l, <1>q
    DEF Shape, TrySendFull, ThreadType, SubType, ListType, threadVars,
        queueVars, subVars, QueueType
  <2> QED
    BY <1>10, <2>1, <2>2, TypeFrame
    DEF TrySendFull, TypeInv, TypeOK, kernelVars, threadVars, queueVars,
        statVars, subVars, histVars
<1>11. CASE TrySendDisconnected
  <2>1. ThreadType'
    BY <1>11, <1>t, <1>p, <1>s
    DEF ThreadType, TrySendDisconnected, Shape, SubType, PCs
  <2>2. Shape'
    BY <1>11, <1>p, <1>t, <1>s, <1>l, <1>q
    DEF Shape, TrySendDisconnected, ThreadType, SubType, ListType, threadVars,
        queueVars, subVars, QueueType
  <2> QED
    BY <1>11, <2>1, <2>2, TypeFrame
    DEF TrySendDisconnected, TypeInv, TypeOK, kernelVars, threadVars,
        queueVars, statVars, subVars, histVars
<1>12. CASE CountReceived
  <2>1. ThreadType'
    BY <1>12, <1>t, <1>p DEF ThreadType, CountReceived, NextFrame, Shape, PCs
  <2>2. StatType'
    BY <1>12, <1>c, <1>p, <1>t
    DEF StatType, CountReceived, Shape, ThreadType, statVars
  <2>3. Shape'
    BY <1>12, <1>p, <1>t, <1>s, <1>l, <1>q
    DEF Shape, CountReceived, ThreadType, SubType, ListType, threadVars,
        queueVars, subVars, NextFrame, QueueType
  <2> QED
    BY <1>12, <2>1, <2>2, <2>3, TypeFrame
    DEF CountReceived, TypeInv, TypeOK, kernelVars, threadVars, queueVars,
        statVars, subVars, histVars
<1>13. CASE CountDropped
  <2>1. ThreadType'
    BY <1>13, <1>t, <1>p DEF ThreadType, CountDropped, NextFrame, Shape, PCs
  <2>2. StatType'
    BY <1>13, <1>c, <1>p, <1>t
    DEF StatType, CountDropped, Shape, ThreadType, statVars
  <2>3. Shape'
    BY <1>13, <1>p, <1>t, <1>s, <1>l, <1>q
    DEF Shape, CountDropped, ThreadType, SubType, ListType, threadVars,
        queueVars, subVars, NextFrame, QueueType
  <2> QED
    BY <1>13, <2>1, <2>2, <2>3, TypeFrame
    DEF CountDropped, TypeInv, TypeOK, kernelVars, threadVars, queueVars,
        statVars, subVars, histVars
<1>14. CASE EndFanout
  <2>1. ThreadType'
    BY <1>14, <1>t, <1>p DEF ThreadType, EndFanout, Shape, PCs
  <2>2. Shape'
    BY <1>14, <1>p, <1>t, <1>s, <1>l, <1>q
    DEF Shape, EndFanout, ThreadType, SubType, ListType, threadVars, queueVars,
        subVars, QueueType
  <2> QED
    BY <1>14, <2>1, <2>2, TypeFrame
    DEF EndFanout, TypeInv, TypeOK, kernelVars, threadVars, queueVars,
        statVars, subVars, histVars
<1>15. CASE Cull
  <2>1. ListType'
    BY <1>15, <1>l DEF ListType, Cull
  <2>2. ThreadType'
    BY <1>15, <1>t DEF ThreadType, Cull, PCs
  <2>3. Shape'
    BY <1>15, <1>p, <1>t, <1>s, <1>l, <1>q
    DEF Shape, Cull, ThreadType, SubType, ListType, threadVars, queueVars,
        subVars, QueueType
  <2> QED
    BY <1>15, <2>1, <2>2, <2>3, TypeFrame
    DEF Cull, TypeInv, TypeOK, kernelVars, threadVars, queueVars, statVars,
        subVars, histVars
<1>16. ASSUME NEW s \in Subs, NEW c \in Capacities, NEW a \in Addrs,
              Subscribe(s, c, a)
       PROVE  TypeInv'
  <2>1. ListType'
    BY <1>16, <1>l DEF ListType, Subscribe
  <2>2. SubType'
    BY <1>16, <1>s, CapacitiesAssumption, AddrsAssumption
    DEF SubType, Subscribe, subVars
  <2>3. HistType'
    BY <1>16, <1>h, <1>t, <1>k, <1>p, LenProperties
    DEF HistType, Subscribe, Shape, threadVars, ThreadType, KernelType, histVars
  <2>4. Shape'
    BY <1>16, <1>p, <1>t, <1>s, <1>l, <1>q
    DEF Shape, Subscribe, ThreadType, SubType, ListType, threadVars, queueVars,
        subVars, QueueType
  <2> QED
    BY <1>16, <2>1, <2>2, <2>3, <2>4, TypeFrame
    DEF Subscribe, TypeInv, TypeOK, kernelVars, threadVars, queueVars,
        statVars, subVars, histVars
<1>17. CASE Shutdown
  <2>1. ListType'
    BY <1>17, <1>l DEF ListType, Shutdown
  <2>2. Shape'
    BY <1>17, <1>p, <1>t, <1>s, <1>l, <1>q
    DEF Shape, Shutdown, ThreadType, SubType, ListType, threadVars, queueVars,
        subVars, QueueType
  <2> QED
    BY <1>17, <2>1, <2>2, TypeFrame
    DEF Shutdown, TypeInv, TypeOK, kernelVars, threadVars, queueVars, statVars,
        subVars, histVars
<1>18. CASE Join
  <2>1. ListType'
    BY <1>18, <1>l DEF ListType, Join
  <2>2. Shape'
    BY <1>18, <1>p, <1>t, <1>s, <1>l, <1>q
    DEF Shape, Join, ThreadType, SubType, ListType, threadVars, queueVars,
        subVars, QueueType
  <2> QED
    BY <1>18, <2>1, <2>2, TypeFrame
    DEF Join, TypeInv, TypeOK, kernelVars, threadVars, queueVars, statVars,
        subVars, histVars
<1>19. ASSUME NEW s \in Subs, NEW kind \in {"recv", "recv_timeout"},
              BeginRecv(s, kind)
       PROVE  TypeInv'
  <2>1. QueueType'
    BY <1>19, <1>q DEF QueueType, BeginRecv, queueVars
  <2>2. Shape'
    BY <1>19, <1>p, <1>t, <1>s, <1>l, <1>q
    DEF Shape, BeginRecv, ThreadType, SubType, ListType, threadVars, queueVars,
        subVars, QueueType
  <2> QED
    BY <1>19, <2>1, <2>2, TypeFrame
    DEF BeginRecv, TypeInv, TypeOK, kernelVars, threadVars, queueVars,
        statVars, subVars, histVars
<1>20. ASSUME NEW s \in Subs, RecvReturn(s)
       PROVE  TypeInv'
  <2>1. QueueType'
    BY <1>20, <1>q DEF QueueType, RecvReturn, Pending, queueVars
  <2>2. Shape'
    BY <1>20, <1>p, <1>t, <1>s, <1>l, <1>q
    DEF Shape, RecvReturn, ThreadType, SubType, ListType, threadVars,
        queueVars, subVars, QueueType
  <2> QED
    BY <1>20, <2>1, <2>2, TypeFrame
    DEF RecvReturn, TypeInv, TypeOK, kernelVars, threadVars, queueVars,
        statVars, subVars, histVars
<1>21. ASSUME NEW s \in Subs, RecvTimesOut(s)
       PROVE  TypeInv'
  <2>1. QueueType'
    BY <1>21, <1>q DEF QueueType, RecvTimesOut, queueVars
  <2>2. Shape'
    BY <1>21, <1>p, <1>t, <1>s, <1>l, <1>q
    DEF Shape, RecvTimesOut, ThreadType, SubType, ListType, threadVars,
        queueVars, subVars, QueueType
  <2> QED
    BY <1>21, <2>1, <2>2, TypeFrame
    DEF RecvTimesOut, TypeInv, TypeOK, kernelVars, threadVars, queueVars,
        statVars, subVars, histVars
<1>22. ASSUME NEW s \in Subs, TryRecv(s)
       PROVE  TypeInv'
  <2>1. QueueType'
    BY <1>22, <1>q DEF QueueType, TryRecv, Pending, queueVars
  <2>2. Shape'
    BY <1>22, <1>p, <1>t, <1>s, <1>l, <1>q
    DEF Shape, TryRecv, ThreadType, SubType, ListType, threadVars, queueVars,
        subVars, QueueType
  <2> QED
    BY <1>22, <2>1, <2>2, TypeFrame
    DEF TryRecv, TypeInv, TypeOK, kernelVars, threadVars, queueVars, statVars,
        subVars, histVars
<1>23. ASSUME NEW s \in Subs, DropSubscriber(s)
       PROVE  TypeInv'
  <2>1. SubType'
    BY <1>23, <1>s, AddrsAssumption DEF SubType, DropSubscriber, subVars
  <2>2. HistType'
    BY <1>23, <1>h DEF HistType, DropSubscriber, histVars
  <2>3. Shape'
    BY <1>23, <1>p, <1>t, <1>s, <1>l, <1>q
    DEF Shape, DropSubscriber, ThreadType, SubType, ListType, threadVars,
        queueVars, subVars, QueueType
  <2> QED
    BY <1>23, <2>1, <2>2, <2>3, TypeFrame
    DEF DropSubscriber, TypeInv, TypeOK, kernelVars, threadVars, queueVars,
        statVars, subVars, histVars
<1>24. CASE UNCHANGED vars
  <2>1. Shape'
    BY <1>24, <1>p DEF Shape, vars, threadVars, queueVars, subVars
  <2> QED
    BY <1>24, <2>1, TypeFrame DEF vars, TypeInv, TypeOK
<1> QED
  BY <1>1, <1>2, <1>3, <1>4, <1>5, <1>6, <1>7, <1>8, <1>9, <1>10, <1>11, <1>12,
     <1>13, <1>14, <1>15, <1>16, <1>17, <1>18, <1>19, <1>20, <1>21, <1>22,
     <1>23, <1>24
     DEF Next, ReaderStep, OwnerStep, UserStep

\* Every variable stays in its type, for every constant the code admits.
THEOREM TypeCorrect == Spec => []TypeOK
<1>1. TypeInv => TypeOK
  BY DEF TypeInv
<1> QED BY TypeInit, TypeNext, <1>1, PTL DEF Spec

-----------------------------------------------------------------------------
(* The list of subscribers.                                                *)

Fanout == {"pick", "send", "sent", "full"}

\* Two allocations that are both alive have different addresses.
AddressesDistinct ==
    \A s, t \in Subs : Alive(s) /\ Alive(t) /\ addr[s] = addr[t] => s = t

\* Why culling by address is safe: an address found disconnected belongs to a
\* dropped subscription that is still on the list, and the list keeps its
\* memory from being handed out again until the cull.
DeadAreListed ==
    \A a \in dead : \E s \in subscribers : life[s] = "dropped" /\ addr[s] = a

\* Only the thread removes from the list, and not while it holds a snapshot.
SnapshotListed ==
    /\ snapshot \subseteq subscribers
    /\ pc \notin Fanout => snapshot = {}
    /\ owner = "joined" => pc = "done"

ListInv ==
    /\ LiveStaysListed
    /\ AddressesDistinct
    /\ DeadAreListed
    /\ SnapshotListed

\* The list invariant holds while no subscription has been made.
LEMMA ListInit == Init => ListInv
BY DEF Init, ListInv, LiveStaysListed, AddressesDistinct, DeadAreListed,
       SnapshotListed, Alive, Fanout

\* Steps that touch neither the list nor the snapshot, the life or the address
\* of a subscription, and leave the fan-out where it is.
LEMMA ListFrame ==
    ASSUME ListInv,
           UNCHANGED <<subscribers, snapshot, dead, life, addr, owner>>,
           pc' # pc => pc # "done" /\ (pc \in Fanout <=> pc' \in Fanout)
    PROVE  ListInv'
BY DEF ListInv, LiveStaysListed, AddressesDistinct, DeadAreListed,
       SnapshotListed, Alive

\* Every step keeps the list invariant: a culled address belongs to a dropped
\* subscription that is still on the list, hence to no other one alive.
LEMMA ListNext == TypeInv /\ ListInv /\ [Next]_vars => ListInv'
<1> SUFFICES ASSUME TypeInv, ListInv, [Next]_vars PROVE ListInv'
  OBVIOUS
<1>t. /\ ListType /\ ThreadType /\ SubType /\ Shape
  BY DEF TypeInv, TypeOK
<1>i. LiveStaysListed /\ AddressesDistinct /\ DeadAreListed /\ SnapshotListed
  BY DEF ListInv
<1>1. CASE Arrive
  BY <1>1, ListFrame
  DEF Arrive, Fanout, threadVars, subVars
<1>2. CASE CheckStop
  BY <1>2, ListFrame
  DEF CheckStop, Fanout, threadVars, subVars
<1>3. CASE RecvBatch
  BY <1>3, ListFrame
  DEF RecvBatch, Fanout, threadVars, subVars
<1>4. CASE RecvNothing
  BY <1>4, ListFrame
  DEF RecvNothing, Fanout, threadVars, subVars
<1>5. CASE RecvError
  BY <1>5, ListFrame
  DEF RecvError, Fanout, threadVars, subVars
<1>6. CASE Wake
  BY <1>6, ListFrame
  DEF Wake, Fanout, threadVars, subVars
<1>7. CASE Snapshot
  <2>1. LiveStaysListed'
    BY <1>7, <1>t, <1>i
    DEF Snapshot, threadVars, subVars, LiveStaysListed, AddressesDistinct,
        DeadAreListed, SnapshotListed, Alive, Fanout, ListType, SubType
  <2>2. AddressesDistinct'
    BY <1>7, <1>t, <1>i
    DEF Snapshot, threadVars, subVars, AddressesDistinct, SnapshotListed,
        Alive, Fanout, ListType, SubType
  <2>3. DeadAreListed'
    BY <1>7, <1>t, <1>i
    DEF Snapshot, threadVars, subVars, DeadAreListed, SnapshotListed, Shape,
        SubType
  <2>4. SnapshotListed'
    BY <1>7, <1>t, <1>i
    DEF Snapshot, threadVars, subVars, SnapshotListed, Fanout, ListType
  <2> QED BY <2>1, <2>2, <2>3, <2>4 DEF ListInv
<1>8. CASE PickSub
  BY <1>8, ListFrame
  DEF PickSub, Fanout, threadVars, subVars
<1>9. CASE TrySendOk
  BY <1>9, ListFrame
  DEF TrySendOk, Fanout, threadVars, subVars
<1>10. CASE TrySendFull
  BY <1>10, ListFrame
  DEF TrySendFull, Fanout, threadVars, subVars
<1>11. CASE TrySendDisconnected
  <2>1. LiveStaysListed'
    BY <1>11, <1>t, <1>i
    DEF TrySendDisconnected, threadVars, subVars, LiveStaysListed,
        AddressesDistinct, DeadAreListed, SnapshotListed, Alive, Fanout,
        ListType, SubType
  <2>2. AddressesDistinct'
    BY <1>11, <1>t, <1>i
    DEF TrySendDisconnected, threadVars, subVars, AddressesDistinct,
        SnapshotListed, Alive, Fanout, ListType, SubType
  <2>3. DeadAreListed'
    BY <1>11, <1>t, <1>i
    DEF TrySendDisconnected, threadVars, subVars, DeadAreListed,
        SnapshotListed, Shape, SubType
  <2>4. SnapshotListed'
    BY <1>11, <1>t, <1>i
    DEF TrySendDisconnected, threadVars, subVars, SnapshotListed, Fanout,
        ListType
  <2> QED BY <2>1, <2>2, <2>3, <2>4 DEF ListInv
<1>12. CASE CountReceived
  BY <1>12, ListFrame
  DEF CountReceived, NextFrame, Fanout, threadVars, subVars
<1>13. CASE CountDropped
  BY <1>13, ListFrame
  DEF CountDropped, NextFrame, Fanout, threadVars, subVars
<1>14. CASE EndFanout
  <2>1. LiveStaysListed'
    BY <1>14, <1>t, <1>i
    DEF EndFanout, threadVars, subVars, LiveStaysListed, AddressesDistinct,
        DeadAreListed, SnapshotListed, Alive, Fanout, ListType, SubType
  <2>2. AddressesDistinct'
    BY <1>14, <1>t, <1>i
    DEF EndFanout, threadVars, subVars, AddressesDistinct, SnapshotListed,
        Alive, Fanout, ListType, SubType
  <2>3. DeadAreListed'
    BY <1>14, <1>t, <1>i
    DEF EndFanout, threadVars, subVars, DeadAreListed, SnapshotListed, Shape,
        SubType
  <2>4. SnapshotListed'
    BY <1>14, <1>t, <1>i
    DEF EndFanout, threadVars, subVars, SnapshotListed, Fanout, ListType
  <2> QED BY <2>1, <2>2, <2>3, <2>4 DEF ListInv
<1>15. CASE Cull
  <2>1. LiveStaysListed'
    BY <1>15, <1>t, <1>i
    DEF Cull, threadVars, subVars, LiveStaysListed, AddressesDistinct,
        DeadAreListed, SnapshotListed, Alive, Fanout, ListType, SubType
  <2>2. AddressesDistinct'
    BY <1>15, <1>t, <1>i
    DEF Cull, threadVars, subVars, AddressesDistinct, SnapshotListed, Alive,
        Fanout, ListType, SubType
  <2>3. DeadAreListed'
    BY <1>15, <1>t, <1>i
    DEF Cull, threadVars, subVars, DeadAreListed, SnapshotListed, Shape, SubType
  <2>4. SnapshotListed'
    BY <1>15, <1>t, <1>i
    DEF Cull, threadVars, subVars, SnapshotListed, Fanout, ListType
  <2> QED BY <2>1, <2>2, <2>3, <2>4 DEF ListInv
<1>16. ASSUME NEW s \in Subs, NEW c \in Capacities, NEW a \in Addrs,
              Subscribe(s, c, a)
       PROVE  ListInv'
  <2>1. LiveStaysListed'
    BY <1>16, <1>t, <1>i
    DEF Subscribe, threadVars, subVars, LiveStaysListed, AddressesDistinct,
        DeadAreListed, SnapshotListed, Alive, Fanout, ListType, SubType
  <2>2. AddressesDistinct'
    BY <1>16, <1>t, <1>i
    DEF Subscribe, threadVars, subVars, AddressesDistinct, SnapshotListed,
        Alive, Fanout, ListType, SubType
  <2>3. DeadAreListed'
    BY <1>16, <1>t, <1>i
    DEF Subscribe, threadVars, subVars, DeadAreListed, SnapshotListed, Shape,
        SubType
  <2>4. SnapshotListed'
    BY <1>16, <1>t, <1>i
    DEF Subscribe, threadVars, subVars, SnapshotListed, Fanout, ListType
  <2> QED BY <2>1, <2>2, <2>3, <2>4 DEF ListInv
<1>17. CASE Shutdown
  <2>1. LiveStaysListed'
    BY <1>17, <1>t, <1>i
    DEF Shutdown, threadVars, subVars, LiveStaysListed, AddressesDistinct,
        DeadAreListed, SnapshotListed, Alive, Fanout, ListType, SubType
  <2>2. AddressesDistinct'
    BY <1>17, <1>t, <1>i
    DEF Shutdown, threadVars, subVars, AddressesDistinct, SnapshotListed,
        Alive, Fanout, ListType, SubType
  <2>3. DeadAreListed'
    BY <1>17, <1>t, <1>i
    DEF Shutdown, threadVars, subVars, DeadAreListed, SnapshotListed, Shape,
        SubType
  <2>4. SnapshotListed'
    BY <1>17, <1>t, <1>i
    DEF Shutdown, threadVars, subVars, SnapshotListed, Fanout, ListType
  <2> QED BY <2>1, <2>2, <2>3, <2>4 DEF ListInv
<1>18. CASE Join
  <2>1. LiveStaysListed'
    BY <1>18, <1>t, <1>i
    DEF Join, threadVars, subVars, LiveStaysListed, AddressesDistinct,
        DeadAreListed, SnapshotListed, Alive, Fanout, ListType, SubType
  <2>2. AddressesDistinct'
    BY <1>18, <1>t, <1>i
    DEF Join, threadVars, subVars, AddressesDistinct, SnapshotListed, Alive,
        Fanout, ListType, SubType
  <2>3. DeadAreListed'
    BY <1>18, <1>t, <1>i
    DEF Join, threadVars, subVars, DeadAreListed, SnapshotListed, Shape, SubType
  <2>4. SnapshotListed'
    BY <1>18, <1>t, <1>i
    DEF Join, threadVars, subVars, SnapshotListed, Fanout, ListType
  <2> QED BY <2>1, <2>2, <2>3, <2>4 DEF ListInv
<1>19. ASSUME NEW s \in Subs, NEW kind \in {"recv", "recv_timeout"},
              BeginRecv(s, kind)
       PROVE  ListInv'
  BY <1>19, ListFrame
  DEF BeginRecv, Fanout, threadVars, subVars
<1>20. ASSUME NEW s \in Subs, RecvReturn(s)
       PROVE  ListInv'
  BY <1>20, ListFrame
  DEF RecvReturn, Fanout, threadVars, subVars
<1>21. ASSUME NEW s \in Subs, RecvTimesOut(s)
       PROVE  ListInv'
  BY <1>21, ListFrame
  DEF RecvTimesOut, Fanout, threadVars, subVars
<1>22. ASSUME NEW s \in Subs, TryRecv(s)
       PROVE  ListInv'
  BY <1>22, ListFrame
  DEF TryRecv, Fanout, threadVars, subVars
<1>23. ASSUME NEW s \in Subs, DropSubscriber(s)
       PROVE  ListInv'
  <2>1. LiveStaysListed'
    BY <1>23, <1>t, <1>i
    DEF DropSubscriber, threadVars, subVars, LiveStaysListed,
        AddressesDistinct, DeadAreListed, SnapshotListed, Alive, Fanout,
        ListType, SubType
  <2>2. AddressesDistinct'
    BY <1>23, <1>t, <1>i
    DEF DropSubscriber, threadVars, subVars, AddressesDistinct, SnapshotListed,
        Alive, Fanout, ListType, SubType
  <2>3. DeadAreListed'
    BY <1>23, <1>t, <1>i
    DEF DropSubscriber, threadVars, subVars, DeadAreListed, SnapshotListed,
        Shape, SubType
  <2>4. SnapshotListed'
    BY <1>23, <1>t, <1>i
    DEF DropSubscriber, threadVars, subVars, SnapshotListed, Fanout, ListType
  <2> QED BY <2>1, <2>2, <2>3, <2>4 DEF ListInv
<1>24. CASE UNCHANGED vars
  BY <1>24, ListFrame DEF vars, threadVars, subVars
<1> QED
  BY <1>1, <1>2, <1>3, <1>4, <1>5, <1>6, <1>7, <1>8, <1>9, <1>10, <1>11, <1>12,
     <1>13, <1>14, <1>15, <1>16, <1>17, <1>18, <1>19, <1>20, <1>21, <1>22,
     <1>23, <1>24
     DEF Next, ReaderStep, OwnerStep, UserStep

\* A held subscription is on the list until the Reader is gone, for every
\* number of subscriptions and addresses and whatever the allocator reuses.
THEOREM LiveListed == Spec => []LiveStaysListed
<1>1. Init => TypeInv /\ ListInv
  BY TypeInit, ListInit
<1>2. TypeInv /\ ListInv /\ [Next]_vars => (TypeInv /\ ListInv)'
  BY TypeNext, ListNext
<1>3. ListInv => LiveStaysListed
  BY DEF ListInv
<1> QED BY <1>1, <1>2, <1>3, PTL DEF Spec

-----------------------------------------------------------------------------
(* Culling.                                                                *)

\* Where a dropped subscription on the list stands: dropped since the last
\* batch was read, not reached by the fan-out yet, about to be found
\* disconnected, or found and noted.  Before the snapshot nothing is required.
DroppedInv ==
    \A s \in subscribers : life[s] = "dropped" /\ pc # "snap" =>
        \/ left[s] = Len(read)
        \/ s \in todo
        \/ pc = "send" /\ cur = s
        \/ pc \in Fanout \cup {"cull"} /\ addr[s] \in dead

\* Nothing is dropped at first.
LEMMA DroppedInit == Init => DroppedInv
BY DEF Init, DroppedInv

\* Every step keeps track of how a dropped subscription is found.
LEMMA DroppedNext ==
    TypeInv /\ ListInv /\ DroppedInv /\ [Next]_vars => DroppedInv'
<1> SUFFICES ASSUME TypeInv, ListInv, DroppedInv, [Next]_vars PROVE DroppedInv'
  OBVIOUS
<1>t. /\ ListType /\ ThreadType /\ SubType /\ Shape /\ HistType
  BY DEF TypeInv, TypeOK
<1>i. SnapshotListed
  BY DEF ListInv
<1>1. CASE Arrive
  BY <1>1, <1>t, <1>i
  DEF Arrive, DroppedInv, SnapshotListed, ThreadType, ListType, SubType,
      HistType, Shape, Fanout, threadVars, subVars, histVars
<1>2. CASE CheckStop
  BY <1>2, <1>t, <1>i
  DEF CheckStop, DroppedInv, SnapshotListed, ThreadType, ListType, SubType,
      HistType, Shape, Fanout, threadVars, subVars, histVars
<1>3. CASE RecvBatch
  BY <1>3, <1>t, <1>i
  DEF RecvBatch, DroppedInv, SnapshotListed, ThreadType, ListType, SubType,
      HistType, Shape, Fanout, threadVars, subVars, histVars
<1>4. CASE RecvNothing
  BY <1>4, <1>t, <1>i
  DEF RecvNothing, DroppedInv, SnapshotListed, ThreadType, ListType, SubType,
      HistType, Shape, Fanout, threadVars, subVars, histVars
<1>5. CASE RecvError
  BY <1>5, <1>t, <1>i
  DEF RecvError, DroppedInv, SnapshotListed, ThreadType, ListType, SubType,
      HistType, Shape, Fanout, threadVars, subVars, histVars
<1>6. CASE Wake
  BY <1>6, <1>t, <1>i
  DEF Wake, DroppedInv, SnapshotListed, ThreadType, ListType, SubType,
      HistType, Shape, Fanout, threadVars, subVars, histVars
<1>7. CASE Snapshot
  BY <1>7, <1>t, <1>i
  DEF Snapshot, DroppedInv, SnapshotListed, ThreadType, ListType, SubType,
      HistType, Shape, Fanout, threadVars, subVars, histVars
<1>8. CASE PickSub
  BY <1>8, <1>t, <1>i
  DEF PickSub, DroppedInv, SnapshotListed, ThreadType, ListType, SubType,
      HistType, Shape, Fanout, threadVars, subVars, histVars
<1>9. CASE TrySendOk
  BY <1>9, <1>t, <1>i
  DEF TrySendOk, DroppedInv, SnapshotListed, ThreadType, ListType, SubType,
      HistType, Shape, Fanout, threadVars, subVars, histVars
<1>10. CASE TrySendFull
  BY <1>10, <1>t, <1>i
  DEF TrySendFull, DroppedInv, SnapshotListed, ThreadType, ListType, SubType,
      HistType, Shape, Fanout, threadVars, subVars, histVars
<1>11. CASE TrySendDisconnected
  BY <1>11, <1>t, <1>i
  DEF TrySendDisconnected, DroppedInv, SnapshotListed, ThreadType, ListType,
      SubType,
      HistType, Shape, Fanout, threadVars, subVars, histVars
<1>12. CASE CountReceived
  BY <1>12, <1>t, <1>i
  DEF CountReceived, NextFrame, DroppedInv, SnapshotListed, ThreadType,
      ListType, SubType,
      HistType, Shape, Fanout, threadVars, subVars, histVars
<1>13. CASE CountDropped
  BY <1>13, <1>t, <1>i
  DEF CountDropped, NextFrame, DroppedInv, SnapshotListed, ThreadType,
      ListType, SubType,
      HistType, Shape, Fanout, threadVars, subVars, histVars
<1>14. CASE EndFanout
  BY <1>14, <1>t, <1>i
  DEF EndFanout, DroppedInv, SnapshotListed, ThreadType, ListType, SubType,
      HistType, Shape, Fanout, threadVars, subVars, histVars
<1>15. CASE Cull
  BY <1>15, <1>t, <1>i
  DEF Cull, DroppedInv, SnapshotListed, ThreadType, ListType, SubType,
      HistType, Shape, Fanout, threadVars, subVars, histVars
<1>16. ASSUME NEW s \in Subs, NEW c \in Capacities, NEW a \in Addrs,
              Subscribe(s, c, a)
       PROVE  DroppedInv'
  BY <1>16, <1>t, <1>i
  DEF Subscribe, DroppedInv, SnapshotListed, ThreadType, ListType, SubType,
      HistType, Shape, Fanout, threadVars, subVars, histVars
<1>17. CASE Shutdown
  BY <1>17, <1>t, <1>i
  DEF Shutdown, DroppedInv, SnapshotListed, ThreadType, ListType, SubType,
      HistType, Shape, Fanout, threadVars, subVars, histVars
<1>18. CASE Join
  BY <1>18, <1>t, <1>i
  DEF Join, DroppedInv, SnapshotListed, ThreadType, ListType, SubType,
      HistType, Shape, Fanout, threadVars, subVars, histVars
<1>19. ASSUME NEW s \in Subs, NEW kind \in {"recv", "recv_timeout"},
              BeginRecv(s, kind)
       PROVE  DroppedInv'
  BY <1>19, <1>t, <1>i
  DEF BeginRecv, DroppedInv, SnapshotListed, ThreadType, ListType, SubType,
      HistType, Shape, Fanout, threadVars, subVars, histVars
<1>20. ASSUME NEW s \in Subs, RecvReturn(s)
       PROVE  DroppedInv'
  BY <1>20, <1>t, <1>i
  DEF RecvReturn, DroppedInv, SnapshotListed, ThreadType, ListType, SubType,
      HistType, Shape, Fanout, threadVars, subVars, histVars
<1>21. ASSUME NEW s \in Subs, RecvTimesOut(s)
       PROVE  DroppedInv'
  BY <1>21, <1>t, <1>i
  DEF RecvTimesOut, DroppedInv, SnapshotListed, ThreadType, ListType, SubType,
      HistType, Shape, Fanout, threadVars, subVars, histVars
<1>22. ASSUME NEW s \in Subs, TryRecv(s)
       PROVE  DroppedInv'
  BY <1>22, <1>t, <1>i
  DEF TryRecv, DroppedInv, SnapshotListed, ThreadType, ListType, SubType,
      HistType, Shape, Fanout, threadVars, subVars, histVars
<1>23. ASSUME NEW s \in Subs, DropSubscriber(s)
       PROVE  DroppedInv'
  BY <1>23, <1>t, <1>i
  DEF DropSubscriber, DroppedInv, SnapshotListed, ThreadType, ListType, SubType,
      HistType, Shape, Fanout, threadVars, subVars, histVars
<1>24. CASE UNCHANGED vars
  BY <1>24 DEF DroppedInv, Fanout, vars, threadVars, subVars, histVars
<1> QED
  BY <1>1, <1>2, <1>3, <1>4, <1>5, <1>6, <1>7, <1>8, <1>9, <1>10, <1>11, <1>12,
     <1>13, <1>14, <1>15, <1>16, <1>17, <1>18, <1>19, <1>20, <1>21, <1>22,
     <1>23, <1>24
     DEF Next, ReaderStep, OwnerStep, UserStep

\* A dropped subscription outlives on the list at most the batch under way and
\* the next one.
THEOREM DroppedCulled == Spec => []DroppedIsCulledByNextBatch
<1>1. Init => TypeInv /\ ListInv /\ DroppedInv
  BY TypeInit, ListInit, DroppedInit
<1>2. TypeInv /\ ListInv /\ DroppedInv /\ [Next]_vars
      => (TypeInv /\ ListInv /\ DroppedInv)'
  BY TypeNext, ListNext, DroppedNext
<1>3. TypeInv /\ ListInv /\ DroppedInv => DroppedIsCulledByNextBatch
  <2>1. TypeInv /\ ListInv /\ AtRest => todo = {}
    BY DEF TypeInv, TypeOK, ThreadType, ListInv, SnapshotListed, AtRest, Fanout
  <2> QED
    BY <2>1 DEF DroppedInv, DroppedIsCulledByNextBatch, AtRest, Fanout
<1> QED BY <1>1, <1>2, <1>3, PTL DEF Spec

-----------------------------------------------------------------------------
(* Where each subscription stands in the log.                              *)

Serving == {"send", "sent", "full"}

\* How much of the log has been offered to s.
Position(s) ==
    IF pc = "snap" \/ s \in todo THEN Len(read) - Len(buf)
    ELSE IF pc \in Serving /\ cur = s
    THEN Len(read) - Len(buf) + pos - (IF pc = "send" THEN 1 ELSE 0)
    ELSE Len(read)

\* Accepted by the queue, and not counted yet.
Uncounted(s) == IF pc = "sent" /\ cur = s THEN 1 ELSE 0

\* The batch is the end of the log, and everything in the log has arrived.
BatchInv ==
    /\ pc \notin {"snap"} \cup Fanout => buf = <<>>
    /\ pc \notin Serving => cur = NoSub
    /\ cur \notin todo
    /\ \A k \in 1..Len(buf) : buf[k] = read[Len(read) - Len(buf) + k]
    /\ \A i \in 1..Len(read) : read[i] <= arrived
    /\ \A i \in 1..Len(rxq) : rxq[i] <= arrived

\* A held subscription has been given, or refused and counted, exactly what
\* was offered to it; an unbounded one was refused nothing.
Accounted(s) ==
    /\ base[s] + Len(got[s]) + Refused(s) = Position(s)
    /\ received[s] + Uncounted(s) = Len(got[s])
    /\ cap[s] = Unbounded =>
          /\ Refused(s) = 0
          /\ \A k \in 1..Len(got[s]) : got[s][k] = read[base[s] + k]
    /\ \A i \in 1..base[s] : read[i] <= since[s]

Untouched(s) == got[s] = <<>> /\ received[s] = 0 /\ dropped[s] = 0

AccountInv ==
    /\ \A s \in Subs : life[s] = "held" => Accounted(s)
    /\ \A s \in Subs : life[s] = "none" => Untouched(s)

Inv == TypeInv /\ ListInv /\ BatchInv /\ AccountInv

\* The first n elements of a sequence.
LEMMA TakeProperties ==
    ASSUME NEW S, NEW q \in Seq(S), NEW n \in 1..Len(q)
    PROVE  /\ SubSeq(q, 1, n) \in Seq(S)
           /\ Len(SubSeq(q, 1, n)) = n
           /\ \A k \in 1..n : SubSeq(q, 1, n)[k] = q[k]
<1>1. 1 \in 1..Len(q) + 1 /\ n \in 1 - 1..Len(q)
  BY LenProperties
<1>2. /\ SubSeq(q, 1, n) \in Seq(S)
      /\ Len(SubSeq(q, 1, n)) = n - 1 + 1
      /\ \A k \in 1..n - 1 + 1 : SubSeq(q, 1, n)[k] = q[1 + k - 1]
  BY <1>1, PartType
<1> QED BY <1>2

\* What is left of it without them.
LEMMA RestProperties ==
    ASSUME NEW S, NEW q \in Seq(S), NEW n \in 1..Len(q)
    PROVE  /\ Len(SubSeq(q, n + 1, Len(q))) = Len(q) - n
           /\ \A k \in 1..Len(q) - n : SubSeq(q, n + 1, Len(q))[k] = q[n + k]
<1>1. n + 1 \in 1..Len(q) + 1 /\ Len(q) \in n + 1 - 1..Len(q)
  BY LenProperties
<1>2. /\ Len(SubSeq(q, n + 1, Len(q))) = Len(q) - (n + 1) + 1
      /\ \A k \in 1..Len(q) - (n + 1) + 1 :
            SubSeq(q, n + 1, Len(q))[k] = q[n + 1 + k - 1]
  BY <1>1, PartType
<1>3. Len(q) \in Nat /\ n \in Nat
  BY LenProperties
<1> QED BY <1>2, <1>3

\* The whole invariant holds initially.
LEMMA InvInit == Init => Inv
<1> SUFFICES ASSUME Init PROVE BatchInv /\ AccountInv
  BY TypeInit, ListInit DEF Inv
<1>1. BatchInv
  BY SubsAssumption DEF Init, BatchInv, Fanout, Serving
<1>2. AccountInv
  BY DEF Init, AccountInv, Untouched
<1> QED BY <1>1, <1>2

\* Every step keeps the batch at the end of the log.
LEMMA BatchNext == TypeInv /\ ListInv /\ BatchInv /\ [Next]_vars => BatchInv'
<1> SUFFICES ASSUME TypeInv, ListInv, BatchInv, [Next]_vars PROVE BatchInv'
  OBVIOUS
<1>t. /\ KernelType /\ ThreadType /\ HistType /\ Shape /\ ListType
  BY DEF TypeInv, TypeOK
<1>i. SnapshotListed
  BY DEF ListInv
<1>1. CASE Arrive
  <2>a. /\ arrived' = arrived + 1 /\ arrived \in Nat
        /\ UNCHANGED <<read, pc, buf, cur, todo>>
    BY <1>1, <1>t, BoundsAssumption DEF Arrive, KernelType, threadVars
  <2>r. \A i \in 1..Len(read) : read[i] \in Nat /\ read[i] <= arrived
    <3>1. \A i \in 1..Len(read) : read[i] \in 1..MaxFrames
      BY <1>t, ElementOfSeq DEF HistType
    <3> QED BY <3>1 DEF BatchInv
  <2>q. \A i \in 1..Len(rxq) : rxq[i] \in Nat /\ rxq[i] <= arrived
    <3>1. \A i \in 1..Len(rxq) : rxq[i] \in 1..MaxFrames
      BY <1>t, ElementOfSeq DEF KernelType
    <3> QED BY <3>1 DEF BatchInv
  <2>1. \A i \in 1..Len(rxq') : rxq'[i] <= arrived'
    <3>1. CASE rxq' = rxq
      BY <2>a, <2>q, <3>1
    <3>2. CASE rxq' = Append(rxq, arrived + 1)
      <4>1. rxq \in Seq(Nat) /\ Len(rxq) \in Nat
        <5>1. \A S, T : S \subseteq T => Seq(S) \subseteq Seq(T)
          OBVIOUS
        <5> QED BY <1>t, <5>1, LenProperties, BoundsAssumption DEF KernelType
      <4>2. /\ Len(rxq') = Len(rxq) + 1
            /\ \A i \in 1..Len(rxq) : rxq'[i] = rxq[i]
            /\ rxq'[Len(rxq) + 1] = arrived + 1
        BY <2>a, <3>2, <4>1, AppendProperties
      <4> SUFFICES ASSUME NEW i \in 1..Len(rxq) + 1
                   PROVE  rxq'[i] <= arrived + 1
        BY <2>a, <4>2
      <4>3. CASE i = Len(rxq) + 1
        BY <2>a, <4>2, <4>3
      <4>4. CASE i # Len(rxq) + 1
        <5>1. i \in 1..Len(rxq)
          BY <4>1, <4>4
        <5> QED BY <5>1, <2>a, <2>q, <4>2
      <4> QED BY <4>3, <4>4
    <3> QED BY <1>1, <3>1, <3>2 DEF Arrive
  <2>2. \A i \in 1..Len(read') : read'[i] <= arrived'
    BY <2>a, <2>r
  <2> QED
    BY <2>a, <2>1, <2>2 DEF BatchInv, Fanout, Serving
<1>2. CASE CheckStop
  BY <1>2, <1>t, <1>i, SubsAssumption
  DEF CheckStop, BatchInv, Serving, Fanout, SnapshotListed, KernelType,
      ThreadType, ListType,
      HistType, Shape, kernelVars, threadVars
<1>3. CASE RecvBatch
  <2>1. PICK n \in 1..Len(rxq) :
            buf' = SubSeq(rxq, 1, n) /\ rxq' = SubSeq(rxq, n + 1, Len(rxq))
    BY <1>3, <1>t, ActiveType, LenProperties DEF RecvBatch, Min2, KernelType
  <2>2. /\ buf' \in Seq(1..MaxFrames)
        /\ Len(buf') = n
        /\ \A k \in 1..n : buf'[k] = rxq[k]
    BY <1>t, <2>1, TakeProperties DEF KernelType
  <2>3. /\ Len(rxq') = Len(rxq) - n
        /\ \A k \in 1..Len(rxq) - n : rxq'[k] = rxq[n + k]
    BY <1>t, <2>1, RestProperties DEF KernelType
  <2>4. /\ Len(read') = Len(read) + n
        /\ \A i \in 1..Len(read) : read'[i] = read[i]
        /\ \A i \in Len(read) + 1..Len(read) + n : read'[i] = buf'[i - Len(read)]
    BY <1>3, <1>t, <2>2, ConcatProperties, LenProperties DEF RecvBatch, HistType
  <2>n. Len(read) \in Nat /\ Len(rxq) \in Nat /\ n \in Nat
    BY <1>t, <2>1, LenProperties DEF KernelType, HistType
  <2>5. \A k \in 1..Len(buf') : buf'[k] = read'[Len(read') - Len(buf') + k]
    <3> SUFFICES ASSUME NEW k \in 1..n
                 PROVE  buf'[k] = read'[Len(read) + k]
      BY <2>2, <2>4, <2>n
    <3>1. Len(read) + k \in Len(read) + 1..Len(read) + n
      BY <2>n
    <3> QED BY <3>1, <2>4, <2>n
  <2>6. \A i \in 1..Len(read') : read'[i] <= arrived
    <3> SUFFICES ASSUME NEW i \in 1..Len(read) + n PROVE read'[i] <= arrived
      BY <2>4
    <3>1. CASE i <= Len(read)
      BY <3>1, <2>4, <2>n DEF BatchInv
    <3>2. CASE i > Len(read)
      <4>1. i - Len(read) \in 1..n /\ i - Len(read) \in 1..Len(rxq)
        BY <3>2, <2>n, <2>1
      <4>2. read'[i] = rxq[i - Len(read)]
        BY <3>2, <4>1, <2>4, <2>2, <2>n
      <4> QED BY <4>1, <4>2 DEF BatchInv
    <3> QED BY <3>1, <3>2, <2>n
  <2>7. \A i \in 1..Len(rxq') : rxq'[i] <= arrived
    <3> SUFFICES ASSUME NEW i \in 1..Len(rxq) - n PROVE rxq'[i] <= arrived
      BY <2>3
    <3>1. n + i \in 1..Len(rxq)
      BY <2>n
    <3> QED BY <3>1, <2>3 DEF BatchInv
  <2> QED
    BY <1>3, <2>5, <2>6, <2>7 DEF RecvBatch, BatchInv, Fanout, Serving
<1>4. CASE RecvNothing
  BY <1>4, <1>t, <1>i, SubsAssumption
  DEF RecvNothing, BatchInv, Serving, Fanout, SnapshotListed, KernelType,
      ThreadType, ListType,
      HistType, Shape, kernelVars, threadVars
<1>5. CASE RecvError
  BY <1>5, <1>t, <1>i, SubsAssumption
  DEF RecvError, BatchInv, Serving, Fanout, SnapshotListed, KernelType,
      ThreadType, ListType,
      HistType, Shape, kernelVars, threadVars
<1>6. CASE Wake
  BY <1>6, <1>t, <1>i, SubsAssumption
  DEF Wake, BatchInv, Serving, Fanout, SnapshotListed, KernelType, ThreadType,
      ListType,
      HistType, Shape, kernelVars, threadVars
<1>7. CASE Snapshot
  BY <1>7, <1>t, <1>i, SubsAssumption
  DEF Snapshot, BatchInv, Serving, Fanout, SnapshotListed, KernelType,
      ThreadType, ListType,
      HistType, Shape, kernelVars, threadVars
<1>8. CASE PickSub
  BY <1>8, <1>t, <1>i, SubsAssumption
  DEF PickSub, BatchInv, Serving, Fanout, SnapshotListed, KernelType,
      ThreadType, ListType,
      HistType, Shape, kernelVars, threadVars
<1>9. CASE TrySendOk
  BY <1>9, <1>t, <1>i, SubsAssumption
  DEF TrySendOk, BatchInv, Serving, Fanout, SnapshotListed, KernelType,
      ThreadType, ListType,
      HistType, Shape, kernelVars, threadVars
<1>10. CASE TrySendFull
  BY <1>10, <1>t, <1>i, SubsAssumption
  DEF TrySendFull, BatchInv, Serving, Fanout, SnapshotListed, KernelType,
      ThreadType, ListType,
      HistType, Shape, kernelVars, threadVars
<1>11. CASE TrySendDisconnected
  BY <1>11, <1>t, <1>i, SubsAssumption
  DEF TrySendDisconnected, BatchInv, Serving, Fanout, SnapshotListed,
      KernelType, ThreadType, ListType,
      HistType, Shape, kernelVars, threadVars
<1>12. CASE CountReceived
  BY <1>12, <1>t, <1>i, SubsAssumption
  DEF CountReceived, NextFrame, BatchInv, Serving, Fanout, SnapshotListed,
      KernelType, ThreadType, ListType,
      HistType, Shape, kernelVars, threadVars
<1>13. CASE CountDropped
  BY <1>13, <1>t, <1>i, SubsAssumption
  DEF CountDropped, NextFrame, BatchInv, Serving, Fanout, SnapshotListed,
      KernelType, ThreadType, ListType,
      HistType, Shape, kernelVars, threadVars
<1>14. CASE EndFanout
  BY <1>14, <1>t, <1>i, SubsAssumption
  DEF EndFanout, BatchInv, Serving, Fanout, SnapshotListed, KernelType,
      ThreadType, ListType,
      HistType, Shape, kernelVars, threadVars
<1>15. CASE Cull
  BY <1>15, <1>t, <1>i, SubsAssumption
  DEF Cull, BatchInv, Serving, Fanout, SnapshotListed, KernelType, ThreadType,
      ListType,
      HistType, Shape, kernelVars, threadVars
<1>16. ASSUME NEW s \in Subs, NEW c \in Capacities, NEW a \in Addrs,
              Subscribe(s, c, a)
       PROVE  BatchInv'
  BY <1>16, <1>t, <1>i, SubsAssumption
  DEF Subscribe, BatchInv, Serving, Fanout, SnapshotListed, KernelType,
      ThreadType, ListType,
      HistType, Shape, kernelVars, threadVars
<1>17. CASE Shutdown
  BY <1>17, <1>t, <1>i, SubsAssumption
  DEF Shutdown, BatchInv, Serving, Fanout, SnapshotListed, KernelType,
      ThreadType, ListType,
      HistType, Shape, kernelVars, threadVars
<1>18. CASE Join
  BY <1>18, <1>t, <1>i, SubsAssumption
  DEF Join, BatchInv, Serving, Fanout, SnapshotListed, KernelType, ThreadType,
      ListType,
      HistType, Shape, kernelVars, threadVars
<1>19. ASSUME NEW s \in Subs, NEW kind \in {"recv", "recv_timeout"},
              BeginRecv(s, kind)
       PROVE  BatchInv'
  BY <1>19, <1>t, <1>i, SubsAssumption
  DEF BeginRecv, BatchInv, Serving, Fanout, SnapshotListed, KernelType,
      ThreadType, ListType,
      HistType, Shape, kernelVars, threadVars
<1>20. ASSUME NEW s \in Subs, RecvReturn(s)
       PROVE  BatchInv'
  BY <1>20, <1>t, <1>i, SubsAssumption
  DEF RecvReturn, BatchInv, Serving, Fanout, SnapshotListed, KernelType,
      ThreadType, ListType,
      HistType, Shape, kernelVars, threadVars
<1>21. ASSUME NEW s \in Subs, RecvTimesOut(s)
       PROVE  BatchInv'
  BY <1>21, <1>t, <1>i, SubsAssumption
  DEF RecvTimesOut, BatchInv, Serving, Fanout, SnapshotListed, KernelType,
      ThreadType, ListType,
      HistType, Shape, kernelVars, threadVars
<1>22. ASSUME NEW s \in Subs, TryRecv(s)
       PROVE  BatchInv'
  BY <1>22, <1>t, <1>i, SubsAssumption
  DEF TryRecv, BatchInv, Serving, Fanout, SnapshotListed, KernelType,
      ThreadType, ListType,
      HistType, Shape, kernelVars, threadVars
<1>23. ASSUME NEW s \in Subs, DropSubscriber(s)
       PROVE  BatchInv'
  BY <1>23, <1>t, <1>i, SubsAssumption
  DEF DropSubscriber, BatchInv, Serving, Fanout, SnapshotListed, KernelType,
      ThreadType, ListType,
      HistType, Shape, kernelVars, threadVars
<1>24. CASE UNCHANGED vars
  BY <1>24 DEF BatchInv, Serving, Fanout, vars, kernelVars, threadVars
<1> QED
  BY <1>1, <1>2, <1>3, <1>4, <1>5, <1>6, <1>7, <1>8, <1>9, <1>10, <1>11, <1>12,
     <1>13, <1>14, <1>15, <1>16, <1>17, <1>18, <1>19, <1>20, <1>21, <1>22,
     <1>23, <1>24
     DEF Next, ReaderStep, OwnerStep, UserStep

\* A subscription is still accounted for after a step that keeps its counters,
\* its queue and its place in the log.
LEMMA AccountFrame ==
    ASSUME NEW s \in Subs, HistType, QueueType, Accounted(s),
           UNCHANGED <<base[s], got[s], received[s], cap[s], since[s]>>,
           \A i \in 1..Len(read) : read'[i] = read[i],
           base[s] + Len(got[s]) <= Len(read),
           Refused(s)' = Refused(s), Uncounted(s)' = Uncounted(s),
           Position(s)' = Position(s)
    PROVE  Accounted(s)'
<1>n. /\ base[s] \in Nat /\ Len(got[s]) \in Nat /\ Len(read) \in Nat
  BY LenProperties DEF HistType, QueueType
<1>1. (base[s] + Len(got[s]) + Refused(s) = Position(s))'
  BY DEF Accounted
<1>2. (received[s] + Uncounted(s) = Len(got[s]))'
  BY DEF Accounted
<1>3. cap'[s] = Unbounded =>
        /\ Refused(s)' = 0
        /\ \A k \in 1..Len(got'[s]) : got'[s][k] = read'[base'[s] + k]
  <2> SUFFICES ASSUME cap[s] = Unbounded, NEW k \in 1..Len(got[s])
               PROVE  got[s][k] = read'[base[s] + k]
    BY DEF Accounted
  <2>1. base[s] + k \in 1..Len(read)
    BY <1>n
  <2> QED BY <2>1 DEF Accounted
<1>4. \A i \in 1..base'[s] : read'[i] <= since'[s]
  <2> SUFFICES ASSUME NEW i \in 1..base[s] PROVE read'[i] <= since[s]
    OBVIOUS
  <2>1. i \in 1..Len(read)
    BY <1>n
  <2> QED BY <2>1 DEF Accounted
<1> QED BY <1>1, <1>2, <1>3, <1>4 DEF Accounted

\* Every step keeps each subscription accounted for.
LEMMA AccountNext == Inv /\ [Next]_vars => AccountInv'
<1> SUFFICES ASSUME Inv, [Next]_vars PROVE AccountInv'
  OBVIOUS
<1>t. /\ KernelType /\ ThreadType /\ SubType /\ QueueType /\ StatType
      /\ HistType /\ ListType /\ Shape
  BY DEF Inv, TypeInv, TypeOK
<1>i. LiveStaysListed /\ SnapshotListed /\ BatchInv /\ AccountInv
  BY DEF Inv, ListInv
<1>n. /\ Len(read) \in Nat /\ Len(buf) \in Nat /\ Len(buf) <= Len(read)
      /\ pos \in Nat /\ pos <= Len(buf)
      /\ \A s \in Subs : base[s] \in Nat /\ Len(got[s]) \in Nat
      /\ \A s \in Subs : received[s] \in Nat /\ dropped[s] \in Nat
  BY <1>t, LenProperties DEF ThreadType, QueueType, HistType, StatType, Shape
<1>b. \A s \in Subs : /\ Refused(s) \in Nat
                      /\ Position(s) \in Nat /\ Position(s) <= Len(read)
  BY <1>n, <1>t DEF Refused, Position, Serving, Shape
<1>p. \A s \in Subs : Accounted(s) => base[s] + Len(got[s]) <= Len(read)
  BY <1>n, <1>b DEF Accounted
<1>1. CASE Arrive
  <2>1. ASSUME NEW s \in Subs, life'[s] = "held" PROVE Accounted(s)'
    <3>1. Accounted(s)
      BY <1>1, <1>t, <1>i, <2>1 DEF Arrive, AccountInv, SubType, subVars
    <3>2. /\ Position(s)' = Position(s)
          /\ Refused(s)' = Refused(s)
          /\ Uncounted(s)' = Uncounted(s)
      BY <1>1, <2>1, <1>t, <1>i, <1>n
      DEF Arrive, Position, Uncounted, Refused, Serving, Fanout,
          ThreadType, ListType, SnapshotListed, BatchInv, LiveStaysListed,
          Shape,
          threadVars, statVars, subVars
    <3> QED
      BY <1>1, <1>t, <1>p, <3>1, <3>2, AccountFrame
      DEF Arrive, subVars, queueVars, statVars, histVars
  <2>2. ASSUME NEW s \in Subs, life'[s] = "none" PROVE Untouched(s)'
    BY <1>1, <1>i, <2>2
    DEF Arrive, AccountInv, Untouched, subVars, queueVars, statVars
  <2> QED BY <2>1, <2>2 DEF AccountInv
<1>2. CASE CheckStop
  <2>1. ASSUME NEW s \in Subs, life'[s] = "held" PROVE Accounted(s)'
    <3>1. Accounted(s)
      BY <1>2, <1>t, <1>i, <2>1 DEF CheckStop, AccountInv, SubType, subVars
    <3>2. /\ Position(s)' = Position(s)
          /\ Refused(s)' = Refused(s)
          /\ Uncounted(s)' = Uncounted(s)
      BY <1>2, <2>1, <1>t, <1>i, <1>n
      DEF CheckStop, Position, Uncounted, Refused, Serving, Fanout,
          ThreadType, ListType, SnapshotListed, BatchInv, LiveStaysListed,
          Shape,
          threadVars, statVars, subVars
    <3> QED
      BY <1>2, <1>t, <1>p, <3>1, <3>2, AccountFrame
      DEF CheckStop, subVars, queueVars, statVars, histVars
  <2>2. ASSUME NEW s \in Subs, life'[s] = "none" PROVE Untouched(s)'
    BY <1>2, <1>i, <2>2
    DEF CheckStop, AccountInv, Untouched, subVars, queueVars, statVars
  <2> QED BY <2>1, <2>2 DEF AccountInv
<1>3. CASE RecvBatch
  <2>0. /\ Len(read') = Len(read) + Len(buf')
        /\ Len(buf') \in Nat
        /\ \A j \in 1..Len(read) : read'[j] = read[j]
    <3>1. buf' \in Seq(1..MaxFrames)
      <4>1. PICK n \in 1..Len(rxq) : buf' = SubSeq(rxq, 1, n)
        BY <1>3, <1>t, ActiveType, LenProperties DEF RecvBatch, Min2, KernelType
      <4> QED BY <4>1, <1>t, TakeProperties DEF KernelType
    <3> QED
      BY <3>1, <1>3, <1>t, ConcatProperties, LenProperties
      DEF RecvBatch, HistType
  <2>1. ASSUME NEW s \in Subs, life'[s] = "held" PROVE Accounted(s)'
    <3>1. Accounted(s)
      BY <1>3, <1>i, <2>1 DEF RecvBatch, AccountInv, subVars
    <3>2. /\ Position(s)' = Position(s)
          /\ Refused(s)' = Refused(s)
          /\ Uncounted(s)' = Uncounted(s)
      BY <1>3, <1>t, <1>i, <1>n, <2>0
      DEF RecvBatch, Position, Uncounted, Refused, Serving, Fanout, ThreadType,
          SnapshotListed, statVars
    <3> QED
      BY <1>3, <1>t, <1>p, <2>0, <3>1, <3>2, AccountFrame
      DEF RecvBatch, subVars, queueVars, statVars, histVars
  <2>2. ASSUME NEW s \in Subs, life'[s] = "none" PROVE Untouched(s)'
    BY <1>3, <1>i, <2>2
    DEF RecvBatch, AccountInv, Untouched, subVars, queueVars, statVars
  <2> QED BY <2>1, <2>2 DEF AccountInv
<1>4. CASE RecvNothing
  <2>1. ASSUME NEW s \in Subs, life'[s] = "held" PROVE Accounted(s)'
    <3>1. Accounted(s)
      BY <1>4, <1>t, <1>i, <2>1 DEF RecvNothing, AccountInv, SubType, subVars
    <3>2. /\ Position(s)' = Position(s)
          /\ Refused(s)' = Refused(s)
          /\ Uncounted(s)' = Uncounted(s)
      BY <1>4, <2>1, <1>t, <1>i, <1>n
      DEF RecvNothing, Position, Uncounted, Refused, Serving, Fanout,
          ThreadType, ListType, SnapshotListed, BatchInv, LiveStaysListed,
          Shape,
          threadVars, statVars, subVars
    <3> QED
      BY <1>4, <1>t, <1>p, <3>1, <3>2, AccountFrame
      DEF RecvNothing, subVars, queueVars, statVars, histVars
  <2>2. ASSUME NEW s \in Subs, life'[s] = "none" PROVE Untouched(s)'
    BY <1>4, <1>i, <2>2
    DEF RecvNothing, AccountInv, Untouched, subVars, queueVars, statVars
  <2> QED BY <2>1, <2>2 DEF AccountInv
<1>5. CASE RecvError
  <2>1. ASSUME NEW s \in Subs, life'[s] = "held" PROVE Accounted(s)'
    <3>1. Accounted(s)
      BY <1>5, <1>t, <1>i, <2>1 DEF RecvError, AccountInv, SubType, subVars
    <3>2. /\ Position(s)' = Position(s)
          /\ Refused(s)' = Refused(s)
          /\ Uncounted(s)' = Uncounted(s)
      BY <1>5, <2>1, <1>t, <1>i, <1>n
      DEF RecvError, Position, Uncounted, Refused, Serving, Fanout,
          ThreadType, ListType, SnapshotListed, BatchInv, LiveStaysListed,
          Shape,
          threadVars, statVars, subVars
    <3> QED
      BY <1>5, <1>t, <1>p, <3>1, <3>2, AccountFrame
      DEF RecvError, subVars, queueVars, statVars, histVars
  <2>2. ASSUME NEW s \in Subs, life'[s] = "none" PROVE Untouched(s)'
    BY <1>5, <1>i, <2>2
    DEF RecvError, AccountInv, Untouched, subVars, queueVars, statVars
  <2> QED BY <2>1, <2>2 DEF AccountInv
<1>6. CASE Wake
  <2>1. ASSUME NEW s \in Subs, life'[s] = "held" PROVE Accounted(s)'
    <3>1. Accounted(s)
      BY <1>6, <1>t, <1>i, <2>1 DEF Wake, AccountInv, SubType, subVars
    <3>2. /\ Position(s)' = Position(s)
          /\ Refused(s)' = Refused(s)
          /\ Uncounted(s)' = Uncounted(s)
      BY <1>6, <2>1, <1>t, <1>i, <1>n
      DEF Wake, Position, Uncounted, Refused, Serving, Fanout,
          ThreadType, ListType, SnapshotListed, BatchInv, LiveStaysListed,
          Shape,
          threadVars, statVars, subVars
    <3> QED
      BY <1>6, <1>t, <1>p, <3>1, <3>2, AccountFrame
      DEF Wake, subVars, queueVars, statVars, histVars
  <2>2. ASSUME NEW s \in Subs, life'[s] = "none" PROVE Untouched(s)'
    BY <1>6, <1>i, <2>2
    DEF Wake, AccountInv, Untouched, subVars, queueVars, statVars
  <2> QED BY <2>1, <2>2 DEF AccountInv
<1>7. CASE Snapshot
  <2>1. ASSUME NEW s \in Subs, life'[s] = "held" PROVE Accounted(s)'
    <3>1. Accounted(s)
      BY <1>7, <1>t, <1>i, <2>1 DEF Snapshot, AccountInv, SubType, subVars
    <3>2. /\ Position(s)' = Position(s)
          /\ Refused(s)' = Refused(s)
          /\ Uncounted(s)' = Uncounted(s)
      BY <1>7, <2>1, <1>t, <1>i, <1>n
      DEF Snapshot, Position, Uncounted, Refused, Serving, Fanout,
          ThreadType, ListType, SnapshotListed, BatchInv, LiveStaysListed,
          Shape,
          threadVars, statVars, subVars
    <3> QED
      BY <1>7, <1>t, <1>p, <3>1, <3>2, AccountFrame
      DEF Snapshot, subVars, queueVars, statVars, histVars
  <2>2. ASSUME NEW s \in Subs, life'[s] = "none" PROVE Untouched(s)'
    BY <1>7, <1>i, <2>2
    DEF Snapshot, AccountInv, Untouched, subVars, queueVars, statVars
  <2> QED BY <2>1, <2>2 DEF AccountInv
<1>8. CASE PickSub
  <2>1. ASSUME NEW s \in Subs, life'[s] = "held" PROVE Accounted(s)'
    <3>1. Accounted(s)
      BY <1>8, <1>t, <1>i, <2>1 DEF PickSub, AccountInv, SubType, subVars
    <3>2. /\ Position(s)' = Position(s)
          /\ Refused(s)' = Refused(s)
          /\ Uncounted(s)' = Uncounted(s)
      BY <1>8, <2>1, <1>t, <1>i, <1>n
      DEF PickSub, Position, Uncounted, Refused, Serving, Fanout,
          ThreadType, ListType, SnapshotListed, BatchInv, LiveStaysListed,
          Shape,
          threadVars, statVars, subVars
    <3> QED
      BY <1>8, <1>t, <1>p, <3>1, <3>2, AccountFrame
      DEF PickSub, subVars, queueVars, statVars, histVars
  <2>2. ASSUME NEW s \in Subs, life'[s] = "none" PROVE Untouched(s)'
    BY <1>8, <1>i, <2>2
    DEF PickSub, AccountInv, Untouched, subVars, queueVars, statVars
  <2> QED BY <2>1, <2>2 DEF AccountInv
<1>9. CASE TrySendOk
  <2>0. /\ cur \in Subs /\ buf[pos] = read[Len(read) - Len(buf) + pos]
        /\ life[cur] = "held" /\ cur \notin todo /\ pos # 0
    BY <1>9, <1>t, <1>i, <1>n
    DEF TrySendOk, ThreadType, BatchInv, Shape, SubType
  <2>1. ASSUME NEW s \in Subs, life'[s] = "held" PROVE Accounted(s)'
    <3>1. Accounted(s)
      BY <1>9, <1>i, <2>1 DEF TrySendOk, AccountInv, subVars
    <3>2. Refused(s)' = Refused(s)
      BY <1>9 DEF TrySendOk, Refused, statVars
    <3>3. CASE s # cur
      <4>1. Position(s)' = Position(s) /\ Uncounted(s)' = Uncounted(s)
        BY <1>9, <3>3 DEF TrySendOk, Position, Uncounted, Serving
      <4>2. got'[s] = got[s]
        BY <1>9, <1>t, <2>0, <3>3 DEF TrySendOk, QueueType
      <4> QED
        BY <1>9, <1>t, <1>p, <3>1, <3>2, <4>1, <4>2, AccountFrame
        DEF TrySendOk, subVars, statVars, histVars
    <3>4. CASE s = cur
      <4>1. /\ Position(s) = Len(read) - Len(buf) + pos - 1
            /\ Position(s)' = Len(read) - Len(buf) + pos
            /\ Refused(s) = dropped[s] /\ Uncounted(s) = 0 /\ Uncounted(s)' = 1
        BY <1>9, <1>n, <2>0, <3>4
        DEF TrySendOk, Position, Uncounted, Refused, Serving
      <4>2. /\ got'[s] = Append(got[s], buf[pos])
            /\ Len(got'[s]) = Len(got[s]) + 1
            /\ \A k \in 1..Len(got[s]) : got'[s][k] = got[s][k]
            /\ got'[s][Len(got[s]) + 1] = buf[pos]
        <5>a. buf \in Seq(1..MaxFrames) /\ pos \in 1..Len(buf)
          BY <1>t, <1>n, <2>0 DEF ThreadType
        <5>1. got[s] \in Seq(1..MaxFrames) /\ buf[pos] \in 1..MaxFrames
          BY <1>t, <5>a, ElementOfSeq DEF QueueType
        <5>2. got'[s] = Append(got[s], buf[pos])
          BY <1>9, <1>t, <2>0, <3>4 DEF TrySendOk, QueueType
        <5> QED BY <5>1, <5>2, AppendProperties
      <4>3. /\ UNCHANGED <<read, base, since, cap, received, dropped>>
        BY <1>9 DEF TrySendOk, subVars, statVars, histVars
      <4>n. /\ base[s] \in Nat /\ Len(got[s]) \in Nat /\ Refused(s) \in Nat
            /\ base[s] + Len(got[s]) + Refused(s) = Position(s)
        BY <1>n, <1>b, <3>1 DEF Accounted
      <4>4. base'[s] + Len(got'[s]) + Refused(s)' = Position(s)'
        <5>a. Len(read) \in Nat /\ Len(buf) \in Nat /\ pos \in Nat
          BY <1>n
        <5>b. Len(read) - Len(buf) + pos = (Len(read) - Len(buf) + pos - 1) + 1
          BY <5>a
        <5>1. Position(s)' = Position(s) + 1 /\ Position(s) \in Nat
          BY <1>b, <4>1, <5>b
        <5>2. Len(got'[s]) = Len(got[s]) + 1 /\ base'[s] = base[s]
          BY <4>2, <4>3
        <5> QED BY <4>n, <5>1, <5>2, <3>2
      <4>5. (received[s] + Uncounted(s) = Len(got[s]))'
        BY <1>n, <3>1, <4>1, <4>2, <4>3 DEF Accounted
      <4>6. cap'[s] = Unbounded =>
              /\ Refused(s)' = 0
              /\ \A k \in 1..Len(got'[s]) : got'[s][k] = read'[base'[s] + k]
        <5> SUFFICES ASSUME cap[s] = Unbounded, NEW k \in 1..Len(got[s]) + 1
                     PROVE  /\ Refused(s) = 0
                            /\ got'[s][k] = read[base[s] + k]
          BY <3>2, <4>2, <4>3
        <5>1. /\ Refused(s) = 0
              /\ base[s] + Len(got[s]) = Len(read) - Len(buf) + pos - 1
          BY <1>n, <3>1, <4>1 DEF Accounted
        <5>2. CASE k = Len(got[s]) + 1
          <6>1. base[s] + k = Len(read) - Len(buf) + pos
            BY <1>n, <4>n, <5>1, <5>2, SMTT(30)
          <6>2. got'[s][k] = buf[pos]
            BY <4>2, <5>2
          <6> QED BY <2>0, <5>1, <6>1, <6>2
        <5>3. CASE k # Len(got[s]) + 1
          BY <1>n, <3>1, <4>2, <5>1, <5>3, SMTT(30) DEF Accounted
        <5> QED BY <5>2, <5>3
      <4>7. \A j \in 1..base'[s] : read'[j] <= since'[s]
        BY <3>1, <4>3 DEF Accounted
      <4> QED BY <4>4, <4>5, <4>6, <4>7 DEF Accounted
    <3> QED BY <3>3, <3>4
  <2>2. ASSUME NEW s \in Subs, life'[s] = "none" PROVE Untouched(s)'
    BY <1>9, <1>i, <2>2, <1>t, <2>0
    DEF TrySendOk, AccountInv, Untouched, QueueType, StatType, Shape, subVars,
        queueVars, statVars
  <2> QED BY <2>1, <2>2 DEF AccountInv
<1>10. CASE TrySendFull
  <2>0. /\ cur \in Subs /\ cur \notin todo /\ pos # 0
    BY <1>10, <1>t, <1>i DEF TrySendFull, ThreadType, BatchInv, Shape
  <2>c. cap[cur] # Unbounded
    <3> SUFFICES ASSUME cap[cur] = Unbounded PROVE HasRoom(cur)
      BY <1>10 DEF TrySendFull
    <3>1. cap[cur] # 0
      BY CapacitiesAssumption
    <3> QED BY <3>1 DEF HasRoom
  <2>1. ASSUME NEW s \in Subs, life'[s] = "held" PROVE Accounted(s)'
    <3>1. Accounted(s)
      BY <1>10, <1>i, <2>1 DEF TrySendFull, AccountInv, subVars
    <3>2. UNCHANGED <<read, base, since, cap, got>>
      BY <1>10 DEF TrySendFull, subVars, histVars, queueVars
    <3>3. CASE s # cur
      <4>1. /\ Position(s)' = Position(s) /\ Uncounted(s)' = Uncounted(s)
            /\ Refused(s)' = Refused(s) /\ received'[s] = received[s]
        BY <1>10, <1>t, <1>i, <1>n, <2>0, <3>3
        DEF TrySendFull, Position, Uncounted, Refused, Serving, StatType,
            statVars
      <4> QED
        BY <1>t, <1>p, <3>1, <3>2, <4>1, AccountFrame
    <3>4. CASE s = cur
      <4>1. /\ Position(s)' = Position(s) + 1 /\ Refused(s)' = Refused(s) + 1
            /\ Uncounted(s)' = Uncounted(s) /\ received'[s] = received[s]
        BY <1>10, <1>n, <2>0, <3>4
        DEF TrySendFull, Position, Uncounted, Refused, Serving, statVars
      <4>n. /\ base[s] \in Nat /\ Len(got[s]) \in Nat /\ Refused(s) \in Nat
            /\ base[s] + Len(got[s]) + Refused(s) = Position(s)
        BY <1>n, <1>b, <3>1 DEF Accounted
      <4>2. base'[s] + Len(got'[s]) + Refused(s)' = Position(s)'
        BY <4>n, <3>2, <4>1
      <4>3. received'[s] + Uncounted(s)' = Len(got'[s])
        BY <3>1, <3>2, <4>1 DEF Accounted
      <4>4. cap'[s] # Unbounded
        BY <2>c, <3>2, <3>4
      <4>5. \A j \in 1..base'[s] : read'[j] <= since'[s]
        BY <3>1, <3>2 DEF Accounted
      <4> QED BY <4>2, <4>3, <4>4, <4>5 DEF Accounted
    <3> QED BY <3>3, <3>4
  <2>2. ASSUME NEW s \in Subs, life'[s] = "none" PROVE Untouched(s)'
    BY <1>10, <1>i, <2>2
    DEF TrySendFull, AccountInv, Untouched, subVars, queueVars, statVars
  <2> QED BY <2>1, <2>2 DEF AccountInv
<1>11. CASE TrySendDisconnected
  <2>1. ASSUME NEW s \in Subs, life'[s] = "held" PROVE Accounted(s)'
    <3>1. Accounted(s)
      BY <1>11, <1>t, <1>i, <2>1
      DEF TrySendDisconnected, AccountInv, SubType, subVars
    <3>2. /\ Position(s)' = Position(s)
          /\ Refused(s)' = Refused(s)
          /\ Uncounted(s)' = Uncounted(s)
      BY <1>11, <2>1, <1>t, <1>i, <1>n
      DEF TrySendDisconnected, Position, Uncounted, Refused, Serving, Fanout,
          ThreadType, ListType, SnapshotListed, BatchInv, LiveStaysListed,
          Shape,
          threadVars, statVars, subVars
    <3> QED
      BY <1>11, <1>t, <1>p, <3>1, <3>2, AccountFrame
      DEF TrySendDisconnected, subVars, queueVars, statVars, histVars
  <2>2. ASSUME NEW s \in Subs, life'[s] = "none" PROVE Untouched(s)'
    BY <1>11, <1>i, <2>2
    DEF TrySendDisconnected, AccountInv, Untouched, subVars, queueVars, statVars
  <2> QED BY <2>1, <2>2 DEF AccountInv
<1>12. CASE CountReceived
  <2>0. /\ cur \in Subs /\ cur \notin todo /\ pos # 0
    BY <1>12, <1>t, <1>i DEF CountReceived, ThreadType, BatchInv, Shape
  <2>1. ASSUME NEW s \in Subs, life'[s] = "held" PROVE Accounted(s)'
    <3>1. Accounted(s)
      BY <1>12, <1>i, <2>1 DEF CountReceived, AccountInv, subVars
    <3>2. UNCHANGED <<read, base, since, cap, got>>
      BY <1>12 DEF CountReceived, subVars, histVars, queueVars
    <3>3. CASE s # cur
      <4>1. /\ Position(s)' = Position(s) /\ Uncounted(s)' = Uncounted(s)
            /\ Refused(s)' = Refused(s) /\ received'[s] = received[s]
        BY <1>12, <1>t, <1>i, <1>n, <2>0, <3>3
        DEF CountReceived, NextFrame, Position, Uncounted, Refused, Serving,
            StatType,
            statVars
      <4> QED
        BY <1>t, <1>p, <3>1, <3>2, <4>1, AccountFrame
    <3>4. CASE s = cur
      <4>1. /\ Position(s)' = Position(s) /\ Refused(s)' = Refused(s)
        BY <1>12, <1>n, <2>0, <3>4, SMTT(30)
        DEF CountReceived, NextFrame, Position, Refused, Serving
      <4>2. received'[s] + Uncounted(s)' = received[s] + Uncounted(s)
        BY <1>12, <1>t, <1>n, <2>0, <3>4
        DEF CountReceived, NextFrame, Uncounted, StatType
      <4> QED
        BY <1>n, <3>1, <3>2, <3>4, <4>1, <4>2 DEF Accounted
    <3> QED BY <3>3, <3>4
  <2>2. ASSUME NEW s \in Subs, life'[s] = "none" PROVE Untouched(s)'
    BY <1>12, <1>i, <2>2, <1>t, <2>0
    DEF CountReceived, AccountInv, Untouched, QueueType, StatType, Shape,
        subVars, queueVars, statVars
  <2> QED BY <2>1, <2>2 DEF AccountInv
<1>13. CASE CountDropped
  <2>0. /\ cur \in Subs /\ cur \notin todo /\ pos # 0
    BY <1>13, <1>t, <1>i DEF CountDropped, ThreadType, BatchInv, Shape
  <2>1. ASSUME NEW s \in Subs, life'[s] = "held" PROVE Accounted(s)'
    <3>1. Accounted(s)
      BY <1>13, <1>i, <2>1 DEF CountDropped, AccountInv, subVars
    <3>2. UNCHANGED <<read, base, since, cap, got>>
      BY <1>13 DEF CountDropped, subVars, histVars, queueVars
    <3>3. CASE s # cur
      <4>1. /\ Position(s)' = Position(s) /\ Uncounted(s)' = Uncounted(s)
            /\ Refused(s)' = Refused(s) /\ received'[s] = received[s]
        BY <1>13, <1>t, <1>i, <1>n, <2>0, <3>3
        DEF CountDropped, NextFrame, Position, Uncounted, Refused, Serving,
            StatType,
            statVars
      <4> QED
        BY <1>t, <1>p, <3>1, <3>2, <4>1, AccountFrame
    <3>4. CASE s = cur
      <4>1. /\ Position(s)' = Position(s)
            /\ Uncounted(s)' = Uncounted(s) /\ received'[s] = received[s]
        BY <1>13, <1>n, <2>0, <3>4, SMTT(30)
        DEF CountDropped, NextFrame, Position, Uncounted, Serving
      <4>2. Refused(s)' = Refused(s)
        BY <1>13, <1>t, <1>n, <2>0, <3>4
        DEF CountDropped, NextFrame, Refused, StatType
      <4> QED
        BY <1>n, <3>1, <3>2, <3>4, <4>1, <4>2 DEF Accounted
    <3> QED BY <3>3, <3>4
  <2>2. ASSUME NEW s \in Subs, life'[s] = "none" PROVE Untouched(s)'
    BY <1>13, <1>i, <2>2, <1>t, <2>0
    DEF CountDropped, AccountInv, Untouched, QueueType, StatType, Shape,
        subVars, queueVars, statVars
  <2> QED BY <2>1, <2>2 DEF AccountInv
<1>14. CASE EndFanout
  <2>1. ASSUME NEW s \in Subs, life'[s] = "held" PROVE Accounted(s)'
    <3>1. Accounted(s)
      BY <1>14, <1>t, <1>i, <2>1 DEF EndFanout, AccountInv, SubType, subVars
    <3>2. /\ Position(s)' = Position(s)
          /\ Refused(s)' = Refused(s)
          /\ Uncounted(s)' = Uncounted(s)
      BY <1>14, <2>1, <1>t, <1>i, <1>n
      DEF EndFanout, Position, Uncounted, Refused, Serving, Fanout,
          ThreadType, ListType, SnapshotListed, BatchInv, LiveStaysListed,
          Shape,
          threadVars, statVars, subVars
    <3> QED
      BY <1>14, <1>t, <1>p, <3>1, <3>2, AccountFrame
      DEF EndFanout, subVars, queueVars, statVars, histVars
  <2>2. ASSUME NEW s \in Subs, life'[s] = "none" PROVE Untouched(s)'
    BY <1>14, <1>i, <2>2
    DEF EndFanout, AccountInv, Untouched, subVars, queueVars, statVars
  <2> QED BY <2>1, <2>2 DEF AccountInv
<1>15. CASE Cull
  <2>1. ASSUME NEW s \in Subs, life'[s] = "held" PROVE Accounted(s)'
    <3>1. Accounted(s)
      BY <1>15, <1>t, <1>i, <2>1 DEF Cull, AccountInv, SubType, subVars
    <3>2. /\ Position(s)' = Position(s)
          /\ Refused(s)' = Refused(s)
          /\ Uncounted(s)' = Uncounted(s)
      BY <1>15, <2>1, <1>t, <1>i, <1>n
      DEF Cull, Position, Uncounted, Refused, Serving, Fanout,
          ThreadType, ListType, SnapshotListed, BatchInv, LiveStaysListed,
          Shape,
          threadVars, statVars, subVars
    <3> QED
      BY <1>15, <1>t, <1>p, <3>1, <3>2, AccountFrame
      DEF Cull, subVars, queueVars, statVars, histVars
  <2>2. ASSUME NEW s \in Subs, life'[s] = "none" PROVE Untouched(s)'
    BY <1>15, <1>i, <2>2
    DEF Cull, AccountInv, Untouched, subVars, queueVars, statVars
  <2> QED BY <2>1, <2>2 DEF AccountInv
<1>16. ASSUME NEW t \in Subs, NEW c \in Capacities, NEW a \in Addrs,
              Subscribe(t, c, a)
       PROVE  AccountInv'
  <2>1. ASSUME NEW s \in Subs, life'[s] = "held" PROVE Accounted(s)'
    <3>1. CASE s # t
      <4>1. Accounted(s) /\ UNCHANGED <<base[s], cap[s], since[s]>>
        BY <1>16, <1>t, <1>i, <2>1, <3>1
        DEF Subscribe, AccountInv, SubType, HistType
      <4>2. /\ Position(s)' = Position(s) /\ Uncounted(s)' = Uncounted(s)
            /\ Refused(s)' = Refused(s)
        BY <1>16
        DEF Subscribe, Position, Uncounted, Refused, threadVars, statVars
      <4> QED
        BY <1>16, <1>t, <1>p, <4>1, <4>2, AccountFrame
        DEF Subscribe, queueVars, statVars
    <3>2. CASE s = t
      <4>a. life[s] = "none" /\ Untouched(s)
        BY <1>16, <1>i, <3>2 DEF Subscribe, AccountInv
      <4>b. s \notin snapshot
        BY <4>a, <1>t DEF Shape
      <4>c. s \notin todo
        BY <4>b, <1>t DEF ThreadType
      <4>d. s # cur
        <5>1. CASE pc \in Serving
          BY <5>1, <4>b, <1>t DEF Shape, Serving
        <5>2. CASE pc \notin Serving
          BY <5>2, <1>i, SubsAssumption DEF BatchInv
        <5> QED BY <5>1, <5>2
      <4>0. life[s] = "none" /\ Untouched(s) /\ s # cur /\ s \notin todo
        BY <4>a, <4>c, <4>d
      <4>1. /\ base'[s] = IF pc = "snap"
                           THEN Len(read) - Len(buf) ELSE Len(read)
            /\ since'[s] = arrived
        BY <1>16, <1>t, <3>2 DEF Subscribe, HistType
      <4>2. UNCHANGED <<got, received, dropped, read, buf, pc, cur, pos, todo>>
        BY <1>16 DEF Subscribe, threadVars, queueVars, statVars
      <4>3. /\ Position(s)' = base'[s] /\ Refused(s)' = 0 /\ Uncounted(s)' = 0
            /\ Len(got'[s]) = 0 /\ received'[s] = 0
        BY <4>0, <4>1, <4>2 DEF Position, Refused, Uncounted, Untouched
      <4>4. base'[s] \in Nat /\ base'[s] <= Len(read)
        BY <1>n, <4>1
      <4>5. \A j \in 1..base'[s] : read'[j] <= since'[s]
        BY <1>i, <1>n, <4>1, <4>2, <4>4 DEF BatchInv
      <4> QED BY <4>3, <4>4, <4>5 DEF Accounted
    <3> QED BY <3>1, <3>2
  <2>2. ASSUME NEW s \in Subs, life'[s] = "none" PROVE Untouched(s)'
    BY <1>16, <1>i, <2>2, <1>t
    DEF Subscribe, AccountInv, Untouched, SubType, subVars, queueVars, statVars
  <2> QED BY <2>1, <2>2 DEF AccountInv
<1>17. CASE Shutdown
  <2>1. ASSUME NEW s \in Subs, life'[s] = "held" PROVE Accounted(s)'
    <3>1. Accounted(s)
      BY <1>17, <1>t, <1>i, <2>1 DEF Shutdown, AccountInv, SubType, subVars
    <3>2. /\ Position(s)' = Position(s)
          /\ Refused(s)' = Refused(s)
          /\ Uncounted(s)' = Uncounted(s)
      BY <1>17, <2>1, <1>t, <1>i, <1>n
      DEF Shutdown, Position, Uncounted, Refused, Serving, Fanout,
          ThreadType, ListType, SnapshotListed, BatchInv, LiveStaysListed,
          Shape,
          threadVars, statVars, subVars
    <3> QED
      BY <1>17, <1>t, <1>p, <3>1, <3>2, AccountFrame
      DEF Shutdown, subVars, queueVars, statVars, histVars
  <2>2. ASSUME NEW s \in Subs, life'[s] = "none" PROVE Untouched(s)'
    BY <1>17, <1>i, <2>2
    DEF Shutdown, AccountInv, Untouched, subVars, queueVars, statVars
  <2> QED BY <2>1, <2>2 DEF AccountInv
<1>18. CASE Join
  <2>1. ASSUME NEW s \in Subs, life'[s] = "held" PROVE Accounted(s)'
    <3>1. Accounted(s)
      BY <1>18, <1>t, <1>i, <2>1 DEF Join, AccountInv, SubType, subVars
    <3>2. /\ Position(s)' = Position(s)
          /\ Refused(s)' = Refused(s)
          /\ Uncounted(s)' = Uncounted(s)
      BY <1>18, <2>1, <1>t, <1>i, <1>n
      DEF Join, Position, Uncounted, Refused, Serving, Fanout,
          ThreadType, ListType, SnapshotListed, BatchInv, LiveStaysListed,
          Shape,
          threadVars, statVars, subVars
    <3> QED
      BY <1>18, <1>t, <1>p, <3>1, <3>2, AccountFrame
      DEF Join, subVars, queueVars, statVars, histVars
  <2>2. ASSUME NEW s \in Subs, life'[s] = "none" PROVE Untouched(s)'
    BY <1>18, <1>i, <2>2
    DEF Join, AccountInv, Untouched, subVars, queueVars, statVars
  <2> QED BY <2>1, <2>2 DEF AccountInv
<1>19. ASSUME NEW t \in Subs, NEW kind \in {"recv", "recv_timeout"},
              BeginRecv(t, kind)
       PROVE  AccountInv'
  <2>1. ASSUME NEW s \in Subs, life'[s] = "held" PROVE Accounted(s)'
    <3>1. Accounted(s)
      BY <1>19, <1>t, <1>i, <2>1 DEF BeginRecv, AccountInv, SubType, subVars
    <3>2. /\ Position(s)' = Position(s)
          /\ Refused(s)' = Refused(s)
          /\ Uncounted(s)' = Uncounted(s)
      BY <1>19
      DEF BeginRecv, Position, Uncounted, Refused, threadVars, statVars
    <3> QED
      BY <1>19, <1>t, <1>p, <3>1, <3>2, AccountFrame
      DEF BeginRecv, subVars, queueVars, statVars, histVars
  <2>2. ASSUME NEW s \in Subs, life'[s] = "none" PROVE Untouched(s)'
    BY <1>19, <1>i, <2>2
    DEF BeginRecv, AccountInv, Untouched, subVars, queueVars, statVars
  <2> QED BY <2>1, <2>2 DEF AccountInv
<1>20. ASSUME NEW t \in Subs, RecvReturn(t)
       PROVE  AccountInv'
  <2>1. ASSUME NEW s \in Subs, life'[s] = "held" PROVE Accounted(s)'
    <3>1. Accounted(s)
      BY <1>20, <1>t, <1>i, <2>1 DEF RecvReturn, AccountInv, SubType, subVars
    <3>2. /\ Position(s)' = Position(s)
          /\ Refused(s)' = Refused(s)
          /\ Uncounted(s)' = Uncounted(s)
      BY <1>20
      DEF RecvReturn, Position, Uncounted, Refused, threadVars, statVars
    <3> QED
      BY <1>20, <1>t, <1>p, <3>1, <3>2, AccountFrame
      DEF RecvReturn, subVars, queueVars, statVars, histVars
  <2>2. ASSUME NEW s \in Subs, life'[s] = "none" PROVE Untouched(s)'
    BY <1>20, <1>i, <2>2
    DEF RecvReturn, AccountInv, Untouched, subVars, queueVars, statVars
  <2> QED BY <2>1, <2>2 DEF AccountInv
<1>21. ASSUME NEW t \in Subs, RecvTimesOut(t)
       PROVE  AccountInv'
  <2>1. ASSUME NEW s \in Subs, life'[s] = "held" PROVE Accounted(s)'
    <3>1. Accounted(s)
      BY <1>21, <1>t, <1>i, <2>1 DEF RecvTimesOut, AccountInv, SubType, subVars
    <3>2. /\ Position(s)' = Position(s)
          /\ Refused(s)' = Refused(s)
          /\ Uncounted(s)' = Uncounted(s)
      BY <1>21
      DEF RecvTimesOut, Position, Uncounted, Refused, threadVars, statVars
    <3> QED
      BY <1>21, <1>t, <1>p, <3>1, <3>2, AccountFrame
      DEF RecvTimesOut, subVars, queueVars, statVars, histVars
  <2>2. ASSUME NEW s \in Subs, life'[s] = "none" PROVE Untouched(s)'
    BY <1>21, <1>i, <2>2
    DEF RecvTimesOut, AccountInv, Untouched, subVars, queueVars, statVars
  <2> QED BY <2>1, <2>2 DEF AccountInv
<1>22. ASSUME NEW t \in Subs, TryRecv(t)
       PROVE  AccountInv'
  <2>1. ASSUME NEW s \in Subs, life'[s] = "held" PROVE Accounted(s)'
    <3>1. Accounted(s)
      BY <1>22, <1>t, <1>i, <2>1 DEF TryRecv, AccountInv, SubType, subVars
    <3>2. /\ Position(s)' = Position(s)
          /\ Refused(s)' = Refused(s)
          /\ Uncounted(s)' = Uncounted(s)
      BY <1>22
      DEF TryRecv, Position, Uncounted, Refused, threadVars, statVars
    <3> QED
      BY <1>22, <1>t, <1>p, <3>1, <3>2, AccountFrame
      DEF TryRecv, subVars, queueVars, statVars, histVars
  <2>2. ASSUME NEW s \in Subs, life'[s] = "none" PROVE Untouched(s)'
    BY <1>22, <1>i, <2>2
    DEF TryRecv, AccountInv, Untouched, subVars, queueVars, statVars
  <2> QED BY <2>1, <2>2 DEF AccountInv
<1>23. ASSUME NEW t \in Subs, DropSubscriber(t)
       PROVE  AccountInv'
  <2>1. ASSUME NEW s \in Subs, life'[s] = "held" PROVE Accounted(s)'
    <3>1. Accounted(s)
      BY <1>23, <1>t, <1>i, <2>1
      DEF DropSubscriber, AccountInv, SubType, subVars
    <3>2. /\ Position(s)' = Position(s)
          /\ Refused(s)' = Refused(s)
          /\ Uncounted(s)' = Uncounted(s)
      BY <1>23
      DEF DropSubscriber, Position, Uncounted, Refused, threadVars, statVars
    <3> QED
      BY <1>23, <1>t, <1>p, <3>1, <3>2, AccountFrame
      DEF DropSubscriber, subVars, queueVars, statVars, histVars
  <2>2. ASSUME NEW s \in Subs, life'[s] = "none" PROVE Untouched(s)'
    BY <1>23, <1>i, <2>2, <1>t
    DEF DropSubscriber, AccountInv, Untouched, SubType, subVars, queueVars,
        statVars
  <2> QED BY <2>1, <2>2 DEF AccountInv
<1>24. CASE UNCHANGED vars
  <2>1. ASSUME NEW s \in Subs, life'[s] = "held" PROVE Accounted(s)'
    <3>1. Accounted(s)
      BY <1>24, <1>i, <2>1 DEF vars, AccountInv, subVars
    <3>2. /\ Position(s)' = Position(s)
          /\ Refused(s)' = Refused(s)
          /\ Uncounted(s)' = Uncounted(s)
      BY <1>24 DEF vars, Position, Uncounted, Refused, threadVars, statVars
    <3> QED
      BY <1>24, <1>t, <1>p, <3>1, <3>2, AccountFrame
      DEF vars, subVars, queueVars, statVars, histVars
  <2>2. ASSUME NEW s \in Subs, life'[s] = "none" PROVE Untouched(s)'
    BY <1>24, <1>i, <2>2
    DEF vars, AccountInv, Untouched, subVars, queueVars, statVars
  <2> QED BY <2>1, <2>2 DEF AccountInv
<1> QED
  BY <1>1, <1>2, <1>3, <1>4, <1>5, <1>6, <1>7, <1>8, <1>9, <1>10, <1>11, <1>12,
     <1>13, <1>14, <1>15, <1>16, <1>17, <1>18, <1>19, <1>20, <1>21, <1>22,
     <1>23, <1>24
     DEF Next, ReaderStep, OwnerStep, UserStep

-----------------------------------------------------------------------------
\* The invariant is inductive ...
LEMMA InvNext == Inv /\ [Next]_vars => Inv'
BY TypeNext, ListNext, BatchNext, AccountNext DEF Inv

\* ... and holds in every state.
LEMMA InvAlways == Spec => []Inv
<1>1. Init => Inv
  BY InvInit
<1>2. Inv /\ [Next]_vars => Inv'
  BY InvNext
<1> QED BY <1>1, <1>2, PTL DEF Spec

\* At rest a held subscription stands at the end of the log.
LEMMA AtRestPosition ==
    ASSUME Inv, NEW s \in Subs, life[s] = "held", AtRest
    PROVE  /\ Accounted(s)
           /\ Position(s) = Len(read)
           /\ Refused(s) = dropped[s]
           /\ Uncounted(s) = 0
           /\ base[s] \in Nat /\ Len(got[s]) \in Nat /\ Len(read) \in Nat
           /\ received[s] \in Nat /\ dropped[s] \in Nat
<1>1. Accounted(s)
  BY DEF Inv, AccountInv
<1>2. HistType /\ QueueType /\ StatType /\ ThreadType
  BY DEF Inv, TypeInv, TypeOK
<1>3. todo = {}
  BY <1>2 DEF Inv, ListInv, SnapshotListed, Fanout, AtRest, ThreadType
<1>4. Position(s) = Len(read) /\ Refused(s) = dropped[s] /\ Uncounted(s) = 0
  BY <1>2, <1>3 DEF Position, Refused, Uncounted, AtRest, Serving, StatType
<1>5. /\ base[s] \in Nat /\ Len(got[s]) \in Nat /\ Len(read) \in Nat
      /\ received[s] \in Nat /\ dropped[s] \in Nat
  BY <1>2, LenProperties DEF HistType, QueueType, StatType
<1> QED BY <1>1, <1>4, <1>5

\* Between batches, received and dropped account for each frame offered to a
\* subscription: no interleaving of the thread, the users and the owner loses
\* a count, for any capacities, batch size and number of subscriptions.
THEOREM CountersAccount == Spec => []CountersAccountForEveryFrame
<1>1. Inv => CountersAccountForEveryFrame
  <2> SUFFICES ASSUME Inv, NEW s \in Subs, life[s] = "held", AtRest
               PROVE  /\ received[s] = Len(got[s])
                      /\ received[s] + dropped[s] = Len(read) - base[s]
    BY DEF CountersAccountForEveryFrame
  <2> QED BY AtRestPosition DEF Accounted
<1> QED BY <1>1, InvAlways, PTL

\* Between batches an unbounded subscription has been given exactly the frames
\* read since the one it started from, and those before it had arrived before
\* the subscription was made.
THEOREM EveryFrameSeen == Spec => []SeesEveryFrameSinceCreation
<1>1. Inv => SeesEveryFrameSinceCreation
  <2> SUFFICES ASSUME Inv, NEW s \in Subs, life[s] = "held",
                      cap[s] = Unbounded, AtRest
               PROVE  /\ got[s] = SubSeq(read, base[s] + 1, Len(read))
                      /\ \A i \in 1..base[s] : read[i] <= since[s]
    BY DEF SeesEveryFrameSinceCreation
  <2>1. /\ got[s] \in Seq(1..MaxFrames) /\ read \in Seq(1..MaxFrames)
    BY DEF Inv, TypeInv, TypeOK, QueueType, HistType
  <2>2. /\ base[s] \in Nat /\ Len(got[s]) \in Nat
        /\ base[s] + Len(got[s]) = Len(read)
        /\ \A k \in 1..Len(got[s]) : got[s][k] = read[base[s] + k]
    BY AtRestPosition DEF Accounted
  <2>3. /\ base[s] + 1 \in 1..Len(read) + 1
        /\ Len(read) \in base[s] + 1 - 1..Len(read)
    BY <2>2
  <2> DEFINE rest == SubSeq(read, base[s] + 1, Len(read))
  <2>4. /\ rest \in Seq(1..MaxFrames)
        /\ Len(rest) = Len(read) - (base[s] + 1) + 1
        /\ \A k \in 1..Len(read) - (base[s] + 1) + 1 :
              rest[k] = read[(base[s] + 1) + k - 1]
    <3>1. \A i \in 1..Len(read) + 1 : \A j \in i - 1..Len(read) :
            /\ SubSeq(read, i, j) \in Seq(1..MaxFrames)
            /\ Len(SubSeq(read, i, j)) = j - i + 1
            /\ \A k \in 1..j - i + 1 : SubSeq(read, i, j)[k] = read[i + k - 1]
      BY <2>1, PartType
    <3> DEFINE i == base[s] + 1
    <3>2. /\ SubSeq(read, i, Len(read)) \in Seq(1..MaxFrames)
          /\ Len(SubSeq(read, i, Len(read))) = Len(read) - i + 1
          /\ \A k \in 1..Len(read) - i + 1 :
                SubSeq(read, i, Len(read))[k] = read[i + k - 1]
      <4>1. i \in 1..Len(read) + 1 /\ Len(read) \in i - 1..Len(read)
        BY <2>3
      <4> HIDE DEF i
      <4> QED BY <4>1, <3>1
    <3> QED BY <3>2
  <2> HIDE DEF rest
  <2>l. Len(read) - (base[s] + 1) + 1 = Len(got[s])
    BY <2>2
  <2>k. \A k \in 1..Len(got[s]) : (base[s] + 1) + k - 1 = base[s] + k
    BY <2>2
  <2>5. /\ Len(rest) = Len(got[s])
        /\ \A k \in 1..Len(got[s]) : rest[k] = got[s][k]
    BY <2>2, <2>4, <2>l, <2>k
  <2>6. got[s] = rest
    BY <2>1, <2>4, <2>5, SeqEqual
  <2> QED BY <2>6, AtRestPosition DEF Accounted, rest
<1> QED BY <1>1, InvAlways, PTL

-----------------------------------------------------------------------------
(* The refinement.                                                         *)

\* A step that keeps the log, the queues, the subscriptions and the refusals
\* is not seen by the broadcast.
LEMMA StutterFrame ==
    ASSUME UNCHANGED <<read, life, cap, base, got>>,
           \A s \in Subs : Refused(s)' = Refused(s)
    PROVE  UNCHANGED Abstract!vars
BY DEF Abstract!vars

\* The initial state maps to the broadcast's.
LEMMA RefinesInit == Init => Abstract!Init
<1> SUFFICES ASSUME Init PROVE Abstract!Init
  OBVIOUS
<1>1. [s \in Subs |-> StatusOf[life[s]]] = [s \in Subs |-> "out"]
  BY DEF Init, StatusOf
<1>2. [s \in Subs |-> cap[s] # Unbounded] = [s \in Subs |-> FALSE]
  BY DEF Init
<1>3. [s \in Subs |-> Refused(s)] = [s \in Subs |-> 0]
  BY DEF Init, Refused
<1> QED BY <1>1, <1>2, <1>3 DEF Init, Abstract!Init

\* What the fan-out loop stands on when it sends: a frame of the log, the next
\* one its subscriber was not offered yet.
LEMMA NextOffered ==
    ASSUME Inv, pc = "send", life[cur] # "dropped"
    PROVE  /\ cur \in Subs /\ life[cur] = "held" /\ Accounted(cur)
           /\ Abstract!Cursor(cur) = base[cur] + Len(got[cur]) + dropped[cur]
           /\ Abstract!Cursor(cur) < Len(read)
           /\ buf[pos] = read[Abstract!Cursor(cur) + 1]
           /\ dropped[cur] \in Nat
<1>t. /\ ThreadType /\ SubType /\ QueueType /\ StatType /\ HistType /\ Shape
      /\ BatchInv /\ AccountInv
  BY DEF Inv, TypeInv, TypeOK
<1>1. cur \in Subs /\ life[cur] = "held" /\ pos # 0 /\ cur \notin todo
  BY <1>t DEF ThreadType, SubType, Shape, BatchInv
<1>2. Accounted(cur)
  BY <1>1, <1>t DEF AccountInv
<1>3. Refused(cur) = dropped[cur] /\ dropped[cur] \in Nat
  BY <1>1, <1>t DEF Refused, StatType
<1>4. Abstract!Cursor(cur) = base[cur] + Len(got[cur]) + dropped[cur]
  BY <1>1, <1>3 DEF Abstract!Cursor
<1>5. /\ pos \in 1..Len(buf) /\ Len(buf) \in Nat
      /\ Len(read) \in Nat /\ Len(buf) <= Len(read)
  BY <1>1, <1>t, LenProperties DEF ThreadType, HistType, Shape
<1>6. Position(cur) = Len(read) - Len(buf) + pos - 1
  BY <1>1 DEF Position, Serving
<1>7. Abstract!Cursor(cur) = Len(read) - Len(buf) + pos - 1
  BY <1>2, <1>3, <1>4, <1>6 DEF Accounted
<1>8. buf[pos] = read[Len(read) - Len(buf) + pos]
  BY <1>5, <1>t DEF BatchInv
<1>9. /\ Len(read) - Len(buf) + pos - 1 < Len(read)
      /\ (Len(read) - Len(buf) + pos - 1) + 1 = Len(read) - Len(buf) + pos
  BY <1>5
<1> QED BY <1>1, <1>2, <1>3, <1>4, <1>7, <1>8, <1>9

\* Each step maps to Publish (RecvBatch), Deliver (TrySendOk), Miss
\* (TrySendFull), Join (Subscribe), Leave (DropSubscriber) or a stutter.
LEMMA RefinesNext == Inv /\ [Next]_vars => [Abstract!Next]_Abstract!vars
<1> SUFFICES ASSUME Inv, [Next]_vars
             PROVE  Abstract!Next \/ UNCHANGED Abstract!vars
  OBVIOUS
<1>t. /\ KernelType /\ ThreadType /\ SubType /\ QueueType /\ StatType
      /\ HistType /\ Shape
  BY DEF Inv, TypeInv, TypeOK
<1>1. CASE Arrive
  <2>1. UNCHANGED <<read, life, cap, base, got>>
    BY <1>1 DEF Arrive, subVars, queueVars, histVars
  <2>2. \A s \in Subs : Refused(s)' = Refused(s)
    BY <1>1 DEF Arrive, Refused, threadVars, statVars
  <2> QED BY <2>1, <2>2, StutterFrame
<1>2. CASE CheckStop
  <2>1. UNCHANGED <<read, life, cap, base, got>>
    BY <1>2 DEF CheckStop, subVars, queueVars, histVars
  <2>2. \A s \in Subs : Refused(s)' = Refused(s)
    BY <1>2 DEF CheckStop, Refused, threadVars, statVars
  <2> QED BY <2>1, <2>2, StutterFrame
<1>3. CASE RecvBatch
  <2>1. buf' \in Seq(1..MaxFrames) /\ Len(buf') # 0 /\ Len(buf') \in Nat
    <3>1. PICK k \in 1..Len(rxq) : buf' = SubSeq(rxq, 1, k)
      BY <1>3, <1>t, ActiveType, LenProperties DEF RecvBatch, Min2, KernelType
    <3>2. rxq \in Seq(1..MaxFrames)
      BY <1>t DEF KernelType
    <3>3. /\ SubSeq(rxq, 1, k) \in Seq(1..MaxFrames)
          /\ Len(SubSeq(rxq, 1, k)) = k
      BY <3>2, TakeProperties
    <3> QED BY <3>1, <3>3
  <2>2. /\ read' = read \o buf' /\ read \in Seq(1..MaxFrames)
    BY <1>3, <1>t DEF RecvBatch, HistType
  <2>3. /\ read' \in Seq(1..MaxFrames)
        /\ Len(read') = Len(read) + Len(buf') /\ Len(read) \in Nat
        /\ \A i \in 1..Len(read) : read'[i] = read[i]
    BY <2>1, <2>2, ConcatProperties, LenProperties
  <2>4. SubSeq(read', 1, Len(read)) = read
    <3>1. 1 \in 1..Len(read') + 1 /\ Len(read) \in 1 - 1..Len(read')
      BY <2>1, <2>3
    <3>2. /\ SubSeq(read', 1, Len(read)) \in Seq(1..MaxFrames)
          /\ Len(SubSeq(read', 1, Len(read))) = Len(read) - 1 + 1
          /\ \A k \in 1..Len(read) - 1 + 1 :
                SubSeq(read', 1, Len(read))[k] = read'[1 + k - 1]
      BY <2>3, <3>1, PartType
    <3> DEFINE part == SubSeq(read', 1, Len(read))
    <3>3. part \in Seq(1..MaxFrames)
      BY <3>2
    <3>4. Len(part) = Len(read) /\ \A k \in 1..Len(read) : part[k] = read[k]
      BY <2>3, <3>2
    <3> HIDE DEF part
    <3>5. part = read
      BY <2>2, <3>3, <3>4, SeqEqual
    <3> QED BY <3>5 DEF part
  <2>5. UNCHANGED <<life, cap, base, got>>
    BY <1>3 DEF RecvBatch, subVars, queueVars, histVars
  <2>6. \A s \in Subs : Refused(s)' = Refused(s)
    BY <1>3 DEF RecvBatch, Refused, statVars
  <2>7. Abstract!Publish
    BY <2>1, <2>3, <2>4, <2>5, <2>6 DEF Abstract!Publish
  <2> QED BY <2>7 DEF Abstract!Next
<1>4. CASE RecvNothing
  <2>1. UNCHANGED <<read, life, cap, base, got>>
    BY <1>4 DEF RecvNothing, subVars, queueVars, histVars
  <2>2. \A s \in Subs : Refused(s)' = Refused(s)
    BY <1>4 DEF RecvNothing, Refused, threadVars, statVars
  <2> QED BY <2>1, <2>2, StutterFrame
<1>5. CASE RecvError
  <2>1. UNCHANGED <<read, life, cap, base, got>>
    BY <1>5 DEF RecvError, subVars, queueVars, histVars
  <2>2. \A s \in Subs : Refused(s)' = Refused(s)
    BY <1>5 DEF RecvError, Refused, threadVars, statVars
  <2> QED BY <2>1, <2>2, StutterFrame
<1>6. CASE Wake
  <2>1. UNCHANGED <<read, life, cap, base, got>>
    BY <1>6 DEF Wake, subVars, queueVars, histVars
  <2>2. \A s \in Subs : Refused(s)' = Refused(s)
    BY <1>6 DEF Wake, Refused, threadVars, statVars
  <2> QED BY <2>1, <2>2, StutterFrame
<1>7. CASE Snapshot
  <2>1. UNCHANGED <<read, life, cap, base, got>>
    BY <1>7 DEF Snapshot, subVars, queueVars, histVars
  <2>2. \A s \in Subs : Refused(s)' = Refused(s)
    BY <1>7 DEF Snapshot, Refused, threadVars, statVars
  <2> QED BY <2>1, <2>2, StutterFrame
<1>8. CASE PickSub
  <2>1. UNCHANGED <<read, life, cap, base, got>>
    BY <1>8 DEF PickSub, subVars, queueVars, histVars
  <2>2. \A s \in Subs : Refused(s)' = Refused(s)
    BY <1>8 DEF PickSub, Refused, threadVars, statVars
  <2> QED BY <2>1, <2>2, StutterFrame
<1>9. CASE TrySendOk
  <2>1. /\ cur \in Subs /\ life[cur] = "held"
        /\ Abstract!Cursor(cur) < Len(read)
        /\ buf[pos] = read[Abstract!Cursor(cur) + 1]
    BY <1>9, NextOffered DEF TrySendOk
  <2>2. UNCHANGED <<read, life, cap, base>>
    BY <1>9 DEF TrySendOk, subVars, histVars
  <2>3. \A s \in Subs : Refused(s)' = Refused(s)
    BY <1>9 DEF TrySendOk, Refused, statVars
  <2>4. got' = [got EXCEPT ![cur] = Append(@, read[Abstract!Cursor(cur) + 1])]
    BY <1>9, <2>1 DEF TrySendOk
  <2>5. Abstract!Deliver(cur)
    BY <2>1, <2>2, <2>3, <2>4 DEF Abstract!Deliver, StatusOf
  <2> QED BY <2>1, <2>5 DEF Abstract!Next
<1>10. CASE TrySendFull
  <2>1. /\ cur \in Subs /\ life[cur] = "held" /\ dropped[cur] \in Nat
        /\ Abstract!Cursor(cur) < Len(read)
    BY <1>10, NextOffered DEF TrySendFull
  <2>2. UNCHANGED <<read, life, cap, base, got, dropped, cur>>
    BY <1>10 DEF TrySendFull, subVars, histVars, queueVars, statVars
  <2>3. cap[cur] # Unbounded
    <3> SUFFICES ASSUME cap[cur] = Unbounded PROVE HasRoom(cur)
      BY <1>10 DEF TrySendFull
    <3>1. cap[cur] # 0
      BY CapacitiesAssumption
    <3> QED BY <3>1 DEF HasRoom
  <2>4. \A s \in Subs :
           Refused(s)' = IF s = cur THEN Refused(s) + 1 ELSE Refused(s)
    BY <1>10, <1>t, <2>2 DEF TrySendFull, Refused, StatType
  <2>5. [s \in Subs |-> Refused(s)'] =
           [[s \in Subs |-> Refused(s)] EXCEPT ![cur] = @ + 1]
    BY <2>1, <2>4
  <2>6. /\ [s \in Subs |-> StatusOf[life[s]]][cur] = "in"
        /\ [s \in Subs |-> cap[s] # Unbounded][cur]
    <3>1. [s \in Subs |-> StatusOf[life[s]]][cur] = "in"
      BY <2>1 DEF StatusOf
    <3>2. [s \in Subs |-> cap[s] # Unbounded][cur]
      BY <2>1, <2>3, Zenon
    <3> QED BY <3>1, <3>2
  <2>7. /\ [s \in Subs |-> StatusOf[life[s]]]'
              = [s \in Subs |-> StatusOf[life[s]]]
        /\ [s \in Subs |-> cap[s] # Unbounded]'
              = [s \in Subs |-> cap[s] # Unbounded]
    BY <2>2
  <2>8. Abstract!Miss(cur)
    BY <2>1, <2>2, <2>5, <2>6, <2>7, Zenon DEF Abstract!Miss
  <2> QED BY <2>1, <2>8 DEF Abstract!Next
<1>11. CASE TrySendDisconnected
  <2>1. UNCHANGED <<read, life, cap, base, got>>
    BY <1>11 DEF TrySendDisconnected, subVars, queueVars, histVars
  <2>2. \A s \in Subs : Refused(s)' = Refused(s)
    BY <1>11 DEF TrySendDisconnected, Refused, threadVars, statVars
  <2> QED BY <2>1, <2>2, StutterFrame
<1>12. CASE CountReceived
  <2>1. UNCHANGED <<read, life, cap, base, got>>
    BY <1>12 DEF CountReceived, subVars, queueVars, histVars
  <2>2. \A s \in Subs : Refused(s)' = Refused(s)
    BY <1>12 DEF CountReceived, NextFrame, Refused, threadVars, statVars
  <2> QED BY <2>1, <2>2, StutterFrame
<1>13. CASE CountDropped
  <2>1. UNCHANGED <<read, life, cap, base, got>>
    BY <1>13 DEF CountDropped, subVars, queueVars, histVars
  <2>2. \A s \in Subs : Refused(s)' = Refused(s)
    BY <1>13, <1>t DEF CountDropped, NextFrame, Refused, StatType
  <2> QED BY <2>1, <2>2, StutterFrame
<1>14. CASE EndFanout
  <2>1. UNCHANGED <<read, life, cap, base, got>>
    BY <1>14 DEF EndFanout, subVars, queueVars, histVars
  <2>2. \A s \in Subs : Refused(s)' = Refused(s)
    BY <1>14 DEF EndFanout, Refused, threadVars, statVars
  <2> QED BY <2>1, <2>2, StutterFrame
<1>15. CASE Cull
  <2>1. UNCHANGED <<read, life, cap, base, got>>
    BY <1>15 DEF Cull, subVars, queueVars, histVars
  <2>2. \A s \in Subs : Refused(s)' = Refused(s)
    BY <1>15 DEF Cull, Refused, threadVars, statVars
  <2> QED BY <2>1, <2>2, StutterFrame
<1>16. ASSUME NEW t \in Subs, NEW c \in Capacities, NEW a \in Addrs,
              Subscribe(t, c, a)
       PROVE  Abstract!Next
  <2>1. UNCHANGED <<read, got>> /\ \A s \in Subs : Refused(s)' = Refused(s)
    BY <1>16 DEF Subscribe, Refused, threadVars, queueVars, statVars
  <2>2. life[t] = "none" /\ life' = [life EXCEPT ![t] = "held"]
    BY <1>16 DEF Subscribe
  <2>3. [s \in Subs |-> StatusOf[life'[s]]] =
           [[s \in Subs |-> StatusOf[life[s]]] EXCEPT ![t] = "in"]
    BY <2>2, <1>t DEF StatusOf, SubType
  <2>4. [s \in Subs |-> cap'[s] # Unbounded] =
           [[s \in Subs |-> cap[s] # Unbounded] EXCEPT ![t] = (c # Unbounded)]
    BY <1>16, <1>t DEF Subscribe, SubType
  <2>5. PICK i \in 0..Len(read) : base' = [base EXCEPT ![t] = i]
    <3>1. /\ Len(read) \in Nat /\ Len(buf) \in Nat /\ Len(buf) <= Len(read)
      BY <1>t, LenProperties DEF HistType, ThreadType, Shape
    <3> DEFINE i == IF pc = "snap" THEN Len(read) - Len(buf) ELSE Len(read)
    <3>2. i \in 0..Len(read)
      BY <3>1
    <3>3. base' = [base EXCEPT ![t] = i]
      BY <1>16 DEF Subscribe
    <3> HIDE DEF i
    <3> QED BY <3>2, <3>3
  <2>6. Abstract!Join(t)
    <3>1. [s \in Subs |-> StatusOf[life[s]]][t] = "out"
      BY <2>2 DEF StatusOf
    <3>2. \E l \in BOOLEAN :
             [s \in Subs |-> cap[s] # Unbounded]' =
                [[s \in Subs |-> cap[s] # Unbounded] EXCEPT ![t] = l]
      BY <2>4
    <3>3. [s \in Subs |-> Refused(s)]' = [s \in Subs |-> Refused(s)]
      BY <2>1
    <3> QED BY <2>1, <2>3, <2>5, <3>1, <3>2, <3>3, Zenon DEF Abstract!Join
  <2> QED BY <2>6 DEF Abstract!Next
<1>17. CASE Shutdown
  <2>1. UNCHANGED <<read, life, cap, base, got>>
    BY <1>17 DEF Shutdown, subVars, queueVars, histVars
  <2>2. \A s \in Subs : Refused(s)' = Refused(s)
    BY <1>17 DEF Shutdown, Refused, threadVars, statVars
  <2> QED BY <2>1, <2>2, StutterFrame
<1>18. CASE Join
  <2>1. UNCHANGED <<read, life, cap, base, got>>
    BY <1>18 DEF Join, subVars, queueVars, histVars
  <2>2. \A s \in Subs : Refused(s)' = Refused(s)
    BY <1>18 DEF Join, Refused, threadVars, statVars
  <2> QED BY <2>1, <2>2, StutterFrame
<1>19. ASSUME NEW t \in Subs, NEW kind \in {"recv", "recv_timeout"},
              BeginRecv(t, kind)
       PROVE  UNCHANGED Abstract!vars
  <2>1. UNCHANGED <<read, life, cap, base, got>>
    BY <1>19 DEF BeginRecv, subVars, queueVars, histVars
  <2>2. \A s \in Subs : Refused(s)' = Refused(s)
    BY <1>19 DEF BeginRecv, Refused, threadVars, statVars
  <2> QED BY <2>1, <2>2, StutterFrame
<1>20. ASSUME NEW t \in Subs, RecvReturn(t)
       PROVE  UNCHANGED Abstract!vars
  <2>1. UNCHANGED <<read, life, cap, base, got>>
    BY <1>20 DEF RecvReturn, subVars, queueVars, histVars
  <2>2. \A s \in Subs : Refused(s)' = Refused(s)
    BY <1>20 DEF RecvReturn, Refused, threadVars, statVars
  <2> QED BY <2>1, <2>2, StutterFrame
<1>21. ASSUME NEW t \in Subs, RecvTimesOut(t)
       PROVE  UNCHANGED Abstract!vars
  <2>1. UNCHANGED <<read, life, cap, base, got>>
    BY <1>21 DEF RecvTimesOut, subVars, queueVars, histVars
  <2>2. \A s \in Subs : Refused(s)' = Refused(s)
    BY <1>21 DEF RecvTimesOut, Refused, threadVars, statVars
  <2> QED BY <2>1, <2>2, StutterFrame
<1>22. ASSUME NEW t \in Subs, TryRecv(t)
       PROVE  UNCHANGED Abstract!vars
  <2>1. UNCHANGED <<read, life, cap, base, got>>
    BY <1>22 DEF TryRecv, subVars, queueVars, histVars
  <2>2. \A s \in Subs : Refused(s)' = Refused(s)
    BY <1>22 DEF TryRecv, Refused, threadVars, statVars
  <2> QED BY <2>1, <2>2, StutterFrame
<1>23. ASSUME NEW t \in Subs, DropSubscriber(t)
       PROVE  Abstract!Next
  <2>1. /\ UNCHANGED <<read, cap, base, got>>
        /\ \A s \in Subs : Refused(s)' = Refused(s)
    BY <1>23 DEF DropSubscriber, Refused, threadVars, queueVars, statVars
  <2>2. life[t] = "held" /\ life' = [life EXCEPT ![t] = "dropped"]
    BY <1>23 DEF DropSubscriber
  <2>3. [s \in Subs |-> StatusOf[life'[s]]] =
           [[s \in Subs |-> StatusOf[life[s]]] EXCEPT ![t] = "gone"]
    BY <2>2, <1>t DEF StatusOf, SubType
  <2>4. Abstract!Leave(t)
    BY <2>1, <2>2, <2>3 DEF Abstract!Leave, StatusOf
  <2> QED BY <2>4 DEF Abstract!Next
<1>24. CASE UNCHANGED vars
  <2>1. UNCHANGED <<read, life, cap, base, got>>
    BY <1>24 DEF vars, subVars, queueVars, histVars
  <2>2. \A s \in Subs : Refused(s)' = Refused(s)
    BY <1>24 DEF vars, Refused, threadVars, statVars
  <2> QED BY <2>1, <2>2, StutterFrame
<1> QED
  BY <1>1, <1>2, <1>3, <1>4, <1>5, <1>6, <1>7, <1>8, <1>9, <1>10, <1>11, <1>12,
     <1>13, <1>14, <1>15, <1>16, <1>17, <1>18, <1>19, <1>20, <1>21, <1>22,
     <1>23, <1>24
  DEF Next, ReaderStep, OwnerStep, UserStep

\* Every behaviour of the fan-out reader is one of the broadcast: whatever the
\* thread, the owner and the users interleave, a subscription is only ever
\* given the next frame of the log, or refused it if its queue is bounded.
THEOREM Refinement == Spec => ImplementsBroadcast
<1>1. Init => Abstract!Init
  BY RefinesInit
<1>2. Inv /\ [Next]_vars => [Abstract!Next]_Abstract!vars
  BY RefinesNext
<1> QED
  BY <1>1, <1>2, InvAlways, PTL DEF Spec, ImplementsBroadcast, Abstract!Safe

=============================================================================
