--------------------------- MODULE CanSocketProofs ---------------------------
(***************************************************************************)
(* Proofs about CanSocket, for every set of threads, descriptor numbers,   *)
(* kernel sockets, options, calls and kinds of frames, and every bound.    *)
(***************************************************************************)
EXTENDS CanSocket, SequenceTheorems, FiniteSetTheorems,
        WellFoundedInduction, TLAPS

USE FdsAssumption, SocketsAssumption, OptsAssumption, CallsAssumption,
    SendAssumption, BoundsAssumption, KindsAssumption

-----------------------------------------------------------------------------
(* The inductive invariant.                                                *)

KernelSockets ==
    [state: {"unused", "open", "freed"}, bound: BOOLEAN,
     filter: {"default", "match", "empty"}, err: BOOLEAN, fd: BOOLEAN,
     timeo: {"forever", "expires"}, nonblock: BOOLEAN,
     wish: Opts \cup {NoSocket}, refused: BOOLEAN]

Owned == handles \cup raws

KernelTypes ==
    /\ fdTable \in [Fds -> Sockets \cup {NoSocket}]
    /\ kern \in [Sockets -> KernelSockets]
    /\ queue \in [Sockets -> Seq(Frames)]
    /\ \A k \in Sockets : Len(queue[k]) <= RcvBuf
    /\ arrived \in 0..MaxFrames

ThreadTypes ==
    /\ pc \in [Threads -> OpenSteps \cup Calls \cup {"idle"}]
    /\ opts \in [Threads -> Opts]
    /\ guard \in [Threads -> Fds \cup {NoFd}]
    /\ \A t \in Threads : guard[t] # NoFd <=> pc[t] \in OpenSteps \ {"socket"}
    /\ handles \subseteq Handle /\ raws \subseteq Handle

\* A call borrows a live Socket; nothing else does.
UseInv ==
    /\ using \in [Threads -> Handle \cup {NoHandle}]
    /\ \A t \in Threads :
        /\ pc[t] \in Receives \cup {"send"} => using[t] \in handles
        /\ pc[t] \notin Receives \cup {"send"} => using[t] = NoHandle

\* A kernel socket that a descriptor refers to is open; one that is bound is,
\* too, and has got the options it was opened with.
KernelInv ==
    /\ \A f \in Fds : fdTable[f] # NoSocket => kern[fdTable[f]].state = "open"
    /\ \A k \in Sockets : kern[k].bound =>
        /\ kern[k].state = "open"
        /\ kern[k].wish \in Opts
        /\ kern[k].filter = FilterOf(kern[k].wish)
        /\ kern[k].err = kern[k].wish.err
        /\ kern[k].fd => kern[k].wish.fd

\* A socket that is not bound has heard nothing, and what a bound one has
\* queued passes its options.
QueueInv ==
    \A k \in Sockets :
        /\ ~kern[k].bound => queue[k] = <<>>
        /\ \A i \in 1..Len(queue[k]) :
             Passes(queue[k][i].kind, kern[k].filter, kern[k].err, kern[k].fd)

\* The socket in the guard of an open under way: this descriptor alone refers
\* to it, it is not bound, and has the options of the steps already taken.
OpenInv ==
    \A t \in Threads : guard[t] # NoFd =>
        LET k == fdTable[guard[t]]
        IN  /\ k \in Sockets
            /\ \A f \in Fds \ {guard[t]} : fdTable[f] # k
            /\ ~kern[k].bound
            /\ kern[k].wish = opts[t]
            /\ pc[t] \in {"filter", "err_filter", "tune", "bind"} =>
                 (kern[k].fd => opts[t].fd)
            /\ pc[t] \in {"err_filter", "tune", "bind"} =>
                 kern[k].filter = FilterOf(opts[t])
            /\ pc[t] \in {"tune", "bind"} => kern[k].err = opts[t].err

\* Handles, released descriptors and guards share out the open descriptors.
OwnInv ==
    /\ \A h \in Owned : fdTable[h.fd] = h.of /\ kern[h.of].bound
    /\ \A h, g \in Owned : h.fd = g.fd => h = g
    /\ handles \cap raws = {}
    /\ \A h \in Owned, t \in Threads : guard[t] # h.fd
    /\ \A t, u \in Threads : guard[t] # NoFd /\ guard[t] = guard[u] => t = u
    /\ \A f \in Fds : fdTable[f] # NoSocket =>
        (\E h \in Owned : h.fd = f) \/ \E t \in Threads : guard[t] = f

\* What is on the bus is what was reported, and during a send what the kernel
\* has accepted of it.
SendInv ==
    \A t \in Threads :
        /\ reported[t] \in 0..MaxSent
        /\ count[t] \in 0..MaxBatch
        /\ accepted[t] \in 0..count[t]
        /\ onBus[t] \in Seq(1..MaxSent)
        /\ pc[t] = "send" =>
             /\ reported[t] + count[t] <= MaxSent
             /\ Len(onBus[t]) = reported[t] + accepted[t]
        /\ pc[t] # "send" => Len(onBus[t]) = reported[t] /\ accepted[t] = 0
        /\ \A i \in 1..Len(onBus[t]) : onBus[t][i] = i

SendTypes ==
    /\ reported \in [Threads -> Int] /\ count \in [Threads -> Int]
    /\ accepted \in [Threads -> Int] /\ onBus \in [Threads -> Seq(Int)]

ReceiveInv ==
    /\ out \in [Threads -> [1..Slots -> Frames]]
    /\ taken \in [Threads -> Seq(TakenFrames)]
    /\ got \in [Threads -> Seq(Frames)]
    /\ \A t \in Threads : got[t] = Due(taken[t])

IInv ==
    /\ KernelTypes /\ ThreadTypes /\ UseInv
    /\ KernelInv /\ QueueInv /\ OpenInv /\ OwnInv
    /\ SendTypes /\ SendInv /\ ReceiveInv
-----------------------------------------------------------------------------
(* The operators.                                                          *)

\* The least-number principle, from which induction over a batch is done.
LEMMA LeastNumber ==
    ASSUME NEW T \in SUBSET Nat, T # {}
    PROVE  \E m \in T : \A k \in T : m <= k
<1>1. PICK m \in T : \A k \in T : ~(<<k, m>> \in OpToRel(<, Nat))
  BY WFMin, NatLessThanWellFounded
<1>2. \A k \in T : ~(k < m)
  BY <1>1 DEF OpToRel
<1> QED
  BY <1>2

LEMMA MinLemma ==
    ASSUME NEW T \in SUBSET Nat, T # {}
    PROVE  Min(T) \in T /\ \A k \in T : Min(T) <= k
  BY LeastNumber DEF Min

\* The kernel gives out a descriptor number that is free.
LEMMA FreeLemma ==
    ASSUME FreeFds # {}
    PROVE  Min(FreeFds) \in Fds /\ fdTable[Min(FreeFds)] = NoSocket
<1>1. FreeFds \in SUBSET Nat
  BY DEF FreeFds
<1>2. Min(FreeFds) \in FreeFds
  BY <1>1, MinLemma
<1> QED
  BY <1>2 DEF FreeFds

LEMMA HandOverLemma ==
    ASSUME NEW len \in Nat
    PROVE  HandOver(len) \in 0..MaxBatch /\ HandOver(len) <= len
<1>1. {len, MaxBatch} \in SUBSET Nat
  OBVIOUS
<1>2. Min({len, MaxBatch}) \in {len, MaxBatch}
  BY <1>1, MinLemma
<1>3. Min({len, MaxBatch}) <= len /\ Min({len, MaxBatch}) <= MaxBatch
  BY <1>1, MinLemma
<1> QED
  BY <1>2, <1>3 DEF HandOver

LEMMA FilterOfType ==
    ASSUME NEW o \in Opts
    PROVE  FilterOf(o) \in {"default", "match", "empty"}
  BY DEF FilterOf

\* A filter that was asked for FD frames lets no less through.
LEMMA PassesMonotone ==
    ASSUME NEW kind, NEW filter, NEW err, NEW fd \in BOOLEAN,
           NEW fd2 \in BOOLEAN, fd => fd2, Passes(kind, filter, err, fd)
    PROVE  Passes(kind, filter, err, fd2)
  BY DEF Passes

\* f[i] holds the items among the first i that are to be kept.
Picks(keep, item, f, n) ==
    f = [i \in 0..n |->
            IF i = 0 THEN <<>>
            ELSE IF keep[i] THEN Append(f[i - 1], item[i])
            ELSE f[i - 1]]

LEMMA PicksStep ==
    ASSUME NEW n \in Nat, NEW keep, NEW item, NEW f, Picks(keep, item, f, n)
    PROVE  /\ f[0] = <<>>
           /\ \A i \in 1..n :
                f[i] = IF keep[i] THEN Append(f[i - 1], item[i]) ELSE f[i - 1]
<1>1. \A i \in 0..n :
        f[i] = IF i = 0 THEN <<>>
               ELSE IF keep[i] THEN Append(f[i - 1], item[i])
               ELSE f[i - 1]
  BY DEF Picks
<1> QED
  BY <1>1

\* Such a function exists, and f[i] has at most i items.
LEMMA PicksExist ==
    ASSUME NEW S, NEW length \in Nat, NEW keep, NEW item \in [1..length -> S]
    PROVE  \A n \in 0..length : \E f :
             /\ Picks(keep, item, f, n)
             /\ \A i \in 0..n : f[i] \in Seq(S) /\ Len(f[i]) <= i
<1> DEFINE Fine(f, n) ==
             /\ Picks(keep, item, f, n)
             /\ \A i \in 0..n : f[i] \in Seq(S) /\ Len(f[i]) <= i
           Bad == {n \in 0..length : ~\E f : Fine(f, n)}
<1> SUFFICES ASSUME Bad # {} PROVE FALSE
  OBVIOUS
<1>1. PICK n \in Bad : \A k \in Bad : n <= k
  <2>1. Bad \in SUBSET Nat
    OBVIOUS
  <2> HIDE DEF Bad
  <2> QED
    BY <2>1, LeastNumber
<1>2. n # 0
  <2>1. Fine([i \in 0..0 |-> <<>>], 0)
    BY DEF Picks
  <2> QED
    BY <2>1
<1>3. PICK f : Fine(f, n - 1)
  BY <1>1, <1>2
<1> DEFINE g == [i \in 0..n |->
                    IF i = 0 THEN <<>>
                    ELSE IF keep[i] THEN Append(f[i - 1], item[i])
                    ELSE f[i - 1]]
<1>4. \A i \in 0..n - 1 :
         f[i] = IF i = 0 THEN <<>>
                ELSE IF keep[i] THEN Append(f[i - 1], item[i])
                ELSE f[i - 1]
  BY <1>3 DEF Picks
<1>5. \A i \in 0..n - 1 : g[i] = f[i]
  BY <1>4
<1>6. Picks(keep, item, g, n)
  <2>1. \A i \in 0..n : i # 0 => g[i - 1] = f[i - 1]
    <3> HIDE DEF g
    <3> QED
      BY <1>5
  <2>2. \A i \in 0..n :
           g[i] = IF i = 0 THEN <<>>
                  ELSE IF keep[i] THEN Append(g[i - 1], item[i])
                  ELSE g[i - 1]
    BY <2>1
  <2>3. g = [i \in 0..n |-> g[i]]
    OBVIOUS
  <2> HIDE DEF g
  <2> QED
    BY <2>2, <2>3 DEF Picks
<1>7. g[n] = IF keep[n] THEN Append(f[n - 1], item[n]) ELSE f[n - 1]
  BY <1>2
<1>8. f[n - 1] \in Seq(S) /\ Len(f[n - 1]) <= n - 1 /\ item[n] \in S
  BY <1>2, <1>3
<1>9. g[n] \in Seq(S) /\ Len(g[n]) <= n
  <2> HIDE DEF g
  <2> QED
    BY <1>7, <1>8
<1>10. \A i \in 0..n : g[i] \in Seq(S) /\ Len(g[i]) <= i
  <2> HIDE DEF g
  <2> QED
    BY <1>3, <1>5, <1>9
<1> QED
  BY <1>6, <1>10

\* Two of them agree as far as what they pick from does.
LEMMA PicksAgree ==
    ASSUME NEW m \in Nat, NEW n \in 0..m,
           NEW keep1, NEW keep2, NEW item1, NEW item2, NEW f, NEW g,
           Picks(keep1, item1, f, n), Picks(keep2, item2, g, m),
           \A i \in 1..n : (keep1[i] <=> keep2[i]) /\ item1[i] = item2[i]
    PROVE  \A i \in 0..n : f[i] = g[i]
<1> DEFINE Bad == {i \in 0..n : f[i] # g[i]}
<1> SUFFICES ASSUME Bad # {} PROVE FALSE
  OBVIOUS
<1>1. PICK i \in Bad : \A k \in Bad : i <= k
  <2>1. Bad \in SUBSET Nat
    OBVIOUS
  <2> HIDE DEF Bad
  <2> QED
    BY <2>1, LeastNumber
<1>2. f[0] = <<>> /\ g[0] = <<>>
  BY PicksStep
<1>3. i \in 1..n /\ i \in 1..m /\ f[i - 1] = g[i - 1]
  BY <1>1, <1>2
<1>4. f[i] = IF keep1[i] THEN Append(f[i - 1], item1[i]) ELSE f[i - 1]
  BY <1>3, PicksStep
<1>5. g[i] = IF keep2[i] THEN Append(g[i - 1], item2[i]) ELSE g[i - 1]
  BY <1>3, PicksStep
<1> QED
  BY <1>3, <1>4, <1>5

DataFlags(batch) == [i \in 1..Len(batch) |-> IsData(batch[i])]

LEMMA DataOfPicks ==
    ASSUME NEW batch \in Seq(Frames)
    PROVE  \E f : /\ Picks(DataFlags(batch), batch, f, Len(batch))
                  /\ \A i \in 0..Len(batch) :
                       f[i] \in Seq(Frames) /\ Len(f[i]) <= i
                  /\ DataOf(batch) = f[Len(batch)]
<1> DEFINE n == Len(batch)
           UpTo(f) == f = [i \in 0..n |->
                             IF i = 0 THEN <<>>
                             ELSE IF IsData(batch[i]) THEN Append(f[i - 1], batch[i])
                             ELSE f[i - 1]]
           F == CHOOSE f : UpTo(f)
<1>1. n \in Nat /\ batch \in [1..n -> Frames] /\ n \in 0..n
  OBVIOUS
<1>2. \A f : UpTo(f) <=> Picks(DataFlags(batch), batch, f, n)
  <2> TAKE f
  <2>1. \A i \in 1..n : DataFlags(batch)[i] = IsData(batch[i])
    BY DEF DataFlags
  <2>2. [i \in 0..n |-> IF i = 0 THEN <<>>
                        ELSE IF IsData(batch[i]) THEN Append(f[i - 1], batch[i])
                        ELSE f[i - 1]]
        = [i \in 0..n |-> IF i = 0 THEN <<>>
                          ELSE IF DataFlags(batch)[i] THEN Append(f[i - 1], batch[i])
                          ELSE f[i - 1]]
    BY <1>1, <2>1
  <2> QED
    BY <2>2 DEF Picks
<1>3. PICK g : /\ Picks(DataFlags(batch), batch, g, n)
               /\ \A i \in 0..n : g[i] \in Seq(Frames) /\ Len(g[i]) <= i
  BY <1>1, PicksExist
<1>4. DataOf(batch) = F[n]
  BY DEF DataOf
<1>5. UpTo(F)
  <2> HIDE DEF UpTo
  <2> QED
    BY <1>2, <1>3
<1>6. Picks(DataFlags(batch), batch, F, n)
  BY <1>2, <1>5
<1> HIDE DEF F
<1>7. \A i \in 0..n : F[i] = g[i]
  BY <1>1, <1>3, <1>6, PicksAgree
<1> QED
  BY <1>1, <1>3, <1>4, <1>6, <1>7

LEMMA DataOfLemma ==
    ASSUME NEW batch \in Seq(Frames)
    PROVE  DataOf(batch) \in Seq(Frames) /\ Len(DataOf(batch)) <= Len(batch)
<1>1. Len(batch) \in 0..Len(batch)
  OBVIOUS
<1> QED
  BY <1>1, DataOfPicks

\* The history of what was taken.
DueFlags(s) == [i \in 1..Len(s) |-> DueTo(s[i])]
FramesOf(s) == [i \in 1..Len(s) |-> s[i].frame]

LEMMA DuePicks ==
    ASSUME NEW s \in Seq(TakenFrames)
    PROVE  \E f : /\ Picks(DueFlags(s), FramesOf(s), f, Len(s))
                  /\ \A i \in 0..Len(s) : f[i] \in Seq(Frames)
                  /\ Due(s) = f[Len(s)]
<1> DEFINE n == Len(s)
           UpTo(f) == f = [i \in 0..n |->
                             IF i = 0 THEN <<>>
                             ELSE IF DueTo(s[i]) THEN Append(f[i - 1], s[i].frame)
                             ELSE f[i - 1]]
           F == CHOOSE f : UpTo(f)
<1>0. n \in Nat /\ \A i \in 1..n : s[i] \in TakenFrames
  OBVIOUS
<1>1. n \in Nat /\ FramesOf(s) \in [1..n -> Frames] /\ n \in 0..n
  <2>1. \A i \in 1..n : s[i].frame \in Frames
    BY <1>0 DEF TakenFrames
  <2> QED
    BY <1>0, <2>1 DEF FramesOf
<1>2. \A f : UpTo(f) <=> Picks(DueFlags(s), FramesOf(s), f, n)
  <2> TAKE f
  <2>1. \A i \in 1..n : DueFlags(s)[i] = DueTo(s[i]) /\ FramesOf(s)[i] = s[i].frame
    BY DEF DueFlags, FramesOf
  <2>2. [i \in 0..n |-> IF i = 0 THEN <<>>
                        ELSE IF DueTo(s[i]) THEN Append(f[i - 1], s[i].frame)
                        ELSE f[i - 1]]
        = [i \in 0..n |-> IF i = 0 THEN <<>>
                          ELSE IF DueFlags(s)[i] THEN Append(f[i - 1], FramesOf(s)[i])
                          ELSE f[i - 1]]
    BY <1>1, <2>1
  <2> QED
    BY <2>2 DEF Picks
<1>3. PICK g : /\ Picks(DueFlags(s), FramesOf(s), g, n)
               /\ \A i \in 0..n : g[i] \in Seq(Frames) /\ Len(g[i]) <= i
  BY <1>1, PicksExist
<1>4. Due(s) = F[n]
  BY DEF Due
<1>5. UpTo(F)
  <2> HIDE DEF UpTo
  <2> QED
    BY <1>2, <1>3
<1>6. Picks(DueFlags(s), FramesOf(s), F, n)
  BY <1>2, <1>5
<1> HIDE DEF F
<1>7. \A i \in 0..n : F[i] = g[i]
  BY <1>1, <1>3, <1>6, PicksAgree
<1> QED
  BY <1>1, <1>3, <1>4, <1>6, <1>7

ReportFlags(t, batch) ==
    [i \in 1..Len(batch) |-> pc[t] = "recv_decoded" \/ IsData(batch[i])]

LEMMA ReportedPicks ==
    ASSUME NEW t, NEW batch \in Seq(Frames),
           pc[t] = "recv_decoded" => Len(batch) = 1
    PROVE  \E f : /\ Picks(ReportFlags(t, batch), batch, f, Len(batch))
                  /\ \A i \in 0..Len(batch) : f[i] \in Seq(Frames)
                  /\ Reported(t, batch) = f[Len(batch)]
<1> DEFINE n == Len(batch)
<1>1. n \in Nat /\ batch \in [1..n -> Frames] /\ n \in 0..n
  OBVIOUS
<1>2. CASE pc[t] = "recv_decoded"
  <2>1. PICK f : /\ Picks(ReportFlags(t, batch), batch, f, n)
                 /\ \A i \in 0..n : f[i] \in Seq(Frames)
    BY <1>1, PicksExist
  <2>2. n = 1 /\ ReportFlags(t, batch)[1]
    <3>1. n = 1 /\ 1 \in 1..n
      BY <1>2
    <3>2. ReportFlags(t, batch)[1] = (pc[t] = "recv_decoded" \/ IsData(batch[1]))
      BY <3>1, Zenon DEF ReportFlags
    <3> QED
      BY <1>2, <3>1, <3>2, Zenon
  <2>3. f[0] = <<>> /\ f[1] = Append(f[0], batch[1])
    <3> DEFINE flags == ReportFlags(t, batch)
    <3>1. Picks(flags, batch, f, n) /\ n = 1 /\ flags[1]
      BY <2>1, <2>2
    <3> HIDE DEF flags, n
    <3>2. Picks(flags, batch, f, 1) /\ 1 \in Nat
      BY <3>1
    <3>3. /\ f[0] = <<>>
          /\ \A i \in 1..1 :
               f[i] = IF flags[i] THEN Append(f[i - 1], batch[i]) ELSE f[i - 1]
      BY <3>2, PicksStep
    <3>4. 1 \in 1..1 /\ 1 - 1 = 0
      OBVIOUS
    <3>5. f[1] = IF flags[1] THEN Append(f[0], batch[1]) ELSE f[0]
      BY <3>3, <3>4
    <3> QED
      BY <3>1, <3>3, <3>5, Zenon
  <2>4. batch = <<batch[1]>>
    BY <2>2
  <2>5. f[1] = <<batch[1]>>
    BY <2>3
  <2> QED
    BY <1>2, <2>1, <2>2, <2>4, <2>5 DEF Reported
<1>3. CASE pc[t] # "recv_decoded"
  <2>1. ReportFlags(t, batch) = DataFlags(batch)
    <3>1. \A i \in 1..n :
            (pc[t] = "recv_decoded" \/ IsData(batch[i])) = IsData(batch[i])
      BY <1>3 DEF IsData
    <3> QED
      BY <3>1, Zenon DEF ReportFlags, DataFlags
  <2> QED
    BY <1>3, <2>1, DataOfPicks DEF Reported
<1> QED
  BY <1>2, <1>3

LEMMA GivenLemma ==
    ASSUME NEW t, pc[t] \in Receives, NEW s \in Seq(TakenFrames),
           NEW batch \in Seq(Frames)
    PROVE  LET all == s \o Given(t, batch)
           IN  /\ all \in Seq(TakenFrames) /\ Len(all) = Len(s) + Len(batch)
               /\ \A i \in 1..Len(s) : all[i] = s[i]
               /\ \A i \in 1..Len(batch) :
                    all[Len(s) + i] = [frame |-> batch[i], by |-> pc[t]]
<1>1. \A i \in 1..Len(batch) : [frame |-> batch[i], by |-> pc[t]] \in TakenFrames
  BY DEF TakenFrames
<1>2. Given(t, batch) \in Seq(TakenFrames) /\ Len(Given(t, batch)) = Len(batch)
  BY <1>1 DEF Given
<1>3. \A i \in 1..Len(batch) :
         Given(t, batch)[i] = [frame |-> batch[i], by |-> pc[t]]
  BY DEF Given
<1> DEFINE given == Given(t, batch)
           all == s \o given
<1>4. given \in Seq(TakenFrames) /\ Len(given) = Len(batch)
      /\ \A i \in 1..Len(batch) : given[i] = [frame |-> batch[i], by |-> pc[t]]
  BY <1>2, <1>3
<1> HIDE DEF given
<1>5. all \in Seq(TakenFrames) /\ Len(all) = Len(s) + Len(batch)
  BY <1>4
<1>6. \A i \in 1..Len(s) : all[i] = s[i]
  BY <1>4
<1>7. \A i \in 1..Len(batch) : all[Len(s) + i] = given[i]
  BY <1>4
<1> QED
  BY <1>4, <1>5, <1>6, <1>7 DEF given

\* Concatenation under a name of its own, which the provers do not rewrite.
Joined(u, v) == u \o v

LEMMA AppendJoined ==
    ASSUME NEW S, NEW u \in Seq(S), NEW v \in Seq(S), NEW x \in S
    PROVE  Append(Joined(u, v), x) = Joined(u, Append(v, x))
<1> DEFINE l == Append(u \o v, x)
           r == u \o Append(v, x)
<1>1. /\ u \o v \in Seq(S) /\ Len(u \o v) = Len(u) + Len(v)
      /\ Append(v, x) \in Seq(S) /\ Len(Append(v, x)) = Len(v) + 1
      /\ Len(u) \in Nat /\ Len(v) \in Nat
  BY ConcatProperties, AppendProperties
<1>2. /\ l \in Seq(S) /\ Len(l) = Len(u) + Len(v) + 1
      /\ r \in Seq(S) /\ Len(r) = Len(u) + Len(v) + 1
  BY <1>1, ConcatProperties, AppendProperties
<1>3. \A i \in 1..Len(l) : l[i] = r[i]
  <2> TAKE i \in 1..Len(l)
  <2>1. CASE i \in 1..Len(u)
    BY <1>1, <1>2, <2>1
  <2>2. CASE i \in Len(u) + 1..Len(u) + Len(v)
    BY <1>1, <1>2, <2>2
  <2>3. CASE i = Len(u) + Len(v) + 1
    BY <1>1, <1>2, <2>3
  <2> QED
    BY <1>1, <1>2, <2>1, <2>2, <2>3
<1> HIDE DEF l, r
<1>4. l = r
  BY <1>2, <1>3, SeqEqual
<1> QED
  BY <1>4 DEF l, r, Joined

\* What a caller is due grows by what its call reports.
LEMMA DueGrows ==
    ASSUME NEW t, pc[t] \in Receives, NEW s \in Seq(TakenFrames),
           NEW batch \in Seq(Frames), pc[t] = "recv_decoded" => Len(batch) = 1
    PROVE  /\ s \o Given(t, batch) \in Seq(TakenFrames)
           /\ Reported(t, batch) \in Seq(Frames)
           /\ Due(s) \in Seq(Frames)
           /\ Due(s \o Given(t, batch)) = Due(s) \o Reported(t, batch)
<1> DEFINE all == s \o Given(t, batch)
           m == Len(s)
           n == Len(batch)
<1>1. /\ all \in Seq(TakenFrames) /\ Len(all) = m + n /\ m \in Nat /\ n \in Nat
      /\ \A i \in 1..m : all[i] = s[i]
      /\ \A i \in 1..n : all[m + i] = [frame |-> batch[i], by |-> pc[t]]
  BY GivenLemma
<1>2. PICK e : /\ Picks(DueFlags(all), FramesOf(all), e, m + n)
               /\ Due(all) = e[m + n]
  BY <1>1, DuePicks
<1>3. PICK f : /\ Picks(DueFlags(s), FramesOf(s), f, m)
               /\ \A i \in 0..m : f[i] \in Seq(Frames)
               /\ Due(s) = f[m]
  BY DuePicks
<1>4. PICK g : /\ Picks(ReportFlags(t, batch), batch, g, n)
               /\ \A i \in 0..n : g[i] \in Seq(Frames)
               /\ Reported(t, batch) = g[n]
  BY ReportedPicks
<1> HIDE DEF all
<1>5. e[m] = Due(s) /\ Due(s) \in Seq(Frames)
  <2>1. \A i \in 1..m : /\ DueFlags(s)[i] <=> DueFlags(all)[i]
                        /\ FramesOf(s)[i] = FramesOf(all)[i]
    BY <1>1 DEF DueFlags, FramesOf
  <2>2. m \in 0..m + n /\ m \in 0..m
    BY <1>1
  <2>3. \A i \in 0..m : f[i] = e[i]
    BY <1>1, <1>2, <1>3, <2>1, <2>2, PicksAgree
  <2> QED
    BY <1>3, <2>2, <2>3
<1>6. \A i \in 1..n : /\ DueFlags(all)[m + i] <=> ReportFlags(t, batch)[i]
                      /\ FramesOf(all)[m + i] = batch[i]
  <2> TAKE i \in 1..n
  <2>1. m + i \in 1..Len(all) /\ all[m + i] = [frame |-> batch[i], by |-> pc[t]]
    BY <1>1
  <2>2. DueFlags(all)[m + i] = DueTo([frame |-> batch[i], by |-> pc[t]])
    BY <2>1 DEF DueFlags
  <2>3. FramesOf(all)[m + i] = batch[i]
    BY <2>1 DEF FramesOf
  <2>4. batch[i].kind \in {"data", "fd", "other", "rtr", "error"}
    <3>1. batch[i] \in Frames
      OBVIOUS
    <3> QED
      BY <3>1 DEF Frames
  <2>5. DueTo([frame |-> batch[i], by |-> pc[t]])
          <=> (pc[t] = "recv_decoded" \/ IsData(batch[i]))
    BY <2>4 DEF DueTo, IsData
  <2> QED
    BY <2>2, <2>3, <2>5 DEF ReportFlags
<1>7. \A i \in 0..n : e[m + i] = Due(s) \o g[i]
  <2> DEFINE Bad == {i \in 0..n : e[m + i] # Due(s) \o g[i]}
  <2> SUFFICES ASSUME Bad # {} PROVE FALSE
    OBVIOUS
  <2>1. PICK i \in Bad : \A k \in Bad : i <= k
    <3>1. Bad \in SUBSET Nat
      OBVIOUS
    <3> HIDE DEF Bad
    <3> QED
      BY <3>1, LeastNumber
  <2>2. i \in 0..n /\ i \in Nat /\ e[m + i] # Due(s) \o g[i]
    BY <1>1, <2>1
  <2>3. \A k \in 0..n : k < i => e[m + k] = Due(s) \o g[k]
    BY <1>1, <2>1, SMTT(30)
  <2> HIDE DEF Bad
  <2>4. e[m + 0] = Due(s) \o g[0]
    <3>1. g[0] = <<>> /\ m + 0 = m
      BY <1>1, <1>4, PicksStep
    <3> QED
      BY <1>5, <3>1
  <2>5. i \in 1..n
    <3>1. i # 0
      BY <2>2, <2>4
    <3> QED
      BY <1>1, <2>2, <3>1
  <2>6. /\ m + i \in 1..m + n /\ (m + i) - 1 = m + (i - 1)
        /\ i - 1 \in 0..n /\ i - 1 < i
    BY <1>1, <2>5
  <2>7. e[m + (i - 1)] = Due(s) \o g[i - 1] /\ g[i - 1] \in Seq(Frames)
    BY <1>4, <2>3, <2>6
  <2>8. e[m + i] = IF ReportFlags(t, batch)[i]
                   THEN Append(Due(s) \o g[i - 1], batch[i])
                   ELSE Due(s) \o g[i - 1]
    <3>1. \A k \in 1..m + n :
            e[k] = IF DueFlags(all)[k] THEN Append(e[k - 1], FramesOf(all)[k])
                   ELSE e[k - 1]
      <4> DEFINE flags == DueFlags(all)
                 items == FramesOf(all)
                 length == m + n
      <4>1. length \in Nat /\ Picks(flags, items, e, length)
        BY <1>1, <1>2
      <4> HIDE DEF flags, items, length
      <4>2. \A k \in 1..length :
              e[k] = IF flags[k] THEN Append(e[k - 1], items[k]) ELSE e[k - 1]
        BY <4>1, PicksStep
      <4> QED
        BY <4>2 DEF flags, items, length
    <3>2. e[m + i] = IF DueFlags(all)[m + i]
                     THEN Append(e[(m + i) - 1], FramesOf(all)[m + i])
                     ELSE e[(m + i) - 1]
      BY <2>6, <3>1, Zenon
    <3> QED
      BY <1>6, <2>5, <2>6, <2>7, <3>2
  <2>9. g[i] = IF ReportFlags(t, batch)[i] THEN Append(g[i - 1], batch[i])
               ELSE g[i - 1]
    <3> DEFINE flags == ReportFlags(t, batch)
    <3>1. n \in Nat /\ Picks(flags, batch, g, n) /\ i \in 1..n
      BY <1>1, <1>4, <2>5
    <3> HIDE DEF flags, n
    <3>2. g[i] = IF flags[i] THEN Append(g[i - 1], batch[i]) ELSE g[i - 1]
      BY <3>1, PicksStep
    <3> QED
      BY <3>2 DEF flags
  <2>10. Append(Due(s) \o g[i - 1], batch[i]) = Due(s) \o Append(g[i - 1], batch[i])
    <3>1. batch[i] \in Frames
      BY <1>1, <2>5
    <3>2. Append(Joined(Due(s), g[i - 1]), batch[i])
            = Joined(Due(s), Append(g[i - 1], batch[i]))
      <4> DEFINE u == Due(s)
                 v == g[i - 1]
                 x == batch[i]
      <4>1. u \in Seq(Frames) /\ v \in Seq(Frames) /\ x \in Frames
        BY <1>4, <1>5, <2>7, <3>1
      <4> HIDE DEF u, v, x
      <4>2. Append(Joined(u, v), x) = Joined(u, Append(v, x))
        BY <4>1, AppendJoined, SMT
      <4> QED
        BY <4>2 DEF u, v, x
    <3> QED
      BY <3>2 DEF Joined
  <2> QED
    BY <2>2, <2>8, <2>9, <2>10
<1> QED
  BY <1>1, <1>2, <1>4, <1>5, <1>7 DEF all

\* After a batch the data frames are at the front of the buffer.
LEMMA FillLemma ==
    ASSUME NEW slots \in [1..Slots -> Frames], NEW batch \in Seq(Frames),
           Len(batch) <= Slots
    PROVE  /\ Fill(slots, batch) \in [1..Slots -> Frames]
           /\ SubSeq(Fill(slots, batch), 1, Len(DataOf(batch))) = DataOf(batch)
<1> DEFINE data == DataOf(batch)
           filled == Fill(slots, batch)
<1>1. data \in Seq(Frames) /\ Len(data) <= Slots /\ Len(data) \in Nat
  BY DataOfLemma
<1>2. filled = [i \in 1..Slots |-> IF i <= Len(data) THEN data[i] ELSE slots[i]]
  BY DEF Fill
<1> HIDE DEF data, filled
<1>3. \A i \in 1..Len(data) : data[i] \in Frames
  BY <1>1
<1>4. filled \in [1..Slots -> Frames]
  BY <1>1, <1>2, <1>3
<1>5. \A i \in 1..Len(data) : filled[i] = data[i]
  BY <1>1, <1>2
<1>6. filled \in Seq(Frames) /\ Len(filled) = Slots
  BY <1>4
<1>7. SubSeq(filled, 1, Len(data)) = data
  BY <1>1, <1>5, <1>6
<1> QED
  BY <1>4, <1>7 DEF data, filled
-----------------------------------------------------------------------------
(* The steps of open, all of which set the attributes of the socket in the *)
(* guard and go on to the next one.                                        *)

Setup == {"ifindex", "fd_frames", "filter", "err_filter", "tune", "bind"}

SetupStep(t) ==
    \/ ResolveIndex(t) \/ EnableFd(t) \/ SetFilter(t) \/ SetErrFilter(t)
    \/ Tune(t) \/ Bind(t)

\* What is known of the attributes a that the step at pc[t] leaves behind.
Granted(t, a) ==
    /\ a \in KernelSockets
    /\ a.state = "open" /\ a.wish = opts[t]
    /\ a.bound <=> pc[t] = "bind"
    /\ pc[t] # "ifindex" => (a.fd => opts[t].fd)
    /\ pc[t] \in {"filter", "err_filter", "tune", "bind"} =>
         a.filter = FilterOf(opts[t])
    /\ pc[t] \in {"err_filter", "tune", "bind"} => a.err = opts[t].err

\* The socket in an armed guard.
LEMMA GuardLemma ==
    ASSUME KernelTypes, ThreadTypes, KernelInv, OpenInv,
           NEW t \in Threads, guard[t] # NoFd
    PROVE  /\ guard[t] \in Fds
           /\ fdTable[guard[t]] \in Sockets
           /\ kern[fdTable[guard[t]]] \in KernelSockets
           /\ kern[fdTable[guard[t]]].state = "open"
           /\ kern[fdTable[guard[t]]].wish = opts[t]
           /\ ~kern[fdTable[guard[t]]].bound
           /\ opts[t] \in Opts
<1> DEFINE k == fdTable[guard[t]]
<1>1. guard[t] \in Fds /\ opts[t] \in Opts
  BY DEF ThreadTypes
<1>2. k \in Sockets /\ kern[k].wish = opts[t]
  BY DEF OpenInv
<1>3. ~kern[k].bound
  BY Zenon DEF OpenInv
<1>4. kern[k] \in KernelSockets
  BY <1>2 DEF KernelTypes
<1>5. kern[k].state = "open"
  BY <1>1, <1>2 DEF KernelInv
<1> QED
  BY <1>1, <1>2, <1>3, <1>4, <1>5

LEMMA SetupLemma ==
    ASSUME KernelTypes, ThreadTypes, KernelInv, OpenInv,
           NEW t \in Threads, SetupStep(t)
    PROVE  /\ pc[t] \in Setup /\ guard[t] # NoFd
           /\ \E a : Granted(t, a) /\ Proceed(t, a)
<1> DEFINE k == fdTable[guard[t]]
<1>1. pc[t] \in Setup /\ guard[t] # NoFd
  BY DEF SetupStep, ResolveIndex, EnableFd, SetFilter, SetErrFilter, Tune,
         Bind, Step, Setup, ThreadTypes, OpenSteps
<1>2. /\ kern[k] \in KernelSockets /\ kern[k].state = "open"
      /\ kern[k].wish = opts[t] /\ ~kern[k].bound /\ opts[t] \in Opts
  BY <1>1, GuardLemma
<1>3. /\ pc[t] \in {"filter", "err_filter", "tune", "bind"} =>
           (kern[k].fd => opts[t].fd)
      /\ pc[t] \in {"err_filter", "tune", "bind"} =>
           kern[k].filter = FilterOf(opts[t])
      /\ pc[t] \in {"tune", "bind"} => kern[k].err = opts[t].err
  BY <1>1 DEF OpenInv
<1>4. FilterOf(opts[t]) \in {"default", "match", "empty"}
  BY <1>2, FilterOfType
<1>5. TimeoOf(opts[t]) \in {"forever", "expires"}
  BY DEF TimeoOf
<1>6. CASE ResolveIndex(t)
  <2>1. Granted(t, kern[k])
    BY <1>2, <1>6 DEF Granted, ResolveIndex, Step
  <2> QED
    BY <1>1, <1>6, <2>1 DEF ResolveIndex, Attrs
<1>7. CASE EnableFd(t)
  <2>1. PICK granted \in BOOLEAN :
            Proceed(t, [kern[k] EXCEPT !.fd = opts[t].fd /\ granted])
    BY <1>7 DEF EnableFd, Attrs
  <2>2. pc[t] = "fd_frames"
    BY <1>7 DEF EnableFd, Step
  <2>3. opts[t].fd \in BOOLEAN
    BY <1>2
  <2>4. Granted(t, [kern[k] EXCEPT !.fd = opts[t].fd /\ granted])
    BY <1>2, <2>2, <2>3 DEF Granted, KernelSockets
  <2> QED
    BY <1>1, <2>1, <2>4
<1>8. CASE SetFilter(t)
  <2>1. Granted(t, [kern[k] EXCEPT !.filter = FilterOf(opts[t])])
    BY <1>2, <1>3, <1>4, <1>8 DEF Granted, KernelSockets, SetFilter, Step
  <2> QED
    BY <1>1, <1>8, <2>1 DEF SetFilter, Attrs
<1>9. CASE SetErrFilter(t)
  <2>1. Granted(t, [kern[k] EXCEPT !.err = opts[t].err])
    BY <1>2, <1>3, <1>9 DEF Granted, KernelSockets, SetErrFilter, Step
  <2> QED
    BY <1>1, <1>9, <2>1 DEF SetErrFilter, Attrs
<1>10. CASE Tune(t)
  <2> DEFINE tuned(timed, polls) ==
               [kern[k] EXCEPT
                  !.timeo = IF timed THEN TimeoOf(opts[t]) ELSE "forever",
                  !.refused = ~timed, !.nonblock = polls]
  <2>1. PICK timed \in BOOLEAN, polls \in BOOLEAN :
            Proceed(t, tuned(timed, polls))
    BY <1>10 DEF Tune, Attrs
  <2>2. pc[t] = "tune"
    BY <1>10 DEF Tune, Step
  <2>3. (~timed) \in BOOLEAN
    OBVIOUS
  <2>4. (IF timed THEN TimeoOf(opts[t]) ELSE "forever") \in {"forever", "expires"}
    BY <1>5
  <2>5. Granted(t, tuned(timed, polls))
    BY <1>2, <1>3, <2>2, <2>3, <2>4 DEF Granted, KernelSockets
  <2> HIDE DEF tuned
  <2> QED
    BY <1>1, <2>1, <2>5
<1>11. CASE Bind(t)
  <2>1. Granted(t, [kern[k] EXCEPT !.bound = TRUE])
    BY <1>2, <1>3, <1>11 DEF Granted, KernelSockets, Bind, Step
  <2> QED
    BY <1>1, <1>11, <2>1 DEF Bind, Attrs
<1> QED
  BY <1>6, <1>7, <1>8, <1>9, <1>10, <1>11 DEF SetupStep

\* The two outcomes of such a step: the last one hands the descriptor over.
LEMMA ProceedLemma ==
    ASSUME NEW t \in Threads, NEW a, pc[t] \in Setup, Proceed(t, a)
    PROVE  /\ kern' = [kern EXCEPT ![fdTable[guard[t]]] = a]
           /\ UNCHANGED <<fdTable, queue, arrived, opts, recvVars, sendVars>>
           /\ \/ pc[t] = "bind" /\ Defuse(t)
              \/ /\ pc[t] # "bind"
                 /\ pc' = [pc EXCEPT ![t] = After[pc[t]]]
                 /\ After[pc[t]] \in Setup \ {"ifindex"}
                 /\ UNCHANGED <<guard, handles, raws>>
  BY DEF Proceed, After, Setup, ownVars
-----------------------------------------------------------------------------
(* Steps that leave the kernel's tables and the owners of descriptors      *)
(* alone, and what the others have in common.                              *)

\* BeginOpen, SocketFails and StepFails: a thread goes on in open.
OpenMoves(t) == BeginOpen(t) \/ SocketFails(t) \/ StepFails(t)

RecvReturns(t) ==
    Recv(t) \/ RecvBatch(t) \/ RecvEmpty(t) \/ RecvBroken(t)

Sends(t) ==
    \/ \E h \in handles, len \in Slices : BeginSend(t, h, len)
    \/ Transmit(t)
    \/ SendReturns(t)

Receiving(t) ==
    \/ \E h \in handles, call \in Calls \cap Receives : BeginRecv(t, h, call)
    \/ RecvReturns(t)

LEMMA NextCases ==
    ASSUME Next
    PROVE  \/ Arrive
           \/ \E t \in Threads : OpenMoves(t)
           \/ \E t \in Threads : MakeSocket(t)
           \/ \E t \in Threads : SetupStep(t)
           \/ \E t \in Threads : Unwind(t)
           \/ \E t \in Threads : Receiving(t)
           \/ \E t \in Threads : Sends(t)
           \/ \E h \in Owned : OwnerStep(h)
  BY DEF Next, OpenStep, RecvStep, OpenMoves, SetupStep, Receiving,
         RecvReturns, Sends, Owned

\* What receives, sends and the moves of open leave alone.
LEMMA ReceivesFrame ==
    ASSUME NEW t \in Threads, Receiving(t)
    PROVE  UNCHANGED <<fdTable, kern, arrived, opts, guard, handles, raws,
                       sendVars>>
  BY DEF Receiving, RecvReturns, BeginRecv, Recv, RecvBatch, RecvEmpty,
         RecvBroken, kernelVars, openVars, ownVars, sendVars

LEMMA SendsFrame ==
    ASSUME NEW t \in Threads, Sends(t)
    PROVE  UNCHANGED <<fdTable, kern, queue, arrived, opts, guard, handles,
                       raws, out, taken, got>>
  BY DEF Sends, BeginSend, Transmit, SendReturns, kernelVars, openVars,
         ownVars, recvVars

LEMMA MovesFrame ==
    ASSUME NEW t \in Threads, OpenMoves(t)
    PROVE  UNCHANGED <<fdTable, kern, queue, arrived, guard, handles, raws,
                       recvVars, sendVars>>
  BY DEF OpenMoves, BeginOpen, SocketFails, StepFails, kernelVars, openVars,
         ownVars

\* The queue a receive takes from.
LEMMA SourceLemma ==
    ASSUME KernelTypes, ThreadTypes, UseInv, OwnInv,
           NEW t \in Threads, pc[t] \in Receives \cup {"send"}
    PROVE  /\ using[t] \in handles
           /\ Source(t) \in Sockets
           /\ queue[Source(t)] \in Seq(Frames)
<1>1. using[t] \in handles
  BY DEF UseInv
<1>2. using[t] \in Handle /\ using[t] \in Owned
  BY <1>1 DEF ThreadTypes, Owned
<1>3. Source(t) = using[t].of
  BY <1>2 DEF OwnInv, Source
<1> QED
  BY <1>1, <1>2, <1>3 DEF Handle, KernelTypes

\* A receive takes some frames from the front of one queue.
LEMMA TakesFromFront ==
    ASSUME KernelTypes, ThreadTypes, UseInv, OwnInv,
           NEW t \in Threads, Receiving(t)
    PROVE  \/ UNCHANGED queue
           \/ \E k \in Sockets : \E n \in 1..Len(queue[k]) :
                queue' = [queue EXCEPT ![k] =
                             SubSeq(queue[k], n + 1, Len(queue[k]))]
<1>1. CASE Recv(t)
  <2>1. Source(t) \in Sockets /\ queue[Source(t)] \in Seq(Frames)
    BY <1>1, SourceLemma DEF Recv, Receives
  <2>2. queue[Source(t)] # <<>>
        /\ queue' = [queue EXCEPT ![Source(t)] = Tail(queue[Source(t)])]
    BY <1>1 DEF Recv
  <2>3. Tail(queue[Source(t)])
          = SubSeq(queue[Source(t)], 1 + 1, Len(queue[Source(t)]))
        /\ 1 \in 1..Len(queue[Source(t)])
    BY <2>1, <2>2
  <2> QED
    BY <2>1, <2>2, <2>3
<1>2. CASE RecvBatch(t)
  <2> DEFINE q == queue[Source(t)]
  <2>1. Source(t) \in Sockets /\ q \in Seq(Frames)
    BY <1>2, SourceLemma DEF RecvBatch, Receives
  <2>2. PICK n \in 1..Min({Slots, MaxBatch, Len(q)}) :
            queue' = [queue EXCEPT ![Source(t)] = SubSeq(q, n + 1, Len(q))]
    BY <1>2 DEF RecvBatch
  <2> DEFINE limits == {Slots, MaxBatch, Len(q)}
  <2>3. limits \in SUBSET Nat /\ limits # {} /\ Len(q) \in limits
    BY <2>1
  <2>4. Min(limits) <= Len(q) /\ Min(limits) \in Nat
    <3> HIDE DEF limits
    <3> QED
      BY <2>3, MinLemma
  <2>5. n \in 1..Len(q)
    BY <2>1, <2>4
  <2> QED
    BY <2>1, <2>2, <2>5
<1>3. CASE ~Recv(t) /\ ~RecvBatch(t)
  BY <1>3 DEF Receiving, RecvReturns, BeginRecv, RecvEmpty, RecvBroken,
              kernelVars
<1> QED
  BY <1>1, <1>2, <1>3

LEMMA FrontLemma ==
    ASSUME NEW q \in Seq(Frames), NEW n \in 1..Len(q)
    PROVE  /\ SubSeq(q, n + 1, Len(q)) \in Seq(Frames)
           /\ Len(SubSeq(q, n + 1, Len(q))) = Len(q) - n
           /\ \A i \in 1..Len(SubSeq(q, n + 1, Len(q))) :
                SubSeq(q, n + 1, Len(q))[i] = q[i + n]
  OBVIOUS

Freed == [Fresh EXCEPT !.state = "freed"]

Sole(f) == \A g \in Fds \ {f} : fdTable[g] # fdTable[f]

LEMMA FreshType == Fresh \in KernelSockets /\ Freed \in KernelSockets
                   /\ ~Fresh.bound /\ ~Freed.bound
  BY DEF Fresh, Freed, KernelSockets

LEMMA CloseLemma ==
    ASSUME NEW f \in Fds, fdTable[f] \in Sockets, Close(f)
    PROVE  /\ fdTable' = [fdTable EXCEPT ![f] = NoSocket]
           /\ \/ /\ Sole(f)
                 /\ kern' = [kern EXCEPT ![fdTable[f]] = Freed]
                 /\ queue' = [queue EXCEPT ![fdTable[f]] = <<>>]
              \/ /\ ~Sole(f)
                 /\ UNCHANGED <<kern, queue>>
  BY DEF Close, Freed, Sole

\* The descriptor that Unwind closes.
LEMMA UnwindLemma ==
    ASSUME KernelTypes, ThreadTypes, KernelInv, OpenInv,
           NEW t \in Threads, Unwind(t)
    PROVE  /\ guard[t] \in Fds /\ guard[t] # NoFd
           /\ fdTable[guard[t]] \in Sockets
           /\ Sole(guard[t])
           /\ fdTable' = [fdTable EXCEPT ![guard[t]] = NoSocket]
           /\ kern' = [kern EXCEPT ![fdTable[guard[t]]] = Freed]
           /\ queue' = [queue EXCEPT ![fdTable[guard[t]]] = <<>>]
<1>1. guard[t] # NoFd
  BY DEF Unwind, ThreadTypes, OpenSteps
<1>2. guard[t] \in Fds /\ fdTable[guard[t]] \in Sockets
  BY <1>1, GuardLemma
<1>3. Sole(guard[t])
  BY <1>1 DEF OpenInv, Sole
<1> QED
  BY <1>1, <1>2, <1>3, CloseLemma DEF Unwind

\* An owner's descriptor and the socket behind it.
LEMMA OwnerLemma ==
    ASSUME ThreadTypes, OwnInv, NEW h \in Owned
    PROVE  /\ h \in Handle /\ h.fd \in Fds /\ h.of \in Sockets
           /\ fdTable[h.fd] = h.of /\ kern[h.of].bound
           /\ \A t \in Threads : guard[t] # h.fd
<1>1. h \in Handle
  BY DEF ThreadTypes, Owned
<1>2. fdTable[h.fd] = h.of
  BY DEF OwnInv
<1>3. kern[h.of].bound
  BY Zenon DEF OwnInv
<1>4. \A t \in Threads : guard[t] # h.fd
  BY DEF OwnInv
<1> QED
  BY <1>1, <1>2, <1>3, <1>4 DEF Handle

LEMMA DropLemma ==
    ASSUME KernelTypes, ThreadTypes, OwnInv, NEW h \in Owned, DropSocket(h)
    PROVE  /\ h.fd \in Fds /\ fdTable[h.fd] = h.of /\ h.of \in Sockets
           /\ fdTable' = [fdTable EXCEPT ![h.fd] = NoSocket]
           /\ \/ /\ Sole(h.fd)
                 /\ kern' = [kern EXCEPT ![h.of] = Freed]
                 /\ queue' = [queue EXCEPT ![h.of] = <<>>]
              \/ /\ ~Sole(h.fd)
                 /\ UNCHANGED <<kern, queue>>
  BY OwnerLemma, CloseLemma DEF DropSocket

-----------------------------------------------------------------------------
(* The types.                                                              *)

LEMMA ArriveLemma ==
    ASSUME KernelTypes, Arrive
    PROVE  KernelTypes'
<1>1. arrived + 1 \in 0..MaxFrames
  BY DEF KernelTypes, Arrive
<1>2. PICK kind \in Kinds :
         queue' = [k \in Sockets |->
            IF /\ kern[k].state = "open" /\ kern[k].bound
               /\ Passes(kind, kern[k].filter, kern[k].err, kern[k].fd)
               /\ Len(queue[k]) < RcvBuf
            THEN Append(queue[k], [n |-> arrived + 1, kind |-> kind])
            ELSE queue[k]]
  BY DEF Arrive
<1> DEFINE frame == [n |-> arrived + 1, kind |-> kind]
<1>3. frame \in Frames
  BY <1>1 DEF Frames
<1> HIDE DEF frame
<1>4. ASSUME NEW k \in Sockets
      PROVE  queue'[k] \in Seq(Frames) /\ Len(queue'[k]) <= RcvBuf
  <2>1. queue[k] \in Seq(Frames) /\ Len(queue[k]) <= RcvBuf
    BY DEF KernelTypes
  <2>2. \/ queue'[k] = queue[k]
        \/ queue'[k] = Append(queue[k], frame) /\ Len(queue[k]) < RcvBuf
    BY <1>2 DEF frame
  <2>3. /\ Append(queue[k], frame) \in Seq(Frames)
        /\ Len(Append(queue[k], frame)) = Len(queue[k]) + 1
    BY <1>3, <2>1, AppendProperties
  <2>4. Len(queue[k]) \in Nat
    BY <2>1, LenProperties
  <2>5. CASE queue'[k] = queue[k]
    BY <2>1, <2>5
  <2>6. CASE queue'[k] = Append(queue[k], frame) /\ Len(queue[k]) < RcvBuf
    <3>1. queue'[k] \in Seq(Frames)
      BY <2>3, <2>6
    <3>2. Len(queue'[k]) = Len(queue[k]) + 1
      BY <2>3, <2>6, Zenon
    <3> QED
      BY <2>4, <2>6, <3>1, <3>2
  <2> QED
    BY <2>2, <2>5, <2>6
<1>5. queue' = [k \in Sockets |-> queue'[k]]
  BY <1>2
<1>6. queue' \in [Sockets -> Seq(Frames)]
  BY <1>4, <1>5
<1>7. arrived' = arrived + 1 /\ UNCHANGED <<fdTable, kern>>
  BY DEF Arrive
<1> QED
  BY <1>1, <1>4, <1>6, <1>7 DEF KernelTypes

LEMMA NoneQueued ==
    ASSUME KernelTypes, NEW k \in Sockets
    PROVE  /\ [queue EXCEPT ![k] = <<>>] \in [Sockets -> Seq(Frames)]
           /\ \A j \in Sockets : Len([queue EXCEPT ![k] = <<>>][j]) <= RcvBuf
  BY DEF KernelTypes

LEMMA KernelTypesStep ==
    ASSUME IInv, [Next]_vars
    PROVE  KernelTypes'
<1> USE DEF IInv
<1>1. CASE Arrive
  BY <1>1, ArriveLemma
<1>2. ASSUME NEW t \in Threads, OpenMoves(t) PROVE KernelTypes'
  BY <1>2, MovesFrame DEF KernelTypes
<1>3. ASSUME NEW t \in Threads, MakeSocket(t) PROVE KernelTypes'
  <2>1. PICK k \in Sockets :
           /\ fdTable' = [fdTable EXCEPT ![Min(FreeFds)] = k]
           /\ kern' = [kern EXCEPT ![k].state = "open", ![k].wish = opts[t]]
    BY <1>3 DEF MakeSocket
  <2>2. opts[t] \in Opts
    BY DEF ThreadTypes
  <2>3. kern' \in [Sockets -> KernelSockets]
    <3>1. kern[k] \in KernelSockets
      BY DEF KernelTypes
    <3>2. [kern[k] EXCEPT !.state = "open", !.wish = opts[t]] \in KernelSockets
      BY <2>2, <3>1 DEF KernelSockets
    <3>3. kern' = [kern EXCEPT ![k] =
                      [kern[k] EXCEPT !.state = "open", !.wish = opts[t]]]
      BY <2>1
    <3> QED
      BY <3>2, <3>3 DEF KernelTypes
  <2>4. UNCHANGED <<queue, arrived>>
    BY <1>3 DEF MakeSocket
  <2> QED
    BY <2>1, <2>3, <2>4 DEF KernelTypes
<1>4. ASSUME NEW t \in Threads, SetupStep(t) PROVE KernelTypes'
  <2>1. PICK a : Granted(t, a) /\ Proceed(t, a)
    BY <1>4, SetupLemma
  <2>2. /\ kern' = [kern EXCEPT ![fdTable[guard[t]]] = a]
        /\ UNCHANGED <<fdTable, queue, arrived>>
    BY <2>1 DEF Proceed
  <2> QED
    BY <2>1, <2>2 DEF KernelTypes, Granted
<1>5. ASSUME NEW t \in Threads, Unwind(t) PROVE KernelTypes'
  <2>1. UNCHANGED arrived
    BY <1>5 DEF Unwind
  <2>2. fdTable[guard[t]] \in Sockets
    BY <1>5, UnwindLemma
  <2>3. /\ fdTable' = [fdTable EXCEPT ![guard[t]] = NoSocket]
        /\ kern' = [kern EXCEPT ![fdTable[guard[t]]] = Freed]
        /\ queue' = [queue EXCEPT ![fdTable[guard[t]]] = <<>>]
    BY <1>5, UnwindLemma
  <2>4. queue' \in [Sockets -> Seq(Frames)]
        /\ \A j \in Sockets : Len(queue'[j]) <= RcvBuf
    BY <2>2, <2>3, NoneQueued
  <2> QED
    BY <2>1, <2>3, <2>4, FreshType DEF KernelTypes
<1>6. ASSUME NEW t \in Threads, Receiving(t) PROVE KernelTypes'
  <2>1. UNCHANGED <<fdTable, kern, arrived>>
    BY <1>6, ReceivesFrame
  <2>2. CASE UNCHANGED queue
    BY <2>1, <2>2 DEF KernelTypes
  <2>3. ASSUME NEW k \in Sockets, NEW n \in 1..Len(queue[k]),
               queue' = [queue EXCEPT ![k] =
                            SubSeq(queue[k], n + 1, Len(queue[k]))]
        PROVE  KernelTypes'
    <3>1. queue[k] \in Seq(Frames) /\ Len(queue[k]) <= RcvBuf
      BY DEF KernelTypes
    <3>2. /\ SubSeq(queue[k], n + 1, Len(queue[k])) \in Seq(Frames)
          /\ Len(SubSeq(queue[k], n + 1, Len(queue[k]))) <= RcvBuf
      BY <3>1, FrontLemma
    <3> QED
      BY <2>1, <2>3, <3>2 DEF KernelTypes
  <2> QED
    BY <1>6, <2>2, <2>3, TakesFromFront
<1>7. ASSUME NEW t \in Threads, Sends(t) PROVE KernelTypes'
  BY <1>7, SendsFrame DEF KernelTypes
<1>8. ASSUME NEW h \in Owned, OwnerStep(h) PROVE KernelTypes'
  <2>1. CASE TryClone(h)
    <3>1. fdTable[h.fd] \in Sockets
      BY OwnerLemma
    <3> QED
      BY <2>1, <3>1 DEF TryClone, KernelTypes
  <2>2. CASE DropSocket(h)
    <3>1. UNCHANGED arrived
      BY <2>2 DEF DropSocket
    <3>2. h.of \in Sockets /\ fdTable' = [fdTable EXCEPT ![h.fd] = NoSocket]
      BY <2>2, DropLemma
    <3>3. CASE UNCHANGED <<kern, queue>>
      BY <3>1, <3>2, <3>3 DEF KernelTypes
    <3>4. CASE /\ kern' = [kern EXCEPT ![h.of] = Freed]
               /\ queue' = [queue EXCEPT ![h.of] = <<>>]
      <4>1. queue' \in [Sockets -> Seq(Frames)]
            /\ \A j \in Sockets : Len(queue'[j]) <= RcvBuf
        BY <3>2, <3>4, NoneQueued
      <4> QED
        BY <3>1, <3>2, <3>4, <4>1, FreshType DEF KernelTypes
    <3> QED
      BY <2>2, <3>3, <3>4, DropLemma
  <2>3. CASE IntoRawFd(h) \/ FromRawFd(h)
    BY <2>3 DEF IntoRawFd, FromRawFd, kernelVars, KernelTypes
  <2> QED
    BY <1>8, <2>1, <2>2, <2>3 DEF OwnerStep
<1>9. CASE UNCHANGED vars
  BY <1>9 DEF vars, kernelVars, KernelTypes
<1> QED
  BY <1>1, <1>2, <1>3, <1>4, <1>5, <1>6, <1>7, <1>8, <1>9, NextCases

\* What socket() makes: a free number now refers to an unused kernel socket.
Made(t, f, k, made) ==
    /\ f \in Fds /\ fdTable[f] = NoSocket
    /\ k \in Sockets /\ kern[k].state = "unused"
    /\ made = [kern[k] EXCEPT !.state = "open", !.wish = opts[t]]
    /\ fdTable' = [fdTable EXCEPT ![f] = k]
    /\ kern' = [kern EXCEPT ![k] = made]
    /\ guard' = [guard EXCEPT ![t] = f]
    /\ pc[t] = "socket" /\ pc' = [pc EXCEPT ![t] = "ifindex"]
    /\ UNCHANGED <<queue, arrived, opts, handles, raws, recvVars, sendVars>>

LEMMA MakeLemma ==
    ASSUME NEW t \in Threads, MakeSocket(t)
    PROVE  \E f, k, made : Made(t, f, k, made)
<1>1. PICK k \in Sockets :
         /\ kern[k].state = "unused"
         /\ fdTable' = [fdTable EXCEPT ![Min(FreeFds)] = k]
         /\ kern' = [kern EXCEPT ![k].state = "open", ![k].wish = opts[t]]
  BY DEF MakeSocket
<1>2. Min(FreeFds) \in Fds /\ fdTable[Min(FreeFds)] = NoSocket
  BY FreeLemma DEF MakeSocket
<1> DEFINE made == [kern[k] EXCEPT !.state = "open", !.wish = opts[t]]
<1>3. kern' = [kern EXCEPT ![k] = made]
  BY <1>1
<1>4. /\ guard' = [guard EXCEPT ![t] = Min(FreeFds)]
      /\ pc[t] = "socket" /\ pc' = [pc EXCEPT ![t] = "ifindex"]
      /\ UNCHANGED <<queue, arrived, opts, handles, raws, recvVars, sendVars>>
  BY DEF MakeSocket, After, ownVars
<1>5. Made(t, Min(FreeFds), k, made)
  BY <1>1, <1>2, <1>3, <1>4 DEF Made
<1> QED
  BY <1>5

LEMMA MadeLemma ==
    ASSUME KernelTypes, ThreadTypes, KernelInv, NEW t \in Threads,
           NEW f, NEW k, NEW made, Made(t, f, k, made)
    PROVE  /\ made.state = "open" /\ made.wish = opts[t]
           /\ ~made.bound /\ ~kern[k].bound
           /\ \A g \in Fds : fdTable[g] # k
<1>1. kern[k] \in KernelSockets /\ kern[k].state = "unused"
  BY DEF Made, KernelTypes
<1>2. made.state = "open" /\ made.wish = opts[t] /\ made.bound = kern[k].bound
  BY <1>1 DEF Made, KernelSockets
<1>3. ~kern[k].bound
  BY <1>1 DEF Made, KernelInv
<1>4. \A g \in Fds : fdTable[g] # k
  BY <1>1 DEF Made, KernelInv
<1> QED
  BY <1>2, <1>3, <1>4

LEMMA ThreadTypesStep ==
    ASSUME IInv, [Next]_vars
    PROVE  ThreadTypes'
<1> USE DEF IInv
<1>1. CASE Arrive
  BY <1>1 DEF Arrive, openVars, ownVars, ThreadTypes
<1>2. ASSUME NEW t \in Threads, OpenMoves(t) PROVE ThreadTypes'
  <2>1. UNCHANGED <<guard, handles, raws>>
    BY <1>2, MovesFrame
  <2>2. CASE BeginOpen(t)
    BY <2>1, <2>2 DEF BeginOpen, ThreadTypes, OpenSteps
  <2>3. CASE SocketFails(t)
    BY <2>1, <2>3 DEF SocketFails, ThreadTypes, OpenSteps, openVars
  <2>4. CASE StepFails(t)
    BY <2>1, <2>4 DEF StepFails, Fallible, ThreadTypes, OpenSteps, openVars
  <2> QED
    BY <1>2, <2>2, <2>3, <2>4 DEF OpenMoves
<1>3. ASSUME NEW t \in Threads, MakeSocket(t) PROVE ThreadTypes'
  <2>1. PICK f, k, made : Made(t, f, k, made)
    BY <1>3, MakeLemma
  <2> QED
    BY <2>1 DEF Made, ThreadTypes, OpenSteps
<1>4. ASSUME NEW t \in Threads, SetupStep(t) PROVE ThreadTypes'
  <2>1. PICK a : Granted(t, a) /\ Proceed(t, a)
    BY <1>4, SetupLemma
  <2>2. pc[t] \in Setup /\ guard[t] # NoFd
    BY <1>4, SetupLemma
  <2>3. guard[t] \in Fds /\ fdTable[guard[t]] \in Sockets
    BY <2>2, GuardLemma
  <2>4. UNCHANGED opts
    BY <2>1 DEF Proceed
  <2>5. CASE pc[t] = "bind" /\ Defuse(t)
    <3>1. [fd |-> guard[t], of |-> fdTable[guard[t]]] \in Handle
      BY <2>3 DEF Handle
    <3>2. handles' \subseteq Handle /\ raws' \subseteq Handle
      BY <2>5, <3>1 DEF Defuse, ThreadTypes
    <3>3. /\ guard' = [guard EXCEPT ![t] = NoFd]
          /\ pc' = [pc EXCEPT ![t] = "idle"]
      BY <2>5 DEF Defuse
    <3> QED
      BY <2>4, <3>2, <3>3 DEF ThreadTypes, OpenSteps
  <2>6. CASE /\ pc' = [pc EXCEPT ![t] = After[pc[t]]]
             /\ After[pc[t]] \in Setup \ {"ifindex"}
             /\ UNCHANGED <<guard, handles, raws>>
    BY <2>2, <2>4, <2>6 DEF ThreadTypes, OpenSteps, Setup
  <2> QED
    BY <2>1, <2>2, <2>5, <2>6, ProceedLemma
<1>5. ASSUME NEW t \in Threads, Unwind(t) PROVE ThreadTypes'
  BY <1>5 DEF Unwind, ThreadTypes, OpenSteps, ownVars
<1>6. ASSUME NEW t \in Threads, Receiving(t) PROVE ThreadTypes'
  <2>1. UNCHANGED <<opts, guard, handles, raws>>
    BY <1>6, ReceivesFrame
  <2>2. \/ UNCHANGED pc
        \/ /\ pc[t] \notin OpenSteps
           /\ \E step \in Calls \cup {"idle"} : pc' = [pc EXCEPT ![t] = step]
    BY <1>6 DEF Receiving, RecvReturns, BeginRecv, Recv, RecvBatch,
                RecvEmpty, RecvBroken, Return, Receives, OpenSteps
  <2> QED
    BY <2>1, <2>2 DEF ThreadTypes, OpenSteps
<1>7. ASSUME NEW t \in Threads, Sends(t) PROVE ThreadTypes'
  <2>1. UNCHANGED <<opts, guard, handles, raws>>
    BY <1>7, SendsFrame
  <2>2. \/ UNCHANGED pc
        \/ /\ pc[t] \notin OpenSteps
           /\ \E step \in Calls \cup {"idle"} : pc' = [pc EXCEPT ![t] = step]
    BY <1>7 DEF Sends, BeginSend, Transmit, SendReturns, Return, OpenSteps
  <2> QED
    BY <2>1, <2>2 DEF ThreadTypes, OpenSteps
<1>8. ASSUME NEW h \in Owned, OwnerStep(h) PROVE ThreadTypes'
  <2>1. UNCHANGED <<pc, opts, guard>>
    BY <1>8 DEF OwnerStep, TryClone, DropSocket, IntoRawFd, FromRawFd,
                openVars
  <2>2. h \in Handle
    BY OwnerLemma
  <2>3. CASE TryClone(h)
    <3>1. [fd |-> Min(FreeFds), of |-> h.of] \in Handle
      BY <2>2, <2>3, FreeLemma DEF TryClone, Handle
    <3> QED
      BY <2>1, <2>3, <3>1 DEF TryClone, ThreadTypes
  <2>4. CASE DropSocket(h) \/ IntoRawFd(h) \/ FromRawFd(h)
    BY <2>1, <2>2, <2>4 DEF DropSocket, IntoRawFd, FromRawFd, ThreadTypes
  <2> QED
    BY <1>8, <2>3, <2>4 DEF OwnerStep
<1>9. CASE UNCHANGED vars
  BY <1>9 DEF vars, openVars, ownVars, ThreadTypes
<1> QED
  BY <1>1, <1>2, <1>3, <1>4, <1>5, <1>6, <1>7, <1>8, <1>9, NextCases

\* Whoever closes a handle takes it from nobody that uses it.
LEMMA UseStep ==
    ASSUME IInv, [Next]_vars
    PROVE  UseInv'
<1> USE DEF IInv
<1>1. CASE Arrive
  BY <1>1 DEF Arrive, ownVars, recvVars, UseInv
<1>2. ASSUME NEW t \in Threads, OpenMoves(t) PROVE UseInv'
  <2>1. UNCHANGED <<using, handles>>
    BY <1>2, MovesFrame DEF recvVars
  <2>2. \E step \in OpenSteps \cup {"idle"} :
           pc[t] \in OpenSteps \cup {"idle"} /\ pc' = [pc EXCEPT ![t] = step]
    BY <1>2 DEF OpenMoves, BeginOpen, SocketFails, StepFails, Fallible,
                OpenSteps
  <2> QED
    BY <2>1, <2>2 DEF UseInv, Receives, OpenSteps, ThreadTypes
<1>3. ASSUME NEW t \in Threads, MakeSocket(t) PROVE UseInv'
  <2>1. PICK f, k, made : Made(t, f, k, made)
    BY <1>3, MakeLemma
  <2> QED
    BY <2>1 DEF Made, UseInv, Receives, ThreadTypes, recvVars
<1>4. ASSUME NEW t \in Threads, SetupStep(t) PROVE UseInv'
  <2>1. PICK a : Granted(t, a) /\ Proceed(t, a)
    BY <1>4, SetupLemma
  <2>2. pc[t] \in Setup
    BY <1>4, SetupLemma
  <2>3. UNCHANGED using
    BY <2>1 DEF Proceed, recvVars
  <2>4. handles \subseteq handles'
        /\ \E step \in Setup \cup {"idle"} : pc' = [pc EXCEPT ![t] = step]
    BY <2>1, <2>2, ProceedLemma DEF Defuse
  <2> QED
    BY <2>2, <2>3, <2>4 DEF UseInv, Receives, Setup, ThreadTypes
<1>5. ASSUME NEW t \in Threads, Unwind(t) PROVE UseInv'
  BY <1>5 DEF Unwind, UseInv, Receives, ThreadTypes, ownVars, recvVars
<1>6. ASSUME NEW t \in Threads, Receiving(t) PROVE UseInv'
  <2>1. UNCHANGED handles
    BY <1>6, ReceivesFrame
  <2>2. CASE \E h \in handles, call \in Calls \cap Receives : BeginRecv(t, h, call)
    BY <2>1, <2>2 DEF BeginRecv, UseInv, ThreadTypes
  <2>3. CASE RecvReturns(t)
    <3>1. Return(t)
      BY <2>3 DEF RecvReturns, Recv, RecvBatch, RecvEmpty, RecvBroken
    <3> QED
      BY <2>1, <3>1 DEF Return, UseInv, Receives, ThreadTypes
  <2> QED
    BY <1>6, <2>2, <2>3 DEF Receiving
<1>7. ASSUME NEW t \in Threads, Sends(t) PROVE UseInv'
  <2>1. UNCHANGED handles
    BY <1>7, SendsFrame
  <2>2. CASE \E h \in handles, len \in Slices : BeginSend(t, h, len)
    BY <2>1, <2>2 DEF BeginSend, UseInv, ThreadTypes
  <2>3. CASE Transmit(t)
    BY <2>1, <2>3 DEF Transmit, UseInv, recvVars
  <2>4. CASE SendReturns(t)
    BY <2>1, <2>4 DEF SendReturns, Return, UseInv, Receives, ThreadTypes
  <2> QED
    BY <1>7, <2>2, <2>3, <2>4 DEF Sends
<1>8. ASSUME NEW h \in Owned, OwnerStep(h) PROVE UseInv'
  <2>1. UNCHANGED <<pc, using>>
    BY <1>8 DEF OwnerStep, TryClone, DropSocket, IntoRawFd, FromRawFd,
                recvVars
  <2>2. \A t \in Threads : using[t] \in handles => using[t] \in handles'
    BY <1>8 DEF OwnerStep, TryClone, DropSocket, IntoRawFd, FromRawFd,
                Borrowed
  <2> QED
    BY <2>1, <2>2 DEF UseInv
<1>9. CASE UNCHANGED vars
  BY <1>9 DEF vars, ownVars, recvVars, UseInv
<1> QED
  BY <1>1, <1>2, <1>3, <1>4, <1>5, <1>6, <1>7, <1>8, <1>9, NextCases
-----------------------------------------------------------------------------
(* The kernel sockets and their owners.                                    *)

\* Options fulfilled, for a bound socket.
AsWished(a) ==
    /\ a.state = "open"
    /\ a.wish \in Opts
    /\ a.filter = FilterOf(a.wish)
    /\ a.err = a.wish.err
    /\ a.fd => a.wish.fd

LEMMA GrantedLemma ==
    ASSUME ThreadTypes, NEW t \in Threads, NEW a, Granted(t, a), a.bound
    PROVE  AsWished(a)
<1>1. pc[t] = "bind"
  BY Zenon DEF Granted
<1>2. opts[t] \in Opts
  BY DEF ThreadTypes
<1> QED
  BY <1>1, <1>2 DEF Granted, AsWished

LEMMA KernelStep ==
    ASSUME IInv, [Next]_vars
    PROVE  KernelInv'
<1> USE DEF IInv
<1>0. CASE UNCHANGED <<fdTable, kern>>
  BY <1>0 DEF KernelInv
<1>1. CASE Arrive
  BY <1>0, <1>1 DEF Arrive
<1>2. ASSUME NEW t \in Threads, OpenMoves(t) PROVE KernelInv'
  BY <1>0, <1>2, MovesFrame
<1>3. ASSUME NEW t \in Threads, MakeSocket(t) PROVE KernelInv'
  <2>1. PICK f, k, made : Made(t, f, k, made)
    BY <1>3, MakeLemma
  <2>2. made.state = "open" /\ ~made.bound /\ \A g \in Fds : fdTable[g] # k
    BY <2>1, MadeLemma
  <2>3. /\ f \in Fds /\ k \in Sockets
        /\ fdTable' = [fdTable EXCEPT ![f] = k]
        /\ kern' = [kern EXCEPT ![k] = made]
    BY <2>1 DEF Made
  <2>4. \A j \in Sockets : kern'[j] = IF j = k THEN made ELSE kern[j]
    BY <2>3 DEF KernelTypes
  <2>5. \A g \in Fds : fdTable'[g] = IF g = f THEN k ELSE fdTable[g]
    BY <2>3 DEF KernelTypes
  <2>6. \A g \in Fds : fdTable'[g] # NoSocket => kern'[fdTable'[g]].state = "open"
    BY <2>2, <2>3, <2>4, <2>5 DEF KernelTypes, KernelInv
  <2>7. \A j \in Sockets : kern'[j].bound => AsWished(kern'[j])
    BY <2>2, <2>4 DEF KernelInv, AsWished
  <2> QED
    BY <2>6, <2>7 DEF KernelInv, AsWished
<1>4. ASSUME NEW t \in Threads, SetupStep(t) PROVE KernelInv'
  <2>1. PICK a : Granted(t, a) /\ Proceed(t, a)
    BY <1>4, SetupLemma
  <2> DEFINE k == fdTable[guard[t]]
  <2>2. k \in Sockets
    BY <1>4, SetupLemma, GuardLemma
  <2>3. kern' = [kern EXCEPT ![k] = a] /\ UNCHANGED fdTable
    BY <2>1 DEF Proceed
  <2>4. \A j \in Sockets : kern'[j] = IF j = k THEN a ELSE kern[j]
    BY <2>3 DEF KernelTypes
  <2>5. a.state = "open"
    BY <2>1 DEF Granted
  <2>6. \A g \in Fds : fdTable'[g] # NoSocket => kern'[fdTable'[g]].state = "open"
    BY <2>3, <2>4, <2>5 DEF KernelTypes, KernelInv
  <2>7. \A j \in Sockets : kern'[j].bound => AsWished(kern'[j])
    BY <2>1, <2>4, GrantedLemma DEF KernelInv, AsWished
  <2> QED
    BY <2>6, <2>7 DEF KernelInv, AsWished
<1>5. ASSUME NEW f \in Fds, fdTable[f] \in Sockets, Sole(f),
             fdTable' = [fdTable EXCEPT ![f] = NoSocket],
             kern' = [kern EXCEPT ![fdTable[f]] = Freed]
      PROVE  KernelInv'
  <2>1. \A j \in Sockets : kern'[j] = IF j = fdTable[f] THEN Freed ELSE kern[j]
    BY <1>5 DEF KernelTypes
  <2>2. \A g \in Fds : fdTable'[g] = IF g = f THEN NoSocket ELSE fdTable[g]
    BY <1>5 DEF KernelTypes
  <2>3. \A g \in Fds : fdTable'[g] # NoSocket => kern'[fdTable'[g]].state = "open"
    BY <1>5, <2>1, <2>2 DEF KernelTypes, KernelInv, Sole
  <2>4. \A j \in Sockets : kern'[j].bound => AsWished(kern'[j])
    BY <2>1, FreshType DEF KernelInv, AsWished
  <2> QED
    BY <2>3, <2>4 DEF KernelInv, AsWished
<1>6. ASSUME NEW t \in Threads, Unwind(t) PROVE KernelInv'
  BY <1>5, <1>6, UnwindLemma
<1>7. ASSUME NEW t \in Threads, Receiving(t) \/ Sends(t) PROVE KernelInv'
  BY <1>0, <1>7, ReceivesFrame, SendsFrame
<1>8. ASSUME NEW h \in Owned, OwnerStep(h) PROVE KernelInv'
  <2>1. CASE TryClone(h)
    <3>1. fdTable[h.fd] \in Sockets /\ h.fd \in Fds
      BY OwnerLemma
    <3>2. \A g \in Fds : fdTable'[g] \in {fdTable[g], fdTable[h.fd]}
      BY <2>1 DEF TryClone, KernelTypes
    <3>3. UNCHANGED kern
      BY <2>1 DEF TryClone
    <3> QED
      BY <3>1, <3>2, <3>3 DEF KernelInv
  <2>2. CASE DropSocket(h)
    <3>1. h.fd \in Fds /\ fdTable[h.fd] = h.of /\ h.of \in Sockets
          /\ fdTable' = [fdTable EXCEPT ![h.fd] = NoSocket]
      BY <2>2, DropLemma
    <3>2. CASE Sole(h.fd) /\ kern' = [kern EXCEPT ![h.of] = Freed]
      BY <1>5, <3>1, <3>2
    <3>3. CASE UNCHANGED kern
      BY <3>1, <3>3 DEF KernelInv, KernelTypes
    <3> QED
      BY <2>2, <3>2, <3>3, DropLemma
  <2>3. CASE IntoRawFd(h) \/ FromRawFd(h)
    BY <1>0, <2>3 DEF IntoRawFd, FromRawFd, kernelVars
  <2> QED
    BY <1>8, <2>1, <2>2, <2>3 DEF OwnerStep
<1>9. CASE UNCHANGED vars
  BY <1>0, <1>9 DEF vars, kernelVars
<1> QED
  BY <1>1, <1>2, <1>3, <1>4, <1>6, <1>7, <1>8, <1>9, NextCases

\* What is queued passes the options of its socket; these change only while
\* nothing is queued.
Sieved(q, a) ==
    \A i \in 1..Len(q) : Passes(q[i].kind, a.filter, a.err, a.fd)

LEMMA QueueStep ==
    ASSUME IInv, [Next]_vars
    PROVE  QueueInv'
<1> USE DEF IInv
<1>0. CASE UNCHANGED <<kern, queue>>
  BY <1>0 DEF QueueInv
<1>1. CASE Arrive
  <2>1. PICK kind \in Kinds :
           queue' = [k \in Sockets |->
              IF /\ kern[k].state = "open" /\ kern[k].bound
                 /\ Passes(kind, kern[k].filter, kern[k].err, kern[k].fd)
                 /\ Len(queue[k]) < RcvBuf
              THEN Append(queue[k], [n |-> arrived + 1, kind |-> kind])
              ELSE queue[k]]
    BY <1>1 DEF Arrive
  <2> DEFINE frame == [n |-> arrived + 1, kind |-> kind]
  <2>2. frame \in Frames /\ frame.kind = kind
    BY <1>1 DEF Arrive, Frames, KernelTypes
  <2> HIDE DEF frame
  <2>3. UNCHANGED kern
    BY <1>1 DEF Arrive
  <2>4. ASSUME NEW k \in Sockets
        PROVE  (~kern[k].bound => queue'[k] = <<>>) /\ Sieved(queue'[k], kern[k])
    <3>1. queue[k] \in Seq(Frames) /\ Sieved(queue[k], kern[k])
      BY DEF KernelTypes, QueueInv, Sieved
    <3>2. ~kern[k].bound => queue[k] = <<>>
      BY DEF QueueInv
    <3>3. \/ queue'[k] = queue[k]
          \/ /\ queue'[k] = Append(queue[k], frame) /\ kern[k].bound
             /\ Passes(kind, kern[k].filter, kern[k].err, kern[k].fd)
      BY <2>1 DEF frame
    <3>4. CASE queue'[k] = queue[k]
      BY <3>1, <3>2, <3>4
    <3>5. CASE /\ queue'[k] = Append(queue[k], frame) /\ kern[k].bound
               /\ Passes(kind, kern[k].filter, kern[k].err, kern[k].fd)
      <4>1. /\ Len(queue'[k]) = Len(queue[k]) + 1
            /\ \A i \in 1..Len(queue[k]) : queue'[k][i] = queue[k][i]
            /\ queue'[k][Len(queue[k]) + 1] = frame
        BY <2>2, <3>1, <3>5, AppendProperties
      <4>2. Len(queue[k]) \in Nat
        BY <3>1
      <4>3. \A i \in 1..Len(queue[k]) + 1 :
               Passes(queue'[k][i].kind, kern[k].filter, kern[k].err, kern[k].fd)
        <5>1. ASSUME NEW i \in 1..Len(queue[k]) + 1
              PROVE  i \in 1..Len(queue[k]) \/ i = Len(queue[k]) + 1
          BY <4>2
        <5> QED
          BY <2>2, <3>1, <3>5, <4>1, <5>1 DEF Sieved
      <4> QED
        BY <3>5, <4>1, <4>3 DEF Sieved
    <3> QED
      BY <3>3, <3>4, <3>5
  <2> QED
    BY <2>3, <2>4 DEF QueueInv, Sieved
<1>2. ASSUME NEW t \in Threads, OpenMoves(t) PROVE QueueInv'
  BY <1>0, <1>2, MovesFrame
<1>3. ASSUME NEW k \in Sockets, NEW a, ~kern[k].bound, UNCHANGED queue,
             kern' = [kern EXCEPT ![k] = a]
      PROVE  QueueInv'
  <2>1. \A j \in Sockets : kern'[j] = IF j = k THEN a ELSE kern[j]
    BY <1>3 DEF KernelTypes
  <2>2. queue'[k] = <<>>
    BY <1>3 DEF QueueInv
  <2> QED
    BY <1>3, <2>1, <2>2 DEF QueueInv
<1>4. ASSUME NEW t \in Threads, MakeSocket(t) PROVE QueueInv'
  <2>1. PICK f, k, made : Made(t, f, k, made)
    BY <1>4, MakeLemma
  <2>2. ~kern[k].bound
    BY <2>1, MadeLemma
  <2>3. k \in Sockets /\ kern' = [kern EXCEPT ![k] = made] /\ UNCHANGED queue
    BY <2>1 DEF Made
  <2> QED
    BY <1>3, <2>2, <2>3
<1>5. ASSUME NEW t \in Threads, SetupStep(t) PROVE QueueInv'
  <2>1. PICK a : Granted(t, a) /\ Proceed(t, a)
    BY <1>5, SetupLemma
  <2>2. fdTable[guard[t]] \in Sockets /\ ~kern[fdTable[guard[t]]].bound
    BY <1>5, SetupLemma, GuardLemma
  <2>3. kern' = [kern EXCEPT ![fdTable[guard[t]]] = a] /\ UNCHANGED queue
    BY <2>1 DEF Proceed
  <2> QED
    BY <1>3, <2>2, <2>3
<1>6. ASSUME NEW k \in Sockets, kern' = [kern EXCEPT ![k] = Freed],
             queue' = [queue EXCEPT ![k] = <<>>]
      PROVE  QueueInv'
  <2>1. \A j \in Sockets : j # k => kern'[j] = kern[j] /\ queue'[j] = queue[j]
    BY <1>6 DEF KernelTypes
  <2>2. queue'[k] = <<>>
    BY <1>6 DEF KernelTypes
  <2> QED
    BY <2>1, <2>2 DEF QueueInv
<1>7. ASSUME NEW t \in Threads, Unwind(t) PROVE QueueInv'
  BY <1>6, <1>7, UnwindLemma
<1>8. ASSUME NEW t \in Threads, Receiving(t) PROVE QueueInv'
  <2>1. UNCHANGED kern
    BY <1>8, ReceivesFrame
  <2>2. ASSUME NEW k \in Sockets, NEW n \in 1..Len(queue[k]),
               queue' = [queue EXCEPT ![k] =
                            SubSeq(queue[k], n + 1, Len(queue[k]))]
        PROVE  QueueInv'
    <3> DEFINE q == queue[k]
               rest == SubSeq(q, n + 1, Len(q))
    <3>1. q \in Seq(Frames) /\ Sieved(q, kern[k])
      BY DEF KernelTypes, QueueInv, Sieved
    <3>2. /\ Len(rest) = Len(q) - n
          /\ \A i \in 1..Len(rest) : rest[i] = q[i + n]
      BY <3>1, FrontLemma
    <3>3. Len(q) \in Nat
      BY <3>1
    <3> HIDE DEF rest
    <3>4. Sieved(rest, kern[k])
      <4>1. \A i \in 1..Len(rest) : i + n \in 1..Len(q)
        BY <3>2, <3>3
      <4> QED
        BY <3>1, <3>2, <4>1 DEF Sieved
    <3>5. kern[k].bound
      <4>1. q # <<>>
        BY <3>3
      <4> QED
        BY <4>1 DEF QueueInv
    <3>6. queue'[k] = rest /\ \A j \in Sockets : j # k => queue'[j] = queue[j]
      BY <2>2 DEF KernelTypes, rest
    <3> QED
      BY <2>1, <3>4, <3>5, <3>6 DEF QueueInv, Sieved
  <2> QED
    BY <1>0, <1>8, <2>1, <2>2, TakesFromFront
<1>9. ASSUME NEW t \in Threads, Sends(t) PROVE QueueInv'
  BY <1>0, <1>9, SendsFrame
<1>10. ASSUME NEW h \in Owned, OwnerStep(h) PROVE QueueInv'
  <2>1. CASE DropSocket(h)
    <3>1. h.of \in Sockets
      BY <2>1, DropLemma
    <3>2. \/ UNCHANGED <<kern, queue>>
          \/ /\ kern' = [kern EXCEPT ![h.of] = Freed]
             /\ queue' = [queue EXCEPT ![h.of] = <<>>]
      BY <2>1, DropLemma
    <3> QED
      BY <1>0, <1>6, <3>1, <3>2
  <2>2. CASE TryClone(h) \/ IntoRawFd(h) \/ FromRawFd(h)
    BY <1>0, <2>2 DEF TryClone, IntoRawFd, FromRawFd, kernelVars
  <2> QED
    BY <1>10, <2>1, <2>2 DEF OwnerStep
<1>11. CASE UNCHANGED vars
  BY <1>0, <1>11 DEF vars, kernelVars
<1> QED
  BY <1>1, <1>2, <1>4, <1>5, <1>7, <1>8, <1>9, <1>10, <1>11, NextCases

\* OpenInv for one thread.
Opened(u) ==
    LET k == fdTable[guard[u]]
    IN  /\ k \in Sockets
        /\ \A f \in Fds \ {guard[u]} : fdTable[f] # k
        /\ ~kern[k].bound
        /\ kern[k].wish = opts[u]
        /\ pc[u] \in {"filter", "err_filter", "tune", "bind"} =>
             (kern[k].fd => opts[u].fd)
        /\ pc[u] \in {"err_filter", "tune", "bind"} =>
             kern[k].filter = FilterOf(opts[u])
        /\ pc[u] \in {"tune", "bind"} => kern[k].err = opts[u].err

\* A step that leaves the thread, its descriptor and the socket behind it
\* alone, and makes nothing else refer to that socket.
LEMMA OpenedStays ==
    ASSUME NEW u \in Threads, Opened(u),
           guard'[u] = guard[u], opts'[u] = opts[u],
           pc'[u] = pc[u] \/ pc'[u] = "unwind",
           fdTable'[guard[u]] = fdTable[guard[u]],
           kern'[fdTable[guard[u]]] = kern[fdTable[guard[u]]],
           \A f \in Fds \ {guard[u]} : fdTable'[f] # fdTable[guard[u]]
    PROVE  Opened(u)'
<1>1. ~kern'[fdTable[guard[u]]].bound
  BY Zenon DEF Opened
<1> QED
  BY <1>1 DEF Opened

LEMMA OpenStepLemma ==
    ASSUME IInv, [Next]_vars
    PROVE  OpenInv'
<1> USE DEF IInv
<1> SUFFICES ASSUME NEW u \in Threads, guard'[u] # NoFd
             PROVE  Opened(u)'
  BY DEF OpenInv, Opened
<1>0. guard[u] # NoFd => /\ Opened(u)
                         /\ pc[u] \in OpenSteps \ {"socket"}
                         /\ guard[u] \in Fds
  BY DEF OpenInv, Opened, ThreadTypes
<1>1. CASE UNCHANGED <<fdTable, kern, guard>> /\ opts'[u] = opts[u]
           /\ (pc'[u] = pc[u] \/ pc'[u] = "unwind")
  <2>1. Opened(u)
    BY <1>0, <1>1
  <2> QED
    BY <1>1, <2>1, OpenedStays DEF Opened
<1>2. CASE Arrive
  BY <1>1, <1>2 DEF Arrive, openVars
<1>3. ASSUME NEW t \in Threads, OpenMoves(t) PROVE Opened(u)'
  <2>1. UNCHANGED <<fdTable, kern, guard>>
    BY <1>3, MovesFrame
  <2>2. opts'[u] = opts[u] /\ (pc'[u] = pc[u] \/ pc'[u] = "unwind")
    BY <1>0, <1>3, <2>1 DEF OpenMoves, BeginOpen, SocketFails, StepFails,
                            OpenSteps, openVars, ThreadTypes
  <2> QED
    BY <1>1, <2>1, <2>2
<1>4. ASSUME NEW t \in Threads, MakeSocket(t) PROVE Opened(u)'
  <2>1. PICK f, k, made : Made(t, f, k, made)
    BY <1>4, MakeLemma
  <2>2. /\ made.state = "open" /\ made.wish = opts[t] /\ ~made.bound
        /\ \A g \in Fds : fdTable[g] # k
    BY <2>1, MadeLemma
  <2>3. /\ f \in Fds /\ fdTable[f] = NoSocket /\ k \in Sockets
        /\ \A g \in Fds : fdTable'[g] = IF g = f THEN k ELSE fdTable[g]
        /\ \A j \in Sockets : kern'[j] = IF j = k THEN made ELSE kern[j]
        /\ UNCHANGED opts
    BY <2>1 DEF Made, KernelTypes
  <2>4. /\ \A x \in Threads : guard'[x] = IF x = t THEN f ELSE guard[x]
        /\ \A x \in Threads : pc'[x] = IF x = t THEN "ifindex" ELSE pc[x]
    BY <2>1 DEF Made, ThreadTypes
  <2>5. CASE u = t
    <3>1. guard'[u] = f /\ pc'[u] = "ifindex" /\ fdTable'[f] = k
          /\ kern'[k] = made
      BY <2>3, <2>4, <2>5
    <3>2. ~kern'[k].bound
      BY <2>2, <3>1, Zenon
    <3> QED
      BY <2>2, <2>3, <2>5, <3>1, <3>2 DEF Opened
  <2>6. CASE u # t
    <3>1. guard[u] # NoFd /\ guard'[u] = guard[u] /\ pc'[u] = pc[u]
      BY <2>4, <2>6
    <3>2. Opened(u) /\ guard[u] \in Fds /\ fdTable[guard[u]] \in Sockets
      BY <1>0, <3>1 DEF Opened
    <3>3. guard[u] # f /\ fdTable[guard[u]] # k
      BY <2>2, <2>3, <3>2
    <3>4. \A g \in Fds \ {guard[u]} : fdTable'[g] # fdTable[guard[u]]
      BY <2>3, <3>2, <3>3 DEF Opened
    <3> QED
      BY <2>3, <3>1, <3>2, <3>3, <3>4, OpenedStays
  <2> QED
    BY <2>5, <2>6
<1>5. ASSUME NEW t \in Threads, SetupStep(t) PROVE Opened(u)'
  <2>1. PICK a : Granted(t, a) /\ Proceed(t, a)
    BY <1>5, SetupLemma
  <2>2. pc[t] \in Setup /\ guard[t] # NoFd
    BY <1>5, SetupLemma
  <2> DEFINE k == fdTable[guard[t]]
  <2>3. k \in Sockets /\ guard[t] \in Fds
    BY <2>2, GuardLemma
  <2>4. /\ \A j \in Sockets : kern'[j] = IF j = k THEN a ELSE kern[j]
        /\ UNCHANGED <<fdTable, opts>>
    BY <2>1, <2>3 DEF Proceed, KernelTypes
  <2>5. CASE u = t
    <3>1. pc[t] # "bind" /\ pc' = [pc EXCEPT ![t] = After[pc[t]]]
          /\ UNCHANGED guard
      BY <2>1, <2>2, <2>5, ProceedLemma DEF Defuse, ThreadTypes
    <3>2. ~a.bound
      BY <2>1, <3>1, Zenon DEF Granted
    <3>3. pc'[t] = After[pc[t]]
      BY <3>1 DEF ThreadTypes
    <3>4. /\ pc'[t] \in {"filter", "err_filter", "tune", "bind"} =>
                pc[t] \in {"fd_frames", "filter", "err_filter", "tune"}
          /\ pc'[t] \in {"err_filter", "tune", "bind"} =>
                pc[t] \in {"filter", "err_filter", "tune"}
          /\ pc'[t] \in {"tune", "bind"} => pc[t] \in {"err_filter", "tune"}
      BY <2>2, <3>3 DEF After, Setup
    <3>5. /\ a.wish = opts[t]
          /\ pc'[t] \in {"filter", "err_filter", "tune", "bind"} =>
               (a.fd => opts[t].fd)
          /\ pc'[t] \in {"err_filter", "tune", "bind"} =>
               a.filter = FilterOf(opts[t])
          /\ pc'[t] \in {"tune", "bind"} => a.err = opts[t].err
      BY <2>1, <3>4 DEF Granted
    <3>6. Opened(t)
      BY <2>2 DEF OpenInv, Opened
    <3>7. kern'[k] = a /\ guard'[t] = guard[t] /\ fdTable' = fdTable
          /\ opts' = opts
      BY <2>3, <2>4, <3>1
    <3>8. ~kern'[k].bound
      BY <3>2, <3>7, Zenon
    <3> QED
      BY <2>3, <2>5, <3>5, <3>6, <3>7, <3>8 DEF Opened
  <2>6. CASE u # t
    <3>1. guard'[u] = guard[u] /\ pc'[u] = pc[u]
      BY <2>1, <2>2, <2>6, ProceedLemma DEF Defuse, ThreadTypes
    <3>2. Opened(u) /\ guard[u] \in Fds /\ guard[u] # guard[t]
      BY <1>0, <2>2, <2>6, <3>1 DEF OwnInv
    <3>3. fdTable[guard[u]] # k
      BY <2>3, <3>2 DEF Opened
    <3> QED
      BY <2>4, <3>1, <3>2, <3>3, OpenedStays DEF Opened
  <2> QED
    BY <2>5, <2>6
<1>6. ASSUME NEW t \in Threads, Unwind(t) PROVE Opened(u)'
  <2>1. /\ guard[t] \in Fds /\ guard[t] # NoFd
        /\ fdTable[guard[t]] \in Sockets /\ Sole(guard[t])
        /\ fdTable' = [fdTable EXCEPT ![guard[t]] = NoSocket]
        /\ kern' = [kern EXCEPT ![fdTable[guard[t]]] = Freed]
    BY <1>6, UnwindLemma
  <2>2. /\ guard' = [guard EXCEPT ![t] = NoFd]
        /\ pc' = [pc EXCEPT ![t] = "idle"] /\ UNCHANGED opts
    BY <1>6 DEF Unwind
  <2>3. u # t /\ guard'[u] = guard[u] /\ pc'[u] = pc[u]
    BY <2>2 DEF ThreadTypes
  <2>4. Opened(u) /\ guard[u] \in Fds /\ guard[u] # guard[t]
    BY <1>0, <2>1, <2>3 DEF OwnInv
  <2>5. fdTable[guard[u]] # fdTable[guard[t]] /\ fdTable[guard[u]] \in Sockets
    BY <2>1, <2>4 DEF Opened
  <2>6. fdTable'[guard[u]] = fdTable[guard[u]]
        /\ kern'[fdTable[guard[u]]] = kern[fdTable[guard[u]]]
    BY <2>1, <2>4, <2>5 DEF KernelTypes
  <2>7. \A f \in Fds \ {guard[u]} : fdTable'[f] # fdTable[guard[u]]
    BY <2>1, <2>4, <2>5 DEF Opened, KernelTypes
  <2> QED
    BY <2>2, <2>3, <2>4, <2>6, <2>7, OpenedStays
<1>7. ASSUME NEW t \in Threads, Receiving(t) \/ Sends(t) PROVE Opened(u)'
  <2>1. UNCHANGED <<fdTable, kern, guard, opts>>
    BY <1>7, ReceivesFrame, SendsFrame
  <2>2. pc[t] \notin OpenSteps /\ \A x \in Threads : x # t => pc'[x] = pc[x]
    BY <1>7 DEF Receiving, RecvReturns, BeginRecv, Recv, RecvBatch, RecvEmpty,
                RecvBroken, Sends, BeginSend, Transmit, SendReturns, Return,
                Receives, OpenSteps, ThreadTypes
  <2>3. pc'[u] = pc[u]
    BY <1>0, <2>1, <2>2
  <2> QED
    BY <1>1, <2>1, <2>3
<1>8. ASSUME NEW h \in Owned, OwnerStep(h) PROVE Opened(u)'
  <2>1. UNCHANGED <<pc, opts, guard>>
    BY <1>8 DEF OwnerStep, TryClone, DropSocket, IntoRawFd, FromRawFd,
                openVars
  <2>2. /\ h.fd \in Fds /\ fdTable[h.fd] = h.of /\ h.of \in Sockets
        /\ guard[u] # h.fd
    BY OwnerLemma
  <2>3. Opened(u) /\ guard[u] \in Fds
    BY <1>0, <2>1
  <2>4. fdTable[guard[u]] # h.of /\ fdTable[guard[u]] \in Sockets
    BY <2>2, <2>3 DEF Opened
  <2>5. CASE TryClone(h)
    <3>1. Min(FreeFds) # guard[u]
      BY <2>4, <2>5, FreeLemma DEF TryClone
    <3>2. /\ \A g \in Fds : fdTable'[g] =
                IF g = Min(FreeFds) THEN h.of ELSE fdTable[g]
          /\ UNCHANGED kern
      BY <2>2, <2>5 DEF TryClone, KernelTypes
    <3>3. fdTable'[guard[u]] = fdTable[guard[u]]
      BY <2>3, <3>1, <3>2
    <3>4. \A g \in Fds \ {guard[u]} : fdTable'[g] # fdTable[guard[u]]
      BY <2>3, <2>4, <3>2 DEF Opened
    <3> QED
      BY <2>1, <2>3, <3>2, <3>3, <3>4, OpenedStays
  <2>6. CASE DropSocket(h)
    <3>1. \A g \in Fds : fdTable'[g] = IF g = h.fd THEN NoSocket ELSE fdTable[g]
      BY <2>6, DropLemma DEF KernelTypes
    <3>2. kern'[fdTable[guard[u]]] = kern[fdTable[guard[u]]]
      BY <2>4, <2>6, DropLemma DEF KernelTypes
    <3>3. \A g \in Fds \ {guard[u]} : fdTable'[g] # fdTable[guard[u]]
      <4>1. \A g \in Fds \ {guard[u]} : fdTable[g] # fdTable[guard[u]]
        BY <2>3 DEF Opened
      <4>2. fdTable[guard[u]] # NoSocket
        BY <2>4
      <4> QED
        BY <3>1, <4>1, <4>2
    <3>4. fdTable'[guard[u]] = fdTable[guard[u]]
      BY <2>2, <2>3, <3>1
    <3> QED
      BY <2>1, <2>3, <3>2, <3>3, <3>4, OpenedStays
  <2>7. CASE IntoRawFd(h) \/ FromRawFd(h)
    BY <1>1, <2>1, <2>7 DEF IntoRawFd, FromRawFd, kernelVars
  <2> QED
    BY <1>8, <2>5, <2>6, <2>7 DEF OwnerStep
<1>9. CASE UNCHANGED vars
  BY <1>1, <1>9 DEF vars, kernelVars, openVars
<1> QED
  BY <1>2, <1>3, <1>4, <1>5, <1>6, <1>7, <1>8, <1>9, NextCases

\* Open descriptors keep their one owner: a step that opens a descriptor gives
\* it one, and a step that closes a descriptor removes its owner.
LEMMA OwnStep ==
    ASSUME IInv, [Next]_vars
    PROVE  OwnInv'
<1> USE DEF IInv
<1>0. CASE UNCHANGED <<fdTable, kern, handles, raws, guard>>
  BY <1>0, Zenon DEF OwnInv, Owned
<1>a. \A h \in Owned : /\ h \in Handle /\ h.fd \in Fds /\ h.of \in Sockets
                       /\ fdTable[h.fd] = h.of
                       /\ \A t \in Threads : guard[t] # h.fd
  BY OwnerLemma
<1>b. \A h \in Owned : kern[h.of].bound
  BY OwnerLemma, Zenon
<1>c. \A t \in Threads : guard[t] # NoFd =>
         /\ guard[t] \in Fds /\ fdTable[guard[t]] \in Sockets
         /\ \A f \in Fds \ {guard[t]} : fdTable[f] # fdTable[guard[t]]
  BY DEF OpenInv, ThreadTypes
<1>d. /\ \A h, g \in Owned : h.fd = g.fd => h = g
      /\ handles \cap raws = {}
      /\ \A t, u \in Threads : guard[t] # NoFd /\ guard[t] = guard[u] => t = u
      /\ \A f \in Fds : fdTable[f] # NoSocket =>
           (\E h \in Owned : h.fd = f) \/ \E t \in Threads : guard[t] = f
  BY DEF OwnInv
<1>1. CASE Arrive
  BY <1>0, <1>1 DEF Arrive, openVars, ownVars
<1>2. ASSUME NEW t \in Threads, OpenMoves(t) PROVE OwnInv'
  BY <1>0, <1>2, MovesFrame
<1>3. ASSUME NEW t \in Threads, MakeSocket(t) PROVE OwnInv'
  <2>1. PICK f, k, made : Made(t, f, k, made)
    BY <1>3, MakeLemma
  <2>2. /\ f \in Fds /\ fdTable[f] = NoSocket /\ k \in Sockets
        /\ UNCHANGED <<handles, raws>> /\ Owned' = Owned
        /\ \A g \in Fds : fdTable'[g] = IF g = f THEN k ELSE fdTable[g]
        /\ \A j \in Sockets : j # k => kern'[j] = kern[j]
        /\ \A x \in Threads : guard'[x] = IF x = t THEN f ELSE guard[x]
    BY <2>1 DEF Made, KernelTypes, ThreadTypes, Owned
  <2>3. \A g \in Fds : fdTable[g] # k
    BY <2>1, MadeLemma
  <2>4. ASSUME NEW h \in Owned PROVE h.fd # f /\ h.of # k
    <3>1. h.fd \in Fds /\ h.of \in Sockets /\ fdTable[h.fd] = h.of
      BY <1>a
    <3>2. fdTable[h.fd] # k /\ fdTable[f] = NoSocket
      BY <2>2, <2>3, <3>1
    <3> QED
      BY <3>1, <3>2
  <2>5. \A h \in Owned : kern'[h.of].bound
    BY <1>a, <1>b, <2>2, <2>4, Zenon
  <2>6. \A x \in Threads : guard[x] # f
    BY <1>c, <2>2
  <2>7. \A h \in Owned' : fdTable'[h.fd] = h.of
                          /\ \A x \in Threads : guard'[x] # h.fd
    <3>1. ASSUME NEW h \in Owned
          PROVE  fdTable'[h.fd] = h.of /\ \A x \in Threads : guard'[x] # h.fd
      <4>1. /\ h.fd \in Fds /\ fdTable[h.fd] = h.of /\ h.fd # f
            /\ \A x \in Threads : guard[x] # h.fd
        BY <1>a, <2>4
      <4> QED
        BY <2>2, <4>1
    <3> QED
      BY <2>2, <3>1
  <2>8. \A x, y \in Threads : guard'[x] # NoFd /\ guard'[x] = guard'[y] => x = y
    BY <1>d, <2>2, <2>6
  <2>9. \A g \in Fds : fdTable'[g] # NoSocket =>
           (\E h \in Owned' : h.fd = g) \/ \E x \in Threads : guard'[x] = g
    <3> SUFFICES ASSUME NEW g \in Fds, fdTable'[g] # NoSocket,
                        ~\E h \in Owned : h.fd = g
                 PROVE  \E x \in Threads : guard'[x] = g
      BY <2>2
    <3>1. CASE g = f
      BY <2>2, <3>1
    <3>2. CASE g # f
      <4>1. PICK x \in Threads : guard[x] = g
        BY <1>d, <2>2, <3>2
      <4>2. guard[t] = NoFd
        BY <2>1 DEF Made, ThreadTypes
      <4> QED
        BY <2>2, <4>1, <4>2
    <3> QED
      BY <3>1, <3>2
  <2>10. \A h \in Owned' : fdTable'[h.fd] = h.of /\ kern'[h.of].bound
    BY <2>2, <2>5, <2>7, Zenon
  <2> QED
    BY <1>d, <2>2, <2>7, <2>8, <2>9, <2>10, Zenon DEF OwnInv
<1>4. ASSUME NEW t \in Threads, SetupStep(t) PROVE OwnInv'
  <2>1. PICK a : Granted(t, a) /\ Proceed(t, a)
    BY <1>4, SetupLemma
  <2>2. pc[t] \in Setup /\ guard[t] # NoFd
    BY <1>4, SetupLemma
  <2> DEFINE k == fdTable[guard[t]]
  <2>3. k \in Sockets /\ guard[t] \in Fds
    BY <2>2, GuardLemma
  <2>4. /\ \A j \in Sockets : kern'[j] = IF j = k THEN a ELSE kern[j]
        /\ UNCHANGED fdTable
    BY <2>1, <2>3 DEF Proceed, KernelTypes
  <2>5. \A h \in Owned : h.of # k /\ h.fd # guard[t]
    BY <1>a, <1>c, <2>2
  <2>6. \A h \in Owned : kern'[h.of].bound
    BY <1>a, <1>b, <2>4, <2>5, Zenon
  <2>7. CASE UNCHANGED <<guard, handles, raws>>
    <3>1. Owned' = Owned
      BY <2>7 DEF Owned
    <3>2. \A h \in Owned' : fdTable'[h.fd] = h.of /\ kern'[h.of].bound
      BY <1>a, <2>4, <2>6, <3>1, Zenon
    <3>3. \A h \in Owned', x \in Threads : guard'[x] # h.fd
      BY <1>a, <2>7, <3>1, Zenon
    <3> QED
      BY <1>d, <2>4, <2>7, <3>1, <3>2, <3>3, Zenon DEF OwnInv
  <2>8. CASE pc[t] = "bind" /\ Defuse(t)
    <3> DEFINE new == [fd |-> guard[t], of |-> k]
    <3>1. /\ handles' = handles \cup {new} /\ UNCHANGED raws
          /\ Owned' = Owned \cup {new}
      BY <2>8 DEF Defuse, Owned
    <3>2. \A x \in Threads : guard'[x] = IF x = t THEN NoFd ELSE guard[x]
      BY <2>8 DEF Defuse, ThreadTypes
    <3>3. new.fd = guard[t] /\ new.of = k /\ new \notin Owned
      BY <2>5
    <3> HIDE DEF new
    <3>4. kern'[k].bound
      <4>1. a.bound
        BY <2>1, <2>8, Zenon DEF Granted
      <4> QED
        BY <2>3, <2>4, <4>1, Zenon
    <3>5. \A h \in Owned' : kern'[h.of].bound
      BY <2>6, <3>1, <3>3, <3>4, Zenon
    <3>6. \A h \in Owned' : fdTable'[h.fd] = h.of /\ kern'[h.of].bound
      <4>1. \A h \in Owned' : fdTable'[h.fd] = h.of
        BY <1>a, <2>4, <3>1, <3>3
      <4> QED
        BY <3>5, <4>1, Zenon
    <3>7. \A h, g \in Owned' : h.fd = g.fd => h = g
      BY <1>d, <2>5, <3>1, <3>3
    <3>8. handles' \cap raws' = {}
      BY <1>d, <3>1, <3>3 DEF Owned
    <3>9. \A h \in Owned', x \in Threads : guard'[x] # h.fd
      BY <1>a, <1>d, <2>2, <2>3, <3>1, <3>2, <3>3
    <3>10. \A x, y \in Threads : guard'[x] # NoFd /\ guard'[x] = guard'[y] => x = y
      BY <1>d, <3>2
    <3>11. \A f \in Fds : fdTable'[f] # NoSocket =>
             (\E h \in Owned' : h.fd = f) \/ \E x \in Threads : guard'[x] = f
      <4> SUFFICES ASSUME NEW f \in Fds, fdTable'[f] # NoSocket
                   PROVE  \/ \E h \in Owned' : h.fd = f
                          \/ \E x \in Threads : guard'[x] = f
        OBVIOUS
      <4>1. fdTable[f] # NoSocket
        BY <2>4
      <4>2. CASE \E h \in Owned : h.fd = f
        BY <3>1, <4>2
      <4>3. ASSUME NEW x \in Threads, guard[x] = f
            PROVE  \/ \E h \in Owned' : h.fd = f
                   \/ \E y \in Threads : guard'[y] = f
        <5>1. CASE x = t
          BY <3>1, <3>3, <4>3, <5>1
        <5>2. CASE x # t
          BY <3>2, <4>3, <5>2
        <5> QED
          BY <5>1, <5>2
      <4> QED
        BY <1>d, <4>1, <4>2, <4>3
    <3> QED
      BY <3>6, <3>7, <3>8, <3>9, <3>10, <3>11, Zenon DEF OwnInv
  <2> QED
    BY <2>1, <2>2, <2>7, <2>8, ProceedLemma
<1>5. ASSUME NEW t \in Threads, Unwind(t) PROVE OwnInv'
  <2> DEFINE k == fdTable[guard[t]]
  <2>1. guard[t] \in Fds /\ guard[t] # NoFd /\ k \in Sockets
    BY <1>5, UnwindLemma
  <2>2. /\ \A f \in Fds : fdTable'[f] = IF f = guard[t] THEN NoSocket ELSE fdTable[f]
        /\ \A j \in Sockets : j # k => kern'[j] = kern[j]
    BY <1>5, <2>1, UnwindLemma DEF KernelTypes
  <2>3. /\ \A x \in Threads : guard'[x] = IF x = t THEN NoFd ELSE guard[x]
        /\ UNCHANGED <<handles, raws>> /\ Owned' = Owned
    BY <1>5 DEF Unwind, ThreadTypes, ownVars, Owned
  <2>4. \A h \in Owned : h.of # k /\ h.fd # guard[t]
    BY <1>a, <1>c, <2>1
  <2>5. \A h \in Owned' : fdTable'[h.fd] = h.of /\ kern'[h.of].bound
    <3>1. \A h \in Owned' : kern'[h.of].bound
      BY <1>a, <1>b, <2>2, <2>3, <2>4, Zenon
    <3>2. \A h \in Owned' : fdTable'[h.fd] = h.of
      BY <1>a, <2>2, <2>3, <2>4
    <3> QED
      BY <3>1, <3>2, Zenon
  <2>6. \A h \in Owned', x \in Threads : guard'[x] # h.fd
    BY <1>a, <2>3
  <2>7. \A x, y \in Threads : guard'[x] # NoFd /\ guard'[x] = guard'[y] => x = y
    BY <1>d, <2>3
  <2>8. \A f \in Fds : fdTable'[f] # NoSocket =>
           (\E h \in Owned' : h.fd = f) \/ \E x \in Threads : guard'[x] = f
    BY <1>d, <2>2, <2>3
  <2> QED
    BY <1>d, <2>3, <2>5, <2>6, <2>7, <2>8, Zenon DEF OwnInv
<1>6. ASSUME NEW t \in Threads, Receiving(t) PROVE OwnInv'
  BY <1>0, <1>6, ReceivesFrame
<1>7. ASSUME NEW t \in Threads, Sends(t) PROVE OwnInv'
  BY <1>0, <1>7, SendsFrame
<1>8. ASSUME NEW h \in Owned, TryClone(h) PROVE OwnInv'
  <2> DEFINE f == Min(FreeFds)
             new == [fd |-> f, of |-> h.of]
  <2>1. f \in Fds /\ fdTable[f] = NoSocket
    BY <1>8, FreeLemma DEF TryClone
  <2> HIDE DEF f
  <2>2. /\ fdTable' = [fdTable EXCEPT ![f] = fdTable[h.fd]]
        /\ handles' = handles \cup {new}
        /\ UNCHANGED <<kern, raws, guard>>
    BY <1>8 DEF TryClone, openVars, f
  <2>3. /\ \A g \in Fds : fdTable'[g] = IF g = f THEN h.of ELSE fdTable[g]
        /\ Owned' = Owned \cup {new}
    BY <1>a, <2>2 DEF KernelTypes, Owned
  <2>4. new.fd = f /\ new.of = h.of
    OBVIOUS
  <2> HIDE DEF new
  <2>5. /\ \A g \in Owned : g.fd # f
        /\ \A x \in Threads : guard[x] # f
        /\ new \notin Owned
    BY <1>a, <1>c, <2>1, <2>4
  <2>6. \A g \in Owned' : fdTable'[g.fd] = g.of /\ kern'[g.of].bound
    <3>1. \A g \in Owned' : kern'[g.of].bound
      BY <1>8, <1>b, <2>2, <2>3, <2>4, Zenon
    <3>2. \A g \in Owned' : fdTable'[g.fd] = g.of
      BY <1>a, <2>1, <2>3, <2>4, <2>5
    <3> QED
      BY <3>1, <3>2, Zenon
  <2>7. \A g, j \in Owned' : g.fd = j.fd => g = j
    BY <1>d, <2>3, <2>4, <2>5
  <2>8. handles' \cap raws' = {}
    BY <1>d, <2>2, <2>5 DEF Owned
  <2>9. \A g \in Owned', x \in Threads : guard'[x] # g.fd
    BY <1>a, <2>2, <2>3, <2>4, <2>5
  <2>10. \A g \in Fds : fdTable'[g] # NoSocket =>
            (\E j \in Owned' : j.fd = g) \/ \E x \in Threads : guard'[x] = g
    BY <1>d, <2>2, <2>3, <2>4
  <2> QED
    BY <1>d, <2>2, <2>6, <2>7, <2>8, <2>9, <2>10, Zenon DEF OwnInv
<1>9. ASSUME NEW h \in Owned, DropSocket(h) PROVE OwnInv'
  <2>1. h.fd \in Fds /\ fdTable[h.fd] = h.of /\ h.of \in Sockets
    BY <1>9, DropLemma
  <2>2. \A f \in Fds : fdTable'[f] = IF f = h.fd THEN NoSocket ELSE fdTable[f]
    BY <1>9, <2>1, DropLemma DEF KernelTypes
  <2>3. /\ h \in handles /\ handles' = handles \ {h}
        /\ UNCHANGED <<raws, guard>> /\ Owned' = Owned \ {h}
    BY <1>9, <1>d DEF DropSocket, openVars, Owned
  <2>4. \A g \in Owned' : g \in Owned /\ g.fd # h.fd
    BY <1>d, <2>3
  <2>5. \A g \in Owned' : kern'[g.of] = kern[g.of]
    <3> SUFFICES ASSUME NEW g \in Owned' PROVE kern'[g.of] = kern[g.of]
      OBVIOUS
    <3>1. CASE UNCHANGED kern
      BY <3>1
    <3>2. CASE Sole(h.fd) /\ kern' = [kern EXCEPT ![h.of] = Freed]
      <4>1. g.of # h.of
        BY <1>a, <2>1, <2>4, <3>2 DEF Sole
      <4> QED
        BY <1>a, <2>4, <3>2, <4>1 DEF KernelTypes
    <3> QED
      BY <1>9, <3>1, <3>2, DropLemma
  <2>6. \A g \in Owned' : fdTable'[g.fd] = g.of /\ kern'[g.of].bound
    <3>1. \A g \in Owned' : kern'[g.of].bound
      BY <1>b, <2>4, <2>5, Zenon
    <3>2. \A g \in Owned' : fdTable'[g.fd] = g.of
      BY <1>a, <2>2, <2>4
    <3> QED
      BY <3>1, <3>2, Zenon
  <2>7. \A g, j \in Owned' : g.fd = j.fd => g = j
    BY <1>d, <2>4
  <2>8. handles' \cap raws' = {}
    BY <1>d, <2>3
  <2>9. \A g \in Owned', x \in Threads : guard'[x] # g.fd
    BY <1>a, <2>3, <2>4
  <2>10. \A f \in Fds : fdTable'[f] # NoSocket =>
            (\E g \in Owned' : g.fd = f) \/ \E x \in Threads : guard'[x] = f
    BY <1>d, <2>2, <2>3
  <2> QED
    BY <1>d, <2>3, <2>6, <2>7, <2>8, <2>9, <2>10, Zenon DEF OwnInv
<1>10. ASSUME NEW h \in Owned, IntoRawFd(h) \/ FromRawFd(h) PROVE OwnInv'
  <2>1. Owned' = Owned /\ handles' \cap raws' = {}
    BY <1>10, <1>d DEF IntoRawFd, FromRawFd, Owned
  <2>2. UNCHANGED <<fdTable, kern, guard>>
    BY <1>10 DEF IntoRawFd, FromRawFd, kernelVars, openVars
  <2> QED
    BY <2>1, <2>2, Zenon DEF OwnInv
<1>11. CASE UNCHANGED vars
  BY <1>0, <1>11 DEF vars, kernelVars, openVars, ownVars
<1> QED
  BY <1>1, <1>2, <1>3, <1>4, <1>5, <1>6, <1>7, <1>8, <1>9, <1>10, <1>11,
     NextCases DEF OwnerStep
-----------------------------------------------------------------------------
(* Sends and receives.                                                     *)

\* SendInv for one thread.
Sent(t) ==
    /\ reported[t] \in 0..MaxSent
    /\ count[t] \in 0..MaxBatch
    /\ accepted[t] \in 0..count[t]
    /\ onBus[t] \in Seq(1..MaxSent)
    /\ pc[t] = "send" =>
         /\ reported[t] + count[t] <= MaxSent
         /\ Len(onBus[t]) = reported[t] + accepted[t]
    /\ pc[t] # "send" => Len(onBus[t]) = reported[t] /\ accepted[t] = 0
    /\ \A i \in 1..Len(onBus[t]) : onBus[t][i] = i

\* A thread that neither begins nor ends a send.
LEMMA SentStays ==
    ASSUME SendInv, UNCHANGED sendVars,
           \A t \in Threads : (pc'[t] = "send") <=> (pc[t] = "send")
    PROVE  SendInv'
<1>1. UNCHANGED <<reported, count, accepted, onBus>>
  BY DEF sendVars
<1> QED
  BY <1>1 DEF SendInv

LEMMA SendsOfOthers ==
    ASSUME SendTypes, SendInv, NEW t \in Threads, Sent(t)',
           \A u \in Threads \ {t} :
              /\ reported'[u] = reported[u] /\ count'[u] = count[u]
              /\ accepted'[u] = accepted[u] /\ onBus'[u] = onBus[u]
              /\ pc'[u] = pc[u]
    PROVE  SendInv'
<1>1. \A u \in Threads \ {t} : Sent(u)'
  BY DEF SendInv, Sent
<1> QED
  BY <1>1 DEF SendInv, Sent

LEMMA SendStep ==
    ASSUME IInv, [Next]_vars
    PROVE  SendTypes' /\ SendInv'
<1> USE DEF IInv
<1>0. ASSUME UNCHANGED sendVars,
             \A t \in Threads : (pc'[t] = "send") <=> (pc[t] = "send")
      PROVE  SendTypes' /\ SendInv'
  BY <1>0, SentStays DEF SendTypes, sendVars
<1>1. CASE Arrive
  BY <1>0, <1>1 DEF Arrive
<1>2. ASSUME NEW t \in Threads, OpenMoves(t) PROVE SendTypes' /\ SendInv'
  <2>1. pc[t] # "send" /\ \E step \in {"idle", "socket", "unwind"} :
                             pc' = [pc EXCEPT ![t] = step]
    BY <1>2 DEF OpenMoves, BeginOpen, SocketFails, StepFails, Fallible
  <2>2. \A u \in Threads : (pc'[u] = "send") <=> (pc[u] = "send")
    BY <2>1 DEF ThreadTypes
  <2> QED
    BY <1>0, <1>2, <2>2, MovesFrame
<1>3. ASSUME NEW t \in Threads, MakeSocket(t) PROVE SendTypes' /\ SendInv'
  <2>1. PICK f, k, made : Made(t, f, k, made)
    BY <1>3, MakeLemma
  <2>2. \A u \in Threads : (pc'[u] = "send") <=> (pc[u] = "send")
    BY <2>1 DEF Made, ThreadTypes
  <2> QED
    BY <1>0, <2>1, <2>2 DEF Made
<1>4. ASSUME NEW t \in Threads, SetupStep(t) PROVE SendTypes' /\ SendInv'
  <2>1. PICK a : Granted(t, a) /\ Proceed(t, a)
    BY <1>4, SetupLemma
  <2>2. pc[t] \in Setup
    BY <1>4, SetupLemma
  <2>3. \E step \in Setup \cup {"idle"} : pc' = [pc EXCEPT ![t] = step]
    BY <2>1, <2>2, ProceedLemma DEF Defuse
  <2>4. \A u \in Threads : (pc'[u] = "send") <=> (pc[u] = "send")
    BY <2>2, <2>3 DEF Setup, ThreadTypes
  <2> QED
    BY <1>0, <2>1, <2>4 DEF Proceed
<1>5. ASSUME NEW t \in Threads, Unwind(t) PROVE SendTypes' /\ SendInv'
  <2>1. \A u \in Threads : (pc'[u] = "send") <=> (pc[u] = "send")
    BY <1>5 DEF Unwind, ThreadTypes
  <2> QED
    BY <1>0, <1>5, <2>1 DEF Unwind
<1>6. ASSUME NEW t \in Threads, Receiving(t) PROVE SendTypes' /\ SendInv'
  <2>1. pc[t] # "send" /\ \E step \in Receives \cup {"idle"} :
                             pc' = [pc EXCEPT ![t] = step]
    BY <1>6 DEF Receiving, RecvReturns, BeginRecv, Recv, RecvBatch,
                RecvEmpty, RecvBroken, Return, Receives
  <2>2. \A u \in Threads : (pc'[u] = "send") <=> (pc[u] = "send")
    BY <2>1 DEF ThreadTypes, Receives
  <2>3. UNCHANGED sendVars
    BY <1>6, ReceivesFrame
  <2> QED
    BY <1>0, <2>2, <2>3
<1>7. ASSUME NEW t \in Threads, NEW h \in handles, NEW len \in Slices,
             BeginSend(t, h, len)
      PROVE  SendTypes' /\ SendInv'
  <2>1. /\ pc[t] = "idle" /\ reported[t] + len <= MaxSent
        /\ pc' = [pc EXCEPT ![t] = "send"]
        /\ count' = [count EXCEPT ![t] = HandOver(len)]
        /\ UNCHANGED <<reported, accepted, onBus>>
    BY <1>7 DEF BeginSend
  <2>2. HandOver(len) \in 0..MaxBatch /\ HandOver(len) <= len /\ len \in Nat
    BY HandOverLemma
  <2>3. Sent(t)
    BY DEF SendInv, Sent
  <2>4. /\ pc'[t] = "send" /\ reported'[t] = reported[t]
        /\ count'[t] = HandOver(len) /\ accepted'[t] = 0
        /\ onBus'[t] = onBus[t]
    BY <2>1, <2>3 DEF ThreadTypes, SendTypes, Sent
  <2>5. reported[t] \in Nat /\ reported[t] + HandOver(len) <= MaxSent
    BY <2>1, <2>2, <2>3 DEF Sent
  <2>6. Sent(t)'
    BY <2>1, <2>2, <2>3, <2>4, <2>5 DEF Sent
  <2>7. SendTypes'
    BY <2>1, <2>2 DEF SendTypes
  <2>8. \A u \in Threads \ {t} :
            /\ reported'[u] = reported[u] /\ count'[u] = count[u]
            /\ accepted'[u] = accepted[u] /\ onBus'[u] = onBus[u]
            /\ pc'[u] = pc[u]
    BY <2>1 DEF SendTypes, ThreadTypes
  <2> QED
    BY <2>6, <2>7, <2>8, SendsOfOthers
<1>8. ASSUME NEW t \in Threads, Transmit(t) PROVE SendTypes' /\ SendInv'
  <2> DEFINE next == reported[t] + accepted[t] + 1
  <2>1. /\ pc[t] = "send" /\ accepted[t] < count[t]
        /\ accepted' = [accepted EXCEPT ![t] = accepted[t] + 1]
        /\ onBus' = [onBus EXCEPT ![t] = Append(onBus[t], next)]
        /\ UNCHANGED <<pc, reported, count>>
    BY <1>8 DEF Transmit
  <2>2. Sent(t)
    BY DEF SendInv, Sent
  <2>3. next \in 1..MaxSent /\ Len(onBus[t]) = next - 1 /\ next \in Int
    <3>1. /\ reported[t] \in Nat /\ accepted[t] \in Nat /\ count[t] \in Nat
          /\ reported[t] + count[t] <= MaxSent
      BY <2>1, <2>2 DEF Sent
    <3>2. Len(onBus[t]) = reported[t] + accepted[t]
      BY <2>1, <2>2 DEF Sent
    <3>3. accepted[t] < count[t]
      BY <2>1
    <3> QED
      BY <3>1, <3>2, <3>3
  <2>4. /\ accepted'[t] = accepted[t] + 1 /\ pc'[t] = "send"
        /\ onBus'[t] = Append(onBus[t], next)
        /\ reported'[t] = reported[t] /\ count'[t] = count[t]
    BY <2>1 DEF SendTypes
  <2> HIDE DEF next
  <2>5. /\ onBus'[t] \in Seq(1..MaxSent) /\ Len(onBus'[t]) = next
        /\ \A i \in 1..next - 1 : onBus'[t][i] = onBus[t][i]
        /\ onBus'[t][next] = next
    BY <2>2, <2>3, <2>4, AppendProperties DEF Sent
  <2>6. ASSUME NEW i \in 1..next PROVE onBus'[t][i] = i
    <3>1. CASE i = next
      BY <2>5, <3>1
    <3>2. CASE i # next
      <4>1. i \in 1..next - 1
        BY <2>3, <3>2
      <4>2. onBus[t][i] = i
        BY <2>2, <2>3, <4>1 DEF Sent
      <4> QED
        BY <2>5, <4>1, <4>2
    <3> QED
      BY <3>1, <3>2
  <2>7. next = reported[t] + accepted'[t]
    BY <2>2, <2>4 DEF next, Sent
  <2>8. accepted'[t] \in 0..count[t]
    BY <2>1, <2>2, <2>4 DEF Sent
  <2>9. Sent(t)'
    BY <2>1, <2>2, <2>4, <2>5, <2>6, <2>7, <2>8 DEF Sent
  <2>10. SendTypes'
    BY <2>1, <2>2, <2>3, AppendProperties DEF SendTypes, Sent
  <2>11. \A u \in Threads \ {t} :
            /\ reported'[u] = reported[u] /\ count'[u] = count[u]
            /\ accepted'[u] = accepted[u] /\ onBus'[u] = onBus[u]
            /\ pc'[u] = pc[u]
    BY <2>1 DEF SendTypes
  <2> QED
    BY <2>9, <2>10, <2>11, SendsOfOthers
<1>9. ASSUME NEW t \in Threads, SendReturns(t) PROVE SendTypes' /\ SendInv'
  <2>1. /\ pc[t] = "send"
        /\ reported' = [reported EXCEPT ![t] = reported[t] + accepted[t]]
        /\ count' = [count EXCEPT ![t] = 0]
        /\ accepted' = [accepted EXCEPT ![t] = 0]
        /\ pc' = [pc EXCEPT ![t] = "idle"] /\ UNCHANGED onBus
    BY <1>9 DEF SendReturns, Return
  <2>2. Sent(t)
    BY DEF SendInv, Sent
  <2>3. /\ pc'[t] = "idle" /\ reported'[t] = reported[t] + accepted[t]
        /\ count'[t] = 0 /\ accepted'[t] = 0
        /\ onBus'[t] = onBus[t]
    BY <2>1 DEF ThreadTypes, SendTypes
  <2>4. reported[t] + accepted[t] \in 0..MaxSent
    BY <2>1, <2>2 DEF Sent
  <2>5. Sent(t)'
    BY <2>1, <2>2, <2>3, <2>4 DEF Sent
  <2>6. SendTypes'
    BY <2>1, <2>4 DEF SendTypes
  <2>7. \A u \in Threads \ {t} :
            /\ reported'[u] = reported[u] /\ count'[u] = count[u]
            /\ accepted'[u] = accepted[u] /\ onBus'[u] = onBus[u]
            /\ pc'[u] = pc[u]
    BY <2>1 DEF SendTypes, ThreadTypes
  <2> QED
    BY <2>5, <2>6, <2>7, SendsOfOthers
<1>10. ASSUME NEW h \in Owned, OwnerStep(h) PROVE SendTypes' /\ SendInv'
  <2>1. UNCHANGED <<pc, sendVars>>
    BY <1>10 DEF OwnerStep, TryClone, DropSocket, IntoRawFd, FromRawFd
  <2> QED
    BY <1>0, <2>1
<1>11. CASE UNCHANGED vars
  BY <1>0, <1>11 DEF vars
<1> QED
  BY <1>1, <1>2, <1>3, <1>4, <1>5, <1>6, <1>7, <1>8, <1>9, <1>10, <1>11,
     NextCases DEF Sends

\* A call of t takes some frames and returns those its caller is due.
LEMMA Taking ==
    ASSUME ReceiveInv, NEW t \in Threads, NEW more, NEW r,
           out' \in [Threads -> [1..Slots -> Frames]] \/ UNCHANGED out,
           taken' = [taken EXCEPT ![t] = taken[t] \o more],
           got' = [got EXCEPT ![t] = got[t] \o r],
           taken[t] \o more \in Seq(TakenFrames),
           r \in Seq(Frames), got[t] \in Seq(Frames),
           Due(taken[t] \o more) = got[t] \o r
    PROVE  ReceiveInv'
<1>1. out' \in [Threads -> [1..Slots -> Frames]]
  BY DEF ReceiveInv
<1>2. got[t] \o r \in Seq(Frames)
  BY ConcatProperties
<1>3. taken' \in [Threads -> Seq(TakenFrames)] /\ got' \in [Threads -> Seq(Frames)]
  BY <1>2 DEF ReceiveInv
<1>4. ASSUME NEW u \in Threads PROVE got'[u] = Due(taken'[u])
  BY DEF ReceiveInv
<1> QED
  BY <1>1, <1>3, <1>4 DEF ReceiveInv

LEMMA ReceiveStep ==
    ASSUME IInv, [Next]_vars
    PROVE  ReceiveInv'
<1> USE DEF IInv
<1>0. CASE UNCHANGED <<out, taken, got>>
  BY <1>0 DEF ReceiveInv
<1>1. CASE Arrive
  BY <1>0, <1>1 DEF Arrive, recvVars
<1>2. ASSUME NEW t \in Threads, OpenMoves(t) PROVE ReceiveInv'
  BY <1>0, <1>2, MovesFrame DEF recvVars
<1>3. ASSUME NEW t \in Threads, MakeSocket(t) PROVE ReceiveInv'
  <2>1. PICK f, k, made : Made(t, f, k, made)
    BY <1>3, MakeLemma
  <2> QED
    BY <1>0, <2>1 DEF Made, recvVars
<1>4. ASSUME NEW t \in Threads, SetupStep(t) PROVE ReceiveInv'
  <2>1. PICK a : Granted(t, a) /\ Proceed(t, a)
    BY <1>4, SetupLemma
  <2> QED
    BY <1>0, <2>1 DEF Proceed, recvVars
<1>5. ASSUME NEW t \in Threads, Unwind(t) PROVE ReceiveInv'
  BY <1>0, <1>5 DEF Unwind, recvVars
<1>6. ASSUME NEW t \in Threads, Recv(t) PROVE ReceiveInv'
  <2> DEFINE q == queue[Source(t)]
             one == <<Head(q)>>
             r == Reported(t, one)
             more == Given(t, one)
  <2>1. q \in Seq(Frames) /\ pc[t] \in Receives
    BY <1>6, SourceLemma DEF Recv, Receives
  <2>2. q # <<>>
    BY <1>6 DEF Recv
  <2>3. one \in Seq(Frames) /\ Len(one) = 1
    <3>1. Head(q) \in Frames
      BY <2>1, <2>2
    <3> QED
      BY <3>1
  <2>4. /\ taken' = [taken EXCEPT ![t] = taken[t] \o more]
        /\ got' = [got EXCEPT ![t] = got[t] \o r] /\ UNCHANGED out
    BY <1>6 DEF Recv
  <2> HIDE DEF one
  <2>5. taken[t] \in Seq(TakenFrames) /\ got[t] = Due(taken[t])
    BY DEF ReceiveInv
  <2>6. /\ taken[t] \o more \in Seq(TakenFrames) /\ r \in Seq(Frames)
        /\ Due(taken[t]) \in Seq(Frames)
        /\ Due(taken[t] \o more) = Due(taken[t]) \o r
    BY <2>1, <2>3, <2>5, DueGrows
  <2> HIDE DEF r, more
  <2> QED
    BY <2>4, <2>5, <2>6, Taking
<1>7. ASSUME NEW t \in Threads, RecvBatch(t) PROVE ReceiveInv'
  <2> DEFINE q == queue[Source(t)]
  <2>1. q \in Seq(Frames) /\ pc[t] = "recv_batch" /\ pc[t] \in Receives
    BY <1>7, SourceLemma DEF RecvBatch, Receives
  <2>2. PICK n \in 1..Min({Slots, MaxBatch, Len(q)}) :
          LET batch == SubSeq(q, 1, n)
              delivered == Len(DataOf(batch))
          IN  /\ taken' = [taken EXCEPT ![t] = taken[t] \o Given(t, batch)]
              /\ out' = [out EXCEPT ![t] = Fill(out[t], batch)]
              /\ got' = [got EXCEPT ![t] =
                            got[t] \o SubSeq(out'[t], 1, delivered)]
    BY <1>7 DEF RecvBatch
  <2>3. n \in 1..Len(q) /\ n <= Slots
    <3> DEFINE limits == {Slots, MaxBatch, Len(q)}
    <3>1. limits \in SUBSET Nat /\ limits # {} /\ Len(q) \in limits
          /\ Slots \in limits
      BY <2>1
    <3>2. Min(limits) <= Len(q) /\ Min(limits) <= Slots /\ Min(limits) \in Nat
      <4> HIDE DEF limits
      <4> QED
        BY <3>1, MinLemma
    <3> QED
      BY <2>1, <3>2
  <2> DEFINE batch == SubSeq(q, 1, n)
             data == DataOf(batch)
             more == Given(t, batch)
  <2>4. batch \in Seq(Frames) /\ Len(batch) <= Slots
    BY <2>1, <2>3
  <2>5. /\ taken' = [taken EXCEPT ![t] = taken[t] \o more]
        /\ out' = [out EXCEPT ![t] = Fill(out[t], batch)]
        /\ got' = [got EXCEPT ![t] = got[t] \o SubSeq(out'[t], 1, Len(data))]
    BY <2>2
  <2> HIDE DEF batch
  <2>6. out[t] \in [1..Slots -> Frames]
    BY DEF ReceiveInv
  <2>7. /\ Fill(out[t], batch) \in [1..Slots -> Frames]
        /\ SubSeq(Fill(out[t], batch), 1, Len(data)) = data
        /\ data = Reported(t, batch)
    BY <2>1, <2>4, <2>6, FillLemma DEF Reported
  <2>8. taken[t] \in Seq(TakenFrames) /\ got[t] = Due(taken[t])
    BY DEF ReceiveInv
  <2>9. /\ taken[t] \o more \in Seq(TakenFrames) /\ data \in Seq(Frames)
        /\ Due(taken[t]) \in Seq(Frames)
        /\ Due(taken[t] \o more) = Due(taken[t]) \o data
    <3>1. pc[t] = "recv_decoded" => Len(batch) = 1
      BY <2>1
    <3> HIDE DEF data
    <3> QED
      BY <2>1, <2>4, <2>7, <2>8, <3>1, DueGrows
  <2> HIDE DEF data, more
  <2>10. out'[t] = Fill(out[t], batch)
    BY <2>5 DEF ReceiveInv
  <2>11. got' = [got EXCEPT ![t] = got[t] \o data]
    BY <2>5, <2>7, <2>10
  <2>12. out' \in [Threads -> [1..Slots -> Frames]]
    BY <2>5, <2>7 DEF ReceiveInv
  <2> QED
    BY <2>5, <2>8, <2>9, <2>11, <2>12, Taking, ZenonT(30)
<1>8. ASSUME NEW t \in Threads, Receiving(t), ~Recv(t), ~RecvBatch(t)
      PROVE  ReceiveInv'
  BY <1>0, <1>8 DEF Receiving, RecvReturns, BeginRecv, RecvEmpty, RecvBroken
<1>9. ASSUME NEW t \in Threads, Sends(t) PROVE ReceiveInv'
  BY <1>0, <1>9, SendsFrame
<1>10. ASSUME NEW h \in Owned, OwnerStep(h) PROVE ReceiveInv'
  BY <1>0, <1>10 DEF OwnerStep, TryClone, DropSocket, IntoRawFd, FromRawFd,
                     recvVars
<1>11. CASE UNCHANGED vars
  BY <1>0, <1>11 DEF vars, recvVars
<1> QED
  BY <1>1, <1>2, <1>3, <1>4, <1>5, <1>6, <1>7, <1>8, <1>9, <1>10, <1>11,
     NextCases
-----------------------------------------------------------------------------
(* The theorems.                                                           *)

LEMMA InitInv == Init => IInv
<1> SUFFICES ASSUME Init PROVE IInv
  OBVIOUS
<1>1. KernelTypes
  <2>1. queue = [k \in Sockets |-> <<>>] /\ <<>> \in Seq(Frames)
    BY DEF Init
  <2> QED
    BY <2>1, FreshType DEF Init, KernelTypes
<1>2. ThreadTypes
  <2>1. (CHOOSE o \in Opts : TRUE) \in Opts
    OBVIOUS
  <2>2. opts \in [Threads -> Opts]
    BY <2>1 DEF Init
  <2> QED
    BY <2>2 DEF Init, ThreadTypes, OpenSteps
<1>3. UseInv
  BY DEF Init, UseInv, Receives
<1>4. KernelInv
  BY FreshType DEF Init, KernelInv
<1>5. QueueInv
  BY DEF Init, QueueInv
<1>6. OpenInv
  BY DEF Init, OpenInv
<1>7. OwnInv
  BY DEF Init, OwnInv, Owned
<1>8. SendTypes /\ SendInv
  BY DEF Init, SendTypes, SendInv
<1>9. ReceiveInv
  <2>1. Zeroed \in [n: 0..MaxFrames, kind: Kinds \cup {"data"}]
    BY DEF Zeroed
  <2>2. <<>> \in Seq(TakenFrames) /\ Due(<<>>) = <<>>
    <3>1. <<>> \in Seq(TakenFrames) /\ Len(<<>>) = 0
      OBVIOUS
    <3>2. PICK f : /\ Picks(DueFlags(<<>>), FramesOf(<<>>), f, 0)
                   /\ Due(<<>>) = f[0]
      BY <3>1, DuePicks
    <3> QED
      BY <3>1, <3>2, PicksStep
  <2> QED
    BY <2>1, <2>2 DEF Init, ReceiveInv, Frames
<1> QED
  BY <1>1, <1>2, <1>3, <1>4, <1>5, <1>6, <1>7, <1>8, <1>9 DEF IInv

LEMMA NextInv == IInv /\ [Next]_vars => IInv'
  BY KernelTypesStep, ThreadTypesStep, UseStep, KernelStep, QueueStep,
     OpenStepLemma, OwnStep, SendStep, ReceiveStep DEF IInv

\* The inductive invariant holds in every reachable state.
THEOREM SocketInvariant == Spec => []IInv
  BY InitInv, NextInv, PTL DEF Spec

\* Every variable of socket.rs and of the kernel beneath it stays in its type,
\* a guard is armed exactly while open holds a descriptor, and a call borrows
\* a live Socket.
THEOREM TypeCorrect == Spec => []TypeOK
<1>1. IInv => TypeOK
  <2> SUFFICES ASSUME IInv PROVE TypeOK
    OBVIOUS
  <2>1. \A k \in Sockets :
           /\ kern[k].state \in {"unused", "open", "freed"}
           /\ kern[k].filter \in {"default", "match", "empty"}
           /\ queue[k] \in Seq(Frames) /\ Len(queue[k]) <= RcvBuf
    BY DEF IInv, KernelTypes, KernelSockets
  <2>2. \A t \in Threads : using[t] \in handles \cup {NoHandle}
    BY DEF IInv, UseInv
  <2>3. /\ \A t \in Threads : out[t] \in [1..Slots -> Frames]
        /\ \A t \in Threads : taken[t] \in Seq(TakenFrames) /\ got[t] \in Seq(Frames)
    BY DEF IInv, ReceiveInv
  <2>4. \A t \in Threads :
           /\ reported[t] \in 0..MaxSent /\ count[t] \in 0..MaxBatch
           /\ accepted[t] \in 0..count[t] /\ onBus[t] \in Seq(1..MaxSent)
    BY DEF IInv, SendInv
  <2> QED
    BY <2>1, <2>2, <2>3, <2>4 DEF IInv, KernelTypes, ThreadTypes, TypeOK
<1> QED
  BY <1>1, SocketInvariant, PTL

\* Whatever other threads open, drop or clone, and wherever their opens fail,
\* a Socket or a released descriptor refers to the kernel socket it was made
\* for.
THEOREM HandlesKeepTheirSockets == Spec => []HandleKeepsItsSocket
<1>1. IInv => HandleKeepsItsSocket
  BY Zenon DEF IInv, OwnInv, Owned, HandleKeepsItsSocket
<1> QED
  BY <1>1, SocketInvariant, PTL

\* No descriptor that open, try_clone or from_raw_fd gets hold of is leaked or
\* owned twice.
THEOREM DescriptorsOwnedOnce == Spec => []EveryDescriptorIsOwnedOnce
<1>1. IInv => EveryDescriptorIsOwnedOnce
  <2> SUFFICES ASSUME IInv, NEW f \in Fds, fdTable[f] # NoSocket
               PROVE  Cardinality({h \in handles \cup raws : h.fd = f})
                      + Cardinality({t \in Threads : guard[t] = f}) = 1
    BY DEF EveryDescriptorIsOwnedOnce
  <2> DEFINE H == {h \in handles \cup raws : h.fd = f}
             G == {t \in Threads : guard[t] = f}
  <2>1. /\ \A h, g \in Owned : h.fd = g.fd => h = g
        /\ \A h \in Owned, t \in Threads : guard[t] # h.fd
        /\ \A t, u \in Threads : guard[t] # NoFd /\ guard[t] = guard[u] => t = u
        /\ (\E h \in Owned : h.fd = f) \/ \E t \in Threads : guard[t] = f
    BY DEF IInv, OwnInv
  <2> SUFFICES Cardinality(H) + Cardinality(G) = 1
    OBVIOUS
  <2>2. CASE \E h \in Owned : h.fd = f
    <3>1. PICK h \in Owned : h.fd = f
      BY <2>2
    <3>2. H = {h} /\ G = {}
      BY <2>1, <3>1 DEF Owned
    <3>3. Cardinality({h}) = 1 /\ Cardinality({}) = 0
      BY FS_Singleton, FS_EmptySet
    <3> HIDE DEF H, G
    <3> QED
      BY <3>2, <3>3
  <2>3. CASE \E t \in Threads : guard[t] = f
    <3>1. PICK t \in Threads : guard[t] = f
      BY <2>3
    <3>2. G = {t} /\ H = {}
      BY <2>1, <3>1 DEF Owned
    <3>3. Cardinality({t}) = 1 /\ Cardinality({}) = 0
      BY FS_Singleton, FS_EmptySet
    <3> HIDE DEF H, G
    <3> QED
      BY <3>2, <3>3
  <2> QED
    BY <2>1, <2>2, <2>3
<1> QED
  BY <1>1, SocketInvariant, PTL

\* A socket queues no frame that the options it was opened with do not let
\* through, from the moment it is bound.
THEOREM OnlyWantedQueued == Spec => []OnlyWantedFramesAreQueued
<1>1. IInv => OnlyWantedFramesAreQueued
  <2> SUFFICES ASSUME IInv, NEW k \in Sockets, NEW i \in 1..Len(queue[k])
               PROVE  Passes(queue[k][i].kind, FilterOf(kern[k].wish),
                             kern[k].wish.err, kern[k].wish.fd)
    BY DEF OnlyWantedFramesAreQueued
  <2>1. kern[k].bound
    <3>1. queue[k] # <<>>
      BY DEF IInv, KernelTypes
    <3> QED
      BY <3>1 DEF IInv, QueueInv
  <2>2. /\ kern[k].wish \in Opts
        /\ kern[k].filter = FilterOf(kern[k].wish)
        /\ kern[k].err = kern[k].wish.err
        /\ kern[k].fd => kern[k].wish.fd
    BY <2>1 DEF IInv, KernelInv
  <2>3. kern[k].fd \in BOOLEAN /\ kern[k].wish.fd \in BOOLEAN
    BY <2>2 DEF IInv, KernelTypes, KernelSockets
  <2>4. Passes(queue[k][i].kind, kern[k].filter, kern[k].err, kern[k].fd)
    BY DEF IInv, QueueInv
  <2> QED
    BY <2>2, <2>3, <2>4, PassesMonotone
<1> QED
  BY <1>1, SocketInvariant, PTL

\* Of the frames the kernel gave to its receives a caller gets all those that
\* it is due, once and in order, and no others: recv_decoded returns every
\* frame, recv and recv_batch leave out the remote and error frames and nothing
\* else, for every length of the buffer and of a batch.
THEOREM ReceivesReturn == Spec => []ReceivesReturnWhatTheyTook
<1>1. IInv => ReceivesReturnWhatTheyTook
  BY DEF IInv, ReceiveInv, ReceivesReturnWhatTheyTook
<1> QED
  BY <1>1, SocketInvariant, PTL

\* A caller that goes on after the frames that send_batch reported puts each
\* frame of its stream on the bus once and in order.
THEOREM SendsExact == Spec => []SendsLoseAndRepeatNothing
<1>1. IInv => SendsLoseAndRepeatNothing
  BY DEF IInv, SendInv, SendsLoseAndRepeatNothing
<1> QED
  BY <1>1, SocketInvariant, PTL
=============================================================================
