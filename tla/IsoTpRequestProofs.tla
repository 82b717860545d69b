-------------------------- MODULE IsoTpRequestProofs --------------------------
(***************************************************************************)
(* Proofs about IsoTpRequest, for all sizes of the protocol, options and   *)
(* environments.                                                           *)
(***************************************************************************)
EXTENDS IsoTpRequest, SequenceTheorems, TLAPS


-----------------------------------------------------------------------------
(* The inductive invariant: types.                                         *)

PCs == {"idle", "send_first", "wait_fc", "send_cf", "recv_first", "send_fc",
        "recv_cf", "done"}
EcuStates == {"idle", "grant", "assemble", "reply", "hold", "respond"}

RequestBytes == {"req"} \X Nat \X (Nat \ {0})

\* A frame of the tester.
IsRequestFrame(f) ==
    /\ f.pci \in {"SF", "FF", "CF", "FC"}
    /\ f.pci \in {"SF", "FF"} => f.data # <<>> /\ f.data[1] \in RequestBytes
    /\ f.pci = "SF" => f.n \in 1..Len(f.data)
    /\ f.pci = "FC" => f.data = <<<<"bs", BlockSize, 1>>>>

\* The block size in a Clear To Send, 0 if there is none.
Granted(f) == IF f.data = <<>> THEN 0 ELSE f.data[1][2]

EcuFrame(f) == IsFC(f, CTS) => Granted(f) \in 0..U8 - 1

BusTypes ==
    /\ env \in Envs
    /\ lost \in 0..env.lost /\ noise \in 0..env.noise
    /\ toEcu \in Seq(Frames)
    /\ \A i \in 1..Len(toEcu) : IsRequestFrame(toEcu[i])
    /\ toTester \in Seq(Frames)
    /\ \A i \in 1..Len(toTester) : EcuFrame(toTester[i])

TesterTypes ==
    /\ call \in FirstCall..FirstCall + env.calls
    /\ pc \in PCs
    /\ polling \in BOOLEAN /\ late \in BOOLEAN
    /\ payload \in Seq(Bytes)
    /\ payload = Request(call, Len(payload))
    /\ pc \notin {"idle", "done"} => Len(payload) \in 1..MaxFFLength
    /\ pc = "wait_fc" => Len(payload) > SFMaxLen
    /\ offset \in 0..Len(payload)
    /\ seq \in 0..SeqModulus - 1 /\ expected \in 0..SeqModulus - 1
    /\ blockCount \in 0..U8 - 1 /\ bs \in 0..U8 - 1 /\ waits \in 0..U8 - 1
    /\ waitsSeen \in Nat
    /\ total \in 0..MaxFFLength
    /\ out \in Seq(Bytes)
    /\ result \in {"none", "ok"} \cup Errors
    /\ (result = "none") <=> (pc # "done")
    /\ abandoned \in BOOLEAN

EcuRecords ==
    [state: EcuStates, msg: Seq(Bytes), total: 0..MaxFFLength,
     seq: 0..SeqModulus - 1, block: {0}, left: Int, waits: Nat]

EcuTypes ==
    /\ ecu \in EcuRecords
    /\ ecu.state \in {"grant", "assemble", "reply"} =>
         ecu.msg # <<>> /\ ecu.msg[1] \in RequestBytes
    /\ ecu.state \in {"hold", "respond"} => Len(ecu.msg) <= MaxFFLength

Types == BusTypes /\ TesterTypes /\ EcuTypes

-----------------------------------------------------------------------------
(* The inductive invariant: while no earlier call has failed, one request   *)
(* at most is under way, and it is the current call's.                      *)

\* What begins a request at the ECU, and what the tester takes for the begin
\* of a response and for Clear To Send.
Opens(f) == f.pci \in {"SF", "FF"}
IsReply(f) == f.id = "ecu" /\ (IsSingle(f) \/ IsFirst(f))
IsCTS(f) == f.id = "ecu" /\ IsFC(f, CTS)

Requested == \E i \in 1..Len(toEcu) : Opens(toEcu[i])
Taken == ecu.state \in {"grant", "assemble", "reply"}
Replied == \E i \in 1..Len(toTester) : IsReply(toTester[i])
Cleared == \E i \in 1..Len(toTester) : IsCTS(toTester[i])

\* The request, and what the ECU makes of it, is on its way to the ECU, at the
\* ECU, or on its way back, or lost.
OnePlace ==
    /\ ~(Requested /\ Taken) /\ ~(Requested /\ Replied) /\ ~(Taken /\ Replied)
    /\ \A i \in 1..Len(toEcu) : Opens(toEcu[i]) => i = Len(toEcu)
    /\ \A i, j \in 1..Len(toTester) :
         /\ IsReply(toTester[i]) /\ IsReply(toTester[j]) => i = j
         /\ IsReply(toTester[i]) /\ IsCTS(toTester[j]) => j < i

\* Before the request is sent, and once its response has begun, there is none.
NoneUnderWay ==
    \/ pc \in {"idle", "send_first", "send_fc", "recv_cf"}
    \/ pc = "done" /\ result = "ok"
    => ~Requested /\ ~Taken /\ ~Replied /\ ~Cleared

\* The block: as much of it as is not received, in flight or to be sent.
BlockInv ==
    /\ ecu.state = "grant" => toEcu = <<>> /\ pc # "send_cf"
    /\ ecu.state = "assemble" =>
         /\ \A i \in 1..Len(toEcu) : toEcu[i].pci = "CF"
         /\ ecu.left > 0 => Len(toEcu) <= ecu.left
         /\ pc = "wait_fc" => toEcu = <<>>
         /\ pc = "send_cf" => IF bs = 0 THEN ecu.left <= 0
                              ELSE Len(toEcu) + bs - blockCount <= ecu.left
    /\ pc = "wait_fc" =>
         \A i \in 1..Len(toTester) : IsCTS(toTester[i]) =>
             /\ ~Requested /\ ecu.state # "grant"
             /\ ecu.state = "assemble" => ecu.left = Granted(toTester[i])
    /\ pc = "send_cf" => ~Requested /\ (bs # 0 => blockCount < bs)

\* Whose request it is.
OwnInv ==
    /\ \A i \in 1..Len(toEcu) :
         Opens(toEcu[i]) => toEcu[i].data[1] = <<"req", call, 1>>
    /\ Taken => ecu.msg[1] = <<"req", call, 1>>
    /\ \A i \in 1..Len(toTester) : IsReply(toTester[i]) =>
         toTester[i].data # <<>> /\ toTester[i].data[1] = <<"rsp", call, 1>>
    /\ pc \in {"send_fc", "recv_cf"} \/ (pc = "done" /\ result = "ok") =>
         out # <<>> /\ out[1] = <<"rsp", call, 1>>

TurnInv == ~abandoned => OnePlace /\ NoneUnderWay /\ BlockInv /\ OwnInv

\* Wait frames are counted; the count wraps only if it may reach its end.
WaitInv ==
    /\ pc = "send_first" => waitsSeen = 0
    /\ MaxWaits < U8 - 1 /\ pc = "wait_fc" =>
         waits = waitsSeen /\ waits <= MaxWaits

-----------------------------------------------------------------------------
(* The operators.                                                          *)

LEMMA LeastLemma ==
    ASSUME NEW a \in Int, NEW b \in Int
    PROVE  /\ Least(a, b) \in {a, b} /\ Least(a, b) <= a /\ Least(a, b) <= b
           /\ Least(a, b) \in Int
  BY DEF Least

\* What a chunk is.
LEMMA ChunkLemma ==
    ASSUME NEW S, NEW p \in Seq(S), NEW from \in Nat, NEW n \in Int
    PROVE  /\ Chunk(p, from, n) \in Seq(S)
           /\ Len(Chunk(p, from, n)) =
                IF from < Least(from + n, Len(p))
                THEN Least(from + n, Len(p)) - from ELSE 0
           /\ \A i \in 1..Len(Chunk(p, from, n)) :
                Chunk(p, from, n)[i] = p[from + i]
<1> DEFINE m == from + 1
           k == Least(from + n, Len(p))
<1>1. Len(p) \in Nat /\ m \in Int /\ k \in Int /\ k <= Len(p) /\ m >= 1
  <2>1. Len(p) \in Nat /\ from + n \in Int /\ m \in Int /\ m >= 1
    OBVIOUS
  <2>2. k \in Int /\ k <= Len(p)
    BY <2>1 DEF Least
  <2> QED
    BY <2>1, <2>2
<1>2. \A i \in m..k : p[i] \in S
  BY <1>1, ElementOfSeq
<1>3. /\ SubSeq(p, m, k) \in Seq(S)
      /\ Len(SubSeq(p, m, k)) = IF m <= k THEN k - m + 1 ELSE 0
      /\ \A i \in 1..k - m + 1 : SubSeq(p, m, k)[i] = p[m + i - 1]
  BY <1>1, <1>2, SubSeqProperties
<1>4. Chunk(p, from, n) = SubSeq(p, m, k)
  BY DEF Chunk
<1> HIDE DEF k
<1>5. Len(SubSeq(p, m, k)) = IF from < k THEN k - from ELSE 0
  BY <1>1, <1>3
<1>6. ASSUME NEW i \in 1..Len(SubSeq(p, m, k))
      PROVE  SubSeq(p, m, k)[i] = p[from + i]
  <2>1. i \in 1..k - m + 1 /\ m + i - 1 = from + i
    BY <1>1, <1>5
  <2> QED
    BY <1>3, <2>1
<1> QED
  BY <1>3, <1>4, <1>5, <1>6 DEF k

\* Padding keeps what there is and fills up to n bytes.
LEMMA PadLemma ==
    ASSUME NEW p \in Seq(Bytes), NEW n \in Nat
    PROVE  /\ Pad(p, n) \in Seq(Bytes)
           /\ Len(Pad(p, n)) = IF Len(p) < n THEN n ELSE Len(p)
           /\ \A i \in 1..Len(p) : Pad(p, n)[i] = p[i]
<1> DEFINE fill == [i \in 1..n - Len(p) |-> Padding]
<1>1. Len(p) \in Nat /\ Padding \in Bytes
  BY DEF Bytes
<1>2. fill \in Seq(Bytes) /\ Len(fill) = IF Len(p) < n THEN n - Len(p) ELSE 0
  <2> DEFINE k == IF Len(p) < n THEN n - Len(p) ELSE 0
  <2>1. k \in Nat /\ 1..n - Len(p) = 1..k
    BY <1>1
  <2>2. fill \in [1..k -> Bytes] /\ DOMAIN fill = 1..k
    BY <1>1, <2>1
  <2> HIDE DEF fill, k
  <2>3. fill \in Seq(Bytes)
    BY <2>1, <2>2, SeqDef
  <2>4. DOMAIN fill = 1..Len(fill) /\ Len(fill) \in Nat
    BY <2>3, LenProperties
  <2>5. Len(fill) = k
    BY <2>1, <2>2, <2>4
  <2> QED
    BY <2>3, <2>5 DEF k
<1>3. Pad(p, n) = p \o fill
  BY DEF Pad
<1> HIDE DEF fill
<1>4. /\ p \o fill \in Seq(Bytes)
      /\ Len(p \o fill) = Len(p) + Len(fill)
      /\ \A i \in 1..Len(p) : (p \o fill)[i] = p[i]
  BY <1>2, ConcatProperties
<1> QED
  BY <1>1, <1>2, <1>3, <1>4

\* A queue after one more frame, without its first, or without any one.
LEMMA AppendLemma ==
    ASSUME NEW S, NEW q \in Seq(S), NEW f \in S
    PROVE  /\ Append(q, f) \in Seq(S)
           /\ Len(Append(q, f)) = Len(q) + 1
           /\ \A i \in 1..Len(q) : Append(q, f)[i] = q[i]
           /\ Append(q, f)[Len(q) + 1] = f
  BY AppendProperties

LEMMA TailLemma ==
    ASSUME NEW S, NEW q \in Seq(S), q # <<>>
    PROVE  /\ Head(q) = q[1] /\ Head(q) \in S
           /\ Tail(q) \in Seq(S)
           /\ Len(q) \in Nat \ {0} /\ Len(Tail(q)) = Len(q) - 1
           /\ \A i \in 1..Len(Tail(q)) : Tail(q)[i] = q[i + 1]
<1>1. Len(q) \in Nat \ {0}
  BY EmptySeq, LenProperties
<1> QED
  BY <1>1, HeadTailProperties

LEMMA RemoveLemma ==
    ASSUME NEW S, NEW q \in Seq(S), NEW i \in DOMAIN q
    PROVE  /\ RemoveAt(q, i) \in Seq(S)
           /\ Len(RemoveAt(q, i)) = Len(q) - 1
           /\ \A j \in 1..Len(q) - 1 :
                RemoveAt(q, i)[j] = IF j < i THEN q[j] ELSE q[j + 1]
<1> DEFINE a == SubSeq(q, 1, i - 1)
           b == SubSeq(q, i + 1, Len(q))
<1>1. Len(q) \in Nat /\ i \in 1..Len(q)
  OBVIOUS
<1>2. \A j \in 1..i - 1 : q[j] \in S
  BY <1>1, ElementOfSeq
<1>3. \A j \in i + 1..Len(q) : q[j] \in S
  BY <1>1, ElementOfSeq
<1>4. /\ a \in Seq(S) /\ Len(a) = i - 1
      /\ \A j \in 1..i - 1 : a[j] = q[j]
  BY <1>1, <1>2, SubSeqProperties
<1>5. /\ b \in Seq(S) /\ Len(b) = Len(q) - i
      /\ \A j \in 1..Len(q) - i : b[j] = q[i + j]
  <2>1. i + 1 \in Int /\ Len(q) \in Int
    BY <1>1
  <2>2. /\ b \in Seq(S)
        /\ Len(b) = IF i + 1 <= Len(q) THEN Len(q) - (i + 1) + 1 ELSE 0
        /\ \A j \in 1..Len(q) - (i + 1) + 1 : b[j] = q[i + 1 + j - 1]
    BY <1>3, <2>1, SubSeqProperties
  <2> QED
    BY <1>1, <2>2
<1>6. RemoveAt(q, i) = a \o b
  BY DEF RemoveAt
<1> HIDE DEF a, b
<1>7. /\ a \o b \in Seq(S)
      /\ Len(a \o b) = Len(a) + Len(b)
      /\ \A j \in 1..Len(a) + Len(b) :
           (a \o b)[j] = IF j <= Len(a) THEN a[j] ELSE b[j - Len(a)]
  BY <1>4, <1>5, ConcatProperties
<1>8. ASSUME NEW j \in 1..Len(q) - 1
      PROVE  (a \o b)[j] = IF j < i THEN q[j] ELSE q[j + 1]
  <2>1. CASE j < i
    <3>1. j \in 1..i - 1 /\ j \in 1..Len(a) + Len(b) /\ j <= Len(a)
      BY <1>1, <1>4, <1>5, <2>1
    <3>2. (a \o b)[j] = a[j]
      BY <1>7, <3>1
    <3>3. a[j] = q[j]
      BY <1>4, <3>1
    <3> QED
      BY <2>1, <3>2, <3>3
  <2>2. CASE ~(j < i)
    <3>1. j - (i - 1) \in 1..Len(q) - i /\ i + (j - (i - 1)) = j + 1
      BY <1>1, <2>2
    <3>2. Len(a) = i - 1 /\ j \in 1..Len(a) + Len(b) /\ ~(j <= Len(a))
      BY <1>1, <1>4, <1>5, <2>2
    <3>3. (a \o b)[j] = b[j - (i - 1)]
      BY <1>7, <3>2
    <3>4. b[j - (i - 1)] = q[j + 1]
      BY <1>5, <3>1
    <3> QED
      BY <2>2, <3>3, <3>4
  <2> QED
    BY <2>1, <2>2
<1>9. Len(a \o b) = Len(q) - 1
  BY <1>1, <1>4, <1>5, <1>7
<1> QED
  BY <1>6, <1>7, <1>8, <1>9

\* The parameters' types.
LEMMA Sizes ==
    /\ SFMaxLen \in Nat /\ FFFirst \in Nat /\ CFPayload \in Nat
    /\ MaxFFLength \in Nat /\ SeqModulus \in Nat /\ U8 \in Nat
    /\ 0 < FFFirst /\ FFFirst < SFMaxLen /\ SFMaxLen <= CFPayload
    /\ SFMaxLen < MaxFFLength /\ 1 < SeqModulus /\ SeqModulus <= MaxFFLength
    /\ 1 < U8 /\ BlockSize \in 0..U8 - 1 /\ MaxWaits \in 0..U8 - 1
    /\ FirstCall \in Nat
  BY SizesAssumption, OptionsAssumption

LEMMA EnvTypes ==
    ASSUME env \in Envs
    PROVE  /\ env.reqLens \subseteq Nat /\ env.respLens \subseteq 1..MaxFFLength
           /\ env.blocks \subseteq 0..U8 - 1
           /\ env.calls \in Nat /\ env.waits \in Nat /\ env.lost \in Nat
           /\ env.noise \in Nat
  BY EnvironmentAssumption

\* Numbers that are kept in a range.
LEMMA ModLemma ==
    ASSUME NEW n \in Nat, NEW m \in Nat, 0 < m
    PROVE  n % m \in 0..m - 1 /\ (n < m => n % m = n) /\ (n = m => n % m = 0)
  OBVIOUS

\* The payloads made up.
LEMMA RequestLemma ==
    ASSUME NEW k \in Nat, NEW len \in Nat
    PROVE  /\ Request(k, len) \in Seq(Bytes) /\ Len(Request(k, len)) = len
           /\ \A i \in 1..len : Request(k, len)[i] = <<"req", k, i>>
<1>1. Request(k, len) \in [1..len -> Bytes]
  BY DEF Request, Bytes
<1>2. Request(k, len) \in Seq(Bytes)
  BY <1>1, SeqDef
<1>3. DOMAIN Request(k, len) = 1..len
  BY DEF Request
<1>4. Len(Request(k, len)) = len
  BY <1>2, <1>3, LenProperties
<1> QED
  BY <1>2, <1>4 DEF Request

LEMMA ResponseLemma ==
    ASSUME NEW k \in Nat, NEW len \in Nat
    PROVE  /\ Response(k, len) \in Seq(Bytes) /\ Len(Response(k, len)) = len
           /\ \A i \in 1..len : Response(k, len)[i] = <<"rsp", k, i>>
<1>1. Response(k, len) \in [1..len -> Bytes]
  BY DEF Response, Bytes
<1>2. Response(k, len) \in Seq(Bytes)
  BY <1>1, SeqDef
<1>3. DOMAIN Response(k, len) = 1..len
  BY DEF Response
<1>4. Len(Response(k, len)) = len
  BY <1>2, <1>3, LenProperties
<1> QED
  BY <1>2, <1>4 DEF Response

\* The frames.
LEMMA FrameTypes ==
    ASSUME NEW p \in Seq(Bytes), NEW n \in 0..MaxFFLength
    PROVE  /\ FF(n, p) \in Frames /\ CF(n, p) \in Frames
           /\ [SF(p) EXCEPT !.n = n] =
                [id |-> "ecu", pci |-> "SF", n |-> n, data |-> p]
           /\ [SF(p) EXCEPT !.n = n] \in Frames
  BY DEF FF, CF, SF, Frames

LEMMA FCType ==
    ASSUME NEW status \in 0..3, NEW block \in Nat
    PROVE  /\ FC(status, block) \in Frames
           /\ [FC(status, block) EXCEPT !.data = <<>>] \in Frames
<1>1. <<<<"bs", block, 1>>>> \in Seq(Bytes) /\ <<>> \in Seq(Bytes)
  BY DEF Bytes
<1>2. status \in 0..MaxFFLength
  BY Sizes
<1> QED
  BY <1>1, <1>2 DEF FC, Frames

-----------------------------------------------------------------------------
(* Types are kept: the bus.                                                *)

LEMMA BusStays ==
    ASSUME BusTypes, UNCHANGED <<env, busVars>>
    PROVE  BusTypes'
<1>1. /\ env' = env /\ lost' = lost /\ noise' = noise
      /\ toEcu' = toEcu /\ toTester' = toTester
  BY DEF busVars
<1> QED
  BY <1>1 DEF BusTypes

\* The tester sends a frame, or takes one.
LEMMA TesterSends ==
    ASSUME BusTypes, NEW f \in Frames, IsRequestFrame(f), Send(f),
           UNCHANGED <<env, toTester, lost, noise>>
    PROVE  BusTypes'
<1>1. toEcu \in Seq(Frames) /\ toEcu' = Append(toEcu, f)
  BY DEF BusTypes, Send
<1>2. /\ toEcu' \in Seq(Frames) /\ Len(toEcu') = Len(toEcu) + 1
      /\ \A i \in 1..Len(toEcu) : toEcu'[i] = toEcu[i]
      /\ toEcu'[Len(toEcu) + 1] = f /\ Len(toEcu) \in Nat
  BY <1>1, AppendLemma, LenProperties
<1>3. \A i \in 1..Len(toEcu') : IsRequestFrame(toEcu'[i])
  BY <1>2 DEF BusTypes
<1> QED
  BY <1>2, <1>3 DEF BusTypes

LEMMA TesterTakes ==
    ASSUME BusTypes, NEW f, Recv(f), UNCHANGED <<env, toEcu, lost, noise>>
    PROVE  BusTypes' /\ f \in Frames /\ EcuFrame(f)
<1>1. toTester \in Seq(Frames) /\ toTester # <<>> /\ f = Head(toTester)
      /\ toTester' = Tail(toTester)
  BY DEF BusTypes, Recv
<1>2. /\ f = toTester[1] /\ f \in Frames /\ toTester' \in Seq(Frames)
      /\ Len(toTester) \in Nat \ {0} /\ Len(toTester') = Len(toTester) - 1
      /\ \A i \in 1..Len(toTester') : toTester'[i] = toTester[i + 1]
  BY <1>1, TailLemma
<1>3. EcuFrame(f) /\ \A i \in 1..Len(toTester') : EcuFrame(toTester'[i])
  BY <1>2 DEF BusTypes
<1> QED
  BY <1>2, <1>3 DEF BusTypes

\* So does the ECU.
LEMMA EcuSendsBus ==
    ASSUME BusTypes, NEW f \in Frames, EcuFrame(f), EcuSends(f)
    PROVE  BusTypes'
<1>1. toTester \in Seq(Frames) /\ toTester' = Append(toTester, f)
  BY DEF BusTypes, EcuSends
<1>2. /\ toTester' \in Seq(Frames) /\ Len(toTester') = Len(toTester) + 1
      /\ \A i \in 1..Len(toTester) : toTester'[i] = toTester[i]
      /\ toTester'[Len(toTester) + 1] = f /\ Len(toTester) \in Nat
  BY <1>1, AppendLemma, LenProperties
<1>3. \A i \in 1..Len(toTester') : EcuFrame(toTester'[i])
  BY <1>2 DEF BusTypes
<1> QED
  BY <1>2, <1>3 DEF BusTypes, EcuSends

LEMMA EcuTakesBus ==
    ASSUME BusTypes, NEW f, EcuTakes(f)
    PROVE  BusTypes' /\ f \in Frames /\ IsRequestFrame(f)
<1>1. toEcu \in Seq(Frames) /\ toEcu # <<>> /\ f = Head(toEcu)
      /\ toEcu' = Tail(toEcu)
  BY DEF BusTypes, EcuTakes
<1>2. /\ f = toEcu[1] /\ f \in Frames /\ toEcu' \in Seq(Frames)
      /\ Len(toEcu) \in Nat \ {0} /\ Len(toEcu') = Len(toEcu) - 1
      /\ \A i \in 1..Len(toEcu') : toEcu'[i] = toEcu[i + 1]
  BY <1>1, TailLemma
<1>3. IsRequestFrame(f) /\ \A i \in 1..Len(toEcu') : IsRequestFrame(toEcu'[i])
  BY <1>2 DEF BusTypes
<1> QED
  BY <1>2, <1>3 DEF BusTypes, EcuTakes

\* A frame is lost.
LEMMA LoseBus == ASSUME BusTypes, Lose PROVE BusTypes'
<1>1. lost' \in 0..env.lost
  BY EnvTypes DEF Lose, BusTypes
<1>2. CASE \E i \in DOMAIN toTester : toTester' = RemoveAt(toTester, i)
  <2>1. PICK i \in DOMAIN toTester : toTester' = RemoveAt(toTester, i)
    BY <1>2
  <2>2. toTester \in Seq(Frames)
    BY DEF BusTypes
  <2>3. /\ toTester' \in Seq(Frames) /\ Len(toTester') = Len(toTester) - 1
        /\ \A j \in 1..Len(toTester) - 1 :
             toTester'[j] = IF j < i THEN toTester[j] ELSE toTester[j + 1]
        /\ Len(toTester) \in Nat /\ i \in 1..Len(toTester)
    BY <2>1, <2>2, RemoveLemma, LenProperties
  <2>4. \A j \in 1..Len(toTester') : EcuFrame(toTester'[j])
    BY <2>3, SMTT(30) DEF BusTypes
  <2>5. toEcu' = toEcu \/ \E k \in DOMAIN toEcu : toEcu' = RemoveAt(toEcu, k)
    BY DEF Lose
  <2>6. CASE toEcu' = toEcu
    BY <1>1, <2>3, <2>4, <2>6 DEF Lose, BusTypes
  <2>7. CASE toEcu' # toEcu
    <3>1. toTester' = toTester
      BY <2>7 DEF Lose
    <3> QED
      BY <2>3, <3>1
  <2> QED
    BY <2>6, <2>7
<1>3. CASE \E i \in DOMAIN toEcu : toEcu' = RemoveAt(toEcu, i)
  <2>1. PICK i \in DOMAIN toEcu : toEcu' = RemoveAt(toEcu, i)
    BY <1>3
  <2>2. toEcu \in Seq(Frames)
    BY DEF BusTypes
  <2>3. /\ toEcu' \in Seq(Frames) /\ Len(toEcu') = Len(toEcu) - 1
        /\ \A j \in 1..Len(toEcu) - 1 :
             toEcu'[j] = IF j < i THEN toEcu[j] ELSE toEcu[j + 1]
        /\ Len(toEcu) \in Nat /\ i \in 1..Len(toEcu)
    BY <2>1, <2>2, RemoveLemma, LenProperties
  <2>4. ASSUME NEW j \in 1..Len(toEcu') PROVE IsRequestFrame(toEcu'[j])
    <3>1. /\ j \in 1..Len(toEcu) - 1
          /\ j \in 1..Len(toEcu) /\ j + 1 \in 1..Len(toEcu)
      BY <2>3, <2>4
    <3>2. toEcu'[j] = toEcu[j] \/ toEcu'[j] = toEcu[j + 1]
      BY <2>3, <3>1
    <3>3. IsRequestFrame(toEcu[j]) /\ IsRequestFrame(toEcu[j + 1])
      BY <3>1 DEF BusTypes
    <3> QED
      BY <3>2, <3>3
  <2>5. toTester' = toTester
    BY <1>2, <1>3, <2>3 DEF Lose
  <2> QED
    BY <1>1, <2>3, <2>4, <2>5 DEF Lose, BusTypes
<1> QED
  BY <1>2, <1>3 DEF Lose

\* Another node, or a faulty ECU, sends a frame.
LEMMA DisturbType ==
    ASSUME NEW f \in Foreign \cup Malformed
    PROVE  f \in Frames /\ EcuFrame(f) /\ ~IsReply(f) /\ ~IsCTS(f)
<1>1. <<>> \in Seq(Bytes) /\ <<Padding>> \in Seq(Bytes) /\ Len(<<Padding>>) = 1
  BY DEF Bytes
<1>2. CASE f \in Foreign
  <2>1. 1 \in 0..MaxFFLength
    BY Sizes
  <2>2. f = [id |-> "other", pci |-> "SF", n |-> 1, data |-> <<Padding>>]
    BY <1>1, <1>2 DEF Foreign, SF
  <2> QED
    BY <1>1, <2>1, <2>2 DEF Frames, EcuFrame, IsFC, IsReply, IsCTS
<1>3. CASE f = EmptyFrame \/ f = [EmptyFrame EXCEPT !.pci = "unknown"]
  <2>1. 0 \in 0..MaxFFLength
    BY Sizes
  <2>2. \/ f = [id |-> "ecu", pci |-> "none", n |-> 0, data |-> <<>>]
        \/ f = [id |-> "ecu", pci |-> "unknown", n |-> 0, data |-> <<>>]
    BY <1>3 DEF EmptyFrame
  <2>3. ASSUME NEW pci \in {"none", "unknown"}
        PROVE  [id |-> "ecu", pci |-> pci, n |-> 0, data |-> <<>>] \in Frames
    BY <1>1, <2>1 DEF Frames
  <2>4. f.pci \in {"none", "unknown"}
    BY <2>2
  <2>5. f \in Frames
    BY <2>2, <2>3
  <2> QED
    BY <2>4, <2>5 DEF EcuFrame, IsFC, IsReply, IsCTS, IsSingle, IsFirst
<1>4. CASE f = SF(<<>>)
  BY <1>1, <1>4, Sizes
     DEF SF, Frames, EcuFrame, IsFC, IsReply, IsCTS, IsSingle, IsFirst, Least
<1>5. CASE f = [SF(<<Padding>>) EXCEPT !.n = 2]
  <2>1. 2 \in 0..MaxFFLength
    BY Sizes
  <2>2. f = [id |-> "ecu", pci |-> "SF", n |-> 2, data |-> <<Padding>>]
    BY <1>1, <1>5, <2>1, FrameTypes
  <2>3. 2 \notin 1..Least(SFMaxLen, 1)
    BY Sizes DEF Least
  <2> QED
    BY <1>1, <2>1, <2>2, <2>3
       DEF Frames, EcuFrame, IsFC, IsReply, IsCTS, IsSingle, IsFirst
<1>6. CASE f = FF(SFMaxLen, <<Padding>>)
  BY <1>1, <1>6, Sizes
     DEF FF, Frames, EcuFrame, IsFC, IsReply, IsCTS, IsSingle, IsFirst
<1>7. CASE f = FC(3, 0)
  <2>1. f \in Frames
    <3>1. 3 \in 0..3 /\ 0 \in Nat
      OBVIOUS
    <3>2. FC(3, 0) \in Frames
      BY <3>1, FCType
    <3> QED
      BY <1>7, <3>2
  <2>2. f.pci = "FC" /\ f.n = 3
    BY <1>7 DEF FC
  <2> QED
    BY <2>1, <2>2 DEF EcuFrame, IsFC, CTS, IsReply, IsCTS, IsSingle, IsFirst
<1> QED
  BY <1>2, <1>3, <1>4, <1>5, <1>6, <1>7 DEF Malformed

LEMMA DisturbBus == ASSUME BusTypes, Disturb PROVE BusTypes'
<1>1. PICK f \in Foreign \cup Malformed : toTester' = Append(toTester, f)
  BY DEF Disturb
<1>2. f \in Frames /\ EcuFrame(f)
  BY DisturbType
<1>3. toTester \in Seq(Frames)
  BY DEF BusTypes
<1>4. /\ toTester' \in Seq(Frames) /\ Len(toTester') = Len(toTester) + 1
      /\ \A i \in 1..Len(toTester) : toTester'[i] = toTester[i]
      /\ toTester'[Len(toTester) + 1] = f /\ Len(toTester) \in Nat
  BY <1>1, <1>2, <1>3, AppendLemma, LenProperties
<1>5. \A i \in 1..Len(toTester') : EcuFrame(toTester'[i])
  BY <1>2, <1>4 DEF BusTypes
<1>6. noise' \in 0..env.noise
  BY EnvTypes DEF Disturb, BusTypes
<1> QED
  BY <1>4, <1>5, <1>6 DEF Disturb, BusTypes

-----------------------------------------------------------------------------
(* Types are kept: the ECU.                                                *)

LEMMA TesterStays ==
    ASSUME TesterTypes, UNCHANGED <<env, testerVars, waitsSeen, abandoned>>
    PROVE  TesterTypes'
<1>1. /\ env' = env /\ call' = call /\ pc' = pc /\ polling' = polling
      /\ late' = late /\ payload' = payload /\ offset' = offset /\ seq' = seq
      /\ blockCount' = blockCount /\ bs' = bs /\ waits' = waits
      /\ total' = total /\ out' = out /\ expected' = expected
      /\ result' = result /\ waitsSeen' = waitsSeen /\ abandoned' = abandoned
  BY DEF testerVars, sendVars, recvVars
<1> QED
  BY <1>1 DEF TesterTypes

LEMMA EcuMade ==
    ASSUME NEW st \in EcuStates, NEW m \in Seq(Bytes), NEW t \in 0..MaxFFLength,
           NEW s \in 0..SeqModulus - 1, NEW l \in Int, NEW w \in Nat
    PROVE  [state |-> st, msg |-> m, total |-> t, seq |-> s, block |-> 0,
            left |-> l, waits |-> w] \in EcuRecords
  BY DEF EcuRecords

LEMMA IdleType ==
    /\ Idle \in EcuRecords /\ Idle.state = "idle" /\ Idle.msg = <<>>
    /\ Idle = [state |-> "idle", msg |-> <<>>, total |-> 0, seq |-> 0,
               block |-> 0, left |-> 0, waits |-> 0]
<1>1. 0 \in 0..MaxFFLength /\ 0 \in 0..SeqModulus - 1
  BY Sizes
<1>2. <<>> \in Seq(Bytes) /\ "idle" \in EcuStates
  BY DEF EcuStates
<1>3. Idle = [state |-> "idle", msg |-> <<>>, total |-> 0, seq |-> 0,
              block |-> 0, left |-> 0, waits |-> 0]
  BY DEF Idle
<1>4. Idle \in EcuRecords
  BY <1>1, <1>2, <1>3 DEF EcuRecords
<1> QED
  BY <1>3, <1>4

LEMMA IdleEcu == ASSUME ecu' = Idle PROVE EcuTypes'
  BY IdleType DEF EcuTypes

\* What EcuTakes and EcuSends leave alone.
LEMMA TakesFrame ==
    ASSUME Types, NEW f, EcuTakes(f)
    PROVE  /\ BusTypes' /\ TesterTypes' /\ f \in Frames /\ IsRequestFrame(f)
           /\ f.data \in Seq(Bytes) /\ f.n \in 0..MaxFFLength
<1>1. BusTypes' /\ f \in Frames /\ IsRequestFrame(f)
  BY EcuTakesBus DEF Types
<1>2. UNCHANGED <<env, testerVars, waitsSeen, abandoned>>
  BY DEF EcuTakes, histVars
<1>3. TesterTypes'
  BY <1>2, TesterStays DEF Types
<1> QED
  BY <1>1, <1>3 DEF Frames

LEMMA SendsFrame ==
    ASSUME Types, NEW f \in Frames, EcuFrame(f), EcuSends(f)
    PROVE  BusTypes' /\ TesterTypes'
<1>1. UNCHANGED <<env, testerVars, waitsSeen, abandoned>>
  BY DEF EcuSends
<1> QED
  BY <1>1, EcuSendsBus, TesterStays DEF Types

LEMMA EcuRecvSFTypes ==
    ASSUME Types, NEW f, EcuRecvSF(f)
    PROVE  /\ Types' /\ ecu'.state = "reply"
           /\ ecu'.msg = Chunk(f.data, 0, f.n) /\ ecu'.msg[1] = f.data[1]
<1>1. /\ BusTypes' /\ TesterTypes' /\ f \in Frames /\ IsRequestFrame(f)
      /\ f.data \in Seq(Bytes) /\ f.n \in 0..MaxFFLength
  BY TakesFrame DEF EcuRecvSF
<1>2. f.n \in 1..Len(f.data) /\ f.data[1] \in RequestBytes /\ Len(f.data) \in Nat
  BY <1>1, LenProperties DEF IsRequestFrame, EcuRecvSF
<1> DEFINE m == Chunk(f.data, 0, f.n)
<1>3. Least(0 + f.n, Len(f.data)) = f.n
  BY <1>2 DEF Least
<1>4. m \in Seq(Bytes) /\ Len(m) = f.n /\ m[1] = f.data[1]
  <2>1. /\ m \in Seq(Bytes)
        /\ Len(m) = IF 0 < f.n THEN f.n - 0 ELSE 0
        /\ \A i \in 1..Len(m) : m[i] = f.data[0 + i]
    BY <1>1, <1>2, <1>3, ChunkLemma
  <2>2. Len(m) = f.n /\ 1 \in 1..Len(m) /\ 0 + 1 = 1
    BY <1>2, <2>1
  <2> HIDE DEF m
  <2> QED
    BY <2>1, <2>2
<1>5. ecu' = [state |-> "reply", msg |-> m, total |-> 0, seq |-> 0,
              block |-> 0, left |-> 0, waits |-> 0]
  BY DEF EcuRecvSF, Idle
<1> HIDE DEF m
<1>6. ecu'.state = "reply" /\ ecu'.msg = m
  BY <1>5
<1>7. m # <<>>
  BY <1>2, <1>4
<1>8. ecu' \in EcuRecords
  <2>1. "reply" \in EcuStates /\ 0 \in 0..MaxFFLength /\ 0 \in 0..SeqModulus - 1
    BY Sizes DEF EcuStates
  <2> QED
    BY <1>4, <1>5, <2>1, EcuMade
<1>9. EcuTypes'
  BY <1>2, <1>4, <1>6, <1>7, <1>8 DEF EcuTypes
<1> QED
  BY <1>1, <1>4, <1>6, <1>9 DEF Types, m

LEMMA EcuRecvFFTypes ==
    ASSUME Types, NEW f, EcuRecvFF(f)
    PROVE  /\ Types' /\ ecu'.state = "grant"
           /\ ecu'.msg = f.data /\ ecu'.total = f.n
<1>1. /\ BusTypes' /\ TesterTypes' /\ f \in Frames /\ IsRequestFrame(f)
      /\ f.data \in Seq(Bytes) /\ f.n \in 0..MaxFFLength
  BY TakesFrame DEF EcuRecvFF
<1>2. f.data[1] \in RequestBytes /\ f.data # <<>>
  BY <1>1 DEF IsRequestFrame, EcuRecvFF
<1>3. ecu' = [state |-> "grant", msg |-> f.data, total |-> f.n, seq |-> 1,
              block |-> 0, left |-> 0, waits |-> 0]
  BY DEF EcuRecvFF, Idle
<1>4. ecu'.state = "grant" /\ ecu'.msg = f.data /\ ecu'.total = f.n
  BY <1>3
<1>5. ecu' \in EcuRecords
  <2>1. "grant" \in EcuStates /\ 1 \in 0..SeqModulus - 1
    BY Sizes DEF EcuStates
  <2>2. f.data \in Seq(Bytes) /\ f.n \in 0..MaxFFLength /\ 0 \in Int /\ 0 \in Nat
    BY <1>1
  <2> QED
    BY <1>3, <2>1, <2>2 DEF EcuRecords
<1>6. EcuTypes'
  BY <1>2, <1>4, <1>5 DEF EcuTypes
<1> QED
  BY <1>1, <1>4, <1>6 DEF Types

\* What a Consecutive Frame adds to the request.
Assembled(f) ==
    ecu.msg \o Chunk(f.data, 0, Least(CFPayload, ecu.total - Len(ecu.msg)))

LEMMA EcuRecvCFTypes ==
    ASSUME Types, NEW f, EcuRecvCF(f)
    PROVE  /\ Types'
           /\ \/ ecu.state # "assemble" /\ ecu' = ecu
              \/ ecu.state = "assemble" /\ ecu' = Idle
              \/ /\ ecu.state = "assemble"
                 /\ ecu'.msg = Assembled(f) /\ ecu'.msg[1] = ecu.msg[1]
                 /\ ecu'.left = ecu.left - 1 /\ ecu'.total = ecu.total
                 /\ ecu'.state = IF Len(Assembled(f)) = ecu.total THEN "reply"
                      ELSE IF Len(Assembled(f)) < ecu.total /\ ecu.left = 1
                      THEN "grant" ELSE "assemble"
<1>1. /\ BusTypes' /\ TesterTypes' /\ f \in Frames /\ IsRequestFrame(f)
      /\ f.data \in Seq(Bytes) /\ f.n \in 0..MaxFFLength
  BY TakesFrame DEF EcuRecvCF
<1>2. CASE ecu' = ecu /\ ecu.state # "assemble"
  BY <1>1, <1>2 DEF Types, EcuTypes
<1>3. CASE ecu' = Idle /\ ecu.state = "assemble"
  BY <1>1, <1>3, IdleEcu DEF Types
<1>4. CASE ecu.state = "assemble" /\ f.n = ecu.seq
  <2> DEFINE m == Assembled(f)
             st == IF Len(m) = ecu.total THEN "reply"
                   ELSE IF Len(m) < ecu.total /\ ecu.left = 1
                   THEN "grant" ELSE "assemble"
  <2>1. ecu' = [ecu EXCEPT !.msg = m, !.seq = (@ + 1) % SeqModulus,
                           !.left = @ - 1, !.state = st]
    BY <1>4 DEF EcuRecvCF, Assembled
  <2>2. /\ ecu \in EcuRecords /\ ecu.msg # <<>> /\ ecu.msg[1] \in RequestBytes
    BY <1>4 DEF Types, EcuTypes
  <2>3. /\ ecu.msg \in Seq(Bytes) /\ ecu.total \in 0..MaxFFLength
        /\ ecu.seq \in 0..SeqModulus - 1 /\ ecu.left \in Int /\ ecu.waits \in Nat
        /\ ecu.block = 0
    BY <2>2 DEF EcuRecords
  <2>4. m \in Seq(Bytes) /\ m # <<>> /\ m[1] = ecu.msg[1]
    <3> DEFINE c == Chunk(f.data, 0, Least(CFPayload, ecu.total - Len(ecu.msg)))
    <3>1. CFPayload \in Int /\ ecu.total - Len(ecu.msg) \in Int
      BY <2>3, Sizes
    <3>2. Least(CFPayload, ecu.total - Len(ecu.msg)) \in Int
      BY <3>1 DEF Least
    <3>3. c \in Seq(Bytes)
      BY <1>1, <3>2, ChunkLemma
    <3> HIDE DEF c
    <3>4. /\ ecu.msg \o c \in Seq(Bytes)
          /\ Len(ecu.msg \o c) = Len(ecu.msg) + Len(c)
          /\ \A i \in 1..Len(ecu.msg) : (ecu.msg \o c)[i] = ecu.msg[i]
      BY <2>3, <3>3, ConcatProperties
    <3>5. 1 \in 1..Len(ecu.msg) /\ Len(c) \in Nat
      BY <2>2, <2>3, <3>3, EmptySeq, LenProperties
    <3>6. m = ecu.msg \o c
      BY DEF Assembled, c
    <3> HIDE DEF m
    <3>7. m # <<>>
      BY <3>4, <3>5, <3>6
    <3> QED
      BY <3>4, <3>5, <3>6, <3>7
  <2>5. (ecu.seq + 1) % SeqModulus \in 0..SeqModulus - 1
    BY <2>3, Sizes, ModLemma
  <2>6. st \in {"reply", "grant", "assemble"}
    OBVIOUS
  <2>7. /\ ecu'.msg = m /\ ecu'.left = ecu.left - 1 /\ ecu'.total = ecu.total
        /\ ecu'.state = st
    <3> HIDE DEF m, st
    <3> QED
      BY <2>1, <2>2 DEF EcuRecords
  <2>8. ecu' \in EcuRecords
    <3> HIDE DEF m, st
    <3>1. st \in EcuStates
      BY <2>6 DEF EcuStates
    <3>2. ecu' = [state |-> st, msg |-> m, total |-> ecu.total,
                  seq |-> (ecu.seq + 1) % SeqModulus, block |-> 0,
                  left |-> ecu.left - 1, waits |-> ecu.waits]
      BY <2>1, <2>2, <2>3 DEF EcuRecords
    <3>3. ecu.left - 1 \in Int
      BY <2>3
    <3> QED
      BY <2>3, <2>4, <2>5, <3>1, <3>2, <3>3 DEF EcuRecords
  <2>9. EcuTypes'
    <3> HIDE DEF m, st
    <3> QED
      BY <2>2, <2>4, <2>6, <2>7, <2>8 DEF EcuTypes
  <2> QED
    BY <1>1, <1>4, <2>4, <2>7, <2>9 DEF Types
<1> QED
  BY <1>2, <1>3, <1>4 DEF EcuRecvCF

LEMMA EcuRecvFCTypes ==
    ASSUME Types, NEW f, EcuRecvFC(f)
    PROVE  /\ Types'
           /\ \/ ecu' = ecu
              \/ ecu.state = "hold" /\ ecu'.state = "respond"
                 /\ ecu'.msg = ecu.msg /\ ecu'.total = ecu.total
                 /\ ecu'.seq = ecu.seq
<1>1. /\ BusTypes' /\ TesterTypes' /\ f \in Frames /\ IsRequestFrame(f)
      /\ f.data \in Seq(Bytes) /\ f.n \in 0..MaxFFLength
  BY TakesFrame DEF EcuRecvFC
<1>2. f.data[1][2] \in Int
  <2>1. f.data = <<<<"bs", BlockSize, 1>>>>
    BY <1>1 DEF IsRequestFrame, EcuRecvFC
  <2> QED
    BY <2>1, Sizes
<1>3. CASE ecu.state = "hold"
  <2>1. ecu' = [ecu EXCEPT !.state = "respond", !.left = f.data[1][2]]
    BY <1>3 DEF EcuRecvFC
  <2>2. ecu \in EcuRecords /\ Len(ecu.msg) <= MaxFFLength
    BY <1>3 DEF Types, EcuTypes
  <2>3. ecu'.state = "respond" /\ ecu'.msg = ecu.msg /\ ecu'.total = ecu.total
        /\ ecu'.seq = ecu.seq
    BY <2>1, <2>2 DEF EcuRecords
  <2>4. ecu' \in EcuRecords
    BY <1>2, <2>1, <2>2 DEF EcuRecords, EcuStates
  <2> QED
    BY <1>1, <1>3, <2>2, <2>3, <2>4 DEF Types, EcuTypes
<1>4. CASE ecu.state # "hold"
  <2>1. ecu' = ecu
    BY <1>4 DEF EcuRecvFC
  <2> QED
    BY <1>1, <2>1 DEF Types, EcuTypes
<1> QED
  BY <1>3, <1>4

LEMMA EcuGrantTypes ==
    ASSUME Types, NEW b \in env.blocks, EcuGrant(b)
    PROVE  /\ Types' /\ ecu.state = "grant" /\ ecu'.state = "assemble"
           /\ ecu'.msg = ecu.msg /\ ecu'.total = ecu.total /\ ecu'.left = b
           /\ \E f \in Frames : /\ EcuSends(f)
                                /\ f.pci = "FC" /\ Granted(f) = b
<1> DEFINE f == [FC(CTS, b) EXCEPT !.data = IF b = 0 /\ ~env.pads
                                            THEN <<>> ELSE @]
<1>1. b \in 0..U8 - 1 /\ b \in Nat
  BY EnvTypes, Sizes DEF Types, BusTypes
<1>2. f = FC(CTS, b) \/ (f = [FC(CTS, b) EXCEPT !.data = <<>>] /\ b = 0)
  BY DEF FC
<1>3. f \in Frames /\ f.pci = "FC"
  <2>1. CTS \in 0..3
    BY DEF CTS
  <2>2. FC(CTS, b) \in Frames /\ [FC(CTS, b) EXCEPT !.data = <<>>] \in Frames
    BY <1>1, <2>1, FCType
  <2> QED
    BY <1>2, <2>2 DEF FC
<1>4. Granted(f) = b
  <2>1. CASE f = FC(CTS, b)
    <3>1. f.data = <<<<"bs", b, 1>>>>
      BY <2>1 DEF FC
    <3> HIDE DEF f
    <3> QED
      BY <3>1 DEF Granted
  <2>2. CASE f = [FC(CTS, b) EXCEPT !.data = <<>>] /\ b = 0
    <3>1. f.data = <<>>
      BY <2>2 DEF FC
    <3> QED
      BY <2>2, <3>1 DEF Granted
  <2> QED
    BY <1>2, <2>1, <2>2
<1>5. EcuSends(f) /\ ecu' = [ecu EXCEPT !.state = "assemble", !.left = b]
  BY DEF EcuGrant
<1> HIDE DEF f
<1>6. EcuFrame(f)
  BY <1>1, <1>4 DEF EcuFrame
<1>7. ecu \in EcuRecords /\ ecu.state = "grant"
  BY DEF EcuGrant, Types, EcuTypes
<1>8. /\ ecu'.state = "assemble" /\ ecu'.msg = ecu.msg
      /\ ecu'.total = ecu.total /\ ecu'.left = b
  BY <1>5, <1>7 DEF EcuRecords
<1>9. ecu' \in EcuRecords
  <2>1. /\ ecu.msg \in Seq(Bytes) /\ ecu.total \in 0..MaxFFLength
        /\ ecu.seq \in 0..SeqModulus - 1 /\ ecu.waits \in Nat
    BY <1>7 DEF EcuRecords
  <2>2. ecu' = [state |-> "assemble", msg |-> ecu.msg, total |-> ecu.total,
                seq |-> ecu.seq, block |-> 0, left |-> b, waits |-> ecu.waits]
    BY <1>5, <1>7 DEF EcuRecords
  <2>3. "assemble" \in EcuStates /\ b \in Int
    BY <1>1 DEF EcuStates
  <2> QED
    BY <2>1, <2>2, <2>3 DEF EcuRecords
<1>10. EcuTypes'
  BY <1>7, <1>8, <1>9 DEF Types, EcuTypes
<1> QED
  BY <1>3, <1>4, <1>5, <1>6, <1>7, <1>8, <1>10, SendsFrame DEF Types

LEMMA EcuWaitTypes ==
    ASSUME Types, EcuWait
    PROVE  /\ Types' /\ ecu.state = "grant" /\ ecu'.state = "grant"
           /\ ecu'.msg = ecu.msg /\ ecu'.total = ecu.total
           /\ ecu'.left = ecu.left
<1>1. FC(WAIT, 0) \in Frames /\ EcuFrame(FC(WAIT, 0))
  <2>1. WAIT \in 0..3 /\ 0 \in Nat
    BY DEF WAIT
  <2>2. FC(WAIT, 0) \in Frames
    BY <2>1, FCType
  <2>3. FC(WAIT, 0).n # CTS
    BY DEF FC, WAIT, CTS
  <2> QED
    BY <2>2, <2>3 DEF EcuFrame, IsFC
<1>2. ecu \in EcuRecords /\ ecu.state = "grant"
  BY DEF EcuWait, Types, EcuTypes
<1>3. ecu' = [ecu EXCEPT !.waits = @ + 1] /\ EcuSends(FC(WAIT, 0))
  BY DEF EcuWait
<1>4. ecu' \in EcuRecords
  BY <1>2, <1>3 DEF EcuRecords
<1>5. /\ ecu'.state = "grant" /\ ecu'.msg = ecu.msg
      /\ ecu'.total = ecu.total /\ ecu'.left = ecu.left
  BY <1>2, <1>3 DEF EcuRecords
<1>6. EcuTypes'
  BY <1>2, <1>4, <1>5 DEF Types, EcuTypes
<1> QED
  BY <1>1, <1>2, <1>3, <1>5, <1>6, SendsFrame DEF Types

LEMMA EcuOverflowTypes ==
    ASSUME Types, EcuOverflow
    PROVE  Types' /\ ecu' = Idle
<1>1. FC(OVERFLOW, 0) \in Frames /\ EcuFrame(FC(OVERFLOW, 0))
  <2>1. OVERFLOW \in 0..3 /\ 0 \in Nat
    BY DEF OVERFLOW
  <2>2. FC(OVERFLOW, 0) \in Frames
    BY <2>1, FCType
  <2>3. FC(OVERFLOW, 0).n # CTS
    BY DEF FC, OVERFLOW, CTS
  <2> QED
    BY <2>2, <2>3 DEF EcuFrame, IsFC
<1> QED
  BY <1>1, SendsFrame, IdleEcu DEF EcuOverflow, Types

\* A payload that the ECU sends, filled up or not.
LEMMA EcuPadLemma ==
    ASSUME NEW p \in Seq(Bytes), NEW n \in Nat
    PROVE  /\ EcuPad(p, n) \in Seq(Bytes)
           /\ Len(EcuPad(p, n)) >= Len(p)
           /\ \A i \in 1..Len(p) : EcuPad(p, n)[i] = p[i]
<1>1. Len(p) \in Nat
  OBVIOUS
<1> QED
  BY <1>1, PadLemma DEF EcuPad

\* The frame that begins a response, a Single or a First Frame.
ReplyFrame(rsp) ==
    IF Len(rsp) <= SFMaxLen
    THEN [SF(EcuPad(rsp, SFMaxLen)) EXCEPT !.n = Len(rsp)]
    ELSE FF(Len(rsp), Chunk(rsp, 0, FFFirst))

LEMMA ReplyFrameLemma ==
    ASSUME NEW k \in Nat, NEW len \in 1..MaxFFLength
    PROVE  LET rsp == Response(k, len)
               f == ReplyFrame(rsp)
           IN  /\ rsp \in Seq(Bytes) /\ Len(rsp) = len
               /\ f \in Frames /\ f.id = "ecu" /\ f.n = len
               /\ f.data # <<>> /\ f.data[1] = <<"rsp", k, 1>>
               /\ f.pci = IF len <= SFMaxLen THEN "SF" ELSE "FF"
               /\ len <= SFMaxLen => f.data = EcuPad(rsp, SFMaxLen)
               /\ len > SFMaxLen => f.data = Chunk(rsp, 0, FFFirst)
<1> DEFINE rsp == Response(k, len)
           f == ReplyFrame(rsp)
<1>1. len \in Nat /\ len >= 1 /\ len \in 0..MaxFFLength
  BY Sizes
<1>2. /\ rsp \in Seq(Bytes) /\ Len(rsp) = len
      /\ rsp[1] = <<"rsp", k, 1>>
  BY <1>1, ResponseLemma
<1> HIDE DEF rsp
<1>3. CASE len <= SFMaxLen
  <2> DEFINE d == EcuPad(rsp, SFMaxLen)
  <2>1. /\ d \in Seq(Bytes) /\ Len(d) >= len
        /\ \A i \in 1..len : d[i] = rsp[i]
    BY <1>2, Sizes, EcuPadLemma
  <2>2. f = [SF(d) EXCEPT !.n = len]
    BY <1>2, <1>3 DEF ReplyFrame
  <2> HIDE DEF d, f
  <2>3. f = [id |-> "ecu", pci |-> "SF", n |-> len, data |-> d] /\ f \in Frames
    BY <1>1, <2>1, <2>2, FrameTypes
  <2>4. d # <<>> /\ d[1] = <<"rsp", k, 1>>
    BY <1>1, <1>2, <2>1
  <2>5. f.id = "ecu" /\ f.pci = "SF" /\ f.n = len /\ f.data = d
    BY <2>3
  <2> QED
    BY <1>2, <1>3, <1>1, <2>3, <2>4, <2>5, Sizes DEF rsp, f, d
<1>4. CASE ~(len <= SFMaxLen)
  <2> DEFINE d == Chunk(rsp, 0, FFFirst)
  <2>1. Least(0 + FFFirst, Len(rsp)) = FFFirst
    BY <1>1, <1>2, <1>4, Sizes DEF Least
  <2>2. /\ d \in Seq(Bytes) /\ Len(d) = IF 0 < FFFirst THEN FFFirst - 0 ELSE 0
        /\ \A i \in 1..Len(d) : d[i] = rsp[0 + i]
    BY <1>2, <2>1, Sizes, ChunkLemma
  <2>3. f = FF(len, d)
    BY <1>2, <1>4 DEF ReplyFrame
  <2> HIDE DEF d, f
  <2>4. Len(d) = FFFirst /\ 1 \in 1..Len(d) /\ 0 + 1 = 1
    BY <2>2, Sizes
  <2>5. d # <<>> /\ d[1] = <<"rsp", k, 1>>
    BY <1>2, <2>2, <2>4
  <2>6. f.id = "ecu" /\ f.pci = "FF" /\ f.n = len /\ f.data = d
    BY <2>3 DEF FF
  <2>7. f \in Frames
    BY <1>1, <2>2, <2>3, FrameTypes
  <2> QED
    BY <1>1, <1>2, <1>4, <2>5, <2>6, <2>7, Sizes DEF rsp, f, d
<1> QED
  BY <1>3, <1>4

LEMMA EcuReplyTypes ==
    ASSUME Types, NEW len \in env.respLens, EcuReply(len)
    PROVE  /\ Types' /\ ecu.state = "reply"
           /\ ecu.msg[1][2] \in Nat /\ len \in 1..MaxFFLength
           /\ LET rsp == Response(ecu.msg[1][2], len)
              IN  /\ ReplyFrame(rsp) \in Frames /\ EcuSends(ReplyFrame(rsp))
                  /\ answers' = answers \cup {rsp}
                  /\ IF len <= SFMaxLen THEN ecu' = Idle
                     ELSE /\ ecu'.state = "hold" /\ ecu'.msg = rsp
                          /\ ecu'.total = FFFirst /\ ecu'.seq = 1
<1> DEFINE k == ecu.msg[1][2]
           rsp == Response(k, len)
           f == ReplyFrame(rsp)
<1>1. ecu.state = "reply" /\ k \in Nat /\ len \in 1..MaxFFLength
  BY EnvTypes DEF EcuReply, Types, EcuTypes, BusTypes, RequestBytes
<1>2. /\ rsp \in Seq(Bytes) /\ Len(rsp) = len
      /\ f \in Frames /\ f.pci \in {"SF", "FF"}
  <2> HIDE DEF k
  <2> QED
    BY <1>1, ReplyFrameLemma
<1>3. EcuFrame(f)
  BY <1>2 DEF EcuFrame, IsFC
<1>4. /\ EcuSends(f) /\ answers' = answers \cup {rsp}
      /\ ecu' = IF len <= SFMaxLen THEN Idle
                ELSE [Idle EXCEPT !.state = "hold", !.msg = rsp,
                                  !.total = FFFirst, !.seq = 1]
  BY <1>2 DEF EcuReply, ReplyFrame
<1> HIDE DEF k, rsp, f
<1>5. BusTypes' /\ TesterTypes'
  BY <1>2, <1>3, <1>4, SendsFrame
<1>6. CASE len <= SFMaxLen
  <2>1. ecu' = Idle
    BY <1>4, <1>6
  <2> QED
    BY <1>1, <1>2, <1>4, <1>5, <1>6, <2>1, IdleEcu DEF Types, k, rsp, f
<1>7. CASE ~(len <= SFMaxLen)
  <2>1. ecu' = [state |-> "hold", msg |-> rsp, total |-> FFFirst, seq |-> 1,
                block |-> 0, left |-> 0, waits |-> 0]
    BY <1>4, <1>7 DEF Idle
  <2>2. ecu'.state = "hold" /\ ecu'.msg = rsp /\ ecu'.total = FFFirst
        /\ ecu'.seq = 1
    BY <2>1
  <2>3. ecu' \in EcuRecords
    <3>1. /\ "hold" \in EcuStates /\ 1 \in 0..SeqModulus - 1
          /\ FFFirst \in 0..MaxFFLength /\ 0 \in Int /\ 0 \in Nat
      BY Sizes DEF EcuStates
    <3> QED
      BY <1>2, <2>1, <3>1 DEF EcuRecords
  <2>4. EcuTypes'
    BY <1>1, <1>2, <2>2, <2>3 DEF EcuTypes
  <2> QED
    BY <1>1, <1>2, <1>4, <1>5, <1>7, <2>2, <2>4 DEF Types, k, rsp, f
<1> QED
  BY <1>6, <1>7

LEMMA EcuSendCFTypes ==
    ASSUME Types, EcuSendCF
    PROVE  /\ Types' /\ ecu.state = "respond"
           /\ CF(ecu.seq, EcuPad(Chunk(ecu.msg, ecu.total, CFPayload),
                                 CFPayload)) \in Frames
           /\ IF ecu.total + CFPayload >= Len(ecu.msg)
              THEN ecu' = Idle
              ELSE /\ ecu'.state \in {"hold", "respond"} /\ ecu'.msg = ecu.msg
                   /\ ecu'.total = ecu.total + CFPayload
                   /\ ecu'.seq = (ecu.seq + 1) % SeqModulus
<1> DEFINE c == Chunk(ecu.msg, ecu.total, CFPayload)
           f == CF(ecu.seq, EcuPad(c, CFPayload))
<1>1. /\ ecu \in EcuRecords /\ ecu.state = "respond"
      /\ Len(ecu.msg) <= MaxFFLength
  BY DEF EcuSendCF, Types, EcuTypes
<1>2. /\ ecu.msg \in Seq(Bytes) /\ ecu.total \in 0..MaxFFLength
      /\ ecu.seq \in 0..SeqModulus - 1 /\ ecu.left \in Int /\ ecu.waits \in Nat
      /\ ecu.block = 0 /\ Len(ecu.msg) \in Nat
  BY <1>1, LenProperties DEF EcuRecords
<1>3. f \in Frames /\ f.pci = "CF"
  <2>1. c \in Seq(Bytes)
    BY <1>2, Sizes, ChunkLemma
  <2> HIDE DEF c
  <2>2. EcuPad(c, CFPayload) \in Seq(Bytes)
    BY <2>1, Sizes, EcuPadLemma
  <2>3. ecu.seq \in 0..MaxFFLength
    BY <1>2, Sizes
  <2> QED
    BY <2>2, <2>3, FrameTypes DEF CF
<1>4. EcuSends(f)
  BY DEF EcuSendCF
<1>5. EcuFrame(f)
  BY <1>3 DEF EcuFrame, IsFC
<1> HIDE DEF f
<1>6. BusTypes' /\ TesterTypes'
  BY <1>3, <1>4, <1>5, SendsFrame
<1>7. CASE ecu.total + CFPayload >= Len(ecu.msg)
  <2>1. ecu' = Idle
    BY <1>7 DEF EcuSendCF
  <2> QED
    BY <1>1, <1>3, <1>6, <1>7, <2>1, IdleEcu DEF Types, f
<1>8. CASE ~(ecu.total + CFPayload >= Len(ecu.msg))
  <2> DEFINE st == IF ecu.left = 1 THEN "hold" ELSE ecu.state
  <2>1. ecu' = [ecu EXCEPT !.total = @ + CFPayload,
                           !.seq = (@ + 1) % SeqModulus,
                           !.left = @ - 1, !.state = st]
    BY <1>8 DEF EcuSendCF
  <2>2. st \in {"hold", "respond"}
    BY <1>1
  <2> HIDE DEF st
  <2>3. ecu' = [state |-> st, msg |-> ecu.msg, total |-> ecu.total + CFPayload,
                seq |-> (ecu.seq + 1) % SeqModulus, block |-> 0,
                left |-> ecu.left - 1, waits |-> ecu.waits]
    BY <1>1, <1>2, <2>1 DEF EcuRecords
  <2>4. /\ ecu'.state = st /\ ecu'.msg = ecu.msg
        /\ ecu'.total = ecu.total + CFPayload
        /\ ecu'.seq = (ecu.seq + 1) % SeqModulus
    BY <2>3
  <2>5. ecu' \in EcuRecords
    <3>1. st \in EcuStates /\ ecu.left - 1 \in Int
      BY <1>2, <2>2 DEF EcuStates
    <3>2. ecu.total + CFPayload \in 0..MaxFFLength
      BY <1>1, <1>2, <1>8, Sizes
    <3>3. (ecu.seq + 1) % SeqModulus \in 0..SeqModulus - 1
      BY <1>2, Sizes, ModLemma
    <3> QED
      BY <1>2, <2>3, <3>1, <3>2, <3>3 DEF EcuRecords
  <2>6. EcuTypes'
    BY <1>1, <2>2, <2>4, <2>5 DEF EcuTypes
  <2> QED
    BY <1>1, <1>3, <1>6, <1>8, <2>2, <2>4, <2>6 DEF Types, f
<1> QED
  BY <1>7, <1>8

LEMMA EcuAbandonsTypes ==
    ASSUME Types, EcuAbandons
    PROVE  Types' /\ ecu' = Idle
<1>1. UNCHANGED <<env, busVars>> /\ UNCHANGED <<env, testerVars, waitsSeen, abandoned>>
      /\ ecu' = Idle
  BY DEF EcuAbandons, histVars
<1> QED
  BY <1>1, BusStays, TesterStays, IdleEcu DEF Types

-----------------------------------------------------------------------------
(* Types are kept: the tester.                                             *)

LEMMA EcuStays == ASSUME EcuTypes, UNCHANGED ecu PROVE EcuTypes'
  BY DEF EcuTypes

LEMMA StartTypes ==
    ASSUME Types, NEW len \in env.reqLens, Start(len)
    PROVE  Types'
<1>1. BusTypes' /\ EcuTypes'
  BY BusStays, EcuStays DEF Start, Types
<1>2. len \in Nat /\ call' = call + 1 /\ call + 1 \in Nat
      /\ call' \in FirstCall..FirstCall + env'.calls /\ env' = env
  BY EnvTypes, Sizes, SMTT(30) DEF Start, Types, BusTypes, TesterTypes
<1>3. payload' = Request(call + 1, len) /\ payload' \in Seq(Bytes)
      /\ Len(payload') = len
  BY <1>2, RequestLemma DEF Start
<1>4. payload' = Request(call', Len(payload'))
  BY <1>2, <1>3
<1>5. /\ pc' \in {"done", "send_first"} /\ result' \in {"none", "InvalidInput"}
      /\ (result' = "none") <=> (pc' # "done")
      /\ pc' = "send_first" => len \in 1..MaxFFLength
  BY <1>2, Sizes DEF Start, Return
<1>6. /\ polling' = FALSE /\ late' = FALSE /\ offset' = 0 /\ seq' = 0
      /\ blockCount' = 0 /\ bs' = 0 /\ waits' = 0 /\ total' = 0 /\ out' = <<>>
      /\ expected' = 0 /\ waitsSeen' = 0
      /\ abandoned' = (abandoned \/ (pc = "done" /\ result # "ok"))
  BY DEF Start
<1>7. abandoned' \in BOOLEAN
  BY <1>6
<1>8. /\ 0 \in 0..Len(payload') /\ 0 \in 0..SeqModulus - 1 /\ 0 \in 0..U8 - 1
      /\ 0 \in 0..MaxFFLength /\ <<>> \in Seq(Bytes)
  BY <1>2, <1>3, Sizes
<1>9. /\ pc' \in PCs /\ result' \in {"none", "ok"} \cup Errors
      /\ pc' \notin {"idle", "done"} => Len(payload') \in 1..MaxFFLength
      /\ pc' # "wait_fc"
  BY <1>3, <1>5 DEF PCs, Errors
<1>10. TesterTypes'
  BY <1>2, <1>3, <1>4, <1>5, <1>6, <1>7, <1>8, <1>9 DEF TesterTypes
<1> QED
  BY <1>1, <1>10 DEF Types

\* The frame that begins a request, a Single or a First Frame.
FirstFrame ==
    IF Len(payload) <= SFMaxLen THEN EncodeSF(payload)
    ELSE EncodeFF(Len(payload), Chunk(payload, 0, FFFirst))

LEMMA FirstFrameLemma ==
    ASSUME TesterTypes, BusTypes, pc = "send_first"
    PROVE  /\ FirstFrame \in Frames /\ IsRequestFrame(FirstFrame)
           /\ FirstFrame.n = Len(payload) /\ Len(payload) \in 1..MaxFFLength
           /\ FirstFrame.data[1] = <<"req", call, 1>>
           /\ IF Len(payload) <= SFMaxLen
              THEN /\ FirstFrame.pci = "SF"
                   /\ FirstFrame.data = Pad(payload, SFMaxLen)
              ELSE /\ FirstFrame.pci = "FF"
                   /\ FirstFrame.data = Chunk(payload, 0, FFFirst)
<1>1. /\ payload \in Seq(Bytes) /\ Len(payload) \in 1..MaxFFLength
      /\ payload = Request(call, Len(payload)) /\ Len(payload) \in Nat
  BY LenProperties DEF TesterTypes
<1>2. call \in Nat
  BY Sizes, EnvTypes DEF TesterTypes, BusTypes
<1>3. payload[1] = <<"req", call, 1>> /\ payload[1] \in RequestBytes
  <2>1. 1 \in 1..Len(payload)
    BY <1>1
  <2>2. payload[1] = <<"req", call, 1>>
    BY <1>1, <1>2, <2>1, RequestLemma
  <2> QED
    BY <1>2, <2>2 DEF RequestBytes
<1>4. CASE Len(payload) <= SFMaxLen
  <2> DEFINE d == Pad(payload, SFMaxLen)
             n == Len(payload)
  <2>1. /\ d \in Seq(Bytes) /\ Len(d) = IF n < SFMaxLen THEN SFMaxLen ELSE n
        /\ \A i \in 1..n : d[i] = payload[i]
    BY <1>1, Sizes, PadLemma
  <2>2. FirstFrame = [SF(d) EXCEPT !.n = n]
    BY <1>4 DEF FirstFrame, EncodeSF
  <2>3. n \in 0..MaxFFLength /\ n >= 1
    BY <1>1, Sizes
  <2> HIDE DEF d
  <2>4. FirstFrame = [id |-> "ecu", pci |-> "SF", n |-> n, data |-> d]
        /\ FirstFrame \in Frames
    BY <2>1, <2>2, <2>3, FrameTypes
  <2>5. d # <<>> /\ d[1] = payload[1] /\ n \in 1..Len(d)
    BY <1>1, <1>4, <2>1, <2>3, Sizes
  <2>6. /\ FirstFrame.pci = "SF" /\ FirstFrame.n = n /\ FirstFrame.data = d
    BY <2>4
  <2>7. IsRequestFrame(FirstFrame)
    BY <1>3, <2>5, <2>6 DEF IsRequestFrame
  <2> QED
    BY <1>1, <1>3, <1>4, <2>4, <2>5, <2>6, <2>7 DEF d
<1>5. CASE ~(Len(payload) <= SFMaxLen)
  <2> DEFINE d == Chunk(payload, 0, FFFirst)
             n == Len(payload)
  <2>1. Least(0 + FFFirst, Len(payload)) = FFFirst
    BY <1>1, <1>5, Sizes DEF Least
  <2>2. /\ d \in Seq(Bytes) /\ Len(d) = IF 0 < FFFirst THEN FFFirst - 0 ELSE 0
        /\ \A i \in 1..Len(d) : d[i] = payload[0 + i]
    BY <1>1, <2>1, Sizes, ChunkLemma
  <2>3. FirstFrame = FF(n, d)
    BY <1>5 DEF FirstFrame, EncodeFF
  <2> HIDE DEF d
  <2>4. Len(d) = FFFirst /\ 1 \in 1..Len(d) /\ 0 + 1 = 1
    BY <2>2, Sizes
  <2>5. d # <<>> /\ d[1] = payload[1]
    BY <2>2, <2>4
  <2>6. FirstFrame.pci = "FF" /\ FirstFrame.n = n /\ FirstFrame.data = d
    BY <2>3 DEF FF
  <2>7. FirstFrame \in Frames
    <3>1. n \in 0..MaxFFLength
      BY <1>1, Sizes
    <3> QED
      BY <2>2, <2>3, <3>1, FrameTypes
  <2>8. IsRequestFrame(FirstFrame)
    BY <1>3, <2>5, <2>6 DEF IsRequestFrame
  <2> QED
    BY <1>1, <1>3, <1>5, <2>5, <2>6, <2>7, <2>8 DEF d
<1> QED
  BY <1>4, <1>5

LEMMA SendFirstTypes ==
    ASSUME Types, SendFirst
    PROVE  /\ Types' /\ FirstFrame \in Frames /\ Send(FirstFrame)
           /\ IF Len(payload) <= SFMaxLen THEN pc' = "recv_first"
              ELSE pc' = "wait_fc" /\ waits' = 0
<1>1. FirstFrame \in Frames /\ IsRequestFrame(FirstFrame)
  BY FirstFrameLemma DEF Types, SendFirst
<1>2. Send(FirstFrame)
  BY DEF SendFirst, FirstFrame
<1>3. BusTypes' /\ EcuTypes'
  BY <1>1, <1>2, TesterSends, EcuStays DEF Types, SendFirst
<1>4. /\ IF Len(payload) <= SFMaxLen THEN pc' = "recv_first" /\ waits' = waits
         ELSE pc' = "wait_fc" /\ waits' = 0
      /\ pc = "send_first"
      /\ UNCHANGED <<env, call, polling, late, payload, offset, seq, blockCount,
                     bs, total, out, expected, result, abandoned, waitsSeen>>
  BY DEF SendFirst, sendVars, recvVars
<1>5. waits' \in 0..U8 - 1
  BY <1>4, Sizes DEF Types, TesterTypes
<1>6. /\ pc' \in {"recv_first", "wait_fc"}
      /\ pc' = "wait_fc" => Len(payload') > SFMaxLen
  <2>1. Len(payload) \in Nat
    BY DEF Types, TesterTypes
  <2> QED
    BY <1>4, <2>1, Sizes
<1>7. TesterTypes'
  BY <1>4, <1>5, <1>6 DEF Types, TesterTypes, PCs
<1> QED
  BY <1>1, <1>2, <1>3, <1>4, <1>7 DEF Types

\* The next Consecutive Frame of the request.
NextFrame == EncodeCF(seq, Chunk(payload, offset, CFPayload))

LEMMA SendCFTypes ==
    ASSUME Types, SendCF
    PROVE  /\ Types' /\ NextFrame \in Frames /\ NextFrame.pci = "CF"
           /\ Send(NextFrame)
           /\ offset' = Least(offset + CFPayload, Len(payload))
           /\ blockCount' = Least(blockCount + 1, U8 - 1)
           /\ \/ pc' = "done" /\ result' = "Unsupported"
              \/ /\ pc' = IF offset' < Len(payload) THEN "send_cf"
                          ELSE "recv_first"
                 /\ ~BlockDone
<1>1. /\ payload \in Seq(Bytes) /\ offset \in 0..Len(payload)
      /\ seq \in 0..SeqModulus - 1 /\ Len(payload) \in 1..MaxFFLength
      /\ blockCount \in 0..U8 - 1 /\ pc = "send_cf"
  BY DEF Types, TesterTypes, SendCF
<1>2. NextFrame \in Frames /\ NextFrame.pci = "CF"
  <2> DEFINE c == Chunk(payload, offset, CFPayload)
  <2>1. c \in Seq(Bytes)
    BY <1>1, Sizes, ChunkLemma
  <2> HIDE DEF c
  <2>2. Pad(c, CFPayload) \in Seq(Bytes)
    BY <2>1, Sizes, PadLemma
  <2>3. seq % SeqModulus \in 0..MaxFFLength
    BY <1>1, Sizes, ModLemma
  <2>4. NextFrame = CF(seq % SeqModulus, Pad(c, CFPayload))
    BY DEF NextFrame, EncodeCF, c
  <2> QED
    BY <2>2, <2>3, <2>4, FrameTypes DEF CF
<1>3. Send(NextFrame)
  BY DEF SendCF, NextFrame
<1>4. IsRequestFrame(NextFrame)
  BY <1>2 DEF IsRequestFrame
<1>5. BusTypes' /\ EcuTypes'
  BY <1>2, <1>3, <1>4, TesterSends, EcuStays DEF Types, SendCF
<1>6. /\ offset' = Least(offset + CFPayload, Len(payload))
      /\ blockCount' = Least(blockCount + 1, U8 - 1)
      /\ seq' = NextSeq(seq)
      /\ UNCHANGED <<env, call, polling, late, payload, bs, waits, total, out,
                     expected, abandoned, waitsSeen>>
  BY DEF SendCF, recvVars
<1>7. \/ pc' = "done" /\ result' = "Unsupported"
      \/ /\ pc' = IF offset' < Len(payload) THEN "send_cf" ELSE "recv_first"
         /\ ~BlockDone /\ result' = result
  BY DEF SendCF, Return
<1>8. offset' \in 0..Len(payload')
  BY <1>1, <1>6, Sizes DEF Least
<1>9. blockCount' \in 0..U8 - 1
  BY <1>1, <1>6, Sizes DEF Least
<1>10. seq' \in 0..SeqModulus - 1
  BY <1>1, <1>6, Sizes, ModLemma DEF NextSeq
<1>11. /\ pc' \in {"done", "send_cf", "recv_first"}
       /\ result' \in {"none", "ok"} \cup Errors
       /\ (result' = "none") <=> (pc' # "done")
  BY <1>1, <1>7 DEF Types, TesterTypes, Errors
<1>12. TesterTypes'
  BY <1>1, <1>6, <1>8, <1>9, <1>10, <1>11 DEF Types, TesterTypes, PCs
<1> QED
  BY <1>2, <1>3, <1>5, <1>6, <1>7, <1>12 DEF Types

LEMMA SendFCTypes ==
    ASSUME Types, SendFC
    PROVE  /\ Types' /\ EncodeFC(CTS, BlockSize) \in Frames
           /\ Send(EncodeFC(CTS, BlockSize))
<1> DEFINE f == EncodeFC(CTS, BlockSize)
<1>1. f \in Frames /\ f.pci = "FC" /\ f.data = <<<<"bs", BlockSize, 1>>>>
  <2>1. CTS \in 0..3 /\ BlockSize \in Nat
    BY Sizes DEF CTS
  <2>2. FC(CTS, BlockSize) \in Frames
    BY <2>1, FCType
  <2> QED
    BY <2>2 DEF EncodeFC, FC
<1>2. Send(f)
  BY DEF SendFC
<1> HIDE DEF f
<1>3. IsRequestFrame(f)
  BY <1>1 DEF IsRequestFrame
<1>4. BusTypes' /\ EcuTypes'
  BY <1>1, <1>2, <1>3, TesterSends, EcuStays DEF Types, SendFC
<1>5. /\ pc = "send_fc" /\ pc' = "recv_cf" /\ expected' = 1
      /\ UNCHANGED <<env, call, polling, late, payload, offset, seq, blockCount,
                     bs, waits, total, out, result, abandoned, waitsSeen>>
  BY DEF SendFC, sendVars
<1>6. expected' \in 0..SeqModulus - 1
  BY <1>5, Sizes
<1>7. TesterTypes'
  BY <1>5, <1>6 DEF Types, TesterTypes, PCs
<1> QED
  BY <1>1, <1>2, <1>4, <1>7 DEF Types, f

\* Steps that change no more than pc, result, polling and late.
Passive ==
    /\ UNCHANGED <<env, call, payload, offset, seq, blockCount, bs, waits,
                   total, out, expected, abandoned, waitsSeen>>
    /\ polling' \in BOOLEAN /\ late' \in BOOLEAN
    /\ \/ UNCHANGED <<pc, result>>
       \/ /\ pc' = "done" /\ result' \in Errors

LEMMA PassiveTypes == ASSUME TesterTypes, Passive PROVE TesterTypes'
<1>1. CASE UNCHANGED <<pc, result>>
  BY <1>1 DEF TesterTypes, Passive
<1>2. CASE pc' = "done" /\ result' \in Errors
  <2>1. result' # "none"
    BY <1>2 DEF Errors
  <2> QED
    BY <1>2, <2>1 DEF TesterTypes, Passive, PCs
<1> QED
  BY <1>1, <1>2 DEF Passive

\* Steps of the tester that touch neither the bus nor the ECU.
Aside == Poll \/ GiveUp \/ RecvNone \/ SocketError \/ DeadlinePasses

LEMMA AsideTypes ==
    ASSUME Types, Aside
    PROVE  Types' /\ Passive /\ UNCHANGED <<env, busVars, ecu>>
<1>1. UNCHANGED <<env, busVars>> /\ UNCHANGED ecu
  BY DEF Aside, Poll, GiveUp, RecvNone, SocketError, DeadlinePasses
<1>2. polling \in BOOLEAN /\ late \in BOOLEAN
  BY DEF Types, TesterTypes
<1>3. Passive
  <2>1. CASE Poll
    BY <1>2, <2>1 DEF Poll, Passive, sendVars, recvVars, histVars
  <2>2. CASE GiveUp
    BY <1>2, <2>2 DEF GiveUp, Passive, sendVars, recvVars, histVars, Return, Errors
  <2>3. CASE RecvNone
    BY <1>2, <2>3 DEF RecvNone, Passive, sendVars, recvVars, histVars
  <2>4. CASE SocketError
    BY <1>2, <2>4
       DEF SocketError, Passive, sendVars, recvVars, histVars, Return, Errors
  <2>5. CASE DeadlinePasses
    BY <1>2, <2>5 DEF DeadlinePasses, Passive, sendVars, recvVars, histVars
  <2> QED
    BY <2>1, <2>2, <2>3, <2>4, <2>5 DEF Aside
<1> QED
  BY <1>1, <1>3, BusStays, EcuStays, PassiveTypes DEF Types

LEMMA RecvForeignTypes ==
    ASSUME Types, NEW f, RecvForeign(f)
    PROVE  Types'
<1>1. Passive
  BY DEF RecvForeign, Recv, Passive, sendVars, recvVars, histVars, Types,
         TesterTypes
<1>2. BusTypes'
  BY TesterTakes DEF RecvForeign, Types
<1> QED
  BY <1>1, <1>2, EcuStays, PassiveTypes DEF RecvForeign, Types

LEMMA RecvFCTypes ==
    ASSUME Types, NEW f, RecvFC(f)
    PROVE  /\ Types'
           /\ \/ Passive
              \/ /\ IsFC(f, CTS) /\ pc' = "send_cf" /\ bs' = Granted(f)
                 /\ offset' = FFFirst /\ seq' = 1 /\ blockCount' = 0
              \/ /\ IsFC(f, WAIT) /\ waits' = (waits + 1) % U8
                 /\ waitsSeen' = waitsSeen + 1
                 /\ \/ waits' > MaxWaits /\ pc' = "done" /\ result' # "ok"
                    \/ ~(waits' > MaxWaits) /\ pc' = "wait_fc"
<1>1. /\ BusTypes' /\ f \in Frames /\ EcuFrame(f)
  BY TesterTakes DEF RecvFC, Types
<1>2. EcuTypes'
  BY EcuStays DEF RecvFC, Types
<1>3. /\ pc = "wait_fc" /\ polling' = FALSE
      /\ UNCHANGED <<env, call, late, payload, total, out, expected, abandoned>>
  BY DEF RecvFC, Recv, recvVars
<1>4. CASE IsFC(f, CTS) /\ pc' = "send_cf"
  <2>1. /\ bs' = Granted(f) /\ offset' = FFFirst /\ seq' = 1 /\ blockCount' = 0
        /\ UNCHANGED <<result, waits, waitsSeen>>
    BY <1>3, <1>4 DEF RecvFC, Granted, IsFC, CTS, WAIT, OVERFLOW, Return
  <2>2. bs' \in 0..U8 - 1
    BY <1>1, <1>4, <2>1 DEF EcuFrame
  <2>3. Len(payload) \in Nat /\ Len(payload) > SFMaxLen
    BY <1>3 DEF Types, TesterTypes
  <2>4. offset' \in 0..Len(payload') /\ seq' \in 0..SeqModulus - 1
        /\ blockCount' \in 0..U8 - 1
    BY <1>3, <2>1, <2>3, Sizes
  <2>5. TesterTypes'
    BY <1>3, <1>4, <2>1, <2>2, <2>4 DEF Types, TesterTypes, PCs
  <2> QED
    BY <1>1, <1>2, <1>4, <2>1, <2>5 DEF Types
<1>5. CASE IsFC(f, WAIT) /\ waits' = (waits + 1) % U8
  <2>1. /\ waitsSeen' = waitsSeen + 1
        /\ UNCHANGED <<offset, seq, blockCount, bs>>
        /\ \/ TooManyWaits(waits') /\ pc' = "done" /\ result' = "TimedOut"
           \/ ~TooManyWaits(waits') /\ UNCHANGED <<pc, result>>
    BY <1>3, <1>5 DEF RecvFC, IsFC, CTS, WAIT, OVERFLOW, Return, sendVars
  <2>2. waits' \in 0..U8 - 1
    BY <1>5, Sizes, ModLemma DEF Types, TesterTypes
  <2>3. waitsSeen' \in Nat
    BY <2>1 DEF Types, TesterTypes
  <2>4. TesterTypes'
    <3>1. CASE UNCHANGED <<pc, result>>
      BY <1>3, <2>1, <2>2, <2>3, <3>1 DEF Types, TesterTypes
    <3>2. CASE pc' = "done" /\ result' = "TimedOut"
      BY <1>3, <2>1, <2>2, <2>3, <3>2 DEF Types, TesterTypes, PCs, Errors
    <3> QED
      BY <2>1, <3>1, <3>2
  <2>5. \/ waits' > MaxWaits /\ pc' = "done" /\ result' # "ok"
        \/ ~(waits' > MaxWaits) /\ pc' = "wait_fc"
    BY <1>3, <2>1 DEF TooManyWaits
  <2> QED
    BY <1>1, <1>2, <1>5, <2>1, <2>4, <2>5 DEF Types
<1>6. CASE /\ UNCHANGED <<offset, seq, blockCount, bs, waits, waitsSeen>>
           /\ \/ UNCHANGED <<pc, result>>
              \/ pc' = "done" /\ result' \in {"Other", "InvalidData"}
  <2>1. Passive
    BY <1>3, <1>6 DEF Passive, Errors, Types, TesterTypes
  <2> QED
    BY <1>1, <1>2, <2>1, PassiveTypes DEF Types
<1> QED
  BY <1>4, <1>5, <1>6 DEF RecvFC, Return, sendVars

LEMMA RecvFirstTypes ==
    ASSUME Types, NEW f, RecvFirst(f)
    PROVE  /\ Types'
           /\ \/ Passive /\ ~IsReply(f)
              \/ /\ IsReply(f) /\ out' = Chunk(f.data, 0, f.n)
                 /\ \/ IsSingle(f) /\ pc' = "done" /\ result' = "ok"
                    \/ IsFirst(f) /\ pc' = "send_fc" /\ total' = f.n
<1>1. BusTypes' /\ f \in Frames
  BY TesterTakes DEF RecvFirst, Types
<1>2. EcuTypes'
  BY EcuStays DEF RecvFirst, Types
<1>3. /\ pc = "recv_first" /\ polling' = FALSE /\ f.id = "ecu"
      /\ UNCHANGED <<env, call, late, payload, offset, seq, blockCount, bs,
                     waits, expected, abandoned, waitsSeen>>
  BY DEF RecvFirst, Recv, sendVars, histVars
<1>4. Chunk(f.data, 0, f.n) \in Seq(Bytes) /\ f.n \in 0..MaxFFLength
  <2>1. f.data \in Seq(Bytes) /\ f.n \in 0..MaxFFLength /\ f.n \in Int
    BY <1>1, Sizes DEF Frames
  <2> QED
    BY <2>1, ChunkLemma
<1>5. CASE IsSingle(f)
  <2>1. out' = Chunk(f.data, 0, f.n) /\ pc' = "done" /\ result' = "ok"
        /\ total' = total
    BY <1>5 DEF RecvFirst, Return, IsSingle, IsFirst
  <2>2. TesterTypes'
    BY <1>3, <1>4, <2>1 DEF Types, TesterTypes, PCs
  <2> QED
    BY <1>1, <1>2, <1>3, <1>5, <2>1, <2>2 DEF Types, IsReply
<1>6. CASE IsFirst(f)
  <2>1. out' = Chunk(f.data, 0, f.n) /\ pc' = "send_fc" /\ total' = f.n
        /\ result' = result
    BY <1>6 DEF RecvFirst, IsSingle, IsFirst
  <2>2. TesterTypes'
    BY <1>3, <1>4, <2>1 DEF Types, TesterTypes, PCs
  <2> QED
    BY <1>1, <1>2, <1>3, <1>6, <2>1, <2>2 DEF Types, IsReply
<1>7. CASE ~IsSingle(f) /\ ~IsFirst(f)
  <2>1. Passive
    BY <1>3, <1>7 DEF RecvFirst, Return, Passive, Errors, Types, TesterTypes
  <2> QED
    BY <1>1, <1>2, <1>7, <2>1, PassiveTypes DEF Types, IsReply
<1> QED
  BY <1>5, <1>6, <1>7

LEMMA RecvCFTypes ==
    ASSUME Types, NEW f, RecvCF(f)
    PROVE  /\ Types'
           /\ \/ Passive /\ ~IsNextCF(f) /\ pc' = "done"
              \/ /\ IsNextCF(f) /\ out' = out \o Take(f.data)
                 /\ \/ pc' = "recv_cf" /\ Len(out') < total
                    \/ pc' = "done" /\ result' = "ok" /\ Len(out') >= total
<1>1. BusTypes' /\ f \in Frames
  BY TesterTakes DEF RecvCF, Types
<1>2. EcuTypes'
  BY EcuStays DEF RecvCF, Types
<1>3. /\ pc = "recv_cf" /\ polling' = FALSE
      /\ UNCHANGED <<env, call, late, payload, offset, seq, blockCount, bs,
                     waits, total, abandoned, waitsSeen>>
  BY DEF RecvCF, Recv, sendVars, histVars
<1>4. CASE IsNextCF(f)
  <2>1. /\ out' = out \o Take(f.data) /\ expected' = NextSeq(expected)
        /\ IF Len(out') < total THEN UNCHANGED <<pc, result>>
           ELSE pc' = "done" /\ result' = "ok"
    BY <1>4 DEF RecvCF, Return
  <2>2. out' \in Seq(Bytes) /\ Len(out') \in Nat
    <3>1. out \in Seq(Bytes) /\ total \in Nat /\ f.data \in Seq(Bytes)
      BY <1>1 DEF Types, TesterTypes, Frames
    <3>2. Least(total - Len(out), CFPayload) \in Int
      BY <3>1, Sizes DEF Least
    <3>3. Take(f.data) \in Seq(Bytes)
      BY <3>1, <3>2, ChunkLemma DEF Take
    <3>4. out \o Take(f.data) \in Seq(Bytes)
      BY <3>1, <3>3, ConcatProperties
    <3> QED
      BY <2>1, <3>4, LenProperties
  <2>3. expected' \in 0..SeqModulus - 1
    BY <2>1, Sizes, ModLemma DEF NextSeq, Types, TesterTypes
  <2>4. CASE Len(out') < total
    <3>1. TesterTypes'
      BY <1>3, <2>1, <2>2, <2>3, <2>4 DEF Types, TesterTypes
    <3> QED
      BY <1>1, <1>2, <1>3, <1>4, <2>1, <2>4, <3>1 DEF Types
  <2>5. CASE ~(Len(out') < total)
    <3>1. TesterTypes'
      BY <1>3, <2>1, <2>2, <2>3, <2>5 DEF Types, TesterTypes, PCs
    <3>2. Len(out') >= total
      BY <2>2, <2>5 DEF Types, TesterTypes
    <3> QED
      BY <1>1, <1>2, <1>3, <1>4, <2>1, <2>5, <3>1, <3>2 DEF Types
  <2> QED
    BY <2>4, <2>5
<1>5. CASE ~IsNextCF(f)
  <2>1. Passive /\ pc' = "done"
    BY <1>3, <1>5 DEF RecvCF, Return, Passive, Errors, Types, TesterTypes
  <2> QED
    BY <1>1, <1>2, <1>5, <2>1, PassiveTypes DEF Types
<1> QED
  BY <1>4, <1>5

LEMMA LoseTypes == ASSUME Types, Lose PROVE Types'
<1>1. UNCHANGED <<env, testerVars, waitsSeen, abandoned>> /\ UNCHANGED ecu
  BY DEF Lose, histVars
<1> QED
  BY <1>1, LoseBus, TesterStays, EcuStays DEF Types

LEMMA DisturbTypes == ASSUME Types, Disturb PROVE Types'
<1>1. UNCHANGED <<env, testerVars, waitsSeen, abandoned>> /\ UNCHANGED ecu
  BY DEF Disturb, histVars
<1> QED
  BY <1>1, DisturbBus, TesterStays, EcuStays DEF Types

LEMMA InitTypes == ASSUME Init PROVE Types
<1>1. env.calls \in Nat /\ env.lost \in Nat /\ env.noise \in Nat
  BY EnvTypes DEF Init
<1>2. BusTypes
  BY <1>1 DEF Init, BusTypes
<1>3. Request(call, Len(payload)) = <<>>
  <2>1. Request(call, Len(payload)) \in Seq(Bytes)
        /\ Len(Request(call, Len(payload))) = 0
    BY Sizes, RequestLemma DEF Init
  <2> QED
    BY <2>1, EmptySeq
<1>4. TesterTypes
  <2>1. /\ payload = <<>> /\ out = <<>> /\ <<>> \in Seq(Bytes) /\ Len(<<>>) = 0
        /\ pc = "idle" /\ result = "none" /\ polling = FALSE /\ late = FALSE
        /\ offset = 0 /\ seq = 0 /\ expected = 0 /\ blockCount = 0 /\ bs = 0
        /\ waits = 0 /\ waitsSeen = 0 /\ total = 0 /\ abandoned = FALSE
    BY DEF Init
  <2>2. /\ call \in FirstCall..FirstCall + env.calls
        /\ 0 \in 0..SeqModulus - 1 /\ 0 \in 0..U8 - 1 /\ 0 \in 0..MaxFFLength
    BY <1>1, Sizes DEF Init
  <2>3. payload = Request(call, Len(payload))
    BY <1>3, <2>1
  <2>4. payload \in Seq(Bytes) /\ out \in Seq(Bytes) /\ offset \in 0..Len(payload)
    BY <2>1
  <2>5. /\ pc \in PCs /\ polling \in BOOLEAN /\ late \in BOOLEAN
        /\ abandoned \in BOOLEAN /\ result \in {"none", "ok"} \cup Errors
        /\ (result = "none") <=> (pc # "done")
        /\ pc \in {"idle", "done"} /\ pc # "wait_fc"
    BY <2>1 DEF PCs
  <2>6. /\ seq \in 0..SeqModulus - 1 /\ expected \in 0..SeqModulus - 1
        /\ blockCount \in 0..U8 - 1 /\ bs \in 0..U8 - 1 /\ waits \in 0..U8 - 1
        /\ waitsSeen \in Nat /\ total \in 0..MaxFFLength
    BY <2>1, <2>2
  <2> QED
    BY <2>2, <2>3, <2>4, <2>5, <2>6 DEF TesterTypes
<1>5. EcuTypes
  BY IdleType DEF Init, EcuTypes
<1> QED
  BY <1>2, <1>4, <1>5 DEF Types

-----------------------------------------------------------------------------
(* One request at a time: steps that only take frames away.                *)

\* r holds frames of q, in their order.
Thins(q, r) ==
    /\ Len(r) <= Len(q)
    /\ \E m \in [1..Len(r) -> 1..Len(q)] :
         /\ \A i, j \in 1..Len(r) : i < j => m[i] < m[j]
         /\ \A i \in 1..Len(r) : r[i] = q[m[i]]

\* So do those of r that begin a response or clear the tester to send.
Matters(f) == IsReply(f) \/ IsCTS(f)

Sifts(q, r) ==
    \E m \in [1..Len(r) -> 1..Len(r) + Len(q)] :
        /\ \A i, j \in 1..Len(r) : i < j => m[i] < m[j]
        /\ \A i \in 1..Len(r) : Matters(r[i]) =>
             m[i] \in 1..Len(q) /\ r[i] = q[m[i]]

LEMMA SameThins ==
    ASSUME NEW q \in Seq(Frames)
    PROVE  Thins(q, q)
<1> DEFINE m == [i \in 1..Len(q) |-> i]
<1>1. m \in [1..Len(q) -> 1..Len(q)] /\ Len(q) \in Nat
  OBVIOUS
<1>2. \A i \in 1..Len(q) : m[i] = i
  OBVIOUS
<1> HIDE DEF m
<1> QED
  BY <1>1, <1>2 DEF Thins

LEMMA TailThins ==
    ASSUME NEW q \in Seq(Frames), q # <<>>
    PROVE  Thins(q, Tail(q)) /\ Head(q) = q[1] /\ 1 \in 1..Len(q)
<1> DEFINE r == Tail(q)
           m == [i \in 1..Len(r) |-> i + 1]
<1>1. /\ Head(q) = q[1] /\ r \in Seq(Frames) /\ Len(q) \in Nat \ {0}
      /\ Len(r) = Len(q) - 1 /\ \A i \in 1..Len(r) : r[i] = q[i + 1]
  BY TailLemma
<1> HIDE DEF r
<1>2. m \in [1..Len(r) -> 1..Len(q)] /\ \A i \in 1..Len(r) : m[i] = i + 1
  BY <1>1
<1> HIDE DEF m
<1>3. \A i, j \in 1..Len(r) : i < j => m[i] < m[j]
  BY <1>1, <1>2
<1>4. \A i \in 1..Len(r) : r[i] = q[m[i]]
  BY <1>1, <1>2
<1>5. Len(r) <= Len(q) /\ 1 \in 1..Len(q)
  BY <1>1
<1>6. Thins(q, r)
  BY <1>2, <1>3, <1>4, <1>5 DEF Thins
<1> QED
  BY <1>1, <1>5, <1>6 DEF r

LEMMA RemoveThins ==
    ASSUME NEW q \in Seq(Frames), NEW k \in DOMAIN q
    PROVE  Thins(q, RemoveAt(q, k))
<1> DEFINE r == RemoveAt(q, k)
           m == [i \in 1..Len(r) |-> IF i < k THEN i ELSE i + 1]
<1>1. /\ r \in Seq(Frames) /\ Len(q) \in Nat /\ k \in 1..Len(q)
      /\ Len(r) = Len(q) - 1
      /\ \A i \in 1..Len(q) - 1 : r[i] = IF i < k THEN q[i] ELSE q[i + 1]
  BY RemoveLemma, LenProperties
<1> HIDE DEF r
<1>2. /\ m \in [1..Len(r) -> 1..Len(q)]
      /\ \A i \in 1..Len(r) : m[i] = IF i < k THEN i ELSE i + 1
  BY <1>1
<1> HIDE DEF m
<1>3. \A i, j \in 1..Len(r) : i < j => m[i] < m[j]
  BY <1>1, <1>2
<1>4. \A i \in 1..Len(r) : r[i] = q[m[i]]
  BY <1>1, <1>2
<1>5. Len(r) <= Len(q)
  BY <1>1
<1> QED
  BY <1>2, <1>3, <1>4, <1>5 DEF Thins, r

LEMMA ThinsSifts ==
    ASSUME NEW q \in Seq(Frames), NEW r \in Seq(Frames), Thins(q, r)
    PROVE  Sifts(q, r)
<1>1. PICK m \in [1..Len(r) -> 1..Len(q)] :
         /\ \A i, j \in 1..Len(r) : i < j => m[i] < m[j]
         /\ \A i \in 1..Len(r) : r[i] = q[m[i]]
  BY DEF Thins
<1>2. Len(q) \in Nat /\ Len(r) \in Nat
  OBVIOUS
<1>3. m \in [1..Len(r) -> 1..Len(r) + Len(q)]
  BY <1>2
<1> QED
  BY <1>1, <1>3 DEF Sifts

LEMMA AppendSifts ==
    ASSUME NEW q \in Seq(Frames), NEW f \in Frames, ~Matters(f)
    PROVE  Sifts(q, Append(q, f))
<1> DEFINE r == Append(q, f)
           m == [i \in 1..Len(r) |-> i]
<1>1. /\ r \in Seq(Frames) /\ Len(r) = Len(q) + 1 /\ Len(q) \in Nat
      /\ \A i \in 1..Len(q) : r[i] = q[i]
      /\ r[Len(q) + 1] = f
  BY AppendLemma, LenProperties
<1> HIDE DEF r
<1>2. m \in [1..Len(r) -> 1..Len(r) + Len(q)] /\ \A i \in 1..Len(r) : m[i] = i
  BY <1>1
<1> HIDE DEF m
<1>3. \A i, j \in 1..Len(r) : i < j => m[i] < m[j]
  BY <1>2
<1>4. ASSUME NEW i \in 1..Len(r), Matters(r[i])
      PROVE  m[i] \in 1..Len(q) /\ r[i] = q[m[i]]
  <2>1. i # Len(q) + 1
    BY <1>1, <1>4
  <2>2. i \in 1..Len(q)
    BY <1>1, <2>1
  <2> QED
    BY <1>1, <1>2, <2>2
<1> QED
  BY <1>2, <1>3, <1>4 DEF Sifts, r

\* What stays true of the two queues.
LEMMA ThinnedEcu ==
    ASSUME toEcu \in Seq(Frames), toEcu' \in Seq(Frames), Thins(toEcu, toEcu')
    PROVE  /\ Requested' => Requested
           /\ (\A i \in 1..Len(toEcu) : Opens(toEcu[i]) => i = Len(toEcu)) =>
                \A i \in 1..Len(toEcu') : Opens(toEcu'[i]) => i = Len(toEcu')
           /\ \A i \in 1..Len(toEcu') : \E k \in 1..Len(toEcu) :
                toEcu'[i] = toEcu[k]
           /\ Len(toEcu') <= Len(toEcu)
           /\ toEcu = <<>> => toEcu' = <<>>
<1>1. PICK m \in [1..Len(toEcu') -> 1..Len(toEcu)] :
         /\ \A i, j \in 1..Len(toEcu') : i < j => m[i] < m[j]
         /\ \A i \in 1..Len(toEcu') : toEcu'[i] = toEcu[m[i]]
  BY DEF Thins
<1>2. Len(toEcu) \in Nat /\ Len(toEcu') \in Nat /\ Len(toEcu') <= Len(toEcu)
  BY DEF Thins
<1>3. \A i \in 1..Len(toEcu') : m[i] \in 1..Len(toEcu)
  BY <1>1
<1>4. Requested' => Requested
  BY <1>1, <1>3 DEF Requested
<1>5. ASSUME \A i \in 1..Len(toEcu) : Opens(toEcu[i]) => i = Len(toEcu),
             NEW i \in 1..Len(toEcu'), Opens(toEcu'[i]), i # Len(toEcu')
      PROVE  FALSE
  <2>1. m[i] = Len(toEcu)
    BY <1>1, <1>3, <1>5
  <2>2. i + 1 \in 1..Len(toEcu') /\ i < i + 1
    BY <1>2, <1>5
  <2>3. m[i] < m[i + 1] /\ m[i + 1] \in 1..Len(toEcu)
    BY <1>1, <1>3, <2>2
  <2> QED
    BY <1>2, <2>1, <2>3
<1>6. toEcu = <<>> => toEcu' = <<>>
  BY <1>2, EmptySeq
<1> QED
  BY <1>1, <1>2, <1>3, <1>4, <1>5, <1>6

LEMMA SiftedTester ==
    ASSUME toTester \in Seq(Frames), toTester' \in Seq(Frames),
           Sifts(toTester, toTester')
    PROVE  /\ Replied' => Replied
           /\ Cleared' => Cleared
           /\ (\A i, j \in 1..Len(toTester) :
                /\ IsReply(toTester[i]) /\ IsReply(toTester[j]) => i = j
                /\ IsReply(toTester[i]) /\ IsCTS(toTester[j]) => j < i) =>
              \A i, j \in 1..Len(toTester') :
                /\ IsReply(toTester'[i]) /\ IsReply(toTester'[j]) => i = j
                /\ IsReply(toTester'[i]) /\ IsCTS(toTester'[j]) => j < i
           /\ \A i \in 1..Len(toTester') : Matters(toTester'[i]) =>
                \E k \in 1..Len(toTester) : toTester'[i] = toTester[k]
<1> DEFINE n == Len(toTester)
           l == Len(toTester')
<1>1. PICK m \in [1..l -> 1..l + n] :
         /\ \A i, j \in 1..l : i < j => m[i] < m[j]
         /\ \A i \in 1..l : Matters(toTester'[i]) =>
              m[i] \in 1..n /\ toTester'[i] = toTester[m[i]]
  BY DEF Sifts
<1>2. n \in Nat /\ l \in Nat
  OBVIOUS
<1>3. \A i \in 1..l : m[i] \in Nat
  BY <1>1, <1>2
<1>4. Replied' => Replied
  BY <1>1 DEF Replied, Matters
<1>5. Cleared' => Cleared
  BY <1>1 DEF Cleared, Matters
<1>6. ASSUME \A i, j \in 1..n :
                /\ IsReply(toTester[i]) /\ IsReply(toTester[j]) => i = j
                /\ IsReply(toTester[i]) /\ IsCTS(toTester[j]) => j < i,
             NEW i \in 1..l, NEW j \in 1..l
      PROVE  /\ IsReply(toTester'[i]) /\ IsReply(toTester'[j]) => i = j
             /\ IsReply(toTester'[i]) /\ IsCTS(toTester'[j]) => j < i
  <2>1. i < j \/ i = j \/ j < i
    BY <1>2
  <2>2. ASSUME IsReply(toTester'[i]), IsReply(toTester'[j])
        PROVE  i = j
    <3>1. m[i] = m[j]
      BY <1>1, <1>6, <2>2 DEF Matters
    <3> QED
      BY <1>1, <1>3, <2>1, <3>1
  <2>3. ASSUME IsReply(toTester'[i]), IsCTS(toTester'[j])
        PROVE  j < i
    <3>1. m[j] < m[i]
      BY <1>1, <1>6, <2>3 DEF Matters
    <3> QED
      BY <1>1, <1>3, <2>1, <3>1
  <2> QED
    BY <2>2, <2>3
<1>7. \A i \in 1..l : Matters(toTester'[i]) =>
        \E k \in 1..n : toTester'[i] = toTester[k]
  BY <1>1
<1> QED
  BY <1>4, <1>5, <1>6, <1>7

\* The tester stays where it is, or fails; the ECU stays where it is, or has no
\* request; frames are taken away, or one that does not matter is added.
Unmoved ==
    /\ UNCHANGED <<call, bs, blockCount, out, abandoned>>
    /\ UNCHANGED <<pc, result>> \/ (pc' = "done" /\ result' # "ok")

EcuUnmoved ==
    \/ ~Taken'
    \/ ecu'.state = ecu.state /\ ecu'.msg = ecu.msg /\ ecu'.left = ecu.left

LEMMA QuietStep ==
    ASSUME Types, Types', TurnInv, Unmoved, EcuUnmoved,
           Thins(toEcu, toEcu'), Sifts(toTester, toTester')
    PROVE  TurnInv'
<1> SUFFICES ASSUME ~abandoned
             PROVE  OnePlace' /\ NoneUnderWay' /\ BlockInv' /\ OwnInv'
  BY DEF TurnInv, Unmoved
<1>1. OnePlace /\ NoneUnderWay /\ BlockInv /\ OwnInv
  BY DEF TurnInv
<1>2. /\ toEcu \in Seq(Frames) /\ toEcu' \in Seq(Frames)
      /\ toTester \in Seq(Frames) /\ toTester' \in Seq(Frames)
  BY DEF Types, BusTypes
<1>3. /\ Requested' => Requested
      /\ (\A i \in 1..Len(toEcu) : Opens(toEcu[i]) => i = Len(toEcu)) =>
           \A i \in 1..Len(toEcu') : Opens(toEcu'[i]) => i = Len(toEcu')
      /\ \A i \in 1..Len(toEcu') : \E k \in 1..Len(toEcu) : toEcu'[i] = toEcu[k]
      /\ Len(toEcu') <= Len(toEcu)
      /\ toEcu = <<>> => toEcu' = <<>>
  BY <1>2, ThinnedEcu
<1>4. /\ Replied' => Replied
      /\ Cleared' => Cleared
      /\ (\A i, j \in 1..Len(toTester) :
           /\ IsReply(toTester[i]) /\ IsReply(toTester[j]) => i = j
           /\ IsReply(toTester[i]) /\ IsCTS(toTester[j]) => j < i) =>
         \A i, j \in 1..Len(toTester') :
           /\ IsReply(toTester'[i]) /\ IsReply(toTester'[j]) => i = j
           /\ IsReply(toTester'[i]) /\ IsCTS(toTester'[j]) => j < i
      /\ \A i \in 1..Len(toTester') : Matters(toTester'[i]) =>
           \E k \in 1..Len(toTester) : toTester'[i] = toTester[k]
  BY <1>2, SiftedTester
<1>5. Taken' => /\ Taken /\ ecu'.state = ecu.state /\ ecu'.msg = ecu.msg
                /\ ecu'.left = ecu.left
  BY DEF Taken, EcuUnmoved
<1>6. OnePlace'
  BY <1>1, <1>3, <1>4, <1>5 DEF OnePlace
<1>7. NoneUnderWay'
  BY <1>1, <1>3, <1>4, <1>5 DEF NoneUnderWay, Unmoved
<1>8. BlockInv'
  <2>1. ecu'.state = "grant" => toEcu' = <<>> /\ pc' # "send_cf"
    BY <1>1, <1>3, <1>5 DEF BlockInv, Taken, Unmoved
  <2>2. ASSUME ecu'.state = "assemble"
        PROVE  /\ \A i \in 1..Len(toEcu') : toEcu'[i].pci = "CF"
               /\ ecu'.left > 0 => Len(toEcu') <= ecu'.left
               /\ pc' = "wait_fc" => toEcu' = <<>>
               /\ pc' = "send_cf" => IF bs' = 0 THEN ecu'.left <= 0
                    ELSE Len(toEcu') + bs' - blockCount' <= ecu'.left
    <3>1. ecu.state = "assemble" /\ ecu'.left = ecu.left
      BY <1>5, <2>2 DEF Taken
    <3>2. \A i \in 1..Len(toEcu') : toEcu'[i].pci = "CF"
      BY <1>1, <1>3, <3>1 DEF BlockInv
    <3>3. /\ ecu.left \in Int /\ Len(toEcu) \in Nat /\ Len(toEcu') \in Nat
          /\ bs \in Nat /\ blockCount \in Nat
      BY <1>2, Sizes, LenProperties DEF Types, EcuTypes, EcuRecords, TesterTypes
    <3>4. /\ ecu.left > 0 => Len(toEcu) <= ecu.left
          /\ pc = "wait_fc" => toEcu = <<>>
          /\ pc = "send_cf" => IF bs = 0 THEN ecu.left <= 0
               ELSE Len(toEcu) + bs - blockCount <= ecu.left
      BY <1>1, <3>1 DEF BlockInv
    <3>5. bs' = bs /\ blockCount' = blockCount /\ (pc' = pc \/ pc' = "done")
      BY DEF Unmoved
    <3> QED
      BY <1>3, <3>1, <3>2, <3>3, <3>4, <3>5
  <2>3. ASSUME pc' = "wait_fc", NEW i \in 1..Len(toTester'), IsCTS(toTester'[i])
        PROVE  /\ ~Requested' /\ ecu'.state # "grant"
               /\ ecu'.state = "assemble" => ecu'.left = Granted(toTester'[i])
    <3>1. PICK k \in 1..Len(toTester) : toTester'[i] = toTester[k]
      BY <1>4, <2>3 DEF Matters
    <3>2. pc = "wait_fc"
      BY <2>3 DEF Unmoved
    <3>3. /\ ~Requested /\ ecu.state # "grant"
          /\ ecu.state = "assemble" => ecu.left = Granted(toTester[k])
      BY <1>1, <2>3, <3>1, <3>2 DEF BlockInv
    <3> QED
      BY <1>3, <1>5, <3>1, <3>3 DEF Taken
  <2>4. pc' = "send_cf" => ~Requested' /\ (bs' # 0 => blockCount' < bs')
    BY <1>1, <1>3 DEF BlockInv, Unmoved
  <2> QED
    BY <2>1, <2>2, <2>3, <2>4 DEF BlockInv
<1>9. OwnInv'
  <2>1. \A i \in 1..Len(toEcu') :
          Opens(toEcu'[i]) => toEcu'[i].data[1] = <<"req", call', 1>>
    BY <1>1, <1>3 DEF OwnInv, Unmoved
  <2>2. Taken' => ecu'.msg[1] = <<"req", call', 1>>
    BY <1>1, <1>5 DEF OwnInv, Unmoved
  <2>3. \A i \in 1..Len(toTester') : IsReply(toTester'[i]) =>
          toTester'[i].data # <<>> /\ toTester'[i].data[1] = <<"rsp", call', 1>>
    BY <1>1, <1>4 DEF OwnInv, Unmoved, Matters
  <2>4. pc' \in {"send_fc", "recv_cf"} \/ (pc' = "done" /\ result' = "ok") =>
          out' # <<>> /\ out'[1] = <<"rsp", call', 1>>
    BY <1>1 DEF OwnInv, Unmoved
  <2> QED
    BY <2>1, <2>2, <2>3, <2>4 DEF OwnInv
<1> QED
  BY <1>6, <1>7, <1>8, <1>9

LEMMA Queues ==
    ASSUME Types
    PROVE  /\ toEcu \in Seq(Frames) /\ toTester \in Seq(Frames)
           /\ Len(toEcu) \in Nat /\ Len(toTester) \in Nat
  BY LenProperties DEF Types, BusTypes

LEMMA PassiveUnmoved == ASSUME Passive PROVE Unmoved
  BY DEF Passive, Unmoved, Errors

LEMMA TesterTook ==
    ASSUME Types, NEW f, Recv(f)
    PROVE  /\ Sifts(toTester, toTester')
           /\ f = toTester[1] /\ 1 \in 1..Len(toTester)
           /\ toTester' = Tail(toTester)
<1>1. /\ toTester \in Seq(Frames) /\ toTester # <<>> /\ f = Head(toTester)
      /\ toTester' = Tail(toTester)
  BY Queues DEF Recv
<1>2. Thins(toTester, toTester') /\ f = toTester[1] /\ 1 \in 1..Len(toTester)
  BY <1>1, TailThins
<1> QED
  BY <1>1, <1>2, TailLemma, ThinsSifts

LEMMA EcuTook ==
    ASSUME Types, NEW f, EcuTakes(f)
    PROVE  /\ Thins(toEcu, toEcu')
           /\ f = toEcu[1] /\ 1 \in 1..Len(toEcu)
           /\ toEcu' = Tail(toEcu)
           /\ Len(toEcu') = Len(toEcu) - 1
           /\ \A i \in 1..Len(toEcu') : toEcu'[i] = toEcu[i + 1]
           /\ UNCHANGED <<toTester, call, pc, bs, blockCount, out, abandoned,
                          result>>
<1>1. /\ toEcu \in Seq(Frames) /\ toEcu # <<>> /\ f = Head(toEcu)
      /\ toEcu' = Tail(toEcu)
  BY Queues DEF EcuTakes
<1>2. UNCHANGED <<toTester, call, pc, bs, blockCount, out, abandoned, result>>
  BY DEF EcuTakes, testerVars, sendVars, recvVars, histVars
<1> QED
  BY <1>1, <1>2, TailThins, TailLemma

LEMMA TesterSame == ASSUME Types, UNCHANGED toTester PROVE Sifts(toTester, toTester')
  BY Queues, SameThins, ThinsSifts

LEMMA EcuSame == ASSUME Types, UNCHANGED toEcu PROVE Thins(toEcu, toEcu')
  BY Queues, SameThins

\* The tester skips a frame or fails because of it.
LEMMA QuietTake ==
    ASSUME Types, Types', TurnInv, NEW f, Recv(f), Unmoved,
           UNCHANGED <<toEcu, ecu>>
    PROVE  TurnInv'
<1>1. EcuUnmoved
  BY DEF EcuUnmoved
<1> QED
  BY <1>1, TesterTook, EcuSame, QuietStep

\* The ECU takes a frame that moves its reception of a request no further.
LEMMA QuietEcuTake ==
    ASSUME Types, Types', TurnInv, NEW f, EcuTakes(f), EcuUnmoved
    PROVE  TurnInv'
<1>1. Unmoved
  BY EcuTook DEF Unmoved
<1>2. Thins(toEcu, toEcu') /\ UNCHANGED toTester
  BY EcuTook
<1> QED
  BY <1>1, <1>2, TesterSame, QuietStep

\* The ECU sends a frame that does not matter.
LEMMA QuietSend ==
    ASSUME Types, Types', TurnInv, NEW f \in Frames, ~Matters(f), EcuSends(f),
           EcuUnmoved
    PROVE  TurnInv'
<1>1. Unmoved /\ UNCHANGED toEcu /\ toTester' = Append(toTester, f)
  BY DEF EcuSends, Unmoved, testerVars, sendVars, recvVars
<1>2. Sifts(toTester, toTester')
  BY <1>1, Queues, AppendSifts
<1> QED
  BY <1>1, <1>2, EcuSame, QuietStep

-----------------------------------------------------------------------------
(* TurnInv is kept: steps that begin and answer nothing.                   *)

LEMMA AsideTurn == ASSUME Types, TurnInv, Aside PROVE TurnInv'
<1>1. Types' /\ Passive /\ UNCHANGED <<env, busVars, ecu>>
  BY AsideTypes
<1>2. Unmoved /\ EcuUnmoved /\ UNCHANGED toEcu /\ UNCHANGED toTester
  BY <1>1, PassiveUnmoved DEF EcuUnmoved, busVars
<1> QED
  BY <1>1, <1>2, EcuSame, TesterSame, QuietStep

LEMMA RecvForeignTurn ==
    ASSUME Types, TurnInv, NEW f, RecvForeign(f)
    PROVE  TurnInv'
<1>1. Unmoved /\ Recv(f) /\ UNCHANGED <<toEcu, ecu>>
  BY DEF RecvForeign, Unmoved, sendVars, recvVars, histVars
<1> QED
  BY <1>1, RecvForeignTypes, QuietTake

LEMMA LoseTurn == ASSUME Types, TurnInv, Lose PROVE TurnInv'
<1>1. Unmoved /\ EcuUnmoved
  BY DEF Lose, Unmoved, EcuUnmoved, testerVars, sendVars, recvVars, histVars
<1>2. Thins(toEcu, toEcu') /\ Sifts(toTester, toTester')
  <2>1. CASE /\ \E i \in DOMAIN toTester : toTester' = RemoveAt(toTester, i)
             /\ UNCHANGED toEcu
    BY <2>1, Queues, RemoveThins, RemoveLemma, ThinsSifts, EcuSame
  <2>2. CASE /\ \E i \in DOMAIN toEcu : toEcu' = RemoveAt(toEcu, i)
             /\ UNCHANGED toTester
    BY <2>2, Queues, RemoveThins, TesterSame
  <2> QED
    BY <2>1, <2>2 DEF Lose
<1> QED
  BY <1>1, <1>2, LoseTypes, QuietStep

LEMMA DisturbTurn == ASSUME Types, TurnInv, Disturb PROVE TurnInv'
<1>1. Unmoved /\ EcuUnmoved /\ UNCHANGED toEcu
  BY DEF Disturb, Unmoved, EcuUnmoved, testerVars, sendVars, recvVars, histVars
<1>2. PICK f \in Foreign \cup Malformed : toTester' = Append(toTester, f)
  BY DEF Disturb
<1>3. f \in Frames /\ ~Matters(f)
  BY DisturbType DEF Matters
<1>4. Sifts(toTester, toTester')
  BY <1>2, <1>3, Queues, AppendSifts
<1> QED
  BY <1>1, <1>4, EcuSame, DisturbTypes, QuietStep

LEMMA EcuRecvFCTurn ==
    ASSUME Types, TurnInv, NEW f, EcuRecvFC(f)
    PROVE  TurnInv'
<1>1. Types' /\ EcuUnmoved
  BY EcuRecvFCTypes DEF EcuUnmoved, Taken
<1> QED
  BY <1>1, QuietEcuTake DEF EcuRecvFC

LEMMA EcuWaitTurn == ASSUME Types, TurnInv, EcuWait PROVE TurnInv'
<1>1. Types' /\ EcuUnmoved
  BY EcuWaitTypes DEF EcuUnmoved
<1>2. FC(WAIT, 0) \in Frames
  <2>1. WAIT \in 0..3 /\ 0 \in Nat
    BY DEF WAIT
  <2> QED
    BY <2>1, FCType
<1>3. ~Matters(FC(WAIT, 0))
  BY DEF Matters, IsReply, IsCTS, IsSingle, IsFirst, IsFC, FC, WAIT, CTS
<1> QED
  BY <1>1, <1>2, <1>3, QuietSend DEF EcuWait

LEMMA EcuOverflowTurn == ASSUME Types, TurnInv, EcuOverflow PROVE TurnInv'
<1>1. Types' /\ EcuUnmoved
  BY EcuOverflowTypes, IdleType DEF EcuUnmoved, Taken
<1>2. FC(OVERFLOW, 0) \in Frames
  <2>1. OVERFLOW \in 0..3 /\ 0 \in Nat
    BY DEF OVERFLOW
  <2> QED
    BY <2>1, FCType
<1>3. ~Matters(FC(OVERFLOW, 0))
  BY DEF Matters, IsReply, IsCTS, IsSingle, IsFirst, IsFC, FC, OVERFLOW, CTS
<1> QED
  BY <1>1, <1>2, <1>3, QuietSend DEF EcuOverflow

LEMMA EcuSendCFTurn == ASSUME Types, TurnInv, EcuSendCF PROVE TurnInv'
<1> DEFINE f == CF(ecu.seq, EcuPad(Chunk(ecu.msg, ecu.total, CFPayload),
                                   CFPayload))
<1>1. Types' /\ f \in Frames
  BY EcuSendCFTypes
<1>2. EcuUnmoved
  BY EcuSendCFTypes, IdleType DEF EcuUnmoved, Taken
<1>3. EcuSends(f)
  BY DEF EcuSendCF
<1>4. f.pci = "CF"
  BY DEF CF
<1> HIDE DEF f
<1>5. ~Matters(f)
  BY <1>4 DEF Matters, IsReply, IsCTS, IsSingle, IsFirst, IsFC
<1> QED
  BY <1>1, <1>2, <1>3, <1>5, QuietSend

LEMMA EcuAbandonsTurn == ASSUME Types, TurnInv, EcuAbandons PROVE TurnInv'
<1>1. Types' /\ EcuUnmoved
  BY EcuAbandonsTypes, IdleType DEF EcuUnmoved, Taken
<1>2. Unmoved /\ UNCHANGED toEcu /\ UNCHANGED toTester
  BY DEF EcuAbandons, Unmoved, busVars, testerVars, sendVars, recvVars, histVars
<1> QED
  BY <1>1, <1>2, EcuSame, TesterSame, QuietStep

-----------------------------------------------------------------------------
(* TurnInv is kept: the steps of a turn.                                   *)

\* Nothing is under way.
LEMMA NoTurn ==
    ASSUME ~Requested', ~Taken', ~Replied', ~Cleared', pc' # "send_cf",
           pc' \in {"send_fc", "recv_cf"} \/ (pc' = "done" /\ result' = "ok") =>
             out' # <<>> /\ out'[1] = <<"rsp", call', 1>>
    PROVE  TurnInv'
<1>1. OnePlace'
  BY DEF OnePlace, Requested, Replied
<1>2. NoneUnderWay'
  BY DEF NoneUnderWay
<1>3. BlockInv'
  BY DEF BlockInv, Taken, Cleared
<1>4. OwnInv'
  BY DEF OwnInv, Requested, Replied
<1> QED
  BY <1>1, <1>2, <1>3, <1>4 DEF TurnInv

LEMMA StartTurn ==
    ASSUME Types, TurnInv, NEW len \in env.reqLens, Start(len)
    PROVE  TurnInv'
<1> SUFFICES ASSUME ~abandoned'
             PROVE  TurnInv'
  BY DEF TurnInv
<1>1. /\ ~abandoned /\ pc \in {"idle", "done"} /\ (pc = "done" => result = "ok")
      /\ toEcu' = toEcu /\ toTester' = toTester /\ ecu' = ecu
  BY DEF Start, busVars
<1>2. ~Requested /\ ~Taken /\ ~Replied /\ ~Cleared
  BY <1>1 DEF TurnInv, NoneUnderWay
<1>3. ~Requested' /\ ~Taken' /\ ~Replied' /\ ~Cleared'
  BY <1>1, <1>2 DEF Requested, Taken, Replied, Cleared
<1>4. pc' = "send_first" \/ (pc' = "done" /\ result' = "InvalidInput")
  BY DEF Start, Return
<1> QED
  BY <1>3, <1>4, NoTurn

\* The tester's queue to the ECU after a frame.
LEMMA TesterSent ==
    ASSUME Types, NEW f \in Frames, Send(f)
    PROVE  /\ Len(toEcu') = Len(toEcu) + 1
           /\ \A i \in 1..Len(toEcu) : toEcu'[i] = toEcu[i]
           /\ toEcu'[Len(toEcu) + 1] = f
           /\ ~Requested /\ ~Opens(f) => ~Requested'
<1>1. toEcu' = Append(toEcu, f) /\ toEcu \in Seq(Frames) /\ Len(toEcu) \in Nat
  BY Queues DEF Send
<1>2. /\ Len(toEcu') = Len(toEcu) + 1
      /\ \A i \in 1..Len(toEcu) : toEcu'[i] = toEcu[i]
      /\ toEcu'[Len(toEcu) + 1] = f
  BY <1>1, AppendLemma
<1>3. \A i \in 1..Len(toEcu') : i \in 1..Len(toEcu) \/ i = Len(toEcu) + 1
  BY <1>1, <1>2
<1>4. ~Requested /\ ~Opens(f) => ~Requested'
  BY <1>2, <1>3 DEF Requested
<1> QED
  BY <1>2, <1>4

LEMMA SendFirstTurn == ASSUME Types, TurnInv, SendFirst PROVE TurnInv'
<1>1. /\ FirstFrame \in Frames /\ Send(FirstFrame)
      /\ pc = "send_first" /\ pc' \in {"recv_first", "wait_fc"}
      /\ toTester' = toTester /\ ecu' = ecu /\ call' = call
      /\ abandoned' = abandoned
  BY SendFirstTypes DEF SendFirst
<1> SUFFICES ASSUME ~abandoned
             PROVE  OnePlace' /\ NoneUnderWay' /\ BlockInv' /\ OwnInv'
  BY <1>1 DEF TurnInv
<1>2. FirstFrame.data[1] = <<"req", call, 1>>
  BY <1>1, FirstFrameLemma DEF Types
<1>3. ~Requested /\ ~Taken /\ ~Replied /\ ~Cleared
  BY <1>1 DEF TurnInv, NoneUnderWay
<1>4. ~Taken' /\ ~Replied' /\ ~Cleared'
  BY <1>1, <1>3 DEF Taken, Replied, Cleared
<1>5. Len(toEcu) \in Nat /\ Len(toEcu') = Len(toEcu) + 1
  BY <1>1, Queues, TesterSent
<1>6. \A i \in 1..Len(toEcu') : Opens(toEcu'[i]) =>
        i = Len(toEcu') /\ toEcu'[i] = FirstFrame
  <2>1. \A i \in 1..Len(toEcu) : ~Opens(toEcu'[i])
    BY <1>1, <1>3, TesterSent DEF Requested
  <2>2. toEcu'[Len(toEcu) + 1] = FirstFrame
    BY <1>1, TesterSent
  <2> QED
    BY <1>5, <2>1, <2>2
<1>7. OnePlace'
  BY <1>4, <1>6 DEF OnePlace, Replied
<1>8. NoneUnderWay'
  BY <1>1 DEF NoneUnderWay
<1>9. BlockInv'
  BY <1>1, <1>4 DEF BlockInv, Taken, Cleared
<1>10. OwnInv'
  BY <1>1, <1>2, <1>4, <1>6 DEF OwnInv, Replied
<1> QED
  BY <1>7, <1>8, <1>9, <1>10

LEMMA SendCFTurn == ASSUME Types, TurnInv, SendCF PROVE TurnInv'
<1>1. /\ NextFrame \in Frames /\ NextFrame.pci = "CF" /\ Send(NextFrame)
      /\ pc = "send_cf" /\ blockCount' = Least(blockCount + 1, U8 - 1)
      /\ \/ pc' = "done" /\ result' = "Unsupported"
         \/ /\ pc' = IF offset' < Len(payload) THEN "send_cf" ELSE "recv_first"
            /\ ~BlockDone
  BY SendCFTypes DEF SendCF
<1>2. /\ toTester' = toTester /\ ecu' = ecu /\ call' = call
      /\ abandoned' = abandoned /\ bs' = bs
  BY DEF SendCF
<1> SUFFICES ASSUME ~abandoned
             PROVE  OnePlace' /\ NoneUnderWay' /\ BlockInv' /\ OwnInv'
  BY <1>2 DEF TurnInv
<1>3. OnePlace /\ BlockInv /\ OwnInv
  BY DEF TurnInv
<1>4. ~Requested /\ (bs # 0 => blockCount < bs)
  BY <1>1, <1>3 DEF BlockInv
<1>5. ~Requested' /\ \A i \in 1..Len(toEcu') : ~Opens(toEcu'[i])
  <2>1. ~Opens(NextFrame)
    BY <1>1 DEF Opens
  <2> QED
    BY <1>1, <1>4, <2>1, TesterSent DEF Requested
<1>6. /\ (Taken' <=> Taken) /\ (Replied' <=> Replied)
  BY <1>2 DEF Taken, Replied
<1>7. OnePlace'
  BY <1>2, <1>3, <1>5, <1>6 DEF OnePlace
<1>8. NoneUnderWay'
  BY <1>1 DEF NoneUnderWay
<1>9. BlockInv'
  <2>1. /\ blockCount \in 0..U8 - 1 /\ bs \in 0..U8 - 1 /\ U8 \in Nat
        /\ ecu.left \in Int /\ Len(toEcu) \in Nat
    BY Sizes, Queues DEF Types, TesterTypes, EcuTypes, EcuRecords
  <2>2. bs # 0 => blockCount' = blockCount + 1
    BY <1>1, <1>4, <2>1 DEF Least
  <2>3. Len(toEcu') = Len(toEcu) + 1
    BY <1>1, TesterSent
  <2>4. ecu'.state # "grant"
    BY <1>1, <1>2, <1>3 DEF BlockInv
  <2>5. ASSUME ecu'.state = "assemble"
        PROVE  /\ \A i \in 1..Len(toEcu') : toEcu'[i].pci = "CF"
               /\ ecu'.left > 0 => Len(toEcu') <= ecu'.left
               /\ pc' = "wait_fc" => toEcu' = <<>>
               /\ pc' = "send_cf" => IF bs' = 0 THEN ecu'.left <= 0
                    ELSE Len(toEcu') + bs' - blockCount' <= ecu'.left
    <3>1. /\ \A i \in 1..Len(toEcu) : toEcu[i].pci = "CF"
          /\ IF bs = 0 THEN ecu.left <= 0
             ELSE Len(toEcu) + bs - blockCount <= ecu.left
      BY <1>1, <1>2, <1>3, <2>5 DEF BlockInv
    <3>2. \A i \in 1..Len(toEcu) : toEcu'[i].pci = "CF"
      BY <1>1, <3>1, TesterSent
    <3>3. toEcu'[Len(toEcu) + 1].pci = "CF"
      BY <1>1, TesterSent
    <3>4. \A i \in 1..Len(toEcu') : toEcu'[i].pci = "CF"
      BY <2>1, <2>3, <3>2, <3>3
    <3>5. ecu.left > 0 => Len(toEcu') <= ecu.left
      BY <1>4, <2>1, <2>3, <3>1
    <3>6. IF bs = 0 THEN ecu.left <= 0
          ELSE Len(toEcu') + bs - blockCount' <= ecu.left
      BY <1>4, <2>1, <2>2, <2>3, <3>1
    <3> QED
      BY <1>1, <1>2, <3>4, <3>5, <3>6
  <2>6. pc' # "wait_fc"
    BY <1>1
  <2>7. ASSUME pc' = "send_cf", bs' # 0
        PROVE  blockCount' < bs'
    <3>1. offset' < Len(payload) /\ ~BlockDone
      BY <1>1, <2>7
    <3>2. blockCount' # bs
      BY <1>2, <2>7, <3>1 DEF BlockDone
    <3> QED
      BY <1>2, <1>4, <2>1, <2>2, <2>7, <3>2
  <2> QED
    BY <1>5, <2>4, <2>5, <2>6, <2>7 DEF BlockInv
<1>10. OwnInv'
  BY <1>1, <1>2, <1>3, <1>5, <1>6 DEF OwnInv
<1> QED
  BY <1>7, <1>8, <1>9, <1>10

LEMMA SendFCTurn == ASSUME Types, TurnInv, SendFC PROVE TurnInv'
<1>1. EncodeFC(CTS, BlockSize) \in Frames /\ Send(EncodeFC(CTS, BlockSize))
  BY SendFCTypes
<1>2. /\ pc = "send_fc" /\ pc' = "recv_cf" /\ toTester' = toTester /\ ecu' = ecu
      /\ call' = call /\ abandoned' = abandoned /\ out' = out
  BY DEF SendFC
<1> SUFFICES ASSUME ~abandoned
             PROVE  TurnInv'
  BY <1>2 DEF TurnInv
<1>3. ~Requested /\ ~Taken /\ ~Replied /\ ~Cleared
  BY <1>2 DEF TurnInv, NoneUnderWay
<1>4. ~Taken' /\ ~Replied' /\ ~Cleared'
  BY <1>2, <1>3 DEF Taken, Replied, Cleared
<1>5. ~Opens(EncodeFC(CTS, BlockSize))
  BY DEF Opens, EncodeFC, FC
<1>6. ~Requested'
  BY <1>1, <1>3, <1>5, TesterSent
<1>7. out # <<>> /\ out[1] = <<"rsp", call, 1>>
  BY <1>2 DEF TurnInv, OwnInv
<1> QED
  BY <1>2, <1>4, <1>6, <1>7, NoTurn

LEMMA RecvFCTurn ==
    ASSUME Types, TurnInv, NEW f, RecvFC(f)
    PROVE  TurnInv'
<1>1. /\ Types'
      /\ \/ Passive
         \/ /\ IsFC(f, CTS) /\ pc' = "send_cf" /\ bs' = Granted(f)
            /\ offset' = FFFirst /\ seq' = 1 /\ blockCount' = 0
         \/ /\ IsFC(f, WAIT) /\ waits' = (waits + 1) % U8
            /\ waitsSeen' = waitsSeen + 1
            /\ \/ waits' > MaxWaits /\ pc' = "done" /\ result' # "ok"
               \/ ~(waits' > MaxWaits) /\ pc' = "wait_fc"
  BY RecvFCTypes
<1>2. /\ pc = "wait_fc" /\ Recv(f) /\ f.id = "ecu" /\ toEcu' = toEcu
      /\ ecu' = ecu /\ call' = call /\ out' = out /\ abandoned' = abandoned
  BY DEF RecvFC, recvVars
<1>3. CASE Passive
  BY <1>1, <1>2, <1>3, PassiveUnmoved, QuietTake
<1>4. CASE IsFC(f, WAIT) /\ \/ pc' = "done" /\ result' # "ok"
                            \/ pc' = "wait_fc"
  <2>1. bs' = bs /\ blockCount' = blockCount
    BY <1>4 DEF RecvFC, IsFC, CTS, WAIT, sendVars
  <2>2. pc' = "wait_fc" => result' = result
    BY <1>1, <1>2 DEF Types, TesterTypes
  <2>3. Unmoved
    BY <1>2, <1>4, <2>1, <2>2 DEF Unmoved
  <2> QED
    BY <1>1, <1>2, <2>3, QuietTake
<1>5. CASE IsFC(f, CTS) /\ pc' = "send_cf" /\ bs' = Granted(f) /\ blockCount' = 0
  <2> SUFFICES ASSUME ~abandoned
               PROVE  OnePlace' /\ NoneUnderWay' /\ BlockInv' /\ OwnInv'
    BY <1>2 DEF TurnInv
  <2>1. OnePlace /\ BlockInv /\ OwnInv
    BY DEF TurnInv
  <2>2. IsCTS(f) /\ f = toTester[1] /\ 1 \in 1..Len(toTester)
    BY <1>2, <1>5, TesterTook DEF IsCTS
  <2>3. /\ ~Requested /\ ecu.state # "grant"
        /\ ecu.state = "assemble" => ecu.left = Granted(f) /\ toEcu = <<>>
    BY <1>2, <2>1, <2>2 DEF BlockInv
  <2>4. /\ Replied' => Replied
        /\ (\A i, j \in 1..Len(toTester) :
             /\ IsReply(toTester[i]) /\ IsReply(toTester[j]) => i = j
             /\ IsReply(toTester[i]) /\ IsCTS(toTester[j]) => j < i) =>
           \A i, j \in 1..Len(toTester') :
             /\ IsReply(toTester'[i]) /\ IsReply(toTester'[j]) => i = j
             /\ IsReply(toTester'[i]) /\ IsCTS(toTester'[j]) => j < i
        /\ \A i \in 1..Len(toTester') : Matters(toTester'[i]) =>
             \E k \in 1..Len(toTester) : toTester'[i] = toTester[k]
    <3>1. toTester' \in Seq(Frames)
      BY <1>1 DEF Types, BusTypes
    <3> QED
      BY <1>2, <3>1, Queues, TesterTook, SiftedTester
  <2>5. (Requested' <=> Requested) /\ (Taken' <=> Taken)
    BY <1>2 DEF Requested, Taken
  <2>6. OnePlace'
    BY <1>2, <2>1, <2>4, <2>5 DEF OnePlace
  <2>7. NoneUnderWay'
    BY <1>5 DEF NoneUnderWay
  <2>8. BlockInv'
    <3>1. Granted(f) \in 0..U8 - 1 /\ U8 \in Nat
      <4>1. EcuFrame(f)
        BY <1>2, TesterTakes DEF RecvFC, Types
      <4> QED
        BY <1>5, <4>1, Sizes DEF EcuFrame
    <3>2. ASSUME ecu'.state = "assemble"
          PROVE  /\ toEcu' = <<>> /\ ecu'.left = bs'
                 /\ Len(toEcu') = 0
      BY <1>2, <1>5, <2>3, <3>2
    <3> QED
      BY <1>2, <1>5, <2>3, <2>5, <3>1, <3>2 DEF BlockInv
  <2>9. OwnInv'
    BY <1>2, <1>5, <2>1, <2>4, <2>5 DEF OwnInv, Matters
  <2> QED
    BY <2>6, <2>7, <2>8, <2>9
<1> QED
  BY <1>1, <1>3, <1>4, <1>5

LEMMA RecvFirstTurn ==
    ASSUME Types, TurnInv, NEW f, RecvFirst(f)
    PROVE  TurnInv'
<1>1. /\ Types'
      /\ \/ Passive /\ ~IsReply(f)
         \/ /\ IsReply(f) /\ out' = Chunk(f.data, 0, f.n)
            /\ \/ IsSingle(f) /\ pc' = "done" /\ result' = "ok"
               \/ IsFirst(f) /\ pc' = "send_fc" /\ total' = f.n
  BY RecvFirstTypes
<1>2. /\ pc = "recv_first" /\ Recv(f) /\ f.id = "ecu" /\ toEcu' = toEcu
      /\ ecu' = ecu /\ call' = call /\ abandoned' = abandoned
  BY DEF RecvFirst, histVars
<1>3. CASE Passive
  BY <1>1, <1>2, <1>3, PassiveUnmoved, QuietTake
<1>4. CASE /\ IsReply(f) /\ out' = Chunk(f.data, 0, f.n)
           /\ pc' \in {"done", "send_fc"}
  <2> SUFFICES ASSUME ~abandoned
               PROVE  TurnInv'
    BY <1>2 DEF TurnInv
  <2>1. OnePlace /\ OwnInv
    BY DEF TurnInv
  <2>2. /\ f = toTester[1] /\ 1 \in 1..Len(toTester)
        /\ toTester' = Tail(toTester)
    BY <1>2, TesterTook
  <2>3. ~Requested /\ ~Taken
    BY <1>4, <2>1, <2>2 DEF OnePlace, Replied
  <2>4. ~Requested' /\ ~Taken'
    BY <1>2, <2>3 DEF Requested, Taken
  <2>5. \A i \in 1..Len(toTester') :
          i + 1 \in 1..Len(toTester) /\ toTester'[i] = toTester[i + 1]
    <3>1. toTester \in Seq(Frames) /\ toTester # <<>>
      BY <1>2, Queues DEF Recv
    <3> QED
      BY <2>2, <3>1, TailLemma
  <2>6. ~Replied' /\ ~Cleared'
    <3>1. ASSUME NEW i \in 1..Len(toTester')
          PROVE  ~IsReply(toTester'[i]) /\ ~IsCTS(toTester'[i])
      <4>1. i + 1 \in 1..Len(toTester) /\ toTester'[i] = toTester[i + 1]
            /\ i + 1 # 1 /\ ~(i + 1 < 1)
        BY <2>5, <3>1
      <4> QED
        BY <1>4, <2>1, <2>2, <4>1 DEF OnePlace
    <3> QED
      BY <3>1 DEF Replied, Cleared
  <2>7. f.data # <<>> /\ f.data[1] = <<"rsp", call, 1>>
    BY <1>4, <2>1, <2>2 DEF OwnInv
  <2>8. out' # <<>> /\ out'[1] = f.data[1]
    <3>1. f \in Frames
      BY <1>2, TesterTakes DEF Types, RecvFirst
    <3>2. /\ f.data \in Seq(Bytes) /\ f.n \in Nat /\ f.n >= 1 /\ 0 \in Nat
          /\ Len(f.data) >= 1 /\ Len(f.data) \in Nat
      <4>1. f.data \in Seq(Bytes) /\ f.n \in Nat
        BY <3>1, Sizes DEF Frames
      <4>2. Len(f.data) \in Nat \ {0}
        BY <2>7, <4>1, EmptySeq, LenProperties
      <4>3. f.n >= 1
        BY <1>4, <4>1, Sizes DEF IsReply, IsSingle, IsFirst
      <4> QED
        BY <4>1, <4>2, <4>3
    <3>3. /\ Len(Chunk(f.data, 0, f.n)) =
               IF 0 < Least(0 + f.n, Len(f.data))
               THEN Least(0 + f.n, Len(f.data)) - 0 ELSE 0
          /\ \A i \in 1..Len(Chunk(f.data, 0, f.n)) :
               Chunk(f.data, 0, f.n)[i] = f.data[0 + i]
      <4> DEFINE d == f.data
                 n == f.n
      <4>1. d \in Seq(Bytes) /\ n \in Int /\ 0 \in Nat
        BY <3>2
      <4> HIDE DEF d, n
      <4>2. /\ Len(Chunk(d, 0, n)) = IF 0 < Least(0 + n, Len(d))
                                    THEN Least(0 + n, Len(d)) - 0 ELSE 0
            /\ \A i \in 1..Len(Chunk(d, 0, n)) : Chunk(d, 0, n)[i] = d[0 + i]
        BY <4>1, ChunkLemma
      <4> QED
        BY <4>2 DEF d, n
    <3>4. Least(0 + f.n, Len(f.data)) >= 1
      BY <3>2 DEF Least
    <3>5. 1 \in 1..Len(Chunk(f.data, 0, f.n))
      BY <3>2, <3>3, <3>4 DEF Least
    <3>6. Chunk(f.data, 0, f.n)[1] = f.data[1]
      BY <3>3, <3>5
    <3>7. Chunk(f.data, 0, f.n) # <<>>
      BY <3>5
    <3> QED
      BY <1>4, <3>6, <3>7
  <2> QED
    BY <1>2, <1>4, <2>4, <2>6, <2>7, <2>8, NoTurn
<1> QED
  BY <1>1, <1>3, <1>4

LEMMA RecvCFTurn ==
    ASSUME Types, TurnInv, NEW f, RecvCF(f)
    PROVE  TurnInv'
<1>1. /\ Types'
      /\ \/ Passive /\ ~IsNextCF(f) /\ pc' = "done"
         \/ /\ IsNextCF(f) /\ out' = out \o Take(f.data)
            /\ \/ pc' = "recv_cf" /\ Len(out') < total
               \/ pc' = "done" /\ result' = "ok" /\ Len(out') >= total
  BY RecvCFTypes
<1>2. /\ pc = "recv_cf" /\ Recv(f) /\ f.id = "ecu" /\ toEcu' = toEcu
      /\ ecu' = ecu /\ call' = call /\ abandoned' = abandoned
  BY DEF RecvCF, histVars
<1>3. CASE Passive
  BY <1>1, <1>2, <1>3, PassiveUnmoved, QuietTake
<1>4. CASE out' = out \o Take(f.data) /\ pc' \in {"recv_cf", "done"}
  <2> SUFFICES ASSUME ~abandoned
               PROVE  TurnInv'
    BY <1>2 DEF TurnInv
  <2>1. ~Requested /\ ~Taken /\ ~Replied /\ ~Cleared
    BY <1>2 DEF TurnInv, NoneUnderWay
  <2>2. ~Requested' /\ ~Taken'
    BY <1>2, <2>1 DEF Requested, Taken
  <2>3. (Replied' => Replied) /\ (Cleared' => Cleared)
    <3>1. toTester' \in Seq(Frames)
      BY <1>1 DEF Types, BusTypes
    <3> QED
      BY <1>2, <3>1, Queues, TesterTook, SiftedTester
  <2>4. out # <<>> /\ out[1] = <<"rsp", call, 1>>
    BY <1>2 DEF TurnInv, OwnInv
  <2>5. out' # <<>> /\ out'[1] = out[1]
    <3>1. out \in Seq(Bytes) /\ f.data \in Seq(Bytes) /\ 0 \in Nat
          /\ total \in Int
      <4>1. f \in Frames
        BY <1>2, TesterTakes DEF Types, RecvCF
      <4> QED
        BY <4>1, Sizes DEF Frames, Types, TesterTypes
    <3>2. Take(f.data) \in Seq(Bytes)
      <4>1. Len(out) \in Int /\ CFPayload \in Int
        BY <3>1, Sizes
      <4>2. Least(total - Len(out), CFPayload) \in Int
        BY <3>1, <4>1, LeastLemma
      <4> QED
        BY <3>1, <4>2, ChunkLemma DEF Take
    <3>3. Len(out) \in Nat \ {0}
      BY <2>4, <3>1, EmptySeq, LenProperties
    <3>4. /\ Len(out') = Len(out) + Len(Take(f.data))
          /\ \A i \in 1..Len(out) : out'[i] = out[i]
      BY <1>4, <3>1, <3>2, ConcatProperties
    <3>5. Len(out') # 0
      BY <3>2, <3>3, <3>4
    <3> QED
      BY <3>3, <3>4, <3>5
  <2>6. /\ ~Requested' /\ ~Taken' /\ ~Replied' /\ ~Cleared'
        /\ pc' # "send_cf" /\ out' # <<>> /\ out'[1] = <<"rsp", call', 1>>
    BY <1>2, <1>4, <2>1, <2>2, <2>3, <2>4, <2>5
  <2> QED
    BY <2>6, NoTurn
<1> QED
  BY <1>1, <1>3, <1>4

\* The ECU takes the frame that begins a request: nothing is behind it, and no
\* Clear To Send is due.
LEMMA EcuOpensTurn ==
    ASSUME Types, Types', TurnInv, NEW f, EcuTakes(f), Opens(f),
           ecu'.state \in {"grant", "reply"}, ecu'.msg[1] = f.data[1]
    PROVE  TurnInv'
<1>1. /\ f = toEcu[1] /\ 1 \in 1..Len(toEcu) /\ Len(toEcu') = Len(toEcu) - 1
      /\ UNCHANGED <<toTester, call, pc, bs, blockCount, out, abandoned, result>>
  BY EcuTook
<1> SUFFICES ASSUME ~abandoned
             PROVE  OnePlace' /\ NoneUnderWay' /\ BlockInv' /\ OwnInv'
  BY <1>1 DEF TurnInv
<1>2. OnePlace /\ NoneUnderWay /\ BlockInv /\ OwnInv
  BY DEF TurnInv
<1>3. Requested /\ Len(toEcu) = 1
  BY <1>1, <1>2 DEF Requested, OnePlace
<1>4. toEcu' = <<>> /\ Len(toEcu') = 0
  <2>1. toEcu' \in Seq(Frames) /\ Len(toEcu') = 0
    BY <1>1, <1>3 DEF Types, BusTypes
  <2> QED
    BY <2>1, EmptySeq
<1>5. ~Requested'
  BY <1>4 DEF Requested
<1>6. ~Replied /\ ~Replied'
  BY <1>1, <1>2, <1>3 DEF OnePlace, Replied
<1>7. ~(\/ pc \in {"idle", "send_first", "send_fc", "recv_cf", "send_cf"}
        \/ pc = "done" /\ result = "ok")
  BY <1>2, <1>3 DEF NoneUnderWay, BlockInv
<1>8. pc = "wait_fc" =>
        \A i \in 1..Len(toTester) : ~IsCTS(toTester[i])
  BY <1>2, <1>3 DEF BlockInv
<1>9. OnePlace'
  BY <1>4, <1>5, <1>6 DEF OnePlace, Replied
<1>10. NoneUnderWay'
  BY <1>1, <1>7 DEF NoneUnderWay
<1>11. BlockInv'
  <2>1. pc' # "send_cf" /\ ecu'.state # "assemble"
    BY <1>1, <1>7
  <2>2. pc' = "wait_fc" => \A i \in 1..Len(toTester') : ~IsCTS(toTester'[i])
    BY <1>1, <1>8
  <2> QED
    BY <1>4, <2>1, <2>2 DEF BlockInv
<1>12. OwnInv'
  <2>1. ecu'.msg[1] = <<"req", call', 1>>
    BY <1>1, <1>2 DEF OwnInv
  <2>2. /\ \A i \in 1..Len(toEcu') : ~Opens(toEcu'[i])
        /\ \A i \in 1..Len(toTester') : ~IsReply(toTester'[i])
    BY <1>5, <1>6 DEF Requested, Replied
  <2>3. ~(pc' \in {"send_fc", "recv_cf"} \/ (pc' = "done" /\ result' = "ok"))
    BY <1>1, <1>7
  <2> QED
    BY <2>1, <2>2, <2>3 DEF OwnInv
<1> QED
  BY <1>9, <1>10, <1>11, <1>12

LEMMA EcuRecvSFTurn ==
    ASSUME Types, TurnInv, NEW f, EcuRecvSF(f)
    PROVE  TurnInv'
  BY EcuRecvSFTypes, EcuOpensTurn DEF EcuRecvSF, Opens

LEMMA EcuRecvFFTurn ==
    ASSUME Types, TurnInv, NEW f, EcuRecvFF(f)
    PROVE  TurnInv'
  BY EcuRecvFFTypes, EcuOpensTurn DEF EcuRecvFF, Opens

LEMMA EcuRecvCFTurn ==
    ASSUME Types, TurnInv, NEW f, EcuRecvCF(f)
    PROVE  TurnInv'
<1>1. /\ Types'
      /\ \/ ecu.state # "assemble" /\ ecu' = ecu
         \/ ecu.state = "assemble" /\ ecu' = Idle
         \/ /\ ecu.state = "assemble"
            /\ ecu'.msg[1] = ecu.msg[1]
            /\ ecu'.left = ecu.left - 1
            /\ ecu'.state \in {"reply", "grant", "assemble"}
            /\ ecu'.state = "grant" => ecu.left = 1
  BY EcuRecvCFTypes
<1>2. EcuTakes(f)
  BY DEF EcuRecvCF
<1>3. CASE ecu' = ecu \/ ecu' = Idle
  <2>1. EcuUnmoved
    BY <1>3, IdleType DEF EcuUnmoved, Taken
  <2> QED
    BY <1>1, <1>2, <2>1, QuietEcuTake
<1>4. CASE /\ ecu.state = "assemble"
           /\ ecu'.msg[1] = ecu.msg[1] /\ ecu'.left = ecu.left - 1
           /\ ecu'.state \in {"reply", "grant", "assemble"}
           /\ ecu'.state = "grant" => ecu.left = 1
  <2>1. /\ f = toEcu[1] /\ 1 \in 1..Len(toEcu) /\ Len(toEcu') = Len(toEcu) - 1
        /\ \A i \in 1..Len(toEcu') : toEcu'[i] = toEcu[i + 1]
        /\ UNCHANGED <<toTester, call, pc, bs, blockCount, out, abandoned,
                       result>>
    BY <1>2, EcuTook
  <2> SUFFICES ASSUME ~abandoned
               PROVE  OnePlace' /\ NoneUnderWay' /\ BlockInv' /\ OwnInv'
    BY <2>1 DEF TurnInv
  <2>2. OnePlace /\ NoneUnderWay /\ BlockInv /\ OwnInv
    BY DEF TurnInv
  <2>3. Taken /\ Taken'
    BY <1>4 DEF Taken
  <2>4. ~Requested /\ ~Replied /\ ~Replied'
    BY <2>1, <2>2, <2>3 DEF OnePlace, Replied
  <2>5. Len(toEcu) \in Nat /\ Len(toEcu') \in Nat
    BY <2>1, Queues
  <2>6. \A i \in 1..Len(toEcu') : i + 1 \in 1..Len(toEcu)
    BY <2>1, <2>5
  <2>7. ~Requested' /\ \A i \in 1..Len(toEcu') : ~Opens(toEcu'[i])
    BY <2>1, <2>4, <2>6 DEF Requested
  <2>8. OnePlace'
    BY <2>4, <2>7 DEF OnePlace, Replied
  <2>9. NoneUnderWay'
    BY <2>1, <2>2, <2>3 DEF NoneUnderWay
  <2>10. BlockInv'
    <3>1. /\ \A i \in 1..Len(toEcu) : toEcu[i].pci = "CF"
          /\ ecu.left > 0 => Len(toEcu) <= ecu.left
          /\ pc = "wait_fc" => toEcu = <<>>
          /\ pc = "send_cf" => IF bs = 0 THEN ecu.left <= 0
               ELSE Len(toEcu) + bs - blockCount <= ecu.left
          /\ pc = "send_cf" /\ bs # 0 => blockCount < bs
      BY <1>4, <2>2 DEF BlockInv
    <3>2. pc # "wait_fc"
      <4>1. toEcu # <<>>
        BY <2>1
      <4> QED
        BY <3>1, <4>1
    <3>3. ecu.left \in Int /\ bs \in Nat /\ blockCount \in Nat
      BY Sizes DEF Types, EcuTypes, EcuRecords, TesterTypes
    <3>4. ASSUME ecu'.state = "grant"
          PROVE  toEcu' = <<>> /\ pc # "send_cf"
      <4>1. ecu.left = 1
        BY <1>4, <3>4
      <4>2. Len(toEcu') = 0 /\ toEcu' \in Seq(Frames)
        BY <1>1, <2>1, <2>5, <3>1, <4>1 DEF Types, BusTypes
      <4>3. pc # "send_cf"
        BY <2>1, <2>5, <3>1, <3>3, <4>1
      <4> QED
        BY <4>2, <4>3, EmptySeq
    <3>5. \A i \in 1..Len(toEcu') : toEcu'[i].pci = "CF"
      BY <2>1, <2>6, <3>1
    <3>6. ecu'.left > 0 => Len(toEcu') <= ecu'.left
      BY <1>4, <2>1, <2>5, <3>1, <3>3
    <3>7. pc = "send_cf" => IF bs = 0 THEN ecu'.left <= 0
            ELSE Len(toEcu') + bs - blockCount <= ecu'.left
      BY <1>4, <2>1, <2>5, <3>1, <3>3
    <3> QED
      BY <2>1, <2>7, <3>1, <3>2, <3>4, <3>5, <3>6, <3>7 DEF BlockInv
  <2>11. OwnInv'
    BY <1>4, <2>1, <2>2, <2>3, <2>4, <2>7 DEF OwnInv, Replied
  <2> QED
    BY <2>8, <2>9, <2>10, <2>11
<1> QED
  BY <1>1, <1>3, <1>4

\* The ECU's queue to the tester after a frame.
LEMMA EcuSent ==
    ASSUME Types, NEW f \in Frames, EcuSends(f)
    PROVE  /\ Len(toTester) \in Nat /\ Len(toTester') = Len(toTester) + 1
           /\ \A i \in 1..Len(toTester) : toTester'[i] = toTester[i]
           /\ toTester'[Len(toTester) + 1] = f
           /\ \A i \in 1..Len(toTester') :
                i \in 1..Len(toTester) \/ i = Len(toTester) + 1
           /\ UNCHANGED <<toEcu, call, pc, bs, blockCount, out, abandoned,
                          result>>
<1>1. toTester' = Append(toTester, f)
  BY DEF EcuSends
<1>2. toTester \in Seq(Frames) /\ Len(toTester) \in Nat
  BY Queues
<1>3. /\ Len(toTester') = Len(toTester) + 1
      /\ \A i \in 1..Len(toTester) : toTester'[i] = toTester[i]
      /\ toTester'[Len(toTester) + 1] = f
  BY <1>1, <1>2, AppendLemma
<1>4. UNCHANGED <<toEcu, call, pc, bs, blockCount, out, abandoned, result>>
  BY DEF EcuSends, testerVars, sendVars, recvVars
<1>5. \A i \in 1..Len(toTester') :
        i \in 1..Len(toTester) \/ i = Len(toTester) + 1
  BY <1>2, <1>3
<1> QED
  BY <1>2, <1>3, <1>4, <1>5

LEMMA EcuGrantTurn ==
    ASSUME Types, TurnInv, NEW b \in env.blocks, EcuGrant(b)
    PROVE  TurnInv'
<1>1. /\ ecu.state = "grant" /\ ecu'.state = "assemble"
      /\ ecu'.msg = ecu.msg /\ ecu'.left = b
  BY EcuGrantTypes
<1>2. PICK f \in Frames : EcuSends(f) /\ f.pci = "FC" /\ Granted(f) = b
  BY EcuGrantTypes
<1>3. /\ Len(toTester) \in Nat /\ Len(toTester') = Len(toTester) + 1
      /\ \A i \in 1..Len(toTester) : toTester'[i] = toTester[i]
      /\ toTester'[Len(toTester) + 1] = f
      /\ \A i \in 1..Len(toTester') :
           i \in 1..Len(toTester) \/ i = Len(toTester) + 1
      /\ UNCHANGED <<toEcu, call, pc, bs, blockCount, out, abandoned, result>>
  BY <1>2, EcuSent
<1> SUFFICES ASSUME ~abandoned
             PROVE  OnePlace' /\ NoneUnderWay' /\ BlockInv' /\ OwnInv'
  BY <1>3 DEF TurnInv
<1>4. OnePlace /\ NoneUnderWay /\ BlockInv /\ OwnInv
  BY DEF TurnInv
<1>5. Taken /\ Taken'
  BY <1>1 DEF Taken
<1>6. ~Requested /\ ~Replied /\ ~Requested'
  BY <1>3, <1>4, <1>5 DEF OnePlace, Requested
<1>7. ~IsReply(f)
  BY <1>2 DEF IsReply, IsSingle, IsFirst
<1>8. ~Replied' /\ \A i \in 1..Len(toTester') : ~IsReply(toTester'[i])
  BY <1>3, <1>6, <1>7 DEF Replied
<1>9. toEcu' = <<>> /\ Len(toEcu') = 0 /\ pc # "send_cf"
  BY <1>1, <1>3, <1>4 DEF BlockInv
<1>10. OnePlace'
  BY <1>6, <1>8, <1>9 DEF OnePlace
<1>11. NoneUnderWay'
  BY <1>3, <1>4, <1>5 DEF NoneUnderWay
<1>12. BlockInv'
  <2>1. b \in Nat
    BY EnvTypes, Sizes DEF Types, BusTypes
  <2>2. ASSUME pc' = "wait_fc", NEW i \in 1..Len(toTester'), IsCTS(toTester'[i])
        PROVE  ecu'.left = Granted(toTester'[i])
    <3>1. i \notin 1..Len(toTester)
      BY <1>1, <1>3, <1>4, <2>2 DEF BlockInv
    <3> QED
      BY <1>1, <1>2, <1>3, <3>1
  <2> QED
    BY <1>1, <1>3, <1>6, <1>9, <2>1, <2>2 DEF BlockInv
<1>13. OwnInv'
  BY <1>1, <1>3, <1>4, <1>5, <1>8, <1>9 DEF OwnInv, NoneUnderWay
<1> QED
  BY <1>10, <1>11, <1>12, <1>13

LEMMA EcuReplyTurn ==
    ASSUME Types, TurnInv, NEW len \in env.respLens, EcuReply(len)
    PROVE  TurnInv'
<1> DEFINE k == ecu.msg[1][2]
           f == ReplyFrame(Response(k, len))
<1>1. /\ ecu.state = "reply" /\ k \in Nat /\ len \in 1..MaxFFLength
      /\ f \in Frames /\ EcuSends(f) /\ ecu'.state \in {"idle", "hold"}
  BY EcuReplyTypes, IdleType
<1>2. /\ f.data # <<>> /\ f.data[1] = <<"rsp", k, 1>> /\ f.pci \in {"SF", "FF"}
  BY <1>1, ReplyFrameLemma
<1> HIDE DEF f
<1>3. /\ Len(toTester) \in Nat /\ Len(toTester') = Len(toTester) + 1
      /\ \A i \in 1..Len(toTester) : toTester'[i] = toTester[i]
      /\ toTester'[Len(toTester) + 1] = f
      /\ \A i \in 1..Len(toTester') :
           i \in 1..Len(toTester) \/ i = Len(toTester) + 1
      /\ UNCHANGED <<toEcu, call, pc, bs, blockCount, out, abandoned, result>>
  BY <1>1, EcuSent
<1> SUFFICES ASSUME ~abandoned
             PROVE  OnePlace' /\ NoneUnderWay' /\ BlockInv' /\ OwnInv'
  BY <1>3 DEF TurnInv
<1>4. OnePlace /\ NoneUnderWay /\ BlockInv /\ OwnInv
  BY DEF TurnInv
<1>5. Taken /\ ~Taken'
  BY <1>1 DEF Taken
<1>6. ~Requested /\ ~Replied /\ ~Requested'
  BY <1>3, <1>4, <1>5 DEF OnePlace, Requested
<1>7. ~IsCTS(f)
  BY <1>2 DEF IsCTS, IsFC
<1>8. \A i \in 1..Len(toTester') :
        IsReply(toTester'[i]) => i = Len(toTester) + 1
  BY <1>3, <1>6 DEF Replied
<1>9. \A i \in 1..Len(toTester') :
        IsCTS(toTester'[i]) => i \in 1..Len(toTester)
  BY <1>3, <1>7
<1>10. OnePlace'
  <2>1. ASSUME NEW i \in 1..Len(toTester'), NEW j \in 1..Len(toTester')
        PROVE  /\ IsReply(toTester'[i]) /\ IsReply(toTester'[j]) => i = j
               /\ IsReply(toTester'[i]) /\ IsCTS(toTester'[j]) => j < i
    BY <1>3, <1>8, <1>9
  <2>2. \A i \in 1..Len(toEcu') : ~Opens(toEcu'[i])
    BY <1>6 DEF Requested
  <2> QED
    BY <1>5, <1>6, <2>1, <2>2 DEF OnePlace
<1>11. NoneUnderWay'
  BY <1>3, <1>4, <1>5 DEF NoneUnderWay
<1>12. BlockInv'
  <2>1. ecu'.state \notin {"grant", "assemble"}
    BY <1>1
  <2>2. pc' = "send_cf" => ~Requested' /\ (bs' # 0 => blockCount' < bs')
    BY <1>3, <1>4, <1>6 DEF BlockInv
  <2> QED
    BY <1>6, <2>1, <2>2 DEF BlockInv
<1>13. OwnInv'
  <2>1. ecu.msg[1] = <<"req", call, 1>>
    BY <1>4, <1>5 DEF OwnInv
  <2>2. k = call
    BY <2>1
  <2>3. \A i \in 1..Len(toTester') : IsReply(toTester'[i]) =>
          toTester'[i].data # <<>> /\ toTester'[i].data[1] = <<"rsp", call', 1>>
    BY <1>2, <1>3, <1>8, <2>2
  <2>4. \A i \in 1..Len(toEcu') : ~Opens(toEcu'[i])
    BY <1>6 DEF Requested
  <2> QED
    BY <1>3, <1>4, <1>5, <2>3, <2>4 DEF OwnInv, NoneUnderWay
<1> QED
  BY <1>10, <1>11, <1>12, <1>13

-----------------------------------------------------------------------------
(* WaitInv is kept.                                                        *)

LEMMA WaitStays ==
    ASSUME WaitInv,
           \/ UNCHANGED <<pc, waits, waitsSeen>>
           \/ pc' \notin {"send_first", "wait_fc"}
    PROVE  WaitInv'
  BY DEF WaitInv

LEMMA WaitStarts ==
    ASSUME waitsSeen' = 0, pc' # "wait_fc" \/ waits' = 0
    PROVE  WaitInv'
  BY Sizes DEF WaitInv

LEMMA RecvFCWaits ==
    ASSUME Types, WaitInv, NEW f, RecvFC(f)
    PROVE  WaitInv'
<1>1. \/ Passive
      \/ pc' = "send_cf"
      \/ /\ waits' = (waits + 1) % U8 /\ waitsSeen' = waitsSeen + 1
         /\ pc' = "done" \/ (~(waits' > MaxWaits) /\ pc' = "wait_fc")
  BY RecvFCTypes
<1>2. CASE Passive \/ pc' \in {"send_cf", "done"}
  BY <1>2, WaitStays DEF Passive
<1>3. CASE /\ waits' = (waits + 1) % U8 /\ waitsSeen' = waitsSeen + 1
           /\ ~(waits' > MaxWaits) /\ pc' = "wait_fc"
  <2>1. pc = "wait_fc" /\ waits \in Nat /\ MaxWaits \in Nat /\ U8 \in Nat
        /\ 1 < U8
    BY Sizes DEF RecvFC, Types, TesterTypes
  <2>2. ASSUME MaxWaits < U8 - 1
        PROVE  waits' = waitsSeen' /\ waits' <= MaxWaits
    <3>1. waits = waitsSeen /\ waits <= MaxWaits
      BY <2>1, <2>2 DEF WaitInv
    <3>2. waits + 1 \in Nat /\ waits + 1 < U8 /\ 0 < U8
      BY <2>1, <2>2, <3>1
    <3>3. waits' = waits + 1
      BY <1>3, <2>1, <3>2, ModLemma
    <3> QED
      BY <1>3, <2>1, <3>1, <3>3
  <2> QED
    BY <1>3, <2>2 DEF WaitInv
<1> QED
  BY <1>1, <1>2, <1>3

-----------------------------------------------------------------------------
(* The invariant.                                                          *)

IInv == Types /\ TurnInv /\ WaitInv

LEMMA InitInv == ASSUME Init PROVE IInv
<1>1. Types
  BY InitTypes
<1>2. toEcu = <<>> /\ toTester = <<>> /\ ecu.state = "idle" /\ pc = "idle"
  BY IdleType DEF Init
<1>3. TurnInv
  <2>1. ~Requested /\ ~Taken /\ ~Replied /\ ~Cleared
    BY <1>2 DEF Requested, Taken, Replied, Cleared
  <2>2. OnePlace
    BY <1>2, <2>1 DEF OnePlace
  <2>3. NoneUnderWay
    BY <2>1 DEF NoneUnderWay
  <2>4. BlockInv
    BY <1>2 DEF BlockInv
  <2>5. OwnInv
    BY <1>2, <2>1 DEF OwnInv
  <2> QED
    BY <2>2, <2>3, <2>4, <2>5 DEF TurnInv
<1>4. WaitInv
  BY <1>2 DEF WaitInv
<1> QED
  BY <1>1, <1>3, <1>4 DEF IInv

\* A step of the tester that takes a frame.
LEMMA TakeInv ==
    ASSUME IInv, NEW f,
           RecvForeign(f) \/ RecvFC(f) \/ RecvFirst(f) \/ RecvCF(f)
    PROVE  IInv'
<1> USE DEF IInv
<1>1. CASE RecvForeign(f)
  <2>1. WaitInv'
    BY <1>1, WaitStays DEF RecvForeign, histVars
  <2> QED
    BY <1>1, <2>1, RecvForeignTypes, RecvForeignTurn
<1>2. CASE RecvFC(f)
  BY <1>2, RecvFCTypes, RecvFCTurn, RecvFCWaits
<1>3. CASE RecvFirst(f)
  <2>1. WaitInv'
    <3>1. Passive \/ pc' \in {"done", "send_fc"}
      BY <1>3, RecvFirstTypes
    <3> QED
      BY <3>1, WaitStays DEF Passive
  <2> QED
    BY <1>3, <2>1, RecvFirstTypes, RecvFirstTurn
<1>4. CASE RecvCF(f)
  <2>1. WaitInv'
    <3>1. pc' \in {"done", "recv_cf"}
      BY <1>4, RecvCFTypes
    <3> QED
      BY <3>1, WaitStays
  <2> QED
    BY <1>4, <2>1, RecvCFTypes, RecvCFTurn
<1> QED
  BY <1>1, <1>2, <1>3, <1>4

LEMMA EcuInv == ASSUME IInv, EcuStep PROVE IInv'
<1> USE DEF IInv
<1>1. WaitInv'
  <2>1. UNCHANGED <<pc, waits, waitsSeen>>
    BY DEF EcuStep, EcuRecvSF, EcuRecvFF, EcuRecvCF, EcuRecvFC, EcuTakes,
           EcuGrant, EcuWait, EcuOverflow, EcuReply, EcuSendCF, EcuSends,
           EcuAbandons, testerVars, histVars
  <2> QED
    BY <2>1, WaitStays
<1>2. CASE \E f \in {toEcu[i] : i \in DOMAIN toEcu} :
             EcuRecvSF(f) \/ EcuRecvFF(f) \/ EcuRecvCF(f) \/ EcuRecvFC(f)
  <2>1. PICK f : EcuRecvSF(f) \/ EcuRecvFF(f) \/ EcuRecvCF(f) \/ EcuRecvFC(f)
    BY <1>2
  <2>2. CASE EcuRecvSF(f)
    BY <1>1, <2>2, EcuRecvSFTypes, EcuRecvSFTurn
  <2>3. CASE EcuRecvFF(f)
    BY <1>1, <2>3, EcuRecvFFTypes, EcuRecvFFTurn
  <2>4. CASE EcuRecvCF(f)
    BY <1>1, <2>4, EcuRecvCFTypes, EcuRecvCFTurn
  <2>5. CASE EcuRecvFC(f)
    BY <1>1, <2>5, EcuRecvFCTypes, EcuRecvFCTurn
  <2> QED
    BY <2>1, <2>2, <2>3, <2>4, <2>5
<1>3. CASE \E b \in env.blocks : EcuGrant(b)
  BY <1>1, <1>3, EcuGrantTypes, EcuGrantTurn
<1>4. CASE EcuWait
  BY <1>1, <1>4, EcuWaitTypes, EcuWaitTurn
<1>5. CASE EcuOverflow
  BY <1>1, <1>5, EcuOverflowTypes, EcuOverflowTurn
<1>6. CASE \E len \in env.respLens : EcuReply(len)
  BY <1>1, <1>6, EcuReplyTypes, EcuReplyTurn
<1>7. CASE EcuSendCF
  BY <1>1, <1>7, EcuSendCFTypes, EcuSendCFTurn
<1>8. CASE EcuAbandons
  BY <1>1, <1>8, EcuAbandonsTypes, EcuAbandonsTurn
<1> QED
  BY <1>2, <1>3, <1>4, <1>5, <1>6, <1>7, <1>8 DEF EcuStep

LEMMA NextInv == ASSUME IInv, [Next]_vars PROVE IInv'
<1>1. CASE UNCHANGED vars
  <2>1. /\ UNCHANGED <<env, busVars, testerVars, waitsSeen, abandoned>>
        /\ UNCHANGED ecu
    BY <1>1 DEF vars, histVars
  <2>2. Types'
    BY <2>1, BusStays, TesterStays, EcuStays DEF IInv, Types
  <2>3. Unmoved /\ EcuUnmoved /\ UNCHANGED toEcu /\ UNCHANGED toTester
    BY <2>1 DEF Unmoved, EcuUnmoved, busVars, testerVars, sendVars, recvVars
  <2>4. TurnInv'
    BY <2>2, <2>3, EcuSame, TesterSame, QuietStep DEF IInv
  <2>5. WaitInv'
    BY <2>1, WaitStays DEF testerVars, IInv
  <2> QED
    BY <2>2, <2>4, <2>5 DEF IInv
<1>2. CASE \E len \in env.reqLens : Start(len)
  <2>1. PICK len \in env.reqLens : Start(len)
    BY <1>2
  <2>2. WaitInv'
    BY <2>1, WaitStarts DEF Start
  <2> QED
    BY <2>1, <2>2, StartTypes, StartTurn DEF IInv
<1>3. CASE SendFirst
  <2>1. WaitInv'
    <3>1. waitsSeen' = waitsSeen /\ pc = "send_first"
      BY <1>3 DEF SendFirst
    <3>2. pc' = "recv_first" \/ waits' = 0
      BY <1>3, SendFirstTypes DEF IInv
    <3> QED
      BY <3>1, <3>2, WaitStarts DEF IInv, WaitInv
  <2> QED
    BY <1>3, <2>1, SendFirstTypes, SendFirstTurn DEF IInv
<1>4. CASE SendCF
  <2>1. WaitInv'
    <3>1. pc' \in {"done", "send_cf", "recv_first"}
      BY <1>4, SendCFTypes DEF IInv
    <3> QED
      BY <3>1, WaitStays DEF IInv
  <2> QED
    BY <1>4, <2>1, SendCFTypes, SendCFTurn DEF IInv
<1>5. CASE SendFC
  <2>1. WaitInv'
    BY <1>5, WaitStays DEF SendFC, IInv
  <2> QED
    BY <1>5, <2>1, SendFCTypes, SendFCTurn DEF IInv
<1>6. CASE Aside
  <2>1. WaitInv'
    BY <1>6, AsideTypes, WaitStays DEF IInv, Passive
  <2> QED
    BY <1>6, <2>1, AsideTypes, AsideTurn DEF IInv
<1>7. CASE \E f \in {toTester[i] : i \in DOMAIN toTester} :
             RecvForeign(f) \/ RecvFC(f) \/ RecvFirst(f) \/ RecvCF(f)
  BY <1>7, TakeInv
<1>8. CASE EcuStep
  BY <1>8, EcuInv
<1>9. CASE Lose
  <2>1. WaitInv'
    BY <1>9, WaitStays DEF Lose, testerVars, histVars, IInv
  <2> QED
    BY <1>9, <2>1, LoseTypes, LoseTurn DEF IInv
<1>10. CASE Disturb
  <2>1. WaitInv'
    BY <1>10, WaitStays DEF Disturb, testerVars, histVars, IInv
  <2> QED
    BY <1>10, <2>1, DisturbTypes, DisturbTurn DEF IInv
<1> QED
  BY <1>1, <1>2, <1>3, <1>4, <1>5, <1>6, <1>7, <1>8, <1>9, <1>10
     DEF Next, TesterStep, Aside

\* The invariant holds in every state of every behaviour.
THEOREM RequestInvariant == Spec => []IInv
<1>1. Init => IInv
  BY InitInv
<1>2. IInv /\ [Next]_vars => IInv'
  BY NextInv
<1> QED
  BY <1>1, <1>2, PTL DEF Spec

\* Every variable keeps its type: offsets stay within the request, sequence
\* numbers within 0..15, the u8 counts within a u8, lengths within the 12 bits
\* of a First Frame, whatever the ECU sends; and a call has a result exactly
\* when it has returned.
THEOREM TypeCorrect == Spec => []TypeOK
<1>1. IInv => TypeOK
  BY DEF IInv, Types, BusTypes, TesterTypes, TypeOK, PCs
<1> QED
  BY <1>1, RequestInvariant, PTL

\* The tester obeys the ECU's Flow Control: until a call has failed on the
\* socket it never sends past the block it was granted, and it puts up with no
\* more Wait frames than Options::max_waits, unless that is 255, the one value
\* that the u8 count of a release build cannot exceed.
THEOREM FlowControlObeyed ==
    MaxWaits < U8 - 1 => (Spec => []FlowControlIsObeyed)
<1> SUFFICES ASSUME MaxWaits < U8 - 1
             PROVE  Spec => []FlowControlIsObeyed
  OBVIOUS
<1>1. IInv => FlowControlIsObeyed
  <2> SUFFICES ASSUME IInv
               PROVE  BlockIsNeverOverrun /\ WaitsAreBounded
    BY DEF FlowControlIsObeyed
  <2>1. BlockIsNeverOverrun
    BY DEF IInv, TurnInv, BlockInv, BlockIsNeverOverrun
  <2>2. WaitsAreBounded
    BY DEF IInv, WaitInv, WaitsAreBounded
  <2> QED
    BY <2>1, <2>2
<1> QED
  BY <1>1, RequestInvariant, PTL

\* Responses do not slip from one call to the next: until a call has failed on
\* the socket, the response a call returns answers that call's request, whatever
\* was lost and whatever else was on the bus.
THEOREM OwnResponses == Spec => []OwnResponseUntilACallFails
<1>1. IInv => OwnResponseUntilACallFails
  <2> SUFFICES ASSUME IInv, result = "ok", ~abandoned
               PROVE  out[1][2] = call
    BY DEF OwnResponseUntilACallFails
  <2>1. pc = "done"
    BY DEF IInv, Types, TesterTypes
  <2>2. out[1] = <<"rsp", call, 1>>
    BY <2>1 DEF IInv, TurnInv, OwnInv
  <2> QED
    BY <2>2
<1> QED
  BY <1>1, RequestInvariant, PTL

=============================================================================
