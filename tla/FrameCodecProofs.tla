-------------------------- MODULE FrameCodecProofs --------------------------
(***************************************************************************)
(* Proofs about FrameCodec, for every width of identifiers, every maximum  *)
(* length, every set of codes, payloads, filters and frames of other nodes.*)
(***************************************************************************)
EXTENDS FrameCodec, TLAPS

USE MasksAssumption, LengthsAssumption, InputsAssumption, NoneAssumption

-----------------------------------------------------------------------------
(* The inductive invariant.                                                *)

\* The identifier a caller wrote, unmasked.
AskedId(a) == [extended |-> a.extended, raw |-> a.id]

\* The frame that was built is the one asked for.
Built(a, f) ==
    /\ a.id \in Words /\ a.data \in Seq(Bytes)
    /\ a.extended \in BOOLEAN /\ a.fd \in BOOLEAN
    /\ a.brs \in BOOLEAN /\ a.esi \in BOOLEAN
    /\ Len(a.data) <= MaxLen(a.fd)
    /\ f.fd = a.fd
    /\ f.data = a.data
    /\ a.fd => f.flags = [brs |-> a.brs, esi |-> a.esi]
    /\ ToWire(f.id) = ToWire(AskedId(a))

\* The frame on the bus is the one asked for, perhaps rounded up in length.
Carried(a, w) ==
    /\ a.id \in Words /\ a.data \in Seq(Bytes)
    /\ a.extended \in BOOLEAN /\ a.fd \in BOOLEAN
    /\ Len(a.data) <= MaxLen(a.fd)
    /\ w.can_id = ToWire(AskedId(a))
    /\ w.area = Area(a.data, MaxLen(a.fd))
    /\ Len(a.data) <= w.len /\ w.len <= MaxLen(a.fd)
    /\ (~a.fd \/ Len(a.data) \in FdLengths) => w.len = Len(a.data)
    /\ a.fd => FlagsFromWire(w.flags) = [brs |-> a.brs, esi |-> a.esi]

\* What each stage of the pipeline knows.
Stages ==
    /\ pc \in {"idle", "send"} => bits = None
    /\ pc \in {"idle", "send", "decode"} => decoded = None
    /\ pc \in {"idle", "send", "decode", "report"} => json = None
    /\ pc = "idle" => asked = None
    /\ pc = "decode" => bits # None /\ KernelPasses(filter, bits.can_id)
    /\ pc \in {"report", "replay"} => decoded # None /\ decoded.kind = "data"
    /\ pc = "replay" => json = FrameJson(decoded)

Decoded ==
    /\ decoded # None => /\ bits # None
                         /\ KernelPasses(filter, bits.can_id)
                         /\ decoded = DecodeWire(bits)
    /\ (pc = "done" /\ bits # None /\ decoded = None) =>
         \/ ~KernelPasses(filter, bits.can_id)
         \/ DecodeWire(bits) = None

Replayed ==
    (pc = "done" /\ json # None) =>
        /\ decoded # None /\ decoded.kind = "data"
        /\ json = FrameJson(decoded)
        /\ replay = BuildFrame(json)

IInv ==
    /\ TypeOK
    /\ Stages
    /\ pc = "send" => Built(asked, frame)
    /\ (asked # None /\ bits # None) => Carried(asked, bits)
    /\ Decoded
    /\ Replayed

-----------------------------------------------------------------------------
(* Identifiers.                                                            *)

\* Packing an identifier sets no flag but EFF, and unpacking it gives it back,
\* masked.
LEMMA ToWireLemma ==
    ASSUME NEW id, id.extended \in BOOLEAN
    PROVE  /\ ToWire(id) \in Words
           /\ RTR \notin ToWire(id)
           /\ ERR \notin ToWire(id)
           /\ FromWire(ToWire(id)) =
                [extended |-> id.extended,
                 raw |-> id.raw \cap (IF id.extended THEN CAN_EFF_MASK
                                      ELSE CAN_SFF_MASK)]
<1>1. /\ EFF \notin CAN_EFF_MASK /\ RTR \notin CAN_EFF_MASK
      /\ ERR \notin CAN_EFF_MASK /\ CAN_SFF_MASK \subseteq CAN_EFF_MASK
      /\ EFF # RTR /\ EFF # ERR
  BY DEF Flags
<1>2. CASE id.extended
  <2>1. ToWire(id) = (id.raw \cap CAN_EFF_MASK) \cup {EFF}
    BY <1>2 DEF ToWire
  <2>2. ToWire(id) \cap CAN_EFF_MASK = id.raw \cap CAN_EFF_MASK
    BY <1>1, <2>1
  <2>3. EFF \in ToWire(id) /\ RTR \notin ToWire(id) /\ ERR \notin ToWire(id)
        /\ ToWire(id) \in Words
    BY <1>1, <2>1 DEF Words, Flags
  <2>4. (EFF \in ToWire(id)) = id.extended
    BY <1>2, <2>3
  <2> QED
    BY <1>2, <2>2, <2>3, <2>4 DEF FromWire
<1>3. CASE ~id.extended
  <2>1. ToWire(id) = id.raw \cap CAN_SFF_MASK
    BY <1>3 DEF ToWire
  <2>2. ToWire(id) \cap CAN_SFF_MASK = id.raw \cap CAN_SFF_MASK
    BY <2>1
  <2>3. EFF \notin ToWire(id) /\ RTR \notin ToWire(id) /\ ERR \notin ToWire(id)
        /\ ToWire(id) \in Words
    BY <1>1, <2>1 DEF Words
  <2>4. (EFF \in ToWire(id)) = id.extended
    BY <1>3, <2>3
  <2> QED
    BY <1>3, <2>2, <2>3, <2>4 DEF FromWire
<1> QED
  BY <1>2, <1>3

LEMMA FromWireType ==
    ASSUME NEW word
    PROVE  FromWire(word) \in CanIds
  BY DEF FromWire, CanIds, Words

\* Masking in the constructor changes nothing of what is packed.
LEMMA CanIdLemma ==
    ASSUME NEW raw \in Words, NEW extended \in BOOLEAN
    PROVE  /\ CanId(raw, extended) \in CanIds
           /\ ToWire(CanId(raw, extended))
                = ToWire([extended |-> extended, raw |-> raw])
  BY DEF CanId, CanIds, Words, ToWire

-----------------------------------------------------------------------------
(* Payloads.                                                               *)

LEMMA MaxLenType ==
    ASSUME NEW fd
    PROVE  MaxLen(fd) \in Nat /\ CAN_MAX_DLEN <= MaxLen(fd)
                              /\ MaxLen(fd) <= CANFD_MAX_DLEN
  BY DEF MaxLen

LEMMA AreaLemma ==
    ASSUME NEW data \in Seq(Bytes), NEW size \in Nat
    PROVE  /\ Area(data, size) \in Seq(Bytes)
           /\ Len(Area(data, size)) = size
           /\ \A i \in 1..size :
                Area(data, size)[i] = IF i <= Len(data) THEN data[i] ELSE 0
<1>1. \A i \in 1..size : Area(data, size)[i] \in Bytes
  BY DEF Area
<1>2. Area(data, size) \in [1..size -> Bytes]
  BY <1>1 DEF Area
<1> QED
  BY <1>2 DEF Area

LEMMA PrefixLemma ==
    ASSUME NEW area \in Seq(Bytes), NEW n \in 0..Len(area)
    PROVE  /\ Prefix(area, n) \in Seq(Bytes)
           /\ Len(Prefix(area, n)) = n
           /\ \A i \in 1..n : Prefix(area, n)[i] = area[i]
  BY DEF Prefix

LEMMA MinLemma ==
    ASSUME NEW a \in Nat, NEW b \in Nat
    PROVE  MinOf(a, b) \in Nat /\ MinOf(a, b) <= a /\ MinOf(a, b) <= b
           /\ (MinOf(a, b) = a \/ MinOf(a, b) = b)
  BY DEF MinOf

\* A request is refused, or its frame is a frame within its kind's maximum.
LEMMA NewFrameLemma ==
    ASSUME NEW id \in CanIds, NEW fd \in BOOLEAN, NEW data \in Seq(Bytes),
           NEW flags \in [brs: BOOLEAN, esi: BOOLEAN]
    PROVE  /\ NewFrame(id, fd, flags, data) \in Frames \cup {None}
           /\ NewFrame(id, fd, flags, data) # None =>
                /\ Len(data) <= MaxLen(fd)
                /\ NewFrame(id, fd, flags, data) =
                     [id |-> id, fd |-> fd,
                      flags |-> IF fd THEN flags ELSE NoFlags, data |-> data]
           /\ Len(data) <= MaxLen(fd) => NewFrame(id, fd, flags, data) # None
<1>1. [id |-> id, fd |-> fd, flags |-> IF fd THEN flags ELSE NoFlags,
       data |-> data] \in Frames
  BY DEF Frames, NoFlags
<1>2. Len(data) \in Nat /\ MaxLen(fd) \in Nat
  BY MaxLenType
<1> QED
  BY <1>1, <1>2 DEF NewFrame

LEMMA BuildFrameLemma ==
    ASSUME NEW a, a.extended \in BOOLEAN, a.fd \in BOOLEAN, a.brs \in BOOLEAN,
           a.data \in Seq(Bytes), BuildFrame(a) # None
    PROVE  /\ BuildFrame(a) \in Frames
           /\ a.id \in Words
           /\ Len(a.data) <= MaxLen(a.fd)
           /\ BuildFrame(a) =
                [id |-> CanId(a.id, a.extended), fd |-> a.fd,
                 flags |-> IF a.fd THEN [brs |-> a.brs, esi |-> FALSE]
                           ELSE NoFlags,
                 data |-> a.data]
<1>1. a.id \in Words
  BY DEF BuildFrame
<1>2. CanId(a.id, a.extended) \in CanIds
  BY <1>1, CanIdLemma
<1>3. [brs |-> a.brs, esi |-> FALSE] \in [brs: BOOLEAN, esi: BOOLEAN]
  OBVIOUS
<1>4. BuildFrame(a) = NewFrame(CanId(a.id, a.extended), a.fd,
                               [brs |-> a.brs, esi |-> FALSE], a.data)
  BY <1>1 DEF BuildFrame
<1> DEFINE id == CanId(a.id, a.extended)
           flags == [brs |-> a.brs, esi |-> FALSE]
<1> HIDE DEF id, flags
<1>5. /\ NewFrame(id, a.fd, flags, a.data) \in Frames \cup {None}
      /\ NewFrame(id, a.fd, flags, a.data) # None =>
           /\ Len(a.data) <= MaxLen(a.fd)
           /\ NewFrame(id, a.fd, flags, a.data) =
                [id |-> id, fd |-> a.fd,
                 flags |-> IF a.fd THEN flags ELSE NoFlags, data |-> a.data]
  <2>1. id \in CanIds /\ flags \in [brs: BOOLEAN, esi: BOOLEAN]
    BY <1>2, <1>3 DEF id, flags
  <2> QED
    BY <2>1, NewFrameLemma
<1> QED
  BY <1>1, <1>4, <1>5 DEF id, flags

LEMMA FlagsLemma ==
    ASSUME NEW f \in [brs: BOOLEAN, esi: BOOLEAN], NEW x \in SUBSET {FDF}
    PROVE  /\ FlagsToWire(f) \cup x \in SUBSET {BRS, ESI, FDF}
           /\ FlagsFromWire(FlagsToWire(f) \cup x) = f
  BY DEF FlagsToWire, FlagsFromWire

LEMMA FromFrameLemma ==
    ASSUME NEW f \in Frames
    PROVE  /\ FromFrame(f) \in Wires
           /\ FromFrame(f) =
                [can_id |-> ToWire(f.id), len |-> Len(f.data),
                 flags |-> IF f.fd THEN FlagsToWire(f.flags) ELSE {},
                 area |-> Area(f.data, MaxLen(f.fd))]
<1>1. ToWire(f.id) \in Words
  BY ToWireLemma DEF Frames, CanIds
<1>2. Area(f.data, MaxLen(f.fd)) \in Seq(Bytes)
  BY MaxLenType, AreaLemma DEF Frames
<1>3. FlagsToWire(f.flags) \in SUBSET {BRS, ESI, FDF}
  BY DEF FlagsToWire
<1>4. Len(f.data) \in Nat
  BY DEF Frames
<1> QED
  BY <1>1, <1>2, <1>3, <1>4 DEF FromFrame, Wires

-----------------------------------------------------------------------------
(* decode_wire.                                                            *)

\* Of any buffer: the payload is a prefix of the buffer's, of the length given
\* and within the kind's maximum.
LEMMA DecodeDataLemma ==
    ASSUME NEW w \in Wires, Len(w.area) >= CAN_MAX_DLEN
    PROVE  LET d == DecodeData(w)
           IN  /\ d \in Received
               /\ d.kind = "data"
               /\ d.id = FromWire(w.can_id)
               /\ d.fd = (Len(w.area) = CANFD_MAX_DLEN)
               /\ d.flags = IF d.fd THEN FlagsFromWire(w.flags) ELSE NoFlags
               /\ d.len = MinOf(MinOf(w.len, MaxLen(d.fd)), Len(w.area))
               /\ d.len <= MaxLen(d.fd)
               /\ Len(d.data) = d.len
               /\ \A i \in 1..d.len : d.data[i] = w.area[i]
<1> DEFINE fd == Len(w.area) = CANFD_MAX_DLEN
           len == MinOf(w.len, MaxLen(fd))
           n == MinOf(len, Len(w.area))
<1>1. w.len \in Nat /\ w.area \in Seq(Bytes) /\ Len(w.area) \in Nat
  BY DEF Wires
<1>2. len \in Nat /\ len <= MaxLen(fd)
  BY <1>1, MaxLenType, MinLemma
<1> HIDE DEF len
<1>3. n \in Nat /\ n <= len /\ n <= Len(w.area) /\ n <= MaxLen(fd)
  <2>1. n \in Nat /\ n <= len /\ n <= Len(w.area)
    BY <1>1, <1>2, MinLemma
  <2> HIDE DEF n, fd
  <2> QED
    BY <2>1, <1>2, MaxLenType
<1>4. /\ Prefix(w.area, n) \in Seq(Bytes)
      /\ Len(Prefix(w.area, n)) = n
      /\ \A i \in 1..n : Prefix(w.area, n)[i] = w.area[i]
  <2> HIDE DEF n
  <2>1. n \in 0..Len(w.area)
    BY <1>1, <1>3
  <2> QED
    BY <1>1, <2>1, PrefixLemma
<1>5. FromWire(w.can_id) \in CanIds
  BY FromWireType
<1>6. DecodeData(w) =
        [kind |-> "data", id |-> FromWire(w.can_id), fd |-> fd,
         flags |-> IF fd THEN FlagsFromWire(w.flags) ELSE NoFlags,
         len |-> n, data |-> Prefix(w.area, n)]
  BY DEF DecodeData, len
<1>7. (IF fd THEN FlagsFromWire(w.flags) ELSE NoFlags)
        \in [brs: BOOLEAN, esi: BOOLEAN]
  BY DEF FlagsFromWire, NoFlags
<1> HIDE DEF n, len, fd
<1>8. DecodeData(w) \in Received
  <2>1. fd \in BOOLEAN
    BY DEF fd
  <2> QED
    BY <2>1, <1>3, <1>4, <1>5, <1>6, <1>7 DEF Received
<1>9. /\ DecodeData(w).kind = "data"
      /\ DecodeData(w).id = FromWire(w.can_id)
      /\ DecodeData(w).fd = fd
      /\ DecodeData(w).flags = IF fd THEN FlagsFromWire(w.flags) ELSE NoFlags
      /\ DecodeData(w).len = n
      /\ DecodeData(w).data = Prefix(w.area, n)
  BY <1>6
<1>10. n = MinOf(MinOf(w.len, MaxLen(fd)), Len(w.area))
  BY DEF n, len
<1> QED
  BY <1>3, <1>4, <1>8, <1>9, <1>10 DEF fd

LEMMA DecodeErrorLemma ==
    ASSUME NEW w \in Wires
    PROVE  LET d == DecodeError(w)
           IN  /\ d \in Received
               /\ d.kind = "error"
               /\ Len(d.data) <= CAN_MAX_DLEN
               /\ \A i \in 1..Len(d.data) : d.data[i] = w.area[i]
<1> DEFINE n == MinOf(MinOf(w.len, CAN_MAX_DLEN), Len(w.area))
<1>1. w.len \in Nat /\ w.area \in Seq(Bytes) /\ Len(w.area) \in Nat
  BY DEF Wires
<1>2. n \in 0..Len(w.area) /\ n <= CAN_MAX_DLEN
  <2> DEFINE m == MinOf(w.len, CAN_MAX_DLEN)
  <2>1. m \in Nat /\ m <= CAN_MAX_DLEN
    BY <1>1, MinLemma
  <2> HIDE DEF m
  <2>2. MinOf(m, Len(w.area)) \in Nat /\ MinOf(m, Len(w.area)) <= m
        /\ MinOf(m, Len(w.area)) <= Len(w.area)
    BY <1>1, <2>1, MinLemma
  <2>3. n = MinOf(m, Len(w.area))
    BY DEF m
  <2> HIDE DEF n
  <2> QED
    BY <1>1, <2>1, <2>2, <2>3
<1> HIDE DEF n
<1>3. /\ Prefix(w.area, n) \in Seq(Bytes)
      /\ Len(Prefix(w.area, n)) = n
      /\ \A i \in 1..n : Prefix(w.area, n)[i] = w.area[i]
  BY <1>1, <1>2, PrefixLemma
<1>4. w.can_id \cap CAN_EFF_MASK \in Words
  BY DEF Words
<1>5. DecodeError(w) = [kind |-> "error", class |-> w.can_id \cap CAN_EFF_MASK,
                        data |-> Prefix(w.area, n)]
  BY DEF DecodeError, n
<1> QED
  BY <1>2, <1>3, <1>4, <1>5 DEF Received

LEMMA DecodeRtrLemma ==
    ASSUME NEW w \in Wires
    PROVE  DecodeRtr(w) \in Received /\ DecodeRtr(w).kind = "rtr"
           /\ DecodeRtr(w).id = FromWire(w.can_id)
  BY FromWireType DEF DecodeRtr, Received, Wires

\* Which of the three a buffer is.
LEMMA DecodeWireLemma ==
    ASSUME NEW w \in Wires
    PROVE  /\ DecodeWire(w) \in Received \cup {None}
           /\ (DecodeWire(w) = None) <=> (Len(w.area) < CAN_MAX_DLEN)
           /\ DecodeWire(w) # None =>
                /\ ERR \in w.can_id => DecodeWire(w) = DecodeError(w)
                /\ (ERR \notin w.can_id /\ RTR \in w.can_id)
                     => DecodeWire(w) = DecodeRtr(w)
                /\ (ERR \notin w.can_id /\ RTR \notin w.can_id)
                     => DecodeWire(w) = DecodeData(w)
<1>1. Len(w.area) \in Nat
  BY DEF Wires
<1>2. CASE Len(w.area) < CAN_MAX_DLEN
  BY <1>2 DEF DecodeWire
<1>3. CASE ~(Len(w.area) < CAN_MAX_DLEN)
  <2>1. Len(w.area) >= CAN_MAX_DLEN
    BY <1>1, <1>3
  <2>2. /\ DecodeData(w) \in Received
        /\ DecodeError(w) \in Received
        /\ DecodeRtr(w) \in Received
    BY <2>1, DecodeDataLemma, DecodeErrorLemma, DecodeRtrLemma
  <2> QED
    BY <1>3, <2>2 DEF DecodeWire
<1> QED
  BY <1>2, <1>3

-----------------------------------------------------------------------------
(* The invariant.                                                          *)

LEMMA InitLemma ==
    Init => IInv
  BY DEF Init, IInv, TypeOK, Stages, Decoded, Replayed

\* The two ways to ask.
LEMMA AskLemma ==
    ASSUME IInv, AskTool \/ AskLibrary
    PROVE  IInv'
<1> USE DEF IInv, TypeOK, Stages, Decoded, Replayed
<1>1. CASE AskTool
  <2>1. PICK id \in Ids, data \in Payloads,
             extended \in BOOLEAN, fd \in BOOLEAN, brs \in BOOLEAN :
          LET a == [id |-> id, extended |-> extended, fd |-> fd, brs |-> brs,
                    esi |-> FALSE, data |-> data]
          IN  /\ asked' = a
              /\ frame' = BuildFrame(a)
              /\ pc' = IF BuildFrame(a) = None THEN "done" ELSE "send"
    BY <1>1 DEF AskTool
  <2> DEFINE a == [id |-> id, extended |-> extended, fd |-> fd, brs |-> brs,
                   esi |-> FALSE, data |-> data]
  <2>2. /\ a.extended \in BOOLEAN /\ a.fd \in BOOLEAN /\ a.brs \in BOOLEAN
        /\ a.esi = FALSE /\ a.data \in Seq(Bytes)
    OBVIOUS
  <2> HIDE DEF a
  <2>3. asked' = a /\ frame' = BuildFrame(a)
        /\ pc' = IF BuildFrame(a) = None THEN "done" ELSE "send"
    BY <2>1 DEF a
  <2>4. UNCHANGED <<filter, bits, decoded, json, replay>> /\ pc = "idle"
    BY <1>1 DEF AskTool
  <2>5. CASE BuildFrame(a) = None
    BY <2>3, <2>4, <2>5
  <2>6. CASE BuildFrame(a) # None
    <3>1. /\ BuildFrame(a) \in Frames
          /\ a.id \in Words
          /\ Len(a.data) <= MaxLen(a.fd)
          /\ BuildFrame(a) =
               [id |-> CanId(a.id, a.extended), fd |-> a.fd,
                flags |-> IF a.fd THEN [brs |-> a.brs, esi |-> FALSE]
                          ELSE NoFlags,
                data |-> a.data]
      BY <2>2, <2>6, BuildFrameLemma
    <3>2. ToWire(CanId(a.id, a.extended)) = ToWire(AskedId(a))
      BY <2>2, <3>1, CanIdLemma DEF AskedId
    <3>3. /\ BuildFrame(a).fd = a.fd
          /\ BuildFrame(a).data = a.data
          /\ BuildFrame(a).id = CanId(a.id, a.extended)
          /\ a.fd => BuildFrame(a).flags = [brs |-> a.brs, esi |-> FALSE]
      BY <3>1
    <3>4. [brs |-> a.brs, esi |-> FALSE] = [brs |-> a.brs, esi |-> a.esi]
      BY <2>2
    <3>5. a.esi \in BOOLEAN
      BY <2>2
    <3>6. Built(a, BuildFrame(a))
      BY <2>2, <3>1, <3>2, <3>3, <3>4, <3>5, Zenon DEF Built
    <3> QED
      BY <2>3, <2>4, <2>6, <3>1, <3>6
  <2> QED
    BY <2>5, <2>6
<1>2. CASE AskLibrary
  <2>1. PICK id \in Ids \cap Words, data \in Payloads, extended \in BOOLEAN,
             fd \in BOOLEAN, brs \in BOOLEAN, esi \in BOOLEAN :
          LET raw == IF extended THEN id ELSE id \cap U16_MASK
              f == NewFrame([extended |-> extended, raw |-> raw], fd,
                            [brs |-> brs, esi |-> esi], data)
          IN  /\ asked' = [id |-> raw, extended |-> extended, fd |-> fd,
                           brs |-> brs, esi |-> esi, data |-> data]
              /\ frame' = f
              /\ pc' = IF f = None THEN "done" ELSE "send"
    BY <1>2 DEF AskLibrary
  <2> DEFINE raw == IF extended THEN id ELSE id \cap U16_MASK
             cid == [extended |-> extended, raw |-> raw]
             flags == [brs |-> brs, esi |-> esi]
             f == NewFrame(cid, fd, flags, data)
             a == [id |-> raw, extended |-> extended, fd |-> fd,
                   brs |-> brs, esi |-> esi, data |-> data]
  <2>2. raw \in Words
    BY DEF Words
  <2>3. cid \in CanIds /\ cid = AskedId(a)
    BY <2>2 DEF CanIds, AskedId
  <2>4. flags \in [brs: BOOLEAN, esi: BOOLEAN] /\ data \in Seq(Bytes)
    OBVIOUS
  <2>5. /\ a.id \in Words /\ a.data = data /\ a.extended \in BOOLEAN
        /\ a.fd = fd /\ a.brs = brs /\ a.esi = esi
    BY <2>2
  <2>6. asked' = a /\ frame' = f /\ pc' = IF f = None THEN "done" ELSE "send"
    BY <2>1
  <2> HIDE DEF raw, cid, flags
  <2>7. /\ f \in Frames \cup {None}
        /\ f # None =>
             /\ Len(data) <= MaxLen(fd)
             /\ f = [id |-> cid, fd |-> fd,
                     flags |-> IF fd THEN flags ELSE NoFlags, data |-> data]
    BY <2>3, <2>4, NewFrameLemma
  <2> HIDE DEF f, a
  <2>8. UNCHANGED <<filter, bits, decoded, json, replay>> /\ pc = "idle"
    BY <1>2 DEF AskLibrary
  <2>9. CASE f = None
    BY <2>6, <2>8, <2>9
  <2>10. CASE f # None
    <3>1. ToWire(f.id) = ToWire(AskedId(a))
      BY <2>3, <2>7, <2>10
    <3>2. fd => f.flags = [brs |-> a.brs, esi |-> a.esi]
      BY <2>5, <2>7, <2>10 DEF flags
    <3>3. Built(a, f)
      BY <2>4, <2>5, <2>7, <2>10, <3>1, <3>2 DEF Built
    <3> QED
      BY <2>6, <2>7, <2>8, <2>10, <3>3
  <2> QED
    BY <2>9, <2>10
<1> QED
  BY <1>1, <1>2

\* Sending: the kernel's struct is filled from the frame and the bus may round
\* its length up.
LEMMA TransmitLemma ==
    ASSUME IInv, Transmit
    PROVE  IInv'
<1>1. frame \in Frames /\ Built(asked, frame) /\ pc = "send"
  BY DEF IInv, TypeOK, Transmit
<1>2. PICK n \in Lengths(frame.fd, Len(frame.data)), x \in SUBSET {FDF} :
        LET w == FromFrame(frame)
        IN  bits' = [can_id |-> w.can_id, len |-> n,
                     flags |-> IF frame.fd THEN w.flags \cup x ELSE w.flags,
                     area |-> w.area]
  BY DEF Transmit
<1>3. Len(frame.data) \in Nat /\ frame.fd \in BOOLEAN /\ MaxLen(frame.fd) \in Nat
      /\ Len(frame.data) <= MaxLen(frame.fd)
  BY <1>1, MaxLenType DEF Frames, Built
<1>4. /\ n \in Nat /\ Len(frame.data) <= n /\ n <= MaxLen(frame.fd)
      /\ (~frame.fd \/ Len(frame.data) \in FdLengths) => n = Len(frame.data)
  <2>1. CASE n = Len(frame.data)
    BY <1>3, <2>1
  <2>2. CASE /\ n \in FdLengths /\ frame.fd /\ n > Len(frame.data)
             /\ \A m \in FdLengths : m >= Len(frame.data) => m >= n
    <3>1. n \in 0..CANFD_MAX_DLEN /\ MaxLen(frame.fd) = CANFD_MAX_DLEN
      BY <2>2 DEF MaxLen
    <3>2. Len(frame.data) \notin FdLengths
      BY <1>3, <2>2, <3>1
    <3>3. n > Len(frame.data)
      BY <2>2
    <3>4. n \in Nat /\ Len(frame.data) <= n /\ n <= MaxLen(frame.fd)
      BY <1>3, <3>1, <3>3
    <3> QED
      BY <2>2, <3>2, <3>4, Zenon
  <2> QED
    BY <2>1, <2>2 DEF Lengths
<1> DEFINE flags == IF frame.fd THEN FlagsToWire(frame.flags) \cup x ELSE {}
<1>5. bits' = [can_id |-> ToWire(frame.id), len |-> n, flags |-> flags,
               area |-> Area(frame.data, MaxLen(frame.fd))]
  <2>1. FromFrame(frame) =
          [can_id |-> ToWire(frame.id), len |-> Len(frame.data),
           flags |-> IF frame.fd THEN FlagsToWire(frame.flags) ELSE {},
           area |-> Area(frame.data, MaxLen(frame.fd))]
    BY <1>1, FromFrameLemma
  <2>2. /\ FromFrame(frame).can_id = ToWire(frame.id)
        /\ FromFrame(frame).area = Area(frame.data, MaxLen(frame.fd))
        /\ FromFrame(frame).flags =
             IF frame.fd THEN FlagsToWire(frame.flags) ELSE {}
    BY <2>1
  <2> QED
    BY <1>2, <2>2
<1>6. /\ flags \in SUBSET {BRS, ESI, FDF}
      /\ frame.fd => FlagsFromWire(flags) = frame.flags
  BY <1>1, FlagsLemma DEF Frames
<1> HIDE DEF flags
<1>7. bits' \in Wires
  BY <1>1, <1>4, <1>5, <1>6, FromFrameLemma DEF Wires
<1>8. Carried(asked, bits')
  BY <1>1, <1>4, <1>5, <1>6 DEF Built, Carried
<1>9. /\ UNCHANGED <<filter, asked, frame, decoded, json, replay>>
      /\ pc' = IF KernelPasses(filter, bits'.can_id) THEN "decode" ELSE "done"
  BY DEF Transmit
<1>10. bits' # None
  BY <1>7, NoneAssumption
<1> QED
  BY <1>7, <1>8, <1>9, <1>10, <1>1
     DEF IInv, TypeOK, Stages, Decoded, Replayed, KernelPasses

LEMMA InjectLemma ==
    ASSUME IInv, Inject
    PROVE  IInv'
<1>1. PICK can_id \in Ids \cap Words, len \in Lens,
           flags \in SUBSET {BRS, ESI, FDF}, size \in 0..CANFD_MAX_DLEN,
           b \in Bytes :
        bits' = [can_id |-> can_id, len |-> len, flags |-> flags,
                 area |-> [i \in 1..size |-> b]]
  BY DEF Inject
<1>2. [i \in 1..size |-> b] \in Seq(Bytes)
  OBVIOUS
<1>3. bits' \in Wires
  BY <1>1, <1>2 DEF Wires
<1>4. bits' # None
  BY <1>3, NoneAssumption
<1>5. /\ UNCHANGED <<filter, asked, frame, decoded, json, replay>>
      /\ pc' = IF KernelPasses(filter, bits'.can_id) THEN "decode" ELSE "done"
      /\ pc = "idle"
  BY DEF Inject
<1> QED
  BY <1>3, <1>4, <1>5
     DEF IInv, TypeOK, Stages, Decoded, Replayed, KernelPasses

LEMMA DecodeLemma ==
    ASSUME IInv, Decode
    PROVE  IInv'
<1>1. bits \in Wires /\ pc = "decode" /\ bits # None
  BY DEF IInv, TypeOK, Stages, Decode
<1>2. decoded' = DecodeWire(bits) /\ decoded' \in Received \cup {None}
  BY <1>1, DecodeWireLemma DEF Decode
<1>3. /\ UNCHANGED <<filter, asked, frame, bits, json, replay>>
      /\ pc' = IF decoded' # None /\ decoded'.kind = "data" THEN "report"
               ELSE "done"
  BY DEF Decode
<1> QED
  BY <1>1, <1>2, <1>3
     DEF IInv, TypeOK, Stages, Decoded, Replayed, KernelPasses

LEMMA ReportLemma ==
    ASSUME IInv, Report
    PROVE  IInv'
  BY DEF IInv, TypeOK, Stages, Decoded, Replayed, KernelPasses, Report

\* The fields of the JSON are those of a request whose frame is not refused.
LEMMA JsonLemma ==
    ASSUME NEW d \in Received, d.kind = "data"
    PROVE  LET j == FrameJson(d)
           IN  /\ j.id = d.id.raw /\ j.id \in Words
               /\ j.extended = d.id.extended /\ j.extended \in BOOLEAN
               /\ j.fd = d.fd /\ j.fd \in BOOLEAN
               /\ j.brs = d.flags.brs /\ j.brs \in BOOLEAN
               /\ j.data = d.data /\ j.data \in Seq(Bytes)
  BY DEF FrameJson, Received, CanIds

LEMMA ReplayLemma ==
    ASSUME IInv, Replay
    PROVE  IInv'
<1>1. /\ decoded # None /\ decoded \in Received /\ decoded.kind = "data"
      /\ json = FrameJson(decoded)
  BY DEF IInv, TypeOK, Stages, Replay
<1>2. replay' = BuildFrame(json)
      /\ UNCHANGED <<filter, asked, frame, bits, decoded, json>>
      /\ pc = "replay" /\ pc' = "done"
  BY DEF Replay
<1>3. BuildFrame(json) \in Frames \cup {None}
  <2>1. json.extended \in BOOLEAN /\ json.fd \in BOOLEAN /\ json.brs \in BOOLEAN
        /\ json.data \in Seq(Bytes)
    BY <1>1, JsonLemma
  <2> QED
    BY <2>1, BuildFrameLemma
<1> QED
  BY <1>1, <1>2, <1>3
     DEF IInv, TypeOK, Stages, Decoded, Replayed, KernelPasses

LEMMA NextLemma ==
    IInv /\ [Next]_vars => IInv'
<1> SUFFICES ASSUME IInv, [Next]_vars
             PROVE  IInv'
  OBVIOUS
<1>1. CASE AskTool \/ AskLibrary
  BY <1>1, AskLemma
<1>2. CASE Transmit
  BY <1>2, TransmitLemma
<1>3. CASE Inject
  BY <1>3, InjectLemma
<1>4. CASE Decode
  BY <1>4, DecodeLemma
<1>5. CASE Report
  BY <1>5, ReportLemma
<1>6. CASE Replay
  BY <1>6, ReplayLemma
<1>7. CASE Again
  BY <1>7 DEF Again, IInv, TypeOK, Stages, Decoded, Replayed
<1>8. CASE UNCHANGED vars
  BY <1>8 DEF vars, IInv, TypeOK, Stages, Decoded, Replayed, KernelPasses
<1> QED
  BY <1>1, <1>2, <1>3, <1>4, <1>5, <1>6, <1>7, <1>8 DEF Next

\* The invariant holds in every state of every behaviour.
THEOREM Invariance == Spec => []IInv
<1>1. Init => IInv
  BY InitLemma
<1>2. IInv /\ [Next]_vars => IInv'
  BY NextLemma
<1> QED
  BY <1>1, <1>2, PTL DEF Spec

-----------------------------------------------------------------------------
(* What follows from it.                                                   *)

\* Every stage hands on a frame, a buffer or a result of its type.
THEOREM TypeCorrect == Spec => []TypeOK
<1>1. IInv => TypeOK
  BY DEF IInv
<1> QED
  BY <1>1, Invariance, PTL

\* What was asked for is what a receiver decodes.
LEMMA RequestLemma ==
    IInv => RequestArrives
<1> SUFFICES ASSUME IInv, asked # None, decoded # None
             PROVE  LET n == Len(asked.data)
                    IN  /\ decoded.kind = "data"
                        /\ decoded.id = Masked(asked)
                        /\ decoded.fd = asked.fd
                        /\ asked.fd => decoded.flags = [brs |-> asked.brs,
                                                        esi |-> asked.esi]
                        /\ Len(decoded.data) >= n
                        /\ (~asked.fd \/ n \in FdLengths) =>
                             Len(decoded.data) = n
                        /\ \A i \in 1..Len(decoded.data) :
                             decoded.data[i] =
                               IF i <= n THEN asked.data[i] ELSE 0
  BY DEF RequestArrives
<1> DEFINE n == Len(asked.data)
           size == MaxLen(asked.fd)
<1>1. bits \in Wires /\ decoded = DecodeWire(bits) /\ Carried(asked, bits)
  BY DEF IInv, TypeOK, Decoded
<1>2. /\ n \in Nat /\ size \in Nat /\ n <= size /\ CAN_MAX_DLEN <= size
      /\ asked.fd \in BOOLEAN /\ asked.extended \in BOOLEAN
  BY <1>1, MaxLenType DEF Carried
<1>3. /\ ERR \notin bits.can_id /\ RTR \notin bits.can_id
      /\ FromWire(bits.can_id) = Masked(asked)
  <2>1. bits.can_id = ToWire(AskedId(asked))
    BY <1>1 DEF Carried
  <2>2. AskedId(asked).extended = asked.extended /\ AskedId(asked).raw = asked.id
    BY DEF AskedId
  <2>3. /\ ERR \notin ToWire(AskedId(asked)) /\ RTR \notin ToWire(AskedId(asked))
        /\ FromWire(ToWire(AskedId(asked))) =
             [extended |-> AskedId(asked).extended,
              raw |-> AskedId(asked).raw
                        \cap (IF AskedId(asked).extended THEN CAN_EFF_MASK
                              ELSE CAN_SFF_MASK)]
    BY <1>2, <2>2, ToWireLemma
  <2>4. FromWire(bits.can_id) =
          [extended |-> asked.extended,
           raw |-> asked.id \cap (IF asked.extended THEN CAN_EFF_MASK
                                  ELSE CAN_SFF_MASK)]
    BY <2>1, <2>2, <2>3
  <2>5. FromWire(bits.can_id) = Masked(asked)
    BY <2>4, Zenon DEF Masked
  <2>6. ERR \notin bits.can_id /\ RTR \notin bits.can_id
    BY <2>1, <2>3, Zenon
  <2> QED
    BY <2>5, <2>6
<1>4. /\ bits.area \in Seq(Bytes) /\ Len(bits.area) = size
      /\ \A i \in 1..size :
           bits.area[i] = IF i <= n THEN asked.data[i] ELSE 0
  <2> DEFINE area == Area(asked.data, size)
  <2>1. bits.area = area /\ asked.data \in Seq(Bytes)
    BY <1>1 DEF Carried
  <2>2. /\ area \in Seq(Bytes) /\ Len(area) = size
        /\ \A i \in 1..size :
             area[i] = IF i <= Len(asked.data) THEN asked.data[i] ELSE 0
    <3> HIDE DEF size
    <3> QED
      BY <1>2, <2>1, AreaLemma
  <2> HIDE DEF area
  <2> QED
    BY <2>1, <2>2
<1>5. (size = CANFD_MAX_DLEN) = asked.fd
  BY <1>2 DEF MaxLen
<1>6. decoded = DecodeData(bits)
  BY <1>1, <1>3, DecodeWireLemma
<1>7. /\ decoded.kind = "data"
      /\ decoded.id = FromWire(bits.can_id)
      /\ decoded.fd = (Len(bits.area) = CANFD_MAX_DLEN)
      /\ decoded.flags = IF decoded.fd THEN FlagsFromWire(bits.flags)
                         ELSE NoFlags
      /\ decoded.len = MinOf(MinOf(bits.len, MaxLen(decoded.fd)),
                             Len(bits.area))
      /\ Len(decoded.data) = decoded.len
      /\ \A i \in 1..decoded.len : decoded.data[i] = bits.area[i]
  BY <1>1, <1>2, <1>4, <1>6, DecodeDataLemma
<1>8. decoded.fd = asked.fd
  BY <1>4, <1>5, <1>7
<1>9. bits.len \in Nat /\ n <= bits.len /\ bits.len <= size
      /\ ((~asked.fd \/ n \in FdLengths) => bits.len = n)
      /\ (asked.fd => FlagsFromWire(bits.flags) =
                        [brs |-> asked.brs, esi |-> asked.esi])
  BY <1>1 DEF Carried, Wires
<1>10. decoded.len = bits.len
  <2>1. MinOf(bits.len, size) = bits.len
    BY <1>2, <1>9 DEF MinOf
  <2> QED
    BY <1>4, <1>7, <1>8, <2>1
<1>11. \A i \in 1..Len(decoded.data) :
         decoded.data[i] = IF i <= n THEN asked.data[i] ELSE 0
  BY <1>2, <1>4, <1>7, <1>9, <1>10
<1>12. asked.fd => decoded.flags = [brs |-> asked.brs, esi |-> asked.esi]
  BY <1>7, <1>8, <1>9, Zenon
<1> QED
  BY <1>3, <1>7, <1>8, <1>9, <1>10, <1>11, <1>12

\* For every request, identifier and payload, what arrives is what was asked.
THEOREM RequestsArrive == Spec => []RequestArrives
  BY RequestLemma, Invariance, PTL

\* Decoding stays inside every buffer and every kind's maximum.
LEMMA FitsLemma ==
    IInv => DecodedFits
<1> SUFFICES ASSUME IInv, decoded # None, decoded.kind \in {"data", "error"}
             PROVE  LET max == IF decoded.kind = "data" THEN MaxLen(decoded.fd)
                               ELSE CAN_MAX_DLEN
                    IN  /\ Len(decoded.data) <= max
                        /\ \A i \in 1..Len(decoded.data) :
                             decoded.data[i] = bits.area[i]
                        /\ decoded.kind = "data" =>
                             /\ decoded.len = Len(decoded.data)
                             /\ ~decoded.fd => decoded.flags = NoFlags
  BY DEF DecodedFits
<1>1. bits \in Wires /\ decoded = DecodeWire(bits)
  BY DEF IInv, TypeOK, Decoded
<1>2. Len(bits.area) >= CAN_MAX_DLEN
  <2>1. Len(bits.area) \in Nat /\ ~(Len(bits.area) < CAN_MAX_DLEN)
    BY <1>1, DecodeWireLemma DEF Wires
  <2> QED
    BY <2>1
<1>3. CASE decoded = DecodeData(bits)
  <2>1. /\ decoded.kind = "data"
        /\ decoded.flags = IF decoded.fd THEN FlagsFromWire(bits.flags)
                           ELSE NoFlags
        /\ decoded.len <= MaxLen(decoded.fd)
        /\ Len(decoded.data) = decoded.len
        /\ \A i \in 1..decoded.len : decoded.data[i] = bits.area[i]
    BY <1>1, <1>2, <1>3, DecodeDataLemma
  <2> QED
    BY <2>1
<1>4. CASE decoded = DecodeError(bits)
  BY <1>1, <1>4, DecodeErrorLemma
<1>5. CASE decoded = DecodeRtr(bits)
  BY <1>1, <1>5, DecodeRtrLemma
<1> QED
  BY <1>1, <1>3, <1>4, <1>5, DecodeWireLemma

\* For every buffer, however long and whatever its length byte says.
THEOREM DecodingFits == Spec => []DecodedFits
  BY FitsLemma, Invariance, PTL

\* A mask with the format bit compares the format and the other bits.
LEMMA SplitLemma ==
    ASSUME NEW word, NEW id, NEW m, EFF \notin m
    PROVE  (word \cap (m \cup {EFF}) = id \cap (m \cup {EFF})) <=>
             ((EFF \in word <=> EFF \in id) /\ word \cap m = id \cap m)
<1>1. ASSUME word \cap (m \cup {EFF}) = id \cap (m \cup {EFF})
      PROVE  (EFF \in word <=> EFF \in id) /\ word \cap m = id \cap m
  <2>1. \A b : (b \in word /\ b \in m \cup {EFF}) <=>
                 (b \in id /\ b \in m \cup {EFF})
    BY <1>1
  <2> QED
    BY <2>1
<1>2. ASSUME EFF \in word <=> EFF \in id, word \cap m = id \cap m
      PROVE  word \cap (m \cup {EFF}) = id \cap (m \cup {EFF})
  <2>1. \A b : (b \in word /\ b \in m) <=> (b \in id /\ b \in m)
    BY <1>2
  <2> QED
    BY <1>2, <2>1
<1> QED
  BY <1>1, <1>2

\* The kernel's test of the packed identifier is the caller's test of the
\* identifier, whatever flag bits a tool's filter has.
LEMMA FilterLemma ==
    ASSUME NEW f \in Filters, f.form # "tool", NEW word \in Words,
           ERR \notin word
    PROVE  KernelPasses(f, word) <=> Given(f, FromWire(word), RTR \in word)
<1>1. /\ f.pattern \in Words /\ f.mask \in Words
      /\ f.form \in {"all", "standard_exact", "extended_exact",
                     "standard_masked", "tool", "tool_extended"}
      /\ {EFF, RTR, ERR} \cap CAN_EFF_MASK = {}
  BY FiltersAssumption DEF Flags
<1>2. CASE f.form = "standard_exact"
  <2> DEFINE id == f.pattern \cap U16_MASK \cap CAN_SFF_MASK
             mask == CAN_SFF_MASK \cup {EFF}
  <2>1. CanFilter(f).id = id /\ CanFilter(f).mask = mask
    BY <1>2 DEF CanFilter
  <2> DEFINE m == CAN_SFF_MASK
  <2>2. EFF \notin m /\ EFF \notin CAN_EFF_MASK /\ mask = m \cup {EFF}
    BY <1>1
  <2>3. EFF \notin id /\ id \cap m = f.pattern \cap CAN_SFF_MASK
    BY <1>1, <2>2
  <2>4. (word \cap mask = id \cap mask) <=>
          ((EFF \in word <=> EFF \in id) /\ word \cap m = id \cap m)
    <3> HIDE DEF m, id, mask
    <3> QED
      BY <2>2, SplitLemma
  <2>5. (word \cap mask = id \cap mask) <=>
          (EFF \notin word /\ word \cap CAN_SFF_MASK = f.pattern \cap CAN_SFF_MASK)
    BY <2>3, <2>4
  <2>7. KernelMask(CanFilter(f)) = mask /\ ERR \notin mask /\ ERR \notin id
    BY <1>1, <2>1 DEF KernelMask
  <2> HIDE DEF id, mask
  <2>6. Given(f, FromWire(word), RTR \in word) <=>
          (EFF \notin word /\ word \cap CAN_SFF_MASK = f.pattern \cap CAN_SFF_MASK)
    BY <1>2 DEF Given, Named, FromWire
  <2> QED
    BY <2>1, <2>5, <2>6, <2>7 DEF KernelPasses, CAN_INV_FILTER
<1>3. CASE f.form = "extended_exact"
  <2> DEFINE id == (f.pattern \cap CAN_EFF_MASK) \cup {EFF}
             mask == CAN_EFF_MASK \cup {EFF}
  <2>1. CanFilter(f).id = id /\ CanFilter(f).mask = mask
    BY <1>3 DEF CanFilter
  <2> DEFINE m == CAN_EFF_MASK
  <2>2. EFF \notin m /\ EFF \notin CAN_EFF_MASK /\ mask = m \cup {EFF}
    BY <1>1
  <2>3. EFF \in id /\ id \cap m = f.pattern \cap CAN_EFF_MASK
    BY <1>1, <2>2
  <2>4. (word \cap mask = id \cap mask) <=>
          ((EFF \in word <=> EFF \in id) /\ word \cap m = id \cap m)
    <3> HIDE DEF m, id, mask
    <3> QED
      BY <2>2, SplitLemma
  <2>5. (word \cap mask = id \cap mask) <=>
          (EFF \in word /\ word \cap CAN_EFF_MASK = f.pattern \cap CAN_EFF_MASK)
    BY <2>3, <2>4
  <2>7. KernelMask(CanFilter(f)) = mask /\ ERR \notin mask /\ ERR \notin id
    BY <1>1, <2>1 DEF KernelMask
  <2> HIDE DEF id, mask
  <2>6. Given(f, FromWire(word), RTR \in word) <=>
          (EFF \in word /\ word \cap CAN_EFF_MASK = f.pattern \cap CAN_EFF_MASK)
    BY <1>3 DEF Given, Named, FromWire
  <2> QED
    BY <2>1, <2>5, <2>6, <2>7 DEF KernelPasses, CAN_INV_FILTER
<1>4. CASE f.form = "standard_masked"
  <2> DEFINE id == f.pattern \cap U16_MASK \cap CAN_SFF_MASK
             mask == (f.mask \cap CAN_SFF_MASK) \cup {EFF}
  <2>1. CanFilter(f).id = id /\ CanFilter(f).mask = mask
    BY <1>4 DEF CanFilter
  <2> DEFINE m == f.mask \cap CAN_SFF_MASK
  <2>2. EFF \notin m /\ EFF \notin CAN_EFF_MASK /\ mask = m \cup {EFF}
    BY <1>1
  <2>3. /\ EFF \notin id
        /\ id \cap m = f.pattern \cap f.mask \cap CAN_SFF_MASK
        /\ word \cap m = word \cap CAN_SFF_MASK \cap f.mask
    BY <1>1, <2>2
  <2>4. (word \cap mask = id \cap mask) <=>
          ((EFF \in word <=> EFF \in id) /\ word \cap m = id \cap m)
    <3> HIDE DEF m, id, mask
    <3> QED
      BY <2>2, SplitLemma
  <2>5. (word \cap mask = id \cap mask) <=>
          (EFF \notin word /\ word \cap CAN_SFF_MASK \cap f.mask
                                          = f.pattern \cap f.mask \cap CAN_SFF_MASK)
    BY <2>3, <2>4
  <2>7. KernelMask(CanFilter(f)) = mask /\ ERR \notin mask /\ ERR \notin id
    BY <1>1, <2>1 DEF KernelMask
  <2> HIDE DEF id, mask
  <2>6. Given(f, FromWire(word), RTR \in word) <=>
          (EFF \notin word /\ word \cap CAN_SFF_MASK \cap f.mask
                                          = f.pattern \cap f.mask \cap CAN_SFF_MASK)
    BY <1>4 DEF Given, Named, FromWire
  <2> QED
    BY <2>1, <2>5, <2>6, <2>7 DEF KernelPasses, CAN_INV_FILTER
<1>5. CASE f.form = "tool_extended"
  <2> DEFINE id == f.pattern \cup {EFF}
             mask == f.mask \cup {EFF}
             m == f.mask \ {EFF}
             extended == FromWire(word)
  <2>1. /\ CanFilter(f).id = id /\ CanFilter(f).mask = mask
        /\ KernelMask(CanFilter(f)) = mask
    BY <1>5 DEF CanFilter, KernelMask
  <2>2. (ERR \in mask <=> ERR \in f.mask) /\ (ERR \in id <=> ERR \in f.pattern)
    OBVIOUS
  <2>3. ASSUME ERR \notin f.mask
        PROVE  (word \cap mask = id \cap mask)
                 <=> Named(f, extended, RTR \in word)
    <3>1. EFF \notin m /\ mask = m \cup {EFF} /\ EFF \in id
      OBVIOUS
    <3>2. (word \cap mask = id \cap mask) <=>
            (EFF \in word /\ word \cap m = id \cap m)
      <4> HIDE DEF m, id, mask
      <4> QED
        BY <3>1, SplitLemma
    <3>3. m \subseteq CAN_EFF_MASK \cup {RTR} /\ RTR \notin CAN_EFF_MASK
      BY <1>1, <2>3 DEF Words, Flags
    <3>4. (word \cap m = id \cap m) <=>
            /\ word \cap CAN_EFF_MASK \cap f.mask
                 = f.pattern \cap f.mask \cap CAN_EFF_MASK
            /\ RTR \in f.mask => (RTR \in word <=> RTR \in f.pattern)
      <4>1. ASSUME word \cap m = id \cap m
            PROVE  /\ word \cap CAN_EFF_MASK \cap f.mask
                        = f.pattern \cap f.mask \cap CAN_EFF_MASK
                   /\ RTR \in f.mask => (RTR \in word <=> RTR \in f.pattern)
        <5>1. \A b \in m : b \in word <=> b \in f.pattern
          BY <4>1
        <5>2. \A b : b \in CAN_EFF_MASK \cap f.mask =>
                       (b \in word <=> b \in f.pattern)
          BY <1>1, <5>1
        <5>3. RTR \in f.mask => RTR \in m
          OBVIOUS
        <5> QED
          BY <5>1, <5>2, <5>3
      <4>2. ASSUME word \cap CAN_EFF_MASK \cap f.mask
                     = f.pattern \cap f.mask \cap CAN_EFF_MASK,
                   RTR \in f.mask => (RTR \in word <=> RTR \in f.pattern)
            PROVE  word \cap m = id \cap m
        <5>1. \A b \in m : b \in CAN_EFF_MASK \/ b = RTR
          BY <3>3
        <5>2. \A b \in m : b \in word <=> b \in f.pattern
          BY <4>2, <5>1
        <5> QED
          BY <5>2
      <4> QED
        BY <4>1, <4>2
    <3>5. /\ extended.extended <=> EFF \in word
          /\ EFF \in word => extended.raw = word \cap CAN_EFF_MASK
      BY DEF FromWire
    <3> HIDE DEF extended, id, mask, m
    <3> QED
      BY <1>5, <3>2, <3>4, <3>5 DEF Named
  <2> HIDE DEF id, mask, extended
  <2> QED
    BY <1>5, <2>1, <2>2, <2>3 DEF KernelPasses, Given, CAN_INV_FILTER, extended
<1>6. CASE f.form = "all"
  BY <1>6 DEF KernelPasses, KernelMask, CanFilter, Given, Named,
     CAN_INV_FILTER
<1> QED
  BY <1>1, <1>2, <1>3, <1>4, <1>5, <1>6

\* What passes is what is named.
LEMMA PassLemma ==
    IInv => FilterPassesWhatItNames
<1> SUFFICES ASSUME IInv, filter.form # "tool"
             PROVE  /\ (decoded # None /\ decoded.kind # "error")
                         => Given(filter, decoded.id, decoded.kind = "rtr")
                    /\ (pc = "done" /\ bits # None /\ decoded = None
                          /\ Len(bits.area) >= CAN_MAX_DLEN)
                         => ~Given(filter, FromWire(bits.can_id),
                                   RTR \in bits.can_id)
  BY DEF FilterPassesWhatItNames
<1>1. filter \in Filters /\ bits \in Wires \cup {None}
  BY DEF IInv, TypeOK
<1>2. ASSUME decoded # None, decoded.kind # "error"
      PROVE  Given(filter, decoded.id, decoded.kind = "rtr")
  <2>1. bits \in Wires /\ decoded = DecodeWire(bits)
        /\ KernelPasses(filter, bits.can_id)
    BY <1>1, <1>2 DEF IInv, Decoded
  <2>2. ERR \notin bits.can_id
    BY <1>2, <2>1, DecodeWireLemma, DecodeErrorLemma
  <2>3. /\ decoded.id = FromWire(bits.can_id)
        /\ decoded.kind = "rtr" <=> RTR \in bits.can_id
    <3>1. Len(bits.area) >= CAN_MAX_DLEN
      <4>1. Len(bits.area) \in Nat /\ ~(Len(bits.area) < CAN_MAX_DLEN)
        BY <1>2, <2>1, DecodeWireLemma DEF Wires
      <4> QED
        BY <4>1
    <3> QED
      BY <1>2, <2>1, <2>2, <3>1, DecodeWireLemma, DecodeDataLemma,
         DecodeRtrLemma
  <2> QED
    BY <1>1, <2>1, <2>2, <2>3, FilterLemma DEF Wires
<1>3. ASSUME pc = "done", bits # None, decoded = None,
             Len(bits.area) >= CAN_MAX_DLEN
      PROVE  ~Given(filter, FromWire(bits.can_id), RTR \in bits.can_id)
  <2>1. bits \in Wires /\ Len(bits.area) \in Nat
    BY <1>1, <1>3 DEF Wires
  <2>2. DecodeWire(bits) # None
    BY <1>3, <2>1, DecodeWireLemma
  <2>3. ~KernelPasses(filter, bits.can_id)
    BY <1>3, <2>2 DEF IInv, Decoded
  <2>4. ERR \notin bits.can_id
    BY <2>3 DEF KernelPasses
  <2> QED
    BY <1>1, <2>1, <2>3, <2>4, FilterLemma DEF Wires
<1> QED
  BY <1>2, <1>3

\* For every u32 as pattern and as mask, what a filter passes.
THEOREM FiltersAreExact == Spec => []FilterPassesWhatItNames
  BY PassLemma, Invariance, PTL

\* A captured frame is accepted as a request, and builds itself again.
LEMMA AgainLemma ==
    IInv => ReplayIsTheFrame
<1> SUFFICES ASSUME IInv, pc = "done", json # None
             PROVE  replay = [id |-> decoded.id, fd |-> decoded.fd,
                              flags |-> [brs |-> decoded.flags.brs, esi |-> FALSE],
                              data |-> decoded.data]
  BY DEF ReplayIsTheFrame
<1>1. /\ decoded # None /\ decoded.kind = "data"
      /\ json = FrameJson(decoded) /\ replay = BuildFrame(json)
      /\ decoded \in Received
      /\ bits \in Wires /\ decoded = DecodeWire(bits)
  BY DEF IInv, TypeOK, Replayed, Decoded
<1>2. /\ json.id = decoded.id.raw /\ json.id \in Words
      /\ json.extended = decoded.id.extended /\ json.extended \in BOOLEAN
      /\ json.fd = decoded.fd /\ json.fd \in BOOLEAN
      /\ json.brs = decoded.flags.brs /\ json.brs \in BOOLEAN
      /\ json.data = decoded.data /\ json.data \in Seq(Bytes)
  BY <1>1, JsonLemma
<1>3. decoded = DecodeData(bits) /\ Len(bits.area) >= CAN_MAX_DLEN
  <2>1. Len(bits.area) \in Nat /\ ~(Len(bits.area) < CAN_MAX_DLEN)
    BY <1>1, DecodeWireLemma DEF Wires
  <2>2. Len(bits.area) >= CAN_MAX_DLEN
    BY <2>1
  <2> QED
    BY <1>1, <2>2, DecodeWireLemma, DecodeErrorLemma, DecodeRtrLemma
<1>4. /\ decoded.id = FromWire(bits.can_id)
      /\ decoded.flags = IF decoded.fd THEN FlagsFromWire(bits.flags)
                         ELSE NoFlags
      /\ decoded.len <= MaxLen(decoded.fd)
      /\ Len(decoded.data) = decoded.len
  BY <1>1, <1>3, DecodeDataLemma
<1>5. CanId(json.id, json.extended) = decoded.id
  <2>1. decoded.id.extended = (EFF \in bits.can_id)
        /\ decoded.id.raw = IF EFF \in bits.can_id
                            THEN bits.can_id \cap CAN_EFF_MASK
                            ELSE bits.can_id \cap CAN_SFF_MASK
    BY <1>4 DEF FromWire
  <2>2. (IF json.extended THEN json.id \cap CAN_EFF_MASK
         ELSE json.id \cap U16_MASK \cap CAN_SFF_MASK) = decoded.id.raw
    BY <1>2, <2>1
  <2>3. decoded.id = [extended |-> decoded.id.extended, raw |-> decoded.id.raw]
    BY <1>4 DEF FromWire
  <2> QED
    BY <1>2, <2>2, <2>3 DEF CanId
<1> DEFINE flags == [brs |-> json.brs, esi |-> FALSE]
<1>6. flags \in [brs: BOOLEAN, esi: BOOLEAN] /\ decoded.id \in CanIds
  BY <1>2, <1>4, FromWireType
<1>7. BuildFrame(json) = NewFrame(decoded.id, json.fd, flags, json.data)
  BY <1>2, <1>5 DEF BuildFrame
<1> HIDE DEF flags
<1>8. BuildFrame(json) =
        [id |-> decoded.id, fd |-> json.fd,
         flags |-> IF json.fd THEN flags ELSE NoFlags, data |-> json.data]
  <2>1. Len(json.data) <= MaxLen(json.fd)
    BY <1>2, <1>4
  <2> QED
    BY <1>2, <1>6, <1>7, <2>1, NewFrameLemma
<1>9. (IF json.fd THEN flags ELSE NoFlags)
        = [brs |-> decoded.flags.brs, esi |-> FALSE]
  BY <1>2, <1>4, Zenon DEF flags, NoFlags
<1> QED
  BY <1>1, <1>2, <1>8, <1>9

\* For every captured frame, whatever node sent it.
THEOREM CapturesCanBeReplayed == Spec => []ReplayIsTheFrame
  BY AgainLemma, Invariance, PTL
=============================================================================
