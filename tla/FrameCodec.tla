----------------------------- MODULE FrameCodec -----------------------------
(***************************************************************************)
(* The way of a frame from a caller to a receiver and back into a request: *)
(* mcanbus/src/frame.rs, the filters of socket.rs and the conversions of   *)
(* socketcan-mcp/src/main.rs.                                              *)
(*                                                                         *)
(* A request is parsed into a Frame, the Frame is packed into the kernel's *)
(* struct, the bus carries it, the kernel's receive filter looks at the    *)
(* packed identifier, decode_wire unpacks it, the JSON shows it, and a     *)
(* client builds the next request from that JSON.  Frames of other nodes   *)
(* enter at the kernel, with flags and lengths this code never writes.     *)
(*                                                                         *)
(* A 32-bit word is the set of its bits, so & and | are \cap and \cup.     *)
(* Hex digits, timestamps and candump's notation are left out.             *)
(***************************************************************************)
EXTENDS Integers, Sequences

CONSTANTS
    CAN_SFF_MASK,   \* the bits of a standard identifier
    U16_MASK,       \* the bits that "as u16" keeps
    CAN_EFF_MASK,   \* the bits of an extended identifier (and CAN_ERR_MASK)
    EFF, RTR, ERR,  \* the flag bits of can_id
    BRS, ESI, FDF,  \* the flag bits of canfd_frame.flags
    CAN_MAX_DLEN,   \* bytes of a classic frame
    CANFD_MAX_DLEN, \* bytes of an FD frame
    FdLengths,      \* the lengths that a data length code stands for
    Bytes,          \* byte values, 0 among them
    Ids,            \* the numbers written for an identifier, some beyond 32 bits
    Payloads,       \* the payloads that callers write
    Filters,        \* the receive filters: [form, pattern, mask]
    Lens,           \* the length bytes of frames of other nodes
    None            \* no frame, no result

Flags == {EFF, RTR, ERR}
Words == SUBSET (CAN_EFF_MASK \cup Flags)

ASSUME MasksAssumption ==
    /\ CAN_SFF_MASK \subseteq U16_MASK
    /\ U16_MASK \subseteq CAN_EFF_MASK
    /\ CAN_EFF_MASK \cap Flags = {}
    /\ EFF # RTR /\ EFF # ERR /\ RTR # ERR
    /\ BRS # ESI /\ BRS # FDF /\ ESI # FDF
ASSUME LengthsAssumption ==
    /\ CAN_MAX_DLEN \in Nat /\ CANFD_MAX_DLEN \in Nat
    /\ CAN_MAX_DLEN < CANFD_MAX_DLEN
    /\ FdLengths \subseteq 0..CANFD_MAX_DLEN
    /\ CANFD_MAX_DLEN \in FdLengths
    /\ Lens \subseteq Nat
ASSUME InputsAssumption ==
    /\ 0 \in Bytes
    /\ Payloads \subseteq Seq(Bytes)
ASSUME FiltersAssumption ==
    Filters \subseteq [form: {"all", "standard_exact", "extended_exact",
                              "standard_masked", "tool", "tool_extended"},
                       pattern: Words, mask: Words]

CanIds == [extended: BOOLEAN, raw: Words]
Frames == [id: CanIds, fd: BOOLEAN, flags: [brs: BOOLEAN, esi: BOOLEAN],
           data: Seq(Bytes)]
Wires == [can_id: Words, len: Nat, flags: SUBSET {BRS, ESI, FDF},
          area: Seq(Bytes)]
Received ==
    [kind: {"data"}, id: CanIds, fd: BOOLEAN,
     flags: [brs: BOOLEAN, esi: BOOLEAN], len: Nat, data: Seq(Bytes)]
    \cup [kind: {"rtr"}, id: CanIds, len: Nat]
    \cup [kind: {"error"}, class: Words, data: Seq(Bytes)]

ASSUME NoneAssumption == None \notin Frames \cup Wires \cup Received

VARIABLES
    pc,       \* what happens next
    filter,   \* the filter of the receiver
    asked,    \* the request that is being sent, or None
    frame,    \* the Frame built from it, or None
    bits,     \* the frame on the bus: can_id, len, flags, payload area, or None
    decoded,  \* what decode_wire returned, or None
    json,     \* the FrameJson of the received frame, or None
    replay    \* the Frame built from that JSON, or None

vars == <<pc, filter, asked, frame, bits, decoded, json, replay>>

-----------------------------------------------------------------------------
(* Identifiers.                                                            *)

\* CanId::standard and CanId::extended, through parse_hex_id.
CanId(raw, extended) ==
    [extended |-> extended,
     raw |-> IF extended THEN raw \cap CAN_EFF_MASK
             ELSE raw \cap U16_MASK \cap CAN_SFF_MASK]

\* MUTANT: an extended identifier is packed as it stands.
ToWireUnmasked(id) ==
    IF id.extended THEN id.raw \cup {EFF} ELSE id.raw \cap CAN_SFF_MASK

\* CanId::to_wire.
ToWire(id) ==
    IF id.extended THEN (id.raw \cap CAN_EFF_MASK) \cup {EFF}
    ELSE id.raw \cap CAN_SFF_MASK

\* CanId::from_wire, and the same lines of decode_wire.
FromWire(word) ==
    [extended |-> EFF \in word,
     raw |-> IF EFF \in word THEN word \cap CAN_EFF_MASK
             ELSE word \cap CAN_SFF_MASK]

-----------------------------------------------------------------------------
(* Frames.                                                                 *)

\* FdFlags::to_wire and FdFlags::from_wire.
FlagsToWire(f) == {b \in {BRS, ESI} : (b = BRS /\ f.brs) \/ (b = ESI /\ f.esi)}
FlagsFromWire(w) == [brs |-> BRS \in w, esi |-> ESI \in w]

NoFlags == [brs |-> FALSE, esi |-> FALSE]

MaxLen(fd) == IF fd THEN CANFD_MAX_DLEN ELSE CAN_MAX_DLEN

\* Frame::new_classic and Frame::new_fd: None is FrameError::DataTooLong.
NewFrame(id, fd, flags, data) ==
    IF Len(data) > MaxLen(fd) THEN None
    ELSE [id |-> id, fd |-> fd, flags |-> IF fd THEN flags ELSE NoFlags,
          data |-> data]

\* MUTANT: the bit rate switch of the request is ignored.
BuildFrameNoBrs(a) ==
    IF a.id \notin Words THEN None
    ELSE NewFrame(CanId(a.id, a.extended), a.fd, NoFlags, a.data)

\* build_frame: a tool has no way to ask for the error state indicator.
BuildFrame(a) ==
    IF a.id \notin Words THEN None
    ELSE NewFrame(CanId(a.id, a.extended), a.fd,
                  [brs |-> a.brs, esi |-> FALSE], a.data)

Area(data, size) ==
    [i \in 1..size |-> IF i <= Len(data) THEN data[i] ELSE 0]

\* WireFrame::from_frame and wire_size: what send writes.
FromFrame(f) ==
    [can_id |-> ToWire(f.id), len |-> Len(f.data),
     flags |-> IF f.fd THEN FlagsToWire(f.flags) ELSE {},
     area |-> Area(f.data, MaxLen(f.fd))]

-----------------------------------------------------------------------------
(* decode_wire.                                                            *)

MinOf(a, b) == IF a <= b THEN a ELSE b

\* What is left of the buffer after the eight bytes of header.
Prefix(area, n) == SubSeq(area, 1, n)

DecodeError(w) ==
    LET n == MinOf(MinOf(w.len, CAN_MAX_DLEN), Len(w.area))
    IN  [kind |-> "error", class |-> w.can_id \cap CAN_EFF_MASK,
         data |-> Prefix(w.area, n)]

DecodeRtr(w) == [kind |-> "rtr", id |-> FromWire(w.can_id), len |-> w.len]

\* MUTANT: the length byte is believed as far as the buffer goes on.
DecodeDataUnclamped(w) ==
    LET fd == Len(w.area) = CANFD_MAX_DLEN
    IN  [kind |-> "data", id |-> FromWire(w.can_id), fd |-> fd,
         flags |-> IF fd THEN FlagsFromWire(w.flags) ELSE NoFlags,
         len |-> MinOf(w.len, MaxLen(fd)),
         data |-> Prefix(w.area, MinOf(w.len, Len(w.area)))]

\* The size of the buffer tells an FD frame; its length is clamped to the
\* maximum of that kind and to the buffer.
DecodeData(w) ==
    LET fd  == Len(w.area) = CANFD_MAX_DLEN
        len == MinOf(w.len, MaxLen(fd))
        n   == MinOf(len, Len(w.area))
    IN  [kind |-> "data", id |-> FromWire(w.can_id), fd |-> fd,
         flags |-> IF fd THEN FlagsFromWire(w.flags) ELSE NoFlags,
         len |-> n, data |-> Prefix(w.area, n)]

\* MUTANT: the remote-request flag is looked at before the error flag.
DecodeWireRtrFirst(w) ==
    IF Len(w.area) < CAN_MAX_DLEN THEN None
    ELSE IF RTR \in w.can_id THEN DecodeRtr(w)
    ELSE IF ERR \in w.can_id THEN DecodeError(w)
    ELSE DecodeData(w)

\* decode_wire: the error flag decides first, then the remote request flag.
DecodeWire(w) ==
    IF Len(w.area) < CAN_MAX_DLEN THEN None
    ELSE IF ERR \in w.can_id THEN DecodeError(w)
    ELSE IF RTR \in w.can_id THEN DecodeRtr(w)
    ELSE DecodeData(w)

-----------------------------------------------------------------------------
(* Filters.                                                                *)

\* The three constructors of CanFilter, and the two forms of build_filters,
\* which take any u32: the flag bits of a tool's numbers are not masked off.
\* (All frames pass "all": the default filter has an empty mask.)
CanFilter(f) ==
    CASE f.form = "standard_exact" ->
           [id |-> f.pattern \cap U16_MASK \cap CAN_SFF_MASK,
            mask |-> CAN_SFF_MASK \cup {EFF}]
      [] f.form = "extended_exact" ->
           [id |-> (f.pattern \cap CAN_EFF_MASK) \cup {EFF},
            mask |-> CAN_EFF_MASK \cup {EFF}]
      [] f.form = "standard_masked" ->
           [id |-> f.pattern \cap U16_MASK \cap CAN_SFF_MASK,
            mask |-> (f.mask \cap CAN_SFF_MASK) \cup {EFF}]
      [] f.form = "tool_extended" ->
           [id |-> f.pattern \cup {EFF}, mask |-> f.mask \cup {EFF}]
      [] f.form = "tool" -> [id |-> f.pattern, mask |-> f.mask]
      [] OTHER -> [id |-> {}, mask |-> {}]

\* linux/can.h: the same bit is CAN_INV_FILTER in the id of a filter.
CAN_INV_FILTER == ERR

\* The kernel's mask: a filter for standard frames compares no other bits.
KernelMask(c) ==
    IF EFF \in c.mask /\ EFF \notin c.id
    THEN c.mask \cap (CAN_SFF_MASK \cup {EFF, RTR}) ELSE c.mask

\* The kernel: error frames are let through by filters of their own, which are
\* the entries with CAN_ERR_FLAG in the mask as well; such an entry passes
\* nothing else.  An entry with CAN_INV_FILTER passes what does not match.
KernelPasses(f, can_id) ==
    LET c == CanFilter(f)
        matches == can_id \cap KernelMask(c) = c.id \cap KernelMask(c)
    IN  \/ ERR \in can_id
        \/ ERR \notin c.mask /\ (matches <=> CAN_INV_FILTER \notin c.id)

-----------------------------------------------------------------------------
Init ==
    /\ pc = "idle"
    /\ filter \in Filters
    /\ asked = None /\ frame = None /\ bits = None
    /\ decoded = None /\ json = None /\ replay = None

\* A tool call: send_frame or send_and_capture, up to build_frame.
AskTool ==
    /\ pc = "idle"
    /\ \E id \in Ids, data \in Payloads, extended, fd, brs \in BOOLEAN :
         LET a == [id |-> id, extended |-> extended, fd |-> fd, brs |-> brs,
                   esi |-> FALSE, data |-> data]
         IN  /\ asked' = a
             /\ frame' = BuildFrame(a)
             /\ pc' = IF BuildFrame(a) = None THEN "done" ELSE "send"
    /\ UNCHANGED <<filter, bits, decoded, json, replay>>

\* A caller of the library: the variants of CanId are public, so the
\* identifier may have bits that CanId::standard and extended would mask.
AskLibrary ==
    /\ pc = "idle"
    /\ \E id \in Ids \cap Words, data \in Payloads,
          extended, fd, brs, esi \in BOOLEAN :
         LET raw == IF extended THEN id ELSE id \cap U16_MASK
             f == NewFrame([extended |-> extended, raw |-> raw], fd,
                           [brs |-> brs, esi |-> esi], data)
         IN  /\ asked' = [id |-> raw, extended |-> extended, fd |-> fd,
                          brs |-> brs, esi |-> esi, data |-> data]
             /\ frame' = f
             /\ pc' = IF f = None THEN "done" ELSE "send"
    /\ UNCHANGED <<filter, bits, decoded, json, replay>>

\* The lengths an FD frame of this length may arrive with: a controller rounds
\* up to a length that has a code, vcan leaves it.
Lengths(fd, len) ==
    {len} \cup {n \in FdLengths : fd /\ n > len
                    /\ \A m \in FdLengths : m >= len => m >= n}

\* send, the bus and the receiver's kernel, which marks an FD frame.
Transmit ==
    /\ pc = "send"
    /\ \E n \in Lengths(frame.fd, Len(frame.data)), fdf \in SUBSET {FDF} :
         LET w == FromFrame(frame)
         IN  bits' = [can_id |-> w.can_id, len |-> n,
                      flags |-> IF frame.fd THEN w.flags \cup fdf ELSE w.flags,
                      area |-> w.area]
    /\ pc' = IF KernelPasses(filter, bits'.can_id) THEN "decode" ELSE "done"
    /\ UNCHANGED <<filter, asked, frame, decoded, json, replay>>

\* A frame that another node or driver made: any flags, any length byte, and a
\* buffer of any size up to that of an FD frame.
Inject ==
    /\ pc = "idle"
    /\ \E can_id \in Ids \cap Words, len \in Lens, flags \in SUBSET {BRS, ESI, FDF},
          size \in 0..CANFD_MAX_DLEN, b \in Bytes :
         bits' = [can_id |-> can_id, len |-> len, flags |-> flags,
                  area |-> [i \in 1..size |-> b]]
    /\ pc' = IF KernelPasses(filter, bits'.can_id) THEN "decode" ELSE "done"
    /\ UNCHANGED <<filter, asked, frame, decoded, json, replay>>

Decode ==
    /\ pc = "decode"
    /\ decoded' = DecodeWire(bits)
    /\ pc' = IF decoded' # None /\ decoded'.kind = "data" THEN "report"
             ELSE "done"
    /\ UNCHANGED <<filter, asked, frame, bits, json, replay>>

\* FrameJson::from_frame.
FrameJson(d) ==
    [id |-> d.id.raw, extended |-> d.id.extended, fd |-> d.fd,
     brs |-> d.flags.brs, esi |-> d.flags.esi, dlc |-> d.len, data |-> d.data]

Report ==
    /\ pc = "report"
    /\ json' = FrameJson(decoded)
    /\ pc' = "replay"
    /\ UNCHANGED <<filter, asked, frame, bits, decoded, replay>>

\* The client sends what it saw: the fields of the JSON are those of the next
\* request, but for esi and dlc, which a request has not.
Replay ==
    /\ pc = "replay"
    /\ replay' = BuildFrame(json)
    /\ pc' = "done"
    /\ UNCHANGED <<filter, asked, frame, bits, decoded, json>>

\* The next frame.
Again ==
    /\ pc = "done"
    /\ pc' = "idle"
    /\ asked' = None /\ frame' = None /\ bits' = None
    /\ decoded' = None /\ json' = None /\ replay' = None
    /\ UNCHANGED filter

Next ==
    \/ AskTool \/ AskLibrary \/ Transmit \/ Inject \/ Decode \/ Report
    \/ Replay \/ Again

Spec == Init /\ [][Next]_vars

-----------------------------------------------------------------------------
(* Properties.                                                             *)

\* The type invariant: what the stages of the pipeline leave behind.
TypeOK ==
    /\ pc \in {"idle", "send", "decode", "report", "replay", "done"}
    /\ filter \in Filters
    /\ frame \in Frames \cup {None}
    /\ replay \in Frames \cup {None}
    /\ pc = "send" => frame # None
    /\ bits \in Wires \cup {None}
    /\ decoded \in Received \cup {None}

\* What a caller gets from masking: "out-of-range bits are silently masked
\* off" (frame.rs:21).
Masked(a) == [extended |-> a.extended,
              raw |-> a.id \cap (IF a.extended THEN CAN_EFF_MASK
                                 ELSE CAN_SFF_MASK)]

\* Whatever a caller asks for arrives, and as a data frame: no identifier a
\* caller can build sets a flag bit, and it arrives with the format and the bits
\* asked for.  An FD frame of a length that has no code arrives longer, with
\* zeroes and nothing left over from an earlier frame behind its payload.
RequestArrives ==
    (asked # None /\ decoded # None) =>
        LET n == Len(asked.data)
        IN  /\ decoded.kind = "data"
            /\ decoded.id = Masked(asked)
            /\ decoded.fd = asked.fd
            /\ asked.fd => decoded.flags = [brs |-> asked.brs, esi |-> asked.esi]
            /\ Len(decoded.data) >= n
            /\ (~asked.fd \/ n \in FdLengths) => Len(decoded.data) = n
            /\ \A i \in 1..Len(decoded.data) :
                 decoded.data[i] = IF i <= n THEN asked.data[i] ELSE 0

\* Whatever is in a buffer, decoding stays inside it and inside the kind's
\* maximum, returns as many bytes as it says and the buffer's own, and gives a
\* classic frame no FD flags ("all bounded by buf.len()", frame.rs:390).
DecodedFits ==
    (decoded # None /\ decoded.kind \in {"data", "error"}) =>
        LET max == IF decoded.kind = "data" THEN MaxLen(decoded.fd)
                   ELSE CAN_MAX_DLEN
        IN  /\ Len(decoded.data) <= max
            /\ \A i \in 1..Len(decoded.data) : decoded.data[i] = bits.area[i]
            /\ decoded.kind = "data" =>
                 /\ decoded.len = Len(decoded.data)
                 /\ ~decoded.fd => decoded.flags = NoFlags

\* The frames a filter was asked for, in the caller's terms: identifiers, and
\* with the bit for it in a tool's mask, remote requests or data frames.
Named(f, id, rtr) ==
    CASE f.form = "standard_exact"  ->
           ~id.extended /\ id.raw = f.pattern \cap CAN_SFF_MASK
      [] f.form = "extended_exact"  ->
           id.extended /\ id.raw = f.pattern \cap CAN_EFF_MASK
      [] f.form = "standard_masked" ->
           ~id.extended /\ id.raw \cap f.mask
                            = f.pattern \cap f.mask \cap CAN_SFF_MASK
      [] f.form = "tool_extended"   ->
           /\ id.extended
           /\ id.raw \cap f.mask = f.pattern \cap f.mask \cap CAN_EFF_MASK
           /\ RTR \in f.mask => (rtr <=> RTR \in f.pattern)
      [] OTHER -> TRUE

\* What a receiver is given.  Bit 29, which is in no identifier, changes what a
\* tool's filter means: in the mask it makes it one for error frames, which
\* names no others, and in the id it turns it round.
Given(f, id, rtr) ==
    IF f.form = "tool_extended"
    THEN ERR \notin f.mask
         /\ (Named(f, id, rtr) <=> CAN_INV_FILTER \notin f.pattern)
    ELSE Named(f, id, rtr)

\* A receiver is given the data frames and remote requests that its filter
\* names, those of one identifier ("match exactly one standard ID",
\* socket.rs:48) or of one pattern, of the right format, and no others, for
\* every u32 that a caller may write, but for the two meanings of bit 29; an
\* error frame, which passes all filters, is never taken for one of them.
FilterPassesWhatItNames ==
    filter.form # "tool" =>
        /\ (decoded # None /\ decoded.kind # "error") =>
             Given(filter, decoded.id, decoded.kind = "rtr")
        /\ (pc = "done" /\ bits # None /\ decoded = None
              /\ Len(bits.area) >= CAN_MAX_DLEN)
           => ~Given(filter, FromWire(bits.can_id), RTR \in bits.can_id)

\* A client can send again what it saw: the request made of a captured frame's
\* JSON is accepted and builds that very frame, but for the error state
\* indicator, whatever node the frame came from.
ReplayIsTheFrame ==
    (pc = "done" /\ json # None) =>
        replay = [id |-> decoded.id, fd |-> decoded.fd,
                  flags |-> [brs |-> decoded.flags.brs, esi |-> FALSE],
                  data |-> decoded.data]
=============================================================================
