---------------------------- MODULE MCFrameCodec ----------------------------
(* A small instance of FrameCodec for TLC: one bit of standard identifier, *)
(* a bit that only "as u16" keeps, a bit of extended identifier, and the   *)
(* three flag bits at their real places.                                   *)
EXTENDS FrameCodec

SffMask == {0}
U16Mask == {0, 1}
EffMask == {0, 1, 2}

\* All 32-bit words of this size, and a numeral that needs another bit.
AllIds == SUBSET {0, 1, 2, 29, 30, 31} \cup {{0, 32}}

\* Lengths up to one more than each maximum; three bytes have no code.
FdCodes == {0, 1, 2, 4}
SomePayloads == {<<>>, <<7>>, <<0, 7>>, <<7, 7, 0>>, <<0, 7, 0, 7>>,
                 <<7, 7, 7, 7, 7>>}

Filter(form, pattern, mask) == [form |-> form, pattern |-> pattern, mask |-> mask]

SomeFilters ==
    {Filter("all", {}, {}),
     Filter("standard_exact", {0, 1}, {}), Filter("standard_exact", {1}, {}),
     Filter("extended_exact", {0, 2}, {}),
     Filter("standard_masked", {0, 1}, {0, 1}),
     Filter("standard_masked", {0}, {1}),
     Filter("tool", {0}, {0, 1}),
     Filter("tool_extended", {0, 2}, {0, 1}), Filter("tool_extended", {}, {2}),
     \* FFFFFFFF as a mask, bit 29 in the id, and the bit of remote requests.
     Filter("tool_extended", {0}, {0, 1, 2, 29, 30, 31}),
     Filter("tool_extended", {0, 29}, {0, 1}),
     Filter("tool_extended", {0, 30}, {0, 1, 30})}
=============================================================================
