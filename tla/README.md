# A verification project for mcanbus and socketcan-mcp

TLA+ models of the concurrent and stateful parts of this repository, TLC
configurations that check them on small instances, and TLAPS proofs about each
of them that hold for every value of their parameters.

## 1. The system

| component | source | state it keeps | operations |
|---|---|---|---|
| fan-out reader | `mcanbus/src/reader.rs` | list of subscribers (mutex), stop flag, per subscriber a channel and two counters; the thread's batch, snapshot and list of dead entries | `subscribe`, `subscribe_bounded`, `shutdown`, drop of a `Reader`; `recv`, `recv_timeout`, `try_recv`, drop of a `Subscriber`; the thread `run_reader` |
| ISO-TP | `mcanbus/src/isotp.rs` | locals of one call: how much is sent, sequence numbers, Wait frames, the response so far, a deadline | `request` |
| CAN_RAW socket | `mcanbus/src/socket.rs` | a descriptor; in the kernel: options, binding, receive queue | `open`, `try_clone`, `into_raw_fd`, `from_raw_fd`, drop, `recv`, `recv_decoded`, `recv_batch`, `send`, `send_batch` |
| MCP server | `socketcan-mcp/src/main.rs` | allowlist and read-only switch; per call: sockets, captured frames, a deadline | `send_frame`, `capture`, `send_and_capture`, `isotp_request`, `list_interfaces`, `iface_state` |
| frame codec | `mcanbus/src/frame.rs` | none | `decode_wire`, `WireFrame::from_frame`, `CanId`, `FdFlags`, constructors |
| interface control | `mcanbus/src/iface.rs` | none; changes the kernel's | `set_up`, `set_down`, `cycle`, `state`, `bitrate`, `list_can_interfaces` |
| constants, crate root, examples, tests | `mcanbus/src/consts.rs`, `lib.rs`, `examples/`, `mcanbus/tests/` | none | |

How they interact. A `Reader` owns a `Socket` and drains it with `recv_batch`;
its thread, its owner and the users of its subscribers share the list, the flag,
the channels and the counters. `isotp::request` borrows a `Socket`, calls
`send` and `recv` on it and shares nothing else, but what one call leaves in the
socket's receive queue is there for the next. Every tool call of the server
opens sockets of its own on a blocking thread; calls meet only on the bus and in
the process's descriptor table. The tools turn their arguments into `Frame`s
and `CanFilter`s, the library packs these for the kernel and unpacks what the
kernel delivers, and the tools turn the result into JSON, from which a client
builds its next request. `Interface` holds a name only; each call looks it up,
and talks to the kernel through a netlink socket of its own or through sysfs.

What is hard here: a fan-out that works on a snapshot while subscriptions come
and go; subscribers culled by raw address; counters updated a step after the
queue; a protocol whose frames do not name the transfer they belong to, over a
bus that loses frames, with sequence numbers that wrap; a deadline that is
looked at in some places only; a sequence of system calls that may each fail
while other threads reuse descriptor numbers; a receive queue that fills before
the send it is meant to capture replies to; two callers that share an ECU whose
frames name neither of them; identifiers and flags in one word; devices that
come, go and swap names between the steps of a call. `PROJECT.json` lists each of them at
its line, with the properties that cover it.

What makes each component correct:

* reader: each subscriber sees every frame from the time it was created, in
  order and once; a slow one loses only its own frames, and they are counted; a
  live one is never unlisted, a dropped one soon is; shutdown returns.
* ISO-TP: a call that succeeds returns exactly one whole response; the ECU never
  assembles a request out of two; blocks and Wait frames are respected; a
  correct ECU is always understood, but for a request longer than the block it
  grants, which the code refuses; a call always returns.
* socket: each descriptor is closed once and by its owner; only wanted frames
  are queued; receives return the data frames, no more and no less; a sender that
  goes on from what `send_batch` reports loses and repeats nothing; a receive
  with a timeout returns.
* server: only allowed interfaces are used; `send_and_capture` misses no reply
  and does not hear itself; captures end at their limits; a call
  whose arguments can be parsed is answered.
* codec: what is asked for arrives; decoding stays in the buffer; a filter passes
  what it names and nothing else; a captured frame can be sent again.
* interface: a cycle restarts a device that bore the name and leaves it up; no
  netlink socket stays open; answers were true during the call; an enumeration
  misses nothing that was there all the time, unless a system call failed.

## 2. The modules

| module | what it is |
|---|---|
| `FanoutReader` | `reader.rs`: one action per shared operation of the thread, the owner and the users |
| `Broadcast` | what the reader promises, without thread, lock, batch or snapshot |
| `FanoutRefinement` | the refinement mapping from the first to the second |
| `FanoutProofs` | theorems about the reader and the refinement |
| `IsoTpRequest` | `isotp.rs` with an ECU, a bus and a clock |
| `IsoTpRequestProofs` | its theorems: types, flow control, whose response it is |
| `IsoTpWholeProofs` | its theorems: requests and responses arrive whole |
| `IsoTpCorrectProofs` | its theorem: a correct ECU is understood, or refused for its block |
| `IsoTpShared` | two callers of `IsoTpRequest` at one ECU, each with its own socket |
| `CanSocket` | `socket.rs` with the kernel's descriptor table and receive queues |
| `CanSocketProofs` | its theorems |
| `McpServer` | the tools of `main.rs` that touch a bus |
| `McpServerProofs` | its theorems |
| `FrameCodec` | `frame.rs`, the filters of `socket.rs` and the conversions of `main.rs` |
| `FrameCodecProofs` | its theorems |
| `Interface` | `iface.rs` with the kernel's devices, and the summaries of `main.rs` |
| `InterfaceProofs` | its theorems |
| `MC...` | instances for TLC |

Definitions marked `MUTANT` are plausible bugs. No specification uses them; each
stands next to the definition it replaces, and putting it in that place makes
the property named for it in `PROJECT.json` fail.

### FanoutReader

`pc` walks through the loop of `run_reader`: `check` (the stop flag), `recv`
(`recv_batch`), `sleep` (after an error), `snap` (the list is cloned), `pick`
and `send` (the two loops), `sent` and `full` (between the channel operation and
the counter), `cull` (`retain`). A frame is the number of its arrival. `got`
holds all that a queue ever accepted and `taken` how many of those were
consumed, so the queue itself is the rest. `addr` is the heap address of a
subscription: `dead` holds addresses, as the code does, and `Subscribe` may
reuse any address that nothing keeps allocated (`Alive`). That is what makes the
cull by raw pointer a question at all. `read`, `base`, `since` and `left` are
history.

The order of the list is left open (`PickSub` takes any of the rest), which
allows more than the code does. `RecvReturn` is guarded by what crossbeam's
channel does: a frame, or a disconnected channel. The `Sender` sits in the
`SubscriberInner` that the `Subscriber` itself holds, and that is why a blocked
`recv` does not see a shutdown (section 5).

### Broadcast

One log and, for each member, the place it joined at, the frames it was given
and the number it missed. `Deliver` gives a member the next frame of the log;
`Miss`, which only a lossy member may take, skips it. Under the mapping the log
is `read`, the lossy members are those with a bounded queue, and a frame is
missed at the moment `try_send` finds the queue full, a step before `dropped`
says so (`Refused`).

### IsoTpRequest

A byte is a triple (side, call, place), so that properties can tell whose byte it
is; the protocol's sizes are constants. `pc` names where `request` is:
`send_first`, `wait_fc`, `send_cf`, `recv_first`, `send_fc`, `recv_cf`. `Poll`,
`GiveUp`, `RecvNone` and `Recv` are `recv_with_id`, with the deadline looked at
before each receive and nowhere else. `late` is the deadline; it may pass at any
moment or, if `env.patient`, only when nobody else has anything left to do. The
ECU is not part of the crate: it follows the protocol as the code expects it, may
give up, and if `env.faulty` answers Overflow and sends malformed frames. Calls
follow one another on one socket, so a call begins with what the last one left.

`env` is one of the environments in `Envs`, chosen at the start: the lengths of
requests and responses, the ECU's blocks, padding and faults, and how many calls,
Wait frames, losses and foreign frames there may be. One run thus covers a
correct ECU, one that grants requests in blocks, a faulty one, a slow one and a
bus that loses a burst.

What the properties do not claim is spelled out in them:

* `TransfersAreDistinct`: after a call that failed in the middle of a transfer, the
  loss of the next First Frame makes two transfers indistinguishable to any
  implementation of the protocol. The premise is coarser than that: once a call has
  failed *and* any frame has been lost, before or after it, nothing is claimed of
  whole messages. Failed calls on a bus that loses nothing, and losses before any
  call has failed, are what `ResponseIsOneWhole` and `RequestArrivesWhole` cover.
* `env.lost < SeqModulus` in `CollectedIsPrefix`: a burst as long as the period of
  the sequence number is invisible until the length is wrong.
* `~abandoned` in `OwnResponseUntilACallFails`, `BlockIsNeverOverrun` and
  `CorrectEcuSucceeds`: they are about calls before which none has failed. A late
  response or Flow Control meant for the failed call may be taken for the next
  one's.
* `BlockTooShort` in `CorrectEcuSucceeds`: a request that needs more Consecutive
  Frames than the ECU's first Flow Control grants is given up after that block as
  `Unsupported` (`isotp.rs:240`), as the documentation says (`isotp.rs:110`). A
  block that ends with the request or later is not refused. The property says
  which of the two it is for every block granted.

### IsoTpShared

The variables of the first caller and of the bus are those of `IsoTpRequest`; the
second caller is a second instance of the module with variables of its own, and
takes `TesterStep` and `DeadlinePasses` from it. What the ECU sends reaches both
sockets (`Overheard`), what either sends reaches the ECU. Each caller opens its
socket for its call, as the tool does, and closes it after.

### CanSocket

`pc` walks through the system calls of `open` in the order of `After`. `guard` is
`FdGuard`. The kernel hands out the lowest free number, as `socket` and `dup` do,
and frees a kernel socket with the last descriptor that refers to it. A frame is
delivered to each bound socket whose options let it pass. `Tune` takes together
the calls whose results the code ignores; the kernel may refuse the receive
timeout and `O_NONBLOCK`, and `open` succeeds without them (`refused`). `DropSocket` and `IntoRawFd` need a
handle that no receive or send borrows, which is what the borrow checker
guarantees. The three receives differ in how much they take and in what they
report. `taken` records each frame as the kernel handed it over, with the call it
was handed to, before the code looks at what it is; what the caller is due of
that is stated by the property alone (`Due`), from what the documentation of the
calls says. `send` and `send_batch` hand over at most `MaxBatch` frames (the code's
64), of which the kernel accepts some (`Transmit`) before the call returns;
`reported` is where a caller goes on from what it is told, `onBus` what the
kernel has accepted.

### McpServer

`pc` walks through a handler: `open`, `open_tx`, `send`, `loop`, `recv`,
`exchange` (`isotp::request`, modelled in its own module), `close`. A frame is an
index in the log of the bus. `Hears` is `CAN_RAW`'s rule that a socket does not
get what was sent through itself; a clone made by `try_clone` is the same
socket. `Fail` is any of the errors mapped by `map_err`. `Attached` are the
interfaces that other nodes reach. The arguments of a request are `good`, `bad`,
which is refused, or `split`: a payload that `parse_hex_bytes` would have to cut
inside a character (`ParsePanics`). There the handler's task ends without an answer
(`panicked`); `capture`, which has no payload, does not have that case.

### FrameCodec

A 32-bit word is the set of its bits, so `&` and `|` are intersection and union,
and the masks and flags are constants that the proofs leave open. `pc` follows
one frame: a tool or a caller of the library asks for it, it is packed and
carried, the receiver's filter looks at it, it is decoded, reported as JSON and
built again from that JSON. Frames of other nodes enter with any flags, any
length byte and any size of buffer. `Lengths` says what a controller does to an
FD frame whose length has no code. An FD frame is told from a classic one by the
size of the buffer, as in the code. A tool's filter may be any 32 bits, as in
`build_filters`. `KernelPasses` is the kernel's rule for them: `CAN_ERR_FLAG` (bit
29) in the mask makes the entry one for error frames, the same bit in the id is
`CAN_INV_FILTER` and turns the match round, and an entry for standard frames
compares their eleven bits only (`KernelMask`).

### Interface

`pc` walks through the system calls of a call: `index`, `socket`, `bind`,
`sendto`, `recv`, `sleep` for netlink, `open_flags` and `read_flags` for `is_up`,
`read_dir`, `exists` and `read_type` for the enumeration. Between any two of them
devices may be plugged in, unplugged, renamed and leave the bus, and other calls
take their steps. The kernel carries out a netlink request when it is sent; the
answer waits for `recv`, which may be interrupted. A netlink answer is a sequence
of attributes, searched as the code searches it, with other kinds of devices
that use the same attribute numbers. `starts` counts how often a device was set
up from down. Any system call may fail (`Fault`). In the enumeration that is
the reading of the directory, before or between its entries, which ends it; and the
look at one entry or the reading of its type file, which skips the entry as if it
were not there. `unread`, history, are the names it was thus told nothing about. The
model takes it that the kernel never gives an index out twice, and that
`/sys/class/net` exists (without it, `iface.rs:168`, the list is empty).

## 3. The checked properties

| run | what it shows | states |
|---|---|---|
| `fanout_safety` | `LiveStaysListed`, `SeesEveryFrameSinceCreation`, `CountersAccountForEveryFrame`, `DroppedIsCulledByNextBatch`, types; the reader implements `Broadcast` (safety) | 1.1 M |
| `fanout_liveness` | members catch up (`Broadcast`'s fairness), frames reach their subscribers, shutdown returns | 0.1 M |
| `isotp_calls` | `ResponseIsOneWhole`, `RequestArrivesWhole`, `OwnResponseUntilACallFails`: whole responses and requests, none mixed, over two calls with a loss, noise, errors and late deadlines; `FlowControlIsObeyed`: blocks not overrun, Wait frames bounded, bursts of losses longer than the sequence period; a correct ECU is understood, or refused exactly for its block; a call returns | 0.9 M |
| `isotp_shared` | two callers at one ECU: each success is one whole response, its own if the calls did not overlap | 0.2 M |
| `socket_ownership` | descriptors: no leak, no double close, no reuse under a live owner | 0.4 M |
| `socket_delivery` | filters hold from the moment of `bind`; receives return what they took, `recv` and `recv_batch` without the remote requests and error frames; nothing sent is lost or repeated; a receive with a timeout returns | 1.7 M |
| `mcp_calls` | allowlist and read-only mode; nothing after the send is missed, no own frame is captured, limits hold; every call is answered, if parsing its arguments does not panic | 0.6 M |
| `frame_codec` | requests arrive as asked, decoding stays in the buffer, filters are exact for any 32 bits, captures can be sent again | 0.6 M |
| `interface` | cycles restart and end up, descriptors are closed, answers were true, enumerations miss only what a failed system call hid | 3.2 M |

Bounds, and why they are enough:

* Reader: two subscriptions, for all properties relate one subscription to the
  list or to one other; two addresses, so that a dropped subscription's address
  is reused; two frames, read as one batch or as two; queues of capacity 0
  (hand-over), 1 (which the second frame overflows) and unbounded; a configured
  batch size of 0 in the liveness run. Subscriptions and addresses are
  interchangeable, so the safety run is reduced by symmetry. The receive buffer
  does not overflow within these bounds; the proofs remove them all, that one
  included.
* ISO-TP: a Single Frame of 2 bytes, a First Frame of 1, Consecutive Frames of
  2, sequence numbers modulo 2. 6 bytes are a First Frame and three Consecutive
  Frames: the sequence wraps, the last frame is padded. Lengths 1, 2, 3, 6, 8 are
  every boundary; 0 and 9 are refused. A correct ECU
  grants everything, or blocks of 1, 2 or 3 frames, which end before, with or after
  requests of 3, 6 and 8 bytes; faulty ones grant blocks as well. Two calls are needed, and enough, for what one leaves to the next; four losses are two periods of the sequence. Two
  callers at once have lengths of one frame and of several.
* Socket: two threads, three descriptors and three kernel sockets allow a number
  to be closed, reused and closed again; where delivery is in question, which
  involves no second thread, one is enough. Three frames of
  any kinds, taken in batches of two into a buffer of three slots, fill the buffer a
  second time and leave gaps anywhere in it; the batch limit of two cuts the buffer
  short. Slices of one and three frames are below and above that limit. The receive
  queue does not overflow within these bounds, but may in the proofs.
* Server: any call at the same time as one that sends or captures, two
  interfaces, three frames, a queue of two, a hard cap of 2 below the limit asked
  for. Both interfaces are on one wire, so that a call hears frames sent on the
  other one.
* Codec: a bit of each part of a word that the masks tell apart (within 11 bits,
  between 11 and 16, between 16 and 29, each flag), in identifiers and in a tool's
  filters, and an identifier beyond 32
  bits; maxima of 2 and 4 bytes with a length between that has no code; payloads
  up to one byte above the larger maximum; every size of buffer. The proofs
  remove these bounds.
* Interface: two calls, so that any two kinds overlap; three indices and two
  names, so that a device can be replaced by one of the same name and two can
  swap; two events and one fault, in any system call of any kind of call. A device is up at first, so that cycles
  that overlap can leave it down. The two threads are interchangeable.

Every bound is a constant of its module (`MaxFrames`, `MaxSent`, `MaxCalls`,
`MaxEvents`, `MaxFaults`) or a field of an environment (`calls`, `waits`, `lost`,
`noise`), and deadlock is not checked where a system may stop: a bus falls
silent, a user stops calling. The codec never stops, and its deadlocks are.

## 4. Fairness

* Reader (`Fairness`): the thread runs and `recv_batch` returns (weak fairness of
  its steps; the receive timeout of the socket is what justifies it, 500 ms by
  default). Strong fairness of `RecvBatch`: a socket that holds frames does not
  answer for ever with errors, interruptions or nothing but remote frames. Users
  owe nothing.
* ISO-TP: the caller's thread runs, `Socket::recv` returns and time passes. The
  ECU and the bus owe nothing. For two callers only safety is checked.
* Socket: a system call of `open` returns; a receive returns if it has a frame or
  if its timeout runs, which it does if the kernel has taken it. Nothing is assumed of frames, signals and errors.
* Server: a handler runs, because its sockets have receive timeouts and
  `isotp::request` returns (`isotp_calls`), and time passes.
* Codec and interface: none; their properties are about safety.

## 5. Where the code and its documentation differ

Shown by a run whose property is what the documentation says, and which TLC
finds violated:

| run | what it shows |
|---|---|
| `fanout_recv_after_shutdown` | `Subscriber::recv` never returns `None` after a shutdown (`reader.rs:193`): the `Subscriber` keeps the channel's sender alive itself |
| `isotp_block_size` | with `block_size` above 0 a long response fails (`isotp.rs:5`, `:72`): only one Flow Control is ever sent |
| `isotp_late_send` | Consecutive Frames are sent after the total timeout (`isotp.rs:78`): with a separation time they may go on for long |

Noticed while modelling, without a run of their own:

* `Subscriber::received` is documented to include the frames still queued
  (`reader.rs:209`), but the counter moves a step after the queue, so it can be
  one less than what was queued or even consumed.
* `Options::max_waits` 255 (`isotp.rs:80`): the `u8` that counts Wait frames is
  never above it, and wraps (or panics in a debug build). `WaitsAreBounded` fails
  with `MaxWaits = U8 - 1`.
* `OpenOpts::recv_timeout` below one microsecond (`socket.rs:103`, `:392`)
  becomes a zero `timeval`, which means no timeout, and the result of setting
  `SO_RCVTIMEO` is ignored (`socket.rs:395`): `ReceiveWithTimeoutReturns` leaves
  such timeouts and a refused one out. On a silent bus such a receive, and the
  shutdown of a reader on such a socket, does not return.
* `parse_hex_bytes` (`main.rs:289`) tests that the length in bytes is even and
  then slices `s[i..i + 2]`: a text such as `aéb` makes that a panic in the handler
  of `send_frame`, `send_and_capture` and `isotp_request`, and the call gets no
  result. `CallIsAnswered` leaves such payloads out.
* Bit 29 of a tool's filter (`main.rs:328`): a mask of `FFFFFFFF`, which asks for one
  identifier exactly, captures no data frame, and an id with that bit set captures
  what does not match. `CanFilter` says "The kernel delivers a frame when
  `frame.can_id & mask == id & mask`" (`socket.rs:32`), which is not so for these.
* `list_can_interfaces` skips an interface that is there when `exists` or the reading
  of its type file fails for any reason (`iface.rs:178`, `:181`), for want of
  descriptors for instance, and returns `Ok`; it is documented to "Enumerate all
  CAN-class interfaces visible" (`iface.rs:158`). `ListIsComplete` names the
  exception.
* `send_and_capture` (`main.rs:546`) returns frames that were on the bus between
  the opening of its receiving socket and its send as responses.
* Two `isotp_request` calls with the same identifiers that overlap may each be
  given the other's response, and their segmented requests may be mixed at the
  ECU, since one Flow Control releases both. The tool (`main.rs:490`) does not
  keep them apart. `EachOkIsOneWholeResponse` holds while the bus loses nothing.
* An identifier above its range is not refused: `parse_hex_id` (`main.rs:271`)
  truncates and masks it, as `frame.rs:21` says, and the frame goes out with
  another identifier. The public variants of `CanId` (`frame.rs:23`) keep their
  high bits, so such an identifier never equals the one received for it.
* A tool's filter that is not `extended` (`main.rs:338`) has no format bit in its
  mask unless the caller writes one, so it also passes extended frames with the same
  bits. The
  property `FilterPassesWhatItNames` leaves this form out.
* An FD frame whose length has no code arrives longer, padded with zeroes;
  `esi` cannot be asked for, and is lost when a captured frame is sent again.
* `Interface::is_up` is `Ok(None)` for an interface that is gone
  (`iface.rs:85`), but one that goes between the opening and the reading of its
  file makes it an error. In a summary an error shows as null.
* A `cycle` that returns an error may leave the interface down (`iface.rs:117`).
* `send_batch` hands over 64 frames at most (`socket.rs:609`). `examples/cangen.rs`
  with a larger `--batch` paces and numbers its frames as if all of them went.
* No send has a timeout, so a full transmit queue may hold a caller up.
* `ReaderInner::kernel_drops` (`reader.rs:84`) is documented to be incremented
  and never is; its accessor says so.

## 6. What is proved

### FanoutReader and Broadcast

For every set of subscriptions, addresses and capacities and all bounds, from the
constants' assumptions in `FanoutReader` alone (the special values are not among
the ordinary ones, bounds are natural numbers):

| theorem | statement |
|---|---|
| `TypeCorrect` | `Spec => []TypeOK` |
| `LiveListed` | `Spec => []LiveStaysListed` |
| `DroppedCulled` | `Spec => []DroppedIsCulledByNextBatch` |
| `CountersAccount` | `Spec => []CountersAccountForEveryFrame` |
| `EveryFrameSeen` | `Spec => []SeesEveryFrameSinceCreation` |
| `Refinement` | `Spec => ImplementsBroadcast` |

The argument. `TypeInv` is `TypeOK` and where each step of the loop finds its
locals. `ListInv` says why a cull by address is safe: an address in `dead` is
that of a dropped subscription that is still in the list or the snapshot, so it
is allocated, so no live subscription has it. It needs that two subscriptions
that are alive have different addresses, which `Subscribe` keeps by its guard.
`DroppedInv` places a dropped subscription in the batch under way: not reached
yet, being served, found dead, or dropped after the last read. The two remaining
safety theorems and the refinement share one more strengthening, `Inv`: its
`BatchInv` says that the batch is the end of `read`, and its `AccountInv` says,
for each listed subscription and each step of the two loops, how far into the
log it has come. A subscription outside the snapshot has its base at the end of
the log; one not reached yet is exactly one batch behind; the one being served
is behind by the frames from `pos` on. Between batches this collapses to the two
properties, and in `send` it says that the frame offered is the next one of the
log, which is what `Deliver` and `Miss` require. Each action has a step of its
own in each proof.

### FrameCodec

For every width of identifiers, maximum length, set of lengths that have a code,
payload, filter and frame of another node, from the assumptions in `FrameCodec`
(the masks are nested and hold no flag bit, the flags differ, a classic frame is
shorter than an FD frame, zero is a byte):

| theorem | statement |
|---|---|
| `TypeCorrect` | `Spec => []TypeOK` (proved only, no run checks it) |
| `RequestsArrive` | `Spec => []RequestArrives` |
| `DecodingFits` | `Spec => []DecodedFits` |
| `FiltersAreExact` | `Spec => []FilterPassesWhatItNames` |
| `CapturesCanBeReplayed` | `Spec => []ReplayIsTheFrame` |

The argument. The five are about the end of the way and not inductive; `IInv`
says what each stage holds. `Built`: the frame packs to the same word as the
identifier asked for, masked or not, and has its payload and flags. `Carried`:
the frame on the bus has that word, the payload followed by zeroes, and a length
between that of the payload and the maximum. `Stages`, `Decoded` and `Replayed`
tie the result, the JSON and the new frame to `bits`. Each action preserves it
by a lemma of its own (`AskLemma`, `TransmitLemma`, ...), and each property
follows from it: `RequestLemma` unpacks the word (`ToWireLemma`: packing sets no
flag but the format, and unpacking gives the masked bits back), `FitsLemma` uses
`DecodeDataLemma` and `DecodeErrorLemma` on how much is copied, `FilterLemma`
goes through the forms of a filter bit by bit, for any 32 bits of a tool's
(`Given` says what the two meanings of bit 29 make of what the filter names), `AgainLemma` needs that what was
decoded is within the maximum of its kind and its identifier already masked.

### CanSocket

For any number of threads, descriptors, kernel sockets and frames, any options,
filters, queue and buffer lengths and any batch limit above zero, from the
assumptions in `CanSocket` (the special values are not among the ordinary ones):

| theorem | statement |
|---|---|
| `TypeCorrect` | `Spec => []TypeOK` |
| `HandlesKeepTheirSockets` | `Spec => []HandleKeepsItsSocket` |
| `DescriptorsOwnedOnce` | `Spec => []EveryDescriptorIsOwnedOnce` |
| `OnlyWantedQueued` | `Spec => []OnlyWantedFramesAreQueued` |
| `ReceivesReturn` | `Spec => []ReceivesReturnWhatTheyTook` |
| `SendsExact` | `Spec => []SendsLoseAndRepeatNothing` |

The argument. The owners of a descriptor are the armed guards, the handles and
the released numbers; `OwnInv` says that each open descriptor has an owner, that
no two owners have the same one, and that the kernel socket behind an owned
number is the one the handle was made for: `socket` and `dup` give out free
numbers only, and only an owner closes. `UseInv` says that a call borrows a
handle, which can therefore not be dropped. `OpenInv` says of a socket being
opened that its guard alone refers to it, that it is not bound, and that it has
the options of the steps taken so far; with it a bound socket has all of its
options (`KernelInv`), and what is queued passes them (`QueueInv`), because
nothing is queued before `bind`. `SendInv` ties what is on the bus to what was
reported and to what the kernel accepted of the slice under way. A receive takes
frames in a loop, which is an operator over a batch: its lemmas are an induction
along the batch, done by the least-number principle over the naturals. The same
principle shows that what a caller is due of two pieces of history is what it is due
of the first and then of the second, so that `ReceivesReturn` compares a receive of
one frame, or of one batch, with the frames the kernel handed over in it.

### McpServer

For any allowlist, interfaces, calls, frames, limits and queue lengths:

| theorem | statement |
|---|---|
| `TypeCorrect` | `Spec => []TypeOK` |
| `AllowlistHolds` | `Spec => []OnlyAllowedInterfacesAreUsed` |
| `RepliesAreKept` | `Spec => []NothingAfterTheSendIsMissed` |
| `OwnFramesAreNotHeard` | `Spec => []OwnFrameIsNoResponse` |
| `LimitsAreKept` | `Spec => []CaptureEndsAtItsLimits` |

The argument. Beside types and the log of the bus (`LogInv`), each call has an
invariant of its own: where each step finds its sockets and its gates passed
(`Stage`), how much it may hold (`Limits`), that what it captured and what is
queued are indices in the log in rising order (`Order`), that between them they
hold every frame it should hear since its send, unless the queue overflowed
(`Complete`), and that its own frame is in neither (`Own`).

### Interface

For any devices, names, indices, attributes and number of calls:

| theorem | statement |
|---|---|
| `TypeCorrect` | `Spec => []TypeOK` |
| `CyclesRestart` | `Spec => []CycleRestarts` |
| `CyclesLeaveUp` | `Spec => []CyclesEndUp` |
| `AnswersAreTrue` | `Spec => []AnswersWereTrue` |
| `ListsAreComplete` | `Spec => []ListIsComplete` |

The argument. `HistoryInv` compares the devices now with those at any moment of
a call under way (`during`): a device that keeps its index has as many starts or
more, and has been started again if it was down and is up (`Newer`); an index is
not given out twice. With it what a call has found out stays true of some moment
of the call (`Found`, `AnswerInv`, `SummaryInv`, `ListInv`; of an enumeration
also that a name that was there all the time is still to be looked at, listed, or
among those a failed system call told it nothing of), and a cycle between
its two requests has seen its device down (`CycleInv`), so that setting it up is
a restart. `EndUpInv` is about all calls together: unless some call failed or
set a device down for good (`marred`), a device that is down has a call that is
still to set it up, or to mar the record (`Obliged`).

### IsoTpRequest

For all sizes of the protocol, options, environments and numbers of calls, from
the assumptions in `IsoTpRequest` (0 < `FFFirst` < `SFMaxLen` <= `CFPayload`,
`SeqModulus` at most `MaxFFLength`, as in the code: 6, 7, 7, 16, 4095):

| theorem | statement |
|---|---|
| `TypeCorrect` | `Spec => []TypeOK` |
| `FlowControlObeyed` | `MaxWaits < U8 - 1 => (Spec => []FlowControlIsObeyed)` |
| `OwnResponses` | `Spec => []OwnResponseUntilACallFails` |
| `RequestsArriveWhole` | `Spec => []RequestArrivesWhole` |
| `ResponsesAreWhole` | `Spec => []ResponseIsOneWhole` |
| `CorrectEcuIsUnderstood` | `BlockSize = 0 => (Spec => []CorrectEcuSucceeds)` |

The premises of the second and of the last are the exceptions of section 5; the
default options satisfy both. The argument. `Types`
adds to `TypeOK` what frames, the ECU's record and the locals at each step look
like. `TurnInv` holds until a call has failed: a request is in one place
(`OnePlace`), on its way to the ECU, being assembled or answered there, or its
response's first frame is on its way back, or it is lost; a Clear To Send is
never behind a response. Before the request is sent and after the response has
begun nothing is under way (`NoneUnderWay`), and whatever is under way is the
current call's (`OwnInv`). `BlockInv` counts a block: the Consecutive Frames in
flight and those still to be sent are at most what the ECU is ready for, so that
none is in flight when the ECU owes Flow Control. Most steps begin and answer
nothing; one lemma, `QuietStep`, covers them: they take frames away, wherever
in a queue, or add one that neither begins a response nor clears to send.
`WaitInv` is about the count of Wait frames.

The two about whole messages are in `IsoTpWholeProofs` and rest on one invariant about a channel
(`Channel`), used once in each direction while `TransfersAreDistinct` holds. A
channel has a queue, a sender and a receiver; a message is a head, a Single or a
First Frame, followed by parts, the Consecutive Frames. The owners of the frames
rise along the queue (`Rising`), a part comes after the parts before it and after
its own head if that is still there (`Follows`), all of a message that is in the
queue lies before the place that its sender has reached (`Sent`) and behind the
one that its receiver has reached (`Awaited`, `Leads`). To this comes

* what the frames carry (`CarryInv`): a head is the beginning of a message that
  was sent, a part is the bytes at its place, with the sequence number of that
  place;
* that a request is sent once and is in one place, in flight, taken up by the
  ECU or answered (`FreshInv`), so that the owners rise;
* what the receiver has (`Collected`): the exact beginning of one message, with
  the sequence number of the place it ends at, or less than the place it waits
  for and no way to complete it: a part with the awaited number is then a whole
  period of numbers further on;
* for responses, the missing parts (`Accounted`, `Announced`): a part that was
  sent, or one that a later one has overtaken, is still in the queue or was lost.
  A gap of `SeqModulus` parts therefore takes as many losses. This is what
  `CollectedIsPrefix` needs with `env.lost < SeqModulus`; that a result is whole
  does not depend on it, because the announced length cannot be reached with a
  gap in between.

`WInv` is all of this with the invariant of `IsoTpRequestProofs`. A loss keeps it:
`TransfersAreDistinct` then implies that no call was abandoned, so `TurnInv` leaves
at most one transfer in the queues.

`CorrectEcuIsUnderstood`, in `IsoTpCorrectProofs`, says that until a call fails none
does but one whose request is longer than the block it was granted, and that every
such one does, as `Unsupported`. `FitInv` counts, with any ECU, the frames sent of a
block: the request is refused there only if more of it is left, and a request that has
been sent was not too long. The other invariant, `OnCourse`, added to `WInv`, follows a
call with a correct ECU that has not been refused: for each step of the tester it says
where the request or the response
is (one of `Opening`, `Granting`, `GrantSent`, `Streaming`, `Completing`, `Asking`,
`Replying`, `ReplySent`, `FirstSent`, `Clearing`, `Responds`, `Responded`), and that
both queues are empty of the ECU's frames between calls (`Quiet`). It rests on three
facts:

* frames of other nodes do not matter: every predicate about the queue to the tester
  looks at the ECU's frames alone (`ShiftedSame`);
* the Wait frames taken and those still queued are together at most as many as the
  ECU sent, so that the count neither exceeds `max_waits` nor wraps;
* the part at the head of the queue is the next one of the response: all parts
  before it were sent, `Accounted` says that those not collected are queued or lost,
  nothing is lost, and places rise along the queue (`NextInOrder`). Its sequence
  number is then the awaited one, because a place has one number only
  (`NumbersUnique`). In the other direction the ECU sees the numbers rise by one in
  the queue itself (`NumbersRise`).

In every course somebody has something left to do (`NeverStuck`), so a timeout that
outlasts every answer does not expire.

Checked by TLC only: liveness (it rests on fairness), everything about two callers at
one ECU (`IsoTpShared`), and the violated runs of section 5.

## 7. What is not modelled, and the plan

Not modelled:

* `Interface::bitrate`, which searches the text that a child process prints: pure
  I/O and text;
* timestamps and buffer sizes: data that no control depends on;
* hexadecimal digits and JSON text: arguments are words and payloads in `FrameCodec`,
  and good, bad or impossible to cut in `McpServer`;
* the layout of netlink attributes in bytes: `nl_find_attr` is modelled on
  well-formed attributes, which is what the kernel sends;
* `decode_st_min` and the length of the pause it gives, which is only time;
* the stdio transport, the JSON library and the async runtime of the server: they
  are not in this repository, and a call runs on a thread of its own;
* `Display` and `Debug`;
* the example programs, which are argument parsing and printing around the calls
  modelled here, the constants and the tests.

Assumed, not modelled: crossbeam's channel, the kernel's descriptor table,
`CAN_RAW` filtering and loopback, rtnetlink and sysfs.

Not proved, and checked by TLC on the instances of section 3: the two properties of
`IsoTpShared`. `Channel` says nothing of who the owners of a message are, so it could
carry them as well; what they need besides is `FreshInv` for two callers.
