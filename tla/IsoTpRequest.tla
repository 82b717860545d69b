---------------------------- MODULE IsoTpRequest ----------------------------
(***************************************************************************)
(* isotp::request of mcanbus/src/isotp.rs: one ISO 15765-2 request and its *)
(* response over a CAN socket, made any number of times on one socket, and *)
(* the ECU it talks to.  The ECU and the bus are not part of the crate and *)
(* are modelled from what the code expects of them; the bus may lose       *)
(* frames, carry frames of other nodes, and the ECU may send malformed     *)
(* ones.                                                                   *)
(*                                                                         *)
(* A byte is a triple: the side it comes from, the call it belongs to and  *)
(* its place (the byte of a Flow Control frame: "bs", the block size, 1).  *)
(* The sizes of the protocol are parameters, so that a transfer of a few   *)
(* bytes already has several Consecutive Frames and wraps its sequence     *)
(* number.                                                                 *)
(***************************************************************************)
EXTENDS Integers, Sequences, SequencesExt

CONSTANTS
    SFMaxLen,       \* SF_MAX_LEN, 7 in the code
    FFFirst,        \* FF_FIRST_PAYLOAD, 6
    CFPayload,      \* CF_PAYLOAD, 7
    MaxFFLength,    \* MAX_FF_LENGTH, 4095
    SeqModulus,     \* sequence numbers are kept modulo 16
    U8,             \* the size of a u8, 256
    BlockSize,      \* Options::block_size
    MaxWaits,       \* Options::max_waits
    Padding,        \* Options::padding, and what the ECU pads with
    FirstCall,      \* calls made before, on other sockets
    Envs            \* the environments that behaviours take place in

(* An environment: the lengths of the payloads of requests and responses,    *)
(* the block sizes the ECU grants, whether it fills its frames up, whether   *)
(* it answers Overflow and sends malformed frames (faulty), whether the      *)
(* timeout outlasts every answer (patient), whether a send or a receive may  *)
(* return an error (fails); and bounds on the calls made, and on the Wait    *)
(* frames, the frames lost and the malformed and foreign frames in them.     *)
ASSUME SizesAssumption ==
    /\ {SFMaxLen, FFFirst, CFPayload, MaxFFLength, SeqModulus, U8} \subseteq Nat
    /\ 0 < FFFirst /\ FFFirst < SFMaxLen /\ SFMaxLen <= CFPayload
    /\ SFMaxLen < MaxFFLength
    /\ 1 < SeqModulus /\ SeqModulus <= MaxFFLength /\ 1 < U8
ASSUME OptionsAssumption ==
    /\ BlockSize \in 0..U8 - 1
    /\ MaxWaits \in 0..U8 - 1
    /\ FirstCall \in Nat
ASSUME EnvironmentAssumption ==
    Envs \subseteq
        [reqLens: SUBSET Nat, respLens: SUBSET (1..MaxFFLength),
         blocks: SUBSET (0..U8 - 1), pads: BOOLEAN, faulty: BOOLEAN,
         patient: BOOLEAN, fails: BOOLEAN, calls: Nat, waits: Nat, lost: Nat,
         noise: Nat]

VARIABLES
    env,        \* the environment, chosen once
    \* the bus and the socket's receive buffer
    toEcu,      \* frames on their way to the ECU
    toTester,   \* frames on their way to, or queued at, the tester's socket
    lost,       \* how many frames were lost
    noise,      \* how many malformed and foreign frames were sent
    \* the tester: the state of request() and of what it calls
    call,       \* the number of the current call
    pc,
    polling,    \* inside socket.recv()
    late,       \* the deadline has passed
    payload,    \* the request
    offset,     \* how much of it has been sent
    seq,        \* sequence number of the next Consecutive Frame sent
    blockCount, \* Consecutive Frames sent
    bs,         \* block size the ECU granted
    waits,      \* Wait frames counted
    total,      \* announced length of the response
    out,        \* the response collected
    expected,   \* sequence number of the next Consecutive Frame received
    result,     \* "none" while the call lasts, then "ok" or its error
    \* the ECU
    ecu,
    \* history, read by no action
    asked,      \* the requests made
    answers,    \* the responses the ECU began to send
    abandoned,  \* an earlier call failed
    waitsSeen,  \* Wait frames taken in this call
    sentLate    \* frames this call sent after its deadline

busVars == <<toEcu, toTester, lost, noise>>
sendVars == <<offset, seq, blockCount, bs>>
recvVars == <<total, out, expected>>
histVars == <<asked, answers, abandoned, waitsSeen, sentLate>>
testerVars == <<call, pc, polling, late, payload, sendVars, waits, recvVars,
                result>>
vars == <<env, busVars, testerVars, ecu, histVars>>

-----------------------------------------------------------------------------
(* Payloads and frames.                                                    *)

Least(a, b) == IF a < b THEN a ELSE b
Request(k, len) == [i \in 1..len |-> <<"req", k, i>>]
Response(k, len) == [i \in 1..len |-> <<"rsp", k, i>>]

\* At most n bytes of p, starting after the first from of them.
Chunk(p, from, n) == SubSeq(p, from + 1, Least(from + n, Len(p)))
Pad(p, n) == p \o [i \in 1..n - Len(p) |-> Padding]

\* A frame: its identifier (the one the tester listens to, or a foreign one),
\* the type nibble of its PCI byte, the number the PCI carries (a length, a
\* sequence number or a flow status) and the bytes after the PCI.
EmptyFrame == [id |-> "ecu", pci |-> "none", n |-> 0, data |-> <<>>]
SF(p) == [id |-> "ecu", pci |-> "SF", n |-> Len(p), data |-> p]
FF(len, p) == [id |-> "ecu", pci |-> "FF", n |-> len, data |-> p]
CF(s, p) == [id |-> "ecu", pci |-> "CF", n |-> s, data |-> p]
FC(status, block) ==
    [id |-> "ecu", pci |-> "FC", n |-> status, data |-> <<<<"bs", block, 1>>>>]

CTS == 0
WAIT == 1
OVERFLOW == 2

\* MUTANT: the high nibble of the length is not sent.
EncodeFFShortLength(len, p) == FF(len % U8, p)

\* What the tester puts on the bus: every frame filled up to eight bytes.
EncodeSF(p) == [SF(Pad(p, SFMaxLen)) EXCEPT !.n = Len(p)]
EncodeFF(len, p) == FF(len, p)
EncodeCF(s, p) == CF(s % SeqModulus, Pad(p, CFPayload))
EncodeFC(status, block) == FC(status, block)

-----------------------------------------------------------------------------
Idle == [state |-> "idle", msg |-> <<>>, total |-> 0, seq |-> 0, block |-> 0,
         left |-> 0, waits |-> 0]

Init ==
    /\ env \in Envs
    /\ toEcu = <<>> /\ toTester = <<>> /\ lost = 0 /\ noise = 0
    /\ call = FirstCall /\ pc = "idle" /\ polling = FALSE /\ late = FALSE
    /\ payload = <<>>
    /\ offset = 0 /\ seq = 0 /\ blockCount = 0 /\ bs = 0 /\ waits = 0
    /\ total = 0 /\ out = <<>> /\ expected = 0 /\ result = "none"
    /\ ecu = Idle
    /\ asked = {} /\ answers = {} /\ abandoned = FALSE /\ waitsSeen = 0
    /\ sentLate = 0

-----------------------------------------------------------------------------
(* The tester.                                                             *)

\* The call returns: Ok(out), or the kind of its error.
Return(r) ==
    /\ pc' = "done"
    /\ result' = r

\* MUTANT: a send is repeated although it succeeded.
SendTwice(f) ==
    /\ toEcu' = toEcu \o <<f, f>>
    /\ sentLate' = IF late THEN sentLate + 1 ELSE sentLate

\* socket.send of one frame.
Send(f) ==
    /\ toEcu' = Append(toEcu, f)
    /\ sentLate' = IF late THEN sentLate + 1 ELSE sentLate

\* request() is called.  An empty or too long payload is refused.
Start(len) ==
    /\ pc \in {"idle", "done"}
    /\ call < FirstCall + env.calls
    /\ call' = call + 1
    /\ payload' = Request(call + 1, len)
    /\ IF len = 0 \/ len > MaxFFLength
       THEN Return("InvalidInput")
       ELSE pc' = "send_first" /\ result' = "none"
    /\ polling' = FALSE
    /\ late' = FALSE
    /\ offset' = 0 /\ seq' = 0 /\ blockCount' = 0 /\ bs' = 0 /\ waits' = 0
    /\ total' = 0 /\ out' = <<>> /\ expected' = 0
    /\ asked' = asked \cup {payload'}
    /\ abandoned' = (abandoned \/ (pc = "done" /\ result # "ok"))
    /\ waitsSeen' = 0
    /\ sentLate' = 0
    /\ UNCHANGED <<env, busVars, ecu, answers>>

\* send_sf, or send_ff and the entry of wait_for_fc.
SendFirst ==
    /\ pc = "send_first"
    /\ IF Len(payload) <= SFMaxLen
       THEN /\ Send(EncodeSF(payload))
            /\ pc' = "recv_first"
            /\ UNCHANGED waits
       ELSE /\ Send(EncodeFF(Len(payload), Chunk(payload, 0, FFFirst)))
            /\ pc' = "wait_fc"
            /\ waits' = 0
    /\ UNCHANGED <<env, toTester, lost, noise, call, polling, late, payload,
                   sendVars, recvVars, result, ecu, asked, answers, abandoned,
                   waitsSeen>>

\* MUTANT: the sequence number is not masked.
NextSeqUnmasked(n) == n + 1

\* MUTANT: it wraps to the 1 it started from.
NextSeqFromOne(n) == IF n = SeqModulus - 1 THEN 1 ELSE n + 1

\* The sequence number after n, sent or expected.
NextSeq(n) == (n + 1) % SeqModulus

\* MUTANT: the block is taken to be one frame longer.
BlockDoneLate ==
    bs # 0 /\ blockCount' > bs /\ offset' < Len(payload)

\* The block the ECU granted is used up before the request is sent.
BlockDone ==
    bs # 0 /\ blockCount' = bs /\ offset' < Len(payload)

\* One round of send_consecutive_frames.  The deadline is not looked at; the
\* pause of st_min between rounds is where it may pass.
SendCF ==
    /\ pc = "send_cf"
    /\ Send(EncodeCF(seq, Chunk(payload, offset, CFPayload)))
    /\ offset' = Least(offset + CFPayload, Len(payload))
    /\ seq' = NextSeq(seq)
    /\ blockCount' = Least(blockCount + 1, U8 - 1)
    /\ IF BlockDone
       THEN Return("Unsupported")
       ELSE /\ pc' = IF offset' < Len(payload) THEN "send_cf" ELSE "recv_first"
            /\ UNCHANGED result
    /\ UNCHANGED <<env, toTester, lost, noise, call, polling, late, payload,
                   bs, waits, recvVars, ecu, asked, answers, abandoned,
                   waitsSeen>>

\* send_fc, between the First Frame and the Consecutive Frames of a response.
SendFC ==
    /\ pc = "send_fc"
    /\ Send(EncodeFC(CTS, BlockSize))
    /\ expected' = 1
    /\ pc' = "recv_cf"
    /\ UNCHANGED <<env, toTester, lost, noise, call, polling, late, payload,
                   sendVars, waits, total, out, result, ecu, asked, answers,
                   abandoned, waitsSeen>>

Receiving == pc \in {"wait_fc", "recv_first", "recv_cf"}

\* recv_with_id: the deadline is checked before each socket.recv ...
Poll ==
    /\ Receiving
    /\ ~polling
    /\ ~late
    /\ polling' = TRUE
    /\ UNCHANGED <<env, busVars, call, pc, late, payload, sendVars, waits,
                   recvVars, result, ecu, histVars>>

\* MUTANT: the deadline is renewed instead.
GiveUpRenews ==
    /\ Receiving
    /\ ~polling
    /\ late
    /\ late' = FALSE
    /\ UNCHANGED <<env, busVars, call, pc, polling, payload, sendVars, waits,
                   recvVars, result, ecu, histVars>>

\* ... and the call fails once it has passed.
GiveUp ==
    /\ Receiving
    /\ ~polling
    /\ late
    /\ Return("TimedOut")
    /\ UNCHANGED <<env, busVars, call, polling, late, payload, sendVars, waits,
                   recvVars, ecu, histVars>>

\* socket.recv returns without a frame.
RecvNone ==
    /\ polling
    /\ polling' = FALSE
    /\ UNCHANGED <<env, busVars, call, pc, late, payload, sendVars, waits,
                   recvVars, result, ecu, histVars>>

\* socket.recv returns the first frame queued.
Recv(f) ==
    /\ polling
    /\ toTester # <<>>
    /\ f = Head(toTester)
    /\ toTester' = Tail(toTester)
    /\ polling' = FALSE

\* A frame of another node is skipped.
RecvForeign(f) ==
    /\ Recv(f)
    /\ f.id # "ecu"
    /\ UNCHANGED <<env, toEcu, lost, noise, call, pc, late, payload, sendVars,
                   waits, recvVars, result, ecu, histVars>>

\* MUTANT: one Wait too many is tolerated.
TooManyWaitsLate(w) == w > MaxWaits + 1

\* More Wait frames than the options tolerate.
TooManyWaits(w) == w > MaxWaits

\* A Flow Control frame with this flow status.
IsFC(f, status) == f.pci = "FC" /\ f.n = status

\* wait_for_fc takes a frame: an empty one is skipped, Clear To Send starts
\* the Consecutive Frames, a Wait is counted in a u8 (which wraps, in a
\* release build), anything else fails the call.
RecvFC(f) ==
    /\ pc = "wait_fc"
    /\ Recv(f)
    /\ f.id = "ecu"
    /\ \/ /\ f.pci = "none"
          /\ UNCHANGED <<pc, result, sendVars, waits, waitsSeen>>
       \/ /\ IsFC(f, CTS)
          /\ pc' = "send_cf"
          /\ bs' = IF f.data = <<>> THEN 0 ELSE f.data[1][2]
          /\ offset' = FFFirst
          /\ seq' = 1
          /\ blockCount' = 0
          /\ UNCHANGED <<result, waits, waitsSeen>>
       \/ /\ IsFC(f, WAIT)
          /\ waits' = (waits + 1) % U8
          /\ waitsSeen' = waitsSeen + 1
          /\ IF TooManyWaits(waits')
             THEN Return("TimedOut")
             ELSE UNCHANGED <<pc, result>>
          /\ UNCHANGED sendVars
       \/ /\ IsFC(f, OVERFLOW)
          /\ Return("Other")
          /\ UNCHANGED <<sendVars, waits, waitsSeen>>
       \/ /\ f.pci # "none"
          /\ \A status \in {CTS, WAIT, OVERFLOW} : ~IsFC(f, status)
          /\ Return("InvalidData")
          /\ UNCHANGED <<sendVars, waits, waitsSeen>>
    /\ UNCHANGED <<env, toEcu, lost, noise, call, late, payload, recvVars, ecu,
                   asked, answers, abandoned, sentLate>>

\* A Single Frame that holds the bytes it announces, and a First Frame of more
\* than a Single Frame holds.
IsSingle(f) == f.pci = "SF" /\ f.n \in 1..Least(SFMaxLen, Len(f.data))
IsFirst(f) == f.pci = "FF" /\ f.n > SFMaxLen

\* receive_response takes the first frame: a Single Frame is the response, a
\* First Frame begins it, anything else fails the call.
RecvFirst(f) ==
    /\ pc = "recv_first"
    /\ Recv(f)
    /\ f.id = "ecu"
    /\ \/ /\ IsSingle(f)
          /\ out' = Chunk(f.data, 0, f.n)
          /\ Return("ok")
          /\ UNCHANGED total
       \/ /\ IsFirst(f)
          /\ total' = f.n
          /\ out' = Chunk(f.data, 0, f.n)
          /\ pc' = "send_fc"
          /\ UNCHANGED result
       \/ /\ ~IsSingle(f) /\ ~IsFirst(f)
          /\ Return("InvalidData")
          /\ UNCHANGED <<total, out>>
    /\ UNCHANGED <<env, toEcu, lost, noise, call, late, payload, sendVars,
                   waits, expected, ecu, histVars>>

\* MUTANT: the announced length does not cap the last frame.
TakeAll(p) == Chunk(p, 0, CFPayload)

\* The bytes a Consecutive Frame contributes: no padding, no more than missing.
Take(p) == Chunk(p, 0, Least(total - Len(out), CFPayload))

\* MUTANT: the sequence number is not compared.
IsNextCFAnySeq(f) == f.pci = "CF"

\* The frame continues the response.
IsNextCF(f) == f.pci = "CF" /\ f.n = expected

\* MUTANT: other frames of the ECU are skipped while Consecutive Frames are due.
RecvCFSkipsOthers(f) ==
    /\ pc = "recv_cf"
    /\ Recv(f)
    /\ f.id = "ecu"
    /\ IF IsNextCF(f)
       THEN /\ out' = out \o Take(f.data)
            /\ expected' = NextSeq(expected)
            /\ IF Len(out') < total
               THEN UNCHANGED <<pc, result>>
               ELSE Return("ok")
       ELSE UNCHANGED <<pc, result, out, expected>>
    /\ UNCHANGED <<env, toEcu, lost, noise, call, late, payload, sendVars,
                   waits, total, ecu, histVars>>

\* receive_response takes a later frame, which must be the next Consecutive
\* Frame, and returns once the announced length is reached.
RecvCF(f) ==
    /\ pc = "recv_cf"
    /\ Recv(f)
    /\ f.id = "ecu"
    /\ IF IsNextCF(f)
       THEN /\ out' = out \o Take(f.data)
            /\ expected' = NextSeq(expected)
            /\ IF Len(out') < total
               THEN UNCHANGED <<pc, result>>
               ELSE Return("ok")
       ELSE /\ Return("InvalidData")
            /\ UNCHANGED <<out, expected>>
    /\ UNCHANGED <<env, toEcu, lost, noise, call, late, payload, sendVars,
                   waits, total, ecu, histVars>>

\* socket.send or socket.recv returns an error, and so does the call.
SocketError ==
    /\ env.fails
    /\ polling \/ pc \in {"send_first", "send_cf", "send_fc"}
    /\ polling' = FALSE
    /\ Return("SocketError")
    /\ UNCHANGED <<env, busVars, call, late, payload, sendVars, waits,
                   recvVars, ecu, histVars>>

TesterStep ==
    \/ SendFirst
    \/ SendCF
    \/ SendFC
    \/ Poll
    \/ GiveUp
    \/ RecvNone
    \/ \E f \in {toTester[i] : i \in DOMAIN toTester} :
          RecvForeign(f) \/ RecvFC(f) \/ RecvFirst(f) \/ RecvCF(f)
    \/ SocketError

-----------------------------------------------------------------------------
(* The ECU.  A response's total is how much of it has been sent.           *)

EcuTakes(f) ==
    /\ toEcu # <<>>
    /\ f = Head(toEcu)
    /\ toEcu' = Tail(toEcu)
    /\ UNCHANGED <<env, toTester, lost, noise, testerVars, histVars>>

EcuPad(p, n) == IF env.pads THEN Pad(p, n) ELSE p

EcuSends(f) ==
    /\ toTester' = Append(toTester, f)
    /\ UNCHANGED <<env, toEcu, lost, noise, testerVars, asked, abandoned,
                   waitsSeen, sentLate>>

\* A Single Frame is a whole request.  It ends whatever was under way.
EcuRecvSF(f) ==
    /\ EcuTakes(f)
    /\ f.pci = "SF"
    /\ ecu' = [Idle EXCEPT !.state = "reply", !.msg = Chunk(f.data, 0, f.n)]

\* So does a First Frame, which is to be answered by Flow Control.
EcuRecvFF(f) ==
    /\ EcuTakes(f)
    /\ f.pci = "FF"
    /\ ecu' = [Idle EXCEPT !.state = "grant", !.msg = f.data, !.total = f.n,
                           !.seq = 1]

\* A Consecutive Frame out of sequence ends the reception, the last one of
\* the request completes it, the last one of a block calls for Flow Control.
EcuRecvCF(f) ==
    /\ EcuTakes(f)
    /\ f.pci = "CF"
    /\ LET msg == ecu.msg \o Chunk(f.data, 0, Least(CFPayload,
                                               ecu.total - Len(ecu.msg)))
       IN \/ /\ ecu.state # "assemble"
             /\ UNCHANGED ecu
          \/ /\ ecu.state = "assemble" /\ f.n # ecu.seq
             /\ ecu' = Idle
          \/ /\ ecu.state = "assemble" /\ f.n = ecu.seq
             /\ ecu' = [ecu EXCEPT
                   !.msg = msg,
                   !.seq = (@ + 1) % SeqModulus,
                   !.left = @ - 1,
                   !.state = IF Len(msg) = ecu.total THEN "reply"
                             ELSE IF Len(msg) < ecu.total /\ ecu.left = 1
                             THEN "grant" ELSE "assemble"]

\* Clear To Send from the tester lets the Consecutive Frames of a response go.
EcuRecvFC(f) ==
    /\ EcuTakes(f)
    /\ f.pci = "FC"
    /\ ecu' = IF ecu.state = "hold"
              THEN [ecu EXCEPT !.state = "respond", !.left = f.data[1][2]]
              ELSE ecu

\* Flow Control: a block of b frames (0: all of them), Wait, or Overflow.
EcuGrant(b) ==
    /\ ecu.state = "grant"
    /\ EcuSends([FC(CTS, b) EXCEPT !.data = IF b = 0 /\ ~env.pads
                                            THEN <<>> ELSE @])
    /\ ecu' = [ecu EXCEPT !.state = "assemble", !.left = b]
    /\ UNCHANGED answers

EcuWait ==
    /\ ecu.state = "grant"
    /\ ecu.waits < env.waits
    /\ EcuSends(FC(WAIT, 0))
    /\ ecu' = [ecu EXCEPT !.waits = @ + 1]
    /\ UNCHANGED answers

EcuOverflow ==
    /\ env.faulty
    /\ ecu.state = "grant"
    /\ EcuSends(FC(OVERFLOW, 0))
    /\ ecu' = Idle
    /\ UNCHANGED answers

\* The response to the request assembled, of len bytes.
EcuReply(len) ==
    /\ ecu.state = "reply"
    /\ LET rsp == Response(ecu.msg[1][2], len) IN
        /\ answers' = answers \cup {rsp}
        /\ IF len <= SFMaxLen
           THEN /\ EcuSends([SF(EcuPad(rsp, SFMaxLen)) EXCEPT !.n = len])
                /\ ecu' = Idle
           ELSE /\ EcuSends(FF(len, Chunk(rsp, 0, FFFirst)))
                /\ ecu' = [Idle EXCEPT !.state = "hold", !.msg = rsp,
                                       !.total = FFFirst, !.seq = 1]

\* The next Consecutive Frame.  After a block the ECU waits for Flow Control.
EcuSendCF ==
    /\ ecu.state = "respond"
    /\ EcuSends(CF(ecu.seq, EcuPad(Chunk(ecu.msg, ecu.total, CFPayload),
                                   CFPayload)))
    /\ ecu' = IF ecu.total + CFPayload >= Len(ecu.msg)
              THEN Idle
              ELSE [ecu EXCEPT !.total = @ + CFPayload,
                               !.seq = (@ + 1) % SeqModulus,
                               !.left = @ - 1,
                               !.state = IF ecu.left = 1 THEN "hold" ELSE @]
    /\ UNCHANGED answers

\* Its own timeouts: it stops waiting for the tester.
EcuAbandons ==
    /\ ~env.patient
    /\ ecu.state \in {"assemble", "hold"}
    /\ ecu' = Idle
    /\ UNCHANGED <<env, busVars, testerVars, histVars>>

EcuStep ==
    \/ \E f \in {toEcu[i] : i \in DOMAIN toEcu} :
          EcuRecvSF(f) \/ EcuRecvFF(f) \/ EcuRecvCF(f) \/ EcuRecvFC(f)
    \/ \E b \in env.blocks : EcuGrant(b)
    \/ EcuWait
    \/ EcuOverflow
    \/ \E len \in env.respLens : EcuReply(len)
    \/ EcuSendCF
    \/ EcuAbandons

-----------------------------------------------------------------------------
(* The bus and the clock.                                                  *)

\* A frame is lost on the bus or to a full receive buffer.
Lose ==
    /\ lost < env.lost
    /\ lost' = lost + 1
    /\ \/ /\ \E i \in DOMAIN toTester : toTester' = RemoveAt(toTester, i)
          /\ UNCHANGED toEcu
       \/ /\ \E i \in DOMAIN toEcu : toEcu' = RemoveAt(toEcu, i)
          /\ UNCHANGED toTester
    /\ UNCHANGED <<env, noise, testerVars, ecu, histVars>>

\* Frames of another node, and those no correct ECU sends.
Foreign == {[SF(<<Padding>>) EXCEPT !.id = "other"]}
Malformed ==
    {EmptyFrame,
     [EmptyFrame EXCEPT !.pci = "unknown"],
     SF(<<>>),
     [SF(<<Padding>>) EXCEPT !.n = 2],
     FF(SFMaxLen, <<Padding>>),
     FC(3, 0)}

Disturb ==
    /\ noise < env.noise
    /\ noise' = noise + 1
    /\ \E f \in Foreign \cup (IF env.faulty THEN Malformed ELSE {}) :
          toTester' = Append(toTester, f)
    /\ UNCHANGED <<env, toEcu, lost, testerVars, ecu, histVars>>

\* Nobody but the clock has anything left to do for the call.
Stuck ==
    /\ Receiving
    /\ toEcu = <<>> /\ toTester = <<>>
    /\ ecu.state \in {"idle", "assemble", "hold"}

\* The deadline of the call passes.
DeadlinePasses ==
    /\ pc \notin {"idle", "done"}
    /\ ~late
    /\ env.patient => Stuck
    /\ late' = TRUE
    /\ UNCHANGED <<env, busVars, call, pc, polling, payload, sendVars, waits,
                   recvVars, result, ecu, histVars>>

-----------------------------------------------------------------------------
Next ==
    \/ \E len \in env.reqLens : Start(len)
    \/ TesterStep
    \/ EcuStep
    \/ Lose
    \/ Disturb
    \/ DeadlinePasses

Spec == Init /\ [][Next]_vars

\* The caller's thread runs, socket.recv returns within its receive timeout,
\* and time passes.  The ECU and the bus owe nothing.
FairSpec ==
    /\ Spec
    /\ WF_vars(TesterStep)
    /\ WF_vars(DeadlinePasses)

-----------------------------------------------------------------------------
(* Properties.                                                             *)

Errors == {"InvalidInput", "TimedOut", "InvalidData", "Unsupported", "Other",
           "SocketError"}
Bytes == {Padding} \cup ({"req", "rsp", "bs"} \X Nat \X (Nat \ {0}))
Frames == [id : {"ecu", "other"},
           pci : {"none", "SF", "FF", "CF", "FC", "unknown"},
           n : 0..MaxFFLength,
           data : Seq(Bytes)]

\* Every variable is in its type: no length, sequence number or count leaves
\* the range that its field on the bus or its integer type gives it.
TypeOK ==
    /\ env \in Envs
    /\ toEcu \in Seq(Frames) /\ toTester \in Seq(Frames)
    /\ lost \in 0..env.lost /\ noise \in 0..env.noise
    /\ call \in FirstCall..FirstCall + env.calls
    /\ pc \in {"idle", "send_first", "wait_fc", "send_cf", "recv_first",
               "send_fc", "recv_cf", "done"}
    /\ polling \in BOOLEAN /\ late \in BOOLEAN
    /\ payload \in Seq(Bytes)
    /\ offset \in 0..Len(payload)
    /\ seq \in 0..SeqModulus - 1 /\ expected \in 0..SeqModulus - 1
    /\ blockCount \in 0..U8 - 1 /\ bs \in 0..U8 - 1 /\ waits \in 0..U8 - 1
    /\ total \in 0..MaxFFLength
    /\ out \in Seq(Bytes)
    /\ result \in {"none", "ok"} \cup Errors
    /\ (result = "none") <=> (pc # "done")

\* No Flow Control can be taken for that of a later transfer.  That needs a
\* call that failed, so that its transfer is still under way at the ECU, and
\* the loss of the First Frame that would have ended it; nothing in the
\* protocol then tells the two transfers apart.
TransfersAreDistinct == abandoned => lost = 0

\* A call that succeeds returns exactly one response of the ECU: complete,
\* without padding, and with no byte of another response, whatever the bus
\* lost and whatever else was on it.
OkIsOneWholeResponse ==
    result = "ok" /\ TransfersAreDistinct => out \in answers

\* As long as fewer frames are lost than the sequence number tells apart, the
\* part of a response collected so far is the beginning of one.
CollectedIsPrefix ==
    /\ pc \in {"send_fc", "recv_cf"}
    /\ env.lost < SeqModulus
    /\ TransfersAreDistinct
    => \E rsp \in answers : Len(rsp) = total /\ IsPrefix(out, rsp)

\* Nothing of another response or out of its place is taken for a part of one,
\* neither in the end nor on the way.
ResponseIsOneWhole == OkIsOneWholeResponse /\ CollectedIsPrefix

\* Responses do not slip from one call to the next: until a call has failed
\* on this socket, every response returned answers the call it is returned by.
OwnResponseUntilACallFails ==
    result = "ok" /\ ~abandoned => out[1][2] = call

\* What the ECU takes for a request is one that was made, whole: its parts are
\* never those of two calls.
RequestArrivesWhole ==
    ecu.state = "reply" /\ TransfersAreDistinct => ecu.msg \in asked

\* The tester never sends past the block it was granted: while the ECU owes
\* it Flow Control, no Consecutive Frame is on its way.  The Flow Control of a
\* call that failed may be taken by the next one for its own.
BlockIsNeverOverrun ==
    ecu.state = "grant" /\ ~abandoned =>
        \A i \in DOMAIN toEcu : toEcu[i].pci # "CF"

\* Documented of Options::max_waits: the number of Wait frames tolerated.
WaitsAreBounded == pc = "wait_fc" => waitsSeen <= MaxWaits

\* The ECU's Flow Control is obeyed, and not for ever: no more is sent than it
\* grants, and it may put the tester off max_waits times.
FlowControlIsObeyed == BlockIsNeverOverrun /\ WaitsAreBounded

\* An ECU without faults, on a bus that loses nothing, given enough time.
CorrectEcu ==
    /\ ~env.faulty /\ env.lost = 0 /\ env.patient /\ ~env.fails
    /\ env.waits <= MaxWaits
    /\ env.reqLens \subseteq 1..MaxFFLength

\* The block the ECU granted ends before the request does.
BlockTooShort == bs # 0 /\ FFFirst + CFPayload * bs < Len(payload)

\* A correct ECU is always answered: until a call fails, none does but one
\* whose request needs more Consecutive Frames than the ECU granted in its
\* first Flow Control, which is refused as Unsupported.
CorrectEcuSucceeds ==
    CorrectEcu /\ ~abandoned /\ pc = "done" =>
        result = IF BlockTooShort THEN "Unsupported" ELSE "ok"

\* Every call whose clock runs returns, whatever the ECU does or leaves undone.
CallReturns == pc \notin {"idle", "done"} /\ ~env.patient ~> pc = "done"

\* Documented of Options::timeout: it bounds the whole cycle.  A send under
\* way when it expires may still go out; no further one may.
TimeoutBoundsTheCycle == sentLate <= 1
=============================================================================
