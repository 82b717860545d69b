----------------------------- MODULE IsoTpShared -----------------------------
(***************************************************************************)
(* Two callers of isotp::request at one ECU, each with a socket of its own *)
(* that it opens for one call, as the isotp_request tool of                *)
(* socketcan-mcp/src/main.rs does: both use the same identifiers, so each  *)
(* hears every frame of the ECU.  (They hear each other's frames, too,     *)
(* which carry another identifier and are skipped.)                        *)
(*                                                                         *)
(* The variables of the first caller and of the bus are IsoTpRequest's;    *)
(* the second caller's have a 2 in their names.                            *)
(***************************************************************************)
EXTENDS IsoTpRequest

VARIABLES
    toTester2, call2, pc2, polling2, late2, payload2, offset2, seq2,
    blockCount2, bs2, waits2, total2, out2, expected2, result2, abandoned2,
    waitsSeen2, sentLate2,
    overlap     \* history: the calls were under way together, or one failed

Second ==
    INSTANCE IsoTpRequest WITH
        FirstCall <- FirstCall + 1,
        toTester <- toTester2, call <- call2, pc <- pc2,
        polling <- polling2, late <- late2, payload <- payload2,
        offset <- offset2, seq <- seq2, blockCount <- blockCount2, bs <- bs2,
        waits <- waits2, total <- total2, out <- out2,
        expected <- expected2, result <- result2, abandoned <- abandoned2,
        waitsSeen <- waitsSeen2, sentLate <- sentLate2

caller1 == <<toTester, testerVars, abandoned, waitsSeen, sentLate>>
caller2 == <<toTester2, call2, pc2, polling2, late2, payload2, offset2, seq2,
             blockCount2, bs2, waits2, total2, out2, expected2, result2,
             abandoned2, waitsSeen2, sentLate2>>
sharedVars == <<vars, caller2, overlap>>

SharedInit == Init /\ Second!Init /\ overlap = FALSE

-----------------------------------------------------------------------------
\* A frame the ECU sends reaches the second socket as well, once it is open.
Overheard ==
    /\ toTester2' = IF pc2 = "idle" THEN toTester2
                    ELSE toTester2 \o SubSeq(toTester', Len(toTester) + 1,
                                             Len(toTester'))
    /\ UNCHANGED <<call2, pc2, polling2, late2, payload2, offset2, seq2,
                   blockCount2, bs2, waits2, total2, out2, expected2, result2,
                   abandoned2, waitsSeen2, sentLate2, overlap>>

\* The first to begin is the first caller.
Start1(len) ==
    /\ Start(len)
    /\ UNCHANGED <<caller2, overlap>>

Start2(len) ==
    /\ pc # "idle"
    /\ Second!Start(len)
    /\ overlap' = ~(pc = "done" /\ result = "ok")
    /\ UNCHANGED caller1

Step1 == TesterStep /\ UNCHANGED <<caller2, overlap>>
Step2 == Second!TesterStep /\ UNCHANGED <<caller1, overlap>>
Deadline1 == DeadlinePasses /\ UNCHANGED <<caller2, overlap>>
Deadline2 == Second!DeadlinePasses /\ UNCHANGED <<caller1, overlap>>

SharedNext ==
    \/ \E len \in env.reqLens : Start1(len) \/ Start2(len)
    \/ Step1
    \/ Step2
    \/ EcuStep /\ Overheard
    \/ Deadline1
    \/ Deadline2

SharedSpec == SharedInit /\ [][SharedNext]_sharedVars

-----------------------------------------------------------------------------
(* Properties.  The bus loses nothing here and carries no other frames: with *)
(* a loss even one caller can be given parts of two transfers.               *)

\* A caller that succeeds has one whole response of the ECU, though maybe the
\* other's: never a beginning of one and an end of the other.
EachOkIsOneWholeResponse ==
    /\ result = "ok" => out \in answers
    /\ result2 = "ok" => out2 \in answers

\* A call that begins after the other has succeeded is answered itself.
CallsInTurnGetTheirOwn ==
    ~overlap => /\ result = "ok" => out[1][2] = call
                /\ result2 = "ok" => out2[1][2] = call2
=============================================================================
