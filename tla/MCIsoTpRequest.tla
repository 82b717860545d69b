--------------------------- MODULE MCIsoTpRequest ---------------------------
(* Small instances of IsoTpRequest for TLC.  A Single Frame holds 2 bytes, a *)
(* First Frame 1 and a Consecutive Frame 2, so that 6 bytes are a First Frame *)
(* and 3 Consecutive Frames, the last one padded, and 8 bytes are the most.  *)
EXTENDS IsoTpRequest

\* Two calls on one socket, a correct ECU and no loss, every length on either
\* side of a boundary.
Correct ==
    [reqLens |-> {1, 2, 3, 6, 8}, respLens |-> {1, 2, 3, 6, 8},
     blocks |-> {0}, pads |-> FALSE, faulty |-> FALSE, patient |-> TRUE,
     fails |-> FALSE, calls |-> 2, waits |-> 1, lost |-> 0, noise |-> 1]

\* The same where the ECU grants blocks that end before, with or after the
\* request.
CorrectBlocks == [Correct EXCEPT !.respLens = {1, 6}, !.blocks = {1, 2, 3}]

\* Two calls while a frame is lost and everybody may fail: with disturbing
\* frames on the bus, or with Wait frames.
Faults ==
    [reqLens |-> {1, 6}, respLens |-> {1, 6}, blocks |-> {0, 1},
     pads |-> TRUE, faulty |-> TRUE, patient |-> FALSE, fails |-> TRUE,
     calls |-> 2, waits |-> 0, lost |-> 1, noise |-> 1]

WaitsAndFaults == [Faults EXCEPT !.waits = 1, !.noise = 0]

\* One call that loses more frames than the sequence number tells apart, with
\* refused lengths, blocks, and more Wait frames than it tolerates.
Burst ==
    [Faults EXCEPT !.reqLens = {0, 1, 6, 8, 9}, !.respLens = {1, 6, 8},
                   !.blocks = {0, 1, 2}, !.calls = 1, !.waits = 2, !.lost = 4]

\* One request and a response of several blocks.
OneResponse ==
    [Correct EXCEPT !.reqLens = {1}, !.respLens = {6}, !.pads = TRUE,
                    !.calls = 1, !.waits = 0, !.noise = 0]

\* One segmented request that its caller may give up.
OneRequest ==
    [OneResponse EXCEPT !.reqLens = {6}, !.respLens = {1}, !.patient = FALSE]

AllEnvs == {Correct, CorrectBlocks, Faults, WaitsAndFaults, Burst}
OnlyResponse == {OneResponse}
OnlyRequest == {OneRequest}
=============================================================================
