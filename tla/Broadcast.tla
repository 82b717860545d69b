------------------------------ MODULE Broadcast ------------------------------
(***************************************************************************)
(* What the fan-out reader promises its subscribers, with no thread, lock, *)
(* batch or snapshot: frames are published to one log, and each member     *)
(* goes through the log from the place it joined at, one frame at a time   *)
(* and in order.  A lossy member may miss a frame instead of seeing it; a  *)
(* lossless one may not.  No member can hold up the log or another member. *)
(***************************************************************************)
EXTENDS Integers, Sequences

CONSTANTS
    Members,    \* those who may join, each at most once
    Published   \* what may be published

VARIABLES
    log,     \* everything published, in order
    status,  \* per member: "out", "in" or "gone"
    lossy,   \* per member: whether it may miss frames
    first,   \* per member: how much of the log precedes its first frame
    seen,    \* per member: the frames it was given
    missed   \* per member: how many it was refused

vars == <<log, status, lossy, first, seen, missed>>

\* How far into the log a member has come.
Cursor(m) == first[m] + Len(seen[m]) + missed[m]

Init ==
    /\ log = <<>>
    /\ status = [m \in Members |-> "out"]
    /\ lossy = [m \in Members |-> FALSE]
    /\ first = [m \in Members |-> 0]
    /\ seen = [m \in Members |-> <<>>]
    /\ missed = [m \in Members |-> 0]

\* The log grows by some frames and keeps those it has.
Publish ==
    /\ log' \in Seq(Published)
    /\ Len(log') > Len(log)
    /\ SubSeq(log', 1, Len(log)) = log
    /\ UNCHANGED <<status, lossy, first, seen, missed>>

\* A member joins at the end of the log, or inside its last publication.
Join(m) ==
    /\ status[m] = "out"
    /\ status' = [status EXCEPT ![m] = "in"]
    /\ \E l \in BOOLEAN : lossy' = [lossy EXCEPT ![m] = l]
    /\ \E i \in 0..Len(log) : first' = [first EXCEPT ![m] = i]
    /\ UNCHANGED <<log, seen, missed>>

Deliver(m) ==
    /\ status[m] = "in"
    /\ Cursor(m) < Len(log)
    /\ seen' = [seen EXCEPT ![m] = Append(@, log[Cursor(m) + 1])]
    /\ UNCHANGED <<log, status, lossy, first, missed>>

Miss(m) ==
    /\ status[m] = "in"
    /\ lossy[m]
    /\ Cursor(m) < Len(log)
    /\ missed' = [missed EXCEPT ![m] = @ + 1]
    /\ UNCHANGED <<log, status, lossy, first, seen>>

Leave(m) ==
    /\ status[m] = "in"
    /\ status' = [status EXCEPT ![m] = "gone"]
    /\ UNCHANGED <<log, lossy, first, seen, missed>>

Next ==
    \/ Publish
    \/ \E m \in Members : Join(m) \/ Deliver(m) \/ Miss(m) \/ Leave(m)

Safe == Init /\ [][Next]_vars

\* A member that stays goes on to the end of the log.
Live == \A m \in Members : WF_vars(Deliver(m) \/ Miss(m))

Spec == Safe /\ Live
=============================================================================
