-------------------------- MODULE FanoutRefinement --------------------------
(***************************************************************************)
(* The fan-out reader implements Broadcast: the log is what was read from  *)
(* the socket, a member's frames are those its queue accepted, and a frame *)
(* is missed at the moment try_send finds the queue full, one step before  *)
(* the dropped counter says so.                                            *)
(***************************************************************************)
EXTENDS FanoutReader

Refused(s) ==
    dropped[s] + (IF pc = "full" /\ cur = s THEN 1 ELSE 0)

StatusOf ==
    [none |-> "out", held |-> "in", dropped |-> "gone"]

Abstract == INSTANCE Broadcast WITH
    Members   <- Subs,
    Published <- 1..MaxFrames,
    log       <- read,
    status    <- [s \in Subs |-> StatusOf[life[s]]],
    lossy     <- [s \in Subs |-> cap[s] # Unbounded],
    first     <- base,
    seen      <- got,
    missed    <- [s \in Subs |-> Refused(s)]

\* Every step of the reader, its thread and its users is a step of the
\* broadcast or leaves it alone: what a member has been given is always an
\* ordered continuation of the log from its first frame, without gaps if its
\* queue is unbounded and with each gap counted if it is not.
ImplementsBroadcast == Abstract!Safe

\* A member that stays is taken to the end of the log, and no other member
\* can prevent it by not receiving, by leaving or by joining.
EveryMemberCatchesUp == Abstract!Live
=============================================================================
