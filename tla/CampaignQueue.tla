--------------------------- MODULE CampaignQueue ---------------------------
(* The refinement: a campaign is a TestQueue.  What waits is what is still   *)
(* named `test', the current program is the one between lines 84 and 95 of   *)
(* startTest.sh, and the queue recycles during the reset loop.               *)

EXTENDS Campaign

Current == IF pc \in Attempt THEN nowTest ELSE None

Queue == INSTANCE TestQueue WITH
    Programs <- Tests, NoProgram <- None,
    todo <- Waiting, current <- Current, served <- booted,
    recycling <- (pc = "reset")

(* The campaign implements the queue: one program at a time, a program is    *)
(* put aside only after a guest was given it, and none is put back before    *)
(* all were put aside (startTest.sh, lines 77-114).                          *)
ImplementsQueue == Queue!QueueSpec
=============================================================================
