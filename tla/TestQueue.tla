----------------------------- MODULE TestQueue -----------------------------
(* What a campaign of startTest.sh promises about the test programs, with    *)
(* no clocks, no timers and no virtual machine: programs wait in a queue,    *)
(* one at a time is taken, a taken program is put aside only after a guest   *)
(* was given it, and programs are put back only once the queue was emptied.  *)
(* Campaign implements this specification (see CampaignQueue).               *)

CONSTANTS
    Programs,     \* the test programs of the tree tests/
    NoProgram     \* "nothing is taken"

VARIABLES
    todo,         \* programs still to run (files named `test')
    current,      \* the program taken from the queue, or NoProgram
    served,       \* programs a guest has been given in this round
    recycling     \* the round is over: programs are being put back

queueVars == <<todo, current, served, recycling>>

QueueInit ==
    /\ todo = Programs
    /\ current = NoProgram
    /\ served = {}
    /\ recycling = FALSE

(* A program that still waits is taken.                                      *)
Take(t) ==
    /\ ~recycling
    /\ current = NoProgram
    /\ t \in todo
    /\ current' = t
    /\ UNCHANGED <<todo, served, recycling>>

(* A guest is given the program that was taken.                              *)
Serve ==
    /\ current # NoProgram
    /\ served' = served \cup {current}
    /\ UNCHANGED <<todo, current, recycling>>

(* The program that was taken and served is put aside.                       *)
PutAside ==
    /\ current \in served
    /\ todo' = todo \ {current}
    /\ current' = NoProgram
    /\ UNCHANGED <<served, recycling>>

(* The round is over when nothing waits, and only then.                      *)
EndRound ==
    /\ ~recycling
    /\ current = NoProgram
    /\ todo = {}
    /\ recycling' = TRUE
    /\ UNCHANGED <<todo, current, served>>

(* One program is put back.                                                  *)
PutBack(t) ==
    /\ recycling
    /\ t \in Programs \ todo
    /\ todo' = todo \cup {t}
    /\ UNCHANGED <<current, served, recycling>>

(* Everything is back: a new round may start.                                *)
NewRound ==
    /\ recycling
    /\ todo = Programs
    /\ served' = {}
    /\ recycling' = FALSE
    /\ UNCHANGED <<todo, current>>

(* The operator stops the campaign: what was taken goes back to the queue,   *)
(* what was being put back stays where it is.                                *)
Abandon ==
    /\ current' = NoProgram
    /\ recycling' = FALSE
    /\ UNCHANGED <<todo, served>>

QueueNext ==
    \/ \E t \in Programs : Take(t) \/ PutBack(t)
    \/ Serve
    \/ PutAside
    \/ EndRound
    \/ NewRound
    \/ Abandon

QueueSpec == QueueInit /\ [][QueueNext]_queueVars
=============================================================================
