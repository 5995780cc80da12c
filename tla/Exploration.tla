----------------------------- MODULE Exploration -----------------------------
(***************************************************************************)
(* What one run of a guest program promises: the inputs its symbolic       *)
(* variables stand for are explored group by group, none twice and none    *)
(* forgotten, until nothing is left to do or the machine is stuck on what  *)
(* is left.                                                                *)
(***************************************************************************)
VARIABLES todo,       \* inputs not explored yet
          explored,   \* inputs of the paths that were explored to their end
          stuck       \* why the machine will explore no more, or "no"

vars == <<todo, explored, stuck>>

Init == explored = {} /\ stuck = "no"

\* Some of what is to do, at least one input, has been explored.
Explore ==
  /\ stuck = "no"
  /\ explored \subseteq explored' /\ explored' # explored
  /\ explored' \subseteq explored \cup todo
  /\ todo' = todo \ explored'
  /\ UNCHANGED stuck

Stick ==
  /\ stuck = "no" /\ todo # {}
  /\ stuck' \in {"hung", "left"}
  /\ UNCHANGED <<todo, explored>>

Next == Explore \/ Stick

Spec == Init /\ [][Next]_vars
=============================================================================
