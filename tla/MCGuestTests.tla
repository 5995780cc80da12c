---------------------------- MODULE MCGuestTests -----------------------------
(***************************************************************************)
(* Every program of the catalogue, each from its own initial state.        *)
(***************************************************************************)
EXTENDS GuestTests

AllPrograms == Catalogue
=============================================================================
