----------------------------- MODULE MCS2EHeader -----------------------------
(***************************************************************************)
(* s2e.h on three pages, ints of three bits and two module names.          *)
(***************************************************************************)
EXTENDS S2EHeader

TwoNames == {"app", "lib"}
=============================================================================
