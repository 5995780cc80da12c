----------------------------- MODULE MCGuestPaths -----------------------------
(***************************************************************************)
(* The guest programs with few paths, as an exploration of their inputs,   *)
(* and the discipline of all.                                              *)
(***************************************************************************)
EXTENDS TestDiscipline

FewPaths ==
  Catalogue \ {fcntl, open, read_write, readv_writev, pread_pwrite, open_flock,
               sendmsg_2cm}
=============================================================================
