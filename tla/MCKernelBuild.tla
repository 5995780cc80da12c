--------------------------- MODULE MCKernelBuild ---------------------------
(* KernelBuild on a kernel that has all three directories, as linux-3.5.4.   *)

EXTENDS KernelBuild

AllDirs == Dirs

AllScripts == Scripts
OnlyCheckKernel == {"checkKernel"}
=============================================================================
