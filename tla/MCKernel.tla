------------------------------ MODULE MCKernel ------------------------------
(* Lines of both controllers, with and without a driver. *)
EXTENDS Kernel
=============================================================================
