------------------------------ MODULE MCAioBuf ------------------------------
(***************************************************************************)
(* A small buffer zone: a few frames wrap around it, and a file is longer  *)
(* than it.                                                                *)
(***************************************************************************)
EXTENDS AioBuf
=============================================================================
