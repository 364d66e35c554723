----------------------------- MODULE MCProcess ------------------------------
(***************************************************************************)
(* Process for TLC: two tasks, and conversions of whole files as tesd asks *)
(* for them and of parts as tests/hdf5conv.c does.                         *)
(***************************************************************************)
EXTENDS Process

MCDsetReqs ==
  {[offset |-> 0, length |-> -1], [offset |-> 2, length |-> 2],
   [offset |-> -1, length |-> 2], [offset |-> -3, length |-> 1]}
=============================================================================
