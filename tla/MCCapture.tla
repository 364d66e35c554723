----------------------------- MODULE MCCapture -----------------------------
(***************************************************************************)
(* Captures of one tick, and of one event, into files that are overwritten *)
(* or not; a status query, a conversion and a malformed request.           *)
(***************************************************************************)
EXTENDS Capture

Capturing(t, e, ow) ==
  [valid |-> TRUE, ticks |-> t, events |-> e, mode |-> "auto", overwrite |-> ow]

Status == [NoReq EXCEPT !.valid = TRUE]

MCRequests ==
  {Capturing(1, 0, TRUE), Capturing(0, 1, TRUE), Capturing(1, 0, FALSE),
   [Capturing(1, 1, TRUE) EXCEPT !.mode = "caponly"],
   Status, [Status EXCEPT !.mode = "convonly"], [Status EXCEPT !.mode = "caponly"]}
=============================================================================
