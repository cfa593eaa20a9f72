--------------------------- MODULE MCEventStream ---------------------------
(***************************************************************************)
(* A small instance of EventStream: two invoices whose ids interleave,     *)
(* pages of one or two events, and a few disturbances.                     *)
(***************************************************************************)
EXTENDS EventStream

CONSTANTS i1, i2
============================================================================
