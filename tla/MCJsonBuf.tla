------------------------------ MODULE MCJsonBuf ------------------------------
(***************************************************************************)
(* JsonBuf for TLC: one scalar field, and a buffer that the shortest texts *)
(* fit in and the longer ones overflow at every piece.                     *)
(***************************************************************************)
EXTENDS JsonBuf

OneScalar == <<"temperature">>

=============================================================================
