------------------------------ MODULE MCClient ------------------------------
(* Client with three calls and one unexpected publish response *)
EXTENDS Client
=============================================================================
