-------------------------- MODULE MCEmailMessages --------------------------
(* EmailMessages on small sets of messages and workers *)
EXTENDS EmailMessages
=============================================================================
