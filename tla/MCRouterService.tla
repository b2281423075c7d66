-------------------------- MODULE MCRouterService --------------------------
(* RouterService on small sets of requests and keys *)
EXTENDS RouterService
=============================================================================
