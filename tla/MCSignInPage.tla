---------------------------- MODULE MCSignInPage ----------------------------
(* SignInPage on small sets *)
EXTENDS SignInPage
=============================================================================
