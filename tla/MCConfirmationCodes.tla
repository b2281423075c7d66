------------------------ MODULE MCConfirmationCodes ------------------------
(* ConfirmationCodes on small sets of handlers *)
EXTENDS ConfirmationCodes, TLC

Symmetry == Permutations(Handlers)
=============================================================================
