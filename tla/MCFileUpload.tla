---------------------------- MODULE MCFileUpload ----------------------------
(* FileUpload on small sets of requests *)
EXTENDS FileUpload
=============================================================================
