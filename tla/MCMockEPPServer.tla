---------------------------- MODULE MCMockEPPServer ----------------------------
(* Instances of MockEPPServer for TLC. *)
EXTENDS MockEPPServer
=============================================================================
