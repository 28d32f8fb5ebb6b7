---------------------------- MODULE MCKVServer ----------------------------
(***************************************************************************)
(* Instances of KVServer for TLC.                                          *)
(***************************************************************************)
EXTENDS KVServer
=============================================================================
