---------------------------- MODULE MCTCPServer ----------------------------
(* Three clients, two threads and the owner, for TLC.                      *)
EXTENDS TCPServer
=============================================================================
