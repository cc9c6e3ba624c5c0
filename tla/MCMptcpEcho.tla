---------------------------- MODULE MCMptcpEcho ----------------------------
(* Three clients, so that one may come while another goes and a third      *)
(* waits.                                                                  *)
EXTENDS MptcpEcho

CONSTANTS a, b, c3
=============================================================================
