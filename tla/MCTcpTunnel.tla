---------------------------- MODULE MCTcpTunnel -----------------------------
(***************************************************************************)
(* Two sessions one after the other, over up to two sockets.               *)
(***************************************************************************)
EXTENDS TcpTunnel
=============================================================================
