----------------------------- MODULE MCPppFrame -----------------------------
(* Every byte first, then the bytes that matter to stuffing. *)
EXTENDS PppFrame

AllBytes == 0 .. 255
(* FLAG, ESC, both as they look escaped, the mask and 0. *)
StuffingBytes == {126, 125, 94, 93, 32, 0}
=============================================================================
