-------------------------- MODULE MCFrameExtractor --------------------------
(***************************************************************************)
(* FrameExtractor with the shortest frames ppp_deframe looks at.           *)
(***************************************************************************)
EXTENDS FrameExtractor
=============================================================================
