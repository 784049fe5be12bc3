---------------------------- MODULE SaveFilesMC ----------------------------
(* A window of two rounds stands for the hundred of the code. *)
EXTENDS SaveFiles
=============================================================================
