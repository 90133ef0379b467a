---------------------------- MODULE MCWorkbench ----------------------------
(* The default renderer, one chat turn that asks for an approval. *)
EXTENDS Workbench
=============================================================================
