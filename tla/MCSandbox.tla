----------------------------- MODULE MCSandbox -----------------------------
(* Three files under the snapshot roots: a module that fits the snapshot,   *)
(* data that fits only alone, a hook below an ignored, unwritable directory. *)
EXTENDS Sandbox

MCSbSize == [p \in SbPaths |-> IF p = "data" THEN SbMaxBytes ELSE 1]
=============================================================================
