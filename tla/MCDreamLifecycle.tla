-------------------------- MODULE MCDreamLifecycle --------------------------
(* Two proposals about one pattern, seen with different evidence and alike   *)
(* enough to be duplicates, and feedback that contradicts them. The second   *)
(* proposal's text may also come as feedback.                                *)
EXTENDS DreamLifecycle

MCLessons == {"first", "second", "never"}
MCSimilar == {<<l, l>> : l \in MCLessons} \cup {<<"first", "second">>, <<"second", "first">>}
MCContradicts == ({"first", "second"} \X {"never"}) \cup ({"never"} \X {"first", "second"})
MCNameOf == [l \in MCLessons |-> IF l = "second" THEN "counted_twice" ELSE "counted"]
MCNames == {"counted", "counted_twice"}
MCProposals == {"first", "second"}
MCFeedback == {"second", "never"}
MCIdOf == [l \in MCProposals |-> "pattern"]
MCVerifiers == {"manual", "eval", "trace"}
MCVerifierOf == [l \in MCProposals |-> IF l = "first" THEN "eval" ELSE "trace"]
=============================================================================
