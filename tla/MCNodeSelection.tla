--------------------------- MODULE MCNodeSelection ---------------------------
(* NodeSelection for TLC: two generations with pools of two and of one node. *)
EXTENDS NodeSelection

TwoPools == <<<<"a", "b">>, <<"b">>>>
GroupMembers == <<{"a", "b", "c"}, {"b"}>>
=============================================================================
