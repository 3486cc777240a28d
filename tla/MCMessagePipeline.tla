------------------------- MODULE MCMessagePipeline -------------------------
(***************************************************************************)
(* Instances of MessagePipeline for TLC: two handlers, and messages that *)
(* between them make each react in every way.                              *)
(***************************************************************************)
EXTENDS MessagePipeline, TLC

Says(a, b) == [reacts |-> <<a, b>>, edit |-> FALSE]

MCSayings ==
  {Says("note", "plain"), Says("note", "bad"), Says("cancel", "plain"),
   Says("pass", "long"), Says("note", "garbage"),
   [reacts |-> <<"pass", "plain">>, edit |-> TRUE]}

Symmetry == Permutations(Messages)
============================================================================
