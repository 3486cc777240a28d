---------------------------- MODULE MCRawMessages ----------------------------
(* Two messages, of two users, of which one is in a channel the bot learns     *)
(* from; all go through the group.                                           *)
EXTENDS RawMessages, TLC

CONSTANTS m1, m2, alice, bob

MCAuthorOf == [m \in Messages |-> IF m = m1 THEN alice ELSE bob]

EveryKind == Kinds
=============================================================================
