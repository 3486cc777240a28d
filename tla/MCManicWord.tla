----------------------------- MODULE MCManicWord -----------------------------
(* Small instances of ManicWord: a guild channel where minutes start, and    *)
(* one from where an admin stops them.                                       *)
EXTENDS ManicWord, TLC

CONSTANTS c1, c2, w1, w2, guild

MCServerOf == [c \in Channels |-> guild]

WordInputs ==
    {[kind |-> "chat",   channel |-> c1, says |-> {w1}, admin |-> FALSE],
     [kind |-> "rotate", channel |-> c1, says |-> {},   admin |-> TRUE],
     [kind |-> "stop",   channel |-> c2, says |-> {},   admin |-> TRUE]}
=============================================================================
