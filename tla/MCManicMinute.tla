---------------------------- MODULE MCManicMinute ----------------------------
(* Small instances of ManicMinute: two channels of one guild and a direct    *)
(* conversation, two or three words, and the scripts the runs draw messages  *)
(* from.                                                                     *)
EXTENDS ManicMinute, TLC

CONSTANTS c1, c2, dm, w1, w2, w3, guild

MCServerOf == [c \in Channels |-> IF c = dm THEN None ELSE guild]

Chat(c, words)  == [kind |-> "chat", channel |-> c, says |-> words, admin |-> FALSE]
Admin(k, c, words) == [kind |-> k, channel |-> c, says |-> words, admin |-> TRUE]

\* Everyday use: either channel may say either word, an admin may stop the
\* minute from either channel, rotate the word, or start a minute for a word.
StopInputs ==
    {Chat(c, {w}) : c \in {c1, c2}, w \in {w1, w2}}
      \cup {Admin("stop", c, {}) : c \in {c1, c2}}
      \cup {Admin("rotate", c1, {}), Admin("test", c1, {w2})}

\* The other admin commands, one denied, a word that only an admin may choose,
\* and a message from a direct conversation.
AllInputs ==
    StopInputs \cup
    {Chat(dm, {w1}), Admin("test", c1, {}), Admin("test", c1, {w3}),
     Admin("adminStop", c1, {}), Admin("adminStop", c2, {}), Admin("status", c1, {}),
     [Admin("rotate", c1, {}) EXCEPT !.admin = FALSE]}

Symmetry == Permutations(Messages)
=============================================================================
