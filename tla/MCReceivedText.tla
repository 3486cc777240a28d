--------------------------- MODULE MCReceivedText ---------------------------
EXTENDS ReceivedText

(* Every text of a few runes of each kind of text, and some longer ones. *)
TextsOf(set, n) == UNION {[1 .. k -> set] : k \in 0 .. n}

Marks == {"a", "space", "<", ">", ":", "tick"}
Mentions == {"a", "<", ">", ":", "@", "&", "|"}
Sentences == {"a", "9", "space", ".", "!", "comma"}
Words == {"a", "9", "(", "'", "@", "#"}
Blanks == {"space", "tab", "cr", "zero", "nl", "a"}

Longer ==
  {<<"tick", "tick", "tick", "a", "tick", "tick", "tick">>, <<"tick", "tick", "tick", "a", "space", "tick">>,
   <<"a", "tick", "a", "tick", "tick", "tick", "a">>,
   <<"(", "9", ":", "9", ":", "9", "9", ")", "space", "a">>, <<"9", "9", ":", "9", "space", "!", "a">>,
   <<"h", ":", "/", "/", "a", ".", "a", "space", "a">>, <<"9", "%", "space", "RT", "space", "@", "a">>,
   <<"a", "!", "space", "a">>, <<"#", "a", "space", "<", ">", "space", "<", "a">>}

MCTexts == TextsOf(Marks, 4) \cup TextsOf(Mentions, 4) \cup TextsOf(Sentences, 4)
             \cup TextsOf(Words, 4) \cup TextsOf(Blanks, 3) \cup Longer

(* Brackets in any order, and mentions alone, side by side and in a word. *)
User == <<"<", "@", "a", ">">>
Role == <<"<", "@", "&", "a", ">">>
Channel == <<"<", "#", "a", ">">>
Emoji == <<"<", ":", "a", ":", "9", ">">>
Between == {<<>>, <<"space">>, <<"a">>, <<"space", "a", "space">>, <<"a", "!">>}
Around == {User, Role, Channel, Emoji, <<"<", "@", "!", "a", ">">>, <<"a">>}

MCMessages ==
  {m \in TextsOf({"a", "space", "<", ">", ":"}, 4) : m # <<>> => m[1] # "space" /\ m[Len(m)] # "space"}
    \cup {m \o b \o n : m \in Around, b \in Between, n \in Around}
    \cup {<<"tick", "space">> \o User, <<"tick", "space">> \o User \o <<"space", "tick">>,
          <<"<", "space">> \o User \o <<"space", ">", ">">>}

(* A name may have a space in it, or begin like the mention of a role. *)
MCUserNames == {Unknown, <<"a", "space", "a">>, <<"&", "a">>}
MCNames == {Unknown, <<"a">>}
=============================================================================
