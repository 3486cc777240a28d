---------------------------- MODULE ReceivedText ----------------------------
(***************************************************************************)
(* From the text of a message to what is learnt of it: the contents the    *)
(* Discord driver writes out (DiscordText) are what raw_messages keeps and *)
(* what LearnString tokenizes for the variant discord (Tokenizer).  Texts  *)
(* of the other variants come as they are: from Slack, from log files and  *)
(* from books.                                                             *)
(***************************************************************************)
EXTENDS Tokenizer, DiscordText

textVars == <<tokenVars, readingVars>>

TextInit ==
  \/ NotReading /\ TokenizeInit
  \/ /\ ReadInit
     /\ variant = "discord" /\ runes = <<>> /\ phase = "waiting"
     /\ pos = 0 /\ mark = 0 /\ tokens = <<>> /\ cur = NoToken /\ num = FALSE
     /\ parsed = <<>> /\ simple = <<>>

(* LearnString tokenizes the contents. *)
Learn ==
  /\ reading = "read" /\ phase = "waiting"
  /\ runes' = TokenizePrep(contents)
  /\ phase' = IF TokenizePrep(contents) = <<>> THEN "simplify" ELSE "scan"
  /\ UNCHANGED <<variant, pos, mark, tokens, cur, num, parsed, simple, readingVars>>

TextNext ==
  \/ Learn
  \/ ReadStep /\ UNCHANGED tokenVars
  \/ TokenizeNext /\ UNCHANGED readingVars

TextSpec == TextInit /\ [][TextNext]_textVars /\ WF_textVars(TextNext)

-----------------------------------------------------------------------------
(* What the tokenizer takes for a mention is learnt as one, and so is       *)
(* someone who is mentioned in a word of their own, but in code or between   *)
(* brackets: what the driver writes for <@id> is what the tokenizer takes    *)
(* for one, or for one of a role if the name begins like one                 *)
(* (translateParsedMessage, parseWordForChat).  A mention of a role is not:  *)
(* it is written with a sign the tokenizer does not look for.                *)
Lone(k) ==
  /\ Rune(k) = "<" /\ Rune(k + 1) = "@" /\ Rune(k + 2) = "a" /\ Rune(k + 3) = ">"
  /\ k = 0 \/ Rune(k - 1) = "space"
  /\ k + 4 = Len(raw) \/ Rune(k + 4) = "space"
Encloses ==
  \E i, j \in 0 .. Size - 1 :
    i < j /\ <<RuneAt(i), RuneAt(j)>> \in {<<"<", ">">>, <<"tick", "tick">>}
MentionsReachTheModel ==
  /\ MentionsAreLearned
  /\ phase = "done" /\ ~Encloses =>
       Cardinality({k \in 0 .. Len(raw) - 1 : Lone(k)})
         <= Cardinality({n \in DOMAIN simple : simple[n].type \in {"MentionUser", "MentionRole"}})

(* Reading and tokenizing end, unless the process does: no loop's position  *)
(* goes back.                                                               *)
TextsEnd == <>(phase = "done" \/ reading = "panicked")
=============================================================================
