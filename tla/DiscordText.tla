----------------------------- MODULE DiscordText -----------------------------
(***************************************************************************)
(* What the bot makes of the text of a Discord message                     *)
(* (internal/accord/message_parsing.go): the text is cut at its spaces,    *)
(* every piece is searched for markup, <@user>, <@&role>, <#channel> and   *)
(* <:emoji:id>, and what was found is written out with the names the       *)
(* caches of the guild hold.                                               *)
(*                                                                         *)
(* A rune is a character class as in Tokenizer.  A token is the range      *)
(* [from, to) of the runes that are its value; its name is what is written *)
(* out for it: the id of a mention, the :emoji: of an emoticon.  One turn  *)
(* of a loop is one step.                                                  *)
(***************************************************************************)
EXTENDS Integers, Sequences, FiniteSets, SequencesExt

CONSTANTS Messages,   \* contents of messages, trimmed: sequences of runes
          UserNames, RoleNames, ChannelNames   \* names the caches may give; Unknown for none

CONSTANT Unknown

ASSUME TextConstants ==
  /\ Messages \subseteq Seq(STRING)
  /\ (UserNames \cup RoleNames \cup ChannelNames) \ {Unknown} \subseteq Seq(STRING)

VARIABLES
  raw,        \* the contents
  reading,    \* "off", "pieces", "names", "read", "panicked"
  from, to,   \* the piece that is parsed, runes [from, to)
  place,      \* pos, in raw
  start,
  inBracket,
  found,      \* the tokens
  contents    \* the text written out so far

readingVars == <<raw, reading, from, to, place, start, inBracket, found, contents>>

Nothing == -1
Rune(k) == IF k \in 0 .. Len(raw) - 1 THEN raw[k + 1] ELSE "end"
Runes(a, b) == SubSeq(raw, a + 1, b)

(* The first of the set of runes from position k on, before the end. *)
FindRune(k, end, set) ==
  LET there == {j \in k .. end - 1 : Rune(j) \in set}
  IN IF there = {} THEN Nothing ELSE CHOOSE j \in there : \A i \in there : j <= i

PieceEnd(k) == LET space == FindRune(k, Len(raw), {"space"})
               IN IF space = Nothing THEN Len(raw) ELSE space

Piece(k) == from' = k /\ to' = PieceEnd(k) /\ place' = k /\ start' = k

ReadInit ==
  /\ raw \in Messages /\ reading = "pieces"
  /\ from = 0 /\ to = PieceEnd(0) /\ place = 0 /\ start = 0 /\ inBracket = FALSE
  /\ found = <<>> /\ contents = <<>>

NotReading ==
  /\ raw = <<>> /\ reading = "off" /\ from = 0 /\ to = 0 /\ place = 0 /\ start = 0
  /\ inBracket = FALSE /\ found = <<>> /\ contents = <<>>

-----------------------------------------------------------------------------
(***************************************************************************)
(* parseDiscordPiece                                                       *)
(***************************************************************************)
PieceToken(type, a, b, name) == [type |-> type, from |-> a, to |-> b, name |-> name]
WordToken(a, b) == PieceToken("word", a, b, Runes(a, b))

ReadingPiece == reading = "pieces" /\ place <= to

PieceDone ==
  /\ ReadingPiece /\ place = to /\ from < to
  /\ found' = Append(found, WordToken(start, place)) /\ place' = place + 1
  /\ UNCHANGED <<raw, reading, from, to, start, inBracket, contents>>

BracketOpensAlone ==   \* mutant: what is before the bracket is left out
  /\ ReadingPiece /\ place < to /\ Rune(place) = "<"
  /\ inBracket' = TRUE /\ start' = place /\ place' = place + 1
  /\ UNCHANGED <<raw, reading, from, to, found, contents>>

(* All that is before the bracket in its piece is a word, whatever has been *)
(* made of it already.                                                      *)
BracketOpens ==
  /\ ReadingPiece /\ place < to /\ Rune(place) = "<"
  /\ found' = IF place > from THEN Append(found, WordToken(from, place)) ELSE found
  /\ inBracket' = TRUE /\ start' = place /\ place' = place + 1
  /\ UNCHANGED <<raw, reading, from, to, contents>>

(* The markup in the runes [start, end); an unknown one is left out. *)
Markup(end) ==
  LET first == Rune(start + 1)  second == Rune(start + 2)
      colon == FindRune(start + 2, end, {":"})
      after == IF second \in {"!", "&"} THEN start + 3 ELSE start + 2
  IN CASE first = "@" ->
            <<PieceToken(IF second = "&" THEN "role" ELSE "user", start, end, Runes(after, end - 1))>>
       [] first = "#" -> <<PieceToken("channel", start, end, Runes(start + 2, end - 1))>>
       [] first = ":" -> <<PieceToken("emoticon", start, end, Runes(start + 1, colon + 1))>>
       [] OTHER -> <<>>

(* The slice of an emoji without a second colon ends before it begins. *)
Malformed(end) == Rune(start + 1) = ":" /\ FindRune(start + 2, end, {":"}) = Nothing

AtClosing == ReadingPiece /\ place < to /\ Rune(place) = ">"

(* What is before a bracket that closes nothing is left out, and the rune  *)
(* after any closing bracket is not looked at.                             *)
BracketCloses ==
  /\ AtClosing /\ ~(inBracket /\ Malformed(place + 1))
  /\ found' = IF inBracket THEN found \o Markup(place + 1) ELSE found
  /\ inBracket' = FALSE /\ start' = place + 1 /\ place' = place + 2
  /\ UNCHANGED <<raw, reading, from, to, contents>>

EmojiPanics ==
  /\ AtClosing /\ inBracket /\ Malformed(place + 1)
  /\ reading' = "panicked"
  /\ UNCHANGED <<raw, from, to, place, start, inBracket, found, contents>>

PlainRune ==
  /\ ReadingPiece /\ place < to /\ Rune(place) \notin {"<", ">"}
  /\ place' = place + 1
  /\ UNCHANGED <<raw, reading, from, to, start, inBracket, found, contents>>

-----------------------------------------------------------------------------
(***************************************************************************)
(* parseDiscordMessage: a piece, the space after it, the next piece.       *)
(***************************************************************************)
PieceRead == reading = "pieces" /\ (place > to \/ from = to)

NextPiece ==
  /\ PieceRead /\ to < Len(raw)
  /\ found' = Append(found, WordToken(to, to + 1))
  /\ Piece(to + 1) /\ inBracket' = FALSE
  /\ UNCHANGED <<raw, reading, contents>>

AllPieces ==
  /\ PieceRead /\ to = Len(raw)
  /\ reading' = "names"
  /\ UNCHANGED <<raw, from, to, place, start, inBracket, found, contents>>

-----------------------------------------------------------------------------
(***************************************************************************)
(* translateParsedMessage                                                  *)
(***************************************************************************)
Named(sign, name, id) == <<sign>> \o (IF name = Unknown THEN id ELSE name)

WrittenBare(t, name) ==   \* mutant: the sign of a mention is left out
  CASE t.type \in {"user", "role", "channel"} -> IF name = Unknown THEN t.name ELSE name
    [] OTHER -> t.name

(* GetChannelName answers with a sign of its own, and only that for a      *)
(* channel it does not know.                                               *)
Written(t, name) ==
  CASE t.type = "user" -> Named("@", name, t.name)
    [] t.type = "role" -> Named("&", name, t.name)
    [] t.type = "channel" -> <<"#", "@">> \o (IF name = Unknown THEN <<>> ELSE name)
    [] OTHER -> t.name

NamesFor(t) ==
  CASE t.type = "user" -> UserNames
    [] t.type = "role" -> RoleNames
    [] t.type = "channel" -> ChannelNames
    [] OTHER -> {Unknown}

WriteToken ==
  /\ reading = "names" /\ found # <<>>
  /\ \E name \in NamesFor(Head(found)) : contents' = contents \o Written(Head(found), name)
  /\ found' = Tail(found)
  /\ UNCHANGED <<raw, reading, from, to, place, start, inBracket>>

AllWritten ==
  /\ reading = "names" /\ found = <<>>
  /\ reading' = "read"
  /\ UNCHANGED <<raw, from, to, place, start, inBracket, found, contents>>

ReadStep ==
  \/ PieceDone \/ BracketOpens \/ BracketCloses \/ EmojiPanics \/ PlainRune
  \/ NextPiece \/ AllPieces \/ WriteToken \/ AllWritten

-----------------------------------------------------------------------------
(* A rune of the text is lost only before a closing bracket of its piece,   *)
(* and is in the text twice only before a second opening one (the slices of *)
(* parseDiscordPiece).                                                      *)
InPiece(k, j) == k <= j /\ \A i \in k .. j : Rune(i) # "space"
Before(k, rune) == \E j \in k .. Len(raw) - 1 : InPiece(k, j) /\ Rune(j) = rune
NothingIsLost ==
  reading = "names" /\ contents = <<>> =>
    \A k \in 0 .. Len(raw) - 1 :
      LET holders == {i \in DOMAIN found : k \in found[i].from .. found[i].to - 1}
      IN /\ holders = {} => Before(k, ">")
         /\ Cardinality(holders) > 1 => Before(k, "<")
=============================================================================
