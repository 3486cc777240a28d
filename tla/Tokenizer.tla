------------------------------ MODULE Tokenizer ------------------------------
(***************************************************************************)
(* What the Markov models learn of a text (internal/cleaner): Tokenize     *)
(* scans the runes once and cuts them into words, spaces, and the markup   *)
(* of the chat's variant; every word and piece of markup is then parsed    *)
(* further; GetSimpleTokenList joins what is left into the words and       *)
(* sentence ends the learner takes.                                        *)
(*                                                                         *)
(* A rune is a character class: "a" any letter, "9" any digit, "!" also    *)
(* stands for "?" at the end of a sentence, and so on.  A token is the     *)
(* range [from, to) of runes that is its value; StartPos and EndPos are    *)
(* only printed.  One turn of a loop is one step.                          *)
(***************************************************************************)
EXTENDS Integers, Sequences, FiniteSets, SequencesExt, Subsequences

CONSTANTS Texts,      \* the texts to tokenize, sequences of runes
          Variants    \* and the variants they are tokenized for

Chat == {"slack", "discord", "matrix"}
Simple == {"plain"}     \* Book, Sonnet and Bible are cut in the same way
ASSUME TokenizerConstants ==
  /\ Variants \subseteq Chat \cup Simple \cup {"twitter", "xmpp"}
  /\ Texts \subseteq Seq(STRING)

VARIABLES
  variant,
  runes,      \* the prepared text
  phase,      \* "scan", "parse", "simplify", "done"
  pos, mark,  \* the position, and lastSpace (p1 while a word is parsed)
  tokens,     \* what the scan has found
  cur,        \* the token that is parsed, or NoToken
  num,        \* isNum: the parser is in a number
  parsed,     \* the tokens of the TokenList
  simple      \* the simple tokens

tokenVars == <<variant, runes, phase, pos, mark, tokens, cur, num, parsed, simple>>

Nil == "nil"
Space == "space"
NewLine == "nl"
Quotes == {"'", "\""}
Brackets == {"(", ")", "{", "}", "[", "]"}
SentenceEnds == {"!", "?"}

Token(type, from, to) == [type |-> type, from |-> from, to |-> to]
NoToken == Token("none", 0, 0)

Size == Len(runes)
RuneAt(p) == IF p \in 0 .. Size - 1 THEN runes[p + 1] ELSE Nil

(* peekUntil, inlinePeekUntil and peekUntilSet: -1 where there is none. *)
PeekUntil(p, end, set) ==
  LET found == {k \in p .. end - 1 : RuneAt(k) \in set}
  IN IF found = {} THEN -1 ELSE CHOOSE k \in found : \A j \in found : k <= j

(* The first position from p on that is not in set, at most end. *)
SkipAll(p, end, set) ==
  CHOOSE k \in p .. end : /\ \A j \in p .. k - 1 : RuneAt(j) \in set
                          /\ k = end \/ RuneAt(k) \notin set

-----------------------------------------------------------------------------
(* TokenizePrep: surrounding white space goes, then what is unwanted, and a *)
(* run of spaces and tabs is one space.                                     *)
White == {Space, NewLine, "tab", "cr"}
Unwanted == {Nil, "zero", "cr"}
TrimBoth(s, set) ==
  LET inner == {i \in DOMAIN s : s[i] \notin set}
  IN IF inner = {} THEN <<>> ELSE SubSeq(s, Min(inner), Max(inner))

Replaced(s) == [i \in DOMAIN s |-> IF s[i] = "tab" THEN Space ELSE s[i]]
Doubled(s, i) ==
  s[i] = Space /\ \E j \in 1 .. i - 1 : s[j] = Space /\ \A k \in j + 1 .. i - 1 : s[k] \in Unwanted
TokenizePrep(text) ==
  LET s == Replaced(TrimBoth(text, White))
  IN Kept(s, {i \in DOMAIN s : s[i] \notin Unwanted /\ ~Doubled(s, i)})

TokenizeInit ==
  /\ variant \in Variants
  /\ \E t \in Texts : runes = TokenizePrep(t)
  /\ phase = IF runes = <<>> THEN "simplify" ELSE "scan"
  /\ pos = 0 /\ mark = 0
  /\ tokens = <<>> /\ cur = NoToken /\ num = FALSE
  /\ parsed = <<>> /\ simple = <<>>

-----------------------------------------------------------------------------
(***************************************************************************)
(* The scan of Tokenize.  (Nothing sets inBrace.)                          *)
(***************************************************************************)
IsMarkdown == variant \in Chat \cup {"twitter"}
IsEmoji == variant \in {"slack", "discord", "xmpp"}

(* The runes since the last token are a word, if there are any. *)
WordBefore == IF pos # mark THEN <<Token("Word", mark, pos)>> ELSE <<>>

Scan(found, next, from) ==
  /\ tokens' = tokens \o found /\ pos' = next /\ mark' = from
  /\ UNCHANGED <<variant, runes, phase, cur, num, parsed, simple>>
ScanOn == Scan(<<>>, pos + 1, mark)

Scanning(set) == phase = "scan" /\ pos <= Size /\ RuneAt(pos) \in set

ScanEnd ==
  /\ phase = "scan" /\ pos = Size
  /\ tokens' = tokens \o WordBefore \o <<Token("EOL", pos, pos)>>
  /\ phase' = "parse"
  /\ UNCHANGED <<variant, runes, pos, mark, cur, num, parsed, simple>>

ScanSpace ==
  /\ Scanning({Space, NewLine})
  /\ LET type == IF RuneAt(pos) = NewLine THEN "NewLine" ELSE "Space"
     IN Scan(WordBefore \o <<Token(type, pos, pos + 1)>>, pos + 1, pos + 1)

Count(from, to, set) == Cardinality({k \in from .. to - 1 : RuneAt(k) \in set})
IsMaybeTimestamp(from, to) ==
  LET colons == Count(from, to, {":"})  numbers == Count(from, to, {"9"})
  IN \/ colons > 0 /\ colons + numbers = to - from
     \/ colons = 2 /\ numbers > 2

(* A log line may begin with the time in parentheses. *)
ScanTimestamp ==
  /\ Scanning({"("})
  /\ LET end == PeekUntil(pos + 1, Size, {")"})
     IN IF variant = "xmpp" /\ pos = 0 /\ end > 0 /\ IsMaybeTimestamp(pos, end + 1)
        THEN Scan(<<Token("Special", pos, end + 1)>>, end + 1, end + 1)
        ELSE ScanOn

ScanBrace ==
  /\ Scanning({"<"})
  /\ LET end == PeekUntil(pos + 1, Size, {">"})
     IN IF variant \in Simple \/ end < 0 THEN ScanOn
        ELSE Scan(WordBefore \o <<Token("Special", pos, end + 1)>>, end + 1, end + 1)

Backtick == {"tick"}
ThreeAt(p) == \A k \in 0 .. 2 : RuneAt(p + k) = "tick"

ScanCodeBlock ==
  /\ Scanning(Backtick) /\ IsMarkdown /\ ThreeAt(pos) /\ Size > pos + 3
  /\ LET ends == {k \in pos + 3 .. Size - 1 : ThreeAt(k)}
         end == CHOOSE k \in ends : \A j \in ends : k <= j
     IN IF ends = {}
        THEN Scan(WordBefore \o <<Token("Malformed", pos, Size)>>, Size, Size)
        ELSE Scan(WordBefore \o <<Token("Special", pos, end + 3)>>, end + 3, end + 3)

(* A backtick that opens nothing is not part of a word it follows. *)
ScanCode ==
  /\ Scanning(Backtick) /\ ~(IsMarkdown /\ ThreeAt(pos) /\ Size > pos + 3)
  /\ LET next == PeekUntil(pos + 1, Size, Backtick)
         ticks == SkipAll(next, Size, Backtick) - next
         closes == /\ next > pos
                   /\ \/ ticks = 1 \/ ticks % 2 = 0
                      \/ PeekUntil(next + ticks + 1, Size, Backtick) < 0
     IN CASE ~IsMarkdown -> ScanOn
          [] IsMarkdown /\ closes ->
               Scan(WordBefore \o <<Token("Special", pos, next + 1)>>, next + 1, next + 1)
          [] OTHER -> Scan(WordBefore, pos + 1, IF pos # mark THEN pos + 1 ELSE mark)

ScanColonSharing ==   \* mutant: the closing colon is also the next token's
  /\ Scanning({":"})
  /\ LET end == PeekUntil(pos + 2, Size, {":", Space, "?", "/", NewLine, "tick"})
     IN IF IsEmoji /\ RuneAt(pos + 1) \notin {Space, ":"} /\ end >= 0 /\ RuneAt(end) = ":"
        THEN Scan(WordBefore \o <<Token("Emoticon", pos, end + 1)>>, end + 1, end)
        ELSE ScanOn

(* Two colons close enough are an emoticon. *)
ScanColon ==
  /\ Scanning({":"})
  /\ LET end == PeekUntil(pos + 2, Size, {":", Space, "?", "/", NewLine, "tick"})
     IN IF IsEmoji /\ RuneAt(pos + 1) \notin {Space, ":"} /\ end >= 0 /\ RuneAt(end) = ":"
        THEN Scan(WordBefore \o <<Token("Emoticon", pos, end + 1)>>, end + 1, end + 1)
        ELSE ScanOn

ScanOther ==
  /\ phase = "scan" /\ pos < Size
  /\ RuneAt(pos) \notin {Space, NewLine, "(", "<", "tick", ":"}
  /\ ScanOn

-----------------------------------------------------------------------------
(***************************************************************************)
(* Token.Parse                                                             *)
(***************************************************************************)
(* t's runes; the value of a token ends where the token does. *)
ValueAt(t, p) == IF p \in t.from .. t.to - 1 THEN RuneAt(p) ELSE Nil
HasPrefix(t, prefix) == \A i \in DOMAIN prefix : ValueAt(t, t.from + i - 1) = prefix[i]
IsURL(t) == HasPrefix(t, <<"h", ":", "/", "/">>)     \* "h" for http and https
LongerThanOne(t) == t.to - t.from > 1

As(t, type) == <<Token(type, t.from, t.to)>>

parseTokenForXMPP(t) ==
  LET first == ValueAt(t, t.from)  last == ValueAt(t, t.to - 1)
  IN CASE LongerThanOne(t) /\ first = "<" /\ last = ">" -> <<>>
       [] LongerThanOne(t) /\ first = "!" -> As(t, "Command")
       [] LongerThanOne(t) /\ first = "@" -> As(t, "MentionUser")
       [] Count(t.from, t.to, {"9", ".", "%"}) = t.to - t.from -> As(t, "Number")
       [] IsMaybeTimestamp(t.from, t.to) -> <<>>
       [] IsURL(t) -> As(t, "URL")
       [] OTHER -> <<t>>

parseWordForTwitter(t) ==
  CASE HasPrefix(t, <<"RT">>) /\ ~LongerThanOne(t) -> As(t, "Special")
    [] IsURL(t) -> As(t, "URL")
    [] HasPrefix(t, <<"@">>) -> As(t, "MentionUser")
    [] HasPrefix(t, <<"#">>) -> As(t, "HashTag")
    [] OTHER -> <<t>>

parseWordForPlain(t) ==
  IF ValueAt(t, t.to - 1) = "%" /\ Count(t.from, t.to - 1, {"9"}) = t.to - 1 - t.from
  THEN As(t, "Number") ELSE <<t>>

(* <@user>, <#channel> and links, each with an optional "|" and what to show. *)
MentionOf(t, p) ==
  CASE ValueAt(t, p + 1) = ":" /\ variant = "discord" -> "Emoticon"
    [] ValueAt(t, p + 1) = "@" /\ ValueAt(t, p + 2) = "&" /\ variant = "discord" -> "MentionRole"
    [] ValueAt(t, p + 1) = "@" -> "MentionUser"
    [] ValueAt(t, p + 1) = "#" -> "MentionChannel"
    [] OTHER -> "URL"

(* What is found at a "<" of the markup, and where its loop goes on from. *)
AngleBracket(t, p) ==
  LET type == MentionOf(t, p)
      mid == PeekUntil(p + 1, t.to, {"|"})
      end == PeekUntil(p + 1, t.to, {">"})
      colon == PeekUntil(p + 2, t.to, {":"})
      stop == PeekUntil(p + 2, t.to, {Space, ">"})
      emojiEnd == IF stop < 0 THEN t.to ELSE stop
      malformed == [found |-> <<Token("Malformed", p, t.to)>>, next |-> t.to, mark |-> t.to]
      upTo(to, e) == [found |-> <<Token(type, p + 1, to)>>, next |-> e + 1, mark |-> e + 1]
  IN CASE type = "MentionRole" ->
            [found |-> <<Token(type, p, t.to)>>, next |-> p + 1, mark |-> -1]
       [] type = "Emoticon" /\ colon < 0 -> malformed
       [] type = "Emoticon" /\ ~(colon < 0) ->
            upTo(IF colon < emojiEnd THEN colon + 1 ELSE emojiEnd, emojiEnd)
       [] type \notin {"MentionRole", "Emoticon"} /\ end < 0 -> malformed
       [] type \notin {"MentionRole", "Emoticon"} /\ ~(end < 0) ->
            upTo(IF mid >= 0 /\ mid < end THEN mid ELSE end, end)

IsCode(t) == RuneAt(t.from) = "tick" /\ RuneAt(t.to - 1) = "tick"

(* What most tokens are parsed to at once; {} for those a loop goes through. *)
ParsedAtOnce(t) ==
  CASE t.type \in {"Space", "NewLine", "EOL", "Emoticon"} -> {<<t>>}
    [] t.type = "Malformed" -> {<<Token("Malformed", 0, 0)>>}
    [] t.type = "Word" /\ variant \in Chat -> IF IsURL(t) THEN {As(t, "URL")} ELSE {}
    [] t.type = "Word" /\ variant = "twitter" -> {parseWordForTwitter(t)}
    [] t.type = "Word" /\ variant \in Simple -> {parseWordForPlain(t)}
    [] t.type \in {"Word", "Special"} /\ variant = "xmpp" -> {parseTokenForXMPP(t)}
    [] t.type = "Special" /\ variant \in {"twitter", "matrix"} -> {<<t>>}
    [] t.type = "Special" /\ variant = "slack" -> IF IsCode(t) THEN {As(t, "Code")} ELSE {}
    [] OTHER -> IF t.to - t.from = 2 THEN {As(t, "Word")} ELSE {}

-----------------------------------------------------------------------------
(* Tokenize parses the tokens in turn, and drops a space in the first place. *)
DropFirstSpace(list) ==
  IF list # <<>> /\ Head(list).type = "Space" THEN Tail(list) ELSE list

ParseAtOnce ==
  /\ phase = "parse" /\ cur = NoToken /\ tokens # <<>>
  /\ \E out \in ParsedAtOnce(Head(tokens)) : parsed' = parsed \o out
  /\ tokens' = Tail(tokens)
  /\ UNCHANGED <<variant, runes, phase, pos, mark, cur, num, simple>>

BeginLoop ==
  /\ phase = "parse" /\ cur = NoToken /\ tokens # <<>> /\ ParsedAtOnce(Head(tokens)) = {}
  /\ cur' = Head(tokens) /\ tokens' = Tail(tokens)
  /\ pos' = Head(tokens).from /\ mark' = Head(tokens).from /\ num' = FALSE
  /\ UNCHANGED <<variant, runes, phase, parsed, simple>>

ParseEnds ==
  /\ phase = "parse" /\ cur = NoToken /\ tokens = <<>>
  /\ phase' = "simplify" /\ pos' = 0 /\ mark' = 0
  /\ parsed' = DropFirstSpace(parsed)
  /\ UNCHANGED <<variant, runes, tokens, cur, num, simple>>

Parse(found, next, from, isNum) ==
  /\ parsed' = parsed \o found /\ pos' = next /\ mark' = from /\ num' = isNum
  /\ UNCHANGED <<variant, runes, phase, tokens, cur, simple>>

Here == ValueAt(cur, pos)
InWord(set) == phase = "parse" /\ cur.type = "Word" /\ Here \in set
InMarkup == phase = "parse" /\ cur.type = "Special"

(* parseSpecialForDiscord, parseSpecialForSlack *)
MarkupBracket ==
  /\ InMarkup /\ Here = "<"
  /\ LET found == AngleBracket(cur, pos)
         before == IF pos # mark THEN <<Token("Word", mark, pos)>> ELSE <<>>
     IN Parse(before \o found.found, found.next,
              IF found.mark >= 0 THEN found.mark ELSE IF pos # mark THEN pos + 1 ELSE mark, FALSE)
MarkupOther == InMarkup /\ pos <= cur.to /\ Here \notin {"<"} /\ Parse(<<>>, pos + 1, mark, FALSE)

LoopEnds ==
  /\ phase = "parse" /\ cur # NoToken /\ pos > cur.to
  /\ cur' = NoToken /\ num' = FALSE /\ pos' = 0 /\ mark' = 0
  /\ UNCHANGED <<variant, runes, phase, tokens, parsed, simple>>

-----------------------------------------------------------------------------
(***************************************************************************)
(* parseWordForChat                                                        *)
(***************************************************************************)
Plain(type) == IF pos # mark THEN <<Token(type, mark, pos)>> ELSE <<>>
WordOrNumber == Plain(IF num THEN "Number" ELSE "Word")

ChatMention ==
  /\ InWord({"@", "#"})
  /\ LET type == CASE ValueAt(cur, pos + 1) = "&" -> "MentionRole"
                   [] ValueAt(cur, pos + 1) # "&" /\ Here = "@" -> "MentionUser"
                   [] OTHER -> "MentionChannel"
     IN IF variant = "matrix" THEN Parse(<<>>, pos + 1, mark, num)
        ELSE Parse(<<Token(type, pos, cur.to)>>, cur.to + 1, cur.to + 1, num)

ChatDigit ==
  /\ InWord({"9", "comma"})
  /\ IF num \/ Here = "comma" THEN Parse(<<>>, pos + 1, mark, num)
     ELSE Parse(Plain("Word"), pos + 1, pos, TRUE)

ChatPointInNumber ==
  /\ InWord({"."}) /\ num
  /\ IF ValueAt(cur, pos + 1) = "9" THEN Parse(<<>>, pos + 1, mark, TRUE)
     ELSE Parse(<<Token("Number", mark, pos)>>, pos + 1, pos + 1, FALSE)

(* After an ellipsis the next rune is passed over but stays in the word;  *)
(* after the end of a sentence it is lost.                                *)
ChatPeriod ==
  /\ InWord({"."}) /\ ~num
  /\ LET next == ValueAt(cur, pos + 1)
         dots == SkipAll(pos + 1, cur.to, {"."})
         end == SkipAll(pos + 1, cur.to, SentenceEnds \cup {"."})
     IN CASE next = "." ->
               Parse(Plain("Word") \o <<Token("Ellipsis", pos, dots)>>, dots + 1, dots, FALSE)
          [] next \in SentenceEnds ->
               Parse(Plain("Word") \o <<Token("SentEnd", pos, end)>>, end + 1, end + 1, FALSE)
          [] OTHER ->
               Parse(Plain("Word") \o <<Token("Period", pos, pos + 1)>>, pos + 1, pos + 1, FALSE)

ChatSentEnd ==
  /\ InWord(SentenceEnds)
  /\ LET end == SkipAll(pos + 1, cur.to, SentenceEnds \cup {"."})
     IN Parse(WordOrNumber \o <<Token("SentEnd", pos, end)>>, end + 1, end + 1, FALSE)

(* p1 stays where it is: what is before the bracket is also part of the next *)
(* word.                                                                     *)
ChatBracket ==
  /\ InWord(Brackets)
  /\ Parse(WordOrNumber \o <<Token("Bracket", pos, pos + 1)>>, pos + 1, mark, FALSE)

ChatQuote ==
  /\ InWord(Quotes)
  /\ LET opens == ValueAt(cur, pos - 1) \in {Space, Nil}
         closes == ~opens /\ ValueAt(cur, pos + 1) \in {Space, Nil}
         number == IF num THEN Plain("Number") ELSE <<>>
         word == IF closes THEN WordOrNumber ELSE <<>>
     IN IF opens \/ closes
        THEN Parse(number \o word \o <<Token("Quote", pos, pos + 1)>>, pos + 1, pos + 1, FALSE)
        ELSE Parse(number, pos + 1, mark, FALSE)

ChatEnd == InWord({Nil}) /\ pos = cur.to /\ Parse(WordOrNumber, pos + 1, mark, FALSE)

ChatOther ==
  /\ phase = "parse" /\ cur.type = "Word" /\ pos < cur.to
  /\ Here \notin {"@", "#", "9", "comma", "."} \cup SentenceEnds \cup Brackets \cup Quotes
  /\ IF num THEN Parse(<<Token("Number", mark, pos)>>, pos + 1, pos, FALSE)
            ELSE Parse(<<>>, pos + 1, mark, FALSE)

ParseStep ==
  \/ ParseAtOnce \/ BeginLoop \/ ParseEnds \/ LoopEnds \/ MarkupBracket \/ MarkupOther
  \/ ChatMention \/ ChatDigit \/ ChatPointInNumber \/ ChatPeriod \/ ChatSentEnd
  \/ ChatBracket \/ ChatQuote \/ ChatEnd \/ ChatOther

-----------------------------------------------------------------------------
(***************************************************************************)
(* GetSimpleTokenList                                                      *)
(***************************************************************************)
Fillers == {"URL", "Emoticon", "MentionUser", "MentionRole", "MentionChannel", "HashTag"}
Ends == {"SentEnd", "Period", "Ellipsis"}
Wordy == {"Word", "Number", "Command"}

TokenAt(p) == parsed[p + 1]
isWordConsumableToken(t) == t.type \in Wordy \cup Ends

SimpleToken(type, parts) == [type |-> type, parts |-> parts]

Simplify(found, next) ==
  /\ simple' = simple \o found /\ pos' = next
  /\ UNCHANGED <<variant, runes, phase, mark, tokens, cur, num, parsed>>

Simplifying(types) ==
  phase = "simplify" /\ pos < Len(parsed) /\ TokenAt(pos).type \in types

SimpleEnd == Simplifying(Ends) /\ Simplify(<<SimpleToken("SentEnd", <<TokenAt(pos)>>)>>, pos + 1)
SimpleFiller ==
  Simplifying(Fillers) /\ Simplify(<<SimpleToken(TokenAt(pos).type, <<TokenAt(pos)>>)>>, pos + 1)

(* A word takes in what is glued to it, ends of sentences too, and the loop *)
(* goes on after the token that ended it.                                   *)
SimpleWord ==
  /\ Simplifying(Wordy)
  /\ LET glued == CHOOSE p \in pos + 1 .. Len(parsed) :
                    /\ \A k \in pos + 1 .. p - 1 : isWordConsumableToken(TokenAt(k))
                    /\ p = Len(parsed) \/ ~isWordConsumableToken(TokenAt(p))
     IN Simplify(<<SimpleToken("Word", SubSeq(parsed, pos + 1, glued))>>, glued + 1)

SimpleNothingStaying ==   \* mutant: what is left out is not passed over
  Simplifying({"Space", "NewLine", "Quote", "Bracket", "Malformed", "Code", "Special"})
    /\ Simplify(<<>>, pos)

SimpleNothing ==
  Simplifying({"Space", "NewLine", "Quote", "Bracket", "Malformed", "Code", "Special"})
    /\ Simplify(<<>>, pos + 1)

(* cleanWord drops some runes and trims others; a token with nothing left is *)
(* dropped.                                                                  *)
Dropped == {"<", ">", "_", "*"}
Trimmed == {"\\", "comma", ":", "/", Space} \cup Quotes
cleanWordLeaves(t) == \E k \in t.from .. t.to - 1 : RuneAt(k) \notin Dropped \cup Trimmed

SimplifyEnds ==
  /\ phase = "simplify" /\ (pos < Len(parsed) => TokenAt(pos).type = "EOL")
  /\ simple' = Kept(simple, {n \in DOMAIN simple : \E i \in DOMAIN simple[n].parts :
                                                       cleanWordLeaves(simple[n].parts[i])})
  /\ phase' = "done"
  /\ UNCHANGED <<variant, runes, pos, mark, tokens, cur, num, parsed>>

-----------------------------------------------------------------------------
TokenizeNext ==
  \/ ScanEnd \/ ScanSpace \/ ScanTimestamp \/ ScanBrace \/ ScanCodeBlock \/ ScanCode
  \/ ScanColon \/ ScanOther
  \/ ParseStep
  \/ SimpleEnd \/ SimpleFiller \/ SimpleWord \/ SimpleNothing \/ SimplifyEnds

-----------------------------------------------------------------------------
(***************************************************************************)
(* Correctness                                                             *)
(***************************************************************************)
Within(t, k) == k \in t.from .. t.to - 1

(* The scan cuts the text up: its tokens follow one another, and every rune  *)
(* before lastSpace is in exactly one of them, unless it is a backtick that  *)
(* opens nothing, which is in none (the jumps of pos and lastSpace in        *)
(* Tokenize).                                                                *)
ScanCutsUpTheText ==
  phase = "scan" =>
    /\ mark <= pos /\ pos <= Size
    /\ \A i \in 1 .. Len(tokens) - 1 : tokens[i].to <= tokens[i + 1].from
    /\ \A k \in 0 .. mark - 1 :
         \/ Cardinality({i \in DOMAIN tokens : Within(tokens[i], k)}) = 1
         \/ RuneAt(k) = "tick" /\ \A i \in DOMAIN tokens : ~Within(tokens[i], k)

(* In a text of a chat without markup, a letter is in no token only if it    *)
(* follows the end of a sentence without a space, or stands in a word before *)
(* an @ or a #, and in two only if a bracket or a quote follows it in its    *)
(* word (the jumps of pos and p1 in parseWordForChat).                       *)
Letters == {"a", "9"}
SameWord(k, j) == k < j /\ \A i \in k .. j : RuneAt(i) \notin {Space, NewLine}
WordHas(k, set) == \E j \in k + 1 .. Size - 1 : SameWord(k, j) /\ RuneAt(j) \in set
LettersAreKept ==
  phase = "simplify" /\ pos = 0 /\ variant \in Chat /\ Count(0, Size, {"<", "tick", ":"}) = 0 =>
    \A k \in 0 .. Size - 1 :
      RuneAt(k) \in Letters =>
        LET holders == {i \in DOMAIN parsed : Within(parsed[i], k)}
        IN /\ holders = {} => RuneAt(k - 1) \in SentenceEnds \cup {"."} \/ WordHas(k, {"@", "#"})
           /\ Cardinality(holders) > 1 => WordHas(k, Brackets \cup Quotes)

(* A mention, link or emoticon is learnt as such unless it is glued to the   *)
(* end of a word, and nothing else is taken for one (GetSimpleTokenList).    *)
GluedToWord(i) ==
  \E j \in 1 .. i - 1 : /\ parsed[j].type \in Wordy
                        /\ \A k \in j .. i - 1 : isWordConsumableToken(parsed[k])
MentionsAreLearned ==
  phase = "done" =>
    LET learnt == {i \in DOMAIN parsed : /\ parsed[i].type \in Fillers /\ ~GluedToWord(i)
                                         /\ cleanWordLeaves(parsed[i])}
        simpleFillers == {n \in DOMAIN simple : simple[n].type \in Fillers}
    IN /\ {parsed[i] : i \in learnt} = {simple[n].parts[1] : n \in simpleFillers}
       /\ Cardinality(learnt) = Cardinality(simpleFillers)

(* No rune is dropped by the scan, and no letter by the parser.              *)
RunesAreKept == ScanCutsUpTheText /\ LettersAreKept
=============================================================================
