----------------------------- MODULE MarkovModel -----------------------------
(***************************************************************************)
(* The Markov model the bot speaks from (internal/markov3) as the message  *)
(* goroutines use it (internal/triggers/markov.go).  Learning and          *)
(* rebuilding run under learningMutex and write the maps and slices of the *)
(* model one after another; generating reads them without a lock, between  *)
(* any two of those writes.  One write is one step, and so is one read of  *)
(* a map, or a few reads in a row that only a rebuild could tell apart.    *)
(*                                                                         *)
(* A stored row is a sequence of tokens; what the tokenizer makes of a     *)
(* text is the subject of module Tokenizer.  A panic in a handler is not   *)
(* recovered and ends the process.                                         *)
(***************************************************************************)
EXTENDS Naturals, Sequences, FiniteSets, SequencesExt

CONSTANTS
  Goroutines,        \* each does one job after the start
  JobsOf,            \* and these are the jobs it may get
  Words,             \* the words rows are made of
  Blank,             \* "", the word with id 0
  Unknown,           \* a word no row has
  Asked,             \* words a message may ask a text for
  SentEnd,           \* the token that ends a sentence
  Rows,              \* raw_messages_discord, in order of id
  MinChainDistance, MaxChainDistance,
  RunLimit,          \* limit of FollowChain, 20 in the code
  PickLimit,         \* draws for a word that has fragments, 10 in the code
  LearnLimit         \* attempts to learn when the model is empty, 10 in the code

Main == "main"
NoOne == "no one"
Jobs == {"generate", "m3", "load", "rebuild"}

ASSUME MarkovConstants ==
  /\ {Main, NoOne} \cap Goroutines = {}
  /\ JobsOf \in [Goroutines -> SUBSET Jobs]
  /\ Blank \notin Words \cup {SentEnd} /\ Unknown \notin Words \cup {Blank}
  /\ SentEnd \notin Words /\ Asked \subseteq Words \cup {Blank, Unknown}
  /\ Rows \in Seq(Seq(Words \cup {SentEnd}))
  /\ \A n \in {MinChainDistance, MaxChainDistance, RunLimit, PickLimit, LearnLimit} : n \in Nat

VARIABLES
  words, revWords,            \* word -> id, and id + 1 -> word
  fragments, fragmentWords,   \* [l, c, r] of word ids; c -> ids of fragments
  cursor,                     \* lastRawMessageID
  stored,                     \* rows in the table
  owner,                      \* who holds learningMutex
  pen,                        \* the locals of the goroutine that holds it
  expired,                    \* lastLoadedM3 is more than an hour old
  rebuildBusy,
  up,                         \* the process has not panicked
  job, at, speech,            \* per goroutine: its job, where it is, its locals
  overtaken                   \* history: speakers that read during a Reset

model == <<words, revWords, fragments, fragmentWords, cursor>>
vars == <<model, stored, owner, pen, expired, rebuildBusy, up, job, at, speech, overtaken>>

Actors == Goroutines \cup {Main}
LeftMost == 0
NoFragment == [l |-> LeftMost, c |-> LeftMost, r |-> LeftMost]
Idle == [at |-> "row", rows |-> <<>>, row |-> 0, sentences |-> <<>>, ids |-> <<>>,
         word |-> Blank, chain |-> <<>>]
Silence == [word |-> Blank, tries |-> 0, revLen |-> 0, w |-> 0, ids |-> <<>>, base |-> NoFragment,
            side |-> "left", frag |-> NoFragment, link |-> 0, runt |-> 0, results |-> <<>>,
            left |-> <<>>, back |-> FALSE, again |-> FALSE]

(***************************************************************************)
(* MakeMarkov resets the model before anyone sees it; the preload at the   *)
(* start, by the main goroutine, is its first learning.                    *)
(***************************************************************************)
Init ==
  /\ words = [w \in {Blank} |-> 0] /\ revWords = <<Blank>>
  /\ fragments = <<>> /\ fragmentWords = [c \in {} |-> <<>>]
  /\ cursor = 0 /\ stored \in 0 .. Len(Rows)
  /\ owner = NoOne /\ pen = Idle
  /\ expired = TRUE /\ rebuildBusy = FALSE /\ up = TRUE
  /\ job = [g \in Actors |-> IF g = Main THEN "load" ELSE "none"]
  /\ at = [g \in Actors |-> IF g = Main THEN "wait" ELSE "idle"]
  /\ speech = [g \in Actors |-> Silence]
  /\ overtaken = {}

Go(g, place) == at' = [at EXCEPT ![g] = place]
Note(g, locals) == speech' = [speech EXCEPT ![g] = locals]

-----------------------------------------------------------------------------
(***************************************************************************)
(* Learning, under learningMutex                                           *)
(***************************************************************************)

(* LearnTokenList: every SentEnd ends a sentence, be it an empty one, and *)
(* what is left at the end of the row is one if it is not empty.          *)
Sentences(row) ==
  LET before(p) == Cardinality({e \in 1 .. p - 1 : row[e] = SentEnd})
      start(n)  == Cardinality({p \in 1 .. Len(row) : before(p) < n})
      length(n) == Cardinality({p \in 1 .. Len(row) : before(p) = n /\ row[p] # SentEnd})
  IN [n \in 1 .. IF row = <<>> THEN 0 ELSE before(Len(row)) + 1 |->
        [i \in 1 .. length(n - 1) |-> row[start(n - 1) + i]]]

safeGetWordID(ids, pos) == IF pos \in 1 .. Len(ids) THEN ids[pos] ELSE LeftMost

CreateFragments(ids) ==
  [pos \in 1 .. Len(ids) + 1 |->
     [l |-> safeGetWordID(ids, pos - 1), c |-> safeGetWordID(ids, pos),
      r |-> safeGetWordID(ids, pos + 1)]]

(***************************************************************************)
(* markovV3Learn notes the time of loading before it learns, a rebuild     *)
(* after it has reset the model; a rebuild's first step is Reset.          *)
(***************************************************************************)
LockForLearning(g) ==
  /\ at[g] = "wait" /\ owner = NoOne
  /\ owner' = g
  /\ IF job[g] = "rebuild" THEN Go(g, "reset") /\ UNCHANGED expired
                           ELSE Go(g, "query") /\ expired' = FALSE
  /\ pen' = IF job[g] = "rebuild" THEN [Idle EXCEPT !.at = "words"] ELSE Idle
  /\ UNCHANGED <<model, stored, rebuildBusy, up, job, speech, overtaken>>

Speaking == {g \in Goroutines : at[g] \in {"list", "again", "pick", "walk", "link", "spell"}}

(***************************************************************************)
(* Reset clears one field after the other, and files the word "" last.     *)
(***************************************************************************)
ResetSteps == <<"words", "revWords", "fragments", "fragmentWords", "blank", "revBlank">>
Reset(g) ==
  /\ at[g] = "reset" /\ owner = g
  /\ \E n \in 1 .. Len(ResetSteps) :
       /\ pen.at = ResetSteps[n]
       /\ IF n < Len(ResetSteps)
          THEN pen' = [pen EXCEPT !.at = ResetSteps[n + 1]] /\ UNCHANGED <<at, expired>>
          ELSE pen' = Idle /\ Go(g, "query") /\ expired' = FALSE
  /\ cursor' = 0
  /\ words' = CASE pen.at = "words" -> [w \in {} |-> 0]
                [] pen.at = "blank" -> [w \in {Blank} |-> 0]
                [] OTHER -> words
  /\ revWords' = CASE pen.at = "revWords" -> <<>>
                   [] pen.at = "revBlank" -> <<Blank>>
                   [] OTHER -> revWords
  /\ fragments' = IF pen.at = "fragments" THEN <<>> ELSE fragments
  /\ fragmentWords' = IF pen.at = "fragmentWords" THEN [c \in {} |-> <<>>] ELSE fragmentWords
  /\ overtaken' = overtaken \cup Speaking
  /\ UNCHANGED <<stored, owner, rebuildBusy, up, job, speech>>

LearnFromFirstRow(g) ==   \* mutant: the query leaves the cursor out
  /\ at[g] = "query" /\ owner = g
  /\ pen' = [Idle EXCEPT !.rows = [k \in 1 .. stored |-> k]]
  /\ Go(g, "learn")
  /\ UNCHANGED <<model, stored, owner, expired, rebuildBusy, up, job, speech, overtaken>>

LearnFromRawMessages(g) ==
  /\ at[g] = "query" /\ owner = g
  /\ pen' = [Idle EXCEPT !.rows = [k \in 1 .. stored - cursor |-> cursor + k]]
  /\ Go(g, "learn")
  /\ UNCHANGED <<model, stored, owner, expired, rebuildBusy, up, job, speech, overtaken>>

Learning(g, place) == at[g] = "learn" /\ owner = g /\ pen.at = place
LearnsOnly == UNCHANGED <<stored, owner, expired, rebuildBusy, up, job, at, speech, overtaken>>

LearnString(g) ==
  /\ Learning(g, "row") /\ pen.rows # <<>>
  /\ pen' = [pen EXCEPT !.at = "sentence", !.row = Head(pen.rows), !.rows = Tail(pen.rows),
                        !.sentences = Sentences(Rows[Head(pen.rows)])]
  /\ UNCHANGED model /\ LearnsOnly

(* One word of the sentence: a known one has its id, a new one is added. *)
FindOrAddWord(g) ==
  /\ Learning(g, "sentence") /\ pen.sentences # <<>> /\ Head(pen.sentences) # <<>>
  /\ LET w == Head(Head(pen.sentences))
         rest == [pen EXCEPT !.sentences = <<Tail(Head(pen.sentences))>> \o Tail(pen.sentences)]
     IN \/ /\ w \in DOMAIN words
           /\ pen' = [rest EXCEPT !.ids = Append(@, words[w])]
           /\ UNCHANGED words
        \/ /\ w \notin DOMAIN words
           /\ words' = [v \in DOMAIN words \cup {w} |-> IF v = w THEN Len(revWords) ELSE words[v]]
           /\ pen' = [rest EXCEPT !.ids = Append(@, Len(revWords)), !.at = "revWord",
                                 !.word = w]
  /\ UNCHANGED <<revWords, fragments, fragmentWords, cursor>> /\ LearnsOnly

AddRevWord(g) ==
  /\ Learning(g, "revWord")
  /\ revWords' = Append(revWords, pen.word)
  /\ pen' = [pen EXCEPT !.at = "sentence"]
  /\ UNCHANGED <<words, fragments, fragmentWords, cursor>> /\ LearnsOnly

LearnSimpleTokens(g) ==
  /\ Learning(g, "sentence") /\ pen.sentences # <<>> /\ Head(pen.sentences) = <<>>
  /\ pen' = [pen EXCEPT !.at = "fragment", !.chain = CreateFragments(pen.ids), !.ids = <<>>,
                        !.sentences = Tail(pen.sentences)]
  /\ UNCHANGED model /\ LearnsOnly

(* AddFragment: the list of a word's first fragment is in the map, empty, *)
(* before the fragment's id is put into it.                               *)
AddFragment(g) ==
  /\ Learning(g, "fragment") /\ pen.chain # <<>>
  /\ fragments' = Append(fragments, Head(pen.chain))
  /\ pen' = [pen EXCEPT !.at = IF Head(pen.chain).c \in DOMAIN fragmentWords
                               THEN "file" ELSE "list"]
  /\ UNCHANGED <<words, revWords, fragmentWords, cursor>> /\ LearnsOnly

MakeList(g) ==
  /\ Learning(g, "list")
  /\ fragmentWords' = [c \in DOMAIN fragmentWords \cup {Head(pen.chain).c} |->
                         IF c = Head(pen.chain).c THEN <<>> ELSE fragmentWords[c]]
  /\ pen' = [pen EXCEPT !.at = "file"]
  /\ UNCHANGED <<words, revWords, fragments, cursor>> /\ LearnsOnly

FileNextFragment(g) ==   \* mutant: the id is taken after the append
  /\ Learning(g, "file")
  /\ fragmentWords' = [fragmentWords EXCEPT ![Head(pen.chain).c] = Append(@, Len(fragments))]
  /\ pen' = [pen EXCEPT !.at = "fragment", !.chain = Tail(@)]
  /\ UNCHANGED <<words, revWords, fragments, cursor>> /\ LearnsOnly

FileFragment(g) ==
  /\ Learning(g, "file")
  /\ fragmentWords' = [fragmentWords EXCEPT ![Head(pen.chain).c] = Append(@, Len(fragments) - 1)]
  /\ pen' = [pen EXCEPT !.at = "fragment", !.chain = Tail(@)]
  /\ UNCHANGED <<words, revWords, fragments, cursor>> /\ LearnsOnly

EndSentence(g) ==
  /\ Learning(g, "fragment") /\ pen.chain = <<>>
  /\ pen' = [pen EXCEPT !.at = "sentence"]
  /\ UNCHANGED model /\ LearnsOnly

EndRow(g) ==
  /\ Learning(g, "sentence") /\ pen.sentences = <<>>
  /\ cursor' = pen.row
  /\ pen' = [pen EXCEPT !.at = "row"]
  /\ UNCHANGED <<words, revWords, fragments, fragmentWords>> /\ LearnsOnly

(* The learner lets go of the mutex; a speaker goes on to speak. *)
UnlockLearned(g) ==
  /\ Learning(g, "row") /\ pen.rows = <<>>
  /\ owner' = NoOne /\ pen' = Idle
  /\ Go(g, CASE job[g] = "generate" -> "learned"
             [] job[g] = "m3" -> "find"
             [] OTHER -> "done")
  /\ rebuildBusy' = (rebuildBusy /\ job[g] # "rebuild")
  /\ UNCHANGED <<model, stored, expired, up, job, speech, overtaken>>

Learner(g) ==
  \/ LockForLearning(g) \/ Reset(g) \/ LearnFromRawMessages(g) \/ LearnString(g)
  \/ FindOrAddWord(g) \/ AddRevWord(g) \/ LearnSimpleTokens(g) \/ AddFragment(g)
  \/ MakeList(g) \/ FileFragment(g) \/ EndSentence(g) \/ EndRow(g) \/ UnlockLearned(g)

-----------------------------------------------------------------------------
(***************************************************************************)
(* Speaking, without a lock                                                *)
(***************************************************************************)
ReadsOnly == UNCHANGED <<model, stored, owner, pen, rebuildBusy, job>>
Speaks == ReadsOnly /\ UNCHANGED <<expired, up, overtaken>>

Panic(g) ==
  /\ up' = FALSE /\ Go(g, "failed")
  /\ UNCHANGED <<speech, expired, overtaken>>

(* A message asks for a text with a word in it, or the model is reloaded or *)
(* rebuilt; a rebuild is dropped while another is under way.                *)
Ask(g) ==
  /\ at[Main] = "done" /\ at[g] = "idle"
  /\ \E j \in JobsOf[g] :
       /\ job' = [job EXCEPT ![g] = j]
       /\ IF j \in {"generate", "m3"}
          THEN \E w \in Asked : Note(g, [Silence EXCEPT !.word = w])
          ELSE UNCHANGED speech
       /\ Go(g, CASE j = "generate" -> "asked"
                  [] j = "m3" -> "find"
                  [] j = "rebuild" /\ rebuildBusy -> "done"
                  [] OTHER -> "wait")
       /\ rebuildBusy' = (rebuildBusy \/ j = "rebuild")
  /\ UNCHANGED <<model, stored, owner, pen, expired, up, overtaken>>

(* markovGenerate learns first when the model is more than an hour old: once, *)
(* or, while it has next to no words, up to LearnLimit + 1 times.             *)
LearnMore(g) ==
  /\ at[g] = "asked"
  /\ Note(g, [speech[g] EXCEPT !.tries = IF expired /\ Len(revWords) <= 2 THEN 1 ELSE 0])
  /\ Go(g, IF expired THEN "wait" ELSE "find")
  /\ Speaks

LearnedMore(g) ==
  /\ at[g] = "learned"
  /\ expired' = FALSE
  /\ LET again == speech[g].tries \in 1 .. LearnLimit /\ Len(revWords) <= 2
     IN /\ Go(g, IF again THEN "wait" ELSE "find")
        /\ Note(g, [speech[g] EXCEPT !.tries = IF again THEN @ + 1 ELSE 0])
  /\ ReadsOnly /\ UNCHANGED <<up, overtaken>>

(* "!m3" learns and generates once more when nothing came out. *)
Say(g, out) ==
  LET empty == \A i \in DOMAIN out : out[i] = Blank
      s == speech[g]
  IN IF job[g] = "m3" /\ empty /\ ~s.again
     THEN Go(g, "wait") /\ Note(g, [Silence EXCEPT !.word = s.word, !.again = TRUE])
     ELSE Go(g, "done") /\ Note(g, Silence)

(* Generate, FindWord: the word's id, or that of any word of RevWords. *)
FindWord(g) ==
  LET s == speech[g] IN
  /\ at[g] = "find" /\ ReadsOnly
  /\ \/ s.word = Blank /\ Say(g, <<>>) /\ UNCHANGED <<expired, up, overtaken>>
     \/ /\ s.word # Blank /\ (s.word \in DOMAIN words \/ revWords # <<>>)
        /\ \E id \in IF s.word \in DOMAIN words THEN {words[s.word]} ELSE 0 .. Len(revWords) - 1 :
             Note(g, [s EXCEPT !.w = id])
        /\ Go(g, "list") /\ UNCHANGED <<expired, up>>
        /\ overtaken' = IF pen.at \in Range(ResetSteps) THEN overtaken \cup {g}
                                                        ELSE overtaken \ {g}
     \/ s.word \notin DOMAIN words \cup {Blank} /\ revWords = <<>> /\ Panic(g)

ModelEmpty == DOMAIN words = {} \/ fragments = <<>>

(* GetFragmentWithWordID: the fragments of the word, or those of a word drawn *)
(* at random, PickLimit + 1 draws at most.                                    *)
ListFragments(g) ==
  LET s == speech[g] IN
  /\ at[g] = "list" /\ ReadsOnly
  /\ \/ ModelEmpty /\ Say(g, <<>>) /\ UNCHANGED <<expired, up, overtaken>>
     \/ /\ ~ModelEmpty /\ s.w \in DOMAIN fragmentWords
        /\ Note(g, [s EXCEPT !.ids = fragmentWords[s.w]])
        /\ Go(g, "pick") /\ UNCHANGED <<expired, up, overtaken>>
     \/ /\ ~ModelEmpty /\ s.w \notin DOMAIN fragmentWords
        /\ Note(g, [s EXCEPT !.tries = 0, !.revLen = Len(revWords)])
        /\ Go(g, "again") /\ UNCHANGED <<expired, up, overtaken>>

DrawAnother(g) ==
  LET s == speech[g] IN
  /\ at[g] = "again" /\ ReadsOnly
  /\ \/ s.revLen = 0 /\ Panic(g)
     \/ \E w \in 0 .. s.revLen - 1 :
          /\ UNCHANGED <<expired, up, overtaken>>
          /\ \/ /\ w \in DOMAIN fragmentWords
                /\ Note(g, [s EXCEPT !.ids = fragmentWords[w], !.tries = 0, !.revLen = 0])
                /\ Go(g, "pick")
             \/ /\ w \notin DOMAIN fragmentWords /\ s.tries < PickLimit
                /\ Note(g, [s EXCEPT !.tries = @ + 1]) /\ UNCHANGED at
             \/ w \notin DOMAIN fragmentWords /\ s.tries = PickLimit /\ Say(g, <<>>)

DrawnInclusive(list) == 1 .. Len(list) + 1   \* mutant: the bound may be drawn
(* random.Int(0) is 1: a draw from an empty list is out of range. *)
Drawn(list) == IF list = <<>> THEN {2} ELSE DOMAIN list

PickFragment(g) ==
  LET s == speech[g] IN
  /\ at[g] = "pick" /\ ReadsOnly
  /\ \E i \in Drawn(s.ids) :
       \/ /\ i \in DOMAIN s.ids /\ s.ids[i] < Len(fragments)
          /\ LET f == fragments[s.ids[i] + 1]
             IN IF DOMAIN words = {} THEN Say(g, <<>>)
                ELSE Go(g, "walk") /\ Note(g, [s EXCEPT !.base = f, !.frag = f, !.ids = <<>>,
                                                              !.w = 0])
          /\ UNCHANGED <<expired, up, overtaken>>
       \/ ~(i \in DOMAIN s.ids /\ s.ids[i] < Len(fragments)) /\ Panic(g)

(* SplitDirections: a walk to the left goes from r to l. *)
Source(f, side) == IF side = "right" THEN f.l ELSE f.r
Target(f, side) == IF side = "right" THEN f.r ELSE f.l

SideDoneBackwards(g, results) ==   \* mutant: the left side is not reversed
  LET s == speech[g]
      fresh == [s EXCEPT !.ids = <<>>, !.frag = s.base, !.link = 0, !.runt = 0, !.results = <<>>]
  IN IF s.side = "left"
     THEN Go(g, "walk") /\ Note(g, [fresh EXCEPT !.side = "right", !.left = results])
     ELSE /\ Go(g, "spell")
          /\ Note(g, [fresh EXCEPT !.results = s.left \o <<s.base.l, s.base.c, s.base.r>> \o results])

(* One side of the chain is complete: the right one is walked next, or both *)
(* are joined around the fragment they started from.                        *)
SideDone(g, results) ==
  LET s == speech[g]
      fresh == [s EXCEPT !.ids = <<>>, !.frag = s.base, !.link = 0, !.runt = 0, !.results = <<>>]
  IN IF s.side = "left"
     THEN Go(g, "walk") /\ Note(g, [fresh EXCEPT !.side = "right", !.left = Reverse(results)])
     ELSE /\ Go(g, "spell")
          /\ Note(g, [fresh EXCEPT !.results = s.left \o <<s.base.l, s.base.c, s.base.r>> \o results])

WalkOnForever(g, s) ==   \* mutant: no limit to the runs
  IF s.link < MinChainDistance
  THEN Go(g, "walk") /\ Note(g, [s EXCEPT !.runt = 0]) ELSE SideDone(g, s.results)

(* FollowChain goes on while the chain is short and its runs are not used up. *)
WalkOn(g, s) ==
  IF s.link < MinChainDistance /\ s.runt < RunLimit
  THEN Go(g, "walk") /\ Note(g, s) ELSE SideDone(g, s.results)

(* NextChainLink looks the target word up.  Where it has none, the fragment   *)
(* becomes the zero one and every further run fails at once: the side is done.*)
LookUpLink(g) ==
  LET s == speech[g]
      target == Target(s.frag, s.side)
      known == target # LeftMost /\ target \in DOMAIN fragmentWords
  IN /\ at[g] = "walk" /\ Speaks
     /\ \/ known /\ Go(g, "link") /\ Note(g, [s EXCEPT !.ids = fragmentWords[target]])
        \/ ~known /\ SideDone(g, s.results)

Dangling(ids) == \E i \in DOMAIN ids : ids[i] >= Len(fragments)

PeekList(f, side) ==
  IF Target(f, side) \in DOMAIN fragmentWords THEN fragmentWords[Target(f, side)] ELSE <<>>
PeekEligibility(f, side) ==
  Cardinality({i \in DOMAIN PeekList(f, side) :
                 Source(fragments[PeekList(f, side)[i] + 1], side) = f.c})

(* Those of the fragments that continue the chain; when there is just one, *)
(* and one after it, any of the word's fragments is taken instead.         *)
EligibleOf(s) ==
  {i \in DOMAIN s.ids : /\ fragments[s.ids[i] + 1] # s.base
                        /\ Source(fragments[s.ids[i] + 1], s.side) = s.frag.c}
Diverges(s, eligible) ==
  /\ Cardinality(eligible) = 1
  /\ \A i \in eligible : PeekEligibility(fragments[s.ids[i] + 1], s.side) = 1

NextChainLink(g) ==
  LET s == speech[g] IN
  /\ at[g] = "link" /\ ReadsOnly
  /\ IF Dangling(s.ids) \/ s.ids = <<>> THEN Panic(g) ELSE
     LET eligible == EligibleOf(s)
         peeked == IF Cardinality(eligible) = 1
                   THEN UNION {Range(PeekList(fragments[s.ids[i] + 1], s.side)) : i \in eligible}
                   ELSE {}
     IN IF \E id \in peeked : id >= Len(fragments) THEN Panic(g) ELSE
        /\ UNCHANGED <<expired, up, overtaken>>
        /\ \/ eligible = {} /\ SideDone(g, s.results)
           \/ \E i \in IF Diverges(s, eligible) THEN DOMAIN s.ids ELSE eligible :
                LET next == fragments[s.ids[i] + 1]
                    linked == [s EXCEPT !.frag = next, !.ids = <<>>, !.link = @ + 1,
                                        !.results = Append(@, Target(next, s.side))]
                IN IF next = s.base
                   THEN WalkOn(g, [s EXCEPT !.frag = next, !.ids = <<>>, !.runt = @ + 1,
                                            !.back = @ \/ s.results # <<>>])
                   ELSE IF linked.link <= MaxChainDistance
                        THEN Go(g, "walk") /\ Note(g, linked)
                        ELSE SideDone(g, linked.results)

(* WordIDsToWords *)
Spelled(ids) == [i \in DOMAIN ids |-> revWords[ids[i] + 1]]
Unspellable(ids) == \E i \in DOMAIN ids : ids[i] >= Len(revWords)

Spell(g) ==
  /\ at[g] = "spell" /\ ReadsOnly
  /\ \/ Unspellable(speech[g].results) /\ Panic(g)
     \/ /\ ~Unspellable(speech[g].results) /\ Say(g, Spelled(speech[g].results))
        /\ UNCHANGED <<expired, up, overtaken>>

Speaker(g) ==
  \/ LearnMore(g) \/ LearnedMore(g) \/ FindWord(g) \/ ListFragments(g) \/ DrawAnother(g)
  \/ PickFragment(g) \/ LookUpLink(g) \/ NextChainLink(g) \/ Spell(g)

-----------------------------------------------------------------------------
(* A message is stored, after those before it; an hour passes. *)
Store ==
  /\ stored < Len(Rows) /\ stored' = stored + 1
  /\ UNCHANGED <<model, owner, pen, expired, rebuildBusy, up, job, at, speech, overtaken>>

HourPasses ==
  /\ ~expired /\ expired' = TRUE
  /\ UNCHANGED <<model, stored, owner, pen, rebuildBusy, up, job, at, speech, overtaken>>

Step(g) == up /\ (Learner(g) \/ (g \in Goroutines /\ Speaker(g)))

Next ==
  \/ \E g \in Actors : Step(g)
  \/ \E g \in Goroutines : up /\ Ask(g)
  \/ up /\ (Store \/ HourPasses)

Spec == Init /\ [][Next]_vars

(* A goroutine that can go on does; each wants the mutex a bounded number of *)
(* times, so that weak fairness gets it for every one of them.               *)
FairSpec == Spec /\ \A g \in Actors : WF_vars(Step(g))

-----------------------------------------------------------------------------
(***************************************************************************)
(* Correctness                                                             *)
(***************************************************************************)
Places == {"idle", "asked", "learned", "find", "list", "again", "pick", "walk", "link", "spell",
           "wait", "reset", "query", "learn", "done", "failed"}

(* The parts of the model have their types; the mutex is held by the one    *)
(* goroutine that is learning or resetting, and the locals of an idle model *)
(* are empty.                                                               *)
Fragment == [l : Nat, c : Nat, r : Nat]
ModelTypeOK ==
  /\ words \in [DOMAIN words -> Nat] /\ fragments \in Seq(Fragment)
  /\ fragmentWords \in [DOMAIN fragmentWords -> Seq(Nat)]
  /\ owner \in Actors \cup {NoOne} /\ at \in [Actors -> Places]
  /\ \A g \in Actors : at[g] \in {"reset", "query", "learn"} <=> owner = g
  /\ owner = NoOne => pen = Idle

Resetting == pen.at \in Range(ResetSteps)

(* The two halves of each index say the same: a word's id leads back to the *)
(* word, an id filed under a word is that of a fragment around the word,    *)
(* and every fragment is filed once, but for the last one being filed.      *)
(* (AddWord and AddFragment write the halves one after the other.)          *)
IndexesAgree ==
  ~Resetting =>
    /\ \A w \in DOMAIN words :
         \/ words[w] < Len(revWords) /\ revWords[words[w] + 1] = w
         \/ pen.at = "revWord" /\ pen.word = w /\ words[w] = Len(revWords)
    /\ \A c \in DOMAIN fragmentWords : \A i \in DOMAIN fragmentWords[c] :
         /\ fragmentWords[c][i] < Len(fragments)
         /\ fragments[fragmentWords[c][i] + 1].c = c
    /\ \A id \in 0 .. Len(fragments) - 1 :
         \/ /\ fragments[id + 1].c \in DOMAIN fragmentWords
            /\ Cardinality({i \in DOMAIN fragmentWords[fragments[id + 1].c] :
                              fragmentWords[fragments[id + 1].c][i] = id}) = 1
         \/ pen.at \in {"list", "file"} /\ id = Len(fragments) - 1

(* Outside of learning the model holds what the rows up to the cursor teach, *)
(* every one of them once and in order, however many goroutines found the    *)
(* model expired at the same time and whatever was reset in between          *)
(* (markovGenerate, markovV3Learn, markovV3Rebuild).                         *)
Taught(sentence) ==
  LET ids == [i \in 1 .. Len(sentence) |-> words[sentence[i]]] IN CreateFragments(ids)
TaughtByRows(n) ==
  FlattenSeq([k \in 1 .. n |-> FlattenSeq([i \in 1 .. Len(Sentences(Rows[k])) |->
                                             Taught(Sentences(Rows[k])[i])])])
ModelIsTheRows ==
  owner = NoOne =>
    /\ \A k \in 1 .. cursor : Range(Rows[k]) \ {SentEnd} \subseteq DOMAIN words
    /\ fragments = TaughtByRows(cursor)

(* A speaker makes the process panic only if a rebuild reset the model while *)
(* it spoke or looked its word up, or if it drew from the empty list of a    *)
(* word whose first fragment was just being filed: what it read earlier, ids *)
(* of fragments and of words, never dangles otherwise.                       *)
OnlyRebuildsAndFirstFragmentsFail ==
  [][\A g \in Goroutines :
       at[g] # "failed" /\ at'[g] = "failed" =>
         \/ g \in overtaken
         \/ at[g] = "find" /\ Resetting
         \/ at[g] \in {"pick", "link"} /\ speech[g].ids = <<>>]_vars

(* Words spoken next to each other stood next to each other in a sentence of *)
(* a stored row, unless the model was reset meanwhile, or the walk had come  *)
(* back to the fragment it started from and gone on from there.              *)
Neighbours(sentence) ==
  LET s == <<Blank>> \o sentence \o <<Blank, Blank>>
  IN {<<s[i], s[i + 1]>> : i \in 1 .. Len(s) - 1}
SpeaksAsTaught ==
  \A g \in Goroutines :
    at[g] = "spell" /\ g \notin overtaken /\ ~speech[g].back =>
      /\ ~Unspellable(speech[g].results)
      /\ LET said == Spelled(speech[g].results)
         IN \A i \in 1 .. Len(said) - 1 :
              \E k \in 1 .. stored : \E n \in DOMAIN Sentences(Rows[k]) :
                <<said[i], said[i + 1]>> \in Neighbours(Sentences(Rows[k])[n])

(* Every job comes to its end, speaking too: a chain that keeps coming back  *)
(* to where it started stops, and an empty model is not learnt for ever.     *)
JobsEnd == \A g \in Goroutines : at[g] # "idle" ~> (at[g] = "done" \/ ~up)
=============================================================================
