--------------------------- MODULE OutgoingProofs ---------------------------
(***************************************************************************)
(* Proofs about Outgoing for any goroutines, tasks, channels and ticks.    *)
(*   - The pointers, boxes and locals fit each other: OutgoingInv.         *)
(*   - Unless two goroutines race for a pointer there is one mailbox and   *)
(*     one queue: SingleInv.                                               *)
(*   - Every text lies in one place at a time, in one of six kinds of      *)
(*     places from a queue to Discord, the texts of a channel in the order *)
(*     in which they were put: DeliveryInv.  Hence no text is lost without *)
(*     a race, none is sent twice and those of a channel leave in order.   *)
(***************************************************************************)
EXTENDS Outgoing, FiniteSetTheorems, TLAPS

----------------------------------------------------------------------------
(* Lemmas about the parts of a sequence *)

\* Of two numbers in a set the larger has the higher rank.
LEMMA RankRises ==
  ASSUME NEW L \in Nat, NEW S \in SUBSET (1..L), NEW g \in S, NEW h \in S, g < h
  PROVE  Rank(S, g) \in Nat /\ Rank(S, h) \in Nat /\ Rank(S, g) < Rank(S, h)
<1> DEFINE G == {k \in S : k <= g}
           H == {k \in S : k <= h}
<1>1. IsFiniteSet(1..L)  BY FS_Interval
<1>2. g \in Nat /\ h \in Nat /\ \A k \in S : k \in Nat  OBVIOUS
<1>3. H \in SUBSET (1..L) /\ G \in SUBSET H /\ h \in H /\ h \notin G
  <2>1. \A k \in S : k <= g => k <= h  BY <1>2
  <2>2. h <= h /\ ~(h <= g)  BY <1>2
  <2> QED  BY <2>1, <2>2
<1>4. IsFiniteSet(H)  BY <1>1, <1>3, FS_Subset
<1>5. IsFiniteSet(G) /\ Cardinality(G) <= Cardinality(H) /\ Cardinality(G) # Cardinality(H)
  BY <1>3, <1>4, FS_Subset
<1>6. Cardinality(G) \in Nat /\ Cardinality(H) \in Nat  BY <1>4, <1>5, FS_CardinalityType
<1>7. Rank(S, g) = Cardinality(G) /\ Rank(S, h) = Cardinality(H)  BY DEF Rank
<1> QED  BY <1>5, <1>6, <1>7

\* So the one of a rank is the only one.
LEMMA NthIs ==
  ASSUME NEW L \in Nat, NEW S \in SUBSET (1..L), NEW h \in S
  PROVE  Nth(S, Rank(S, h)) = h
<1> DEFINE g == Nth(S, Rank(S, h))
<1>1. g \in S /\ Rank(S, g) = Rank(S, h)  BY DEF Nth
<1> HIDE DEF g
<1>2. ~(g < h) /\ ~(h < g)
  <2>1. ASSUME g < h PROVE FALSE
    <3>1. Rank(S, g) \in Nat /\ Rank(S, g) < Rank(S, h)  BY <1>1, <2>1, RankRises
    <3> QED  BY <1>1, <3>1
  <2>2. ASSUME h < g PROVE FALSE
    <3>1. Rank(S, h) \in Nat /\ Rank(S, h) < Rank(S, g)  BY <1>1, <2>2, RankRises
    <3> QED  BY <1>1, <3>1
  <2> QED  BY <2>1, <2>2
<1>3. g \in Nat /\ h \in Nat  BY <1>1
<1>4. g = h  BY <1>2, <1>3
<1> QED  BY <1>4 DEF g

\* The ranks of a set's numbers are all the numbers up to its cardinality.
LEMMA RanksCount ==
  ASSUME NEW L \in Nat, NEW S \in SUBSET (1..L)
  PROVE  /\ Cardinality(S) \in Nat
         /\ \A h \in S : Rank(S, h) \in 1..Cardinality(S)
         /\ \A n \in 1..Cardinality(S) : Nth(S, n) \in S /\ Rank(S, Nth(S, n)) = n
<1> DEFINE N == Cardinality(S)
           f == [h \in S |-> Rank(S, h)]
<1>1. IsFiniteSet(1..L)  BY FS_Interval
<1>2. IsFiniteSet(S) /\ N \in Nat  BY <1>1, FS_Subset, FS_CardinalityType
<1>3. ASSUME NEW h \in S  PROVE Rank(S, h) \in 1..N
  <2> DEFINE G == {k \in S : k <= h}
  <2>1. G \in SUBSET S /\ h \in G  OBVIOUS
  <2>2. IsFiniteSet(G) /\ Cardinality(G) <= N /\ Cardinality(G) \in Nat
    BY <1>2, <2>1, FS_Subset, FS_CardinalityType
  <2>3. Cardinality(G) # 0  BY <2>1, <2>2, FS_EmptySet
  <2> QED  BY <1>2, <2>2, <2>3 DEF Rank
<1>4. f \in Injection(S, 1..N)
  <2>1. f \in [S -> 1..N]  BY <1>3
  <2>2. ASSUME NEW g \in S, NEW h \in S, f[g] = f[h]  PROVE g = h
    <3>1. Nth(S, Rank(S, g)) = g /\ Nth(S, Rank(S, h)) = h  BY NthIs
    <3> QED  BY <2>2, <3>1
  <2> QED  BY <2>1, <2>2 DEF Injection, IsInjective
<1>5. IsFiniteSet(1..N) /\ Cardinality(1..N) = N  BY <1>2, FS_Interval
<1>6. f \in Surjection(S, 1..N)  BY <1>4, <1>5, FS_Injection
<1>7. ASSUME NEW n \in 1..N  PROVE Nth(S, n) \in S /\ Rank(S, Nth(S, n)) = n
  <2>1. PICK h \in S : f[h] = n  BY <1>6 DEF Surjection
  <2> QED  BY <2>1 DEF Nth
<1> QED  BY <1>2, <1>3, <1>7

\* The part kept has exactly what the sequence has at the places kept, in the same order.
LEMMA KeptIs ==
  ASSUME NEW T, NEW s \in Seq(T), NEW S \in SUBSET DOMAIN s
  PROVE  LET u == Kept(s, S)
         IN /\ u \in Seq(T) /\ Len(u) \in Nat /\ DOMAIN u = 1..Len(u)
            /\ \A n \in DOMAIN u : Nth(S, n) \in S /\ u[n] = s[Nth(S, n)]
            /\ \A m, n \in DOMAIN u : m < n => Nth(S, m) < Nth(S, n)
            /\ \A m, n \in DOMAIN u : Nth(S, m) = Nth(S, n) => m = n
            /\ \A h \in S : Rank(S, h) \in DOMAIN u /\ u[Rank(S, h)] = s[h]
<1> DEFINE u == Kept(s, S)  N == Cardinality(S)
<1>1. DOMAIN s = 1..Len(s) /\ Len(s) \in Nat /\ \A i \in 1..Len(s) : s[i] \in T  OBVIOUS
<1>2. S \in SUBSET (1..Len(s))  BY <1>1
<1>3. /\ N \in Nat
      /\ \A h \in S : Rank(S, h) \in 1..N
      /\ \A n \in 1..N : Nth(S, n) \in S /\ Rank(S, Nth(S, n)) = n
  BY <1>1, <1>2, RanksCount
<1> HIDE DEF N
<1>4. u = [n \in 1..N |-> s[Nth(S, n)]]  BY DEF Kept, N
<1>5. \A n \in 1..N : s[Nth(S, n)] \in T  BY <1>1, <1>2, <1>3
<1> DEFINE e(n) == s[Nth(S, n)]
<1>6. u \in Seq(T) /\ Len(u) = N /\ DOMAIN u = 1..N /\ \A n \in 1..N : u[n] = s[Nth(S, n)]
  <2>1. u = [n \in 1..N |-> e(n)] /\ \A n \in 1..N : e(n) \in T  BY <1>4, <1>5
  <2> HIDE DEF e, u
  <2>2. u \in Seq(T) /\ Len(u) = N /\ DOMAIN u = 1..N /\ \A n \in 1..N : u[n] = e(n)
    BY <1>3, <2>1
  <2> QED  BY <2>2 DEF e
<1> HIDE DEF u, e
<1>7. ASSUME NEW m \in 1..N, NEW n \in 1..N, m < n  PROVE Nth(S, m) < Nth(S, n)
  <2> DEFINE g == Nth(S, m)  h == Nth(S, n)
  <2>1. g \in S /\ h \in S /\ Rank(S, g) = m /\ Rank(S, h) = n  BY <1>3
  <2> HIDE DEF g, h
  <2>2. g \in Nat /\ h \in Nat /\ g # h  BY <1>2, <1>7, <2>1
  <2>3. ~(h < g)
    <3> SUFFICES ASSUME h < g PROVE FALSE  OBVIOUS
    <3>1. Rank(S, h) < Rank(S, g)  BY <1>1, <1>2, <2>1, RankRises
    <3> QED  BY <1>3, <1>7, <2>1, <3>1
  <2>4. g < h  BY <2>2, <2>3
  <2> QED  BY <2>4 DEF g, h
<1>8. ASSUME NEW m \in 1..N, NEW n \in 1..N, Nth(S, m) = Nth(S, n)  PROVE m = n
  BY <1>3, <1>8
<1>9. ASSUME NEW h \in S  PROVE Rank(S, h) \in 1..N /\ u[Rank(S, h)] = s[h]
  <2>1. Rank(S, h) \in 1..N  BY <1>3
  <2>2. Nth(S, Rank(S, h)) = h  BY <1>1, <1>2, NthIs
  <2> QED  BY <1>6, <2>1, <2>2
<1>10. N \in Nat /\ DOMAIN u = 1..N /\ Len(u) = N  BY <1>3, <1>6
<1> QED  BY <1>6, <1>7, <1>8, <1>9, <1>10, <1>3 DEF u

----------------------------------------------------------------------------
(***************************************************************************)
(* The types of the state, and where the loop is in its pass.              *)
(***************************************************************************)
Text == [from : Goroutines \cup {Minute, Commentator}, n : Nat, kind : Kinds]
Envelope == {e \in [channel : Channels, responses : Seq(Text)] :
               /\ e.responses # <<>>
               /\ \A k \in DOMAIN e.responses : e.responses[k].from # Commentator}
Note == {m \in [channel : Channels \cup {NoChannel}, text : Text] :
           m.channel = NoChannel <=> m.text.from = Commentator}
QueueNote == {m \in Note : m.channel # NoChannel}

Places == {"idle", "make", "take", "use", "done"}
LoopPlaces == {"idle", "make", "take", "use", "schedule", "add", "send"}

LoopType == [cell : Cells, outgoing : Nat, due : SUBSET DOMAIN Schedules,
             messages : Seq(Note), scheduled : SUBSET Envelope, taken : Seq(Envelope)]

TypeInv ==
  /\ cell \in [Cells -> Nat] /\ raced \in SUBSET Cells
  /\ DOMAIN boxes = Cells
  /\ boxes["mailbox"] \in Seq(Seq(Envelope)) /\ boxes["queue"] \in Seq(Seq(QueueNote))
  /\ task \in [Goroutines -> Tasks]
  /\ at \in [Actors -> Places \cup LoopPlaces] /\ held \in [Actors -> Nat]
  /\ at[Loop] \in LoopPlaces /\ \A g \in Goroutines : at[g] \in Places
  /\ loop \in LoopType
  /\ speeches \in Nat
  /\ attempts \in Seq([text : Text, channel : Channels]) /\ put \in Seq(Text)

\* Who has looked a box up holds one that exists.
CellsInv ==
  /\ \A c \in Cells : cell[c] \in 0..Len(boxes[c])
  /\ \A g \in Actors : at[g] = "take" => cell[CellOf(g)] # 0
  /\ \A g \in Actors : at[g] = "use" => held[g] \in 1..Len(boxes[CellOf(g)])

PassInv ==
  /\ at[Loop] \in {"idle", "make", "take", "use"} /\ loop.cell = "mailbox" => loop = IdleLoop
  /\ loop.cell = "queue" => at[Loop] \in {"make", "take", "use"}
  /\ loop.cell = "queue" \/ at[Loop] = "schedule" => loop.scheduled = {} /\ loop.taken = <<>>
  /\ loop.cell = "queue" \/ at[Loop] \in {"schedule", "add"} =>
       loop.outgoing \in 1..Len(boxes["mailbox"])
  /\ at[Loop] = "add" => loop.messages = <<>> /\ loop.taken = <<>>
  /\ at[Loop] = "send" => loop.messages = <<>> /\ loop.scheduled = {}

OutgoingInv == TypeInv /\ CellsInv /\ PassInv

----------------------------------------------------------------------------
(* Lemmas about the operators *)

\* The loop is no goroutine, and a goroutine's task is one of the tasks.
LEMMA WhoIsWho ==
  ASSUME TypeInv
  PROVE  /\ Loop \notin Goroutines /\ Loop \in Actors /\ Goroutines \subseteq Actors
         /\ \A g \in Goroutines : g # Loop /\ g # Minute /\ g # Commentator
         /\ Minute # Commentator
         /\ \A g \in Actors : CellOf(g) \in Cells
         /\ \A g \in Goroutines :
              /\ CellOf(g) = "queue" <=> task[g].kind = "note"
              /\ task[g].channel \in Channels /\ task[g].channel # NoChannel
<1>1. {Loop, Minute, Commentator} \cap Goroutines = {} /\ NoChannel \notin Channels
      /\ Tasks \subseteq Task
  BY OutgoingConstants
<1>2. \A g \in Goroutines : g # Loop /\ g # Minute /\ g # Commentator
  BY <1>1
<1>3. Minute # Commentator  BY DEF Minute, Commentator
<1>4. loop.cell \in Cells  BY DEF TypeInv, LoopType
<1>5. \A g \in Goroutines : task[g] \in Task  BY <1>1 DEF TypeInv
<1>6. \A g \in Goroutines : task[g].channel \in Channels /\ task[g].channel # NoChannel
  BY <1>1, <1>5 DEF Task
<1>7. \A g \in Goroutines : CellOf(g) = IF task[g].kind = "note" THEN "queue" ELSE "mailbox"
  BY <1>2 DEF CellOf
<1>8. CellOf(Loop) = loop.cell  BY DEF CellOf
<1>9. "queue" # "mailbox" /\ "queue" \in Cells /\ "mailbox" \in Cells  BY DEF Cells
<1>10. \A g \in Actors : g \in Goroutines \/ g = Loop  BY DEF Actors
<1>11. Loop \in Actors /\ Goroutines \subseteq Actors  BY DEF Actors
<1> QED  BY <1>2, <1>3, <1>4, <1>6, <1>7, <1>8, <1>9, <1>10, <1>11

\* The texts of a goroutine, at least one.
LEMMA TextsType ==
  ASSUME TypeInv, NEW g \in Goroutines
  PROVE  /\ Texts(g) \in Seq(Text) /\ Texts(g) # <<>> /\ Len(Texts(g)) \in Nat
         /\ DOMAIN Texts(g) = 1..Len(Texts(g)) /\ DOMAIN Texts(g) = DOMAIN task[g].texts
         /\ \A n \in DOMAIN Texts(g) :
              /\ Texts(g)[n] = [from |-> g, n |-> n, kind |-> task[g].texts[n]]
              /\ Texts(g)[n].from = g /\ Texts(g)[n].n = n /\ Texts(g)[n] \in Text
              /\ Texts(g)[n].kind = task[g].texts[n]
         /\ task[g].kind # "answer" => Len(Texts(g)) = 1
<1> DEFINE ks == task[g].texts
<1>1. task[g] \in Tasks /\ Tasks \subseteq Task  BY OutgoingConstants DEF TypeInv
<1>2. ks \in Seq(Kinds)  BY <1>1 DEF Task
<1>3. ks # <<>> /\ (task[g].kind # "answer" => Len(ks) = 1)  BY <1>1, OutgoingConstants
<1> HIDE DEF ks
<1>4. DOMAIN ks = 1..Len(ks) /\ Len(ks) \in Nat /\ \A n \in 1..Len(ks) : ks[n] \in Kinds
  BY <1>2
<1> DEFINE e(n) == [from |-> g, n |-> n, kind |-> ks[n]]
<1>5. \A n \in 1..Len(ks) : e(n) \in Text  BY <1>4 DEF Text
<1>6. Texts(g) = [n \in 1..Len(ks) |-> e(n)]  BY <1>4 DEF Texts, ks
<1> DEFINE L == Len(ks)
<1>7. \A n \in 1..L : e(n).from = g /\ e(n).n = n /\ e(n).kind = ks[n]  OBVIOUS
<1>8. /\ Texts(g) \in Seq(Text) /\ Len(Texts(g)) = L /\ DOMAIN Texts(g) = 1..L
      /\ \A n \in 1..L : Texts(g)[n] = e(n)
  <2> HIDE DEF e
  <2>1. L \in Nat  BY <1>4
  <2> HIDE DEF L
  <2> QED  BY <1>5, <1>6, <2>1 DEF L
<1>9. L # 0  BY <1>2, <1>3, <1>4
<1>10. Texts(g) # <<>>  BY <1>8, <1>9
<1>11. task[g].kind # "answer" => L = 1  BY <1>3
<1>12. L \in Nat  BY <1>4
<1>13. \A n \in 1..L : Texts(g)[n] \in Text /\ Texts(g)[n] = [from |-> g, n |-> n, kind |-> ks[n]]
  BY <1>5, <1>8
<1>14. DOMAIN ks = 1..L  BY <1>4
<1> HIDE DEF L, e
<1>15. \A n \in 1..L : Texts(g)[n].from = g /\ Texts(g)[n].n = n /\ Texts(g)[n].kind = ks[n]
  <2> SUFFICES ASSUME NEW n \in 1..L
               PROVE  Texts(g)[n].from = g /\ Texts(g)[n].n = n /\ Texts(g)[n].kind = ks[n]
    OBVIOUS
  <2> DEFINE t == Texts(g)[n]
  <2>1. t = [from |-> g, n |-> n, kind |-> ks[n]]  BY <1>13
  <2> HIDE DEF t
  <2>2. t.from = g /\ t.n = n /\ t.kind = ks[n]  BY <2>1
  <2> QED  BY <2>2 DEF t
<1> QED  BY <1>8, <1>10, <1>11, <1>12, <1>13, <1>14, <1>15 DEF ks

\* The task, and with it what a goroutine says and where, never changes.
LEMMA TaskStays ==
  ASSUME TypeInv, task' = task
  PROVE  \A g \in Goroutines : CellOf(g)' = CellOf(g) /\ Texts(g)' = Texts(g)
<1>1. \A g \in Goroutines : g # Loop  BY WhoIsWho
<1> QED  BY <1>1 DEF CellOf, Texts

\* One box of several is replaced.
LEMMA OneBox ==
  ASSUME NEW T, NEW bs \in Seq(Seq(T)), NEW h \in 1..Len(bs), NEW b \in Seq(T)
  PROVE  LET new == [bs EXCEPT ![h] = b]
         IN /\ new \in Seq(Seq(T)) /\ Len(new) = Len(bs) /\ DOMAIN new = DOMAIN bs
            /\ new[h] = b /\ \A i \in DOMAIN bs \ {h} : new[i] = bs[i]
  OBVIOUS

\* An empty one is added.
LEMMA NewBox ==
  ASSUME NEW T, NEW bs \in Seq(Seq(T))
  PROVE  LET new == Append(bs, <<>>)
         IN /\ new \in Seq(Seq(T)) /\ Len(new) = Len(bs) + 1
            /\ new[Len(bs) + 1] = <<>> /\ \A i \in DOMAIN bs : new[i] = bs[i]
<1>1. <<>> \in Seq(T)  OBVIOUS
<1>2. Append(bs, <<>>) \in Seq(Seq(T))  BY <1>1
<1> QED  BY <1>1, <1>2

\* The schedules, by their places.
LEMMA SchedulesAre ==
  /\ DOMAIN Schedules = 1..3 /\ Len(Schedules) = 3
  /\ Schedules[1] = "OutputQueue" /\ Schedules[2] = "ManicMinute" /\ Schedules[3] = "Commentator"
  BY DEF Schedules

----------------------------------------------------------------------------
(* The steps, one by one *)

\* What one actor does to the places leaves the others with what they hold.
LEMMA OthersKeep ==
  ASSUME TypeInv, CellsInv, NEW g \in Actors, task' = task,
         g = Loop \/ loop'.cell = loop.cell,
         \A h \in Actors \ {g} : at'[h] = at[h] /\ held'[h] = held[h],
         \A c \in Cells : /\ Len(boxes'[c]) \in Nat /\ Len(boxes'[c]) >= Len(boxes[c])
                          /\ cell'[c] \in 0..Len(boxes'[c]) /\ (cell[c] # 0 => cell'[c] # 0),
         at'[g] = "take" => cell'[CellOf(g)'] # 0,
         at'[g] = "use" => held'[g] \in 1..Len(boxes'[CellOf(g)'])
  PROVE  CellsInv'
<1>1. \A h \in Actors \ {g} : CellOf(h)' = CellOf(h) /\ CellOf(h) \in Cells
  <2> SUFFICES ASSUME NEW h \in Actors \ {g}
               PROVE  CellOf(h)' = CellOf(h) /\ CellOf(h) \in Cells
    OBVIOUS
  <2>1. CASE h = Loop
    BY <2>1, WhoIsWho DEF CellOf
  <2>2. CASE h \in Goroutines
    BY <2>2, WhoIsWho, TaskStays
  <2> QED  BY <2>1, <2>2 DEF Actors
<1>2. \A c \in Cells : Len(boxes[c]) \in Nat /\ Len(boxes'[c]) \in Nat /\ Len(boxes'[c]) >= Len(boxes[c])
  BY DEF TypeInv, Cells
<1>3. ASSUME NEW h \in Actors  PROVE at'[h] = "take" => cell'[CellOf(h)'] # 0
  <2>1. CASE h = g  BY <2>1
  <2>2. CASE h # g  BY <1>1, <2>2 DEF CellsInv
  <2> QED  BY <2>1, <2>2
<1>4. ASSUME NEW h \in Actors  PROVE at'[h] = "use" => held'[h] \in 1..Len(boxes'[CellOf(h)'])
  <2>1. CASE h = g  BY <2>1
  <2>2. CASE h # g
    <3>1. CellOf(h)' = CellOf(h) /\ CellOf(h) \in Cells /\ at'[h] = at[h] /\ held'[h] = held[h]
      BY <1>1, <2>2
    <3>2. at[h] = "use" => held[h] \in 1..Len(boxes[CellOf(h)])  BY DEF CellsInv
    <3>3. held[h] \in Nat  BY DEF TypeInv
    <3> QED  BY <1>2, <3>1, <3>2, <3>3
  <2> QED  BY <2>1, <2>2
<1> QED  BY <1>3, <1>4 DEF CellsInv

\* The same when the boxes stay as they are.
LEMMA OthersKeepAll ==
  ASSUME TypeInv, CellsInv, NEW g \in Actors, task' = task, cell' = cell, boxes' = boxes,
         g = Loop \/ loop'.cell = loop.cell,
         \A h \in Actors \ {g} : at'[h] = at[h] /\ held'[h] = held[h],
         at'[g] = "take" => cell[CellOf(g)'] # 0,
         at'[g] = "use" => held'[g] \in 1..Len(boxes[CellOf(g)'])
  PROVE  CellsInv'
<1>1. \A c \in Cells : Len(boxes[c]) \in Nat /\ cell[c] \in 0..Len(boxes[c])
  BY DEF TypeInv, Cells, CellsInv
<1>2. \A c \in Cells : /\ Len(boxes'[c]) \in Nat /\ Len(boxes'[c]) >= Len(boxes[c])
                       /\ cell'[c] \in 0..Len(boxes'[c]) /\ (cell[c] # 0 => cell'[c] # 0)
  BY <1>1
<1> QED  BY <1>2, OthersKeep

\* The loop's locals do not tell where another is.
LEMMA PassKeeps ==
  ASSUME TypeInv, PassInv, loop' = loop, at'[Loop] = at[Loop],
         Len(boxes'["mailbox"]) >= Len(boxes["mailbox"]), Len(boxes'["mailbox"]) \in Nat
  PROVE  PassInv'
<1>1. loop.outgoing \in 1..Len(boxes["mailbox"]) => loop.outgoing \in 1..Len(boxes'["mailbox"])
  BY DEF TypeInv
<1> QED  BY <1>1 DEF PassInv

LEMMA LookStep ==
  ASSUME OutgoingInv, NEW g \in Actors, NEW c \in Cells, Look(g, c), task' = task,
         CellOf(g)' = c, loop' \in LoopType, speeches' = speeches, attempts' = attempts, put' = put,
         g = Loop \/ loop' = loop
  PROVE  /\ TypeInv' /\ CellsInv' /\ at' = [at EXCEPT ![g] = at'[g]] /\ at'[g] \in {"make", "take"}
         /\ boxes' = boxes /\ held' = held /\ cell' = cell
         /\ at'[g] = "make" <=> cell[c] = 0
<1> USE DEF OutgoingInv
<1>1. cell' = cell /\ boxes' = boxes /\ held' = held  BY DEF Look
<1>2. at' = [at EXCEPT ![g] = IF cell[c] = 0 THEN "make" ELSE "take"]
  BY DEF Look, Goes
<1>3. raced' \in SUBSET Cells  BY DEF Look, TypeInv
<1>4. at \in [Actors -> Places \cup LoopPlaces]  BY DEF TypeInv
<1>5. /\ at'[g] = IF cell[c] = 0 THEN "make" ELSE "take"
      /\ \A h \in Actors \ {g} : at'[h] = at[h]
      /\ at' \in [Actors -> Places \cup LoopPlaces]
  BY <1>2, <1>4 DEF Places, LoopPlaces
<1>6. TypeInv'
  <2>1. at'[Loop] \in LoopPlaces /\ \A h \in Goroutines : at'[h] \in Places
    BY <1>5, WhoIsWho DEF TypeInv, Places, LoopPlaces
  <2> QED  BY <1>1, <1>3, <1>5, <2>1 DEF TypeInv
<1>7. CellsInv'
  <2>1. at'[g] = "take" => cell[CellOf(g)'] # 0  BY <1>5
  <2>2. at'[g] # "use"  BY <1>5
  <2>3. g = Loop \/ loop'.cell = loop.cell  OBVIOUS
  <2> QED  BY <1>1, <1>5, <2>1, <2>2, <2>3, OthersKeepAll
<1> QED  BY <1>1, <1>2, <1>5, <1>6, <1>7

\* The loop's locals have no more than one record's worth of fields.
LEMMA IdleIsLoop == IdleLoop \in LoopType /\ IdleLoop.cell = "mailbox" /\ IdleLoop.messages = <<>>
                    /\ IdleLoop.scheduled = {} /\ IdleLoop.taken = <<>>
  BY DEF IdleLoop, LoopType, Cells

LEMMA InitControl == Init => OutgoingInv
<1> SUFFICES ASSUME Init PROVE OutgoingInv  OBVIOUS
<1>1. loop \in LoopType  BY IdleIsLoop DEF Init
<1>2. at[Loop] = "idle" /\ \A g \in Goroutines : at[g] = "idle"  BY DEF Init, Actors
<1>3. cell \in [Cells -> Nat] /\ DOMAIN boxes = Cells  BY DEF Init
<1>4. boxes["mailbox"] = <<>> /\ boxes["queue"] = <<>>  BY DEF Init, Cells
<1>5. boxes["mailbox"] \in Seq(Seq(Envelope)) /\ boxes["queue"] \in Seq(Seq(QueueNote))  BY <1>4
<1>6. task \in [Goroutines -> Tasks] /\ raced \in SUBSET Cells /\ speeches \in Nat  BY DEF Init
<1>7. attempts \in Seq([text : Text, channel : Channels]) /\ put \in Seq(Text)  BY DEF Init
<1>8. at \in [Actors -> Places \cup LoopPlaces] /\ held \in [Actors -> Nat]
  BY DEF Init, Places, LoopPlaces
<1>9. TypeInv
  BY <1>1, <1>2, <1>3, <1>5, <1>6, <1>7, <1>8 DEF TypeInv, Places, LoopPlaces
<1>10. CellsInv
  <2>1. \A g \in Actors : at[g] = "idle"  BY DEF Init
  <2>2. \A c \in Cells : cell[c] = 0 /\ Len(boxes[c]) = 0  BY <1>4 DEF Init, Cells
  <2> QED  BY <2>1, <2>2 DEF CellsInv
<1>11. PassInv
  <2>1. loop = IdleLoop /\ at[Loop] = "idle"  BY <1>2 DEF Init
  <2> QED  BY <2>1, IdleIsLoop DEF PassInv
<1> QED  BY <1>9, <1>10, <1>11 DEF OutgoingInv

LEMMA BeginStep ==
  ASSUME OutgoingInv, NEW g \in Goroutines, Begin(g)
  PROVE  OutgoingInv'
<1> DEFINE c == CellOf(g)
<1>1. TypeInv /\ CellsInv /\ PassInv  BY DEF OutgoingInv
<1>2. Look(g, c) /\ UNCHANGED <<task, loop, speeches, attempts, put>>  BY DEF Begin
<1>3. c \in Cells /\ g \in Actors /\ g # Loop /\ Loop \in Actors /\ CellOf(g)' = c
  BY <1>1, <1>2, WhoIsWho, TaskStays
<1>4. loop' \in LoopType  BY <1>1, <1>2 DEF TypeInv
<1> HIDE DEF c
<1>5. /\ TypeInv' /\ CellsInv' /\ at' = [at EXCEPT ![g] = at'[g]] /\ boxes' = boxes
  BY <1>2, <1>3, <1>4, LookStep
<1>6. at'[Loop] = at[Loop]  BY <1>1, <1>3, <1>5 DEF TypeInv
<1>7. Len(boxes["mailbox"]) \in Nat  BY <1>1 DEF TypeInv
<1>8. PassInv'  BY <1>1, <1>2, <1>5, <1>6, <1>7, PassKeeps
<1> QED  BY <1>5, <1>8 DEF OutgoingInv

LEMMA EventStep ==
  ASSUME OutgoingInv, NEW g \in Goroutines, HandleEventResponseEnvelope(g)
  PROVE  OutgoingInv'
<1> USE DEF HandleEventResponseEnvelope
<1>1. TypeInv /\ CellsInv /\ PassInv  BY DEF OutgoingInv
<1>2. at \in [Actors -> Places \cup LoopPlaces]  BY <1>1 DEF TypeInv
<1>3. g \in Actors /\ g # Loop /\ Loop \in Actors /\ task[g].kind = "event" /\ CellOf(g) = "mailbox"
      /\ CellOf(g)' = CellOf(g)
  BY <1>1, WhoIsWho, TaskStays DEF cells, CellOf
<1>4. /\ at'[g] = IF cell["mailbox"] = 0 THEN "done" ELSE "take"
      /\ \A h \in Actors \ {g} : at'[h] = at[h]
      /\ at' \in [Actors -> Places \cup LoopPlaces]
  BY <1>2, <1>3 DEF Goes, Places
<1>5. TypeInv'
  <2>1. at'[Loop] \in LoopPlaces /\ \A h \in Goroutines : at'[h] \in Places
    BY <1>1, <1>3, <1>4, WhoIsWho DEF TypeInv, Places, LoopPlaces
  <2> QED  BY <1>1, <1>4, <2>1 DEF TypeInv, cells
<1>6. CellsInv'
  <2>1. at'[g] = "take" => cell[CellOf(g)'] # 0  BY <1>3, <1>4
  <2>2. at'[g] # "use"  BY <1>4
  <2> QED  BY <1>1, <1>3, <1>4, <2>1, <2>2, OthersKeepAll DEF cells
<1>7. Len(boxes["mailbox"]) \in Nat  BY <1>1 DEF TypeInv
<1>8. PassInv'  BY <1>1, <1>3, <1>4, <1>7, PassKeeps DEF cells
<1> QED  BY <1>5, <1>6, <1>8 DEF OutgoingInv

\* What making a box does, whoever makes it.
LEMMA MakeIs ==
  ASSUME OutgoingInv, NEW g \in Actors, Make(g)
  PROVE  LET c == CellOf(g)
         IN /\ c \in Cells /\ CellOf(g)' = c
            /\ boxes'[c] = Append(boxes[c], <<>>) /\ \A d \in Cells \ {c} : boxes'[d] = boxes[d]
            /\ DOMAIN boxes' = Cells
            /\ cell' = [cell EXCEPT ![c] = Len(boxes[c]) + 1]
            /\ Len(boxes'[c]) = Len(boxes[c]) + 1 /\ \A d \in Cells : Len(boxes[d]) \in Nat
            /\ \A i \in 1..Len(boxes[c]) : boxes'[c][i] = boxes[c][i]
            /\ boxes'[c][Len(boxes[c]) + 1] = <<>>
            /\ at[g] = "make" /\ at'[g] = "take" /\ \A h \in Actors \ {g} : at'[h] = at[h]
            /\ at' \in [Actors -> Places \cup LoopPlaces]
            /\ boxes'["mailbox"] \in Seq(Seq(Envelope)) /\ boxes'["queue"] \in Seq(Seq(QueueNote))
<1> DEFINE c == CellOf(g)
<1>1. TypeInv  BY DEF OutgoingInv
<1>2. c \in Cells  BY <1>1, WhoIsWho
<1>3. CellOf(g)' = c
  <2>1. loop' = loop /\ task' = task  BY DEF Make
  <2> QED  BY <2>1 DEF CellOf
<1> HIDE DEF c
<1>4. boxes' = [boxes EXCEPT ![c] = Append(boxes[c], <<>>)]  BY DEF Make, c
<1>5. boxes'[c] = Append(boxes[c], <<>>) /\ (\A d \in Cells \ {c} : boxes'[d] = boxes[d])
      /\ DOMAIN boxes' = Cells
  BY <1>1, <1>2, <1>4 DEF TypeInv
<1>6. cell' = [cell EXCEPT ![c] = Len(boxes'[c])]  BY DEF Make, c
<1>7. boxes["mailbox"] \in Seq(Seq(Envelope)) /\ boxes["queue"] \in Seq(Seq(QueueNote))
  BY <1>1 DEF TypeInv
<1>8. /\ Len(boxes'[c]) = Len(boxes[c]) + 1 /\ \A d \in Cells : Len(boxes[d]) \in Nat
      /\ \A i \in 1..Len(boxes[c]) : boxes'[c][i] = boxes[c][i]
      /\ boxes'[c][Len(boxes[c]) + 1] = <<>>
      /\ boxes'["mailbox"] \in Seq(Seq(Envelope)) /\ boxes'["queue"] \in Seq(Seq(QueueNote))
  <2>1. CASE c = "mailbox"
    <3>1. boxes'["queue"] = boxes["queue"] /\ boxes'["mailbox"] = Append(boxes["mailbox"], <<>>)
      BY <1>5, <2>1 DEF Cells
    <3> QED  BY <1>7, <2>1, <3>1, NewBox DEF Cells
  <2>2. CASE c = "queue"
    <3>1. boxes'["mailbox"] = boxes["mailbox"] /\ boxes'["queue"] = Append(boxes["queue"], <<>>)
      BY <1>5, <2>2 DEF Cells
    <3> QED  BY <1>7, <2>2, <3>1, NewBox DEF Cells
  <2> QED  BY <1>2, <2>1, <2>2 DEF Cells
<1>9. at[g] = "make" /\ at'[g] = "take" /\ (\A h \in Actors \ {g} : at'[h] = at[h])
      /\ at' \in [Actors -> Places \cup LoopPlaces]
  BY <1>1 DEF Make, At, Goes, TypeInv, Places
<1> QED  BY <1>2, <1>3, <1>5, <1>6, <1>8, <1>9 DEF c

LEMMA MakeStep ==
  ASSUME OutgoingInv, NEW g \in Actors, Make(g)
  PROVE  OutgoingInv'
<1> DEFINE c == CellOf(g)
<1>1. TypeInv /\ CellsInv /\ PassInv  BY DEF OutgoingInv
<1>2. UNCHANGED <<task, held, loop, speeches, attempts, put, raced>>  BY DEF Make
<1>3. /\ c \in Cells /\ CellOf(g)' = c
      /\ boxes'[c] = Append(boxes[c], <<>>) /\ \A d \in Cells \ {c} : boxes'[d] = boxes[d]
      /\ DOMAIN boxes' = Cells
      /\ cell' = [cell EXCEPT ![c] = Len(boxes[c]) + 1]
      /\ Len(boxes'[c]) = Len(boxes[c]) + 1 /\ \A d \in Cells : Len(boxes[d]) \in Nat
      /\ at[g] = "make" /\ at'[g] = "take" /\ \A h \in Actors \ {g} : at'[h] = at[h]
      /\ at' \in [Actors -> Places \cup LoopPlaces]
      /\ boxes'["mailbox"] \in Seq(Seq(Envelope)) /\ boxes'["queue"] \in Seq(Seq(QueueNote))
  BY MakeIs
<1> HIDE DEF c
<1>4. cell \in [Cells -> Nat] /\ Len(boxes[c]) + 1 \in Nat  BY <1>1, <1>3 DEF TypeInv
<1>5. cell' \in [Cells -> Nat] /\ cell'[c] = Len(boxes[c]) + 1 /\ \A d \in Cells \ {c} : cell'[d] = cell[d]
  BY <1>3, <1>4
<1>6. at'[Loop] \in LoopPlaces /\ \A h \in Goroutines : at'[h] \in Places
  BY <1>1, <1>3, WhoIsWho DEF TypeInv, Places, LoopPlaces
<1>7. TypeInv'  BY <1>1, <1>2, <1>3, <1>5, <1>6 DEF TypeInv
<1>8. \A d \in Cells : /\ Len(boxes'[d]) \in Nat /\ Len(boxes'[d]) >= Len(boxes[d])
                       /\ cell'[d] \in 0..Len(boxes'[d]) /\ (cell[d] # 0 => cell'[d] # 0)
  BY <1>1, <1>3, <1>5 DEF CellsInv
<1>9. CellsInv'
  <2>1. at'[g] = "take" => cell'[CellOf(g)'] # 0  BY <1>3, <1>5
  <2>2. at'[g] # "use"  BY <1>3
  <2> QED  BY <1>1, <1>2, <1>3, <1>8, <2>1, <2>2, OthersKeep
<1>10. PassInv'
  <2>1. Len(boxes'["mailbox"]) \in Nat /\ Len(boxes'["mailbox"]) >= Len(boxes["mailbox"])
    BY <1>8 DEF Cells
  <2>2. loop.outgoing \in 1..Len(boxes["mailbox"]) => loop.outgoing \in 1..Len(boxes'["mailbox"])
    BY <1>3, <2>1 DEF Cells
  <2>3. CASE g = Loop
    BY <1>1, <1>2, <1>3, <2>2, <2>3 DEF PassInv
  <2>4. CASE g # Loop
    BY <1>1, <1>2, <1>3, <2>1, <2>4, WhoIsWho, PassKeeps
  <2> QED  BY <2>3, <2>4
<1> QED  BY <1>7, <1>9, <1>10 DEF OutgoingInv

LEMMA TakeStep ==
  ASSUME OutgoingInv, NEW g \in Actors, Take(g)
  PROVE  OutgoingInv'
<1>1. TypeInv /\ CellsInv /\ PassInv  BY DEF OutgoingInv
<1>2. UNCHANGED <<cell, boxes, raced, task, loop, speeches, attempts, put>>  BY DEF Take, cells
<1>3. CellOf(g) \in Cells /\ CellOf(g)' = CellOf(g) /\ Loop \in Actors  BY <1>1, <1>2, WhoIsWho DEF CellOf
<1>4. at[g] = "take" /\ at'[g] = "use" /\ (\A h \in Actors \ {g} : at'[h] = at[h])
      /\ at' \in [Actors -> Places \cup LoopPlaces]
  BY <1>1 DEF Take, At, Goes, TypeInv, Places
<1>5. held'[g] = cell[CellOf(g)] /\ (\A h \in Actors \ {g} : held'[h] = held[h])
      /\ held' \in [Actors -> Nat]
  BY <1>1, <1>3 DEF Take, TypeInv
<1>6. cell[CellOf(g)] \in 1..Len(boxes[CellOf(g)])
  BY <1>1, <1>3, <1>4 DEF CellsInv
<1>7. at'[Loop] \in LoopPlaces /\ \A h \in Goroutines : at'[h] \in Places
  BY <1>1, <1>4, WhoIsWho DEF TypeInv, Places, LoopPlaces
<1>8. TypeInv'  BY <1>1, <1>2, <1>4, <1>5, <1>7 DEF TypeInv
<1>9. CellsInv'  BY <1>1, <1>2, <1>3, <1>4, <1>5, <1>6, OthersKeepAll
<1>10. PassInv'
  <2>1. Len(boxes["mailbox"]) \in Nat  BY <1>1 DEF TypeInv
  <2>2. CASE g = Loop  BY <1>1, <1>2, <1>4, <2>2 DEF PassInv
  <2>3. CASE g # Loop  BY <1>1, <1>2, <1>3, <1>4, <2>1, <2>3, PassKeeps
  <2> QED  BY <2>2, <2>3
<1> QED  BY <1>8, <1>9, <1>10 DEF OutgoingInv

\* What putting an item into a box does.
LEMMA PutIs ==
  ASSUME OutgoingInv, NEW g \in Goroutines, Put(g)
  PROVE  LET c == CellOf(g)  h == held[g]
             item == IF task[g].kind = "note"
                     THEN [channel |-> task[g].channel, text |-> Texts(g)[1]]
                     ELSE [channel |-> task[g].channel, responses |-> Texts(g)]
         IN /\ c \in Cells /\ h \in 1..Len(boxes[c])
            /\ c = "mailbox" => item \in Envelope
            /\ c = "queue" => item \in QueueNote
            /\ boxes'[c] = [boxes[c] EXCEPT ![h] = Append(boxes[c][h], item)]
            /\ \A d \in Cells \ {c} : boxes'[d] = boxes[d]
            /\ DOMAIN boxes' = Cells /\ \A d \in Cells : Len(boxes'[d]) = Len(boxes[d])
            /\ \A d \in Cells : Len(boxes[d]) \in Nat
            /\ boxes'["mailbox"] \in Seq(Seq(Envelope)) /\ boxes'["queue"] \in Seq(Seq(QueueNote))
            /\ at[g] = "use" /\ at'[g] = "done" /\ \A a \in Actors \ {g} : at'[a] = at[a]
            /\ at' \in [Actors -> Places \cup LoopPlaces]
            /\ held' \in [Actors -> Nat] /\ \A a \in Actors \ {g} : held'[a] = held[a]
<1> DEFINE c == CellOf(g)  h == held[g]
           item == IF task[g].kind = "note"
                   THEN [channel |-> task[g].channel, text |-> Texts(g)[1]]
                   ELSE [channel |-> task[g].channel, responses |-> Texts(g)]
<1>1. TypeInv /\ CellsInv  BY DEF OutgoingInv
<1>2. g \in Actors /\ g # Loop /\ c \in Cells /\ (c = "queue" <=> task[g].kind = "note")
      /\ task[g].channel \in Channels /\ task[g].channel # NoChannel /\ g # Commentator
  BY <1>1, WhoIsWho
<1>3. at[g] = "use"  BY DEF Put, At
<1>4. h \in 1..Len(boxes[c])  BY <1>1, <1>2, <1>3 DEF CellsInv
<1>5. /\ Texts(g) \in Seq(Text) /\ Texts(g) # <<>> /\ 1 \in DOMAIN Texts(g)
      /\ Texts(g)[1] \in Text /\ \A n \in DOMAIN Texts(g) : Texts(g)[n].from = g
  BY <1>1, TextsType
<1>6. c = "mailbox" => item \in Envelope
  <2> SUFFICES ASSUME c = "mailbox" PROVE item \in Envelope  OBVIOUS
  <2>1. item = [channel |-> task[g].channel, responses |-> Texts(g)]  BY <1>2
  <2> HIDE DEF item
  <2>2. item.responses = Texts(g) /\ item \in [channel : Channels, responses : Seq(Text)]
    BY <1>2, <1>5, <2>1
  <2> QED  BY <1>2, <1>5, <2>2 DEF Envelope
<1>7. c = "queue" => item \in QueueNote
  <2> SUFFICES ASSUME c = "queue" PROVE item \in QueueNote  OBVIOUS
  <2>1. item = [channel |-> task[g].channel, text |-> Texts(g)[1]]  BY <1>2
  <2> HIDE DEF item
  <2>2. item.text = Texts(g)[1] /\ item.channel = task[g].channel
        /\ item \in [channel : Channels \cup {NoChannel}, text : Text]
    BY <1>2, <1>5, <2>1
  <2> QED  BY <1>2, <1>5, <2>2 DEF Note, QueueNote
<1>8. boxes' = [boxes EXCEPT ![c] = [boxes[c] EXCEPT ![h] = Append(boxes[c][h], item)]]
  BY DEF Put, Added
<1> HIDE DEF c, h, item
<1>9. /\ boxes'[c] = [boxes[c] EXCEPT ![h] = Append(boxes[c][h], item)]
      /\ \A d \in Cells \ {c} : boxes'[d] = boxes[d]
      /\ DOMAIN boxes' = Cells
  BY <1>1, <1>2, <1>8 DEF TypeInv
<1>10. boxes["mailbox"] \in Seq(Seq(Envelope)) /\ boxes["queue"] \in Seq(Seq(QueueNote))
  BY <1>1 DEF TypeInv
<1>11. /\ \A d \in Cells : Len(boxes'[d]) = Len(boxes[d]) /\ Len(boxes[d]) \in Nat
       /\ boxes'["mailbox"] \in Seq(Seq(Envelope)) /\ boxes'["queue"] \in Seq(Seq(QueueNote))
  <2>1. CASE c = "mailbox"
    <3>1. boxes'["queue"] = boxes["queue"]  BY <1>9, <2>1 DEF Cells
    <3>2. boxes["mailbox"][h] \in Seq(Envelope)  BY <1>4, <1>10, <2>1
    <3>3. Append(boxes["mailbox"][h], item) \in Seq(Envelope)  BY <1>6, <2>1, <3>2
    <3> DEFINE bs == boxes["mailbox"]  b == Append(boxes["mailbox"][h], item)
    <3>4. boxes'["mailbox"] = [bs EXCEPT ![h] = b] /\ bs \in Seq(Seq(Envelope)) /\ h \in 1..Len(bs)
          /\ b \in Seq(Envelope)
      BY <1>4, <1>9, <1>10, <2>1, <3>3
    <3> HIDE DEF b, bs
    <3>5. [bs EXCEPT ![h] = b] \in Seq(Seq(Envelope)) /\ Len([bs EXCEPT ![h] = b]) = Len(bs)
      BY <3>4, OneBox
    <3>6. boxes'["mailbox"] \in Seq(Seq(Envelope)) /\ Len(boxes'["mailbox"]) = Len(boxes["mailbox"])
      BY <3>4, <3>5 DEF bs
    <3> QED  BY <1>10, <3>1, <3>6 DEF Cells
  <2>2. CASE c = "queue"
    <3>1. boxes'["mailbox"] = boxes["mailbox"]  BY <1>9, <2>2 DEF Cells
    <3>2. boxes["queue"][h] \in Seq(QueueNote)  BY <1>4, <1>10, <2>2
    <3>3. Append(boxes["queue"][h], item) \in Seq(QueueNote)  BY <1>7, <2>2, <3>2
    <3> DEFINE bs == boxes["queue"]  b == Append(boxes["queue"][h], item)
    <3>4. boxes'["queue"] = [bs EXCEPT ![h] = b] /\ bs \in Seq(Seq(QueueNote)) /\ h \in 1..Len(bs)
          /\ b \in Seq(QueueNote)
      BY <1>4, <1>9, <1>10, <2>2, <3>3
    <3> HIDE DEF b, bs
    <3>5. [bs EXCEPT ![h] = b] \in Seq(Seq(QueueNote)) /\ Len([bs EXCEPT ![h] = b]) = Len(bs)
      BY <3>4, OneBox
    <3>6. boxes'["queue"] \in Seq(Seq(QueueNote)) /\ Len(boxes'["queue"]) = Len(boxes["queue"])
      BY <3>4, <3>5 DEF bs
    <3> QED  BY <1>10, <3>1, <3>6 DEF Cells
  <2> QED  BY <1>2, <2>1, <2>2 DEF Cells
<1>12. at[g] = "use" /\ at'[g] = "done" /\ (\A a \in Actors \ {g} : at'[a] = at[a])
       /\ at' \in [Actors -> Places \cup LoopPlaces]
  BY <1>1, <1>2, <1>3 DEF Put, Goes, TypeInv, Places
<1>13. held' \in [Actors -> Nat] /\ \A a \in Actors \ {g} : held'[a] = held[a]
  BY <1>1, <1>2 DEF Put, Lets, TypeInv
<1> QED  BY <1>2, <1>4, <1>6, <1>7, <1>9, <1>11, <1>12, <1>13 DEF c, h, item

LEMMA PutStep ==
  ASSUME OutgoingInv, NEW g \in Goroutines, Put(g)
  PROVE  OutgoingInv'
<1>1. TypeInv /\ CellsInv /\ PassInv  BY DEF OutgoingInv
<1>2. UNCHANGED <<task, cell, loop, speeches, attempts, raced>> /\ put' = put \o Texts(g)
  BY DEF Put
<1>3. /\ DOMAIN boxes' = Cells /\ \A d \in Cells : Len(boxes'[d]) = Len(boxes[d])
      /\ \A d \in Cells : Len(boxes[d]) \in Nat
      /\ boxes'["mailbox"] \in Seq(Seq(Envelope)) /\ boxes'["queue"] \in Seq(Seq(QueueNote))
      /\ at[g] = "use" /\ at'[g] = "done" /\ \A a \in Actors \ {g} : at'[a] = at[a]
      /\ at' \in [Actors -> Places \cup LoopPlaces]
      /\ held' \in [Actors -> Nat] /\ \A a \in Actors \ {g} : held'[a] = held[a]
  BY PutIs
<1>4. g \in Actors /\ g # Loop /\ Loop \in Actors /\ Texts(g) \in Seq(Text)  BY <1>1, WhoIsWho, TextsType
<1>5. put' \in Seq(Text)  BY <1>1, <1>2, <1>4 DEF TypeInv
<1>6. at'[Loop] \in LoopPlaces /\ \A h \in Goroutines : at'[h] \in Places
  BY <1>1, <1>3, <1>4, WhoIsWho DEF TypeInv, Places, LoopPlaces
<1>7. TypeInv'  BY <1>1, <1>2, <1>3, <1>5, <1>6 DEF TypeInv
<1>8. \A d \in Cells : /\ Len(boxes'[d]) \in Nat /\ Len(boxes'[d]) >= Len(boxes[d])
                       /\ cell'[d] \in 0..Len(boxes'[d]) /\ (cell[d] # 0 => cell'[d] # 0)
  BY <1>1, <1>2, <1>3 DEF CellsInv
<1>9. CellsInv'
  <2>1. at'[g] # "take" /\ at'[g] # "use"  BY <1>3
  <2> QED  BY <1>1, <1>2, <1>3, <1>4, <1>8, <2>1, OthersKeep
<1>10. PassInv'
  <2>1. Len(boxes'["mailbox"]) \in Nat /\ Len(boxes'["mailbox"]) >= Len(boxes["mailbox"])
    BY <1>8 DEF Cells
  <2> QED  BY <1>1, <1>2, <1>3, <1>4, <2>1, PassKeeps
<1> QED  BY <1>7, <1>9, <1>10 DEF OutgoingInv

----------------------------------------------------------------------------
(* The messages the schedules leave, and their grouping by channel *)

AddressedPlaces(ms) == {i \in DOMAIN ms : ms[i].channel # NoChannel}
PlacesFor(c, ms) == {i \in DOMAIN ms : ms[i].channel = c}

\* Where the k-th text of the envelope for c was among the messages.
Whence(ms, c, k) == Nth(AddressedPlaces(ms), Nth(PlacesFor(c, Addressed(ms)), k))

\* What a schedule leaves are messages: those it has that are not blank, in their order.
LEMMA NotEmptyIs ==
  ASSUME NEW T, NEW ms \in Seq(T)
  PROVE  LET S == {i \in DOMAIN ms : ms[i].text.kind # "blank"}  u == NotEmpty(ms)
         IN /\ u \in Seq(T) /\ Len(u) \in Nat /\ DOMAIN u = 1..Len(u)
            /\ \A n \in DOMAIN u : Nth(S, n) \in S /\ u[n] = ms[Nth(S, n)]
            /\ \A m, n \in DOMAIN u : m < n => Nth(S, m) < Nth(S, n)
            /\ \A m, n \in DOMAIN u : Nth(S, m) = Nth(S, n) => m = n
            /\ \A h \in S : Rank(S, h) \in DOMAIN u /\ u[Rank(S, h)] = ms[h]
<1> DEFINE S == {i \in DOMAIN ms : ms[i].text.kind # "blank"}
<1>1. S \in SUBSET DOMAIN ms  OBVIOUS
<1>2. NotEmpty(ms) = Kept(ms, S)  BY DEF NotEmpty
<1> HIDE DEF S
<1>3. /\ Kept(ms, S) \in Seq(T) /\ Len(Kept(ms, S)) \in Nat /\ DOMAIN Kept(ms, S) = 1..Len(Kept(ms, S))
      /\ \A n \in DOMAIN Kept(ms, S) : Nth(S, n) \in S /\ Kept(ms, S)[n] = ms[Nth(S, n)]
      /\ \A m, n \in DOMAIN Kept(ms, S) : m < n => Nth(S, m) < Nth(S, n)
      /\ \A m, n \in DOMAIN Kept(ms, S) : Nth(S, m) = Nth(S, n) => m = n
      /\ \A h \in S : Rank(S, h) \in DOMAIN Kept(ms, S) /\ Kept(ms, S)[Rank(S, h)] = ms[h]
  BY <1>1, KeptIs
<1> QED  BY <1>2, <1>3 DEF S

LEMMA AddressedIs ==
  ASSUME NEW ms \in Seq(Note)
  PROVE  LET S == AddressedPlaces(ms)  u == Addressed(ms)
         IN /\ S \subseteq DOMAIN ms
            /\ u \in Seq(QueueNote) /\ Len(u) \in Nat /\ DOMAIN u = 1..Len(u)
            /\ \A n \in DOMAIN u : Nth(S, n) \in S /\ u[n] = ms[Nth(S, n)]
            /\ \A m, n \in DOMAIN u : m < n => Nth(S, m) < Nth(S, n)
            /\ \A h \in S : Rank(S, h) \in DOMAIN u /\ u[Rank(S, h)] = ms[h]
<1> DEFINE S == AddressedPlaces(ms)  u == Addressed(ms)
<1>1. S \in SUBSET DOMAIN ms  BY DEF AddressedPlaces
<1>2. u = Kept(ms, S)  BY DEF Addressed, AddressedPlaces
<1>3. \A i \in S : ms[i] \in Note /\ ms[i].channel # NoChannel  BY DEF AddressedPlaces
<1>4. \A i \in S : ms[i] \in QueueNote  BY <1>3 DEF QueueNote
<1> HIDE DEF S, u
<1>5. /\ u \in Seq(Note) /\ Len(u) \in Nat /\ DOMAIN u = 1..Len(u)
      /\ \A n \in DOMAIN u : Nth(S, n) \in S /\ u[n] = ms[Nth(S, n)]
      /\ \A m, n \in DOMAIN u : m < n => Nth(S, m) < Nth(S, n)
      /\ \A h \in S : Rank(S, h) \in DOMAIN u /\ u[Rank(S, h)] = ms[h]
  BY <1>1, <1>2, KeptIs
<1>6. \A n \in 1..Len(u) : u[n] \in QueueNote  BY <1>4, <1>5
<1>7. u \in Seq(QueueNote)  BY <1>5, <1>6
<1> QED  BY <1>1, <1>5, <1>7 DEF S, u

\* Each envelope holds the texts of the messages of its channel, in their order; there is one of
\* every channel, and every message that has a channel is in one.
LEMMA EnvelopesAre ==
  ASSUME NEW ms \in Seq(Note), NEW es, es = ToResponseEnvelopes(Addressed(ms))
  PROVE  /\ \A e \in es :
              /\ e \in Envelope /\ e.channel \in Channels
              /\ \A k \in DOMAIN e.responses :
                   LET w == Whence(ms, e.channel, k)
                   IN w \in DOMAIN ms /\ ms[w].text = e.responses[k] /\ ms[w].channel = e.channel
              /\ \A k, l \in DOMAIN e.responses :
                   k < l => Whence(ms, e.channel, k) < Whence(ms, e.channel, l)
         /\ \A e, f \in es : e.channel = f.channel => e = f
         /\ \A j \in DOMAIN ms : ms[j].channel # NoChannel =>
              \E e \in es : /\ e.channel = ms[j].channel
                            /\ \E k \in DOMAIN e.responses : e.responses[k] = ms[j].text
<1> DEFINE S == AddressedPlaces(ms)  u == Addressed(ms)
           cs == {u[i].channel : i \in DOMAIN u}
<1>1. /\ S \subseteq DOMAIN ms
      /\ u \in Seq(QueueNote) /\ Len(u) \in Nat /\ DOMAIN u = 1..Len(u)
      /\ \A n \in DOMAIN u : Nth(S, n) \in S /\ u[n] = ms[Nth(S, n)]
      /\ \A m, n \in DOMAIN u : m < n => Nth(S, m) < Nth(S, n)
      /\ \A h \in S : Rank(S, h) \in DOMAIN u /\ u[Rank(S, h)] = ms[h]
  BY AddressedIs
<1>2. es = {[channel |-> c, responses |-> ResponsesFor(c, u)] : c \in cs}
  BY DEF ToResponseEnvelopes
<1>3. \A i \in DOMAIN u : u[i] \in QueueNote /\ u[i].channel \in Channels /\ u[i].text \in Text
                          /\ u[i].text.from # Commentator
  BY <1>1 DEF QueueNote, Note
<1>4. \A h \in DOMAIN ms : ms[h].channel # NoChannel => h \in S  BY DEF AddressedPlaces
<1>5. \A c, k : Whence(ms, c, k) = Nth(S, Nth(PlacesFor(c, u), k))  BY DEF Whence
<1>6. ASSUME NEW c \in cs
      PROVE  LET P == PlacesFor(c, u)  R == ResponsesFor(c, u)
             IN /\ c \in Channels /\ R \in Seq(Text) /\ R # <<>>
                /\ \A k \in DOMAIN R : Nth(P, k) \in P /\ R[k] = u[Nth(P, k)].text
                                       /\ R[k].from # Commentator
                /\ \A k, l \in DOMAIN R : k < l => Nth(P, k) < Nth(P, l)
                /\ \A h \in P : Rank(P, h) \in DOMAIN R /\ R[Rank(P, h)] = u[h].text
                /\ P \subseteq DOMAIN u /\ \A h \in P : u[h].channel = c
  <2> DEFINE P == PlacesFor(c, u)  R == ResponsesFor(c, u)  m == Kept(u, P)
  <2>1. P \in SUBSET DOMAIN u /\ \A h \in P : u[h].channel = c  BY DEF PlacesFor
  <2>2. R = [i \in DOMAIN m |-> m[i].text]  BY DEF ResponsesFor, PlacesFor
  <2>3. PICK i \in DOMAIN u : c = u[i].channel  OBVIOUS
  <2>4. i \in P  BY <2>3 DEF PlacesFor
  <2> HIDE DEF P, R, m, u, cs
  <2>5. /\ m \in Seq(QueueNote) /\ Len(m) \in Nat /\ DOMAIN m = 1..Len(m)
        /\ \A n \in DOMAIN m : Nth(P, n) \in P /\ m[n] = u[Nth(P, n)]
        /\ \A k, n \in DOMAIN m : k < n => Nth(P, k) < Nth(P, n)
        /\ \A h \in P : Rank(P, h) \in DOMAIN m /\ m[Rank(P, h)] = u[h]
    BY <1>1, <2>1, KeptIs DEF m
  <2>6. \A n \in 1..Len(m) : m[n].text \in Text /\ m[n].text.from # Commentator
    BY <1>3, <2>1, <2>5
  <2>7. DOMAIN R = 1..Len(m) /\ \A n \in 1..Len(m) : R[n] = m[n].text  BY <2>2, <2>5
  <2> DEFINE e(n) == m[n].text
  <2>8. R \in Seq(Text) /\ Len(R) = Len(m)
    <3>1. R = [n \in 1..Len(m) |-> e(n)] /\ \A n \in 1..Len(m) : e(n) \in Text
      BY <2>2, <2>5, <2>6
    <3> HIDE DEF e
    <3> QED  BY <2>5, <3>1
  <2>9. R # <<>>  BY <2>4, <2>5, <2>7
  <2>10. c \in Channels  BY <1>3, <2>3
  <2> QED  BY <2>1, <2>5, <2>6, <2>7, <2>8, <2>9, <2>10 DEF P, R
<1> HIDE DEF u
<1>7. ASSUME NEW e \in es
      PROVE  /\ e.channel \in cs /\ e = [channel |-> e.channel, responses |-> ResponsesFor(e.channel, u)]
             /\ e.responses = ResponsesFor(e.channel, u)
  BY <1>2
<1> HIDE DEF cs, S
<1>8. ASSUME NEW e \in es
      PROVE  /\ e \in Envelope /\ e.channel \in Channels
             /\ \A k \in DOMAIN e.responses :
                  LET w == Whence(ms, e.channel, k)
                  IN w \in DOMAIN ms /\ ms[w].text = e.responses[k] /\ ms[w].channel = e.channel
             /\ \A k, l \in DOMAIN e.responses :
                  k < l => Whence(ms, e.channel, k) < Whence(ms, e.channel, l)
  <2> DEFINE c == e.channel  R == ResponsesFor(c, u)  P == PlacesFor(c, u)
  <2>1. c \in cs /\ e = [channel |-> c, responses |-> R] /\ e.responses = R  BY <1>7
  <2> HIDE DEF c, R
  <2>2. /\ c \in Channels /\ R \in Seq(Text) /\ R # <<>>
        /\ \A k \in DOMAIN R : Nth(P, k) \in P /\ R[k] = u[Nth(P, k)].text /\ R[k].from # Commentator
        /\ \A k, l \in DOMAIN R : k < l => Nth(P, k) < Nth(P, l)
        /\ P \subseteq DOMAIN u /\ \A h \in P : u[h].channel = c
    BY <1>6, <2>1 DEF R
  <2> HIDE DEF P
  <2>3. e \in Envelope  BY <2>1, <2>2 DEF Envelope
  <2>4. \A k : Whence(ms, c, k) = Nth(S, Nth(P, k))  BY <1>5 DEF P
  <2>5. \A k \in DOMAIN R : LET w == Whence(ms, c, k)
                            IN w \in DOMAIN ms /\ ms[w].text = R[k] /\ ms[w].channel = c
    BY <1>1, <2>2, <2>4 DEF u
  <2>6. \A k, l \in DOMAIN R : k < l => Whence(ms, c, k) < Whence(ms, c, l)
    BY <1>1, <2>2, <2>4 DEF u
  <2> QED  BY <2>1, <2>2, <2>3, <2>5, <2>6 DEF c
<1>9. \A e, f \in es : e.channel = f.channel => e = f
  <2> SUFFICES ASSUME NEW e \in es, NEW f \in es, e.channel = f.channel PROVE e = f  OBVIOUS
  <2>1. e = [channel |-> e.channel, responses |-> ResponsesFor(e.channel, u)]  BY <1>7
  <2>2. f = [channel |-> f.channel, responses |-> ResponsesFor(f.channel, u)]  BY <1>7
  <2> QED  BY <2>1, <2>2
<1>10. ASSUME NEW j \in DOMAIN ms, ms[j].channel # NoChannel
       PROVE  \E e \in es : /\ e.channel = ms[j].channel
                            /\ \E k \in DOMAIN e.responses : e.responses[k] = ms[j].text
  <2> DEFINE i == Rank(S, j)  c == ms[j].channel  R == ResponsesFor(c, u)  P == PlacesFor(c, u)
             e == [channel |-> c, responses |-> R]
  <2>1. i \in DOMAIN u /\ u[i] = ms[j]  BY <1>1, <1>4, <1>10 DEF u
  <2>2. c \in cs  BY <2>1 DEF cs
  <2>3. e \in es  BY <1>2, <2>2
  <2>4. i \in P  BY <2>1 DEF PlacesFor
  <2>5. Rank(P, i) \in DOMAIN R /\ R[Rank(P, i)] = u[i].text  BY <1>6, <2>2, <2>4
  <2>6. e.channel = c /\ e.responses = R  OBVIOUS
  <2> HIDE DEF e, R, P, i
  <2> QED  BY <2>1, <2>3, <2>5, <2>6
<1> QED  BY <1>8, <1>9, <1>10

----------------------------------------------------------------------------
(* The steps of the loop *)

\* When the loop goes somewhere, nobody else does.
LEMMA LoopGoes ==
  ASSUME TypeInv, NEW p \in LoopPlaces, Goes(Loop, p)
  PROVE  /\ at'[Loop] = p /\ at' \in [Actors -> Places \cup LoopPlaces]
         /\ at'[Loop] \in LoopPlaces /\ \A g \in Goroutines : at'[g] \in Places
         /\ \A g \in Actors \ {Loop} : at'[g] = at[g]
         /\ Loop \in Actors
<1>1. at \in [Actors -> Places \cup LoopPlaces] /\ Loop \in Actors  BY WhoIsWho DEF TypeInv
<1>2. at'[Loop] = p /\ at' \in [Actors -> Places \cup LoopPlaces]
      /\ \A g \in Actors \ {Loop} : at'[g] = at[g]
  BY <1>1 DEF Goes
<1> QED  BY <1>1, <1>2, WhoIsWho DEF TypeInv

LEMMA LoopLets ==
  ASSUME TypeInv, Lets(Loop)
  PROVE  held' \in [Actors -> Nat] /\ \A g \in Actors \ {Loop} : held'[g] = held[g]
  BY WhoIsWho DEF Lets, TypeInv

\* A step of the loop that leaves the boxes alone and does not end in front of one.
LEMMA LoopStep ==
  ASSUME OutgoingInv, UNCHANGED <<cell, boxes, raced, task, put>>,
         at' \in [Actors -> Places \cup LoopPlaces], at'[Loop] \in LoopPlaces,
         \A g \in Actors \ {Loop} : at'[g] = at[g] /\ held'[g] = held[g],
         held' \in [Actors -> Nat], loop' \in LoopType, speeches' \in Nat,
         attempts' \in Seq([text : Text, channel : Channels]),
         at'[Loop] \notin {"take", "use"},
         PassInv'
  PROVE  OutgoingInv'
<1>1. TypeInv /\ CellsInv  BY DEF OutgoingInv
<1>2. \A g \in Goroutines : at'[g] \in Places /\ Loop \in Actors  BY <1>1, WhoIsWho DEF TypeInv
<1>3. TypeInv'  BY <1>1, <1>2 DEF TypeInv
<1>4. Loop \in Actors  BY <1>1, WhoIsWho
<1>5. CellsInv'  BY <1>1, <1>4, OthersKeepAll
<1> QED  BY <1>3, <1>5 DEF OutgoingInv

LEMMA PassStep == ASSUME OutgoingInv, Pass PROVE OutgoingInv'
<1>1. TypeInv /\ CellsInv /\ PassInv  BY DEF OutgoingInv
<1>2. Look(Loop, "mailbox") /\ UNCHANGED <<task, loop, speeches, attempts, put>>
      /\ at[Loop] = "idle"
  BY DEF Pass, At
<1>3. loop = IdleLoop /\ loop.cell = "mailbox"
  <2>1. loop.cell # "queue" /\ loop.cell \in Cells  BY <1>1, <1>2 DEF PassInv, TypeInv, LoopType
  <2> QED  BY <1>1, <1>2, <2>1 DEF PassInv, Cells
<1>4. CellOf(Loop)' = "mailbox" /\ "mailbox" \in Cells /\ Loop \in Actors /\ loop' \in LoopType
  BY <1>1, <1>2, <1>3, WhoIsWho DEF CellOf, Cells, TypeInv
<1>5. TypeInv' /\ CellsInv' /\ at'[Loop] \in {"make", "take"} /\ boxes' = boxes
  BY <1>2, <1>4, LookStep
<1>6. PassInv'  BY <1>2, <1>3, <1>5, IdleIsLoop DEF PassInv
<1> QED  BY <1>5, <1>6 DEF OutgoingInv

LEMMA StaySilentStep == ASSUME OutgoingInv, StaySilent PROVE OutgoingInv'
<1>1. TypeInv /\ CellsInv /\ PassInv  BY DEF OutgoingInv
<1>2. /\ at[Loop] = "use" /\ loop.cell = "mailbox" /\ Goes(Loop, "idle") /\ Lets(Loop)
      /\ UNCHANGED <<cell, boxes, raced, task, put, loop, speeches, attempts>>
  BY DEF StaySilent, At, cells
<1>3. /\ at'[Loop] = "idle" /\ at' \in [Actors -> Places \cup LoopPlaces] /\ "idle" \in LoopPlaces
      /\ \A g \in Actors \ {Loop} : at'[g] = at[g]
  BY <1>1, <1>2, LoopGoes DEF LoopPlaces
<1>4. loop = IdleLoop  BY <1>1, <1>2 DEF PassInv
<1>5. PassInv'  BY <1>2, <1>3, <1>4, IdleIsLoop DEF PassInv
<1> QED  BY <1>1, <1>2, <1>3, <1>5, LoopLets, LoopStep DEF TypeInv

LEMMA ProcessStep == ASSUME OutgoingInv, Process PROVE OutgoingInv'
<1>1. TypeInv /\ CellsInv /\ PassInv  BY DEF OutgoingInv
<1>2. /\ at[Loop] = "use" /\ loop.cell = "mailbox" /\ Goes(Loop, "schedule") /\ Lets(Loop)
      /\ loop' = [loop EXCEPT !.outgoing = held[Loop], !.due = Due]
      /\ UNCHANGED <<cell, boxes, raced, task, put, speeches, attempts>>
  BY DEF Process, At, cells
<1>3. /\ at'[Loop] = "schedule" /\ at' \in [Actors -> Places \cup LoopPlaces]
      /\ "schedule" \in LoopPlaces /\ Loop \in Actors
      /\ \A g \in Actors \ {Loop} : at'[g] = at[g]
  BY <1>1, <1>2, LoopGoes DEF LoopPlaces
<1>4. loop = IdleLoop  BY <1>1, <1>2 DEF PassInv
<1>5. held[Loop] \in 1..Len(boxes["mailbox"]) /\ held[Loop] \in Nat
  BY <1>1, <1>2, <1>3 DEF CellsInv, CellOf, TypeInv
<1>6. Due \in SUBSET DOMAIN Schedules  BY DEF Due
<1>7. /\ loop'.cell = "mailbox" /\ loop'.outgoing = held[Loop] /\ loop'.scheduled = {}
      /\ loop'.taken = <<>> /\ loop' \in LoopType
  <2>1. loop \in LoopType  BY <1>1 DEF TypeInv
  <2> QED  BY <1>2, <1>4, <1>5, <1>6, <2>1, IdleIsLoop DEF LoopType
<1>8. PassInv'  BY <1>2, <1>3, <1>5, <1>7 DEF PassInv
<1> QED  BY <1>1, <1>2, <1>3, <1>7, <1>8, LoopLets, LoopStep DEF TypeInv

LEMMA UseQueueStep == ASSUME OutgoingInv, UseQueue PROVE OutgoingInv'
<1>1. TypeInv /\ CellsInv /\ PassInv  BY DEF OutgoingInv
<1>2. /\ at[Loop] = "schedule" /\ Look(Loop, "queue") /\ loop' = [loop EXCEPT !.cell = "queue"]
      /\ UNCHANGED <<task, speeches, attempts, put>>
  BY DEF UseQueue, At
<1>3. loop.scheduled = {} /\ loop.taken = <<>> /\ loop.outgoing \in 1..Len(boxes["mailbox"])
  BY <1>1, <1>2 DEF PassInv
<1>4. /\ loop'.cell = "queue" /\ loop' \in LoopType /\ loop'.outgoing = loop.outgoing
      /\ loop'.scheduled = loop.scheduled /\ loop'.taken = loop.taken
  <2>1. loop \in LoopType  BY <1>1 DEF TypeInv
  <2> QED  BY <1>2, <2>1 DEF LoopType, Cells
<1>5. CellOf(Loop)' = "queue" /\ "queue" \in Cells /\ Loop \in Actors
  BY <1>1, <1>4, WhoIsWho DEF CellOf, Cells
<1>6. TypeInv' /\ CellsInv' /\ at'[Loop] \in {"make", "take"} /\ boxes' = boxes
  BY <1>2, <1>4, <1>5, LookStep
<1>7. PassInv'  BY <1>3, <1>4, <1>6 DEF PassInv
<1> QED  BY <1>6, <1>7 DEF OutgoingInv

\* What running a schedule leaves in the loop's locals.
LEMMA RunScheduleIs ==
  ASSUME TypeInv, NEW i \in 1..3, NEW ms \in Seq(Note), RunSchedule(Schedules[i], ms)
  PROVE  /\ loop' = [loop EXCEPT !.due = loop.due \ {i}, !.cell = "mailbox",
                                 !.messages = loop.messages \o NotEmpty(ms)]
         /\ loop' \in LoopType /\ loop'.cell = "mailbox" /\ loop'.outgoing = loop.outgoing
         /\ loop'.messages = loop.messages \o NotEmpty(ms)
         /\ loop'.scheduled = loop.scheduled /\ loop'.taken = loop.taken
         /\ NotEmpty(ms) \in Seq(Note)
<1> DEFINE j == CHOOSE k \in DOMAIN Schedules : Schedules[k] = Schedules[i]
<1>1. j = i
  <2>1. \A k \in 1..3 : Schedules[k] = Schedules[i] => k = i
    BY SchedulesAre
  <2>2. j \in DOMAIN Schedules /\ Schedules[j] = Schedules[i]  BY SchedulesAre
  <2> HIDE DEF j
  <2> QED  BY <2>1, <2>2, SchedulesAre
<1>2. loop' = [loop EXCEPT !.due = @ \ {j}, !.cell = "mailbox", !.messages = @ \o NotEmpty(ms)]
  BY DEF RunSchedule
<1> HIDE DEF j
<1> DEFINE u == NotEmpty(ms)
<1>3. u \in Seq(Note)  BY NotEmptyIs
<1> HIDE DEF u
<1>4. loop \in LoopType  BY DEF TypeInv
<1>5. loop' = [loop EXCEPT !.due = loop.due \ {i}, !.cell = "mailbox", !.messages = loop.messages \o u]
  BY <1>1, <1>2, <1>4 DEF u, LoopType
<1>6. loop.messages \o u \in Seq(Note)  BY <1>3, <1>4 DEF LoopType
<1>7. loop' \in LoopType /\ loop'.cell = "mailbox" /\ loop'.outgoing = loop.outgoing
      /\ loop'.messages = loop.messages \o u
      /\ loop'.scheduled = loop.scheduled /\ loop'.taken = loop.taken
  BY <1>4, <1>5, <1>6 DEF LoopType, Cells
<1> QED  BY <1>3, <1>5, <1>7 DEF u

\* What popping the queue does.
LEMMA PopAllIs ==
  ASSUME OutgoingInv, PopAll
  PROVE  LET h == held[Loop]  ms == boxes["queue"][h]
         IN /\ h \in 1..Len(boxes["queue"]) /\ ms \in Seq(QueueNote) /\ ms \in Seq(Note)
            /\ RunSchedule(Schedules[1], ms)
            /\ boxes'["queue"] = [boxes["queue"] EXCEPT ![h] = <<>>]
            /\ boxes'["mailbox"] = boxes["mailbox"] /\ DOMAIN boxes' = Cells
            /\ boxes'["queue"] \in Seq(Seq(QueueNote)) /\ Len(boxes'["queue"]) = Len(boxes["queue"])
            /\ at[Loop] = "use" /\ loop.cell = "queue"
<1> DEFINE h == held[Loop]  ms == boxes["queue"][h]
<1>1. TypeInv /\ CellsInv /\ PassInv /\ Loop \in Actors  BY WhoIsWho DEF OutgoingInv
<1>2. at[Loop] = "use" /\ loop.cell = "queue" /\ CellOf(Loop) = "queue"
  BY DEF PopAll, At, CellOf
<1>3. h \in 1..Len(boxes["queue"])  BY <1>1, <1>2 DEF CellsInv
<1>4. boxes["queue"] \in Seq(Seq(QueueNote))  BY <1>1 DEF TypeInv
<1>5. ms \in Seq(QueueNote)  BY <1>3, <1>4
<1>6. Contents(Loop) = ms  BY <1>2 DEF Contents
<1>7. RunSchedule("OutputQueue", ms) /\ boxes' = [boxes EXCEPT !["queue"][h] = <<>>]
  BY <1>6 DEF PopAll, Rest
<1> HIDE DEF h, ms
<1>8. boxes'["queue"] = [boxes["queue"] EXCEPT ![h] = <<>>] /\ boxes'["mailbox"] = boxes["mailbox"]
      /\ DOMAIN boxes' = Cells
  BY <1>1, <1>7 DEF TypeInv, Cells
<1>9. boxes'["queue"] \in Seq(Seq(QueueNote)) /\ Len(boxes'["queue"]) = Len(boxes["queue"])
  <2> DEFINE bs == boxes["queue"]
  <2>1. bs \in Seq(Seq(QueueNote)) /\ h \in 1..Len(bs)  BY <1>3, <1>4
  <2> HIDE DEF bs
  <2>2. <<>> \in Seq(QueueNote)  OBVIOUS
  <2>3. [bs EXCEPT ![h] = <<>>] \in Seq(Seq(QueueNote)) /\ Len([bs EXCEPT ![h] = <<>>]) = Len(bs)
    BY <2>1, <2>2, OneBox
  <2> QED  BY <1>8, <2>3 DEF bs
<1>10. ms \in Seq(Note)
  <2>1. QueueNote \subseteq Note  BY DEF QueueNote
  <2> QED  BY <1>5, <2>1
<1> QED  BY <1>2, <1>3, <1>5, <1>7, <1>8, <1>9, <1>10, SchedulesAre DEF h, ms

LEMMA PopAllStep == ASSUME OutgoingInv, PopAll PROVE OutgoingInv'
<1> DEFINE h == held[Loop]  ms == boxes["queue"][h]
<1>1. TypeInv /\ CellsInv /\ PassInv /\ Loop \in Actors  BY WhoIsWho DEF OutgoingInv
<1>2. /\ ms \in Seq(Note) /\ RunSchedule(Schedules[1], ms)
      /\ boxes'["mailbox"] = boxes["mailbox"] /\ DOMAIN boxes' = Cells
      /\ boxes'["queue"] \in Seq(Seq(QueueNote)) /\ Len(boxes'["queue"]) = Len(boxes["queue"])
      /\ at[Loop] = "use" /\ loop.cell = "queue"
  BY PopAllIs
<1> HIDE DEF ms
<1>3. /\ loop' \in LoopType /\ loop'.cell = "mailbox" /\ loop'.outgoing = loop.outgoing
      /\ loop'.scheduled = loop.scheduled /\ loop'.taken = loop.taken
  <2>1. TypeInv /\ RunSchedule(Schedules[1], ms) /\ ms \in Seq(Note) /\ 1 \in 1..3
    BY <1>1, <1>2
  <2> QED  BY <2>1, RunScheduleIs
<1>4. /\ Goes(Loop, "schedule") /\ Lets(Loop)
      /\ UNCHANGED <<cell, task, speeches, attempts, put, raced>>
  BY DEF PopAll
<1>5. /\ at'[Loop] = "schedule" /\ at' \in [Actors -> Places \cup LoopPlaces]
      /\ at'[Loop] \in LoopPlaces /\ (\A g \in Goroutines : at'[g] \in Places)
      /\ (\A g \in Actors \ {Loop} : at'[g] = at[g])
  BY <1>1, <1>4, LoopGoes DEF LoopPlaces
<1>6. held' \in [Actors -> Nat] /\ \A g \in Actors \ {Loop} : held'[g] = held[g]
  BY <1>1, <1>4, LoopLets
<1>7. TypeInv'  BY <1>1, <1>2, <1>3, <1>4, <1>5, <1>6 DEF TypeInv
<1>8. CellsInv'
  <2>1. \A c \in Cells : /\ Len(boxes'[c]) \in Nat /\ Len(boxes'[c]) >= Len(boxes[c])
                         /\ cell'[c] \in 0..Len(boxes'[c]) /\ (cell[c] # 0 => cell'[c] # 0)
    BY <1>1, <1>2, <1>4 DEF CellsInv, TypeInv, Cells
  <2> QED  BY <1>1, <1>4, <1>5, <1>6, <2>1, OthersKeep
<1>9. PassInv'
  BY <1>1, <1>2, <1>3, <1>5 DEF PassInv
<1> QED  BY <1>7, <1>8, <1>9 DEF OutgoingInv

\* A schedule that has no need of a box: what it may have to say.
MinuteNote(c, n) == [channel |-> c, text |-> [from |-> Minute, n |-> n, kind |-> "text"]]
Comment(kind) == [channel |-> NoChannel, text |-> [from |-> Commentator, n |-> 0, kind |-> kind]]

LEMMA MinuteIs ==
  ASSUME TypeInv, ManicMinuteScheduler
  PROVE  \E ms \in Seq(Note) :
           /\ RunSchedule(Schedules[2], ms)
           /\ \/ ms = <<>> /\ speeches' = speeches
              \/ /\ speeches' = speeches + 1
                 /\ \E c \in Channels : ms = <<MinuteNote(c, speeches + 1)>>
           /\ speeches' \in Nat /\ at[Loop] = "schedule"
           /\ UNCHANGED <<cell, boxes, raced, task, at, held, attempts, put>>
<1>1. speeches \in Nat /\ Minute # Commentator /\ NoChannel \notin Channels
  BY WhoIsWho, OutgoingConstants DEF TypeInv
<1>2. UNCHANGED <<cell, boxes, raced, task, at, held, attempts, put>> /\ at[Loop] = "schedule"
  BY DEF ManicMinuteScheduler, cells, At
<1>3. CASE RunSchedule("ManicMinute", <<>>) /\ speeches' = speeches
  <2>1. <<>> \in Seq(Note)  OBVIOUS
  <2> QED  BY <1>1, <1>2, <1>3, <2>1, SchedulesAre
<1>4. CASE /\ speeches' = speeches + 1
           /\ \E c \in Channels :
                RunSchedule("ManicMinute",
                  <<[channel |-> c, text |-> [from |-> Minute, n |-> speeches', kind |-> "text"]]>>)
  <2>1. PICK c \in Channels :
           RunSchedule("ManicMinute",
             <<[channel |-> c, text |-> [from |-> Minute, n |-> speeches', kind |-> "text"]]>>)
    BY <1>4
  <2> DEFINE m == MinuteNote(c, speeches + 1)
  <2>2. RunSchedule("ManicMinute", <<m>>)  BY <1>4, <2>1 DEF MinuteNote
  <2>3. [from |-> Minute, n |-> speeches + 1, kind |-> "text"] \in Text  BY <1>1 DEF Text, Kinds
  <2>4. m \in Note
    <3>1. m \in [channel : Channels \cup {NoChannel}, text : Text] /\ m.channel = c
          /\ m.text.from = Minute
      BY <2>3 DEF MinuteNote
    <3> HIDE DEF m
    <3> QED  BY <1>1, <3>1 DEF Note
  <2> HIDE DEF m
  <2>5. <<m>> \in Seq(Note)  BY <2>4
  <2>6. \E d \in Channels : <<m>> = <<MinuteNote(d, speeches + 1)>>  BY DEF m
  <2> DEFINE ms == <<m>>
  <2>7. RunSchedule(Schedules[2], ms) /\ ms \in Seq(Note)
        /\ \E d \in Channels : ms = <<MinuteNote(d, speeches + 1)>>
    BY <2>2, <2>5, <2>6, SchedulesAre
  <2>8. speeches' = speeches + 1 /\ speeches' \in Nat  BY <1>1, <1>4
  <2> HIDE DEF ms
  <2> QED  BY <1>2, <2>7, <2>8
<1> QED  BY <1>3, <1>4 DEF ManicMinuteScheduler

LEMMA CommentIs ==
  ASSUME TypeInv, CommentateScheduler
  PROVE  \E ms \in Seq(Note) :
           /\ RunSchedule(Schedules[3], ms)
           /\ ms = <<>> \/ \E kind \in {"text", "blank"} : ms = <<Comment(kind)>>
           /\ speeches' = speeches /\ at[Loop] = "schedule"
           /\ UNCHANGED <<cell, boxes, raced, task, at, held, attempts, put>>
<1>1. UNCHANGED <<cell, boxes, raced, task, at, held, attempts, put>> /\ at[Loop] = "schedule"
      /\ speeches' = speeches
  BY DEF CommentateScheduler, cells, At
<1>2. CASE RunSchedule("Commentator", <<>>)
  <2>1. <<>> \in Seq(Note)  OBVIOUS
  <2> QED  BY <1>1, <1>2, <2>1, SchedulesAre
<1>3. ASSUME NEW kind \in {"text", "blank"}, RunSchedule("Commentator", <<Comment(kind)>>)
      PROVE  \E ms \in Seq(Note) :
               RunSchedule(Schedules[3], ms) /\ \E k \in {"text", "blank"} : ms = <<Comment(k)>>
  <2> DEFINE m == Comment(kind)
  <2>1. [from |-> Commentator, n |-> 0, kind |-> kind] \in Text  BY DEF Text, Kinds
  <2>2. m \in Note
    <3>1. m \in [channel : Channels \cup {NoChannel}, text : Text] /\ m.channel = NoChannel
          /\ m.text.from = Commentator
      BY <2>1 DEF Comment
    <3> HIDE DEF m
    <3> QED  BY <3>1 DEF Note
  <2> HIDE DEF m
  <2>3. <<m>> \in Seq(Note)  BY <2>2
  <2> QED  BY <1>3, <2>3, SchedulesAre DEF m
<1>4. RunSchedule("Commentator", <<>>)
      \/ \E kind \in {"text", "blank"} : RunSchedule("Commentator", <<Comment(kind)>>)
  BY DEF CommentateScheduler, Comment
<1> QED  BY <1>1, <1>2, <1>3, <1>4

LEMMA SchedulerStep ==
  ASSUME OutgoingInv, ManicMinuteScheduler \/ CommentateScheduler
  PROVE  OutgoingInv'
<1>1. TypeInv /\ CellsInv /\ PassInv /\ Loop \in Actors  BY WhoIsWho DEF OutgoingInv
<1>2. PICK i \in 1..3, ms \in Seq(Note) :
         /\ RunSchedule(Schedules[i], ms) /\ speeches' \in Nat /\ at[Loop] = "schedule"
         /\ UNCHANGED <<cell, boxes, raced, task, at, held, attempts, put>>
  <2>1. speeches \in Nat  BY <1>1 DEF TypeInv
  <2>2. CASE ManicMinuteScheduler
    <3>1. PICK ms \in Seq(Note) :
             /\ RunSchedule(Schedules[2], ms) /\ speeches' \in Nat /\ at[Loop] = "schedule"
             /\ UNCHANGED <<cell, boxes, raced, task, at, held, attempts, put>>
      BY <1>1, <2>2, MinuteIs
    <3> QED  BY <3>1
  <2>3. CASE CommentateScheduler
    <3>1. PICK ms \in Seq(Note) :
             /\ RunSchedule(Schedules[3], ms) /\ speeches' = speeches /\ at[Loop] = "schedule"
             /\ UNCHANGED <<cell, boxes, raced, task, at, held, attempts, put>>
      BY <1>1, <2>3, CommentIs
    <3> QED  BY <2>1, <3>1
  <2> QED  BY <2>2, <2>3
<1>3. /\ loop' \in LoopType /\ loop'.cell = "mailbox" /\ loop'.outgoing = loop.outgoing
      /\ loop'.scheduled = loop.scheduled /\ loop'.taken = loop.taken
  <2>1. TypeInv /\ RunSchedule(Schedules[i], ms)  BY <1>1, <1>2
  <2> QED  BY <2>1, RunScheduleIs
<1>4. PassInv'  BY <1>1, <1>2, <1>3 DEF PassInv
<1> QED  BY <1>1, <1>2, <1>3, <1>4, LoopStep DEF TypeInv

LEMMA HandleScheduleIs ==
  ASSUME TypeInv, HandleSchedule
  PROVE  /\ loop' \in LoopType /\ loop'.cell = loop.cell /\ loop'.outgoing = loop.outgoing
         /\ loop'.scheduled = ToResponseEnvelopes(Addressed(loop.messages))
         /\ loop'.messages = <<>> /\ loop'.taken = loop.taken
         /\ loop.messages \in Seq(Note)
<1> DEFINE es == ToResponseEnvelopes(Addressed(loop.messages))
<1>1. loop \in LoopType  BY DEF TypeInv
<1>2. loop.messages \in Seq(Note)  BY <1>1 DEF LoopType
<1>3. es \in SUBSET Envelope  BY <1>2, EnvelopesAre
<1>4. loop' = [loop EXCEPT !.scheduled = es, !.messages = <<>>]  BY DEF HandleSchedule
<1> HIDE DEF es
<1>5. <<>> \in Seq(Note)  OBVIOUS
<1>6. /\ loop' \in LoopType /\ loop'.cell = loop.cell /\ loop'.outgoing = loop.outgoing
      /\ loop'.scheduled = es /\ loop'.messages = <<>> /\ loop'.taken = loop.taken
  BY <1>1, <1>3, <1>4, <1>5 DEF LoopType
<1> QED  BY <1>2, <1>6 DEF es

LEMMA HandleScheduleStep == ASSUME OutgoingInv, HandleSchedule PROVE OutgoingInv'
<1>1. TypeInv /\ CellsInv /\ PassInv  BY DEF OutgoingInv
<1>2. /\ at[Loop] = "schedule" /\ Goes(Loop, "add")
      /\ UNCHANGED <<cell, boxes, raced, task, put, held, speeches, attempts>>
  BY DEF HandleSchedule, At, cells
<1>3. /\ at'[Loop] = "add" /\ at' \in [Actors -> Places \cup LoopPlaces]
      /\ at'[Loop] \in LoopPlaces /\ \A g \in Actors \ {Loop} : at'[g] = at[g]
  BY <1>1, <1>2, LoopGoes DEF LoopPlaces
<1>4. /\ loop' \in LoopType /\ loop'.cell = loop.cell /\ loop'.outgoing = loop.outgoing
      /\ loop'.messages = <<>> /\ loop'.taken = loop.taken
  BY <1>1, HandleScheduleIs
<1>5. PassInv'  BY <1>1, <1>2, <1>3, <1>4 DEF PassInv
<1> QED  BY <1>1, <1>2, <1>3, <1>4, <1>5, LoopStep DEF TypeInv

\* What adding an envelope of the schedules to the mailbox does.
LEMMA AddIs ==
  ASSUME OutgoingInv, AddScheduled
  PROVE  \E e \in loop.scheduled :
           LET o == loop.outgoing
           IN /\ e \in Envelope /\ o \in 1..Len(boxes["mailbox"])
              /\ boxes'["mailbox"] = [boxes["mailbox"] EXCEPT ![o] = Append(boxes["mailbox"][o], e)]
              /\ boxes["mailbox"][o] \in Seq(Envelope)
              /\ boxes'["queue"] = boxes["queue"] /\ DOMAIN boxes' = Cells
              /\ boxes'["mailbox"] \in Seq(Seq(Envelope))
              /\ Len(boxes'["mailbox"]) = Len(boxes["mailbox"])
              /\ loop' \in LoopType /\ loop'.scheduled = loop.scheduled \ {e}
              /\ loop'.cell = loop.cell /\ loop'.outgoing = loop.outgoing
              /\ loop'.messages = loop.messages /\ loop'.taken = loop.taken
              /\ at[Loop] = "add"
              /\ UNCHANGED <<cell, task, at, held, speeches, attempts, put, raced>>
<1> DEFINE o == loop.outgoing  bs == boxes["mailbox"]
<1>1. TypeInv /\ PassInv  BY DEF OutgoingInv
<1>2. at[Loop] = "add" /\ UNCHANGED <<cell, task, at, held, speeches, attempts, put, raced>>
  BY DEF AddScheduled, At
<1>3. PICK e \in loop.scheduled :
         /\ boxes' = [boxes EXCEPT !["mailbox"][o] = Append(@, e)]
         /\ loop' = [loop EXCEPT !.scheduled = @ \ {e}]
  BY DEF AddScheduled, Added
<1>4. o \in 1..Len(bs)  BY <1>1, <1>2 DEF PassInv
<1>5. loop \in LoopType /\ bs \in Seq(Seq(Envelope))  BY <1>1 DEF TypeInv
<1>6. e \in Envelope  BY <1>5 DEF LoopType
<1>7. /\ loop' \in LoopType /\ loop'.scheduled = loop.scheduled \ {e}
      /\ loop'.cell = loop.cell /\ loop'.outgoing = loop.outgoing
      /\ loop'.messages = loop.messages /\ loop'.taken = loop.taken
  BY <1>3, <1>5 DEF LoopType
<1> DEFINE b == Append(bs[o], e)
<1>8. bs[o] \in Seq(Envelope)  BY <1>4, <1>5
<1>9. b \in Seq(Envelope)  BY <1>6, <1>8
<1>10. boxes'["mailbox"] = [bs EXCEPT ![o] = b] /\ boxes'["queue"] = boxes["queue"]
       /\ DOMAIN boxes' = Cells
  BY <1>1, <1>3 DEF TypeInv, Cells
<1> HIDE DEF b, bs, o
<1>11. [bs EXCEPT ![o] = b] \in Seq(Seq(Envelope)) /\ Len([bs EXCEPT ![o] = b]) = Len(bs)
  BY <1>4, <1>5, <1>9, OneBox
<1> QED  BY <1>2, <1>4, <1>6, <1>7, <1>8, <1>10, <1>11 DEF b, bs, o

LEMMA AddStep == ASSUME OutgoingInv, AddScheduled PROVE OutgoingInv'
<1>1. TypeInv /\ CellsInv /\ PassInv /\ Loop \in Actors  BY WhoIsWho DEF OutgoingInv
<1>2. /\ boxes'["queue"] = boxes["queue"] /\ DOMAIN boxes' = Cells
      /\ boxes'["mailbox"] \in Seq(Seq(Envelope))
      /\ Len(boxes'["mailbox"]) = Len(boxes["mailbox"])
      /\ loop' \in LoopType
      /\ loop'.cell = loop.cell /\ loop'.outgoing = loop.outgoing
      /\ loop'.messages = loop.messages /\ loop'.taken = loop.taken
      /\ at[Loop] = "add"
      /\ UNCHANGED <<cell, task, at, held, speeches, attempts, put, raced>>
  BY AddIs
<1>3. TypeInv'  BY <1>1, <1>2 DEF TypeInv
<1>4. CellsInv'
  <2>1. \A c \in Cells : /\ Len(boxes'[c]) \in Nat /\ Len(boxes'[c]) >= Len(boxes[c])
                         /\ cell'[c] \in 0..Len(boxes'[c]) /\ (cell[c] # 0 => cell'[c] # 0)
    BY <1>1, <1>2 DEF CellsInv, TypeInv, Cells
  <2> QED  BY <1>1, <1>2, <2>1, OthersKeep
<1>5. PassInv'  BY <1>1, <1>2 DEF PassInv
<1> QED  BY <1>3, <1>4, <1>5 DEF OutgoingInv

\* What emptying the mailbox into the loop's hands does.
LEMMA RetrieveIs ==
  ASSUME OutgoingInv, RetrieveEnvelopes
  PROVE  LET o == loop.outgoing
         IN /\ o \in 1..Len(boxes["mailbox"]) /\ boxes["mailbox"][o] \in Seq(Envelope)
            /\ loop.scheduled = {} /\ loop.messages = <<>> /\ loop.taken = <<>>
            /\ at[Loop] = "add"
            /\ UNCHANGED <<cell, task, held, speeches, attempts, put, raced>>
            /\ \/ /\ boxes["mailbox"][o] = <<>>
                  /\ loop' = IdleLoop /\ Goes(Loop, "idle") /\ boxes' = boxes
               \/ /\ loop' \in LoopType /\ loop'.taken = boxes["mailbox"][o]
                  /\ loop'.scheduled = {} /\ loop'.messages = <<>> /\ loop'.cell = loop.cell
                  /\ loop'.outgoing = o
                  /\ boxes'["mailbox"] = [boxes["mailbox"] EXCEPT ![o] = <<>>]
                  /\ boxes'["queue"] = boxes["queue"] /\ DOMAIN boxes' = Cells
                  /\ boxes'["mailbox"] \in Seq(Seq(Envelope))
                  /\ Len(boxes'["mailbox"]) = Len(boxes["mailbox"])
                  /\ Goes(Loop, "send")
<1> DEFINE o == loop.outgoing  bs == boxes["mailbox"]
<1>1. TypeInv /\ PassInv  BY DEF OutgoingInv
<1>2. at[Loop] = "add" /\ UNCHANGED <<cell, task, held, speeches, attempts, put, raced>>
      /\ loop.scheduled = {}
  BY DEF RetrieveEnvelopes, At
<1>3. o \in 1..Len(bs) /\ loop.messages = <<>> /\ loop.taken = <<>>  BY <1>1, <1>2 DEF PassInv
<1>4. loop \in LoopType /\ bs \in Seq(Seq(Envelope))  BY <1>1 DEF TypeInv
<1>5. bs[o] \in Seq(Envelope)  BY <1>3, <1>4
<1>6. CASE bs[o] = <<>>
  <2>1. loop' = IdleLoop /\ Goes(Loop, "idle") /\ boxes' = boxes  BY <1>6 DEF RetrieveEnvelopes
  <2> QED  BY <1>2, <1>3, <1>5, <1>6, <2>1
<1>7. CASE bs[o] # <<>>
  <2>1. /\ loop' = [loop EXCEPT !.taken = bs[o]] /\ Goes(Loop, "send")
        /\ boxes' = [boxes EXCEPT !["mailbox"][o] = <<>>]
    BY <1>7 DEF RetrieveEnvelopes, Rest
  <2>2. /\ loop' \in LoopType /\ loop'.taken = bs[o]
        /\ loop'.scheduled = {} /\ loop'.messages = <<>> /\ loop'.cell = loop.cell
        /\ loop'.outgoing = o
    BY <1>2, <1>3, <1>4, <1>5, <2>1 DEF LoopType
  <2>3. boxes'["mailbox"] = [bs EXCEPT ![o] = <<>>] /\ boxes'["queue"] = boxes["queue"]
        /\ DOMAIN boxes' = Cells
    BY <1>1, <2>1 DEF TypeInv, Cells
  <2>4. <<>> \in Seq(Envelope)  OBVIOUS
  <2> HIDE DEF bs, o
  <2>5. [bs EXCEPT ![o] = <<>>] \in Seq(Seq(Envelope)) /\ Len([bs EXCEPT ![o] = <<>>]) = Len(bs)
    BY <1>3, <1>4, <2>4, OneBox
  <2> QED  BY <1>2, <1>3, <1>5, <2>1, <2>2, <2>3, <2>5 DEF bs, o
<1> QED  BY <1>6, <1>7

LEMMA RetrieveStep == ASSUME OutgoingInv, RetrieveEnvelopes PROVE OutgoingInv'
<1> DEFINE o == loop.outgoing
<1>1. TypeInv /\ CellsInv /\ PassInv /\ Loop \in Actors  BY WhoIsWho DEF OutgoingInv
<1>2. UNCHANGED <<cell, task, held, speeches, attempts, put, raced>> /\ at[Loop] = "add"
  BY DEF RetrieveEnvelopes, At
<1>3. CASE loop' = IdleLoop /\ Goes(Loop, "idle") /\ boxes' = boxes
  <2>1. /\ at'[Loop] = "idle" /\ at' \in [Actors -> Places \cup LoopPlaces]
        /\ at'[Loop] \in LoopPlaces /\ \A g \in Actors \ {Loop} : at'[g] = at[g]
    BY <1>1, <1>3, LoopGoes DEF LoopPlaces
  <2>2. PassInv'  BY <1>3, <2>1, IdleIsLoop DEF PassInv
  <2> QED  BY <1>1, <1>2, <1>3, <2>1, <2>2, IdleIsLoop, LoopStep DEF TypeInv
<1>4. CASE /\ loop' \in LoopType
           /\ loop'.scheduled = {} /\ loop'.messages = <<>> /\ loop'.cell = loop.cell
           /\ boxes'["queue"] = boxes["queue"] /\ DOMAIN boxes' = Cells
           /\ boxes'["mailbox"] \in Seq(Seq(Envelope))
           /\ Len(boxes'["mailbox"]) = Len(boxes["mailbox"])
           /\ Goes(Loop, "send")
  <2>1. /\ at'[Loop] = "send" /\ at' \in [Actors -> Places \cup LoopPlaces]
        /\ at'[Loop] \in LoopPlaces /\ (\A g \in Actors \ {Loop} : at'[g] = at[g])
        /\ (\A g \in Goroutines : at'[g] \in Places)
    BY <1>1, <1>4, LoopGoes DEF LoopPlaces
  <2>2. TypeInv'  BY <1>1, <1>2, <1>4, <2>1 DEF TypeInv
  <2>3. \A c \in Cells : /\ Len(boxes'[c]) \in Nat /\ Len(boxes'[c]) >= Len(boxes[c])
                         /\ cell'[c] \in 0..Len(boxes'[c]) /\ (cell[c] # 0 => cell'[c] # 0)
    BY <1>1, <1>2, <1>4 DEF CellsInv, TypeInv, Cells
  <2>4. CellsInv'  BY <1>1, <1>2, <2>1, <2>3, OthersKeep
  <2>5. PassInv'  BY <1>1, <1>2, <1>4, <2>1 DEF PassInv
  <2> QED  BY <2>2, <2>4, <2>5 DEF OutgoingInv
<1> QED  BY <1>3, <1>4, RetrieveIs

\* The envelope being sent, without its first text or gone altogether.
LEMMA NextEnvelopeIs ==
  ASSUME NEW es \in Seq(Envelope), es # <<>>
  PROVE  /\ NextEnvelope(es) \in Seq(Envelope)
         /\ es[1] \in Envelope /\ es[1].responses \in Seq(Text) /\ Len(es[1].responses) \in Nat \ {0}
         /\ DOMAIN es[1].responses = 1..Len(es[1].responses)
         /\ 1 \in DOMAIN es /\ Len(es) \in Nat /\ DOMAIN es = 1..Len(es)
         /\ Len(es[1].responses) = 1 =>
              /\ NextEnvelope(es) = Tail(es) /\ Len(Tail(es)) = Len(es) - 1
              /\ \A i \in 1..Len(es) - 1 : Tail(es)[i] = es[i + 1]
         /\ Len(es[1].responses) # 1 =>
              /\ Len(NextEnvelope(es)) = Len(es)
              /\ \A i \in 2..Len(es) : NextEnvelope(es)[i] = es[i]
              /\ NextEnvelope(es)[1].channel = es[1].channel
              /\ Len(NextEnvelope(es)[1].responses) = Len(es[1].responses) - 1
              /\ \A k \in 1..Len(es[1].responses) - 1 :
                   NextEnvelope(es)[1].responses[k] = es[1].responses[k + 1]
<1> DEFINE e == es[1]  R == e.responses  T == Tail(R)
           f == [e EXCEPT !.responses = T]
<1>1. Len(es) \in Nat /\ DOMAIN es = 1..Len(es) /\ 1 \in 1..Len(es) /\ e \in Envelope
  OBVIOUS
<1>2. e \in [channel : Channels, responses : Seq(Text)] /\ R \in Seq(Text) /\ R # <<>>
      /\ \A k \in DOMAIN R : R[k].from # Commentator
  BY <1>1 DEF Envelope
<1> HIDE DEF e
<1>3. Len(R) \in Nat \ {0} /\ DOMAIN R = 1..Len(R)
  <2> HIDE DEF R
  <2> QED  BY <1>2
<1>4. ASSUME Len(R) = 1
      PROVE  /\ NextEnvelope(es) = Tail(es) /\ Tail(es) \in Seq(Envelope) /\ Len(Tail(es)) = Len(es) - 1
             /\ \A i \in 1..Len(es) - 1 : Tail(es)[i] = es[i + 1]
  <2>1. NextEnvelope(es) = Tail(es)  BY <1>4 DEF NextEnvelope, e
  <2> QED  BY <1>1, <2>1
<1>5. ASSUME Len(R) # 1
      PROVE  /\ NextEnvelope(es) = [es EXCEPT ![1] = f]
             /\ f \in Envelope /\ f.channel = e.channel /\ f.responses = T /\ Len(T) = Len(R) - 1
             /\ \A k \in 1..Len(R) - 1 : T[k] = R[k + 1]
  <2>1. ~(Len(R) <= 1)
    <3> DEFINE n == Len(R)
    <3>1. n \in Nat \ {0} /\ n # 1  BY <1>3, <1>5
    <3> HIDE DEF n
    <3>2. ~(n <= 1)  BY <3>1
    <3> QED  BY <3>2 DEF n
  <2>2. NextEnvelope(es) = [es EXCEPT ![1] = f]  BY <1>1, <2>1 DEF NextEnvelope, e
  <2>3. T \in Seq(Text) /\ Len(T) = Len(R) - 1 /\ \A k \in 1..Len(R) - 1 : T[k] = R[k + 1]
    <3> HIDE DEF R
    <3> QED  BY <1>2
  <2> HIDE DEF R, T
  <2>4. f \in [channel : Channels, responses : Seq(Text)] /\ f.channel = e.channel /\ f.responses = T
    BY <1>2, <2>3
  <2>5. T # <<>>  BY <1>3, <2>1, <2>3
  <2>6. \A k \in DOMAIN T : T[k].from # Commentator
    <3>1. DOMAIN T = 1..Len(R) - 1  BY <2>3
    <3>2. \A k \in 1..Len(R) - 1 : k + 1 \in DOMAIN R  BY <1>3
    <3> QED  BY <1>2, <2>3, <3>1, <3>2
  <2> HIDE DEF f
  <2>7. f \in Envelope  BY <2>4, <2>5, <2>6 DEF Envelope
  <2> QED  BY <2>2, <2>3, <2>4, <2>7 DEF f
<1> HIDE DEF R, T, f
<1>6. ASSUME Len(R) # 1
      PROVE  /\ NextEnvelope(es) \in Seq(Envelope) /\ Len(NextEnvelope(es)) = Len(es)
             /\ NextEnvelope(es)[1] = f
             /\ \A i \in 2..Len(es) : NextEnvelope(es)[i] = es[i]
  BY <1>1, <1>5, <1>6
<1>7. R = es[1].responses  BY DEF R, e
<1> QED  BY <1>1, <1>2, <1>3, <1>4, <1>5, <1>6, <1>7 DEF e

LEMMA SendingIs ==
  ASSUME OutgoingInv, Sending
  PROVE  /\ loop.taken \in Seq(Envelope) /\ loop.taken # <<>> /\ at[Loop] = "send"
         /\ loop.messages = <<>> /\ loop.scheduled = {} /\ loop \in LoopType /\ loop.cell = "mailbox"
         /\ NextEnvelope(loop.taken) \in Seq(Envelope) /\ Tail(loop.taken) \in Seq(Envelope)
         /\ loop.taken[1].channel \in Channels /\ loop.taken[1].responses[1] \in Text
<1>1. TypeInv /\ PassInv  BY DEF OutgoingInv
<1>2. at[Loop] = "send" /\ loop.taken # <<>>  BY DEF Sending, At
<1>3. loop \in LoopType  BY <1>1 DEF TypeInv
<1>4. loop.taken \in Seq(Envelope)  BY <1>3 DEF LoopType
<1>5. loop.messages = <<>> /\ loop.scheduled = {}  BY <1>1, <1>2 DEF PassInv
<1>6. loop.cell = "mailbox"  BY <1>1, <1>2, <1>3 DEF PassInv, LoopType, Cells
<1> DEFINE es == loop.taken
<1> HIDE DEF es
<1>7. es \in Seq(Envelope) /\ es # <<>>  BY <1>2, <1>4 DEF es
<1>8. NextEnvelope(es) \in Seq(Envelope) /\ es[1] \in Envelope /\ es[1].responses \in Seq(Text)
      /\ Len(es[1].responses) \in Nat \ {0}
  BY <1>7, NextEnvelopeIs
<1>9. Tail(es) \in Seq(Envelope)  BY <1>7
<1>10. es[1].channel \in Channels  BY <1>8 DEF Envelope
<1>11. es[1].responses[1] \in Text  BY <1>8
<1> QED  BY <1>2, <1>3, <1>4, <1>5, <1>6, <1>8, <1>9, <1>10, <1>11 DEF es

LEMMA SendStep ==
  ASSUME OutgoingInv, SkipEnvelope \/ HandleResponse
  PROVE  OutgoingInv'
<1>1. TypeInv /\ CellsInv /\ PassInv  BY DEF OutgoingInv
<1>2. Sending /\ UNCHANGED <<cell, boxes, raced, task, put, at, held, speeches>>
  BY DEF SkipEnvelope, HandleResponse, cells
<1>3. /\ loop.taken \in Seq(Envelope) /\ loop.taken # <<>> /\ at[Loop] = "send"
      /\ loop.messages = <<>> /\ loop.scheduled = {} /\ loop \in LoopType /\ loop.cell = "mailbox"
      /\ NextEnvelope(loop.taken) \in Seq(Envelope) /\ Tail(loop.taken) \in Seq(Envelope)
      /\ loop.taken[1].channel \in Channels /\ loop.taken[1].responses[1] \in Text
  BY <1>2, SendingIs
<1>4. PICK es \in Seq(Envelope) : loop' = [loop EXCEPT !.taken = es]
  BY <1>3 DEF SkipEnvelope, HandleResponse
<1>5. loop' \in LoopType /\ loop'.messages = <<>> /\ loop'.scheduled = {} /\ loop'.cell = "mailbox"
  BY <1>3, <1>4 DEF LoopType
<1>6. attempts' \in Seq([text : Text, channel : Channels])
  <2>1. attempts \in Seq([text : Text, channel : Channels])  BY <1>1 DEF TypeInv
  <2>2. [text |-> loop.taken[1].responses[1], channel |-> loop.taken[1].channel]
           \in [text : Text, channel : Channels]
    BY <1>3
  <2> DEFINE a == [text |-> loop.taken[1].responses[1], channel |-> loop.taken[1].channel]
  <2>3. attempts' = attempts \/ attempts' = Append(attempts, a)
    BY DEF SkipEnvelope, HandleResponse
  <2> DEFINE A == [text : Text, channel : Channels]
  <2>4. a \in A /\ attempts \in Seq(A)  BY <2>1, <2>2
  <2> HIDE DEF a, A
  <2>5. attempts' \in Seq(A)  BY <2>3, <2>4
  <2> QED  BY <2>5 DEF A
<1>7. PassInv'  BY <1>2, <1>3, <1>5 DEF PassInv
<1> QED  BY <1>1, <1>2, <1>3, <1>5, <1>6, <1>7, LoopStep DEF TypeInv

LEMMA EndPassStep == ASSUME OutgoingInv, EndPass PROVE OutgoingInv'
<1>1. TypeInv /\ CellsInv /\ PassInv  BY DEF OutgoingInv
<1>2. /\ loop' = IdleLoop /\ Goes(Loop, "idle")
      /\ UNCHANGED <<cell, boxes, raced, task, put, held, speeches, attempts>>
  BY DEF EndPass, cells
<1>3. /\ at'[Loop] = "idle" /\ at' \in [Actors -> Places \cup LoopPlaces]
      /\ at'[Loop] \in LoopPlaces /\ \A g \in Actors \ {Loop} : at'[g] = at[g]
  BY <1>1, <1>2, LoopGoes DEF LoopPlaces
<1>4. PassInv'  BY <1>2, <1>3, IdleIsLoop DEF PassInv
<1> QED  BY <1>1, <1>2, <1>3, <1>4, IdleIsLoop, LoopStep DEF TypeInv

\* The steps that change neither the boxes, nor the loop, nor where anybody is.
StandStill == UNCHANGED <<cell, boxes, raced, task, at, held, loop, speeches, attempts, put>>

LEMMA StillStep == ASSUME OutgoingInv, StandStill PROVE OutgoingInv'
<1> USE DEF StandStill, OutgoingInv
<1>1. TypeInv'  BY DEF TypeInv
<1>2. CellsInv'
  <2>1. \A g : CellOf(g)' = CellOf(g)  BY DEF CellOf
  <2> QED  BY <2>1 DEF CellsInv
<1>3. PassInv'  BY DEF PassInv
<1> QED  BY <1>1, <1>2, <1>3

\* Every step is one of these.
LEMMA EveryStep ==
  ASSUME [Next]_vars
  PROVE  \/ \E g \in Goroutines : Begin(g) \/ HandleEventResponseEnvelope(g) \/ Put(g)
         \/ \E g \in Actors : Make(g) \/ Take(g)
         \/ Pass \/ StaySilent \/ Process \/ UseQueue \/ PopAll
         \/ ManicMinuteScheduler \/ CommentateScheduler
         \/ HandleSchedule \/ AddScheduled \/ RetrieveEnvelopes
         \/ SkipEnvelope \/ HandleResponse \/ EndPass
         \/ StandStill
<1>1. ASSUME TranslateEmptyWord \/ HandleReadyStateEvent \/ Tick \/ UNCHANGED vars
      PROVE  StandStill
  BY <1>1 DEF TranslateEmptyWord, HandleReadyStateEvent, Tick, vars, cells, StandStill
<1>2. ASSUME NEW g \in Goroutines, Speak(g)
      PROVE  \/ \E h \in Goroutines : Begin(h) \/ HandleEventResponseEnvelope(h) \/ Put(h)
             \/ \E h \in Actors : Make(h) \/ Take(h)
  BY <1>2 DEF Speak, Actors
<1>3. Loop \in Actors  BY DEF Actors
<1> QED  BY <1>1, <1>2, <1>3 DEF Next, OutgoingEventLoop

(***************************************************************************)
(* Whatever the goroutines have to say and however they interleave with    *)
(* the loop: the state has its type, every actor that works on a mailbox   *)
(* or queue holds one that exists, and the loop's locals are those of      *)
(* where it is in its pass.                                                *)
(***************************************************************************)
THEOREM OutgoingInvariance == Spec => []OutgoingInv
<1>1. Init => OutgoingInv  BY InitControl
<1>2. OutgoingInv /\ [Next]_vars => OutgoingInv'
  <2> SUFFICES ASSUME OutgoingInv, [Next]_vars PROVE OutgoingInv'  OBVIOUS
  <2>1. ASSUME NEW g \in Goroutines, Begin(g) \/ HandleEventResponseEnvelope(g) \/ Put(g)
        PROVE  OutgoingInv'
    BY <2>1, BeginStep, EventStep, PutStep
  <2>2. ASSUME NEW g \in Actors, Make(g) \/ Take(g)  PROVE OutgoingInv'
    BY <2>2, MakeStep, TakeStep
  <2>3. ASSUME \/ Pass \/ StaySilent \/ Process \/ UseQueue \/ PopAll
               \/ ManicMinuteScheduler \/ CommentateScheduler
        PROVE  OutgoingInv'
    BY <2>3, PassStep, StaySilentStep, ProcessStep, UseQueueStep, PopAllStep, SchedulerStep
  <2>4. ASSUME \/ HandleSchedule \/ AddScheduled \/ RetrieveEnvelopes
               \/ SkipEnvelope \/ HandleResponse \/ EndPass
        PROVE  OutgoingInv'
    BY <2>4, HandleScheduleStep, AddStep, RetrieveStep, SendStep, EndPassStep
  <2>5. ASSUME StandStill PROVE OutgoingInv'
    BY <2>5, StillStep
  <2> QED  BY <2>1, <2>2, <2>3, <2>4, <2>5, EveryStep
<1> QED  BY <1>1, <1>2, PTL DEF Spec

----------------------------------------------------------------------------
(***************************************************************************)
(* As long as no two actors have found a cell nil at once, there is one    *)
(* mailbox and one queue at most.                                          *)
(***************************************************************************)
SingleInv ==
  \A c \in Cells \ raced :
    /\ Len(boxes[c]) <= 1
    /\ cell[c] = 0 <=> boxes[c] = <<>>
    /\ \A g \in Actors : at[g] = "make" /\ CellOf(g) = c =>
         /\ cell[c] = 0
         /\ \A h \in Actors : at[h] = "make" /\ CellOf(h) = c => h = g

\* A step in which no box is made, and nobody is about to make one who was not.
LEMMA SingleKeeps ==
  ASSUME TypeInv, TypeInv', SingleInv, cell' = cell, raced \subseteq raced',
         \A c \in Cells : Len(boxes'[c]) = Len(boxes[c]),
         \A h \in Actors : at'[h] = "make" => at[h] = "make" /\ CellOf(h)' = CellOf(h)
  PROVE  SingleInv'
<1> SUFFICES ASSUME NEW c \in Cells \ raced'
             PROVE  /\ Len(boxes'[c]) <= 1
                    /\ cell'[c] = 0 <=> boxes'[c] = <<>>
                    /\ \A g \in Actors : at'[g] = "make" /\ CellOf(g)' = c =>
                         /\ cell'[c] = 0
                         /\ \A h \in Actors : at'[h] = "make" /\ CellOf(h)' = c => h = g
  BY DEF SingleInv
<1>1. /\ Len(boxes[c]) <= 1
      /\ cell[c] = 0 <=> boxes[c] = <<>>
      /\ \A g \in Actors : at[g] = "make" /\ CellOf(g) = c =>
           /\ cell[c] = 0
           /\ \A h \in Actors : at[h] = "make" /\ CellOf(h) = c => h = g
  BY DEF SingleInv
<1>2. (boxes[c] = <<>> <=> Len(boxes[c]) = 0) /\ (boxes'[c] = <<>> <=> Len(boxes'[c]) = 0)
  BY DEF TypeInv, Cells
<1> QED  BY <1>1, <1>2

LEMMA SingleLook ==
  ASSUME OutgoingInv, SingleInv, NEW g \in Actors, NEW c \in Cells, Look(g, c), task' = task,
         CellOf(g)' = c, loop' \in LoopType, speeches' = speeches, attempts' = attempts, put' = put,
         g = Loop \/ loop' = loop, at[g] # "make"
  PROVE  SingleInv'
<1>1. /\ TypeInv' /\ at' = [at EXCEPT ![g] = at'[g]] /\ boxes' = boxes /\ cell' = cell
      /\ at'[g] \in {"make", "take"} /\ (at'[g] = "make" <=> cell[c] = 0)
  BY LookStep
<1>2. TypeInv  BY DEF OutgoingInv
<1>3. \A h \in Actors \ {g} : at'[h] = at[h] /\ CellOf(h)' = CellOf(h)
  <2>1. \A h \in Actors \ {g} : at'[h] = at[h]  BY <1>1, <1>2 DEF TypeInv
  <2>2. ASSUME NEW h \in Actors \ {g}  PROVE CellOf(h)' = CellOf(h)
    <3>1. CASE h = Loop  BY <3>1 DEF CellOf
    <3>2. CASE h \in Goroutines  BY <1>2, <3>2, TaskStays
    <3> QED  BY <3>1, <3>2 DEF Actors
  <2> QED  BY <2>1, <2>2
<1>4. CASE cell[c] # 0
  <2>1. raced' = raced /\ at'[g] # "make"  BY <1>1, <1>4 DEF Look
  <2> QED  BY <1>1, <1>2, <1>3, <2>1, SingleKeeps
<1>5. CASE cell[c] = 0
  <2>1. raced \subseteq raced'  BY <1>5 DEF Look
  <2>2. c \notin raced' => \A h \in Actors \ {g} : ~(at[h] = "make" /\ CellOf(h) = c)
    BY <1>5 DEF Look
  <2> SUFFICES ASSUME NEW d \in Cells \ raced'
               PROVE  /\ Len(boxes'[d]) <= 1
                      /\ cell'[d] = 0 <=> boxes'[d] = <<>>
                      /\ \A h \in Actors : at'[h] = "make" /\ CellOf(h)' = d =>
                           /\ cell'[d] = 0
                           /\ \A k \in Actors : at'[k] = "make" /\ CellOf(k)' = d => k = h
    BY DEF SingleInv
  <2>3. /\ Len(boxes[d]) <= 1
        /\ cell[d] = 0 <=> boxes[d] = <<>>
        /\ \A h \in Actors : at[h] = "make" /\ CellOf(h) = d =>
             /\ cell[d] = 0
             /\ \A k \in Actors : at[k] = "make" /\ CellOf(k) = d => k = h
    BY <2>1 DEF SingleInv
  <2>4. CASE d = c
    <3>1. \A h \in Actors : at'[h] = "make" /\ CellOf(h)' = c => h = g  BY <1>3, <2>2, <2>4
    <3> QED  BY <1>1, <1>5, <2>3, <2>4, <3>1
  <2>5. CASE d # c
    <3>1. \A h \in Actors : at'[h] = "make" /\ CellOf(h)' = d => at[h] = "make" /\ CellOf(h) = d
      BY <1>3, <2>5
    <3> QED  BY <1>1, <2>3, <3>1
  <2> QED  BY <2>4, <2>5
<1> QED  BY <1>4, <1>5

LEMMA SingleMake ==
  ASSUME OutgoingInv, SingleInv, NEW g \in Actors, Make(g)
  PROVE  SingleInv'
<1> DEFINE c == CellOf(g)
<1>1. TypeInv  BY DEF OutgoingInv
<1>2. UNCHANGED <<task, held, loop, raced>>  BY DEF Make
<1>3. /\ c \in Cells /\ CellOf(g)' = c
      /\ \A d \in Cells \ {c} : boxes'[d] = boxes[d]
      /\ cell' = [cell EXCEPT ![c] = Len(boxes[c]) + 1]
      /\ Len(boxes'[c]) = Len(boxes[c]) + 1 /\ \A d \in Cells : Len(boxes[d]) \in Nat
      /\ at[g] = "make" /\ at'[g] = "take" /\ \A h \in Actors \ {g} : at'[h] = at[h]
  BY MakeIs
<1>4. \A h \in Actors : CellOf(h)' = CellOf(h)  BY <1>2 DEF CellOf
<1>5. c = CellOf(g)  OBVIOUS
<1> HIDE DEF c
<1>6. cell'[c] = Len(boxes[c]) + 1 /\ \A d \in Cells \ {c} : cell'[d] = cell[d]
  BY <1>1, <1>3 DEF TypeInv
<1> SUFFICES ASSUME NEW d \in Cells \ raced
             PROVE  /\ Len(boxes'[d]) <= 1
                    /\ cell'[d] = 0 <=> boxes'[d] = <<>>
                    /\ \A h \in Actors : at'[h] = "make" /\ CellOf(h)' = d =>
                         /\ cell'[d] = 0
                         /\ \A k \in Actors : at'[k] = "make" /\ CellOf(k)' = d => k = h
  BY <1>2 DEF SingleInv
<1>7. /\ Len(boxes[d]) <= 1
      /\ cell[d] = 0 <=> boxes[d] = <<>>
      /\ \A h \in Actors : at[h] = "make" /\ CellOf(h) = d =>
           /\ cell[d] = 0
           /\ \A k \in Actors : at[k] = "make" /\ CellOf(k) = d => k = h
  BY DEF SingleInv
<1>8. \A h \in Actors : at'[h] = "make" => at[h] = "make" /\ CellOf(h)' = CellOf(h) /\ h # g
  BY <1>3, <1>4
<1>9. CASE d = c
  <2>1. cell[c] = 0 /\ boxes[c] = <<>>  BY <1>3, <1>5, <1>7, <1>9
  <2>2. Len(boxes'[c]) = 1 /\ cell'[c] = 1  BY <1>3, <1>6, <2>1
  <2>3. boxes'[c] # <<>>  BY <2>2
  <2>4. \A h \in Actors : ~(at'[h] = "make" /\ CellOf(h)' = c)
    BY <1>3, <1>5, <1>7, <1>8, <1>9
  <2> QED  BY <1>9, <2>2, <2>3, <2>4
<1>10. CASE d # c
  <2>1. cell'[d] = cell[d] /\ boxes'[d] = boxes[d]  BY <1>3, <1>6, <1>10
  <2> QED  BY <1>7, <1>8, <2>1
<1> QED  BY <1>9, <1>10

\* A step of one actor that does not end in front of a cell to be made.
LEMMA SingleOther ==
  ASSUME TypeInv, TypeInv', SingleInv, NEW g \in Actors, cell' = cell, raced' = raced, task' = task,
         \A c \in Cells : Len(boxes'[c]) = Len(boxes[c]), at'[g] # "make",
         \A h \in Actors \ {g} : at'[h] = at[h],
         g = Loop \/ loop' = loop
  PROVE  SingleInv'
<1>1. ASSUME NEW h \in Actors, at'[h] = "make"  PROVE at[h] = "make" /\ CellOf(h)' = CellOf(h)
  <2>1. h # g /\ at[h] = "make"  BY <1>1
  <2>2. CASE h = Loop  BY <2>1, <2>2 DEF CellOf
  <2>3. CASE h \in Goroutines  BY <2>1, <2>3, TaskStays
  <2> QED  BY <2>1, <2>2, <2>3 DEF Actors
<1> QED  BY <1>1, SingleKeeps

LEMMA SingleStep ==
  ASSUME OutgoingInv, OutgoingInv', SingleInv, [Next]_vars
  PROVE  SingleInv'
<1>1. TypeInv /\ PassInv /\ TypeInv' /\ Loop \in Actors /\ Goroutines \subseteq Actors
  BY WhoIsWho DEF OutgoingInv
<1>2. ASSUME NEW g \in Goroutines, Begin(g)  PROVE SingleInv'
  <2> DEFINE c == CellOf(g)
  <2>1. Look(g, c) /\ UNCHANGED <<task, loop, speeches, attempts, put>> /\ at[g] = "idle"
    BY <1>2 DEF Begin, At
  <2>2. c \in Cells /\ CellOf(g)' = c /\ g \in Actors /\ loop' \in LoopType
    BY <1>1, <2>1, WhoIsWho, TaskStays DEF TypeInv
  <2> HIDE DEF c
  <2>3. g = Loop \/ loop' = loop  BY <2>1
  <2>4. at[g] # "make"  BY <2>1
  <2> QED  BY <2>1, <2>2, <2>3, <2>4, SingleLook
<1>3. ASSUME NEW g \in Goroutines, HandleEventResponseEnvelope(g)  PROVE SingleInv'
  <2>1. UNCHANGED <<cell, boxes, raced, task, loop>> /\ g \in Actors
    BY <1>1, <1>3 DEF HandleEventResponseEnvelope, cells
  <2>2. at'[g] # "make" /\ \A h \in Actors \ {g} : at'[h] = at[h]
    BY <1>1, <1>3 DEF HandleEventResponseEnvelope, Goes, TypeInv
  <2> QED  BY <1>1, <2>1, <2>2, SingleOther
<1>4. ASSUME NEW g \in Goroutines, Put(g)  PROVE SingleInv'
  <2>1. UNCHANGED <<cell, raced, task, loop>> /\ g \in Actors  BY <1>1, <1>4 DEF Put
  <2>2. /\ \A d \in Cells : Len(boxes'[d]) = Len(boxes[d])
        /\ at'[g] = "done" /\ \A a \in Actors \ {g} : at'[a] = at[a]
    BY <1>4, PutIs
  <2>3. at'[g] # "make"  BY <2>2
  <2> QED  BY <1>1, <2>1, <2>2, <2>3, SingleOther
<1>5. ASSUME NEW g \in Actors, Take(g)  PROVE SingleInv'
  <2>1. UNCHANGED <<cell, boxes, raced, task, loop>>  BY <1>5 DEF Take, cells
  <2>2. at'[g] # "make" /\ \A h \in Actors \ {g} : at'[h] = at[h]
    BY <1>1, <1>5 DEF Take, Goes, TypeInv
  <2> QED  BY <1>1, <2>1, <2>2, SingleOther
<1>6. ASSUME Pass PROVE SingleInv'
  <2>1. Look(Loop, "mailbox") /\ UNCHANGED <<task, loop, speeches, attempts, put>>
        /\ at[Loop] = "idle"
    BY <1>6 DEF Pass, At
  <2>2. loop.cell # "queue" /\ loop.cell \in Cells  BY <1>1, <2>1 DEF PassInv, TypeInv, LoopType
  <2>3. CellOf(Loop)' = "mailbox" /\ "mailbox" \in Cells /\ loop' \in LoopType /\ at[Loop] # "make"
    BY <1>1, <2>1, <2>2 DEF CellOf, Cells, TypeInv
  <2> QED  BY <1>1, <2>1, <2>3, SingleLook
<1>7. ASSUME UseQueue PROVE SingleInv'
  <2>1. /\ at[Loop] = "schedule" /\ Look(Loop, "queue") /\ loop' = [loop EXCEPT !.cell = "queue"]
        /\ UNCHANGED <<task, speeches, attempts, put>>
    BY <1>7 DEF UseQueue, At
  <2>2. loop'.cell = "queue" /\ loop' \in LoopType  BY <1>1, <2>1 DEF TypeInv, LoopType
  <2>3. CellOf(Loop)' = "queue" /\ "queue" \in Cells /\ at[Loop] # "make"
    BY <2>1, <2>2 DEF CellOf, Cells
  <2> QED  BY <1>1, <2>1, <2>2, <2>3, SingleLook
<1>8. ASSUME StaySilent \/ Process \/ HandleSchedule \/ EndPass  PROVE SingleInv'
  <2>1. UNCHANGED <<cell, boxes, raced, task>>
    BY <1>8 DEF StaySilent, Process, HandleSchedule, EndPass, cells
  <2>2. PICK p \in LoopPlaces \ {"make"} : Goes(Loop, p)
    BY <1>8 DEF StaySilent, Process, HandleSchedule, EndPass, LoopPlaces
  <2>3. at'[Loop] # "make" /\ \A h \in Actors \ {Loop} : at'[h] = at[h]
    BY <1>1, <2>2, LoopGoes
  <2> QED  BY <1>1, <2>1, <2>3, SingleOther
<1>9. ASSUME PopAll PROVE SingleInv'
  <2>1. UNCHANGED <<cell, raced, task>> /\ Goes(Loop, "schedule")  BY <1>9 DEF PopAll
  <2>2. boxes'["mailbox"] = boxes["mailbox"] /\ Len(boxes'["queue"]) = Len(boxes["queue"])
    BY <1>9, PopAllIs
  <2>3. at'[Loop] = "schedule" /\ \A h \in Actors \ {Loop} : at'[h] = at[h]
    BY <1>1, <2>1, LoopGoes DEF LoopPlaces
  <2>4. at'[Loop] # "make" /\ \A c \in Cells : Len(boxes'[c]) = Len(boxes[c])
    BY <2>2, <2>3 DEF Cells
  <2> QED  BY <1>1, <2>1, <2>3, <2>4, SingleOther
<1>10. ASSUME ManicMinuteScheduler \/ CommentateScheduler PROVE SingleInv'
  <2>1. UNCHANGED <<cell, boxes, raced, task, at>> /\ at[Loop] = "schedule"
    BY <1>10 DEF ManicMinuteScheduler, CommentateScheduler, cells, At
  <2> QED  BY <1>1, <2>1, SingleOther
<1>11. ASSUME AddScheduled PROVE SingleInv'
  <2>1. UNCHANGED <<cell, raced, task, at>> /\ at[Loop] = "add"
    BY <1>11 DEF AddScheduled, At
  <2>2. boxes'["queue"] = boxes["queue"] /\ Len(boxes'["mailbox"]) = Len(boxes["mailbox"])
    BY <1>11, AddIs
  <2>3. \A c \in Cells : Len(boxes'[c]) = Len(boxes[c])  BY <2>2 DEF Cells
  <2> QED  BY <1>1, <2>1, <2>3, SingleOther
<1>12. ASSUME RetrieveEnvelopes PROVE SingleInv'
  <2>1. UNCHANGED <<cell, raced, task>>  BY <1>12 DEF RetrieveEnvelopes
  <2>2. \A c \in Cells : Len(boxes'[c]) = Len(boxes[c])
    <3>1. \/ boxes' = boxes
          \/ boxes'["queue"] = boxes["queue"] /\ Len(boxes'["mailbox"]) = Len(boxes["mailbox"])
      BY <1>12, RetrieveIs
    <3> QED  BY <3>1 DEF Cells
  <2>3. PICK p \in {"idle", "send"} : Goes(Loop, p)  BY <1>12 DEF RetrieveEnvelopes
  <2>4. at'[Loop] # "make" /\ \A h \in Actors \ {Loop} : at'[h] = at[h]
    BY <1>1, <2>3, LoopGoes DEF LoopPlaces
  <2> QED  BY <1>1, <2>1, <2>2, <2>4, SingleOther
<1>13. ASSUME SkipEnvelope \/ HandleResponse PROVE SingleInv'
  <2>1. UNCHANGED <<cell, boxes, raced, task, at>> /\ at[Loop] = "send"
    BY <1>13 DEF SkipEnvelope, HandleResponse, cells, Sending, At
  <2> QED  BY <1>1, <2>1, SingleOther
<1>14. ASSUME StandStill PROVE SingleInv'
  <2>1. \A h \in Actors : CellOf(h)' = CellOf(h)  BY <1>14 DEF StandStill, CellOf
  <2> QED  BY <1>1, <1>14, <2>1, SingleKeeps DEF StandStill
<1> QED
  BY <1>2, <1>3, <1>4, <1>5, <1>6, <1>7, <1>8, <1>9, <1>10, <1>11, <1>12, <1>13, <1>14,
     SingleMake, EveryStep

LEMMA InitSingle == Init => SingleInv
<1> SUFFICES ASSUME Init PROVE SingleInv  OBVIOUS
<1>1. \A c \in Cells : boxes[c] = <<>> /\ cell[c] = 0  BY DEF Init
<1>2. \A g \in Actors : at[g] = "idle"  BY DEF Init
<1> QED  BY <1>1, <1>2 DEF SingleInv

----------------------------------------------------------------------------
(***************************************************************************)
(* Where a text lies and for which channel: handed to Discord, in the      *)
(* loop's hands to be sent, in a mailbox, grouped by channel, collected by *)
(* a schedule, in a queue.  x names the box or the envelope, i and k the   *)
(* place there.                                                            *)
(***************************************************************************)
LiesIn(es, i, k, t, c) ==
  /\ i \in DOMAIN es /\ k \in DOMAIN es[i].responses
  /\ t = es[i].responses[k] /\ c = es[i].channel

NotedIn(ns, i, k, t, c) ==
  k = 0 /\ i \in DOMAIN ns /\ t = ns[i].text /\ c = ns[i].channel

Sent(x, i, k, t, c) == x = 0 /\ NotedIn(attempts, i, k, t, c)

Taken(x, i, k, t, c) == x = 0 /\ LiesIn(loop.taken, i, k, t, c)

Mailed(x, i, k, t, c) == x \in DOMAIN boxes["mailbox"] /\ LiesIn(boxes["mailbox"][x], i, k, t, c)

Grouped(x, i, k, t, c) ==
  /\ x \in loop.scheduled /\ i = 0 /\ k \in DOMAIN x.responses
  /\ t = x.responses[k] /\ c = x.channel

Collected(x, i, k, t, c) == x = 0 /\ NotedIn(loop.messages, i, k, t, c)

Queued(x, i, k, t, c) == x \in DOMAIN boxes["queue"] /\ NotedIn(boxes["queue"][x], i, k, t, c)

Lies(r, x, i, k, t, c) ==
  \/ r = 1 /\ Sent(x, i, k, t, c)
  \/ r = 2 /\ Taken(x, i, k, t, c)
  \/ r = 3 /\ Mailed(x, i, k, t, c)
  \/ r = 4 /\ Grouped(x, i, k, t, c)
  \/ r = 5 /\ Collected(x, i, k, t, c)
  \/ r = 6 /\ Queued(x, i, k, t, c)

Sooner(r, i, k, r2, i2, k2) ==
  r < r2 \/ (r = r2 /\ (i < i2 \/ (i = i2 /\ k < k2)))

(***************************************************************************)
(* Every text that lies anywhere was said by somebody, who says it once.   *)
(***************************************************************************)
SaidInv ==
  \A r, x, i, k, t, c : Lies(r, x, i, k, t, c) =>
    /\ t.from \in Goroutines => /\ t \in ToSet(put) /\ c = task[t.from].channel
                                /\ r \in 4..6 => task[t.from].kind = "note"
    /\ t.from = Minute => t.n <= speeches
    /\ r = 1 => t.from # Commentator

\* A goroutine is done when all it has to say was put, each text once.
PutInv ==
  /\ \A i \in DOMAIN put : \E g \in Goroutines :
       at[g] = "done" /\ put[i].n \in DOMAIN Texts(g) /\ put[i] = Texts(g)[put[i].n]
  /\ \A i, j \in DOMAIN put : put[i] = put[j] => i = j

\* A channel has one envelope.
GroupedInv == \A e, f \in loop.scheduled : e.channel = f.channel => e = f

\* It lies in one place only.
OnceInv ==
  \A r, x, i, k, c, r2, x2, i2, k2, c2, t :
    Lies(r, x, i, k, t, c) /\ Lies(r2, x2, i2, k2, t, c2) /\ t.from # Commentator
      => r = r2 /\ x = x2 /\ i = i2 /\ k = k2

\* What was put is somewhere.
FoundInv ==
  \A t \in ToSet(put) : MayBeDropped(t) \/ \E r, x, i, k, c : Lies(r, x, i, k, t, c)

\* Where it lies tells when it was put.
OrderInv ==
  raced = {} =>
    \A r, x, i, k, s, r2, x2, i2, k2, t, c :
      /\ Lies(r, x, i, k, s, c) /\ Lies(r2, x2, i2, k2, t, c)
      /\ s.from \in Goroutines /\ t.from \in Goroutines
      /\ CellOf(s.from) = CellOf(t.from)
      /\ Sooner(r, i, k, r2, i2, k2)
      => Position(put, s) < Position(put, t)

----------------------------------------------------------------------------
(* Lemmas about places *)

LEMMA LiesTypes ==
  ASSUME TypeInv
  PROVE  \A r, x, i, k, t, c : Lies(r, x, i, k, t, c) =>
           /\ r \in 1..6 /\ i \in Nat /\ k \in Nat /\ t \in Text /\ c \in Channels \cup {NoChannel}
           /\ r # 5 => c # NoChannel
           /\ r \in 2..6 => (c = NoChannel <=> t.from = Commentator)
           /\ r = 4 => c = x.channel /\ i = 0
           /\ r \in {1, 2, 5} => x = 0
<1> SUFFICES ASSUME NEW r, NEW x, NEW i, NEW k, NEW t, NEW c, Lies(r, x, i, k, t, c)
             PROVE  /\ r \in 1..6 /\ i \in Nat /\ k \in Nat /\ t \in Text /\ c \in Channels \cup {NoChannel}
                    /\ r # 5 => c # NoChannel
                    /\ r \in 2..6 => (c = NoChannel <=> t.from = Commentator)
                    /\ r = 4 => c = x.channel /\ i = 0
                    /\ r \in {1, 2, 5} => x = 0
  OBVIOUS
<1>0. NoChannel \notin Channels  BY OutgoingConstants
<1>1. ASSUME NEW es \in Seq(Envelope), LiesIn(es, i, k, t, c)
      PROVE  /\ i \in Nat /\ k \in Nat /\ t \in Text /\ c \in Channels /\ c # NoChannel
             /\ t.from # Commentator
  <2>1. i \in Nat /\ es[i] \in Envelope /\ k \in DOMAIN es[i].responses
        /\ t = es[i].responses[k] /\ c = es[i].channel
    BY <1>1 DEF LiesIn
  <2>2. es[i].responses \in Seq(Text) /\ t.from # Commentator /\ c \in Channels
    BY <2>1 DEF Envelope
  <2> QED  BY <1>0, <2>1, <2>2
<1>2. ASSUME NEW ns \in Seq(Note), NotedIn(ns, i, k, t, c)
      PROVE  /\ i \in Nat /\ k \in Nat /\ t \in Text /\ c \in Channels \cup {NoChannel}
             /\ c = NoChannel <=> t.from = Commentator
  <2>1. i \in Nat /\ ns[i] \in Note /\ k = 0 /\ t = ns[i].text /\ c = ns[i].channel
    BY <1>2 DEF NotedIn
  <2> QED  BY <2>1 DEF Note
<1>3. CASE r = 1 /\ Sent(x, i, k, t, c)
  <2> DEFINE A == [text : Text, channel : Channels]
  <2>1. attempts \in Seq(A)  BY DEF TypeInv
  <2>2. i \in DOMAIN attempts /\ k = 0 /\ x = 0 /\ t = attempts[i].text /\ c = attempts[i].channel
    BY <1>3 DEF Sent, NotedIn
  <2> HIDE DEF A
  <2>3. i \in Nat /\ attempts[i] \in A  BY <2>1, <2>2
  <2>4. attempts[i].text \in Text /\ attempts[i].channel \in Channels  BY <2>3 DEF A
  <2> QED  BY <1>0, <1>3, <2>2, <2>3, <2>4
<1>4. CASE r = 2 /\ Taken(x, i, k, t, c)
  <2>1. loop.taken \in Seq(Envelope)  BY DEF TypeInv, LoopType
  <2> QED  BY <1>1, <1>4, <2>1 DEF Taken
<1>5. CASE r = 3 /\ Mailed(x, i, k, t, c)
  <2>1. boxes["mailbox"][x] \in Seq(Envelope)  BY <1>5 DEF TypeInv, Mailed
  <2> QED  BY <1>1, <1>5, <2>1 DEF Mailed
<1>6. CASE r = 4 /\ Grouped(x, i, k, t, c)
  <2>1. x \in Envelope  BY <1>6 DEF TypeInv, LoopType, Grouped
  <2>2. x.responses \in Seq(Text) /\ t = x.responses[k] /\ k \in DOMAIN x.responses
        /\ c = x.channel /\ i = 0
    BY <1>6, <2>1 DEF Grouped, Envelope
  <2>3. t.from # Commentator /\ c \in Channels  BY <2>1, <2>2 DEF Envelope
  <2> QED  BY <1>0, <1>6, <2>2, <2>3
<1>7. CASE r = 5 /\ Collected(x, i, k, t, c)
  <2>1. loop.messages \in Seq(Note)  BY DEF TypeInv, LoopType
  <2> QED  BY <1>2, <1>7, <2>1 DEF Collected
<1>8. CASE r = 6 /\ Queued(x, i, k, t, c)
  <2>1. boxes["queue"][x] \in Seq(QueueNote)  BY <1>8 DEF TypeInv, Queued
  <2>2. boxes["queue"][x] \in Seq(Note)
    <3>1. QueueNote \subseteq Note  BY DEF QueueNote
    <3> QED  BY <2>1, <3>1
  <2>3. boxes["queue"][x][i] \in QueueNote /\ c = boxes["queue"][x][i].channel
    BY <1>8, <2>1 DEF Queued, NotedIn
  <2>4. c # NoChannel  BY <2>3 DEF QueueNote
  <2> QED  BY <1>2, <1>8, <2>2, <2>4 DEF Queued
<1> QED  BY <1>3, <1>4, <1>5, <1>6, <1>7, <1>8 DEF Lies

\* What stays where it is.
LEMMA Unmoved ==
  /\ attempts' = attempts =>
       \A x, i, k, t, c : Lies(1, x, i, k, t, c)' <=> Lies(1, x, i, k, t, c)
  /\ loop'.taken = loop.taken =>
       \A x, i, k, t, c : Lies(2, x, i, k, t, c)' <=> Lies(2, x, i, k, t, c)
  /\ boxes'["mailbox"] = boxes["mailbox"] =>
       \A x, i, k, t, c : Lies(3, x, i, k, t, c)' <=> Lies(3, x, i, k, t, c)
  /\ loop'.scheduled = loop.scheduled =>
       \A x, i, k, t, c : Lies(4, x, i, k, t, c)' <=> Lies(4, x, i, k, t, c)
  /\ loop'.messages = loop.messages =>
       \A x, i, k, t, c : Lies(5, x, i, k, t, c)' <=> Lies(5, x, i, k, t, c)
  /\ boxes'["queue"] = boxes["queue"] =>
       \A x, i, k, t, c : Lies(6, x, i, k, t, c)' <=> Lies(6, x, i, k, t, c)
BY DEF Lies, Sent, Taken, Mailed, Grouped, Collected, Queued

\* An empty place has nothing in it.
LEMMA Nowhere ==
  /\ loop.taken = <<>> => \A x, i, k, t, c : ~Lies(2, x, i, k, t, c)
  /\ loop.scheduled = {} => \A x, i, k, t, c : ~Lies(4, x, i, k, t, c)
  /\ loop.messages = <<>> => \A x, i, k, t, c : ~Lies(5, x, i, k, t, c)
BY DEF Lies, Taken, Grouped, Collected, LiesIn, NotedIn

LEMMA NowhereNext ==
  /\ loop'.taken = <<>> => \A x, i, k, t, c : ~Lies(2, x, i, k, t, c)'
  /\ loop'.scheduled = {} => \A x, i, k, t, c : ~Lies(4, x, i, k, t, c)'
  /\ loop'.messages = <<>> => \A x, i, k, t, c : ~Lies(5, x, i, k, t, c)'
BY DEF Lies, Taken, Grouped, Collected, LiesIn, NotedIn

LEMMA Somewhere ==
  \A r, x, i, k, t, c : Lies(r, x, i, k, t, c) \/ Lies(r, x, i, k, t, c)' => r \in 1..6
BY DEF Lies

DeliveryInv == SaidInv /\ GroupedInv /\ OnceInv /\ OrderInv /\ FoundInv

\* What was said, by whom and when, does not change with the places.
LEMMA WordsStay ==
  ASSUME TypeInv, task' = task, put' = put
  PROVE  /\ \A g \in Goroutines : CellOf(g)' = CellOf(g) /\ task'[g] = task[g]
         /\ \A s : Position(put', s) = Position(put, s)
         /\ \A t : MayBeDropped(t)' <=> MayBeDropped(t)
         /\ ToSet(put') = ToSet(put)
<1>1. \A g \in Goroutines : CellOf(g)' = CellOf(g)  BY TaskStays
<1>2. \A t : MayBeDropped(t)' <=> MayBeDropped(t)
  BY DEF MayBeDropped, IsAllowedOutputChannel
<1> QED  BY <1>1, <1>2

\* Only goroutines put anything.
LEMMA PutWords ==
  ASSUME TypeInv, PutInv
  PROVE  \A t \in ToSet(put) : t.from \in Goroutines /\ t \in Text
<1> SUFFICES ASSUME NEW t \in ToSet(put) PROVE t.from \in Goroutines /\ t \in Text  OBVIOUS
<1>1. PICK j \in DOMAIN put : t = put[j]  BY DEF ToSet
<1>2. PICK g \in Goroutines : put[j].n \in DOMAIN Texts(g) /\ put[j] = Texts(g)[put[j].n]
  BY DEF PutInv
<1>3. t.from = g /\ t \in Text  BY <1>1, <1>2, TextsType
<1> QED  BY <1>3

LEMMA PutStays ==
  ASSUME TypeInv, PutInv, task' = task, put' = put,
         \A g \in Goroutines : at[g] = "done" => at'[g] = "done"
  PROVE  PutInv'
<1>1. \A g \in Goroutines : Texts(g)' = Texts(g)  BY TaskStays
<1>2. \A i \in DOMAIN put' : \E g \in Goroutines :
        at'[g] = "done" /\ put'[i].n \in DOMAIN Texts(g)' /\ put'[i] = Texts(g)'[put'[i].n]
  <2> SUFFICES ASSUME NEW i \in DOMAIN put
               PROVE  \E g \in Goroutines : at'[g] = "done" /\ put[i].n \in DOMAIN Texts(g)'
                                            /\ put[i] = Texts(g)'[put[i].n]
    OBVIOUS
  <2>1. PICK g \in Goroutines :
           at[g] = "done" /\ put[i].n \in DOMAIN Texts(g) /\ put[i] = Texts(g)[put[i].n]
    BY DEF PutInv
  <2>2. Texts(g)' = Texts(g) /\ at'[g] = "done"  BY <1>1, <2>1
  <2> QED  BY <2>1, <2>2
<1>3. \A i, j \in DOMAIN put' : put'[i] = put'[j] => i = j  BY DEF PutInv
<1> QED  BY <1>2, <1>3 DEF PutInv

\* A step that moves no text.
LEMMA NothingMoves ==
  ASSUME TypeInv, DeliveryInv, task' = task, put' = put, speeches' = speeches,
         loop'.scheduled = loop.scheduled \/ loop'.scheduled = {}, raced \subseteq raced',
         \A r, x, i, k, t, c : Lies(r, x, i, k, t, c)' <=> Lies(r, x, i, k, t, c)
  PROVE  DeliveryInv'
<1> USE DEF DeliveryInv
<1>1. SaidInv'  BY DEF SaidInv
<1>2. GroupedInv'  BY DEF GroupedInv
<1>3. OnceInv'  BY DEF OnceInv
<1>4. OrderInv'  BY WordsStay DEF OrderInv
<1>5. FoundInv'
  <2> SUFFICES ASSUME NEW t \in ToSet(put'), ~MayBeDropped(t)'
               PROVE  \E r, x, i, k, c : Lies(r, x, i, k, t, c)'
    BY DEF FoundInv
  <2>1. t \in ToSet(put) /\ ~MayBeDropped(t)  BY WordsStay
  <2>2. PICK r, x, i, k, c : Lies(r, x, i, k, t, c)  BY <2>1 DEF FoundInv
  <2> QED  BY <2>2
<1> QED  BY <1>1, <1>2, <1>3, <1>4, <1>5

\* The same, by the variables.
LEMMA NothingMoved ==
  ASSUME TypeInv, DeliveryInv, task' = task, put' = put, speeches' = speeches, raced \subseteq raced',
         attempts' = attempts, boxes'["mailbox"] = boxes["mailbox"], boxes'["queue"] = boxes["queue"],
         loop'.taken = loop.taken, loop'.scheduled = loop.scheduled, loop'.messages = loop.messages
  PROVE  DeliveryInv'
<1>1. \A r, x, i, k, t, c : Lies(r, x, i, k, t, c)' <=> Lies(r, x, i, k, t, c)
  <2> SUFFICES ASSUME NEW r \in 1..6, NEW x, NEW i, NEW k, NEW t, NEW c
               PROVE  Lies(r, x, i, k, t, c)' <=> Lies(r, x, i, k, t, c)
    BY Somewhere
  <2>1. r = 1 \/ r = 2 \/ r = 3 \/ r = 4 \/ r = 5 \/ r = 6  OBVIOUS
  <2> QED  BY <2>1, Unmoved
<1> QED  BY <1>1, NothingMoves

LEMMA MakeMoves ==
  ASSUME OutgoingInv, DeliveryInv, NEW g \in Actors, Make(g)
  PROVE  DeliveryInv'
<1> DEFINE c == CellOf(g)
<1>1. TypeInv  BY DEF OutgoingInv
<1>2. UNCHANGED <<task, loop, speeches, attempts, put, raced>>  BY DEF Make
<1>3. /\ c \in Cells
      /\ boxes'[c] = Append(boxes[c], <<>>) /\ \A d \in Cells \ {c} : boxes'[d] = boxes[d]
      /\ Len(boxes'[c]) = Len(boxes[c]) + 1 /\ \A d \in Cells : Len(boxes[d]) \in Nat
      /\ \A i \in 1..Len(boxes[c]) : boxes'[c][i] = boxes[c][i]
      /\ boxes'[c][Len(boxes[c]) + 1] = <<>>
      /\ boxes'["mailbox"] \in Seq(Seq(Envelope)) /\ boxes'["queue"] \in Seq(Seq(QueueNote))
  BY MakeIs
<1> HIDE DEF c
<1>4. \A x, i, k, t, d : Lies(3, x, i, k, t, d)' <=> Lies(3, x, i, k, t, d)
  <2>1. CASE c = "queue"
    <3>1. boxes'["mailbox"] = boxes["mailbox"]  BY <1>3, <2>1 DEF Cells
    <3> QED  BY <3>1, Unmoved
  <2>2. CASE c = "mailbox"
    <3> DEFINE bs == boxes["mailbox"]  N == Len(bs)
    <3>1. DOMAIN boxes'["mailbox"] = 1..N + 1 /\ DOMAIN bs = 1..N /\ N \in Nat
      BY <1>1, <1>3, <2>2 DEF TypeInv, Cells
    <3>2. (\A i \in 1..N : boxes'["mailbox"][i] = bs[i]) /\ boxes'["mailbox"][N + 1] = <<>>
      BY <1>3, <2>2
    <3> HIDE DEF bs, N
    <3> SUFFICES ASSUME NEW x, NEW i, NEW k, NEW t, NEW d
                 PROVE  Mailed(x, i, k, t, d)' <=> Mailed(x, i, k, t, d)
      BY DEF Lies
    <3>3. CASE x = N + 1
      <4>1. ~Mailed(x, i, k, t, d)'  BY <3>2, <3>3 DEF Mailed, LiesIn
      <4>2. ~Mailed(x, i, k, t, d)  BY <3>1, <3>3 DEF Mailed, bs
      <4> QED  BY <4>1, <4>2
    <3>4. CASE x # N + 1
      <4>1. x \in DOMAIN boxes'["mailbox"] <=> x \in DOMAIN bs  BY <3>1, <3>4
      <4>2. x \in DOMAIN bs => boxes'["mailbox"][x] = bs[x]  BY <3>1, <3>2
      <4> QED  BY <4>1, <4>2 DEF Mailed, bs
    <3> QED  BY <3>3, <3>4
  <2> QED  BY <1>3, <2>1, <2>2 DEF Cells
<1>5. \A x, i, k, t, d : Lies(6, x, i, k, t, d)' <=> Lies(6, x, i, k, t, d)
  <2>1. CASE c = "mailbox"
    <3>1. boxes'["queue"] = boxes["queue"]  BY <1>3, <2>1 DEF Cells
    <3> QED  BY <3>1, Unmoved
  <2>2. CASE c = "queue"
    <3> DEFINE bs == boxes["queue"]  N == Len(bs)
    <3>1. DOMAIN boxes'["queue"] = 1..N + 1 /\ DOMAIN bs = 1..N /\ N \in Nat
      BY <1>1, <1>3, <2>2 DEF TypeInv, Cells
    <3>2. (\A i \in 1..N : boxes'["queue"][i] = bs[i]) /\ boxes'["queue"][N + 1] = <<>>
      BY <1>3, <2>2
    <3> HIDE DEF bs, N
    <3> SUFFICES ASSUME NEW x, NEW i, NEW k, NEW t, NEW d
                 PROVE  Queued(x, i, k, t, d)' <=> Queued(x, i, k, t, d)
      BY DEF Lies
    <3>3. CASE x = N + 1
      <4>1. ~Queued(x, i, k, t, d)'  BY <3>2, <3>3 DEF Queued, NotedIn
      <4>2. ~Queued(x, i, k, t, d)  BY <3>1, <3>3 DEF Queued, bs
      <4> QED  BY <4>1, <4>2
    <3>4. CASE x # N + 1
      <4>1. x \in DOMAIN boxes'["queue"] <=> x \in DOMAIN bs  BY <3>1, <3>4
      <4>2. x \in DOMAIN bs => boxes'["queue"][x] = bs[x]  BY <3>1, <3>2
      <4> QED  BY <4>1, <4>2 DEF Queued, bs
    <3> QED  BY <3>3, <3>4
  <2> QED  BY <1>3, <2>1, <2>2 DEF Cells
<1>6. \A r, x, i, k, t, d : Lies(r, x, i, k, t, d)' <=> Lies(r, x, i, k, t, d)
  <2> SUFFICES ASSUME NEW r \in 1..6, NEW x, NEW i, NEW k, NEW t, NEW d
               PROVE  Lies(r, x, i, k, t, d)' <=> Lies(r, x, i, k, t, d)
    BY Somewhere
  <2>1. r = 1 \/ r = 2 \/ r = 3 \/ r = 4 \/ r = 5 \/ r = 6  OBVIOUS
  <2> QED  BY <1>2, <1>4, <1>5, <2>1, Unmoved
<1> QED  BY <1>1, <1>2, <1>6, NothingMoves

----------------------------------------------------------------------------
(* The steps that move texts *)

LEMMA TailLies ==
  ASSUME NEW es \in Seq(Envelope), es # <<>>
  PROVE  \A i, k, t, c : LiesIn(Tail(es), i, k, t, c) <=> i \in Nat \ {0} /\ LiesIn(es, i + 1, k, t, c)
<1>1. /\ Len(es) \in Nat \ {0} /\ DOMAIN es = 1..Len(es)
      /\ DOMAIN Tail(es) = 1..Len(es) - 1
      /\ \A i \in 1..Len(es) - 1 : Tail(es)[i] = es[i + 1]
  OBVIOUS
<1> SUFFICES ASSUME NEW i, NEW k, NEW t, NEW c
             PROVE  LiesIn(Tail(es), i, k, t, c) <=> i \in Nat \ {0} /\ LiesIn(es, i + 1, k, t, c)
  OBVIOUS
<1>2. CASE i \in 1..Len(es) - 1
  <2>1. i + 1 \in DOMAIN es /\ i \in Nat \ {0} /\ i \in DOMAIN Tail(es) /\ Tail(es)[i] = es[i + 1]
    BY <1>1, <1>2
  <2> QED  BY <2>1 DEF LiesIn
<1>3. CASE i \notin 1..Len(es) - 1
  <2>1. ~LiesIn(Tail(es), i, k, t, c)  BY <1>1, <1>3 DEF LiesIn
  <2>2. i \in Nat \ {0} => i + 1 \notin DOMAIN es  BY <1>1, <1>3
  <2> QED  BY <2>1, <2>2 DEF LiesIn
<1> QED  BY <1>2, <1>3

LEMMA TrimLies ==
  ASSUME NEW es \in Seq(Envelope), es # <<>>, Len(es[1].responses) # 1
  PROVE  \A i, k, t, c : LiesIn(NextEnvelope(es), i, k, t, c) <=>
           \/ i = 1 /\ k \in Nat \ {0} /\ LiesIn(es, 1, k + 1, t, c)
           \/ i \in Nat \ {0, 1} /\ LiesIn(es, i, k, t, c)
<1> DEFINE ns == NextEnvelope(es)  R == es[1].responses  n == Len(R)
<1>1. /\ ns \in Seq(Envelope) /\ n \in Nat \ {0, 1} /\ DOMAIN R = 1..n
      /\ Len(es) \in Nat \ {0} /\ DOMAIN es = 1..Len(es) /\ 1 \in DOMAIN es
      /\ Len(ns) = Len(es) /\ \A i \in 2..Len(es) : ns[i] = es[i]
      /\ ns[1].channel = es[1].channel
      /\ Len(ns[1].responses) = n - 1
      /\ \A k \in 1..n - 1 : ns[1].responses[k] = R[k + 1]
  BY NextEnvelopeIs
<1> HIDE DEF n, ns
<1>2. DOMAIN ns = 1..Len(es) /\ 1 \in DOMAIN ns  BY <1>1
<1>3. DOMAIN ns[1].responses = 1..n - 1
  <2>1. ns[1] \in Envelope  BY <1>1, <1>2
  <2>2. ns[1].responses \in Seq(Text)  BY <2>1 DEF Envelope
  <2> QED  BY <1>1, <2>2
<1> HIDE DEF R
<1> SUFFICES ASSUME NEW i, NEW k, NEW t, NEW c
             PROVE  LiesIn(ns, i, k, t, c) <=>
                      \/ i = 1 /\ k \in Nat \ {0} /\ LiesIn(es, 1, k + 1, t, c)
                      \/ i \in Nat \ {0, 1} /\ LiesIn(es, i, k, t, c)
  BY DEF ns
<1>4. CASE i = 1
  <2>1. LiesIn(ns, 1, k, t, c) <=> k \in 1..n - 1 /\ t = R[k + 1] /\ c = es[1].channel
    BY <1>1, <1>2, <1>3 DEF LiesIn
  <2>2. k \in Nat \ {0} => (LiesIn(es, 1, k + 1, t, c) <=>
                             k + 1 \in 1..n /\ t = R[k + 1] /\ c = es[1].channel)
    BY <1>1 DEF LiesIn, R
  <2>3. k \in 1..n - 1 <=> k \in Nat \ {0} /\ k + 1 \in 1..n  BY <1>1
  <2> QED  BY <1>4, <2>1, <2>2, <2>3
<1>5. CASE i # 1
  <2>1. CASE i \in 2..Len(es)
    <3>1. ns[i] = es[i] /\ i \in DOMAIN ns /\ i \in DOMAIN es /\ i \in Nat \ {0, 1}
      BY <1>1, <1>2, <2>1
    <3> QED  BY <1>5, <3>1 DEF LiesIn
  <2>2. CASE i \notin 2..Len(es)
    <3>1. i \notin DOMAIN ns /\ i \notin DOMAIN es  BY <1>1, <1>2, <1>5, <2>2
    <3> QED  BY <1>5, <3>1 DEF LiesIn
  <2> QED  BY <2>1, <2>2
<1> QED  BY <1>4, <1>5

LEMMA SkipMoves ==
  ASSUME OutgoingInv, PutInv, DeliveryInv, SkipEnvelope
  PROVE  DeliveryInv'
<1> DEFINE es == loop.taken
<1>1. TypeInv  BY DEF OutgoingInv
<1>2. /\ Sending /\ loop' = [loop EXCEPT !.taken = Tail(@)]
      /\ ~IsAllowedOutputChannel(es[1].channel)
      /\ UNCHANGED <<cell, boxes, raced, task, put, at, held, speeches, attempts>>
  BY DEF SkipEnvelope, cells
<1>3. es \in Seq(Envelope) /\ es # <<>> /\ loop \in LoopType  BY <1>2, SendingIs
<1>4. /\ loop'.taken = Tail(es) /\ loop'.messages = loop.messages
      /\ loop'.scheduled = loop.scheduled
  BY <1>2, <1>3 DEF LoopType
<1>5. \A x, i, k, t, c : Lies(2, x, i, k, t, c)' <=> i \in Nat \ {0} /\ Lies(2, x, i + 1, k, t, c)
  <2>1. \A i, k, t, c : LiesIn(Tail(es), i, k, t, c) <=> i \in Nat \ {0} /\ LiesIn(es, i + 1, k, t, c)
    BY <1>3, TailLies
  <2>2. \A x, i, k, t, c : Lies(2, x, i, k, t, c) <=> x = 0 /\ LiesIn(es, i, k, t, c)
    BY DEF Lies, Taken
  <2>3. \A x, i, k, t, c : Lies(2, x, i, k, t, c)' <=> x = 0 /\ LiesIn(loop'.taken, i, k, t, c)
    BY DEF Lies, Taken, LiesIn
  <2> QED  BY <1>4, <2>1, <2>2, <2>3
<1>6. \A r \in {1, 3, 4, 5, 6} : \A x, i, k, t, c : Lies(r, x, i, k, t, c)' <=> Lies(r, x, i, k, t, c)
  BY <1>2, <1>4, Unmoved
<1>7. \A r, x, i, k, t, c : Lies(r, x, i, k, t, c) => r \in 1..6 /\ i \in Nat /\ k \in Nat
  BY <1>1, LiesTypes
<1>8. \A r, x, i, k, t, c : Lies(r, x, i, k, t, c)' =>
        \/ r = 2 /\ i \in Nat \ {0} /\ Lies(2, x, i + 1, k, t, c)
        \/ r \in {1, 3, 4, 5, 6} /\ Lies(r, x, i, k, t, c)
  <2> SUFFICES ASSUME NEW r \in 1..6, NEW x, NEW i, NEW k, NEW t, NEW c, Lies(r, x, i, k, t, c)'
               PROVE  \/ r = 2 /\ i \in Nat \ {0} /\ Lies(2, x, i + 1, k, t, c)
                      \/ r \in {1, 3, 4, 5, 6} /\ Lies(r, x, i, k, t, c)
    BY Somewhere
  <2>1. r = 2 \/ r \in {1, 3, 4, 5, 6}  OBVIOUS
  <2> QED  BY <1>5, <1>6, <2>1
<1> HIDE DEF es
<1> USE DEF DeliveryInv
<1>9. SaidInv'
  <2> SUFFICES ASSUME NEW r, NEW x, NEW i, NEW k, NEW t, NEW c, Lies(r, x, i, k, t, c)'
               PROVE  /\ t.from \in Goroutines => /\ t \in ToSet(put) /\ c = task[t.from].channel
                                                  /\ r \in 4..6 => task[t.from].kind = "note"
                      /\ t.from = Minute => t.n <= speeches
                      /\ r = 1 => t.from # Commentator
    BY <1>2 DEF SaidInv
  <2>1. PICK j : Lies(r, x, j, k, t, c)  BY <1>8
  <2> QED  BY <2>1 DEF SaidInv
<1>10. GroupedInv'  BY <1>4 DEF GroupedInv
<1>11. OnceInv'
  <2> SUFFICES ASSUME NEW r, NEW x, NEW i, NEW k, NEW c, NEW r2, NEW x2, NEW i2, NEW k2, NEW c2, NEW t,
                      Lies(r, x, i, k, t, c)', Lies(r2, x2, i2, k2, t, c2)', t.from # Commentator
               PROVE  r = r2 /\ x = x2 /\ i = i2 /\ k = k2
    BY DEF OnceInv
  <2>1. CASE r = 2 /\ i \in Nat \ {0} /\ Lies(2, x, i + 1, k, t, c)
    <3>1. ~(r2 \in {1, 3, 4, 5, 6} /\ Lies(r2, x2, i2, k2, t, c2))  BY <2>1 DEF OnceInv
    <3>2. r2 = 2 /\ i2 \in Nat \ {0} /\ Lies(2, x2, i2 + 1, k2, t, c2)  BY <1>8, <3>1
    <3>3. x = x2 /\ i + 1 = i2 + 1 /\ k = k2  BY <2>1, <3>2 DEF OnceInv
    <3> QED  BY <2>1, <3>2, <3>3
  <2>2. CASE r \in {1, 3, 4, 5, 6} /\ Lies(r, x, i, k, t, c)
    <3>1. ~Lies(2, x2, i2 + 1, k2, t, c2)  BY <2>2 DEF OnceInv
    <3>2. Lies(r2, x2, i2, k2, t, c2)  BY <1>8, <3>1
    <3> QED  BY <2>2, <3>2 DEF OnceInv
  <2> QED  BY <1>8, <2>1, <2>2
<1>12. OrderInv'
  <2> SUFFICES ASSUME raced = {},
                      NEW r, NEW x, NEW i, NEW k, NEW s, NEW r2, NEW x2, NEW i2, NEW k2, NEW t, NEW c,
                      Lies(r, x, i, k, s, c)', Lies(r2, x2, i2, k2, t, c)',
                      s.from \in Goroutines, t.from \in Goroutines, CellOf(s.from)' = CellOf(t.from)',
                      Sooner(r, i, k, r2, i2, k2)
               PROVE  Position(put, s) < Position(put, t)
    BY <1>2 DEF OrderInv
  <2>0. CellOf(s.from) = CellOf(t.from)  BY <1>1, <1>2, WordsStay
  <2>1. PICK j : Lies(r, x, j, k, s, c) /\ (r = 2 => i \in Nat /\ j = i + 1) /\ (r # 2 => j = i)
    BY <1>8
  <2>2. PICK j2 : Lies(r2, x2, j2, k2, t, c) /\ (r2 = 2 => i2 \in Nat /\ j2 = i2 + 1) /\ (r2 # 2 => j2 = i2)
    BY <1>8
  <2>3. r \in 1..6 /\ r2 \in 1..6 /\ j \in Nat /\ j2 \in Nat /\ k \in Nat /\ k2 \in Nat
    BY <1>7, <2>1, <2>2
  <2>4. Sooner(r, j, k, r2, j2, k2)  BY <2>1, <2>2, <2>3 DEF Sooner
  <2> QED  BY <2>0, <2>1, <2>2, <2>4 DEF OrderInv
<1>13. FoundInv'
  <2> SUFFICES ASSUME NEW t \in ToSet(put), ~MayBeDropped(t)'
               PROVE  \E r, x, i, k, c : Lies(r, x, i, k, t, c)'
    BY <1>2 DEF FoundInv
  <2>1. ~MayBeDropped(t)  BY <1>1, <1>2, WordsStay
  <2>2. PICK r, x, i, k, c : Lies(r, x, i, k, t, c)  BY <2>1 DEF FoundInv
  <2>3. CASE r \in {1, 3, 4, 5, 6}  BY <1>6, <2>2, <2>3
  <2>4. CASE r = 2
    <3>1. x = 0 /\ LiesIn(es, i, k, t, c)  BY <2>2, <2>4 DEF Lies, Taken, es
    <3>2. i \in Nat \ {0} /\ c = es[i].channel  BY <1>3, <3>1 DEF LiesIn
    <3>3. t.from \in Goroutines /\ c = task[t.from].channel
      BY <1>1, <2>2, PutWords DEF SaidInv
    <3>4. i # 1  BY <1>2, <2>1, <3>2, <3>3 DEF MayBeDropped, es
    <3>5. i - 1 \in Nat \ {0} /\ i = (i - 1) + 1  BY <3>2, <3>4
    <3>6. Lies(2, x, i - 1, k, t, c)'  BY <1>5, <2>2, <2>4, <3>5
    <3> QED  BY <3>6
  <2>5. r \in 1..6  BY <1>7, <2>2
  <2> QED  BY <2>3, <2>4, <2>5
<1> QED  BY <1>9, <1>10, <1>11, <1>12, <1>13

LEMMA ResponseMoves ==
  ASSUME OutgoingInv, PutInv, DeliveryInv, HandleResponse
  PROVE  DeliveryInv'
<1> DEFINE es == loop.taken  n == Len(attempts)  u == es[1].responses[1]  d == es[1].channel
           last == Len(es[1].responses) = 1
           Old(i, k, j, l) == IF last THEN i \in Nat \ {0} /\ j = i + 1 /\ l = k
                              ELSE \/ i = 1 /\ j = 1 /\ k \in Nat \ {0} /\ l = k + 1
                                   \/ i \in Nat \ {0, 1} /\ j = i /\ l = k
<1>1. TypeInv  BY DEF OutgoingInv
<1>2. /\ Sending /\ loop' = [loop EXCEPT !.taken = NextEnvelope(@)]
      /\ attempts' = IF u.kind # "blank" THEN Append(attempts, [text |-> u, channel |-> d])
                     ELSE attempts
      /\ UNCHANGED <<cell, boxes, raced, task, put, at, held, speeches>>
  BY DEF HandleResponse, cells, IsValidOutgoing
<1>3. es \in Seq(Envelope) /\ es # <<>> /\ loop \in LoopType  BY <1>2, SendingIs
<1>4. /\ loop'.taken = NextEnvelope(es) /\ loop'.messages = loop.messages
      /\ loop'.scheduled = loop.scheduled
  BY <1>2, <1>3 DEF LoopType
<1>5. /\ es[1].responses \in Seq(Text) /\ Len(es[1].responses) \in Nat \ {0}
      /\ DOMAIN es[1].responses = 1..Len(es[1].responses)
      /\ 1 \in DOMAIN es
      /\ last => NextEnvelope(es) = Tail(es)
  BY <1>3, NextEnvelopeIs
<1>6. n \in Nat /\ DOMAIN attempts = 1..n
  <2> DEFINE A == [text : Text, channel : Channels]
  <2>1. attempts \in Seq(A)  BY <1>1 DEF TypeInv
  <2> HIDE DEF A
  <2> QED  BY <2>1
<1>7. Lies(2, 0, 1, 1, u, d)
  <2>1. 1 \in DOMAIN es[1].responses  BY <1>5
  <2> QED  BY <1>5, <2>1 DEF Lies, Taken, LiesIn
<1>8. \A r \in {3, 4, 5, 6} : \A x, i, k, t, c : Lies(r, x, i, k, t, c)' <=> Lies(r, x, i, k, t, c)
  BY <1>2, <1>4, Unmoved
<1>9. \A x, i, k, t, c : Lies(2, x, i, k, t, c)' <=> \E j, l : Old(i, k, j, l) /\ Lies(2, x, j, l, t, c)
  <2>1. \A x, i, k, t, c : Lies(2, x, i, k, t, c) <=> x = 0 /\ LiesIn(es, i, k, t, c)
    BY DEF Lies, Taken
  <2>2. \A x, i, k, t, c : Lies(2, x, i, k, t, c)' <=> x = 0 /\ LiesIn(NextEnvelope(es), i, k, t, c)
    <3>1. \A x, i, k, t, c : Lies(2, x, i, k, t, c)' <=> x = 0 /\ LiesIn(loop'.taken, i, k, t, c)
      BY DEF Lies, Taken, LiesIn
    <3> QED  BY <1>4, <3>1
  <2>3. CASE last
    <3>1. \A i, k, t, c : LiesIn(NextEnvelope(es), i, k, t, c)
                           <=> i \in Nat \ {0} /\ LiesIn(es, i + 1, k, t, c)
      BY <1>3, <1>5, <2>3, TailLies
    <3> HIDE DEF es
    <3> QED  BY <2>1, <2>2, <2>3, <3>1
  <2>4. CASE ~last
    <3>1. \A i, k, t, c : LiesIn(NextEnvelope(es), i, k, t, c) <=>
            \/ i = 1 /\ k \in Nat \ {0} /\ LiesIn(es, 1, k + 1, t, c)
            \/ i \in Nat \ {0, 1} /\ LiesIn(es, i, k, t, c)
      BY <1>3, <2>4, TrimLies
    <3> SUFFICES ASSUME NEW x, NEW i, NEW k, NEW t, NEW c
                 PROVE  Lies(2, x, i, k, t, c)' <=> \E j, l : Old(i, k, j, l) /\ Lies(2, x, j, l, t, c)
      OBVIOUS
    <3> HIDE DEF es, last
    <3>2. CASE i = 1
      <4>1. Lies(2, x, i, k, t, c)' <=> x = 0 /\ k \in Nat \ {0} /\ LiesIn(es, 1, k + 1, t, c)
        BY <2>2, <3>1, <3>2
      <4>2. \A j, l : Old(i, k, j, l) <=> j = 1 /\ k \in Nat \ {0} /\ l = k + 1
        BY <2>4, <3>2
      <4> QED  BY <2>1, <4>1, <4>2
    <3>3. CASE i # 1
      <4>1. Lies(2, x, i, k, t, c)' <=> x = 0 /\ i \in Nat \ {0, 1} /\ LiesIn(es, i, k, t, c)
        BY <2>2, <3>1, <3>3
      <4>2. \A j, l : Old(i, k, j, l) <=> i \in Nat \ {0, 1} /\ j = i /\ l = k
        BY <2>4, <3>3
      <4> HIDE DEF Old
      <4> QED  BY <2>1, <4>1, <4>2
    <3> QED  BY <3>2, <3>3
  <2> QED  BY <2>3, <2>4
<1>10. \A x, i, k, t, c : Lies(1, x, i, k, t, c)' <=>
         \/ Lies(1, x, i, k, t, c)
         \/ u.kind # "blank" /\ x = 0 /\ i = n + 1 /\ k = 0 /\ t = u /\ c = d
  <2>1. \A x, i, k, t, c : Lies(1, x, i, k, t, c) <=>
          x = 0 /\ k = 0 /\ i \in 1..n /\ t = attempts[i].text /\ c = attempts[i].channel
    BY <1>6 DEF Lies, Sent, NotedIn
  <2>2. \A x, i, k, t, c : Lies(1, x, i, k, t, c)' <=>
          x = 0 /\ k = 0 /\ i \in DOMAIN attempts' /\ t = attempts'[i].text /\ c = attempts'[i].channel
    BY DEF Lies, Sent, NotedIn
  <2>3. CASE u.kind = "blank"
    <3>1. attempts' = attempts  BY <1>2, <2>3
    <3> QED  BY <1>6, <2>1, <2>2, <2>3, <3>1
  <2>4. CASE u.kind # "blank"
    <3> DEFINE a == [text |-> u, channel |-> d]
    <3>1. a.text = u /\ a.channel = d /\ attempts' = Append(attempts, a)  BY <1>2, <2>4
    <3> HIDE DEF a, u, d, es
    <3>2. /\ DOMAIN attempts' = 1..n + 1 /\ attempts'[n + 1] = a
          /\ \A i \in 1..n : attempts'[i] = attempts[i]
      <4> DEFINE A == [text : Text, channel : Channels]
      <4>1. attempts \in Seq(A)  BY <1>1 DEF TypeInv
      <4> HIDE DEF A
      <4> QED  BY <3>1, <4>1
    <3> SUFFICES ASSUME NEW x, NEW i, NEW k, NEW t, NEW c
                 PROVE  Lies(1, x, i, k, t, c)' <=>
                          \/ Lies(1, x, i, k, t, c)
                          \/ u.kind # "blank" /\ x = 0 /\ i = n + 1 /\ k = 0 /\ t = u /\ c = d
      OBVIOUS
    <3>3. CASE i = n + 1
      <4>1. ~Lies(1, x, i, k, t, c)  BY <1>6, <2>1, <3>3
      <4>2. i \in DOMAIN attempts' /\ attempts'[i] = a  BY <1>6, <3>2, <3>3
      <4> QED  BY <2>2, <2>4, <3>1, <3>3, <4>1, <4>2
    <3>4. CASE i # n + 1
      <4>1. i \in DOMAIN attempts' <=> i \in 1..n  BY <1>6, <3>2, <3>4
      <4> QED  BY <2>1, <2>2, <3>2, <3>4, <4>1
    <3> QED  BY <3>3, <3>4
  <2> QED  BY <2>3, <2>4
<1>11. \A r, x, i, k, t, c : Lies(r, x, i, k, t, c) =>
         r \in 1..6 /\ i \in Nat /\ k \in Nat /\ (r = 1 => i \in 1..n)
  <2>1. \A x, i, k, t, c : Lies(1, x, i, k, t, c) => i \in 1..n
    BY <1>6 DEF Lies, Sent, NotedIn
  <2> QED  BY <1>1, <2>1, LiesTypes
<1> HIDE DEF es, u, d, last, n
<1>12. /\ \A i, k, j, l : Old(i, k, j, l) => i \in Nat \ {0} /\ ~(j = 1 /\ l = 1)
       /\ \A i, k, i2, k2, j, l : Old(i, k, j, l) /\ Old(i2, k2, j, l) => i = i2 /\ k = k2
       /\ \A i, k, i2, k2, j, l, j2, l2 :
            Old(i, k, j, l) /\ Old(i2, k2, j2, l2) /\ l \in Nat /\ l2 \in Nat
              /\ Sooner(2, i, k, 2, i2, k2) => Sooner(2, j, l, 2, j2, l2)
  BY DEF Sooner
<1>13. \A r, x, i, k, t, c : Lies(r, x, i, k, t, c)' =>
         \E r0, j, l :
           /\ r0 \in 1..6 /\ Lies(r0, x, j, l, t, c) /\ j \in Nat /\ l \in Nat
           /\ r \in 3..6 => r0 = r /\ j = i /\ l = k
           /\ r = 2 => r0 = 2 /\ Old(i, k, j, l)
           /\ r = 1 => \/ r0 = 1 /\ j = i /\ l = k /\ i \in 1..n
                       \/ r0 = 2 /\ j = 1 /\ l = 1 /\ i = n + 1 /\ k = 0 /\ x = 0
  <2> SUFFICES ASSUME NEW r \in 1..6, NEW x, NEW i, NEW k, NEW t, NEW c, Lies(r, x, i, k, t, c)'
               PROVE  \E r0, j, l :
                        /\ r0 \in 1..6 /\ Lies(r0, x, j, l, t, c) /\ j \in Nat /\ l \in Nat
                        /\ r \in 3..6 => r0 = r /\ j = i /\ l = k
                        /\ r = 2 => r0 = 2 /\ Old(i, k, j, l)
                        /\ r = 1 => \/ r0 = 1 /\ j = i /\ l = k /\ i \in 1..n
                                    \/ r0 = 2 /\ j = 1 /\ l = 1 /\ i = n + 1 /\ k = 0 /\ x = 0
    BY Somewhere
  <2> HIDE DEF Old
  <2>1. CASE r = 1
    <3>1. CASE Lies(1, x, i, k, t, c)  BY <1>11, <2>1, <3>1
    <3>2. CASE x = 0 /\ i = n + 1 /\ k = 0 /\ t = u /\ c = d
      <4>1. Lies(2, x, 1, 1, t, c)  BY <1>7, <3>2
      <4> QED  BY <2>1, <3>2, <4>1
    <3> QED  BY <1>10, <2>1, <3>1, <3>2
  <2>2. CASE r = 2
    <3>1. PICK j, l : Old(i, k, j, l) /\ Lies(2, x, j, l, t, c)  BY <1>9, <2>2
    <3>2. j \in Nat /\ l \in Nat  BY <1>11, <3>1
    <3> QED  BY <2>2, <3>1, <3>2
  <2>3. CASE r \in {3, 4, 5, 6}
    <3>1. Lies(r, x, i, k, t, c)  BY <1>8, <2>3
    <3>2. i \in Nat /\ k \in Nat  BY <1>11, <3>1
    <3> QED  BY <2>3, <3>1, <3>2
  <2> QED  BY <2>1, <2>2, <2>3
<1> HIDE DEF Old
<1> USE DEF DeliveryInv
<1>14. SaidInv'
  <2> SUFFICES ASSUME NEW r, NEW x, NEW i, NEW k, NEW t, NEW c, Lies(r, x, i, k, t, c)'
               PROVE  /\ t.from \in Goroutines => /\ t \in ToSet(put) /\ c = task[t.from].channel
                                                  /\ r \in 4..6 => task[t.from].kind = "note"
                      /\ t.from = Minute => t.n <= speeches
                      /\ r = 1 => t.from # Commentator
    BY <1>2 DEF SaidInv
  <2>1. PICK r0, j, l : /\ Lies(r0, x, j, l, t, c) /\ r0 \in 1..6
                        /\ r \in 3..6 => r0 = r
                        /\ r = 1 => r0 = 1 \/ r0 = 2
    BY <1>13
  <2>2. r0 = 2 => t.from # Commentator  BY <1>1, <2>1, LiesTypes
  <2>3. r \in 4..6 => r0 \in 4..6  BY <2>1
  <2> QED  BY <2>1, <2>2, <2>3 DEF SaidInv
<1>15. GroupedInv'  BY <1>4 DEF GroupedInv
<1>16. OnceInv'
  <2> SUFFICES ASSUME NEW r, NEW x, NEW i, NEW k, NEW c, NEW r2, NEW x2, NEW i2, NEW k2, NEW c2, NEW t,
                      Lies(r, x, i, k, t, c)', Lies(r2, x2, i2, k2, t, c2)', t.from # Commentator
               PROVE  r = r2 /\ x = x2 /\ i = i2 /\ k = k2
    BY DEF OnceInv
  <2>1. PICK r0, j, l :
           /\ r0 \in 1..6 /\ Lies(r0, x, j, l, t, c)
           /\ r \in 3..6 => r0 = r /\ j = i /\ l = k
           /\ r = 2 => r0 = 2 /\ Old(i, k, j, l)
           /\ r = 1 => \/ r0 = 1 /\ j = i /\ l = k /\ i \in 1..n
                       \/ r0 = 2 /\ j = 1 /\ l = 1 /\ i = n + 1 /\ k = 0 /\ x = 0
    BY <1>13
  <2>2. PICK j2, l2 :
           /\ Lies(r0, x, j, l, t, c2)
           /\ j2 = j /\ l2 = l /\ x2 = x
           /\ r2 \in 3..6 => r0 = r2 /\ j = i2 /\ l = k2
           /\ r2 = 2 => r0 = 2 /\ Old(i2, k2, j, l)
           /\ r2 = 1 => \/ r0 = 1 /\ j = i2 /\ l = k2 /\ i2 \in 1..n
                        \/ r0 = 2 /\ j = 1 /\ l = 1 /\ i2 = n + 1 /\ k2 = 0 /\ x2 = 0
    <3>1. PICK r02, j2, l2 :
             /\ r02 \in 1..6 /\ Lies(r02, x2, j2, l2, t, c2)
             /\ r2 \in 3..6 => r02 = r2 /\ j2 = i2 /\ l2 = k2
             /\ r2 = 2 => r02 = 2 /\ Old(i2, k2, j2, l2)
             /\ r2 = 1 => \/ r02 = 1 /\ j2 = i2 /\ l2 = k2 /\ i2 \in 1..n
                          \/ r02 = 2 /\ j2 = 1 /\ l2 = 1 /\ i2 = n + 1 /\ k2 = 0 /\ x2 = 0
      BY <1>13
    <3>2. r0 = r02 /\ x = x2 /\ j = j2 /\ l = l2  BY <2>1, <3>1 DEF OnceInv
    <3> QED  BY <3>1, <3>2
  <2>3. r \in 1..6 /\ r2 \in 1..6  BY Somewhere
  <2> QED  BY <1>12, <2>1, <2>2, <2>3
<1>17. OrderInv'
  <2> SUFFICES ASSUME raced = {},
                      NEW r, NEW x, NEW i, NEW k, NEW s, NEW r2, NEW x2, NEW i2, NEW k2, NEW t, NEW c,
                      Lies(r, x, i, k, s, c)', Lies(r2, x2, i2, k2, t, c)',
                      s.from \in Goroutines, t.from \in Goroutines, CellOf(s.from)' = CellOf(t.from)',
                      Sooner(r, i, k, r2, i2, k2)
               PROVE  Position(put, s) < Position(put, t)
    BY <1>2 DEF OrderInv
  <2>0. CellOf(s.from) = CellOf(t.from)  BY <1>1, <1>2, WordsStay
  <2>1. PICK r0, j, l :
           /\ r0 \in 1..6 /\ Lies(r0, x, j, l, s, c) /\ j \in Nat /\ l \in Nat
           /\ r \in 3..6 => r0 = r /\ j = i /\ l = k
           /\ r = 2 => r0 = 2 /\ Old(i, k, j, l)
           /\ r = 1 => \/ r0 = 1 /\ j = i /\ l = k /\ i \in 1..n
                       \/ r0 = 2 /\ j = 1 /\ l = 1 /\ i = n + 1 /\ k = 0 /\ x = 0
    BY <1>13
  <2>2. PICK r02, j2, l2 :
           /\ r02 \in 1..6 /\ Lies(r02, x2, j2, l2, t, c) /\ j2 \in Nat /\ l2 \in Nat
           /\ r2 \in 3..6 => r02 = r2 /\ j2 = i2 /\ l2 = k2
           /\ r2 = 2 => r02 = 2 /\ Old(i2, k2, j2, l2)
           /\ r2 = 1 => \/ r02 = 1 /\ j2 = i2 /\ l2 = k2 /\ i2 \in 1..n
                        \/ r02 = 2 /\ j2 = 1 /\ l2 = 1 /\ i2 = n + 1 /\ k2 = 0 /\ x2 = 0
    BY <1>13
  <2>3. r \in 1..6 /\ r2 \in 1..6  BY Somewhere
  <2>4. CASE r = 1 /\ r2 = 1
    <3>1. CASE i2 = n + 1
      <4>1. r0 = 1 \/ i = n + 1  BY <2>1, <2>4
      <4>2. (i # n + 1 /\ r02 = 2) \/ i = n + 1  BY <1>6, <2>2, <2>4, <3>1
      <4>3. ~(i = n + 1)
        <5>1. i = n + 1 => k = 0  BY <1>6, <2>1, <2>4
        <5>2. k2 = 0  BY <1>6, <2>2, <2>4, <3>1
        <5> QED  BY <1>6, <2>4, <3>1, <5>1, <5>2 DEF Sooner
      <4>4. r0 = 1 /\ r02 = 2  BY <4>1, <4>2, <4>3
      <4>5. Sooner(r0, j, l, r02, j2, l2)  BY <4>4 DEF Sooner
      <4> QED  BY <2>0, <2>1, <2>2, <4>5 DEF OrderInv
    <3>2. CASE i2 # n + 1
      <4>1. r02 = 1 /\ j2 = i2 /\ l2 = k2 /\ i2 \in 1..n  BY <2>2, <2>4, <3>2
      <4>2. i # n + 1  BY <1>6, <2>4, <4>1 DEF Sooner
      <4>3. r0 = 1 /\ j = i /\ l = k  BY <2>1, <2>4, <4>2
      <4>4. Sooner(r0, j, l, r02, j2, l2)  BY <2>4, <4>1, <4>3
      <4> QED  BY <2>0, <2>1, <2>2, <4>4 DEF OrderInv
    <3> QED  BY <3>1, <3>2
  <2>5. CASE r = 1 /\ r2 # 1
    <3>1. CASE r0 = 1
      <4>1. r02 \in 2..6  BY <2>2, <2>3, <2>5
      <4>2. Sooner(r0, j, l, r02, j2, l2)  BY <3>1, <4>1 DEF Sooner
      <4> QED  BY <2>0, <2>1, <2>2, <4>2 DEF OrderInv
    <3>2. CASE r0 = 2 /\ j = 1 /\ l = 1
      <4>1. CASE r2 = 2
        <5>1. Lies(2, x2, j2, l2, t, c) /\ r02 = 2 /\ Old(i2, k2, j2, l2)  BY <2>2, <4>1
        <5>2. ~(j2 = 1 /\ l2 = 1)  BY <1>12, <5>1
        <5>3. j2 # 0 /\ l2 # 0
          <6>1. \A x0, i0, k0, t0, c0 : Lies(2, x0, i0, k0, t0, c0) => i0 # 0 /\ k0 # 0
            <7>1. ASSUME NEW i0, NEW k0, NEW t0, NEW c0, LiesIn(es, i0, k0, t0, c0)
                  PROVE  i0 # 0 /\ k0 # 0
              <8>1. i0 \in DOMAIN es /\ es[i0] \in Envelope /\ k0 \in DOMAIN es[i0].responses
                BY <1>3, <7>1 DEF LiesIn
              <8>2. es[i0].responses \in Seq(Text)  BY <8>1 DEF Envelope
              <8> QED  BY <1>3, <8>1, <8>2
            <7> QED  BY <7>1 DEF Lies, Taken, es
          <6> QED  BY <5>1, <6>1
        <5>4. Sooner(2, 1, 1, 2, j2, l2)  BY <2>2, <5>2, <5>3 DEF Sooner
        <5> QED  BY <2>0, <2>1, <2>2, <3>2, <5>1, <5>4 DEF OrderInv
      <4>2. CASE r2 # 2
        <5>1. r02 \in 3..6  BY <2>2, <2>3, <2>5, <4>2
        <5>2. Sooner(r0, j, l, r02, j2, l2)  BY <3>2, <5>1 DEF Sooner
        <5> QED  BY <2>0, <2>1, <2>2, <5>2 DEF OrderInv
      <4> QED  BY <4>1, <4>2
    <3> QED  BY <2>1, <2>5, <3>1, <3>2
  <2>6. CASE r # 1
    <3>1. r2 # 1 /\ (r2 = r \/ r < r2)  BY <2>3, <2>6 DEF Sooner
    <3>2. r0 = r /\ r02 = r2  BY <2>1, <2>2, <2>3, <2>6, <3>1
    <3>3. CASE r = r2 /\ r = 2
      <4>1. Sooner(2, i, k, 2, i2, k2)  BY <3>3
      <4>2. Sooner(2, j, l, 2, j2, l2)  BY <1>12, <2>1, <2>2, <3>3, <4>1
      <4> QED  BY <2>0, <2>1, <2>2, <3>2, <3>3, <4>2 DEF OrderInv
    <3>4. CASE r = r2 /\ r # 2
      <4>1. j = i /\ l = k /\ j2 = i2 /\ l2 = k2  BY <2>1, <2>2, <2>3, <2>6, <3>4
      <4>2. Sooner(r0, j, l, r02, j2, l2)  BY <3>2, <4>1
      <4> QED  BY <2>0, <2>1, <2>2, <4>2 DEF OrderInv
    <3>5. CASE r < r2
      <4>1. Sooner(r0, j, l, r02, j2, l2)  BY <3>2, <3>5 DEF Sooner
      <4> QED  BY <2>0, <2>1, <2>2, <4>1 DEF OrderInv
    <3> QED  BY <3>1, <3>3, <3>4, <3>5
  <2> QED  BY <2>3, <2>4, <2>5, <2>6
<1>18. FoundInv'
  <2> SUFFICES ASSUME NEW t \in ToSet(put), ~MayBeDropped(t)'
               PROVE  \E r, x, i, k, c : Lies(r, x, i, k, t, c)'
    BY <1>2 DEF FoundInv
  <2>1. ~MayBeDropped(t)  BY <1>1, <1>2, WordsStay
  <2>2. PICK r, x, i, k, c : Lies(r, x, i, k, t, c)  BY <2>1 DEF FoundInv
  <2>3. CASE r \in {3, 4, 5, 6}  BY <1>8, <2>2, <2>3
  <2>4. CASE r = 1  BY <1>10, <2>2, <2>4
  <2>5. CASE r = 2
    <3>1. x = 0 /\ LiesIn(es, i, k, t, c)  BY <2>2, <2>5 DEF Lies, Taken, es
    <3>2. i \in Nat \ {0} /\ k \in Nat \ {0} /\ (i = 1 /\ k = 1 => t = u /\ c = d)
          /\ (i = 1 /\ last => k = 1)
      <4>1. i \in DOMAIN es /\ es[i] \in Envelope /\ k \in DOMAIN es[i].responses
            /\ t = es[i].responses[k] /\ c = es[i].channel
        BY <1>3, <3>1 DEF LiesIn
      <4>2. es[i].responses \in Seq(Text)  BY <4>1 DEF Envelope
      <4>3. i \in Nat \ {0} /\ k \in Nat \ {0}  BY <1>3, <4>1, <4>2
      <4>4. i = 1 /\ last => k = 1  BY <1>5, <4>1 DEF last
      <4> QED  BY <4>1, <4>3, <4>4 DEF u, d
    <3>3. CASE i = 1 /\ k = 1
      <4>0. t = u /\ c = d  BY <3>2, <3>3
      <4>1. u.kind # "blank" /\ t = u /\ c = d
        <5>1. t.kind # "blank"  BY <2>1 DEF MayBeDropped
        <5> QED  BY <4>0, <5>1
      <4>2. PICK i0 : i0 = n + 1  OBVIOUS
      <4>3. Lies(1, 0, i0, 0, t, c)'  BY <1>10, <4>1, <4>2
      <4> QED  BY <4>3
    <3>4. CASE ~(i = 1 /\ k = 1)
      <4>1. \E i0, k0 : Old(i0, k0, i, k)
        <5>1. CASE last
          <6>1. i # 1 /\ i - 1 \in Nat \ {0} /\ i = (i - 1) + 1  BY <3>2, <3>4, <5>1
          <6>2. Old(i - 1, k, i, k)  BY <5>1, <6>1 DEF Old
          <6> QED  BY <6>2
        <5>2. CASE ~last /\ i = 1
          <6>1. k - 1 \in Nat \ {0} /\ k = (k - 1) + 1  BY <3>2, <3>4, <5>2
          <6>2. Old(1, k - 1, i, k)  BY <5>2, <6>1 DEF Old
          <6> QED  BY <6>2
        <5>3. CASE ~last /\ i # 1
          <6>1. Old(i, k, i, k)  BY <3>2, <5>3 DEF Old
          <6> QED  BY <6>1
        <5> QED  BY <5>1, <5>2, <5>3
      <4>2. PICK i0, k0 : Old(i0, k0, i, k)  BY <4>1
      <4>3. Lies(2, x, i0, k0, t, c)'  BY <1>9, <2>2, <2>5, <4>2
      <4> QED  BY <4>3
    <3> QED  BY <3>3, <3>4
  <2>6. r \in 1..6  BY <1>11, <2>2
  <2> QED  BY <2>3, <2>4, <2>5, <2>6
<1> QED  BY <1>14, <1>15, <1>16, <1>17, <1>18

\* A text comes to a place where it was not.
Arrived(a, x, i, k, t, c) == Lies(a, x, i, k, t, c)' /\ ~Lies(a, x, i, k, t, c)

(***************************************************************************)
(* The loop's other steps take texts from one kind of place to the next    *)
(* one: from a queue to the messages collected, to the envelopes, to a     *)
(* mailbox and into its hands.                                             *)
(***************************************************************************)
LEMMA DownMoves ==
  ASSUME TypeInv, DeliveryInv, GroupedInv', NEW a \in 2..5,
         UNCHANGED <<task, put, speeches, raced>>,
         \A r, x, i, k, t, c : Lies(r, x, i, k, t, c)' =>
           \/ Lies(r, x, i, k, t, c)
           \/ r = a /\ \E y, j, l : Lies(a + 1, y, j, l, t, c) /\ \A d : ~Lies(a + 1, y, j, l, t, d)',
         \A x, i, k, c, x2, i2, k2, c2, t :
           Arrived(a, x, i, k, t, c) /\ Arrived(a, x2, i2, k2, t, c2) /\ t.from # Commentator
             => x = x2 /\ i = i2 /\ k = k2,
         raced = {} =>
           \A x, i, k, s, x2, i2, k2, t, c : Arrived(a, x, i, k, s, c) =>
             /\ Arrived(a, x2, i2, k2, t, c) /\ Sooner(a, i, k, a, i2, k2) =>
                  \E y, j, l, y2, j2, l2 : /\ Lies(a + 1, y, j, l, s, c) /\ Lies(a + 1, y2, j2, l2, t, c)
                                           /\ Sooner(a + 1, j, l, a + 1, j2, l2)
             /\ Lies(a, x2, i2, k2, t, c) => ~Sooner(a, i, k, a, i2, k2)
             /\ ~Lies(a + 1, x2, i2, k2, t, c)',
         \A r, x, i, k, t, c : Lies(r, x, i, k, t, c) /\ t \in ToSet(put) /\ ~MayBeDropped(t) =>
           \E r2, x2, i2, k2, c2 : Lies(r2, x2, i2, k2, t, c2)'
  PROVE  DeliveryInv'
<1> USE DEF DeliveryInv
<1>1. ASSUME NEW r, NEW x, NEW i, NEW k, NEW t, NEW c, Lies(r, x, i, k, t, c)', ~Lies(r, x, i, k, t, c)
      PROVE  /\ r = a /\ Arrived(a, x, i, k, t, c)
             /\ \E y, j, l : Lies(a + 1, y, j, l, t, c) /\ \A d : ~Lies(a + 1, y, j, l, t, d)'
  BY <1>1 DEF Arrived
<1>2. SaidInv'
  <2> SUFFICES ASSUME NEW r, NEW x, NEW i, NEW k, NEW t, NEW c, Lies(r, x, i, k, t, c)'
               PROVE  /\ t.from \in Goroutines => /\ t \in ToSet(put) /\ c = task[t.from].channel
                                                  /\ r \in 4..6 => task[t.from].kind = "note"
                      /\ t.from = Minute => t.n <= speeches
                      /\ r = 1 => t.from # Commentator
    BY DEF SaidInv
  <2>1. CASE Lies(r, x, i, k, t, c)  BY <2>1 DEF SaidInv
  <2>2. CASE ~Lies(r, x, i, k, t, c)
    <3>1. r = a  BY <1>1, <2>2
    <3>2. PICK y, j, l : Lies(a + 1, y, j, l, t, c)  BY <1>1, <2>2
    <3>3. r # 1 /\ (r \in 4..6 => a + 1 \in 4..6)  BY <3>1
    <3> QED  BY <3>2, <3>3 DEF SaidInv
  <2> QED  BY <2>1, <2>2
<1>3. ASSUME NEW x, NEW i, NEW k, NEW c, NEW r2, NEW x2, NEW i2, NEW k2, NEW c2, NEW t,
             Arrived(a, x, i, k, t, c), Lies(r2, x2, i2, k2, t, c2)', t.from # Commentator
      PROVE  a = r2 /\ x = x2 /\ i = i2 /\ k = k2
  <2>1. PICK y, j, l : Lies(a + 1, y, j, l, t, c) /\ \A d : ~Lies(a + 1, y, j, l, t, d)'
    BY <1>1, <1>3 DEF Arrived
  <2>2. CASE Lies(r2, x2, i2, k2, t, c2)
    <3>1. r2 = a + 1 /\ x2 = y /\ i2 = j /\ k2 = l  BY <1>3, <2>1, <2>2 DEF OnceInv
    <3> QED  BY <1>3, <2>1, <3>1
  <2>3. CASE ~Lies(r2, x2, i2, k2, t, c2)
    <3>1. r2 = a /\ Arrived(a, x2, i2, k2, t, c2)  BY <1>1, <1>3, <2>3
    <3> QED  BY <1>3, <3>1
  <2> QED  BY <2>2, <2>3
<1>4. OnceInv'
  <2> SUFFICES ASSUME NEW r, NEW x, NEW i, NEW k, NEW c, NEW r2, NEW x2, NEW i2, NEW k2, NEW c2, NEW t,
                      Lies(r, x, i, k, t, c)', Lies(r2, x2, i2, k2, t, c2)', t.from # Commentator
               PROVE  r = r2 /\ x = x2 /\ i = i2 /\ k = k2
    BY DEF OnceInv
  <2>1. CASE Lies(r, x, i, k, t, c) /\ Lies(r2, x2, i2, k2, t, c2)  BY <2>1 DEF OnceInv
  <2>2. CASE ~Lies(r, x, i, k, t, c)
    <3>1. r = a /\ Arrived(a, x, i, k, t, c)  BY <1>1, <2>2
    <3> QED  BY <1>3, <3>1
  <2>3. CASE ~Lies(r2, x2, i2, k2, t, c2)
    <3>1. r2 = a /\ Arrived(a, x2, i2, k2, t, c2)  BY <1>1, <2>3
    <3>2. a = r /\ x2 = x /\ i2 = i /\ k2 = k  BY <1>3, <3>1
    <3> QED  BY <3>1, <3>2
  <2> QED  BY <2>1, <2>2, <2>3
<1>5. OrderInv'
  <2> SUFFICES ASSUME raced = {},
                      NEW r, NEW x, NEW i, NEW k, NEW s, NEW r2, NEW x2, NEW i2, NEW k2, NEW t, NEW c,
                      Lies(r, x, i, k, s, c)', Lies(r2, x2, i2, k2, t, c)',
                      s.from \in Goroutines, t.from \in Goroutines, CellOf(s.from)' = CellOf(t.from)',
                      Sooner(r, i, k, r2, i2, k2)
               PROVE  Position(put, s) < Position(put, t)
    BY DEF OrderInv
  <2>0. CellOf(s.from) = CellOf(t.from)  BY WordsStay
  <2>1. r \in 1..6 /\ r2 \in 1..6  BY Somewhere
  <2>2. CASE Lies(r, x, i, k, s, c) /\ Lies(r2, x2, i2, k2, t, c)
    BY <2>0, <2>2 DEF OrderInv
  <2>3. CASE Lies(r, x, i, k, s, c) /\ ~Lies(r2, x2, i2, k2, t, c)
    <3>1. r2 = a  BY <1>1, <2>3
    <3>2. PICK y, j, l : Lies(a + 1, y, j, l, t, c)  BY <1>1, <2>3
    <3>3. Sooner(r, i, k, a + 1, j, l)  BY <2>1, <3>1 DEF Sooner
    <3> QED  BY <2>0, <2>3, <3>2, <3>3 DEF OrderInv
  <2>4. CASE ~Lies(r, x, i, k, s, c) /\ Lies(r2, x2, i2, k2, t, c)
    <3>1. r = a /\ Arrived(a, x, i, k, s, c)  BY <1>1, <2>4
    <3>2. PICK y, j, l : Lies(a + 1, y, j, l, s, c)  BY <1>1, <2>4
    <3>3. r2 # a  BY <2>4, <3>1
    <3>4. r2 # a + 1  BY <3>1
    <3>5. r2 \in 1..6 /\ a + 1 < r2  BY <2>1, <3>1, <3>3, <3>4 DEF Sooner
    <3>6. Sooner(a + 1, j, l, r2, i2, k2)  BY <3>5 DEF Sooner
    <3> QED  BY <2>0, <2>4, <3>2, <3>6 DEF OrderInv
  <2>5. CASE ~Lies(r, x, i, k, s, c) /\ ~Lies(r2, x2, i2, k2, t, c)
    <3>1. r = a /\ r2 = a /\ Arrived(a, x, i, k, s, c) /\ Arrived(a, x2, i2, k2, t, c)
      BY <1>1, <2>5
    <3>2. PICK y, j, l, y2, j2, l2 : /\ Lies(a + 1, y, j, l, s, c) /\ Lies(a + 1, y2, j2, l2, t, c)
                                     /\ Sooner(a + 1, j, l, a + 1, j2, l2)
      BY <3>1
    <3> QED  BY <2>0, <3>2 DEF OrderInv
  <2> QED  BY <2>2, <2>3, <2>4, <2>5
<1>6. FoundInv'
  <2> SUFFICES ASSUME NEW t \in ToSet(put), ~MayBeDropped(t)'
               PROVE  \E r, x, i, k, c : Lies(r, x, i, k, t, c)'
    BY DEF FoundInv
  <2>1. ~MayBeDropped(t)  BY WordsStay
  <2>2. PICK r, x, i, k, c : Lies(r, x, i, k, t, c)  BY <2>1 DEF FoundInv
  <2> QED  BY <2>1, <2>2
<1> QED  BY <1>2, <1>4, <1>5, <1>6

\* A place in a sequence that grew is one of before, or one in what came.
LEMMA NotedConcat ==
  ASSUME NEW ms \in Seq(Note), NEW us \in Seq(Note)
  PROVE  /\ \A i, k, t, c : NotedIn(ms \o us, i, k, t, c) <=>
              \/ NotedIn(ms, i, k, t, c)
              \/ \E j \in DOMAIN us : i = Len(ms) + j /\ NotedIn(us, j, k, t, c)
         /\ \A i, k, t, c : NotedIn(ms, i, k, t, c) => i \in 1..Len(ms)
<1> DEFINE n == Len(ms)  l == Len(us)  s == ms \o us
<1>1. /\ n \in Nat /\ l \in Nat /\ DOMAIN ms = 1..n /\ DOMAIN us = 1..l /\ DOMAIN s = 1..n + l
      /\ (\A i \in 1..n : s[i] = ms[i]) /\ \A j \in 1..l : s[n + j] = us[j]
  OBVIOUS
<1> HIDE DEF n, l, s
<1> SUFFICES ASSUME NEW i, NEW k, NEW t, NEW c
             PROVE  /\ NotedIn(s, i, k, t, c) <=>
                         \/ NotedIn(ms, i, k, t, c)
                         \/ \E j \in DOMAIN us : i = n + j /\ NotedIn(us, j, k, t, c)
                    /\ NotedIn(ms, i, k, t, c) => i \in 1..n
  BY DEF n, s
<1>2. CASE i \in 1..n
  <2>1. \A j \in 1..l : i # n + j  BY <1>1, <1>2
  <2> QED  BY <1>1, <1>2, <2>1 DEF NotedIn
<1>3. CASE i \in n + 1..n + l
  <2>1. PICK j \in 1..l : i = n + j
    <3>1. i - n \in 1..l /\ i = n + (i - n)  BY <1>1, <1>3
    <3> QED  BY <3>1
  <2>2. \A m \in 1..l : i = n + m => m = j  BY <1>1, <2>1
  <2>3. i \notin DOMAIN ms /\ i \in DOMAIN s /\ s[i] = us[j]  BY <1>1, <1>3, <2>1
  <2> QED  BY <1>1, <2>1, <2>2, <2>3 DEF NotedIn
<1>4. CASE i \notin 1..n /\ i \notin n + 1..n + l
  <2>1. i \notin DOMAIN s /\ i \notin DOMAIN ms /\ \A j \in 1..l : i # n + j  BY <1>1, <1>4
  <2> QED  BY <1>1, <2>1 DEF NotedIn
<1> QED  BY <1>2, <1>3, <1>4

LEMMA NotedAppend ==
  ASSUME NEW ms \in Seq(QueueNote), NEW m
  PROVE  /\ \A i, k, t, c : NotedIn(Append(ms, m), i, k, t, c) <=>
              \/ NotedIn(ms, i, k, t, c)
              \/ i = Len(ms) + 1 /\ k = 0 /\ t = m.text /\ c = m.channel
         /\ \A i, k, t, c : NotedIn(ms, i, k, t, c) => i \in 1..Len(ms)
<1> DEFINE n == Len(ms)  s == Append(ms, m)
<1>1. /\ n \in Nat /\ DOMAIN ms = 1..n /\ DOMAIN s = 1..n + 1
      /\ (\A i \in 1..n : s[i] = ms[i]) /\ s[n + 1] = m
  OBVIOUS
<1> HIDE DEF n, s
<1> SUFFICES ASSUME NEW i, NEW k, NEW t, NEW c
             PROVE  /\ NotedIn(s, i, k, t, c) <=>
                         \/ NotedIn(ms, i, k, t, c)
                         \/ i = n + 1 /\ k = 0 /\ t = m.text /\ c = m.channel
                    /\ NotedIn(ms, i, k, t, c) => i \in 1..n
  BY DEF n, s
<1>2. CASE i = n + 1
  <2>1. i \notin DOMAIN ms /\ i \in DOMAIN s /\ s[i] = m  BY <1>1, <1>2
  <2> QED  BY <1>2, <2>1 DEF NotedIn
<1>3. CASE i # n + 1
  <2>1. i \in DOMAIN s <=> i \in DOMAIN ms  BY <1>1, <1>3
  <2>2. i \in DOMAIN ms => s[i] = ms[i]  BY <1>1
  <2> QED  BY <1>1, <1>3, <2>1, <2>2 DEF NotedIn
<1> QED  BY <1>2, <1>3

LEMMA LiesAppend ==
  ASSUME NEW es \in Seq(Envelope), NEW e
  PROVE  /\ \A i, k, t, c : LiesIn(Append(es, e), i, k, t, c) <=>
              \/ LiesIn(es, i, k, t, c)
              \/ i = Len(es) + 1 /\ k \in DOMAIN e.responses /\ t = e.responses[k] /\ c = e.channel
         /\ \A i, k, t, c : LiesIn(es, i, k, t, c) => i \in 1..Len(es)
<1> DEFINE n == Len(es)  s == Append(es, e)
<1>1. /\ n \in Nat /\ DOMAIN es = 1..n /\ DOMAIN s = 1..n + 1
      /\ (\A i \in 1..n : s[i] = es[i]) /\ s[n + 1] = e
  OBVIOUS
<1> HIDE DEF n, s
<1> SUFFICES ASSUME NEW i, NEW k, NEW t, NEW c
             PROVE  /\ LiesIn(s, i, k, t, c) <=>
                         \/ LiesIn(es, i, k, t, c)
                         \/ i = n + 1 /\ k \in DOMAIN e.responses /\ t = e.responses[k] /\ c = e.channel
                    /\ LiesIn(es, i, k, t, c) => i \in 1..n
  BY DEF n, s
<1>2. CASE i = n + 1
  <2>1. i \notin DOMAIN es /\ i \in DOMAIN s /\ s[i] = e  BY <1>1, <1>2
  <2> QED  BY <1>2, <2>1 DEF LiesIn
<1>3. CASE i # n + 1
  <2>1. i \in DOMAIN s <=> i \in DOMAIN es  BY <1>1, <1>3
  <2>2. i \in DOMAIN es => s[i] = es[i]  BY <1>1
  <2> QED  BY <1>1, <1>3, <2>1, <2>2 DEF LiesIn
<1> QED  BY <1>2, <1>3

\* One box of several is replaced: what lies there is what the new one has.
LEMMA BoxReplaced ==
  ASSUME TypeInv, NEW h, NEW b
  PROVE  /\ h \in 1..Len(boxes["mailbox"]) /\ boxes'["mailbox"] = [boxes["mailbox"] EXCEPT ![h] = b] =>
              \A x, i, k, t, c : Lies(3, x, i, k, t, c)' <=>
                \/ x # h /\ Lies(3, x, i, k, t, c)
                \/ x = h /\ LiesIn(b, i, k, t, c)
         /\ h \in 1..Len(boxes["queue"]) /\ boxes'["queue"] = [boxes["queue"] EXCEPT ![h] = b] =>
              \A x, i, k, t, c : Lies(6, x, i, k, t, c)' <=>
                \/ x # h /\ Lies(6, x, i, k, t, c)
                \/ x = h /\ NotedIn(b, i, k, t, c)
<1>1. DOMAIN boxes["mailbox"] = 1..Len(boxes["mailbox"]) /\ DOMAIN boxes["queue"] = 1..Len(boxes["queue"])
  BY DEF TypeInv
<1>2. ASSUME h \in 1..Len(boxes["mailbox"]), boxes'["mailbox"] = [boxes["mailbox"] EXCEPT ![h] = b],
             NEW x, NEW i, NEW k, NEW t, NEW c
      PROVE  Lies(3, x, i, k, t, c)' <=>
               \/ x # h /\ Lies(3, x, i, k, t, c)
               \/ x = h /\ LiesIn(b, i, k, t, c)
  <2>1. DOMAIN boxes'["mailbox"] = DOMAIN boxes["mailbox"] /\ boxes'["mailbox"][h] = b
        /\ \A y \in DOMAIN boxes["mailbox"] \ {h} : boxes'["mailbox"][y] = boxes["mailbox"][y]
    BY <1>1, <1>2
  <2>2. CASE x = h
    BY <1>1, <1>2, <2>1, <2>2 DEF Lies, Mailed, LiesIn
  <2>3. CASE x # h
    BY <2>1, <2>3 DEF Lies, Mailed, LiesIn
  <2> QED  BY <2>2, <2>3
<1>3. ASSUME h \in 1..Len(boxes["queue"]), boxes'["queue"] = [boxes["queue"] EXCEPT ![h] = b],
             NEW x, NEW i, NEW k, NEW t, NEW c
      PROVE  Lies(6, x, i, k, t, c)' <=>
               \/ x # h /\ Lies(6, x, i, k, t, c)
               \/ x = h /\ NotedIn(b, i, k, t, c)
  <2>1. DOMAIN boxes'["queue"] = DOMAIN boxes["queue"] /\ boxes'["queue"][h] = b
        /\ \A y \in DOMAIN boxes["queue"] \ {h} : boxes'["queue"][y] = boxes["queue"][y]
    BY <1>1, <1>3
  <2>2. CASE x = h
    BY <1>1, <1>3, <2>1, <2>2 DEF Lies, Queued, NotedIn
  <2>3. CASE x # h
    BY <2>1, <2>3 DEF Lies, Queued, NotedIn
  <2> QED  BY <2>2, <2>3
<1> QED  BY <1>2, <1>3

\* As long as nobody raced for it, there is one mailbox, and one queue.
LEMMA OnlyBox ==
  ASSUME TypeInv, SingleInv, raced = {}
  PROVE  /\ \A x \in 1..Len(boxes["mailbox"]), y \in 1..Len(boxes["mailbox"]) : x = y
         /\ \A x \in 1..Len(boxes["queue"]), y \in 1..Len(boxes["queue"]) : x = y
         /\ \A r \in {3, 6} : \A x, i, k, t, c : Lies(r, x, i, k, t, c) =>
              x \in 1..Len(boxes[IF r = 3 THEN "mailbox" ELSE "queue"])
<1>1. Len(boxes["mailbox"]) <= 1 /\ Len(boxes["queue"]) <= 1  BY DEF SingleInv, Cells
<1>2. /\ Len(boxes["mailbox"]) \in Nat /\ Len(boxes["queue"]) \in Nat
      /\ DOMAIN boxes["mailbox"] = 1..Len(boxes["mailbox"])
      /\ DOMAIN boxes["queue"] = 1..Len(boxes["queue"])
  BY DEF TypeInv
<1>3. \A r \in {3, 6} : \A x, i, k, t, c : Lies(r, x, i, k, t, c) =>
        x \in DOMAIN boxes[IF r = 3 THEN "mailbox" ELSE "queue"]
  BY DEF Lies, Mailed, Queued
<1> QED  BY <1>1, <1>2, <1>3

\* The queue's messages, but for the blank ones, become the last of those collected.
LEMMA PopAllMoves ==
  ASSUME OutgoingInv, SingleInv, DeliveryInv, PopAll
  PROVE  DeliveryInv'
<1> DEFINE h == held[Loop]  ms == boxes["queue"][h]  S == {i \in DOMAIN ms : ms[i].text.kind # "blank"}
           us == NotEmpty(ms)  n == Len(loop.messages)
<1>1. TypeInv  BY DEF OutgoingInv
<1>2. /\ h \in 1..Len(boxes["queue"]) /\ ms \in Seq(QueueNote) /\ ms \in Seq(Note)
      /\ RunSchedule(Schedules[1], ms)
      /\ boxes'["queue"] = [boxes["queue"] EXCEPT ![h] = <<>>]
      /\ boxes'["mailbox"] = boxes["mailbox"]
  BY PopAllIs
<1>3. UNCHANGED <<task, speeches, attempts, put, raced>>  BY DEF PopAll
<1>4. /\ loop'.messages = loop.messages \o us /\ us \in Seq(Note)
      /\ loop'.scheduled = loop.scheduled /\ loop'.taken = loop.taken
  <2> HIDE DEF ms
  <2>1. TypeInv /\ RunSchedule(Schedules[1], ms) /\ ms \in Seq(Note) /\ 1 \in 1..3
    BY <1>1, <1>2
  <2> QED  BY <2>1, RunScheduleIs
<1>5. /\ \A j \in DOMAIN us : Nth(S, j) \in S /\ us[j] = ms[Nth(S, j)]
      /\ \A j, l \in DOMAIN us : j < l => Nth(S, j) < Nth(S, l)
      /\ \A j, l \in DOMAIN us : Nth(S, j) = Nth(S, l) => j = l
      /\ \A i \in S : Rank(S, i) \in DOMAIN us /\ us[Rank(S, i)] = ms[i]
  <2> HIDE DEF ms
  <2> QED  BY <1>2, NotEmptyIs
<1>6. S \subseteq DOMAIN ms /\ \A i \in DOMAIN ms : ms[i].text.kind # "blank" => i \in S
  OBVIOUS
<1>7. loop.messages \in Seq(Note)  BY <1>1 DEF TypeInv, LoopType
<1>8. n \in Nat /\ DOMAIN us = 1..Len(us) /\ Len(us) \in Nat  BY <1>4, <1>7
<1>9. \A i, k, t, c : Lies(6, h, i, k, t, c) <=> NotedIn(ms, i, k, t, c)
  BY <1>1, <1>2 DEF Lies, Queued, TypeInv
<1> HIDE DEF h, ms, S, us
<1>10. \A x, i, k, t, c : Lies(5, x, i, k, t, c)' <=>
         \/ Lies(5, x, i, k, t, c)
         \/ x = 0 /\ \E j \in DOMAIN us : i = n + j /\ NotedIn(us, j, k, t, c)
  <2>1. \A x, i, k, t, c : Lies(5, x, i, k, t, c) <=> x = 0 /\ NotedIn(loop.messages, i, k, t, c)
    BY DEF Lies, Collected
  <2>2. \A x, i, k, t, c : Lies(5, x, i, k, t, c)' <=> x = 0 /\ NotedIn(loop'.messages, i, k, t, c)
    BY DEF Lies, Collected, NotedIn
  <2>3. \A i, k, t, c : NotedIn(loop.messages \o us, i, k, t, c) <=>
              \/ NotedIn(loop.messages, i, k, t, c)
              \/ \E j \in DOMAIN us : i = n + j /\ NotedIn(us, j, k, t, c)
    BY <1>4, <1>7, NotedConcat
  <2> HIDE DEF n
  <2> QED  BY <1>4, <2>1, <2>2, <2>3
<1>11. \A x, i, k, t, c : Lies(5, x, i, k, t, c) => i \in 1..n
  <2>1. \A i, k, t, c : NotedIn(loop.messages, i, k, t, c) => i \in 1..n
    BY <1>4, <1>7, NotedConcat
  <2> QED  BY <2>1 DEF Lies, Collected
<1>12. \A x, i, k, t, c : Lies(6, x, i, k, t, c)' <=> x # h /\ Lies(6, x, i, k, t, c)
  <2>1. PICK b : b = <<>>  OBVIOUS
  <2>2. \A i, k, t, c : ~NotedIn(b, i, k, t, c)  BY <2>1 DEF NotedIn
  <2>3. boxes'["queue"] = [boxes["queue"] EXCEPT ![h] = b]  BY <1>2, <2>1
  <2>4. \A x, i, k, t, c : Lies(6, x, i, k, t, c)' <=>
          (x # h /\ Lies(6, x, i, k, t, c)) \/ (x = h /\ NotedIn(b, i, k, t, c))
    BY <1>1, <1>2, <2>3, BoxReplaced
  <2> QED  BY <2>2, <2>4
<1>13. \A r \in {1, 2, 3, 4} : \A x, i, k, t, c : Lies(r, x, i, k, t, c)' <=> Lies(r, x, i, k, t, c)
  BY <1>2, <1>3, <1>4, Unmoved
<1>14. \A j, k, t, c : j \in DOMAIN us /\ NotedIn(us, j, k, t, c) =>
         k = 0 /\ t.kind # "blank" /\ Lies(6, h, Nth(S, j), 0, t, c)
  <2>1. \A i \in S : i \in DOMAIN ms /\ ms[i].text.kind # "blank"  BY DEF S
  <2> QED  BY <1>5, <1>9, <2>1 DEF NotedIn
<1> HIDE DEF n
<1>15. \A x, i, k, t, c : Arrived(5, x, i, k, t, c) =>
         /\ x = 0 /\ k = 0
         /\ \E j \in DOMAIN us : i = n + j /\ Lies(6, h, Nth(S, j), 0, t, c)
  <2> SUFFICES ASSUME NEW x, NEW i, NEW k, NEW t, NEW c, Arrived(5, x, i, k, t, c)
               PROVE  /\ x = 0 /\ k = 0
                      /\ \E j \in DOMAIN us : i = n + j /\ Lies(6, h, Nth(S, j), 0, t, c)
    OBVIOUS
  <2>1. x = 0 /\ \E j \in DOMAIN us : i = n + j /\ NotedIn(us, j, k, t, c)  BY <1>10 DEF Arrived
  <2> QED  BY <1>14, <2>1
<1>16. \A r, x, i, k, t, c : Lies(r, x, i, k, t, c)' =>
         \/ Lies(r, x, i, k, t, c)
         \/ r = 5 /\ \E y, j, l : Lies(6, y, j, l, t, c) /\ \A d : ~Lies(6, y, j, l, t, d)'
  <2> SUFFICES ASSUME NEW r \in 1..6, NEW x, NEW i, NEW k, NEW t, NEW c,
                      Lies(r, x, i, k, t, c)', ~Lies(r, x, i, k, t, c)
               PROVE  r = 5 /\ \E y, j, l : Lies(6, y, j, l, t, c) /\ \A d : ~Lies(6, y, j, l, t, d)'
    BY Somewhere
  <2>1. r = 5
    <3>1. r \in {1, 2, 3, 4} \/ r = 5 \/ r = 6  OBVIOUS
    <3> QED  BY <1>12, <1>13, <3>1
  <2>2. PICK j \in DOMAIN us : Lies(6, h, Nth(S, j), 0, t, c)  BY <1>15, <2>1 DEF Arrived
  <2>3. PICK y, m : y = h /\ m = Nth(S, j)  OBVIOUS
  <2>4. \A d : ~Lies(6, y, m, 0, t, d)'  BY <1>12, <2>3
  <2> QED  BY <2>1, <2>2, <2>3, <2>4
<1>17. \A x, i, k, c, x2, i2, k2, c2, t :
         Arrived(5, x, i, k, t, c) /\ Arrived(5, x2, i2, k2, t, c2) /\ t.from # Commentator
           => x = x2 /\ i = i2 /\ k = k2
  <2> SUFFICES ASSUME NEW x, NEW i, NEW k, NEW c, NEW x2, NEW i2, NEW k2, NEW c2, NEW t,
                      Arrived(5, x, i, k, t, c), Arrived(5, x2, i2, k2, t, c2), t.from # Commentator
               PROVE  x = x2 /\ i = i2 /\ k = k2
    OBVIOUS
  <2>1. x = x2 /\ k = k2  BY <1>15
  <2>2. PICK j \in DOMAIN us : i = n + j /\ Lies(6, h, Nth(S, j), 0, t, c)  BY <1>15
  <2>3. PICK j2 \in DOMAIN us : i2 = n + j2 /\ Lies(6, h, Nth(S, j2), 0, t, c2)  BY <1>15
  <2>4. Nth(S, j) = Nth(S, j2)  BY <2>2, <2>3 DEF DeliveryInv, OnceInv
  <2> QED  BY <1>5, <2>1, <2>2, <2>3, <2>4
<1>18. ASSUME raced = {}, NEW x, NEW i, NEW k, NEW s, NEW x2, NEW i2, NEW k2, NEW t, NEW c,
              Arrived(5, x, i, k, s, c)
       PROVE  /\ Arrived(5, x2, i2, k2, t, c) /\ Sooner(5, i, k, 5, i2, k2) =>
                   \E y, j, l, y2, j2, l2 : /\ Lies(6, y, j, l, s, c) /\ Lies(6, y2, j2, l2, t, c)
                                            /\ Sooner(6, j, l, 6, j2, l2)
              /\ Lies(5, x2, i2, k2, t, c) => ~Sooner(5, i, k, 5, i2, k2)
              /\ ~Lies(6, x2, i2, k2, t, c)'
  <2>1. PICK j \in DOMAIN us : i = n + j /\ Lies(6, h, Nth(S, j), 0, s, c)  BY <1>15, <1>18
  <2>2. k = 0  BY <1>15, <1>18
  <2>3. ASSUME Arrived(5, x2, i2, k2, t, c), Sooner(5, i, k, 5, i2, k2)
        PROVE  \E y, j1, l, y2, j2, l2 : /\ Lies(6, y, j1, l, s, c) /\ Lies(6, y2, j2, l2, t, c)
                                         /\ Sooner(6, j1, l, 6, j2, l2)
    <3>1. PICK j2 \in DOMAIN us : i2 = n + j2 /\ Lies(6, h, Nth(S, j2), 0, t, c)  BY <1>15, <2>3
    <3>2. k2 = 0  BY <1>15, <2>3
    <3>3. j < j2  BY <1>8, <2>1, <2>2, <2>3, <3>1, <3>2 DEF Sooner
    <3>4. Sooner(6, Nth(S, j), 0, 6, Nth(S, j2), 0)  BY <1>5, <3>3 DEF Sooner
    <3> QED  BY <2>1, <3>1, <3>4
  <2>4. Lies(5, x2, i2, k2, t, c) => ~Sooner(5, i, k, 5, i2, k2)
    <3> SUFFICES ASSUME Lies(5, x2, i2, k2, t, c) PROVE ~Sooner(5, i, k, 5, i2, k2)  OBVIOUS
    <3>1. i2 \in 1..n  BY <1>11
    <3>2. i2 < i  BY <1>8, <2>1, <3>1
    <3> QED  BY <1>8, <2>1, <3>1, <3>2 DEF Sooner
  <2>5. ~Lies(6, x2, i2, k2, t, c)'
    <3> SUFFICES ASSUME Lies(6, x2, i2, k2, t, c)' PROVE FALSE  OBVIOUS
    <3>1. x2 # h /\ Lies(6, x2, i2, k2, t, c)  BY <1>12
    <3>2. x2 \in 1..Len(boxes["queue"])  BY <1>1, <1>18, <3>1, OnlyBox
    <3>3. \A x3 \in 1..Len(boxes["queue"]), y \in 1..Len(boxes["queue"]) : x3 = y
      BY <1>1, <1>18, OnlyBox
    <3> QED  BY <1>2, <3>1, <3>2, <3>3
  <2> QED  BY <2>3, <2>4, <2>5
<1>19. \A r, x, i, k, t, c : Lies(r, x, i, k, t, c) /\ ~MayBeDropped(t) =>
         \E r2, x2, i2, k2, c2 : Lies(r2, x2, i2, k2, t, c2)'
  <2> SUFFICES ASSUME NEW r \in 1..6, NEW x, NEW i, NEW k, NEW t, NEW c,
                      Lies(r, x, i, k, t, c), ~MayBeDropped(t)
               PROVE  \E r2, x2, i2, k2, c2 : Lies(r2, x2, i2, k2, t, c2)'
    BY Somewhere
  <2>1. CASE r \in {1, 2, 3, 4}  BY <1>13, <2>1
  <2>2. CASE r = 5  BY <1>10, <2>2
  <2>3. CASE r = 6 /\ x # h  BY <1>12, <2>3
  <2>4. CASE r = 6 /\ x = h
    <3>1. NotedIn(ms, i, k, t, c)  BY <1>9, <2>4
    <3>2. i \in S
      <4>1. t.kind # "blank"  BY DEF MayBeDropped
      <4> QED  BY <1>6, <3>1, <4>1 DEF NotedIn
    <3>3. PICK j : j = Rank(S, i)  OBVIOUS
    <3>4. j \in DOMAIN us /\ NotedIn(us, j, 0, t, c)  BY <1>5, <3>1, <3>2, <3>3 DEF NotedIn
    <3>5. PICK m : m = n + j  OBVIOUS
    <3>6. Lies(5, 0, m, 0, t, c)'  BY <1>10, <3>4, <3>5
    <3> QED  BY <3>6
  <2>5. r \in {1, 2, 3, 4} \/ r = 5 \/ r = 6  OBVIOUS
  <2> QED  BY <2>1, <2>2, <2>3, <2>4, <2>5
<1>20. GroupedInv'  BY <1>4 DEF DeliveryInv, GroupedInv
<1>21. PICK a \in 2..5 : a = 5 /\ a + 1 = 6  OBVIOUS
<1> QED
  BY <1>1, <1>3, <1>16, <1>17, <1>18, <1>19, <1>20, <1>21, DownMoves

\* The messages collected that have a channel become the envelopes of their channels.
LEMMA HandleScheduleMoves ==
  ASSUME OutgoingInv, PutInv, DeliveryInv, HandleSchedule
  PROVE  DeliveryInv'
<1> DEFINE ms == loop.messages  es == ToResponseEnvelopes(Addressed(ms))
<1>1. TypeInv /\ PassInv  BY DEF OutgoingInv
<1>2. /\ loop'.scheduled = es /\ loop'.messages = <<>> /\ loop'.taken = loop.taken
      /\ ms \in Seq(Note)
  BY <1>1, HandleScheduleIs
<1>3. UNCHANGED <<boxes, task, speeches, attempts, put, raced>> /\ at[Loop] = "schedule"
  BY DEF HandleSchedule, cells, At
<1>4. loop.scheduled = {}  BY <1>1, <1>3 DEF PassInv
<1>5. /\ \A e \in es :
           /\ e \in Envelope /\ e.channel \in Channels
           /\ \A k \in DOMAIN e.responses :
                LET w == Whence(ms, e.channel, k)
                IN w \in DOMAIN ms /\ ms[w].text = e.responses[k] /\ ms[w].channel = e.channel
           /\ \A k, l \in DOMAIN e.responses :
                k < l => Whence(ms, e.channel, k) < Whence(ms, e.channel, l)
      /\ \A e, f \in es : e.channel = f.channel => e = f
      /\ \A j \in DOMAIN ms : ms[j].channel # NoChannel =>
           \E e \in es : /\ e.channel = ms[j].channel
                         /\ \E k \in DOMAIN e.responses : e.responses[k] = ms[j].text
  <2> DEFINE fs == es
  <2>1. fs = ToResponseEnvelopes(Addressed(ms)) /\ ms \in Seq(Note)  BY <1>2
  <2> HIDE DEF fs, ms
  <2>2. /\ \A e \in fs :
             /\ e \in Envelope /\ e.channel \in Channels
             /\ \A k \in DOMAIN e.responses :
                  LET w == Whence(ms, e.channel, k)
                  IN w \in DOMAIN ms /\ ms[w].text = e.responses[k] /\ ms[w].channel = e.channel
             /\ \A k, l \in DOMAIN e.responses :
                  k < l => Whence(ms, e.channel, k) < Whence(ms, e.channel, l)
        /\ \A e, f \in fs : e.channel = f.channel => e = f
        /\ \A j \in DOMAIN ms : ms[j].channel # NoChannel =>
             \E e \in fs : /\ e.channel = ms[j].channel
                           /\ \E k \in DOMAIN e.responses : e.responses[k] = ms[j].text
    BY <2>1, EnvelopesAre
  <2> QED  BY <2>2 DEF fs
<1> HIDE DEF es
<1>6. \A r \in {1, 2, 3, 6} : \A x, i, k, t, c : Lies(r, x, i, k, t, c)' <=> Lies(r, x, i, k, t, c)
  BY <1>2, <1>3, Unmoved
<1>7. \A x, i, k, t, c : ~Lies(5, x, i, k, t, c)'  BY <1>2, NowhereNext
<1>8. \A x, i, k, t, c : ~Lies(4, x, i, k, t, c)  BY <1>4, Nowhere
<1>9. \A x, i, k, t, c : Lies(4, x, i, k, t, c)' <=>
        x \in es /\ i = 0 /\ k \in DOMAIN x.responses /\ t = x.responses[k] /\ c = x.channel
  BY <1>2 DEF Lies, Grouped
<1>10. \A i, t, c : Lies(5, 0, i, 0, t, c) <=> i \in DOMAIN ms /\ t = ms[i].text /\ c = ms[i].channel
  BY DEF Lies, Collected, NotedIn
<1> HIDE DEF ms
<1>11. \A x, i, k, t, c : Arrived(4, x, i, k, t, c) =>
         /\ i = 0 /\ c = x.channel /\ x \in es /\ k \in DOMAIN x.responses
         /\ Lies(5, 0, Whence(ms, c, k), 0, t, c)
  BY <1>5, <1>9, <1>10 DEF Arrived
<1>12. \A e \in es : DOMAIN e.responses \subseteq Nat
  <2> SUFFICES ASSUME NEW e \in es PROVE DOMAIN e.responses \subseteq Nat  OBVIOUS
  <2>1. e.responses \in Seq(Text)  BY <1>5 DEF Envelope
  <2> QED  BY <2>1
<1>13. \A e \in es : \A k, l \in DOMAIN e.responses :
         Whence(ms, e.channel, k) = Whence(ms, e.channel, l) => k = l
  <2> SUFFICES ASSUME NEW e \in es, NEW k \in DOMAIN e.responses, NEW l \in DOMAIN e.responses,
                      Whence(ms, e.channel, k) = Whence(ms, e.channel, l)
               PROVE  k = l
    OBVIOUS
  <2>1. k \in Nat /\ l \in Nat  BY <1>12
  <2>2. Whence(ms, e.channel, k) \in Nat
    <3>1. Whence(ms, e.channel, k) \in DOMAIN ms  BY <1>5
    <3> QED  BY <1>2, <3>1
  <2>3. ~(k < l) /\ ~(l < k)
    <3> DEFINE wk == Whence(ms, e.channel, k)  wl == Whence(ms, e.channel, l)
    <3>1. (k < l => wk < wl) /\ (l < k => wl < wk)  BY <1>5
    <3>2. wk = wl /\ wk \in Nat  BY <2>2
    <3> HIDE DEF wk, wl
    <3> QED  BY <3>1, <3>2
  <2> QED  BY <2>1, <2>3
<1>14. \A r, x, i, k, t, c : Lies(r, x, i, k, t, c)' =>
         \/ Lies(r, x, i, k, t, c)
         \/ r = 4 /\ \E y, j, l : Lies(5, y, j, l, t, c) /\ \A d : ~Lies(5, y, j, l, t, d)'
  <2> SUFFICES ASSUME NEW r \in 1..6, NEW x, NEW i, NEW k, NEW t, NEW c,
                      Lies(r, x, i, k, t, c)', ~Lies(r, x, i, k, t, c)
               PROVE  r = 4 /\ \E y, j, l : Lies(5, y, j, l, t, c) /\ \A d : ~Lies(5, y, j, l, t, d)'
    BY Somewhere
  <2>1. r = 4
    <3>1. r \in {1, 2, 3, 6} \/ r = 4 \/ r = 5  OBVIOUS
    <3> QED  BY <1>6, <1>7, <3>1
  <2>2. PICK m : m = Whence(ms, c, k)  OBVIOUS
  <2>3. Lies(5, 0, m, 0, t, c)  BY <1>11, <2>1, <2>2 DEF Arrived
  <2>4. \A d : ~Lies(5, 0, m, 0, t, d)'  BY <1>7
  <2> QED  BY <2>1, <2>3, <2>4
<1>15. \A x, i, k, c, x2, i2, k2, c2, t :
         Arrived(4, x, i, k, t, c) /\ Arrived(4, x2, i2, k2, t, c2) /\ t.from # Commentator
           => x = x2 /\ i = i2 /\ k = k2
  <2> SUFFICES ASSUME NEW x, NEW i, NEW k, NEW c, NEW x2, NEW i2, NEW k2, NEW c2, NEW t,
                      Arrived(4, x, i, k, t, c), Arrived(4, x2, i2, k2, t, c2), t.from # Commentator
               PROVE  x = x2 /\ i = i2 /\ k = k2
    OBVIOUS
  <2>1. /\ i = 0 /\ c = x.channel /\ x \in es /\ k \in DOMAIN x.responses
        /\ Lies(5, 0, Whence(ms, c, k), 0, t, c)
    BY <1>11
  <2>2. /\ i2 = 0 /\ c2 = x2.channel /\ x2 \in es /\ k2 \in DOMAIN x2.responses
        /\ Lies(5, 0, Whence(ms, c2, k2), 0, t, c2)
    BY <1>11
  <2>3. Whence(ms, c, k) = Whence(ms, c2, k2)  BY <2>1, <2>2 DEF DeliveryInv, OnceInv
  <2>4. c = c2  BY <1>10, <2>1, <2>2, <2>3
  <2>5. x = x2  BY <1>5, <2>1, <2>2, <2>4
  <2> QED  BY <1>13, <2>1, <2>2, <2>3, <2>4, <2>5
<1>16. ASSUME raced = {}, NEW x, NEW i, NEW k, NEW s, NEW x2, NEW i2, NEW k2, NEW t, NEW c,
              Arrived(4, x, i, k, s, c)
       PROVE  /\ Arrived(4, x2, i2, k2, t, c) /\ Sooner(4, i, k, 4, i2, k2) =>
                   \E y, j, l, y2, j2, l2 : /\ Lies(5, y, j, l, s, c) /\ Lies(5, y2, j2, l2, t, c)
                                            /\ Sooner(5, j, l, 5, j2, l2)
              /\ Lies(4, x2, i2, k2, t, c) => ~Sooner(4, i, k, 4, i2, k2)
              /\ ~Lies(5, x2, i2, k2, t, c)'
  <2>1. ASSUME Arrived(4, x2, i2, k2, t, c), Sooner(4, i, k, 4, i2, k2)
        PROVE  \E y, j, l, y2, j2, l2 : /\ Lies(5, y, j, l, s, c) /\ Lies(5, y2, j2, l2, t, c)
                                        /\ Sooner(5, j, l, 5, j2, l2)
    <3>1. /\ i = 0 /\ c = x.channel /\ x \in es /\ k \in DOMAIN x.responses
          /\ Lies(5, 0, Whence(ms, c, k), 0, s, c)
      BY <1>11, <1>16
    <3>2. /\ i2 = 0 /\ c = x2.channel /\ x2 \in es /\ k2 \in DOMAIN x2.responses
          /\ Lies(5, 0, Whence(ms, c, k2), 0, t, c)
      BY <1>11, <2>1
    <3>3. x = x2  BY <1>5, <3>1, <3>2
    <3>4. k < k2  BY <2>1, <3>1, <3>2 DEF Sooner
    <3>5. Whence(ms, c, k) < Whence(ms, c, k2)  BY <1>5, <3>1, <3>2, <3>3, <3>4
    <3>6. Sooner(5, Whence(ms, c, k), 0, 5, Whence(ms, c, k2), 0)  BY <3>5 DEF Sooner
    <3> QED  BY <3>1, <3>2, <3>6
  <2> QED  BY <1>7, <1>8, <2>1
<1>17. \A r, x, i, k, t, c : Lies(r, x, i, k, t, c) /\ t \in ToSet(put) /\ ~MayBeDropped(t) =>
         \E r2, x2, i2, k2, c2 : Lies(r2, x2, i2, k2, t, c2)'
  <2> SUFFICES ASSUME NEW r \in 1..6, NEW x, NEW i, NEW k, NEW t, NEW c,
                      Lies(r, x, i, k, t, c), t \in ToSet(put)
               PROVE  \E r2, x2, i2, k2, c2 : Lies(r2, x2, i2, k2, t, c2)'
    BY Somewhere
  <2>1. CASE r \in {1, 2, 3, 6}  BY <1>6, <2>1
  <2>2. CASE r = 4  BY <1>8, <2>2
  <2>3. CASE r = 5
    <3>1. t.from # Commentator
      <4>1. t.from \in Goroutines  BY <1>1, PutWords
      <4> QED  BY <1>1, <4>1, WhoIsWho
    <3>2. x = 0 /\ i \in DOMAIN ms /\ t = ms[i].text /\ c = ms[i].channel
      BY <2>3 DEF Lies, Collected, NotedIn, ms
    <3>3. c # NoChannel
      <4>1. r \in 2..6 => (c = NoChannel <=> t.from = Commentator)  BY <1>1, LiesTypes
      <4> QED  BY <2>3, <3>1, <4>1
    <3>4. PICK e \in es : e.channel = c /\ \E k2 \in DOMAIN e.responses : e.responses[k2] = t
      BY <1>5, <3>2, <3>3
    <3>5. PICK k2 \in DOMAIN e.responses : e.responses[k2] = t  BY <3>4
    <3>6. Lies(4, e, 0, k2, t, c)'  BY <1>9, <3>4, <3>5
    <3> QED  BY <3>6
  <2>4. r \in {1, 2, 3, 6} \/ r = 4 \/ r = 5  OBVIOUS
  <2> QED  BY <2>1, <2>2, <2>3, <2>4
<1>18. GroupedInv'  BY <1>2, <1>5 DEF GroupedInv
<1>19. PICK a \in 2..5 : a = 4 /\ a + 1 = 5  OBVIOUS
<1> QED  BY <1>1, <1>3, <1>14, <1>15, <1>16, <1>17, <1>18, <1>19, DownMoves

\* An envelope of the schedules goes behind what is in the mailbox.
LEMMA AddMoves ==
  ASSUME OutgoingInv, SingleInv, DeliveryInv, AddScheduled
  PROVE  DeliveryInv'
<1> DEFINE o == loop.outgoing  bs == boxes["mailbox"]  n == Len(bs[o])
<1>1. TypeInv  BY DEF OutgoingInv
<1>2. PICK e \in loop.scheduled :
         /\ e \in Envelope /\ o \in 1..Len(bs)
         /\ boxes'["mailbox"] = [bs EXCEPT ![o] = Append(bs[o], e)]
         /\ bs[o] \in Seq(Envelope)
         /\ boxes'["queue"] = boxes["queue"]
         /\ loop'.scheduled = loop.scheduled \ {e}
         /\ loop'.messages = loop.messages /\ loop'.taken = loop.taken
         /\ UNCHANGED <<task, speeches, attempts, put, raced>>
  BY AddIs
<1>3. \A r \in {1, 2, 5, 6} : \A x, i, k, t, c : Lies(r, x, i, k, t, c)' <=> Lies(r, x, i, k, t, c)
  BY <1>2, Unmoved
<1>4. n \in Nat  BY <1>2
<1>5. \A i, k, t, c : Lies(3, o, i, k, t, c) <=> LiesIn(bs[o], i, k, t, c)
  BY <1>1, <1>2 DEF Lies, Mailed, TypeInv
<1>6. /\ \A x, i, k, t, c : Lies(3, x, i, k, t, c)' <=>
           \/ Lies(3, x, i, k, t, c)
           \/ x = o /\ i = n + 1 /\ k \in DOMAIN e.responses /\ t = e.responses[k] /\ c = e.channel
      /\ \A i, k, t, c : Lies(3, o, i, k, t, c) => i \in 1..n
  <2> DEFINE b == Append(bs[o], e)
  <2>1. /\ \A i, k, t, c : LiesIn(b, i, k, t, c) <=>
             \/ LiesIn(bs[o], i, k, t, c)
             \/ i = n + 1 /\ k \in DOMAIN e.responses /\ t = e.responses[k] /\ c = e.channel
        /\ \A i, k, t, c : LiesIn(bs[o], i, k, t, c) => i \in 1..n
    BY <1>2, LiesAppend
  <2>2. o \in 1..Len(boxes["mailbox"]) /\ boxes'["mailbox"] = [boxes["mailbox"] EXCEPT ![o] = b]
    BY <1>2
  <2> HIDE DEF b, o, bs, n
  <2>3. \A x, i, k, t, c : Lies(3, x, i, k, t, c)' <=>
          (x # o /\ Lies(3, x, i, k, t, c)) \/ (x = o /\ LiesIn(b, i, k, t, c))
    BY <1>1, <2>2, BoxReplaced
  <2> QED  BY <1>5, <2>1, <2>3
<1>7. \A x, i, k, t, c : Lies(4, x, i, k, t, c)' <=> x # e /\ Lies(4, x, i, k, t, c)
  BY <1>2 DEF Lies, Grouped
<1>8. \A i, k, t, c : Lies(4, e, i, k, t, c) <=>
        i = 0 /\ k \in DOMAIN e.responses /\ t = e.responses[k] /\ c = e.channel
  BY <1>2 DEF Lies, Grouped
<1> HIDE DEF o, bs, n
<1>9. \A x, i, k, t, c : Arrived(3, x, i, k, t, c) =>
        x = o /\ i = n + 1 /\ Lies(4, e, 0, k, t, c) /\ c = e.channel
  BY <1>6, <1>8 DEF Arrived
<1>10. \A r, x, i, k, t, c : Lies(r, x, i, k, t, c)' =>
         \/ Lies(r, x, i, k, t, c)
         \/ r = 3 /\ \E y, j, l : Lies(4, y, j, l, t, c) /\ \A d : ~Lies(4, y, j, l, t, d)'
  <2> SUFFICES ASSUME NEW r \in 1..6, NEW x, NEW i, NEW k, NEW t, NEW c,
                      Lies(r, x, i, k, t, c)', ~Lies(r, x, i, k, t, c)
               PROVE  r = 3 /\ \E y, j, l : Lies(4, y, j, l, t, c) /\ \A d : ~Lies(4, y, j, l, t, d)'
    BY Somewhere
  <2>1. r = 3
    <3>1. r \in {1, 2, 5, 6} \/ r = 3 \/ r = 4  OBVIOUS
    <3> QED  BY <1>3, <1>7, <3>1
  <2>2. Lies(4, e, 0, k, t, c)  BY <1>9, <2>1 DEF Arrived
  <2>3. \A d : ~Lies(4, e, 0, k, t, d)'  BY <1>7
  <2> QED  BY <2>1, <2>2, <2>3
<1>11. \A x, i, k, c, x2, i2, k2, c2, t :
         Arrived(3, x, i, k, t, c) /\ Arrived(3, x2, i2, k2, t, c2) /\ t.from # Commentator
           => x = x2 /\ i = i2 /\ k = k2
  <2> SUFFICES ASSUME NEW x, NEW i, NEW k, NEW c, NEW x2, NEW i2, NEW k2, NEW c2, NEW t,
                      Arrived(3, x, i, k, t, c), Arrived(3, x2, i2, k2, t, c2), t.from # Commentator
               PROVE  x = x2 /\ i = i2 /\ k = k2
    OBVIOUS
  <2>1. x = o /\ i = n + 1 /\ Lies(4, e, 0, k, t, c)  BY <1>9
  <2>2. x2 = o /\ i2 = n + 1 /\ Lies(4, e, 0, k2, t, c2)  BY <1>9
  <2>3. k = k2  BY <2>1, <2>2 DEF DeliveryInv, OnceInv
  <2> QED  BY <2>1, <2>2, <2>3
<1>12. ASSUME raced = {}, NEW x, NEW i, NEW k, NEW s, NEW x2, NEW i2, NEW k2, NEW t, NEW c,
              Arrived(3, x, i, k, s, c)
       PROVE  /\ Arrived(3, x2, i2, k2, t, c) /\ Sooner(3, i, k, 3, i2, k2) =>
                   \E y, j, l, y2, j2, l2 : /\ Lies(4, y, j, l, s, c) /\ Lies(4, y2, j2, l2, t, c)
                                            /\ Sooner(4, j, l, 4, j2, l2)
              /\ Lies(3, x2, i2, k2, t, c) => ~Sooner(3, i, k, 3, i2, k2)
              /\ ~Lies(4, x2, i2, k2, t, c)'
  <2>1. x = o /\ i = n + 1 /\ Lies(4, e, 0, k, s, c) /\ c = e.channel  BY <1>9, <1>12
  <2>2. ASSUME Arrived(3, x2, i2, k2, t, c), Sooner(3, i, k, 3, i2, k2)
        PROVE  \E y, j, l, y2, j2, l2 : /\ Lies(4, y, j, l, s, c) /\ Lies(4, y2, j2, l2, t, c)
                                        /\ Sooner(4, j, l, 4, j2, l2)
    <3>1. i2 = n + 1 /\ Lies(4, e, 0, k2, t, c)  BY <1>9, <2>2
    <3>2. Sooner(4, 0, k, 4, 0, k2)  BY <1>4, <2>1, <2>2, <3>1 DEF Sooner
    <3> QED  BY <2>1, <3>1, <3>2
  <2>3. ASSUME Lies(3, x2, i2, k2, t, c)  PROVE ~Sooner(3, i, k, 3, i2, k2)
    <3>1. x2 \in 1..Len(boxes["mailbox"])
      <4>1. \A r \in {3, 6} : \A x0, i0, k0, t0, c0 : Lies(r, x0, i0, k0, t0, c0) =>
              x0 \in 1..Len(boxes[IF r = 3 THEN "mailbox" ELSE "queue"])
        BY <1>1, <1>12, OnlyBox
      <4> QED  BY <2>3, <4>1
    <3>2. \A y \in 1..Len(boxes["mailbox"]), z \in 1..Len(boxes["mailbox"]) : y = z
      BY <1>1, <1>12, OnlyBox
    <3>3. x2 = o  BY <1>2, <3>1, <3>2 DEF bs
    <3>4. i2 \in 1..n  BY <1>6, <2>3, <3>3
    <3> QED  BY <1>4, <2>1, <3>4 DEF Sooner
  <2>4. ~Lies(4, x2, i2, k2, t, c)'
    <3> SUFFICES ASSUME Lies(4, x2, i2, k2, t, c)' PROVE FALSE  OBVIOUS
    <3>1. x2 # e /\ Lies(4, x2, i2, k2, t, c)  BY <1>7
    <3>2. x2 \in loop.scheduled /\ x2.channel = c  BY <3>1 DEF Lies, Grouped
    <3> QED  BY <1>2, <2>1, <3>1, <3>2 DEF DeliveryInv, GroupedInv
  <2> QED  BY <2>2, <2>3, <2>4
<1>13. \A r, x, i, k, t, c : Lies(r, x, i, k, t, c) /\ t \in ToSet(put) /\ ~MayBeDropped(t) =>
         \E r2, x2, i2, k2, c2 : Lies(r2, x2, i2, k2, t, c2)'
  <2> SUFFICES ASSUME NEW r \in 1..6, NEW x, NEW i, NEW k, NEW t, NEW c, Lies(r, x, i, k, t, c)
               PROVE  \E r2, x2, i2, k2, c2 : Lies(r2, x2, i2, k2, t, c2)'
    BY Somewhere
  <2>1. CASE r \in {1, 2, 5, 6}  BY <1>3, <2>1
  <2>2. CASE r = 3  BY <1>6, <2>2
  <2>3. CASE r = 4 /\ x # e  BY <1>7, <2>3
  <2>4. CASE r = 4 /\ x = e
    <3>1. k \in DOMAIN e.responses /\ t = e.responses[k] /\ c = e.channel  BY <1>8, <2>4
    <3>2. PICK y, m : y = o /\ m = n + 1  OBVIOUS
    <3>3. Lies(3, y, m, k, t, c)'  BY <1>6, <3>1, <3>2
    <3> QED  BY <3>3
  <2>5. r \in {1, 2, 5, 6} \/ r = 3 \/ r = 4  OBVIOUS
  <2> QED  BY <2>1, <2>2, <2>3, <2>4, <2>5
<1>14. GroupedInv'  BY <1>2 DEF DeliveryInv, GroupedInv
<1>15. PICK a \in 2..5 : a = 3 /\ a + 1 = 4  OBVIOUS
<1> QED  BY <1>1, <1>2, <1>10, <1>11, <1>12, <1>13, <1>14, <1>15, DownMoves

\* The loop takes what is in the mailbox into its hands.
LEMMA RetrieveMoves ==
  ASSUME OutgoingInv, SingleInv, DeliveryInv, RetrieveEnvelopes
  PROVE  DeliveryInv'
<1> DEFINE o == loop.outgoing  bs == boxes["mailbox"]
<1>1. TypeInv  BY DEF OutgoingInv
<1>2. /\ o \in 1..Len(bs) /\ bs[o] \in Seq(Envelope)
      /\ loop.scheduled = {} /\ loop.messages = <<>> /\ loop.taken = <<>>
      /\ UNCHANGED <<task, speeches, attempts, put, raced>>
  BY RetrieveIs
<1>3. \/ loop' = IdleLoop /\ boxes' = boxes
      \/ /\ loop'.taken = bs[o] /\ loop'.scheduled = {} /\ loop'.messages = <<>>
         /\ boxes'["mailbox"] = [bs EXCEPT ![o] = <<>>] /\ boxes'["queue"] = boxes["queue"]
  BY RetrieveIs
<1>4. CASE loop' = IdleLoop /\ boxes' = boxes
  <2>1. loop'.taken = <<>> /\ loop'.scheduled = {} /\ loop'.messages = <<>>
    BY <1>4, IdleIsLoop
  <2> QED  BY <1>1, <1>2, <1>4, <2>1, NothingMoved
<1>5. CASE /\ loop'.taken = bs[o] /\ loop'.scheduled = {} /\ loop'.messages = <<>>
           /\ boxes'["mailbox"] = [bs EXCEPT ![o] = <<>>] /\ boxes'["queue"] = boxes["queue"]
  <2>1. \A r \in {1, 4, 5, 6} : \A x, i, k, t, c : Lies(r, x, i, k, t, c)' <=> Lies(r, x, i, k, t, c)
    BY <1>2, <1>5, Unmoved
  <2>2. \A x, i, k, t, c : ~Lies(2, x, i, k, t, c)  BY <1>2, Nowhere
  <2>3. \A i, k, t, c : Lies(3, o, i, k, t, c) <=> LiesIn(bs[o], i, k, t, c)
    BY <1>1, <1>2 DEF Lies, Mailed, TypeInv
  <2>4. \A x, i, k, t, c : Lies(2, x, i, k, t, c)' <=> x = 0 /\ Lies(3, o, i, k, t, c)
    <3>1. \A x, i, k, t, c : Lies(2, x, i, k, t, c)' <=> x = 0 /\ LiesIn(loop'.taken, i, k, t, c)
      BY DEF Lies, Taken, LiesIn
    <3> HIDE DEF o, bs
    <3> QED  BY <1>5, <2>3, <3>1
  <2>5. \A x, i, k, t, c : Lies(3, x, i, k, t, c)' <=> x # o /\ Lies(3, x, i, k, t, c)
    <3>1. PICK b : b = <<>>  OBVIOUS
    <3>2. \A i, k, t, c : ~LiesIn(b, i, k, t, c)  BY <3>1 DEF LiesIn
    <3>3. boxes'["mailbox"] = [boxes["mailbox"] EXCEPT ![o] = b] /\ o \in 1..Len(boxes["mailbox"])
      BY <1>2, <1>5, <3>1
    <3> HIDE DEF o, bs
    <3>4. \A x, i, k, t, c : Lies(3, x, i, k, t, c)' <=>
            (x # o /\ Lies(3, x, i, k, t, c)) \/ (x = o /\ LiesIn(b, i, k, t, c))
      BY <1>1, <3>3, BoxReplaced
    <3> QED  BY <3>2, <3>4
  <2> HIDE DEF o, bs
  <2>6. \A x, i, k, t, c : Arrived(2, x, i, k, t, c) => x = 0 /\ Lies(3, o, i, k, t, c)
    BY <2>4 DEF Arrived
  <2>7. \A r, x, i, k, t, c : Lies(r, x, i, k, t, c)' =>
          \/ Lies(r, x, i, k, t, c)
          \/ r = 2 /\ \E y, j, l : Lies(3, y, j, l, t, c) /\ \A d : ~Lies(3, y, j, l, t, d)'
    <3> SUFFICES ASSUME NEW r \in 1..6, NEW x, NEW i, NEW k, NEW t, NEW c,
                        Lies(r, x, i, k, t, c)', ~Lies(r, x, i, k, t, c)
                 PROVE  r = 2 /\ \E y, j, l : Lies(3, y, j, l, t, c) /\ \A d : ~Lies(3, y, j, l, t, d)'
      BY Somewhere
    <3>1. r = 2
      <4>1. r \in {1, 4, 5, 6} \/ r = 2 \/ r = 3  OBVIOUS
      <4> QED  BY <2>1, <2>5, <4>1
    <3>2. PICK y : y = o  OBVIOUS
    <3>3. Lies(3, y, i, k, t, c)  BY <2>6, <3>1, <3>2 DEF Arrived
    <3>4. \A d : ~Lies(3, y, i, k, t, d)'  BY <2>5, <3>2
    <3> QED  BY <3>1, <3>3, <3>4
  <2>8. \A x, i, k, c, x2, i2, k2, c2, t :
          Arrived(2, x, i, k, t, c) /\ Arrived(2, x2, i2, k2, t, c2) /\ t.from # Commentator
            => x = x2 /\ i = i2 /\ k = k2
    BY <2>6 DEF DeliveryInv, OnceInv
  <2>9. ASSUME raced = {}, NEW x, NEW i, NEW k, NEW s, NEW x2, NEW i2, NEW k2, NEW t, NEW c,
               Arrived(2, x, i, k, s, c)
        PROVE  /\ Arrived(2, x2, i2, k2, t, c) /\ Sooner(2, i, k, 2, i2, k2) =>
                    \E y, j, l, y2, j2, l2 : /\ Lies(3, y, j, l, s, c) /\ Lies(3, y2, j2, l2, t, c)
                                             /\ Sooner(3, j, l, 3, j2, l2)
               /\ Lies(2, x2, i2, k2, t, c) => ~Sooner(2, i, k, 2, i2, k2)
               /\ ~Lies(3, x2, i2, k2, t, c)'
    <3>1. ASSUME Arrived(2, x2, i2, k2, t, c), Sooner(2, i, k, 2, i2, k2)
          PROVE  \E y, j, l, y2, j2, l2 : /\ Lies(3, y, j, l, s, c) /\ Lies(3, y2, j2, l2, t, c)
                                          /\ Sooner(3, j, l, 3, j2, l2)
      <4>1. Lies(3, o, i, k, s, c) /\ Lies(3, o, i2, k2, t, c)  BY <2>6, <2>9, <3>1
      <4>2. Sooner(3, i, k, 3, i2, k2)  BY <3>1 DEF Sooner
      <4> QED  BY <4>1, <4>2
    <3>2. ~Lies(3, x2, i2, k2, t, c)'
      <4> SUFFICES ASSUME Lies(3, x2, i2, k2, t, c)' PROVE FALSE  OBVIOUS
      <4>1. x2 # o /\ Lies(3, x2, i2, k2, t, c)  BY <2>5
      <4>2. \A r \in {3, 6} : \A x0, i0, k0, t0, c0 : Lies(r, x0, i0, k0, t0, c0) =>
              x0 \in 1..Len(boxes[IF r = 3 THEN "mailbox" ELSE "queue"])
        BY <1>1, <2>9, OnlyBox
      <4>3. x2 \in 1..Len(boxes["mailbox"])  BY <4>1, <4>2
      <4>4. \A y \in 1..Len(boxes["mailbox"]), z \in 1..Len(boxes["mailbox"]) : y = z
        BY <1>1, <2>9, OnlyBox
      <4> QED  BY <1>2, <4>1, <4>3, <4>4 DEF bs
    <3> QED  BY <2>2, <3>1, <3>2
  <2>10. \A r, x, i, k, t, c : Lies(r, x, i, k, t, c) /\ t \in ToSet(put) /\ ~MayBeDropped(t) =>
           \E r2, x2, i2, k2, c2 : Lies(r2, x2, i2, k2, t, c2)'
    <3> SUFFICES ASSUME NEW r \in 1..6, NEW x, NEW i, NEW k, NEW t, NEW c, Lies(r, x, i, k, t, c)
                 PROVE  \E r2, x2, i2, k2, c2 : Lies(r2, x2, i2, k2, t, c2)'
      BY Somewhere
    <3>1. CASE r \in {1, 4, 5, 6}  BY <2>1, <3>1
    <3>2. CASE r = 2  BY <2>2, <3>2
    <3>3. CASE r = 3 /\ x # o  BY <2>5, <3>3
    <3>4. CASE r = 3 /\ x = o
      <4>1. Lies(2, 0, i, k, t, c)'  BY <2>4, <3>4
      <4> QED  BY <4>1
    <3>5. r \in {1, 4, 5, 6} \/ r = 2 \/ r = 3  OBVIOUS
    <3> QED  BY <3>1, <3>2, <3>3, <3>4, <3>5
  <2>11. GroupedInv'  BY <1>5 DEF GroupedInv
  <2>12. PICK a \in 2..5 : a = 2 /\ a + 1 = 3  OBVIOUS
  <2> QED  BY <1>1, <1>2, <2>7, <2>8, <2>9, <2>10, <2>11, <2>12, DownMoves
<1> QED  BY <1>3, <1>4, <1>5

\* What a schedule has to say of its own is new, and nothing that was put.
LEMMA SchedulerMoves ==
  ASSUME OutgoingInv, DeliveryInv, ManicMinuteScheduler \/ CommentateScheduler
  PROVE  DeliveryInv'
<1>1. TypeInv /\ speeches \in Nat  BY DEF OutgoingInv, TypeInv
<1>2. PICK q \in 1..3, ms \in Seq(Note) :
         /\ RunSchedule(Schedules[q], ms)
         /\ \A j \in DOMAIN ms :
              /\ j = 1
              /\ ms[j].text.from = Commentator \/ ms[j].text.from = Minute
              /\ ms[j].text.from = Minute => ms[j].text.n = speeches + 1 /\ speeches' = speeches + 1
         /\ speeches' = speeches \/ speeches' = speeches + 1
         /\ UNCHANGED <<boxes, raced, task, attempts, put>>
  <2>1. CASE ManicMinuteScheduler
    <3>0. PICK q \in 1..3 : q = 2  OBVIOUS
    <3>1. PICK ms \in Seq(Note) :
             /\ RunSchedule(Schedules[q], ms)
             /\ \/ ms = <<>> /\ speeches' = speeches
                \/ /\ speeches' = speeches + 1
                   /\ \E c \in Channels : ms = <<MinuteNote(c, speeches + 1)>>
             /\ UNCHANGED <<boxes, raced, task, attempts, put>>
      BY <1>1, <2>1, <3>0, MinuteIs
    <3>2. CASE ms = <<>> /\ speeches' = speeches
      <4>1. \A j \in DOMAIN ms : FALSE  BY <3>2
      <4> QED  BY <3>1, <3>2, <4>1
    <3>3. CASE speeches' = speeches + 1 /\ \E c \in Channels : ms = <<MinuteNote(c, speeches + 1)>>
      <4>1. PICK m : /\ ms = <<m>> /\ m.text.from = Minute /\ m.text.n = speeches + 1
        <5>1. PICK c \in Channels : ms = <<MinuteNote(c, speeches + 1)>>  BY <3>3
        <5> DEFINE m == MinuteNote(c, speeches + 1)
        <5>2. m.text.from = Minute /\ m.text.n = speeches + 1  BY DEF MinuteNote
        <5> HIDE DEF m
        <5> QED  BY <5>1, <5>2 DEF m
      <4>2. \A j \in DOMAIN ms : j = 1 /\ ms[j] = m  BY <4>1
      <4>3. \A j \in DOMAIN ms :
              /\ j = 1
              /\ ms[j].text.from = Commentator \/ ms[j].text.from = Minute
              /\ ms[j].text.from = Minute => ms[j].text.n = speeches + 1 /\ speeches' = speeches + 1
        BY <3>3, <4>1, <4>2
      <4> QED  BY <3>1, <3>3, <4>3
    <3> QED  BY <3>1, <3>2, <3>3
  <2>2. CASE CommentateScheduler
    <3>0. PICK q \in 1..3 : q = 3  OBVIOUS
    <3>1. PICK ms \in Seq(Note) :
             /\ RunSchedule(Schedules[q], ms)
             /\ ms = <<>> \/ \E kind \in {"text", "blank"} : ms = <<Comment(kind)>>
             /\ speeches' = speeches
             /\ UNCHANGED <<boxes, raced, task, attempts, put>>
      BY <1>1, <2>2, <3>0, CommentIs
    <3>2. CASE ms = <<>>
      <4>1. \A j \in DOMAIN ms : FALSE  BY <3>2
      <4> QED  BY <3>1, <4>1
    <3>3. CASE \E kind \in {"text", "blank"} : ms = <<Comment(kind)>>
      <4>1. PICK m : ms = <<m>> /\ m.text.from = Commentator
        <5>1. PICK kind \in {"text", "blank"} : ms = <<Comment(kind)>>  BY <3>3
        <5> DEFINE m == Comment(kind)
        <5>2. m.text.from = Commentator  BY DEF Comment
        <5> HIDE DEF m
        <5> QED  BY <5>1, <5>2 DEF m
      <4>2. \A j \in DOMAIN ms : j = 1 /\ ms[j] = m  BY <4>1
      <4>3. Minute # Commentator  BY <1>1, WhoIsWho
      <4> QED  BY <3>1, <4>1, <4>2, <4>3
    <3> QED  BY <3>1, <3>2, <3>3
  <2> QED  BY <2>1, <2>2
<1> DEFINE us == NotEmpty(ms)  n == Len(loop.messages)  S == {i \in DOMAIN ms : ms[i].text.kind # "blank"}
<1>3. /\ loop'.messages = loop.messages \o us /\ us \in Seq(Note)
      /\ loop'.scheduled = loop.scheduled /\ loop'.taken = loop.taken
  <2>1. TypeInv /\ RunSchedule(Schedules[q], ms)  BY <1>1, <1>2
  <2> QED  BY <2>1, RunScheduleIs
<1>4. /\ \A j \in DOMAIN us : Nth(S, j) \in S /\ us[j] = ms[Nth(S, j)]
      /\ \A j, l \in DOMAIN us : Nth(S, j) = Nth(S, l) => j = l
  BY NotEmptyIs
<1>5. loop.messages \in Seq(Note)  BY <1>1 DEF TypeInv, LoopType
<1>6. \A j \in DOMAIN us : \E i \in DOMAIN ms : us[j] = ms[i]
  <2>1. S \subseteq DOMAIN ms  OBVIOUS
  <2> QED  BY <1>4, <2>1
<1>7. \A j, l \in DOMAIN us : j = l
  <2>1. \A i \in S : i = 1  BY <1>2
  <2> HIDE DEF S, us
  <2> QED  BY <1>4, <2>1
<1> HIDE DEF us, S
<1>8. \A x, i, k, t, c : Lies(5, x, i, k, t, c)' <=>
        \/ Lies(5, x, i, k, t, c)
        \/ x = 0 /\ \E j \in DOMAIN us : i = n + j /\ NotedIn(us, j, k, t, c)
  <2>1. \A x, i, k, t, c : Lies(5, x, i, k, t, c) <=> x = 0 /\ NotedIn(loop.messages, i, k, t, c)
    BY DEF Lies, Collected
  <2>2. \A x, i, k, t, c : Lies(5, x, i, k, t, c)' <=> x = 0 /\ NotedIn(loop'.messages, i, k, t, c)
    BY DEF Lies, Collected, NotedIn
  <2>3. \A i, k, t, c : NotedIn(loop.messages \o us, i, k, t, c) <=>
              \/ NotedIn(loop.messages, i, k, t, c)
              \/ \E j \in DOMAIN us : i = n + j /\ NotedIn(us, j, k, t, c)
    BY <1>3, <1>5, NotedConcat
  <2> HIDE DEF n
  <2> QED  BY <1>3, <2>1, <2>2, <2>3
<1>9. \A r \in {1, 2, 3, 4, 6} : \A x, i, k, t, c : Lies(r, x, i, k, t, c)' <=> Lies(r, x, i, k, t, c)
  BY <1>2, <1>3, Unmoved
<1> HIDE DEF n
<1>10. \A r, x, i, k, t, c : Lies(r, x, i, k, t, c)' =>
         \/ Lies(r, x, i, k, t, c)
         \/ /\ r = 5 /\ x = 0 /\ k = 0 /\ \E j \in DOMAIN us : i = n + j
            /\ t.from = Commentator \/ t.from = Minute
            /\ t.from = Minute => t.n = speeches + 1 /\ speeches' = speeches + 1
  <2> SUFFICES ASSUME NEW r \in 1..6, NEW x, NEW i, NEW k, NEW t, NEW c,
                      Lies(r, x, i, k, t, c)', ~Lies(r, x, i, k, t, c)
               PROVE  /\ r = 5 /\ x = 0 /\ k = 0 /\ \E j \in DOMAIN us : i = n + j
                      /\ t.from = Commentator \/ t.from = Minute
                      /\ t.from = Minute => t.n = speeches + 1 /\ speeches' = speeches + 1
    BY Somewhere
  <2>1. r = 5
    <3>1. r \in {1, 2, 3, 4, 6} \/ r = 5  OBVIOUS
    <3> QED  BY <1>9, <3>1
  <2>2. PICK j \in DOMAIN us : x = 0 /\ i = n + j /\ NotedIn(us, j, k, t, c)  BY <1>8, <2>1
  <2>3. k = 0 /\ t = us[j].text  BY <2>2 DEF NotedIn
  <2>4. PICK i1 \in DOMAIN ms : us[j] = ms[i1]  BY <1>6
  <2> QED  BY <1>2, <2>1, <2>2, <2>3, <2>4
<1>11. \A r, x, i, k, t, c : Lies(r, x, i, k, t, c) => Lies(r, x, i, k, t, c)'
  <2> SUFFICES ASSUME NEW r \in 1..6, NEW x, NEW i, NEW k, NEW t, NEW c, Lies(r, x, i, k, t, c)
               PROVE  Lies(r, x, i, k, t, c)'
    BY Somewhere
  <2>1. r \in {1, 2, 3, 4, 6} \/ r = 5  OBVIOUS
  <2> QED  BY <1>8, <1>9, <2>1
<1>12. Minute \notin Goroutines /\ Commentator \notin Goroutines  BY <1>1, WhoIsWho
<1> USE DEF DeliveryInv
<1>13. SaidInv'
  <2> SUFFICES ASSUME NEW r, NEW x, NEW i, NEW k, NEW t, NEW c, Lies(r, x, i, k, t, c)'
               PROVE  /\ t.from \in Goroutines => /\ t \in ToSet(put) /\ c = task[t.from].channel
                                                  /\ r \in 4..6 => task[t.from].kind = "note"
                      /\ t.from = Minute => t.n <= speeches'
                      /\ r = 1 => t.from # Commentator
    BY <1>2 DEF SaidInv
  <2>1. CASE Lies(r, x, i, k, t, c)
    <3>1. /\ t.from \in Goroutines => /\ t \in ToSet(put) /\ c = task[t.from].channel
                                      /\ r \in 4..6 => task[t.from].kind = "note"
          /\ t.from = Minute => t.n <= speeches
          /\ r = 1 => t.from # Commentator
      BY <2>1 DEF SaidInv
    <3>2. t \in Text  BY <1>1, <2>1, LiesTypes
    <3>3. t.n \in Nat  BY <3>2 DEF Text
    <3> QED  BY <1>1, <1>2, <3>1, <3>3
  <2>2. CASE ~Lies(r, x, i, k, t, c)
    <3>1. /\ r = 5 /\ (t.from = Commentator \/ t.from = Minute)
          /\ t.from = Minute => t.n = speeches + 1 /\ speeches' = speeches + 1
      BY <1>10, <2>2
    <3> QED  BY <1>1, <1>12, <3>1
  <2> QED  BY <2>1, <2>2
<1>14. GroupedInv'  BY <1>3 DEF GroupedInv
<1>15. ASSUME NEW r, NEW x, NEW i, NEW k, NEW c, NEW r2, NEW x2, NEW i2, NEW k2, NEW c2, NEW t,
              Lies(r, x, i, k, t, c)', Lies(r2, x2, i2, k2, t, c2)', t.from # Commentator,
              ~Lies(r, x, i, k, t, c)
       PROVE  r = r2 /\ x = x2 /\ i = i2 /\ k = k2
  <2>1. /\ r = 5 /\ x = 0 /\ k = 0 /\ \E j \in DOMAIN us : i = n + j
        /\ t.from = Minute /\ t.n = speeches + 1
    BY <1>10, <1>15
  <2>2. ~Lies(r2, x2, i2, k2, t, c2)
    <3> SUFFICES ASSUME Lies(r2, x2, i2, k2, t, c2) PROVE FALSE  OBVIOUS
    <3>1. t.n <= speeches  BY <2>1 DEF SaidInv
    <3> QED  BY <1>1, <2>1, <3>1
  <2>3. r2 = 5 /\ x2 = 0 /\ k2 = 0 /\ \E j \in DOMAIN us : i2 = n + j
    BY <1>10, <1>15, <2>2
  <2> QED  BY <1>7, <2>1, <2>3
<1>16. OnceInv'
  <2> SUFFICES ASSUME NEW r, NEW x, NEW i, NEW k, NEW c, NEW r2, NEW x2, NEW i2, NEW k2, NEW c2, NEW t,
                      Lies(r, x, i, k, t, c)', Lies(r2, x2, i2, k2, t, c2)', t.from # Commentator
               PROVE  r = r2 /\ x = x2 /\ i = i2 /\ k = k2
    BY DEF OnceInv
  <2>1. CASE Lies(r, x, i, k, t, c) /\ Lies(r2, x2, i2, k2, t, c2)  BY <2>1 DEF OnceInv
  <2>2. CASE ~Lies(r, x, i, k, t, c)  BY <1>15, <2>2
  <2>3. CASE ~Lies(r2, x2, i2, k2, t, c2)
    <3>1. r2 = r /\ x2 = x /\ i2 = i /\ k2 = k  BY <1>15, <2>3
    <3> QED  BY <3>1
  <2> QED  BY <2>1, <2>2, <2>3
<1>17. OrderInv'
  <2> SUFFICES ASSUME raced = {},
                      NEW r, NEW x, NEW i, NEW k, NEW s, NEW r2, NEW x2, NEW i2, NEW k2, NEW t, NEW c,
                      Lies(r, x, i, k, s, c)', Lies(r2, x2, i2, k2, t, c)',
                      s.from \in Goroutines, t.from \in Goroutines, CellOf(s.from)' = CellOf(t.from)',
                      Sooner(r, i, k, r2, i2, k2)
               PROVE  Position(put, s) < Position(put, t)
    BY <1>2 DEF OrderInv
  <2>1. CellOf(s.from) = CellOf(t.from)  BY <1>1, <1>2, WordsStay
  <2>2. Lies(r, x, i, k, s, c) /\ Lies(r2, x2, i2, k2, t, c)  BY <1>10, <1>12
  <2> QED  BY <2>1, <2>2 DEF OrderInv
<1>18. FoundInv'
  <2> SUFFICES ASSUME NEW t \in ToSet(put), ~MayBeDropped(t)'
               PROVE  \E r, x, i, k, c : Lies(r, x, i, k, t, c)'
    BY <1>2 DEF FoundInv
  <2>1. ~MayBeDropped(t)  BY <1>1, <1>2, WordsStay
  <2>2. PICK r, x, i, k, c : Lies(r, x, i, k, t, c)  BY <2>1 DEF FoundInv
  <2> QED  BY <1>11, <2>2
<1> QED  BY <1>13, <1>14, <1>16, <1>17, <1>18

\* Where in a sequence without repetitions an element is.
LEMMA PositionIs ==
  ASSUME NEW s, \A i, j \in DOMAIN s : s[i] = s[j] => i = j, NEW i \in DOMAIN s
  PROVE  Position(s, s[i]) = i
BY DEF Position

\* Only who is done has put anything, so nothing of who is about to is among it.
LEMMA Unsaid ==
  ASSUME TypeInv, PutInv, NEW g \in Goroutines, at[g] # "done"
  PROVE  \A t \in ToSet(put) : t.from \in Goroutines \ {g}
<1> SUFFICES ASSUME NEW t \in ToSet(put) PROVE t.from \in Goroutines \ {g}  OBVIOUS
<1>1. PICK j \in DOMAIN put : t = put[j]  BY DEF ToSet
<1>2. PICK h \in Goroutines : /\ at[h] = "done" /\ put[j].n \in DOMAIN Texts(h)
                              /\ put[j] = Texts(h)[put[j].n]
  BY DEF PutInv
<1>3. t.from = h  BY <1>1, <1>2, TextsType
<1> QED  BY <1>2, <1>3

\* The history of what was put, after a goroutine has.
LEMMA PutGrows ==
  ASSUME OutgoingInv, PutInv, NEW g \in Goroutines, Put(g)
  PROVE  LET T == Texts(g)  P == Len(put)
         IN /\ PutInv'
            /\ P \in Nat /\ ToSet(put') = ToSet(put) \cup ToSet(T)
            /\ \A t \in ToSet(put) : Position(put', t) = Position(put, t) /\ Position(put, t) \in 1..P
            /\ \A m \in DOMAIN T : Position(put', T[m]) = P + m
<1> DEFINE T == Texts(g)  P == Len(put)  L == Len(T)
<1>1. TypeInv  BY DEF OutgoingInv
<1>2. put' = put \o T /\ task' = task  BY DEF Put
<1>3. /\ T \in Seq(Text) /\ L \in Nat /\ DOMAIN T = 1..L
      /\ \A m \in DOMAIN T : T[m].from = g /\ T[m].n = m
  BY <1>1, TextsType
<1>4. put \in Seq(Text)  BY <1>1 DEF TypeInv
<1>5. /\ P \in Nat /\ DOMAIN put = 1..P /\ DOMAIN put' = 1..P + L
      /\ (\A i \in 1..P : put'[i] = put[i]) /\ \A m \in 1..L : put'[P + m] = T[m]
  <2> HIDE DEF T
  <2> QED  BY <1>2, <1>3, <1>4
<1>6. at[g] # "done" /\ at'[g] = "done" /\ g \in Actors /\ \A a \in Actors \ {g} : at'[a] = at[a]
  BY <1>1, PutIs, WhoIsWho
<1>7. \A i \in 1..P : put[i] \in ToSet(put) /\ put[i].from \in Goroutines \ {g}
  BY <1>1, <1>5, <1>6, Unsaid DEF ToSet
<1>8. \A h \in Goroutines : Texts(h)' = Texts(h)  BY <1>1, <1>2, TaskStays
<1>9. T = Texts(g)  OBVIOUS
<1> HIDE DEF T, P, L
<1>10. \A i \in 1..P + L : i \in 1..P \/ \E m \in 1..L : i = P + m
  <2> SUFFICES ASSUME NEW i \in 1..P + L, i \notin 1..P PROVE \E m \in 1..L : i = P + m  OBVIOUS
  <2>1. i - P \in 1..L /\ i = P + (i - P)  BY <1>3, <1>5
  <2> QED  BY <2>1
<1>11. \A i, j \in DOMAIN put' : put'[i] = put'[j] => i = j
  <2> SUFFICES ASSUME NEW i \in 1..P + L, NEW j \in 1..P + L, put'[i] = put'[j] PROVE i = j
    BY <1>5
  <2>1. CASE i \in 1..P /\ j \in 1..P
    <3>1. put[i] = put[j] /\ i \in DOMAIN put /\ j \in DOMAIN put  BY <1>5, <2>1
    <3> QED  BY <3>1 DEF PutInv
  <2>2. CASE i \in 1..P /\ j \notin 1..P
    <3>1. PICK m \in 1..L : j = P + m  BY <1>10, <2>2
    <3>2. put'[j] = T[m] /\ T[m].from = g  BY <1>3, <1>5, <3>1
    <3>3. put'[i] = put[i] /\ put[i].from # g  BY <1>5, <1>7, <2>2
    <3> QED  BY <3>2, <3>3
  <2>3. CASE i \notin 1..P /\ j \in 1..P
    <3>1. PICK m \in 1..L : i = P + m  BY <1>10, <2>3
    <3>2. put'[i] = T[m] /\ T[m].from = g  BY <1>3, <1>5, <3>1
    <3>3. put'[j] = put[j] /\ put[j].from # g  BY <1>5, <1>7, <2>3
    <3> QED  BY <3>2, <3>3
  <2>4. CASE i \notin 1..P /\ j \notin 1..P
    <3>1. PICK m \in 1..L : i = P + m  BY <1>10, <2>4
    <3>2. PICK l \in 1..L : j = P + l  BY <1>10, <2>4
    <3>3. T[m] = T[l]  BY <1>5, <3>1, <3>2
    <3>4. m = l  BY <1>3, <3>3
    <3> QED  BY <3>1, <3>2, <3>4
  <2> QED  BY <2>1, <2>2, <2>3, <2>4
<1>12. ASSUME NEW i \in DOMAIN put'
       PROVE  \E h \in Goroutines : at'[h] = "done" /\ put'[i].n \in DOMAIN Texts(h)'
                                    /\ put'[i] = Texts(h)'[put'[i].n]
  <2>1. CASE i \in 1..P
    <3>1. PICK h \in Goroutines : /\ at[h] = "done" /\ put[i].n \in DOMAIN Texts(h)
                                  /\ put[i] = Texts(h)[put[i].n]
      BY <1>5, <2>1 DEF PutInv
    <3>2. h \in Actors \ {g} /\ Texts(h)' = Texts(h)  BY <1>6, <1>8, <3>1 DEF Actors
    <3>3. at'[h] = "done" /\ put'[i] = put[i]  BY <1>5, <1>6, <2>1, <3>1, <3>2
    <3> QED  BY <3>1, <3>2, <3>3
  <2>2. CASE i \notin 1..P
    <3>1. PICK m \in 1..L : i = P + m  BY <1>5, <1>10, <2>2
    <3>2. put'[i] = T[m] /\ put'[i].n = m /\ m \in DOMAIN T  BY <1>3, <1>5, <3>1
    <3>3. Texts(g)' = T  BY <1>8, <1>9
    <3> QED  BY <1>6, <3>2, <3>3
  <2> QED  BY <2>1, <2>2
<1>13. PutInv'  BY <1>11, <1>12 DEF PutInv
<1>14. \A t \in ToSet(put) : Position(put', t) = Position(put, t) /\ Position(put, t) \in 1..P
  <2> SUFFICES ASSUME NEW t \in ToSet(put)
               PROVE  Position(put', t) = Position(put, t) /\ Position(put, t) \in 1..P
    OBVIOUS
  <2>1. PICK i \in 1..P : t = put[i]  BY <1>5 DEF ToSet
  <2>2. \A i1, j1 \in DOMAIN put : put[i1] = put[j1] => i1 = j1  BY DEF PutInv
  <2>3. Position(put, put[i]) = i  BY <1>5, <2>2, PositionIs
  <2> DEFINE u == put'
  <2>4. i \in DOMAIN u /\ u[i] = t /\ \A i1, j1 \in DOMAIN u : u[i1] = u[j1] => i1 = j1
    BY <1>3, <1>5, <1>11, <2>1
  <2> HIDE DEF u
  <2>5. Position(u, u[i]) = i  BY <2>4, PositionIs
  <2> QED  BY <2>1, <2>3, <2>4, <2>5 DEF u
<1>15. \A m \in DOMAIN T : Position(put', T[m]) = P + m
  <2> SUFFICES ASSUME NEW m \in 1..L PROVE Position(put', T[m]) = P + m  BY <1>3
  <2> DEFINE u == put'
  <2>1. P + m \in DOMAIN u /\ u[P + m] = T[m] /\ \A i1, j1 \in DOMAIN u : u[i1] = u[j1] => i1 = j1
    BY <1>3, <1>5, <1>11
  <2> HIDE DEF u
  <2>2. Position(u, u[P + m]) = P + m  BY <2>1, PositionIs
  <2> QED  BY <2>1, <2>2 DEF u
<1>16. ToSet(put') = ToSet(put) \cup ToSet(T)
  <2>1. ToSet(put') = {put'[i] : i \in 1..P + L} /\ ToSet(put) = {put[i] : i \in 1..P}
        /\ ToSet(T) = {T[i] : i \in 1..L}
    BY <1>3, <1>5 DEF ToSet
  <2>2. \A i \in 1..P : i \in 1..P + L  BY <1>3, <1>5
  <2>3. \A m \in 1..L : P + m \in 1..P + L  BY <1>3, <1>5
  <2> QED  BY <1>5, <1>10, <2>1, <2>2, <2>3
<1> QED  BY <1>5, <1>9, <1>13, <1>14, <1>15, <1>16 DEF P

\* And where it lies.
LEMMA PutWhere ==
  ASSUME OutgoingInv, NEW g \in Goroutines, Put(g)
  PROVE  LET T == Texts(g)  h == held[g]  n == Len(boxes[CellOf(g)][h])
             new == IF CellOf(g) = "mailbox" THEN 3 ELSE 6
         IN /\ CellOf(g) \in Cells /\ h \in 1..Len(boxes[CellOf(g)]) /\ n \in Nat
            /\ CellOf(g) = "queue" => DOMAIN T = {1}
            /\ \A i, k, t, d : Lies(new, h, i, k, t, d) => i \in 1..n
            /\ \A r, x, i, k, t, d : Lies(r, x, i, k, t, d)' <=>
                 \/ Lies(r, x, i, k, t, d)
                 \/ /\ r = new /\ x = h /\ i = n + 1 /\ d = task[g].channel
                    /\ \E m \in DOMAIN T : t = T[m] /\ k = IF new = 3 THEN m ELSE 0
<1> DEFINE c == CellOf(g)  h == held[g]  T == Texts(g)  n == Len(boxes[c][h])  d0 == task[g].channel
           item == IF task[g].kind = "note"
                   THEN [channel |-> task[g].channel, text |-> Texts(g)[1]]
                   ELSE [channel |-> task[g].channel, responses |-> Texts(g)]
<1>1. TypeInv  BY DEF OutgoingInv
<1>2. UNCHANGED <<loop, attempts>>  BY DEF Put
<1>3. /\ c \in Cells /\ h \in 1..Len(boxes[c])
      /\ boxes'[c] = [boxes[c] EXCEPT ![h] = Append(boxes[c][h], item)]
      /\ \A d \in Cells \ {c} : boxes'[d] = boxes[d]
  BY PutIs
<1>4. (c = "queue" <=> task[g].kind = "note") /\ "queue" \in Cells /\ "mailbox" \in Cells
      /\ (c = "queue" \/ c = "mailbox")
  BY <1>1, <1>3, WhoIsWho DEF Cells
<1>5. DOMAIN T = 1..Len(T) /\ (task[g].kind # "answer" => Len(T) = 1)  BY <1>1, TextsType
<1>6. /\ c = "queue" => item.text = T[1] /\ item.channel = d0
      /\ c = "mailbox" => item.responses = T /\ item.channel = d0
  BY <1>4
<1>7. boxes["mailbox"] \in Seq(Seq(Envelope)) /\ boxes["queue"] \in Seq(Seq(QueueNote))
  BY <1>1 DEF TypeInv
<1>8. c = "queue" => DOMAIN T = {1}
  <2> HIDE DEF T
  <2> QED  BY <1>4, <1>5
<1>9. c = "queue" => boxes["queue"][h] \in Seq(QueueNote)  BY <1>3, <1>7
<1>10. c = "mailbox" => boxes["mailbox"][h] \in Seq(Envelope)  BY <1>3, <1>7
<1>11. n \in Nat  BY <1>4, <1>9, <1>10
<1>12. CellOf(g) = c /\ held[g] = h /\ Texts(g) = T /\ task[g].channel = d0
       /\ Len(boxes[c][h]) = n
  OBVIOUS
<1> HIDE DEF item, T, c, h, d0, n
<1>13. \A r \in {1, 2, 4, 5} : \A x, i, k, t, d : Lies(r, x, i, k, t, d)' <=> Lies(r, x, i, k, t, d)
  BY <1>2, Unmoved
<1>14. ASSUME c = "queue"
       PROVE  /\ \A x, i, k, t, d : Lies(6, x, i, k, t, d)' <=>
                   \/ Lies(6, x, i, k, t, d)
                   \/ x = h /\ i = n + 1 /\ k = 0 /\ t = T[1] /\ d = d0
              /\ \A i, k, t, d : Lies(6, h, i, k, t, d) => i \in 1..n
              /\ \A x, i, k, t, d : Lies(3, x, i, k, t, d)' <=> Lies(3, x, i, k, t, d)
  <2> DEFINE ms == boxes["queue"][h]  b == Append(ms, item)
  <2>1. ms \in Seq(QueueNote) /\ n = Len(ms)  BY <1>9, <1>12, <1>14
  <2>2. h \in 1..Len(boxes["queue"]) /\ boxes'["queue"] = [boxes["queue"] EXCEPT ![h] = b]
    BY <1>3, <1>14
  <2>3. \A i, k, t, d : Lies(6, h, i, k, t, d) <=> NotedIn(ms, i, k, t, d)
    BY <1>1, <2>2 DEF Lies, Queued, TypeInv
  <2>4. boxes'["mailbox"] = boxes["mailbox"]  BY <1>3, <1>4, <1>14
  <2> HIDE DEF ms
  <2>5. /\ \A i, k, t, d : NotedIn(b, i, k, t, d) <=>
             \/ NotedIn(ms, i, k, t, d)
             \/ i = n + 1 /\ k = 0 /\ t = item.text /\ d = item.channel
        /\ \A i, k, t, d : NotedIn(ms, i, k, t, d) => i \in 1..n
    BY <2>1, NotedAppend
  <2> HIDE DEF b
  <2>6. \A x, i, k, t, d : Lies(6, x, i, k, t, d)' <=>
          (x # h /\ Lies(6, x, i, k, t, d)) \/ (x = h /\ NotedIn(b, i, k, t, d))
    BY <1>1, <2>2, BoxReplaced
  <2> QED  BY <1>6, <1>14, <2>3, <2>4, <2>5, <2>6, Unmoved
<1>15. ASSUME c = "mailbox"
       PROVE  /\ \A x, i, k, t, d : Lies(3, x, i, k, t, d)' <=>
                   \/ Lies(3, x, i, k, t, d)
                   \/ x = h /\ i = n + 1 /\ k \in DOMAIN T /\ t = T[k] /\ d = d0
              /\ \A i, k, t, d : Lies(3, h, i, k, t, d) => i \in 1..n
              /\ \A x, i, k, t, d : Lies(6, x, i, k, t, d)' <=> Lies(6, x, i, k, t, d)
  <2> DEFINE es == boxes["mailbox"][h]  b == Append(es, item)
  <2>1. es \in Seq(Envelope) /\ n = Len(es)  BY <1>10, <1>12, <1>15
  <2>2. h \in 1..Len(boxes["mailbox"]) /\ boxes'["mailbox"] = [boxes["mailbox"] EXCEPT ![h] = b]
    BY <1>3, <1>15
  <2>3. \A i, k, t, d : Lies(3, h, i, k, t, d) <=> LiesIn(es, i, k, t, d)
    BY <1>1, <2>2 DEF Lies, Mailed, TypeInv
  <2>4. boxes'["queue"] = boxes["queue"]  BY <1>3, <1>4, <1>15
  <2> HIDE DEF es
  <2>5. /\ \A i, k, t, d : LiesIn(b, i, k, t, d) <=>
             \/ LiesIn(es, i, k, t, d)
             \/ /\ i = n + 1 /\ k \in DOMAIN item.responses /\ t = item.responses[k]
                /\ d = item.channel
        /\ \A i, k, t, d : LiesIn(es, i, k, t, d) => i \in 1..n
    BY <2>1, LiesAppend
  <2> HIDE DEF b
  <2>6. \A x, i, k, t, d : Lies(3, x, i, k, t, d)' <=>
          (x # h /\ Lies(3, x, i, k, t, d)) \/ (x = h /\ LiesIn(b, i, k, t, d))
    BY <1>1, <2>2, BoxReplaced
  <2> QED  BY <1>6, <1>15, <2>3, <2>4, <2>5, <2>6, Unmoved
<1> DEFINE new == IF c = "mailbox" THEN 3 ELSE 6
<1>16. \A r, x, i, k, t, d : Lies(r, x, i, k, t, d)' <=>
         \/ Lies(r, x, i, k, t, d)
         \/ /\ r = new /\ x = h /\ i = n + 1 /\ d = d0
            /\ \E m \in DOMAIN T : t = T[m] /\ k = IF new = 3 THEN m ELSE 0
  <2> SUFFICES ASSUME NEW r \in 1..6, NEW x, NEW i, NEW k, NEW t, NEW d
               PROVE  Lies(r, x, i, k, t, d)' <=>
                        \/ Lies(r, x, i, k, t, d)
                        \/ /\ r = new /\ x = h /\ i = n + 1 /\ d = d0
                           /\ \E m \in DOMAIN T : t = T[m] /\ k = IF new = 3 THEN m ELSE 0
    BY Somewhere
  <2>1. CASE r \in {1, 2, 4, 5}
    <3>1. r # new  BY <2>1
    <3> QED  BY <1>13, <2>1, <3>1
  <2>2. CASE r \in {3, 6} /\ c = "mailbox"
    <3>1. new = 3  BY <2>2
    <3> HIDE DEF new
    <3>2. r = 3 \/ r = 6  BY <2>2
    <3> QED  BY <1>15, <2>2, <3>1, <3>2
  <2>3. CASE r \in {3, 6} /\ c = "queue"
    <3>1. new = 6 /\ DOMAIN T = {1}  BY <1>8, <2>3
    <3> HIDE DEF new
    <3>2. r = 3 \/ r = 6  BY <2>3
    <3> QED  BY <1>14, <2>3, <3>1, <3>2
  <2>4. r \in {1, 2, 4, 5} \/ r \in {3, 6}  OBVIOUS
  <2> QED  BY <1>4, <2>1, <2>2, <2>3, <2>4
<1>17. \A i, k, t, d : Lies(new, h, i, k, t, d) => i \in 1..n  BY <1>4, <1>14, <1>15
<1> QED  BY <1>3, <1>8, <1>11, <1>12, <1>16, <1>17

\* What is put is new, lies behind what was there, and was put last.
LEMMA PutMoves ==
  ASSUME OutgoingInv, SingleInv, PutInv, DeliveryInv, NEW g \in Goroutines, Put(g)
  PROVE  DeliveryInv'
<1> DEFINE c == CellOf(g)  h == held[g]  T == Texts(g)  n == Len(boxes[c][h])  P == Len(put)
           new == IF c = "mailbox" THEN 3 ELSE 6
<1>1. TypeInv  BY DEF OutgoingInv
<1>2. UNCHANGED <<task, loop, speeches, attempts, raced>>  BY DEF Put
<1>3. /\ P \in Nat /\ ToSet(put') = ToSet(put) \cup ToSet(T)
      /\ \A t \in ToSet(put) : Position(put', t) = Position(put, t) /\ Position(put, t) \in 1..P
      /\ \A m \in DOMAIN T : Position(put', T[m]) = P + m
  BY PutGrows
<1>4. /\ c \in Cells /\ h \in 1..Len(boxes[c]) /\ n \in Nat
      /\ c = "queue" => DOMAIN T = {1}
      /\ \A i, k, t, d : Lies(new, h, i, k, t, d) => i \in 1..n
      /\ \A r, x, i, k, t, d : Lies(r, x, i, k, t, d)' <=>
           \/ Lies(r, x, i, k, t, d)
           \/ /\ r = new /\ x = h /\ i = n + 1 /\ d = task[g].channel
              /\ \E m \in DOMAIN T : t = T[m] /\ k = IF new = 3 THEN m ELSE 0
  BY PutWhere
<1>5. /\ DOMAIN T \subseteq Nat \ {0}
      /\ \A m \in DOMAIN T : T[m].from = g /\ T[m].n = m /\ T[m] \in ToSet(T)
  <2>1. /\ DOMAIN T = 1..Len(T) /\ Len(T) \in Nat
        /\ \A m \in DOMAIN T : T[m].from = g /\ T[m].n = m
    BY <1>1, TextsType
  <2> QED  BY <2>1 DEF ToSet
<1>6. at[g] # "done"  BY PutIs
<1>7. \A t \in ToSet(put) : t.from \in Goroutines \ {g}  BY <1>1, <1>6, Unsaid
<1>8. /\ g # Minute /\ g # Commentator /\ (c = "queue" <=> task[g].kind = "note")
      /\ c = "queue" \/ c = "mailbox"
      /\ \A f \in Goroutines : CellOf(f) = "queue" <=> task[f].kind = "note"
  BY <1>1, <1>4, WhoIsWho DEF Cells
<1>9. new = 3 \/ (new = 6 /\ c = "queue")
  <2> HIDE DEF c
  <2>1. CASE c = "mailbox"  BY <2>1
  <2>2. CASE c = "queue"  BY <2>2
  <2> QED  BY <1>8, <2>1, <2>2
<1>10. new = 3 => c = "mailbox"  OBVIOUS
<1>11. CellOf(g) = c  OBVIOUS
<1>12. raced = {} => \A x, i, k, t, d : Lies(new, x, i, k, t, d) => x = h
  <2> SUFFICES ASSUME raced = {}, NEW x, NEW i, NEW k, NEW t, NEW d, Lies(new, x, i, k, t, d)
               PROVE  x = h
    OBVIOUS
  <2>1. \A r \in {3, 6} : \A x0, i0, k0, t0, c0 : Lies(r, x0, i0, k0, t0, c0) =>
          x0 \in 1..Len(boxes[IF r = 3 THEN "mailbox" ELSE "queue"])
    BY <1>1, OnlyBox
  <2>2. x \in 1..Len(boxes[c])
    <3>1. CASE new = 3  BY <1>10, <2>1, <3>1
    <3>2. CASE new = 6 /\ c = "queue"  BY <2>1, <3>2
    <3> QED  BY <1>9, <3>1, <3>2
  <2>3. /\ \A y \in 1..Len(boxes["mailbox"]), z \in 1..Len(boxes["mailbox"]) : y = z
        /\ \A y \in 1..Len(boxes["queue"]), z \in 1..Len(boxes["queue"]) : y = z
    BY <1>1, OnlyBox
  <2> QED  BY <1>4, <1>8, <2>2, <2>3
<1> HIDE DEF c, h, T, n, P, new
<1> USE DEF DeliveryInv
<1>13. \A r, x, i, k, t, d : Lies(r, x, i, k, t, d) => t.from # g
  <2> SUFFICES ASSUME NEW r, NEW x, NEW i, NEW k, NEW t, NEW d, Lies(r, x, i, k, t, d) PROVE t.from # g
    OBVIOUS
  <2>1. t.from \in Goroutines => t \in ToSet(put)  BY DEF SaidInv
  <2> QED  BY <1>7, <2>1
<1>14. ASSUME NEW r, NEW x, NEW i, NEW k, NEW t, NEW d, Lies(r, x, i, k, t, d)', ~Lies(r, x, i, k, t, d)
       PROVE  /\ r = new /\ x = h /\ i = n + 1 /\ d = task[g].channel /\ t.from = g
              /\ \E m \in DOMAIN T : t = T[m] /\ k = IF new = 3 THEN m ELSE 0
  BY <1>4, <1>5, <1>14
<1>15. SaidInv'
  <2> SUFFICES ASSUME NEW r, NEW x, NEW i, NEW k, NEW t, NEW d, Lies(r, x, i, k, t, d)'
               PROVE  /\ t.from \in Goroutines => /\ t \in ToSet(put') /\ d = task[t.from].channel
                                                  /\ r \in 4..6 => task[t.from].kind = "note"
                      /\ t.from = Minute => t.n <= speeches
                      /\ r = 1 => t.from # Commentator
    BY <1>2 DEF SaidInv
  <2>1. CASE Lies(r, x, i, k, t, d)  BY <1>3, <2>1 DEF SaidInv
  <2>2. CASE ~Lies(r, x, i, k, t, d)
    <3>1. r = new /\ d = task[g].channel /\ t.from = g  BY <1>14, <2>2
    <3>2. t \in ToSet(put')
      <4>1. PICK m \in DOMAIN T : t = T[m]  BY <1>14, <2>2
      <4> QED  BY <1>3, <1>5, <4>1
    <3>3. r \in 4..6 => task[g].kind = "note"  BY <1>8, <1>9, <3>1
    <3> QED  BY <1>8, <3>1, <3>2, <3>3
  <2> QED  BY <2>1, <2>2
<1>16. GroupedInv'  BY <1>2 DEF GroupedInv
<1>17. ASSUME NEW r, NEW x, NEW i, NEW k, NEW d, NEW r2, NEW x2, NEW i2, NEW k2, NEW d2, NEW t,
              Lies(r, x, i, k, t, d)', Lies(r2, x2, i2, k2, t, d2)', ~Lies(r, x, i, k, t, d)
       PROVE  r = r2 /\ x = x2 /\ i = i2 /\ k = k2
  <2>1. r = new /\ x = h /\ i = n + 1 /\ t.from = g  BY <1>14, <1>17
  <2>2. PICK m \in DOMAIN T : t = T[m] /\ k = IF new = 3 THEN m ELSE 0  BY <1>14, <1>17
  <2>3. ~Lies(r2, x2, i2, k2, t, d2)  BY <1>13, <2>1
  <2>4. r2 = new /\ x2 = h /\ i2 = n + 1  BY <1>14, <1>17, <2>3
  <2>5. PICK m2 \in DOMAIN T : t = T[m2] /\ k2 = IF new = 3 THEN m2 ELSE 0  BY <1>14, <1>17, <2>3
  <2>6. m = m2
    <3>1. T[m].n = m /\ T[m2].n = m2  BY <1>5
    <3> QED  BY <2>2, <2>5, <3>1
  <2> QED  BY <2>1, <2>2, <2>4, <2>5, <2>6
<1>18. OnceInv'
  <2> SUFFICES ASSUME NEW r, NEW x, NEW i, NEW k, NEW d, NEW r2, NEW x2, NEW i2, NEW k2, NEW d2, NEW t,
                      Lies(r, x, i, k, t, d)', Lies(r2, x2, i2, k2, t, d2)', t.from # Commentator
               PROVE  r = r2 /\ x = x2 /\ i = i2 /\ k = k2
    BY DEF OnceInv
  <2>1. CASE Lies(r, x, i, k, t, d) /\ Lies(r2, x2, i2, k2, t, d2)  BY <2>1 DEF OnceInv
  <2>2. CASE ~Lies(r, x, i, k, t, d)  BY <1>17, <2>2
  <2>3. CASE ~Lies(r2, x2, i2, k2, t, d2)
    <3>1. r2 = r /\ x2 = x /\ i2 = i /\ k2 = k  BY <1>17, <2>3
    <3> QED  BY <3>1
  <2> QED  BY <2>1, <2>2, <2>3
<1>19. OrderInv'
  <2> SUFFICES ASSUME raced = {},
                      NEW r, NEW x, NEW i, NEW k, NEW s, NEW r2, NEW x2, NEW i2, NEW k2, NEW t, NEW d,
                      Lies(r, x, i, k, s, d)', Lies(r2, x2, i2, k2, t, d)',
                      s.from \in Goroutines, t.from \in Goroutines, CellOf(s.from)' = CellOf(t.from)',
                      Sooner(r, i, k, r2, i2, k2)
               PROVE  Position(put', s) < Position(put', t)
    BY <1>2 DEF OrderInv
  <2>1. CellOf(s.from) = CellOf(t.from)  BY <1>1, <1>2, TaskStays
  <2>2. r2 \in 1..6  BY Somewhere
  <2>3. CASE Lies(r, x, i, k, s, d) /\ Lies(r2, x2, i2, k2, t, d)
    <3>1. s \in ToSet(put) /\ t \in ToSet(put)  BY <2>3 DEF SaidInv
    <3>2. Position(put, s) < Position(put, t)  BY <2>1, <2>3 DEF OrderInv
    <3> QED  BY <1>3, <3>1, <3>2
  <2>4. CASE Lies(r, x, i, k, s, d) /\ ~Lies(r2, x2, i2, k2, t, d)
    <3>1. s \in ToSet(put)  BY <2>4 DEF SaidInv
    <3>2. PICK m \in DOMAIN T : t = T[m]  BY <1>14, <2>4
    <3>3. Position(put', s) \in 1..P /\ Position(put', t) = P + m  BY <1>3, <3>1, <3>2
    <3>4. m \in Nat \ {0}  BY <1>5
    <3> QED  BY <1>3, <3>3, <3>4
  <2>5. CASE ~Lies(r, x, i, k, s, d) /\ Lies(r2, x2, i2, k2, t, d)
    <3>1. r = new /\ x = h /\ i = n + 1 /\ s.from = g  BY <1>14, <2>5
    <3>2. r2 \in 4..6 => c = "queue"
      <4> SUFFICES ASSUME r2 \in 4..6 PROVE c = "queue"  OBVIOUS
      <4>1. task[t.from].kind = "note"  BY <2>5 DEF SaidInv
      <4> QED  BY <1>8, <1>11, <2>1, <3>1, <4>1
    <3>3. r2 = new
      <4>1. new <= r2  BY <1>9, <2>2, <3>1 DEF Sooner
      <4>2. CASE new = 6  BY <2>2, <4>1, <4>2
      <4>3. CASE new = 3
        <5>1. r2 \notin 4..6  BY <1>10, <3>2, <4>3
        <5> QED  BY <2>2, <4>1, <4>3, <5>1
      <4> QED  BY <1>9, <4>2, <4>3
    <3>4. x2 = h  BY <1>12, <2>5, <3>3
    <3>5. i2 \in 1..n  BY <1>4, <2>5, <3>3, <3>4
    <3>6. ~(i < i2) /\ i # i2 /\ ~(r < r2)  BY <1>4, <1>9, <3>1, <3>3, <3>5
    <3> QED  BY <3>6 DEF Sooner
  <2>6. CASE ~Lies(r, x, i, k, s, d) /\ ~Lies(r2, x2, i2, k2, t, d)
    <3>1. r = new /\ i = n + 1 /\ r2 = new /\ i2 = n + 1  BY <1>14, <2>6
    <3>2. PICK m \in DOMAIN T : s = T[m] /\ k = IF new = 3 THEN m ELSE 0  BY <1>14, <2>6
    <3>3. PICK m2 \in DOMAIN T : t = T[m2] /\ k2 = IF new = 3 THEN m2 ELSE 0  BY <1>14, <2>6
    <3>4. k < k2  BY <1>4, <1>9, <3>1 DEF Sooner
    <3>5. m < m2
      <4>1. CASE new = 3  BY <3>2, <3>3, <3>4, <4>1
      <4>2. CASE new # 3  BY <3>2, <3>3, <3>4, <4>2
      <4> QED  BY <4>1, <4>2
    <3>6. Position(put', s) = P + m /\ Position(put', t) = P + m2  BY <1>3, <3>2, <3>3
    <3>7. m \in Nat /\ m2 \in Nat  BY <1>5
    <3> QED  BY <1>3, <3>5, <3>6, <3>7
  <2> QED  BY <2>3, <2>4, <2>5, <2>6
<1>20. FoundInv'
  <2> SUFFICES ASSUME NEW t \in ToSet(put'), ~MayBeDropped(t)'
               PROVE  \E r, x, i, k, d : Lies(r, x, i, k, t, d)'
    BY DEF FoundInv
  <2>1. CASE t \in ToSet(put)
    <3>1. ~MayBeDropped(t)
      BY <1>2 DEF MayBeDropped, IsAllowedOutputChannel
    <3>2. PICK r, x, i, k, d : Lies(r, x, i, k, t, d)  BY <2>1, <3>1 DEF FoundInv
    <3> QED  BY <1>4, <3>2
  <2>2. CASE t \in ToSet(T)
    <3>1. PICK m \in DOMAIN T : t = T[m]  BY <2>2 DEF ToSet
    <3>2. PICK r, x, i, k, d : /\ r = new /\ x = h /\ i = n + 1 /\ d = task[g].channel
                               /\ k = IF new = 3 THEN m ELSE 0
      OBVIOUS
    <3>3. Lies(r, x, i, k, t, d)'  BY <1>4, <3>1, <3>2
    <3> QED  BY <3>3
  <2> QED  BY <1>3, <2>1, <2>2
<1> QED  BY <1>15, <1>16, <1>18, <1>19, <1>20

----------------------------------------------------------------------------
(* Every step *)

\* What is in the loop's hands when it ends its pass: nothing.
LEMMA EndPassMoves ==
  ASSUME OutgoingInv, DeliveryInv, EndPass
  PROVE  DeliveryInv'
<1>1. TypeInv /\ PassInv  BY DEF OutgoingInv
<1>2. /\ at[Loop] = "send" /\ loop.taken = <<>> /\ loop' = IdleLoop
      /\ UNCHANGED <<boxes, raced, task, put, speeches, attempts>>
  BY DEF EndPass, cells, At
<1>3. loop.messages = <<>> /\ loop.scheduled = {}  BY <1>1, <1>2 DEF PassInv
<1>4. loop'.taken = <<>> /\ loop'.messages = <<>> /\ loop'.scheduled = {}  BY <1>2, IdleIsLoop
<1> QED  BY <1>1, <1>2, <1>3, <1>4, NothingMoved

LEMMA StillMoves ==
  ASSUME OutgoingInv, DeliveryInv,
         \/ \E g \in Goroutines : Begin(g) \/ HandleEventResponseEnvelope(g)
         \/ \E g \in Actors : Take(g)
         \/ Pass \/ StaySilent \/ Process \/ UseQueue \/ StandStill
  PROVE  DeliveryInv'
<1>1. TypeInv /\ loop \in LoopType  BY DEF OutgoingInv, TypeInv
<1>2. UNCHANGED <<task, put, speeches, attempts, boxes>>
  BY DEF Begin, HandleEventResponseEnvelope, Take, Pass, StaySilent, Process, UseQueue, StandStill,
         Look, cells
<1>3. raced \subseteq raced'
  BY DEF Begin, HandleEventResponseEnvelope, Take, Pass, StaySilent, Process, UseQueue, StandStill,
         Look, cells
<1>4. loop'.taken = loop.taken /\ loop'.scheduled = loop.scheduled /\ loop'.messages = loop.messages
  <2>1. CASE Process  BY <1>1, <2>1 DEF Process, LoopType
  <2>2. CASE UseQueue  BY <1>1, <2>2 DEF UseQueue, LoopType
  <2>3. CASE loop' = loop  BY <2>3
  <2> QED
    BY <2>1, <2>2, <2>3 DEF Begin, HandleEventResponseEnvelope, Take, Pass, StaySilent, StandStill
<1> QED  BY <1>1, <1>2, <1>3, <1>4, NothingMoved

\* Nobody who is done goes on.
LEMMA DoneStays ==
  ASSUME TypeInv,
         \/ \E g \in Goroutines : Begin(g) \/ HandleEventResponseEnvelope(g)
         \/ \E g \in Actors : Make(g) \/ Take(g)
         \/ Pass \/ StaySilent \/ Process \/ UseQueue \/ PopAll
         \/ ManicMinuteScheduler \/ CommentateScheduler
         \/ HandleSchedule \/ AddScheduled \/ RetrieveEnvelopes
         \/ SkipEnvelope \/ HandleResponse \/ EndPass
         \/ StandStill
  PROVE  /\ task' = task /\ put' = put
         /\ \A g \in Goroutines : at[g] = "done" => at'[g] = "done"
<1>1. at \in [Actors -> Places \cup LoopPlaces] /\ Loop \notin Goroutines /\ Goroutines \subseteq Actors
  BY WhoIsWho DEF TypeInv
<1>2. ASSUME NEW g \in Actors, NEW p, Goes(g, p), at[g] # "done" \/ g = Loop
      PROVE  \A h \in Goroutines : at[h] = "done" => at'[h] = "done"
  BY <1>1, <1>2 DEF Goes
<1>3. ASSUME NEW g \in Goroutines, Begin(g) \/ HandleEventResponseEnvelope(g)
      PROVE  /\ task' = task /\ put' = put
             /\ \A h \in Goroutines : at[h] = "done" => at'[h] = "done"
  <2>1. g \in Actors /\ at[g] # "done" /\ task' = task /\ put' = put
    BY <1>1, <1>3 DEF Begin, HandleEventResponseEnvelope, At
  <2>2. \E p : Goes(g, p)  BY <1>3 DEF Begin, HandleEventResponseEnvelope, Look
  <2> QED  BY <1>2, <2>1, <2>2
<1>4. ASSUME NEW g \in Actors, Make(g) \/ Take(g)
      PROVE  /\ task' = task /\ put' = put
             /\ \A h \in Goroutines : at[h] = "done" => at'[h] = "done"
  <2>1. at[g] # "done" /\ task' = task /\ put' = put  BY <1>4 DEF Make, Take, At
  <2>2. \E p : Goes(g, p)  BY <1>4 DEF Make, Take
  <2> QED  BY <1>2, <2>1, <2>2
<1>5. ASSUME \/ Pass \/ StaySilent \/ Process \/ UseQueue \/ PopAll \/ HandleSchedule
             \/ RetrieveEnvelopes \/ EndPass
      PROVE  /\ task' = task /\ put' = put
             /\ \A h \in Goroutines : at[h] = "done" => at'[h] = "done"
  <2>1. task' = task /\ put' = put
    BY <1>5 DEF Pass, StaySilent, Process, UseQueue, PopAll, HandleSchedule, RetrieveEnvelopes, EndPass
  <2>2. \E p : Goes(Loop, p)
    BY <1>5 DEF Pass, StaySilent, Process, UseQueue, PopAll, HandleSchedule, RetrieveEnvelopes, EndPass,
                Look
  <2>3. Loop \in Actors  BY DEF Actors
  <2> QED  BY <1>2, <2>1, <2>2, <2>3
<1>6. ASSUME \/ ManicMinuteScheduler \/ CommentateScheduler \/ AddScheduled \/ SkipEnvelope
             \/ HandleResponse \/ StandStill
      PROVE  task' = task /\ put' = put /\ at' = at
  BY <1>6 DEF ManicMinuteScheduler, CommentateScheduler, AddScheduled, SkipEnvelope, HandleResponse,
              StandStill
<1> QED  BY <1>3, <1>4, <1>5, <1>6

LEMMA DeliveryStep ==
  ASSUME OutgoingInv, SingleInv, PutInv, DeliveryInv, [Next]_vars
  PROVE  PutInv' /\ DeliveryInv'
<1>1. TypeInv  BY DEF OutgoingInv
<1>2. ASSUME NEW g \in Goroutines, Put(g)  PROVE PutInv' /\ DeliveryInv'
  BY <1>2, PutGrows, PutMoves
<1>3. ASSUME \/ \E g \in Goroutines : Begin(g) \/ HandleEventResponseEnvelope(g)
             \/ \E g \in Actors : Make(g) \/ Take(g)
             \/ Pass \/ StaySilent \/ Process \/ UseQueue \/ PopAll
             \/ ManicMinuteScheduler \/ CommentateScheduler
             \/ HandleSchedule \/ AddScheduled \/ RetrieveEnvelopes
             \/ SkipEnvelope \/ HandleResponse \/ EndPass
             \/ StandStill
      PROVE  PutInv'
  BY <1>1, <1>3, DoneStays, PutStays
<1>4. ASSUME \/ \E g \in Goroutines : Begin(g) \/ HandleEventResponseEnvelope(g)
             \/ \E g \in Actors : Take(g)
             \/ Pass \/ StaySilent \/ Process \/ UseQueue \/ StandStill
      PROVE  DeliveryInv'
  BY <1>4, StillMoves
<1>5. ASSUME NEW g \in Actors, Make(g)  PROVE DeliveryInv'
  BY <1>5, MakeMoves
<1>6. ASSUME PopAll \/ ManicMinuteScheduler \/ CommentateScheduler \/ HandleSchedule
      PROVE  DeliveryInv'
  BY <1>6, PopAllMoves, SchedulerMoves, HandleScheduleMoves
<1>7. ASSUME AddScheduled \/ RetrieveEnvelopes \/ SkipEnvelope \/ HandleResponse \/ EndPass
      PROVE  DeliveryInv'
  BY <1>7, AddMoves, RetrieveMoves, SkipMoves, ResponseMoves, EndPassMoves
<1> QED  BY <1>2, <1>3, <1>4, <1>5, <1>6, <1>7, EveryStep

LEMMA InitDelivery == Init => PutInv /\ DeliveryInv
<1> SUFFICES ASSUME Init PROVE PutInv /\ DeliveryInv  OBVIOUS
<1>1. /\ put = <<>> /\ attempts = <<>> /\ loop = IdleLoop
      /\ boxes["mailbox"] = <<>> /\ boxes["queue"] = <<>>
  BY DEF Init, Cells
<1>2. \A i \in DOMAIN put : FALSE  BY <1>1
<1>3. PutInv  BY <1>2 DEF PutInv
<1>4. loop.taken = <<>> /\ loop.scheduled = {} /\ loop.messages = <<>>  BY <1>1, IdleIsLoop
<1>5. \A r, x, i, k, t, c : ~Lies(r, x, i, k, t, c)
  <2>1. \A x, i, k, t, c : ~Lies(1, x, i, k, t, c)
    BY <1>1 DEF Lies, Sent, NotedIn
  <2>2. \A x, i, k, t, c : ~Lies(3, x, i, k, t, c) /\ ~Lies(6, x, i, k, t, c)
    BY <1>1 DEF Lies, Mailed, Queued
  <2> SUFFICES ASSUME NEW r \in 1..6, NEW x, NEW i, NEW k, NEW t, NEW c PROVE ~Lies(r, x, i, k, t, c)
    BY Somewhere
  <2>3. r = 1 \/ r = 2 \/ r = 3 \/ r = 4 \/ r = 5 \/ r = 6  OBVIOUS
  <2> QED  BY <1>4, <2>1, <2>2, <2>3, Nowhere
<1>6. SaidInv /\ OnceInv /\ OrderInv  BY <1>5 DEF SaidInv, OnceInv, OrderInv
<1>7. GroupedInv  BY <1>4 DEF GroupedInv
<1>8. FoundInv  BY <1>2 DEF FoundInv, ToSet
<1> QED  BY <1>3, <1>6, <1>7, <1>8 DEF DeliveryInv

(***************************************************************************)
(* As long as no two actors find the mailbox, or the queue, nil at once,   *)
(* only one is ever made (GetOutgoingResponses, usingOutgoingQueue).       *)
(***************************************************************************)
THEOREM SingleInvariance == Spec => []SingleInv
<1>1. Init => SingleInv  BY InitSingle
<1>2. OutgoingInv /\ OutgoingInv' /\ SingleInv /\ [Next]_vars => SingleInv'
  BY SingleStep
<1> QED  BY <1>1, <1>2, OutgoingInvariance, PTL DEF Spec

(***************************************************************************)
(* A text is in one place at a time, and where it lies tells when it was   *)
(* put: from the queue to what a schedule has collected, to the envelopes  *)
(* of their channels, to the mailbox, into the loop's hands and to         *)
(* Discord.                                                                *)
(***************************************************************************)
THEOREM DeliveryInvariance == Spec => [](PutInv /\ DeliveryInv)
<1>1. Init => PutInv /\ DeliveryInv  BY InitDelivery
<1>2. OutgoingInv /\ SingleInv /\ (PutInv /\ DeliveryInv) /\ [Next]_vars => (PutInv /\ DeliveryInv)'
  BY DeliveryStep
<1> QED  BY <1>1, <1>2, OutgoingInvariance, SingleInvariance, PTL DEF Spec

----------------------------------------------------------------------------
(***************************************************************************)
(* Unless two goroutines found the mailbox or the queue nil at once, no    *)
(* text that was put is lost: however the goroutines and the loop          *)
(* interleave, it waits in the mailbox or queue in use, is in the loop's   *)
(* hands or was handed to Discord, or was blank or for a channel that is   *)
(* not allowed (RetrieveEnvelopes, PopAll, handleEnvelope).                *)
(***************************************************************************)
THEOREM OnlyRacesLoseTexts == Spec => []OnlyRacesLose
<1>1. OutgoingInv /\ SingleInv /\ (PutInv /\ DeliveryInv) => OnlyRacesLose
  <2> SUFFICES ASSUME OutgoingInv, SingleInv, PutInv, DeliveryInv, raced = {},
                      NEW t \in ToSet(put), ~MayBeDropped(t)
               PROVE  t \in InUse \cup InHand \cup Attempted
    BY DEF OnlyRacesLose
  <2>1. TypeInv /\ CellsInv  BY DEF OutgoingInv
  <2>2. PICK r, x, i, k, c : Lies(r, x, i, k, t, c)  BY DEF DeliveryInv, FoundInv
  <2>3. \A es, i1, k1, t1, c1 : LiesIn(es, i1, k1, t1, c1) => t1 \in MailIn(es)
    BY DEF LiesIn, MailIn, ToSet
  <2>4. \A ms, i1, k1, t1, c1 : NotedIn(ms, i1, k1, t1, c1) => t1 \in NotesIn(ms)
    BY DEF NotedIn, NotesIn
  <2>5. \A b \in Cells : \A y \in 1..Len(boxes[b]) : cell[b] = y /\ cell[b] # 0
    <3> SUFFICES ASSUME NEW b \in Cells, NEW y \in 1..Len(boxes[b]) PROVE cell[b] = y /\ cell[b] # 0
      OBVIOUS
    <3>1. Len(boxes[b]) <= 1 /\ (cell[b] = 0 <=> boxes[b] = <<>>)  BY DEF SingleInv
    <3>2. cell[b] \in 0..Len(boxes[b])  BY <2>1 DEF CellsInv
    <3>3. Len(boxes[b]) \in Nat /\ boxes[b] # <<>>  BY <2>1 DEF TypeInv, Cells
    <3> QED  BY <3>1, <3>2, <3>3
  <2>6. CASE r = 1
    BY <2>2, <2>6 DEF Lies, Sent, NotedIn, Attempted
  <2>7. CASE r = 2
    <3>1. LiesIn(loop.taken, i, k, t, c)  BY <2>2, <2>7 DEF Lies, Taken
    <3>2. t \in MailIn(loop.taken)  BY <3>1, <2>3
    <3> QED  BY <3>2 DEF InHand
  <2>8. CASE r = 3
    <3>0. x \in DOMAIN boxes["mailbox"] /\ LiesIn(boxes["mailbox"][x], i, k, t, c)
      BY <2>2, <2>8 DEF Lies, Mailed
    <3>1. x \in DOMAIN boxes["mailbox"] /\ t \in MailIn(boxes["mailbox"][x])
      BY <3>0, <2>3
    <3>2. x \in 1..Len(boxes["mailbox"])  BY <2>1, <3>1 DEF TypeInv
    <3>3. cell["mailbox"] = x /\ cell["mailbox"] # 0  BY <2>5, <3>2 DEF Cells
    <3> QED  BY <3>1, <3>3 DEF InUse
  <2>9. CASE r = 4
    <3>1. x \in loop.scheduled /\ t \in ToSet(x.responses)
      BY <2>2, <2>9 DEF Lies, Grouped, ToSet
    <3> QED  BY <3>1 DEF InHand
  <2>10. CASE r = 5
    <3>1. t \in NotesIn(loop.messages)  BY <2>2, <2>4, <2>10 DEF Lies, Collected
    <3> QED  BY <3>1 DEF InHand
  <2>11. CASE r = 6
    <3>0. x \in DOMAIN boxes["queue"] /\ NotedIn(boxes["queue"][x], i, k, t, c)
      BY <2>2, <2>11 DEF Lies, Queued
    <3>1. x \in DOMAIN boxes["queue"] /\ t \in NotesIn(boxes["queue"][x])
      BY <3>0, <2>4
    <3>2. x \in 1..Len(boxes["queue"])  BY <2>1, <3>1 DEF TypeInv
    <3>3. cell["queue"] = x /\ cell["queue"] # 0  BY <2>5, <3>2 DEF Cells
    <3> QED  BY <3>1, <3>3 DEF InUse
  <2>12. r \in 1..6  BY <2>2, Somewhere
  <2> QED  BY <2>6, <2>7, <2>8, <2>9, <2>10, <2>11, <2>12
<1> QED  BY <1>1, OutgoingInvariance, SingleInvariance, DeliveryInvariance, PTL

(***************************************************************************)
(* No text is handed to Discord twice, and unless two goroutines raced for *)
(* the mailbox or the queue, those of one channel that went into the same  *)
(* place leave in the order in which they were put there                   *)
(* (ToResponseEnvelopes, handleOutgoingResponses).                         *)
(***************************************************************************)
THEOREM TextsLeaveOnceInOrder == Spec => []DeliveredOnceInOrder
<1>1. DeliveryInv => DeliveredOnceInOrder
  <2> SUFFICES ASSUME DeliveryInv PROVE DeliveredOnceInOrder  OBVIOUS
  <2>1. \A i \in DOMAIN attempts : Lies(1, 0, i, 0, attempts[i].text, attempts[i].channel)
    BY DEF Lies, Sent, NotedIn
  <2>2. ASSUME NEW i \in DOMAIN attempts, NEW j \in DOMAIN attempts, attempts[i].text = attempts[j].text
        PROVE  i = j
    <3>1. attempts[i].text.from # Commentator  BY <2>1 DEF DeliveryInv, SaidInv
    <3> QED  BY <2>1, <2>2, <3>1 DEF DeliveryInv, OnceInv
  <2>3. ASSUME raced = {}, NEW i \in DOMAIN attempts, NEW j \in DOMAIN attempts,
               i < j, attempts[i].channel = attempts[j].channel,
               {attempts[i].text.from, attempts[j].text.from} \subseteq Goroutines,
               CellOf(attempts[i].text.from) = CellOf(attempts[j].text.from)
        PROVE  Position(put, attempts[i].text) < Position(put, attempts[j].text)
    <3>1. Sooner(1, i, 0, 1, j, 0)  BY <2>3 DEF Sooner
    <3>2. Lies(1, 0, i, 0, attempts[i].text, attempts[i].channel)
          /\ Lies(1, 0, j, 0, attempts[j].text, attempts[i].channel)
      BY <2>1, <2>3
    <3> QED  BY <2>3, <3>1, <3>2 DEF DeliveryInv, OrderInv
  <2> QED  BY <2>2, <2>3 DEF DeliveredOnceInOrder
<1> QED  BY <1>1, DeliveryInvariance, PTL
=============================================================================
