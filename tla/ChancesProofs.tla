--------------------------- MODULE ChancesProofs ---------------------------
(***************************************************************************)
(* Proofs about Chances for any names, goroutines, throws and commands:    *)
(* which chance a throw is made with, and what the counters may lose.      *)
(***************************************************************************)
EXTENDS Chances, FiniteSetTheorems, TLAPS

----------------------------------------------------------------------------
(* The inductive invariant *)

Fields == {"calls", "trues", "falses"}
ChanceHeld == {"store", "set", "loadCalls", "storeCalls", "randomly", "draw", "loadOutcome",
               "storeOutcome"}
Holds(g, n) == g \in Throwing(n) /\ at[g] \in ChanceHeld

\* The locals of a throw and of a command.
LocalsInv ==
  \A g \in Goroutines :
    /\ at[g] = "read" => held[g].name \in Basic
    /\ at[g] \in {"look", "write", "written"} => held[g].name \in Listed
    /\ at[g] \notin {"idle", "read", "return"} => held[g].chance \in Levels

\* A control belongs to one name: the one of the table, or of the throws that hold it.
RefsInv ==
  /\ \A n \in Names : table[n] # 0 => table[n] \in DOMAIN controls
  /\ \A n \in Names : \A g \in Goroutines : Holds(g, n) => held[g].ref \in DOMAIN controls
  /\ \A n, m \in Names : table[n] # 0 /\ table[n] = table[m] => n = m
  /\ \A n, m \in Names : \A g \in Goroutines : Holds(g, n) /\ held[g].ref = table[m] => n = m
  /\ \A n, m \in Names : \A g, h \in Goroutines :
       Holds(g, n) /\ Holds(h, m) /\ held[g].ref = held[h].ref => n = m

\* What a throw may come to be made with, it has heard.
HeardInv ==
  /\ \A n \in Names : \A g \in Throwing(n) :
       /\ n \in Basic => master[n] \in heard[g]
       /\ \A o \in Throwing(n) : held[o].chance \in Levels => held[o].chance \in heard[g]
       /\ at[g] \in {"loadCalls", "storeCalls", "randomly"} =>
            controls[held[g].ref].chance \in heard[g]
  /\ DrawsOfItsTime

\* The throws that have yet to be counted.
Uncounted(g, f) ==
  IF f = "calls" THEN at[g] \in {"read", "find", "create", "store", "set", "loadCalls", "storeCalls"}
                 ELSE at[g] \in {"loadOutcome", "storeOutcome"} /\ Outcome(g) = f
Pending(n, f) == {g \in Throwing(n) : Uncounted(g, f)}
Storing(g, f) == IF f = "calls" THEN at[g] = "storeCalls"
                                ELSE at[g] = "storeOutcome" /\ Outcome(g) = f

\* A value that leaves room for them.
Fits(n, f, v) == v + Cardinality(Pending(n, f)) <= thrown[n][f]
AtMostInv ==
  \A n \in Names, f \in Fields :
    /\ Fits(n, f, 0)
    /\ table[n] # 0 => Fits(n, f, controls[table[n]].counts[f])
    /\ \A g \in Goroutines : Holds(g, n) =>
         /\ Fits(n, f, controls[held[g].ref].counts[f])
         /\ Storing(g, f) => Fits(n, f, held[g].copy)

\* One throw at a time: nothing is missing but what it has yet to count.
Counted(n) == IF table[n] = 0 THEN NoCounts ELSE controls[table[n]].counts
AloneInv ==
  \A n \in alone :
    /\ \A f \in Fields : Counted(n)[f] + Cardinality(Pending(n, f)) = thrown[n][f]
    /\ \A g, h \in Throwing(n) : g = h
    /\ \A g \in Throwing(n) :
         /\ at[g] \in {"create", "store"} => table[n] = 0
         /\ at[g] = "store" => controls[held[g].ref].counts = NoCounts
         /\ at[g] \in ChanceHeld \ {"store"} => held[g].ref = table[n]
         /\ \A f \in Fields : Storing(g, f) => held[g].copy = Counted(n)[f]

ChancesInv ==
  ChancesTypeOK /\ LocalsInv /\ RefsInv /\ HeardInv /\ AtMostInv /\ AloneInv
----------------------------------------------------------------------------
(* Controls and goroutines *)

LEMMA SetControl ==
  ASSUME NEW s \in Seq(Control), NEW r \in DOMAIN s, NEW c \in Control,
         NEW t, t = [s EXCEPT ![r] = c]
  PROVE  /\ t \in Seq(Control) /\ DOMAIN t = DOMAIN s /\ t[r] = c
         /\ \A q \in DOMAIN s : q # r => t[q] = s[q]
<1>1. DOMAIN s = 1 .. Len(s) /\ Len(s) \in Nat /\ \A q \in DOMAIN s : s[q] \in Control  OBVIOUS
<1>2. \A q \in 1 .. Len(s) : t[q] \in Control  BY <1>1
<1>3. t = [q \in 1 .. Len(s) |-> t[q]]  BY <1>1
<1> QED  BY <1>1, <1>2, <1>3

Others(g) == \A h \in Goroutines : h # g => at'[h] = at[h] /\ held'[h] = held[h]
Active(g) == at[g] \notin {"idle", "return", "look", "write", "written"}

LEMMA MoveTypes ==
  ASSUME ChancesTypeOK, NEW g \in Goroutines, NEW place \in Places, Go(g, place),
         NEW local \in Local, held' = [held EXCEPT ![g] = local]
  PROVE  /\ at' \in [Goroutines -> Places] /\ at'[g] = place
         /\ held' \in [Goroutines -> Local] /\ held'[g] = local
         /\ Others(g)
BY DEF ChancesTypeOK, Go, Others

LEMMA StayTypes ==
  ASSUME ChancesTypeOK, NEW g \in Goroutines, NEW place \in Places, Go(g, place), held' = held
  PROVE  /\ at' \in [Goroutines -> Places] /\ at'[g] = place
         /\ held' \in [Goroutines -> Local] /\ held'[g] = held[g]
         /\ Others(g)
BY DEF ChancesTypeOK, Go, Others

\* A throw that goes on: the same goroutines throw for the same names.
LEMMA ThrowingSame ==
  ASSUME NEW g \in Goroutines, Others(g), Active(g)' = Active(g),
         held'[g].name = held[g].name \/ ~Active(g)
  PROVE  \A n : Throwing(n)' = Throwing(n)
BY DEF Throwing, Others, Active

LEMMA PendingSame ==
  ASSUME NEW g \in Goroutines, Others(g), Active(g)' = Active(g),
         held'[g].name = held[g].name \/ ~Active(g),
         Active(g) => \A f \in Fields : Uncounted(g, f)' = Uncounted(g, f)
  PROVE  \A n : \A f \in Fields : Pending(n, f)' = Pending(n, f)
<1>1. \A n : Throwing(n)' = Throwing(n)  BY ThrowingSame
<1>2. \A h \in Goroutines, f \in Fields : h # g => Uncounted(h, f)' = Uncounted(h, f)
  BY DEF Uncounted, Outcome, Others
<1>3. SUFFICES ASSUME NEW n, NEW f \in Fields
               PROVE  Pending(n, f)' = Pending(n, f)
  OBVIOUS
<1>4. ASSUME NEW h \in Throwing(n)  PROVE Uncounted(h, f)' = Uncounted(h, f)
  BY <1>2 DEF Throwing, Active
<1> QED  BY <1>1, <1>4 DEF Pending

\* What the others may have: all but the conditions on g itself.
LEMMA OthersHold ==
  ASSUME NEW g \in Goroutines, Others(g)
  PROVE  \A n : \A h \in Goroutines : h # g =>
           /\ Holds(h, n)' <=> Holds(h, n)
           /\ \A f : Storing(h, f)' <=> Storing(h, f)
BY DEF Holds, Throwing, Others, Storing, Outcome
----------------------------------------------------------------------------
(* A throw finds its control *)

LEMMA ReadMasterKeeps ==
  ASSUME ChancesInv, NEW g \in Goroutines, ReadMaster(g)
  PROVE  ChancesInv'
<1> DEFINE name == held[g].name
           local == [held[g] EXCEPT !.chance = master[name]]
<1>1. /\ at[g] = "read" /\ Go(g, "find") /\ held' = [held EXCEPT ![g] = local]
      /\ UNCHANGED <<master, table, controls, thrown, alone, heard>>
  BY DEF ReadMaster, Is, history
<1>2. ChancesTypeOK /\ name \in Basic /\ name \in Listed /\ held[g] \in Local
  BY <1>1 DEF ChancesInv, LocalsInv, ChancesTypeOK, Basic
<1>3. master[name] \in Levels  BY <1>2 DEF ChancesTypeOK
<1>4. local \in Local /\ local = [held[g] EXCEPT !.chance = master[name]]  BY <1>2, <1>3 DEF Local
<1>5. /\ local.name = name /\ local.chance = master[name] /\ local.ref = held[g].ref
      /\ local.copy = held[g].copy /\ local.used = held[g].used /\ local.won = held[g].won
  BY <1>2 DEF Local
<1> HIDE DEF local
<1>6. /\ at' \in [Goroutines -> Places] /\ at'[g] = "find"
      /\ held' \in [Goroutines -> Local] /\ held'[g] = local /\ Others(g)
  <2>1. "find" \in Places  BY DEF Places
  <2> QED  BY <1>1, <1>2, <1>4, <2>1, MoveTypes
<1>7. Active(g) /\ Active(g)'  BY <1>1, <1>6 DEF Active
<1>8. \A n : Throwing(n)' = Throwing(n)  BY <1>5, <1>6, <1>7, ThrowingSame
<1>9. \A n : \A f \in Fields : Pending(n, f)' = Pending(n, f)
  <2>1. \A f \in Fields : Uncounted(g, f)' = Uncounted(g, f)
    BY <1>1, <1>6 DEF Uncounted
  <2> QED  BY <1>5, <1>6, <1>7, <2>1, PendingSame
<1>10. \A h \in Goroutines :
         /\ held'[h].ref = held[h].ref /\ held'[h].copy = held[h].copy
         /\ held'[h].used = held[h].used
  BY <1>5, <1>6 DEF Others
<1>11. /\ \A n : \A h \in Goroutines : Holds(h, n)' <=> Holds(h, n)
       /\ \A h \in Goroutines : \A f : Storing(h, f)' <=> Storing(h, f)
  <2>1. \A n : ~Holds(g, n) /\ ~Holds(g, n)'  BY <1>1, <1>6 DEF Holds, ChanceHeld
  <2>2. \A f : ~Storing(g, f) /\ ~Storing(g, f)'  BY <1>1, <1>6 DEF Storing
  <2> QED  BY <1>6, <2>1, <2>2, OthersHold
<1>12. ChancesTypeOK'  BY <1>1, <1>2, <1>6 DEF ChancesTypeOK
<1>13. LocalsInv'  BY <1>3, <1>5, <1>6 DEF ChancesInv, LocalsInv, Others
<1>14. RefsInv'  BY <1>1, <1>10, <1>11 DEF ChancesInv, RefsInv
<1>15. HeardInv'
  <2>1. SUFFICES ASSUME NEW n \in Names, NEW h \in Throwing(n)
                 PROVE  /\ n \in Basic => master[n] \in heard[h]
                        /\ \A o \in Throwing(n) : held'[o].chance \in Levels =>
                             held'[o].chance \in heard[h]
                        /\ at'[h] \in {"loadCalls", "storeCalls", "randomly"} =>
                             controls[held'[h].ref].chance \in heard[h]
    <3>1. DrawsOfItsTime'  BY <1>1, <1>10 DEF ChancesInv, HeardInv, DrawsOfItsTime
    <3> QED  BY <1>1, <1>8, <3>1 DEF HeardInv
  <2>2. h \in Goroutines /\ held[h].name = n  BY <2>1 DEF Throwing
  <2>3. n \in Basic => master[n] \in heard[h]  BY <2>1 DEF ChancesInv, HeardInv
  <2>4. ASSUME NEW o \in Throwing(n), held'[o].chance \in Levels
        PROVE  held'[o].chance \in heard[h]
    <3>1. CASE o = g
      <4>1. n = name  BY <2>4, <3>1 DEF Throwing
      <4> QED  BY <1>2, <1>5, <1>6, <2>3, <3>1, <4>1
    <3>2. CASE o # g
      <4>1. held'[o] = held[o]  BY <1>6, <2>4, <3>2 DEF Others, Throwing
      <4> QED  BY <2>1, <2>4, <4>1 DEF ChancesInv, HeardInv
    <3> QED  BY <3>1, <3>2
  <2>5. ASSUME at'[h] \in {"loadCalls", "storeCalls", "randomly"}
        PROVE  controls[held'[h].ref].chance \in heard[h]
    <3>1. h # g  BY <1>6, <2>5
    <3>2. at'[h] = at[h] /\ held'[h] = held[h]  BY <1>6, <2>2, <3>1 DEF Others
    <3> QED  BY <2>1, <2>5, <3>2 DEF ChancesInv, HeardInv
  <2> QED  BY <2>3, <2>4, <2>5
<1>16. AtMostInv'
  BY <1>1, <1>9, <1>10, <1>11 DEF ChancesInv, AtMostInv, Fits
<1>17. AloneInv'
  <2>1. SUFFICES ASSUME NEW n \in alone
                 PROVE  /\ \A f \in Fields : Counted(n)[f] + Cardinality(Pending(n, f)') = thrown[n][f]
                        /\ \A h, o \in Throwing(n) : h = o
                        /\ \A h \in Throwing(n) :
                             /\ at'[h] \in {"create", "store"} => table[n] = 0
                             /\ at'[h] = "store" => controls[held'[h].ref].counts = NoCounts
                             /\ at'[h] \in ChanceHeld \ {"store"} => held'[h].ref = table[n]
                             /\ \A f \in Fields : Storing(h, f)' => held'[h].copy = Counted(n)[f]
    BY <1>1, <1>8 DEF AloneInv, Counted
  <2>2. /\ \A f \in Fields : Counted(n)[f] + Cardinality(Pending(n, f)') = thrown[n][f]
        /\ \A h, o \in Throwing(n) : h = o
    BY <1>9 DEF ChancesInv, AloneInv
  <2>3. ASSUME NEW h \in Throwing(n)
        PROVE  /\ at'[h] \in {"create", "store"} => table[n] = 0
               /\ at'[h] = "store" => controls[held'[h].ref].counts = NoCounts
               /\ at'[h] \in ChanceHeld \ {"store"} => held'[h].ref = table[n]
               /\ \A f \in Fields : Storing(h, f)' => held'[h].copy = Counted(n)[f]
    <3>1. h \in Goroutines  BY DEF Throwing
    <3>2. CASE h = g  BY <1>6, <3>2 DEF ChanceHeld, Storing
    <3>3. CASE h # g
      <4>1. at'[h] = at[h] /\ held'[h] = held[h]  BY <1>6, <3>1, <3>3 DEF Others
      <4> QED  BY <1>11, <3>1, <4>1 DEF ChancesInv, AloneInv
    <3> QED  BY <3>2, <3>3
  <2> QED  BY <2>2, <2>3
<1> QED  BY <1>12, <1>13, <1>14, <1>15, <1>16, <1>17 DEF ChancesInv
\* A step of a throw that changes where it is, which control it holds or which copy of a
\* counter, and at most the control of its own name.
GoesOn(g) ==
  /\ Others(g) /\ Active(g) /\ Active(g)' /\ at[g] # "read" /\ at'[g] # "read"
  /\ UNCHANGED <<master, thrown, alone, heard>>
  /\ held'[g].name = held[g].name /\ held'[g].chance = held[g].chance
  /\ held'[g].used = held[g].used
  /\ \A f \in Fields : Uncounted(g, f)' = Uncounted(g, f)

\* What such a step has to show for the invariant.
ChanceHeard(n) ==
  \A h \in Throwing(n) : at'[h] \in {"loadCalls", "storeCalls", "randomly"} =>
    controls'[held'[h].ref].chance \in heard[h]

Untouched(n) ==
  \A m \in Names \ {n} :
    /\ table'[m] = table[m] /\ (table[m] # 0 => controls'[table[m]] = controls[table[m]])
    /\ \A h \in Goroutines : Holds(h, m) => controls'[held[h].ref] = controls[held[h].ref]

RoomLeft(n) ==
  \A f \in Fields :
    /\ table'[n] # 0 => Fits(n, f, controls'[table'[n]].counts[f])
    /\ \A h \in Goroutines : Holds(h, n)' =>
         /\ Fits(n, f, controls'[held'[h].ref].counts[f])
         /\ Storing(h, f)' => Fits(n, f, held'[h].copy)

NothingMissing(g, n) ==
  n \in alone =>
    /\ Counted(n)' = Counted(n)
    /\ at'[g] \in {"create", "store"} => table'[n] = 0
    /\ at'[g] = "store" => controls'[held'[g].ref].counts = NoCounts
    /\ at'[g] \in ChanceHeld \ {"store"} => held'[g].ref = table'[n]
    /\ \A f \in Fields : Storing(g, f)' => held'[g].copy = Counted(n)[f]

LEMMA ThrowGoesOn ==
  ASSUME ChancesInv, NEW g \in Goroutines, ChancesTypeOK', RefsInv', GoesOn(g),
         NEW name, name = held[g].name,
         ChanceHeard(name), Untouched(name), RoomLeft(name), NothingMissing(g, name)
  PROVE  ChancesInv'
<1> USE DEF GoesOn, ChanceHeard, Untouched, RoomLeft, NothingMissing
<1>1. \A n : Throwing(n)' = Throwing(n)  BY ThrowingSame
<1>2. \A n : \A f \in Fields : Pending(n, f)' = Pending(n, f)  BY PendingSame
<1>3. \A n : \A h \in Goroutines : h # g =>
         (Holds(h, n)' <=> Holds(h, n)) /\ \A f : Storing(h, f)' <=> Storing(h, f)
  BY OthersHold
<1>4. \A n : (Holds(g, n) \/ Holds(g, n)' \/ g \in Throwing(n)) => n = name
  BY <1>1 DEF Holds, Throwing
<1>5. LocalsInv'
  <2>1. at[g] \notin {"idle", "read", "return", "look", "write", "written"}  BY DEF Active
  <2>2. at'[g] \notin {"read", "look", "write", "written"}  BY DEF Active
  <2>3. held'[g].chance \in Levels  BY <2>1 DEF ChancesInv, LocalsInv
  <2> QED  BY <2>2, <2>3 DEF ChancesInv, LocalsInv, Others
<1>6. HeardInv'
  <2>1. \A h \in Goroutines :
          held'[h].chance = held[h].chance /\ held'[h].used = held[h].used
    BY DEF Others
  <2>2. DrawsOfItsTime'  BY <2>1 DEF ChancesInv, HeardInv, DrawsOfItsTime
  <2>3. ASSUME NEW n \in Names, NEW h \in Throwing(n)
        PROVE  /\ n \in Basic => master'[n] \in heard'[h]
               /\ \A o \in Throwing(n) : held'[o].chance \in Levels =>
                    held'[o].chance \in heard'[h]
               /\ at'[h] \in {"loadCalls", "storeCalls", "randomly"} =>
                    controls'[held'[h].ref].chance \in heard'[h]
    <3>1. h \in Goroutines /\ \A o \in Throwing(n) : o \in Goroutines  BY DEF Throwing
    <3>2. n \in Basic => master'[n] \in heard'[h]  BY DEF ChancesInv, HeardInv
    <3>3. \A o \in Throwing(n) : held'[o].chance \in Levels => held'[o].chance \in heard'[h]
      BY <2>1, <3>1 DEF ChancesInv, HeardInv
    <3>4. ASSUME at'[h] \in {"loadCalls", "storeCalls", "randomly"}
          PROVE  controls'[held'[h].ref].chance \in heard'[h]
      <4>1. CASE n = name  BY <3>4, <4>1
      <4>2. CASE n # name
        <5>1. h # g  BY <1>4, <4>2
        <5>2. at'[h] = at[h] /\ held'[h] = held[h]  BY <3>1, <5>1 DEF Others
        <5>3. Holds(h, n)  BY <3>1, <3>4, <5>2 DEF Holds, ChanceHeld
        <5>4. controls'[held[h].ref] = controls[held[h].ref]  BY <3>1, <4>2, <5>3
        <5> QED  BY <3>4, <5>2, <5>4 DEF ChancesInv, HeardInv
      <4> QED  BY <4>1, <4>2
    <3> QED  BY <3>2, <3>3, <3>4
  <2> QED  BY <1>1, <2>2, <2>3 DEF HeardInv
<1>7. AtMostInv'
  <2>1. ASSUME NEW n \in Names, NEW f \in Fields
        PROVE  /\ Fits(n, f, 0)
               /\ table'[n] # 0 => Fits(n, f, controls'[table'[n]].counts[f])
               /\ \A h \in Goroutines : Holds(h, n)' =>
                    /\ Fits(n, f, controls'[held'[h].ref].counts[f])
                    /\ Storing(h, f)' => Fits(n, f, held'[h].copy)
    <3>1. Fits(n, f, 0)  BY DEF ChancesInv, AtMostInv
    <3>2. CASE n = name  BY <3>1, <3>2
    <3>3. CASE n # name
      <4>1. table'[n] # 0 => Fits(n, f, controls'[table'[n]].counts[f])
        BY <3>3 DEF ChancesInv, AtMostInv
      <4>2. ASSUME NEW h \in Goroutines, Holds(h, n)'
            PROVE  /\ Fits(n, f, controls'[held'[h].ref].counts[f])
                   /\ Storing(h, f)' => Fits(n, f, held'[h].copy)
        <5>1. h # g  BY <1>4, <3>3, <4>2
        <5>2. Holds(h, n) /\ held'[h] = held[h] /\ (Storing(h, f)' <=> Storing(h, f))
          BY <1>3, <4>2, <5>1 DEF Others
        <5>3. controls'[held[h].ref] = controls[held[h].ref]  BY <3>3, <5>2
        <5> QED  BY <5>2, <5>3 DEF ChancesInv, AtMostInv
      <4> QED  BY <3>1, <4>1, <4>2
    <3> QED  BY <3>2, <3>3
  <2> QED  BY <1>2, <2>1 DEF AtMostInv, Fits
<1>8. AloneInv'
  <2>1. ASSUME NEW n \in alone
        PROVE  /\ Counted(n)' = Counted(n)
               /\ \A f \in Fields : Counted(n)[f] + Cardinality(Pending(n, f)) = thrown[n][f]
               /\ \A h, o \in Throwing(n) : h = o
               /\ \A h \in Throwing(n) :
                    /\ at'[h] \in {"create", "store"} => table'[n] = 0
                    /\ at'[h] = "store" => controls'[held'[h].ref].counts = NoCounts
                    /\ at'[h] \in ChanceHeld \ {"store"} => held'[h].ref = table'[n]
                    /\ \A f \in Fields : Storing(h, f)' => held'[h].copy = Counted(n)[f]
    <3>1. /\ \A f \in Fields : Counted(n)[f] + Cardinality(Pending(n, f)) = thrown[n][f]
          /\ \A h, o \in Throwing(n) : h = o
          /\ n \in Names
      BY DEF ChancesInv, AloneInv, ChancesTypeOK
    <3>2. CASE n = name
      <4>1. g \in Throwing(n)  BY <3>2 DEF Throwing, Active
      <4>2. \A h \in Throwing(n) : h = g  BY <3>1, <4>1
      <4> QED  BY <3>1, <3>2, <4>2
    <3>3. CASE n # name
      <4>1. Counted(n)' = Counted(n)  BY <3>1, <3>3 DEF Counted
      <4>2. ASSUME NEW h \in Throwing(n)
            PROVE  /\ at'[h] \in {"create", "store"} => table'[n] = 0
                   /\ at'[h] = "store" => controls'[held'[h].ref].counts = NoCounts
                   /\ at'[h] \in ChanceHeld \ {"store"} => held'[h].ref = table'[n]
                   /\ \A f \in Fields : Storing(h, f)' => held'[h].copy = Counted(n)[f]
        <5>1. h \in Goroutines /\ h # g  BY <1>4, <3>3 DEF Throwing
        <5>2. at'[h] = at[h] /\ held'[h] = held[h] /\ table'[n] = table[n]
          BY <3>1, <3>3, <5>1 DEF Others
        <5>3. at[h] = "store" => controls'[held[h].ref] = controls[held[h].ref]
          <6>1. at[h] = "store" => Holds(h, n)  BY DEF Holds, ChanceHeld
          <6> QED  BY <3>1, <3>3, <5>1, <6>1
        <5>4. \A f : Storing(h, f)' <=> Storing(h, f)  BY <1>3, <5>1
        <5> QED  BY <5>2, <5>3, <5>4 DEF ChancesInv, AloneInv
      <4> QED  BY <3>1, <4>1, <4>2
    <3> QED  BY <3>2, <3>3
  <2> QED  BY <1>1, <1>2, <2>1 DEF AloneInv
<1> QED  BY <1>5, <1>6, <1>7, <1>8 DEF ChancesInv
LEMMA FindKeeps ==
  ASSUME ChancesInv, NEW g \in Goroutines, Find(g), NEW name, name = held[g].name
  PROVE  ChancesInv'
<1> DEFINE local == [held[g] EXCEPT !.ref = table[name]]
           place == IF table[name] = 0 THEN "create" ELSE "set"
<1>1. /\ at[g] = "find" /\ Go(g, place) /\ held' = [held EXCEPT ![g] = local]
      /\ UNCHANGED <<master, table, controls, thrown, alone, heard>>
  BY DEF Find, Is, history
<1>2. ChancesTypeOK /\ held[g] \in Local /\ name \in Names  BY DEF ChancesInv, ChancesTypeOK, Local
<1>3. table[name] \in Nat /\ place \in Places  BY <1>2 DEF ChancesTypeOK, Places
<1>4. /\ local \in Local /\ local.name = name /\ local.chance = held[g].chance
      /\ local.ref = table[name] /\ local.used = held[g].used /\ local.won = held[g].won
  BY <1>2, <1>3 DEF Local
<1> HIDE DEF local
<1>5. /\ at' \in [Goroutines -> Places] /\ at'[g] = place
      /\ held' \in [Goroutines -> Local] /\ held'[g] = local /\ Others(g)
  BY <1>1, <1>2, <1>3, <1>4, MoveTypes
<1>6. ChancesTypeOK'  BY <1>1, <1>2, <1>5 DEF ChancesTypeOK
<1>7. Active(g) /\ Active(g)' /\ \A f \in Fields : Uncounted(g, f)' = Uncounted(g, f)
  BY <1>1, <1>5 DEF Active, Uncounted
<1>8. \A n : \A h \in Goroutines : h # g => (Holds(h, n)' <=> Holds(h, n)) /\ held'[h] = held[h]
  BY <1>5, OthersHold DEF Others
<1>9. /\ \A n : Holds(g, n)' => n = name /\ held'[g].ref = table[n] /\ table[n] # 0
      /\ \A f : ~Storing(g, f)'
  BY <1>4, <1>5 DEF Holds, Throwing, ChanceHeld, Storing
<1>10. \A n : \A h \in Goroutines : Holds(h, n)' =>
          \/ h # g /\ Holds(h, n) /\ held'[h] = held[h]
          \/ h = g /\ n = name /\ held'[h].ref = table[n] /\ table[n] # 0
  BY <1>8, <1>9
<1>11. RefsInv'
  <2>1. \A n \in Names : \A h \in Goroutines : Holds(h, n)' => held'[h].ref \in DOMAIN controls
    BY <1>2, <1>10 DEF ChancesInv, RefsInv
  <2>2. \A n, m \in Names : \A h \in Goroutines : Holds(h, n)' /\ held'[h].ref = table[m] => n = m
    BY <1>2, <1>10 DEF ChancesInv, RefsInv
  <2>3. \A n, m \in Names : \A h, o \in Goroutines :
          Holds(h, n)' /\ Holds(o, m)' /\ held'[h].ref = held'[o].ref => n = m
    BY <1>2, <1>10 DEF ChancesInv, RefsInv
  <2> QED  BY <1>1, <2>1, <2>2, <2>3 DEF ChancesInv, RefsInv
<1>12. ChanceHeard(name)
  <2>1. ASSUME NEW h \in Throwing(name), at'[h] \in {"loadCalls", "storeCalls", "randomly"}
        PROVE  controls'[held'[h].ref].chance \in heard[h]
    <3>1. h # g  BY <1>5, <2>1
    <3>2. at'[h] = at[h] /\ held'[h] = held[h]  BY <1>5, <3>1 DEF Others, Throwing
    <3> QED  BY <1>1, <1>2, <2>1, <3>2 DEF ChancesInv, HeardInv
  <2> QED  BY <2>1 DEF ChanceHeard
<1>13. RoomLeft(name)
  <2>1. ASSUME NEW f \in Fields, table[name] # 0
        PROVE  Fits(name, f, controls[table[name]].counts[f])
    BY <1>2, <2>1 DEF ChancesInv, AtMostInv
  <2>2. ASSUME NEW f \in Fields, NEW h \in Goroutines, Holds(h, name)'
        PROVE  /\ Fits(name, f, controls'[held'[h].ref].counts[f])
               /\ Storing(h, f)' => Fits(name, f, held'[h].copy)
    <3>1. CASE h = g
      <4>1. held'[h].ref = table[name] /\ table[name] # 0 /\ ~Storing(h, f)'
        BY <1>9, <2>2, <3>1
      <4> QED  BY <1>1, <2>1, <4>1
    <3>2. CASE h # g
      <4>1. Holds(h, name) /\ held'[h] = held[h]  BY <1>8, <2>2, <3>2
      <4>2. Storing(h, f)' <=> Storing(h, f)  BY <1>5, <3>2, OthersHold
      <4> QED  BY <1>1, <1>2, <4>1, <4>2 DEF ChancesInv, AtMostInv
    <3> QED  BY <3>1, <3>2
  <2> QED  BY <1>1, <2>1, <2>2 DEF RoomLeft
<1>14. NothingMissing(g, name)
  <2>1. Counted(name)' = Counted(name)  BY <1>1, <1>4, <1>5 DEF Counted
  <2>2. at'[g] \in {"create", "store"} => table'[name] = 0  BY <1>1, <1>5
  <2> QED  BY <2>1, <2>2, <1>1, <1>4, <1>5, <1>9 DEF NothingMissing
<1>15. Untouched(name)  BY <1>1 DEF Untouched
<1>16. GoesOn(g)
  <2>1. at[g] # "read" /\ at'[g] # "read"  BY <1>1, <1>5
  <2>2. held'[g].name = held[g].name /\ held'[g].chance = held[g].chance /\ held'[g].used = held[g].used
    BY <1>4, <1>5
  <2> QED  BY <1>1, <1>5, <1>7, <2>1, <2>2 DEF GoesOn
<1> QED  BY <1>6, <1>11, <1>12, <1>13, <1>14, <1>15, <1>16, ThrowGoesOn

LEMMA CreateKeeps ==
  ASSUME ChancesInv, NEW g \in Goroutines, Create(g), NEW name, name = held[g].name
  PROVE  ChancesInv'
<1> DEFINE local == [held[g] EXCEPT !.ref = Len(controls) + 1]
           control == [chance |-> held[g].chance, counts |-> NoCounts]
<1>1. /\ at[g] = "create" /\ Go(g, "store") /\ held' = [held EXCEPT ![g] = local]
      /\ controls' = Append(controls, control)
      /\ UNCHANGED <<master, table, thrown, alone, heard>>
  BY DEF Create, Is, history
<1>2. ChancesTypeOK /\ held[g] \in Local /\ name \in Names /\ controls \in Seq(Control)
  BY DEF ChancesInv, ChancesTypeOK, Local
<1>3. control \in Control /\ control.counts = NoCounts
  <2>1. held[g].chance \in Levels  BY <1>1 DEF ChancesInv, LocalsInv
  <2>2. NoCounts \in Counts  BY DEF NoCounts, Counts
  <2> QED  BY <2>1, <2>2 DEF Control
<1> HIDE DEF control
<1>4. /\ controls' \in Seq(Control) /\ Len(controls) \in Nat
      /\ DOMAIN controls = 1 .. Len(controls) /\ DOMAIN controls' = 1 .. Len(controls) + 1
      /\ controls'[Len(controls) + 1] = control
      /\ \A r \in DOMAIN controls : controls'[r] = controls[r]
  BY <1>1, <1>2, <1>3
<1>5. /\ local \in Local /\ local.name = name /\ local.chance = held[g].chance
      /\ local.ref = Len(controls) + 1 /\ local.used = held[g].used
  BY <1>2, <1>4 DEF Local
<1> HIDE DEF local
<1>6. /\ at' \in [Goroutines -> Places] /\ at'[g] = "store"
      /\ held' \in [Goroutines -> Local] /\ held'[g] = local /\ Others(g)
  <2>1. "store" \in Places  BY DEF Places
  <2> QED  BY <1>1, <1>2, <1>5, <2>1, MoveTypes
<1>7. ChancesTypeOK'  BY <1>1, <1>2, <1>4, <1>6 DEF ChancesTypeOK
<1>8. Active(g) /\ Active(g)' /\ \A f \in Fields : Uncounted(g, f)' = Uncounted(g, f)
  BY <1>1, <1>6 DEF Active, Uncounted
<1>9. /\ \A n : Holds(g, n)' => n = name
      /\ \A f : ~Storing(g, f)'
  BY <1>5, <1>6 DEF Holds, Throwing, Storing
<1>10. \A n : \A h \in Goroutines : Holds(h, n)' =>
          \/ h # g /\ Holds(h, n) /\ held'[h] = held[h]
          \/ h = g /\ n = name /\ held'[h].ref = Len(controls) + 1
  BY <1>5, <1>6, <1>9, OthersHold DEF Others
<1>11. /\ \A n \in Names : table[n] # 0 => table[n] \in DOMAIN controls
       /\ \A n \in Names : table[n] # Len(controls) + 1
       /\ \A n \in Names : \A h \in Goroutines : Holds(h, n) =>
            held[h].ref \in DOMAIN controls /\ held[h].ref # Len(controls) + 1
  <2>1. /\ \A n \in Names : table[n] # 0 => table[n] \in DOMAIN controls
        /\ \A n \in Names : \A h \in Goroutines : Holds(h, n) => held[h].ref \in DOMAIN controls
    BY DEF ChancesInv, RefsInv
  <2>2. 0 # Len(controls) + 1 /\ Len(controls) + 1 \notin DOMAIN controls  BY <1>4
  <2> QED  BY <2>1, <2>2
<1>12. RefsInv'
  <2>0. \A r \in DOMAIN controls : r \in DOMAIN controls'  BY <1>4
  <2>1. \A n \in Names : \A h \in Goroutines : Holds(h, n)' => held'[h].ref \in DOMAIN controls'
    <3>1. Len(controls) + 1 \in DOMAIN controls'  BY <1>4
    <3> QED  BY <2>0, <3>1, <1>10, <1>11
  <2>2. \A n, m \in Names : \A h \in Goroutines : Holds(h, n)' /\ held'[h].ref = table[m] => n = m
    BY <1>10, <1>11 DEF ChancesInv, RefsInv
  <2>3. \A n, m \in Names : \A h, o \in Goroutines :
          Holds(h, n)' /\ Holds(o, m)' /\ held'[h].ref = held'[o].ref => n = m
    BY <1>10, <1>11 DEF ChancesInv, RefsInv
  <2>4. \A n, m \in Names : table[n] # 0 /\ table[n] = table[m] => n = m
    BY DEF ChancesInv, RefsInv
  <2> QED  BY <1>1, <1>11, <2>0, <2>1, <2>2, <2>3, <2>4 DEF RefsInv
<1>13. ChanceHeard(name)
  <2>1. ASSUME NEW h \in Throwing(name), at'[h] \in {"loadCalls", "storeCalls", "randomly"}
        PROVE  controls'[held'[h].ref].chance \in heard[h]
    <3>1. h # g  BY <1>6, <2>1
    <3>2. at'[h] = at[h] /\ held'[h] = held[h] /\ h \in Goroutines
      BY <1>6, <3>1 DEF Others, Throwing
    <3>3. Holds(h, name)  BY <2>1, <3>2 DEF Holds, ChanceHeld
    <3>4. controls'[held[h].ref] = controls[held[h].ref]  BY <1>2, <1>4, <1>11, <3>2, <3>3
    <3> QED  BY <1>2, <2>1, <3>2, <3>4 DEF ChancesInv, HeardInv
  <2> QED  BY <2>1 DEF ChanceHeard
<1>14. RoomLeft(name)
  <2>1. ASSUME NEW f \in Fields, table'[name] # 0
        PROVE  Fits(name, f, controls'[table'[name]].counts[f])
    <3>1. controls'[table[name]] = controls[table[name]]  BY <1>1, <1>2, <1>4, <1>11, <2>1
    <3> QED  BY <1>1, <1>2, <2>1, <3>1 DEF ChancesInv, AtMostInv
  <2>2. ASSUME NEW f \in Fields, NEW h \in Goroutines, Holds(h, name)'
        PROVE  /\ Fits(name, f, controls'[held'[h].ref].counts[f])
               /\ Storing(h, f)' => Fits(name, f, held'[h].copy)
    <3>1. CASE h = g
      <4>1. controls'[held'[h].ref].counts = NoCounts  BY <1>3, <1>4, <1>5, <1>6, <3>1
      <4>2. controls'[held'[h].ref].counts[f] = 0  BY <4>1 DEF NoCounts, Fields
      <4>3. Fits(name, f, 0)  BY <1>2 DEF ChancesInv, AtMostInv
      <4> QED  BY <1>9, <3>1, <4>2, <4>3
    <3>2. CASE h # g
      <4>1. Holds(h, name) /\ held'[h] = held[h]  BY <1>10, <2>2, <3>2
      <4>2. controls'[held[h].ref] = controls[held[h].ref]  BY <1>2, <1>4, <1>11, <4>1
      <4>3. Storing(h, f)' <=> Storing(h, f)  BY <1>6, <3>2, OthersHold
      <4> QED  BY <1>2, <4>1, <4>2, <4>3 DEF ChancesInv, AtMostInv
    <3> QED  BY <3>1, <3>2
  <2> QED  BY <2>1, <2>2 DEF RoomLeft
<1>15. NothingMissing(g, name)
  <2>1. Counted(name)' = Counted(name)
    BY <1>1, <1>2, <1>4, <1>5, <1>6, <1>11 DEF Counted
  <2>2. name \in alone => table[name] = 0
    <3>1. g \in Throwing(name)  BY <1>8 DEF Throwing, Active
    <3> QED  BY <1>1, <3>1 DEF ChancesInv, AloneInv
  <2>3. controls'[held'[g].ref].counts = NoCounts  BY <1>3, <1>4, <1>5, <1>6
  <2> QED  BY <2>1, <2>2, <2>3, <1>1, <1>6, <1>9 DEF NothingMissing
<1>16. Untouched(name)  BY <1>1, <1>4, <1>11 DEF Untouched
<1>17. GoesOn(g)
  <2>1. at[g] # "read" /\ at'[g] # "read"  BY <1>1, <1>6
  <2>2. held'[g].name = held[g].name /\ held'[g].chance = held[g].chance /\ held'[g].used = held[g].used
    BY <1>5, <1>6
  <2> QED  BY <1>1, <1>6, <1>8, <2>1, <2>2 DEF GoesOn
<1> QED  BY <1>7, <1>12, <1>13, <1>14, <1>15, <1>16, <1>17, ThrowGoesOn

\* The same holders of the same controls.
LEMMA RefsSame ==
  ASSUME RefsInv, UNCHANGED table, DOMAIN controls' = DOMAIN controls,
         \A h \in Goroutines : held'[h].ref = held[h].ref,
         \A n : \A h \in Goroutines : Holds(h, n)' => Holds(h, n)
  PROVE  RefsInv'
BY DEF RefsInv

LEMMA StoreKeeps ==
  ASSUME ChancesInv, NEW g \in Goroutines, Store(g), NEW name, name = held[g].name
  PROVE  ChancesInv'
<1>1. /\ at[g] = "store" /\ Go(g, "set") /\ held' = held
      /\ table' = [table EXCEPT ![name] = held[g].ref]
      /\ UNCHANGED <<master, controls, thrown, alone, heard>>
  BY DEF Store, Is, history
<1>2. ChancesTypeOK /\ held[g] \in Local /\ name \in Names
  BY DEF ChancesInv, ChancesTypeOK, Local
<1>3. held[g].ref \in Nat  BY <1>2 DEF Local
<1>4. /\ table' \in [Names -> Nat] /\ table'[name] = held[g].ref
      /\ \A n \in Names \ {name} : table'[n] = table[n]
  BY <1>1, <1>2, <1>3 DEF ChancesTypeOK
<1>5. at' \in [Goroutines -> Places] /\ at'[g] = "set" /\ Others(g)
  <2>1. "set" \in Places  BY DEF Places
  <2> QED  BY <1>1, <1>2, <2>1, StayTypes
<1>6. ChancesTypeOK'  BY <1>1, <1>2, <1>4, <1>5 DEF ChancesTypeOK
<1>7. Active(g) /\ Active(g)' /\ \A f \in Fields : Uncounted(g, f)' = Uncounted(g, f)
  BY <1>1, <1>5 DEF Active, Uncounted
<1>8. Holds(g, name)  BY <1>1, <1>7 DEF Holds, Throwing, Active, ChanceHeld
<1>9. \A n : \A h \in Goroutines : Holds(h, n)' <=> Holds(h, n)
  <2>1. \A n : Holds(g, n)' <=> Holds(g, n)  BY <1>1, <1>5 DEF Holds, Throwing, ChanceHeld
  <2> QED  BY <1>5, <2>1, OthersHold
<1>10. \A h \in Goroutines : \A f : Storing(h, f)' => Storing(h, f)
  <2>1. \A f : ~Storing(g, f)'  BY <1>5 DEF Storing
  <2> QED  BY <1>5, <2>1, OthersHold
<1>11. held[g].ref \in DOMAIN controls /\ \A m \in Names : held[g].ref = table[m] => name = m
  BY <1>2, <1>8 DEF ChancesInv, RefsInv
<1>12. RefsInv'
  <2>1. \A n \in Names : table'[n] # 0 => table'[n] \in DOMAIN controls
    BY <1>4, <1>11 DEF ChancesInv, RefsInv
  <2>2. \A n, m \in Names : table'[n] # 0 /\ table'[n] = table'[m] => n = m
    BY <1>4, <1>11 DEF ChancesInv, RefsInv
  <2>3. \A n, m \in Names : \A h \in Goroutines : Holds(h, n) /\ held[h].ref = table'[m] => n = m
    BY <1>2, <1>4, <1>8 DEF ChancesInv, RefsInv
  <2> QED  BY <1>1, <1>9, <2>1, <2>2, <2>3 DEF ChancesInv, RefsInv
<1>13. ChanceHeard(name)
  <2>1. ASSUME NEW h \in Throwing(name), at'[h] \in {"loadCalls", "storeCalls", "randomly"}
        PROVE  controls'[held'[h].ref].chance \in heard[h]
    <3>1. h # g  BY <1>5, <2>1
    <3>2. at'[h] = at[h] /\ held'[h] = held[h]  BY <1>5, <3>1 DEF Others, Throwing
    <3> QED  BY <1>1, <1>2, <2>1, <3>2 DEF ChancesInv, HeardInv
  <2> QED  BY <2>1 DEF ChanceHeard
<1>14. RoomLeft(name)
  <2>1. ASSUME NEW f \in Fields, NEW h \in Goroutines, Holds(h, name)
        PROVE  /\ Fits(name, f, controls[held[h].ref].counts[f])
               /\ Storing(h, f) => Fits(name, f, held[h].copy)
    BY <1>2, <2>1 DEF ChancesInv, AtMostInv
  <2> QED  BY <1>1, <1>4, <1>8, <1>9, <1>10, <2>1 DEF RoomLeft
<1>15. NothingMissing(g, name)
  <2>1. SUFFICES ASSUME name \in alone
                 PROVE  /\ Counted(name)' = Counted(name)
                        /\ held'[g].ref = table'[name]
    BY <1>5, <1>10, <1>1 DEF NothingMissing, Storing
  <2>2. g \in Throwing(name)  BY <1>7 DEF Throwing, Active
  <2>3. table[name] = 0 /\ controls[held[g].ref].counts = NoCounts
    BY <1>1, <2>1, <2>2 DEF ChancesInv, AloneInv, ChanceHeld
  <2> QED  BY <1>1, <1>4, <2>3 DEF Counted
<1>16. Untouched(name)  BY <1>1, <1>4 DEF Untouched
<1>17. GoesOn(g)
  <2>1. at[g] # "read" /\ at'[g] # "read"  BY <1>1, <1>5
  <2> QED  BY <1>1, <1>5, <1>7, <2>1 DEF GoesOn
<1> QED  BY <1>6, <1>12, <1>13, <1>14, <1>15, <1>16, <1>17, ThrowGoesOn

LEMMA SetChanceKeeps ==
  ASSUME ChancesInv, NEW g \in Goroutines, SetChance(g), NEW name, name = held[g].name
  PROVE  ChancesInv'
<1> DEFINE ref == held[g].ref
           control == [controls[ref] EXCEPT !.chance = held[g].chance]
<1>1. /\ at[g] = "set" /\ Go(g, "loadCalls") /\ held' = held
      /\ controls' = [controls EXCEPT ![ref] = control]
      /\ UNCHANGED <<master, table, thrown, alone, heard>>
  BY DEF SetChance, Is, history
<1>2. ChancesTypeOK /\ held[g] \in Local /\ name \in Names /\ controls \in Seq(Control)
  BY DEF ChancesInv, ChancesTypeOK, Local
<1>3. at' \in [Goroutines -> Places] /\ at'[g] = "loadCalls" /\ Others(g)
  <2>1. "loadCalls" \in Places  BY DEF Places
  <2> QED  BY <1>1, <1>2, <2>1, StayTypes
<1>4. Active(g) /\ Active(g)' /\ \A f \in Fields : Uncounted(g, f)' = Uncounted(g, f)
  BY <1>1, <1>3 DEF Active, Uncounted
<1>5. Holds(g, name) /\ g \in Throwing(name)
  BY <1>1, <1>4 DEF Holds, Throwing, Active, ChanceHeld
<1>6. /\ ref \in DOMAIN controls
      /\ \A m \in Names \ {name} : table[m] # ref
      /\ \A m \in Names \ {name} : \A h \in Goroutines : Holds(h, m) => held[h].ref # ref
      /\ \A m \in Names : table[m] # 0 => table[m] \in DOMAIN controls
      /\ \A m \in Names : \A h \in Goroutines : Holds(h, m) => held[h].ref \in DOMAIN controls
  BY <1>2, <1>5 DEF ChancesInv, RefsInv
<1>7. held[g].chance \in Levels  BY <1>1 DEF ChancesInv, LocalsInv
<1>8. /\ control \in Control /\ control.chance = held[g].chance
      /\ control.counts = controls[ref].counts
  <2>1. controls[ref] \in Control  BY <1>2, <1>6
  <2> QED  BY <1>7, <2>1 DEF Control
<1> HIDE DEF control
<1>9. /\ controls' \in Seq(Control) /\ DOMAIN controls' = DOMAIN controls /\ controls'[ref] = control
      /\ \A q \in DOMAIN controls : q # ref => controls'[q] = controls[q]
  BY <1>1, <1>2, <1>6, <1>8, SetControl
<1>10. \A q \in DOMAIN controls : controls'[q].counts = controls[q].counts  BY <1>8, <1>9
<1>11. ChancesTypeOK'  BY <1>1, <1>2, <1>3, <1>9 DEF ChancesTypeOK
<1>12. \A n : \A h \in Goroutines : Holds(h, n)' <=> Holds(h, n)
  <2>1. \A n : Holds(g, n)' <=> Holds(g, n)  BY <1>1, <1>3 DEF Holds, Throwing, ChanceHeld
  <2> QED  BY <1>3, <2>1, OthersHold
<1>13. \A h \in Goroutines : \A f : Storing(h, f)' => Storing(h, f)
  <2>1. \A f : ~Storing(g, f)'  BY <1>3 DEF Storing
  <2> QED  BY <1>3, <2>1, OthersHold
<1>14. RefsInv'  BY <1>1, <1>9, <1>12, RefsSame DEF ChancesInv
<1>15. ChanceHeard(name)
  <2>1. ASSUME NEW h \in Throwing(name), at'[h] \in {"loadCalls", "storeCalls", "randomly"}
        PROVE  controls'[held'[h].ref].chance \in heard[h]
    <3>1. CASE held[h].ref = ref
      <4>1. held[g].chance \in heard[h]  BY <1>2, <1>5, <1>7, <2>1 DEF ChancesInv, HeardInv
      <4> QED  BY <1>1, <1>8, <1>9, <3>1, <4>1
    <3>2. CASE held[h].ref # ref
      <4>1. h \in Goroutines /\ h # g  BY <3>2 DEF Throwing
      <4>2. at'[h] = at[h]  BY <1>3, <4>1 DEF Others
      <4>3. Holds(h, name)  BY <2>1, <4>2 DEF Holds, ChanceHeld
      <4>4. controls'[held[h].ref] = controls[held[h].ref]  BY <1>2, <1>6, <1>9, <3>2, <4>1, <4>3
      <4> QED  BY <1>1, <1>2, <2>1, <4>2, <4>4 DEF ChancesInv, HeardInv
    <3> QED  BY <3>1, <3>2
  <2> QED  BY <2>1 DEF ChanceHeard
<1>16. RoomLeft(name)
  <2>1. ASSUME NEW f \in Fields
        PROVE  table[name] # 0 => Fits(name, f, controls'[table[name]].counts[f])
    BY <1>2, <1>6, <1>10 DEF ChancesInv, AtMostInv
  <2>2. ASSUME NEW f \in Fields, NEW h \in Goroutines, Holds(h, name)
        PROVE  /\ Fits(name, f, controls'[held[h].ref].counts[f])
               /\ Storing(h, f) => Fits(name, f, held[h].copy)
    BY <1>2, <1>6, <1>10, <2>2 DEF ChancesInv, AtMostInv
  <2> QED  BY <1>1, <1>12, <1>13, <2>1, <2>2 DEF RoomLeft
<1>17. NothingMissing(g, name)
  <2>1. Counted(name)' = Counted(name)  BY <1>1, <1>2, <1>6, <1>10 DEF Counted
  <2>2. name \in alone => held[g].ref = table[name]
    BY <1>1, <1>5 DEF ChancesInv, AloneInv, ChanceHeld
  <2> QED  BY <1>1, <1>3, <2>1, <2>2 DEF NothingMissing, Storing
<1>18. Untouched(name)  BY <1>1, <1>6, <1>9 DEF Untouched
<1>19. GoesOn(g)
  <2>1. at[g] # "read" /\ at'[g] # "read"  BY <1>1, <1>3
  <2> QED  BY <1>1, <1>3, <1>4, <2>1 DEF GoesOn
<1> QED  BY <1>11, <1>14, <1>15, <1>16, <1>17, <1>18, <1>19, ThrowGoesOn

\* The two loads of a throw: of its calls and of its outcomes.
LEMMA LoadKeeps ==
  ASSUME ChancesInv, NEW g \in Goroutines, NEW place, NEW field, NEW next,
         \/ place = "loadCalls" /\ field = "calls" /\ next = "storeCalls"
         \/ place = "loadOutcome" /\ field = Outcome(g) /\ next = "storeOutcome",
         LoadCount(g, place, field, next), NEW name, name = held[g].name
  PROVE  ChancesInv'
<1> DEFINE ref == held[g].ref
           local == [held[g] EXCEPT !.copy = controls[ref].counts[field]]
<1>1. /\ at[g] = place /\ Go(g, next) /\ held' = [held EXCEPT ![g] = local]
      /\ UNCHANGED <<master, table, controls, thrown, alone, heard>>
  BY DEF LoadCount, Is, history
<1>2. ChancesTypeOK /\ held[g] \in Local /\ name \in Names /\ controls \in Seq(Control)
  BY DEF ChancesInv, ChancesTypeOK, Local
<1>3. place \in ChanceHeld \ {"store"} /\ next \in ChanceHeld \ {"store"} /\ next \in Places
  BY DEF ChanceHeld, Places
<1>4. field \in Fields  BY DEF Fields, Outcome
<1>5. Active(g)  BY <1>1, <1>3 DEF Active, ChanceHeld
<1>6. Holds(g, name) /\ g \in Throwing(name)  BY <1>1, <1>3, <1>5 DEF Holds, Throwing, Active
<1>7. ref \in DOMAIN controls  BY <1>2, <1>6 DEF ChancesInv, RefsInv
<1>8. controls[ref].counts[field] \in Nat
  <2>1. controls[ref] \in Control  BY <1>2, <1>7
  <2> QED  BY <1>4, <2>1 DEF Control, Counts, Fields
<1>9. /\ local \in Local /\ local.name = name /\ local.chance = held[g].chance
      /\ local.ref = ref /\ local.used = held[g].used /\ local.won = held[g].won
      /\ local.copy = controls[ref].counts[field]
  BY <1>2, <1>8 DEF Local
<1> HIDE DEF local
<1>10. /\ at' \in [Goroutines -> Places] /\ at'[g] = next
       /\ held' \in [Goroutines -> Local] /\ held'[g] = local /\ Others(g)
  BY <1>1, <1>2, <1>3, <1>9, MoveTypes
<1>11. Outcome(g)' = Outcome(g)  BY <1>9, <1>10 DEF Outcome
<1>12. Active(g)' /\ \A f \in Fields : Uncounted(g, f)' = Uncounted(g, f)
  <2>1. Active(g)'  BY <1>3, <1>10 DEF Active, ChanceHeld
  <2>2. \A f \in Fields : Uncounted(g, f)' = Uncounted(g, f)
    BY <1>1, <1>10, <1>11 DEF Uncounted
  <2> QED  BY <2>1, <2>2
<1>13. ChancesTypeOK'  BY <1>1, <1>2, <1>10 DEF ChancesTypeOK
<1>14. \A h \in Goroutines : held'[h].ref = held[h].ref  BY <1>9, <1>10 DEF Others
<1>15. \A n : \A h \in Goroutines : Holds(h, n)' <=> Holds(h, n)
  <2>1. \A n : Holds(g, n)' <=> Holds(g, n)
    BY <1>1, <1>3, <1>5, <1>9, <1>10, <1>12 DEF Holds, Throwing, Active
  <2> QED  BY <1>10, <2>1, OthersHold
<1>16. RefsInv'  BY <1>1, <1>14, <1>15, RefsSame DEF ChancesInv
<1>17. ChanceHeard(name)
  <2>1. ASSUME NEW h \in Throwing(name), at'[h] \in {"loadCalls", "storeCalls", "randomly"}
        PROVE  controls[held[h].ref].chance \in heard[h]
    <3>1. at[h] \in {"loadCalls", "storeCalls", "randomly"}
      <4>1. CASE h = g  BY <1>1, <1>10, <2>1, <4>1
      <4>2. CASE h # g  BY <1>10, <2>1, <4>2 DEF Others, Throwing
      <4> QED  BY <4>1, <4>2
    <3> QED  BY <1>2, <3>1 DEF ChancesInv, HeardInv
  <2>2. \A h \in Throwing(name) : h \in Goroutines  BY DEF Throwing
  <2> QED  BY <1>1, <1>14, <2>1, <2>2 DEF ChanceHeard
<1>18. \A f \in Fields : Storing(g, f)' => f = field  BY <1>1, <1>10, <1>11 DEF Storing
<1>19. RoomLeft(name)
  <2>1. ASSUME NEW f \in Fields
        PROVE  table[name] # 0 => Fits(name, f, controls[table[name]].counts[f])
    BY <1>2 DEF ChancesInv, AtMostInv
  <2>2. ASSUME NEW f \in Fields, NEW h \in Goroutines, Holds(h, name)
        PROVE  Fits(name, f, controls[held[h].ref].counts[f])
    BY <1>2, <2>2 DEF ChancesInv, AtMostInv
  <2>3. ASSUME NEW f \in Fields, NEW h \in Goroutines, Holds(h, name), Storing(h, f)'
        PROVE  Fits(name, f, held'[h].copy)
    <3>1. CASE h = g
      <4>1. f = field /\ held'[h].copy = controls[held[h].ref].counts[f]
        BY <1>9, <1>10, <1>18, <2>3, <3>1
      <4> QED  BY <2>2, <2>3, <4>1
    <3>2. CASE h # g
      <4>1. Storing(h, f) /\ held'[h] = held[h]  BY <1>10, <2>3, <3>2, OthersHold DEF Others
      <4> QED  BY <1>2, <2>3, <4>1 DEF ChancesInv, AtMostInv
    <3> QED  BY <3>1, <3>2
  <2> QED  BY <1>1, <1>14, <1>15, <2>1, <2>2, <2>3 DEF RoomLeft
<1>20. NothingMissing(g, name)
  <2>1. SUFFICES ASSUME name \in alone
                 PROVE  /\ Counted(name)' = Counted(name)
                        /\ held'[g].ref = table'[name]
                        /\ \A f \in Fields : Storing(g, f)' => held'[g].copy = Counted(name)[f]
    BY <1>3, <1>10 DEF NothingMissing, ChanceHeld
  <2>2. ref = table[name]  BY <1>1, <1>3, <1>6, <2>1 DEF ChancesInv, AloneInv
  <2>3. table[name] # 0
    <3>1. DOMAIN controls = 1 .. Len(controls) /\ Len(controls) \in Nat  BY <1>2
    <3> QED  BY <1>7, <2>2, <3>1
  <2>4. Counted(name) = controls[ref].counts  BY <2>2, <2>3 DEF Counted
  <2>5. Counted(name)' = Counted(name)  BY <1>1 DEF Counted
  <2> QED  BY <1>1, <1>9, <1>10, <1>18, <2>2, <2>4, <2>5
<1>21. Untouched(name)  BY <1>1 DEF Untouched
<1>22. GoesOn(g)
  <2>1. at[g] # "read" /\ at'[g] # "read"  BY <1>1, <1>3, <1>10 DEF ChanceHeld
  <2>2. held'[g].name = held[g].name /\ held'[g].chance = held[g].chance /\ held'[g].used = held[g].used
    BY <1>9, <1>10
  <2> QED  BY <1>1, <1>5, <1>10, <1>12, <2>1, <2>2 DEF GoesOn
<1> QED  BY <1>13, <1>16, <1>17, <1>19, <1>20, <1>21, <1>22, ThrowGoesOn
----------------------------------------------------------------------------
(* The counters *)

LEMMA Sizes ==
  ASSUME NEW S \in SUBSET Goroutines, NEW g \in Goroutines
  PROVE  /\ Cardinality(S) \in Nat
         /\ g \notin S => Cardinality(S \cup {g}) = Cardinality(S) + 1
         /\ g \in S => Cardinality(S \ {g}) = Cardinality(S) - 1
<1>1. IsFiniteSet(S)  BY ChancesConstants, FS_Subset
<1> QED  BY <1>1, FS_CardinalityType, FS_AddElement, FS_RemoveElement

\* The two increments of a throw: of its calls and of its outcomes.
LEMMA StoreCountKeeps ==
  ASSUME ChancesInv, NEW g \in Goroutines, NEW place, NEW field, NEW next,
         \/ place = "storeCalls" /\ field = "calls" /\ next = "randomly"
         \/ place = "storeOutcome" /\ field = Outcome(g) /\ next = "return",
         StoreCount(g, place, field, next), NEW name, name = held[g].name
  PROVE  ChancesInv'
<1> DEFINE ref == held[g].ref
           counts == [controls[ref].counts EXCEPT ![field] = held[g].copy + 1]
           control == [controls[ref] EXCEPT !.counts = counts]
<1>1. /\ at[g] = place /\ Go(g, next) /\ held' = held
      /\ controls' = [controls EXCEPT ![ref] = control]
      /\ UNCHANGED <<master, table, thrown, alone, heard>>
  BY DEF StoreCount, Is, history
<1>2. ChancesTypeOK /\ held[g] \in Local /\ name \in Names /\ controls \in Seq(Control)
  BY DEF ChancesInv, ChancesTypeOK, Local
<1>3. field \in Fields /\ next \in Places  BY DEF Fields, Outcome, Places
<1>4. at' \in [Goroutines -> Places] /\ at'[g] = next /\ Others(g)
  BY <1>1, <1>2, <1>3, StayTypes
<1>5. Holds(g, name) /\ g \in Throwing(name)
  BY <1>1 DEF Holds, Throwing, ChanceHeld
<1>6. /\ ref \in DOMAIN controls
      /\ \A m \in Names \ {name} : table[m] # ref
      /\ \A m \in Names \ {name} : \A h \in Goroutines : Holds(h, m) => held[h].ref # ref
      /\ \A m \in Names : table[m] # 0 => table[m] \in DOMAIN controls
      /\ \A m \in Names : \A h \in Goroutines : Holds(h, m) => held[h].ref \in DOMAIN controls
  BY <1>2, <1>5 DEF ChancesInv, RefsInv
<1>7. controls[ref] \in Control /\ controls[ref].counts \in Counts /\ held[g].copy \in Nat
  <2>1. controls[ref] \in Control  BY <1>2, <1>6
  <2> QED  BY <1>2, <2>1 DEF Control, Local
<1>8. /\ counts \in Counts /\ counts[field] = held[g].copy + 1
      /\ \A f \in Fields \ {field} : counts[f] = controls[ref].counts[f]
  BY <1>3, <1>7 DEF Counts, Fields
<1> HIDE DEF counts
<1>9. control \in Control /\ control.chance = controls[ref].chance /\ control.counts = counts
  BY <1>7, <1>8 DEF Control
<1> HIDE DEF control
<1>10. /\ controls' \in Seq(Control) /\ DOMAIN controls' = DOMAIN controls /\ controls'[ref] = control
       /\ \A q \in DOMAIN controls : q # ref => controls'[q] = controls[q]
  BY <1>1, <1>2, <1>6, <1>9, SetControl
<1>11. ChancesTypeOK'  BY <1>1, <1>2, <1>4, <1>10 DEF ChancesTypeOK
<1>12. /\ \A m : Throwing(m)' \subseteq Throwing(m)
       /\ \A m : \A h \in Goroutines : h # g => (h \in Throwing(m)' <=> h \in Throwing(m))
       /\ \A m : g \in Throwing(m)' <=> m = name /\ next # "return"
  BY <1>1, <1>4, <1>5 DEF Throwing, Others
<1>13. \A n : \A h \in Goroutines : Holds(h, n)' => Holds(h, n)
  <2>1. \A n : Holds(g, n)' => Holds(g, n)  BY <1>5, <1>12 DEF Holds, Throwing
  <2> QED  BY <1>4, <2>1, OthersHold
<1>14. /\ \A h \in Goroutines : \A f : Storing(h, f)' => h # g /\ Storing(h, f)
       /\ Storing(g, field)
  <2>1. \A f : ~Storing(g, f)'  BY <1>4 DEF Storing
  <2>2. Storing(g, field)  BY <1>1 DEF Storing, Outcome
  <2> QED  BY <1>4, <2>1, <2>2, OthersHold
<1>15. RefsInv'  BY <1>1, <1>10, <1>13, RefsSame DEF ChancesInv
<1>16. LocalsInv'  BY <1>1, <1>4 DEF ChancesInv, LocalsInv, Others
<1>17. HeardInv'
  <2>1. DrawsOfItsTime'  BY <1>1 DEF ChancesInv, HeardInv, DrawsOfItsTime
  <2>2. ASSUME NEW n \in Names, NEW h \in Throwing(n)',
               at'[h] \in {"loadCalls", "storeCalls", "randomly"}
        PROVE  controls'[held[h].ref].chance \in heard[h]
    <3>1. h \in Throwing(n) /\ h \in Goroutines  BY <1>12 DEF Throwing
    <3>2. at[h] \in {"loadCalls", "storeCalls", "randomly"}
      BY <1>1, <1>4, <2>2, <3>1 DEF Others
    <3>3. Holds(h, n)  BY <3>1, <3>2 DEF Holds, ChanceHeld
    <3>4. controls'[held[h].ref].chance = controls[held[h].ref].chance
      BY <1>6, <1>9, <1>10, <3>1, <3>3
    <3> QED  BY <3>1, <3>2, <3>4 DEF ChancesInv, HeardInv
  <2>3. ASSUME NEW n \in Names, NEW h \in Throwing(n)'
        PROVE  /\ n \in Basic => master[n] \in heard[h]
               /\ \A o \in Throwing(n)' : held[o].chance \in Levels => held[o].chance \in heard[h]
    BY <1>12 DEF ChancesInv, HeardInv
  <2> QED  BY <1>1, <2>1, <2>2, <2>3 DEF HeardInv
<1>18. /\ \A n : \A f \in Fields : <<n, f>> # <<name, field>> => Pending(n, f)' = Pending(n, f)
       /\ Pending(name, field)' = Pending(name, field) \ {g} /\ g \in Pending(name, field)
  <2>1. \A h \in Goroutines, f \in Fields : h # g => Uncounted(h, f)' = Uncounted(h, f)
    BY <1>4 DEF Uncounted, Outcome, Others
  <2>2. /\ Uncounted(g, field)
        /\ \A f \in Fields : f # field => ~Uncounted(g, f)
        /\ next # "return" => \A f \in Fields : ~Uncounted(g, f)'
    <3>1. Outcome(g) # "calls"  BY DEF Outcome
    <3> QED  BY <1>1, <1>4, <3>1 DEF Uncounted
  <2>3. ASSUME NEW n, NEW f \in Fields, NEW h \in Goroutines, h # g
        PROVE  h \in Pending(n, f)' <=> h \in Pending(n, f)
    BY <1>12, <2>1, <2>3 DEF Pending
  <2>4. ASSUME NEW n, NEW f \in Fields
        PROVE  g \notin Pending(n, f)' /\ (g \in Pending(n, f) <=> <<n, f>> = <<name, field>>)
    BY <1>5, <1>12, <2>2 DEF Pending, Throwing
  <2>5. \A n : \A f \in Fields : Pending(n, f) \subseteq Goroutines /\ Pending(n, f)' \subseteq Goroutines
    BY DEF Pending, Throwing
  <2>6. ASSUME NEW n, NEW f \in Fields, <<n, f>> # <<name, field>>
        PROVE  Pending(n, f)' = Pending(n, f)
    <3>1. \A h \in Goroutines : h \in Pending(n, f)' <=> h \in Pending(n, f)
      BY <2>3, <2>4, <2>6
    <3> QED  BY <2>5, <3>1
  <2>7. Pending(name, field)' = Pending(name, field) \ {g} /\ g \in Pending(name, field)
    <3>1. \A h \in Goroutines : h # g =>
            (h \in Pending(name, field)' <=> h \in Pending(name, field))
      BY <1>3, <2>3
    <3>2. g \notin Pending(name, field)' /\ g \in Pending(name, field)  BY <1>3, <2>4
    <3> QED  BY <1>3, <2>5, <3>1, <3>2
  <2> QED  BY <2>6, <2>7
<1>19. \A n : \A f \in Fields : Cardinality(Pending(n, f)) \in Nat
  BY Sizes DEF Pending, Throwing
<1>20. /\ \A n : \A f \in Fields : <<n, f>> # <<name, field>> =>
            Cardinality(Pending(n, f)') = Cardinality(Pending(n, f))
       /\ Cardinality(Pending(name, field)') = Cardinality(Pending(name, field)) - 1
  <2>1. Pending(name, field) \in SUBSET Goroutines  BY DEF Pending, Throwing
  <2>2. Cardinality(Pending(name, field) \ {g}) = Cardinality(Pending(name, field)) - 1
    BY <1>18, <2>1, Sizes
  <2> QED  BY <1>18, <2>2
<1>21. \A n \in Names, f \in Fields : thrown[n][f] \in Nat
  BY <1>2 DEF ChancesTypeOK, Counts, Fields
<1>22. \A q \in DOMAIN controls : \A f \in Fields : controls[q].counts[f] \in Nat
  <2>1. \A q \in DOMAIN controls : controls[q] \in Control  BY <1>2
  <2> QED  BY <2>1 DEF Control, Counts, Fields
<1>23. AtMostInv'
  <2>1. ASSUME NEW n \in Names, NEW f \in Fields, NEW v \in Nat,
               v + Cardinality(Pending(n, f)) <= thrown[n][f]
        PROVE  v + Cardinality(Pending(n, f)') <= thrown[n][f]
    <3>1. Cardinality(Pending(n, f)') <= Cardinality(Pending(n, f)) /\ Cardinality(Pending(n, f)') \in Int
      BY <1>19, <1>20
    <3> QED  BY <1>19, <1>21, <2>1, <3>1
  <2>2. ASSUME NEW n \in Names, NEW f \in Fields, NEW q \in DOMAIN controls, q = ref => n = name,
               controls[q].counts[f] + Cardinality(Pending(n, f)) <= thrown[n][f]
        PROVE  controls'[q].counts[f] + Cardinality(Pending(n, f)') <= thrown[n][f]
    <3>1. CASE q = ref /\ f = field
      <4>1. controls'[q].counts[f] = held[g].copy + 1  BY <1>8, <1>9, <1>10, <3>1
      <4>2. held[g].copy + Cardinality(Pending(name, field)) <= thrown[name][field]
        BY <1>2, <1>3, <1>5, <1>14 DEF ChancesInv, AtMostInv, Fits
      <4>3. n = name  BY <2>2, <3>1
      <4> QED  BY <1>2, <1>3, <1>7, <1>19, <1>20, <1>21, <3>1, <4>1, <4>2, <4>3
    <3>2. CASE q # ref \/ f # field
      <4>1. controls'[q].counts[f] = controls[q].counts[f]
        BY <1>8, <1>9, <1>10, <3>2
      <4> QED  BY <1>22, <2>1, <2>2, <4>1
    <3> QED  BY <3>1, <3>2
  <2>3. ASSUME NEW n \in Names, NEW f \in Fields
        PROVE  /\ 0 + Cardinality(Pending(n, f)') <= thrown[n][f]
               /\ table[n] # 0 =>
                    controls'[table[n]].counts[f] + Cardinality(Pending(n, f)') <= thrown[n][f]
               /\ \A h \in Goroutines : Holds(h, n)' =>
                    /\ controls'[held[h].ref].counts[f] + Cardinality(Pending(n, f)') <= thrown[n][f]
                    /\ Storing(h, f)' => held[h].copy + Cardinality(Pending(n, f)') <= thrown[n][f]
    <3>1. 0 + Cardinality(Pending(n, f)') <= thrown[n][f]
      BY <2>1 DEF ChancesInv, AtMostInv, Fits
    <3>2. table[n] # 0 =>
            controls'[table[n]].counts[f] + Cardinality(Pending(n, f)') <= thrown[n][f]
      <4>1. table[n] # 0 =>
              controls[table[n]].counts[f] + Cardinality(Pending(n, f)) <= thrown[n][f]
        BY DEF ChancesInv, AtMostInv, Fits
      <4> QED  BY <1>6, <2>2, <4>1
    <3>3. ASSUME NEW h \in Goroutines, Holds(h, n)'
          PROVE  /\ controls'[held[h].ref].counts[f] + Cardinality(Pending(n, f)') <= thrown[n][f]
                 /\ Storing(h, f)' => held[h].copy + Cardinality(Pending(n, f)') <= thrown[n][f]
      <4>1. Holds(h, n) /\ (Storing(h, f)' => Storing(h, f))  BY <1>13, <1>14, <3>3
      <4>2. /\ controls[held[h].ref].counts[f] + Cardinality(Pending(n, f)) <= thrown[n][f]
            /\ Storing(h, f) => held[h].copy + Cardinality(Pending(n, f)) <= thrown[n][f]
        BY <4>1 DEF ChancesInv, AtMostInv, Fits
      <4>3. controls'[held[h].ref].counts[f] + Cardinality(Pending(n, f)') <= thrown[n][f]
        BY <1>6, <2>2, <4>1, <4>2
      <4>4. held[h].copy \in Nat  BY <1>2 DEF ChancesTypeOK, Local
      <4> QED  BY <2>1, <4>1, <4>2, <4>3, <4>4
    <3> QED  BY <3>1, <3>2, <3>3
  <2> QED  BY <1>1, <2>3 DEF AtMostInv, Fits
<1>24. AloneInv'
  <2>1. ASSUME NEW n \in alone
        PROVE  /\ \A f \in Fields : Counted(n)'[f] + Cardinality(Pending(n, f)') = thrown[n][f]
               /\ \A h, o \in Throwing(n)' : h = o
               /\ \A h \in Throwing(n)' :
                    /\ at'[h] \in {"create", "store"} => table[n] = 0
                    /\ at'[h] = "store" => controls'[held[h].ref].counts = NoCounts
                    /\ at'[h] \in ChanceHeld \ {"store"} => held[h].ref = table[n]
                    /\ \A f \in Fields : Storing(h, f)' => held[h].copy = Counted(n)'[f]
    <3>1. /\ n \in Names
          /\ \A f \in Fields : Counted(n)[f] + Cardinality(Pending(n, f)) = thrown[n][f]
          /\ \A h, o \in Throwing(n) : h = o
      BY <1>2 DEF ChancesInv, AloneInv, ChancesTypeOK
    <3>2. \A h, o \in Throwing(n)' : h = o  BY <1>12, <3>1
    <3>3. CASE n = name
      <4>1. ref = table[n] /\ held[g].copy = Counted(n)[field]
        BY <1>1, <1>3, <1>5, <1>14, <3>3 DEF ChancesInv, AloneInv, ChanceHeld
      <4>2. table[n] # 0
        <5>1. DOMAIN controls = 1 .. Len(controls) /\ Len(controls) \in Nat  BY <1>2
        <5> QED  BY <1>6, <4>1, <5>1
      <4>3. Counted(n) = controls[ref].counts /\ Counted(n)' = counts
        BY <1>1, <1>9, <1>10, <4>1, <4>2 DEF Counted
      <4>4. \A f \in Fields : Counted(n)'[f] + Cardinality(Pending(n, f)') = thrown[n][f]
        <5>1. ASSUME NEW f \in Fields
              PROVE  Counted(n)'[f] + Cardinality(Pending(n, f)') = thrown[n][f]
          <6>1. CASE f = field  BY <1>7, <1>8, <1>19, <1>20, <3>1, <3>3, <4>1, <4>3, <6>1
          <6>2. CASE f # field  BY <1>8, <1>20, <3>1, <4>3, <6>2
          <6> QED  BY <6>1, <6>2
        <5> QED  BY <5>1
      <4>5. \A h \in Throwing(n)' : h = g /\ at'[h] = "randomly"
        BY <1>4, <1>5, <1>12, <3>1, <3>3
      <4> QED  BY <1>14, <3>2, <4>1, <4>4, <4>5
    <3>4. CASE n # name
      <4>1. Counted(n)' = Counted(n)
        <5>1. table[n] # 0 => controls'[table[n]] = controls[table[n]]
          BY <1>6, <1>10, <3>1, <3>4
        <5> QED  BY <1>1, <5>1 DEF Counted
      <4>2. \A f \in Fields : Counted(n)'[f] + Cardinality(Pending(n, f)') = thrown[n][f]
        BY <1>20, <3>1, <3>4, <4>1
      <4>3. ASSUME NEW h \in Throwing(n)'
            PROVE  /\ at'[h] \in {"create", "store"} => table[n] = 0
                   /\ at'[h] = "store" => controls'[held[h].ref].counts = NoCounts
                   /\ at'[h] \in ChanceHeld \ {"store"} => held[h].ref = table[n]
                   /\ \A f \in Fields : Storing(h, f)' => held[h].copy = Counted(n)'[f]
        <5>1. h \in Throwing(n) /\ h \in Goroutines /\ h # g  BY <1>12, <3>4 DEF Throwing
        <5>2. at'[h] = at[h]  BY <1>4, <5>1 DEF Others
        <5>3. at[h] = "store" => controls'[held[h].ref] = controls[held[h].ref]
          <6>1. at[h] = "store" => Holds(h, n)  BY <5>1 DEF Holds, ChanceHeld
          <6> QED  BY <1>6, <1>10, <3>1, <3>4, <5>1, <6>1
        <5>4. \A f \in Fields : Storing(h, f)' => Storing(h, f)  BY <1>14, <5>1
        <5> QED  BY <4>1, <5>1, <5>2, <5>3, <5>4 DEF ChancesInv, AloneInv
      <4> QED  BY <3>2, <4>2, <4>3
    <3> QED  BY <3>3, <3>4
  <2> QED  BY <1>1, <2>1 DEF AloneInv
<1> QED  BY <1>11, <1>15, <1>16, <1>17, <1>23, <1>24 DEF ChancesInv

\* Where the uncounted throws grow with the throws, the room stays.
LEMMA RoomKept ==
  ASSUME ChancesTypeOK, RefsInv, AtMostInv, UNCHANGED <<table, controls>>,
         \A n : \A h \in Goroutines :
           Holds(h, n)' => Holds(h, n) /\ held'[h].ref = held[h].ref /\ held'[h].copy = held[h].copy,
         \A h \in Goroutines : \A f : Storing(h, f)' => Storing(h, f),
         \A n : \A f \in Fields :
           Cardinality(Pending(n, f)) \in Nat /\ Cardinality(Pending(n, f)') \in Nat,
         \A n \in Names, f \in Fields : thrown[n][f] \in Nat /\ thrown'[n][f] \in Nat,
         \A n \in Names, f \in Fields :
           thrown'[n][f] - Cardinality(Pending(n, f)') = thrown[n][f] - Cardinality(Pending(n, f))
  PROVE  AtMostInv'
<1>1. ASSUME NEW n \in Names, NEW f \in Fields, NEW v \in Int, Fits(n, f, v)
      PROVE  v + Cardinality(Pending(n, f)') <= thrown'[n][f]
  BY <1>1 DEF Fits
<1>2. \A q \in DOMAIN controls : \A f \in Fields : controls[q].counts[f] \in Int
  <2>1. \A q \in DOMAIN controls : controls[q] \in Control  BY DEF ChancesTypeOK
  <2> QED  BY <2>1 DEF Control, Counts, Fields
<1>3. \A h \in Goroutines : held[h].copy \in Int  BY DEF ChancesTypeOK, Local
<1>4. ASSUME NEW n \in Names, NEW f \in Fields
      PROVE  /\ 0 + Cardinality(Pending(n, f)') <= thrown'[n][f]
             /\ table[n] # 0 =>
                  controls[table[n]].counts[f] + Cardinality(Pending(n, f)') <= thrown'[n][f]
             /\ \A h \in Goroutines : Holds(h, n) =>
                  /\ controls[held[h].ref].counts[f] + Cardinality(Pending(n, f)') <= thrown'[n][f]
                  /\ Storing(h, f) => held[h].copy + Cardinality(Pending(n, f)') <= thrown'[n][f]
  <2>1. /\ Fits(n, f, 0) /\ (table[n] # 0 => Fits(n, f, controls[table[n]].counts[f]))
        /\ table[n] # 0 => table[n] \in DOMAIN controls
    BY DEF AtMostInv, RefsInv
  <2>2. \A h \in Goroutines : Holds(h, n) =>
          /\ Fits(n, f, controls[held[h].ref].counts[f])
          /\ Storing(h, f) => Fits(n, f, held[h].copy)
          /\ held[h].ref \in DOMAIN controls
    BY DEF AtMostInv, RefsInv
  <2> QED  BY <1>1, <1>2, <1>3, <2>1, <2>2
<1> QED  BY <1>4 DEF AtMostInv, Fits

\* The outcome of a throw, or the decision to draw a number for it.
Decides(g, next, used, won) ==
  /\ at[g] \in {"randomly", "draw"} /\ Go(g, next)
  /\ held' = [held EXCEPT ![g] = [held[g] EXCEPT !.used = used, !.won = won]]
  /\ \/ next = "draw" /\ UNCHANGED thrown
     \/ next = "loadOutcome" /\ thrown' = [thrown EXCEPT ![held[g].name] =
          [thrown[held[g].name] EXCEPT ![IF won THEN "trues" ELSE "falses"] = @ + 1]]
  /\ UNCHANGED <<master, table, controls, alone, heard>>

LEMMA DecidesKeeps ==
  ASSUME ChancesInv, NEW g \in Goroutines, NEW next, NEW used \in Levels \cup {"unread"},
         used # "unread" => used \in heard[g], NEW won \in BOOLEAN,
         Decides(g, next, used, won), NEW name, name = held[g].name
  PROVE  ChancesInv'
<1> DEFINE local == [held[g] EXCEPT !.used = used, !.won = won]
           field == IF won THEN "trues" ELSE "falses"
<1>1. /\ at[g] \in {"randomly", "draw"} /\ next \in {"draw", "loadOutcome"} /\ next \in Places
      /\ Go(g, next) /\ held' = [held EXCEPT ![g] = local]
      /\ UNCHANGED <<master, table, controls, alone, heard>>
  BY DEF Decides, Places
<1>2. ChancesTypeOK /\ held[g] \in Local /\ name \in Names /\ field \in Fields
  BY DEF ChancesInv, ChancesTypeOK, Local, Fields
<1>3. /\ local \in Local /\ local.name = name /\ local.chance = held[g].chance
      /\ local.ref = held[g].ref /\ local.copy = held[g].copy /\ local.used = used
      /\ local.won = won
  BY <1>2 DEF Local
<1> HIDE DEF local
<1>4. /\ at' \in [Goroutines -> Places] /\ at'[g] = next
      /\ held' \in [Goroutines -> Local] /\ held'[g] = local /\ Others(g)
  BY <1>1, <1>2, <1>3, MoveTypes
<1>5. Active(g) /\ Active(g)'  BY <1>1, <1>4 DEF Active
<1>6. \A n : Throwing(n)' = Throwing(n)  BY <1>3, <1>4, <1>5, ThrowingSame
<1>7. g \in Throwing(name) /\ \A n : g \in Throwing(n) => n = name
  BY <1>5 DEF Throwing, Active
<1>8. \A h \in Goroutines :
        /\ held'[h].name = held[h].name /\ held'[h].chance = held[h].chance
        /\ held'[h].ref = held[h].ref /\ held'[h].copy = held[h].copy
  BY <1>3, <1>4 DEF Others
<1>9. \A n : \A h \in Goroutines : Holds(h, n)' <=> Holds(h, n)
  <2>1. \A n : Holds(g, n)' <=> Holds(g, n)  BY <1>1, <1>4, <1>6 DEF Holds, ChanceHeld
  <2> QED  BY <1>4, <2>1, OthersHold
<1>10. \A h \in Goroutines : \A f : Storing(h, f)' => Storing(h, f)
  <2>1. \A f : ~Storing(g, f)'  BY <1>1, <1>4 DEF Storing
  <2> QED  BY <1>4, <2>1, OthersHold
<1>11. RefsInv'  BY <1>1, <1>8, <1>9, RefsSame DEF ChancesInv
<1>12. LocalsInv'
  <2>1. held[g].chance \in Levels  BY <1>1 DEF ChancesInv, LocalsInv
  <2> QED  BY <1>1, <1>3, <1>4, <2>1 DEF ChancesInv, LocalsInv, Others
<1>13. HeardInv'
  <2>1. DrawsOfItsTime'
    <3>1. \A h \in Goroutines : h # g => held'[h] = held[h]  BY <1>4 DEF Others
    <3> QED  BY <1>1, <1>3, <1>4, <3>1 DEF ChancesInv, HeardInv, DrawsOfItsTime
  <2>2. \A h \in Goroutines : at'[h] \in {"loadCalls", "storeCalls", "randomly"} => at'[h] = at[h]
    BY <1>1, <1>4 DEF Others
  <2>3. \A n : \A h \in Throwing(n) : h \in Goroutines  BY DEF Throwing
  <2>4. ASSUME NEW n \in Names, NEW h \in Throwing(n)
        PROVE  /\ n \in Basic => master[n] \in heard[h]
               /\ \A o \in Throwing(n) : held'[o].chance \in Levels => held'[o].chance \in heard[h]
               /\ at'[h] \in {"loadCalls", "storeCalls", "randomly"} =>
                    controls[held'[h].ref].chance \in heard[h]
    BY <1>8, <2>2, <2>3 DEF ChancesInv, HeardInv
  <2> QED  BY <1>1, <1>6, <2>1, <2>4 DEF HeardInv
<1>14. thrown \in [Names -> Counts]  BY <1>2 DEF ChancesTypeOK
<1>15. \A n \in Names, f \in Fields : thrown[n][f] \in Nat  BY <1>14 DEF Counts, Fields
<1>16. CASE next = "draw"
  <2>1. UNCHANGED thrown  BY <1>16 DEF Decides
  <2>2. ChancesTypeOK'  BY <1>1, <1>2, <1>4, <2>1 DEF ChancesTypeOK
  <2>3. \A f \in Fields : Uncounted(g, f)' = Uncounted(g, f)
    BY <1>1, <1>4, <1>16 DEF Uncounted
  <2>4. \A n : \A f \in Fields : Pending(n, f)' = Pending(n, f)
    BY <1>3, <1>4, <1>5, <2>3, PendingSame
  <2>5. AtMostInv'  BY <1>1, <1>8, <1>9, <1>10, <2>1, <2>4 DEF ChancesInv, AtMostInv, Fits
  <2>6. AloneInv'
    <3>1. ASSUME NEW n \in alone, NEW h \in Throwing(n)
          PROVE  /\ at'[h] \in {"create", "store"} => table[n] = 0
                 /\ at'[h] = "store" => controls[held'[h].ref].counts = NoCounts
                 /\ at'[h] \in ChanceHeld \ {"store"} => held'[h].ref = table[n]
                 /\ \A f \in Fields : Storing(h, f)' => held'[h].copy = Counted(n)[f]
      <4>1. h \in Goroutines  BY DEF Throwing
      <4>2. h = g => at[h] \in ChanceHeld \ {"store"} /\ at'[h] \notin {"create", "store"}
        BY <1>1, <1>4 DEF ChanceHeld
      <4>3. h # g => at'[h] = at[h]  BY <1>4, <4>1 DEF Others
      <4> QED  BY <1>8, <1>10, <4>1, <4>2, <4>3 DEF ChancesInv, AloneInv
    <3>2. Counted(name)' = Counted(name) /\ \A n : Counted(n)' = Counted(n)  BY <1>1 DEF Counted
    <3> QED  BY <1>1, <1>6, <2>1, <2>4, <3>1, <3>2 DEF ChancesInv, AloneInv
  <2> QED  BY <1>11, <1>12, <1>13, <2>2, <2>5, <2>6 DEF ChancesInv
<1>17. CASE next = "loadOutcome"
  <2>1. thrown' = [thrown EXCEPT ![name] = [thrown[name] EXCEPT ![field] = @ + 1]]
    BY <1>17 DEF Decides
  <2>2. /\ thrown' \in [Names -> Counts] /\ thrown'[name][field] = thrown[name][field] + 1
        /\ \A n \in Names, f \in Fields : <<n, f>> # <<name, field>> => thrown'[n][f] = thrown[n][f]
    <3>1. thrown[name] \in Counts  BY <1>2, <1>14
    <3>2. /\ [thrown[name] EXCEPT ![field] = @ + 1] \in Counts
          /\ [thrown[name] EXCEPT ![field] = @ + 1][field] = thrown[name][field] + 1
          /\ \A f \in Fields : f # field => [thrown[name] EXCEPT ![field] = @ + 1][f] = thrown[name][f]
      BY <3>1 DEF Counts, Fields
    <3> QED  BY <1>2, <1>14, <2>1, <3>2
  <2>3. ChancesTypeOK'  BY <1>1, <1>2, <1>4, <2>2 DEF ChancesTypeOK
  <2> HIDE DEF field
  <2>4. /\ \A n : \A f \in Fields : <<n, f>> # <<name, field>> => Pending(n, f)' = Pending(n, f)
        /\ Pending(name, field)' = Pending(name, field) \cup {g} /\ g \notin Pending(name, field)
    <3>1. \A h \in Goroutines, f \in Fields : h # g => Uncounted(h, f)' = Uncounted(h, f)
      BY <1>4 DEF Uncounted, Outcome, Others
    <3>2. Outcome(g)' = field  BY <1>3, <1>4 DEF Outcome, field
    <3>3. \A f \in Fields : ~Uncounted(g, f) /\ (Uncounted(g, f)' <=> f = field)
      <4>1. field # "calls"  BY DEF field
      <4> QED  BY <1>1, <1>4, <1>17, <3>2, <4>1 DEF Uncounted
    <3>4. ASSUME NEW n, NEW f \in Fields, NEW h \in Goroutines, h # g
          PROVE  h \in Pending(n, f)' <=> h \in Pending(n, f)
      BY <1>6, <3>1, <3>4 DEF Pending
    <3>5. ASSUME NEW n, NEW f \in Fields
          PROVE  g \notin Pending(n, f) /\ (g \in Pending(n, f)' <=> n = name /\ f = field)
      BY <1>6, <1>7, <3>3 DEF Pending
    <3>6. \A n : \A f \in Fields : Pending(n, f) \subseteq Goroutines /\ Pending(n, f)' \subseteq Goroutines
      BY DEF Pending, Throwing
    <3>7. ASSUME NEW n, NEW f \in Fields, <<n, f>> # <<name, field>>
          PROVE  Pending(n, f)' = Pending(n, f)
      <4>1. \A h \in Goroutines : h \in Pending(n, f)' <=> h \in Pending(n, f)
        BY <3>4, <3>5, <3>7
      <4> QED  BY <3>6, <4>1
    <3>8. Pending(name, field)' = Pending(name, field) \cup {g} /\ g \notin Pending(name, field)
      <4>1. \A h \in Goroutines : h # g =>
              (h \in Pending(name, field)' <=> h \in Pending(name, field))
        BY <1>2, <3>4
      <4>2. g \in Pending(name, field)' /\ g \notin Pending(name, field)  BY <1>2, <3>5
      <4> QED  BY <1>2, <3>6, <4>1, <4>2
    <3> QED  BY <3>7, <3>8
  <2>5. \A n \in Names, f \in Fields :
          thrown'[n][f] - Cardinality(Pending(n, f)') = thrown[n][f] - Cardinality(Pending(n, f))
    <3>1. TAKE n \in Names, f \in Fields
    <3>2. Pending(n, f) \in SUBSET Goroutines  BY DEF Pending, Throwing
    <3>3. Cardinality(Pending(n, f)) \in Nat  BY <3>2, Sizes
    <3>4. CASE <<n, f>> = <<name, field>>
      <4>1. Cardinality(Pending(n, f)') = Cardinality(Pending(n, f)) + 1  BY <2>4, <3>2, <3>4, Sizes
      <4> QED  BY <1>15, <2>2, <3>3, <3>4, <4>1
    <3>5. CASE <<n, f>> # <<name, field>>  BY <2>2, <2>4, <3>5
    <3> QED  BY <3>4, <3>5
  <2>6. /\ \A n : \A f \in Fields : Cardinality(Pending(n, f)) \in Nat
        /\ \A n : \A f \in Fields : Cardinality(Pending(n, f)') \in Nat
        /\ \A n \in Names, f \in Fields : thrown[n][f] \in Nat /\ thrown'[n][f] \in Nat
        /\ \A n \in Names, f \in Fields : Counted(n)[f] \in Nat
    <3>1. \A n : \A f : Pending(n, f) \in SUBSET Goroutines /\ Pending(n, f)' \in SUBSET Goroutines
      BY DEF Pending, Throwing
    <3>2. \A n \in Names, f \in Fields : thrown'[n][f] \in Nat  BY <2>2 DEF Counts, Fields
    <3>3. \A n \in Names : Counted(n) \in Counts
      <4>1. NoCounts \in Counts  BY DEF NoCounts, Counts
      <4>2. \A n \in Names : table[n] # 0 => controls[table[n]] \in Control
        BY <1>2 DEF ChancesInv, RefsInv, ChancesTypeOK
      <4> QED  BY <4>1, <4>2 DEF Counted, Control
    <3> QED  BY <1>15, <3>1, <3>2, <3>3, Sizes DEF Counts, Fields
  <2>7. AtMostInv'
    BY <1>1, <1>2, <1>8, <1>9, <1>10, <2>5, <2>6, RoomKept DEF ChancesInv
  <2>8. AloneInv'
    <3>1. ASSUME NEW n \in alone, NEW h \in Throwing(n)
          PROVE  /\ at'[h] \in {"create", "store"} => table[n] = 0
                 /\ at'[h] = "store" => controls[held'[h].ref].counts = NoCounts
                 /\ at'[h] \in ChanceHeld \ {"store"} => held'[h].ref = table[n]
                 /\ \A f \in Fields : Storing(h, f)' => held'[h].copy = Counted(n)[f]
      <4>1. h \in Goroutines  BY DEF Throwing
      <4>2. h = g => at[h] \in ChanceHeld \ {"store"} /\ at'[h] \notin {"create", "store"}
        BY <1>1, <1>4 DEF ChanceHeld
      <4>3. h # g => at'[h] = at[h]  BY <1>4, <4>1 DEF Others
      <4> QED  BY <1>8, <1>10, <4>1, <4>2, <4>3 DEF ChancesInv, AloneInv
    <3>2. \A n : Counted(n)' = Counted(n)  BY <1>1 DEF Counted
    <3>3. ASSUME NEW n \in alone
          PROVE  /\ \A f \in Fields : Counted(n)[f] + Cardinality(Pending(n, f)') = thrown'[n][f]
                 /\ \A h, o \in Throwing(n) : h = o
      <4>1. n \in Names  BY <1>2 DEF ChancesTypeOK
      <4>2. /\ \A f \in Fields : Counted(n)[f] + Cardinality(Pending(n, f)) = thrown[n][f]
            /\ \A h, o \in Throwing(n) : h = o
        BY DEF ChancesInv, AloneInv
      <4> QED  BY <2>5, <2>6, <4>1, <4>2
    <3> QED  BY <1>1, <1>6, <3>1, <3>2, <3>3 DEF AloneInv
  <2> QED  BY <1>11, <1>12, <1>13, <2>3, <2>7, <2>8 DEF ChancesInv
<1> QED  BY <1>1, <1>16, <1>17

LEMMA RandomlyTrueKeeps ==
  ASSUME ChancesInv, NEW g \in Goroutines, RandomlyTrue(g)
  PROVE  ChancesInv'
<1> DEFINE chance == controls[held[g].ref].chance
<1>1. PICK name : name = held[g].name  OBVIOUS
<1>2. at[g] = "randomly"  BY DEF RandomlyTrue, Is
<1>3. ChancesTypeOK /\ name \in Names  BY <1>1 DEF ChancesInv, ChancesTypeOK, Local
<1>4. Holds(g, name) /\ g \in Throwing(name)  BY <1>1, <1>2 DEF Holds, Throwing, ChanceHeld
<1>5. chance \in heard[g]  BY <1>2, <1>3, <1>4 DEF ChancesInv, HeardInv
<1>6. chance \in Levels
  <2>1. held[g].ref \in DOMAIN controls  BY <1>3, <1>4 DEF ChancesInv, RefsInv
  <2>2. controls[held[g].ref] \in Control  BY <1>3, <2>1 DEF ChancesTypeOK
  <2> QED  BY <2>2 DEF Control
<1>7. (chance = "always") \in BOOLEAN  OBVIOUS
<1>8. PICK used \in Levels : used = chance  BY <1>6
<1>9. PICK won \in BOOLEAN : won = (chance = "always")  BY <1>7
<1>10. CASE chance = "maybe"
  <2>1. Decides(g, "draw", used, won)
    BY <1>2, <1>8, <1>9, <1>10 DEF RandomlyTrue, Decides
  <2> QED  BY <1>1, <1>5, <1>8, <2>1, DecidesKeeps
<1>11. CASE chance # "maybe"
  <2>1. Decides(g, "loadOutcome", used, won)
    BY <1>2, <1>8, <1>9, <1>11 DEF RandomlyTrue, Decides
  <2> QED  BY <1>1, <1>5, <1>8, <2>1, DecidesKeeps
<1> QED  BY <1>10, <1>11

LEMMA DrawKeeps ==
  ASSUME ChancesInv, NEW g \in Goroutines, Draw(g)
  PROVE  ChancesInv'
<1>1. PICK name : name = held[g].name  OBVIOUS
<1>2. PICK won \in BOOLEAN :
        /\ held' = [held EXCEPT ![g].won = won]
        /\ thrown' = [thrown EXCEPT ![held[g].name][IF won THEN "trues" ELSE "falses"] = @ + 1]
  BY DEF Draw
<1>3. held \in [Goroutines -> Local] /\ held[g] \in Local  BY DEF ChancesInv, ChancesTypeOK
<1>4. PICK used \in Levels \cup {"unread"} : used = held[g].used  BY <1>3 DEF Local
<1>5. used # "unread" => used \in heard[g]
  BY <1>4 DEF ChancesInv, HeardInv, DrawsOfItsTime
<1>6. Decides(g, "loadOutcome", used, won)
  <2>1. [held[g] EXCEPT !.used = used, !.won = won] = [held[g] EXCEPT !.won = won]
    BY <1>3, <1>4 DEF Local
  <2>2. held' = [held EXCEPT ![g] = [held[g] EXCEPT !.used = used, !.won = won]]
    BY <1>2, <2>1
  <2> QED  BY <1>2, <2>2 DEF Draw, Is, Decides
<1> QED  BY <1>1, <1>4, <1>5, <1>6, DecidesKeeps
----------------------------------------------------------------------------
(* Calls, answers and commands *)

\* A step of a goroutine that is in no throw, before it and after.
LEMMA OutsideKeeps ==
  ASSUME ChancesInv, NEW g \in Goroutines, Others(g), ~Active(g), ~Active(g)',
         ChancesTypeOK', LocalsInv', UNCHANGED <<table, controls, thrown, alone>>,
         \A h \in Goroutines : h # g => heard[h] \subseteq heard'[h],
         held'[g].used # "unread" => held'[g].used \in heard'[g],
         \A n \in Basic : \A h \in Throwing(n) : master'[n] \in heard'[h]
  PROVE  ChancesInv'
<1>1. \A n : Throwing(n)' = Throwing(n) /\ g \notin Throwing(n)
  BY ThrowingSame DEF Throwing, Active
<1>2. \A n : \A f \in Fields : Pending(n, f)' = Pending(n, f)
  <2>1. Active(g)' = Active(g)  BY DEF Active
  <2>2. Active(g) => \A f \in Fields : Uncounted(g, f)' = Uncounted(g, f)  OBVIOUS
  <2> QED  BY <2>1, <2>2, PendingSame
<1>3. \A n : \A h \in Throwing(n) :
        h \in Goroutines /\ h # g /\ at'[h] = at[h] /\ held'[h] = held[h]
  BY <1>1 DEF Throwing, Others
<1>4. \A n : \A h \in Goroutines : (Holds(h, n)' <=> Holds(h, n)) /\ (Holds(h, n) => held'[h] = held[h])
  BY <1>1, <1>3 DEF Holds
<1>5. \A h \in Goroutines : h # g => \A f : Storing(h, f)' <=> Storing(h, f)  BY OthersHold
<1>6. \A n : \A h \in Goroutines : Holds(h, n) => h \in Throwing(n) /\ h # g
  BY <1>1 DEF Holds
<1>7. RefsInv'  BY <1>4 DEF ChancesInv, RefsInv
<1>8. HeardInv'
  <2>1. DrawsOfItsTime'
    <3>1. \A h \in Goroutines : h # g => held'[h].used = held[h].used  BY DEF Others
    <3> QED  BY <3>1 DEF ChancesInv, HeardInv, DrawsOfItsTime
  <2>2. ASSUME NEW n \in Names, NEW h \in Throwing(n)
        PROVE  /\ n \in Basic => master'[n] \in heard'[h]
               /\ \A o \in Throwing(n) : held'[o].chance \in Levels => held'[o].chance \in heard'[h]
               /\ at'[h] \in {"loadCalls", "storeCalls", "randomly"} =>
                    controls[held'[h].ref].chance \in heard'[h]
    <3>1. heard[h] \subseteq heard'[h]  BY <1>3
    <3>2. /\ \A o \in Throwing(n) : held[o].chance \in Levels => held[o].chance \in heard[h]
          /\ at[h] \in {"loadCalls", "storeCalls", "randomly"} =>
               controls[held[h].ref].chance \in heard[h]
      BY DEF ChancesInv, HeardInv
    <3> QED  BY <1>3, <3>1, <3>2
  <2> QED  BY <1>1, <2>1, <2>2 DEF HeardInv
<1>9. AtMostInv'  BY <1>2, <1>4, <1>5, <1>6 DEF ChancesInv, AtMostInv, Fits
<1>10. AloneInv'
  <2>1. ASSUME NEW n \in alone, NEW h \in Throwing(n)
        PROVE  /\ at'[h] \in {"create", "store"} => table[n] = 0
               /\ at'[h] = "store" => controls[held'[h].ref].counts = NoCounts
               /\ at'[h] \in ChanceHeld \ {"store"} => held'[h].ref = table[n]
               /\ \A f \in Fields : Storing(h, f)' => held'[h].copy = Counted(n)[f]
    BY <1>3, <1>5 DEF ChancesInv, AloneInv
  <2>2. \A n : Counted(n)' = Counted(n)  BY DEF Counted
  <2> QED  BY <1>1, <1>2, <2>1, <2>2 DEF ChancesInv, AloneInv
<1> QED  BY <1>7, <1>8, <1>9, <1>10 DEF ChancesInv

LEMMA NoLocals == Names # {} /\ Locals \in Local /\ Locals.used = "unread"
<1>1. Names # {}  BY ChancesConstants DEF Names
<1>2. (CHOOSE n \in Names : TRUE) \in Names  BY <1>1
<1> QED  BY <1>1, <1>2 DEF Locals, Local

LEMMA ReturnKeeps ==
  ASSUME ChancesInv, NEW g \in Goroutines, Return(g)
  PROVE  ChancesInv'
<1>1. /\ at[g] = "return" /\ Go(g, "idle") /\ held' = [held EXCEPT ![g] = Locals]
      /\ heard' = [heard EXCEPT ![g] = {}] /\ UNCHANGED <<master, table, controls, thrown, alone>>
  BY DEF Return, Is
<1>2. ChancesTypeOK  BY DEF ChancesInv
<1>3. /\ at' \in [Goroutines -> Places] /\ at'[g] = "idle"
      /\ held' \in [Goroutines -> Local] /\ held'[g] = Locals /\ Others(g)
  <2>1. "idle" \in Places  BY DEF Places
  <2> QED  BY <1>1, <1>2, <2>1, NoLocals, MoveTypes
<1>4. /\ heard' \in [Goroutines -> SUBSET Levels]
      /\ \A h \in Goroutines : h # g => heard'[h] = heard[h]
  BY <1>1, <1>2 DEF ChancesTypeOK
<1>5. ChancesTypeOK'  BY <1>1, <1>2, <1>3, <1>4 DEF ChancesTypeOK
<1>6. LocalsInv'  BY <1>3 DEF ChancesInv, LocalsInv, Others
<1>7. ~Active(g) /\ ~Active(g)'  BY <1>1, <1>3 DEF Active
<1>8. held'[g].used = "unread"  BY <1>3, NoLocals
<1>9. \A n \in Basic : \A h \in Throwing(n) : master'[n] \in heard'[h]
  <2>1. \A n : \A h \in Throwing(n) : h \in Goroutines /\ h # g  BY <1>7 DEF Throwing, Active
  <2> QED  BY <1>1, <1>4, <2>1 DEF ChancesInv, HeardInv, Names, Basic
<1> QED  BY <1>1, <1>3, <1>4, <1>5, <1>6, <1>7, <1>8, <1>9, OutsideKeeps

LEMMA CommandKeeps ==
  ASSUME ChancesInv, NEW g \in Goroutines, Command(g)
  PROVE  ChancesInv'
<1>1. PICK n \in Listed :
        \E next \in Levels : held' = [held EXCEPT ![g] = [Locals EXCEPT !.name = n, !.chance = next]]
  BY DEF Command
<1>2. PICK next \in Levels : held' = [held EXCEPT ![g] = [Locals EXCEPT !.name = n, !.chance = next]]
  BY <1>1
<1> DEFINE local == [Locals EXCEPT !.name = n, !.chance = next]
<1>3. /\ at[g] = "idle" /\ Go(g, "look") /\ held' = [held EXCEPT ![g] = local]
      /\ UNCHANGED <<master, table, controls, thrown, alone, heard>>
  BY <1>2 DEF Command, Is, history
<1>4. local \in Local /\ local.name = n /\ local.chance = next /\ local.used = "unread"
  BY NoLocals DEF Local, Names
<1> HIDE DEF local
<1>5. ChancesTypeOK  BY DEF ChancesInv
<1>6. /\ at' \in [Goroutines -> Places] /\ at'[g] = "look"
      /\ held' \in [Goroutines -> Local] /\ held'[g] = local /\ Others(g)
  <2>1. "look" \in Places  BY DEF Places
  <2> QED  BY <1>3, <1>4, <1>5, <2>1, MoveTypes
<1>7. ChancesTypeOK'  BY <1>3, <1>5, <1>6 DEF ChancesTypeOK
<1>8. LocalsInv'  BY <1>4, <1>6 DEF ChancesInv, LocalsInv, Others
<1>9. ~Active(g) /\ ~Active(g)'  BY <1>3, <1>6 DEF Active
<1>10. \A m \in Basic : \A h \in Throwing(m) : master'[m] \in heard'[h]
  BY <1>3 DEF ChancesInv, HeardInv, Names, Basic
<1> QED  BY <1>3, <1>4, <1>6, <1>7, <1>8, <1>9, <1>10, OutsideKeeps

LEMMA LookAndBeginKeep ==
  ASSUME ChancesInv, NEW g \in Goroutines, LookUp(g) \/ BeginChange(g)
  PROVE  ChancesInv'
<1>1. PICK next \in {"write", "written"} : Go(g, next)  BY DEF LookUp, BeginChange
<1>2. /\ at[g] \in {"look", "write"} /\ held' = held
      /\ UNCHANGED <<master, table, controls, thrown, alone, heard>>
  BY DEF LookUp, BeginChange, Is, history
<1>3. ChancesTypeOK  BY DEF ChancesInv
<1>4. at' \in [Goroutines -> Places] /\ at'[g] = next /\ Others(g)
  <2>1. next \in Places  BY DEF Places
  <2> QED  BY <1>1, <1>2, <1>3, <2>1, StayTypes
<1>5. ChancesTypeOK'  BY <1>2, <1>3, <1>4 DEF ChancesTypeOK
<1>6. LocalsInv'  BY <1>2, <1>4 DEF ChancesInv, LocalsInv, Others
<1>7. ~Active(g) /\ ~Active(g)'  BY <1>2, <1>4 DEF Active
<1>8. \A m \in Basic : \A h \in Throwing(m) : master'[m] \in heard'[h]
  BY <1>2 DEF ChancesInv, HeardInv, Names, Basic
<1>9. held'[g].used # "unread" => held'[g].used \in heard'[g]
  BY <1>2 DEF ChancesInv, HeardInv, DrawsOfItsTime
<1> QED  BY <1>2, <1>4, <1>5, <1>6, <1>7, <1>8, <1>9, OutsideKeeps

LEMMA EndChangeKeeps ==
  ASSUME ChancesInv, NEW g \in Goroutines, EndChange(g)
  PROVE  ChancesInv'
<1>1. PICK n : n = held[g].name  OBVIOUS
<1>2. /\ at[g] = "written" /\ Go(g, "idle") /\ held' = [held EXCEPT ![g] = Locals]
      /\ master' = [master EXCEPT ![n] = held[g].chance]
      /\ heard' = [h \in Goroutines |->
           IF n \in Basic /\ h \in Throwing(n) THEN heard[h] \cup {held[g].chance} ELSE heard[h]]
      /\ UNCHANGED <<table, controls, thrown, alone>>
  BY <1>1 DEF EndChange, Is
<1>3. ChancesTypeOK  BY DEF ChancesInv
<1>4. n \in Listed /\ held[g].chance \in Levels  BY <1>1, <1>2 DEF ChancesInv, LocalsInv
<1>5. /\ at' \in [Goroutines -> Places] /\ at'[g] = "idle"
      /\ held' \in [Goroutines -> Local] /\ held'[g] = Locals /\ Others(g)
  <2>1. "idle" \in Places  BY DEF Places
  <2> QED  BY <1>2, <1>3, <2>1, NoLocals, MoveTypes
<1>6. /\ heard' \in [Goroutines -> SUBSET Levels]
      /\ \A h \in Goroutines : heard[h] \subseteq heard'[h]
      /\ n \in Basic => \A h \in Throwing(n) : held[g].chance \in heard'[h]
  <2>1. heard \in [Goroutines -> SUBSET Levels]  BY <1>3 DEF ChancesTypeOK
  <2>2. \A h \in Throwing(n) : h \in Goroutines  BY DEF Throwing
  <2> QED  BY <1>2, <1>4, <2>1, <2>2
<1>7. /\ master' \in [Listed -> Levels] /\ master'[n] = held[g].chance
      /\ \A m \in Listed : m # n => master'[m] = master[m]
  BY <1>2, <1>3, <1>4 DEF ChancesTypeOK
<1>8. ChancesTypeOK'  BY <1>2, <1>3, <1>5, <1>6, <1>7 DEF ChancesTypeOK
<1>9. LocalsInv'  BY <1>5 DEF ChancesInv, LocalsInv, Others
<1>10. ~Active(g) /\ ~Active(g)'  BY <1>2, <1>5 DEF Active
<1>11. held'[g].used = "unread"  BY <1>5, NoLocals
<1>12. \A m \in Basic : \A h \in Throwing(m) : master'[m] \in heard'[h]
  <2>1. TAKE m \in Basic
  <2>2. TAKE h \in Throwing(m)
  <2>3. CASE m = n  BY <1>6, <1>7, <2>3
  <2>4. CASE m # n
    <3>1. master[m] \in heard[h] /\ m \in Listed  BY DEF ChancesInv, HeardInv, Names, Basic
    <3>2. h \in Goroutines  BY DEF Throwing
    <3> QED  BY <1>6, <1>7, <2>4, <3>1, <3>2
  <2> QED  BY <2>3, <2>4
<1> QED  BY <1>2, <1>5, <1>6, <1>8, <1>9, <1>10, <1>11, <1>12, OutsideKeeps

LEMMA CallKeeps ==
  ASSUME ChancesInv, NEW g \in Goroutines, NEW n \in Names, NEW chance,
         (n \in Basic /\ chance = "unread") \/ (n \in Given /\ chance \in Levels),
         Call(g, n, chance)
  PROVE  ChancesInv'
<1> DEFINE local == [Locals EXCEPT !.name = n, !.chance = chance]
           place == IF n \in Basic THEN "read" ELSE "find"
<1>1. /\ at[g] = "idle" /\ Go(g, place) /\ held' = [held EXCEPT ![g] = local]
      /\ thrown' = [thrown EXCEPT ![n].calls = @ + 1]
      /\ alone' = IF Throwing(n) = {} THEN alone ELSE alone \ {n}
      /\ heard' = [h \in Goroutines |->
           CASE h = g -> ({held[o].chance : o \in Throwing(n)} \ {"unread"})
                           \cup (IF n \in Basic THEN {master[n]} ELSE {chance})
             [] h \in Throwing(n) /\ n \in Given -> heard[h] \cup {chance}
             [] OTHER -> heard[h]]
      /\ UNCHANGED <<master, table, controls>>
  BY DEF Call, Is
<1>2. ChancesTypeOK  BY DEF ChancesInv
<1>3. n \in Given <=> n \notin Basic  BY DEF Names, Basic
<1>4. /\ local \in Local /\ local.name = n /\ local.chance = chance
      /\ local.used = "unread"
  BY NoLocals DEF Local
<1> HIDE DEF local
<1>5. /\ at' \in [Goroutines -> Places] /\ at'[g] = place
      /\ held' \in [Goroutines -> Local] /\ held'[g] = local /\ Others(g)
  <2>1. place \in Places  BY DEF Places
  <2> QED  BY <1>1, <1>2, <1>4, <2>1, MoveTypes
<1>6. /\ place \in {"read", "find"} /\ (place = "read" <=> n \in Basic)
      /\ ~Active(g) /\ Active(g)'
  BY <1>1, <1>5 DEF Active
<1>7. /\ g \notin Throwing(n) /\ Throwing(n)' = Throwing(n) \cup {g}
      /\ \A m : m # n => Throwing(m)' = Throwing(m)
      /\ \A m : g \notin Throwing(m)
      /\ \A m : \A h \in Throwing(m) : h \in Goroutines /\ h # g
  <2>1. g \in Throwing(n)' /\ \A m : m # n => g \notin Throwing(m)'
    BY <1>4, <1>5, <1>6 DEF Throwing, Active
  <2>2. \A m : g \notin Throwing(m)  BY <1>6 DEF Throwing, Active
  <2>3. \A m : \A h \in Goroutines : h # g => (h \in Throwing(m)' <=> h \in Throwing(m))
    BY <1>5 DEF Throwing, Others
  <2>4. \A m : Throwing(m) \subseteq Goroutines /\ Throwing(m)' \subseteq Goroutines
    BY DEF Throwing
  <2>5. Throwing(n)' = Throwing(n) \cup {g}
    <3>1. \A h : h \in Throwing(n)' <=> h \in Throwing(n) \cup {g}  BY <2>1, <2>3, <2>4
    <3> QED  BY <3>1
  <2>6. ASSUME NEW m, m # n PROVE Throwing(m)' = Throwing(m)
    <3>1. \A h : h \in Throwing(m)' <=> h \in Throwing(m)  BY <2>1, <2>2, <2>3, <2>4, <2>6
    <3> QED  BY <3>1
  <2> QED  BY <2>2, <2>4, <2>5, <2>6
<1> HIDE DEF place
<1>8. \A h \in Goroutines : h # g => at'[h] = at[h] /\ held'[h] = held[h]  BY <1>5 DEF Others
<1>9. \A m : \A h \in Goroutines :
        Holds(h, m)' => Holds(h, m) /\ h # g /\ held'[h] = held[h]
  <2>1. \A m : ~Holds(g, m)'  BY <1>5, <1>6 DEF Holds, ChanceHeld
  <2> QED  BY <1>5, <1>8, <2>1, OthersHold
<1>10. \A h \in Goroutines : \A f : Storing(h, f)' => Storing(h, f) /\ h # g
  <2>1. \A f : ~Storing(g, f)'  BY <1>5, <1>6 DEF Storing
  <2> QED  BY <1>5, <2>1, OthersHold
<1>11. RefsInv'  BY <1>1, <1>9 DEF ChancesInv, RefsInv
<1>12. LocalsInv'
  <2>1. /\ at'[g] = "read" => held'[g].name \in Basic
        /\ at'[g] \notin {"look", "write", "written"}
        /\ at'[g] \notin {"idle", "read", "return"} => held'[g].chance \in Levels
    BY <1>3, <1>4, <1>5, <1>6
  <2> QED  BY <1>8, <2>1 DEF ChancesInv, LocalsInv
<1>13. /\ \A h \in Goroutines : h # g => heard[h] \subseteq heard'[h]
       /\ \A o \in Throwing(n) : held[o].chance # "unread" => held[o].chance \in heard'[g]
       /\ n \in Basic => master[n] \in heard'[g]
       /\ n \in Given => chance \in heard'[g] /\ \A h \in Throwing(n) : chance \in heard'[h]
  BY <1>1, <1>3, <1>7
<1>14. heard' \in [Goroutines -> SUBSET Levels]
  <2>1. /\ heard \in [Goroutines -> SUBSET Levels]
        /\ n \in Basic => master[n] \in Levels
        /\ \A o \in Goroutines : held[o].chance \in Levels \cup {"unread"}
    BY <1>2 DEF ChancesTypeOK, Local, Basic
  <2>2. (({held[o].chance : o \in Throwing(n)} \ {"unread"})
           \cup (IF n \in Basic THEN {master[n]} ELSE {chance})) \in SUBSET Levels
    BY <1>3, <1>7, <2>1
  <2>3. \A h \in Goroutines : n \in Given => heard[h] \cup {chance} \in SUBSET Levels
    BY <1>3, <2>1
  <2> QED  BY <1>1, <2>1, <2>2, <2>3
<1>15. /\ thrown' \in [Names -> Counts] /\ thrown'[n].calls = thrown[n].calls + 1
       /\ \A m \in Names, f \in Fields : <<m, f>> # <<n, "calls">> => thrown'[m][f] = thrown[m][f]
  <2>1. thrown \in [Names -> Counts] /\ thrown[n] \in Counts  BY <1>2 DEF ChancesTypeOK
  <2>2. /\ [thrown[n] EXCEPT !.calls = @ + 1] \in Counts
        /\ [thrown[n] EXCEPT !.calls = @ + 1].calls = thrown[n].calls + 1
        /\ \A f \in Fields : f # "calls" => [thrown[n] EXCEPT !.calls = @ + 1][f] = thrown[n][f]
    BY <2>1 DEF Counts, Fields
  <2>3. thrown' = [thrown EXCEPT ![n] = [thrown[n] EXCEPT !.calls = @ + 1]]  BY <1>1
  <2> QED  BY <2>1, <2>2, <2>3
<1>16. alone' \subseteq alone /\ (n \in alone' => Throwing(n) = {})  BY <1>1
<1>17. ChancesTypeOK'  BY <1>1, <1>2, <1>5, <1>14, <1>15, <1>16 DEF ChancesTypeOK
<1>18. HeardInv'
  <2>1. DrawsOfItsTime'
    BY <1>4, <1>5, <1>8, <1>13 DEF ChancesInv, HeardInv, DrawsOfItsTime
  <2>2. ASSUME NEW m \in Names, NEW h \in Throwing(m), h # g
        PROVE  /\ m \in Basic => master[m] \in heard'[h]
               /\ \A o \in Throwing(m) : held'[o].chance \in Levels => held'[o].chance \in heard'[h]
               /\ at'[h] \in {"loadCalls", "storeCalls", "randomly"} =>
                    controls[held'[h].ref].chance \in heard'[h]
    BY <1>7, <1>8, <1>13 DEF ChancesInv, HeardInv
  <2>3. held'[g].chance \in Levels => n \in Given /\ held'[g].chance = chance
    <3>1. "unread" \notin Levels  BY DEF Levels
    <3> QED  BY <1>4, <1>5, <3>1
  <2>4. "unread" \notin Levels  BY DEF Levels
  <2>5. ASSUME NEW m \in Names, NEW h \in Throwing(m)'
        PROVE  /\ m \in Basic => master[m] \in heard'[h]
               /\ \A o \in Throwing(m)' : held'[o].chance \in Levels => held'[o].chance \in heard'[h]
               /\ at'[h] \in {"loadCalls", "storeCalls", "randomly"} =>
                    controls[held'[h].ref].chance \in heard'[h]
    <3>1. CASE m # n  BY <1>7, <2>2, <2>5, <3>1
    <3>2. CASE m = n /\ h = g
      <4>1. at'[h] \notin {"loadCalls", "storeCalls", "randomly"}  BY <1>5, <1>6, <3>2
      <4>2. \A o \in Throwing(n) : held'[o].chance \in Levels => held'[o].chance \in heard'[g]
        BY <1>7, <1>8, <1>13, <2>4
      <4>3. held'[g].chance \in Levels => held'[g].chance \in heard'[g]  BY <1>13, <2>3
      <4> QED  BY <1>7, <1>13, <3>2, <4>1, <4>2, <4>3
    <3>3. CASE m = n /\ h # g
      <4>1. h \in Throwing(n)  BY <1>7, <2>5, <3>3
      <4>2. held'[g].chance \in Levels => held'[g].chance \in heard'[h]  BY <1>13, <2>3, <4>1
      <4> QED  BY <1>7, <2>2, <3>3, <4>1, <4>2
    <3> QED  BY <3>1, <3>2, <3>3
  <2> QED  BY <1>1, <2>1, <2>5 DEF HeardInv
<1>19. /\ \A m : \A f \in Fields : <<m, f>> # <<n, "calls">> => Pending(m, f)' = Pending(m, f)
       /\ Pending(n, "calls")' = Pending(n, "calls") \cup {g} /\ g \notin Pending(n, "calls")
  <2>1. \A h \in Goroutines, f \in Fields : h # g => Uncounted(h, f)' = Uncounted(h, f)
    BY <1>8 DEF Uncounted, Outcome
  <2>2. \A f \in Fields : Uncounted(g, f)' <=> f = "calls"  BY <1>5, <1>6 DEF Uncounted
  <2>3. "calls" \in Fields  BY DEF Fields
  <2>4. \A m : \A f \in Fields : g \notin Pending(m, f)  BY <1>7 DEF Pending
  <2>5. ASSUME NEW m, NEW f \in Fields
        PROVE  g \in Pending(m, f)' <=> m = n /\ f = "calls"
    BY <1>7, <2>2 DEF Pending
  <2>6. \A m : \A f \in Fields : \A h \in Goroutines : h # g =>
          (h \in Pending(m, f)' <=> h \in Pending(m, f))
    BY <1>7, <2>1 DEF Pending
  <2>7. \A m : \A f \in Fields : Pending(m, f) \subseteq Goroutines /\ Pending(m, f)' \subseteq Goroutines
    BY DEF Pending, Throwing
  <2>8. ASSUME NEW m, NEW f \in Fields, <<m, f>> # <<n, "calls">>
        PROVE  Pending(m, f)' = Pending(m, f)
    BY <2>4, <2>5, <2>6, <2>7, <2>8
  <2>9. Pending(n, "calls")' = Pending(n, "calls") \cup {g}
    BY <2>3, <2>5, <2>6, <2>7
  <2> QED  BY <2>3, <2>4, <2>8, <2>9
<1>20. /\ \A m : \A f \in Fields : Cardinality(Pending(m, f)) \in Nat
       /\ \A m : \A f \in Fields : Cardinality(Pending(m, f)') \in Nat
       /\ \A m \in Names, f \in Fields : thrown[m][f] \in Nat /\ thrown'[m][f] \in Nat
       /\ \A m \in Names, f \in Fields : Counted(m)[f] \in Nat
  <2>1. \A m : \A f : Pending(m, f) \in SUBSET Goroutines /\ Pending(m, f)' \in SUBSET Goroutines
    BY DEF Pending, Throwing
  <2>2. \A m \in Names, f \in Fields : thrown[m][f] \in Nat /\ thrown'[m][f] \in Nat
    BY <1>2, <1>15 DEF ChancesTypeOK, Counts, Fields
  <2>3. \A m \in Names : Counted(m) \in Counts
    <3>1. NoCounts \in Counts  BY DEF NoCounts, Counts
    <3>2. \A m \in Names : table[m] # 0 => controls[table[m]] \in Control
      BY <1>2 DEF ChancesInv, RefsInv, ChancesTypeOK
    <3> QED  BY <3>1, <3>2 DEF Counted, Control
  <2> QED  BY <2>1, <2>2, <2>3, Sizes DEF Counts, Fields
<1>21. \A m \in Names, f \in Fields :
         thrown'[m][f] - Cardinality(Pending(m, f)') = thrown[m][f] - Cardinality(Pending(m, f))
  <2>1. TAKE m \in Names, f \in Fields
  <2>2. CASE <<m, f>> = <<n, "calls">>
    <3>1. Pending(m, f) \in SUBSET Goroutines  BY DEF Pending, Throwing
    <3>2. Cardinality(Pending(m, f)') = Cardinality(Pending(m, f)) + 1
      BY <1>19, <2>2, <3>1, Sizes
    <3>3. thrown'[m][f] = thrown[m][f] + 1  BY <1>15, <2>2
    <3> QED  BY <1>20, <3>2, <3>3
  <2>3. CASE <<m, f>> # <<n, "calls">>  BY <1>15, <1>19, <2>3
  <2> QED  BY <2>2, <2>3
<1>22. AtMostInv'  BY <1>1, <1>2, <1>9, <1>10, <1>20, <1>21, RoomKept DEF ChancesInv
<1>23. AloneInv'
  <2>1. \A m : Counted(m)' = Counted(m)  BY <1>1 DEF Counted
  <2>2. ASSUME NEW m \in alone'
        PROVE  /\ \A f \in Fields : Counted(m)[f] + Cardinality(Pending(m, f)') = thrown'[m][f]
               /\ \A h, o \in Throwing(m)' : h = o
    <3>1. m \in alone /\ m \in Names  BY <1>2, <1>16 DEF ChancesTypeOK
    <3>2. /\ \A f \in Fields : Counted(m)[f] + Cardinality(Pending(m, f)) = thrown[m][f]
          /\ \A h, o \in Throwing(m) : h = o
      BY <3>1 DEF ChancesInv, AloneInv
    <3> QED  BY <1>7, <1>16, <1>20, <1>21, <3>1, <3>2
  <2>3. ASSUME NEW m \in alone', NEW h \in Throwing(m)'
        PROVE  /\ at'[h] \in {"create", "store"} => table[m] = 0
               /\ at'[h] = "store" => controls[held'[h].ref].counts = NoCounts
               /\ at'[h] \in ChanceHeld \ {"store"} => held'[h].ref = table[m]
               /\ \A f \in Fields : Storing(h, f)' => held'[h].copy = Counted(m)[f]
    <3>1. CASE h = g  BY <1>5, <1>6, <1>10, <3>1 DEF ChanceHeld
    <3>2. CASE h # g
      <4>1. h \in Throwing(m) /\ m \in alone /\ h \in Goroutines  BY <1>7, <1>16, <3>2
      <4> QED  BY <1>8, <1>10, <3>2, <4>1 DEF ChancesInv, AloneInv
    <3> QED  BY <3>1, <3>2
  <2> QED  BY <1>1, <2>1, <2>2, <2>3 DEF AloneInv
<1> QED  BY <1>11, <1>12, <1>17, <1>18, <1>22, <1>23 DEF ChancesInv
----------------------------------------------------------------------------
(* The theorems *)

LEMMA InitKeeps == Init => ChancesInv
<1> SUFFICES ASSUME Init PROVE ChancesInv  OBVIOUS
<1> USE DEF Init
<1>1. ChancesTypeOK
  <2>1. NoCounts \in Counts  BY DEF NoCounts, Counts
  <2>2. <<>> \in Seq(Control)  OBVIOUS
  <2> QED  BY <2>1, <2>2, NoLocals DEF ChancesTypeOK, Places, Levels
<1>2. /\ \A n : Throwing(n) = {}
      /\ \A n : \A f : Pending(n, f) = {}
      /\ \A n : \A g \in Goroutines : ~Holds(g, n)
  BY DEF Throwing, Pending, Holds
<1>3. LocalsInv  BY DEF LocalsInv
<1>4. RefsInv  BY <1>2 DEF RefsInv
<1>5. HeardInv  BY <1>2, NoLocals DEF HeardInv, DrawsOfItsTime
<1>6. Cardinality({}) = 0  BY FS_EmptySet
<1>7. \A n \in Names, f \in Fields : thrown[n][f] = 0  BY DEF NoCounts, Fields
<1>8. AtMostInv
  <2>1. ASSUME NEW n \in Names, NEW f \in Fields
        PROVE  Fits(n, f, 0) /\ table[n] = 0
    <3>1. Cardinality(Pending(n, f)) = 0  BY <1>2, <1>6
    <3> QED  BY <1>7, <3>1 DEF Fits
  <2> QED  BY <1>2, <2>1 DEF AtMostInv
<1>9. AloneInv
  <2>1. ASSUME NEW n \in Names, NEW f \in Fields
        PROVE  Counted(n)[f] + Cardinality(Pending(n, f)) = thrown[n][f]
    <3>1. Cardinality(Pending(n, f)) = 0  BY <1>2, <1>6
    <3>2. Counted(n)[f] = 0  BY DEF Counted, NoCounts, Fields
    <3> QED  BY <1>7, <3>1, <3>2
  <2> QED  BY <1>2, <2>1 DEF AloneInv
<1> QED  BY <1>1, <1>3, <1>4, <1>5, <1>8, <1>9 DEF ChancesInv

LEMMA UnchangedKeeps ==
  ASSUME ChancesInv, UNCHANGED <<master, table, controls, at, held, thrown, alone, heard>>
  PROVE  ChancesInv'
<1>1. \A n : Throwing(n)' = Throwing(n)  BY DEF Throwing
<1>2. /\ \A n : \A h \in Goroutines : Holds(h, n)' <=> Holds(h, n)
      /\ \A h \in Goroutines : \A f : Storing(h, f)' <=> Storing(h, f)
      /\ \A n : \A f : Pending(n, f)' = Pending(n, f)
      /\ \A n : Counted(n)' = Counted(n)
  BY <1>1 DEF Holds, Storing, Outcome, Pending, Uncounted, Counted
<1>3. ChancesTypeOK' /\ LocalsInv'  BY DEF ChancesInv, ChancesTypeOK, LocalsInv
<1>4. RefsInv'  BY <1>2 DEF ChancesInv, RefsInv
<1>5. HeardInv'  BY <1>1 DEF ChancesInv, HeardInv, DrawsOfItsTime
<1>6. AtMostInv'  BY <1>2 DEF ChancesInv, AtMostInv, Fits
<1>7. AloneInv'
  <2>1. ASSUME NEW n \in alone
        PROVE  /\ \A f \in Fields : Counted(n)[f] + Cardinality(Pending(n, f)) = thrown[n][f]
               /\ \A g, h \in Throwing(n) : g = h
               /\ \A g \in Throwing(n) :
                    /\ at[g] \in {"create", "store"} => table[n] = 0
                    /\ at[g] = "store" => controls[held[g].ref].counts = NoCounts
                    /\ at[g] \in ChanceHeld \ {"store"} => held[g].ref = table[n]
                    /\ \A f \in Fields : Storing(g, f)' => held[g].copy = Counted(n)[f]
    <3>1. \A h \in Throwing(n) : h \in Goroutines  BY DEF Throwing
    <3> QED  BY <1>2, <3>1 DEF ChancesInv, AloneInv
  <2> QED  BY <1>1, <1>2, <2>1 DEF AloneInv
<1> QED  BY <1>3, <1>4, <1>5, <1>6, <1>7 DEF ChancesInv

LEMMA StepKeeps == ChancesInv /\ [Next]_vars => ChancesInv'
<1> SUFFICES ASSUME ChancesInv, [Next]_vars PROVE ChancesInv'  OBVIOUS
<1>1. CASE UNCHANGED vars  BY <1>1, UnchangedKeeps DEF vars
<1>2. CASE Abort  BY <1>2, UnchangedKeeps DEF Abort, history
<1>3. ASSUME NEW g \in Goroutines, fromBasicChance(g) PROVE ChancesInv'
  <2>1. PICK chance : chance = "unread"  OBVIOUS
  <2>2. PICK n \in Basic : Call(g, n, chance)  BY <1>3, <2>1 DEF fromBasicChance
  <2>3. n \in Names /\ ((n \in Basic /\ chance = "unread") \/ (n \in Given /\ chance \in Levels))
    BY <2>1, <2>2 DEF Names, Basic
  <2> QED  BY <2>2, <2>3, CallKeeps
<1>4. ASSUME NEW g \in Goroutines, fromDefinedChance(g) PROVE ChancesInv'
  <2>1. PICK n \in Given : \E chance \in Levels : Call(g, n, chance)
    BY <1>4 DEF fromDefinedChance
  <2>2. PICK chance \in Levels : Call(g, n, chance)  BY <2>1
  <2> QED  BY <2>2, CallKeeps DEF Names
<1>5. ASSUME NEW g \in Goroutines, Throw(g) PROVE ChancesInv'
  <2>1. PICK name : name = held[g].name  OBVIOUS
  <2>2. CASE ReadMaster(g)  BY <2>2, ReadMasterKeeps
  <2>3. CASE Find(g)  BY <2>1, <2>3, FindKeeps
  <2>4. CASE Create(g)  BY <2>1, <2>4, CreateKeeps
  <2>5. CASE Store(g)  BY <2>1, <2>5, StoreKeeps
  <2>6. CASE SetChance(g)  BY <2>1, <2>6, SetChanceKeeps
  <2>7. CASE CountCall(g)
    <3>1. CASE LoadCount(g, "loadCalls", "calls", "storeCalls")  BY <2>1, <3>1, LoadKeeps
    <3>2. CASE StoreCount(g, "storeCalls", "calls", "randomly")  BY <2>1, <3>2, StoreCountKeeps
    <3> QED  BY <2>7, <3>1, <3>2 DEF CountCall
  <2>8. CASE CountOutcome(g)
    <3>1. PICK field : field = Outcome(g)  OBVIOUS
    <3>2. CASE LoadCount(g, "loadOutcome", field, "storeOutcome")
      BY <2>1, <3>1, <3>2, LoadKeeps
    <3>3. CASE StoreCount(g, "storeOutcome", field, "return")
      BY <2>1, <3>1, <3>3, StoreCountKeeps
    <3> QED  BY <2>8, <3>1, <3>2, <3>3 DEF CountOutcome, LoadCount, StoreCount
  <2>9. CASE RandomlyTrue(g)  BY <2>9, RandomlyTrueKeeps
  <2>10. CASE Draw(g)  BY <2>10, DrawKeeps
  <2>11. CASE Return(g)  BY <2>11, ReturnKeeps
  <2> QED  BY <1>5, <2>2, <2>3, <2>4, <2>5, <2>6, <2>7, <2>8, <2>9, <2>10, <2>11 DEF Throw
<1>6. ASSUME NEW g \in Goroutines, Command(g) PROVE ChancesInv'  BY <1>6, CommandKeeps
<1>7. ASSUME NEW g \in Goroutines, LookUp(g) \/ BeginChange(g) PROVE ChancesInv'
  BY <1>7, LookAndBeginKeep
<1>8. ASSUME NEW g \in Goroutines, EndChange(g) PROVE ChancesInv'  BY <1>8, EndChangeKeeps
<1> QED  BY <1>1, <1>2, <1>3, <1>4, <1>5, <1>6, <1>7, <1>8 DEF Next

\* The inductive invariant holds in every state of every instance.
THEOREM ChancesInvariance == Spec => []ChancesInv
BY InitKeeps, StepKeeps, PTL DEF Spec

\* The type invariant of the dice: masterChanceList, the group of controls and the
\* locals of the goroutines keep their shapes.
THEOREM ChancesTypeCorrect == Spec => []ChancesTypeOK
<1>1. ChancesInv => ChancesTypeOK  BY DEF ChancesInv
<1> QED  BY <1>1, ChancesInvariance, PTL

\* A throw for a name that is thrown with the chance of the list is made with one that
\* was in the list at some moment of it; a throw whose caller brings a chance, with that
\* or with one that a throw for the same name at the same time brought, listed or not
\* (fromBasicChance, fromDefinedChance).
THEOREM DrawsCorrect == Spec => []DrawsOfItsTime
<1>1. ChancesInv => DrawsOfItsTime  BY DEF ChancesInv, HeardInv
<1> QED  BY <1>1, ChancesInvariance, PTL

\* Only throws at the same time for one name lose counts of its control.
THEOREM LossesCorrect == Spec => []OnlyRacesLoseCounts
<1>1. ASSUME ChancesInv PROVE OnlyRacesLoseCounts
  <2>1. ASSUME NEW n \in Names, n \in alone, Throwing(n) = {}
        PROVE  Counted(n) = thrown[n]
    <3>1. Counted(n) \in Counts /\ thrown[n] \in Counts
      <4>1. NoCounts \in Counts  BY DEF NoCounts, Counts
      <4>2. table[n] # 0 => controls[table[n]] \in Control
        BY <1>1 DEF ChancesInv, RefsInv, ChancesTypeOK
      <4>3. thrown[n] \in Counts  BY <1>1 DEF ChancesInv, ChancesTypeOK
      <4> QED  BY <4>1, <4>2, <4>3 DEF Counted, Control
    <3>2. \A f \in Fields : Pending(n, f) = {}  BY <2>1 DEF Pending
    <3>3. \A f \in Fields : Counted(n)[f] + 0 = thrown[n][f]
      BY <1>1, <2>1, <3>2, FS_EmptySet DEF ChancesInv, AloneInv
    <3>4. \A f \in Fields : Counted(n)[f] \in Nat  BY <3>1 DEF Counts, Fields
    <3>5. \A f \in Fields : Counted(n)[f] = thrown[n][f]  BY <3>3, <3>4
    <3> QED  BY <3>1, <3>5 DEF Counts, Fields
  <2>2. ASSUME NEW n \in Names, NEW f \in Fields
        PROVE  Counted(n)[f] <= thrown[n][f]
    <3>1. Fits(n, f, Counted(n)[f])
      <4>1. table[n] = 0 => Counted(n)[f] = 0  BY DEF Counted, NoCounts, Fields
      <4>2. table[n] # 0 => Counted(n) = controls[table[n]].counts  BY DEF Counted
      <4>3. Fits(n, f, 0) /\ (table[n] # 0 => Fits(n, f, controls[table[n]].counts[f]))
        BY <1>1 DEF ChancesInv, AtMostInv
      <4> QED  BY <4>1, <4>2, <4>3 DEF Fits
    <3>2. Cardinality(Pending(n, f)) \in Nat
      <4>1. Pending(n, f) \in SUBSET Goroutines  BY DEF Pending, Throwing
      <4> QED  BY <4>1, ChancesConstants, FS_Subset, FS_CardinalityType
    <3>3. thrown[n][f] \in Nat  BY <1>1 DEF ChancesInv, ChancesTypeOK, Counts, Fields
    <3>4. Counted(n)[f] \in Int
      <4>1. table[n] # 0 => controls[table[n]] \in Control
        BY <1>1 DEF ChancesInv, RefsInv, ChancesTypeOK
      <4> QED  BY <4>1 DEF Counted, NoCounts, Control, Counts, Fields
    <3> QED  BY <3>1, <3>2, <3>3, <3>4 DEF Fits
  <2>3. ASSUME NEW n \in Names PROVE DOMAIN Counted(n) = Fields
    <3>1. table[n] # 0 => controls[table[n]] \in Control
      BY <1>1 DEF ChancesInv, RefsInv, ChancesTypeOK
    <3> QED  BY <3>1 DEF Counted, NoCounts, Control, Counts, Fields
  <2> QED  BY <2>1, <2>2, <2>3 DEF OnlyRacesLoseCounts, Counted
<1> QED  BY <1>1, ChancesInvariance, PTL
=============================================================================
