--------------------------- MODULE DiscordProofs ---------------------------
(***************************************************************************)
(* Proofs about what comes from Discord.                                   *)
(*                                                                         *)
(* Backfill, for any channels, messages, windows, page size and number of  *)
(* runs, events and faults: its types, that a completed channel is         *)
(* complete, that the counters add up and that the import brings back      *)
(* nothing that is out of date.                                            *)
(*                                                                         *)
(* ReceivedText, for any messages, names, texts and variants: that reading *)
(* a message loses and doubles no rune without a bracket after it          *)
(* (DiscordText), that the scan of the tokenizer cuts the text up, that    *)
(* its parser keeps the letters of a text without markup, and that a       *)
(* mention of somebody in a word of its own is learnt as a mention.        *)
(***************************************************************************)
EXTENDS Backfill, ReceivedText, FiniteSetTheorems, SequenceTheorems, WellFoundedInduction, TLAPS

----------------------------------------------------------------------------
(* Backfill: the inductive invariant *)

\* A counter of messages read is the sum of what became of them.
Adding(stats) == stats.fetched = stats.stored + stats.duplicate + stats.unusable

\* A message the import of a window beginning at since has nothing left to do about.
Covered(m, since) ==
  \/ m < since \/ ~MessageOf[m].usable \/ m \in deleted
  \/ MessageOf[m].author \in everBlocked
  \/ m \in DOMAIN rows

InChannel == run.at \in {"fetch", "handle", "record"}

\* What nobody has posted has not been edited; each history is about its own channel.
ServerInv ==
  /\ \A m \in Ids : m > posted => version[m] = 1
  /\ \A c \in ChannelIds : \A m \in seen[c] : MessageOf[m].channel = c

\* While a channel is imported, its checkpoint is the one the import holds; windows only move on.
CheckpointInv ==
  /\ ~At("off") => \A c \in ChannelIds : checkpoints[c].since <= run.since
  /\ InChannel =>
       /\ run.checkpoint = checkpoints[Channel]
       /\ run.checkpoint.status = "in_progress" /\ run.checkpoint.since = run.since

\* What a saved checkpoint claims: its counters, and that the import has nothing left to do
\* about messages above the saved place, or about any once it is completed.
Sound(cp, c) ==
  /\ Adding(cp.stats) /\ cp.stats.stored <= inserted[c]
  /\ \A m \in seen[c] :
       cp.status = "completed" \/ (cp.before # 0 /\ m >= cp.before) => Covered(m, cp.since)

SavedInv == \A c \in ChannelIds : Sound(checkpoints[c], c)

\* The counters in hand.
StatsInv ==
  /\ run.at \in {"fetch", "handle"} =>
       Adding(run.stats) /\ run.stats.stored <= inserted[Channel]
  /\ At("record") =>
       /\ run.stats.fetched = run.stats.stored + run.stats.duplicate + run.stats.unusable + 1
       /\ run.stats.stored <= inserted[Channel]

\* The page in hand: messages not older than its last; outside a page there is none.
PageInv ==
  /\ \A i \in DOMAIN run.page : run.last <= run.page[i].id /\ run.page[i].id <= posted
  /\ run.at \in {"off", "seed", "load", "fetch"} => run.page = <<>>
  /\ run.at \in {"handle", "record"} /\ run.older => run.last < run.since

\* The part of the page that was handled is covered.
CoverInv ==
  run.at \in {"handle", "record"} =>
    \A m \in seen[Channel] :
      m \notin InHand /\ (m >= run.last \/ ~run.full) => Covered(m, run.since)

\* A text in hand is still what Discord says, or the import will not store it, or it is excused.
TextInv ==
  /\ StoredAsDiscordSays
  /\ \A i \in DOMAIN run.page :
       LET e == run.page[i]
       IN \/ e.id \in missed \cup overtaken \cup DOMAIN rows
          \/ MessageOf[e.id].author \in blocked
          \/ e.version = version[e.id] /\ e.id \notin deleted

BackfillInv ==
  /\ BackfillTypeOK /\ ServerInv /\ CheckpointInv /\ SavedInv
  /\ StatsInv /\ PageInv /\ CoverInv /\ TextInv

----------------------------------------------------------------------------
(* Lemmas about the operators *)

\* Newest: the page holds the newest of the ids, all of them if it is not full.
LEMMA NewestPage ==
  ASSUME NEW ids \in SUBSET Ids, version \in [Ids -> Versions]
  PROVE  LET page == Newest(ids)
         IN /\ page \in Seq(Entry)
            /\ page = <<>> <=> ids = {}
            /\ \A i \in DOMAIN page : /\ page[i].id \in ids
                                      /\ page[i].version = version[page[i].id]
                                      /\ page[Len(page)].id <= page[i].id
            /\ \A m \in ids : Len(page) # PageSize \/ m >= page[Len(page)].id =>
                                \E i \in DOMAIN page : page[i].id = m
<1> DEFINE newer(m) == {k \in ids : k > m}
           n == Cardinality(ids)
           rank == [m \in ids |-> Cardinality(newer(m))]
           size == IF n < PageSize THEN n ELSE PageSize
           nth(i) == CHOOSE m \in ids : Cardinality(newer(m)) = i - 1
           page == [i \in 1..size |-> [id |-> nth(i), version |-> version[nth(i)]]]
<1>1. \A m \in ids : m \in Nat  BY BackfillConstants DEF Ids
<1>2. IsFiniteSet(ids) /\ n \in Nat
  <2>1. IsFiniteSet(Ids)  BY BackfillConstants, FS_Interval DEF Ids
  <2> QED  BY <2>1, FS_Subset, FS_CardinalityType
<1>3. \A m \in ids : rank[m] = Cardinality(newer(m))  OBVIOUS
<1>4. \A m \in ids : \A k : k \in newer(m) <=> k \in ids /\ k > m  OBVIOUS
<1>5. \A i : nth(i) = CHOOSE m \in ids : Cardinality(newer(m)) = i - 1  OBVIOUS
<1>6. Newest(ids) = page
  BY DEF Newest
<1> HIDE DEF newer, n, rank, nth, size
<1>7. \A m \in ids : IsFiniteSet(newer(m)) /\ rank[m] \in 0..(n - 1) /\ rank[m] \in Nat
  <2> SUFFICES ASSUME NEW m \in ids
               PROVE  IsFiniteSet(newer(m)) /\ Cardinality(newer(m)) \in 0..(n - 1)
    BY <1>2, <1>3
  <2>1. newer(m) \in SUBSET (ids \ {m})
    <3>1. \A k \in newer(m) : k \in ids /\ k # m  BY <1>1, <1>4
    <3> QED  BY <3>1
  <2>2. IsFiniteSet(ids \ {m}) /\ Cardinality(ids \ {m}) = n - 1
    BY <1>2, FS_RemoveElement DEF n
  <2>3. IsFiniteSet(newer(m)) /\ Cardinality(newer(m)) <= n - 1
    BY <2>1, <2>2, FS_Subset
  <2>4. Cardinality(newer(m)) \in Nat  BY <2>3, FS_CardinalityType
  <2> QED  BY <1>2, <2>3, <2>4
<1>8. \A k, m \in ids : k < m => rank[m] < rank[k]
  <2> SUFFICES ASSUME NEW k \in ids, NEW m \in ids, k < m
               PROVE  rank[m] < rank[k]
    OBVIOUS
  <2>1. \A j \in newer(m) : j \in newer(k)
    <3> SUFFICES ASSUME NEW j \in newer(m) PROVE j \in newer(k)
      OBVIOUS
    <3>1. j \in ids /\ j > m  BY <1>4
    <3>2. j \in Nat /\ m \in Nat /\ k \in Nat  BY <1>1, <3>1
    <3>3. j > k  BY <3>1, <3>2
    <3> QED  BY <1>4, <3>1, <3>3
  <2>2. m \in newer(k) /\ m \notin newer(m)  BY <1>1, <1>4
  <2>3. newer(m) \in SUBSET newer(k) /\ newer(m) # newer(k)  BY <2>1, <2>2
  <2>4. Cardinality(newer(m)) <= Cardinality(newer(k))
        /\ Cardinality(newer(m)) # Cardinality(newer(k))
    BY <1>7, <2>3, FS_Subset
  <2>5. rank[m] <= rank[k] /\ rank[m] # rank[k]  BY <1>3, <2>4
  <2> QED  BY <1>7, <2>5
<1>9. \A k, m \in ids : rank[k] = rank[m] => k = m
  <2> SUFFICES ASSUME NEW k \in ids, NEW m \in ids, rank[k] = rank[m], k # m PROVE FALSE
    OBVIOUS
  <2>1. k < m \/ m < k  BY <1>1
  <2>2. rank[m] < rank[k] \/ rank[k] < rank[m]  BY <1>8, <2>1
  <2> QED  BY <1>7, <2>2
<1>10. \A r \in 0..(n - 1) : \E m \in ids : rank[m] = r
  <2>1. rank \in Injection(ids, 0..(n - 1))
    <3>1. rank \in [ids -> 0..(n - 1)]  BY <1>3, <1>7 DEF rank
    <3> QED  BY <1>9, <3>1 DEF Injection, IsInjective
  <2>2. IsFiniteSet(0..(n - 1)) /\ Cardinality(0..(n - 1)) = n
    BY <1>2, FS_Interval
  <2>3. rank \in Surjection(ids, 0..(n - 1))  BY <2>1, <2>2, FS_Injection DEF n
  <2> QED  BY <2>3 DEF Surjection
<1>11. size \in Nat /\ size <= n /\ size <= PageSize /\ (size = n \/ size = PageSize)
  BY <1>2, BackfillConstants DEF size
<1>12. \A i \in 1..size : nth(i) \in ids /\ rank[nth(i)] = i - 1
  <2> SUFFICES ASSUME NEW i \in 1..size PROVE nth(i) \in ids /\ rank[nth(i)] = i - 1
    OBVIOUS
  <2>1. i - 1 \in 0..(n - 1)  BY <1>2, <1>11
  <2>2. \E m \in ids : Cardinality(newer(m)) = i - 1  BY <1>3, <1>10, <2>1
  <2> QED  BY <1>3, <1>5, <2>2
<1>13. \A m \in ids : rank[m] < size => \E i \in 1..size : nth(i) = m
  <2> SUFFICES ASSUME NEW m \in ids, rank[m] < size PROVE \E i \in 1..size : nth(i) = m
    OBVIOUS
  <2>0. rank[m] \in Nat  BY <1>7
  <2>1. PICK i \in 1..size : i - 1 = rank[m]
    <3>1. \A r \in Nat : r < size => r + 1 \in 1..size /\ r + 1 - 1 = r  BY <1>11
    <3> QED  BY <2>0, <3>1
  <2>2. nth(i) \in ids /\ rank[nth(i)] = rank[m]  BY <1>12, <2>1
  <2> QED  BY <1>9, <2>2
<1>14. page \in Seq(Entry) /\ Len(page) = size /\ DOMAIN page = 1..size
  <2>1. \A i \in 1..size : [id |-> nth(i), version |-> version[nth(i)]] \in Entry
    BY <1>12 DEF Entry
  <2> QED  BY <1>11, <2>1
<1>15. \A i \in 1..size : page[i].id = nth(i) /\ page[i].version = version[nth(i)]
  OBVIOUS
<1> HIDE DEF page
<1>16. page = <<>> <=> ids = {}
  <2>1. page = <<>> <=> size = 0  BY <1>11, <1>14
  <2>2. size = 0 <=> n = 0  BY <1>2, <1>11, BackfillConstants
  <2>3. n = 0 <=> ids = {}  BY <1>2, FS_EmptySet DEF n
  <2> QED  BY <2>1, <2>2, <2>3
<1>17. \A i \in 1..size : nth(size) <= nth(i)
  <2> SUFFICES ASSUME NEW i \in 1..size PROVE nth(size) <= nth(i)
    OBVIOUS
  <2>1. size \in 1..size  BY <1>11
  <2>2. nth(i) \in ids /\ nth(size) \in ids  BY <1>12, <2>1
  <2>3. rank[nth(i)] = i - 1 /\ rank[nth(size)] = size - 1  BY <1>12, <2>1
  <2>4. ~(rank[nth(size)] < rank[nth(i)])  BY <1>11, <2>3
  <2>5. ~(nth(i) < nth(size))  BY <1>8, <2>2, <2>4
  <2> QED  BY <1>1, <2>2, <2>5
<1>18. ASSUME NEW m \in ids, size # PageSize \/ m >= nth(size)
       PROVE  \E i \in 1..size : nth(i) = m
  <2>1. rank[m] < size
    <3>1. CASE size = n  BY <1>2, <1>7, <3>1
    <3>2. CASE size # n
      <4>1. size = PageSize /\ size \in 1..size  BY <1>11, <3>2, BackfillConstants
      <4>2. nth(size) \in ids /\ rank[nth(size)] = size - 1  BY <1>12, <4>1
      <4>3. nth(size) < m \/ nth(size) = m  BY <1>1, <1>18, <4>1, <4>2
      <4>4. rank[m] <= rank[nth(size)]  BY <1>7, <1>8, <4>2, <4>3
      <4> QED  BY <1>7, <1>11, <4>2, <4>4
    <3> QED  BY <3>1, <3>2
  <2> QED  BY <1>13, <2>1
<1>19. \A i \in DOMAIN page : /\ page[i].id \in ids
                              /\ page[i].version = version[page[i].id]
                              /\ page[Len(page)].id <= page[i].id
  <2> SUFFICES ASSUME NEW i \in 1..size
               PROVE  /\ nth(i) \in ids /\ page[i].version = version[nth(i)]
                      /\ page[size].id <= nth(i)
    BY <1>14, <1>15
  <2>1. size \in 1..size  BY <1>11
  <2> QED  BY <1>12, <1>15, <1>17, <2>1
<1>20. \A m \in ids : Len(page) # PageSize \/ m >= page[Len(page)].id =>
                       \E i \in DOMAIN page : page[i].id = m
  <2> SUFFICES ASSUME NEW m \in ids, size # PageSize \/ m >= page[size].id
               PROVE  \E i \in 1..size : nth(i) = m
    BY <1>14, <1>15
  <2>1. size \in 1..size
    <3>1. n # 0  BY <1>2, FS_EmptySet DEF n
    <3> QED  BY <1>2, <1>11, <3>1, BackfillConstants
  <2>2. page[size].id = nth(size)  BY <1>15, <2>1
  <2> QED  BY <1>18, <2>2
<1> QED  BY <1>6, <1>14, <1>16, <1>19, <1>20
----------------------------------------------------------------------------
(* What users and the bot do meanwhile *)

\* A covered message stays covered, and the import's own state is left alone.
LEMMA UsersAct ==
  ASSUME BackfillInv, Users
  PROVE  /\ UNCHANGED <<checkpoints, run, runs, faults, seen, inserted>>
         /\ posted' \in posted..LastId /\ version' \in [Ids -> Versions]
         /\ deleted' \subseteq 1..posted'
         /\ rows' \in [DOMAIN rows' -> Versions] /\ DOMAIN rows' \subseteq 1..posted'
         /\ blocked' \subseteq everBlocked' /\ everBlocked' \subseteq Authors
         /\ events' \in Nat
         /\ missed' \subseteq 1..posted' /\ overtaken' \subseteq 1..posted'
         /\ \A m \in Ids : m > posted' => version'[m] = 1
         /\ \A m \in Ids, s \in Nat : Covered(m, s) => Covered(m, s)'
         /\ TextInv'
<1> USE BackfillConstants
<1>1. /\ BackfillTypeOK /\ ServerInv /\ TextInv /\ PageInv
      /\ posted \in Nat /\ posted <= LastId /\ Ids = 1..LastId /\ events \in Nat
  BY DEF BackfillInv, BackfillTypeOK, Ids
<1>2. InHand = {run.page[i].id : i \in DOMAIN run.page}
  BY DEF InHand, ToSet
<1>3. CASE Post
  <2>1. /\ posted' = posted + 1 /\ posted + 1 \in Ids /\ events' \in Nat
        /\ UNCHANGED <<version, deleted, blocked, everBlocked, missed, overtaken,
                       checkpoints, run, runs, faults, seen, inserted>>
    BY <1>1, <1>3 DEF Post, Event
  <2>2. rows' = rows \/ rows' = With(posted + 1, 1)
    BY <1>3, <2>1 DEF Post
  <2>3. /\ rows' \in [DOMAIN rows' -> Versions] /\ DOMAIN rows' \subseteq 1..(posted + 1)
        /\ DOMAIN rows \subseteq DOMAIN rows'
        /\ \A m \in DOMAIN rows' :
              m # posted + 1 => m \in DOMAIN rows /\ rows'[m] = rows[m]
        /\ posted + 1 \in DOMAIN rows' => rows'[posted + 1] = 1 \/ posted + 1 \in DOMAIN rows
    BY <1>1, <2>2 DEF BackfillTypeOK, With, Versions
  <2>4. posted + 1 \notin deleted /\ version[posted + 1] = 1 /\ posted + 1 \notin DOMAIN rows
    BY <1>1, <2>1 DEF BackfillTypeOK, ServerInv
  <2>5. StoredAsDiscordSays'
    BY <1>1, <2>1, <2>3, <2>4 DEF TextInv, StoredAsDiscordSays
  <2>6. TextInv'
    BY <1>1, <2>1, <2>3, <2>5 DEF TextInv
  <2>7. \A m \in Ids, s \in Nat : Covered(m, s) => Covered(m, s)'
    BY <2>1, <2>3 DEF Covered
  <2> QED
    BY <1>1, <2>1, <2>3, <2>6, <2>7 DEF BackfillTypeOK, ServerInv
<1>4. ASSUME NEW m \in Ids, Edit(m)
      PROVE  /\ UNCHANGED <<posted, deleted, blocked, everBlocked, overtaken,
                            checkpoints, run, runs, faults, seen, inserted>>
             /\ version' \in [Ids -> Versions] /\ events' \in Nat /\ m <= posted
             /\ \A k \in Ids : k # m => version'[k] = version[k]
             /\ missed' \subseteq missed \cup {m} /\ missed \subseteq missed'
             /\ rows' \in [DOMAIN rows' -> Versions]
             /\ DOMAIN rows \subseteq DOMAIN rows' /\ DOMAIN rows' \subseteq DOMAIN rows \cup {m}
             /\ \A k \in DOMAIN rows : k # m => rows'[k] = rows[k]
             /\ m \in missed' \/ (m \in DOMAIN rows' /\ rows'[m] = version'[m] /\ m \notin deleted)
  <2>1. /\ UNCHANGED <<posted, deleted, blocked, everBlocked, overtaken,
                       checkpoints, run, runs, faults, seen, inserted>>
        /\ version' = [version EXCEPT ![m] = 2] /\ events' \in Nat
        /\ m <= posted /\ m \notin deleted
        /\ \/ rows' = With(m, 2) /\ missed' = missed
           \/ rows' = rows /\ missed' = missed \cup {m}
    BY <1>1, <1>4 DEF Edit, Event
  <2>2. CASE rows' = With(m, 2) /\ missed' = missed
    BY <1>1, <2>1, <2>2 DEF With, Versions, BackfillTypeOK
  <2>3. CASE rows' = rows /\ missed' = missed \cup {m}
    BY <1>1, <2>1, <2>3 DEF Versions, BackfillTypeOK
  <2> QED  BY <2>1, <2>2, <2>3
<1>5. ASSUME NEW m \in Ids, Delete(m)
      PROVE  /\ UNCHANGED <<posted, version, blocked, everBlocked,
                            checkpoints, run, runs, faults, seen, inserted>>
             /\ deleted' = deleted \cup {m} /\ events' \in Nat /\ m <= posted
             /\ overtaken' \subseteq overtaken \cup {m} /\ overtaken \subseteq overtaken'
             /\ missed' \subseteq missed \cup {m} /\ missed \subseteq missed'
             /\ m \in InHand => m \in overtaken'
             /\ rows' \in [DOMAIN rows' -> Versions]
             /\ DOMAIN rows' \subseteq DOMAIN rows /\ DOMAIN rows \subseteq DOMAIN rows' \cup {m}
             /\ \A k \in DOMAIN rows' : rows'[k] = rows[k]
             /\ m \in missed' \/ m \notin DOMAIN rows'
  <2>1. /\ UNCHANGED <<posted, version, blocked, everBlocked,
                       checkpoints, run, runs, faults, seen, inserted>>
        /\ deleted' = deleted \cup {m} /\ events' \in Nat /\ m <= posted
        /\ overtaken' = IF m \in InHand THEN overtaken \cup {m} ELSE overtaken
        /\ \/ rows' = Without({m}) /\ missed' = missed
           \/ rows' = rows /\ missed' = missed \cup {m}
    BY <1>1, <1>5 DEF Delete, Event
  <2>2. CASE rows' = Without({m}) /\ missed' = missed
    BY <1>1, <2>1, <2>2 DEF Without, BackfillTypeOK
  <2>3. CASE rows' = rows /\ missed' = missed \cup {m}
    BY <1>1, <2>1, <2>3 DEF BackfillTypeOK
  <2> QED  BY <2>1, <2>2, <2>3
<1>6. ASSUME NEW u \in Authors, Block(u)
      PROVE  /\ UNCHANGED <<posted, version, deleted, missed, overtaken,
                            checkpoints, run, runs, faults, seen, inserted>>
             /\ blocked' = blocked \cup {u} /\ everBlocked' = everBlocked \cup {u}
             /\ events' \in Nat
             /\ rows' \in [DOMAIN rows' -> Versions] /\ DOMAIN rows' \subseteq DOMAIN rows
             /\ \A k \in DOMAIN rows' : rows'[k] = rows[k]
             /\ \A k \in DOMAIN rows : k \in DOMAIN rows' \/ MessageOf[k].author = u
  BY <1>1, <1>6 DEF Block, Event, Without, BackfillTypeOK
<1>7. ASSUME NEW m \in Ids, Edit(m)
      PROVE  (\A k \in Ids, s \in Nat : Covered(k, s) => Covered(k, s)') /\ TextInv'
  <2>1. \A k \in Ids, s \in Nat : Covered(k, s) => Covered(k, s)'
    BY <1>4, <1>7 DEF Covered
  <2>2. StoredAsDiscordSays'
    BY <1>1, <1>4, <1>7 DEF TextInv, StoredAsDiscordSays, BackfillTypeOK
  <2>3. \A i \in DOMAIN run.page : run.page[i].id \in Ids
    <3>1. run.page \in Seq(Entry)  BY <1>1 DEF BackfillTypeOK, Run
    <3>2. \A i \in DOMAIN run.page : run.page[i] \in Entry  BY <3>1
    <3> QED  BY <3>2 DEF Entry
  <2>4. ASSUME NEW i \in DOMAIN run.page
        PROVE  LET e == run.page[i]
               IN \/ e.id \in missed' \cup overtaken' \cup DOMAIN rows'
                  \/ MessageOf[e.id].author \in blocked'
                  \/ e.version = version'[e.id] /\ e.id \notin deleted'
    <3> DEFINE e == run.page[i]
    <3>1. e.id \in Ids  BY <2>3
    <3>2. /\ m \in missed' \/ m \in DOMAIN rows'
          /\ missed \subseteq missed' /\ overtaken' = overtaken /\ blocked' = blocked
          /\ deleted' = deleted /\ DOMAIN rows \subseteq DOMAIN rows'
          /\ \A k \in Ids : k # m => version'[k] = version[k]
      BY <1>4, <1>7
    <3>3. \/ e.id \in missed \cup overtaken \cup DOMAIN rows
          \/ MessageOf[e.id].author \in blocked
          \/ e.version = version[e.id] /\ e.id \notin deleted
      BY <1>1 DEF TextInv
    <3> HIDE DEF e
    <3>4. CASE e.id = m  BY <3>2, <3>4 DEF e
    <3>5. CASE e.id # m
      <4>1. version'[e.id] = version[e.id]  BY <3>1, <3>2, <3>5
      <4> QED  BY <3>2, <3>3, <4>1 DEF e
    <3> QED  BY <3>4, <3>5
  <2> QED
    BY <1>4, <1>7, <2>1, <2>2, <2>4 DEF TextInv
<1>8. ASSUME NEW m \in Ids, Delete(m)
      PROVE  (\A k \in Ids, s \in Nat : Covered(k, s) => Covered(k, s)') /\ TextInv'
  <2>1. \A k \in Ids, s \in Nat : Covered(k, s) => Covered(k, s)'
    BY <1>5, <1>8 DEF Covered
  <2>2. StoredAsDiscordSays'
    BY <1>1, <1>5, <1>8 DEF TextInv, StoredAsDiscordSays, BackfillTypeOK
  <2> QED
    BY <1>1, <1>2, <1>5, <1>8, <2>1, <2>2 DEF TextInv
<1>9. ASSUME NEW u \in Authors, Block(u)
      PROVE  (\A k \in Ids, s \in Nat : Covered(k, s) => Covered(k, s)') /\ TextInv'
  <2>1. \A k \in Ids, s \in Nat : Covered(k, s) => Covered(k, s)'
    BY <1>6, <1>9 DEF Covered
  <2>2. StoredAsDiscordSays'
    BY <1>1, <1>6, <1>9 DEF TextInv, StoredAsDiscordSays, BackfillTypeOK
  <2> QED
    BY <1>1, <1>6, <1>9, <2>1, <2>2 DEF TextInv
<1>10. CASE \E m \in Ids : Edit(m)
  <2>1. PICK m \in Ids : Edit(m)  BY <1>10
  <2> QED  BY <1>1, <1>4, <1>7, <2>1 DEF BackfillTypeOK, ServerInv
<1>11. CASE \E m \in Ids : Delete(m)
  <2>1. PICK m \in Ids : Delete(m)  BY <1>11
  <2> QED  BY <1>1, <1>5, <1>8, <2>1 DEF BackfillTypeOK, ServerInv
<1>12. CASE \E u \in Authors : Block(u)
  <2>1. PICK u \in Authors : Block(u)  BY <1>12
  <2> QED  BY <1>1, <1>6, <1>9, <2>1 DEF BackfillTypeOK, ServerInv
<1> QED  BY <1>3, <1>10, <1>11, <1>12 DEF Users

LEMMA UsersKeepInv ==
  BackfillInv /\ Users => BackfillInv'
<1> SUFFICES ASSUME BackfillInv, Users PROVE BackfillInv'
  OBVIOUS
<1>1. UNCHANGED <<checkpoints, run, runs, faults, seen, inserted>>  BY UsersAct
<1>2. posted' \in posted..LastId /\ posted \in Nat /\ LastId \in Nat
  BY UsersAct, BackfillConstants DEF BackfillInv, BackfillTypeOK
<1>3. BackfillTypeOK'
  <2>1. 1..posted \subseteq 1..posted'  BY <1>2
  <2>2. seen' \in [ChannelIds -> SUBSET (1..posted')]
    BY <1>1, <2>1 DEF BackfillInv, BackfillTypeOK
  <2> QED
    BY <1>1, <1>2, <2>2, UsersAct DEF BackfillInv, BackfillTypeOK, At
<1>4. ServerInv'
  BY <1>1, UsersAct DEF BackfillInv, ServerInv
<1>5. CheckpointInv'
  BY <1>1 DEF BackfillInv, CheckpointInv, InChannel, Channel, At
<1>6. \A c \in ChannelIds : \A m \in seen[c] : m \in Ids
  BY <1>2, BackfillConstants DEF BackfillInv, BackfillTypeOK, Ids
<1>7. \A m \in Ids, s \in Nat : Covered(m, s) => Covered(m, s)'  BY UsersAct
<1>8. SavedInv'
  <2>1. \A c \in ChannelIds : checkpoints[c].since \in Nat
    BY DEF BackfillInv, BackfillTypeOK, Checkpoint
  <2> QED
    BY <1>1, <1>6, <1>7, <2>1 DEF BackfillInv, SavedInv, Sound
<1>9. StatsInv'
  BY <1>1 DEF BackfillInv, StatsInv, Channel, At
<1>10. PageInv'
  <2>1. \A i \in DOMAIN run.page : run.page[i].id \in Ids
    <3>1. run.page \in Seq(Entry)  BY DEF BackfillInv, BackfillTypeOK, Run
    <3>2. \A i \in DOMAIN run.page : run.page[i] \in Entry  BY <3>1
    <3> QED  BY <3>2 DEF Entry
  <2> QED  BY <1>1, <1>2, <2>1, BackfillConstants DEF BackfillInv, PageInv, Ids
<1>11. CoverInv'
  <2>1. run.at \in {"handle", "record"} => Channel \in ChannelIds
    BY DEF BackfillInv, BackfillTypeOK, Run, At, Channel
  <2>2. run.since \in Nat  BY DEF BackfillInv, BackfillTypeOK, Run
  <2> QED
    BY <1>1, <1>6, <1>7, <2>1, <2>2 DEF BackfillInv, CoverInv, Channel, InHand
<1> QED
  BY <1>3, <1>4, <1>5, <1>8, <1>9, <1>10, <1>11, UsersAct DEF BackfillInv

----------------------------------------------------------------------------
(* Lemmas about the import *)

\* While it runs, the import is in a channel of its list.
LEMMA ChannelType ==
  ASSUME BackfillInv, ~At("off")
  PROVE  Channel \in ChannelIds /\ Tail(run.channels) \in Seq(ChannelIds)
BY DEF BackfillInv, BackfillTypeOK, Run, Channel

\* The ids of the page.
LEMMA InHandIds ==
  /\ InHand = {run.page[i].id : i \in DOMAIN run.page}
  /\ InHand' = {run'.page[i].id : i \in DOMAIN run'.page}
BY DEF InHand, ToSet

\* The next message of the page, and the rest.
LEMMA PageTail ==
  ASSUME BackfillInv, run.page # <<>>
  PROVE  /\ Message \in Entry /\ Message = run.page[1] /\ 1 \in DOMAIN run.page
         /\ Tail(run.page) \in Seq(Entry)
         /\ \A i \in DOMAIN Tail(run.page) :
               i + 1 \in DOMAIN run.page /\ Tail(run.page)[i] = run.page[i + 1]
         /\ \A i \in DOMAIN run.page :
               i = 1 \/ (i - 1 \in DOMAIN Tail(run.page) /\ Tail(run.page)[i - 1] = run.page[i])
<1>1. run.page \in Seq(Entry)  BY DEF BackfillInv, BackfillTypeOK, Run
<1> QED  BY <1>1, HeadTailProperties DEF Message

\* The counters.
LEMMA CountsType ==
  ASSUME NEW stats \in Stats, NEW counters
  PROVE  /\ Counts(stats, counters) \in Stats
         /\ Counts(stats, counters).fetched = stats.fetched + (IF "fetched" \in counters THEN 1 ELSE 0)
         /\ Counts(stats, counters).stored = stats.stored + (IF "stored" \in counters THEN 1 ELSE 0)
         /\ Counts(stats, counters).duplicate = stats.duplicate + (IF "duplicate" \in counters THEN 1 ELSE 0)
         /\ Counts(stats, counters).unusable = stats.unusable + (IF "unusable" \in counters THEN 1 ELSE 0)
BY DEF Counts, Stats

\* The import of a channel begins with nothing in hand, or it is over.
LEMMA NextChannelType ==
  ASSUME BackfillInv, ~At("off")
  PROVE  /\ NextChannel(run) \in Run
         /\ NextChannel(run).at \in {"off", "seed"}
         /\ NextChannel(run).at = "seed" => /\ NextChannel(run).channels # <<>>
                                           /\ NextChannel(run).since = run.since
         /\ NextChannel(run).page = <<>>
         /\ Off \in Run
<1>1. NoCheckpoint \in Checkpoint /\ NoStats \in Stats
  BY BackfillConstants DEF NoCheckpoint, Checkpoint, NoStats, Stats
<1>2. Off \in Run /\ Off.page = <<>> /\ Off.at = "off"
  BY <1>1, BackfillConstants DEF Off, Run
<1>3. run.channels \in Seq(ChannelIds) /\ run.channels # <<>> /\ run.since \in Nat
  BY DEF BackfillInv, BackfillTypeOK, Run
<1>4. CASE Len(run.channels) <= 1
  BY <1>2, <1>4 DEF NextChannel
<1>5. CASE ~(Len(run.channels) <= 1)
  <2>1. Tail(run.channels) \in Seq(ChannelIds) /\ Len(Tail(run.channels)) > 0
    BY <1>3, <1>5, HeadTailProperties
  <2>2. Tail(run.channels) # <<>>
    <3>1. \A q \in Seq(ChannelIds) : Len(q) > 0 => q # <<>>  OBVIOUS
    <3> QED  BY <2>1, <3>1
  <2> DEFINE next == [Off EXCEPT !.at = "seed", !.channels = Tail(run.channels), !.since = run.since]
  <2>3. next \in Run  BY <1>2, <1>3, <2>1 DEF Run
  <2>4. next.at = "seed" /\ next.channels = Tail(run.channels) /\ next.since = run.since
        /\ next.page = Off.page
    BY DEF Off
  <2>5. NextChannel(run) = next  BY <1>5 DEF NextChannel
  <2> HIDE DEF next
  <2> QED  BY <1>2, <2>2, <2>3, <2>4, <2>5
<1> QED  BY <1>4, <1>5

\* A sound checkpoint of the channel in hand may be saved.
LEMMA Saved ==
  ASSUME BackfillInv, ~At("off"), UNCHANGED <<server, rows, inserted>>,
         NEW cp \in Checkpoint, cp.since = run.since,
         checkpoints' = [checkpoints EXCEPT ![Channel] = cp],
         seen' \in [ChannelIds -> SUBSET (1..posted)],
         \A c \in ChannelIds : c # Channel => seen'[c] = seen[c],
         Adding(cp.stats), cp.stats.stored <= inserted[Channel],
         \A m \in seen'[Channel] :
           cp.status = "completed" \/ (cp.before # 0 /\ m >= cp.before) => Covered(m, cp.since)
  PROVE  /\ checkpoints' \in [ChannelIds -> Checkpoint] /\ SavedInv'
         /\ \A c \in ChannelIds : checkpoints'[c].since <= run.since
<1>1. Channel \in ChannelIds  BY ChannelType
<1>2. checkpoints \in [ChannelIds -> Checkpoint] /\ run.since \in Nat
  BY DEF BackfillInv, BackfillTypeOK, Run
<1>3. checkpoints' \in [ChannelIds -> Checkpoint]  BY <1>2
<1>4. ASSUME NEW c \in ChannelIds
      PROVE  Sound(checkpoints[c], c)' /\ checkpoints'[c].since <= run.since
  <2>1. CASE c = Channel
    <3>1. checkpoints'[c] = cp  BY <1>1, <1>2, <2>1
    <3> QED  BY <1>2, <2>1, <3>1 DEF Sound, Covered, server
  <2>2. CASE c # Channel
    <3>1. checkpoints'[c] = checkpoints[c]  BY <1>2, <2>2
    <3>2. Sound(checkpoints[c], c) /\ checkpoints[c].since <= run.since
      BY DEF BackfillInv, SavedInv, CheckpointInv
    <3> QED  BY <2>2, <3>1, <3>2 DEF Sound, Covered, server
  <2> QED  BY <2>1, <2>2
<1> QED  BY <1>3, <1>4 DEF SavedInv

\* A channel is left with sound checkpoints, and nothing in hand.
LEMMA Leaving ==
  ASSUME BackfillInv, ~At("off"), run' = NextChannel(run),
         UNCHANGED <<server, rows, runs, inserted>>, faults' \in Nat,
         checkpoints' \in [ChannelIds -> Checkpoint],
         seen' \in [ChannelIds -> SUBSET (1..posted)],
         \A c \in ChannelIds : \A m \in seen'[c] : MessageOf[m].channel = c,
         \A c \in ChannelIds : checkpoints'[c].since <= run.since,
         SavedInv'
  PROVE  BackfillInv'
<1>1. /\ run' \in Run /\ run'.at \in {"off", "seed"} /\ run'.page = <<>>
      /\ run'.at = "seed" => run'.channels # <<>> /\ run'.since = run.since
  BY NextChannelType
<1>2. BackfillTypeOK'
  BY <1>1 DEF BackfillInv, BackfillTypeOK, server, At
<1>3. ServerInv'  BY DEF BackfillInv, ServerInv, server
<1>4. CheckpointInv' /\ StatsInv' /\ PageInv' /\ CoverInv'
  BY <1>1 DEF CheckpointInv, StatsInv, PageInv, CoverInv, InChannel, At
<1>5. TextInv'
  BY <1>1 DEF BackfillInv, TextInv, StoredAsDiscordSays, server
<1> QED  BY <1>2, <1>3, <1>4, <1>5 DEF BackfillInv

\* A channel is left with its checkpoint as it was.
LEMMA LeavingUnsaved ==
  ASSUME BackfillInv, ~At("off"), run' = NextChannel(run),
         UNCHANGED <<server, rows, runs, seen, inserted, checkpoints>>, faults' \in Nat
  PROVE  BackfillInv'
<1>1. SavedInv'  BY DEF BackfillInv, SavedInv, Sound, Covered, server
<1> QED
  BY <1>1, Leaving DEF BackfillInv, BackfillTypeOK, ServerInv, CheckpointInv

\* A channel is left with a sound checkpoint saved.
LEMMA LeavingSaved ==
  ASSUME BackfillInv, ~At("off"), run' = NextChannel(run),
         UNCHANGED <<server, rows, runs, inserted>>, faults' \in Nat,
         NEW cp \in Checkpoint, cp.since = run.since,
         checkpoints' = [checkpoints EXCEPT ![Channel] = cp],
         seen' \in [ChannelIds -> SUBSET (1..posted)],
         \A c \in ChannelIds : \A m \in seen'[c] : MessageOf[m].channel = c,
         \A c \in ChannelIds : c # Channel => seen'[c] = seen[c],
         Adding(cp.stats), cp.stats.stored <= inserted[Channel],
         \A m \in seen'[Channel] :
           cp.status = "completed" \/ (cp.before # 0 /\ m >= cp.before) => Covered(m, cp.since)
  PROVE  BackfillInv'
<1>1. /\ checkpoints' \in [ChannelIds -> Checkpoint] /\ SavedInv'
      /\ \A c \in ChannelIds : checkpoints'[c].since <= run.since
  BY Saved
<1> QED  BY <1>1, Leaving

----------------------------------------------------------------------------
(* The import *)

LEMMA InitBackfillInv ==
  Init => BackfillInv
<1> SUFFICES ASSUME Init PROVE BackfillInv
  OBVIOUS
<1> USE BackfillConstants
<1>1. NoCheckpoint \in Checkpoint /\ NoStats \in Stats /\ Adding(NoStats)
  BY DEF NoCheckpoint, Checkpoint, NoStats, Stats, Adding
<1>2. Off \in Run /\ Off.page = <<>> /\ Off.at = "off"
  BY <1>1 DEF Off, Run
<1>3. 1..Present \subseteq Ids /\ posted = Present
  BY DEF Init, Ids
<1>4. PICK S \in SUBSET (1..Present) : rows = [m \in S |-> 1]
  BY DEF Init
<1>5. DOMAIN rows = S /\ \A m \in S : rows[m] = 1  BY <1>4
<1>6. BackfillTypeOK
  BY <1>1, <1>2, <1>3, <1>4, <1>5 DEF Init, BackfillTypeOK, Versions, At, Ids
<1>7. ServerInv  BY DEF Init, ServerInv
<1>8. CheckpointInv /\ StatsInv /\ PageInv /\ CoverInv
  BY <1>2 DEF Init, CheckpointInv, StatsInv, PageInv, CoverInv, InChannel, At
<1>9. SavedInv
  BY <1>1 DEF Init, SavedInv, Sound, NoCheckpoint, NoStats
<1>10. TextInv
  <2>1. StoredAsDiscordSays
    BY <1>3, <1>4, <1>5 DEF Init, StoredAsDiscordSays
  <2>2. DOMAIN run.page = {}  BY <1>2 DEF Init
  <2> QED  BY <2>1, <2>2 DEF TextInv
<1> QED  BY <1>6, <1>7, <1>8, <1>9, <1>10 DEF BackfillInv

\* The import is started, or goes off.
LEMMA StartStep ==
  BackfillInv /\ (BackfillDiscordHistory \/ Crash) => BackfillInv'
<1> SUFFICES ASSUME BackfillInv, BackfillDiscordHistory \/ Crash PROVE BackfillInv'
  OBVIOUS
<1> USE BackfillConstants
<1>0. NoCheckpoint \in Checkpoint /\ NoStats \in Stats
  BY DEF NoCheckpoint, Checkpoint, NoStats, Stats
<1>1. Off \in Run /\ Off.page = <<>> /\ Off.at = "off"
  BY <1>0 DEF Off, Run
<1>2. /\ UNCHANGED <<server, rows, checkpoints, faults, seen, inserted>>
      /\ run' \in Run /\ run'.page = <<>> /\ run'.at \in {"off", "seed"} /\ runs' \in Nat
      /\ run'.at = "seed" =>
           /\ run'.channels # <<>>
           /\ \A c \in ChannelIds : checkpoints[c].since <= run'.since
  <2>1. CASE BackfillDiscordHistory
    <3>1. PICK since \in Windows :
             /\ \A c \in ChannelIds : checkpoints[c].since <= since
             /\ run' = [Off EXCEPT !.at = "seed", !.channels = Channels, !.since = since]
      BY <2>1 DEF BackfillDiscordHistory
    <3>2. run' \in Run  BY <1>1, <3>1 DEF Run
    <3>3. /\ run'.at = "seed" /\ run'.channels = Channels /\ run'.since = since
          /\ run'.page = Off.page
      BY <3>1 DEF Off
    <3>4. runs \in Nat /\ runs' = runs + 1
          /\ UNCHANGED <<server, rows, checkpoints, faults, seen, inserted>>
      BY <2>1 DEF BackfillDiscordHistory, BackfillInv, BackfillTypeOK
    <3>5. Channels # <<>>  OBVIOUS
    <3> QED
      BY <1>1, <3>1, <3>2, <3>3, <3>4, <3>5
  <2>2. CASE Crash
    BY <1>1, <2>2 DEF Crash, BackfillInv, BackfillTypeOK
  <2> QED  BY <2>1, <2>2
<1>3. BackfillTypeOK'
  BY <1>2 DEF BackfillInv, BackfillTypeOK, server, At
<1>4. ServerInv' /\ SavedInv'
  BY <1>2 DEF BackfillInv, ServerInv, SavedInv, Sound, Covered, server
<1>5. CheckpointInv' /\ StatsInv' /\ PageInv' /\ CoverInv'
  BY <1>2 DEF CheckpointInv, StatsInv, PageInv, CoverInv, InChannel, At
<1>6. TextInv'
  BY <1>2 DEF BackfillInv, TextInv, StoredAsDiscordSays, server
<1> QED  BY <1>3, <1>4, <1>5, <1>6 DEF BackfillInv

\* Statements and requests succeed or fail.
LEMMA FaultsType ==
  ASSUME BackfillInv, Works \/ Fails
  PROVE  faults' \in Nat
BY BackfillConstants DEF BackfillInv, BackfillTypeOK, Works, Fails

LEMMA SeedStep ==
  BackfillInv /\ SeedGuildCache => BackfillInv'
<1> SUFFICES ASSUME BackfillInv, SeedGuildCache PROVE BackfillInv'
  OBVIOUS
<1>1. /\ At("seed") /\ ~At("off") /\ UNCHANGED <<server, rows, runs, seen, inserted>>
      /\ faults' \in Nat
  BY FaultsType DEF SeedGuildCache, At
<1>2. CASE Works /\ run' = [run EXCEPT !.at = "load"] /\ UNCHANGED checkpoints
  <2>1. run \in Run  BY DEF BackfillInv, BackfillTypeOK
  <2>2. /\ run' \in Run /\ run'.at = "load" /\ run'.page = run.page
        /\ run'.channels = run.channels /\ run'.since = run.since
    BY <1>2, <2>1 DEF Run
  <2>3. run.page = <<>>  BY <1>1 DEF BackfillInv, PageInv, At
  <2>4. BackfillTypeOK'
    BY <1>1, <1>2, <2>2 DEF BackfillInv, BackfillTypeOK, server, At
  <2>5. ServerInv' /\ SavedInv'
    BY <1>1, <1>2 DEF BackfillInv, ServerInv, SavedInv, Sound, Covered, server
  <2>6. CheckpointInv'
    BY <1>1, <1>2, <2>2 DEF BackfillInv, CheckpointInv, InChannel, At
  <2>7. StatsInv' /\ PageInv' /\ CoverInv'
    BY <2>2, <2>3 DEF StatsInv, PageInv, CoverInv, At
  <2>8. TextInv'
    BY <1>1, <2>2 DEF BackfillInv, TextInv, StoredAsDiscordSays, server
  <2> QED  BY <2>4, <2>5, <2>6, <2>7, <2>8 DEF BackfillInv
<1>3. CASE run' = NextChannel(run) /\ UNCHANGED checkpoints
  BY <1>1, <1>3, LeavingUnsaved
<1>4. CASE /\ run' = NextChannel(run)
           /\ UpsertCheckpoint([NoCheckpoint EXCEPT !.status = "failed", !.since = run.since])
  <2> DEFINE cp == [NoCheckpoint EXCEPT !.status = "failed", !.since = run.since]
  <2>1. run.since \in Nat  BY DEF BackfillInv, BackfillTypeOK, Run
  <2>2. cp \in Checkpoint
    <3>1. NoCheckpoint \in Checkpoint
      BY BackfillConstants DEF NoCheckpoint, Checkpoint, NoStats, Stats
    <3> QED  BY <2>1, <3>1 DEF Checkpoint
  <2>3. cp.since = run.since /\ cp.status = "failed" /\ cp.before = 0
        /\ Adding(cp.stats) /\ cp.stats.stored = 0
    BY DEF NoCheckpoint, NoStats, Adding
  <2>4. cp.stats.stored <= inserted[Channel]
    BY <1>1, <2>3, ChannelType DEF BackfillInv, BackfillTypeOK
  <2>5. checkpoints' = [checkpoints EXCEPT ![Channel] = cp]
    BY <1>4 DEF UpsertCheckpoint
  <2> HIDE DEF cp
  <2>6. seen' \in [ChannelIds -> SUBSET (1..posted)]
        /\ \A c \in ChannelIds : \A m \in seen'[c] : MessageOf[m].channel = c
    BY <1>1 DEF BackfillInv, BackfillTypeOK, ServerInv
  <2> QED
    BY <1>1, <1>4, <2>2, <2>3, <2>4, <2>5, <2>6, LeavingSaved
<1> QED  BY <1>2, <1>3, <1>4 DEF SeedGuildCache

\* An import is taken up where it stopped, with the window of today.
LEMMA LoadStep ==
  BackfillInv /\ LoadCheckpoint => BackfillInv'
<1> SUFFICES ASSUME BackfillInv, LoadCheckpoint PROVE BackfillInv'
  OBVIOUS
<1> DEFINE old == checkpoints[Channel]
           cp == Resumed(old, run.since)
<1>1. /\ At("load") /\ ~At("off") /\ UNCHANGED <<server, rows, runs, seen, inserted>>
      /\ faults' \in Nat
  BY FaultsType DEF LoadCheckpoint, At
<1>2. CASE run' = NextChannel(run) /\ UNCHANGED checkpoints
  BY <1>1, <1>2, LeavingUnsaved
<1>3. CASE /\ UpsertCheckpoint(cp)
           /\ run' = [run EXCEPT !.at = "fetch", !.checkpoint = cp, !.stats = cp.stats]
  <2>1. /\ run \in Run /\ Channel \in ChannelIds /\ old \in Checkpoint
        /\ run.since \in Nat /\ inserted[Channel] \in Nat /\ old.since <= run.since
    BY <1>1, ChannelType DEF BackfillInv, BackfillTypeOK, Run, CheckpointInv
  <2>2. /\ cp \in Checkpoint /\ cp.status = "in_progress" /\ cp.since = run.since
        /\ \/ cp.before = 0 /\ cp.stats = NoStats
           \/ cp.before = old.before /\ cp.stats = old.stats
    <3>1. NoCheckpoint \in Checkpoint /\ NoCheckpoint.before = 0 /\ NoCheckpoint.stats = NoStats
      BY BackfillConstants DEF NoCheckpoint, Checkpoint, NoStats, Stats
    <3>2. CASE ToResume(old)
      <4>1. cp = [old EXCEPT !.status = "in_progress", !.since = run.since]
        BY <3>2 DEF Resumed
      <4> QED  BY <2>1, <4>1 DEF Checkpoint
    <3>3. CASE ~ToResume(old)
      <4>1. cp = [NoCheckpoint EXCEPT !.status = "in_progress", !.since = run.since]
        BY <3>3 DEF Resumed
      <4> QED  BY <2>1, <3>1, <4>1 DEF Checkpoint
    <3> QED  BY <3>2, <3>3
  <2>3. Sound(old, Channel)  BY <2>1 DEF BackfillInv, SavedInv
  <2>4. checkpoints' = [checkpoints EXCEPT ![Channel] = cp]
    BY <1>3 DEF UpsertCheckpoint
  <2> HIDE DEF cp
  <2>5. Adding(cp.stats) /\ cp.stats.stored <= inserted[Channel]
    BY <2>1, <2>2, <2>3 DEF Sound, Adding, NoStats
  <2>6. \A m \in seen[Channel] : m \in Nat /\ (Covered(m, old.since) => Covered(m, run.since))
    <3>1. \A m \in seen[Channel] : m \in Nat  BY <2>1 DEF BackfillInv, BackfillTypeOK
    <3>2. old.since \in Nat  BY <2>1 DEF Checkpoint
    <3> QED  BY <2>1, <3>1, <3>2 DEF Covered
  <2>7. \A m \in seen[Channel] :
           cp.status = "completed" \/ (cp.before # 0 /\ m >= cp.before) => Covered(m, cp.since)
    BY <2>2, <2>3, <2>6 DEF Sound
  <2>8. /\ checkpoints' \in [ChannelIds -> Checkpoint] /\ SavedInv'
        /\ \A c \in ChannelIds : checkpoints'[c].since <= run.since
    <3>1. seen' \in [ChannelIds -> SUBSET (1..posted)]
      BY <1>1 DEF BackfillInv, BackfillTypeOK
    <3> QED  BY <1>1, <2>2, <2>4, <2>5, <2>7, <3>1, Saved
  <2>9. /\ run' \in Run /\ run'.at = "fetch" /\ run'.page = run.page /\ run'.since = run.since
        /\ run'.channels = run.channels /\ run'.checkpoint = cp /\ run'.stats = cp.stats
    BY <1>3, <2>1, <2>2 DEF Run, Checkpoint
  <2>10. run.page = <<>>  BY <1>1 DEF BackfillInv, PageInv, At
  <2>11. Channel' = Channel /\ checkpoints'[Channel] = cp
    BY <2>1, <2>4, <2>9 DEF Channel, BackfillInv, BackfillTypeOK
  <2>12. BackfillTypeOK'
    BY <1>1, <2>8, <2>9 DEF BackfillInv, BackfillTypeOK, server, At
  <2>13. ServerInv'  BY <1>1 DEF BackfillInv, ServerInv, server
  <2>14. CheckpointInv'
    BY <2>2, <2>8, <2>9, <2>11 DEF CheckpointInv, InChannel, At
  <2>15. StatsInv'
    BY <1>1, <2>5, <2>9, <2>11 DEF StatsInv, At
  <2>16. PageInv' /\ CoverInv'
    BY <2>9, <2>10 DEF PageInv, CoverInv
  <2>17. TextInv'
    BY <1>1, <2>9 DEF BackfillInv, TextInv, StoredAsDiscordSays, server
  <2> QED  BY <2>8, <2>12, <2>13, <2>14, <2>15, <2>16, <2>17 DEF BackfillInv
<1> QED  BY <1>2, <1>3 DEF LoadCheckpoint

\* What is known while a channel is imported.
LEMMA InChannelFacts ==
  ASSUME BackfillInv, InChannel
  PROVE  /\ ~At("off") /\ Channel \in ChannelIds /\ run \in Run
         /\ run.checkpoint \in Checkpoint /\ run.checkpoint = checkpoints[Channel]
         /\ run.checkpoint.since = run.since /\ run.checkpoint.status = "in_progress"
         /\ checkpoints = [checkpoints EXCEPT ![Channel] = run.checkpoint]
         /\ Sound(run.checkpoint, Channel) /\ run.since \in Nat
         /\ run.stats \in Stats /\ inserted[Channel] \in Nat
         /\ seen[Channel] \subseteq 1..posted
<1>1. ~At("off")  BY DEF InChannel, At
<1>2. Channel \in ChannelIds  BY <1>1, ChannelType
<1> QED
  BY <1>1, <1>2 DEF BackfillInv, BackfillTypeOK, CheckpointInv, SavedInv, Run

\* Messages beyond the place saved, below it, and what a page asks for: everything of the
\* channel that exists is in one of these.
LEMMA AskedOrCovered ==
  ASSUME BackfillInv, InChannel, run.checkpoint.before # 0, NEW m \in seen[Channel]
  PROVE  \/ Covered(m, run.since)
         \/ m \in {k \in Existing(Channel) :
                     run.checkpoint.before = 0 \/ k < run.checkpoint.before}
<1>1. /\ m \in 1..posted /\ MessageOf[m].channel = Channel
      /\ run.checkpoint.before \in Nat
  BY InChannelFacts, BackfillConstants DEF BackfillInv, ServerInv, Checkpoint
<1>2. CASE m >= run.checkpoint.before
  BY <1>2, InChannelFacts DEF Sound
<1>3. CASE m < run.checkpoint.before
  BY <1>1, <1>3 DEF Existing, Covered
<1> QED  BY <1>1, <1>2, <1>3

LEMMA FetchPageStep ==
  BackfillInv /\ FetchPage => BackfillInv'
<1> SUFFICES ASSUME BackfillInv, FetchPage PROVE BackfillInv'
  OBVIOUS
<1> DEFINE b == run.checkpoint.before
           ids == {k \in Existing(Channel) : b = 0 \/ k < b}
           page == Newest(ids)
           last == page[Len(page)].id
<1>1. /\ At("fetch") /\ InChannel /\ page # <<>> /\ faults' \in Nat
      /\ UNCHANGED <<server, rows, checkpoints, runs, inserted>>
      /\ run' = [run EXCEPT !.at = "handle", !.page = page, !.last = last,
                            !.full = Len(page) = PageSize, !.older = FALSE]
      /\ seen' = IF b = 0 THEN [seen EXCEPT ![Channel] = Existing(Channel)] ELSE seen
  BY FaultsType DEF FetchPage, PageBefore, At, InChannel
<1>2. ids \subseteq Existing(Channel) /\ ids \subseteq 1..posted /\ ids \subseteq Ids
      /\ Existing(Channel) \subseteq 1..posted
      /\ \A m \in Existing(Channel) : m \notin deleted /\ MessageOf[m].channel = Channel
  BY BackfillConstants DEF Existing, BackfillInv, BackfillTypeOK, Ids
<1>3. /\ page \in Seq(Entry)
      /\ \A i \in DOMAIN page : page[i].id \in ids /\ page[i].version = version[page[i].id]
                                /\ last <= page[i].id
      /\ \A m \in ids : Len(page) # PageSize \/ m >= last =>
                            \E i \in DOMAIN page : page[i].id = m
  BY <1>2, NewestPage DEF BackfillInv, BackfillTypeOK
<1> HIDE DEF page, last
<1>4. last \in 0..LastId /\ Len(page) \in Nat
  <2>1. Len(page) \in DOMAIN page  BY <1>1, <1>3, EmptySeq
  <2>2. page[Len(page)].id \in Ids  BY <1>2, <1>3, <2>1
  <2> QED  BY <1>3, <2>2, BackfillConstants DEF last, Ids
<1>5. /\ run' \in Run /\ run'.at = "handle" /\ run'.page = page /\ run'.last = last
      /\ run'.full = (Len(page) = PageSize) /\ run'.older = FALSE
      /\ run'.channels = run.channels /\ run'.since = run.since
      /\ run'.checkpoint = run.checkpoint /\ run'.stats = run.stats
  BY <1>1, <1>3, <1>4, InChannelFacts DEF Run
<1>6. /\ seen' \in [ChannelIds -> SUBSET (1..posted)]
      /\ \A c \in ChannelIds : c # Channel => seen'[c] = seen[c]
      /\ \A c \in ChannelIds : \A m \in seen'[c] : MessageOf[m].channel = c
      /\ seen'[Channel] = IF b = 0 THEN Existing(Channel) ELSE seen[Channel]
  BY <1>1, <1>2, InChannelFacts DEF BackfillInv, BackfillTypeOK, ServerInv
<1>7. Channel' = Channel  BY <1>5 DEF Channel
<1>8. BackfillTypeOK'
  BY <1>1, <1>5, <1>6, InChannelFacts DEF BackfillInv, BackfillTypeOK, server, At
<1>9. ServerInv'
  BY <1>1, <1>6 DEF BackfillInv, ServerInv, server
<1>10. CheckpointInv'
  BY <1>1, <1>5, <1>7, InChannelFacts DEF BackfillInv, CheckpointInv, InChannel, At
<1>11. SavedInv'
  <2>1. /\ Adding(run.checkpoint.stats) /\ run.checkpoint.stats.stored <= inserted[Channel]
        /\ \A m \in seen'[Channel] :
              run.checkpoint.status = "completed" \/ (b # 0 /\ m >= b) =>
                Covered(m, run.checkpoint.since)
    BY <1>1, <1>6, InChannelFacts DEF Sound
  <2>2. checkpoints' = [checkpoints EXCEPT ![Channel] = run.checkpoint]
    BY <1>1, InChannelFacts
  <2> QED  BY <1>1, <1>6, <2>1, <2>2, InChannelFacts, Saved
<1>12. StatsInv'
  BY <1>1, <1>5, <1>7 DEF BackfillInv, StatsInv, At
<1>13. PageInv'
  BY <1>1, <1>2, <1>3, <1>5 DEF PageInv, server
<1>14. CoverInv'
  <2> SUFFICES ASSUME NEW m \in seen'[Channel],
                      ~\E i \in DOMAIN page : page[i].id = m,
                      m >= last \/ Len(page) # PageSize
               PROVE  Covered(m, run.since)
    BY <1>1, <1>5, <1>7, InHandIds DEF CoverInv, Covered, server
  <2>1. m \notin ids  BY <1>3
  <2>2. b # 0 /\ m \in seen[Channel]  BY <1>6, <2>1
  <2> QED  BY <1>1, <2>1, <2>2, AskedOrCovered
<1>15. TextInv'
  <2>1. StoredAsDiscordSays'
    BY <1>1 DEF BackfillInv, TextInv, StoredAsDiscordSays, server
  <2> QED  BY <1>1, <1>2, <1>3, <1>5, <2>1 DEF TextInv, server
<1> QED
  BY <1>8, <1>9, <1>10, <1>11, <1>12, <1>13, <1>14, <1>15 DEF BackfillInv

\* An empty page: nothing of the channel is left below the place saved.
LEMMA FetchNothingStep ==
  BackfillInv /\ FetchNothing => BackfillInv'
<1> SUFFICES ASSUME BackfillInv, FetchNothing PROVE BackfillInv'
  OBVIOUS
<1> DEFINE b == run.checkpoint.before
           ids == {k \in Existing(Channel) : b = 0 \/ k < b}
           cp == Completed(run.checkpoint, run.stats)
<1>1. /\ At("fetch") /\ InChannel /\ Newest(ids) = <<>> /\ faults' \in Nat
      /\ UNCHANGED <<server, rows, runs, inserted>> /\ run' = NextChannel(run)
      /\ UpsertCheckpoint(cp) \/ UNCHANGED checkpoints
      /\ seen' = IF b = 0 THEN [seen EXCEPT ![Channel] = {}] ELSE seen
  BY FaultsType DEF FetchNothing, PageBefore, At, InChannel
<1>2. ids = {}
  <2>1. ids \in SUBSET Ids
    BY BackfillConstants DEF Existing, BackfillInv, BackfillTypeOK, Ids
  <2> QED  BY <1>1, <2>1, NewestPage DEF BackfillInv, BackfillTypeOK
<1>3. /\ seen' \in [ChannelIds -> SUBSET (1..posted)]
      /\ \A c \in ChannelIds : c # Channel => seen'[c] = seen[c]
      /\ \A c \in ChannelIds : \A m \in seen'[c] : MessageOf[m].channel = c
      /\ seen'[Channel] = IF b = 0 THEN {} ELSE seen[Channel]
  BY <1>1, InChannelFacts DEF BackfillInv, BackfillTypeOK, ServerInv
<1>4. \A m \in seen'[Channel] : Covered(m, run.since)
  BY <1>1, <1>2, <1>3, AskedOrCovered
<1>5. /\ cp \in Checkpoint /\ cp.since = run.since /\ cp.stats = run.stats
  <2>1. 0 \in 0..LastId  BY BackfillConstants
  <2> QED  BY <1>1, <2>1, InChannelFacts DEF Completed, Checkpoint
<1>6. Adding(run.stats) /\ run.stats.stored <= inserted[Channel]
  BY <1>1 DEF BackfillInv, StatsInv, At
<1> HIDE DEF cp
<1>7. CASE UpsertCheckpoint(cp)
  <2>1. checkpoints' = [checkpoints EXCEPT ![Channel] = cp]  BY <1>7 DEF UpsertCheckpoint
  <2> QED  BY <1>1, <1>3, <1>4, <1>5, <1>6, <2>1, InChannelFacts, LeavingSaved
<1>8. CASE UNCHANGED checkpoints
  <2>1. checkpoints' = [checkpoints EXCEPT ![Channel] = run.checkpoint]
    BY <1>1, <1>8, InChannelFacts
  <2>2. Adding(run.checkpoint.stats) /\ run.checkpoint.stats.stored <= inserted[Channel]
    BY <1>1, InChannelFacts DEF Sound
  <2> QED  BY <1>1, <1>3, <1>4, <2>1, <2>2, InChannelFacts, LeavingSaved
<1> QED  BY <1>1, <1>7, <1>8

LEMMA FetchFailsStep ==
  BackfillInv /\ FetchFails => BackfillInv'
<1> SUFFICES ASSUME BackfillInv, FetchFails PROVE BackfillInv'
  OBVIOUS
<1> DEFINE cp == [run.checkpoint EXCEPT !.status = "failed"]
<1>1. /\ InChannel /\ ~At("off") /\ faults' \in Nat /\ run' = NextChannel(run)
      /\ UNCHANGED <<server, rows, runs, seen, inserted>>
      /\ UpsertCheckpoint(cp) \/ UNCHANGED checkpoints
  BY FaultsType DEF FetchFails, At, InChannel
<1>2. /\ cp \in Checkpoint /\ cp.since = run.since /\ cp.stats = run.checkpoint.stats
      /\ cp.before = run.checkpoint.before /\ cp.status = "failed"
  BY <1>1, InChannelFacts DEF Checkpoint
<1> HIDE DEF cp
<1>3. CASE UpsertCheckpoint(cp)
  <2>1. checkpoints' = [checkpoints EXCEPT ![Channel] = cp]  BY <1>3 DEF UpsertCheckpoint
  <2>2. /\ seen' \in [ChannelIds -> SUBSET (1..posted)]
        /\ \A c \in ChannelIds : \A m \in seen'[c] : MessageOf[m].channel = c
    BY <1>1 DEF BackfillInv, BackfillTypeOK, ServerInv
  <2>3. /\ Adding(cp.stats) /\ cp.stats.stored <= inserted[Channel]
        /\ \A m \in seen'[Channel] :
              cp.status = "completed" \/ (cp.before # 0 /\ m >= cp.before) => Covered(m, cp.since)
    BY <1>1, <1>2, InChannelFacts DEF Sound
  <2> QED  BY <1>1, <1>2, <2>1, <2>2, <2>3, LeavingSaved
<1>4. CASE UNCHANGED checkpoints
  BY <1>1, <1>4, LeavingUnsaved
<1> QED  BY <1>1, <1>3, <1>4

\* One message less in hand, and that one is covered: what HandleMessage and Record share.
LEMMA HandledOne ==
  ASSUME NEW id \in Ids, NEW since \in Nat, id = Message.id, since = run.since,
         BackfillInv, run.at \in {"handle", "record"}, run.page # <<>>,
         UNCHANGED <<server, checkpoints, runs, seen>>, faults' \in Nat,
         run' \in Run, run'.at = "handle", run'.page = Tail(run.page),
         run'.channels = run.channels, run'.since = run.since, run'.last = run.last,
         run'.checkpoint = run.checkpoint, run'.full = run.full,
         run'.older => run.older \/ Message.id < run.since,
         rows' \in [DOMAIN rows' -> Versions], DOMAIN rows' \subseteq 1..posted,
         DOMAIN rows \subseteq DOMAIN rows',
         \A m \in DOMAIN rows : rows'[m] = rows[m],
         \A m \in DOMAIN rows' :
           m \in DOMAIN rows \/ (m = Message.id /\ rows'[m] = Message.version),
         inserted' \in [ChannelIds -> Nat], \A c \in ChannelIds : inserted[c] <= inserted'[c],
         Adding(run'.stats), run'.stats.stored <= inserted'[Channel],
         Covered(id, since)'
  PROVE  BackfillInv'
<1>1. InChannel /\ ~At("off")  BY DEF InChannel, At
<1>2. Channel' = Channel  BY DEF Channel
<1>3. BackfillTypeOK'
  BY InChannelFacts, <1>1 DEF BackfillInv, BackfillTypeOK, server, At
<1>4. ServerInv'  BY DEF BackfillInv, ServerInv, server
<1>5. CheckpointInv'
  BY <1>1, <1>2 DEF BackfillInv, CheckpointInv, InChannel, At
<1>6. \A m, s : Covered(m, s) => Covered(m, s)'
  BY DEF Covered, server
<1>7. SavedInv'
  <2>1. \A c \in ChannelIds : /\ checkpoints[c].stats.stored \in Nat
                              /\ inserted[c] \in Nat /\ inserted'[c] \in Nat
    BY DEF BackfillInv, BackfillTypeOK, Checkpoint, Stats
  <2> QED  BY <1>6, <2>1 DEF BackfillInv, SavedInv, Sound
<1>8. StatsInv'
  BY <1>2 DEF StatsInv, At
<1>9. PageInv'
  <2>1. \A i \in DOMAIN run'.page : i + 1 \in DOMAIN run.page /\ run'.page[i] = run.page[i + 1]
    BY PageTail
  <2>2. run.last \in Nat /\ run.since \in Nat /\ (run.older => run.last < run.since)
    <3>1. run \in Run  BY DEF BackfillInv, BackfillTypeOK
    <3>2. run.last \in Nat /\ run.since \in Nat  BY <3>1, BackfillConstants DEF Run
    <3> QED  BY <3>2 DEF BackfillInv, PageInv
  <2>3. run.last <= Message.id /\ Message.id \in Nat
    BY PageTail, BackfillConstants DEF BackfillInv, PageInv, Entry, Ids
  <2> QED  BY <2>1, <2>2, <2>3 DEF BackfillInv, PageInv, server
<1>10. CoverInv'
  <2>1. ASSUME NEW m \in InHand, m # id PROVE m \in InHand'
    <3>1. PICK i \in DOMAIN run.page : m = run.page[i].id  BY InHandIds
    <3>2. i # 1  BY <2>1, <3>1, PageTail
    <3>3. i - 1 \in DOMAIN run'.page /\ run'.page[i - 1] = run.page[i]  BY <3>2, PageTail
    <3> QED  BY <3>1, <3>3, InHandIds
  <2>2. \A m \in seen[Channel] :
           m \notin InHand /\ (m >= run.last \/ ~run.full) => Covered(m, since)
    BY DEF BackfillInv, CoverInv
  <2>3. \A m \in seen[Channel] :
           m \notin InHand' /\ (m >= run.last \/ ~run.full) => Covered(m, since)'
    BY <1>6, <2>1, <2>2
  <2>4. \A m : Covered(m, run.since)' <=> Covered(m, since)'  BY DEF Covered
  <2> QED  BY <1>2, <2>3, <2>4 DEF CoverInv
<1>11. TextInv'
  <2>1. /\ Message = run.page[1] /\ 1 \in DOMAIN run.page
        /\ \A i \in DOMAIN run'.page : i + 1 \in DOMAIN run.page /\ run'.page[i] = run.page[i + 1]
    BY PageTail
  <2>2. \A i \in DOMAIN run'.page :
          LET e == run'.page[i]
          IN \/ e.id \in missed' \cup overtaken' \cup DOMAIN rows'
             \/ MessageOf[e.id].author \in blocked'
             \/ e.version = version'[e.id] /\ e.id \notin deleted'
    BY <2>1 DEF BackfillInv, TextInv, server
  <2>3. ASSUME NEW m \in DOMAIN rows'
        PROVE  \/ m \in missed' \cup overtaken'
               \/ MessageOf[m].author \in blocked'
               \/ rows'[m] = version'[m] /\ m \notin deleted'
    <3>1. CASE m \in DOMAIN rows
      BY <3>1 DEF BackfillInv, TextInv, StoredAsDiscordSays, server
    <3>2. CASE m \notin DOMAIN rows
      <4>1. m = run.page[1].id /\ rows'[m] = run.page[1].version  BY <2>1, <3>2
      <4> QED  BY <2>1, <3>2, <4>1 DEF BackfillInv, TextInv, server
    <3> QED  BY <3>1, <3>2
  <2> QED  BY <2>2, <2>3 DEF TextInv, StoredAsDiscordSays
<1> QED
  BY <1>3, <1>4, <1>5, <1>7, <1>8, <1>9, <1>10, <1>11 DEF BackfillInv

\* A message is too old, not wanted, or goes on to be recorded.
LEMMA HandleStep ==
  BackfillInv /\ HandleMessage => BackfillInv'
<1> SUFFICES ASSUME BackfillInv, HandleMessage PROVE BackfillInv'
  OBVIOUS
<1>1. /\ At("handle") /\ run.page # <<>> /\ InChannel /\ run.at \in {"handle", "record"}
      /\ UNCHANGED <<server, rows, checkpoints, runs, seen, inserted>>
      /\ faults' \in Nat
  BY DEF HandleMessage, At, InChannel, Fails, Works, BackfillInv, BackfillTypeOK
<1>2. /\ run \in Run /\ run.stats \in Stats /\ run.since \in Nat /\ Channel \in ChannelIds
      /\ Message \in Entry /\ Tail(run.page) \in Seq(Entry)
      /\ inserted \in [ChannelIds -> Nat]
      /\ rows \in [DOMAIN rows -> Versions] /\ DOMAIN rows \subseteq 1..posted
  BY <1>1, InChannelFacts, PageTail DEF BackfillInv, BackfillTypeOK
<1>3. Adding(run.stats) /\ run.stats.stored <= inserted[Channel]
  BY <1>1 DEF BackfillInv, StatsInv, At
<1>4. PICK m \in Ids, s \in Nat : m = Message.id /\ s = run.since
  BY <1>2 DEF Entry
<1>5. CASE Message.id < run.since /\ run' = [run EXCEPT !.page = Tail(@),
                                              !.stats = Counts(@, {"old"}), !.older = TRUE]
  <2> DEFINE new == Counts(run.stats, {"old"})
  <2>1. /\ new \in Stats /\ new.fetched = run.stats.fetched /\ new.stored = run.stats.stored
        /\ new.duplicate = run.stats.duplicate /\ new.unusable = run.stats.unusable
    <3>1. /\ run.stats \in Stats
          /\ run.stats.stored \in Nat /\ run.stats.duplicate \in Nat
          /\ run.stats.fetched \in Nat /\ run.stats.unusable \in Nat
      BY <1>2 DEF Stats
    <3>2. new = Counts(run.stats, {"old"})  OBVIOUS
    <3> HIDE DEF new
    <3> QED  BY <3>1, <3>2, CountsType
  <2> HIDE DEF new
  <2>2. run' = [run EXCEPT !.page = Tail(run.page), !.stats = new, !.older = TRUE]
    BY <1>2, <1>5 DEF new, Run
  <2>3. /\ run' \in Run /\ run'.at = "handle" /\ run'.page = Tail(run.page)
        /\ run'.channels = run.channels /\ run'.since = run.since /\ run'.last = run.last
        /\ run'.checkpoint = run.checkpoint /\ run'.full = run.full /\ run'.stats = new
    BY <1>1, <1>2, <2>1, <2>2 DEF Run, At
  <2>4. Adding(new) /\ new.stored <= inserted[Channel]  BY <1>3, <2>1 DEF Adding
  <2>5. Covered(m, s)'  BY <1>5, <1>4 DEF Covered
  <2> QED  BY <1>1, <1>2, <1>5, <1>4, <2>3, <2>4, <2>5, HandledOne
<1>6. CASE /\ Message.id >= run.since /\ ~Wanted(Message.id)
           /\ run' = [run EXCEPT !.page = Tail(@), !.stats = Counts(@, {"fetched", "unusable"})]
  <2> DEFINE new == Counts(run.stats, {"fetched", "unusable"})
  <2>1. /\ new \in Stats /\ new.fetched = run.stats.fetched + 1 /\ new.stored = run.stats.stored
        /\ new.duplicate = run.stats.duplicate /\ new.unusable = run.stats.unusable + 1
    <3> DEFINE both == {"fetched", "unusable"}
    <3>1. "fetched" \in both /\ "unusable" \in both /\ "stored" \notin both /\ "duplicate" \notin both
      OBVIOUS
    <3>2. new = Counts(run.stats, both)  OBVIOUS
    <3> HIDE DEF both, new
    <3>3. /\ new \in Stats /\ new.fetched = run.stats.fetched + 1
          /\ new.stored = run.stats.stored + 0 /\ new.duplicate = run.stats.duplicate + 0
          /\ new.unusable = run.stats.unusable + 1
      BY <1>2, <3>1, <3>2, CountsType
    <3> QED  BY <1>2, <3>3 DEF Stats
  <2> HIDE DEF new
  <2>2. run' = [run EXCEPT !.page = Tail(run.page), !.stats = new]
    BY <1>2, <1>6 DEF new, Run
  <2>3. /\ run' \in Run /\ run'.at = "handle" /\ run'.page = Tail(run.page)
        /\ run'.channels = run.channels /\ run'.since = run.since /\ run'.last = run.last
        /\ run'.checkpoint = run.checkpoint /\ run'.full = run.full /\ run'.stats = new
        /\ run'.older = run.older
    BY <1>1, <1>2, <2>1, <2>2 DEF Run, At
  <2>4. Adding(new) /\ new.stored <= inserted[Channel]
    BY <1>2, <1>3, <2>1 DEF Adding, Stats
  <2>5. ~MessageOf[m].usable \/ MessageOf[m].author \in blocked
    BY <1>6, <1>4 DEF Wanted
  <2>6. ~MessageOf[m].usable \/ MessageOf[m].author \in everBlocked
    BY <2>5 DEF BackfillInv, BackfillTypeOK
  <2>7. Covered(m, s)'  BY <1>1, <2>6 DEF Covered, server
  <2> QED  BY <1>1, <1>2, <1>4, <2>3, <2>4, <2>7, HandledOne
<1>7. CASE run' = [run EXCEPT !.at = "record", !.stats = Counts(@, {"fetched"})]
  <2> DEFINE new == Counts(run.stats, {"fetched"})
  <2>1. /\ new \in Stats /\ new.fetched = run.stats.fetched + 1 /\ new.stored = run.stats.stored
        /\ new.duplicate = run.stats.duplicate /\ new.unusable = run.stats.unusable
    <3>1. /\ run.stats \in Stats
          /\ run.stats.stored \in Nat /\ run.stats.duplicate \in Nat
          /\ run.stats.fetched \in Nat /\ run.stats.unusable \in Nat
      BY <1>2 DEF Stats
    <3>2. new = Counts(run.stats, {"fetched"})  OBVIOUS
    <3> HIDE DEF new
    <3> QED  BY <3>1, <3>2, CountsType
  <2> HIDE DEF new
  <2>2. run' = [run EXCEPT !.at = "record", !.stats = new]
    BY <1>2, <1>7 DEF new, Run
  <2>3. /\ run' \in Run /\ run'.at = "record" /\ run'.page = run.page /\ run'.stats = new
        /\ run'.channels = run.channels /\ run'.since = run.since /\ run'.last = run.last
        /\ run'.checkpoint = run.checkpoint /\ run'.full = run.full /\ run'.older = run.older
    BY <1>2, <2>1, <2>2 DEF Run
  <2>4. /\ new.fetched = new.stored + new.duplicate + new.unusable + 1
        /\ new.stored <= inserted[Channel]
    BY <1>2, <1>3, <2>1 DEF Adding, Stats
  <2>5. Channel' = Channel /\ InHand' = InHand  BY <2>3 DEF Channel, InHand
  <2>6. BackfillTypeOK'
    BY <1>1, <1>2, <2>3 DEF BackfillInv, BackfillTypeOK, server, At
  <2>7. ServerInv' /\ SavedInv'
    BY <1>1 DEF BackfillInv, ServerInv, SavedInv, Sound, Covered, server
  <2>8. CheckpointInv'
    BY <1>1, <2>3, <2>5 DEF BackfillInv, CheckpointInv, InChannel, At
  <2>9. StatsInv'  BY <1>1, <2>3, <2>4, <2>5 DEF StatsInv, At
  <2>10. PageInv'  BY <1>1, <2>3 DEF BackfillInv, PageInv, server
  <2>11. CoverInv'
    BY <1>1, <2>3, <2>5 DEF BackfillInv, CoverInv, Covered, server
  <2>12. TextInv'
    BY <1>1, <2>3 DEF BackfillInv, TextInv, StoredAsDiscordSays, server
  <2> QED  BY <2>6, <2>7, <2>8, <2>9, <2>10, <2>11, <2>12 DEF BackfillInv
<1> QED
  BY <1>1, <1>5, <1>6, <1>7 DEF HandleMessage

LEMMA RecordStep ==
  BackfillInv /\ Record => BackfillInv'
<1> SUFFICES ASSUME BackfillInv, Record PROVE BackfillInv'
  OBVIOUS
<1> DEFINE m == Message.id
           isNew == m \notin DOMAIN rows
           new == Counts(run.stats, {IF isNew THEN "stored" ELSE "duplicate"})
           plus == IF isNew THEN 1 ELSE 0
<1>1. /\ At("record") /\ InChannel /\ run.at \in {"handle", "record"} /\ run.page # <<>>
      /\ UNCHANGED <<server, checkpoints, runs, seen>> /\ faults' \in Nat
  BY DEF Record, At, InChannel, BackfillInv, BackfillTypeOK
<1>2. /\ run \in Run /\ run.stats \in Stats /\ Channel \in ChannelIds
      /\ Message \in Entry /\ Tail(run.page) \in Seq(Entry)
      /\ inserted \in [ChannelIds -> Nat]
      /\ rows \in [DOMAIN rows -> Versions] /\ DOMAIN rows \subseteq 1..posted
      /\ m \in 1..posted
  <2>1. m \in Ids /\ m <= posted /\ Message \in Entry /\ Tail(run.page) \in Seq(Entry)
    BY <1>1, PageTail DEF BackfillInv, PageInv, Entry
  <2>2. m \in 1..posted
    BY <2>1, BackfillConstants DEF BackfillInv, BackfillTypeOK, Ids
  <2> QED
    BY <1>1, <2>1, <2>2, InChannelFacts DEF BackfillInv, BackfillTypeOK
<1>3. /\ run.stats.fetched = run.stats.stored + run.stats.duplicate + run.stats.unusable + 1
      /\ run.stats.stored <= inserted[Channel]
  BY <1>1 DEF BackfillInv, StatsInv, At
<1>4. /\ rows' = IF isNew THEN With(m, Message.version) ELSE rows
      /\ inserted' = [inserted EXCEPT ![Channel] = @ + plus]
      /\ run' = [run EXCEPT !.at = "handle", !.page = Tail(run.page), !.stats = new]
  BY <1>2 DEF Record, Run
<1>5. /\ new \in Stats /\ new.fetched = run.stats.fetched /\ new.stored = run.stats.stored + plus
      /\ new.duplicate = run.stats.duplicate + (1 - plus) /\ new.unusable = run.stats.unusable
  <2>1. /\ run.stats \in Stats
        /\ run.stats.stored \in Nat /\ run.stats.duplicate \in Nat
        /\ run.stats.fetched \in Nat /\ run.stats.unusable \in Nat
    BY <1>2 DEF Stats
  <2>2. CASE isNew
    <3>1. new = Counts(run.stats, {"stored"}) /\ plus = 1  BY <2>2
    <3> HIDE DEF new, plus
    <3> QED  BY <2>1, <3>1, CountsType
  <2>3. CASE ~isNew
    <3>1. new = Counts(run.stats, {"duplicate"}) /\ plus = 0  BY <2>3
    <3> HIDE DEF new, plus
    <3> QED  BY <2>1, <3>1, CountsType
  <2> QED  BY <2>2, <2>3
<1>6. /\ inserted' \in [ChannelIds -> Nat] /\ \A c \in ChannelIds : inserted[c] <= inserted'[c]
      /\ inserted'[Channel] = inserted[Channel] + plus
  BY <1>2, <1>4
<1>7. /\ rows' \in [DOMAIN rows' -> Versions] /\ DOMAIN rows' = DOMAIN rows \cup {m}
      /\ \A k \in DOMAIN rows : rows'[k] = rows[k]
      /\ \A k \in DOMAIN rows' : k \in DOMAIN rows \/ (k = m /\ rows'[k] = Message.version)
  <2>1. CASE isNew
    <3>1. rows' = [k \in DOMAIN rows \cup {m} |-> IF k = m THEN Message.version ELSE rows[k]]
      BY <1>4, <2>1 DEF With
    <3>2. Message.version \in Versions  BY <1>2 DEF Entry
    <3> QED  BY <1>2, <2>1, <3>1, <3>2
  <2>2. CASE ~isNew
    <3>1. rows' = rows /\ m \in DOMAIN rows  BY <1>4, <2>2
    <3> QED  BY <1>2, <3>1
  <2> QED  BY <2>1, <2>2
<1>8. /\ run' \in Run /\ run'.at = "handle" /\ run'.page = Tail(run.page)
      /\ run'.channels = run.channels /\ run'.since = run.since /\ run'.last = run.last
      /\ run'.checkpoint = run.checkpoint /\ run'.full = run.full /\ run'.stats = new
      /\ run'.older = run.older
  <2> HIDE DEF new
  <2> QED  BY <1>2, <1>4, <1>5 DEF Run
<1>9. Adding(new) /\ new.stored <= inserted'[Channel]
  <2>1. plus \in {0, 1}  OBVIOUS
  <2>2. /\ inserted[Channel] \in Nat /\ run.stats.fetched \in Nat /\ run.stats.stored \in Nat
        /\ run.stats.duplicate \in Nat /\ run.stats.unusable \in Nat
    BY <1>2 DEF Stats
  <2> HIDE DEF new, plus
  <2>3. new.stored <= inserted'[Channel]  BY <1>3, <1>5, <1>6, <2>1, <2>2
  <2>4. new.fetched = new.stored + new.duplicate + new.unusable  BY <1>3, <1>5, <2>1, <2>2
  <2> QED  BY <2>3, <2>4 DEF Adding
<1>10. PICK id \in Ids, since \in Nat : id = m /\ since = run.since
  BY <1>2 DEF Entry, Run
<1>11. Covered(id, since)'  BY <1>7, <1>10 DEF Covered
<1> HIDE DEF new, plus, isNew
<1> QED
  BY <1>1, <1>2, <1>6, <1>7, <1>8, <1>9, <1>10, <1>11, HandledOne

\* The end of a page: everything in it is covered.
LEMMA SaveStep ==
  BackfillInv /\ SavePage => BackfillInv'
<1> SUFFICES ASSUME BackfillInv, SavePage PROVE BackfillInv'
  OBVIOUS
<1> DEFINE cp == After(run.checkpoint, run.last, run.stats)
<1>1. /\ At("handle") /\ ~At("off") /\ InChannel /\ run.page = <<>> /\ faults' \in Nat
      /\ UNCHANGED <<server, rows, runs, seen, inserted>>
  BY FaultsType DEF SavePage, At, InChannel
<1>2. /\ run \in Run /\ run.last \in 0..LastId /\ run.stats \in Stats /\ run.since \in Nat
      /\ run.checkpoint \in Checkpoint /\ run.checkpoint.since = run.since
      /\ Channel \in ChannelIds /\ checkpoints \in [ChannelIds -> Checkpoint]
      /\ \A m \in seen[Channel] : m \in Nat
  BY <1>1, InChannelFacts DEF Run, BackfillInv, BackfillTypeOK
<1>3. /\ cp \in Checkpoint /\ cp.since = run.since /\ cp.stats = run.stats
      /\ Done => cp.before = 0 /\ cp.status = "completed"
      /\ ~Done => cp.before = run.last /\ cp.status = "in_progress"
  <2>1. CASE Done
    <3>1. cp = [run.checkpoint EXCEPT !.status = "completed", !.before = 0, !.stats = run.stats]
      BY <2>1 DEF After, Completed
    <3>2. 0 \in 0..LastId  BY BackfillConstants
    <3> QED  BY <1>2, <2>1, <3>1, <3>2 DEF Checkpoint
  <2>2. CASE ~Done
    <3>1. cp = [run.checkpoint EXCEPT !.status = "in_progress", !.before = run.last,
                                     !.stats = run.stats]
      BY <2>2 DEF After
    <3> QED  BY <1>2, <2>2, <3>1 DEF Checkpoint
  <2> QED  BY <2>1, <2>2
<1>4. Adding(cp.stats) /\ cp.stats.stored <= inserted[Channel]
  BY <1>1, <1>3 DEF BackfillInv, StatsInv, At
<1>5. ASSUME NEW m \in seen[Channel],
             cp.status = "completed" \/ (cp.before # 0 /\ m >= cp.before)
      PROVE  Covered(m, cp.since)
  <2>1. m \notin InHand  BY <1>1, InHandIds
  <2>2. m >= run.last \/ ~run.full => Covered(m, run.since)
    BY <1>1, <2>1 DEF BackfillInv, CoverInv, At
  <2>3. CASE Done
    <3>1. CASE ~run.full  BY <1>3, <2>2, <3>1
    <3>2. CASE run.older
      <4>1. run.last < run.since  BY <1>1, <3>2 DEF BackfillInv, PageInv, At
      <4>2. m >= run.last \/ m < run.since  BY <1>2, <4>1
      <4> QED  BY <1>3, <2>2, <4>2 DEF Covered
    <3> QED  BY <2>3, <3>1, <3>2 DEF Done
  <2>4. CASE ~Done  BY <1>3, <1>5, <2>2, <2>4
  <2> QED  BY <2>3, <2>4
<1> HIDE DEF cp
<1>6. /\ seen' \in [ChannelIds -> SUBSET (1..posted)]
      /\ \A c \in ChannelIds : \A m \in seen'[c] : MessageOf[m].channel = c
  BY <1>1 DEF BackfillInv, BackfillTypeOK, ServerInv
<1>7. CASE run' = NextChannel(run) /\ UNCHANGED checkpoints
  BY <1>1, <1>7, LeavingUnsaved
<1>8. CASE run' = NextChannel(run) /\ UpsertCheckpoint(cp)
  <2>1. checkpoints' = [checkpoints EXCEPT ![Channel] = cp]  BY <1>8 DEF UpsertCheckpoint
  <2> QED  BY <1>1, <1>3, <1>4, <1>5, <1>6, <1>8, <2>1, LeavingSaved
<1>9. CASE /\ ~Done /\ UpsertCheckpoint(cp)
           /\ run' = [run EXCEPT !.at = "fetch", !.checkpoint = cp, !.last = 0, !.full = FALSE]
  <2>1. checkpoints' = [checkpoints EXCEPT ![Channel] = cp]  BY <1>9 DEF UpsertCheckpoint
  <2>2. /\ checkpoints' \in [ChannelIds -> Checkpoint] /\ SavedInv'
        /\ \A c \in ChannelIds : checkpoints'[c].since <= run.since
    BY <1>1, <1>3, <1>4, <1>5, <1>6, <2>1, Saved
  <2>3. /\ run' \in Run /\ run'.at = "fetch" /\ run'.page = <<>> /\ run'.since = run.since
        /\ run'.channels = run.channels /\ run'.checkpoint = cp /\ run'.stats = run.stats
    <3>1. 0 \in 0..LastId /\ FALSE \in BOOLEAN  BY BackfillConstants
    <3> QED  BY <1>1, <1>2, <1>3, <1>9, <3>1 DEF Run
  <2>4. Channel' = Channel /\ checkpoints'[Channel] = cp
    BY <1>2, <2>1, <2>3 DEF Channel
  <2>5. BackfillTypeOK'
    BY <1>1, <2>2, <2>3 DEF BackfillInv, BackfillTypeOK, server, At
  <2>6. ServerInv'  BY <1>1 DEF BackfillInv, ServerInv, server
  <2>7. CheckpointInv'
    BY <1>3, <1>9, <2>2, <2>3, <2>4 DEF CheckpointInv, InChannel, At
  <2>8. StatsInv'  BY <1>1, <1>3, <1>4, <2>3, <2>4 DEF StatsInv, At
  <2>9. PageInv' /\ CoverInv'  BY <2>3 DEF PageInv, CoverInv
  <2>10. TextInv'
    BY <1>1, <2>3 DEF BackfillInv, TextInv, StoredAsDiscordSays, server
  <2> QED  BY <2>2, <2>5, <2>6, <2>7, <2>8, <2>9, <2>10 DEF BackfillInv
<1> QED  BY <1>7, <1>8, <1>9 DEF SavePage, cp

----------------------------------------------------------------------------
(* The theorems *)

LEMMA BackfillStep ==
  BackfillInv /\ [Next]_vars => BackfillInv'
<1> SUFFICES ASSUME BackfillInv, [Next]_vars PROVE BackfillInv'
  OBVIOUS
<1>1. CASE UNCHANGED vars
  BY <1>1 DEF vars, BackfillInv, BackfillTypeOK, ServerInv, CheckpointInv, SavedInv, Sound,
     Covered, StatsInv, PageInv, CoverInv, TextInv, StoredAsDiscordSays, InChannel, Channel,
     InHand, At
<1>2. CASE Import
  BY <1>2, SeedStep, LoadStep, FetchPageStep, FetchNothingStep, FetchFailsStep, HandleStep,
     RecordStep, SaveStep DEF Import
<1> QED
  BY <1>1, <1>2, UsersKeepInv, StartStep DEF Next

(***************************************************************************)
(* The invariant of the import, for every reachable state.                 *)
(***************************************************************************)
THEOREM BackfillInvariance == Spec => []BackfillInv
BY InitBackfillInv, BackfillStep, PTL DEF Spec

(***************************************************************************)
(* Every variable has its type (the import's locals, the checkpoints, the  *)
(* stored rows).                                                           *)
(***************************************************************************)
THEOREM BackfillTypeCorrect == Spec => []BackfillTypeOK
<1>1. BackfillInv => BackfillTypeOK  BY DEF BackfillInv
<1> QED  BY <1>1, BackfillInvariance, PTL

(***************************************************************************)
(* A channel marked completed has every usable message of its window that  *)
(* existed when its import was begun, whatever failed in between           *)
(* (backfillChannelHistory).                                               *)
(***************************************************************************)
THEOREM CompletedChannels == Spec => []CompletedIsComplete
<1>1. BackfillInv => CompletedIsComplete
  BY DEF BackfillInv, SavedInv, Sound, Covered, CompletedIsComplete
<1> QED  BY <1>1, BackfillInvariance, PTL

(***************************************************************************)
(* Saved counters add up and claim no row that was not inserted, pages     *)
(* repeated after a crash included (HistoryBackfillStats).                 *)
(***************************************************************************)
THEOREM CountersCorrect == Spec => []CountersAddUp
<1>1. BackfillInv => CountersAddUp
  BY DEF BackfillInv, SavedInv, Sound, Adding, CountersAddUp
<1> QED  BY <1>1, BackfillInvariance, PTL

(***************************************************************************)
(* The import brings back no text and no message that Discord has changed  *)
(* or deleted meanwhile (RecordRawDiscordMessageAt).                       *)
(***************************************************************************)
THEOREM TextsUpToDate == Spec => []StoredAsDiscordSays
<1>1. BackfillInv => StoredAsDiscordSays  BY DEF BackfillInv, TextInv
<1> QED  BY <1>1, BackfillInvariance, PTL

----------------------------------------------------------------------------
(* Lemmas about positions, and about lists of tokens and the runes they hold *)

LEMMA NatMinimum ==
  ASSUME NEW T, T \subseteq Nat, T # {}
  PROVE  \E m \in T : \A n \in T : m <= n
<1>1. PICK m \in T : \A n \in T : <<n, m>> \notin OpToRel(<, Nat)
  BY NatLessThanWellFounded, WFMin
<1>2. \A x, y \in Nat : <<y, x>> \in OpToRel(<, Nat) <=> y < x  BY DEF OpToRel
<1>3. ASSUME NEW n \in T  PROVE m <= n
  <2>1. m \in Nat /\ n \in Nat  OBVIOUS
  <2>2. ~(n < m)  BY <1>1, <1>2, <2>1
  <2> QED  BY <2>1, <2>2
<1> QED  BY <1>3

\* Of a finite set with more than one element, two differ.
LEMMA TwoOfMany ==
  ASSUME NEW D, NEW H \in SUBSET D, IsFiniteSet(D)
  PROVE  /\ Cardinality(H) \in Nat
         /\ Cardinality(H) > 1 => \E i, j \in H : i # j
         /\ H # {} => Cardinality(H) # 0
<1>1. IsFiniteSet(H)  BY FS_Subset
<1>2. Cardinality(H) \in Nat /\ (H # {} => Cardinality(H) # 0)
  BY <1>1, FS_CardinalityType, FS_EmptySet
<1>3. ASSUME \A i, j \in H : i = j  PROVE  Cardinality(H) <= 1
  <2>1. CASE H = {}  BY <2>1, FS_EmptySet
  <2>2. CASE H # {}
    <3>1. PICK i \in H : TRUE  BY <2>2
    <3>2. H = {i}  BY <1>3, <3>1
    <3> QED  BY <3>2, FS_Singleton
  <2> QED  BY <2>1, <2>2
<1> QED  BY <1>2, <1>3

\* Whether a token of the list holds rune k, whether two do, and where the tokens end.
Held(list, k) == \E i \in DOMAIN list : Within(list[i], k)
Twice(list, k) == \E i, j \in DOMAIN list : i # j /\ Within(list[i], k) /\ Within(list[j], k)
EndBy(list, p) == \A i \in DOMAIN list : list[i].to <= p

LEMMA Appended ==
  ASSUME NEW T, NEW list \in Seq(T), NEW t \in T
  PROVE  /\ Append(list, t) \in Seq(T) /\ Append(list, t) = list \o <<t>>
         /\ Append(list, t) # <<>>
         /\ Len(list) + 1 \notin DOMAIN list
         /\ DOMAIN Append(list, t) = DOMAIN list \cup {Len(list) + 1}
         /\ Append(list, t)[Len(list) + 1] = t
         /\ \A i \in DOMAIN list : Append(list, t)[i] = list[i]
<1>1. PICK new : new = Append(list, t)  OBVIOUS
<1>2. /\ new \in Seq(T) /\ Len(new) = Len(list) + 1 /\ Len(list) \in Nat
      /\ \A i \in 1 .. Len(list) : new[i] = list[i]
      /\ new[Len(list) + 1] = t /\ new = list \o <<t>>
  BY <1>1
<1>3. DOMAIN list = 1 .. Len(list) /\ DOMAIN new = 1 .. Len(new) /\ new # <<>>
  BY <1>2
<1>4. /\ Len(list) + 1 \notin DOMAIN list
      /\ DOMAIN new = DOMAIN list \cup {Len(list) + 1}
      /\ \A i \in DOMAIN list : new[i] = list[i]
  BY <1>2, <1>3
<1> QED  BY <1>1, <1>2, <1>3, <1>4

LEMMA AppendedHolds ==
  ASSUME NEW T, NEW list \in Seq(T), NEW t \in T
  PROVE  /\ \A k : Held(Append(list, t), k) <=> Held(list, k) \/ Within(t, k)
         /\ \A k : Twice(Append(list, t), k) => Twice(list, k) \/ (Held(list, k) /\ Within(t, k))
         /\ \A p : EndBy(Append(list, t), p) <=> EndBy(list, p) /\ t.to <= p
<1> DEFINE new == Append(list, t)
           last == Len(list) + 1
<1>1. /\ last \notin DOMAIN list /\ DOMAIN new = DOMAIN list \cup {last}
      /\ new[last] = t /\ \A i \in DOMAIN list : new[i] = list[i]
  BY Appended
<1> HIDE DEF new, last
<1>2. \A k : Held(new, k) <=> Held(list, k) \/ Within(t, k)  BY <1>1 DEF Held
<1>3. \A k : Twice(new, k) => Twice(list, k) \/ (Held(list, k) /\ Within(t, k))
  BY <1>1 DEF Held, Twice
<1>4. \A p : EndBy(new, p) <=> EndBy(list, p) /\ t.to <= p  BY <1>1 DEF EndBy
<1> QED  BY <1>2, <1>3, <1>4 DEF new

LEMMA HeldBefore ==
  ASSUME NEW list, NEW p \in Int, EndBy(list, p),
         \A i \in DOMAIN list : list[i].from \in Int /\ list[i].to \in Int
  PROVE  \A k \in Int : Held(list, k) => k < p
BY DEF Held, EndBy, Within

----------------------------------------------------------------------------
(* Lemmas about lists of tokens that are put together *)

Ordered(list) == \A i, j \in DOMAIN list : i < j => list[i].to <= list[j].from
BeginAt(list, p) == \A i \in DOMAIN list : p <= list[i].from

LEMMA Joined ==
  ASSUME NEW T, NEW a \in Seq(T), NEW b \in Seq(T)
  PROVE  /\ a \o b \in Seq(T) /\ Len(a) \in Nat /\ Len(b) \in Nat
         /\ DOMAIN a = 1 .. Len(a) /\ DOMAIN b = 1 .. Len(b)
         /\ DOMAIN (a \o b) = 1 .. Len(a) + Len(b)
         /\ \A i \in 1 .. Len(a) : (a \o b)[i] = a[i]
         /\ \A i \in 1 .. Len(b) : (a \o b)[Len(a) + i] = b[i]
         /\ \A i \in 1 .. Len(a) + Len(b) :
              i \in 1 .. Len(a) \/ (i - Len(a) \in 1 .. Len(b) /\ (a \o b)[i] = b[i - Len(a)])
<1>1. PICK c : c = a \o b  OBVIOUS
<1>2. /\ c \in Seq(T) /\ Len(a) \in Nat /\ Len(b) \in Nat /\ Len(c) = Len(a) + Len(b)
      /\ DOMAIN a = 1 .. Len(a) /\ DOMAIN b = 1 .. Len(b)
  BY <1>1
<1>3. DOMAIN c = 1 .. Len(a) + Len(b)  BY <1>2
<1>4. \A i \in 1 .. Len(a) : c[i] = a[i]  BY <1>1
<1>5. \A i \in 1 .. Len(a) + Len(b) : i > Len(a) => c[i] = b[i - Len(a)]  BY <1>1
<1>6. PICK m \in Nat, n \in Nat : m = Len(a) /\ n = Len(b)  BY <1>2
<1>7. \A i \in 1 .. n : c[m + i] = b[i]
  <2> SUFFICES ASSUME NEW i \in 1 .. n  PROVE c[m + i] = b[i]
    OBVIOUS
  <2>1. m + i \in 1 .. m + n /\ m + i > m /\ (m + i) - m = i  BY <1>6
  <2> QED  BY <1>5, <1>6, <2>1
<1>8. \A i \in 1 .. m + n : i \in 1 .. m \/ (i - m \in 1 .. n /\ c[i] = b[i - m])
  <2> SUFFICES ASSUME NEW i \in 1 .. m + n, i \notin 1 .. m
               PROVE  i - m \in 1 .. n /\ c[i] = b[i - m]
    OBVIOUS
  <2>1. i > m /\ i - m \in 1 .. n  BY <1>6
  <2> QED  BY <1>5, <1>6, <2>1
<1> QED  BY <1>1, <1>2, <1>3, <1>4, <1>6, <1>7, <1>8

LEMMA JoinedHolds ==
  ASSUME NEW T, NEW a \in Seq(T), NEW b \in Seq(T)
  PROVE  /\ a \o b \in Seq(T)
         /\ \A k : Held(a \o b, k) <=> Held(a, k) \/ Held(b, k)
         /\ \A k : Twice(a \o b, k) => \/ Twice(a, k) \/ Twice(b, k)
                                       \/ Held(a, k) /\ Held(b, k)
         /\ \A p : EndBy(a \o b, p) <=> EndBy(a, p) /\ EndBy(b, p)
         /\ \A p : BeginAt(a \o b, p) <=> BeginAt(a, p) /\ BeginAt(b, p)
<1>1. PICK c, m, n : c = a \o b /\ m = Len(a) /\ n = Len(b)  OBVIOUS
<1>2. /\ c \in Seq(T) /\ m \in Nat /\ n \in Nat /\ DOMAIN a = 1 .. m /\ DOMAIN b = 1 .. n
      /\ DOMAIN c = 1 .. m + n
      /\ \A i \in 1 .. m : c[i] = a[i]
      /\ \A i \in 1 .. n : c[m + i] = b[i]
      /\ \A i \in 1 .. m + n : i \in 1 .. m \/ (i - m \in 1 .. n /\ c[i] = b[i - m])
  BY <1>1, Joined
<1>3. \A i \in DOMAIN c : \/ i \in DOMAIN a /\ c[i] = a[i]
                          \/ i - m \in DOMAIN b /\ c[i] = b[i - m]
  BY <1>2
<1>4. \A i \in DOMAIN a : i \in DOMAIN c /\ c[i] = a[i]  BY <1>2
<1>5. \A i \in DOMAIN b : m + i \in DOMAIN c /\ c[m + i] = b[i]  BY <1>2
<1>6. \A i, j \in DOMAIN c : i # j => i - m # j - m  BY <1>2
<1> HIDE <1>2
<1>7. \A k : Held(c, k) <=> Held(a, k) \/ Held(b, k)
  BY <1>3, <1>4, <1>5 DEF Held
<1>8. \A k : Twice(c, k) => Twice(a, k) \/ Twice(b, k) \/ (Held(a, k) /\ Held(b, k))
  BY <1>3, <1>6 DEF Held, Twice
<1>9. \A p : EndBy(c, p) <=> EndBy(a, p) /\ EndBy(b, p)  BY <1>3, <1>4, <1>5 DEF EndBy
<1>10. \A p : BeginAt(c, p) <=> BeginAt(a, p) /\ BeginAt(b, p)
  BY <1>3, <1>4, <1>5 DEF BeginAt
<1> QED  BY <1>1, <1>2, <1>7, <1>8, <1>9, <1>10

\* Lists in order, one before and one after a position.
LEMMA JoinedOrder ==
  ASSUME NEW T, NEW a \in Seq(T), NEW b \in Seq(T), NEW p \in Int,
         \A t \in T : t.from \in Int /\ t.to \in Int,
         Ordered(a), Ordered(b), EndBy(a, p), BeginAt(b, p)
  PROVE  Ordered(a \o b)
<1>1. PICK c, m, n : c = a \o b /\ m = Len(a) /\ n = Len(b)  OBVIOUS
<1>2. /\ c \in Seq(T) /\ m \in Nat /\ n \in Nat /\ DOMAIN a = 1 .. m /\ DOMAIN b = 1 .. n
      /\ DOMAIN c = 1 .. m + n
      /\ \A i \in 1 .. m : c[i] = a[i]
      /\ \A i \in 1 .. m + n : i \in 1 .. m \/ (i - m \in 1 .. n /\ c[i] = b[i - m])
  BY <1>1, Joined
<1> SUFFICES ASSUME NEW i \in 1 .. m + n, NEW j \in 1 .. m + n, i < j
             PROVE  c[i].to <= c[j].from
  BY <1>1, <1>2 DEF Ordered
<1>3. CASE i \in 1 .. m /\ j \in 1 .. m  BY <1>2, <1>3 DEF Ordered
<1>4. CASE i \notin 1 .. m
  <2>1. i - m \in 1 .. n /\ j - m \in 1 .. n /\ i - m < j - m
    BY <1>2, <1>4
  <2>2. j \notin 1 .. m  BY <1>2, <1>4
  <2>3. c[i] = b[i - m] /\ c[j] = b[j - m]  BY <1>2, <1>4, <2>2
  <2> QED  BY <1>2, <2>1, <2>3 DEF Ordered
<1>5. CASE i \in 1 .. m /\ j \notin 1 .. m
  <2>1. j - m \in 1 .. n /\ c[j] = b[j - m] /\ c[i] = a[i]  BY <1>2, <1>5
  <2>2. a[i].to <= p /\ p <= b[j - m].from  BY <1>2, <1>5, <2>1 DEF EndBy, BeginAt
  <2>3. a[i].to \in Int /\ b[j - m].from \in Int  BY <1>2, <1>5, <2>1
  <2> QED  BY <2>1, <2>2, <2>3
<1> QED  BY <1>3, <1>4, <1>5

LEMMA OneHolds ==
  ASSUME NEW t
  PROVE  /\ \A k : Held(<<t>>, k) <=> Within(t, k)
         /\ \A k : ~Twice(<<t>>, k)
         /\ \A p : EndBy(<<t>>, p) <=> t.to <= p
         /\ \A p : BeginAt(<<t>>, p) <=> p <= t.from
         /\ Ordered(<<t>>)
<1>1. DOMAIN <<t>> = {1} /\ <<t>>[1] = t  OBVIOUS
<1>2. PICK list : list = <<t>>  OBVIOUS
<1>3. DOMAIN list = {1} /\ list[1] = t  BY <1>1, <1>2
<1>4. Ordered(list)  BY <1>3 DEF Ordered
<1>5. /\ \A k : Held(list, k) <=> Within(t, k)
      /\ \A k : ~Twice(list, k)
      /\ \A p : EndBy(list, p) <=> t.to <= p
      /\ \A p : BeginAt(list, p) <=> p <= t.from
  BY <1>3 DEF Held, Twice, EndBy, BeginAt
<1> QED  BY <1>2, <1>4, <1>5

LEMMA NoneHolds ==
  /\ \A k : ~Held(<<>>, k) /\ ~Twice(<<>>, k)
  /\ \A p : EndBy(<<>>, p) /\ BeginAt(<<>>, p)
  /\ Ordered(<<>>)
<1>1. DOMAIN <<>> = {}  OBVIOUS
<1> QED  BY <1>1 DEF Held, Twice, EndBy, BeginAt, Ordered

\* Of two numbers in a set the larger has the higher rank.
LEMMA RankRises ==
  ASSUME NEW L \in Nat, NEW S \in SUBSET (1..L), NEW g \in S, NEW h \in S, g < h
  PROVE  Rank(S, g) \in Nat /\ Rank(S, h) \in Nat /\ Rank(S, g) < Rank(S, h)
<1> DEFINE G == {k \in S : k <= g}
           H == {k \in S : k <= h}
<1>1. IsFiniteSet(1..L)  BY FS_Interval
<1>2. g \in Nat /\ h \in Nat /\ \A k \in S : k \in Nat  OBVIOUS
<1>3. H \in SUBSET (1..L) /\ G \in SUBSET H /\ h \in H /\ h \notin G
  <2>1. \A k \in S : k <= g => k <= h  BY <1>2
  <2>2. h <= h /\ ~(h <= g)  BY <1>2
  <2> QED  BY <2>1, <2>2
<1>4. IsFiniteSet(H)  BY <1>1, <1>3, FS_Subset
<1>5. IsFiniteSet(G) /\ Cardinality(G) <= Cardinality(H) /\ Cardinality(G) # Cardinality(H)
  BY <1>3, <1>4, FS_Subset
<1>6. Cardinality(G) \in Nat /\ Cardinality(H) \in Nat  BY <1>4, <1>5, FS_CardinalityType
<1>7. Rank(S, g) = Cardinality(G) /\ Rank(S, h) = Cardinality(H)  BY DEF Rank
<1> QED  BY <1>5, <1>6, <1>7

\* So the one of a rank is the only one.
LEMMA NthIs ==
  ASSUME NEW L \in Nat, NEW S \in SUBSET (1..L), NEW h \in S
  PROVE  Nth(S, Rank(S, h)) = h
<1> DEFINE g == Nth(S, Rank(S, h))
<1>1. g \in S /\ Rank(S, g) = Rank(S, h)  BY DEF Nth
<1> HIDE DEF g
<1>2. ~(g < h) /\ ~(h < g)
  <2>1. ASSUME g < h PROVE FALSE
    <3>1. Rank(S, g) \in Nat /\ Rank(S, g) < Rank(S, h)  BY <1>1, <2>1, RankRises
    <3> QED  BY <1>1, <3>1
  <2>2. ASSUME h < g PROVE FALSE
    <3>1. Rank(S, h) \in Nat /\ Rank(S, h) < Rank(S, g)  BY <1>1, <2>2, RankRises
    <3> QED  BY <1>1, <3>1
  <2> QED  BY <2>1, <2>2
<1>3. g \in Nat /\ h \in Nat  BY <1>1
<1>4. g = h  BY <1>2, <1>3
<1> QED  BY <1>4 DEF g

\* The ranks of a set's numbers are all the numbers up to its cardinality.
LEMMA RanksCount ==
  ASSUME NEW L \in Nat, NEW S \in SUBSET (1..L)
  PROVE  /\ Cardinality(S) \in Nat
         /\ \A h \in S : Rank(S, h) \in 1..Cardinality(S)
         /\ \A n \in 1..Cardinality(S) : Nth(S, n) \in S /\ Rank(S, Nth(S, n)) = n
<1> DEFINE N == Cardinality(S)
           f == [h \in S |-> Rank(S, h)]
<1>1. IsFiniteSet(1..L)  BY FS_Interval
<1>2. IsFiniteSet(S) /\ N \in Nat  BY <1>1, FS_Subset, FS_CardinalityType
<1>3. ASSUME NEW h \in S  PROVE Rank(S, h) \in 1..N
  <2> DEFINE G == {k \in S : k <= h}
  <2>1. G \in SUBSET S /\ h \in G  OBVIOUS
  <2>2. IsFiniteSet(G) /\ Cardinality(G) <= N /\ Cardinality(G) \in Nat
    BY <1>2, <2>1, FS_Subset, FS_CardinalityType
  <2>3. Cardinality(G) # 0  BY <2>1, <2>2, FS_EmptySet
  <2> QED  BY <1>2, <2>2, <2>3 DEF Rank
<1>4. f \in Injection(S, 1..N)
  <2>1. f \in [S -> 1..N]  BY <1>3
  <2>2. ASSUME NEW g \in S, NEW h \in S, f[g] = f[h]  PROVE g = h
    <3>1. Nth(S, Rank(S, g)) = g /\ Nth(S, Rank(S, h)) = h  BY NthIs
    <3> QED  BY <2>2, <3>1
  <2> QED  BY <2>1, <2>2 DEF Injection, IsInjective
<1>5. IsFiniteSet(1..N) /\ Cardinality(1..N) = N  BY <1>2, FS_Interval
<1>6. f \in Surjection(S, 1..N)  BY <1>4, <1>5, FS_Injection
<1>7. ASSUME NEW n \in 1..N  PROVE Nth(S, n) \in S /\ Rank(S, Nth(S, n)) = n
  <2>1. PICK h \in S : f[h] = n  BY <1>6 DEF Surjection
  <2> QED  BY <2>1 DEF Nth
<1> QED  BY <1>2, <1>3, <1>7

----------------------------------------------------------------------------
(* DiscordText: the inductive invariant *)

\* The prover does not know that the signs are strings.
Characters == STRING \cup {"@", "&", "#"}

PieceTokens ==
  {t \in [type : {"word", "user", "role", "channel", "emoticon"}, from : Nat, to : Nat,
          name : Seq(Characters)] : t.type \in {"word", "emoticon"} => t.name # <<>>}

ReadTypeOK ==
  /\ raw \in Seq(Characters) /\ contents \in Seq(Characters) /\ found \in Seq(PieceTokens)
  /\ from \in Nat /\ to \in Nat /\ place \in Nat /\ start \in Nat /\ inBracket \in BOOLEAN

\* The positions in the piece that is parsed, which has no space.
PlaceInv ==
  /\ from <= start /\ start <= place /\ start <= to /\ place <= to + 1 /\ to <= Len(raw)
  /\ from = to => place = from
  /\ from < to /\ place <= to => start < to
  /\ \A k \in from .. to - 1 : Rune(k) # "space"

\* The runes up to here are seen to: each is in a token or before a closing bracket.
Frontier == IF place > to THEN to ELSE start
SeenTo(k) == Held(found, k) \/ Before(k, ">")

PiecesInv ==
  reading = "pieces" =>
    /\ PlaceInv /\ contents = <<>>
    /\ EndBy(found, Frontier)
    /\ \A k \in 0 .. Frontier - 1 : SeenTo(k)

\* Until the first token is written out, all that was found is there.
FoundInv ==
  reading \in {"pieces", "names"} /\ contents = <<>> =>
    /\ \A k \in Nat : Twice(found, k) => Before(k, "<")
    /\ reading = "names" => \A k \in 0 .. Len(raw) - 1 : SeenTo(k)

ReadInv == ReadTypeOK /\ PiecesInv /\ FoundInv

----------------------------------------------------------------------------
(* Lemmas about runes and pieces *)

LEMMA TextsTyped ==
  /\ Messages \subseteq Seq(Characters)
  /\ (UserNames \cup RoleNames \cup ChannelNames) \ {Unknown} \subseteq Seq(Characters)
  /\ Texts \subseteq Seq(Characters)
<1>1. \A s : s \in Seq(STRING) => s \in Seq(Characters)
  <2> SUFFICES ASSUME NEW s \in Seq(STRING)  PROVE s \in Seq(Characters)
    OBVIOUS
  <2>1. s = [i \in 1 .. Len(s) |-> s[i]] /\ Len(s) \in Nat  OBVIOUS
  <2>2. \A i \in 1 .. Len(s) : s[i] \in Characters  BY DEF Characters
  <2> QED  BY <2>1, <2>2
<1> QED  BY <1>1, TextConstants, TokenizerConstants

LEMMA RuneFound ==
  ASSUME raw \in Seq(Characters), NEW k \in Nat, NEW end \in Nat, NEW set
  PROVE  LET p == FindRune(k, end, set) IN
         \/ p = Nothing /\ \A j \in k .. end - 1 : Rune(j) \notin set
         \/ p \in k .. end - 1 /\ Rune(p) \in set /\ \A j \in k .. p - 1 : Rune(j) \notin set
<1> DEFINE there == {j \in k .. end - 1 : Rune(j) \in set}
<1>1. CASE there = {}  BY <1>1 DEF FindRune
<1>2. CASE there # {}
  <2>1. there \subseteq Nat  OBVIOUS
  <2>2. \E j \in there : \A i \in there : j <= i
    <3> HIDE DEF there
    <3> QED  BY <1>2, <2>1, NatMinimum
  <2>3. PICK p : p = FindRune(k, end, set)  OBVIOUS
  <2>4. p \in there /\ \A i \in there : p <= i
    <3>1. p = CHOOSE j \in there : \A i \in there : j <= i  BY <1>2, <2>3 DEF FindRune
    <3> HIDE DEF there
    <3> QED  BY <2>2, <3>1
  <2>5. p \in k .. end - 1 /\ Rune(p) \in set  BY <2>4
  <2>6. \A j \in k .. p - 1 : Rune(j) \notin set  BY <2>4, <2>5
  <2> QED  BY <2>3, <2>5, <2>6
<1> QED  BY <1>1, <1>2

\* A piece ends before the next space, or with the text.
LEMMA PieceEnds ==
  ASSUME raw \in Seq(Characters), NEW k \in 0 .. Len(raw)
  PROVE  PieceEnd(k) \in k .. Len(raw) /\ \A j \in k .. PieceEnd(k) - 1 : Rune(j) # "space"
<1>1. Len(raw) \in Nat  OBVIOUS
<1>2. k \in Nat  BY <1>1
<1>3. PICK p : p = FindRune(k, Len(raw), {"space"})  OBVIOUS
<1>4. CASE p = Nothing /\ \A j \in k .. Len(raw) - 1 : Rune(j) \notin {"space"}
  BY <1>1, <1>2, <1>3, <1>4 DEF PieceEnd
<1>5. CASE p \in k .. Len(raw) - 1 /\ \A j \in k .. p - 1 : Rune(j) \notin {"space"}
  BY <1>1, <1>2, <1>3, <1>5 DEF PieceEnd, Nothing
<1> QED  BY <1>1, <1>2, <1>3, <1>4, <1>5, RuneFound

\* What is before a bracket in its piece.
LEMMA InPieceBefore ==
  ASSUME ReadTypeOK, PlaceInv, place < to, NEW rune, Rune(place) = rune,
         NEW k \in from .. place
  PROVE  Before(k, rune)
<1>1. place \in Nat /\ to \in Nat /\ from \in Nat /\ Len(raw) \in Nat  BY DEF ReadTypeOK
<1>2. place \in k .. Len(raw) - 1  BY <1>1 DEF PlaceInv
<1>3. \A i \in k .. place : Rune(i) # "space"  BY <1>1 DEF PlaceInv
<1> QED  BY <1>2, <1>3 DEF Before, InPiece

\* The text stays what it is while it is read.
LEMMA RawKept ==
  ASSUME raw' = raw
  PROVE  /\ \A k, rune : Before(k, rune)' <=> Before(k, rune)
         /\ \A k : Rune(k)' = Rune(k)
BY DEF Before, InPiece, Rune

\* The range of runes before b is no shorter than its start says.
LEMMA RunesTyped ==
  ASSUME raw \in Seq(Characters), NEW a \in Nat, NEW b \in 0 .. Len(raw)
  PROVE  Runes(a, b) \in Seq(Characters) /\ (a < b => Runes(a, b) # <<>>)
<1>1. Len(raw) \in Nat  OBVIOUS
<1>2. \A i \in a + 1 .. b : raw[i] \in Characters  BY <1>1
<1>3. /\ SubSeq(raw, a + 1, b) \in Seq(Characters)
      /\ Len(SubSeq(raw, a + 1, b)) = IF a + 1 <= b THEN b - (a + 1) + 1 ELSE 0
  <2>1. a + 1 \in Int /\ b \in Int  BY <1>1
  <2> QED  BY <1>2, <2>1, SubSeqProperties
<1>4. a < b => Len(SubSeq(raw, a + 1, b)) # 0  BY <1>1, <1>3
<1>5. PICK s : s = SubSeq(raw, a + 1, b)  OBVIOUS
<1>6. s \in Seq(Characters) /\ (a < b => s # <<>>)  BY <1>3, <1>4, <1>5
<1> QED  BY <1>5, <1>6 DEF Runes

----------------------------------------------------------------------------
(* DiscordText: the steps *)

LEMMA WordTokenTyped ==
  ASSUME raw \in Seq(Characters), NEW a \in Nat, NEW b \in 0 .. Len(raw), a < b
  PROVE  WordToken(a, b) \in PieceTokens /\ WordToken(a, b).from = a /\ WordToken(a, b).to = b
<1>1. Len(raw) \in Nat  OBVIOUS
<1>2. PICK name : name = Runes(a, b)  OBVIOUS
<1>3. name \in Seq(Characters) /\ name # <<>>  BY <1>2, RunesTyped
<1>4. b \in Nat  BY <1>1
<1> QED  BY <1>2, <1>3, <1>4 DEF WordToken, PieceToken, PieceTokens

\* Markup is one token, of the runes from the bracket on, or left out.
LEMMA MarkupTyped ==
  ASSUME raw \in Seq(Characters), start \in Nat, NEW end \in 1 .. Len(raw), ~Malformed(end)
  PROVE  \/ Markup(end) = <<>>
         \/ \E t \in PieceTokens : Markup(end) = <<t>> /\ t.from = start /\ t.to = end
<1>1. Len(raw) \in Nat /\ end \in Nat /\ end - 1 \in 0 .. Len(raw)
  <2>1. Len(raw) \in Nat  OBVIOUS
  <2> QED  BY <2>1
<1> DEFINE after == IF Rune(start + 2) \in {"!", "&"} THEN start + 3 ELSE start + 2
           type == IF Rune(start + 2) = "&" THEN "role" ELSE "user"
           colon == FindRune(start + 2, end, {":"})
<1>2. CASE Rune(start + 1) = "@"
  <2>1. PICK name : name = Runes(after, end - 1)  OBVIOUS
  <2>2. after \in Nat  OBVIOUS
  <2>3. name \in Seq(Characters)
    <3> HIDE DEF after
    <3> QED  BY <1>1, <2>1, <2>2, RunesTyped
  <2>4. Markup(end) = <<PieceToken(type, start, end, name)>>  BY <1>2, <2>1 DEF Markup
  <2>5. PieceToken(type, start, end, name) \in PieceTokens
    BY <1>1, <2>3 DEF PieceToken, PieceTokens
  <2> QED  BY <2>4, <2>5 DEF PieceToken
<1>3. CASE Rune(start + 1) = "#"
  <2>1. PICK name : name = Runes(start + 2, end - 1)  OBVIOUS
  <2>2. name \in Seq(Characters)  BY <1>1, <2>1, RunesTyped
  <2>3. Markup(end) = <<PieceToken("channel", start, end, name)>>  BY <1>3, <2>1 DEF Markup
  <2>4. PieceToken("channel", start, end, name) \in PieceTokens
    BY <1>1, <2>2 DEF PieceToken, PieceTokens
  <2> QED  BY <2>3, <2>4 DEF PieceToken
<1>4. CASE Rune(start + 1) = ":"
  <2>1. colon \in start + 2 .. end - 1
    <3>1. colon # Nothing  BY <1>4 DEF Malformed
    <3>2. start + 2 \in Nat  OBVIOUS
    <3> QED  BY <1>1, <3>1, <3>2, RuneFound
  <2>2. PICK name : name = Runes(start + 1, colon + 1)  OBVIOUS
  <2>3. name \in Seq(Characters) /\ name # <<>>
    <3>1. PICK c : c = colon  OBVIOUS
    <3>2. c + 1 \in 0 .. Len(raw) /\ start + 1 < c + 1  BY <1>1, <2>1, <3>1
    <3> HIDE DEF colon
    <3> QED  BY <2>2, <3>1, <3>2, RunesTyped
  <2>4. Markup(end) = <<PieceToken("emoticon", start, end, name)>>  BY <1>4, <2>2 DEF Markup
  <2>5. PieceToken("emoticon", start, end, name) \in PieceTokens
    BY <1>1, <2>3 DEF PieceToken, PieceTokens
  <2> QED  BY <2>4, <2>5 DEF PieceToken
<1>5. CASE Rune(start + 1) \notin {"@", "#", ":"}  BY <1>5 DEF Markup
<1> QED  BY <1>2, <1>3, <1>4, <1>5

Reads == /\ reading = "pieces" /\ reading' = "pieces" /\ UNCHANGED <<raw, contents>>
         /\ from' \in Nat /\ to' \in Nat /\ place' \in Nat /\ start' \in Nat
         /\ inBracket' \in BOOLEAN /\ PlaceInv'

\* The frontier moves on over runes before a closing bracket.
LEMMA NothingFound ==
  ASSUME ReadInv, Reads, found' = found, Frontier <= Frontier',
         \A k \in Frontier .. Frontier' - 1 : Before(k, ">")
  PROVE  ReadInv'
<1>1. ReadTypeOK'  BY DEF ReadInv, ReadTypeOK, Reads
<1>2. Frontier \in Nat /\ Frontier' \in Nat  BY <1>1 DEF ReadInv, ReadTypeOK, Frontier
<1>3. \A k, rune : Before(k, rune)' <=> Before(k, rune)  BY RawKept DEF Reads
<1>4. PICK f, g : f = Frontier /\ g = Frontier'  OBVIOUS
<1>5. EndBy(found, g)
  <2>1. PICK old \in Seq(PieceTokens) : old = found  BY DEF ReadInv, ReadTypeOK
  <2>2. \A i \in DOMAIN old : old[i].to \in Nat  BY <2>1 DEF PieceTokens
  <2>3. EndBy(old, f)  BY <1>4, <2>1 DEF ReadInv, PiecesInv, Reads
  <2> QED  BY <1>2, <1>4, <2>1, <2>2, <2>3 DEF EndBy
<1>6. \A k \in 0 .. g - 1 : SeenTo(k)
  <2> SUFFICES ASSUME NEW k \in 0 .. g - 1  PROVE SeenTo(k)
    OBVIOUS
  <2>1. f \in Nat /\ g \in Nat /\ k \in Int  BY <1>2, <1>4
  <2>2. CASE k < f
    <3>1. k \in 0 .. f - 1  BY <2>1, <2>2
    <3> QED  BY <1>4, <3>1 DEF ReadInv, PiecesInv, Reads
  <2>3. CASE f <= k
    <3>1. k \in f .. g - 1  BY <2>1, <2>3
    <3> QED  BY <1>4, <3>1 DEF SeenTo
  <2> QED  BY <2>1, <2>2, <2>3
<1>7. PiecesInv'
  BY <1>3, <1>4, <1>5, <1>6 DEF ReadInv, PiecesInv, Reads, SeenTo
<1>8. FoundInv'  BY <1>3 DEF ReadInv, FoundInv, Reads
<1> QED  BY <1>1, <1>7, <1>8 DEF ReadInv

\* A token is found up to the new frontier; what it shares with others is before an opening bracket.
LEMMA TokenFound ==
  ASSUME ReadInv, Reads, NEW t \in PieceTokens, found' = Append(found, t),
         Frontier <= Frontier', t.to <= Frontier',
         \A k \in t.from .. t.to - 1 : Frontier <= k \/ Before(k, "<"),
         \A k \in Frontier .. Frontier' - 1 : k \in t.from .. t.to - 1 \/ Before(k, ">")
  PROVE  ReadInv'
<1>1. found \in Seq(PieceTokens)  BY DEF ReadInv, ReadTypeOK
<1>2. found' \in Seq(PieceTokens)  BY <1>1, Appended
<1>3. ReadTypeOK'  BY <1>2 DEF ReadInv, ReadTypeOK, Reads
<1>4. Frontier \in Nat /\ Frontier' \in Nat  BY <1>3 DEF ReadInv, ReadTypeOK, Frontier
<1>5. \A k, rune : Before(k, rune)' <=> Before(k, rune)  BY RawKept DEF Reads
<1>6. PICK f, g, old, new : f = Frontier /\ g = Frontier' /\ old = found /\ new = found'  OBVIOUS
<1>7. /\ \A k : Held(new, k) <=> Held(old, k) \/ Within(t, k)
      /\ \A k : Twice(new, k) => Twice(old, k) \/ (Held(old, k) /\ Within(t, k))
      /\ \A p : EndBy(new, p) <=> EndBy(old, p) /\ t.to <= p
  BY <1>1, <1>6, AppendedHolds
<1>8. EndBy(old, f) /\ contents = <<>>  BY <1>6 DEF ReadInv, PiecesInv, Reads
<1>9. \A i \in DOMAIN old : old[i].from \in Int /\ old[i].to \in Int
  BY <1>1, <1>6 DEF PieceTokens
<1>10. EndBy(new, g)
  <2>1. EndBy(old, g)  BY <1>4, <1>6, <1>8, <1>9 DEF EndBy
  <2> QED  BY <1>6, <1>7, <2>1
<1>11. \A k \in 0 .. g - 1 : Held(new, k) \/ Before(k, ">")
  <2> SUFFICES ASSUME NEW k \in 0 .. g - 1  PROVE Held(new, k) \/ Before(k, ">")
    OBVIOUS
  <2>1. f \in Nat /\ g \in Nat /\ k \in Int  BY <1>4, <1>6
  <2>2. CASE k < f
    <3>1. k \in 0 .. f - 1  BY <2>1, <2>2
    <3>2. SeenTo(k)  BY <1>6, <3>1 DEF ReadInv, PiecesInv, Reads
    <3> QED  BY <1>6, <1>7, <3>2 DEF SeenTo
  <2>3. CASE f <= k
    <3>1. k \in f .. g - 1  BY <2>1, <2>3
    <3>2. k \in t.from .. t.to - 1 \/ Before(k, ">")  BY <1>6, <3>1
    <3> QED  BY <1>7, <3>2 DEF Within
  <2> QED  BY <2>1, <2>2, <2>3
<1>12. \A k \in Nat : Twice(new, k) => Before(k, "<")
  <2> SUFFICES ASSUME NEW k \in Nat, Twice(new, k)  PROVE Before(k, "<")
    OBVIOUS
  <2>1. CASE Twice(old, k)  BY <1>6, <1>8, <2>1 DEF ReadInv, FoundInv, Reads
  <2>2. CASE Held(old, k) /\ Within(t, k)
    <3>1. k < f  BY <1>4, <1>6, <1>8, <1>9, <2>2, HeldBefore
    <3>2. ~(f <= k)  BY <1>4, <1>6, <3>1
    <3>3. k \in t.from .. t.to - 1  BY <2>2 DEF Within
    <3> QED  BY <1>6, <3>2, <3>3
  <2> QED  BY <1>7, <2>1, <2>2
<1>13. PiecesInv'  BY <1>5, <1>6, <1>8, <1>10, <1>11 DEF PiecesInv, Reads, SeenTo
<1>14. FoundInv'  BY <1>5, <1>6, <1>12 DEF FoundInv, Reads
<1> QED  BY <1>3, <1>13, <1>14 DEF ReadInv

\* What every step of parseDiscordPiece has to work with.
LEMMA Reading ==
  ASSUME ReadInv, reading = "pieces"
  PROVE  /\ raw \in Seq(Characters) /\ found \in Seq(PieceTokens) /\ Len(raw) \in Nat
         /\ from \in Nat /\ to \in Nat /\ place \in Nat /\ start \in Nat /\ inBracket \in BOOLEAN
         /\ from <= start /\ start <= place /\ start <= to /\ place <= to + 1 /\ to <= Len(raw)
         /\ from = to => place = from
         /\ from < to /\ place <= to => start < to
         /\ \A k \in from .. to - 1 : Rune(k) # "space"
         /\ PlaceInv /\ ReadTypeOK
BY DEF ReadInv, ReadTypeOK, PiecesInv, PlaceInv

\* A step within a piece keeps the piece.
LEMMA SamePiece ==
  ASSUME ReadInv, reading = "pieces", UNCHANGED <<raw, reading, from, to, contents>>,
         place' \in Nat, start' \in Nat, inBracket' \in BOOLEAN, place < place', from < to,
         from <= start', start' <= place', start' <= to, place' <= to + 1,
         place' <= to => start' < to
  PROVE  Reads
<1>1. \A k : Rune(k)' = Rune(k)  BY RawKept
<1> QED  BY <1>1, Reading DEF Reads, PlaceInv

LEMMA PieceDoneReads ==
  ASSUME ReadInv, PieceDone
  PROVE  ReadInv'
<1> USE Reading
<1>1. /\ reading = "pieces" /\ place = to /\ from < to /\ place' = place + 1 /\ start' = start
      /\ UNCHANGED <<raw, reading, from, to, contents, inBracket>>
      /\ found' = Append(found, WordToken(start, place))
  BY DEF PieceDone, ReadingPiece
<1>2. Reads  BY <1>1, SamePiece
<1>3. Frontier = start /\ Frontier' = to  BY <1>1 DEF Frontier
<1>4. PICK t : t = WordToken(start, place)  OBVIOUS
<1>5. t \in PieceTokens /\ t.from = start /\ t.to = to  BY <1>1, <1>4, WordTokenTyped
<1>6. found' = Append(found, t)  BY <1>1, <1>4
<1>7. \A k \in start .. to - 1 : start <= k  BY <1>1
<1> QED  BY <1>1, <1>2, <1>3, <1>5, <1>6, <1>7, TokenFound

LEMMA BracketOpensReads ==
  ASSUME ReadInv, BracketOpens
  PROVE  ReadInv'
<1> USE Reading
<1>1. /\ reading = "pieces" /\ place < to /\ Rune(place) = "<"
      /\ place' = place + 1 /\ start' = place /\ inBracket' = TRUE
      /\ UNCHANGED <<raw, reading, from, to, contents>>
  BY DEF BracketOpens, ReadingPiece
<1>2. Reads  BY <1>1, SamePiece
<1>3. Frontier = start /\ Frontier' = place  BY <1>1 DEF Frontier
<1>4. CASE place > from
  <2>1. PICK t : t = WordToken(from, place)  OBVIOUS
  <2>2. t \in PieceTokens /\ t.from = from /\ t.to = place
    BY <1>1, <1>4, <2>1, WordTokenTyped
  <2>3. found' = Append(found, t)  BY <1>4, <2>1, Appended DEF BracketOpens
  <2>4. \A k \in from .. place - 1 : Before(k, "<")
    <3>1. \A k \in from .. place - 1 : k \in from .. place  BY <1>1
    <3> QED  BY <1>1, <3>1, InPieceBefore
  <2>5. \A k \in start .. place - 1 : k \in from .. place - 1  BY <1>1
  <2> QED  BY <1>1, <1>2, <1>3, <2>2, <2>3, <2>4, <2>5, TokenFound
<1>5. CASE place = from
  <2>1. found' = found  BY <1>1, <1>5 DEF BracketOpens
  <2>2. start = place  BY <1>1, <1>5
  <2> QED  BY <1>1, <1>2, <1>3, <2>1, <2>2, NothingFound
<1> QED  BY <1>1, <1>4, <1>5

LEMMA BracketClosesReads ==
  ASSUME ReadInv, BracketCloses
  PROVE  ReadInv'
<1> USE Reading
<1>1. /\ reading = "pieces" /\ place < to /\ Rune(place) = ">"
      /\ place' = place + 2 /\ start' = place + 1 /\ inBracket' = FALSE
      /\ UNCHANGED <<raw, reading, from, to, contents>>
      /\ inBracket => ~Malformed(place + 1)
      /\ found' = IF inBracket THEN found \o Markup(place + 1) ELSE found
  BY DEF BracketCloses, AtClosing, ReadingPiece
<1>2. Reads
  <2>1. /\ place + 2 \in Nat /\ place + 1 \in Nat /\ FALSE \in BOOLEAN /\ place < place + 2
        /\ from < to /\ from <= place + 1 /\ place + 1 <= place + 2 /\ place + 1 <= to
        /\ place + 2 <= to + 1 /\ (place + 2 <= to => place + 1 < to)
    BY <1>1
  <2> QED  BY <1>1, <2>1, SamePiece
<1>3. Frontier = start /\ Frontier' = place + 1  BY <1>1 DEF Frontier
<1>4. \A k \in start .. place : Before(k, ">")
  <2>1. \A k \in start .. place : k \in from .. place  BY <1>1
  <2> QED  BY <1>1, <2>1, InPieceBefore
<1>5. start <= place + 1 /\ \A k \in start .. (place + 1) - 1 : Before(k, ">")  BY <1>1, <1>4
<1>6. CASE found' = found  BY <1>1, <1>2, <1>3, <1>5, <1>6, NothingFound
<1>7. CASE inBracket
  <2>1. place + 1 \in 1 .. Len(raw)  BY <1>1
  <2>2. PICK m : m = Markup(place + 1)  OBVIOUS
  <2>3. m = <<>> \/ \E t \in PieceTokens : m = <<t>> /\ t.from = start /\ t.to = place + 1
    BY <1>1, <1>7, <2>1, <2>2, MarkupTyped
  <2>4. found' = found \o m  BY <1>1, <1>7, <2>2
  <2>5. CASE m = <<>>
    <3>1. found' = found  BY <1>1, <2>4, <2>5
    <3> QED  BY <1>6, <3>1
  <2>6. CASE m # <<>>
    <3>1. PICK t \in PieceTokens : m = <<t>> /\ t.from = start /\ t.to = place + 1  BY <2>3, <2>6
    <3>2. found' = Append(found, t)  BY <1>1, <2>4, <3>1, Appended
    <3>3. \A k \in start .. (place + 1) - 1 : start <= k  BY <1>1
    <3> QED  BY <1>1, <1>2, <1>3, <1>5, <3>1, <3>2, <3>3, TokenFound
  <2> QED  BY <2>5, <2>6
<1> QED  BY <1>1, <1>6, <1>7

LEMMA PlainRuneReads ==
  ASSUME ReadInv, PlainRune
  PROVE  ReadInv'
<1> USE Reading
<1>1. /\ reading = "pieces" /\ place < to /\ place' = place + 1
      /\ UNCHANGED <<raw, reading, from, to, start, inBracket, found, contents>>
  BY DEF PlainRune, ReadingPiece
<1>2. Reads  BY <1>1, SamePiece
<1>3. Frontier = start /\ Frontier' = start  BY <1>1 DEF Frontier
<1> QED  BY <1>1, <1>2, <1>3, NothingFound

LEMMA NextPieceReads ==
  ASSUME ReadInv, NextPiece
  PROVE  ReadInv'
<1> USE Reading
<1>1. /\ reading = "pieces" /\ (place > to \/ from = to)
      /\ to < Len(raw) /\ found' = Append(found, WordToken(to, to + 1))
      /\ from' = to + 1 /\ to' = PieceEnd(to + 1) /\ place' = to + 1 /\ start' = to + 1
      /\ inBracket' = FALSE /\ UNCHANGED <<raw, reading, contents>>
  BY DEF NextPiece, PieceRead, Piece
<1>2. /\ to' \in to + 1 .. Len(raw)
      /\ \A k \in to + 1 .. to' - 1 : Rune(k) # "space"
  <2>1. to + 1 \in 0 .. Len(raw)  BY <1>1
  <2> QED  BY <1>1, <2>1, PieceEnds
<1>3. Reads
  <2>1. \A k : Rune(k)' = Rune(k)  BY <1>1, RawKept
  <2>2. \A k \in from' .. to' - 1 : Rune(k)' # "space"  BY <1>1, <1>2, <2>1
  <2>3. to' \in Nat /\ to' <= Len(raw) /\ to + 1 <= to'  BY <1>1, <1>2
  <2>4. PlaceInv'  BY <1>1, <2>2, <2>3 DEF PlaceInv
  <2>5. inBracket' \in BOOLEAN  BY <1>1, Zenon
  <2>6. from' \in Nat /\ place' \in Nat /\ start' \in Nat  BY <1>1
  <2>7. reading = "pieces" /\ reading' = "pieces" /\ UNCHANGED <<raw, contents>>  BY <1>1
  <2> QED  BY <2>3, <2>4, <2>5, <2>6, <2>7 DEF Reads
<1>4. Frontier = to /\ Frontier' = to + 1  BY <1>1, <1>2 DEF Frontier
<1>5. PICK t : t = WordToken(to, to + 1)  OBVIOUS
<1>6. t \in PieceTokens /\ t.from = to /\ t.to = to + 1
  <2>1. to + 1 \in 0 .. Len(raw) /\ to < to + 1  BY <1>1
  <2> QED  BY <1>1, <1>5, <2>1, WordTokenTyped
<1> QED  BY <1>1, <1>3, <1>4, <1>5, <1>6, TokenFound

LEMMA AllPiecesReads ==
  ASSUME ReadInv, AllPieces
  PROVE  ReadInv'
<1> USE Reading
<1>1. /\ reading = "pieces" /\ (place > to \/ from = to) /\ to = Len(raw) /\ reading' = "names"
      /\ UNCHANGED <<raw, from, to, place, start, inBracket, found, contents>>
  BY DEF AllPieces, PieceRead
<1>2. Frontier = Len(raw)  BY <1>1 DEF Frontier
<1>3. \A k, rune : Before(k, rune)' <=> Before(k, rune)  BY <1>1, RawKept
<1> QED  BY <1>1, <1>2, <1>3 DEF ReadInv, ReadTypeOK, PiecesInv, FoundInv, SeenTo

LEMMA Prefixed ==
  ASSUME NEW S, NEW x \in S, NEW y \in S, NEW rest \in Seq(S)
  PROVE  /\ <<x>> \o rest \in Seq(S) /\ <<x>> \o rest # <<>>
         /\ <<x, y>> \o rest \in Seq(S) /\ <<x, y>> \o rest # <<>>
OBVIOUS

\* A name that is written out is a sequence of runes, and not empty.
LEMMA WrittenTyped ==
  ASSUME NEW t \in PieceTokens, NEW name \in NamesFor(t)
  PROVE  Written(t, name) \in Seq(Characters) /\ Written(t, name) # <<>>
<1>1. t.name \in Seq(Characters) /\ (t.type \in {"word", "emoticon"} => t.name # <<>>)
  BY DEF PieceTokens
<1>2. CASE t.type \notin {"user", "role", "channel"}
  <2>1. t.type \in {"word", "emoticon"}  BY <1>2 DEF PieceTokens
  <2>2. Written(t, name) = t.name  BY <2>1 DEF Written
  <2> QED  BY <1>1, <2>1, <2>2
<1>3. CASE t.type \in {"user", "role", "channel"}
  <2>1. name = Unknown \/ name \in Seq(Characters)  BY <1>3, TextsTyped DEF NamesFor
  <2>2. PICK rest \in Seq(Characters) :
          /\ t.type = "user" => Written(t, name) = <<"@">> \o rest
          /\ t.type = "role" => Written(t, name) = <<"&">> \o rest
          /\ t.type = "channel" => Written(t, name) = <<"#", "@">> \o rest
    <3>1. CASE name = Unknown /\ t.type = "channel"
      <4>1. Written(t, name) = <<"#", "@">> \o <<>> /\ <<>> \in Seq(Characters)  BY <3>1 DEF Written
      <4> QED  BY <3>1, <4>1
    <3>2. CASE name = Unknown /\ t.type # "channel"
      BY <1>1, <1>3, <3>2 DEF Written, Named
    <3>3. CASE name # Unknown
      BY <1>3, <2>1, <3>3 DEF Written, Named
    <3> QED  BY <3>1, <3>2, <3>3
  <2>3. "@" \in Characters /\ "&" \in Characters /\ "#" \in Characters  BY DEF Characters
  <2> QED  BY <1>3, <2>2, <2>3, Prefixed
<1> QED  BY <1>2, <1>3

LEMMA WriteTokenReads ==
  ASSUME ReadInv, WriteToken
  PROVE  ReadInv'
<1>1. /\ found \in Seq(PieceTokens) /\ contents \in Seq(Characters)
      /\ reading = "names" /\ found # <<>> /\ found' = Tail(found)
      /\ UNCHANGED <<raw, reading, from, to, place, start, inBracket>>
  BY DEF ReadInv, ReadTypeOK, WriteToken
<1>2. Head(found) \in PieceTokens /\ Tail(found) \in Seq(PieceTokens)
  BY <1>1, HeadTailProperties
<1>3. PICK name \in NamesFor(Head(found)) : contents' = contents \o Written(Head(found), name)
  BY DEF WriteToken
<1>4. PICK text \in Seq(Characters) : text # <<>> /\ contents' = contents \o text
  BY <1>2, <1>3, WrittenTyped
<1>5. contents' \in Seq(Characters) /\ contents' # <<>>
  <2>1. PICK old \in Seq(Characters) : old = contents  BY <1>1
  <2>6. PICK new : new = contents'  OBVIOUS
  <2>2. new = old \o text  BY <1>4, <2>1, <2>6
  <2>3. Len(text) > 0  BY <1>4
  <2>4. new \in Seq(Characters) /\ Len(new) = Len(old) + Len(text)  BY <2>2
  <2>5. new # <<>>  BY <2>3, <2>4
  <2> QED  BY <2>1, <2>6, <2>4, <2>5
<1> QED  BY <1>1, <1>2, <1>5 DEF ReadInv, ReadTypeOK, PiecesInv, FoundInv

LEMMA ReadingEnds ==
  ASSUME ReadInv, EmojiPanics \/ AllWritten
  PROVE  ReadInv'
<1>1. /\ reading' \notin {"pieces", "names"}
      /\ UNCHANGED <<raw, from, to, place, start, inBracket, found, contents>>
  BY DEF EmojiPanics, AllWritten
<1> QED  BY <1>1 DEF ReadInv, ReadTypeOK, PiecesInv, FoundInv

LEMMA NothingReads ==
  ASSUME ReadInv, UNCHANGED readingVars
  PROVE  ReadInv'
<1>1. /\ UNCHANGED <<raw, reading, from, to, place, start, inBracket, found, contents>>
      /\ \A k, rune : Before(k, rune)' <=> Before(k, rune)
      /\ \A k : Rune(k)' = Rune(k)
  BY RawKept DEF readingVars
<1>2. ReadTypeOK'  BY <1>1 DEF ReadInv, ReadTypeOK
<1>3. PiecesInv'  BY <1>1 DEF ReadInv, PiecesInv, PlaceInv, Frontier, SeenTo
<1>4. FoundInv'  BY <1>1 DEF ReadInv, FoundInv, SeenTo
<1> QED  BY <1>2, <1>3, <1>4 DEF ReadInv

LEMMA ReadBegins ==
  ASSUME ReadInit \/ NotReading
  PROVE  ReadInv
<1>1. <<>> \in Seq(Characters) /\ <<>> \in Seq(PieceTokens) /\ FALSE \in BOOLEAN  OBVIOUS
<1>2. /\ from = 0 /\ place = 0 /\ start = 0 /\ inBracket = FALSE
      /\ found = <<>> /\ contents = <<>>
  BY DEF ReadInit, NotReading
<1>3. inBracket \in BOOLEAN  BY <1>1, <1>2, Zenon
<1>4. CASE ReadInit
  <2>1. raw \in Seq(Characters) /\ reading = "pieces" /\ to = PieceEnd(0)
    BY <1>4, TextsTyped DEF ReadInit
  <2>2. to \in 0 .. Len(raw) /\ Len(raw) \in Nat /\ \A k \in 0 .. to - 1 : Rune(k) # "space"
    <3>1. Len(raw) \in Nat /\ 0 \in 0 .. Len(raw)  BY <2>1
    <3> QED  BY <2>1, <3>1, PieceEnds
  <2>3. ReadTypeOK  BY <1>1, <1>2, <1>3, <2>1, <2>2 DEF ReadTypeOK
  <2>4. Frontier = 0 /\ PlaceInv  BY <1>2, <2>2 DEF Frontier, PlaceInv
  <2>5. PiecesInv  BY <1>2, <2>4, NoneHolds DEF PiecesInv
  <2>6. FoundInv  BY <1>2, <2>1, NoneHolds DEF FoundInv
  <2> QED  BY <2>3, <2>5, <2>6 DEF ReadInv
<1>5. CASE NotReading
  <2>1. raw = <<>> /\ reading = "off" /\ to = 0  BY <1>5 DEF NotReading
  <2> QED  BY <1>1, <1>2, <1>3, <2>1 DEF ReadInv, ReadTypeOK, PiecesInv, FoundInv
<1> QED  BY <1>4, <1>5

LEMMA ReadInvariance == TextSpec => []ReadInv
<1>1. TextInit => ReadInv  BY ReadBegins DEF TextInit
<1>2. ASSUME ReadInv, [TextNext]_textVars  PROVE ReadInv'
  <2>1. ReadStep \/ UNCHANGED readingVars
    BY <1>2 DEF TextNext, Learn, textVars, readingVars
  <2> QED
    BY <1>2, <2>1, PieceDoneReads, BracketOpensReads, BracketClosesReads, PlainRuneReads,
       NextPieceReads, AllPiecesReads, WriteTokenReads, ReadingEnds, NothingReads DEF ReadStep
<1> QED  BY <1>1, <1>2, PTL DEF TextSpec

\* A rune of a Discord message is lost only before a closing bracket of its piece, and doubled
\* only before an opening one, for any messages and names (parseDiscordPiece).
THEOREM TextIsKept == TextSpec => []NothingIsLost
<1>1. ASSUME ReadInv  PROVE NothingIsLost
  <2> SUFFICES ASSUME reading = "names" /\ contents = <<>>, NEW k \in 0 .. Len(raw) - 1
               PROVE  LET holders == {i \in DOMAIN found : k \in found[i].from .. found[i].to - 1}
                      IN /\ holders = {} => Before(k, ">")
                         /\ Cardinality(holders) > 1 => Before(k, "<")
    BY DEF NothingIsLost
  <2> DEFINE holders == {i \in DOMAIN found : k \in found[i].from .. found[i].to - 1}
  <2>1. found \in Seq(PieceTokens) /\ raw \in Seq(Characters)  BY <1>1 DEF ReadInv, ReadTypeOK
  <2>2. k \in Nat  BY <2>1
  <2>3. SeenTo(k) /\ (Twice(found, k) => Before(k, "<"))
    BY <1>1, <2>2 DEF ReadInv, FoundInv
  <2>4. holders = {} => Before(k, ">")  BY <2>3 DEF SeenTo, Held, Within
  <2>5. IsFiniteSet(DOMAIN found)
    <3>1. DOMAIN found = 1 .. Len(found) /\ Len(found) \in Nat  BY <2>1
    <3> QED  BY <3>1, FS_Interval
  <2>6. Cardinality(holders) > 1 => \E i, j \in holders : i # j
    <3>1. holders \subseteq DOMAIN found  OBVIOUS
    <3> HIDE DEF holders
    <3> QED  BY <2>5, <3>1, TwoOfMany
  <2>7. (\E i, j \in holders : i # j) => Twice(found, k)  BY DEF Twice, Within
  <2> QED  BY <2>3, <2>4, <2>6, <2>7
<1> QED  BY <1>1, ReadInvariance, PTL

----------------------------------------------------------------------------
(* Tokenizer: the prepared text *)

LEMMA KeptTyped ==
  ASSUME NEW s, NEW L \in Nat, NEW S \in SUBSET (1 .. L)
  PROVE  /\ Len(Kept(s, S)) \in Nat
         /\ \A n \in 1 .. Len(Kept(s, S)) : \E h \in S : Kept(s, S)[n] = s[h]
<1> DEFINE N == Cardinality(S)
<1>1. N \in Nat /\ \A n \in 1 .. N : Nth(S, n) \in S  BY RanksCount
<1>2. PICK f : f = Kept(s, S)  OBVIOUS
<1>3. f = [n \in 1 .. N |-> s[Nth(S, n)]]  BY <1>2 DEF Kept
<1> HIDE DEF N
<1>4. Len(f) = N  BY <1>1, <1>3
<1>5. \A n \in 1 .. N : f[n] = s[Nth(S, n)]  BY <1>3
<1> QED  BY <1>1, <1>2, <1>4, <1>5

\* What is left of a text is what stands between two of its runes.
LEMMA TrimPlaces ==
  ASSUME NEW s \in Seq(Characters), NEW set, NEW inner, inner = {i \in DOMAIN s : s[i] \notin set},
         inner # {}
  PROVE  \E a, b \in inner : /\ TrimBoth(s, set) = SubSeq(s, a, b)
                             /\ \A i \in inner : a <= i /\ i <= b
<1>1. PICK n : n = Len(s)  OBVIOUS
<1>2. n \in Nat /\ inner \subseteq 1 .. n  BY <1>1
<1>3. PICK a : a = Min(inner)  OBVIOUS
<1>4. PICK b : b = Max(inner)  OBVIOUS
<1>5. TrimBoth(s, set) = SubSeq(s, a, b)  BY <1>3, <1>4 DEF TrimBoth
<1>6. a \in inner /\ \A i \in inner : a <= i
  <2>1. inner \subseteq Nat  BY <1>2
  <2>2. \E m \in inner : \A i \in inner : m <= i  BY <2>1, NatMinimum
  <2> QED  BY <1>3, <2>2 DEF Min
<1>7. b \in inner /\ \A i \in inner : b >= i
  <2> DEFINE gaps == {n - i : i \in inner}
  <2>1. gaps \subseteq Nat /\ gaps # {}
    <3>1. \A i \in inner : n - i \in Nat  BY <1>2
    <3> QED  BY <3>1
  <2>2. PICK g \in gaps : \A h \in gaps : g <= h
    <3> HIDE DEF gaps
    <3> QED  BY <2>1, NatMinimum
  <2>3. PICK m \in inner : g = n - m  BY <2>2
  <2>4. \A i \in inner : m >= i
    <3> SUFFICES ASSUME NEW i \in inner  PROVE m >= i
      OBVIOUS
    <3>1. n - m <= n - i  BY <2>2, <2>3
    <3> QED  BY <1>2, <3>1
  <2> QED  BY <1>4, <2>4 DEF Max
<1>8. \A i \in inner : a <= i /\ i <= b  BY <1>2, <1>6, <1>7
<1> QED  BY <1>5, <1>6, <1>7, <1>8

LEMMA TrimmedTyped ==
  ASSUME NEW s \in Seq(Characters), NEW set
  PROVE  TrimBoth(s, set) \in Seq(Characters)
<1>1. PICK inner : inner = {i \in DOMAIN s : s[i] \notin set}  OBVIOUS
<1>2. CASE inner = {}
  <2>1. TrimBoth(s, set) = <<>>  BY <1>1, <1>2 DEF TrimBoth
  <2> QED  BY <2>1
<1>3. CASE inner # {}
  <2>1. PICK a, b \in inner : TrimBoth(s, set) = SubSeq(s, a, b)
    <3>1. \E a, b \in inner : /\ TrimBoth(s, set) = SubSeq(s, a, b)
                              /\ \A i \in inner : a <= i /\ i <= b
      BY <1>1, <1>3, TrimPlaces
    <3> QED  BY <3>1
  <2>2. a \in 1 .. Len(s) /\ b \in 1 .. Len(s) /\ Len(s) \in Nat  BY <1>1, <2>1
  <2>3. a \in Int /\ b \in Int /\ \A i \in a .. b : s[i] \in Characters  BY <2>2
  <2> QED  BY <2>1, <2>3, SubSeqProperties
<1> QED  BY <1>2, <1>3

\* A prepared text is finite and has no rune that is none.
Prepared(s) == Len(s) \in Nat /\ \A n \in 1 .. Len(s) : s[n] # Nil

LEMMA PrepPrepares ==
  ASSUME NEW text \in Seq(Characters)
  PROVE  Prepared(TokenizePrep(text))
<1>1. PICK s : s = Replaced(TrimBoth(text, White))  OBVIOUS
<1>2. PICK L \in Nat : DOMAIN s = 1 .. L
  <2>1. TrimBoth(text, White) \in Seq(Characters)  BY TrimmedTyped
  <2>2. PICK t \in Seq(Characters) : t = TrimBoth(text, White)  BY <2>1
  <2>3. DOMAIN t = 1 .. Len(t) /\ Len(t) \in Nat  BY <2>2
  <2>4. DOMAIN s = DOMAIN t  BY <1>1, <2>2 DEF Replaced
  <2> QED  BY <2>3, <2>4
<1> DEFINE kept == {i \in DOMAIN s : s[i] \notin Unwanted /\ ~Doubled(s, i)}
<1>3. kept \in SUBSET (1 .. L) /\ \A h \in kept : s[h] # Nil  BY <1>2 DEF Unwanted
<1>4. TokenizePrep(text) = Kept(s, kept)  BY <1>1 DEF TokenizePrep
<1> HIDE DEF kept
<1>5. L \in Nat /\ kept \in SUBSET (1 .. L)  BY <1>2, <1>3
<1>6. /\ Len(Kept(s, kept)) \in Nat
      /\ \A n \in 1 .. Len(Kept(s, kept)) : \E h \in kept : Kept(s, kept)[n] = s[h]
  BY <1>5, KeptTyped
<1> QED  BY <1>3, <1>4, <1>6 DEF Prepared

LEMMA RunesOf ==
  ASSUME Prepared(runes)
  PROVE  /\ Size \in Nat
         /\ \A k : RuneAt(k) # Nil <=> k \in 0 .. Size - 1
<1>1. Size \in Nat  BY DEF Prepared, Size
<1>2. \A k \in 0 .. Size - 1 : k + 1 \in 1 .. Len(runes) /\ RuneAt(k) = runes[k + 1]
  BY <1>1 DEF RuneAt, Size
<1>3. \A k : k \notin 0 .. Size - 1 => RuneAt(k) = Nil  BY DEF RuneAt
<1> QED  BY <1>1, <1>2, <1>3 DEF Prepared

LEMMA PeekFound ==
  ASSUME NEW p \in Nat, NEW end \in Nat, NEW set
  PROVE  \/ PeekUntil(p, end, set) = -1
         \/ PeekUntil(p, end, set) \in p .. end - 1 /\ RuneAt(PeekUntil(p, end, set)) \in set
<1> DEFINE there == {k \in p .. end - 1 : RuneAt(k) \in set}
<1>1. CASE there = {}  BY <1>1 DEF PeekUntil
<1>2. CASE there # {}
  <2>1. there \subseteq Nat  OBVIOUS
  <2>2. \E k \in there : \A j \in there : k <= j
    <3> HIDE DEF there
    <3> QED  BY <1>2, <2>1, NatMinimum
  <2>3. PeekUntil(p, end, set) = CHOOSE k \in there : \A j \in there : k <= j
    BY <1>2 DEF PeekUntil
  <2>4. PeekUntil(p, end, set) \in there
    <3> HIDE DEF there
    <3> QED  BY <2>2, <2>3
  <2> QED  BY <2>4
<1> QED  BY <1>1, <1>2

LEMMA SkipFound ==
  ASSUME NEW p \in Nat, NEW end \in Nat, p <= end, NEW set
  PROVE  /\ SkipAll(p, end, set) \in p .. end
         /\ \A j \in p .. SkipAll(p, end, set) - 1 : RuneAt(j) \in set
<1> DEFINE stops == {k \in p .. end : k = end \/ RuneAt(k) \notin set}
<1>1. stops \subseteq Nat /\ end \in stops  OBVIOUS
<1>2. PICK m \in stops : \A n \in stops : m <= n
  <2> HIDE DEF stops
  <2> QED  BY <1>1, NatMinimum
<1>3. m \in p .. end /\ (m = end \/ RuneAt(m) \notin set)  OBVIOUS
<1>4. \A j \in p .. m - 1 : RuneAt(j) \in set
  <2> SUFFICES ASSUME NEW j \in p .. m - 1, RuneAt(j) \notin set  PROVE FALSE
    OBVIOUS
  <2>1. j \in stops /\ j < m  BY <1>3
  <2> QED  BY <1>2, <1>3, <2>1
<1> HIDE DEF stops
<1>5. PICK q : q = SkipAll(p, end, set)  OBVIOUS
<1>6. q \in p .. end /\ \A j \in p .. q - 1 : RuneAt(j) \in set
  BY <1>3, <1>4, <1>5 DEF SkipAll
<1> QED  BY <1>5, <1>6

----------------------------------------------------------------------------
(* Tokenizer: the scan *)

ScanTypes == {"Word", "EOL", "Space", "NewLine", "Special", "Malformed", "Emoticon"}
ScanTokens == {t \in [type : ScanTypes, from : Nat, to : Nat] : t.from <= t.to}

\* A text of a chat without markup is cut into words and what is between them.
Bare == variant \in Chat /\ \A k : RuneAt(k) \notin {"<", "tick", ":"}
Blank(k) == RuneAt(k) \in {Space, NewLine}
Cut(t) ==
  /\ t.type \in {"Word", "Space", "NewLine", "EOL"}
  /\ t.type = "Word" => \A k : Within(t, k) => ~Blank(k)
  /\ t.type # "Word" => \A k : Within(t, k) => Blank(k)
CutUp(list) == \A i \in DOMAIN list : Cut(list[i])

RunesInv ==
  /\ Prepared(runes)
  /\ phase = "waiting" => tokens = <<>> /\ pos = 0 /\ mark = 0 /\ cur = NoToken /\ parsed = <<>>
  /\ phase = "scan" => tokens \in Seq(ScanTokens) /\ cur = NoToken /\ parsed = <<>>

ScanInv ==
  phase = "scan" =>
    /\ pos \in Nat /\ mark \in Nat /\ mark <= pos /\ pos <= Size
    /\ EndBy(tokens, mark) /\ Ordered(tokens)
    /\ \A k \in 0 .. mark - 1 : Held(tokens, k) \/ RuneAt(k) = "tick"
    /\ Bare => CutUp(tokens) /\ \A k \in mark .. pos - 1 : ~Blank(k)

LEMMA TextKept ==
  ASSUME UNCHANGED <<variant, runes>>
  PROVE  /\ \A k : RuneAt(k)' = RuneAt(k)
         /\ \A k : Blank(k)' <=> Blank(k)
         /\ \A t : Cut(t)' <=> Cut(t)
         /\ Size' = Size /\ (Prepared(runes)' <=> Prepared(runes)) /\ (Bare' <=> Bare)
<1>1. (\A k : RuneAt(k)' = RuneAt(k)) /\ Size' = Size  BY DEF RuneAt, Size
<1>2. \A k : Blank(k)' <=> Blank(k)  BY <1>1 DEF Blank
<1>3. \A t : Cut(t)' <=> Cut(t)  BY <1>2 DEF Cut, Within
<1>4. (Prepared(runes)' <=> Prepared(runes)) /\ (Bare' <=> Bare)
  BY <1>1 DEF Prepared, Bare
<1> QED  BY <1>1, <1>2, <1>3, <1>4

LEMMA TokenTyped ==
  ASSUME NEW type \in ScanTypes, NEW a \in Nat, NEW b \in Nat, a <= b
  PROVE  /\ Token(type, a, b) \in ScanTokens /\ Token(type, a, b).type = type
         /\ Token(type, a, b).from = a /\ Token(type, a, b).to = b
BY DEF Token, ScanTokens

\* What a turn of the scan may find: tokens of all runes it leaves behind.
Finds(f, next, m) ==
  /\ f \in Seq(ScanTokens) /\ Ordered(f) /\ BeginAt(f, mark) /\ EndBy(f, m)
  /\ next \in Nat /\ m \in Nat /\ mark <= m /\ m <= next /\ next <= Size
  /\ \A k \in mark .. m - 1 : Held(f, k) \/ RuneAt(k) = "tick"
  /\ Bare => CutUp(f) /\ \A k \in m .. next - 1 : ~Blank(k)

LEMMA CutUpJoined ==
  ASSUME NEW T, NEW a \in Seq(T), NEW b \in Seq(T), CutUp(a), CutUp(b)
  PROVE  CutUp(a \o b)
<1>1. PICK c, m, n : c = a \o b /\ m = Len(a) /\ n = Len(b)  OBVIOUS
<1>2. /\ DOMAIN a = 1 .. m /\ DOMAIN b = 1 .. n /\ DOMAIN c = 1 .. m + n
      /\ \A i \in 1 .. m : c[i] = a[i]
      /\ \A i \in 1 .. m + n : i \in 1 .. m \/ (i - m \in 1 .. n /\ c[i] = b[i - m])
  BY <1>1, Joined
<1> QED  BY <1>1, <1>2 DEF CutUp

LEMMA ScanFound ==
  ASSUME RunesInv, ScanInv, phase = "scan", NEW f, NEW next, NEW m, Finds(f, next, m),
         NEW new, new = tokens \o f
  PROVE  /\ new \in Seq(ScanTokens) /\ Ordered(new) /\ EndBy(new, m)
         /\ \A k \in 0 .. m - 1 : Held(new, k) \/ RuneAt(k) = "tick"
         /\ Bare => CutUp(new)
<1>2. PICK old : old = tokens  OBVIOUS
<1>3. /\ old \in Seq(ScanTokens) /\ f \in Seq(ScanTokens) /\ new = old \o f
      /\ Ordered(old) /\ Ordered(f) /\ EndBy(old, mark) /\ BeginAt(f, mark) /\ EndBy(f, m)
      /\ m \in Nat /\ mark \in Nat /\ mark <= m
  BY <1>2 DEF RunesInv, ScanInv, Finds
<1>4. /\ new \in Seq(ScanTokens)
      /\ \A k : Held(new, k) <=> Held(old, k) \/ Held(f, k)
      /\ \A p : EndBy(new, p) <=> EndBy(old, p) /\ EndBy(f, p)
  BY <1>3, JoinedHolds
<1>5. Ordered(new)
  <2>1. mark \in Int /\ \A t \in ScanTokens : t.from \in Int /\ t.to \in Int
    BY <1>3 DEF ScanTokens
  <2> QED  BY <1>3, <2>1, JoinedOrder
<1>6. EndBy(new, m)
  <2>1. \A i \in DOMAIN old : old[i].to \in Nat  BY <1>3 DEF ScanTokens
  <2>2. EndBy(old, m)  BY <1>3, <2>1 DEF EndBy
  <2> QED  BY <1>3, <1>4, <2>2
<1>7. \A k \in 0 .. m - 1 : Held(new, k) \/ RuneAt(k) = "tick"
  <2> SUFFICES ASSUME NEW k \in 0 .. m - 1  PROVE Held(new, k) \/ RuneAt(k) = "tick"
    OBVIOUS
  <2>1. k \in 0 .. mark - 1 \/ k \in mark .. m - 1  BY <1>3
  <2>2. CASE k \in 0 .. mark - 1  BY <1>2, <1>4, <2>2 DEF ScanInv
  <2>3. CASE k \in mark .. m - 1  BY <1>4, <2>3 DEF Finds
  <2> QED  BY <2>1, <2>2, <2>3
<1>8. Bare => CutUp(new)  BY <1>2, <1>3, CutUpJoined DEF ScanInv, Finds
<1> QED  BY <1>4, <1>5, <1>6, <1>7, <1>8

LEMMA ScanMoves ==
  ASSUME RunesInv, ScanInv, phase = "scan", NEW f, NEW next, NEW m, Finds(f, next, m),
         Scan(f, next, m)
  PROVE  RunesInv' /\ ScanInv'
<1>1. /\ tokens' = tokens \o f /\ pos' = next /\ mark' = m
      /\ UNCHANGED <<variant, runes, phase, cur, parsed>>
  BY DEF Scan
<1>2. PICK new : new = tokens'  OBVIOUS
<1>3. /\ next \in Nat /\ m \in Nat /\ m <= next /\ next <= Size
      /\ Bare => \A k \in m .. next - 1 : ~Blank(k)
  BY DEF Finds
<1>4. /\ new \in Seq(ScanTokens) /\ Ordered(new) /\ EndBy(new, m)
      /\ \A k \in 0 .. m - 1 : Held(new, k) \/ RuneAt(k) = "tick"
      /\ Bare => CutUp(new)
  BY <1>1, <1>2, ScanFound
<1>9. /\ \A k : RuneAt(k)' = RuneAt(k)
      /\ \A k : Blank(k)' <=> Blank(k)
      /\ \A t : Cut(t)' <=> Cut(t)
      /\ Size' = Size /\ (Prepared(runes)' <=> Prepared(runes)) /\ (Bare' <=> Bare)
  BY <1>1, TextKept
<1>10. RunesInv'  BY <1>1, <1>2, <1>4, <1>9 DEF RunesInv
<1>11. CutUp(tokens)' <=> CutUp(new)  BY <1>2, <1>9 DEF CutUp
<1>12. ScanInv'
  <2>1. (\A k \in 0 .. mark - 1 : Held(tokens, k) \/ RuneAt(k) = "tick")'
    BY <1>1, <1>2, <1>4, <1>9
  <2>2. EndBy(tokens, mark)' /\ Ordered(tokens)'  BY <1>1, <1>2, <1>4
  <2>3. (Bare => CutUp(tokens) /\ \A k \in mark .. pos - 1 : ~Blank(k))'
    BY <1>1, <1>3, <1>4, <1>9, <1>11
  <2> QED  BY <1>1, <1>3, <1>9, <2>1, <2>2, <2>3 DEF ScanInv
<1> QED  BY <1>10, <1>12

\* What a turn of the scan has to work with.
LEMMA Scans ==
  ASSUME RunesInv, ScanInv, phase = "scan"
  PROVE  /\ pos \in Nat /\ mark \in Nat /\ mark <= pos /\ pos <= Size /\ Size \in Nat
         /\ Bare => \A k \in mark .. pos - 1 : ~Blank(k)
         /\ \A k : RuneAt(k) # Nil <=> k \in 0 .. Size - 1
  BY RunesOf DEF RunesInv, ScanInv

\* A rune that is passed over is not left behind.
LEMMA PassOver ==
  ASSUME RunesInv, ScanInv, phase = "scan", pos < Size, Bare => ~Blank(pos), ScanOn
  PROVE  RunesInv' /\ ScanInv'
<1>1. Finds(<<>>, pos + 1, mark)
  <2>1. <<>> \in Seq(ScanTokens)  OBVIOUS
  <2>2. CutUp(<<>>)  BY DEF CutUp
  <2>3. Bare => \A k \in mark .. (pos + 1) - 1 : ~Blank(k)
    <3>1. \A k \in mark .. (pos + 1) - 1 : k \in mark .. pos - 1 \/ k = pos  BY Scans
    <3> QED  BY <3>1, Scans
  <2>4. /\ pos + 1 \in Nat /\ mark \in Nat /\ mark <= mark /\ mark <= pos + 1 /\ pos + 1 <= Size
        /\ \A k \in mark .. mark - 1 : FALSE
    BY Scans
  <2> QED  BY <2>1, <2>2, <2>3, <2>4, NoneHolds DEF Finds
<1> QED  BY <1>1, ScanMoves DEF ScanOn

\* The word before a position is a token of all its runes.
LEMMA WordFound ==
  ASSUME RunesInv, ScanInv, phase = "scan"
  PROVE  /\ WordBefore \in Seq(ScanTokens) /\ Ordered(WordBefore)
         /\ BeginAt(WordBefore, mark) /\ EndBy(WordBefore, pos)
         /\ \A k \in mark .. pos - 1 : Held(WordBefore, k)
         /\ Bare => CutUp(WordBefore)
<1>1. CASE pos = mark
  <2>1. WordBefore = <<>> /\ <<>> \in Seq(ScanTokens)  BY <1>1 DEF WordBefore
  <2>2. CutUp(<<>>)  BY DEF CutUp
  <2>3. \A k \in mark .. pos - 1 : FALSE  BY <1>1, Scans
  <2> QED  BY <2>1, <2>2, <2>3, NoneHolds
<1>2. CASE pos # mark
  <2>1. PICK t : t = Token("Word", mark, pos)  OBVIOUS
  <2>2. t \in ScanTokens /\ t.type = "Word" /\ t.from = mark /\ t.to = pos
    BY <2>1, TokenTyped, Scans DEF ScanTypes
  <2>3. WordBefore = <<t>>  BY <1>2, <2>1 DEF WordBefore
  <2>4. <<t>> \in Seq(ScanTokens)  BY <2>2
  <2>5. \A k : Within(t, k) <=> k \in mark .. pos - 1  BY <2>2 DEF Within
  <2>6. Bare => Cut(t)  BY <2>2, <2>5, Scans DEF Cut
  <2>7. Bare => CutUp(<<t>>)  BY <2>6 DEF CutUp
  <2>8. mark <= mark /\ pos <= pos  BY Scans
  <2> QED  BY <2>2, <2>3, <2>4, <2>5, <2>7, <2>8, OneHolds
<1> QED  BY <1>1, <1>2

\* The word before, and a token from here to where the scan goes on.
LEMMA WordAndToken ==
  ASSUME RunesInv, ScanInv, phase = "scan", NEW type \in ScanTypes, NEW x \in Nat, pos <= x,
         x <= Size, Bare => Cut(Token(type, pos, x))
  PROVE  Finds(WordBefore \o <<Token(type, pos, x)>>, x, x)
<1>1. PICK t : t = Token(type, pos, x)  OBVIOUS
<1>2. t \in ScanTokens /\ t.from = pos /\ t.to = x  BY <1>1, TokenTyped, Scans
<1>3. PICK w : w = WordBefore  OBVIOUS
<1>4. /\ w \in Seq(ScanTokens) /\ Ordered(w) /\ BeginAt(w, mark) /\ EndBy(w, pos)
      /\ \A k \in mark .. pos - 1 : Held(w, k)
      /\ Bare => CutUp(w)
  BY <1>3, WordFound
<1>5. <<t>> \in Seq(ScanTokens)  BY <1>2
<1>6. PICK f : f = w \o <<t>>  OBVIOUS
<1>7. /\ f \in Seq(ScanTokens)
      /\ \A k : Held(f, k) <=> Held(w, k) \/ Within(t, k)
      /\ \A p : EndBy(f, p) <=> EndBy(w, p) /\ t.to <= p
      /\ \A p : BeginAt(f, p) <=> BeginAt(w, p) /\ p <= t.from
  BY <1>4, <1>5, <1>6, JoinedHolds, OneHolds
<1>8. Ordered(f)
  <2>1. pos \in Int /\ \A u \in ScanTokens : u.from \in Int /\ u.to \in Int
    BY Scans DEF ScanTokens
  <2>2. Ordered(<<t>>) /\ BeginAt(<<t>>, pos)  BY <1>2, Scans, OneHolds
  <2> QED  BY <1>4, <1>5, <1>6, <2>1, <2>2, JoinedOrder
<1>9. EndBy(f, x) /\ BeginAt(f, mark)
  <2>1. \A i \in DOMAIN w : w[i].to \in Nat  BY <1>4 DEF ScanTokens
  <2>2. EndBy(w, x)  BY <1>4, <2>1, Scans DEF EndBy
  <2> QED  BY <1>2, <1>4, <1>7, <2>2, Scans
<1>10. \A k \in mark .. x - 1 : Held(f, k)
  <2>1. \A k \in mark .. x - 1 : k \in mark .. pos - 1 \/ k \in pos .. x - 1  BY Scans
  <2> QED  BY <1>2, <1>4, <1>7, <2>1 DEF Within
<1>11. Bare => CutUp(f)
  <2>1. Bare => CutUp(<<t>>)  BY <1>1 DEF CutUp
  <2> QED  BY <1>4, <1>5, <1>6, <2>1, CutUpJoined
<1>12. Finds(f, x, x)
  <2>1. x <= x /\ mark <= x /\ \A k \in x .. x - 1 : FALSE  BY Scans
  <2> QED  BY <1>7, <1>8, <1>9, <1>10, <1>11, <2>1 DEF Finds
<1> QED  BY <1>1, <1>3, <1>6, <1>12

LEMMA TokenAfterWord ==
  ASSUME RunesInv, ScanInv, phase = "scan", NEW type \in ScanTypes, NEW x \in Nat, pos <= x,
         x <= Size, Bare => Cut(Token(type, pos, x)),
         Scan(WordBefore \o <<Token(type, pos, x)>>, x, x)
  PROVE  RunesInv' /\ ScanInv'
BY WordAndToken, ScanMoves

\* A position that has a rune is in the text.
LEMMA SpaceScans ==
  ASSUME RunesInv, ScanInv, ScanSpace  PROVE RunesInv' /\ ScanInv'
<1> DEFINE type == IF RuneAt(pos) = NewLine THEN "NewLine" ELSE "Space"
<1>1. phase = "scan" /\ RuneAt(pos) \in {Space, NewLine}  BY DEF ScanSpace, Scanning
<1>2. pos + 1 \in Nat /\ pos <= pos + 1 /\ pos + 1 <= Size
  BY <1>1, Scans DEF Nil, Space, NewLine
<1>3. type \in ScanTypes /\ type \in {"Space", "NewLine"}  BY DEF ScanTypes
<1>4. Cut(Token(type, pos, pos + 1))
  <2>1. PICK t : t = Token(type, pos, pos + 1)  OBVIOUS
  <2>2. t.type \in {"Space", "NewLine"} /\ t.from = pos /\ t.to = pos + 1
    BY <1>1, <1>2, <1>3, <2>1, TokenTyped, Scans
  <2>3. \A k : Within(t, k) => k = pos  BY <1>1, <2>2, Scans DEF Within
  <2> QED  BY <1>1, <2>1, <2>2, <2>3 DEF Cut, Blank
<1>5. Scan(WordBefore \o <<Token(type, pos, pos + 1)>>, pos + 1, pos + 1)  BY DEF ScanSpace
<1> HIDE DEF type
<1> QED  BY <1>1, <1>2, <1>3, <1>4, <1>5, TokenAfterWord

\* A position before the end that is not blank may be passed over.
LEMMA ScansOn ==
  ASSUME RunesInv, ScanInv, phase = "scan", RuneAt(pos) \notin {Nil, Space, NewLine}, ScanOn
  PROVE  RunesInv' /\ ScanInv'
<1>1. pos < Size  BY Scans
<1> QED  BY <1>1, PassOver DEF Blank

LEMMA TimestampScans ==
  ASSUME RunesInv, ScanInv, ScanTimestamp  PROVE RunesInv' /\ ScanInv'
<1> DEFINE end == PeekUntil(pos + 1, Size, {")"})
<1>1. phase = "scan" /\ RuneAt(pos) = "("  BY DEF ScanTimestamp, Scanning
<1>2. \/ /\ variant = "xmpp" /\ pos = 0 /\ end > 0
         /\ Scan(<<Token("Special", pos, end + 1)>>, end + 1, end + 1)
      \/ ScanOn
  BY DEF ScanTimestamp
<1>3. CASE ScanOn  BY <1>1, <1>3, ScansOn DEF Nil, Space, NewLine
<1>4. CASE /\ variant = "xmpp" /\ pos = 0 /\ end > 0
           /\ Scan(<<Token("Special", pos, end + 1)>>, end + 1, end + 1)
  <2>1. end \in pos + 1 .. Size - 1
    <3>1. pos + 1 \in Nat /\ Size \in Nat  BY <1>1, Scans
    <3> QED  BY <1>4, <3>1, PeekFound
  <2>2. WordBefore = <<>>  BY <1>1, <1>4, Scans DEF WordBefore
  <2> HIDE DEF end
  <2>3. PICK x \in Nat : x = end + 1 /\ pos <= x /\ x <= Size  BY <1>1, <2>1, Scans
  <2>4. WordBefore \o <<Token("Special", pos, x)>> = <<Token("Special", pos, x)>>  BY <2>2
  <2>5. ~Bare /\ "Special" \in ScanTypes  BY <1>4 DEF Bare, Chat, ScanTypes
  <2> QED  BY <1>1, <1>4, <2>3, <2>4, <2>5, TokenAfterWord
<1> QED  BY <1>2, <1>3, <1>4

\* Markup is a token up to a position in the text.
LEMMA MarkupScans ==
  ASSUME RunesInv, ScanInv, phase = "scan", RuneAt(pos) \in {"<", "tick", ":"},
         NEW type \in ScanTypes, NEW x \in Int, pos <= x, x <= Size,
         Scan(WordBefore \o <<Token(type, pos, x)>>, x, x)
  PROVE  RunesInv' /\ ScanInv'
<1>1. ~Bare  BY DEF Bare
<1>2. x \in Nat  BY Scans
<1> QED  BY <1>1, <1>2, TokenAfterWord

LEMMA BraceScans ==
  ASSUME RunesInv, ScanInv, ScanBrace  PROVE RunesInv' /\ ScanInv'
<1>1. PICK end : end = PeekUntil(pos + 1, Size, {">"})  OBVIOUS
<1>2. phase = "scan" /\ RuneAt(pos) = "<"  BY DEF ScanBrace, Scanning
<1>3. ScanOn \/ (~(end < 0) /\ Scan(WordBefore \o <<Token("Special", pos, end + 1)>>, end + 1, end + 1))
  BY <1>1 DEF ScanBrace
<1>4. end = -1 \/ end \in pos + 1 .. Size - 1
  <2>1. pos + 1 \in Nat /\ Size \in Nat  BY <1>2, Scans
  <2> QED  BY <1>1, <2>1, PeekFound
<1>5. CASE ScanOn  BY <1>2, <1>5, ScansOn DEF Nil, Space, NewLine
<1>6. CASE ~(end < 0) /\ Scan(WordBefore \o <<Token("Special", pos, end + 1)>>, end + 1, end + 1)
  <2>1. PICK x \in Int : x = end + 1 /\ pos <= x /\ x <= Size  BY <1>2, <1>4, <1>6, Scans
  <2> QED  BY <1>2, <1>6, <2>1, MarkupScans DEF ScanTypes
<1> QED  BY <1>3, <1>5, <1>6

LEMMA ColonScans ==
  ASSUME RunesInv, ScanInv, ScanColon  PROVE RunesInv' /\ ScanInv'
<1>1. PICK end : end = PeekUntil(pos + 2, Size, {":", Space, "?", "/", NewLine, "tick"})  OBVIOUS
<1>2. phase = "scan" /\ RuneAt(pos) = ":"  BY DEF ScanColon, Scanning
<1>3. ScanOn \/ (end >= 0 /\ Scan(WordBefore \o <<Token("Emoticon", pos, end + 1)>>, end + 1, end + 1))
  BY <1>1 DEF ScanColon
<1>4. end = -1 \/ end \in pos + 2 .. Size - 1
  <2>1. pos + 2 \in Nat /\ Size \in Nat  BY <1>2, Scans
  <2> QED  BY <1>1, <2>1, PeekFound
<1>5. CASE ScanOn  BY <1>2, <1>5, ScansOn DEF Nil, Space, NewLine
<1>6. CASE end >= 0 /\ Scan(WordBefore \o <<Token("Emoticon", pos, end + 1)>>, end + 1, end + 1)
  <2>1. PICK x \in Int : x = end + 1 /\ pos <= x /\ x <= Size  BY <1>2, <1>4, <1>6, Scans
  <2> QED  BY <1>2, <1>6, <2>1, MarkupScans DEF ScanTypes
<1> QED  BY <1>3, <1>5, <1>6

LEMMA CodeBlockScans ==
  ASSUME RunesInv, ScanInv, ScanCodeBlock  PROVE RunesInv' /\ ScanInv'
<1> DEFINE ends == {k \in pos + 3 .. Size - 1 : ThreeAt(k)}
<1>1. PICK end : end = CHOOSE k \in ends : \A j \in ends : k <= j  OBVIOUS
<1>2. phase = "scan" /\ RuneAt(pos) = "tick"  BY DEF ScanCodeBlock, Scanning, Backtick
<1>3. \/ ends = {} /\ Scan(WordBefore \o <<Token("Malformed", pos, Size)>>, Size, Size)
      \/ ends # {} /\ Scan(WordBefore \o <<Token("Special", pos, end + 3)>>, end + 3, end + 3)
  BY <1>1 DEF ScanCodeBlock
<1>4. ends \subseteq Nat /\ \A k \in ends : k \in Int /\ pos + 3 <= k /\ k + 3 <= Size
  <2>1. pos \in Nat /\ Size \in Nat  BY <1>2, Scans
  <2>2. ASSUME NEW k \in ends  PROVE k + 3 <= Size
    <3>1. k \in Nat /\ RuneAt(k + 2) = "tick"  BY <2>1 DEF ThreeAt
    <3>2. k + 2 \in 0 .. Size - 1  BY <1>2, <3>1, Scans DEF Nil
    <3> QED  BY <2>1, <3>1, <3>2
  <2> QED  BY <2>1, <2>2
<1> HIDE DEF ends
<1>5. CASE ends = {} /\ Scan(WordBefore \o <<Token("Malformed", pos, Size)>>, Size, Size)
  <2>1. Size \in Int /\ pos <= Size /\ Size <= Size  BY <1>2, Scans
  <2> QED  BY <1>2, <1>5, <2>1, MarkupScans DEF ScanTypes
<1>6. CASE ends # {} /\ Scan(WordBefore \o <<Token("Special", pos, end + 3)>>, end + 3, end + 3)
  <2>1. end \in ends
    <3>1. \E k \in ends : \A j \in ends : k <= j  BY <1>4, <1>6, NatMinimum
    <3> QED  BY <1>1, <3>1
  <2>2. PICK x \in Int : x = end + 3 /\ pos <= x /\ x <= Size  BY <1>2, <1>4, <2>1, Scans
  <2> QED  BY <1>2, <1>6, <2>2, MarkupScans DEF ScanTypes
<1> QED  BY <1>3, <1>5, <1>6

LEMMA CodeScans ==
  ASSUME RunesInv, ScanInv, ScanCode  PROVE RunesInv' /\ ScanInv'
<1>1. PICK next : next = PeekUntil(pos + 1, Size, Backtick)  OBVIOUS
<1>2. phase = "scan" /\ RuneAt(pos) = "tick"  BY DEF ScanCode, Scanning, Backtick
<1>3. \/ ScanOn
      \/ next > pos /\ Scan(WordBefore \o <<Token("Special", pos, next + 1)>>, next + 1, next + 1)
      \/ Scan(WordBefore, pos + 1, IF pos # mark THEN pos + 1 ELSE mark)
  BY <1>1 DEF ScanCode
<1>4. /\ next = -1 \/ next \in pos + 1 .. Size - 1
      /\ pos \in Nat /\ mark \in Nat /\ mark <= pos /\ Size \in Nat /\ pos + 1 <= Size
  <2>1. /\ pos + 1 \in Nat /\ Size \in Nat /\ pos \in Nat /\ mark \in Nat /\ mark <= pos
        /\ pos + 1 <= Size
    BY <1>2, Scans DEF Nil
  <2> QED  BY <1>1, <2>1, PeekFound
<1>5. CASE ScanOn  BY <1>2, <1>5, ScansOn DEF Nil, Space, NewLine
<1>6. CASE next > pos /\ Scan(WordBefore \o <<Token("Special", pos, next + 1)>>, next + 1, next + 1)
  <2>1. PICK x \in Int : x = next + 1 /\ pos <= x /\ x <= Size  BY <1>4, <1>6
  <2> QED  BY <1>2, <1>6, <2>1, MarkupScans DEF ScanTypes
<1>7. CASE Scan(WordBefore, pos + 1, IF pos # mark THEN pos + 1 ELSE mark)
  <2>1. CASE pos = mark
    <3>1. Scan(<<>>, pos + 1, mark)  BY <1>7, <2>1 DEF WordBefore
    <3> QED  BY <1>2, <3>1, ScansOn DEF ScanOn, Nil, Space, NewLine
  <2>2. CASE pos # mark
    <3>1. PICK w : w = WordBefore  OBVIOUS
    <3>2. /\ w \in Seq(ScanTokens) /\ Ordered(w) /\ BeginAt(w, mark) /\ EndBy(w, pos)
          /\ \A k \in mark .. pos - 1 : Held(w, k)
      BY <1>2, <3>1, WordFound
    <3>3. EndBy(w, pos + 1)
      <4>1. \A i \in DOMAIN w : w[i].to \in Nat  BY <3>2 DEF ScanTokens
      <4> QED  BY <1>4, <3>2, <4>1 DEF EndBy
    <3>4. \A k \in mark .. (pos + 1) - 1 : Held(w, k) \/ RuneAt(k) = "tick"
      <4>1. \A k \in mark .. (pos + 1) - 1 : k \in mark .. pos - 1 \/ k = pos  BY <1>4
      <4> QED  BY <1>2, <3>2, <4>1
    <3>5. ~Bare  BY <1>2 DEF Bare
    <3>6. Finds(w, pos + 1, pos + 1)
      <4>1. pos + 1 \in Nat /\ mark <= pos + 1 /\ pos + 1 <= pos + 1  BY <1>4
      <4> QED  BY <1>4, <3>2, <3>3, <3>4, <3>5, <4>1 DEF Finds
    <3> QED  BY <1>2, <1>7, <2>2, <3>1, <3>6, ScanMoves
  <2> QED  BY <2>1, <2>2
<1> QED  BY <1>3, <1>5, <1>6, <1>7

LEMMA OtherScans ==
  ASSUME RunesInv, ScanInv, ScanOther  PROVE RunesInv' /\ ScanInv'
<1>1. phase = "scan" /\ pos < Size /\ ~Blank(pos) /\ ScanOn  BY DEF ScanOther, Blank
<1> QED  BY <1>1, PassOver

----------------------------------------------------------------------------
(* Tokenizer: what the parser leaves of a text without markup *)

ParseTypes ==
  {"Word", "Number", "Space", "NewLine", "EOL", "MentionUser", "MentionRole", "MentionChannel",
   "Ellipsis", "SentEnd", "Period", "Bracket", "Quote"}
ParsedTokens ==
  {t \in [type : ParseTypes, from : Nat, to : Nat] :
     t.type = "Space" => \A k : Within(t, k) => Blank(k)}

Letter(k) == k \in 0 .. Size - 1 /\ RuneAt(k) \in Letters
Lost(k) == RuneAt(k - 1) \in SentenceEnds \cup {"."} \/ WordHas(k, {"@", "#"})
MayDouble(k) == WordHas(k, Brackets \cup Quotes)

\* The letters of the word in hand that the parser has not given up yet.
InWordYet(k) == cur # NoToken /\ pos <= cur.to /\ k \in mark .. cur.to - 1

Least(a, b) == IF a <= b THEN a ELSE b

CurInv ==
  cur # NoToken =>
    /\ cur \in ScanTokens /\ cur.type = "Word" /\ Cut(cur) /\ cur.to <= Size
    /\ pos \in Nat /\ mark \in Nat
    /\ cur.from <= mark /\ mark <= pos /\ pos <= cur.to + 1
    /\ BeginAt(tokens, cur.to) /\ EndBy(parsed, Least(pos, cur.to))
    /\ pos <= cur.to =>
         \A k \in mark .. pos - 1 : Letter(k) /\ Held(parsed, k) => MayDouble(k)

ParseInv ==
  phase = "parse" /\ Bare =>
    /\ tokens \in Seq(ScanTokens) /\ Ordered(tokens) /\ CutUp(tokens) /\ EndBy(tokens, Size)
    /\ parsed \in Seq(ParsedTokens)
    /\ \A j \in DOMAIN tokens : EndBy(parsed, tokens[j].from)
    /\ CurInv
    /\ \A k : Letter(k) => \/ Held(tokens, k) \/ InWordYet(k) \/ Held(parsed, k) \/ Lost(k)
    /\ \A k : Letter(k) /\ Twice(parsed, k) => MayDouble(k)

KeptInv ==
  phase = "simplify" /\ Bare =>
    /\ parsed \in Seq(ParsedTokens)
    /\ \A k : Letter(k) => Held(parsed, k) \/ Lost(k)
    /\ \A k : Letter(k) /\ Twice(parsed, k) => MayDouble(k)

TokensInv == RunesInv /\ ScanInv /\ ParseInv /\ KeptInv

LEMMA LettersKept ==
  ASSUME UNCHANGED <<variant, runes>>
  PROVE  /\ \A k : Letter(k)' <=> Letter(k)
         /\ \A k : Lost(k)' <=> Lost(k)
         /\ \A k : MayDouble(k)' <=> MayDouble(k)
         /\ \A t : t \in ParsedTokens' <=> t \in ParsedTokens
<1>1. /\ \A k : RuneAt(k)' = RuneAt(k)
      /\ \A k : Blank(k)' <=> Blank(k)
      /\ Size' = Size
  BY TextKept
<1>2. \A k : Letter(k)' <=> Letter(k)  BY <1>1 DEF Letter
<1>3. \A k, j : SameWord(k, j)' <=> SameWord(k, j)  BY <1>1 DEF SameWord
<1>4. \A k, set : WordHas(k, set)' <=> WordHas(k, set)  BY <1>1, <1>3 DEF WordHas
<1>5. \A k : Lost(k)' <=> Lost(k)  BY <1>1, <1>4 DEF Lost
<1>6. \A k : MayDouble(k)' <=> MayDouble(k)  BY <1>4 DEF MayDouble
<1>7. \A t : t \in ParsedTokens' <=> t \in ParsedTokens
  BY <1>1 DEF ParsedTokens, Within
<1> QED  BY <1>2, <1>5, <1>6, <1>7

LEMMA ParsedTyped ==
  \A t \in ParsedTokens : t.from \in Nat /\ t.to \in Nat /\ t.type \in ParseTypes
BY DEF ParsedTokens

LEMMA LetterShown ==
  /\ \A k : Letter(k) => ~Blank(k)
  /\ \A k : Letter(k) => RuneAt(k) \notin Brackets /\ RuneAt(k) \notin Quotes
  /\ \A k : Letter(k) => RuneAt(k) \notin {".", "@", "#"} /\ RuneAt(k) \notin SentenceEnds
<1>1. "a" \notin Brackets /\ "9" \notin Brackets  BY Zenon DEF Brackets
<1>2. "a" \notin Quotes /\ "9" \notin Quotes  BY Zenon DEF Quotes
<1>3. \A k : Letter(k) => RuneAt(k) = "a" \/ RuneAt(k) = "9"  BY DEF Letter, Letters
<1>4. \A k : Letter(k) => ~Blank(k)  BY <1>3 DEF Blank, Space, NewLine
<1>5. \A k : Letter(k) => RuneAt(k) \notin {".", "@", "#"} /\ RuneAt(k) \notin SentenceEnds
  BY <1>3 DEF SentenceEnds
<1>6. \A k : Letter(k) => RuneAt(k) \notin Brackets /\ RuneAt(k) \notin Quotes
  BY <1>1, <1>2, <1>3, Zenon
<1> QED  BY <1>4, <1>5, <1>6

\* The first of a list, and the rest.
LEMMA TailHolds ==
  ASSUME NEW T, NEW list \in Seq(T), list # <<>>
  PROVE  /\ Head(list) \in T /\ 1 \in DOMAIN list /\ Head(list) = list[1]
         /\ Tail(list) \in Seq(T)
         /\ \A i \in DOMAIN Tail(list) : i + 1 \in DOMAIN list /\ Tail(list)[i] = list[i + 1]
         /\ \A k : Held(list, k) <=> Within(Head(list), k) \/ Held(Tail(list), k)
         /\ \A k : Twice(Tail(list), k) => Twice(list, k)
         /\ \A p : EndBy(list, p) => EndBy(Tail(list), p) /\ Head(list).to <= p
         /\ Ordered(list) => Ordered(Tail(list)) /\ BeginAt(Tail(list), Head(list).to)
         /\ CutUp(list) => CutUp(Tail(list)) /\ Cut(Head(list))
<1>1. PICK h, r, n : h = Head(list) /\ r = Tail(list) /\ n = Len(list)  OBVIOUS
<1>2. n \in Nat /\ n # 0 /\ DOMAIN list = 1 .. n /\ h = list[1]  BY <1>1
<1>3. r \in Seq(T) /\ Len(r) = n - 1  BY <1>1, <1>2
<1>4. \A i \in 1 .. n - 1 : r[i] = list[i + 1]  BY <1>1, <1>2
<1>5. DOMAIN r = 1 .. n - 1  BY <1>3
<1>6. /\ 1 \in DOMAIN list
      /\ \A i \in DOMAIN r : i + 1 \in DOMAIN list /\ r[i] = list[i + 1]
      /\ \A i \in DOMAIN list : i = 1 \/ (i - 1 \in DOMAIN r /\ list[i] = r[i - 1])
      /\ \A i, j \in DOMAIN r : i + 1 # 1 /\ 1 < i + 1 /\ (i # j => i + 1 # j + 1) /\ (i < j => i + 1 < j + 1)
  <2>1. \A i \in 1 .. n : i = 1 \/ (i - 1 \in 1 .. n - 1 /\ (i - 1) + 1 = i)  BY <1>2
  <2>2. \A i \in DOMAIN list : i = 1 \/ (i - 1 \in DOMAIN r /\ list[i] = r[i - 1])
    BY <1>2, <1>4, <1>5, <2>1
  <2>3. \A i \in 1 .. n - 1 : i + 1 \in 1 .. n  BY <1>2
  <2> QED  BY <1>2, <1>4, <1>5, <2>2, <2>3
<1>7. h \in T  BY <1>2, <1>6
<1>8. \A k : Held(list, k) <=> Within(h, k) \/ Held(r, k)  BY <1>2, <1>6 DEF Held
<1>9. \A k : Twice(r, k) => Twice(list, k)  BY <1>6 DEF Twice
<1>10. \A p : EndBy(list, p) => EndBy(r, p) /\ h.to <= p  BY <1>2, <1>6 DEF EndBy
<1>11. Ordered(list) => Ordered(r) /\ BeginAt(r, h.to)  BY <1>2, <1>6 DEF Ordered, BeginAt
<1>12. CutUp(list) => CutUp(r) /\ Cut(h)  BY <1>2, <1>6 DEF CutUp
<1> QED  BY <1>1, <1>2, <1>3, <1>6, <1>7, <1>8, <1>9, <1>10, <1>11, <1>12

\* What a turn of the loop over a word may find: every letter it gives up is found or lost, and
\* one it finds and does not give up may be found again.
Gives(f, next, m) ==
  LET end == IF next <= cur.to THEN m ELSE cur.to
  IN /\ f \in Seq(ParsedTokens) /\ BeginAt(f, mark) /\ EndBy(f, Least(next, cur.to))
     /\ next \in Nat /\ m \in Nat /\ mark <= m /\ pos <= next /\ m <= next /\ next <= cur.to + 1
     /\ \A k \in mark .. end - 1 : Letter(k) => Held(f, k) \/ Lost(k)
     /\ \A k : Letter(k) /\ Twice(f, k) => MayDouble(k)
     /\ next <= cur.to => \A k \in m .. next - 1 : Letter(k) /\ Held(f, k) => MayDouble(k)

LEMMA ParsePhases ==
  ASSUME RunesInv, phase = "parse" \/ phase = "simplify" \/ phase = "done",
         phase' = "parse" \/ phase' = "simplify" \/ phase' = "done", UNCHANGED <<variant, runes>>
  PROVE  /\ RunesInv' /\ ScanInv' /\ (Bare' <=> Bare)
         /\ phase' = "parse" => KeptInv'
         /\ phase' = "simplify" => ParseInv'
         /\ phase' = "done" => KeptInv' /\ ParseInv'
  BY TextKept DEF RunesInv, ScanInv, KeptInv, ParseInv

LEMMA WordMoves ==
  ASSUME TokensInv, Bare, phase = "parse", cur # NoToken, pos <= cur.to,
         NEW f, NEW next, NEW m, NEW n, Gives(f, next, m), Parse(f, next, m, n)
  PROVE  TokensInv'
<1>1. /\ parsed' = parsed \o f /\ pos' = next /\ mark' = m
      /\ UNCHANGED <<variant, runes, phase, tokens, cur>>
  BY DEF Parse
<1>2. PICK old, new : old = parsed /\ new = parsed'  OBVIOUS
<1>3. PICK low, top : low = mark /\ top = cur.to  OBVIOUS
<1>4. /\ old \in Seq(ParsedTokens) /\ f \in Seq(ParsedTokens) /\ new = old \o f
      /\ low \in Nat /\ top \in Nat /\ pos \in Nat /\ next \in Nat /\ m \in Nat
      /\ low <= m /\ pos <= next /\ m <= next /\ next <= top + 1 /\ pos <= top /\ low <= pos
      /\ BeginAt(f, low) /\ EndBy(f, Least(next, top)) /\ EndBy(old, Least(pos, top))
      /\ cur \in ScanTokens
  BY <1>1, <1>2, <1>3 DEF TokensInv, ParseInv, CurInv, Gives, ScanTokens
<1>5. /\ new \in Seq(ParsedTokens)
      /\ \A k : Held(new, k) <=> Held(old, k) \/ Held(f, k)
      /\ \A k : Twice(new, k) => Twice(old, k) \/ Twice(f, k) \/ (Held(old, k) /\ Held(f, k))
      /\ \A p : EndBy(new, p) <=> EndBy(old, p) /\ EndBy(f, p)
  BY <1>4, JoinedHolds
<1>6. /\ \A i \in DOMAIN old : old[i].from \in Nat /\ old[i].to \in Nat
      /\ \A i \in DOMAIN f : f[i].from \in Nat /\ f[i].to \in Nat
  BY <1>4, ParsedTyped
<1>20. /\ Least(pos, top) \in Nat /\ Least(next, top) \in Nat
       /\ Least(pos, top) <= pos /\ Least(pos, top) <= Least(next, top)
       /\ Least(next, top) <= top
  BY <1>4 DEF Least
<1>21. PICK here \in Nat, there \in Nat :
         /\ here = Least(pos, top) /\ there = Least(next, top)
         /\ here <= pos /\ here <= there /\ there <= top
  BY <1>20
<1>7. /\ \A k : Held(old, k) => k < pos /\ k \in Nat
      /\ \A k : Held(f, k) => low <= k
      /\ \A k : Held(new, k) => k \in Nat
  <2>1. \A k : Held(old, k) => k < pos /\ k \in Nat
    <3>1. EndBy(old, here)  BY <1>4, <1>21
    <3>2. ASSUME NEW k, NEW i \in DOMAIN old, Within(old[i], k)  PROVE k < pos /\ k \in Nat
      <4>1. old[i].to <= here /\ old[i].from \in Nat /\ old[i].to \in Nat
        BY <1>6, <3>1, <3>2 DEF EndBy
      <4> QED  BY <1>4, <1>21, <3>2, <4>1 DEF Within
    <3> QED  BY <3>2 DEF Held
  <2>2. \A k : Held(f, k) => low <= k /\ k \in Nat
    <3>1. ASSUME NEW k, NEW i \in DOMAIN f, Within(f[i], k)  PROVE low <= k /\ k \in Nat
      <4>1. low <= f[i].from /\ f[i].from \in Nat /\ f[i].to \in Nat
        BY <1>4, <1>6, <3>1 DEF BeginAt
      <4> QED  BY <1>4, <3>1, <4>1 DEF Within
    <3> QED  BY <3>1 DEF Held
  <2> QED  BY <1>5, <2>1, <2>2
\* A letter that both held is in hand, and was passed.
<1>8. \A k : Letter(k) /\ k \in low .. pos - 1 /\ Held(old, k) => MayDouble(k)
  BY <1>2, <1>3, <1>4 DEF TokensInv, ParseInv, CurInv
<1>9. \A k : Letter(k) /\ Held(old, k) /\ low <= k => MayDouble(k)
  <2>1. \A k : Held(old, k) /\ low <= k => k \in low .. pos - 1  BY <1>4, <1>7
  <2> QED  BY <1>8, <2>1
<1>10. \A k : Letter(k) /\ Twice(new, k) => MayDouble(k)
  <2>1. \A k : Letter(k) /\ Twice(old, k) => MayDouble(k)  BY <1>2 DEF TokensInv, ParseInv
  <2>2. \A k : Letter(k) /\ Twice(f, k) => MayDouble(k)  BY DEF Gives
  <2>3. \A k : Letter(k) /\ Held(old, k) /\ Held(f, k) => MayDouble(k)  BY <1>7, <1>9
  <2> QED  BY <1>5, <2>1, <2>2, <2>3
<1>11. EndBy(new, Least(next, top))
  <2>1. EndBy(old, Least(next, top))  BY <1>4, <1>6, <1>21 DEF EndBy
  <2> QED  BY <1>4, <1>5, <2>1
<1>12. \A j \in DOMAIN tokens : EndBy(new, tokens[j].from)
  <2>1. ASSUME NEW j \in DOMAIN tokens  PROVE EndBy(f, tokens[j].from)
    <3>1. tokens[j].from \in Nat  BY <2>1 DEF TokensInv, ParseInv, ScanTokens
    <3>2. top <= tokens[j].from  BY <1>3, <2>1 DEF TokensInv, ParseInv, CurInv, BeginAt
    <3> QED  BY <1>4, <1>6, <1>21, <3>1, <3>2 DEF EndBy
  <2>2. \A j \in DOMAIN tokens : EndBy(old, tokens[j].from)
    BY <1>2 DEF TokensInv, ParseInv
  <2> QED  BY <1>5, <2>1, <2>2
<1>13. /\ \A k : Letter(k)' <=> Letter(k)
       /\ \A k : Lost(k)' <=> Lost(k)
       /\ \A k : MayDouble(k)' <=> MayDouble(k)
       /\ \A t : t \in ParsedTokens' <=> t \in ParsedTokens
       /\ \A t : Cut(t)' <=> Cut(t)
       /\ Size' = Size
  BY <1>1, LettersKept, TextKept
<1>14. ParsedTokens' = ParsedTokens  BY <1>13
<1>15. \A k : Letter(k) =>
         \/ Held(tokens, k) \/ (next <= top /\ k \in m .. top - 1) \/ Held(new, k) \/ Lost(k)
  <2> SUFFICES ASSUME NEW k, Letter(k), ~Held(tokens, k), ~Held(new, k), ~Lost(k)
               PROVE  next <= top /\ k \in m .. top - 1
    OBVIOUS
  <2>1. k \in low .. top - 1
    BY <1>2, <1>3, <1>5 DEF TokensInv, ParseInv, InWordYet
  <2>2. k \notin low .. (IF next <= top THEN m ELSE top) - 1
    BY <1>3, <1>5 DEF Gives
  <2> QED  BY <1>4, <2>1, <2>2
<1>16. next <= top => \A k \in m .. next - 1 : Letter(k) /\ Held(new, k) => MayDouble(k)
  <2>1. \A k \in m .. next - 1 : low <= k  BY <1>4
  <2>2. next <= top => \A k \in m .. next - 1 : Letter(k) /\ Held(f, k) => MayDouble(k)
    BY <1>3 DEF Gives
  <2> QED  BY <1>5, <1>9, <2>1, <2>2
<1>17. CurInv'
  <2>1. /\ cur.type = "Word" /\ Cut(cur) /\ cur.to <= Size /\ cur.from <= low
        /\ BeginAt(tokens, top) /\ cur.from \in Nat
    BY <1>3, <1>4 DEF TokensInv, ParseInv, CurInv, ScanTokens
  <2>2. cur.from <= m  BY <1>4, <2>1
  <2>3. Cut(cur)'  BY <1>1, <1>13, <2>1
  <2>4. BeginAt(tokens, cur.to)'  BY <1>1, <1>3, <2>1 DEF BeginAt
  <2>5. EndBy(parsed, Least(pos, cur.to))'  BY <1>1, <1>2, <1>3, <1>11 DEF EndBy, Least
  <2>6. \A k : Held(parsed, k)' <=> Held(new, k)  BY <1>2 DEF Held
  <2>7. (pos <= cur.to => \A k \in mark .. pos - 1 : Letter(k) /\ Held(parsed, k) => MayDouble(k))'
    BY <1>1, <1>3, <1>13, <1>16, <2>6
  <2> QED  BY <1>1, <1>3, <1>4, <1>13, <2>1, <2>2, <2>3, <2>4, <2>5, <2>7 DEF CurInv
<1>18. ParseInv'
  <2>1. /\ \A k : Held(parsed, k)' <=> Held(new, k)
        /\ \A k : Held(tokens, k)' <=> Held(tokens, k)
        /\ \A k : Twice(parsed, k)' <=> Twice(new, k)
    BY <1>1, <1>2 DEF Held, Twice, Within
  <2>2. \A k : InWordYet(k)' <=> (next <= top /\ k \in m .. top - 1)  BY <1>1, <1>3 DEF InWordYet
  <2>3. /\ tokens' = tokens /\ tokens \in Seq(ScanTokens) /\ Ordered(tokens) /\ CutUp(tokens)
        /\ EndBy(tokens, Size)
    BY <1>1 DEF TokensInv, ParseInv
  <2>4. CutUp(tokens)'  BY <1>13, <2>3 DEF CutUp
  <2>5. Ordered(tokens)' /\ EndBy(tokens, Size)'  BY <1>13, <2>3 DEF Ordered, EndBy
  <2>6. (\A j \in DOMAIN tokens : EndBy(parsed, tokens[j].from))'
    BY <1>2, <1>12, <2>3 DEF EndBy
  <2>7. parsed' \in Seq(ParsedTokens')  BY <1>2, <1>5, <1>14
  <2>8. \A k : Letter(k)' =>
          Held(tokens, k)' \/ InWordYet(k)' \/ Held(parsed, k)' \/ Lost(k)'
    BY <1>13, <1>15, <2>1, <2>2
  <2>9. \A k : Letter(k)' /\ Twice(parsed, k)' => MayDouble(k)'  BY <1>10, <1>13, <2>1
  <2> QED  BY <1>17, <2>3, <2>4, <2>5, <2>6, <2>7, <2>8, <2>9 DEF ParseInv
<1>19. RunesInv' /\ ScanInv' /\ KeptInv'  BY <1>1, ParsePhases DEF TokensInv
<1> QED  BY <1>18, <1>19 DEF TokensInv

\* What a turn of the loop has to work with.
WordFacts ==
  /\ cur # NoToken /\ phase = "parse"
  /\ pos \in Nat /\ mark \in Nat /\ cur.from \in Nat /\ cur.to \in Nat /\ Size \in Nat
  /\ cur.from <= mark /\ mark <= pos /\ pos <= cur.to /\ cur.to <= Size
  /\ \A k \in cur.from .. cur.to - 1 : ~Blank(k) /\ RuneAt(k) # Nil

LEMMA WordInHand ==
  ASSUME TokensInv, Bare, phase = "parse", cur # NoToken, pos <= cur.to
  PROVE  WordFacts
<1>1. /\ cur \in ScanTokens /\ cur.type = "Word" /\ Cut(cur) /\ cur.to <= Size
      /\ pos \in Nat /\ mark \in Nat /\ cur.from <= mark /\ mark <= pos
  BY DEF TokensInv, ParseInv, CurInv
<1>2. cur.from \in Nat /\ cur.to \in Nat  BY <1>1 DEF ScanTokens
<1>3. Size \in Nat /\ \A k : RuneAt(k) # Nil <=> k \in 0 .. Size - 1
  BY RunesOf DEF TokensInv, RunesInv
<1>4. \A k \in cur.from .. cur.to - 1 : k \in 0 .. Size - 1  BY <1>1, <1>2, <1>3
<1>5. \A k \in cur.from .. cur.to - 1 : ~Blank(k)  BY <1>1 DEF Cut, Within
<1> QED  BY <1>1, <1>2, <1>3, <1>4, <1>5 DEF WordFacts

LEMMA WordHere ==
  ASSUME TokensInv, Bare, NEW set, InWord(set), Nil \notin set
  PROVE  /\ WordFacts /\ pos < cur.to /\ Here = RuneAt(pos) /\ RuneAt(pos) \in set
         /\ ValueAt(cur, pos + 1) \in {Nil, RuneAt(pos + 1)}
         /\ ValueAt(cur, pos + 1) # Nil => pos + 1 < cur.to
<1>1. phase = "parse" /\ cur.type = "Word" /\ Here \in set  BY DEF InWord
<1>2. cur # NoToken  BY <1>1 DEF NoToken, Token
<1>3. /\ cur \in ScanTokens /\ pos \in Nat
  BY <1>1, <1>2 DEF TokensInv, ParseInv, CurInv
<1>4. cur.from \in Nat /\ cur.to \in Nat  BY <1>3 DEF ScanTokens
<1>5. pos \in cur.from .. cur.to - 1 /\ Here = RuneAt(pos)  BY <1>1 DEF Here, ValueAt
<1>6. pos < cur.to /\ pos <= cur.to  BY <1>3, <1>4, <1>5
<1>7. /\ ValueAt(cur, pos + 1) \in {Nil, RuneAt(pos + 1)}
      /\ ValueAt(cur, pos + 1) # Nil => pos + 1 \in cur.from .. cur.to - 1
  BY DEF ValueAt
<1>8. ValueAt(cur, pos + 1) # Nil => pos + 1 < cur.to  BY <1>3, <1>4, <1>7
<1> QED  BY <1>1, <1>2, <1>5, <1>6, <1>7, <1>8, WordInHand

\* What stands at the position follows every letter of the word before it.
LEMMA Follows ==
  ASSUME WordFacts, pos < cur.to, NEW set, RuneAt(pos) \in set
  PROVE  \A k \in mark .. pos - 1 : WordHas(k, set)
<1> SUFFICES ASSUME NEW k \in mark .. pos - 1  PROVE WordHas(k, set)
  OBVIOUS
<1>1. k < pos /\ pos \in k + 1 .. Size - 1  BY DEF WordFacts
<1>2. \A i \in k .. pos : i \in cur.from .. cur.to - 1  BY DEF WordFacts
<1>3. \A i \in k .. pos : RuneAt(i) \notin {Space, NewLine}  BY <1>2 DEF WordFacts, Blank
<1>4. SameWord(k, pos)  BY <1>1, <1>3 DEF SameWord
<1> QED  BY <1>1, <1>4 DEF WordHas

LEMMA ParsedToken ==
  ASSUME NEW type \in ParseTypes \ {"Space"}, NEW a \in Nat, NEW b \in Nat
  PROVE  /\ Token(type, a, b) \in ParsedTokens
         /\ Token(type, a, b).from = a /\ Token(type, a, b).to = b
BY DEF Token, ParsedTokens

\* The list holds just the runes from the mark to x, and its letters once, or with good reason.
Spans(f, x) ==
  /\ f \in Seq(ParsedTokens) /\ BeginAt(f, mark) /\ EndBy(f, x)
  /\ \A k : Held(f, k) <=> k \in mark .. x - 1
  /\ \A k : Letter(k) /\ Twice(f, k) => MayDouble(k)

LEMMA PlainSpans ==
  ASSUME WordFacts, NEW type \in {"Word", "Number"}
  PROVE  Spans(Plain(type), pos)
<1>1. pos \in Nat /\ mark \in Nat /\ mark <= pos  BY DEF WordFacts
<1>2. CASE pos = mark
  <2>1. Plain(type) = <<>> /\ <<>> \in Seq(ParsedTokens)  BY <1>2 DEF Plain
  <2>2. \A k : k \notin mark .. pos - 1  BY <1>1, <1>2
  <2> QED  BY <2>1, <2>2, NoneHolds DEF Spans
<1>3. CASE pos # mark
  <2>1. PICK t : t = Token(type, mark, pos)  OBVIOUS
  <2>2. t \in ParsedTokens /\ t.from = mark /\ t.to = pos
    BY <1>1, <2>1, ParsedToken DEF ParseTypes
  <2>3. Plain(type) = <<t>>  BY <1>3, <2>1 DEF Plain
  <2>4. <<t>> \in Seq(ParsedTokens)  BY <2>2
  <2>5. \A k : Within(t, k) <=> k \in mark .. pos - 1  BY <2>2 DEF Within
  <2>6. mark <= mark /\ pos <= pos  BY <1>1
  <2> QED  BY <2>2, <2>3, <2>4, <2>5, <2>6, OneHolds DEF Spans
<1> QED  BY <1>2, <1>3

LEMMA SpansOn ==
  ASSUME WordFacts, NEW f, Spans(f, pos), NEW type \in ParseTypes \ {"Space"},
         NEW x \in Nat, pos <= x
  PROVE  Spans(f \o <<Token(type, pos, x)>>, x)
<1>1. pos \in Nat /\ mark \in Nat /\ mark <= pos  BY DEF WordFacts
<1>2. PICK t : t = Token(type, pos, x)  OBVIOUS
<1>3. t \in ParsedTokens /\ t.from = pos /\ t.to = x  BY <1>1, <1>2, ParsedToken
<1>4. <<t>> \in Seq(ParsedTokens) /\ f \in Seq(ParsedTokens)  BY <1>3 DEF Spans
<1>5. PICK g : g = f \o <<t>>  OBVIOUS
<1>6. /\ g \in Seq(ParsedTokens)
      /\ \A k : Held(g, k) <=> Held(f, k) \/ Within(t, k)
      /\ \A k : Twice(g, k) => Twice(f, k) \/ (Held(f, k) /\ Within(t, k))
      /\ \A p : EndBy(g, p) <=> EndBy(f, p) /\ t.to <= p
      /\ \A p : BeginAt(g, p) <=> BeginAt(f, p) /\ p <= t.from
  BY <1>4, <1>5, JoinedHolds, OneHolds
<1>7. EndBy(f, x)
  <2>1. \A i \in DOMAIN f : f[i].to \in Nat  BY <1>4, ParsedTyped
  <2> QED  BY <1>1, <2>1 DEF Spans, EndBy
<1>8. \A k : Within(t, k) <=> k \in pos .. x - 1  BY <1>3 DEF Within
<1>9. \A k : k \in mark .. x - 1 <=> (k \in mark .. pos - 1 \/ k \in pos .. x - 1)  BY <1>1
<1>10. \A k : ~(k \in mark .. pos - 1 /\ k \in pos .. x - 1)  BY <1>1
<1>11. \A k : Held(g, k) <=> k \in mark .. x - 1  BY <1>6, <1>8, <1>9 DEF Spans
<1>12. \A k : Letter(k) /\ Twice(g, k) => MayDouble(k)
  BY <1>6, <1>8, <1>10 DEF Spans
<1>13. EndBy(g, x) /\ BeginAt(g, mark)  BY <1>1, <1>3, <1>6, <1>7 DEF Spans
<1> QED  BY <1>2, <1>5, <1>6, <1>11, <1>12, <1>13 DEF Spans

\* A list that holds all up to x may be what a turn finds, when it gives up no letter after x.
LEMMA SpanGives ==
  ASSUME WordFacts, NEW f, NEW x \in Nat, Spans(f, x), x <= cur.to,
         NEW next \in Nat, NEW m \in Nat, pos <= next, x <= next, m <= next, next <= cur.to + 1,
         mark <= m,
         m <= x + 1, m = x + 1 /\ next <= cur.to => (Letter(x) => Lost(x)),
         next > cur.to => x = cur.to,
         \A k \in m .. x - 1 : Letter(k) => MayDouble(k)
  PROVE  Gives(f, next, m)
<1>1. mark \in Nat /\ cur.to \in Nat /\ pos \in Nat  BY DEF WordFacts
<1>2. Least(next, cur.to) \in Nat /\ x <= Least(next, cur.to)  BY <1>1 DEF Least
<1>3. EndBy(f, Least(next, cur.to))
  <2>1. \A i \in DOMAIN f : f[i].to \in Nat
    <3>1. f \in Seq(ParsedTokens)  BY DEF Spans
    <3> QED  BY <3>1, ParsedTyped
  <2>2. EndBy(f, x)  BY DEF Spans
  <2> QED  BY <1>2, <2>1, <2>2 DEF EndBy
<1>4. PICK end \in Nat : end = IF next <= cur.to THEN m ELSE cur.to  BY <1>1
<1>5. \A k \in mark .. end - 1 : k \in mark .. x - 1 \/ (k = x /\ m = x + 1 /\ next <= cur.to)
  BY <1>1, <1>4
<1>6. \A k \in mark .. end - 1 : Letter(k) => Held(f, k) \/ Lost(k)  BY <1>5 DEF Spans
<1>7. \A k \in m .. next - 1 : Letter(k) /\ Held(f, k) => MayDouble(k)
  <2>1. \A k \in m .. next - 1 : k \in mark .. x - 1 => k \in m .. x - 1  BY <1>1
  <2> QED  BY <2>1 DEF Spans
<1>8. /\ f \in Seq(ParsedTokens) /\ BeginAt(f, mark)
      /\ \A k : Letter(k) /\ Twice(f, k) => MayDouble(k)
  BY DEF Spans
<1> QED  BY <1>3, <1>4, <1>6, <1>7, <1>8 DEF Gives

----------------------------------------------------------------------------
(* Tokenizer: the turns of the loop over a word *)

\* What a turn needs to find nothing, or all the letters before the position.
LEMMA NothingGives ==
  ASSUME WordFacts, pos < cur.to
  PROVE  Gives(<<>>, pos + 1, mark)
<1>1. pos \in Nat /\ mark \in Nat /\ cur.to \in Nat /\ mark <= pos  BY DEF WordFacts
<1>2. <<>> \in Seq(ParsedTokens)  OBVIOUS
<1>3. \A k \in mark .. mark - 1 : FALSE  BY <1>1
<1>4. pos + 1 <= cur.to /\ pos + 1 \in Nat /\ mark <= mark /\ pos <= pos + 1 /\ mark <= pos + 1
  BY <1>1
<1>5. pos + 1 <= cur.to + 1  BY <1>1
<1> QED  BY <1>1, <1>2, <1>3, <1>4, <1>5, NoneHolds DEF Gives

LEMMA TurnKeeps ==
  ASSUME TokensInv, Bare, WordFacts, NEW f, NEW next, NEW m, NEW n, Gives(f, next, m),
         Parse(f, next, m, n)
  PROVE  TokensInv'
BY WordMoves DEF WordFacts

\* The same for a list that holds all up to x, where the loop goes on at x or after the rune there.
LEMMA SpanKeeps ==
  ASSUME TokensInv, Bare, WordFacts, NEW f, NEW x \in Nat, pos <= x, x <= cur.to, Spans(f, x),
         NEW next \in Nat, next \in {x, x + 1}, NEW m \in Nat, m \in {x, next},
         NEW n, Parse(f, next, m, n),
         next = x + 1 /\ m = x + 1 /\ x < cur.to => (Letter(x) => Lost(x)),
         next > cur.to => x = cur.to
  PROVE  TokensInv'
<1>1. /\ pos \in Nat /\ mark \in Nat /\ cur.to \in Nat /\ mark <= pos
  BY DEF WordFacts
<1>2. /\ pos <= next /\ x <= next /\ m <= next /\ next <= cur.to + 1 /\ mark <= m /\ m <= x + 1
      /\ \A k \in m .. x - 1 : FALSE
  BY <1>1
<1>3. m = x + 1 /\ next <= cur.to => (Letter(x) => Lost(x))  BY <1>1
<1>4. Gives(f, next, m)  BY <1>2, <1>3, SpanGives
<1> QED  BY <1>4, TurnKeeps

LEMMA MentionTurn ==
  ASSUME TokensInv, Bare, ChatMention  PROVE TokensInv'
<1>1. InWord({"@", "#"}) /\ Nil \notin {"@", "#"}  BY DEF ChatMention, Nil
<1>2. WordFacts /\ pos < cur.to /\ RuneAt(pos) \in {"@", "#"}  BY <1>1, WordHere
<1>3. \/ Parse(<<>>, pos + 1, mark, num)
      \/ \E type \in {"MentionRole", "MentionUser", "MentionChannel"} :
           Parse(<<Token(type, pos, cur.to)>>, cur.to + 1, cur.to + 1, num)
  BY DEF ChatMention
<1>4. CASE Parse(<<>>, pos + 1, mark, num)
  BY <1>2, <1>4, NothingGives, TurnKeeps
<1>5. ASSUME NEW type \in {"MentionRole", "MentionUser", "MentionChannel"},
             Parse(<<Token(type, pos, cur.to)>>, cur.to + 1, cur.to + 1, num)
      PROVE  TokensInv'
  <2>1. PICK t : t = Token(type, pos, cur.to)  OBVIOUS
  <2>2. /\ pos \in Nat /\ mark \in Nat /\ cur.to \in Nat /\ mark <= pos
        /\ cur.to + 1 \in Nat
    BY <1>2 DEF WordFacts
  <2>3. t \in ParsedTokens /\ t.from = pos /\ t.to = cur.to
    BY <2>1, <2>2, ParsedToken DEF ParseTypes
  <2>4. <<t>> \in Seq(ParsedTokens)  BY <2>3
  <2>5. \A k \in mark .. cur.to - 1 : Held(<<t>>, k) \/ Lost(k)
    <3>1. \A k \in mark .. cur.to - 1 : k \in mark .. pos - 1 \/ k \in pos .. cur.to - 1
      BY <2>2
    <3>2. \A k \in mark .. pos - 1 : Lost(k)  BY <1>2, Follows DEF Lost
    <3>3. \A k \in pos .. cur.to - 1 : Held(<<t>>, k)  BY <2>3, OneHolds DEF Within
    <3> QED  BY <3>1, <3>2, <3>3
  <2>6. BeginAt(<<t>>, mark)  BY <2>2, <2>3, OneHolds
  <2>7. Least(cur.to + 1, cur.to) = cur.to /\ cur.to <= cur.to  BY <2>2 DEF Least
  <2>8. EndBy(<<t>>, Least(cur.to + 1, cur.to))  BY <2>3, <2>7, OneHolds
  <2>9. /\ mark <= cur.to + 1 /\ pos <= cur.to + 1 /\ cur.to + 1 <= cur.to + 1
        /\ ~(cur.to + 1 <= cur.to) /\ \A k \in cur.to + 1 .. (cur.to + 1) - 1 : FALSE
    BY <1>2, <2>2
  <2>10. Gives(<<t>>, cur.to + 1, cur.to + 1)
    BY <2>2, <2>4, <2>5, <2>6, <2>8, <2>9, OneHolds DEF Gives
  <2> QED  BY <1>2, <1>5, <2>1, <2>10, TurnKeeps
<1> QED  BY <1>3, <1>4, <1>5

LEMMA DigitTurn ==
  ASSUME TokensInv, Bare, ChatDigit  PROVE TokensInv'
<1>1. InWord({"9", "comma"}) /\ Nil \notin {"9", "comma"}  BY DEF ChatDigit, Nil
<1>2. WordFacts /\ pos < cur.to  BY <1>1, WordHere
<1>3. Parse(<<>>, pos + 1, mark, num) \/ Parse(Plain("Word"), pos + 1, pos, TRUE)
  BY DEF ChatDigit
<1>4. CASE Parse(<<>>, pos + 1, mark, num)
  BY <1>2, <1>4, NothingGives, TurnKeeps
<1>5. CASE Parse(Plain("Word"), pos + 1, pos, TRUE)
  <2>1. Spans(Plain("Word"), pos)  BY <1>2, PlainSpans
  <2>2. /\ pos \in Nat /\ pos + 1 \in Nat /\ pos <= pos /\ pos <= cur.to /\ pos # pos + 1
        /\ ~(pos + 1 > cur.to)
    BY <1>2 DEF WordFacts
  <2> QED  BY <1>2, <1>5, <2>1, <2>2, SpanKeeps
<1> QED  BY <1>3, <1>4, <1>5

LEMMA NumberSpans ==
  ASSUME WordFacts  PROVE Spans(<<Token("Number", mark, pos)>>, pos)
<1>1. PICK t : t = Token("Number", mark, pos)  OBVIOUS
<1>2. pos \in Nat /\ mark \in Nat /\ mark <= mark /\ pos <= pos  BY DEF WordFacts
<1>3. t \in ParsedTokens /\ t.from = mark /\ t.to = pos
  BY <1>1, <1>2, ParsedToken DEF ParseTypes
<1>4. <<t>> \in Seq(ParsedTokens)  BY <1>3
<1> QED  BY <1>1, <1>2, <1>3, <1>4, OneHolds DEF Spans, Within

LEMMA PointTurn ==
  ASSUME TokensInv, Bare, ChatPointInNumber  PROVE TokensInv'
<1>1. InWord({"."}) /\ Nil \notin {"."}  BY DEF ChatPointInNumber, Nil
<1>2. WordFacts /\ pos < cur.to /\ RuneAt(pos) = "."  BY <1>1, WordHere
<1>3. /\ pos \in Nat /\ mark \in Nat /\ cur.to \in Nat /\ mark <= pos /\ pos + 1 \in Nat
      /\ pos <= pos + 1 /\ pos <= pos /\ pos + 1 <= cur.to + 1 /\ mark <= pos + 1
      /\ pos + 1 <= pos + 1 /\ ~(pos + 1 > cur.to) /\ pos <= cur.to
      /\ \A k \in pos + 1 .. pos - 1 : FALSE
  BY <1>2 DEF WordFacts
<1>4. \/ Parse(<<>>, pos + 1, mark, TRUE)
      \/ Parse(<<Token("Number", mark, pos)>>, pos + 1, pos + 1, FALSE)
  BY DEF ChatPointInNumber
<1>5. CASE Parse(<<>>, pos + 1, mark, TRUE)
  BY <1>2, <1>5, NothingGives, TurnKeeps
<1>6. CASE Parse(<<Token("Number", mark, pos)>>, pos + 1, pos + 1, FALSE)
  <2>1. Spans(<<Token("Number", mark, pos)>>, pos)  BY <1>2, NumberSpans
  <2>2. ~Letter(pos)  BY <1>2, LetterShown
  <2> QED  BY <1>2, <1>3, <1>6, <2>1, <2>2, SpanKeeps
<1> QED  BY <1>4, <1>5, <1>6

LEMMA WordOrNumberSpans ==
  ASSUME WordFacts  PROVE Spans(WordOrNumber, pos)
<1>1. WordOrNumber = Plain("Word") \/ WordOrNumber = Plain("Number")  BY DEF WordOrNumber
<1> QED  BY <1>1, PlainSpans

\* The word so far and a token after it, where the loop goes on at its end or after the rune there.
LEMMA TokenTurn ==
  ASSUME TokensInv, Bare, WordFacts, NEW f, Spans(f, pos), NEW type \in ParseTypes \ {"Space"},
         NEW x \in Nat, pos <= x, x <= cur.to,
         NEW next \in Nat, next \in {x, x + 1}, NEW m \in Nat, m \in {x, next}, NEW n,
         Parse(f \o <<Token(type, pos, x)>>, next, m, n),
         next = x + 1 /\ m = x + 1 /\ x < cur.to => (Letter(x) => Lost(x))
  PROVE  TokensInv'
<1>1. Spans(f \o <<Token(type, pos, x)>>, x)  BY SpansOn
<1>2. next > cur.to => x = cur.to  BY DEF WordFacts
<1> QED  BY <1>1, <1>2, SpanKeeps

\* A letter after the end of a sentence is lost.
LEMMA AfterEnd ==
  ASSUME NEW p \in Nat, NEW end \in Nat, p <= end, NEW set,
         set \subseteq SentenceEnds \cup {"."}, RuneAt(p) \in set \cup SentenceEnds \cup {"."},
         NEW x \in Nat, p + 1 <= x, \A j \in p + 1 .. x - 1 : RuneAt(j) \in set
  PROVE  Lost(x)
<1>1. x - 1 = p \/ x - 1 \in p + 1 .. x - 1  OBVIOUS
<1>2. RuneAt(x - 1) \in SentenceEnds \cup {"."}  BY <1>1
<1> QED  BY <1>2 DEF Lost

LEMMA PeriodTurn ==
  ASSUME TokensInv, Bare, ChatPeriod  PROVE TokensInv'
<1> DEFINE set == SentenceEnds \cup {"."}
<1>1. PICK dots, end : dots = SkipAll(pos + 1, cur.to, {"."}) /\ end = SkipAll(pos + 1, cur.to, set)
  OBVIOUS
<1>2. InWord({"."}) /\ Nil \notin {"."}  BY DEF ChatPeriod, Nil
<1>3. WordFacts /\ pos < cur.to /\ RuneAt(pos) = "."  BY <1>2, WordHere
<1>4. /\ pos \in Nat /\ mark \in Nat /\ cur.to \in Nat /\ mark <= pos /\ pos + 1 \in Nat
      /\ pos + 1 <= cur.to
  BY <1>3 DEF WordFacts
<1>5. /\ dots \in pos + 1 .. cur.to
      /\ end \in pos + 1 .. cur.to /\ \A j \in pos + 1 .. end - 1 : RuneAt(j) \in set
  BY <1>1, <1>4, SkipFound
<1>6. PICK f : f = Plain("Word")  OBVIOUS
<1>7. Spans(f, pos)  BY <1>3, <1>6, PlainSpans
<1>8. \/ Parse(f \o <<Token("Ellipsis", pos, dots)>>, dots + 1, dots, FALSE)
      \/ Parse(f \o <<Token("SentEnd", pos, end)>>, end + 1, end + 1, FALSE)
      \/ Parse(f \o <<Token("Period", pos, pos + 1)>>, pos + 1, pos + 1, FALSE)
  BY <1>1, <1>6 DEF ChatPeriod
<1>9. {"Ellipsis", "SentEnd", "Period"} \subseteq ParseTypes \ {"Space"}  BY DEF ParseTypes
<1>10. CASE Parse(f \o <<Token("Ellipsis", pos, dots)>>, dots + 1, dots, FALSE)
  <2>1. dots \in Nat /\ dots + 1 \in Nat /\ pos <= dots /\ dots <= cur.to /\ dots # dots + 1
    BY <1>4, <1>5
  <2> QED  BY <1>3, <1>7, <1>9, <1>10, <2>1, TokenTurn
<1>11. CASE Parse(f \o <<Token("SentEnd", pos, end)>>, end + 1, end + 1, FALSE)
  <2>1. end \in Nat /\ end + 1 \in Nat /\ pos <= end /\ pos + 1 <= end /\ end <= cur.to
    BY <1>4, <1>5
  <2>2. Lost(end)  BY <1>3, <1>4, <1>5, <2>1, AfterEnd
  <2> QED  BY <1>3, <1>7, <1>9, <1>11, <2>1, <2>2, TokenTurn
<1>12. CASE Parse(f \o <<Token("Period", pos, pos + 1)>>, pos + 1, pos + 1, FALSE)
  <2>1. pos <= pos + 1 /\ pos + 1 # (pos + 1) + 1  BY <1>4
  <2> QED  BY <1>3, <1>4, <1>7, <1>9, <1>12, <2>1, TokenTurn
<1> QED  BY <1>8, <1>10, <1>11, <1>12

LEMMA SentEndTurn ==
  ASSUME TokensInv, Bare, ChatSentEnd  PROVE TokensInv'
<1> DEFINE set == SentenceEnds \cup {"."}
<1>1. PICK end : end = SkipAll(pos + 1, cur.to, set)  OBVIOUS
<1>2. InWord(SentenceEnds) /\ Nil \notin SentenceEnds  BY DEF ChatSentEnd, Nil, SentenceEnds
<1>3. WordFacts /\ pos < cur.to /\ RuneAt(pos) \in SentenceEnds  BY <1>2, WordHere
<1>4. pos \in Nat /\ cur.to \in Nat /\ pos + 1 \in Nat /\ pos + 1 <= cur.to
  BY <1>3 DEF WordFacts
<1>5. end \in pos + 1 .. cur.to /\ \A j \in pos + 1 .. end - 1 : RuneAt(j) \in set
  BY <1>1, <1>4, SkipFound
<1>6. PICK f : f = WordOrNumber  OBVIOUS
<1>7. Spans(f, pos)  BY <1>3, <1>6, WordOrNumberSpans
<1>8. Parse(f \o <<Token("SentEnd", pos, end)>>, end + 1, end + 1, FALSE)
  BY <1>1, <1>6 DEF ChatSentEnd
<1>9. end \in Nat /\ end + 1 \in Nat /\ pos <= end /\ pos + 1 <= end /\ end <= cur.to
  BY <1>4, <1>5
<1>10. Lost(end)  BY <1>3, <1>4, <1>5, <1>9, AfterEnd
<1>11. "SentEnd" \in ParseTypes \ {"Space"}  BY DEF ParseTypes
<1> QED  BY <1>3, <1>7, <1>8, <1>9, <1>10, <1>11, TokenTurn

\* The bracket leaves the word in hand; all its letters may be found again.
LEMMA BracketTurn ==
  ASSUME TokensInv, Bare, ChatBracket  PROVE TokensInv'
<1>1. Nil \notin Brackets  BY Zenon DEF Nil, Brackets
<1>2. InWord(Brackets)  BY DEF ChatBracket
<1>3. WordFacts /\ pos < cur.to /\ RuneAt(pos) \in Brackets  BY <1>1, <1>2, WordHere
<1>4. /\ pos \in Nat /\ cur.to \in Nat /\ mark \in Nat /\ pos + 1 \in Nat /\ pos + 1 <= cur.to
      /\ mark <= pos /\ pos <= pos + 1 /\ mark <= mark /\ mark <= pos + 1 /\ pos + 1 <= pos + 1
      /\ pos + 1 <= cur.to + 1 /\ mark <= (pos + 1) + 1 /\ mark # (pos + 1) + 1
      /\ ~(pos + 1 > cur.to)
  BY <1>3 DEF WordFacts
<1>5. PICK f, g : f = WordOrNumber /\ g = f \o <<Token("Bracket", pos, pos + 1)>>  OBVIOUS
<1>6. Spans(g, pos + 1)
  <2>1. Spans(f, pos)  BY <1>3, <1>5, WordOrNumberSpans
  <2> QED  BY <1>3, <1>4, <1>5, <2>1, SpansOn DEF ParseTypes
<1>7. Parse(g, pos + 1, mark, FALSE)  BY <1>5 DEF ChatBracket
<1>8. \A k \in mark .. (pos + 1) - 1 : Letter(k) => MayDouble(k)
  <2>1. \A k \in mark .. (pos + 1) - 1 : k \in mark .. pos - 1 \/ k = pos  BY <1>4
  <2>2. ~Letter(pos)  BY <1>3, LetterShown
  <2>3. \A k \in mark .. pos - 1 : MayDouble(k)
    BY <1>3, Follows DEF MayDouble
  <2> QED  BY <2>1, <2>2, <2>3
<1>9. Gives(g, pos + 1, mark)  BY <1>3, <1>4, <1>6, <1>8, SpanGives
<1> QED  BY <1>3, <1>7, <1>9, TurnKeeps

\* A number before a closing quote is found twice; the quote follows its letters.
LEMMA QuoteTurn ==
  ASSUME TokensInv, Bare, ChatQuote  PROVE TokensInv'
<1>1. Nil \notin Quotes  BY Zenon DEF Nil, Quotes
<1>2. InWord(Quotes)  BY DEF ChatQuote
<1>3. WordFacts /\ pos < cur.to /\ RuneAt(pos) \in Quotes  BY <1>1, <1>2, WordHere
<1>4. /\ pos \in Nat /\ cur.to \in Nat /\ mark \in Nat /\ cur.from \in Nat /\ pos + 1 \in Nat
      /\ pos + 1 <= cur.to /\ mark <= pos /\ cur.from <= mark /\ pos <= pos + 1
      /\ pos <= cur.to /\ mark <= mark /\ mark <= pos + 1 /\ pos + 1 <= cur.to + 1
      /\ mark # pos + 1 /\ ~(pos + 1 > cur.to) /\ pos + 1 # (pos + 1) + 1
  BY <1>3 DEF WordFacts
<1>5. \A k \in mark .. pos - 1 : MayDouble(k)
  BY <1>3, Follows DEF MayDouble
<1> DEFINE opens == ValueAt(cur, pos - 1) \in {Space, Nil}
           closes == ~opens /\ ValueAt(cur, pos + 1) \in {Space, Nil}
<1>6. PICK number, word : /\ number = IF num THEN Plain("Number") ELSE <<>>
                          /\ word = IF closes THEN WordOrNumber ELSE <<>>
  OBVIOUS
<1>7. \/ (opens \/ closes)
           /\ Parse(number \o word \o <<Token("Quote", pos, pos + 1)>>, pos + 1, pos + 1, FALSE)
      \/ Parse(number, pos + 1, mark, FALSE)
  BY <1>6 DEF ChatQuote
<1>8. opens => pos = mark
  <2>1. pos > mark => pos - 1 \in cur.from .. cur.to - 1  BY <1>4
  <2>2. pos - 1 \in cur.from .. cur.to - 1 =>
          /\ RuneAt(pos - 1) # Nil /\ RuneAt(pos - 1) # Space
          /\ ValueAt(cur, pos - 1) = RuneAt(pos - 1)
    BY <1>3 DEF WordFacts, Blank, ValueAt
  <2> QED  BY <1>4, <2>1, <2>2
<1> HIDE DEF opens
<1>9. \A a : a = <<>> \/ Spans(a, pos) =>
        a \in Seq(ParsedTokens) /\ BeginAt(a, mark) /\ EndBy(a, pos)
          /\ (\A k : Held(a, k) => k \in mark .. pos - 1)
          /\ (\A k : Letter(k) /\ Twice(a, k) => MayDouble(k))
  <2>1. <<>> \in Seq(ParsedTokens)  OBVIOUS
  <2> QED  BY <2>1, NoneHolds DEF Spans
<1>10. /\ number = <<>> \/ Spans(number, pos)
       /\ word = <<>> \/ Spans(word, pos)
  BY <1>3, <1>6, PlainSpans, WordOrNumberSpans
<1>11. CASE (opens \/ closes)
              /\ Parse(number \o word \o <<Token("Quote", pos, pos + 1)>>, pos + 1, pos + 1, FALSE)
  <2>1. PICK a : a = number \o word  OBVIOUS
  <2>2. /\ number \in Seq(ParsedTokens) /\ word \in Seq(ParsedTokens)
        /\ BeginAt(number, mark) /\ EndBy(number, pos)
        /\ BeginAt(word, mark) /\ EndBy(word, pos)
        /\ \A k : Held(number, k) => k \in mark .. pos - 1
        /\ \A k : Held(word, k) => k \in mark .. pos - 1
        /\ \A k : Letter(k) /\ Twice(number, k) => MayDouble(k)
        /\ \A k : Letter(k) /\ Twice(word, k) => MayDouble(k)
    BY <1>9, <1>10
  <2>3. /\ a \in Seq(ParsedTokens)
        /\ \A k : Held(a, k) <=> Held(number, k) \/ Held(word, k)
        /\ \A k : Twice(a, k) => \/ Twice(number, k) \/ Twice(word, k)
                                 \/ Held(number, k) /\ Held(word, k)
        /\ EndBy(a, pos) /\ BeginAt(a, mark)
    BY <2>1, <2>2, JoinedHolds
  <2>4. \A k \in mark .. pos - 1 : Held(a, k)
    <3>1. CASE closes
      <4>1. Spans(word, pos)  BY <1>3, <1>6, <3>1, WordOrNumberSpans
      <4> QED  BY <2>3, <4>1 DEF Spans
    <3>2. CASE opens  BY <1>4, <1>8, <3>2
    <3> QED  BY <1>11, <3>1, <3>2
  <2>5. Spans(a, pos)  BY <1>5, <2>2, <2>3, <2>4 DEF Spans
  <2>6. Parse(a \o <<Token("Quote", pos, pos + 1)>>, pos + 1, pos + 1, FALSE)  BY <1>11, <2>1
  <2>7. "Quote" \in ParseTypes \ {"Space"}  BY DEF ParseTypes
  <2> QED  BY <1>3, <1>4, <2>5, <2>6, <2>7, TokenTurn
<1>12. CASE Parse(number, pos + 1, mark, FALSE)
  <2>1. CASE number = <<>>  BY <1>3, <1>12, <2>1, NothingGives, TurnKeeps
  <2>2. CASE Spans(number, pos)
    <3>1. Gives(number, pos + 1, mark)  BY <1>3, <1>4, <1>5, <2>2, SpanGives
    <3> QED  BY <1>3, <1>12, <3>1, TurnKeeps
  <2> QED  BY <1>10, <2>1, <2>2
<1> QED  BY <1>7, <1>11, <1>12

LEMMA EndTurn ==
  ASSUME TokensInv, Bare, ChatEnd  PROVE TokensInv'
<1>1. phase = "parse" /\ cur.type = "Word" /\ pos = cur.to  BY DEF ChatEnd, InWord
<1>2. cur # NoToken  BY <1>1 DEF NoToken, Token
<1>3. pos <= cur.to
  <2>1. pos \in Nat  BY <1>1, <1>2 DEF TokensInv, ParseInv, CurInv
  <2> QED  BY <1>1, <2>1
<1>4. WordFacts  BY <1>1, <1>2, <1>3, WordInHand
<1>5. Spans(WordOrNumber, pos)  BY <1>4, WordOrNumberSpans
<1>6. PICK f : f = WordOrNumber  OBVIOUS
<1>7. Parse(f, pos + 1, mark, FALSE)  BY <1>6 DEF ChatEnd
<1>8. /\ pos \in Nat /\ mark \in Nat /\ mark <= pos /\ pos + 1 \in Nat /\ cur.to \in Nat
      /\ pos <= pos + 1 /\ mark <= pos + 1 /\ pos + 1 <= cur.to + 1 /\ mark <= mark
      /\ pos + 1 > cur.to /\ ~(pos + 1 <= cur.to) /\ mark # pos + 1
  BY <1>1, <1>4 DEF WordFacts
<1>9. Gives(f, pos + 1, mark)
  <2>1. Least(pos + 1, cur.to) = pos  BY <1>1, <1>8 DEF Least
  <2>2. \A k \in mark .. cur.to - 1 : Held(f, k)  BY <1>1, <1>5, <1>6 DEF Spans
  <2> QED  BY <1>5, <1>6, <1>8, <2>1, <2>2 DEF Gives, Spans
<1> QED  BY <1>4, <1>7, <1>9, TurnKeeps

LEMMA OtherTurn ==
  ASSUME TokensInv, Bare, ChatOther  PROVE TokensInv'
<1>1. phase = "parse" /\ cur.type = "Word" /\ pos < cur.to  BY DEF ChatOther
<1>2. cur # NoToken  BY <1>1 DEF NoToken, Token
<1>3. pos \in Nat /\ cur \in ScanTokens  BY <1>1, <1>2 DEF TokensInv, ParseInv, CurInv
<1>4. cur.to \in Nat  BY <1>3 DEF ScanTokens
<1>5. WordFacts  BY <1>1, <1>2, <1>3, <1>4, WordInHand
<1>6. \/ Parse(<<Token("Number", mark, pos)>>, pos + 1, pos, FALSE)
      \/ Parse(<<>>, pos + 1, mark, FALSE)
  BY DEF ChatOther
<1>7. CASE Parse(<<Token("Number", mark, pos)>>, pos + 1, pos, FALSE)
  <2>1. Spans(<<Token("Number", mark, pos)>>, pos)  BY <1>5, NumberSpans
  <2>2. /\ pos + 1 \in Nat /\ pos <= pos /\ pos <= cur.to /\ pos # pos + 1
        /\ ~(pos + 1 > cur.to)
    BY <1>1, <1>3, <1>4
  <2> QED  BY <1>3, <1>5, <1>7, <2>1, <2>2, SpanKeeps
<1>8. CASE Parse(<<>>, pos + 1, mark, FALSE)  BY <1>1, <1>5, <1>8, NothingGives, TurnKeeps
<1> QED  BY <1>6, <1>7, <1>8

----------------------------------------------------------------------------
(* Tokenizer: from the scan to the parser, and from one token to the next *)

LEMMA ScanEnds ==
  ASSUME TokensInv, ScanEnd  PROVE TokensInv'
<1> USE DEF TokensInv
<1>1. /\ phase = "scan" /\ pos = Size /\ phase' = "parse"
      /\ tokens' = tokens \o WordBefore \o <<Token("EOL", pos, pos)>>
      /\ UNCHANGED <<variant, runes, pos, mark, cur, parsed>>
  BY DEF ScanEnd
<1>2. pos \in Nat /\ mark \in Nat /\ mark <= pos /\ Size \in Nat /\ pos <= pos /\ pos <= Size
  BY <1>1, Scans
<1>3. Cut(Token("EOL", pos, pos))
  <2>1. PICK t : t = Token("EOL", pos, pos)  OBVIOUS
  <2>2. t.type = "EOL" /\ t.from = pos /\ t.to = pos
    BY <1>2, <2>1, TokenTyped DEF ScanTypes
  <2>3. \A k : ~Within(t, k)  BY <1>2, <2>2 DEF Within
  <2> QED  BY <2>1, <2>2, <2>3 DEF Cut
<1>4. PICK f, new : f = WordBefore \o <<Token("EOL", pos, pos)>> /\ new = tokens'
  OBVIOUS
<1>5. Finds(f, pos, pos)  BY <1>1, <1>2, <1>3, <1>4, WordAndToken DEF ScanTypes
<1>6. new = tokens \o f
  <2>1. WordBefore \in Seq(ScanTokens) /\ tokens \in Seq(ScanTokens)
    BY <1>1, WordFound DEF RunesInv
  <2>2. <<Token("EOL", pos, pos)>> \in Seq(ScanTokens)  BY <1>2, TokenTyped DEF ScanTypes
  <2>3. PICK w, e : w = WordBefore /\ e = <<Token("EOL", pos, pos)>>  OBVIOUS
  <2>4. (tokens \o w) \o e = tokens \o (w \o e)  BY <2>1, <2>2, <2>3, ConcatAssociative
  <2> QED  BY <1>1, <1>4, <2>3, <2>4
<1>7. /\ new \in Seq(ScanTokens) /\ Ordered(new) /\ EndBy(new, pos)
      /\ \A k \in 0 .. pos - 1 : Held(new, k) \/ RuneAt(k) = "tick"
      /\ Bare => CutUp(new)
  BY <1>1, <1>5, <1>6, ScanFound
<1>8. /\ \A k : Letter(k)' <=> Letter(k)
      /\ \A k : Lost(k)' <=> Lost(k)
      /\ \A t : Cut(t)' <=> Cut(t)
      /\ Size' = Size /\ (Bare' <=> Bare)
  BY <1>1, LettersKept, TextKept
<1>9. parsed' = <<>> /\ cur' = NoToken  BY <1>1 DEF RunesInv
<1>10. ASSUME Bare  PROVE ParseInv'
  <2>1. \A k : Letter(k) => Held(new, k)
    <3>1. \A k : Letter(k) => k \in 0 .. pos - 1 /\ RuneAt(k) # "tick"
      BY <1>1, <1>10 DEF Letter, Bare
    <3> QED  BY <1>7, <3>1
  <2>2. \A k : Letter(k)' => Held(tokens, k)'  BY <1>4, <1>8, <2>1 DEF Held
  <2>3. CutUp(tokens)'  BY <1>4, <1>7, <1>8, <1>10 DEF CutUp
  <2>4. tokens' \in Seq(ScanTokens) /\ Ordered(tokens)' /\ EndBy(tokens, Size)'
    <3>1. Ordered(tokens)'  BY <1>4, <1>7 DEF Ordered
    <3>2. EndBy(new, Size)  BY <1>1, <1>7
    <3>3. EndBy(tokens, Size)'  BY <1>4, <1>8, <3>2 DEF EndBy
    <3> QED  BY <1>4, <1>7, <3>1, <3>3
  <2>5. parsed' \in Seq(ParsedTokens')  BY <1>9
  <2>6. (\A k : ~Twice(parsed, k))' /\ (\A p : EndBy(parsed, p))'
    BY <1>9, NoneHolds DEF Twice, EndBy
  <2>7. CurInv'  BY <1>9 DEF CurInv
  <2> QED  BY <2>2, <2>3, <2>4, <2>5, <2>6, <2>7 DEF ParseInv
<1>11. RunesInv' /\ ScanInv' /\ KeptInv'
  BY <1>1, TextKept DEF RunesInv, ScanInv, KeptInv
<1>12. ~Bare => ParseInv'  BY <1>8 DEF ParseInv
<1> QED  BY <1>10, <1>11, <1>12

\* In a text without markup a word is parsed by the loop and what is no word is kept.
LEMMA ParsedAs ==
  ASSUME Bare, NEW t \in ScanTokens, Cut(t)
  PROVE  ParsedAtOnce(t) = IF t.type = "Word" THEN {} ELSE {<<t>>}
<1>1. t.type \in {"Word", "Space", "NewLine", "EOL"}  BY DEF Cut
<1>2. variant \in Chat  BY DEF Bare
<1>3. CASE t.type = "Word"
  <2>1. ~IsURL(t)
    <3>1. PICK prefix : prefix = <<"h", ":", "/", "/">>  OBVIOUS
    <3>2. 2 \in DOMAIN prefix /\ prefix[2] = ":"  BY <3>1
    <3>3. ValueAt(t, t.from + (2 - 1)) # ":"
      <4>1. \A p : RuneAt(p) # ":"  BY DEF Bare
      <4>2. \A p : ValueAt(t, p) \in {RuneAt(p), Nil}  BY DEF ValueAt
      <4>3. Nil # ":"  BY DEF Nil
      <4> QED  BY <4>1, <4>2, <4>3
    <3>4. ASSUME HasPrefix(t, prefix)  PROVE ValueAt(t, t.from + (2 - 1)) = ":"
      <4>1. \A i \in DOMAIN prefix : ValueAt(t, t.from + (i - 1)) = prefix[i]
        BY <3>4 DEF HasPrefix
      <4>2. ValueAt(t, t.from + (2 - 1)) = prefix[2]  BY <3>2, <4>1
      <4> QED  BY <3>2, <4>2
    <3> QED  BY <3>1, <3>3, <3>4 DEF IsURL
  <2> QED  BY <1>2, <1>3, <2>1 DEF ParsedAtOnce, Chat, Simple
<1>4. CASE t.type # "Word"  BY <1>1, <1>2, <1>4 DEF ParsedAtOnce, Chat, Simple
<1> QED  BY <1>3, <1>4

\* What the first token and the rest have to do with each other and with what is parsed.
LEMMA NextToken ==
  ASSUME TokensInv, Bare, phase = "parse", tokens # <<>>
  PROVE  LET t == Head(tokens)  r == Tail(tokens)
         IN /\ t \in ScanTokens /\ Cut(t) /\ t.to <= Size
            /\ r \in Seq(ScanTokens) /\ Ordered(r) /\ CutUp(r) /\ EndBy(r, Size)
            /\ BeginAt(r, t.to) /\ EndBy(parsed, t.from)
            /\ \A j \in DOMAIN r : EndBy(parsed, r[j].from)
            /\ \A k : Held(tokens, k) <=> Within(t, k) \/ Held(r, k)
<1>1. /\ tokens \in Seq(ScanTokens) /\ Ordered(tokens) /\ CutUp(tokens) /\ EndBy(tokens, Size)
      /\ \A j \in DOMAIN tokens : EndBy(parsed, tokens[j].from)
  BY DEF TokensInv, ParseInv
<1>2. PICK t, r : t = Head(tokens) /\ r = Tail(tokens)  OBVIOUS
<1>3. /\ t \in ScanTokens /\ 1 \in DOMAIN tokens /\ t = tokens[1] /\ r \in Seq(ScanTokens)
      /\ \A i \in DOMAIN r : i + 1 \in DOMAIN tokens /\ r[i] = tokens[i + 1]
      /\ \A k : Held(tokens, k) <=> Within(t, k) \/ Held(r, k)
      /\ EndBy(r, Size) /\ t.to <= Size
      /\ Ordered(r) /\ BeginAt(r, t.to) /\ CutUp(r) /\ Cut(t)
  BY <1>1, <1>2, TailHolds
<1>4. EndBy(parsed, t.from) /\ \A j \in DOMAIN r : EndBy(parsed, r[j].from)  BY <1>1, <1>3
<1> QED  BY <1>2, <1>3, <1>4

LEMMA AtOnceTurn ==
  ASSUME TokensInv, Bare, ParseAtOnce  PROVE TokensInv'
<1>1. PICK t, r : t = Head(tokens) /\ r = Tail(tokens)  OBVIOUS
<1>2. /\ phase = "parse" /\ cur = NoToken /\ tokens # <<>> /\ tokens' = r
      /\ UNCHANGED <<variant, runes, phase, pos, mark, cur>>
  BY <1>1 DEF ParseAtOnce
<1>3. /\ t \in ScanTokens /\ Cut(t) /\ t.to <= Size
      /\ r \in Seq(ScanTokens) /\ Ordered(r) /\ CutUp(r) /\ EndBy(r, Size)
      /\ BeginAt(r, t.to) /\ EndBy(parsed, t.from)
      /\ \A j \in DOMAIN r : EndBy(parsed, r[j].from)
      /\ \A k : Held(tokens, k) <=> Within(t, k) \/ Held(r, k)
  BY <1>1, <1>2, NextToken
<1>4. t.type # "Word" /\ parsed' = parsed \o <<t>>
  <2>1. PICK out \in ParsedAtOnce(t) : parsed' = parsed \o out  BY <1>1 DEF ParseAtOnce
  <2> QED  BY <1>3, <2>1, ParsedAs
<1>5. PICK old, new : old = parsed /\ new = parsed'  OBVIOUS
<1>6. t \in ParsedTokens
  <2>1. t.type \in {"Space", "NewLine", "EOL"} /\ \A k : Within(t, k) => Blank(k)
    BY <1>3, <1>4 DEF Cut
  <2>2. t \in [type : ParseTypes, from : Nat, to : Nat]
    BY <1>3, <2>1 DEF ScanTokens, ParseTypes
  <2> QED  BY <2>1, <2>2 DEF ParsedTokens
<1>7. old \in Seq(ParsedTokens) /\ <<t>> \in Seq(ParsedTokens) /\ new = old \o <<t>>
  BY <1>2, <1>4, <1>5, <1>6 DEF TokensInv, ParseInv
<1>8. /\ new \in Seq(ParsedTokens)
      /\ \A k : Held(new, k) <=> Held(old, k) \/ Within(t, k)
      /\ \A k : Twice(new, k) => Twice(old, k) \/ (Held(old, k) /\ Within(t, k))
      /\ \A p : EndBy(new, p) <=> EndBy(old, p) /\ t.to <= p
  BY <1>7, JoinedHolds, OneHolds
<1>9. \A k : ~(Held(old, k) /\ Within(t, k))
  <2> SUFFICES ASSUME NEW k, Held(old, k), Within(t, k)  PROVE FALSE
    OBVIOUS
  <2>1. t.from \in Nat /\ t.to \in Nat  BY <1>3 DEF ScanTokens
  <2>2. PICK i \in DOMAIN old : Within(old[i], k)  BY DEF Held
  <2>3. old[i].from \in Nat /\ old[i].to \in Nat /\ old[i].to <= t.from
    BY <1>3, <1>5, <1>7, <2>2, ParsedTyped DEF EndBy
  <2> QED  BY <2>1, <2>2, <2>3 DEF Within
<1>10. \A j \in DOMAIN r : EndBy(new, r[j].from)
  BY <1>3, <1>5, <1>8 DEF BeginAt
<1>11. /\ \A k : Letter(k)' <=> Letter(k)
       /\ \A k : Lost(k)' <=> Lost(k)
       /\ \A k : MayDouble(k)' <=> MayDouble(k)
       /\ \A u : u \in ParsedTokens' <=> u \in ParsedTokens
       /\ \A u : Cut(u)' <=> Cut(u)
       /\ Size' = Size
  BY <1>2, LettersKept, TextKept
<1>12. ParsedTokens' = ParsedTokens  BY <1>11
<1>13. \A k : Letter(k) => Held(r, k) \/ Held(new, k) \/ Lost(k)
  <2>1. \A k : Letter(k) => Held(tokens, k) \/ Held(old, k) \/ Lost(k)
    BY <1>2, <1>5 DEF TokensInv, ParseInv, InWordYet
  <2> QED  BY <1>3, <1>8, <2>1
<1>14. \A k : Letter(k) /\ Twice(new, k) => MayDouble(k)
  <2>1. \A k : Letter(k) /\ Twice(old, k) => MayDouble(k)
    BY <1>2, <1>5 DEF TokensInv, ParseInv
  <2> QED  BY <1>8, <1>9, <2>1
<1>15. ParseInv'
  <2>1. /\ \A k : Held(parsed, k)' <=> Held(new, k)
        /\ \A k : Held(tokens, k)' <=> Held(r, k)
        /\ \A k : Twice(parsed, k)' <=> Twice(new, k)
    BY <1>2, <1>5 DEF Held, Twice, Within
  <2>2. CutUp(tokens)'  BY <1>2, <1>3, <1>11 DEF CutUp
  <2>3. tokens' \in Seq(ScanTokens) /\ Ordered(tokens)' /\ EndBy(tokens, Size)'
    BY <1>2, <1>3, <1>11 DEF Ordered, EndBy
  <2>4. (\A j \in DOMAIN tokens : EndBy(parsed, tokens[j].from))'
    BY <1>2, <1>5, <1>10 DEF EndBy
  <2>5. parsed' \in Seq(ParsedTokens')  BY <1>5, <1>8, <1>12
  <2>6. CurInv'  BY <1>2 DEF CurInv
  <2>7. \A k : Letter(k)' => Held(tokens, k)' \/ InWordYet(k)' \/ Held(parsed, k)' \/ Lost(k)'
    BY <1>11, <1>13, <2>1
  <2>8. \A k : Letter(k)' /\ Twice(parsed, k)' => MayDouble(k)'  BY <1>11, <1>14, <2>1
  <2> QED  BY <2>2, <2>3, <2>4, <2>5, <2>6, <2>7, <2>8 DEF ParseInv
<1>16. RunesInv' /\ ScanInv' /\ KeptInv'  BY <1>2, ParsePhases DEF TokensInv
<1> QED  BY <1>15, <1>16 DEF TokensInv

\* A word is taken in hand.
LEMMA BeginTurn ==
  ASSUME TokensInv, Bare, BeginLoop  PROVE TokensInv'
<1>1. PICK t, r : t = Head(tokens) /\ r = Tail(tokens)  OBVIOUS
<1>2. /\ phase = "parse" /\ cur = NoToken /\ tokens # <<>> /\ tokens' = r /\ cur' = t
      /\ pos' = t.from /\ mark' = t.from /\ ParsedAtOnce(t) = {}
      /\ UNCHANGED <<variant, runes, phase, parsed>>
  BY <1>1 DEF BeginLoop
<1>3. /\ t \in ScanTokens /\ Cut(t) /\ t.to <= Size
      /\ r \in Seq(ScanTokens) /\ Ordered(r) /\ CutUp(r) /\ EndBy(r, Size)
      /\ BeginAt(r, t.to) /\ EndBy(parsed, t.from)
      /\ \A j \in DOMAIN r : EndBy(parsed, r[j].from)
      /\ \A k : Held(tokens, k) <=> Within(t, k) \/ Held(r, k)
  BY <1>1, <1>2, NextToken
<1>4. t.type = "Word" /\ t.from \in Nat /\ t.to \in Nat /\ t.from <= t.to
  <2>1. t.type = "Word"  BY <1>2, <1>3, ParsedAs
  <2> QED  BY <1>3, <2>1 DEF ScanTokens
<1>5. /\ \A k : Letter(k)' <=> Letter(k)
      /\ \A k : Lost(k)' <=> Lost(k)
      /\ \A k : MayDouble(k)' <=> MayDouble(k)
      /\ \A u : u \in ParsedTokens' <=> u \in ParsedTokens
      /\ \A u : Cut(u)' <=> Cut(u)
      /\ Size' = Size
  BY <1>2, LettersKept, TextKept
<1>6. ParsedTokens' = ParsedTokens  BY <1>5
<1>7. cur' # NoToken  BY <1>2, <1>4 DEF NoToken, Token
<1>8. /\ \A k : Held(tokens, k)' <=> Held(r, k)
      /\ \A k : Held(parsed, k)' <=> Held(parsed, k)
      /\ \A k : Twice(parsed, k)' <=> Twice(parsed, k)
      /\ \A p : EndBy(parsed, p)' <=> EndBy(parsed, p)
  BY <1>2 DEF Held, Twice, Within, EndBy
<1>9. \A k : InWordYet(k)' <=> Within(t, k)
  BY <1>2, <1>4, <1>7 DEF InWordYet, Within
<1>10. CurInv'
  <2>1. Cut(cur)' /\ BeginAt(tokens, cur.to)'  BY <1>2, <1>3, <1>5 DEF BeginAt
  <2>2. Least(pos, cur.to)' = t.from  BY <1>2, <1>4 DEF Least
  <2>3. (EndBy(parsed, Least(pos, cur.to)))'  BY <1>2, <1>3, <2>2 DEF EndBy
  <2>4. t.from <= t.from /\ t.from <= t.to + 1 /\ \A k \in t.from .. t.from - 1 : FALSE
    BY <1>4
  <2> QED  BY <1>2, <1>3, <1>4, <1>5, <2>1, <2>3, <2>4 DEF CurInv
<1>11. \A k : Letter(k)' => Held(tokens, k)' \/ InWordYet(k)' \/ Held(parsed, k)' \/ Lost(k)'
  <2>1. \A k : Letter(k) => Held(tokens, k) \/ Held(parsed, k) \/ Lost(k)
    BY <1>2 DEF TokensInv, ParseInv, InWordYet
  <2> QED  BY <1>3, <1>5, <1>8, <1>9, <2>1
<1>12. ParseInv'
  <2>1. CutUp(tokens)'  BY <1>2, <1>3, <1>5 DEF CutUp
  <2>2. tokens' \in Seq(ScanTokens) /\ Ordered(tokens)' /\ EndBy(tokens, Size)'
    BY <1>2, <1>3, <1>5 DEF Ordered, EndBy
  <2>3. (\A j \in DOMAIN tokens : EndBy(parsed, tokens[j].from))'
    BY <1>2, <1>3 DEF EndBy
  <2>4. parsed' \in Seq(ParsedTokens')  BY <1>2, <1>6 DEF TokensInv, ParseInv
  <2>5. \A k : Letter(k)' /\ Twice(parsed, k)' => MayDouble(k)'
    BY <1>2, <1>5, <1>8 DEF TokensInv, ParseInv
  <2> QED  BY <1>10, <1>11, <2>1, <2>2, <2>3, <2>4, <2>5 DEF ParseInv
<1>13. RunesInv' /\ ScanInv' /\ KeptInv'  BY <1>2, ParsePhases DEF TokensInv
<1> QED  BY <1>12, <1>13 DEF TokensInv

\* A word is done with: no letter of it is left in hand.
LEMMA LoopTurn ==
  ASSUME TokensInv, Bare, LoopEnds  PROVE TokensInv'
<1>1. /\ phase = "parse" /\ cur # NoToken /\ pos > cur.to /\ cur' = NoToken
      /\ UNCHANGED <<variant, runes, phase, tokens, parsed>>
  BY DEF LoopEnds
<1>2. /\ \A k : Letter(k)' <=> Letter(k)
      /\ \A k : Lost(k)' <=> Lost(k)
      /\ \A k : MayDouble(k)' <=> MayDouble(k)
      /\ \A u : u \in ParsedTokens' <=> u \in ParsedTokens
      /\ \A u : Cut(u)' <=> Cut(u)
      /\ Size' = Size
  BY <1>1, LettersKept, TextKept
<1>3. ParsedTokens' = ParsedTokens  BY <1>2
<1>4. /\ \A k : Held(tokens, k)' <=> Held(tokens, k)
      /\ \A k : Held(parsed, k)' <=> Held(parsed, k)
      /\ \A k : Twice(parsed, k)' <=> Twice(parsed, k)
  BY <1>1 DEF Held, Twice, Within
<1>5. \A k : ~InWordYet(k)
  <2>1. pos \in Nat /\ cur \in ScanTokens  BY <1>1 DEF TokensInv, ParseInv, CurInv
  <2>2. ~(pos <= cur.to)  BY <1>1, <2>1 DEF ScanTokens
  <2> QED  BY <2>2 DEF InWordYet
<1>6. \A k : Letter(k)' => Held(tokens, k)' \/ InWordYet(k)' \/ Held(parsed, k)' \/ Lost(k)'
  <2>1. \A k : Letter(k) => Held(tokens, k) \/ Held(parsed, k) \/ Lost(k)
    BY <1>1, <1>5 DEF TokensInv, ParseInv
  <2> QED  BY <1>2, <1>4, <2>1
<1>7. ParseInv'
  <2>1. CutUp(tokens)'  BY <1>1, <1>2 DEF CutUp, TokensInv, ParseInv
  <2>2. tokens' \in Seq(ScanTokens) /\ Ordered(tokens)' /\ EndBy(tokens, Size)'
    BY <1>1, <1>2 DEF Ordered, EndBy, TokensInv, ParseInv
  <2>3. (\A j \in DOMAIN tokens : EndBy(parsed, tokens[j].from))'
    BY <1>1 DEF EndBy, TokensInv, ParseInv
  <2>4. parsed' \in Seq(ParsedTokens')  BY <1>1, <1>3 DEF TokensInv, ParseInv
  <2>5. \A k : Letter(k)' /\ Twice(parsed, k)' => MayDouble(k)'
    BY <1>1, <1>2, <1>4 DEF TokensInv, ParseInv
  <2>6. CurInv'  BY <1>1 DEF CurInv
  <2> QED  BY <1>6, <2>1, <2>2, <2>3, <2>4, <2>5, <2>6 DEF ParseInv
<1>8. RunesInv' /\ ScanInv' /\ KeptInv'  BY <1>1, ParsePhases DEF TokensInv
<1> QED  BY <1>7, <1>8 DEF TokensInv

\* A space in the first place is dropped, which holds no letter.
LEMMA ParseDone ==
  ASSUME TokensInv, Bare, ParseEnds  PROVE TokensInv'
<1>1. /\ phase = "parse" /\ cur = NoToken /\ tokens = <<>> /\ phase' = "simplify"
      /\ parsed' = DropFirstSpace(parsed) /\ UNCHANGED <<variant, runes>>
  BY DEF ParseEnds
<1>2. PICK old, new : old = parsed /\ new = parsed'  OBVIOUS
<1>3. /\ old \in Seq(ParsedTokens)
      /\ \A k : Letter(k) => Held(old, k) \/ Lost(k)
      /\ \A k : Letter(k) /\ Twice(old, k) => MayDouble(k)
  BY <1>1, <1>2, NoneHolds DEF TokensInv, ParseInv, InWordYet
<1>4. \/ new = old
      \/ old # <<>> /\ Head(old).type = "Space" /\ new = Tail(old)
  BY <1>1, <1>2 DEF DropFirstSpace
<1>5. /\ new \in Seq(ParsedTokens)
      /\ \A k : Letter(k) /\ Held(old, k) => Held(new, k)
      /\ \A k : Twice(new, k) => Twice(old, k)
  <2>1. CASE new = old  BY <1>3, <2>1
  <2>2. CASE old # <<>> /\ Head(old).type = "Space" /\ new = Tail(old)
    <3>1. /\ Head(old) \in ParsedTokens /\ new \in Seq(ParsedTokens)
          /\ \A k : Held(old, k) <=> Within(Head(old), k) \/ Held(new, k)
          /\ \A k : Twice(new, k) => Twice(old, k)
      BY <1>3, <2>2, TailHolds
    <3>2. \A k : Within(Head(old), k) => Blank(k)  BY <2>2, <3>1 DEF ParsedTokens
    <3> QED  BY <3>1, <3>2, LetterShown
  <2> QED  BY <1>4, <2>1, <2>2
<1>6. /\ \A k : Letter(k)' <=> Letter(k)
      /\ \A k : Lost(k)' <=> Lost(k)
      /\ \A k : MayDouble(k)' <=> MayDouble(k)
      /\ \A u : u \in ParsedTokens' <=> u \in ParsedTokens
  BY <1>1, LettersKept
<1>7. ParsedTokens' = ParsedTokens  BY <1>6
<1>8. /\ \A k : Held(parsed, k)' <=> Held(new, k)
      /\ \A k : Twice(parsed, k)' <=> Twice(new, k)
  BY <1>2 DEF Held, Twice, Within
<1>9. KeptInv'
  <2>1. \A k : Letter(k)' => Held(parsed, k)' \/ Lost(k)'  BY <1>3, <1>5, <1>6, <1>8
  <2>2. \A k : Letter(k)' /\ Twice(parsed, k)' => MayDouble(k)'  BY <1>3, <1>5, <1>6, <1>8
  <2>3. parsed' \in Seq(ParsedTokens')  BY <1>2, <1>5, <1>7
  <2> QED  BY <2>1, <2>2, <2>3 DEF KeptInv
<1>10. RunesInv' /\ ScanInv' /\ ParseInv'  BY <1>1, ParsePhases DEF TokensInv
<1> QED  BY <1>9, <1>10 DEF TokensInv

----------------------------------------------------------------------------
(* Tokenizer: the inductive invariant, and what it says *)

LEMMA TokensStay ==
  ASSUME TokensInv, UNCHANGED tokenVars  PROVE TokensInv'
<1>1. UNCHANGED <<variant, runes, phase, pos, mark, tokens, cur, parsed>>  BY DEF tokenVars
<1>2. /\ \A k : RuneAt(k)' = RuneAt(k)
      /\ \A k : Blank(k)' <=> Blank(k)
      /\ \A t : Cut(t)' <=> Cut(t)
      /\ Size' = Size /\ (Prepared(runes)' <=> Prepared(runes)) /\ (Bare' <=> Bare)
      /\ \A k : Letter(k)' <=> Letter(k)
      /\ \A k : Lost(k)' <=> Lost(k)
      /\ \A k : MayDouble(k)' <=> MayDouble(k)
      /\ \A t : t \in ParsedTokens' <=> t \in ParsedTokens
  BY <1>1, TextKept, LettersKept
<1>3. ParsedTokens' = ParsedTokens  BY <1>2
<1>4. CutUp(tokens)' <=> CutUp(tokens)  BY <1>1, <1>2 DEF CutUp
<1>5. /\ \A k : InWordYet(k)' <=> InWordYet(k)
      /\ \A k : Held(tokens, k)' <=> Held(tokens, k)
      /\ \A k : Held(parsed, k)' <=> Held(parsed, k)
      /\ \A k : Twice(parsed, k)' <=> Twice(parsed, k)
      /\ \A p : EndBy(tokens, p)' <=> EndBy(tokens, p)
      /\ \A p : EndBy(parsed, p)' <=> EndBy(parsed, p)
      /\ Ordered(tokens)' <=> Ordered(tokens)
  BY <1>1 DEF InWordYet, Held, Twice, EndBy, Within, Ordered
<1>6. RunesInv'  BY <1>1, <1>2 DEF TokensInv, RunesInv
<1>7. ScanInv'
  <2>1. EndBy(tokens, mark)' <=> EndBy(tokens, mark)  BY <1>1 DEF EndBy
  <2> QED  BY <1>1, <1>2, <1>4, <1>5, <2>1 DEF TokensInv, ScanInv
<1>8. CurInv' <=> CurInv
  <2>1. /\ BeginAt(tokens, cur.to)' <=> BeginAt(tokens, cur.to)
        /\ EndBy(parsed, Least(pos, cur.to))' <=> EndBy(parsed, Least(pos, cur.to))
        /\ Cut(cur)' <=> Cut(cur)
    BY <1>1, <1>2 DEF BeginAt, EndBy, Least
  <2> QED  BY <1>1, <1>2, <1>5, <2>1 DEF CurInv
<1>9. ParseInv'
  <2>1. EndBy(tokens, Size)' <=> EndBy(tokens, Size)  BY <1>1, <1>2 DEF EndBy
  <2>2. (\A j \in DOMAIN tokens : EndBy(parsed, tokens[j].from))'
          <=> (\A j \in DOMAIN tokens : EndBy(parsed, tokens[j].from))
    BY <1>1 DEF EndBy
  <2> QED  BY <1>1, <1>2, <1>3, <1>4, <1>5, <1>8, <2>1, <2>2 DEF TokensInv, ParseInv
<1>10. KeptInv'  BY <1>1, <1>2, <1>3, <1>5 DEF TokensInv, KeptInv
<1> QED  BY <1>6, <1>7, <1>9, <1>10 DEF TokensInv

\* Simplifying and what ends it leave the parsed tokens alone.
LEMMA SimplifyKeeps ==
  ASSUME TokensInv, phase = "simplify", phase' = "simplify" \/ phase' = "done",
         UNCHANGED <<variant, runes, parsed>>
  PROVE  TokensInv'
<1>1. /\ \A k : Letter(k)' <=> Letter(k)
      /\ \A k : Lost(k)' <=> Lost(k)
      /\ \A k : MayDouble(k)' <=> MayDouble(k)
      /\ \A t : t \in ParsedTokens' <=> t \in ParsedTokens
      /\ (Bare' <=> Bare)
  BY TextKept, LettersKept
<1>2. ParsedTokens' = ParsedTokens  BY <1>1
<1>3. /\ \A k : Held(parsed, k)' <=> Held(parsed, k)
      /\ \A k : Twice(parsed, k)' <=> Twice(parsed, k)
  BY DEF Held, Twice, Within
<1>4. KeptInv'  BY <1>1, <1>2, <1>3 DEF TokensInv, KeptInv
<1>5. RunesInv' /\ ScanInv' /\ ParseInv'  BY ParsePhases DEF TokensInv
<1> QED  BY <1>4, <1>5 DEF TokensInv

\* About a text with markup the parser's steps have nothing to keep.
LEMMA MarkupKeeps ==
  ASSUME TokensInv, ~Bare, phase = "parse", phase' = "parse" \/ phase' = "simplify",
         UNCHANGED <<variant, runes>>
  PROVE  TokensInv'
<1>1. ~Bare'  BY TextKept
<1>2. ParseInv' /\ KeptInv'  BY <1>1 DEF ParseInv, KeptInv
<1>3. RunesInv' /\ ScanInv'  BY ParsePhases DEF TokensInv
<1> QED  BY <1>2, <1>3 DEF TokensInv

LEMMA ParseKeeps ==
  ASSUME TokensInv, ParseStep  PROVE TokensInv'
<1>1. /\ phase = "parse" /\ (phase' = "parse" \/ phase' = "simplify")
      /\ UNCHANGED <<variant, runes>>
  BY DEF ParseStep, ParseAtOnce, BeginLoop, ParseEnds, LoopEnds, MarkupBracket, MarkupOther,
         ChatMention, ChatDigit, ChatPointInNumber, ChatPeriod, ChatSentEnd, ChatBracket,
         ChatQuote, ChatEnd, ChatOther, InWord, InMarkup, Parse
<1>2. CASE Bare
  <2>1. ~InMarkup
    <3>1. NoToken.type # "Special"  BY DEF NoToken, Token
    <3> QED  BY <1>1, <1>2, <3>1 DEF InMarkup, TokensInv, ParseInv, CurInv
  <2> QED
    BY <1>2, <2>1, AtOnceTurn, BeginTurn, ParseDone, LoopTurn, MentionTurn, DigitTurn, PointTurn,
       PeriodTurn, SentEndTurn, BracketTurn, QuoteTurn, EndTurn, OtherTurn
       DEF ParseStep, MarkupBracket, MarkupOther
<1>3. CASE ~Bare  BY <1>1, <1>3, MarkupKeeps
<1> QED  BY <1>2, <1>3

LEMMA ScanKeeps ==
  ASSUME TokensInv, phase = "scan", phase' = "scan", UNCHANGED <<variant, runes>>,
         RunesInv', ScanInv'
  PROVE  TokensInv'
BY DEF TokensInv, ParseInv, KeptInv

LEMMA TokenizeKeeps ==
  ASSUME TokensInv, TokenizeNext  PROVE TokensInv'
<1>1. CASE ScanEnd  BY <1>1, ScanEnds
<1>2. CASE \/ ScanSpace \/ ScanTimestamp \/ ScanBrace \/ ScanCodeBlock \/ ScanCode
           \/ ScanColon \/ ScanOther
  <2>1. phase = "scan" /\ phase' = "scan" /\ UNCHANGED <<variant, runes>>
    BY <1>2 DEF ScanSpace, ScanTimestamp, ScanBrace, ScanCodeBlock, ScanCode, ScanColon,
                ScanOther, ScanOn, Scan, Scanning
  <2>2. RunesInv' /\ ScanInv'
    BY <1>2, SpaceScans, TimestampScans, BraceScans, CodeBlockScans, CodeScans, ColonScans,
       OtherScans DEF TokensInv
  <2> QED  BY <2>1, <2>2, ScanKeeps
<1>3. CASE ParseStep  BY <1>3, ParseKeeps
<1>4. CASE SimpleEnd \/ SimpleFiller \/ SimpleWord \/ SimpleNothing \/ SimplifyEnds
  <2>1. /\ phase = "simplify" /\ (phase' = "simplify" \/ phase' = "done")
        /\ UNCHANGED <<variant, runes, parsed>>
    BY <1>4 DEF SimpleEnd, SimpleFiller, SimpleWord, SimpleNothing, SimplifyEnds, Simplify,
                Simplifying
  <2> QED  BY <2>1, SimplifyKeeps
<1> QED  BY <1>1, <1>2, <1>3, <1>4 DEF TokenizeNext

\* A text that has just been prepared.
Fresh ==
  /\ Prepared(runes) /\ pos = 0 /\ mark = 0 /\ tokens = <<>> /\ cur = NoToken /\ parsed = <<>>
  /\ phase = IF runes = <<>> THEN "simplify" ELSE "scan"

LEMMA FreshTokens == Fresh => TokensInv
<1> SUFFICES ASSUME Fresh  PROVE TokensInv
  OBVIOUS
<1>1. Size \in Nat  BY RunesOf DEF Fresh
<1>2. RunesInv
  <2>1. phase # "waiting" /\ <<>> \in Seq(ScanTokens)  BY DEF Fresh
  <2> QED  BY <2>1 DEF Fresh, RunesInv
<1>3. ScanInv
  <2>1. CutUp(<<>>)  BY DEF CutUp
  <2>2. \A k \in 0 .. 0 - 1 : FALSE  OBVIOUS
  <2> QED  BY <1>1, <2>1, <2>2, NoneHolds DEF Fresh, ScanInv
<1>4. ParseInv  BY DEF Fresh, ParseInv
<1>5. KeptInv
  <2>1. phase = "simplify" => \A k : ~Letter(k)
    <3>1. runes = <<>> => Size = 0  BY DEF Size
    <3>2. phase = "simplify" => runes = <<>>  BY DEF Fresh
    <3> QED  BY <3>1, <3>2 DEF Letter
  <2>2. <<>> \in Seq(ParsedTokens)  OBVIOUS
  <2> QED  BY <2>1, <2>2 DEF Fresh, KeptInv
<1> QED  BY <1>2, <1>3, <1>4, <1>5 DEF TokensInv

LEMMA TextBegins ==
  ASSUME TextInit  PROVE TokensInv
<1>1. CASE TokenizeInit
  <2>1. \A t \in Texts : Prepared(TokenizePrep(t))  BY TextsTyped, PrepPrepares
  <2>2. Fresh  BY <1>1, <2>1 DEF TokenizeInit, Fresh
  <2> QED  BY <2>2, FreshTokens
<1>2. CASE /\ runes = <<>> /\ phase = "waiting" /\ pos = 0 /\ mark = 0 /\ tokens = <<>>
           /\ cur = NoToken /\ parsed = <<>>
  <2>1. Len(runes) = 0  BY <1>2
  <2>2. Prepared(runes)  BY <2>1 DEF Prepared
  <2> QED  BY <1>2, <2>2 DEF TokensInv, RunesInv, ScanInv, ParseInv, KeptInv
<1> QED  BY <1>1, <1>2 DEF TextInit

LEMMA LearnBegins ==
  ASSUME TokensInv, ReadInv, Learn  PROVE Fresh'
<1>1. PICK text : text = TokenizePrep(contents)  OBVIOUS
<1>2. /\ phase = "waiting" /\ runes' = text
      /\ phase' = IF text = <<>> THEN "simplify" ELSE "scan"
      /\ UNCHANGED <<pos, mark, tokens, cur, parsed>>
  BY <1>1 DEF Learn
<1>3. Prepared(text)
  <2>1. contents \in Seq(Characters)  BY DEF ReadInv, ReadTypeOK
  <2> QED  BY <1>1, <2>1, PrepPrepares
<1>4. pos = 0 /\ mark = 0 /\ tokens = <<>> /\ cur = NoToken /\ parsed = <<>>
  BY <1>2 DEF TokensInv, RunesInv
<1>5. Prepared(runes')  BY <1>2, <1>3
<1> QED  BY <1>2, <1>4, <1>5 DEF Fresh

LEMMA TokensInvariance == TextSpec => []TokensInv
<1>1. TextInit => TokensInv  BY TextBegins
<1>2. Fresh => TokensInv  BY FreshTokens
<1>3. ASSUME TokensInv, ReadInv, [TextNext]_textVars  PROVE TokensInv' \/ Fresh'
  <2>1. CASE Learn  BY <1>3, <2>1, LearnBegins
  <2>2. CASE UNCHANGED tokenVars  BY <1>3, <2>2, TokensStay
  <2>3. CASE TokenizeNext  BY <1>3, <2>3, TokenizeKeeps
  <2> QED  BY <1>3, <2>1, <2>2, <2>3 DEF TextNext, textVars
<1> QED  BY <1>1, <1>2, <1>3, ReadInvariance, PTL DEF TextSpec

LEMMA Holders ==
  ASSUME NEW T, NEW list \in Seq(T), NEW k
  PROVE  LET holders == {i \in DOMAIN list : Within(list[i], k)}
         IN /\ Held(list, k) <=> holders # {}
            /\ Cardinality(holders) \in Nat
            /\ Cardinality(holders) > 1 => Twice(list, k)
            /\ Held(list, k) /\ ~Twice(list, k) => Cardinality(holders) = 1
<1> DEFINE holders == {i \in DOMAIN list : Within(list[i], k)}
<1>1. IsFiniteSet(DOMAIN list)
  <2>1. DOMAIN list = 1 .. Len(list) /\ Len(list) \in Nat  OBVIOUS
  <2> QED  BY <2>1, FS_Interval
<1>2. /\ Cardinality(holders) \in Nat
      /\ Cardinality(holders) > 1 => \E i, j \in holders : i # j
      /\ holders # {} => Cardinality(holders) # 0
  <2>1. holders \in SUBSET DOMAIN list  OBVIOUS
  <2> HIDE DEF holders
  <2> QED  BY <1>1, <2>1, TwoOfMany
<1>3. (\E i, j \in holders : i # j) => Twice(list, k)  BY DEF Twice
<1>4. Held(list, k) <=> holders # {}  BY DEF Held
<1> HIDE DEF holders
<1>5. Held(list, k) /\ ~Twice(list, k) => Cardinality(holders) = 1
  BY <1>2, <1>3, <1>4
<1> QED  BY <1>2, <1>3, <1>4, <1>5 DEF holders

LEMMA OrderedOnce ==
  ASSUME NEW list \in Seq(ScanTokens), Ordered(list), NEW k
  PROVE  ~Twice(list, k)
<1> SUFFICES ASSUME NEW i \in DOMAIN list, NEW j \in DOMAIN list, i # j,
                    Within(list[i], k), Within(list[j], k)
             PROVE  FALSE
  BY DEF Twice
<1>1. i \in Nat /\ j \in Nat  OBVIOUS
<1>2. /\ list[i].from \in Nat /\ list[i].to \in Nat
      /\ list[j].from \in Nat /\ list[j].to \in Nat
  BY DEF ScanTokens
<1>3. CASE i < j
  <2>1. list[i].to <= list[j].from  BY <1>3 DEF Ordered
  <2> QED  BY <1>2, <2>1 DEF Within
<1>4. CASE j < i
  <2>1. list[j].to <= list[i].from  BY <1>4 DEF Ordered
  <2> QED  BY <1>2, <2>1 DEF Within
<1> QED  BY <1>1, <1>3, <1>4

\* Markup is begun by runes there are none of.
LEMMA NoMarkup ==
  ASSUME Prepared(runes), Count(0, Size, {"<", "tick", ":"}) = 0
  PROVE  \A k : RuneAt(k) \notin {"<", "tick", ":"}
<1> DEFINE marks == {k \in 0 .. Size - 1 : RuneAt(k) \in {"<", "tick", ":"}}
<1>1. Size \in Nat  BY RunesOf
<1>2. IsFiniteSet(0 .. Size - 1)
  <2>1. 0 \in Int /\ Size - 1 \in Int  BY <1>1
  <2> QED  BY <2>1, FS_Interval
<1>3. marks \in SUBSET (0 .. Size - 1) /\ Cardinality(marks) = 0  BY DEF Count
<1>4. marks = {}
  <2> HIDE DEF marks
  <2> QED  BY <1>2, <1>3, TwoOfMany
<1>5. \A k : k \notin 0 .. Size - 1 => RuneAt(k) = Nil  BY RunesOf
<1> QED  BY <1>4, <1>5 DEF Nil

\* The scan cuts every text up, and of a chat's text without markup the parser loses a letter
\* only at the end of a sentence or before an @ or a #, and doubles one only before a bracket or
\* a quote, for any texts and variants (Tokenize, parseWordForChat).
THEOREM RunesKept == TextSpec => []RunesAreKept
<1>1. ASSUME TokensInv  PROVE ScanCutsUpTheText
  <2> SUFFICES ASSUME phase = "scan"
               PROVE  /\ mark <= pos /\ pos <= Size
                      /\ \A i \in 1 .. Len(tokens) - 1 : tokens[i].to <= tokens[i + 1].from
                      /\ \A k \in 0 .. mark - 1 :
                           \/ Cardinality({i \in DOMAIN tokens : Within(tokens[i], k)}) = 1
                           \/ RuneAt(k) = "tick" /\ \A i \in DOMAIN tokens : ~Within(tokens[i], k)
    BY DEF ScanCutsUpTheText
  <2>1. tokens \in Seq(ScanTokens) /\ Ordered(tokens) /\ mark <= pos /\ pos <= Size
    BY <1>1 DEF TokensInv, RunesInv, ScanInv
  <2>2. ASSUME NEW i \in 1 .. Len(tokens) - 1  PROVE tokens[i].to <= tokens[i + 1].from
    <3>1. PICK list, n : list = tokens /\ n = Len(tokens)  OBVIOUS
    <3>2. n \in Nat /\ DOMAIN list = 1 .. n  BY <2>1, <3>1
    <3>3. i \in 1 .. n /\ i + 1 \in 1 .. n /\ i < i + 1  BY <2>2, <3>1, <3>2
    <3> QED  BY <2>1, <3>1, <3>2, <3>3 DEF Ordered
  <2>3. ASSUME NEW k \in 0 .. mark - 1
        PROVE  \/ Cardinality({i \in DOMAIN tokens : Within(tokens[i], k)}) = 1
               \/ RuneAt(k) = "tick" /\ \A i \in DOMAIN tokens : ~Within(tokens[i], k)
    <3>1. Held(tokens, k) \/ RuneAt(k) = "tick"  BY <1>1, <2>3 DEF TokensInv, ScanInv
    <3>2. CASE Held(tokens, k)  BY <2>1, <3>2, OrderedOnce, Holders
    <3>3. CASE ~Held(tokens, k)  BY <3>1, <3>3 DEF Held
    <3> QED  BY <3>2, <3>3
  <2> QED  BY <2>1, <2>2, <2>3
<1>2. ASSUME TokensInv  PROVE LettersAreKept
  <2> SUFFICES ASSUME phase = "simplify", variant \in Chat,
                      Count(0, Size, {"<", "tick", ":"}) = 0,
                      NEW k \in 0 .. Size - 1, RuneAt(k) \in Letters
               PROVE  LET holders == {i \in DOMAIN parsed : Within(parsed[i], k)}
                      IN /\ holders = {} =>
                              RuneAt(k - 1) \in SentenceEnds \cup {"."} \/ WordHas(k, {"@", "#"})
                         /\ Cardinality(holders) > 1 => WordHas(k, Brackets \cup Quotes)
    BY DEF LettersAreKept
  <2>1. Bare  BY <1>2, NoMarkup DEF TokensInv, RunesInv, Bare
  <2>2. Letter(k)  BY DEF Letter
  <2>3. /\ parsed \in Seq(ParsedTokens)
        /\ Held(parsed, k) \/ Lost(k)
        /\ Twice(parsed, k) => MayDouble(k)
    BY <1>2, <2>1, <2>2 DEF TokensInv, KeptInv
  <2> QED  BY <2>3, Holders DEF Lost, MayDouble
<1>3. TokensInv => RunesAreKept  BY <1>1, <1>2 DEF RunesAreKept
<1> QED  BY <1>3, TokensInvariance, PTL

----------------------------------------------------------------------------
(* Lists, whatever they are of, and the token that ends them *)

IsList(s) == \E T : s \in Seq(T)

LEMMA ListOf ==
  ASSUME NEW s, IsList(s)
  PROVE  /\ Len(s) \in Nat /\ DOMAIN s = 1 .. Len(s)
         /\ s = <<>> <=> Len(s) = 0
<1>1. PICK T : s \in Seq(T)  BY DEF IsList
<1> QED  BY <1>1

LEMMA ListJoined ==
  ASSUME NEW a, NEW b, IsList(a), IsList(b)
  PROVE  /\ IsList(a \o b) /\ Len(a) \in Nat /\ Len(b) \in Nat
         /\ Len(a \o b) = Len(a) + Len(b)
         /\ DOMAIN a = 1 .. Len(a) /\ DOMAIN b = 1 .. Len(b)
         /\ DOMAIN (a \o b) = 1 .. Len(a) + Len(b)
         /\ \A i \in 1 .. Len(a) : (a \o b)[i] = a[i]
         /\ \A i \in 1 .. Len(b) : (a \o b)[Len(a) + i] = b[i]
         /\ \A i \in 1 .. Len(a) + Len(b) :
              i \in 1 .. Len(a) \/ (i - Len(a) \in 1 .. Len(b) /\ (a \o b)[i] = b[i - Len(a)])
<1>1. PICK S : a \in Seq(S)  BY DEF IsList
<1>2. PICK T : b \in Seq(T)  BY DEF IsList
<1>3. ASSUME NEW U, NEW V, NEW s \in Seq(U), U \subseteq V  PROVE s \in Seq(V)
  <2>1. s = [i \in 1 .. Len(s) |-> s[i]] /\ Len(s) \in Nat  OBVIOUS
  <2>2. \A i \in 1 .. Len(s) : s[i] \in V  BY <1>3
  <2> QED  BY <2>1, <2>2
<1>4. PICK V : V = S \cup T  OBVIOUS
<1>5. S \subseteq V /\ T \subseteq V  BY <1>4
<1>6. a \in Seq(V)  BY <1>1, <1>3, <1>5
<1>7. b \in Seq(V)  BY <1>2, <1>3, <1>5
<1>8. PICK c : c = a \o b  OBVIOUS
<1>9. c \in Seq(V) /\ Len(c) = Len(a) + Len(b)  BY <1>6, <1>7, <1>8
<1>10. IsList(c)  BY <1>9 DEF IsList
<1> QED  BY <1>6, <1>7, <1>8, <1>9, <1>10, Joined

LEMMA ListTail ==
  ASSUME NEW s, IsList(s), s # <<>>
  PROVE  /\ IsList(Tail(s)) /\ Len(s) \in Nat /\ Len(s) # 0 /\ DOMAIN s = 1 .. Len(s)
         /\ Head(s) = s[1] /\ Len(Tail(s)) = Len(s) - 1 /\ DOMAIN Tail(s) = 1 .. Len(s) - 1
         /\ \A i \in 1 .. Len(s) - 1 : Tail(s)[i] = s[i + 1]
<1>1. PICK T : s \in Seq(T)  BY DEF IsList
<1>2. Len(s) \in Nat /\ Len(s) # 0 /\ DOMAIN s = 1 .. Len(s) /\ Head(s) = s[1]  BY <1>1
<1>3. PICK r : r = Tail(s)  OBVIOUS
<1>4. r \in Seq(T) /\ Len(r) = Len(s) - 1  BY <1>1, <1>2, <1>3
<1>5. \A i \in 1 .. Len(s) - 1 : r[i] = s[i + 1]  BY <1>1, <1>2, <1>3
<1>6. DOMAIN r = 1 .. Len(s) - 1 /\ IsList(r)  BY <1>4 DEF IsList
<1> QED  BY <1>2, <1>3, <1>4, <1>5, <1>6

LEMMA ShortLists ==
  /\ IsList(<<>>) /\ Len(<<>>) = 0
  /\ \A t : IsList(<<t>>) /\ Len(<<t>>) = 1 /\ <<t>>[1] = t
<1>1. <<>> \in Seq({})  OBVIOUS
<1>2. \A t : <<t>> \in Seq({t})  OBVIOUS
<1> QED  BY <1>1, <1>2 DEF IsList

Endless(list) == \A i \in DOMAIN list : list[i].type # "EOL"
EndsLast(list) == \A i \in DOMAIN list : list[i].type = "EOL" => i = Len(list)
Inner(list) == IsList(list) /\ Endless(list)

LEMMA InnerJoined ==
  ASSUME NEW a, NEW b, Inner(a), Inner(b)  PROVE Inner(a \o b)
<1>1. PICK c, m, n : c = a \o b /\ m = Len(a) /\ n = Len(b)  OBVIOUS
<1>2. /\ IsList(c) /\ DOMAIN a = 1 .. m /\ DOMAIN b = 1 .. n /\ DOMAIN c = 1 .. m + n
      /\ \A i \in 1 .. m : c[i] = a[i]
      /\ \A i \in 1 .. m + n : i \in 1 .. m \/ (i - m \in 1 .. n /\ c[i] = b[i - m])
  BY <1>1, ListJoined DEF Inner
<1> QED  BY <1>1, <1>2 DEF Inner, Endless

LEMMA InnerTokens ==
  /\ Inner(<<>>)
  /\ \A t : t.type # "EOL" => Inner(<<t>>)
  /\ \A type, a, b : type # "EOL" => Inner(<<Token(type, a, b)>>)
<1>1. Inner(<<>>)
  <2>1. DOMAIN <<>> = {}  OBVIOUS
  <2> QED  BY <2>1, ShortLists DEF Inner, Endless
<1>2. ASSUME NEW t, t.type # "EOL"  PROVE Inner(<<t>>)
  <2>1. DOMAIN <<t>> = {1} /\ <<t>>[1] = t  OBVIOUS
  <2>2. PICK list : list = <<t>>  OBVIOUS
  <2> QED  BY <1>2, <2>1, <2>2, ShortLists DEF Inner, Endless
<1>3. \A type, a, b : Token(type, a, b).type = type  BY DEF Token
<1> QED  BY <1>1, <1>2, <1>3

\* With an end put after it, an endless list ends last.
LEMMA EndPut ==
  ASSUME NEW list, Inner(list), NEW t
  PROVE  /\ IsList(list \o <<t>>) /\ EndsLast(list \o <<t>>)
         /\ (list \o <<t>>)[Len(list \o <<t>>)] = t
<1>1. PICK c, b, m : c = list \o b /\ b = <<t>> /\ m = Len(list)  OBVIOUS
<1>2. IsList(b) /\ Len(b) = 1 /\ b[1] = t  BY <1>1, ShortLists
<1>3. /\ IsList(c) /\ m \in Nat /\ Len(c) = m + 1 /\ DOMAIN c = 1 .. m + 1
      /\ DOMAIN list = 1 .. m /\ \A i \in 1 .. m : c[i] = list[i]
      /\ c[m + 1] = b[1]
  BY <1>1, <1>2, ListJoined DEF Inner
<1>4. EndsLast(c)
  <2>1. \A i \in 1 .. m + 1 : i \in 1 .. m \/ i = m + 1  BY <1>3
  <2> QED  BY <1>3, <2>1 DEF EndsLast, Inner, Endless
<1> QED  BY <1>1, <1>2, <1>3, <1>4

----------------------------------------------------------------------------
(* Tokenizer: the end of the text is the last token, and no other *)

EndInv ==
  /\ IsList(tokens) /\ IsList(parsed)
  /\ phase \in {"waiting", "scan"} => Endless(tokens)
  /\ phase = "parse" =>
       /\ tokens # <<>> =>
            Endless(parsed) /\ EndsLast(tokens) /\ tokens[Len(tokens)].type = "EOL"
       /\ tokens = <<>> => cur = NoToken
  /\ EndsLast(parsed)

LEMMA EndlessEndsLast ==
  ASSUME NEW list, Endless(list)  PROVE EndsLast(list)
BY DEF Endless, EndsLast

LEMMA WordInner == Inner(WordBefore)
<1>1. Inner(<<Token("Word", mark, pos)>>) /\ Inner(<<>>)
  BY InnerTokens
<1> QED  BY <1>1 DEF WordBefore

LEMMA WordThenInner ==
  ASSUME NEW type, type # "EOL", NEW a, NEW b  PROVE Inner(WordBefore \o <<Token(type, a, b)>>)
<1>1. Inner(<<Token(type, a, b)>>)  BY InnerTokens
<1> QED  BY <1>1, WordInner, InnerJoined

\* What a turn of the scan finds is not the end.
LEMMA ScanInner ==
  ASSUME \/ ScanSpace \/ ScanTimestamp \/ ScanBrace \/ ScanCodeBlock \/ ScanCode
         \/ ScanColon \/ ScanOther
  PROVE  /\ phase = "scan"
         /\ \E f, next, m : Inner(f) /\ Scan(f, next, m)
<1>1. phase = "scan"
  BY DEF ScanSpace, ScanTimestamp, ScanBrace, ScanCodeBlock, ScanCode, ScanColon, ScanOther,
         Scanning
<1>2. CASE ScanOn  BY <1>1, <1>2, InnerTokens DEF ScanOn
<1>3. CASE ScanSpace
  <2>1. PICK type : type = IF RuneAt(pos) = NewLine THEN "NewLine" ELSE "Space"  OBVIOUS
  <2>2. Scan(WordBefore \o <<Token(type, pos, pos + 1)>>, pos + 1, pos + 1) /\ type # "EOL"
    BY <1>3, <2>1 DEF ScanSpace
  <2> QED  BY <1>1, <2>2, WordThenInner
<1>4. CASE ScanTimestamp
  <2>1. PICK end : end = PeekUntil(pos + 1, Size, {")"})  OBVIOUS
  <2>2. ScanOn \/ Scan(<<Token("Special", pos, end + 1)>>, end + 1, end + 1)
    BY <1>4, <2>1 DEF ScanTimestamp
  <2>3. Inner(<<Token("Special", pos, end + 1)>>)  BY InnerTokens
  <2> QED  BY <1>1, <1>2, <2>2, <2>3
<1>5. CASE ScanBrace
  <2>1. PICK end : end = PeekUntil(pos + 1, Size, {">"})  OBVIOUS
  <2>2. ScanOn \/ Scan(WordBefore \o <<Token("Special", pos, end + 1)>>, end + 1, end + 1)
    BY <1>5, <2>1 DEF ScanBrace
  <2> QED  BY <1>1, <1>2, <2>2, WordThenInner
<1>6. CASE ScanCodeBlock
  <2>1. PICK ends, end : /\ ends = {k \in pos + 3 .. Size - 1 : ThreeAt(k)}
                         /\ end = CHOOSE k \in ends : \A j \in ends : k <= j
    OBVIOUS
  <2>2. \/ Scan(WordBefore \o <<Token("Malformed", pos, Size)>>, Size, Size)
        \/ Scan(WordBefore \o <<Token("Special", pos, end + 3)>>, end + 3, end + 3)
    BY <1>6, <2>1 DEF ScanCodeBlock
  <2> QED  BY <1>1, <2>2, WordThenInner
<1>7. CASE ScanCode
  <2>1. PICK next : next = PeekUntil(pos + 1, Size, Backtick)  OBVIOUS
  <2>2. \/ ScanOn
        \/ Scan(WordBefore \o <<Token("Special", pos, next + 1)>>, next + 1, next + 1)
        \/ Scan(WordBefore, pos + 1, IF pos # mark THEN pos + 1 ELSE mark)
    BY <1>7, <2>1 DEF ScanCode
  <2> QED  BY <1>1, <1>2, <2>2, WordThenInner, WordInner
<1>8. CASE ScanColon
  <2>1. PICK end : end = PeekUntil(pos + 2, Size, {":", Space, "?", "/", NewLine, "tick"})  OBVIOUS
  <2>2. ScanOn \/ Scan(WordBefore \o <<Token("Emoticon", pos, end + 1)>>, end + 1, end + 1)
    BY <1>8, <2>1 DEF ScanColon
  <2> QED  BY <1>1, <1>2, <2>2, WordThenInner
<1>9. CASE ScanOther  BY <1>2, <1>9 DEF ScanOther
<1> QED  BY <1>3, <1>4, <1>5, <1>6, <1>7, <1>8, <1>9

\* The turns of the loops over a word and over markup.
LoopStep ==
  \/ MarkupBracket \/ MarkupOther \/ ChatMention \/ ChatDigit \/ ChatPointInNumber \/ ChatPeriod
  \/ ChatSentEnd \/ ChatBracket \/ ChatQuote \/ ChatEnd \/ ChatOther

LEMMA PlainInner ==
  /\ \A type : type # "EOL" => Inner(Plain(type))
  /\ Inner(WordOrNumber)
<1>1. \A type : type # "EOL" => Inner(Plain(type))
  <2>1. \A type, a, b : type # "EOL" => Inner(<<Token(type, a, b)>>)  BY InnerTokens
  <2> QED  BY <2>1, InnerTokens DEF Plain
<1> QED  BY <1>1 DEF WordOrNumber

LEMMA ThenInner ==
  ASSUME NEW f, Inner(f), NEW type, type # "EOL", NEW a, NEW b
  PROVE  Inner(f \o <<Token(type, a, b)>>)
<1>1. Inner(<<Token(type, a, b)>>)  BY InnerTokens
<1> QED  BY <1>1, InnerJoined

LEMMA BracketInner ==
  ASSUME NEW t, NEW p  PROVE Inner(AngleBracket(t, p).found)
<1>1. MentionOf(t, p) # "EOL"  BY DEF MentionOf
<1>2. PICK type : type = MentionOf(t, p)  OBVIOUS
<1>3. type \in {"Emoticon", "MentionRole", "MentionUser", "MentionChannel", "URL"}
  BY <1>2 DEF MentionOf
<1>4. \/ \E a, b, next, m : AngleBracket(t, p) = [found |-> <<Token(type, a, b)>>, next |-> next, mark |-> m]
      \/ \E a, b, next, m :
           AngleBracket(t, p) = [found |-> <<Token("Malformed", a, b)>>, next |-> next, mark |-> m]
  <2>1. CASE type = "MentionRole"  BY <1>2, <2>1 DEF AngleBracket
  <2>2. CASE type = "Emoticon"  BY <1>2, <2>2 DEF AngleBracket
  <2>3. CASE type \notin {"MentionRole", "Emoticon"}  BY <1>2, <2>3 DEF AngleBracket
  <2> QED  BY <2>1, <2>2, <2>3
<1>5. \E kind, a, b : kind # "EOL" /\ AngleBracket(t, p).found = <<Token(kind, a, b)>>
  BY <1>3, <1>4
<1> QED  BY <1>5, InnerTokens

LEMMA LoopInner ==
  ASSUME LoopStep
  PROVE  /\ phase = "parse" /\ cur # NoToken
         /\ \E f, next, m, n : Inner(f) /\ Parse(f, next, m, n)
<1>1. phase = "parse" /\ cur # NoToken
  <2>1. NoToken.type # "Word" /\ NoToken.type # "Special"  BY DEF NoToken, Token
  <2> QED  BY <2>1 DEF LoopStep, MarkupBracket, MarkupOther, ChatMention, ChatDigit,
                ChatPointInNumber, ChatPeriod, ChatSentEnd, ChatBracket, ChatQuote, ChatEnd,
                ChatOther, InWord, InMarkup
<1>2. Inner(<<>>) /\ Inner(Plain("Word")) /\ Inner(Plain("Number")) /\ Inner(WordOrNumber)
  BY InnerTokens, PlainInner
<1>3. \A type, a, b : type # "EOL" => Inner(<<Token(type, a, b)>>)  BY InnerTokens
<1>4. CASE MarkupBracket
  <2>1. PICK found_, before : /\ found_ = AngleBracket(cur, pos)
                              /\ before = IF pos # mark THEN <<Token("Word", mark, pos)>> ELSE <<>>
    OBVIOUS
  <2>2. \E next, m : Parse(before \o found_.found, next, m, FALSE)
    BY <1>4, <2>1 DEF MarkupBracket
  <2>3. Inner(before) /\ Inner(found_.found)  BY <1>2, <1>3, <2>1, BracketInner
  <2> QED  BY <1>1, <2>2, <2>3, InnerJoined
<1>5. CASE MarkupOther \/ ChatDigit
  <2>1. \/ \E next, m, n : Parse(<<>>, next, m, n)
        \/ \E next, m, n : Parse(Plain("Word"), next, m, n)
    BY <1>5 DEF MarkupOther, ChatDigit
  <2> QED  BY <1>1, <1>2, <2>1
<1>6. CASE ChatMention
  <2>1. PICK type : type = CASE ValueAt(cur, pos + 1) = "&" -> "MentionRole"
                             [] ValueAt(cur, pos + 1) # "&" /\ Here = "@" -> "MentionUser"
                             [] OTHER -> "MentionChannel"
    OBVIOUS
  <2>2. type # "EOL"  BY <2>1
  <2>3. \/ Parse(<<>>, pos + 1, mark, num)
        \/ Parse(<<Token(type, pos, cur.to)>>, cur.to + 1, cur.to + 1, num)
    BY <1>6, <2>1 DEF ChatMention
  <2> QED  BY <1>1, <1>2, <1>3, <2>2, <2>3
<1>7. CASE ChatPointInNumber \/ ChatOther
  <2>1. \/ \E next, m, n : Parse(<<>>, next, m, n)
        \/ \E next, m, n : Parse(<<Token("Number", mark, pos)>>, next, m, n)
    BY <1>7 DEF ChatPointInNumber, ChatOther
  <2> QED  BY <1>1, <1>2, <1>3, <2>1
<1>8. CASE ChatPeriod
  <2>1. \E b, next, m : \E type \in {"Ellipsis", "SentEnd", "Period"} :
          Parse(Plain("Word") \o <<Token(type, pos, b)>>, next, m, FALSE)
    BY <1>8 DEF ChatPeriod
  <2> QED  BY <1>1, <1>2, <2>1, ThenInner
<1>9. CASE ChatSentEnd \/ ChatBracket
  <2>1. \E b, next, m : \E type \in {"SentEnd", "Bracket"} :
          Parse(WordOrNumber \o <<Token(type, pos, b)>>, next, m, FALSE)
    BY <1>9 DEF ChatSentEnd, ChatBracket
  <2> QED  BY <1>1, <1>2, <2>1, ThenInner
<1>10. CASE ChatQuote
  <2>1. PICK number, word :
          /\ Inner(number) /\ Inner(word)
          /\ \/ Parse(number \o word \o <<Token("Quote", pos, pos + 1)>>, pos + 1, pos + 1, FALSE)
             \/ Parse(number, pos + 1, mark, FALSE)
    BY <1>2, <1>10 DEF ChatQuote
  <2>2. Inner(number \o word)  BY <2>1, InnerJoined
  <2>3. Inner(number \o word \o <<Token("Quote", pos, pos + 1)>>)  BY <2>2, ThenInner
  <2> QED  BY <1>1, <2>1, <2>3
<1>11. CASE ChatEnd  BY <1>1, <1>2, <1>11 DEF ChatEnd
<1> QED  BY <1>4, <1>5, <1>6, <1>7, <1>8, <1>9, <1>10, <1>11 DEF LoopStep

\* What a token that is not the end is parsed to at once is not the end either.
LEMMA AtOnceInner ==
  ASSUME NEW t, NEW out \in ParsedAtOnce(t)
  PROVE  IF t.type = "EOL" THEN out = <<t>> ELSE Inner(out)
<1>1. CASE t.type = "EOL"  BY <1>1 DEF ParsedAtOnce
<1>2. CASE t.type # "EOL"
  <2>1. /\ Inner(<<>>) /\ Inner(<<t>>)
        /\ \A type, a, b : type # "EOL" => Inner(<<Token(type, a, b)>>)
    BY <1>2, InnerTokens
  <2>2. \A type : type # "EOL" => Inner(As(t, type))  BY <2>1 DEF As
  <2>3. Inner(parseWordForTwitter(t))  BY <2>1, <2>2 DEF parseWordForTwitter
  <2>4. Inner(parseWordForPlain(t))  BY <2>1, <2>2 DEF parseWordForPlain
  <2>5. Inner(parseTokenForXMPP(t))  BY <2>1, <2>2 DEF parseTokenForXMPP
  <2>6. \/ out \in {<<t>>, <<Token("Malformed", 0, 0)>>, As(t, "URL"), As(t, "Code"), As(t, "Word")}
        \/ out \in {parseWordForTwitter(t), parseWordForPlain(t), parseTokenForXMPP(t)}
    BY DEF ParsedAtOnce
  <2> QED  BY <1>2, <2>1, <2>2, <2>3, <2>4, <2>5, <2>6
<1> QED  BY <1>1, <1>2

LEMMA EndScans ==
  ASSUME EndInv, NEW f, NEW next, NEW m, Inner(f), Scan(f, next, m), phase = "scan"
  PROVE  EndInv'
<1>1. tokens' = tokens \o f /\ UNCHANGED <<phase, cur, parsed>>  BY DEF Scan
<1>2. Inner(tokens)  BY DEF EndInv, Inner
<1>3. Inner(tokens \o f)  BY <1>2, InnerJoined
<1>4. IsList(tokens') /\ Endless(tokens')  BY <1>1, <1>3 DEF Inner
<1> QED  BY <1>1, <1>4 DEF EndInv

LEMMA EndOfScan ==
  ASSUME EndInv, RunesInv, ScanEnd
  PROVE  EndInv'
<1>1. /\ phase = "scan" /\ phase' = "parse" /\ UNCHANGED <<cur, parsed>>
      /\ tokens' = tokens \o WordBefore \o <<Token("EOL", pos, pos)>>
  BY DEF ScanEnd
<1>2. Inner(tokens)  BY <1>1 DEF EndInv, Inner
<1>3. PICK list : list = tokens \o WordBefore  OBVIOUS
<1>4. Inner(list)  BY <1>2, <1>3, WordInner, InnerJoined
<1>5. PICK new, e : new = tokens' /\ e = Token("EOL", pos, pos)  OBVIOUS
<1>6. IsList(new) /\ EndsLast(new) /\ new[Len(new)] = e
  BY <1>1, <1>3, <1>4, <1>5, EndPut
<1>7. e.type = "EOL"  BY <1>5 DEF Token
<1>8. parsed' = <<>> /\ cur' = NoToken  BY <1>1 DEF RunesInv
<1>9. Endless(<<>>) /\ IsList(<<>>)  BY InnerTokens DEF Inner
<1> QED  BY <1>1, <1>5, <1>6, <1>7, <1>8, <1>9, EndlessEndsLast DEF EndInv

\* A token is taken from a list that ends last.
LEMMA EndTail ==
  ASSUME NEW list, IsList(list), list # <<>>, EndsLast(list), list[Len(list)].type = "EOL"
  PROVE  /\ IsList(Tail(list)) /\ EndsLast(Tail(list))
         /\ Tail(list) # <<>> => /\ Tail(list)[Len(Tail(list))].type = "EOL"
                                 /\ Head(list).type # "EOL"
         /\ Tail(list) = <<>> => Head(list).type = "EOL"
<1>1. PICK r, n : r = Tail(list) /\ n = Len(list)  OBVIOUS
<1>2. /\ IsList(r) /\ n \in Nat /\ n # 0 /\ DOMAIN list = 1 .. n /\ Head(list) = list[1]
      /\ Len(r) = n - 1 /\ DOMAIN r = 1 .. n - 1
      /\ \A i \in 1 .. n - 1 : r[i] = list[i + 1]
  BY <1>1, ListTail
<1>3. r = <<>> <=> n = 1
  <2>1. r = <<>> <=> Len(r) = 0  BY <1>2, ListOf
  <2> QED  BY <1>2, <2>1
<1>4. EndsLast(r)
  <2> SUFFICES ASSUME NEW i \in 1 .. n - 1, r[i].type = "EOL"  PROVE i = n - 1
    BY <1>2 DEF EndsLast
  <2>1. i + 1 \in 1 .. n /\ list[i + 1].type = "EOL"  BY <1>2
  <2>2. i + 1 = n  BY <1>1, <1>2, <2>1 DEF EndsLast
  <2> QED  BY <1>2, <2>2
<1>5. n # 1 => r[n - 1].type = "EOL" /\ list[1].type # "EOL"
  <2>1. n # 1 => n - 1 \in 1 .. n - 1 /\ (n - 1) + 1 = n /\ 1 \in 1 .. n  BY <1>2
  <2> QED  BY <1>1, <1>2, <2>1 DEF EndsLast
<1> QED  BY <1>1, <1>2, <1>3, <1>4, <1>5

LEMMA EndAtOnce ==
  ASSUME EndInv, ParseAtOnce  PROVE EndInv'
<1>1. PICK t, r, out :
        /\ t = Head(tokens) /\ r = Tail(tokens)
        /\ out \in ParsedAtOnce(t) /\ parsed' = parsed \o out
  BY DEF ParseAtOnce
<1>2. /\ phase = "parse" /\ cur = NoToken /\ tokens # <<>> /\ tokens' = r
      /\ UNCHANGED <<phase, cur>>
  BY <1>1 DEF ParseAtOnce
<1>3. Inner(parsed)  BY <1>2 DEF EndInv, Inner
<1>4. /\ IsList(r) /\ EndsLast(r)
      /\ r # <<>> => r[Len(r)].type = "EOL" /\ t.type # "EOL"
      /\ r = <<>> => t.type = "EOL"
  BY <1>1, <1>2, EndTail DEF EndInv
<1>5. CASE r # <<>>
  <2>1. Inner(out)  BY <1>1, <1>4, <1>5, AtOnceInner
  <2>2. Inner(parsed')  BY <1>1, <1>3, <2>1, InnerJoined
  <2> QED  BY <1>2, <1>4, <1>5, <2>2, EndlessEndsLast DEF EndInv, Inner
<1>6. CASE r = <<>>
  <2>1. out = <<t>>  BY <1>1, <1>4, <1>6, AtOnceInner
  <2>2. IsList(parsed') /\ EndsLast(parsed')  BY <1>1, <1>3, <2>1, EndPut
  <2> QED  BY <1>2, <1>4, <1>6, <2>2 DEF EndInv
<1> QED  BY <1>5, <1>6

LEMMA EndBegins ==
  ASSUME EndInv, BeginLoop  PROVE EndInv'
<1>1. /\ phase = "parse" /\ tokens # <<>> /\ ParsedAtOnce(Head(tokens)) = {}
      /\ tokens' = Tail(tokens) /\ UNCHANGED <<phase, parsed>>
  BY DEF BeginLoop
<1>2. PICK t, r : t = Head(tokens) /\ r = Tail(tokens)  OBVIOUS
<1>3. /\ IsList(r) /\ EndsLast(r)
      /\ r # <<>> => r[Len(r)].type = "EOL" /\ t.type # "EOL"
      /\ r = <<>> => t.type = "EOL"
  BY <1>1, <1>2, EndTail DEF EndInv
<1>4. t.type # "EOL"  BY <1>1, <1>2 DEF ParsedAtOnce
<1>5. r # <<>>  BY <1>3, <1>4
<1> QED  BY <1>1, <1>2, <1>3, <1>5 DEF EndInv

LEMMA EndLoops ==
  ASSUME EndInv, LoopStep  PROVE EndInv'
<1>1. PICK f, next, m, n : Inner(f) /\ Parse(f, next, m, n)  BY LoopInner
<1>2. phase = "parse" /\ cur # NoToken  BY LoopInner
<1>3. parsed' = parsed \o f /\ UNCHANGED <<phase, tokens, cur>>  BY <1>1 DEF Parse
<1>4. tokens # <<>>  BY <1>2 DEF EndInv
<1>5. Inner(parsed)  BY <1>2, <1>4 DEF EndInv, Inner
<1>6. Inner(parsed')  BY <1>1, <1>3, <1>5, InnerJoined
<1> QED  BY <1>2, <1>3, <1>4, <1>6, EndlessEndsLast DEF EndInv, Inner

LEMMA EndParses ==
  ASSUME EndInv, ParseEnds  PROVE EndInv'
<1>1. /\ phase = "parse" /\ phase' = "simplify" /\ parsed' = DropFirstSpace(parsed)
      /\ tokens' = tokens
  BY DEF ParseEnds
<1>2. IsList(parsed) /\ EndsLast(parsed)  BY DEF EndInv
<1>3. CASE parsed' = parsed  BY <1>1, <1>3 DEF EndInv
<1>4. CASE parsed # <<>> /\ parsed' = Tail(parsed)
  <2>1. PICK r, n : r = Tail(parsed) /\ n = Len(parsed)  OBVIOUS
  <2>2. /\ IsList(r) /\ n \in Nat /\ DOMAIN parsed = 1 .. n
        /\ Len(r) = n - 1 /\ DOMAIN r = 1 .. n - 1
        /\ \A i \in 1 .. n - 1 : r[i] = parsed[i + 1]
    BY <1>2, <1>4, <2>1, ListTail
  <2>3. EndsLast(r)
    <3> SUFFICES ASSUME NEW i \in 1 .. n - 1, r[i].type = "EOL"  PROVE i = n - 1
      BY <2>2 DEF EndsLast
    <3>1. i + 1 \in 1 .. n /\ parsed[i + 1].type = "EOL"  BY <2>2
    <3>2. i + 1 = n  BY <1>2, <2>1, <2>2, <3>1 DEF EndsLast
    <3> QED  BY <2>2, <3>2
  <2> QED  BY <1>1, <1>4, <2>1, <2>2, <2>3 DEF EndInv
<1> QED  BY <1>1, <1>3, <1>4 DEF DropFirstSpace

LEMMA EndStays ==
  ASSUME EndInv, UNCHANGED <<tokens, parsed, cur>>, phase' \notin {"waiting", "scan", "parse"}
                 \/ phase' = phase \/ (phase = "waiting" /\ phase' = "scan")
  PROVE  EndInv'
BY DEF EndInv

LEMMA EndTokenizes ==
  ASSUME EndInv, RunesInv, TokenizeNext  PROVE EndInv'
<1>1. CASE ScanEnd  BY <1>1, EndOfScan
<1>2. CASE \/ ScanSpace \/ ScanTimestamp \/ ScanBrace \/ ScanCodeBlock \/ ScanCode
           \/ ScanColon \/ ScanOther
  BY <1>2, ScanInner, EndScans
<1>3. CASE LoopStep  BY <1>3, EndLoops
<1>4. CASE LoopEnds
  <2>1. /\ phase = "parse" /\ cur # NoToken /\ cur' = NoToken
        /\ UNCHANGED <<phase, tokens, parsed>>
    BY <1>4 DEF LoopEnds
  <2> QED  BY <2>1 DEF EndInv
<1>5. CASE SimpleEnd \/ SimpleFiller \/ SimpleWord \/ SimpleNothing \/ SimplifyEnds
  <2>1. /\ phase = "simplify" /\ (phase' = "simplify" \/ phase' = "done")
        /\ UNCHANGED <<tokens, cur, parsed>>
    BY <1>5 DEF SimpleEnd, SimpleFiller, SimpleWord, SimpleNothing, SimplifyEnds, Simplify,
                Simplifying
  <2> QED  BY <2>1, EndStays
<1> QED
  BY <1>1, <1>2, <1>3, <1>4, <1>5, EndAtOnce, EndBegins, EndParses
     DEF TokenizeNext, ParseStep, LoopStep

LEMMA EndInvariance == TextSpec => []EndInv
<1>1. TextInit => EndInv
  <2> SUFFICES ASSUME TextInit  PROVE EndInv
    OBVIOUS
  <2>1. /\ tokens = <<>> /\ parsed = <<>> /\ cur = NoToken
        /\ phase \in {"waiting", "scan", "simplify"}
    BY DEF TextInit, TokenizeInit
  <2>2. IsList(<<>>) /\ Endless(<<>>)  BY InnerTokens DEF Inner
  <2> QED  BY <2>1, <2>2, EndlessEndsLast DEF EndInv
<1>2. ASSUME EndInv, TokensInv, [TextNext]_textVars  PROVE EndInv'
  <2>1. CASE Learn
    <3>1. /\ phase = "waiting" /\ (phase' = "simplify" \/ phase' = "scan")
          /\ UNCHANGED <<tokens, cur, parsed>>
      BY <2>1 DEF Learn
    <3> QED  BY <1>2, <3>1, EndStays
  <2>2. CASE UNCHANGED tokenVars
    <3>1. UNCHANGED <<tokens, cur, parsed, phase>>  BY <2>2 DEF tokenVars
    <3> QED  BY <1>2, <3>1, EndStays
  <2>3. CASE TokenizeNext  BY <1>2, <2>3, EndTokenizes DEF TokensInv
  <2> QED  BY <1>2, <2>1, <2>2, <2>3 DEF TextNext, textVars
<1> QED  BY <1>1, <1>2, TokensInvariance, PTL DEF TextSpec

----------------------------------------------------------------------------
(* GetSimpleTokenList: what is learnt so far, one for one *)

\* What is learnt as it is, up to a place in the parsed tokens, and what cleanWord leaves of it.
Fills(i) == parsed[i].type \in Fillers /\ ~GluedToWord(i)
FillsTo(p) == {i \in DOMAIN parsed : i <= p /\ Fills(i)}
Leaves == {i \in DOMAIN parsed : Fills(i) /\ cleanWordLeaves(parsed[i])}

\* f pairs the fillers of a list of simple tokens with the places in A.
FillersOf(list) == {n \in DOMAIN list : list[n].type \in Fillers}
Pairs(f, list, A) ==
  /\ f \in [FillersOf(list) -> A]
  /\ \A m, n \in FillersOf(list) : f[m] = f[n] => m = n
  /\ \A i \in A : \E n \in FillersOf(list) : f[n] = i
  /\ \A n \in FillersOf(list) :
       list[n].type = parsed[f[n]].type /\ list[n].parts = <<parsed[f[n]]>>
Paired(list, A) == \E f : Pairs(f, list, A)

LearntInv ==
  /\ IsList(simple)
  /\ phase \in {"waiting", "scan", "parse"} => simple = <<>>
  /\ phase = "simplify" =>
       /\ pos \in 0 .. Len(parsed) + 1
       /\ pos <= Len(parsed) => ~GluedToWord(pos + 1)
       /\ Paired(simple, FillsTo(pos))
  /\ phase = "done" => Paired(simple, Leaves)

LEMMA NonePaired == Paired(<<>>, {})
<1>1. DOMAIN <<>> = {}  OBVIOUS
<1>2. FillersOf(<<>>) = {}  BY <1>1 DEF FillersOf
<1>3. PICK f : f = [n \in {} |-> n]  OBVIOUS
<1>4. f \in [{} -> {}]  BY <1>3
<1> QED  BY <1>2, <1>4 DEF Pairs, Paired

\* A simple token that is no filler pairs with nothing.
LEMMA OtherPaired ==
  ASSUME NEW list, IsList(list), NEW A, Paired(list, A), NEW t, t.type \notin Fillers
  PROVE  Paired(list \o <<t>>, A)
<1>1. PICK f : Pairs(f, list, A)  BY DEF Paired
<1>2. PICK b, c, m : b = <<t>> /\ c = list \o b /\ m = Len(list)  OBVIOUS
<1>3. /\ IsList(b) /\ Len(b) = 1 /\ b[1] = t  BY <1>2, ShortLists
<1>4. /\ m \in Nat /\ DOMAIN list = 1 .. m /\ DOMAIN c = 1 .. m + 1
      /\ \A n \in 1 .. m : c[n] = list[n]
      /\ c[m + 1] = t
  BY <1>2, <1>3, ListJoined
<1>5. FillersOf(c) = FillersOf(list)
  <2>1. \A n : n \in 1 .. m + 1 <=> n \in 1 .. m \/ n = m + 1  BY <1>4
  <2> QED  BY <1>4, <2>1 DEF FillersOf
<1>6. \A n \in FillersOf(list) : c[n] = list[n]  BY <1>4 DEF FillersOf
<1>7. Pairs(f, c, A)  BY <1>1, <1>5, <1>6 DEF Pairs
<1> QED  BY <1>2, <1>7 DEF Paired

\* A filler pairs with the place it is at.
LEMMA FillerPaired ==
  ASSUME NEW list, IsList(list), NEW A, Paired(list, A), NEW p, p \notin A,
         parsed[p].type \in Fillers
  PROVE  Paired(list \o <<SimpleToken(parsed[p].type, <<parsed[p]>>)>>, A \cup {p})
<1>1. PICK f : Pairs(f, list, A)  BY DEF Paired
<1>2. PICK t, b, c, m : /\ t = SimpleToken(parsed[p].type, <<parsed[p]>>)
                        /\ b = <<t>> /\ c = list \o b /\ m = Len(list)
  OBVIOUS
<1>3. IsList(b) /\ Len(b) = 1 /\ b[1] = t  BY <1>2, ShortLists
<1>4. /\ m \in Nat /\ DOMAIN list = 1 .. m /\ DOMAIN c = 1 .. m + 1
      /\ \A n \in 1 .. m : c[n] = list[n]
      /\ c[m + 1] = t
  BY <1>2, <1>3, ListJoined
<1>5. t.type = parsed[p].type /\ t.parts = <<parsed[p]>>  BY <1>2 DEF SimpleToken
<1>6. m + 1 \notin FillersOf(list) /\ FillersOf(c) = FillersOf(list) \cup {m + 1}
  <2>1. \A n : n \in 1 .. m + 1 <=> n \in 1 .. m \/ n = m + 1  BY <1>4
  <2>2. m + 1 \notin 1 .. m  BY <1>4
  <2> QED  BY <1>4, <1>5, <2>1, <2>2 DEF FillersOf
<1>7. \A n \in FillersOf(list) : c[n] = list[n]  BY <1>4 DEF FillersOf
<1>8. PICK F, last : F = FillersOf(list) /\ last = m + 1  OBVIOUS
<1>9. PICK g : g = [n \in F \cup {last} |-> IF n = last THEN p ELSE f[n]]  OBVIOUS
<1>10. \A n \in F : g[n] = f[n] /\ f[n] \in A
  BY <1>1, <1>6, <1>8, <1>9 DEF Pairs
<1>11. g[last] = p  BY <1>9
<1>12. g \in [F \cup {last} -> A \cup {p}]  BY <1>9, <1>10, <1>11
<1>13. \A k, n \in F \cup {last} : g[k] = g[n] => k = n
  <2>1. \A k, n \in F : f[k] = f[n] => k = n  BY <1>1, <1>8 DEF Pairs
  <2> QED  BY <1>10, <1>11, <2>1
<1>14. \A i \in A \cup {p} : \E n \in F \cup {last} : g[n] = i
  <2>1. \A i \in A : \E n \in F : f[n] = i  BY <1>1, <1>8 DEF Pairs
  <2> QED  BY <1>10, <1>11, <2>1
<1>15. \A n \in F \cup {last} : c[n].type = parsed[g[n]].type /\ c[n].parts = <<parsed[g[n]]>>
  <2>1. \A n \in F : c[n].type = parsed[f[n]].type /\ c[n].parts = <<parsed[f[n]]>>
    BY <1>1, <1>7, <1>8 DEF Pairs
  <2> QED  BY <1>4, <1>5, <1>8, <1>10, <1>11, <2>1
<1>16. Pairs(g, c, A \cup {p})  BY <1>6, <1>8, <1>12, <1>13, <1>14, <1>15 DEF Pairs
<1> QED  BY <1>2, <1>16 DEF Paired

LEMMA SimpleTypes ==
  /\ \A t : t.type \in Ends => t.type \notin Fillers /\ t.type \notin Wordy /\ isWordConsumableToken(t)
  /\ \A t : t.type \in Wordy => t.type \notin Fillers /\ isWordConsumableToken(t)
  /\ \A t : t.type \in Fillers => ~isWordConsumableToken(t)
  /\ \A t : isWordConsumableToken(t) => t.type \in Wordy \cup Ends
<1>1. \A t : t.type \in Wordy \cup Ends => t.type \notin Fillers
  BY DEF Wordy, Ends, Fillers
<1>2. \A t : t.type \in Ends => t.type \notin Wordy  BY DEF Wordy, Ends
<1> QED  BY <1>1, <1>2 DEF isWordConsumableToken

\* What stands at the place of the loop.
LEMMA AtPlace ==
  ASSUME LearntInv, IsList(parsed), phase = "simplify", pos < Len(parsed)
  PROVE  /\ pos \in Nat /\ Len(parsed) \in Nat /\ DOMAIN parsed = 1 .. Len(parsed)
         /\ pos + 1 \in 1 .. Len(parsed) /\ TokenAt(pos) = parsed[pos + 1]
         /\ ~GluedToWord(pos + 1) /\ Paired(simple, FillsTo(pos))
         /\ FillsTo(pos + 1) = FillsTo(pos) \cup {i \in {pos + 1} : Fills(i)}
         /\ pos + 1 \notin FillsTo(pos)
         /\ GluedToWord(pos + 2) => /\ isWordConsumableToken(parsed[pos + 1])
                                    /\ parsed[pos + 1].type \in Wordy
<1>1. /\ pos \in Nat /\ Len(parsed) \in Nat /\ DOMAIN parsed = 1 .. Len(parsed)
      /\ ~GluedToWord(pos + 1) /\ Paired(simple, FillsTo(pos))
  BY ListOf DEF LearntInv
<1>2. pos + 1 \in 1 .. Len(parsed)  BY <1>1
<1>3. \A i \in 1 .. Len(parsed) : i <= pos + 1 <=> i <= pos \/ i = pos + 1  BY <1>1
<1>4. FillsTo(pos + 1) = FillsTo(pos) \cup {i \in {pos + 1} : Fills(i)}
  BY <1>1, <1>2, <1>3 DEF FillsTo
<1>5. pos + 1 \notin FillsTo(pos)  BY <1>1 DEF FillsTo
<1>6. ASSUME GluedToWord(pos + 2)
      PROVE  isWordConsumableToken(parsed[pos + 1]) /\ parsed[pos + 1].type \in Wordy
  <2>1. (pos + 2) - 1 = pos + 1 /\ (pos + 1) - 1 = pos  BY <1>1
  <2>2. PICK j \in 1 .. pos + 1 : /\ parsed[j].type \in Wordy
                                  /\ \A k \in j .. pos + 1 : isWordConsumableToken(parsed[k])
    BY <1>6, <2>1 DEF GluedToWord
  <2>3. pos + 1 \in j .. pos + 1  BY <1>1
  <2>4. j = pos + 1
    <3>1. ASSUME j # pos + 1  PROVE FALSE
      <4>1. j \in 1 .. pos /\ \A k \in j .. pos : k \in j .. pos + 1  BY <1>1, <3>1
      <4> QED  BY <1>1, <2>1, <2>2, <4>1 DEF GluedToWord
    <3> QED  BY <3>1
  <2> QED  BY <2>2, <2>3, <2>4
<1> QED  BY <1>1, <1>2, <1>4, <1>5, <1>6 DEF TokenAt

\* The loop goes on behind the token.
LEMMA SimplifyOn ==
  ASSUME LearntInv, IsList(parsed), phase = "simplify", pos < Len(parsed),
         parsed[pos + 1].type \notin Wordy,
         NEW f, IsList(f), Simplify(f, pos + 1), Paired(simple \o f, FillsTo(pos + 1))
  PROVE  LearntInv'
<1>1. simple' = simple \o f /\ pos' = pos + 1 /\ UNCHANGED <<phase, parsed>>  BY DEF Simplify
<1>2. IsList(simple \o f)  BY ListJoined DEF LearntInv
<1>3. /\ pos \in Nat /\ Len(parsed) \in Nat /\ pos + 1 \in 1 .. Len(parsed)
      /\ ~GluedToWord(pos + 2)
  BY AtPlace
<1>4. /\ \A i : GluedToWord(i)' <=> GluedToWord(i)
      /\ \A p : FillsTo(p)' = FillsTo(p)
      /\ \A list, A : Paired(list, A)' <=> Paired(list, A)
  BY <1>1 DEF GluedToWord, FillsTo, Fills, Paired, Pairs, FillersOf
<1>5. (pos + 1) + 1 = pos + 2  BY <1>3
<1>6. Paired(simple, FillsTo(pos))'
  BY <1>1, <1>4
<1>7. (pos \in 0 .. Len(parsed) + 1 /\ ~GluedToWord(pos + 1))'
  BY <1>1, <1>3, <1>4, <1>5
<1> QED  BY <1>1, <1>2, <1>6, <1>7 DEF LearntInv

LEMMA EndLearnt ==
  ASSUME LearntInv, IsList(parsed), SimpleEnd  PROVE LearntInv'
<1>1. PICK t, f : t = SimpleToken("SentEnd", <<TokenAt(pos)>>) /\ f = <<t>>  OBVIOUS
<1>2. phase = "simplify" /\ pos < Len(parsed) /\ TokenAt(pos).type \in Ends /\ Simplify(f, pos + 1)
  BY <1>1 DEF SimpleEnd, Simplifying
<1>3. /\ TokenAt(pos) = parsed[pos + 1] /\ Paired(simple, FillsTo(pos))
      /\ FillsTo(pos + 1) = FillsTo(pos) \cup {i \in {pos + 1} : Fills(i)}
  BY <1>2, AtPlace
<1>4. parsed[pos + 1].type \notin Fillers /\ parsed[pos + 1].type \notin Wordy
  BY <1>2, <1>3, SimpleTypes
<1>5. FillsTo(pos + 1) = FillsTo(pos)  BY <1>3, <1>4 DEF Fills
<1>6. t.type \notin Fillers  BY <1>1 DEF SimpleToken, Fillers
<1>7. Paired(simple \o f, FillsTo(pos + 1))  BY <1>1, <1>3, <1>5, <1>6, OtherPaired DEF LearntInv
<1>8. IsList(f)  BY <1>1, ShortLists
<1> QED  BY <1>2, <1>4, <1>7, <1>8, SimplifyOn

LEMMA FillerLearnt ==
  ASSUME LearntInv, IsList(parsed), SimpleFiller  PROVE LearntInv'
<1>1. PICK t, f : t = SimpleToken(TokenAt(pos).type, <<TokenAt(pos)>>) /\ f = <<t>>  OBVIOUS
<1>2. phase = "simplify" /\ pos < Len(parsed) /\ TokenAt(pos).type \in Fillers /\ Simplify(f, pos + 1)
  BY <1>1 DEF SimpleFiller, Simplifying
<1>3. /\ TokenAt(pos) = parsed[pos + 1] /\ Paired(simple, FillsTo(pos))
      /\ ~GluedToWord(pos + 1) /\ pos + 1 \notin FillsTo(pos)
      /\ FillsTo(pos + 1) = FillsTo(pos) \cup {i \in {pos + 1} : Fills(i)}
  BY <1>2, AtPlace
<1>4. FillsTo(pos + 1) = FillsTo(pos) \cup {pos + 1}  BY <1>2, <1>3 DEF Fills
<1>5. Paired(simple \o f, FillsTo(pos + 1))
  <2>1. PICK p : p = pos + 1  OBVIOUS
  <2>2. /\ parsed[p].type \in Fillers /\ p \notin FillsTo(pos) /\ IsList(simple)
        /\ Paired(simple, FillsTo(pos))
    BY <1>2, <1>3, <2>1 DEF LearntInv
  <2>3. Paired(simple \o <<SimpleToken(parsed[p].type, <<parsed[p]>>)>>, FillsTo(pos) \cup {p})
    BY <2>2, FillerPaired
  <2>4. TokenAt(pos) = parsed[p]  BY <1>3, <2>1
  <2> QED  BY <1>1, <1>4, <2>1, <2>3, <2>4
<1>6. parsed[pos + 1].type \notin Wordy  BY <1>2, <1>3, SimpleTypes
<1>7. IsList(f)  BY <1>1, ShortLists
<1> QED  BY <1>2, <1>5, <1>6, <1>7, SimplifyOn

LEMMA NothingLearnt ==
  ASSUME LearntInv, IsList(parsed), SimpleNothing  PROVE LearntInv'
<1>1. /\ phase = "simplify" /\ pos < Len(parsed) /\ Simplify(<<>>, pos + 1)
      /\ TokenAt(pos).type \in {"Space", "NewLine", "Quote", "Bracket", "Malformed", "Code", "Special"}
  BY DEF SimpleNothing, Simplifying
<1>2. /\ TokenAt(pos) = parsed[pos + 1] /\ Paired(simple, FillsTo(pos))
      /\ FillsTo(pos + 1) = FillsTo(pos) \cup {i \in {pos + 1} : Fills(i)}
  BY <1>1, AtPlace
<1>3. parsed[pos + 1].type \notin Fillers /\ parsed[pos + 1].type \notin Wordy
  BY <1>1, <1>2 DEF Fillers, Wordy
<1>4. FillsTo(pos + 1) = FillsTo(pos)  BY <1>2, <1>3 DEF Fills
<1>5. simple \o <<>> = simple
  <2>1. PICK T : simple \in Seq(T)  BY DEF LearntInv, IsList
  <2> QED  BY <2>1
<1>6. Paired(simple \o <<>>, FillsTo(pos + 1))  BY <1>2, <1>4, <1>5
<1> QED  BY <1>1, <1>3, <1>6, ShortLists, SimplifyOn

\* A word ends at the first token that is not consumed, or with the tokens.
LEMMA GluedFound ==
  ASSUME pos \in Nat, Len(parsed) \in Nat, pos < Len(parsed)
  PROVE  \E p \in pos + 1 .. Len(parsed) :
           /\ \A k \in pos + 1 .. p - 1 : isWordConsumableToken(TokenAt(k))
           /\ p = Len(parsed) \/ ~isWordConsumableToken(TokenAt(p))
<1> DEFINE stops == {p \in pos + 1 .. Len(parsed) :
                       p = Len(parsed) \/ ~isWordConsumableToken(TokenAt(p))}
<1>1. stops \subseteq Nat /\ Len(parsed) \in stops  OBVIOUS
<1>2. PICK m \in stops : \A n \in stops : m <= n
  <2> HIDE DEF stops
  <2> QED  BY <1>1, NatMinimum
<1>3. \A k \in pos + 1 .. m - 1 : isWordConsumableToken(TokenAt(k))
  <2> SUFFICES ASSUME NEW k \in pos + 1 .. m - 1, ~isWordConsumableToken(TokenAt(k))  PROVE FALSE
    OBVIOUS
  <2>1. k \in stops /\ k < m  OBVIOUS
  <2> QED  BY <1>2, <2>1
<1> QED  BY <1>2, <1>3

LEMMA WordLearnt ==
  ASSUME LearntInv, IsList(parsed), SimpleWord  PROVE LearntInv'
<1>1. phase = "simplify" /\ pos < Len(parsed) /\ TokenAt(pos).type \in Wordy
  BY DEF SimpleWord, Simplifying
<1>2. /\ pos \in Nat /\ Len(parsed) \in Nat /\ DOMAIN parsed = 1 .. Len(parsed)
      /\ TokenAt(pos) = parsed[pos + 1] /\ Paired(simple, FillsTo(pos))
  BY <1>1, AtPlace
<1>3. PICK n : n = Len(parsed)  OBVIOUS
<1>4. n \in Nat /\ pos \in Nat /\ pos < n  BY <1>1, <1>2, <1>3
<1>5. PICK p : p = CHOOSE q \in pos + 1 .. Len(parsed) :
                     /\ \A k \in pos + 1 .. q - 1 : isWordConsumableToken(TokenAt(k))
                     /\ q = Len(parsed) \/ ~isWordConsumableToken(TokenAt(q))
  OBVIOUS
<1>6. /\ p \in pos + 1 .. n
      /\ \A k \in pos + 1 .. p - 1 : isWordConsumableToken(TokenAt(k))
      /\ p = n \/ ~isWordConsumableToken(TokenAt(p))
  BY <1>1, <1>2, <1>3, <1>5, GluedFound
<1>7. p \in Nat /\ pos + 1 <= p /\ p <= n  BY <1>6, <1>4
<1>8. \A k \in pos + 2 .. p : isWordConsumableToken(parsed[k])
  <2> SUFFICES ASSUME NEW k \in pos + 2 .. p  PROVE isWordConsumableToken(parsed[k])
    OBVIOUS
  <2>1. k - 1 \in pos + 1 .. p - 1 /\ (k - 1) + 1 = k  BY <1>4, <1>7
  <2>2. isWordConsumableToken(TokenAt(k - 1))  BY <1>6, <2>1
  <2> QED  BY <2>1, <2>2 DEF TokenAt
<1>9. \A k \in pos + 1 .. p : isWordConsumableToken(parsed[k])
  <2>1. \A k \in pos + 1 .. p : k = pos + 1 \/ k \in pos + 2 .. p  BY <1>4, <1>7
  <2> QED  BY <1>1, <1>2, <1>8, <2>1, SimpleTypes
<1>10. p # n => ~isWordConsumableToken(parsed[p + 1])  BY <1>6 DEF TokenAt
<1>11. p # n => GluedToWord(p + 1)
  <2>1. (p + 1) - 1 = p /\ pos + 1 \in 1 .. p  BY <1>4, <1>7
  <2> QED  BY <1>1, <1>2, <1>9, <2>1 DEF GluedToWord
<1>12. p + 1 <= n => ~GluedToWord((p + 1) + 1)
  <2> SUFFICES ASSUME p + 1 <= n, GluedToWord((p + 1) + 1)  PROVE FALSE
    OBVIOUS
  <2>1. p # n /\ ((p + 1) + 1) - 1 = p + 1  BY <1>4, <1>7
  <2>2. PICK j \in 1 .. p + 1 : \A k \in j .. p + 1 : isWordConsumableToken(parsed[k])
    BY <2>1 DEF GluedToWord
  <2>3. p + 1 \in j .. p + 1  BY <1>4, <1>7
  <2> QED  BY <1>10, <2>1, <2>2, <2>3
<1>13. FillsTo(p + 1) = FillsTo(pos)
  <2>1. \A i \in 1 .. n : i <= p + 1 <=> i <= pos \/ i \in pos + 1 .. p \/ i = p + 1
    BY <1>4, <1>7
  <2>2. \A i \in pos + 1 .. p : ~Fills(i)  BY <1>9, SimpleTypes DEF Fills
  <2>3. p + 1 \in 1 .. n => ~Fills(p + 1)
    <3>1. p + 1 \in 1 .. n => p # n  BY <1>4, <1>7
    <3> QED  BY <1>11, <3>1 DEF Fills
  <2>4. \A i \in 1 .. n : i <= p + 1 /\ Fills(i) <=> i <= pos /\ Fills(i)
    <3>1. \A i \in 1 .. n : i <= pos => i <= p + 1  BY <1>4, <1>7
    <3> QED  BY <2>1, <2>2, <2>3, <3>1
  <2> QED  BY <1>2, <1>3, <2>4 DEF FillsTo
<1>14. PICK t, f : t = SimpleToken("Word", SubSeq(parsed, pos + 1, p)) /\ f = <<t>>  OBVIOUS
<1>15. Simplify(f, p + 1)  BY <1>5, <1>14 DEF SimpleWord
<1>16. t.type \notin Fillers  BY <1>14 DEF SimpleToken, Fillers
<1>17. Paired(simple \o f, FillsTo(p + 1))
  BY <1>2, <1>13, <1>14, <1>16, OtherPaired DEF LearntInv
<1>18. simple' = simple \o f /\ pos' = p + 1 /\ UNCHANGED <<phase, parsed>>  BY <1>15 DEF Simplify
<1>19. IsList(simple \o f)
  <2>1. IsList(f)  BY <1>14, ShortLists
  <2> QED  BY <2>1, ListJoined DEF LearntInv
<1>20. /\ \A i : GluedToWord(i)' <=> GluedToWord(i)
       /\ \A q : FillsTo(q)' = FillsTo(q)
       /\ \A list, A : Paired(list, A)' <=> Paired(list, A)
  BY <1>18 DEF GluedToWord, FillsTo, Fills, Paired, Pairs, FillersOf
<1>21. Paired(simple, FillsTo(pos))'  BY <1>17, <1>18, <1>20
<1>22. (pos \in 0 .. Len(parsed) + 1)'  BY <1>3, <1>4, <1>7, <1>18
<1>23. (pos <= Len(parsed) => ~GluedToWord(pos + 1))'  BY <1>3, <1>12, <1>18, <1>20
<1> QED  BY <1>1, <1>18, <1>19, <1>21, <1>22, <1>23 DEF LearntInv

\* Nothing is learnt before the parsed tokens are gone through.
Unlearnt ==
  /\ simple = <<>>
  /\ \/ phase \in {"waiting", "scan", "parse"}
     \/ phase = "simplify" /\ pos = 0 /\ IsList(parsed)

LEMMA NoneLearnt == Unlearnt => LearntInv
<1> SUFFICES ASSUME Unlearnt  PROVE LearntInv
  OBVIOUS
<1>1. simple = <<>> /\ IsList(simple)  BY ShortLists DEF Unlearnt
<1>2. CASE phase \in {"waiting", "scan", "parse"}  BY <1>1, <1>2 DEF LearntInv
<1>3. CASE phase = "simplify" /\ pos = 0 /\ IsList(parsed)
  <2>1. Len(parsed) \in Nat /\ DOMAIN parsed = 1 .. Len(parsed)  BY <1>3, ListOf
  <2>2. FillsTo(0) = {}  BY <2>1 DEF FillsTo
  <2>3. ~GluedToWord(0 + 1)  BY DEF GluedToWord
  <2>4. Paired(simple, FillsTo(pos))
    <3>1. FillsTo(pos) = {}  BY <1>3, <2>2
    <3> QED  BY <1>1, <3>1, NonePaired
  <2>5. pos \in 0 .. Len(parsed) + 1 /\ ~GluedToWord(pos + 1)  BY <1>3, <2>1, <2>3
  <2> QED  BY <1>1, <1>3, <2>4, <2>5 DEF LearntInv
<1> QED  BY <1>2, <1>3 DEF Unlearnt

\* What the loop leaves behind it is all there is, and cleanWord drops a filler if it leaves
\* nothing of its token.
LEMMA DoneLearnt ==
  ASSUME LearntInv, IsList(parsed), EndsLast(parsed), SimplifyEnds  PROVE LearntInv'
<1>1. PICK S : S = {n \in DOMAIN simple : \E i \in DOMAIN simple[n].parts :
                                             cleanWordLeaves(simple[n].parts[i])}
  OBVIOUS
<1>2. /\ phase = "simplify" /\ (pos < Len(parsed) => TokenAt(pos).type = "EOL")
      /\ simple' = Kept(simple, S) /\ phase' = "done" /\ UNCHANGED <<runes, parsed>>
  BY <1>1 DEF SimplifyEnds
<1>3. PICK n, p, L : n = Len(parsed) /\ p = pos /\ L = Len(simple)  OBVIOUS
<1>4. /\ n \in Nat /\ DOMAIN parsed = 1 .. n /\ L \in Nat /\ DOMAIN simple = 1 .. L
      /\ p \in 0 .. n + 1 /\ Paired(simple, FillsTo(p))
  BY <1>2, <1>3, ListOf DEF LearntInv
<1>5. \A i \in 1 .. n : Fills(i) => i <= p
  <2> SUFFICES ASSUME NEW i \in 1 .. n, Fills(i), ~(i <= p)  PROVE FALSE
    OBVIOUS
  <2>1. p < n /\ p + 1 \in 1 .. n  BY <1>4
  <2>2. parsed[p + 1].type = "EOL"  BY <1>2, <1>3, <2>1 DEF TokenAt
  <2>3. p + 1 = n  BY <1>3, <1>4, <2>1, <2>2 DEF EndsLast
  <2>4. i = n  BY <1>4, <2>3
  <2>5. parsed[i].type = "EOL"  BY <2>2, <2>3, <2>4
  <2> QED  BY <2>5 DEF Fills, Fillers
<1>6. PICK A : A = FillsTo(p)  OBVIOUS
<1>7. PICK f : Pairs(f, simple, A)  BY <1>4, <1>6 DEF Paired
<1>8. \A i : i \in Leaves <=> i \in A /\ cleanWordLeaves(parsed[i])
  BY <1>4, <1>5, <1>6 DEF Leaves, FillsTo
<1>9. PICK F, c : F = FillersOf(simple) /\ c = Kept(simple, S)  OBVIOUS
<1>10. \A m \in F : m \in S <=> cleanWordLeaves(parsed[f[m]])
  <2> SUFFICES ASSUME NEW m \in F  PROVE m \in S <=> cleanWordLeaves(parsed[f[m]])
    OBVIOUS
  <2>1. m \in DOMAIN simple /\ simple[m].parts = <<parsed[f[m]]>>
    BY <1>7, <1>9 DEF Pairs, FillersOf
  <2>2. PICK one : one = simple[m].parts  OBVIOUS
  <2>3. DOMAIN one = {1} /\ one[1] = parsed[f[m]]  BY <2>1, <2>2
  <2> QED  BY <1>1, <2>1, <2>2, <2>3
<1>11. S \in SUBSET (1 .. L)  BY <1>1, <1>4
<1>12. PICK N : N = Cardinality(S)  OBVIOUS
<1>13. /\ N \in Nat /\ \A h \in S : Rank(S, h) \in 1 .. N
       /\ \A m \in 1 .. N : Nth(S, m) \in S /\ Rank(S, Nth(S, m)) = m
       /\ \A h \in S : Nth(S, Rank(S, h)) = h
  BY <1>4, <1>11, <1>12, RanksCount, NthIs
<1>14. c = [m \in 1 .. N |-> simple[Nth(S, m)]]  BY <1>9, <1>12 DEF Kept
<1>15. DOMAIN c = 1 .. N /\ \A m \in 1 .. N : c[m] = simple[Nth(S, m)]  BY <1>14
<1>16. \A m \in 1 .. N : m \in FillersOf(c) <=> Nth(S, m) \in F
  BY <1>4, <1>9, <1>11, <1>13, <1>15 DEF FillersOf
<1>17. PICK G : G = FillersOf(c)  OBVIOUS
<1>18. G \subseteq 1 .. N /\ \A m \in G : Nth(S, m) \in F
  BY <1>15, <1>16, <1>17 DEF FillersOf
<1>19. PICK g : g = [m \in G |-> f[Nth(S, m)]]  OBVIOUS
<1>20. \A m \in F : f[m] \in A  BY <1>7, <1>9 DEF Pairs
<1>21. \A m \in G : g[m] = f[Nth(S, m)] /\ g[m] \in Leaves
  <2> SUFFICES ASSUME NEW m \in G  PROVE g[m] = f[Nth(S, m)] /\ g[m] \in Leaves
    OBVIOUS
  <2>1. Nth(S, m) \in F /\ Nth(S, m) \in S  BY <1>13, <1>18
  <2> QED  BY <1>8, <1>10, <1>19, <1>20, <2>1
<1>22. g \in [G -> Leaves]  BY <1>19, <1>21
<1>23. \A k, m \in G : g[k] = g[m] => k = m
  <2> SUFFICES ASSUME NEW k \in G, NEW m \in G, g[k] = g[m]  PROVE k = m
    OBVIOUS
  <2>1. Nth(S, k) = Nth(S, m)
    <3>1. \A x, y \in F : f[x] = f[y] => x = y  BY <1>7, <1>9 DEF Pairs
    <3> QED  BY <1>18, <1>21, <3>1
  <2>2. Rank(S, Nth(S, k)) = k /\ Rank(S, Nth(S, m)) = m  BY <1>13, <1>18
  <2> QED  BY <2>1, <2>2
<1>24. \A i \in Leaves : \E m \in G : g[m] = i
  <2> SUFFICES ASSUME NEW i \in Leaves  PROVE \E m \in G : g[m] = i
    OBVIOUS
  <2>1. i \in A /\ cleanWordLeaves(parsed[i])  BY <1>8
  <2>2. PICK h \in F : f[h] = i  BY <1>7, <1>9, <2>1 DEF Pairs
  <2>3. h \in S  BY <1>10, <2>1, <2>2
  <2>4. Rank(S, h) \in G
    BY <1>13, <1>16, <1>17, <2>2, <2>3
  <2>5. g[Rank(S, h)] = i  BY <1>13, <1>21, <2>2, <2>3, <2>4
  <2> QED  BY <2>4, <2>5
<1>25. \A m \in G : c[m].type = parsed[g[m]].type /\ c[m].parts = <<parsed[g[m]]>>
  <2> SUFFICES ASSUME NEW m \in G
               PROVE  c[m].type = parsed[g[m]].type /\ c[m].parts = <<parsed[g[m]]>>
    OBVIOUS
  <2>1. c[m] = simple[Nth(S, m)] /\ Nth(S, m) \in F /\ g[m] = f[Nth(S, m)]
    BY <1>15, <1>18, <1>21
  <2> QED  BY <1>7, <1>9, <2>1 DEF Pairs
<1>26. Pairs(g, c, Leaves)  BY <1>17, <1>22, <1>23, <1>24, <1>25 DEF Pairs
<1>27. \A t : cleanWordLeaves(t)' <=> cleanWordLeaves(t)
  BY <1>2 DEF cleanWordLeaves, RuneAt, Size
<1>28. \A i : GluedToWord(i)' <=> GluedToWord(i)  BY <1>2 DEF GluedToWord
<1>29. /\ Leaves' = Leaves
       /\ \A list, B : Paired(list, B)' <=> Paired(list, B)
  BY <1>2, <1>27, <1>28 DEF Leaves, Fills, Paired, Pairs, FillersOf
<1>30. Paired(simple, Leaves)'
  <2>1. Paired(c, Leaves)  BY <1>26 DEF Paired
  <2> QED  BY <1>2, <1>9, <1>29, <2>1
<1>31. IsList(c)
  <2>1. c \in Seq({c[m] : m \in 1 .. N})  BY <1>13, <1>14, <1>15
  <2> QED  BY <2>1 DEF IsList
<1> QED  BY <1>2, <1>9, <1>30, <1>31 DEF LearntInv

LEMMA LearntStays ==
  ASSUME LearntInv, UNCHANGED <<runes, phase, pos, parsed, simple>>
  PROVE  LearntInv'
<1>1. \A t : cleanWordLeaves(t)' <=> cleanWordLeaves(t)
  BY DEF cleanWordLeaves, RuneAt, Size
<1>2. \A i : GluedToWord(i)' <=> GluedToWord(i)  BY DEF GluedToWord
<1>3. /\ Leaves' = Leaves /\ \A p : FillsTo(p)' = FillsTo(p)
      /\ \A list, A : Paired(list, A)' <=> Paired(list, A)
  BY <1>1, <1>2 DEF Leaves, FillsTo, Fills, Paired, Pairs, FillersOf
<1> QED  BY <1>2, <1>3 DEF LearntInv

\* The scan and the parser learn nothing.
LEMMA NoneLearns ==
  ASSUME LearntInv, EndInv',
         \/ ScanEnd \/ ScanSpace \/ ScanTimestamp \/ ScanBrace \/ ScanCodeBlock \/ ScanCode
         \/ ScanColon \/ ScanOther \/ ParseStep
  PROVE  Unlearnt'
<1>1. CASE ScanEnd
  BY <1>1 DEF ScanEnd, LearntInv, Unlearnt
<1>2. CASE \/ ScanSpace \/ ScanTimestamp \/ ScanBrace \/ ScanCodeBlock \/ ScanCode
           \/ ScanColon \/ ScanOther
  <2>1. phase = "scan" /\ \E f, next, m : Scan(f, next, m)  BY <1>2, ScanInner
  <2> QED  BY <2>1 DEF Scan, LearntInv, Unlearnt
<1>3. CASE LoopStep
  <2>1. phase = "parse" /\ \E f, next, m, n : Parse(f, next, m, n)  BY <1>3, LoopInner
  <2> QED  BY <2>1 DEF Parse, LearntInv, Unlearnt
<1>4. CASE ParseEnds
  BY <1>4 DEF ParseEnds, LearntInv, Unlearnt, EndInv
<1>5. CASE ParseAtOnce \/ BeginLoop \/ LoopEnds
  BY <1>5 DEF ParseAtOnce, BeginLoop, LoopEnds, LearntInv, Unlearnt
<1> QED  BY <1>1, <1>2, <1>3, <1>4, <1>5 DEF ParseStep, LoopStep

LEMMA LearntInvariance == TextSpec => []LearntInv
<1>1. TextInit => Unlearnt
  <2>1. TokenizeInit => phase = "scan" \/ (phase = "simplify" /\ pos = 0 /\ parsed = <<>>)
    BY DEF TokenizeInit
  <2> QED  BY <2>1, ShortLists DEF TextInit, TokenizeInit, Unlearnt
<1>2. ASSUME LearntInv, EndInv, TokensInv, EndInv', [TextNext]_textVars
      PROVE  LearntInv' \/ Unlearnt'
  <2>1. CASE Learn
    <3>1. /\ phase = "waiting" /\ (phase' = "simplify" \/ phase' = "scan")
          /\ UNCHANGED <<pos, parsed, simple>>
      BY <2>1 DEF Learn
    <3>2. pos = 0 /\ parsed = <<>> /\ simple = <<>>
      BY <1>2, <3>1 DEF TokensInv, RunesInv, LearntInv
    <3> QED  BY <3>1, <3>2, ShortLists DEF Unlearnt
  <2>2. CASE UNCHANGED tokenVars
    <3>1. UNCHANGED <<runes, phase, pos, parsed, simple>>  BY <2>2 DEF tokenVars
    <3> QED  BY <1>2, <3>1, LearntStays
  <2>3. CASE TokenizeNext
    <3>1. IsList(parsed) /\ EndsLast(parsed)  BY <1>2 DEF EndInv
    <3> QED
      BY <1>2, <2>3, <3>1, NoneLearns, EndLearnt, FillerLearnt, NothingLearnt, WordLearnt,
         DoneLearnt DEF TokenizeNext
  <2> QED  BY <1>2, <2>1, <2>2, <2>3 DEF TextNext, textVars
<1> QED  BY <1>1, <1>2, NoneLearnt, EndInvariance, TokensInvariance, PTL DEF TextSpec

LEMMA LearntAsParsed == EndInv /\ LearntInv => MentionsAreLearned
<1> SUFFICES ASSUME EndInv, LearntInv, phase = "done"  PROVE MentionsAreLearned
  BY DEF MentionsAreLearned
<1>1. PICK f : Pairs(f, simple, Leaves)  BY DEF LearntInv, Paired
<1>2. PICK F : F = FillersOf(simple)  OBVIOUS
<1>3. /\ f \in [F -> Leaves]
      /\ \A m, n \in F : f[m] = f[n] => m = n
      /\ \A i \in Leaves : \E n \in F : f[n] = i
      /\ \A n \in F : simple[n].parts = <<parsed[f[n]]>>
  BY <1>1, <1>2 DEF Pairs
<1>4. \A n \in F : simple[n].parts[1] = parsed[f[n]] /\ f[n] \in Leaves  BY <1>3
<1>5. {parsed[i] : i \in Leaves} = {simple[n].parts[1] : n \in F}
  BY <1>3, <1>4
<1>6. IsFiniteSet(F)
  <2>1. DOMAIN simple = 1 .. Len(simple) /\ Len(simple) \in Nat  BY ListOf DEF LearntInv
  <2>2. IsFiniteSet(DOMAIN simple) /\ F \subseteq DOMAIN simple
    BY <1>2, <2>1, FS_Interval DEF FillersOf
  <2> QED  BY <2>2, FS_Subset
<1>7. Cardinality(Leaves) = Cardinality(F)
  <2>1. f \in Injection(F, Leaves)  BY <1>3 DEF Injection, IsInjective
  <2>2. f \in Surjection(F, Leaves)  BY <1>3 DEF Surjection
  <2> QED  BY <1>6, <2>1, <2>2, FS_Surjection
<1>8. /\ Leaves = {i \in DOMAIN parsed : /\ parsed[i].type \in Fillers /\ ~GluedToWord(i)
                                         /\ cleanWordLeaves(parsed[i])}
      /\ F = {n \in DOMAIN simple : simple[n].type \in Fillers}
  BY <1>2 DEF Leaves, Fills, FillersOf
<1> QED  BY <1>5, <1>7, <1>8 DEF MentionsAreLearned

----------------------------------------------------------------------------
(* DiscordText: mentions in a word of their own *)

Lones == {k \in 0 .. Len(raw) - 1 : Lone(k)}
Signs(text) == {q \in DOMAIN text : text[q] = "@" /\ (q = 1 \/ text[q - 1] = "space")}
SignNext == contents = <<>> \/ contents[Len(contents)] = "space"

SpaceWord(t) == t.type = "word" /\ t.name = <<"space">>
AfterSpaceWord == found = <<>> \/ SpaceWord(found[Len(found)])
OfLone(t) == t.type = "user" /\ Lone(t.from)
HasToken(k) == \E i \in DOMAIN found : found[i].type = "user" /\ found[i].from = k
WrittenOut == {k \in Lones : ~HasToken(k)}

\* The token of a lone mention follows a space, which is written out before it.
LedInv ==
  reading \in {"pieces", "names"} =>
    \A i \in DOMAIN found :
      OfLone(found[i]) => IF i = 1 THEN SignNext ELSE SpaceWord(found[i - 1])

\* A lone mention behind the piece has its token; one that is the piece comes to its closing
\* bracket with nothing of it made a word.
LonePiece ==
  reading = "pieces" =>
    /\ to = Len(raw) \/ Rune(to) = "space"
    /\ \A k \in Lones : k < from \/ (k = from /\ place > to) => HasToken(k)
    /\ place = from => AfterSpaceWord /\ start = from
    /\ Lone(from) /\ place <= to =>
         place < to /\ AfterSpaceWord /\ start = from /\ (place > from => inBracket)

LoneInv ==
  /\ reading = "off" => raw = <<>>
  /\ LedInv /\ LonePiece
  /\ reading = "names" => Cardinality(WrittenOut) <= Cardinality(Signs(contents))
  /\ reading = "read" => Cardinality(Lones) <= Cardinality(Signs(contents))

LEMMA LoneKept ==
  ASSUME raw' = raw
  PROVE  (\A k : Lone(k)' <=> Lone(k)) /\ (\A k : Rune(k)' = Rune(k)) /\ Lones' = Lones
<1>1. \A k : Rune(k)' = Rune(k)  BY DEF Rune
<1>2. \A k : Lone(k)' <=> Lone(k)  BY <1>1 DEF Lone
<1> QED  BY <1>1, <1>2 DEF Lones

\* A lone mention in a piece is the piece.
LEMMA LoneAlone ==
  ASSUME raw \in Seq(Characters), from \in Nat, to \in Nat, from <= to, to <= Len(raw),
         to = Len(raw) \/ Rune(to) = "space", \A k \in from .. to - 1 : Rune(k) # "space"
  PROVE  /\ Lone(from) => to = from + 4 /\ from \in Lones
         /\ \A k \in from .. to : Lone(k) => k = from
<1>1. PICK n : n = Len(raw)  OBVIOUS
<1>2. n \in Nat /\ to <= n  BY <1>1
<1>3. \A k : Rune(k) # "end" => k \in 0 .. n - 1  BY <1>1 DEF Rune
<1>4. ASSUME Lone(from)  PROVE to = from + 4 /\ from \in Lones
  <2>1. /\ \A k \in from .. from + 3 : Rune(k) # "space" /\ k \in 0 .. n - 1
        /\ from + 4 = n \/ Rune(from + 4) = "space"
    <3>1. /\ Rune(from) = "<" /\ Rune(from + 1) = "@" /\ Rune(from + 2) = "a" /\ Rune(from + 3) = ">"
          /\ from + 4 = n \/ Rune(from + 4) = "space"
      BY <1>1, <1>4 DEF Lone
    <3>2. \A k \in from .. from + 3 : k \in {from, from + 1, from + 2, from + 3}  OBVIOUS
    <3> QED  BY <1>3, <3>1, <3>2
  <2>2. ~(to < from + 4)
    <3>1. to < from + 4 => to \in from .. from + 3  OBVIOUS
    <3>2. to < from + 4 => Rune(to) # "space" /\ to \in 0 .. n - 1  BY <2>1, <3>1
    <3>3. to < from + 4 => to # n  BY <1>2, <3>2
    <3> QED  BY <1>1, <3>2, <3>3
  <2>3. ~(from + 4 < to)
    <3>1. from + 4 < to => from + 4 \in from .. to - 1 /\ from + 4 # n  BY <1>2
    <3> QED  BY <2>1, <3>1
  <2>4. from \in 0 .. n - 1  BY <2>1
  <2> QED  BY <1>1, <1>4, <2>2, <2>3, <2>4 DEF Lones
<1>5. ASSUME NEW k \in from .. to, Lone(k)  PROVE k = from
  <2>1. k # from => k - 1 \in from .. to - 1 /\ k # 0  OBVIOUS
  <2>2. k = 0 \/ Rune(k - 1) = "space"  BY <1>5 DEF Lone
  <2> QED  BY <2>1, <2>2
<1> QED  BY <1>4, <1>5

LEMMA LoneReading ==
  ASSUME ReadInv, LoneInv, reading = "pieces"
  PROVE  /\ to = Len(raw) \/ Rune(to) = "space"
         /\ Lone(from) => to = from + 4 /\ from \in Lones
         /\ \A k \in from .. to : Lone(k) => k = from
         /\ \A k \in Lones : k \in Nat /\ Lone(k)
         /\ contents = <<>> /\ SignNext /\ from <= to
<1>1. to = Len(raw) \/ Rune(to) = "space"  BY DEF LoneInv, LonePiece
<1>2. contents = <<>>  BY DEF ReadInv, PiecesInv
<1>3. \A k \in Lones : k \in Nat /\ Lone(k)  BY Reading DEF Lones
<1> QED  BY <1>1, <1>2, <1>3, Reading, LoneAlone DEF SignNext

\* A token is put behind those that were found.
LEMMA FoundOne ==
  ASSUME found \in Seq(PieceTokens), raw' = raw, NEW t \in PieceTokens, found' = Append(found, t)
  PROVE  /\ \A k : HasToken(k) => HasToken(k)'
         /\ t.type = "user" => HasToken(t.from)'
         /\ SpaceWord(t) => AfterSpaceWord'
         /\ reading = "pieces" /\ reading' = "pieces" /\ LedInv /\ UNCHANGED contents
              /\ (OfLone(t) => AfterSpaceWord /\ SignNext) => LedInv'
<1>1. PICK n, new : n = Len(found) /\ new = found'  OBVIOUS
<1>2. /\ n \in Nat /\ DOMAIN found = 1 .. n /\ DOMAIN new = 1 .. n + 1 /\ Len(new) = n + 1
      /\ \A i \in 1 .. n : new[i] = found[i]
      /\ new[n + 1] = t
      /\ found = <<>> <=> n = 0
  BY <1>1
<1>3. \A k : HasToken(k) => HasToken(k)'
  <2>1. \A i \in 1 .. n : i \in 1 .. n + 1  BY <1>2
  <2> QED  BY <1>1, <1>2, <2>1 DEF HasToken
<1>4. t.type = "user" => HasToken(t.from)'
  <2>1. n + 1 \in 1 .. n + 1  BY <1>2
  <2> QED  BY <1>1, <1>2, <2>1 DEF HasToken
<1>5. SpaceWord(t) => AfterSpaceWord'  BY <1>1, <1>2 DEF AfterSpaceWord, SpaceWord
<1>6. ASSUME reading = "pieces", LedInv, UNCHANGED contents, reading' = "pieces",
             OfLone(t) => AfterSpaceWord /\ SignNext
      PROVE  LedInv'
  <2>1. \A x : OfLone(x)' <=> OfLone(x)  BY LoneKept DEF OfLone
  <2>2. \A x : SpaceWord(x)' <=> SpaceWord(x)  BY DEF SpaceWord
  <2>3. SignNext' <=> SignNext  BY <1>6 DEF SignNext
  <2>4. ASSUME NEW i \in 1 .. n + 1, OfLone(new[i])
        PROVE  IF i = 1 THEN SignNext ELSE SpaceWord(new[i - 1])
    <3>1. CASE i \in 1 .. n
      <4>1. i # 1 => i - 1 \in 1 .. n  BY <1>2, <3>1
      <4> QED  BY <1>2, <1>6, <2>4, <3>1, <4>1 DEF LedInv
    <3>2. CASE i = n + 1
      <4>1. AfterSpaceWord /\ SignNext  BY <1>2, <1>6, <2>4, <3>2
      <4>2. i # 1 => n # 0 /\ n \in 1 .. n /\ i - 1 = n  BY <1>2, <3>2
      <4>3. i # 1 => SpaceWord(new[i - 1])
        BY <1>1, <1>2, <4>1, <4>2 DEF AfterSpaceWord
      <4> QED  BY <4>1, <4>3
    <3> QED  BY <1>2, <3>1, <3>2
  <2> QED  BY <1>1, <1>2, <1>6, <2>1, <2>2, <2>3, <2>4 DEF LedInv
<1> QED  BY <1>3, <1>4, <1>5, <1>6

LEMMA LoneDone ==
  ASSUME ReadInv, LoneInv, PieceDone  PROVE LoneInv'
<1>1. /\ reading = "pieces" /\ place = to /\ from < to /\ place' = place + 1
      /\ UNCHANGED <<raw, reading, from, to, contents>>
      /\ found' = Append(found, WordToken(start, place))
  BY DEF PieceDone, ReadingPiece
<1>2. PICK t : t = WordToken(start, place)  OBVIOUS
<1>3. t \in PieceTokens /\ t.type = "word" /\ found \in Seq(PieceTokens)
  <2>1. start < to /\ to \in 0 .. Len(raw)  BY <1>1, Reading
  <2> QED  BY <1>1, <1>2, <2>1, Reading, WordTokenTyped DEF WordToken, PieceToken
<1>4. place \in Nat /\ from \in Nat /\ to \in Nat  BY <1>1, Reading
<1>5. ~Lone(from)  BY <1>1, <1>4 DEF LoneInv, LonePiece
<1>6. (\A k : HasToken(k) => HasToken(k)') /\ LedInv'
  BY <1>1, <1>2, <1>3, FoundOne DEF LoneInv, OfLone
<1>7. (\A k : Lone(k)' <=> Lone(k)) /\ (\A k : Rune(k)' = Rune(k)) /\ Lones' = Lones
  BY <1>1, LoneKept
<1>8. LonePiece'
  <2>1. place' # from' /\ ~Lone(from)'  BY <1>1, <1>4, <1>5, <1>7
  <2>2. \A k \in Lones : k # from  BY <1>1, <1>5, LoneReading
  <2>3. \A k \in Lones : k < from => HasToken(k)'  BY <1>1, <1>6 DEF LoneInv, LonePiece
  <2>4. (\A k \in Lones : k < from \/ (k = from /\ place > to) => HasToken(k))'
    BY <1>1, <1>7, <2>2, <2>3
  <2>5. (to = Len(raw) \/ Rune(to) = "space")'  BY <1>1, <1>7 DEF LoneInv, LonePiece
  <2> QED  BY <2>1, <2>4, <2>5 DEF LonePiece
<1> QED  BY <1>1, <1>6, <1>8 DEF LoneInv

LEMMA LoneOpens ==
  ASSUME ReadInv, LoneInv, BracketOpens  PROVE LoneInv'
<1>1. /\ reading = "pieces" /\ place < to /\ Rune(place) = "<"
      /\ place' = place + 1 /\ start' = place /\ inBracket' = TRUE
      /\ UNCHANGED <<raw, reading, from, to, contents>>
      /\ found' = IF place > from THEN Append(found, WordToken(from, place)) ELSE found
  BY DEF BracketOpens, ReadingPiece
<1>2. /\ place \in Nat /\ from \in Nat /\ to \in Nat /\ from <= place
      /\ found \in Seq(PieceTokens)
  BY <1>1, Reading
<1>3. Lone(from) => place = from
  <2> SUFFICES ASSUME Lone(from), place # from  PROVE FALSE
    OBVIOUS
  <2>1. to = from + 4  BY <1>1, LoneReading
  <2>2. place \in {from + 1, from + 2, from + 3}  BY <1>1, <1>2, <2>1
  <2> QED  BY <1>1, <2>2 DEF Lone
<1>4. (\A k : Lone(k)' <=> Lone(k)) /\ (\A k : Rune(k)' = Rune(k)) /\ Lones' = Lones
  BY <1>1, LoneKept
<1>5. (\A k : HasToken(k) => HasToken(k)') /\ LedInv'
  <2>1. CASE place > from
    <3>1. PICK t : t = WordToken(from, place)  OBVIOUS
    <3>2. t \in PieceTokens /\ t.type = "word"
      <4>1. place \in 0 .. Len(raw)  BY <1>1, <1>2, Reading
      <4> QED  BY <1>1, <1>2, <2>1, <3>1, <4>1, Reading, WordTokenTyped DEF WordToken, PieceToken
    <3>3. found' = Append(found, t)  BY <1>1, <2>1, <3>1
    <3> QED  BY <1>1, <1>2, <3>2, <3>3, FoundOne DEF LoneInv, OfLone
  <2>2. CASE ~(place > from)
    <3>1. found' = found  BY <1>1, <2>2
    <3> QED  BY <1>1, <1>4, <3>1 DEF LoneInv, LedInv, HasToken, OfLone, SpaceWord, SignNext
  <2> QED  BY <2>1, <2>2
<1>6. LonePiece'
  <2>1. place' # from' /\ ~(place' > to')  BY <1>1, <1>2
  <2>2. \A k \in Lones : k < from => HasToken(k)'  BY <1>1, <1>5 DEF LoneInv, LonePiece
  <2>3. (\A k \in Lones : k < from \/ (k = from /\ place > to) => HasToken(k))'
    BY <1>1, <1>4, <2>1, <2>2
  <2>4. (to = Len(raw) \/ Rune(to) = "space")'  BY <1>1, <1>4 DEF LoneInv, LonePiece
  <2>5. (Lone(from) => place < to /\ AfterSpaceWord /\ start = from /\ (place > from => inBracket))'
    <3> SUFFICES ASSUME Lone(from)
                 PROVE  (place < to /\ AfterSpaceWord /\ start = from /\ (place > from => inBracket))'
      BY <1>1, <1>4
    <3>1. place = from /\ to = from + 4  BY <1>1, <1>3, LoneReading
    <3>2. found' = found  BY <1>1, <1>2, <3>1
    <3>3. AfterSpaceWord  BY <1>1, <3>1 DEF LoneInv, LonePiece
    <3>4. AfterSpaceWord'  BY <3>2, <3>3 DEF AfterSpaceWord, SpaceWord
    <3> QED  BY <1>1, <1>2, <3>1, <3>4
  <2> QED  BY <2>1, <2>3, <2>4, <2>5 DEF LonePiece
<1> QED  BY <1>1, <1>5, <1>6 DEF LoneInv

LEMMA LoneCloses ==
  ASSUME ReadInv, LoneInv, BracketCloses  PROVE LoneInv'
<1>1. /\ reading = "pieces" /\ place < to /\ Rune(place) = ">"
      /\ ~(inBracket /\ Malformed(place + 1)) /\ place' = place + 2
      /\ UNCHANGED <<raw, reading, from, to, contents>>
      /\ found' = IF inBracket THEN found \o Markup(place + 1) ELSE found
  BY DEF BracketCloses, AtClosing, ReadingPiece
<1>2. /\ place \in Nat /\ from \in Nat /\ to \in Nat /\ start \in Nat /\ Len(raw) \in Nat
      /\ from <= start /\ start <= place /\ start <= to /\ to <= Len(raw)
      /\ found \in Seq(PieceTokens) /\ raw \in Seq(Characters)
  BY <1>1, Reading
<1>3. Lone(from) => /\ place = from + 3 /\ to = from + 4 /\ inBracket /\ start = from
                    /\ AfterSpaceWord
  <2> SUFFICES ASSUME Lone(from)
               PROVE  place = from + 3 /\ to = from + 4 /\ inBracket /\ start = from /\ AfterSpaceWord
    OBVIOUS
  <2>1. to = from + 4  BY <1>1, LoneReading
  <2>2. place \in {from, from + 1, from + 2, from + 3}  BY <1>1, <1>2, <2>1
  <2>3. place = from + 3  BY <1>1, <2>2 DEF Lone
  <2>4. place <= to /\ place > from  BY <1>2, <2>1, <2>3
  <2> QED  BY <1>1, <2>1, <2>3, <2>4 DEF LoneInv, LonePiece
<1>4. (\A k : Lone(k)' <=> Lone(k)) /\ (\A k : Rune(k)' = Rune(k)) /\ Lones' = Lones
  BY <1>1, LoneKept
<1>5. /\ \A k : HasToken(k) => HasToken(k)'
      /\ LedInv'
      /\ Lone(from) => HasToken(from)'
  <2>1. CASE found' = found
    <3>1. ~Lone(from)
      <4> SUFFICES ASSUME Lone(from)  PROVE FALSE
        OBVIOUS
      <4>1. Markup(place + 1) # <<>> /\ found' = found \o Markup(place + 1)
        BY <1>1, <1>3 DEF Markup, Lone
      <4>2. \E t \in PieceTokens : Markup(place + 1) = <<t>>
        <5>1. place + 1 \in 1 .. Len(raw)  BY <1>1, <1>2
        <5> QED  BY <1>1, <1>2, <1>3, <4>1, <5>1, MarkupTyped
      <4>3. PICK t \in PieceTokens : found' = Append(found, t)
        <5>1. PICK t \in PieceTokens : Markup(place + 1) = <<t>>  BY <4>2
        <5>2. found' = found \o <<t>>  BY <4>1, <5>1
        <5>3. found' = Append(found, t)  BY <1>2, <5>2, Appended
        <5> QED  BY <5>3
      <4>4. Len(found') = Len(found) + 1 /\ Len(found) \in Nat  BY <1>2, <4>3
      <4> QED  BY <2>1, <4>4
    <3> QED  BY <1>1, <1>4, <2>1, <3>1 DEF LoneInv, LedInv, HasToken, OfLone, SpaceWord, SignNext
  <2>2. CASE found' # found
    <3>1. inBracket /\ found' = found \o Markup(place + 1)  BY <1>1, <2>2
    <3>2. place + 1 \in 1 .. Len(raw)  BY <1>1, <1>2
    <3>3. PICK t \in PieceTokens : Markup(place + 1) = <<t>> /\ t.from = start
      <4>1. found \o <<>> = found  BY <1>2
      <4>2. Markup(place + 1) # <<>>  BY <2>2, <3>1, <4>1
      <4>3. ~Malformed(place + 1)  BY <1>1, <3>1
      <4> QED  BY <1>2, <3>2, <4>2, <4>3, MarkupTyped
    <3>4. found' = Append(found, t)
      <4>1. found' = found \o <<t>>  BY <3>1, <3>3
      <4> QED  BY <1>2, <4>1, Appended
    <3>5. OfLone(t) => AfterSpaceWord /\ SignNext
      <4> SUFFICES ASSUME OfLone(t)  PROVE AfterSpaceWord /\ SignNext
        OBVIOUS
      <4>1. Lone(start) /\ start \in from .. to  BY <1>2, <3>3 DEF OfLone
      <4>2. start = from  BY <1>1, <4>1, LoneReading
      <4> QED  BY <1>1, <1>3, <4>1, <4>2, LoneReading
    <3>6. Lone(from) => t.type = "user" /\ t.from = from
      <4> SUFFICES ASSUME Lone(from)  PROVE t.type = "user"
        BY <1>3, <3>3
      <4>1. /\ start = from /\ Rune(start + 1) = "@" /\ Rune(start + 2) = "a"
        BY <1>3 DEF Lone
      <4>2. PICK name, end : end = place + 1 /\ name = Runes(start + 2, end - 1)  OBVIOUS
      <4>3. Markup(end) = <<PieceToken("user", start, end, name)>>
        BY <4>1, <4>2 DEF Markup
      <4>4. t = PieceToken("user", start, end, name)  BY <3>3, <4>2, <4>3
      <4> QED  BY <4>4 DEF PieceToken
    <3> QED  BY <1>1, <1>2, <3>4, <3>5, <3>6, FoundOne DEF LoneInv
  <2> QED  BY <2>1, <2>2
<1>6. LonePiece'
  <2>1. place' # from' /\ (Lone(from) => place' > to')  BY <1>1, <1>2, <1>3
  <2>2. \A k \in Lones : k < from => HasToken(k)'  BY <1>1, <1>5 DEF LoneInv, LonePiece
  <2>3. \A k \in Lones : k = from => HasToken(k)'  BY <1>1, <1>5, LoneReading
  <2>4. (\A k \in Lones : k < from \/ (k = from /\ place > to) => HasToken(k))'
    BY <1>1, <1>4, <2>2, <2>3
  <2>5. (to = Len(raw) \/ Rune(to) = "space")'  BY <1>1, <1>4 DEF LoneInv, LonePiece
  <2>6. ~(Lone(from) /\ place <= to)'  BY <1>1, <1>2, <1>4, <2>1
  <2> QED  BY <2>1, <2>4, <2>5, <2>6 DEF LonePiece
<1> QED  BY <1>1, <1>5, <1>6 DEF LoneInv

LEMMA LonePlain ==
  ASSUME ReadInv, LoneInv, PlainRune  PROVE LoneInv'
<1>1. /\ reading = "pieces" /\ place < to /\ Rune(place) \notin {"<", ">"} /\ place' = place + 1
      /\ UNCHANGED <<raw, reading, from, to, start, inBracket, found, contents>>
  BY DEF PlainRune, ReadingPiece
<1>2. place \in Nat /\ from \in Nat /\ to \in Nat /\ from <= place  BY <1>1, Reading
<1>3. (\A k : Lone(k)' <=> Lone(k)) /\ (\A k : Rune(k)' = Rune(k)) /\ Lones' = Lones
  BY <1>1, LoneKept
<1>4. (\A k : HasToken(k)' <=> HasToken(k)) /\ (AfterSpaceWord' <=> AfterSpaceWord)
  BY <1>1 DEF HasToken, AfterSpaceWord, SpaceWord
<1>5. LedInv'
  BY <1>1, <1>3 DEF LoneInv, LedInv, OfLone, SpaceWord, SignNext
<1>6. Lone(from) => /\ place + 1 < to /\ AfterSpaceWord /\ start = from /\ inBracket
  <2> SUFFICES ASSUME Lone(from)
               PROVE  place + 1 < to /\ AfterSpaceWord /\ start = from /\ inBracket
    OBVIOUS
  <2>1. to = from + 4  BY <1>1, LoneReading
  <2>2. place # from /\ place # from + 3  BY <1>1 DEF Lone
  <2>3. place + 1 < to /\ place > from  BY <1>1, <1>2, <2>1, <2>2
  <2>4. place <= to  BY <1>1, <1>2
  <2> QED  BY <1>1, <2>3, <2>4 DEF LoneInv, LonePiece
<1>7. LonePiece'
  <2>1. place' # from' /\ ~(place' > to')  BY <1>1, <1>2
  <2>2. (\A k \in Lones : k < from \/ (k = from /\ place > to) => HasToken(k))'
    BY <1>1, <1>3, <1>4, <2>1 DEF LoneInv, LonePiece
  <2>3. (to = Len(raw) \/ Rune(to) = "space")'  BY <1>1, <1>3 DEF LoneInv, LonePiece
  <2>4. (Lone(from) => place < to /\ AfterSpaceWord /\ start = from /\ (place > from => inBracket))'
    BY <1>1, <1>3, <1>4, <1>6
  <2> QED  BY <2>1, <2>2, <2>3, <2>4 DEF LonePiece
<1> QED  BY <1>1, <1>5, <1>7 DEF LoneInv

LEMMA LoneNext ==
  ASSUME ReadInv, LoneInv, NextPiece  PROVE LoneInv'
<1>1. /\ reading = "pieces" /\ (place > to \/ from = to) /\ to < Len(raw)
      /\ found' = Append(found, WordToken(to, to + 1))
      /\ from' = to + 1 /\ to' = PieceEnd(to + 1) /\ place' = to + 1 /\ start' = to + 1
      /\ inBracket' = FALSE /\ UNCHANGED <<raw, reading, contents>>
  BY DEF NextPiece, PieceRead, Piece
<1>2. /\ from \in Nat /\ to \in Nat /\ from <= to /\ Len(raw) \in Nat /\ place \in Nat
      /\ found \in Seq(PieceTokens) /\ raw \in Seq(Characters)
  BY <1>1, Reading
<1>3. Rune(to) = "space"  BY <1>1, <1>2 DEF LoneInv, LonePiece
<1>4. PICK n, end : n = Len(raw) /\ end = PieceEnd(to + 1)  OBVIOUS
<1>5. /\ n \in Nat /\ end \in to + 1 .. n /\ \A k \in to + 1 .. end - 1 : Rune(k) # "space"
      /\ end = n \/ Rune(end) = "space"
  <2>1. to + 1 \in 0 .. Len(raw)  BY <1>1, <1>2
  <2>2. PICK p : p = FindRune(to + 1, Len(raw), {"space"})  OBVIOUS
  <2>3. p = Nothing \/ Rune(p) = "space"
    <3>1. to + 1 \in Nat  BY <1>2
    <3> QED  BY <1>2, <2>2, <3>1, RuneFound
  <2>4. end = n \/ Rune(end) = "space"  BY <1>4, <2>2, <2>3 DEF PieceEnd
  <2> QED  BY <1>2, <1>4, <2>1, <2>4, PieceEnds
<1>6. PICK t : t = WordToken(to, to + 1)  OBVIOUS
<1>7. t \in PieceTokens /\ t.type = "word" /\ SpaceWord(t)
  <2>1. to + 1 \in 0 .. Len(raw) /\ to < to + 1  BY <1>1, <1>2
  <2>2. t \in PieceTokens  BY <1>2, <1>6, <2>1, WordTokenTyped
  <2>3. to + 1 \in 1 .. Len(raw) /\ raw[to + 1] = "space"
    <3>1. to \in 0 .. Len(raw) - 1 /\ to + 1 \in 1 .. Len(raw)  BY <1>1, <1>2
    <3> QED  BY <1>3, <3>1 DEF Rune
  <2>4. Runes(to, to + 1) = <<"space">>
    <3>1. PICK m, r : m = to + 1 /\ r = SubSeq(raw, m, m)  OBVIOUS
    <3>2. m \in 1 .. Len(raw) /\ m \in Int /\ raw[m] = "space"  BY <1>2, <2>3, <3>1
    <3>3. r \in Seq(Characters) /\ Len(r) = 1 /\ r[1] = raw[m]
      BY <1>2, <3>1, <3>2, SubSeqProperties
    <3>4. r = <<"space">>  BY <3>2, <3>3
    <3> QED  BY <3>1, <3>4 DEF Runes
  <2>5. t.type = "word" /\ t.name = Runes(to, to + 1)  BY <1>6 DEF WordToken, PieceToken
  <2> QED  BY <2>2, <2>4, <2>5 DEF SpaceWord
<1>8. (\A k : HasToken(k) => HasToken(k)') /\ LedInv' /\ AfterSpaceWord'
  BY <1>1, <1>2, <1>6, <1>7, FoundOne DEF LoneInv, OfLone
<1>9. (\A k : Lone(k)' <=> Lone(k)) /\ (\A k : Rune(k)' = Rune(k)) /\ Lones' = Lones
  BY <1>1, LoneKept
<1>10. \A k \in Lones : k < to + 1 => HasToken(k)
  <2> SUFFICES ASSUME NEW k \in Lones, k < to + 1  PROVE HasToken(k)
    OBVIOUS
  <2>1. k \in Nat /\ Lone(k)  BY <1>1, LoneReading
  <2>2. CASE k < from  BY <1>1, <2>2 DEF LoneInv, LonePiece
  <2>3. CASE ~(k < from)
    <3>1. k \in from .. to  BY <1>2, <2>1, <2>3
    <3>2. k = from /\ to = from + 4  BY <1>1, <2>1, <3>1, LoneReading
    <3>3. place > to  BY <1>1, <1>2, <3>2
    <3> QED  BY <1>1, <3>2, <3>3 DEF LoneInv, LonePiece
  <2> QED  BY <2>2, <2>3
<1>11. Lone(to + 1) => to + 1 < end
  <2> SUFFICES ASSUME Lone(to + 1), to + 1 = end  PROVE FALSE
    BY <1>2, <1>5
  <2>1. Rune(end) = "<"  BY DEF Lone
  <2>2. end = n => Rune(end) = "end"  BY <1>4, <1>5 DEF Rune
  <2> QED  BY <1>5, <2>1, <2>2
<1>12. LonePiece'
  <2>1. ~(place' > to') /\ place' = from' /\ start' = from' /\ from' = to + 1 /\ to' = end
    BY <1>1, <1>2, <1>4, <1>5
  <2>2. (\A k \in Lones : k < from \/ (k = from /\ place > to) => HasToken(k))'
    BY <1>8, <1>9, <1>10, <2>1
  <2>3. (to = Len(raw) \/ Rune(to) = "space")'  BY <1>1, <1>4, <1>5, <1>9
  <2>4. (Lone(from) => place < to)'  BY <1>9, <1>11, <2>1
  <2>5. ~(place > from)'  BY <1>2, <2>1
  <2> QED  BY <1>8, <2>1, <2>2, <2>3, <2>4, <2>5 DEF LonePiece
<1> QED  BY <1>1, <1>8, <1>12 DEF LoneInv

LEMMA LonesFinite ==
  ASSUME raw \in Seq(Characters)
  PROVE  /\ IsFiniteSet(Lones) /\ Cardinality(Lones) \in Nat
         /\ IsFiniteSet(WrittenOut) /\ Cardinality(WrittenOut) \in Nat
<1>1. Len(raw) \in Nat  OBVIOUS
<1>2. IsFiniteSet(0 .. Len(raw) - 1)  BY <1>1, FS_Interval
<1>3. Lones \subseteq 0 .. Len(raw) - 1 /\ WrittenOut \subseteq Lones  BY DEF Lones, WrittenOut
<1>4. IsFiniteSet(Lones)  BY <1>2, <1>3, FS_Subset
<1>5. IsFiniteSet(WrittenOut)  BY <1>3, <1>4, FS_Subset
<1> QED  BY <1>4, <1>5, FS_CardinalityType

\* What is written behind a text leaves its signs, and may begin with one more.
LEMMA SignsGrow ==
  ASSUME NEW text \in Seq(Characters), NEW more \in Seq(Characters)
  PROVE  /\ Cardinality(Signs(text)) \in Nat /\ Cardinality(Signs(text \o more)) \in Nat
         /\ Cardinality(Signs(text)) <= Cardinality(Signs(text \o more))
         /\ more # <<>> /\ more[1] = "@" /\ (text = <<>> \/ text[Len(text)] = "space")
              => Cardinality(Signs(text)) + 1 <= Cardinality(Signs(text \o more))
<1>1. PICK new, m, n : new = text \o more /\ m = Len(text) /\ n = Len(more)  OBVIOUS
<1>2. /\ new \in Seq(Characters) /\ m \in Nat /\ n \in Nat
      /\ DOMAIN text = 1 .. m /\ DOMAIN more = 1 .. n /\ DOMAIN new = 1 .. m + n
      /\ \A i \in 1 .. m : new[i] = text[i]
      /\ \A i \in 1 .. n : new[m + i] = more[i]
      /\ (text = <<>> <=> m = 0) /\ (more = <<>> <=> n = 0)
  BY <1>1, Joined
<1>3. PICK S, N : S = Signs(text) /\ N = Signs(new)  OBVIOUS
<1>4. S \subseteq 1 .. m /\ N \subseteq 1 .. m + n  BY <1>2, <1>3 DEF Signs
<1>5. IsFiniteSet(S) /\ IsFiniteSet(N)
  <2>1. IsFiniteSet(1 .. m) /\ IsFiniteSet(1 .. m + n)  BY <1>2, FS_Interval
  <2> QED  BY <1>4, <2>1, FS_Subset
<1>6. S \subseteq N
  <2> SUFFICES ASSUME NEW q \in S  PROVE q \in N
    OBVIOUS
  <2>1. q \in 1 .. m /\ text[q] = "@" /\ (q = 1 \/ text[q - 1] = "space")
    BY <1>2, <1>3 DEF Signs
  <2>2. q \in 1 .. m + n /\ (q # 1 => q - 1 \in 1 .. m)  BY <1>2, <2>1
  <2> QED  BY <1>2, <1>3, <2>1, <2>2 DEF Signs
<1>7. /\ Cardinality(S) \in Nat /\ Cardinality(N) \in Nat /\ Cardinality(S) <= Cardinality(N)
  BY <1>5, <1>6, FS_Subset, FS_CardinalityType
<1>8. ASSUME more # <<>>, more[1] = "@", text = <<>> \/ text[Len(text)] = "space"
      PROVE  Cardinality(S) + 1 <= Cardinality(N)
  <2>1. 1 \in 1 .. n /\ m + 1 \in 1 .. m + n /\ (m + 1) - 1 = m  BY <1>2, <1>8
  <2>2. new[m + 1] = "@"  BY <1>2, <1>8, <2>1
  <2>3. m + 1 = 1 \/ new[(m + 1) - 1] = "space"
    <3>1. m # 0 => m \in 1 .. m  BY <1>2
    <3> QED  BY <1>1, <1>2, <1>8, <2>1, <3>1
  <2>4. m + 1 \in N  BY <1>2, <1>3, <2>1, <2>2, <2>3 DEF Signs
  <2>5. m + 1 \notin S  BY <1>2, <1>4
  <2>6. IsFiniteSet(S \cup {m + 1}) /\ Cardinality(S \cup {m + 1}) = Cardinality(S) + 1
    BY <1>5, <2>5, FS_AddElement
  <2>7. S \cup {m + 1} \subseteq N  BY <1>6, <2>4
  <2>8. Cardinality(S \cup {m + 1}) <= Cardinality(N)  BY <1>5, <2>7, FS_Subset
  <2> QED  BY <2>6, <2>8
<1> QED  BY <1>1, <1>3, <1>7, <1>8

LEMMA LoneAll ==
  ASSUME ReadInv, LoneInv, AllPieces  PROVE LoneInv'
<1>1. /\ reading = "pieces" /\ (place > to \/ from = to) /\ to = Len(raw) /\ reading' = "names"
      /\ UNCHANGED <<raw, from, to, place, start, inBracket, found, contents>>
  BY DEF AllPieces, PieceRead
<1>2. /\ from \in Nat /\ to \in Nat /\ from <= to /\ raw \in Seq(Characters) /\ place \in Nat
  BY <1>1, Reading
<1>3. \A k \in Lones : HasToken(k)
  <2> SUFFICES ASSUME NEW k \in Lones  PROVE HasToken(k)
    OBVIOUS
  <2>1. k \in Nat /\ Lone(k) /\ k < to
    <3>1. k \in 0 .. Len(raw) - 1  BY DEF Lones
    <3> QED  BY <1>1, <1>2, <3>1, LoneReading
  <2>2. CASE k < from  BY <1>1, <2>2 DEF LoneInv, LonePiece
  <2>3. CASE ~(k < from)
    <3>1. k \in from .. to  BY <1>2, <2>1, <2>3
    <3>2. k = from /\ to = from + 4  BY <1>1, <2>1, <3>1, LoneReading
    <3>3. place > to  BY <1>1, <1>2, <3>2
    <3> QED  BY <1>1, <3>2, <3>3 DEF LoneInv, LonePiece
  <2> QED  BY <2>2, <2>3
<1>4. (\A k : Lone(k)' <=> Lone(k)) /\ Lones' = Lones  BY <1>1, LoneKept
<1>5. LedInv'  BY <1>1, <1>4 DEF LoneInv, LedInv, OfLone, SpaceWord, SignNext
<1>6. (Cardinality(WrittenOut) <= Cardinality(Signs(contents)))'
  <2>1. WrittenOut' = {}  BY <1>1, <1>3, <1>4 DEF WrittenOut, HasToken
  <2>2. contents' = <<>> /\ <<>> \in Seq(Characters)  BY <1>1, LoneReading
  <2>3. Cardinality(Signs(<<>>)) \in Nat  BY <2>2, SignsGrow
  <2>4. Cardinality(WrittenOut') = 0  BY <2>1, FS_EmptySet
  <2>5. Signs(contents)' = Signs(<<>>)  BY <2>2 DEF Signs
  <2> QED  BY <2>3, <2>4, <2>5
<1> QED  BY <1>1, <1>5, <1>6 DEF LoneInv, LonePiece

LEMMA LoneWritten ==
  ASSUME ReadInv, LoneInv, WriteToken  PROVE LoneInv'
<1>1. /\ found \in Seq(PieceTokens) /\ contents \in Seq(Characters) /\ raw \in Seq(Characters)
      /\ reading = "names" /\ found # <<>> /\ found' = Tail(found)
      /\ UNCHANGED <<raw, reading, from, to, place, start, inBracket>>
  BY DEF ReadInv, ReadTypeOK, WriteToken
<1>2. PICK n, h, rest : n = Len(found) /\ h = Head(found) /\ rest = Tail(found)  OBVIOUS
<1>3. /\ n \in Nat /\ n # 0 /\ DOMAIN found = 1 .. n /\ h = found[1] /\ h \in PieceTokens
      /\ DOMAIN rest = 1 .. n - 1 /\ \A i \in 1 .. n - 1 : rest[i] = found[i + 1]
  <2>1. IsList(found)  BY <1>1 DEF IsList
  <2> QED  BY <1>1, <1>2, <2>1, ListTail, HeadTailProperties
<1>4. PICK name \in NamesFor(h) : contents' = contents \o Written(h, name)
  BY <1>2 DEF WriteToken
<1>5. PICK w : w = Written(h, name)  OBVIOUS
<1>6. w \in Seq(Characters) /\ w # <<>> /\ contents' = contents \o w
  BY <1>3, <1>4, <1>5, WrittenTyped
<1>7. (\A k : Lone(k)' <=> Lone(k)) /\ Lones' = Lones  BY <1>1, LoneKept
<1>8. SpaceWord(h) => SignNext'
  <2> SUFFICES ASSUME SpaceWord(h)  PROVE SignNext'
    OBVIOUS
  <2>1. w = <<"space">>  BY <1>5 DEF Written, SpaceWord
  <2>2. PICK new : new = contents'  OBVIOUS
  <2>3. new[Len(new)] = "space"
    <3>1. PICK m : m = Len(contents)  OBVIOUS
    <3>2. Len(w) = 1 /\ w[1] = "space" /\ m \in Nat  BY <1>1, <2>1, <3>1
    <3>3. IsList(contents) /\ IsList(w)  BY <1>1, <1>6 DEF IsList
    <3>4. new = contents \o w  BY <1>6, <2>2
    <3>5. Len(new) = m + Len(w) /\ \A i \in 1 .. Len(w) : new[m + i] = w[i]
      BY <3>1, <3>3, <3>4, ListJoined
    <3> QED  BY <3>2, <3>5
  <2> QED  BY <2>2, <2>3 DEF SignNext
<1>9. LedInv'
  <2>1. \A x : OfLone(x)' <=> OfLone(x)  BY <1>7 DEF OfLone
  <2>2. \A x : SpaceWord(x)' <=> SpaceWord(x)  BY DEF SpaceWord
  <2>3. ASSUME NEW i \in 1 .. n - 1, OfLone(rest[i])
        PROVE  IF i = 1 THEN SpaceWord(h) ELSE SpaceWord(rest[i - 1])
    <3>1. i + 1 \in 1 .. n /\ i + 1 # 1 /\ (i + 1) - 1 = i  BY <1>3
    <3>2. OfLone(found[i + 1])  BY <1>3, <2>3
    <3>3. SpaceWord(found[i])  BY <1>1, <1>3, <3>1, <3>2 DEF LoneInv, LedInv
    <3>4. i # 1 => i - 1 \in 1 .. n - 1 /\ (i - 1) + 1 = i  BY <1>3
    <3> QED  BY <1>3, <3>3, <3>4
  <2> QED  BY <1>1, <1>2, <1>3, <1>8, <2>1, <2>2, <2>3 DEF LedInv
<1>10. PICK before, after, C, D :
         /\ before = WrittenOut /\ after = WrittenOut'
         /\ C = Cardinality(Signs(contents)) /\ D = Cardinality(Signs(contents \o w))
  OBVIOUS
<1>11. /\ C \in Nat /\ D \in Nat /\ C <= D
       /\ w[1] = "@" /\ SignNext => C + 1 <= D
  BY <1>1, <1>6, <1>10, SignsGrow DEF SignNext
<1>12. IsFiniteSet(before) /\ Cardinality(before) \in Nat /\ Cardinality(before) <= C
  BY <1>1, <1>10, LonesFinite DEF LoneInv
<1>13. \A k \in Lones : HasToken(k) => HasToken(k)' \/ (OfLone(h) /\ k = h.from)
  <2> SUFFICES ASSUME NEW k \in Lones, HasToken(k)
               PROVE  HasToken(k)' \/ (OfLone(h) /\ k = h.from)
    OBVIOUS
  <2>1. PICK i \in 1 .. n : found[i].type = "user" /\ found[i].from = k
    BY <1>3 DEF HasToken
  <2>2. CASE i = 1  BY <1>3, <2>1, <2>2 DEF OfLone, Lones
  <2>3. CASE i # 1
    <3>1. i - 1 \in 1 .. n - 1 /\ (i - 1) + 1 = i  BY <1>3, <2>3
    <3>2. rest[i - 1] = found[i]  BY <1>3, <3>1
    <3> QED  BY <1>1, <1>2, <1>3, <2>1, <3>1, <3>2 DEF HasToken
  <2> QED  BY <2>2, <2>3
<1>14. Cardinality(after) <= D
  <2>1. CASE OfLone(h)
    <3>1. SignNext
      <4>1. 1 \in 1 .. n  BY <1>3
      <4> QED  BY <1>1, <1>3, <2>1, <4>1 DEF LoneInv, LedInv
    <3>2. w[1] = "@"
      <4>1. w = <<"@">> \o (IF name = Unknown THEN h.name ELSE name)
        BY <1>5, <2>1 DEF Written, OfLone, Named
      <4>2. PICK s \in Seq(Characters) : w = <<"@">> \o s
        <5>1. name = Unknown \/ name \in Seq(Characters)  BY <2>1, TextsTyped DEF NamesFor, OfLone
        <5>2. h.name \in Seq(Characters)  BY <1>3 DEF PieceTokens
        <5> QED  BY <4>1, <5>1, <5>2
      <4> QED  BY <4>2
    <3>3. after \subseteq before \cup {h.from}  BY <1>7, <1>10, <1>13 DEF WrittenOut
    <3>4. IsFiniteSet(before \cup {h.from}) /\ Cardinality(before \cup {h.from}) <= Cardinality(before) + 1
      BY <1>12, FS_AddElement
    <3>5. Cardinality(after) <= Cardinality(before \cup {h.from}) /\ IsFiniteSet(after)
      BY <3>3, <3>4, FS_Subset
    <3>6. Cardinality(after) \in Nat /\ Cardinality(before \cup {h.from}) \in Nat
      BY <3>4, <3>5, FS_CardinalityType
    <3> QED  BY <1>11, <1>12, <3>1, <3>2, <3>4, <3>5, <3>6
  <2>2. CASE ~OfLone(h)
    <3>1. after \subseteq before  BY <1>7, <1>10, <1>13, <2>2 DEF WrittenOut
    <3>2. Cardinality(after) <= Cardinality(before) /\ Cardinality(after) \in Nat
      BY <1>12, <3>1, FS_Subset, FS_CardinalityType
    <3> QED  BY <1>11, <1>12, <3>2
  <2> QED  BY <2>1, <2>2
<1>15. (Cardinality(WrittenOut) <= Cardinality(Signs(contents)))'
  <2>1. Signs(contents)' = Signs(contents \o w)  BY <1>6 DEF Signs
  <2> QED  BY <1>10, <1>14, <2>1
<1> QED  BY <1>1, <1>9, <1>15 DEF LoneInv, LonePiece

LEMMA LoneEnds ==
  ASSUME ReadInv, LoneInv, AllWritten \/ EmojiPanics  PROVE LoneInv'
<1>1. CASE AllWritten
  <2>1. /\ reading = "names" /\ found = <<>> /\ reading' = "read"
        /\ UNCHANGED <<raw, from, to, place, start, inBracket, found, contents>>
    BY <1>1 DEF AllWritten
  <2>2. Lones' = Lones  BY <2>1, LoneKept
  <2>3. WrittenOut = Lones  BY <2>1 DEF WrittenOut, HasToken
  <2>4. Signs(contents)' = Signs(contents)  BY <2>1 DEF Signs
  <2> QED  BY <2>1, <2>2, <2>3, <2>4 DEF LoneInv, LedInv, LonePiece
<1>2. CASE EmojiPanics
  BY <1>2 DEF EmojiPanics, LoneInv, LedInv, LonePiece
<1> QED  BY <1>1, <1>2

LEMMA LoneStays ==
  ASSUME ReadInv, LoneInv, UNCHANGED readingVars  PROVE LoneInv'
<1>1. UNCHANGED <<raw, reading, from, to, place, start, inBracket, found, contents>>
  BY DEF readingVars
<1>2. (\A k : Lone(k)' <=> Lone(k)) /\ (\A k : Rune(k)' = Rune(k)) /\ Lones' = Lones
  BY <1>1, LoneKept
<1>3. LedInv'  BY <1>1, <1>2 DEF LoneInv, LedInv, OfLone, SpaceWord, SignNext
<1>4. LonePiece'
  BY <1>1, <1>2 DEF LoneInv, LonePiece, HasToken, AfterSpaceWord, SpaceWord
<1>5. WrittenOut' = WrittenOut /\ Signs(contents)' = Signs(contents)
  BY <1>1, <1>2 DEF WrittenOut, HasToken, Signs
<1> QED  BY <1>1, <1>2, <1>3, <1>4, <1>5 DEF LoneInv

LEMMA LoneBegins ==
  ASSUME ReadInit \/ NotReading  PROVE LoneInv
<1>1. from = 0 /\ place = 0 /\ start = 0 /\ found = <<>> /\ contents = <<>>
  BY DEF ReadInit, NotReading
<1>2. LedInv
  <2>1. DOMAIN <<>> = {}  OBVIOUS
  <2> QED  BY <1>1, <2>1 DEF LedInv
<1>3. CASE ReadInit
  <2>1. raw \in Seq(Characters) /\ reading = "pieces" /\ to = PieceEnd(0)
    BY <1>3, TextsTyped DEF ReadInit
  <2>2. PICK n, p : n = Len(raw) /\ p = FindRune(0, Len(raw), {"space"})  OBVIOUS
  <2>3. n \in Nat  BY <2>1, <2>2
  <2>4. to = n \/ Rune(to) = "space"
    <3>1. p = Nothing \/ Rune(p) = "space"  BY <2>1, <2>2, <2>3, RuneFound
    <3> QED  BY <2>1, <2>2, <3>1 DEF PieceEnd
  <2>5. \A k \in Lones : k \in Nat  BY <2>2, <2>3 DEF Lones
  <2>6. to \in 0 .. n /\ \A k \in 0 .. to - 1 : Rune(k) # "space"
    BY <2>1, <2>2, <2>3, PieceEnds
  <2>7. Lone(from) => place < to
    <3>1. to \in Nat /\ from \in Nat /\ from <= to  BY <1>1, <2>3, <2>6
    <3>2. Lone(from) => to = from + 4  BY <1>1, <2>1, <2>2, <2>3, <2>4, <2>6, <3>1, LoneAlone
    <3> QED  BY <1>1, <3>2
  <2>8. ~(place > from) /\ ~(place > to) /\ \A k \in Lones : ~(k < from)
    BY <1>1, <2>3, <2>5, <2>6
  <2>9. LonePiece  BY <1>1, <2>2, <2>4, <2>7, <2>8 DEF LonePiece, AfterSpaceWord
  <2> QED  BY <1>2, <2>1, <2>9 DEF LoneInv
<1>4. CASE NotReading
  <2>1. reading = "off" /\ raw = <<>>  BY <1>4 DEF NotReading
  <2> QED  BY <1>2, <2>1 DEF LoneInv, LonePiece
<1> QED  BY <1>3, <1>4

LEMMA LoneInvariance == TextSpec => []LoneInv
<1>1. TextInit => LoneInv  BY LoneBegins DEF TextInit
<1>2. ASSUME ReadInv, LoneInv, [TextNext]_textVars  PROVE LoneInv'
  <2>1. ReadStep \/ UNCHANGED readingVars
    BY <1>2 DEF TextNext, Learn, textVars, readingVars
  <2> QED
    BY <1>2, <2>1, LoneDone, LoneOpens, LoneCloses, LonePlain, LoneNext, LoneAll, LoneWritten,
       LoneEnds, LoneStays DEF ReadStep
<1> QED  BY <1>1, <1>2, ReadInvariance, PTL DEF TextSpec

----------------------------------------------------------------------------
(* TokenizePrep leaves a mention its sign, at the beginning or behind a space *)

\* What is kept of a text from one space on to a sign behind another has the space before the sign.
LEMMA SpaceStays ==
  ASSUME NEW L \in Nat, NEW s, DOMAIN s = 1 .. L, NEW K,
         K = {i \in DOMAIN s : s[i] \notin Unwanted /\ ~Doubled(s, i)},
         NEW h \in K, NEW j \in 1 .. L, h < j, s[j - 1] = Space,
         \A k \in K : ~(h < k /\ k < j)
  PROVE  s[h] = Space
<1>1. h \in 1 .. L /\ j - 1 \in 1 .. L /\ h <= j - 1
  BY DEF Doubled
<1>2. s[h] \notin Unwanted  OBVIOUS
<1> SUFFICES ASSUME s[h] # Space  PROVE FALSE
  OBVIOUS
<1>3. PICK Z : Z = {z \in h + 1 .. j - 1 : s[z] = Space}  OBVIOUS
<1>4. Z \subseteq Nat /\ j - 1 \in Z
  <2>1. h # j - 1  OBVIOUS
  <2>2. j - 1 \in h + 1 .. j - 1  BY <1>1, <2>1
  <2> QED  BY <1>1, <1>3, <2>2
<1>5. PICK z \in Z : \A y \in Z : z <= y  BY <1>4, NatMinimum
<1>6. z \in 1 .. L /\ h < z /\ z < j /\ s[z] = Space  BY <1>1, <1>3
<1>7. Doubled(s, z)
  <2>1. Space \notin Unwanted  BY DEF Space, Unwanted, Nil
  <2>2. z \notin K  BY <1>6
  <2> QED  BY <1>6, <2>1, <2>2
<1>8. PICK y \in 1 .. z - 1 : s[y] = Space /\ \A k \in y + 1 .. z - 1 : s[k] \in Unwanted
  BY <1>7 DEF Doubled
<1>9. ~(h < y)
  <2>1. h < y => y \in Z  BY <1>1, <1>3, <1>6, <1>8
  <2> QED  BY <1>1, <1>5, <1>6, <1>8, <2>1
<1>10. h \in y + 1 .. z - 1  BY <1>1, <1>6, <1>8, <1>9
<1> QED  BY <1>2, <1>8, <1>10

LEMMA SignsPrepared ==
  ASSUME NEW text \in Seq(Characters)
  PROVE  /\ Cardinality(Signs(text)) <= Cardinality(Signs(TokenizePrep(text)))
         /\ IsFiniteSet(Signs(TokenizePrep(text)))
<1>1. PICK s : s = Replaced(TrimBoth(text, White))  OBVIOUS
<1>2. PICK K : K = {i \in DOMAIN s : s[i] \notin Unwanted /\ ~Doubled(s, i)}  OBVIOUS
<1>3. PICK p : p = TokenizePrep(text)  OBVIOUS
<1>4. p = Kept(s, K)  BY <1>1, <1>2, <1>3 DEF TokenizePrep
<1>5. PICK t : t = TrimBoth(text, White)  OBVIOUS
<1>6. t \in Seq(Characters)  BY <1>5, TrimmedTyped
<1>7. PICK L : L = Len(t)  OBVIOUS
<1>8. L \in Nat /\ DOMAIN t = 1 .. L  BY <1>6, <1>7
<1>9. /\ DOMAIN s = 1 .. L
      /\ \A i \in 1 .. L : s[i] = IF t[i] = "tab" THEN Space ELSE t[i]
  BY <1>1, <1>5, <1>8 DEF Replaced
<1>10. K \in SUBSET (1 .. L)  BY <1>2, <1>9
<1>11. PICK N : N = Cardinality(K)  OBVIOUS
<1>12. /\ N \in Nat /\ \A h \in K : Rank(K, h) \in 1 .. N
       /\ \A n \in 1 .. N : Nth(K, n) \in K /\ Rank(K, Nth(K, n)) = n
       /\ \A h \in K : Nth(K, Rank(K, h)) = h
       /\ \A g, h \in K : g < h => Rank(K, g) < Rank(K, h)
  BY <1>8, <1>10, <1>11, RanksCount, NthIs, RankRises
<1>13. p = [n \in 1 .. N |-> s[Nth(K, n)]]  BY <1>4, <1>11 DEF Kept
<1>14. DOMAIN p = 1 .. N /\ \A n \in 1 .. N : p[n] = s[Nth(K, n)]  BY <1>13
<1>15. PICK S, P : S = Signs(text) /\ P = Signs(p)  OBVIOUS
<1>16. IsFiniteSet(P) /\ Cardinality(P) \in Nat
  <2>1. P \subseteq 1 .. N  BY <1>14, <1>15 DEF Signs
  <2>2. IsFiniteSet(1 .. N)  BY <1>12, FS_Interval
  <2>3. IsFiniteSet(P)  BY <2>1, <2>2, FS_Subset
  <2> QED  BY <2>3, FS_CardinalityType
<1>17. CASE S = {}
  <2>1. Cardinality(S) = 0  BY <1>17, FS_EmptySet
  <2> QED  BY <1>3, <1>15, <1>16, <2>1
<1>18. CASE S # {}
  <2>1. PICK inner : inner = {i \in DOMAIN text : text[i] \notin White}  OBVIOUS
  <2>2. \A q \in S : /\ q \in inner /\ text[q] = "@"
                     /\ q = 1 \/ text[q - 1] = Space
    BY <1>15, <2>1 DEF Signs, White, Space, NewLine
  <2>3. PICK a, b : /\ a \in inner /\ b \in inner /\ t = SubSeq(text, a, b)
                    /\ \A i \in inner : a <= i /\ i <= b
    <3>1. inner # {}  BY <1>18, <2>2
    <3> QED  BY <1>5, <2>1, <3>1, TrimPlaces
  <2>4. PICK M : M = Len(text)  OBVIOUS
  <2>5. /\ M \in Nat /\ inner \subseteq 1 .. M /\ a \in 1 .. M /\ b \in 1 .. M
    BY <2>1, <2>3, <2>4
  <2>6. /\ \A i \in 1 .. L : t[i] = text[a + i - 1]
        /\ a <= b => L = b - a + 1
    <3>1. \A i \in a .. b : text[i] \in Characters  BY <2>4, <2>5
    <3>2. /\ L = IF a <= b THEN b - a + 1 ELSE 0
          /\ \A i \in 1 .. b - a + 1 : t[i] = text[a + i - 1]
      BY <1>7, <2>3, <2>5, <3>1, SubSeqProperties
    <3> QED  BY <2>5, <3>2
  <2>7. ASSUME NEW q \in S
        PROVE  /\ q - a + 1 \in K /\ s[q - a + 1] = "@"
               /\ q - a + 1 # 1 => s[(q - a + 1) - 1] = Space
    <3>1. PICK j : j = q - a + 1  OBVIOUS
    <3>2. q \in 1 .. M /\ a <= q /\ q <= b  BY <2>2, <2>3, <2>5
    <3>3. j \in 1 .. L /\ a + j - 1 = q /\ j \in Nat  BY <2>5, <2>6, <3>1, <3>2
    <3>4. s[j] = "@"  BY <1>9, <2>2, <2>6, <3>3
    <3>5. j \in K  BY <1>2, <1>9, <3>3, <3>4 DEF Unwanted, Doubled, Nil, Space
    <3>6. ASSUME j # 1  PROVE s[j - 1] = Space
      <4>1. j - 1 \in 1 .. L /\ a + (j - 1) - 1 = q - 1 /\ q # 1  BY <1>8, <2>5, <3>2, <3>3, <3>6
      <4>2. t[j - 1] = Space  BY <2>2, <2>6, <4>1
      <4> QED  BY <1>9, <4>1, <4>2 DEF Space
    <3> QED  BY <3>1, <3>4, <3>5, <3>6
  <2>8. ASSUME NEW q \in S  PROVE Rank(K, q - a + 1) \in P
    <3>1. PICK j, r : j = q - a + 1 /\ r = Rank(K, j)  OBVIOUS
    <3>2. j \in K /\ s[j] = "@" /\ (j # 1 => s[j - 1] = Space)  BY <2>7, <3>1
    <3>3. r \in 1 .. N /\ p[r] = "@"  BY <1>12, <1>14, <3>1, <3>2
    <3>4. ASSUME r # 1  PROVE p[r - 1] = Space
      <4>1. r - 1 \in 1 .. N  BY <1>12, <3>3, <3>4
      <4>2. PICK h : h = Nth(K, r - 1)  OBVIOUS
      <4>3. h \in K /\ Rank(K, h) = r - 1 /\ p[r - 1] = s[h]  BY <1>12, <1>14, <4>1, <4>2
      <4>4. h \in 1 .. L /\ j \in 1 .. L  BY <1>10, <3>2, <4>3
      <4>5. h < j
        <5>1. ~(j < h)  BY <1>12, <3>1, <3>2, <3>3, <4>3
        <5>2. j # h  BY <3>1, <3>3, <4>3
        <5> QED  BY <4>4, <5>1, <5>2
      <4>6. \A k \in K : ~(h < k /\ k < j)
        <5> SUFFICES ASSUME NEW k \in K, h < k, k < j  PROVE FALSE
          OBVIOUS
        <5>1. Rank(K, h) < Rank(K, k) /\ Rank(K, k) < Rank(K, j) /\ Rank(K, k) \in 1 .. N
          BY <1>12, <3>2, <4>3
        <5> QED  BY <1>12, <3>1, <3>3, <4>3, <5>1
      <4>7. s[j - 1] = Space  BY <3>2, <4>4, <4>5
      <4>8. s[h] = Space
        <5>1. DOMAIN s = 1 .. L  BY <1>9
        <5> QED  BY <1>2, <1>8, <4>3, <4>4, <4>5, <4>6, <4>7, <5>1, SpaceStays
      <4> QED  BY <4>3, <4>8
    <3>5. r \in P  BY <1>14, <1>15, <3>3, <3>4 DEF Signs, Space
    <3> QED  BY <3>1, <3>5
  <2>9. PICK f : f = [q \in S |-> Rank(K, q - a + 1)]  OBVIOUS
  <2>10. f \in [S -> P]  BY <2>8, <2>9
  <2>11. ASSUME NEW q \in S, NEW r \in S, f[q] = f[r]  PROVE q = r
    <3>1. Nth(K, f[q]) = q - a + 1 /\ Nth(K, f[r]) = r - a + 1  BY <1>12, <2>7, <2>9
    <3>2. q \in 1 .. M /\ r \in 1 .. M  BY <2>2, <2>5
    <3> QED  BY <2>5, <2>11, <3>1, <3>2
  <2>12. f \in Injection(S, P)  BY <2>10, <2>11 DEF Injection, IsInjective
  <2>13. Cardinality(S) <= Cardinality(P)  BY <1>16, <2>12, FS_Injection
  <2> QED  BY <1>3, <1>15, <1>16, <2>13
<1> QED  BY <1>17, <1>18

----------------------------------------------------------------------------
(* Tokenizer: a sign at the beginning of a word comes to be a mention *)

MentionAt(k) == RuneAt(k) = "@" /\ (k = 0 \/ RuneAt(k - 1) = Space)
MentionTypes == {"MentionUser", "MentionRole"}
AfterSpace(list) == list = <<>> \/ list[Len(list)].type = "Space"

\* The token that begins with rune k follows a space, or nothing.
Begun(list, types, i, k) ==
  /\ i \in DOMAIN list /\ list[i].type \in types
  /\ list[i].from = k /\ list[i].to \in Nat /\ k < list[i].to
  /\ i = 1 \/ list[i - 1].type = "Space"

Scanned(k) ==
  k <= pos => (mark = k /\ AfterSpace(tokens)) \/ \E i : Begun(tokens, {"Word"}, i, k)
ToParse(k) ==
  \E i : Begun(tokens, {"Word"}, i, k) /\ (i = 1 => cur = NoToken /\ AfterSpace(parsed))
SignInHand(k) ==
  /\ cur.type = "Word" /\ cur.from = k /\ cur.to \in Nat /\ k < cur.to
  /\ pos = k /\ AfterSpace(parsed)
ParsedTo(k) == \E i : Begun(parsed, MentionTypes, i, k)

SignInv ==
  variant = "discord" /\ ~Encloses =>
    \A k \in 0 .. Size - 1 : MentionAt(k) =>
      /\ phase = "scan" => Scanned(k)
      /\ phase = "parse" => ToParse(k) \/ SignInHand(k) \/ ParsedTo(k)
      /\ phase \in {"simplify", "done"} => ParsedTo(k)

LEMMA BegunStays ==
  ASSUME NEW a, NEW b, IsList(a), IsList(b), NEW types, NEW i, NEW k, Begun(a, types, i, k)
  PROVE  Begun(a \o b, types, i, k)
<1>1. PICK c, m, n : c = a \o b /\ m = Len(a) /\ n = Len(b)  OBVIOUS
<1>2. /\ m \in Nat /\ n \in Nat /\ DOMAIN a = 1 .. m /\ DOMAIN c = 1 .. m + n
      /\ \A j \in 1 .. m : c[j] = a[j]
  BY <1>1, ListJoined
<1>3. /\ i \in 1 .. m /\ a[i].type \in types
      /\ a[i].from = k /\ a[i].to \in Nat /\ k < a[i].to
      /\ i = 1 \/ a[i - 1].type = "Space"
  BY <1>2 DEF Begun
<1>4. i \in 1 .. m + n /\ (i # 1 => i - 1 \in 1 .. m)  BY <1>2, <1>3
<1>5. c[i] = a[i] /\ (i # 1 => c[i - 1] = a[i - 1])  BY <1>2, <1>3, <1>4
<1> QED  BY <1>1, <1>2, <1>3, <1>4, <1>5 DEF Begun

LEMMA BegunPut ==
  ASSUME NEW a, IsList(a), AfterSpace(a), NEW types, NEW t, NEW k,
         t.type \in types, t.from = k, t.to \in Nat, k < t.to
  PROVE  \E i : Begun(a \o <<t>>, types, i, k)
<1>1. PICK b, c, m : b = <<t>> /\ c = a \o b /\ m = Len(a)  OBVIOUS
<1>2. IsList(b) /\ Len(b) = 1 /\ b[1] = t  BY <1>1, ShortLists
<1>3. /\ m \in Nat /\ DOMAIN c = 1 .. m + 1 /\ \A j \in 1 .. m : c[j] = a[j]
      /\ c[m + 1] = t
  BY <1>1, <1>2, ListJoined
<1>4. m + 1 = 1 \/ (m \in 1 .. m /\ (m + 1) - 1 = m /\ a[m].type = "Space")
  <2>1. a = <<>> <=> m = 0  BY <1>1, ListOf
  <2>2. m # 0 => m \in 1 .. m /\ (m + 1) - 1 = m  BY <1>3
  <2> QED  BY <1>1, <1>3, <2>1, <2>2 DEF AfterSpace
<1>5. m + 1 \in 1 .. m + 1  BY <1>3
<1>6. m + 1 = 1 \/ c[(m + 1) - 1].type = "Space"  BY <1>3, <1>4
<1>7. Begun(c, types, m + 1, k)  BY <1>3, <1>5, <1>6 DEF Begun
<1> QED  BY <1>1, <1>7

\* What follows a token that is taken from the list.
LEMMA BegunNext ==
  ASSUME NEW list, IsList(list), list # <<>>, NEW types, NEW i, NEW k,
         Begun(list, types, i, k), i # 1
  PROVE  /\ Begun(Tail(list), types, i - 1, k)
         /\ i - 1 = 1 => Head(list).type = "Space"
<1>1. PICK r, n : r = Tail(list) /\ n = Len(list)  OBVIOUS
<1>2. /\ n \in Nat /\ n # 0 /\ DOMAIN list = 1 .. n /\ Head(list) = list[1]
      /\ DOMAIN r = 1 .. n - 1 /\ \A j \in 1 .. n - 1 : r[j] = list[j + 1]
  BY <1>1, ListTail
<1>3. /\ i \in 1 .. n /\ list[i].type \in types
      /\ list[i].from = k /\ list[i].to \in Nat /\ k < list[i].to
      /\ list[i - 1].type = "Space"
  BY <1>2 DEF Begun
<1>4. i - 1 \in 1 .. n - 1 /\ (i - 1) + 1 = i  BY <1>2, <1>3
<1>5. r[i - 1] = list[i]  BY <1>2, <1>4
<1>6. i - 1 # 1 => r[(i - 1) - 1].type = "Space"
  <2>1. i - 1 # 1 => (i - 1) - 1 \in 1 .. n - 1 /\ ((i - 1) - 1) + 1 = i - 1  BY <1>2, <1>3
  <2> QED  BY <1>2, <1>3, <2>1
<1>7. Begun(r, types, i - 1, k)  BY <1>2, <1>3, <1>4, <1>5, <1>6 DEF Begun
<1> QED  BY <1>1, <1>2, <1>3, <1>7

LEMMA LastSpace ==
  ASSUME NEW a, IsList(a), NEW t, t.type = "Space"  PROVE AfterSpace(a \o <<t>>)
<1>1. PICK b, c, m : b = <<t>> /\ c = a \o b /\ m = Len(a)  OBVIOUS
<1>2. IsList(b) /\ Len(b) = 1 /\ b[1] = t  BY <1>1, ShortLists
<1>3. m \in Nat /\ Len(c) = m + 1 /\ c[m + 1] = t  BY <1>1, <1>2, ListJoined
<1> QED  BY <1>1, <1>3 DEF AfterSpace

\* The text stays what it is while it is tokenized.
LEMMA SignsKept ==
  ASSUME UNCHANGED <<variant, runes>>
  PROVE  /\ \A k : MentionAt(k)' <=> MentionAt(k)
         /\ Size' = Size /\ (Encloses' <=> Encloses) /\ (variant = "discord")' = (variant = "discord")
<1>1. Size' = Size /\ \A k : RuneAt(k)' = RuneAt(k)  BY DEF Size, RuneAt
<1> QED  BY <1>1 DEF MentionAt, Encloses

----------------------------------------------------------------------------
(* The scan *)

\* The word that begins with a sign is cut off, or has been.
LEMMA WordLeft ==
  ASSUME IsList(tokens), pos \in Nat, NEW k \in Nat, k < pos, Scanned(k), NEW b, IsList(b)
  PROVE  \E i : Begun(tokens \o WordBefore \o b, {"Word"}, i, k)
<1>1. PICK w, a : w = WordBefore /\ a = tokens \o w  OBVIOUS
<1>2. IsList(w) /\ IsList(a)  BY <1>1, WordInner, ListJoined DEF Inner
<1>3. \E i : Begun(a, {"Word"}, i, k)
  <2>1. CASE mark = k /\ AfterSpace(tokens)
    <3>1. PICK t : t = Token("Word", k, pos)  OBVIOUS
    <3>2. t.type = "Word" /\ t.from = k /\ t.to = pos  BY <3>1 DEF Token
    <3>3. w = <<t>>  BY <1>1, <2>1, <3>1 DEF WordBefore
    <3>4. t.type \in {"Word"} /\ t.from = k /\ t.to \in Nat /\ k < t.to  BY <3>2
    <3>5. \E i : Begun(tokens \o <<t>>, {"Word"}, i, k)  BY <2>1, <3>4, BegunPut
    <3> QED  BY <1>1, <3>3, <3>5
  <2>2. CASE \E i : Begun(tokens, {"Word"}, i, k)  BY <1>1, <1>2, <2>2, BegunStays
  <2> QED  BY <2>1, <2>2 DEF Scanned
<1> QED  BY <1>1, <1>2, <1>3, BegunStays

Marked == variant = "discord" /\ ~Encloses
SignsScanned == \A k \in 0 .. Size - 1 : MentionAt(k) => Scanned(k)

LEMMA SignsSeen ==
  ASSUME SignInv, RunesInv, ScanInv, EndInv, Marked, phase = "scan"
  PROVE  /\ SignsScanned /\ IsList(tokens) /\ Size \in Nat
         /\ pos \in Nat /\ mark \in Nat /\ mark <= pos /\ pos <= Size
         /\ \A k : RuneAt(k) # Nil <=> k \in 0 .. Size - 1
  BY RunesOf DEF SignInv, RunesInv, ScanInv, EndInv, Marked, SignsScanned

\* A turn that finds no token at a rune that is no space.
LEMMA SignsPassed ==
  ASSUME SignInv, RunesInv, ScanInv, EndInv, Marked, phase = "scan", RuneAt(pos) # Space, ScanOn
  PROVE  SignInv'
<1>1. UNCHANGED <<variant, runes, phase, mark>> /\ pos' = pos + 1 /\ tokens' = tokens
  <2>1. tokens \o <<>> = tokens
    <3>1. PICK T : tokens \in Seq(T)  BY DEF EndInv, IsList
    <3> QED  BY <3>1
  <2> QED  BY <2>1 DEF ScanOn, Scan
<1>2. ASSUME NEW k \in 0 .. Size - 1, MentionAt(k)  PROVE Scanned(k)'
  <2>1. k <= pos + 1 => k <= pos
    <3>1. k = pos + 1 => RuneAt(pos) = Space
      <4>1. k = pos + 1 => k - 1 = pos /\ k # 0  BY SignsSeen
      <4> QED  BY <1>2, <4>1 DEF MentionAt
    <3> QED  BY <3>1, SignsSeen
  <2>2. Scanned(k)  BY <1>2, SignsSeen DEF SignsScanned
  <2>3. (AfterSpace(tokens)' <=> AfterSpace(tokens))
        /\ \A i : Begun(tokens, {"Word"}, i, k)' <=> Begun(tokens, {"Word"}, i, k)
    BY <1>1 DEF AfterSpace, Begun
  <2> QED  BY <1>1, <2>1, <2>2, <2>3 DEF Scanned
<1> QED  BY <1>1, <1>2, SignsKept DEF SignInv

\* A turn that ends the word before it, and what it finds holds no sign.
LEMMA SignsCut ==
  ASSUME SignInv, RunesInv, ScanInv, EndInv, Marked, phase = "scan",
         NEW b, IsList(b), NEW next \in Nat, NEW from_, Scan(WordBefore \o b, next, from_),
         pos < next, \A k \in pos .. next : ~MentionAt(k) \/ (k = next /\ from_ = next),
         MentionAt(next) => AfterSpace(tokens \o WordBefore \o b)
  PROVE  SignInv'
<1>1. /\ UNCHANGED <<variant, runes, phase>> /\ pos' = next /\ mark' = from_
      /\ tokens' = tokens \o (WordBefore \o b)
  BY DEF Scan
<1>2. PICK new : new = tokens \o WordBefore \o b  OBVIOUS
<1>3. tokens' = new
  <2>1. PICK w : w = WordBefore  OBVIOUS
  <2>2. IsList(tokens) /\ IsList(w)  BY <2>1, WordInner DEF EndInv, Inner
  <2>3. tokens \o (w \o b) = (tokens \o w) \o b
    <3>1. PICK A, B, C : tokens \in Seq(A) /\ w \in Seq(B) /\ b \in Seq(C)  BY <2>2 DEF IsList
    <3> QED  BY <3>1
  <2> QED  BY <1>1, <1>2, <2>1, <2>3
<1>4. ASSUME NEW k \in 0 .. Size - 1, MentionAt(k)  PROVE Scanned(k)'
  <2>1. k \in Nat /\ Scanned(k)  BY <1>4, SignsSeen DEF SignsScanned
  <2>2. CASE k < pos
    <3>1. \E i : Begun(new, {"Word"}, i, k)  BY <1>2, <2>1, <2>2, WordLeft, SignsSeen
    <3> QED  BY <1>3, <3>1 DEF Scanned, Begun
  <2>3. CASE pos <= k /\ k <= next
    <3>1. k \in pos .. next  BY <2>1, <2>3, SignsSeen
    <3>2. k = next /\ from_ = next  BY <1>4, <3>1
    <3>3. AfterSpace(new)  BY <1>2, <1>4, <3>2
    <3> QED  BY <1>1, <1>3, <3>2, <3>3 DEF Scanned, AfterSpace
  <2>4. CASE next < k  BY <1>1, <2>1, <2>4 DEF Scanned
  <2> QED  BY <2>1, <2>2, <2>3, <2>4, SignsSeen
<1> QED  BY <1>1, <1>4, SignsKept DEF SignInv

LEMMA SignsSpace ==
  ASSUME SignInv, RunesInv, ScanInv, EndInv, Marked, ScanSpace  PROVE SignInv'
<1>1. phase = "scan" /\ RuneAt(pos) \in {Space, NewLine}  BY DEF ScanSpace, Scanning
<1>2. PICK type, t, b : /\ type = IF RuneAt(pos) = NewLine THEN "NewLine" ELSE "Space"
                        /\ t = Token(type, pos, pos + 1) /\ b = <<t>>
  OBVIOUS
<1>3. Scan(WordBefore \o b, pos + 1, pos + 1)  BY <1>2 DEF ScanSpace
<1>4. IsList(b) /\ t.type = type  BY <1>2, ShortLists DEF Token
<1>5. pos \in Nat /\ pos + 1 \in Nat /\ pos < pos + 1  BY <1>1, SignsSeen
<1>6. ~MentionAt(pos)  BY <1>1 DEF MentionAt, Space, NewLine
<1>7. MentionAt(pos + 1) => AfterSpace(tokens \o WordBefore \o b)
  <2> SUFFICES ASSUME MentionAt(pos + 1)  PROVE AfterSpace(tokens \o WordBefore \o b)
    OBVIOUS
  <2>1. (pos + 1) - 1 = pos /\ pos + 1 # 0  BY <1>5
  <2>2. RuneAt(pos) = Space  BY <2>1 DEF MentionAt
  <2>3. t.type = "Space"  BY <1>2, <1>4, <2>2 DEF Space, NewLine
  <2>4. PICK a : a = tokens \o WordBefore  OBVIOUS
  <2>5. IsList(a)  BY <1>1, <2>4, SignsSeen, WordInner, ListJoined DEF Inner
  <2> QED  BY <1>2, <2>3, <2>4, <2>5, LastSpace
<1>8. \A k \in pos .. pos + 1 : ~MentionAt(k) \/ (k = pos + 1 /\ pos + 1 = pos + 1)
  <2>1. \A k \in pos .. pos + 1 : k = pos \/ k = pos + 1  BY <1>5
  <2> QED  BY <1>6, <2>1
<1> QED  BY <1>1, <1>3, <1>4, <1>5, <1>7, <1>8, SignsCut

\* No markup of a text that encloses nothing closes.
LEMMA NothingCloses ==
  ASSUME Marked, Size \in Nat, pos \in Nat, pos < Size
  PROVE  /\ RuneAt(pos) = "<" => PeekUntil(pos + 1, Size, {">"}) = -1
         /\ RuneAt(pos) = "tick" => PeekUntil(pos + 1, Size, Backtick) = -1 /\ ~ThreeAt(pos)
<1>1. \A i, j \in 0 .. Size - 1 : i < j => /\ ~(RuneAt(i) = "<" /\ RuneAt(j) = ">")
                                         /\ ~(RuneAt(i) = "tick" /\ RuneAt(j) = "tick")
  BY DEF Marked, Encloses
<1>2. pos \in 0 .. Size - 1 /\ \A j \in pos + 1 .. Size - 1 : j \in 0 .. Size - 1 /\ pos < j
  OBVIOUS
<1>3. ASSUME RuneAt(pos) = "<"  PROVE PeekUntil(pos + 1, Size, {">"}) = -1
  <2>1. {k \in pos + 1 .. Size - 1 : RuneAt(k) \in {">"}} = {}  BY <1>1, <1>2, <1>3
  <2> QED  BY <2>1 DEF PeekUntil
<1>4. ASSUME RuneAt(pos) = "tick"
      PROVE  PeekUntil(pos + 1, Size, Backtick) = -1 /\ ~ThreeAt(pos)
  <2>1. {k \in pos + 1 .. Size - 1 : RuneAt(k) \in Backtick} = {}
    BY <1>1, <1>2, <1>4 DEF Backtick
  <2>2. RuneAt(pos + 1) # "tick"
    <3>1. pos + 1 \notin 0 .. Size - 1 => RuneAt(pos + 1) = Nil  BY DEF RuneAt
    <3>2. Nil # "tick"  BY DEF Nil
    <3> QED  BY <1>1, <1>2, <1>4, <3>1, <3>2
  <2>3. 1 \in 0 .. 2  OBVIOUS
  <2> QED  BY <2>1, <2>2, <2>3 DEF PeekUntil, ThreeAt
<1> QED  BY <1>3, <1>4

\* Where a search ends, and that it passes nothing that ends it.
LEMMA PeekFirst ==
  ASSUME NEW p \in Nat, NEW end \in Nat, NEW set
  PROVE  \/ PeekUntil(p, end, set) = -1
         \/ /\ PeekUntil(p, end, set) \in p .. end - 1
            /\ \A j \in p .. PeekUntil(p, end, set) - 1 : RuneAt(j) \notin set
<1> DEFINE there == {k \in p .. end - 1 : RuneAt(k) \in set}
<1>1. CASE there = {}  BY <1>1 DEF PeekUntil
<1>2. CASE there # {}
  <2>1. there \subseteq Nat  OBVIOUS
  <2>2. \E k \in there : \A j \in there : k <= j
    <3> HIDE DEF there
    <3> QED  BY <1>2, <2>1, NatMinimum
  <2>3. PICK q : q = PeekUntil(p, end, set)  OBVIOUS
  <2>4. q = CHOOSE k \in there : \A j \in there : k <= j  BY <1>2, <2>3 DEF PeekUntil
  <2>5. q \in there /\ \A j \in there : q <= j
    <3> HIDE DEF there
    <3> QED  BY <2>2, <2>4
  <2>6. q \in p .. end - 1  BY <2>5
  <2>7. \A j \in p .. q - 1 : RuneAt(j) \notin set
    <3> SUFFICES ASSUME NEW j \in p .. q - 1, RuneAt(j) \in set  PROVE FALSE
      OBVIOUS
    <3>1. j \in there /\ j < q  BY <2>6
    <3> QED  BY <2>5, <2>6, <3>1
  <2> QED  BY <2>3, <2>6, <2>7
<1> QED  BY <1>1, <1>2

LEMMA SignsColon ==
  ASSUME SignInv, RunesInv, ScanInv, EndInv, Marked, ScanColon  PROVE SignInv'
<1>1. phase = "scan" /\ RuneAt(pos) = ":"  BY DEF ScanColon, Scanning
<1>2. PICK stops : stops = {":", Space, "?", "/", NewLine, "tick"}  OBVIOUS
<1>3. PICK end : end = PeekUntil(pos + 2, Size, stops)  OBVIOUS
<1>4. CASE ScanOn  BY <1>1, <1>4, SignsPassed DEF Space
<1>5. CASE ~ScanOn
  <2>1. PICK b : b = <<Token("Emoticon", pos, end + 1)>>  OBVIOUS
  <2>2. /\ RuneAt(pos + 1) \notin {Space, ":"} /\ end >= 0 /\ RuneAt(end) = ":"
        /\ Scan(WordBefore \o b, end + 1, end + 1)
    BY <1>2, <1>3, <1>5, <2>1 DEF ScanColon
  <2>3. /\ pos \in Nat /\ Size \in Nat  BY <1>1, SignsSeen
  <2>4. /\ end \in pos + 2 .. Size - 1 /\ \A j \in pos + 2 .. end - 1 : RuneAt(j) \notin stops
    <3>1. pos + 2 \in Nat /\ ~(-1 >= 0)  BY <2>3
    <3> QED  BY <1>3, <2>2, <2>3, <3>1, PeekFirst
  <2>5. end \in Nat /\ end + 1 \in Nat /\ pos < end + 1  BY <2>3, <2>4
  <2>6. \A k \in pos .. end + 1 : ~MentionAt(k)
    <3> SUFFICES ASSUME NEW k \in pos .. end + 1, MentionAt(k)  PROVE FALSE
      OBVIOUS
    <3>1. k # pos  BY <1>1 DEF MentionAt
    <3>2. k # 0 /\ (k - 1 = pos \/ k - 1 = pos + 1 \/ k - 1 \in pos + 2 .. end - 1 \/ k - 1 = end)
      BY <2>3, <2>4, <3>1
    <3>3. RuneAt(k - 1) = Space  BY <3>2 DEF MentionAt
    <3> QED  BY <1>1, <1>2, <2>2, <2>4, <3>2, <3>3 DEF Space
  <2>7. end + 1 \in pos .. end + 1  BY <2>5, <2>3
  <2>8. IsList(b)  BY <2>1, ShortLists
  <2> QED  BY <1>1, <2>2, <2>5, <2>6, <2>7, <2>8, SignsCut
<1> QED  BY <1>4, <1>5

LEMMA SignsTick ==
  ASSUME SignInv, RunesInv, ScanInv, EndInv, Marked, ScanCode \/ ScanCodeBlock  PROVE SignInv'
<1>1. phase = "scan" /\ RuneAt(pos) = "tick" /\ RuneAt(pos) # Nil
  BY DEF ScanCode, ScanCodeBlock, Scanning, Backtick, Nil
<1>2. pos \in Nat /\ Size \in Nat /\ pos < Size  BY <1>1, SignsSeen
<1>3. PeekUntil(pos + 1, Size, Backtick) = -1 /\ ~ThreeAt(pos)  BY <1>1, <1>2, NothingCloses
<1>4. ScanCode  BY <1>3 DEF ScanCodeBlock
<1>5. IsMarkdown  BY DEF IsMarkdown, Marked, Chat
<1>6. PICK m : m = IF pos # mark THEN pos + 1 ELSE mark  OBVIOUS
<1>7. Scan(WordBefore, pos + 1, m)
  <2>1. ~(-1 > pos)  BY <1>2
  <2> QED  BY <1>3, <1>4, <1>5, <1>6, <2>1 DEF ScanCode
<1>8. WordBefore \o <<>> = WordBefore
  <2>1. PICK w : w = WordBefore  OBVIOUS
  <2>2. PICK T : w \in Seq(T)  BY <2>1, WordInner DEF Inner, IsList
  <2>3. w \o <<>> = w  BY <2>2
  <2> QED  BY <2>1, <2>3
<1>9. Scan(WordBefore \o <<>>, pos + 1, m)  BY <1>7, <1>8
<1>10. \A k \in pos .. pos + 1 : ~MentionAt(k)
  <2>1. ~MentionAt(pos)  BY <1>1 DEF MentionAt
  <2>2. ~MentionAt(pos + 1)
    <3>1. (pos + 1) - 1 = pos /\ pos + 1 # 0  BY <1>2
    <3> QED  BY <1>1, <3>1 DEF MentionAt, Space
  <2>3. \A k \in pos .. pos + 1 : k = pos \/ k = pos + 1  BY <1>2
  <2> QED  BY <2>1, <2>2, <2>3
<1>11. pos + 1 \in Nat /\ pos < pos + 1 /\ pos + 1 \in pos .. pos + 1  BY <1>2
<1> QED  BY <1>1, <1>9, <1>10, <1>11, SignsCut, ShortLists

LEMMA SignsOther ==
  ASSUME SignInv, RunesInv, ScanInv, EndInv, Marked, ScanTimestamp \/ ScanBrace \/ ScanOther
  PROVE  SignInv'
<1>1. phase = "scan" /\ RuneAt(pos) # Space
  BY DEF ScanTimestamp, ScanBrace, ScanOther, Scanning, Space
<1>2. ScanOn
  <2>1. CASE ScanTimestamp  BY <2>1 DEF ScanTimestamp, Marked
  <2>2. CASE ScanBrace
    <3>1. RuneAt(pos) = "<" /\ RuneAt(pos) # Nil  BY <2>2 DEF ScanBrace, Scanning, Nil
    <3>2. pos \in Nat /\ Size \in Nat /\ pos < Size  BY <1>1, <3>1, SignsSeen
    <3>3. PeekUntil(pos + 1, Size, {">"}) = -1  BY <3>1, <3>2, NothingCloses
    <3>4. -1 < 0  OBVIOUS
    <3> QED  BY <2>2, <3>3, <3>4 DEF ScanBrace
  <2>3. CASE ScanOther  BY <2>3 DEF ScanOther
  <2> QED  BY <2>1, <2>2, <2>3
<1> QED  BY <1>1, <1>2, SignsPassed

LEMMA SignsScan ==
  ASSUME SignInv, RunesInv, ScanInv, EndInv, Marked, ScanEnd  PROVE SignInv'
<1>1. /\ phase = "scan" /\ pos = Size /\ phase' = "parse"
      /\ UNCHANGED <<variant, runes, cur, parsed>>
      /\ tokens' = tokens \o WordBefore \o <<Token("EOL", pos, pos)>>
  BY DEF ScanEnd
<1>2. PICK b : b = <<Token("EOL", pos, pos)>>  OBVIOUS
<1>3. IsList(b)  BY <1>2, ShortLists
<1>4. ASSUME NEW k \in 0 .. Size - 1, MentionAt(k)  PROVE ToParse(k)'
  <2>1. k \in Nat /\ k < pos /\ Scanned(k) /\ IsList(tokens) /\ pos \in Nat
    BY <1>1, <1>4, SignsSeen DEF SignsScanned
  <2>2. \E i : Begun(tokens', {"Word"}, i, k)  BY <1>1, <1>2, <1>3, <2>1, WordLeft
  <2>3. cur' = NoToken /\ AfterSpace(parsed)'  BY <1>1 DEF RunesInv, AfterSpace
  <2> QED  BY <2>2, <2>3 DEF ToParse, Begun
<1> QED  BY <1>1, <1>4, SignsKept DEF SignInv

----------------------------------------------------------------------------
(* The parsers *)

InParse(k) == ToParse(k) \/ SignInHand(k) \/ ParsedTo(k)

\* A step of the parsers that keeps every sign keeps them all.
LEMMA SignsMoved ==
  ASSUME SignInv, RunesInv, Marked, phase = "parse", phase' = "parse",
         UNCHANGED <<variant, runes>>,
         \A k \in Nat : RuneAt(k) = "@" /\ InParse(k) => InParse(k)'
  PROVE  SignInv'
<1>1. ASSUME NEW k \in 0 .. Size - 1, MentionAt(k)  PROVE InParse(k)'
  <2>1. k \in Nat  OBVIOUS
  <2>2. RuneAt(k) = "@" /\ InParse(k)  BY <1>1 DEF SignInv, Marked, MentionAt, InParse
  <2> QED  BY <2>1, <2>2
<1> QED  BY <1>1, SignsKept DEF SignInv, InParse

\* The loop goes through a word that begins with a sign.
LEMMA SignInLoop ==
  ASSUME Marked, NEW t, NEW k \in Nat, RuneAt(k) = "@",
         t.type = "Word", t.from = k, t.to \in Nat, k < t.to
  PROVE  ValueAt(t, k) = "@" /\ ParsedAtOnce(t) = {}
<1>1. ValueAt(t, k) = "@"
  <2>1. k \in t.from .. t.to - 1  OBVIOUS
  <2> QED  BY <2>1 DEF ValueAt
<1>2. ~IsURL(t)
  <2>1. IsURL(t) => ValueAt(t, t.from + 1 - 1) = "h"
    <3>1. PICK url : url = <<"h", ":", "/", "/">>  OBVIOUS
    <3>2. 1 \in DOMAIN url /\ url[1] = "h"  BY <3>1
    <3> QED  BY <3>1, <3>2 DEF IsURL, HasPrefix
  <2>2. t.from + 1 - 1 = k  OBVIOUS
  <2> QED  BY <1>1, <2>1, <2>2
<1>3. variant \in Chat /\ variant \notin Simple /\ variant \notin {"twitter", "xmpp"}
  BY DEF Marked, Chat, Simple
<1> QED  BY <1>1, <1>2, <1>3 DEF ParsedAtOnce

LEMMA SignsAtOnce ==
  ASSUME SignInv, RunesInv, EndInv, Marked, ParseAtOnce  PROVE SignInv'
<1>1. PICK t, r, out :
        /\ t = Head(tokens) /\ r = Tail(tokens)
        /\ out \in ParsedAtOnce(t) /\ parsed' = parsed \o out
  BY DEF ParseAtOnce
<1>2. /\ phase = "parse" /\ cur = NoToken /\ tokens # <<>> /\ tokens' = r
      /\ UNCHANGED <<variant, runes, phase, pos, cur>>
  BY <1>1 DEF ParseAtOnce
<1>3. IsList(out)
  <2>1. t.type = "EOL" => out = <<t>>  BY <1>1, AtOnceInner
  <2>2. t.type # "EOL" => Inner(out)  BY <1>1, AtOnceInner
  <2> QED  BY <2>1, <2>2, ShortLists DEF Inner
<1>4. IsList(tokens) /\ IsList(parsed)  BY DEF EndInv
<1>5. ASSUME NEW k \in Nat, RuneAt(k) = "@", InParse(k)  PROVE InParse(k)'
  <2>1. CASE ToParse(k)
    <3>1. PICK i : Begun(tokens, {"Word"}, i, k)  BY <2>1 DEF ToParse
    <3>2. i # 1
      <4> SUFFICES ASSUME i = 1  PROVE FALSE
        OBVIOUS
      <4>1. t.type = "Word" /\ t.from = k /\ t.to \in Nat /\ k < t.to
        <5>1. t = tokens[1]  BY <1>1, <1>2, <1>4, ListTail
        <5> QED  BY <3>1, <5>1 DEF Begun
      <4> QED  BY <1>1, <1>5, <4>1, SignInLoop
    <3>3. Begun(r, {"Word"}, i - 1, k) /\ (i - 1 = 1 => t.type = "Space")
      BY <1>1, <1>2, <1>4, <3>1, <3>2, BegunNext
    <3>4. i - 1 = 1 => AfterSpace(parsed')
      <4> SUFFICES ASSUME i - 1 = 1  PROVE AfterSpace(parsed')
        OBVIOUS
      <4>1. t.type = "Space"  BY <3>3
      <4>2. out = <<t>>  BY <1>1, <4>1 DEF ParsedAtOnce
      <4>3. AfterSpace(parsed \o <<t>>)  BY <1>4, <4>1, LastSpace
      <4> QED  BY <1>1, <4>2, <4>3
    <3>5. Begun(tokens', {"Word"}, i - 1, k) /\ cur' = NoToken  BY <1>2, <3>3
    <3> QED  BY <3>4, <3>5 DEF InParse, ToParse, Begun, AfterSpace
  <2>2. CASE SignInHand(k)
    <3>1. NoToken.type # "Word"  BY DEF NoToken, Token
    <3> QED  BY <1>2, <2>2, <3>1 DEF SignInHand
  <2>3. CASE ParsedTo(k)
    <3>1. \E i : Begun(parsed \o out, MentionTypes, i, k)
      BY <1>3, <1>4, <2>3, BegunStays DEF ParsedTo
    <3> QED  BY <1>1, <3>1 DEF InParse, ParsedTo, Begun
  <2> QED  BY <1>5, <2>1, <2>2, <2>3 DEF InParse
<1> QED  BY <1>2, <1>5, SignsMoved

LEMMA SignsBegin ==
  ASSUME SignInv, RunesInv, EndInv, Marked, BeginLoop  PROVE SignInv'
<1>1. PICK t, r : t = Head(tokens) /\ r = Tail(tokens)  OBVIOUS
<1>2. /\ phase = "parse" /\ cur = NoToken /\ tokens # <<>> /\ ParsedAtOnce(t) = {}
      /\ cur' = t /\ tokens' = r /\ pos' = t.from
      /\ UNCHANGED <<variant, runes, phase, parsed>>
  BY <1>1 DEF BeginLoop
<1>3. IsList(tokens) /\ IsList(parsed)  BY DEF EndInv
<1>4. ASSUME NEW k \in Nat, RuneAt(k) = "@", InParse(k)  PROVE InParse(k)'
  <2>1. CASE ToParse(k)
    <3>1. PICK i : Begun(tokens, {"Word"}, i, k) /\ (i = 1 => AfterSpace(parsed))
      BY <2>1 DEF ToParse
    <3>2. CASE i = 1
      <4>1. t = tokens[1]  BY <1>1, <1>2, <1>3, ListTail
      <4>2. t.type = "Word" /\ t.from = k /\ t.to \in Nat /\ k < t.to
        BY <3>1, <3>2, <4>1 DEF Begun
      <4>3. SignInHand(k)'  BY <1>2, <3>1, <3>2, <4>2 DEF SignInHand, AfterSpace
      <4> QED  BY <4>3 DEF InParse
    <3>3. CASE i # 1
      <4>1. Begun(r, {"Word"}, i - 1, k) /\ (i - 1 = 1 => t.type = "Space")
        BY <1>1, <1>2, <1>3, <3>1, <3>3, BegunNext
      <4>2. t.type # "Space"  BY <1>2 DEF ParsedAtOnce
      <4>3. Begun(tokens', {"Word"}, i - 1, k) /\ i - 1 # 1  BY <1>2, <4>1, <4>2
      <4> QED  BY <4>3 DEF InParse, ToParse, Begun
    <3> QED  BY <3>2, <3>3
  <2>2. CASE SignInHand(k)
    <3>1. NoToken.type # "Word"  BY DEF NoToken, Token
    <3> QED  BY <1>2, <2>2, <3>1 DEF SignInHand
  <2>3. CASE ParsedTo(k)  BY <1>2, <2>3 DEF InParse, ParsedTo, Begun
  <2> QED  BY <1>4, <2>1, <2>2, <2>3 DEF InParse
<1> QED  BY <1>2, <1>4, SignsMoved

\* Behind a token that is parsed, a sign waits for a space.
LEMMA SignWaits ==
  ASSUME cur # NoToken, tokens' = tokens, NEW k, ToParse(k)  PROVE ToParse(k)'
<1>1. PICK i : Begun(tokens, {"Word"}, i, k) /\ i # 1  BY DEF ToParse
<1> QED  BY <1>1 DEF ToParse, Begun

LEMMA SignsLoopEnds ==
  ASSUME SignInv, RunesInv, EndInv, Marked, LoopEnds  PROVE SignInv'
<1>1. /\ phase = "parse" /\ cur # NoToken /\ pos > cur.to
      /\ UNCHANGED <<variant, runes, phase, tokens, parsed>>
  BY DEF LoopEnds
<1>2. ASSUME NEW k \in Nat, RuneAt(k) = "@", InParse(k)  PROVE InParse(k)'
  <2>1. CASE ToParse(k)  BY <1>1, <2>1, SignWaits DEF InParse
  <2>2. CASE SignInHand(k)
    <3>1. cur.to \in Nat /\ k < cur.to /\ pos = k  BY <2>2 DEF SignInHand
    <3> QED  BY <1>1, <3>1
  <2>3. CASE ParsedTo(k)  BY <1>1, <2>3 DEF InParse, ParsedTo, Begun
  <2> QED  BY <1>2, <2>1, <2>2, <2>3 DEF InParse
<1> QED  BY <1>1, <1>2, SignsMoved

LEMMA SignsLoop ==
  ASSUME SignInv, RunesInv, EndInv, Marked, LoopStep  PROVE SignInv'
<1>1. PICK f, next, m, n : Inner(f) /\ Parse(f, next, m, n)  BY LoopInner
<1>2. phase = "parse" /\ cur # NoToken  BY LoopInner
<1>3. parsed' = parsed \o f /\ UNCHANGED <<variant, runes, phase, tokens, cur>>
  BY <1>1 DEF Parse
<1>4. IsList(parsed) /\ IsList(f)  BY <1>1 DEF EndInv, Inner
<1>5. ASSUME NEW k \in Nat, RuneAt(k) = "@", InParse(k)  PROVE InParse(k)'
  <2>1. CASE ToParse(k)  BY <1>2, <1>3, <2>1, SignWaits DEF InParse
  <2>2. CASE SignInHand(k)
    <3>1. /\ cur.type = "Word" /\ cur.from = k /\ cur.to \in Nat /\ k < cur.to
          /\ pos = k /\ AfterSpace(parsed)
      BY <2>2 DEF SignInHand
    <3>2. Here = "@"  BY <1>5, <3>1, SignInLoop DEF Here
    <3>3. ChatMention
      BY <3>1, <3>2 DEF LoopStep, MarkupBracket, MarkupOther, InMarkup, InWord, ChatDigit,
         ChatPointInNumber, ChatPeriod, ChatSentEnd, ChatBracket, ChatQuote, ChatEnd, ChatOther,
         SentenceEnds, Brackets, Quotes, Nil
    <3>4. PICK type : type = CASE ValueAt(cur, pos + 1) = "&" -> "MentionRole"
                               [] ValueAt(cur, pos + 1) # "&" /\ Here = "@" -> "MentionUser"
                               [] OTHER -> "MentionChannel"
      OBVIOUS
    <3>5. type \in MentionTypes  BY <3>2, <3>4 DEF MentionTypes
    <3>6. PICK t : t = Token(type, pos, cur.to)  OBVIOUS
    <3>7. parsed' = parsed \o <<t>>  BY <3>3, <3>4, <3>6 DEF ChatMention, Parse, Marked
    <3>8. t.type \in MentionTypes /\ t.from = k /\ t.to \in Nat /\ k < t.to
      BY <3>1, <3>5, <3>6 DEF Token
    <3>9. \E i : Begun(parsed \o <<t>>, MentionTypes, i, k)  BY <1>4, <3>1, <3>8, BegunPut
    <3> QED  BY <3>7, <3>9 DEF InParse, ParsedTo, Begun
  <2>3. CASE ParsedTo(k)
    <3>1. \E i : Begun(parsed \o f, MentionTypes, i, k)
      BY <1>4, <2>3, BegunStays DEF ParsedTo
    <3> QED  BY <1>3, <3>1 DEF InParse, ParsedTo, Begun
  <2> QED  BY <1>5, <2>1, <2>2, <2>3 DEF InParse
<1> QED  BY <1>2, <1>3, <1>5, SignsMoved

LEMMA SignsParsed ==
  ASSUME SignInv, RunesInv, EndInv, Marked, ParseEnds  PROVE SignInv'
<1>1. /\ phase = "parse" /\ cur = NoToken /\ tokens = <<>> /\ phase' = "simplify"
      /\ UNCHANGED <<variant, runes>> /\ parsed' = DropFirstSpace(parsed)
  BY DEF ParseEnds
<1>2. IsList(parsed)  BY DEF EndInv
<1>3. ASSUME NEW k \in 0 .. Size - 1, MentionAt(k)  PROVE ParsedTo(k)'
  <2>1. ToParse(k) \/ SignInHand(k) \/ ParsedTo(k)  BY <1>1, <1>3 DEF SignInv, Marked
  <2>2. ~ToParse(k)
    <3>1. DOMAIN <<>> = {}  OBVIOUS
    <3> QED  BY <1>1, <3>1 DEF ToParse, Begun
  <2>3. ~SignInHand(k)
    <3>1. NoToken.type # "Word"  BY DEF NoToken, Token
    <3> QED  BY <1>1, <3>1 DEF SignInHand
  <2>4. PICK i : Begun(parsed, MentionTypes, i, k)  BY <2>1, <2>2, <2>3 DEF ParsedTo
  <2>5. CASE parsed' = parsed  BY <2>4, <2>5 DEF ParsedTo, Begun
  <2>6. CASE parsed # <<>> /\ Head(parsed).type = "Space" /\ parsed' = Tail(parsed)
    <3>1. i # 1
      <4>1. Head(parsed) = parsed[1]  BY <1>2, <2>6, ListTail
      <4>2. parsed[i].type # "Space"  BY <2>4 DEF Begun, MentionTypes
      <4> QED  BY <2>6, <4>1, <4>2
    <3>2. Begun(Tail(parsed), MentionTypes, i - 1, k)  BY <1>2, <2>4, <2>6, <3>1, BegunNext
    <3>3. Begun(parsed', MentionTypes, i - 1, k)  BY <2>6, <3>2
    <3> QED  BY <3>3 DEF ParsedTo, Begun
  <2> QED  BY <1>1, <2>5, <2>6 DEF DropFirstSpace
<1> QED  BY <1>1, <1>3, SignsKept DEF SignInv

\* A text that nothing has been found in, and one whose tokens stay.
LEMMA SignsFresh == Fresh => SignInv
<1> SUFFICES ASSUME Fresh  PROVE SignInv
  OBVIOUS
<1>1. Size \in Nat /\ pos = 0 /\ mark = 0 /\ tokens = <<>>  BY RunesOf DEF Fresh
<1>2. CASE runes = <<>>
  <2>1. Size = 0  BY <1>2 DEF Size
  <2>2. 0 .. Size - 1 = {}  BY <2>1
  <2> QED  BY <2>2 DEF SignInv
<1>3. CASE runes # <<>>
  <2>1. phase = "scan"  BY <1>3 DEF Fresh
  <2>2. \A k \in 0 .. Size - 1 : Scanned(k)
    <3> SUFFICES ASSUME NEW k \in 0 .. Size - 1, k <= pos  PROVE mark = k /\ AfterSpace(tokens)
      BY DEF Scanned
    <3>1. k = 0  BY <1>1
    <3> QED  BY <1>1, <3>1 DEF AfterSpace
  <2> QED  BY <2>1, <2>2 DEF SignInv
<1> QED  BY <1>2, <1>3

LEMMA SignsStay ==
  ASSUME SignInv, UNCHANGED <<variant, runes, parsed>>,
         \/ UNCHANGED <<phase, pos, mark, tokens, cur>>
         \/ phase \in {"simplify", "done"} /\ phase' \in {"simplify", "done"}
  PROVE  SignInv'
<1>1. (\A k : ParsedTo(k)' <=> ParsedTo(k))
  BY DEF ParsedTo, Begun
<1>2. CASE phase \in {"simplify", "done"} /\ phase' \in {"simplify", "done"}
  BY <1>1, <1>2, SignsKept DEF SignInv
<1>3. CASE UNCHANGED <<phase, pos, mark, tokens, cur>>
  <2>1. \A k : /\ Scanned(k)' <=> Scanned(k)
               /\ ToParse(k)' <=> ToParse(k)
               /\ SignInHand(k)' <=> SignInHand(k)
    BY <1>3 DEF Scanned, ToParse, SignInHand, Begun, AfterSpace
  <2> QED  BY <1>1, <1>3, <2>1, SignsKept DEF SignInv
<1> QED  BY <1>2, <1>3

\* The tokenizer changes neither the text nor its variant.
LEMMA TokenizeTurns ==
  ASSUME TokenizeNext
  PROVE  UNCHANGED <<variant, runes>> /\ phase # "waiting" /\ phase' # "waiting"
<1>1. CASE ScanEnd  BY <1>1 DEF ScanEnd
<1>2. CASE \/ ScanSpace \/ ScanTimestamp \/ ScanBrace \/ ScanCodeBlock \/ ScanCode
           \/ ScanColon \/ ScanOther
  <2>1. phase = "scan" /\ \E f, next, m : Scan(f, next, m)  BY <1>2, ScanInner
  <2> QED  BY <2>1 DEF Scan
<1>3. CASE LoopStep
  <2>1. phase = "parse" /\ \E f, next, m, n : Parse(f, next, m, n)  BY <1>3, LoopInner
  <2> QED  BY <2>1 DEF Parse
<1>4. CASE ParseAtOnce \/ BeginLoop \/ ParseEnds \/ LoopEnds
  BY <1>4 DEF ParseAtOnce, BeginLoop, ParseEnds, LoopEnds
<1>5. CASE SimpleEnd \/ SimpleFiller \/ SimpleWord \/ SimpleNothing \/ SimplifyEnds
  BY <1>5 DEF SimpleEnd, SimpleFiller, SimpleWord, SimpleNothing, SimplifyEnds, Simplify,
              Simplifying
<1> QED  BY <1>1, <1>2, <1>3, <1>4, <1>5 DEF TokenizeNext, ParseStep, LoopStep

LEMMA SignsTokenize ==
  ASSUME SignInv, RunesInv, ScanInv, EndInv, TokenizeNext  PROVE SignInv'
<1>1. UNCHANGED <<variant, runes>>  BY TokenizeTurns
<1>2. CASE ~Marked
  <2>1. ~(variant' = "discord" /\ ~Encloses')  BY <1>1, <1>2, SignsKept DEF Marked
  <2> QED  BY <2>1 DEF SignInv
<1>3. CASE Marked
  <2>1. CASE SimpleEnd \/ SimpleFiller \/ SimpleWord \/ SimpleNothing \/ SimplifyEnds
    <3>1. /\ phase \in {"simplify", "done"} /\ phase' \in {"simplify", "done"}
          /\ parsed' = parsed
      BY <2>1 DEF SimpleEnd, SimpleFiller, SimpleWord, SimpleNothing, SimplifyEnds, Simplify,
                  Simplifying
    <3> QED  BY <1>1, <3>1, SignsStay
  <2> QED
    BY <1>3, <2>1, SignsScan, SignsSpace, SignsOther, SignsTick, SignsColon, SignsAtOnce,
       SignsBegin, SignsParsed, SignsLoopEnds, SignsLoop DEF TokenizeNext, ParseStep, LoopStep
<1> QED  BY <1>2, <1>3

LEMMA SignInvariance == TextSpec => []SignInv
<1>1. TextInit => SignInv \/ Fresh
  <2>1. \A t \in Texts : Prepared(TokenizePrep(t))  BY TextsTyped, PrepPrepares
  <2>2. TokenizeInit => Fresh  BY <2>1 DEF TokenizeInit, Fresh
  <2>3. phase = "waiting" => SignInv  BY DEF SignInv
  <2> QED  BY <2>2, <2>3 DEF TextInit
<1>2. ASSUME SignInv, TokensInv, ReadInv, EndInv, [TextNext]_textVars  PROVE SignInv' \/ Fresh'
  <2>1. CASE Learn  BY <1>2, <2>1, LearnBegins
  <2>2. CASE UNCHANGED tokenVars
    <3>1. UNCHANGED <<variant, runes, phase, pos, mark, tokens, cur, parsed>>
      BY <2>2 DEF tokenVars
    <3> QED  BY <1>2, <3>1, SignsStay
  <2>3. CASE TokenizeNext  BY <1>2, <2>3, SignsTokenize DEF TokensInv
  <2> QED  BY <1>2, <2>1, <2>2, <2>3 DEF TextNext, textVars
<1>3. Fresh => SignInv  BY SignsFresh
<1> QED
  BY <1>1, <1>2, <1>3, TokensInvariance, ReadInvariance, EndInvariance, PTL DEF TextSpec

----------------------------------------------------------------------------
(* From the text of a message to what is learnt of it *)

\* Only the text of a message is waited for, and its signs come to the tokenizer.
ContentsInv ==
  /\ IsList(runes)
  /\ reading # "off" => variant = "discord"
  /\ phase = "waiting" => reading # "off"
  /\ phase # "waiting" => reading \in {"off", "read"}
  /\ phase # "waiting" /\ reading = "read" => Cardinality(Lones) <= Cardinality(Signs(runes))

LEMMA PrepList ==
  ASSUME NEW text \in Seq(Characters)  PROVE IsList(TokenizePrep(text))
<1>1. PICK s : s = Replaced(TrimBoth(text, White))  OBVIOUS
<1>2. PICK t \in Seq(Characters) : t = TrimBoth(text, White)  BY TrimmedTyped
<1>3. PICK L \in Nat : DOMAIN s = 1 .. L
  <2>1. DOMAIN t = 1 .. Len(t) /\ Len(t) \in Nat  BY <1>2
  <2>2. DOMAIN s = DOMAIN t  BY <1>1, <1>2 DEF Replaced
  <2> QED  BY <2>1, <2>2
<1>4. PICK kept : kept = {i \in DOMAIN s : s[i] \notin Unwanted /\ ~Doubled(s, i)}  OBVIOUS
<1>5. kept \in SUBSET (1 .. L)  BY <1>3, <1>4
<1>6. TokenizePrep(text) = Kept(s, kept)  BY <1>1, <1>4 DEF TokenizePrep
<1>7. PICK N : N = Cardinality(kept)  OBVIOUS
<1>8. N \in Nat  BY <1>3, <1>5, <1>7, RanksCount
<1>9. Kept(s, kept) = [n \in 1 .. N |-> s[Nth(kept, n)]]  BY <1>7 DEF Kept
<1>10. PICK T : T = {s[Nth(kept, n)] : n \in 1 .. N}  OBVIOUS
<1>11. Kept(s, kept) \in Seq(T)  BY <1>8, <1>9, <1>10
<1> QED  BY <1>6, <1>11 DEF IsList

LEMMA TextStays ==
  ASSUME ContentsInv, UNCHANGED <<variant, runes, raw, reading>>,
         phase' = phase \/ (phase # "waiting" /\ phase' # "waiting")
  PROVE  ContentsInv'
<1>1. Lones' = Lones  BY LoneKept
<1> QED  BY <1>1 DEF ContentsInv, Signs, IsList

LEMMA TextReads ==
  ASSUME ContentsInv, ReadStep, UNCHANGED tokenVars  PROVE ContentsInv'
<1>1. reading \notin {"off", "read"} /\ reading' # "off"
  BY DEF ReadStep, PieceDone, BracketOpens, BracketCloses, EmojiPanics, PlainRune, NextPiece,
         AllPieces, WriteToken, AllWritten, ReadingPiece, AtClosing, PieceRead
<1>2. phase = "waiting"  BY <1>1 DEF ContentsInv
<1>3. UNCHANGED <<variant, runes, phase>>  BY DEF tokenVars
<1> QED  BY <1>1, <1>2, <1>3 DEF ContentsInv, IsList

LEMMA TextLearns ==
  ASSUME ContentsInv, ReadInv, LoneInv, Learn  PROVE ContentsInv'
<1>1. PICK p : p = TokenizePrep(contents)  OBVIOUS
<1>2. /\ reading = "read" /\ phase = "waiting" /\ runes' = p /\ phase' # "waiting"
      /\ UNCHANGED <<variant, readingVars>>
  BY <1>1 DEF Learn
<1>3. raw \in Seq(Characters) /\ contents \in Seq(Characters)  BY DEF ReadInv, ReadTypeOK
<1>4. IsList(p) /\ Cardinality(Signs(contents)) <= Cardinality(Signs(p)) /\ IsFiniteSet(Signs(p))
  BY <1>1, <1>3, PrepList, SignsPrepared
<1>5. Cardinality(Lones) <= Cardinality(Signs(contents))  BY <1>2 DEF LoneInv
<1>6. /\ Cardinality(Lones) \in Nat /\ Cardinality(Signs(p)) \in Nat
      /\ Cardinality(Signs(contents)) \in Nat
  <2>1. Cardinality(Signs(contents)) \in Nat  BY <1>3, SignsGrow
  <2> QED  BY <1>3, <1>4, <2>1, LonesFinite, FS_CardinalityType
<1>7. Cardinality(Lones) <= Cardinality(Signs(p))  BY <1>4, <1>5, <1>6
<1>8. UNCHANGED <<raw, reading>>  BY <1>2 DEF readingVars
<1>9. Lones' = Lones  BY <1>8, LoneKept
<1>10. Signs(runes)' = Signs(p)  BY <1>2 DEF Signs
<1>11. IsList(runes)'  BY <1>2, <1>4 DEF IsList
<1> QED  BY <1>2, <1>7, <1>8, <1>9, <1>10, <1>11 DEF ContentsInv

LEMMA TextInvariance == TextSpec => []ContentsInv
<1>1. TextInit => ContentsInv
  <2>1. ASSUME NotReading, TokenizeInit  PROVE ContentsInv
    <3>1. PICK t \in Texts : runes = TokenizePrep(t)  BY <2>1 DEF TokenizeInit
    <3>2. IsList(runes)  BY <3>1, TextsTyped, PrepList
    <3>3. reading = "off" /\ phase # "waiting"  BY <2>1 DEF NotReading, TokenizeInit
    <3> QED  BY <3>2, <3>3 DEF ContentsInv
  <2>2. ASSUME ReadInit, variant = "discord", runes = <<>>, phase = "waiting"  PROVE ContentsInv
    <3>1. reading = "pieces"  BY <2>2 DEF ReadInit
    <3> QED  BY <2>2, <3>1, ShortLists DEF ContentsInv
  <2> QED  BY <2>1, <2>2 DEF TextInit
<1>2. ASSUME ContentsInv, ReadInv, LoneInv, TokensInv, EndInv, [TextNext]_textVars  PROVE ContentsInv'
  <2>1. CASE Learn  BY <1>2, <2>1, TextLearns
  <2>2. CASE ReadStep /\ UNCHANGED tokenVars  BY <1>2, <2>2, TextReads
  <2>3. CASE UNCHANGED textVars
    <3>1. UNCHANGED <<variant, runes, raw, reading, phase>>
      BY <2>3 DEF textVars, tokenVars, readingVars
    <3> QED  BY <1>2, <3>1, TextStays
  <2>4. CASE TokenizeNext /\ UNCHANGED readingVars
    <3>1. UNCHANGED <<variant, runes>> /\ phase # "waiting" /\ phase' # "waiting"
      BY <2>4, TokenizeTurns
    <3>2. UNCHANGED <<raw, reading>>  BY <2>4 DEF readingVars
    <3> QED  BY <1>2, <3>1, <3>2, TextStays
  <2> QED  BY <1>2, <2>1, <2>2, <2>3, <2>4 DEF TextNext
<1> QED
  BY <1>1, <1>2, ReadInvariance, LoneInvariance, TokensInvariance, EndInvariance, PTL DEF TextSpec

\* A sign at the beginning of a word is a mention that is learnt.
LEMMA SignLearnt ==
  ASSUME EndInv, LearntInv, SignInv, Prepared(runes), Marked, phase = "done",
         NEW k \in 0 .. Size - 1, MentionAt(k)
  PROVE  \E n \in DOMAIN simple : simple[n].type \in MentionTypes /\ simple[n].parts[1].from = k
<1>1. PICK i : Begun(parsed, MentionTypes, i, k)
  <2>1. ParsedTo(k)  BY DEF SignInv, Marked
  <2> QED  BY <2>1 DEF ParsedTo
<1>2. /\ i \in DOMAIN parsed /\ parsed[i].type \in MentionTypes
      /\ parsed[i].from = k /\ parsed[i].to \in Nat /\ k < parsed[i].to
      /\ i = 1 \/ parsed[i - 1].type = "Space"
  BY <1>1 DEF Begun
<1>3. DOMAIN parsed = 1 .. Len(parsed) /\ Len(parsed) \in Nat  BY ListOf DEF EndInv
<1>4. i \in Nat /\ k \in Nat  BY <1>2, <1>3
<1>5. ~GluedToWord(i)
  <2> SUFFICES ASSUME NEW j \in 1 .. i - 1, \A m \in j .. i - 1 : isWordConsumableToken(parsed[m])
               PROVE  FALSE
    BY DEF GluedToWord
  <2>1. i - 1 \in j .. i - 1 /\ i # 1  BY <1>4
  <2>2. isWordConsumableToken(parsed[i - 1]) /\ parsed[i - 1].type = "Space"  BY <1>2, <2>1
  <2> QED  BY <2>2 DEF isWordConsumableToken, Wordy, Ends
<1>6. cleanWordLeaves(parsed[i])
  <2>1. k \in parsed[i].from .. parsed[i].to - 1  BY <1>2, <1>4
  <2>2. RuneAt(k) = "@"  BY DEF MentionAt
  <2>3. "@" \notin Dropped \cup Trimmed  BY DEF Dropped, Trimmed, Quotes, Space
  <2> QED  BY <2>1, <2>2, <2>3 DEF cleanWordLeaves
<1>7. i \in Leaves  BY <1>2, <1>5, <1>6 DEF Leaves, Fills, MentionTypes, Fillers
<1>8. PICK f : Pairs(f, simple, Leaves)  BY DEF LearntInv, Paired
<1>9. PICK n \in FillersOf(simple) : f[n] = i  BY <1>7, <1>8 DEF Pairs
<1>10. simple[n].type = parsed[i].type /\ simple[n].parts = <<parsed[i]>>
  BY <1>8, <1>9 DEF Pairs
<1>11. n \in DOMAIN simple  BY <1>9 DEF FillersOf
<1>12. simple[n].parts[1] = parsed[i]  BY <1>10
<1> QED  BY <1>2, <1>10, <1>11, <1>12

\* They are at least as many as the signs of the text.
LEMMA SignsLearnt ==
  ASSUME EndInv, LearntInv, SignInv, Prepared(runes), IsList(runes), Marked, phase = "done"
  PROVE  /\ IsFiniteSet({n \in DOMAIN simple : simple[n].type \in MentionTypes})
         /\ Cardinality(Signs(runes))
              <= Cardinality({n \in DOMAIN simple : simple[n].type \in MentionTypes})
<1>1. PICK S, M : S = Signs(runes) /\ M = {n \in DOMAIN simple : simple[n].type \in MentionTypes}
  OBVIOUS
<1>2. IsFiniteSet(M)
  <2>1. DOMAIN simple = 1 .. Len(simple) /\ Len(simple) \in Nat  BY ListOf DEF LearntInv
  <2>2. IsFiniteSet(DOMAIN simple) /\ M \subseteq DOMAIN simple  BY <1>1, <2>1, FS_Interval
  <2> QED  BY <2>2, FS_Subset
<1>3. DOMAIN runes = 1 .. Size /\ Size \in Nat  BY ListOf DEF Size
<1>4. ASSUME NEW q \in S
      PROVE  q \in Nat /\ \E n \in M : simple[n].parts[1].from = q - 1
  <2>1. q \in 1 .. Size /\ runes[q] = "@" /\ (q = 1 \/ runes[q - 1] = "space")
    BY <1>1, <1>3 DEF Signs
  <2>2. q - 1 \in 0 .. Size - 1 /\ (q - 1) + 1 = q  BY <1>3, <2>1
  <2>3. RuneAt(q - 1) = "@"  BY <2>1, <2>2 DEF RuneAt
  <2>4. q - 1 # 0 => RuneAt((q - 1) - 1) = Space
    <3>1. q - 1 # 0 => (q - 1) - 1 \in 0 .. Size - 1 /\ ((q - 1) - 1) + 1 = q - 1
      BY <1>3, <2>1
    <3> QED  BY <2>1, <3>1 DEF RuneAt, Space
  <2>5. MentionAt(q - 1)  BY <2>3, <2>4 DEF MentionAt
  <2>6. PICK n \in DOMAIN simple :
          simple[n].type \in MentionTypes /\ simple[n].parts[1].from = q - 1
    BY <2>2, <2>5, SignLearnt
  <2> QED  BY <1>1, <2>1, <2>6
<1>5. PICK g : g = [q \in S |-> CHOOSE n \in M : simple[n].parts[1].from = q - 1]  OBVIOUS
<1>6. \A q \in S : g[q] \in M /\ simple[g[q]].parts[1].from = q - 1  BY <1>4, <1>5
<1>7. g \in [S -> M]  BY <1>5, <1>6
<1>8. ASSUME NEW q \in S, NEW r \in S, g[q] = g[r]  PROVE q = r
  <2>1. q - 1 = r - 1  BY <1>6, <1>8
  <2>2. q \in Nat /\ r \in Nat  BY <1>4
  <2> QED  BY <2>1, <2>2
<1>9. g \in Injection(S, M)  BY <1>7, <1>8 DEF Injection, IsInjective
<1>10. Cardinality(S) <= Cardinality(M)  BY <1>2, <1>9, FS_Injection
<1> QED  BY <1>1, <1>2, <1>10

(* What the tokenizer takes for a mention is learnt as one, one for one, and *)
(* someone who is mentioned in a word of their own is learnt as a mention,   *)
(* unless the text encloses something: the driver writes the sign of a       *)
(* mention behind the space before it, the tokenizer keeps both and finds    *)
(* the mention at the beginning of a word, and GetSimpleTokenList takes it   *)
(* in (parseDiscordPiece, translateParsedMessage, Tokenize,                  *)
(* parseWordForChat, GetSimpleTokenList).                                    *)
THEOREM MentionsLearnt == TextSpec => []MentionsReachTheModel
<1>1. ASSUME EndInv, LearntInv, SignInv, ContentsInv, LoneInv, ReadInv, TokensInv
      PROVE  MentionsReachTheModel
  <2>1. MentionsAreLearned  BY <1>1, LearntAsParsed
  <2>2. ASSUME phase = "done", ~Encloses
        PROVE  Cardinality(Lones)
                 <= Cardinality({n \in DOMAIN simple : simple[n].type \in MentionTypes})
    <3>1. PICK M : M = {n \in DOMAIN simple : simple[n].type \in MentionTypes}  OBVIOUS
    <3>2. CASE reading = "off"
      <4>1. raw = <<>>  BY <1>1, <3>2 DEF LoneInv
      <4>2. Len(raw) = 0  BY <4>1
      <4>3. Lones = {}  BY <4>2 DEF Lones
      <4>4. IsFiniteSet(M)
        <5>1. DOMAIN simple = 1 .. Len(simple) /\ Len(simple) \in Nat
          BY <1>1, ListOf DEF LearntInv
        <5>2. IsFiniteSet(DOMAIN simple) /\ M \subseteq DOMAIN simple
          BY <3>1, <5>1, FS_Interval
        <5> QED  BY <5>2, FS_Subset
      <4>5. Cardinality(Lones) = 0 /\ Cardinality(M) \in Nat
        BY <4>3, <4>4, FS_EmptySet, FS_CardinalityType
      <4> QED  BY <3>1, <4>5
    <3>3. CASE reading = "read"
      <4>1. variant = "discord" /\ IsList(runes)
            /\ Cardinality(Lones) <= Cardinality(Signs(runes))
        BY <1>1, <2>2, <3>3 DEF ContentsInv
      <4>2. Marked /\ Prepared(runes)  BY <1>1, <2>2, <4>1 DEF Marked, TokensInv, RunesInv
      <4>3. IsFiniteSet(M) /\ Cardinality(Signs(runes)) <= Cardinality(M)
        BY <1>1, <2>2, <3>1, <4>1, <4>2, SignsLearnt
      <4>4. Cardinality(Lones) \in Nat /\ Cardinality(M) \in Nat
        <5>1. raw \in Seq(Characters)  BY <1>1 DEF ReadInv, ReadTypeOK
        <5> QED  BY <4>3, <5>1, LonesFinite, FS_CardinalityType
      <4>5. Cardinality(Signs(runes)) \in Nat
        <5>1. Signs(runes) \subseteq 1 .. Size /\ Size \in Nat
          BY <4>1, ListOf DEF Signs, Size
        <5>2. IsFiniteSet(1 .. Size)  BY <5>1, FS_Interval
        <5>3. IsFiniteSet(Signs(runes))  BY <5>1, <5>2, FS_Subset
        <5> QED  BY <5>3, FS_CardinalityType
      <4> QED  BY <3>1, <4>1, <4>3, <4>4, <4>5
    <3> QED  BY <1>1, <2>2, <3>2, <3>3 DEF ContentsInv
  <2> QED  BY <2>1, <2>2 DEF MentionsReachTheModel, Lones, MentionTypes
<1> QED
  BY <1>1, EndInvariance, LearntInvariance, SignInvariance, TextInvariance, LoneInvariance,
     ReadInvariance, TokensInvariance, PTL

=============================================================================
