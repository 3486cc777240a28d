--------------------------- MODULE LearningProofs ---------------------------
(***************************************************************************)
(* Proofs about what is learned, and from what.                            *)
(*                                                                         *)
(* About RawMessages, for any messages, users, goroutines, failures and    *)
(* crashes: its types; that a model built with a user on the block list    *)
(* knows nothing that user wrote, provided Discord names the author of     *)
(* every update (~PartialUpdates), as one without an author is stored      *)
(* whoever wrote the message; that the model follows the table; and that a *)
(* message's events, handled in turn and with no other message in the      *)
(* group, leave what the last of them says.                                *)
(*                                                                         *)
(* About MarkovModel, for any rows, words, goroutines and jobs:            *)
(*   - One goroutine at a time learns or resets, and the two halves of     *)
(*     each index agree, between any two writes and across every rebuild.  *)
(*   - The model holds what the rows teach, once each and in order.        *)
(*   - What a speaker has read never dangles unless a rebuild overtook it, *)
(*     and it says next to each other only what stood next to each other.  *)
(***************************************************************************)
EXTENDS RawMessages, MarkovModel, FiniteSetTheorems, SequenceTheorems, WellFoundedInduction, TLAPS

-----------------------------------------------------------------------------
(***************************************************************************)
(* RawMessages                                                             *)
(***************************************************************************)


-----------------------------------------------------------------------------
(* The first invariant: types, and what a handler at a step has in hand. *)

Proper(e) ==
    /\ e \in Event
    /\ e.kind \in {"block", "unblock"} => e.user # None
    /\ e.kind \notin {"block", "unblock"} => e.message # None
    /\ e.kind \in {"create", "update"} /\ ~PartialUpdates =>
          e.user = AuthorOf[e.message]

Recording == {"process", "preBadWords", "recordCheck", "record", "insert",
              "syncCheck", "sync", "syncInsert"}

\* The events a step may belong to.
Serves(step, e) ==
    /\ Proper(e)
    /\ step \in Recording => e.kind \in {"create", "update"} /\ e.text # None
    /\ step \in {"syncCheck", "sync", "syncInsert"} => e.kind = "update"
    /\ step = "purge" => e.kind \in {"update", "delete"}
    /\ step \in {"block", "purgeAuthor", "unblock"} => e.kind \in {"block", "unblock"}

Busy(step) == step \notin {"new", "done"}

HandlersServe == \A t \in Tasks : Busy(pc[t]) => Serves(pc[t], ev[t])

\* A process that is down has nothing under way.
DownIsEmpty ==
    ~running => /\ \A t \in Tasks : ~Busy(pc[t])
           /\ fetched = {} /\ ~learning /\ rebuild = "idle"

RawInv == RawTypeOK /\ HandlersServe /\ DownIsEmpty

-----------------------------------------------------------------------------
(* Lemmas about the operators *)

\* A query returns messages with what the table says of them.
LEMMA SelectedType ==
    ASSUME RawTypeOK, NEW last \in Nat
    PROVE  Selected(last) \subseteq Fetched
<1>1. ASSUME NEW m \in Messages, Stored(m)
      PROVE  [message |-> m, text |-> rows[m].text, id |-> rows[m].id] \in Fetched
  <2>1. rows[m] \in Row  BY <1>1 DEF RawTypeOK, Stored
  <2> QED  BY <2>1 DEF Row, Fetched
<1>2. LearningMessages \subseteq Messages  BY RawConstants
<1> QED  BY <1>1, <1>2 DEF Selected

\* Learning keeps a model well typed, and adds nothing but what was read.
LEMMA LearnedType ==
    ASSUME NEW known \in [texts : SUBSET Learned, last : Nat],
           NEW found \in SUBSET Fetched, NEW new \in LearnedFrom(known, found)
    PROVE  /\ new \in [texts : SUBSET Learned, last : Nat]
           /\ \A k \in new.texts :
                 k \in known.texts \/ \E f \in found : k.message = f.message
<1>1. PICK last \in {known.last} \cup {f.id : f \in found} :
         new = [last  |-> last,
                texts |-> known.texts \cup {[message |-> f.message, text |-> f.text] :
                                              f \in {g \in found : g.id <= last}}]
  BY DEF LearnedFrom
<1>2. last \in Nat  BY DEF Fetched
<1>3. \A f \in found : [message |-> f.message, text |-> f.text] \in Learned
  BY DEF Fetched, Learned
<1>4. new.texts \subseteq Learned  BY <1>1, <1>3
<1>5. \A k \in new.texts :
         k \in known.texts \/ \E f \in found : k.message = f.message
  BY <1>1
<1> QED  BY <1>1, <1>2, <1>4, <1>5

\* A handler that goes to a step its event may be at keeps the first invariant's
\* share of the handlers.
LEMMA GotoKeeps ==
    ASSUME RawTypeOK, HandlersServe, NEW t \in Tasks, NEW step \in Steps,
           Goto(t, step), Busy(step) => Serves(step, ev[t])
    PROVE  /\ ev' \in [Tasks -> Event \cup {None}]
           /\ pc' \in [Tasks -> Steps]
           /\ HandlersServe'
<1>1. ev' \in [Tasks -> Event \cup {None}] /\ pc' \in [Tasks -> Steps]
  BY DEF RawTypeOK, Goto
<1>2. ASSUME NEW u \in Tasks, Busy(pc'[u]) PROVE Serves(pc'[u], ev'[u])
  <2>1. CASE u = t
    <3>1. pc'[u] = step /\ step # "done" /\ ev'[u] = ev[t]
      BY <1>2, <2>1 DEF Goto, RawTypeOK, Busy
    <3> QED  BY <3>1, <1>2
  <2>2. CASE u # t
    <3>1. pc'[u] = pc[u] /\ ev'[u] = ev[u]
      BY <2>2 DEF Goto, RawTypeOK
    <3> QED  BY <3>1, <1>2 DEF HandlersServe
  <2> QED  BY <2>1, <2>2
<1>3. HandlersServe'  BY <1>2 DEF HandlersServe
<1> QED  BY <1>1, <1>3

\* After a notification an update goes on as the recording of a text.
LEMMA AfterServes ==
    ASSUME NEW e, Proper(e)
    PROVE  After(e) \in Steps /\ (Busy(After(e)) => Serves(After(e), e))
BY DEF After, Steps, Busy, Serves, Recording

-----------------------------------------------------------------------------
(* The first invariant holds *)

LEMMA RawStart == RawInit => RawInv
<1> SUFFICES ASSUME RawInit PROVE RawInv  OBVIOUS
<1>1. RawTypeOK
  <2>1. m3 \in [texts : SUBSET Learned, last : Nat]
    BY DEF RawInit, EmptyModel
  <2> QED  BY <2>1 DEF RawInit, RawTypeOK, Steps
<1>2. HandlersServe  BY DEF RawInit, HandlersServe, Busy
<1>3. DownIsEmpty  BY DEF RawInit, DownIsEmpty, Busy
<1> QED  BY <1>1, <1>2, <1>3 DEF RawInv

\* What an event starts with.
LEMMA FirstStepServes ==
    ASSUME NEW e \in Event, Happens(e)
    PROVE  /\ FirstStep(e) \in Steps
           /\ Busy(FirstStep(e)) => Serves(FirstStep(e), e)
<1>1. Proper(e)  BY DEF Happens, Proper
<1>2. e.kind \in Kinds  BY DEF Happens, Event, Kinds
<1> QED  BY <1>1, <1>2 DEF FirstStep, Steps, Serves, Recording, Kinds, Happens, Busy

LEMMA ReceiveKeeps ==
    ASSUME RawInv, NEW t \in Tasks, Receive(t)
    PROVE  RawInv'
<1> USE DEF RawInv
<1>1. PICK e \in Event :
         /\ Happens(e)
         /\ pc' = [pc EXCEPT ![t] = FirstStep(e)]
         /\ ev' = [ev EXCEPT ![t] = e]
         /\ IF e.kind \in {"block", "unblock"}
            THEN /\ orderly' = {m \in orderly : AuthorOf[m] # e.user}
                 /\ UNCHANGED <<life, expected>>
            ELSE /\ life' = [life EXCEPT ![e.message] =
                               IF e.kind = "delete" THEN "deleted" ELSE "live"]
                 /\ expected' = [expected EXCEPT ![e.message] = Leaves(e)]
                 /\ orderly' = IF InTurn(e) THEN orderly ELSE orderly \ {e.message}
  BY DEF Receive
<1>2. /\ FirstStep(e) \in Steps
      /\ Busy(FirstStep(e)) => Serves(FirstStep(e), e)
  BY <1>1, FirstStepServes
<1>3. UNCHANGED <<dbVars, drawn, ready, modelVars, processVars, clean, lost>>
  BY DEF Receive
<1>4. ev' \in [Tasks -> Event \cup {None}] /\ pc' \in [Tasks -> Steps]
  BY <1>1, <1>2 DEF RawTypeOK
<1>5. Leaves(e) \in Texts \cup {None}  BY DEF Event, Leaves
<1>6. /\ life' \in [Messages -> {"unsent", "live", "deleted"}]
      /\ expected' \in [Messages -> Texts \cup {None}]
      /\ orderly' \subseteq Messages
  BY <1>1, <1>5 DEF RawTypeOK
<1>7. RawTypeOK'
  BY <1>3, <1>4, <1>6 DEF RawTypeOK, dbVars, modelVars, processVars
<1>8. ASSUME NEW u \in Tasks, Busy(pc'[u]) PROVE Serves(pc'[u], ev'[u])
  <2>1. CASE u = t
    <3>1. pc'[u] = FirstStep(e) /\ ev'[u] = e
      BY <1>1, <1>8, <2>1 DEF RawTypeOK, Busy
    <3> QED  BY <3>1, <1>2, <1>8
  <2>2. CASE u # t
    BY <1>1, <1>8, <2>2 DEF RawTypeOK, HandlersServe
  <2> QED  BY <2>1, <2>2
<1>9. HandlersServe'  BY <1>8 DEF HandlersServe
<1>10. DownIsEmpty'  BY <1>3 DEF DownIsEmpty, modelVars, processVars, Receive
<1> QED  BY <1>7, <1>9, <1>10

\* A step of a handler that leaves the learners, the process and Discord alone
\* is told by the tables, its drawn id and where it goes.
LEMMA HandlerKeeps ==
    ASSUME RawInv, NEW t \in Tasks, Busy(pc[t]), NEW step \in Steps, Goto(t, step),
           Busy(step) => Serves(step, ev[t]),
           rows' \in [Messages -> Row \cup {None}], nextId' \in Nat,
           blocked' \subseteq Users, drawn' \in [Tasks -> Nat],
           clean' \subseteq Users, lost' \in BOOLEAN,
           rebuild' \in {rebuild, "waiting"},
           UNCHANGED <<m3, fetched, learning, processVars, discordVars, ready>>
    PROVE  RawInv'
<1> USE DEF RawInv
<1>1. /\ ev' \in [Tasks -> Event \cup {None}]
      /\ pc' \in [Tasks -> Steps]
      /\ HandlersServe'
  BY GotoKeeps
<1>2. RawTypeOK'  BY <1>1 DEF RawTypeOK, processVars, discordVars
<1>3. running /\ running'  BY DEF DownIsEmpty, processVars
<1> QED  BY <1>1, <1>2, <1>3 DEF DownIsEmpty

LEMMA DrawIdKeeps ==
    ASSUME RawInv, NEW t \in Tasks, DrawId(t)
    PROVE  /\ nextId' \in Nat /\ drawn' \in [Tasks -> Nat]
           /\ rows' = rows /\ blocked' = blocked
BY DEF RawInv, RawTypeOK, DrawId

LEMMA InsertedKeeps ==
    ASSUME RawInv, NEW t \in Tasks, NEW next \in Steps, Inserted(t, next),
           pc[t] \in {"insert", "syncInsert"}, Busy(next) => Serves(next, ev[t])
    PROVE  RawInv'
<1> USE DEF RawInv
<1>1. /\ Busy(pc[t])
      /\ ev[t] \in Event /\ ev[t].text \in Texts
  BY DEF HandlersServe, Serves, Proper, Busy, Event, Recording
<1>2. [id |-> drawn[t], author |-> ev[t].user, text |-> ev[t].text] \in Row
  BY <1>1 DEF RawTypeOK, Row, Event
<1>3. rows' \in [Messages -> Row \cup {None}] /\ drawn' \in [Tasks -> Nat]
  BY <1>2 DEF Inserted, RawTypeOK
<1>4. Goto(t, next)  BY DEF Inserted
<1>5. UNCHANGED <<nextId, blocked, m3, fetched, learning, rebuild, processVars,
                  discordVars, clean, lost, ready>>
  BY DEF Inserted, Elsewhere, modelVars
<1>6. /\ nextId \in Nat /\ blocked \subseteq Users /\ clean \subseteq Users
      /\ lost \in BOOLEAN
  BY DEF RawTypeOK
<1> QED  BY <1>1, <1>3, <1>4, <1>5, <1>6, HandlerKeeps

\* The goroutines that are given another's message can serve it like their own.
LEMMA ProcessKeeps ==
    ASSUME RawInv, NEW t \in Tasks, Process(t)
    PROVE  RawInv'
<1> USE DEF RawInv
<1>1. PICK misled \in SUBSET OthersAt(t, Given) :
         ev' = [u \in Tasks |-> IF u \in misled THEN ev[t] ELSE ev[u]]
  BY DEF Process
<1>2. /\ pc[t] = "process" /\ pc' = [pc EXCEPT ![t] = "preBadWords"]
      /\ UNCHANGED <<dbVars, drawn, modelVars, processVars, life, expected, clean, lost>>
      /\ ready' \in BOOLEAN /\ orderly' \subseteq orderly
  BY DEF Process, RawTypeOK
<1>3. Busy(pc[t]) /\ Serves("process", ev[t])
  BY <1>2 DEF HandlersServe, Busy
<1>4. ev' \in [Tasks -> Event \cup {None}] /\ pc' \in [Tasks -> Steps]
  BY <1>1, <1>2 DEF RawTypeOK, Steps
<1>5. RawTypeOK'
  BY <1>2, <1>4 DEF RawTypeOK, dbVars, modelVars, processVars
<1>6. ASSUME NEW u \in Tasks, Busy(pc'[u])  PROVE Serves(pc'[u], ev'[u])
  <2>1. pc \in [Tasks -> Steps]  BY DEF RawTypeOK
  <2>2. CASE u = t
    <3>1. pc'[u] = "preBadWords" /\ ev'[u] = ev[t]  BY <1>1, <1>2, <2>1, <2>2
    <3> QED  BY <1>3, <3>1 DEF Serves, Recording
  <2>3. CASE u # t /\ u \in misled
    <3>1. pc'[u] \in Given /\ ev'[u] = ev[t]  BY <1>1, <1>2, <2>1, <2>3 DEF OthersAt
    <3> QED  BY <1>3, <3>1 DEF Serves, Recording, Given
  <2>4. CASE u # t /\ u \notin misled
    BY <1>1, <1>2, <1>6, <2>1, <2>4 DEF HandlersServe
  <2> QED  BY <2>2, <2>3, <2>4
<1>7. HandlersServe'  BY <1>6 DEF HandlersServe
<1>8. DownIsEmpty'
  <2>1. running /\ running'  BY <1>2, <1>3 DEF DownIsEmpty, processVars
  <2> QED  BY <2>1 DEF DownIsEmpty
<1> QED  BY <1>5, <1>7, <1>8

LEMMA HandleKeeps ==
    ASSUME RawInv, NEW t \in Tasks, Handle(t)
    PROVE  RawInv'
<1> USE DEF RawInv
<1>a. /\ nextId \in Nat /\ blocked \subseteq Users /\ clean \subseteq Users
      /\ lost \in BOOLEAN /\ rows \in [Messages -> Row \cup {None}]
      /\ drawn \in [Tasks -> Nat]
  BY DEF RawTypeOK
<1>b. Busy(pc[t]) => Serves(pc[t], ev[t])  BY DEF HandlersServe
<1>1. CASE RecordCheck(t)
  <2>1. Serves("recordCheck", ev[t]) /\ Busy(pc[t])
    BY <1>1, <1>b DEF RecordCheck, Busy
  <2>2. PICK step \in {"record", "done"} : Goto(t, step)
    BY <1>1 DEF RecordCheck
  <2>3. step \in Steps /\ (Busy(step) => Serves(step, ev[t]))
    BY <2>1 DEF Steps, Serves, Recording, Busy
  <2>4. UNCHANGED <<dbVars, drawn, Elsewhere>>  BY <1>1 DEF RecordCheck
  <2> QED
    BY <1>a, <2>1, <2>2, <2>3, <2>4, HandlerKeeps DEF dbVars, modelVars, Elsewhere
<1>2. CASE Record(t)
  <2> DEFINE m == ev[t].message
  <2>1. Serves("record", ev[t]) /\ Busy(pc[t])
    BY <1>2, <1>b DEF Record, Busy
  <2>2. /\ "insert" \in Steps /\ "done" \in Steps /\ ~Busy("done")
        /\ Serves("insert", ev[t])
    BY <2>1 DEF Steps, Serves, Recording, Busy
  <2>3. UNCHANGED Elsewhere  BY <1>2 DEF Record
  <2>4. CASE DrawId(t) /\ Goto(t, "insert")
    BY <1>a, <2>1, <2>2, <2>3, <2>4, DrawIdKeeps, HandlerKeeps DEF modelVars, Elsewhere
  <2>5. CASE /\ Stored(m)
             /\ rows' = [rows EXCEPT ![m].author = IF @ = None THEN ev[t].user ELSE @]
             /\ Goto(t, "done")
             /\ UNCHANGED <<nextId, blocked, drawn>>
    <3>1. m \in Messages /\ ev[t].user \in Users \cup {None}
      BY <2>1 DEF Serves, Proper, Event, Recording
    <3>2. rows[m] \in Row  BY <1>a, <2>5, <3>1 DEF Stored
    <3>3. [rows[m] EXCEPT !.author = IF @ = None THEN ev[t].user ELSE @] \in Row
      BY <3>1, <3>2 DEF Row
    <3>4. rows' \in [Messages -> Row \cup {None}]  BY <1>a, <2>5, <3>3
    <3> QED
      BY <1>a, <2>1, <2>2, <2>3, <2>5, <3>4, HandlerKeeps DEF modelVars, Elsewhere
  <2> QED  BY <1>2, <2>4, <2>5 DEF Record
<1>3. CASE Insert(t)
  <2>1. "done" \in Steps /\ ~Busy("done")  BY DEF Steps, Busy
  <2> QED  BY <1>3, <2>1, InsertedKeeps DEF Insert
<1>4. CASE SyncCheck(t)
  <2>1. Serves("syncCheck", ev[t]) /\ Busy(pc[t])
    BY <1>4, <1>b DEF SyncCheck, Busy
  <2>2. PICK step \in {"sync", "purge"} : Goto(t, step)
    BY <1>4 DEF SyncCheck
  <2>3. step \in Steps /\ (Busy(step) => Serves(step, ev[t]))
    BY <2>1 DEF Steps, Serves, Recording, Busy
  <2>4. UNCHANGED <<dbVars, drawn, Elsewhere>>  BY <1>4 DEF SyncCheck
  <2> QED
    BY <1>a, <2>1, <2>2, <2>3, <2>4, HandlerKeeps DEF dbVars, modelVars, Elsewhere
<1>5. CASE Sync(t)
  <2> DEFINE m == ev[t].message
  <2>1. Serves("sync", ev[t]) /\ Busy(pc[t])
    BY <1>5, <1>b DEF Sync, Busy
  <2>2. /\ "syncInsert" \in Steps /\ "notify" \in Steps
        /\ Serves("syncInsert", ev[t]) /\ Serves("notify", ev[t])
    BY <2>1 DEF Steps, Serves, Recording
  <2>3. UNCHANGED Elsewhere  BY <1>5 DEF Sync
  <2>4. CASE DrawId(t) /\ Goto(t, "syncInsert")
    BY <1>a, <2>1, <2>2, <2>3, <2>4, DrawIdKeeps, HandlerKeeps DEF modelVars, Elsewhere
  <2>5. CASE /\ Stored(m)
             /\ rows' = [rows EXCEPT
                  ![m].text = ev[t].text,
                  ![m].author = IF ev[t].user = None THEN @ ELSE ev[t].user]
             /\ Goto(t, "notify")
             /\ UNCHANGED <<nextId, blocked, drawn>>
    <3>1. m \in Messages /\ ev[t].user \in Users \cup {None} /\ ev[t].text \in Texts
      BY <2>1 DEF Serves, Proper, Event, Recording
    <3>2. rows[m] \in Row  BY <1>a, <2>5, <3>1 DEF Stored
    <3>3. rows' = [rows EXCEPT ![m] =
             [rows[m] EXCEPT !.text = ev[t].text,
                !.author = IF ev[t].user = None THEN @ ELSE ev[t].user]]
      BY <1>a, <2>5, <3>1, <3>2 DEF Row
    <3>4. [rows[m] EXCEPT !.text = ev[t].text,
             !.author = IF ev[t].user = None THEN @ ELSE ev[t].user] \in Row
      BY <3>1, <3>2 DEF Row
    <3>5. rows' \in [Messages -> Row \cup {None}]  BY <1>a, <3>3, <3>4
    <3> QED
      BY <1>a, <2>1, <2>2, <2>3, <2>5, <3>5, HandlerKeeps DEF modelVars, Elsewhere
  <2> QED  BY <1>5, <2>4, <2>5 DEF Sync
<1>6. CASE SyncInsert(t)
  <2>1. Serves("syncInsert", ev[t])  BY <1>6, <1>b DEF SyncInsert, Busy
  <2>2. "notify" \in Steps /\ Serves("notify", ev[t])
    BY <2>1 DEF Steps, Serves, Recording
  <2> QED  BY <1>6, <2>2, InsertedKeeps DEF SyncInsert
<1>7. CASE Purge(t)
  <2>1. Serves("purge", ev[t]) /\ Busy(pc[t])
    BY <1>7, <1>b DEF Purge, Busy
  <2>2. PICK step \in {"notify", After(ev[t])} : Goto(t, step)
    BY <1>7 DEF Purge
  <2>3. step \in Steps /\ (Busy(step) => Serves(step, ev[t]))
    <3>1. "notify" \in Steps /\ Serves("notify", ev[t])
      BY <2>1 DEF Steps, Serves, Recording
    <3> QED  BY <2>1, <3>1, AfterServes DEF Serves
  <2>4. rows' \in [Messages -> Row \cup {None}]
    BY <1>7, <1>a DEF Purge, Without
  <2>5. UNCHANGED <<nextId, blocked, drawn, Elsewhere>>  BY <1>7 DEF Purge
  <2> QED
    BY <1>a, <2>1, <2>2, <2>3, <2>4, <2>5, HandlerKeeps DEF modelVars, Elsewhere
<1>8. CASE Block(t)
  <2>1. Serves("block", ev[t]) /\ Busy(pc[t])
    BY <1>8, <1>b DEF Block, Busy
  <2>2. PICK step \in {"purgeAuthor", "done"} : Goto(t, step)
    BY <1>8 DEF Block
  <2>3. step \in Steps /\ (Busy(step) => Serves(step, ev[t]))
    BY <2>1 DEF Steps, Serves, Recording, Busy
  <2>4. ev[t].user \in Users  BY <2>1 DEF Serves, Proper, Event
  <2>5. blocked' \subseteq Users  BY <1>8, <1>a, <2>4 DEF Block
  <2>6. UNCHANGED <<rows, nextId, drawn, Elsewhere>>  BY <1>8 DEF Block
  <2> QED
    BY <1>a, <2>1, <2>2, <2>3, <2>5, <2>6, HandlerKeeps DEF modelVars, Elsewhere
<1>9. CASE PurgeAuthor(t)
  <2>1. Serves("purgeAuthor", ev[t]) /\ Busy(pc[t])
    BY <1>9, <1>b DEF PurgeAuthor, Busy
  <2>2. PICK step \in {"notify", "done"} : Goto(t, step)
    BY <1>9 DEF PurgeAuthor
  <2>3. step \in Steps /\ (Busy(step) => Serves(step, ev[t]))
    BY <2>1 DEF Steps, Serves, Recording, Busy
  <2>4. rows' \in [Messages -> Row \cup {None}]
    BY <1>9, <1>a DEF PurgeAuthor, Without
  <2>5. UNCHANGED <<nextId, blocked, drawn, Elsewhere>>  BY <1>9 DEF PurgeAuthor
  <2> QED
    BY <1>a, <2>1, <2>2, <2>3, <2>4, <2>5, HandlerKeeps DEF modelVars, Elsewhere
<1>10. CASE Unblock(t)
  <2>1. Serves("unblock", ev[t]) /\ Busy(pc[t])
    BY <1>10, <1>b DEF Unblock, Busy
  <2>2. PICK step \in {"notify", "done"} : Goto(t, step)
    BY <1>10 DEF Unblock
  <2>3. step \in Steps /\ (Busy(step) => Serves(step, ev[t]))
    BY <2>1 DEF Steps, Serves, Recording, Busy
  <2>4. blocked' \subseteq Users /\ clean' \subseteq Users
    BY <1>10, <1>a DEF Unblock
  <2>5. UNCHANGED <<rows, nextId, drawn, ready, modelVars, processVars, discordVars, lost>>
    BY <1>10 DEF Unblock
  <2> QED
    BY <1>a, <2>1, <2>2, <2>3, <2>4, <2>5, HandlerKeeps DEF modelVars
<1>11. CASE Notify(t)
  <2>1. Serves("notify", ev[t]) /\ Busy(pc[t])
    BY <1>11, <1>b DEF Notify, Busy
  <2>2. /\ Goto(t, After(ev[t])) /\ After(ev[t]) \in Steps
        /\ Busy(After(ev[t])) => Serves(After(ev[t]), ev[t])
    BY <1>11, <2>1, AfterServes DEF Notify, Serves
  <2>3. rebuild' \in {rebuild, "waiting"} /\ lost' \in BOOLEAN
    BY <1>11, <1>a DEF Notify
  <2>4. UNCHANGED <<dbVars, drawn, ready, m3, fetched, learning, processVars,
                    discordVars, clean>>
    BY <1>11 DEF Notify
  <2> QED
    BY <1>a, <2>1, <2>2, <2>3, <2>4, HandlerKeeps DEF dbVars
<1>12. CASE Process(t)  BY <1>12, ProcessKeeps
<1>13. CASE Unfinished(t)
  <2>1. "done" \in Steps /\ ~Busy("done") /\ Goto(t, "done")
    BY <1>13 DEF Unfinished, Steps, Busy
  <2>2. ev' \in [Tasks -> Event \cup {None}] /\ pc' \in [Tasks -> Steps] /\ HandlersServe'
    BY <2>1, GotoKeeps
  <2>3. orderly' \subseteq Messages  BY <1>13 DEF Unfinished, RawTypeOK
  <2>4. RawTypeOK'
    BY <1>13, <2>2, <2>3 DEF Unfinished, RawTypeOK, dbVars, modelVars, processVars
  <2>5. running /\ running'
    BY <1>13 DEF Unfinished, DownIsEmpty, Busy, processVars
  <2> QED  BY <2>2, <2>4, <2>5 DEF DownIsEmpty
<1>14. CASE PreBadWords(t)
  <2>1. Serves("preBadWords", ev[t]) /\ Busy(pc[t])
    BY <1>14, <1>b DEF PreBadWords, Busy
  <2>2. PICK step \in {"recordCheck", "done"} : Goto(t, step)
    BY <1>14 DEF PreBadWords
  <2>3. step \in Steps /\ (Busy(step) => Serves(step, ev[t]))
    BY <2>1 DEF Steps, Serves, Recording, Busy
  <2>4. UNCHANGED <<dbVars, drawn, Elsewhere>>  BY <1>14 DEF PreBadWords
  <2> QED
    BY <1>a, <2>1, <2>2, <2>3, <2>4, HandlerKeeps DEF dbVars, modelVars, Elsewhere
<1> QED
  BY <1>1, <1>2, <1>3, <1>4, <1>5, <1>6, <1>7, <1>8, <1>9, <1>10, <1>11, <1>12, <1>13, <1>14
  DEF Handle

LEMMA LearnersKeep ==
    ASSUME RawInv, Learners
    PROVE  RawInv'
<1> USE DEF RawInv
<1>a. /\ m3 \in [texts : SUBSET Learned, last : Nat] /\ m3.last \in Nat
      /\ fetched \subseteq Fetched /\ 0 \in Nat
      /\ EmptyModel \in [texts : SUBSET Learned, last : Nat]
  BY DEF RawTypeOK, EmptyModel
<1>b. UNCHANGED <<dbVars, taskVars, processVars, discordVars>>
  BY DEF Learners, LearnQuery, LearnRows, RebuildQuery, RebuildRows, RebuildDone
<1>1. HandlersServe'  BY <1>b DEF HandlersServe, taskVars
<1>2. DownIsEmpty'
  <2>1. running  BY DEF DownIsEmpty, Learners, LearnQuery, LearnRows, RebuildQuery,
                   RebuildRows, RebuildDone
  <2> QED  BY <1>b, <2>1 DEF DownIsEmpty, processVars
<1>3. /\ m3' \in [texts : SUBSET Learned, last : Nat]
      /\ fetched' \subseteq Fetched
      /\ learning' \in BOOLEAN
      /\ rebuild' \in {"idle", "waiting", "learning", "finishing"}
      /\ clean' \subseteq Users /\ lost' \in BOOLEAN
  <2>1. CASE LearnQuery
    BY <1>a, <2>1, SelectedType DEF LearnQuery, RawTypeOK
  <2>2. CASE LearnRows
    BY <1>a, <2>2, LearnedType DEF LearnRows, RawTypeOK
  <2>3. CASE RebuildQuery
    BY <1>a, <2>3, SelectedType DEF RebuildQuery, RawTypeOK
  <2>4. CASE RebuildRows
    BY <1>a, <2>4, LearnedType DEF RebuildRows, RawTypeOK
  <2>5. CASE RebuildDone
    BY <1>a, <2>5 DEF RebuildDone, RawTypeOK
  <2> QED  BY <2>1, <2>2, <2>3, <2>4, <2>5 DEF Learners
<1>4. RawTypeOK'
  BY <1>b, <1>3 DEF RawTypeOK, dbVars, taskVars, processVars, discordVars
<1> QED  BY <1>1, <1>2, <1>4

LEMMA StartupKeeps ==
    ASSUME RawInv, Startup
    PROVE  RawInv'
<1> USE DEF RawInv
<1>1. m3' \in [texts : SUBSET Learned, last : Nat]
  <2>1. EmptyModel \in [texts : SUBSET Learned, last : Nat]  BY DEF EmptyModel
  <2> QED  BY <2>1, SelectedType, LearnedType DEF Startup
<1>2. RawTypeOK'
  BY <1>1 DEF Startup, RawTypeOK, dbVars, taskVars, discordVars
<1>3. HandlersServe'  BY DEF Startup, HandlersServe, taskVars
<1>4. DownIsEmpty'  BY DEF Startup, DownIsEmpty
<1> QED  BY <1>2, <1>3, <1>4

LEMMA DownKeeps ==
    ASSUME RawInv, Down, crashes' \in Nat
    PROVE  RawInv'
<1> USE DEF RawInv
<1>1. \A t \in Tasks : pc'[t] \in {"new", "done"}  BY DEF Down
<1>2. RawTypeOK'
  <2>1. m3' \in [texts : SUBSET Learned, last : Nat]  BY DEF Down, EmptyModel
  <2> QED  BY <2>1 DEF Down, RawTypeOK, dbVars, Steps
<1>3. HandlersServe'  BY <1>1 DEF HandlersServe, Busy
<1>4. DownIsEmpty'  BY <1>1 DEF DownIsEmpty, Down, Busy
<1> QED  BY <1>2, <1>3, <1>4

LEMMA RawStep == RawInv /\ [RawNext]_rawVars => RawInv'
<1> SUFFICES ASSUME RawInv, [RawNext]_rawVars PROVE RawInv'  OBVIOUS
<1>1. CASE \E t \in Tasks : Receive(t)  BY <1>1, ReceiveKeeps
<1>2. CASE \E t \in Tasks : Handle(t)  BY <1>2, HandleKeeps
<1>3. CASE \E t \in Tasks : DuplicateKey(t)
  <2>1. Down /\ crashes' \in Nat
    BY <1>3 DEF DuplicateKey, RawInv, RawTypeOK
  <2> QED  BY <2>1, DownKeeps
<1>4. CASE Learners  BY <1>4, LearnersKeep
<1>5. CASE Startup  BY <1>5, StartupKeeps
<1>6. CASE Crash
  <2>1. Down /\ crashes' \in Nat
    BY <1>6 DEF Crash, RawInv, RawTypeOK
  <2> QED  BY <2>1, DownKeeps
<1>7. CASE UNCHANGED rawVars
  BY <1>7 DEF rawVars, RawInv, RawTypeOK, HandlersServe, DownIsEmpty
<1> QED  BY <1>1, <1>2, <1>3, <1>4, <1>5, <1>6, <1>7 DEF RawNext

(***************************************************************************)
(* A goroutine serves the event it was started for until its handler ends, *)
(* and the events, fetches and rebuilds under way end with the process.    *)
(***************************************************************************)
THEOREM RawInvariance == RawSpec => []RawInv
<1>1. RawInit => RawInv  BY RawStart
<1>2. RawInv /\ [RawNext]_rawVars => RawInv'  BY RawStep
<1> QED  BY <1>1, <1>2, PTL DEF RawSpec

\* Every reachable state is well typed: no statement stores a row without a
\* text or for no message, whatever the events, failures and crashes.
THEOREM RawTypeCorrect == RawSpec => []RawTypeOK
<1>1. RawInv => RawTypeOK  BY DEF RawInv
<1> QED  BY <1>1, RawInvariance, PTL

-----------------------------------------------------------------------------
(* The block list.  That the model is free of listed authors is kept because *)
(* rows carry their true author, the users the model was emptied of are      *)
(* still listed, and what a learner has fetched is free of them as well.     *)

RowsAuthored  == \A m \in Messages : Stored(m) => rows[m].author = AuthorOf[m]
CleanListed   == clean \subseteq blocked
FetchedOfRest == \A f \in fetched : AuthorOf[f.message] \notin clean

BlockInv == RowsAuthored /\ CleanListed /\ FetchedOfRest /\ BlockedAuthorsStayOut

\* A query returns nothing a listed user wrote.
LEMMA SelectedOfRest ==
    ASSUME RowsAuthored, NEW last, NEW f \in Selected(last)
    PROVE  AuthorOf[f.message] \notin blocked
<1>1. PICK m \in LearningMessages :
         /\ Stored(m) /\ rows[m].author \notin blocked
         /\ f = [message |-> m, text |-> rows[m].text, id |-> rows[m].id]
  BY DEF Selected
<1>2. m \in Messages /\ f.message = m  BY <1>1, RawConstants
<1> QED  BY <1>1, <1>2 DEF RowsAuthored

\* Every way a handler changes the rows leaves them their true authors.
LEMMA HandleKeepsAuthors ==
    ASSUME RawInv, BlockInv, ~PartialUpdates, NEW t \in Tasks, Handle(t)
    PROVE  RowsAuthored'
<1> DEFINE m == ev[t].message
<1>a. Busy(pc[t]) => Serves(pc[t], ev[t])  BY DEF RawInv, HandlersServe
<1>b. rows \in [Messages -> Row \cup {None}] /\ RowsAuthored
  BY DEF RawInv, RawTypeOK, BlockInv
<1>c. ASSUME pc[t] \in Recording
      PROVE  m \in Messages /\ ev[t].user = AuthorOf[m]
  BY <1>a, <1>c DEF Busy, Serves, Recording, Proper, Event
<1>1. CASE rows' = rows  BY <1>1, <1>b DEF RowsAuthored, Stored
<1>2. CASE \E ms : rows' = Without(ms)
  BY <1>2, <1>b DEF RowsAuthored, Stored, Without
<1>3. CASE Insert(t) \/ SyncInsert(t)
  <2>1. /\ pc[t] \in Recording
        /\ rows' = [rows EXCEPT ![m] =
                      [id |-> drawn[t], author |-> ev[t].user, text |-> ev[t].text]]
    BY <1>3 DEF Insert, SyncInsert, Inserted, Recording
  <2> QED  BY <1>b, <1>c, <2>1 DEF RowsAuthored, Stored
<1>4. CASE Record(t) /\ rows' # rows
  <2>1. /\ pc[t] \in Recording /\ Stored(m)
        /\ rows' = [rows EXCEPT ![m].author = IF @ = None THEN ev[t].user ELSE @]
    BY <1>4 DEF Record, DrawId, Recording
  <2>2. rows[m] \in Row  BY <1>b, <1>c, <2>1 DEF Stored
  <2>3. rows'[m].author = AuthorOf[m]
    BY <1>b, <1>c, <2>1, <2>2 DEF RowsAuthored, Row
  <2>4. \A n \in Messages : n # m => rows'[n] = rows[n]  BY <1>b, <2>1
  <2> QED  BY <1>b, <2>3, <2>4 DEF RowsAuthored, Stored
<1>5. CASE Sync(t) /\ rows' # rows
  <2>1. /\ pc[t] \in Recording /\ Stored(m)
        /\ rows' = [rows EXCEPT
             ![m].text = ev[t].text,
             ![m].author = IF ev[t].user = None THEN @ ELSE ev[t].user]
    BY <1>5 DEF Sync, DrawId, Recording
  <2>2. rows[m] \in Row  BY <1>b, <1>c, <2>1 DEF Stored
  <2>3. rows'[m].author = AuthorOf[m]
    BY <1>b, <1>c, <2>1, <2>2 DEF RowsAuthored, Row
  <2>4. \A n \in Messages : n # m => rows'[n] = rows[n]  BY <1>b, <2>1
  <2> QED  BY <1>b, <2>3, <2>4 DEF RowsAuthored, Stored
<1> QED
  BY <1>1, <1>2, <1>3, <1>4, <1>5
  DEF Handle, Process, Unfinished, PreBadWords, RecordCheck, SyncCheck, Purge, Block,
      PurgeAuthor, Unblock, Notify, dbVars

LEMMA HandleKeepsBlock ==
    ASSUME RawInv, BlockInv, ~PartialUpdates, NEW t \in Tasks, Handle(t)
    PROVE  BlockInv'
<1>1. RowsAuthored'  BY HandleKeepsAuthors
<1>2. m3' = m3 /\ fetched' = fetched
  BY DEF Handle, Process, Unfinished, PreBadWords, RecordCheck, Record, Insert, SyncCheck, Sync,
         SyncInsert, Inserted, Purge, Block, PurgeAuthor, Unblock, Notify, Elsewhere, modelVars
<1>3. clean' \subseteq clean /\ clean' \subseteq blocked'
  <2>1. CASE Unblock(t)  BY <2>1 DEF Unblock, BlockInv, CleanListed
  <2>2. CASE ~Unblock(t)
    <3>1. clean' = clean /\ blocked \subseteq blocked'
      BY <2>2 DEF Handle, Process, Unfinished, PreBadWords, RecordCheck, Record, DrawId, Insert, SyncCheck, Sync,
                  SyncInsert, Inserted, Purge, Block, PurgeAuthor, Notify, Elsewhere,
                  dbVars
    <3> QED  BY <3>1 DEF BlockInv, CleanListed
  <2> QED  BY <2>1, <2>2
<1> QED
  BY <1>1, <1>2, <1>3 DEF BlockInv, CleanListed, FetchedOfRest, BlockedAuthorsStayOut

LEMMA LearnersKeepBlock ==
    ASSUME RawInv, BlockInv, Learners
    PROVE  BlockInv'
<1>a. /\ RowsAuthored /\ CleanListed /\ FetchedOfRest /\ BlockedAuthorsStayOut
      /\ m3 \in [texts : SUBSET Learned, last : Nat] /\ fetched \subseteq Fetched
  BY DEF BlockInv, RawInv, RawTypeOK
<1>b. rows' = rows /\ blocked' = blocked
  BY DEF Learners, LearnQuery, LearnRows, RebuildQuery, RebuildRows, RebuildDone, dbVars
<1>1. RowsAuthored'  BY <1>a, <1>b DEF RowsAuthored, Stored
<1>2. CleanListed' /\ FetchedOfRest' /\ BlockedAuthorsStayOut'
  <2>1. CASE LearnQuery
    BY <1>a, <1>b, <2>1, SelectedOfRest
    DEF LearnQuery, CleanListed, FetchedOfRest, BlockedAuthorsStayOut
  <2>2. CASE RebuildQuery
    BY <1>a, <1>b, <2>2, SelectedOfRest
    DEF RebuildQuery, EmptyModel, CleanListed, FetchedOfRest, BlockedAuthorsStayOut
  <2>3. CASE LearnRows \/ RebuildRows
    <3>1. m3' \in LearnedFrom(m3, fetched) /\ fetched' = {} /\ clean' = clean
      BY <2>3 DEF LearnRows, RebuildRows
    <3>2. \A k \in m3'.texts :
             k \in m3.texts \/ \E f \in fetched : k.message = f.message
      BY <1>a, <3>1, LearnedType
    <3> QED
      BY <1>a, <1>b, <3>1, <3>2
      DEF CleanListed, FetchedOfRest, BlockedAuthorsStayOut
  <2>4. CASE RebuildDone
    BY <1>a, <1>b, <2>4
    DEF RebuildDone, CleanListed, FetchedOfRest, BlockedAuthorsStayOut
  <2> QED  BY <2>1, <2>2, <2>3, <2>4 DEF Learners
<1> QED  BY <1>1, <1>2 DEF BlockInv

LEMMA StartupKeepsBlock ==
    ASSUME RawInv, BlockInv, Startup
    PROVE  BlockInv'
<1>a. RowsAuthored /\ rows' = rows /\ blocked' = blocked /\ clean' = blocked
  BY DEF BlockInv, Startup, dbVars
<1>1. RowsAuthored' /\ CleanListed'  BY <1>a DEF RowsAuthored, Stored, CleanListed
<1>2. FetchedOfRest'  BY DEF RawInv, DownIsEmpty, Startup, FetchedOfRest
<1>3. BlockedAuthorsStayOut'
  <2>1. /\ EmptyModel \in [texts : SUBSET Learned, last : Nat]
        /\ Selected(0) \subseteq Fetched
    BY SelectedType DEF EmptyModel, RawInv
  <2>2. \A k \in m3'.texts : \E f \in Selected(0) : k.message = f.message
    BY <2>1, LearnedType DEF Startup, EmptyModel
  <2> QED  BY <1>a, <2>2, SelectedOfRest DEF BlockedAuthorsStayOut
<1> QED  BY <1>1, <1>2, <1>3 DEF BlockInv

LEMMA BlockStep ==
    ASSUME ~PartialUpdates
    PROVE  RawInv /\ BlockInv /\ [RawNext]_rawVars => BlockInv'
<1> SUFFICES ASSUME RawInv, BlockInv, [RawNext]_rawVars PROVE BlockInv'  OBVIOUS
<1>1. CASE \E t \in Tasks : Receive(t)
  BY <1>1 DEF Receive, dbVars, modelVars, BlockInv, RowsAuthored, Stored, CleanListed,
              FetchedOfRest, BlockedAuthorsStayOut
<1>2. CASE \E t \in Tasks : Handle(t)  BY <1>2, HandleKeepsBlock
<1>3. CASE Down
  BY <1>3 DEF Down, EmptyModel, dbVars, BlockInv, RowsAuthored, Stored, CleanListed,
              FetchedOfRest, BlockedAuthorsStayOut
<1>4. CASE Learners  BY <1>4, LearnersKeepBlock
<1>5. CASE Startup  BY <1>5, StartupKeepsBlock
<1>6. CASE UNCHANGED rawVars
  BY <1>6 DEF rawVars, BlockInv, RowsAuthored, Stored, CleanListed, FetchedOfRest,
              BlockedAuthorsStayOut
<1> QED
  BY <1>1, <1>2, <1>3, <1>4, <1>5, <1>6 DEF RawNext, DuplicateKey, Crash

\* If updates name their authors, a model built with a user on the block list
\* knows nothing of that user: not by a recorder or an edit that asked the list
\* before, not by a deletion that failed, not after a crash.
THEOREM BlockedStayOut ==
    ASSUME ~PartialUpdates
    PROVE  RawSpec => []BlockedAuthorsStayOut
<1>1. RawInit => BlockInv
  BY DEF RawInit, EmptyModel, BlockInv, RowsAuthored, Stored, CleanListed,
         FetchedOfRest, BlockedAuthorsStayOut
<1>2. RawInv /\ BlockInv /\ [RawNext]_rawVars => BlockInv'  BY BlockStep
<1>3. BlockInv => BlockedAuthorsStayOut  BY DEF BlockInv
<1> QED  BY <1>1, <1>2, <1>3, RawInvariance, PTL DEF RawSpec

-----------------------------------------------------------------------------
(* The model follows the store: what it knows, or is about to learn, is what *)
(* the table says, unless a request for a rebuild is on its way or was lost. *)

Says(k)   == Stored(k.message) /\ rows[k.message].text = k.text
Current   == (\A k \in m3.texts : Says(k)) /\ (\A f \in fetched : Says(f))
Requested == lost \/ rebuild = "waiting" \/ \E t \in Tasks : pc[t] = "notify"

CurrentOrRequested == Current \/ Requested

LEMMA SelectedSays ==
    ASSUME NEW last, NEW f \in Selected(last)
    PROVE  f.message \in Messages /\ Says(f)
<1>1. PICK m \in LearningMessages :
         /\ Stored(m)
         /\ f = [message |-> m, text |-> rows[m].text, id |-> rows[m].id]
  BY DEF Selected
<1> QED  BY <1>1, RawConstants DEF Says

\* A handler either reports what it did to the rows, or did nothing to the
\* texts they hold.
LEMMA HandleReports ==
    ASSUME RawInv, NEW t \in Tasks, Handle(t), ~Notify(t)
    PROVE  \/ pc'[t] = "notify"
           \/ \A m \in Messages : Stored(m) => /\ rows'[m] # None
                                               /\ rows'[m].text = rows[m].text
<1> DEFINE m == ev[t].message
<1>a. Busy(pc[t]) => Serves(pc[t], ev[t])  BY DEF RawInv, HandlersServe
<1>b. rows \in [Messages -> Row \cup {None}] /\ pc \in [Tasks -> Steps]
  BY DEF RawInv, RawTypeOK
<1>1. CASE rows' = rows  BY <1>1 DEF Stored
<1>2. CASE Sync(t) \/ SyncInsert(t) \/ PurgeAuthor(t) \/ Purge(t)
  <2>1. pc'[t] = "notify" \/ rows' = rows
    <3>1. CASE Sync(t)  BY <1>b, <3>1 DEF Sync, DrawId, Goto
    <3>2. CASE SyncInsert(t)  BY <1>b, <3>2 DEF SyncInsert, Inserted, Goto
    <3>3. CASE PurgeAuthor(t)  BY <1>b, <3>3 DEF PurgeAuthor, Goto
    <3>4. CASE Purge(t)
      <4>1. m \in Messages  BY <1>a, <3>4 DEF Purge, Busy, Serves, Proper, Event
      <4>2. CASE Stored(m)  BY <1>b, <3>4, <4>2 DEF Purge, Goto
      <4>3. CASE ~Stored(m)  BY <1>b, <3>4, <4>1, <4>3 DEF Purge, Without, Stored
      <4> QED  BY <4>2, <4>3
    <3> QED  BY <1>2, <3>1, <3>2, <3>3, <3>4
  <2> QED  BY <2>1, <1>1
<1>3. CASE Insert(t)
  <2>1. ~Stored(m) /\ \A n \in Messages : n # m => rows'[n] = rows[n]
    BY <1>3, <1>b DEF Insert, Inserted
  <2> QED  BY <2>1 DEF Stored
<1>4. CASE Record(t) /\ rows' # rows
  <2>1. /\ Stored(m) /\ m \in Messages
        /\ rows' = [rows EXCEPT ![m].author = IF @ = None THEN ev[t].user ELSE @]
    BY <1>a, <1>4 DEF Record, DrawId, Busy, Serves, Recording, Proper, Event
  <2>2. rows[m] \in Row  BY <1>b, <2>1 DEF Stored
  <2> QED
    <3>1. Serves(pc[t], ev[t]) /\ pc[t] = "record"
      BY <1>a, <1>4 DEF Record, Busy
    <3>2. ev[t].user \in Users \cup {None}  BY <3>1 DEF Serves, Proper, Event
    <3>3. rows'[m] \in Row /\ rows'[m].text = rows[m].text
      BY <1>b, <2>1, <2>2, <3>2 DEF Row
    <3>4. rows'[m] # None  BY <3>3, NoneIsNoStoredRow
    <3> QED  BY <1>b, <2>1, <3>3, <3>4 DEF Stored
<1> QED
  BY <1>1, <1>2, <1>3, <1>4
  DEF Handle, Process, Unfinished, PreBadWords, RecordCheck, SyncCheck, Block, Unblock, dbVars

LEMMA HandleKeepsCurrent ==
    ASSUME RawInv, CurrentOrRequested, NEW t \in Tasks, Handle(t)
    PROVE  CurrentOrRequested'
<1>b. /\ rows \in [Messages -> Row \cup {None}] /\ pc \in [Tasks -> Steps]
      /\ \A k \in m3.texts : k.message \in Messages
      /\ \A f \in fetched : f.message \in Messages
  BY DEF RawInv, RawTypeOK, Learned, Fetched
<1>1. CASE Notify(t)
  <2>1. rebuild \in {"idle", "waiting", "learning", "finishing"}
    BY DEF RawInv, RawTypeOK
  <2>2. rebuild' = "waiting" \/ rebuild \in {"learning", "finishing"}
    BY <1>1, <2>1 DEF Notify
  <2>3. rebuild \in {"learning", "finishing"} => lost'  BY <1>1 DEF Notify
  <2> QED  BY <2>2, <2>3 DEF CurrentOrRequested, Requested
<1>2. CASE ~Notify(t)
  <2>1. /\ m3' = m3 /\ fetched' = fetched /\ lost' = lost /\ rebuild' = rebuild
        /\ pc[t] # "notify" /\ \A u \in Tasks : u # t => pc'[u] = pc[u]
    BY <1>2, <1>b
    DEF Handle, Process, Unfinished, PreBadWords, RecordCheck, Record, Insert, SyncCheck, Sync, SyncInsert, Inserted,
        Purge, Block, PurgeAuthor, Unblock, Elsewhere, modelVars, Goto
  <2>2. CASE Requested  BY <2>1, <2>2 DEF Requested, CurrentOrRequested
  <2>3. CASE pc'[t] = "notify"  BY <2>3 DEF Requested, CurrentOrRequested
  <2>4. CASE Current /\ \A m \in Messages :
                           Stored(m) => rows'[m] # None /\ rows'[m].text = rows[m].text
    <3>1. ASSUME NEW k, k.message \in Messages, Says(k) PROVE Says(k)'
      BY <2>4, <3>1 DEF Says, Stored
    <3> QED  BY <1>b, <2>1, <2>4, <3>1 DEF Current, CurrentOrRequested
  <2> QED
    BY <1>2, <2>2, <2>3, <2>4, HandleReports DEF CurrentOrRequested
<1> QED  BY <1>1, <1>2

LEMMA LearnersKeepCurrent ==
    ASSUME RawInv, CurrentOrRequested, Learners
    PROVE  CurrentOrRequested'
<1>b. /\ m3 \in [texts : SUBSET Learned, last : Nat] /\ fetched \subseteq Fetched
      /\ rows' = rows /\ pc' = pc
  BY DEF RawInv, RawTypeOK, Learners, LearnQuery, LearnRows, RebuildQuery, RebuildRows,
         RebuildDone, dbVars, taskVars
<1>1. ASSUME NEW k, Says(k) PROVE Says(k)'  BY <1>b, <1>1 DEF Says, Stored
<1>2. CASE RebuildQuery
  BY <1>1, <1>2, SelectedSays DEF RebuildQuery, EmptyModel, CurrentOrRequested, Current
<1>3. CASE Requested /\ ~RebuildQuery
  BY <1>3, <1>b
  DEF Learners, LearnQuery, LearnRows, RebuildRows, RebuildDone, Requested,
      CurrentOrRequested
<1>4. CASE Current /\ LearnQuery
  BY <1>1, <1>4, SelectedSays DEF LearnQuery, CurrentOrRequested, Current
<1>5. CASE Current /\ (LearnRows \/ RebuildRows)
  <2>1. m3' \in LearnedFrom(m3, fetched) /\ fetched' = {}
    BY <1>5 DEF LearnRows, RebuildRows
  <2>2. \A k \in m3'.texts : k \in m3.texts \/
           \E f \in fetched : k = [message |-> f.message, text |-> f.text]
    BY <2>1 DEF LearnedFrom
  <2>3. ASSUME NEW k \in m3'.texts PROVE Says(k)
    BY <1>5, <2>2 DEF Current, Says
  <2> QED  BY <1>1, <2>1, <2>3 DEF CurrentOrRequested, Current
<1>6. CASE Current /\ RebuildDone
  BY <1>1, <1>6 DEF RebuildDone, CurrentOrRequested, Current
<1> QED
  BY <1>2, <1>3, <1>4, <1>5, <1>6 DEF CurrentOrRequested, Learners

LEMMA StartupKeepsCurrent ==
    ASSUME RawInv, Startup
    PROVE  CurrentOrRequested'
<1>1. ASSUME NEW k, Says(k) PROVE Says(k)'  BY <1>1 DEF Says, Stored, Startup, dbVars
<1>2. \A k \in m3'.texts :
         \E f \in Selected(0) : k = [message |-> f.message, text |-> f.text]
  BY DEF Startup, LearnedFrom, EmptyModel
<1>3. \A k \in m3'.texts : Says(k)  BY <1>2, SelectedSays DEF Says
<1>4. fetched' = {}  BY DEF Startup, RawInv, DownIsEmpty
<1> QED  BY <1>1, <1>3, <1>4 DEF CurrentOrRequested, Current

LEMMA CurrentStep == RawInv /\ CurrentOrRequested /\ [RawNext]_rawVars => CurrentOrRequested'
<1> SUFFICES ASSUME RawInv, CurrentOrRequested, [RawNext]_rawVars
             PROVE  CurrentOrRequested'
  OBVIOUS
<1>1. ASSUME NEW t \in Tasks, Receive(t) PROVE CurrentOrRequested'
  <2>1. /\ UNCHANGED <<rows, m3, fetched, lost, rebuild>>
        /\ \A u \in Tasks : pc[u] = "notify" => pc'[u] = "notify"
    BY <1>1 DEF Receive, dbVars, modelVars, RawInv, RawTypeOK
  <2> QED  BY <2>1 DEF CurrentOrRequested, Current, Requested, Says, Stored
<1>2. CASE \E t \in Tasks : Handle(t)  BY <1>2, HandleKeepsCurrent
<1>3. CASE Down  BY <1>3 DEF Down, EmptyModel, CurrentOrRequested, Current
<1>4. CASE Learners  BY <1>4, LearnersKeepCurrent
<1>5. CASE Startup  BY <1>5, StartupKeepsCurrent
<1>6. CASE UNCHANGED rawVars
  BY <1>6 DEF rawVars, CurrentOrRequested, Current, Requested, Says, Stored
<1> QED
  BY <1>1, <1>2, <1>3, <1>4, <1>5, <1>6 DEF RawNext, DuplicateKey, Crash

\* Once things settle the model knows only texts the table holds, unless a
\* request for a rebuild was dropped: no handler changes a text without asking
\* for a rebuild afterwards, and no learner overlooks a request it came before.
THEOREM ModelFollows == RawSpec => []ModelFollowsStore
<1>1. RawInit => CurrentOrRequested
  BY DEF RawInit, EmptyModel, CurrentOrRequested, Current
<1>2. RawInv /\ CurrentOrRequested /\ [RawNext]_rawVars => CurrentOrRequested'
  BY CurrentStep
<1>3. CurrentOrRequested => ModelFollowsStore
  BY DEF CurrentOrRequested, Current, Requested, Says, ModelFollowsStore, Settled,
         OnlyStoredTextsKnown
<1> QED  BY <1>1, <1>2, <1>3, RawInvariance, PTL DEF RawSpec

-----------------------------------------------------------------------------
(* Events handled in turn.  Nobody blocks the author of such a message, so    *)
(* that its row is stored and deleted by its own events only, and the one    *)
(* handler that has an event of it leaves what the event says.               *)

Handles(t, m) == ev[t] # None /\ ev[t].message = m

\* A row's author and an event's are the message's, or not named.
AuthorsInv ==
    /\ \A m \in Messages : Stored(m) => rows[m].author \in {AuthorOf[m], None}
    /\ \A t \in Tasks : ev[t] # None =>
         /\ Busy(pc[t])
         /\ ev[t].kind \in {"create", "update"} => ev[t].user \in {AuthorOf[ev[t].message], None}

\* Nobody blocks, or has blocked, the author of a message that is handled in turn.
UnblockedInv ==
    \A m \in orderly :
        /\ AuthorOf[m] \notin blocked
        /\ \A t \in Tasks : ev[t] # None /\ ev[t].kind \in {"block", "unblock"} =>
                                ev[t].user # AuthorOf[m]

UnsentInv ==
    \A m \in Messages : life[m] = "unsent" =>
        expected[m] = None /\ \A t \in Tasks : ~Handles(t, m)

\* The table says of a message what its last event says.
LastSaid(m) == IF expected[m] = None THEN ~Stored(m)
           ELSE Stored(m) /\ rows[m].text = expected[m]

\* What comes after the group's Process(): a bad word goes no further.
Checked == {"recordCheck", "record", "insert"}

StepsOf(e) ==
    IF e.kind = "create" THEN InGroup \cup Checked
    ELSE IF e.text = None THEN {"purge", "notify"}
    ELSE {"syncCheck", "sync", "syncInsert", "notify", "record"} \cup InGroup

\* How far a handler has brought the row: nothing is stored before an insert, and
\* what the event says is stored, or deleted, from its notification on.
Reached(e, step) ==
    /\ expected[e.message] = Leaves(e) /\ step \in StepsOf(e)
    /\ e.kind = "create" \/ step = "syncInsert" => ~Stored(e.message)
    /\ e.kind = "create" /\ step \in Checked => e.text \notin BadTexts
    /\ e.kind # "create" /\ step \in {"notify", "record"} \cup InGroup => LastSaid(e.message)

Turn(m) ==
    /\ \A t, u \in Tasks : Handles(t, m) /\ Handles(u, m) => t = u
    /\ (\A t \in Tasks : ~Handles(t, m)) => LastSaid(m)
    /\ \A t \in Tasks : Handles(t, m) => Reached(ev[t], pc[t])

TurnInv ==
    /\ AuthorsInv /\ UnblockedInv /\ UnsentInv
    /\ \A m \in orderly \cap LearningMessages : Turn(m)

-----------------------------------------------------------------------------
\* What one handler does to the rest of the tables and of the events.
LEMMA HandlerMoves ==
    ASSUME RawInv, AuthorsInv, NEW t \in Tasks, Handle(t), ~Process(t)
    PROVE  /\ \E step \in Steps \ {"new"} : Goto(t, step)
           /\ ev[t] # None /\ Serves(pc[t], ev[t])
           /\ UNCHANGED <<life, expected>> /\ orderly' \subseteq orderly
<1>1. Busy(pc[t]) /\ Serves(pc[t], ev[t])
  <2>1. Busy(pc[t])
    BY DEF Handle, Unfinished, PreBadWords, RecordCheck, Record, Insert, SyncCheck, Sync,
           SyncInsert, Purge, Block, PurgeAuthor, Unblock, Notify, Busy
  <2> QED  BY <2>1 DEF RawInv, HandlersServe
<1>2. ev[t] \in Event  BY <1>1 DEF Serves, Proper
<1>3. ev[t] # None
  <2>1. Busy(pc[t]) /\ ev \in [Tasks -> Event \cup {None}]  BY <1>1 DEF RawInv, RawTypeOK
  <2> QED  BY <1>2, NoneIsNoEvent
<1>4. UNCHANGED <<life, expected>> /\ orderly' \subseteq orderly
  BY DEF Handle, Unfinished, PreBadWords, RecordCheck, Record, Insert, SyncCheck, Sync,
         SyncInsert, Inserted, Purge, Block, PurgeAuthor, Unblock, Notify, Elsewhere,
         discordVars
<1>5. After(ev[t]) \in Steps \ {"new"}  BY DEF After, Steps
<1>6. \E step \in Steps \ {"new"} : Goto(t, step)
  BY <1>5 DEF Handle, Unfinished, PreBadWords, RecordCheck, Record, Insert, SyncCheck, Sync,
         SyncInsert, Inserted, Purge, Block, PurgeAuthor, Unblock, Notify, Steps
<1> QED  BY <1>1, <1>3, <1>4, <1>6

\* A handler over, or at another step of an event it still has.
LEMMA GotoMoves ==
    ASSUME RawInv, NEW t \in Tasks, NEW step, Goto(t, step)
    PROVE  /\ pc'[t] = step /\ \A u \in Tasks \ {t} : ev'[u] = ev[u] /\ pc'[u] = pc[u]
           /\ ev'[t] = IF step = "done" THEN None ELSE ev[t]
BY DEF RawInv, RawTypeOK, Goto

\* A message none of whose events the handler has, and whose row it leaves alone.
LEMMA TurnAway ==
    ASSUME NEW m, Turn(m), expected'[m] = expected[m], rows'[m] = rows[m],
           NEW t \in Tasks, ~Handles(t, m), ~Handles(t, m)',
           \A u \in Tasks \ {t} : ev'[u] = ev[u] /\ pc'[u] = pc[u]
    PROVE  Turn(m)'
<1>1. \A u \in Tasks : Handles(u, m)' <=> Handles(u, m)  BY DEF Handles
<1>2. LastSaid(m)' <=> LastSaid(m)  BY DEF LastSaid, Stored
<1>3. \A e, step : e.message = m => (Reached(e, step)' <=> Reached(e, step))
  BY <1>2 DEF Reached, Stored, LastSaid
<1>4. ASSUME NEW u \in Tasks, Handles(u, m)'  PROVE Reached(ev[u], pc[u])'
  <2>1. Handles(u, m) /\ u # t /\ ev'[u] = ev[u] /\ pc'[u] = pc[u] /\ ev[u].message = m
    BY <1>1, <1>4 DEF Handles
  <2>2. Reached(ev[u], pc[u])  BY <2>1 DEF Turn
  <2>3. \A e, step : e = ev[u] /\ step = pc[u] => Reached(e, step)'  BY <1>3, <2>1, <2>2
  <2> QED  BY <2>1, <2>3 DEF Reached, Stored, LastSaid
<1> QED  BY <1>1, <1>2, <1>4 DEF Turn

\* The message whose event the handler has.
LEMMA TurnOwn ==
    ASSUME RawInv, NEW m, Turn(m), NEW t \in Tasks, NEW e, e = ev[t], Handles(t, m),
           expected'[m] = expected[m], NEW step, Goto(t, step), ev[t] # None,
           step = "done" => LastSaid(m)', step # "done" => Reached(e, step)'
    PROVE  Turn(m)'
<1>1. /\ pc'[t] = step /\ \A u \in Tasks \ {t} : ev'[u] = ev[u] /\ pc'[u] = pc[u]
      /\ ev'[t] = IF step = "done" THEN None ELSE ev[t]
  BY GotoMoves
<1>2. \A u \in Tasks \ {t} : ~Handles(u, m) /\ ~Handles(u, m)'
  BY <1>1 DEF Turn, Handles
<1>3. Handles(t, m)' <=> step # "done"  BY <1>1 DEF Handles
<1>4. Handles(t, m)' => Reached(ev[t], pc[t])'
  <2>1. step # "done" => ev'[t] = e /\ pc'[t] = step  BY <1>1
  <2> QED  BY <1>3, <2>1 DEF Reached, Stored, LastSaid
<1> QED  BY <1>2, <1>3, <1>4 DEF Turn

\* A handler stores and deletes the row of its message, and no other but those of an
\* author it blocks.
LEMMA HandlerRows ==
    ASSUME RawInv, AuthorsInv, UnblockedInv, NEW t \in Tasks, Handle(t), ~Process(t),
           NEW m \in orderly, ~Handles(t, m)
    PROVE  rows'[m] = rows[m]
<1>1. ev[t] # None /\ Serves(pc[t], ev[t])  BY HandlerMoves
<1>2. ev[t].message # m  BY <1>1 DEF Handles
<1>3. rows \in [Messages -> Row \cup {None}] /\ m \in Messages
  BY DEF RawInv, RawTypeOK
<1>4. CASE rows' = rows  BY <1>4
<1>5. CASE Insert(t) \/ SyncInsert(t) \/ Record(t) \/ Sync(t) \/ Purge(t)
  BY <1>2, <1>3, <1>5
     DEF Insert, SyncInsert, Inserted, Record, Sync, DrawId, Purge, Without
<1>6. CASE PurgeAuthor(t)
  <2>1. ev[t].kind \in {"block", "unblock"} /\ ev[t].user # None
    BY <1>1, <1>6 DEF PurgeAuthor, Serves, Proper
  <2>2. ev[t].user # AuthorOf[m]  BY <1>1, <2>1 DEF UnblockedInv
  <2>3. m \notin WrittenBy(ev[t].user)
    BY <1>3, <2>1, <2>2 DEF WrittenBy, AuthorsInv
  <2> QED  BY <1>3, <1>6, <2>3 DEF PurgeAuthor, Without
<1> QED
  BY <1>4, <1>5, <1>6
     DEF Handle, Unfinished, PreBadWords, RecordCheck, SyncCheck, Block, Unblock, Notify, dbVars

\* It asks whether an author is blocked that is not.
LEMMA NotBlocked ==
    ASSUME UnblockedInv, AuthorsInv, NEW t \in Tasks, ev[t] # None, RawInv,
           ev[t].kind \in {"create", "update"}, ev[t].message \in orderly,
           NEW isBlocked \in AnsweredBlocked(ev[t].user)
    PROVE  ~isBlocked
<1>1. ev[t].user \in {AuthorOf[ev[t].message], None}  BY DEF AuthorsInv
<1>2. ev[t].user \notin blocked
  <2>1. None \notin blocked  BY RawConstants DEF RawInv, RawTypeOK
  <2> QED  BY <1>1, <2>1 DEF UnblockedInv
<1> QED  BY <1>2 DEF AnsweredBlocked

\* A handler keeps the authors of rows and events.
LEMMA HandleNames ==
    ASSUME RawInv, AuthorsInv, NEW t \in Tasks, Handle(t), ~Process(t)
    PROVE  AuthorsInv'
<1> DEFINE m == ev[t].message
<1>1. PICK step \in Steps \ {"new"} : Goto(t, step)  BY HandlerMoves
<1>2. ev[t] # None /\ Serves(pc[t], ev[t])  BY HandlerMoves
<1>3. /\ pc'[t] = step /\ \A u \in Tasks \ {t} : ev'[u] = ev[u] /\ pc'[u] = pc[u]
      /\ ev'[t] = IF step = "done" THEN None ELSE ev[t]
  BY <1>1, GotoMoves
<1>4. ASSUME NEW u \in Tasks, ev'[u] # None
      PROVE  /\ Busy(pc'[u])
             /\ ev'[u].kind \in {"create", "update"} =>
                  ev'[u].user \in {AuthorOf[ev'[u].message], None}
  BY <1>1, <1>3, <1>4 DEF AuthorsInv, Busy
<1>5. rows \in [Messages -> Row \cup {None}]  BY DEF RawInv, RawTypeOK
<1>6. pc[t] \in Recording => /\ m \in Messages /\ ev[t].user \in {AuthorOf[m], None}
                             /\ ev[t].user \in Users \cup {None} /\ ev[t].text \in Texts
  BY <1>2 DEF Serves, Proper, Event, Recording, AuthorsInv
<1>7. ASSUME NEW n \in Messages, rows'[n] # None
      PROVE  rows'[n].author \in {AuthorOf[n], None}
  <2>1. CASE rows'[n] = rows[n]  BY <1>7, <2>1 DEF AuthorsInv, Stored
  <2>2. CASE Insert(t) \/ SyncInsert(t)
    <3>1. pc[t] \in Recording /\ rows' = [rows EXCEPT ![m] =
                     [id |-> drawn[t], author |-> ev[t].user, text |-> ev[t].text]]
      BY <2>2 DEF Insert, SyncInsert, Inserted, Recording
    <3>2. CASE n = m  BY <1>5, <1>6, <3>1, <3>2
    <3>3. CASE n # m  BY <1>5, <3>1, <3>3, <2>1
    <3> QED  BY <3>2, <3>3
  <2>3. CASE Record(t)
    <3>1. pc[t] \in Recording  BY <2>3 DEF Record, Recording
    <3>2. CASE rows' = rows  BY <2>1, <3>2
    <3>3. CASE /\ Stored(m)
               /\ rows' = [rows EXCEPT ![m].author = IF @ = None THEN ev[t].user ELSE @]
      <4>1. CASE n = m
        <5>1. rows[m] \in Row /\ rows[m].author \in {AuthorOf[m], None}
          BY <1>5, <1>6, <3>1, <3>3 DEF Stored, AuthorsInv
        <5> QED  BY <1>5, <1>6, <3>1, <3>3, <4>1, <5>1 DEF Row
      <4>2. CASE n # m  BY <1>5, <2>1, <3>3, <4>2
      <4> QED  BY <4>1, <4>2
    <3> QED  BY <2>3, <3>2, <3>3 DEF Record, DrawId
  <2>4. CASE Sync(t)
    <3>1. pc[t] \in Recording  BY <2>4 DEF Sync, Recording
    <3>2. CASE rows' = rows  BY <2>1, <3>2
    <3>3. CASE /\ Stored(m)
               /\ rows' = [rows EXCEPT ![m].text = ev[t].text,
                             ![m].author = IF ev[t].user = None THEN @ ELSE ev[t].user]
      <4>1. CASE n = m
        <5>1. rows[m] \in Row /\ rows[m].author \in {AuthorOf[m], None}
          BY <1>5, <1>6, <3>1, <3>3 DEF Stored, AuthorsInv
        <5>2. rows'[m].author = IF ev[t].user = None THEN rows[m].author ELSE ev[t].user
          BY <1>5, <1>6, <3>1, <3>3, <5>1 DEF Row
        <5> QED  BY <1>6, <3>1, <4>1, <5>1, <5>2
      <4>2. CASE n # m  BY <1>5, <2>1, <3>3, <4>2
      <4> QED  BY <4>1, <4>2
    <3> QED  BY <2>4, <3>2, <3>3 DEF Sync, DrawId
  <2>5. CASE \E ms : rows' = Without(ms)  BY <1>7, <2>1, <2>5 DEF Without
  <2>6. CASE rows' = rows  BY <2>1, <2>6
  <2> QED
    BY <2>2, <2>3, <2>4, <2>5, <2>6
       DEF Handle, Unfinished, PreBadWords, RecordCheck, SyncCheck, Block, Unblock, Notify,
           Purge, PurgeAuthor, dbVars
<1> QED  BY <1>4, <1>7 DEF AuthorsInv, Stored

\* What handlers do not change.
LEMMA HandleKeepsTurns ==
    ASSUME RawInv, AuthorsInv, UnblockedInv, UnsentInv, NEW t \in Tasks, Handle(t),
           ~Process(t)
    PROVE  UnblockedInv' /\ UnsentInv'
<1>1. PICK step \in Steps \ {"new"} : Goto(t, step)  BY HandlerMoves
<1>2. /\ ev[t] # None /\ Serves(pc[t], ev[t])
      /\ UNCHANGED <<life, expected>> /\ orderly' \subseteq orderly
  BY HandlerMoves
<1>3. \A u \in Tasks : ev'[u] # None => ev'[u] = ev[u]
  BY <1>1, GotoMoves
<1>4. blocked' \subseteq blocked \cup (IF ev[t].kind \in {"block", "unblock"} THEN {ev[t].user}
                                                                           ELSE {})
  BY <1>2 DEF Handle, Unfinished, PreBadWords, RecordCheck, Record, Insert, SyncCheck, Sync,
         SyncInsert, Inserted, DrawId, Purge, Block, PurgeAuthor, Unblock, Notify, dbVars, Serves
<1>5. UnblockedInv'
  <2>1. ASSUME NEW n \in orderly  PROVE AuthorOf[n] \notin blocked'
    BY <1>2, <1>4 DEF UnblockedInv
  <2> QED  BY <1>2, <1>3, <2>1 DEF UnblockedInv
<1>6. UnsentInv'  BY <1>2, <1>3 DEF UnsentInv, Handles
<1> QED  BY <1>5, <1>6

LEMMA HandleTurnOwn ==
    ASSUME RawInv, TurnInv, NEW t \in Tasks, Handle(t), ~Process(t),
           NEW m \in orderly' \cap LearningMessages, Handles(t, m)
    PROVE  Turn(m)'
<1>0. PICK e : e = ev[t]  OBVIOUS
<1> USE <1>0
<1>1. /\ e # None /\ Serves(pc[t], e)
      /\ UNCHANGED <<life, expected>> /\ orderly' \subseteq orderly
  BY HandlerMoves DEF TurnInv
<1>2. m \in orderly /\ m \in Messages /\ e.message = m /\ Turn(m)
  <2>1. m \in orderly /\ m \in LearningMessages  BY <1>1
  <2>2. m \in Messages  BY <2>1 DEF RawInv, RawTypeOK
  <2> QED  BY <2>1, <2>2 DEF Handles, TurnInv
<1>3. Reached(e, pc[t])  BY <1>2 DEF Turn
<1>4. rows \in [Messages -> Row \cup {None}]  BY DEF RawInv, RawTypeOK
<1>5. e \in Event /\ (pc[t] \in Recording => e.text \in Texts /\ e.text # None)
  BY <1>1 DEF Serves, Proper, Event, Recording
<1>6. ASSUME NEW step, Goto(t, step),
             step = "done" => LastSaid(m)', step # "done" => Reached(e, step)'
      PROVE  Turn(m)'
  BY <1>1, <1>2, <1>6, TurnOwn
<1>8. /\ expected[m] = Leaves(e)
      /\ e.kind # "create" \/ pc[t] \in Checked => expected[m] = e.text
  BY <1>2, <1>3 DEF Reached, Leaves
<1>7. ASSUME rows'[m] = rows[m], NEW f, f.message = m, NEW step
      PROVE  (LastSaid(m)' <=> LastSaid(m)) /\ (Reached(f, step)' <=> Reached(f, step))
  BY <1>1, <1>7 DEF LastSaid, Stored, Reached
<1>i. CASE Unfinished(t)  BY <1>2, <1>i DEF Unfinished
<1>j. CASE PreBadWords(t)
  <2>1. /\ e.kind \in {"create", "update"} /\ pc[t] = "preBadWords" /\ rows' = rows
        /\ e.kind # "create" => LastSaid(m)
        /\ e.kind = "create" => ~Stored(m)
    BY <1>1, <1>2, <1>3, <1>j DEF PreBadWords, Serves, Recording, Reached, InGroup, Given, dbVars
  <2>2. CASE e.text \in BadTexts
    <3>1. Goto(t, "done")  BY <1>j, <2>2 DEF PreBadWords
    <3>2. LastSaid(m)
      <4>1. e.kind = "create" => expected[m] = None  BY <1>8, <2>2 DEF Leaves
      <4> QED  BY <2>1, <4>1 DEF LastSaid
    <3> QED  BY <1>2, <1>6, <1>7, <2>1, <3>1, <3>2
  <2>3. CASE e.text \notin BadTexts
    <3>1. Goto(t, "recordCheck")  BY <1>j, <2>3 DEF PreBadWords
    <3>2. "recordCheck" \in StepsOf(e)
      BY <1>3, <2>1 DEF Reached, StepsOf, InGroup, Given
    <3>3. Reached(e, "recordCheck")
      BY <1>2, <1>8, <2>1, <2>3, <3>2 DEF Reached
    <3> QED  BY <1>2, <1>6, <1>7, <2>1, <3>1, <3>3
  <2> QED  BY <2>2, <2>3
<1>a. CASE RecordCheck(t)
  <2>1. e.kind \in {"create", "update"} /\ pc[t] = "recordCheck"
    BY <1>1, <1>a DEF RecordCheck, Serves, Recording
  <2>2. Goto(t, "record") /\ rows' = rows
    <3>1. \A isBlocked \in AnsweredBlocked(e.user) : ~isBlocked
      BY <1>1, <1>2, <2>1, NotBlocked DEF TurnInv
    <3> QED  BY <1>2, <1>a, <3>1 DEF RecordCheck, dbVars
  <2>3. Reached(e, "record")
    BY <1>2, <1>3, <2>1 DEF Reached, StepsOf, Checked, InGroup, Given
  <2> QED  BY <1>2, <1>6, <1>7, <2>2, <2>3
<1>b. CASE Record(t)
  <2>1. pc[t] = "record" /\ e.kind \in {"create", "update"} /\ e.text \in Texts /\ e.text # None
    BY <1>1, <1>5, <1>b DEF Record, Serves, Recording
  <2>2. CASE DrawId(t) /\ Goto(t, "insert")
    <3>1. rows' = rows /\ ~Stored(m)  BY <1>2, <2>2 DEF DrawId
    <3>2. e.kind = "create"  BY <1>2, <1>3, <1>8, <2>1, <3>1 DEF Reached, LastSaid
    <3>3. Reached(e, "insert")
      BY <1>2, <1>3, <2>1, <3>1, <3>2 DEF Reached, StepsOf, Checked
    <3> QED  BY <1>2, <1>6, <1>7, <2>2, <3>1, <3>3
  <2>3. CASE /\ Stored(m)
             /\ rows' = [rows EXCEPT ![m].author = IF @ = None THEN e.user ELSE @]
             /\ Goto(t, "done")
    <3>1. e.kind # "create"  BY <1>2, <1>3, <2>3 DEF Reached
    <3>2. rows[m].text = e.text /\ expected[m] = e.text
      BY <1>2, <1>3, <1>8, <2>1, <3>1 DEF Reached, LastSaid
    <3>3. rows[m] \in Row  BY <1>2, <1>4, <2>3 DEF Stored
    <3>4. rows'[m].text = rows[m].text  BY <1>2, <1>4, <2>3, <3>3 DEF Row
    <3>5. rows'[m] # None
      <4>1. e.user \in Users \cup {None}  BY <1>5 DEF Event
      <4>2. rows'[m] \in Row  BY <1>2, <1>4, <2>3, <3>3, <4>1 DEF Row
      <4> QED  BY <4>2, NoneIsNoStoredRow
    <3>6. LastSaid(m)'  BY <1>1, <2>1, <3>2, <3>4, <3>5 DEF LastSaid, Stored
    <3> QED  BY <1>6, <2>3, <3>6
  <2> QED  BY <1>2, <1>b, <2>2, <2>3 DEF Record
<1>c. CASE Insert(t) \/ SyncInsert(t)
  <2>1. pc[t] \in {"insert", "syncInsert"} /\ e.text \in Texts /\ e.text # None
    BY <1>5, <1>c DEF Insert, SyncInsert, Recording
  <2>2. rows'[m] = [id |-> drawn[t], author |-> e.user, text |-> e.text]
    BY <1>2, <1>4, <1>c DEF Insert, SyncInsert, Inserted
  <2>3. rows'[m] # None /\ rows'[m].text = e.text
    <3>1. e.user \in Users \cup {None} /\ drawn[t] \in Nat
      BY <1>5 DEF Event, RawInv, RawTypeOK
    <3>2. rows'[m] \in Row  BY <2>1, <2>2, <3>1 DEF Row
    <3> QED  BY <2>2, <3>2, NoneIsNoStoredRow
  <2>4. LastSaid(m)'
    <3>1. expected[m] = e.text
      <4>1. pc[t] = "syncInsert" => e.kind # "create"  BY <1>1 DEF Serves
      <4> QED  BY <1>8, <2>1, <4>1 DEF Checked
    <3> QED  BY <1>1, <2>1, <2>3, <3>1 DEF LastSaid, Stored
  <2>5. CASE Insert(t)  BY <1>6, <2>4, <2>5 DEF Insert, Inserted
  <2>6. CASE SyncInsert(t)
    <3>1. e.kind = "update" /\ Goto(t, "notify")
      BY <1>1, <2>6 DEF SyncInsert, Inserted, Serves
    <3>2. Reached(e, "notify")'
      BY <1>1, <1>2, <1>3, <2>1, <2>4, <3>1 DEF Reached, StepsOf
    <3> QED  BY <1>6, <3>1, <3>2
  <2> QED  BY <1>c, <2>5, <2>6
<1>d. CASE SyncCheck(t)
  <2>1. e.kind = "update" /\ pc[t] = "syncCheck" /\ e.text # None
    BY <1>1, <1>d DEF SyncCheck, Serves, Recording
  <2>2. Goto(t, "sync") /\ rows' = rows
    <3>1. \A isBlocked \in AnsweredBlocked(e.user) : ~isBlocked
      BY <1>1, <1>2, <2>1, NotBlocked DEF TurnInv
    <3> QED  BY <1>2, <1>d, <3>1 DEF SyncCheck, dbVars
  <2>3. Reached(e, "sync")
    BY <1>2, <1>3, <2>1 DEF Reached, StepsOf, Checked, InGroup, Given
  <2> QED  BY <1>2, <1>6, <1>7, <2>2, <2>3
<1>e. CASE Sync(t)
  <2>1. pc[t] = "sync" /\ e.kind = "update" /\ e.text \in Texts /\ e.text # None
    BY <1>1, <1>5, <1>e DEF Sync, Serves, Recording
  <2>2. CASE DrawId(t) /\ Goto(t, "syncInsert")
    <3>1. rows' = rows /\ ~Stored(m)  BY <1>2, <2>2 DEF DrawId
    <3>2. Reached(e, "syncInsert")
      BY <1>2, <1>3, <2>1, <3>1 DEF Reached, StepsOf, Checked, InGroup, Given
    <3> QED  BY <1>2, <1>6, <1>7, <2>2, <3>1, <3>2
  <2>3. CASE /\ Stored(m)
             /\ rows' = [rows EXCEPT ![m].text = e.text,
                                     ![m].author = IF e.user = None THEN @ ELSE e.user]
             /\ Goto(t, "notify")
    <3>1. rows[m] \in Row  BY <1>2, <1>4, <2>3 DEF Stored
    <3>2. rows'[m] = [rows[m] EXCEPT !.text = e.text,
                                     !.author = IF e.user = None THEN @ ELSE e.user]
      BY <1>2, <1>4, <2>3, <3>1 DEF Row
    <3>3. rows'[m] \in Row /\ rows'[m].text = e.text
      <4>1. e.user \in Users \cup {None}  BY <1>5 DEF Event
      <4> QED  BY <2>1, <3>1, <3>2, <4>1 DEF Row
    <3>4. LastSaid(m)'
      BY <1>1, <1>8, <2>1, <3>3, NoneIsNoStoredRow DEF LastSaid, Stored
    <3>5. Reached(e, "notify")'
      BY <1>1, <1>2, <1>3, <2>1, <3>4 DEF Reached, StepsOf
    <3> QED  BY <1>6, <2>3, <3>5
  <2> QED  BY <1>2, <1>e, <2>2, <2>3 DEF Sync
<1>f. CASE Purge(t)
  <2>1. pc[t] = "purge" /\ e.kind \in {"update", "delete"} /\ e.text = None
    BY <1>1, <1>3, <1>f DEF Purge, Serves, Reached, StepsOf, InGroup, Given, Checked
  <2>2. ~Stored(m)' /\ LastSaid(m)'
    BY <1>1, <1>2, <1>8, <1>f, <2>1 DEF Purge, Without, Stored, LastSaid
  <2>3. After(e) = "done"  BY <2>1 DEF After
  <2>4. Goto(t, "notify") \/ Goto(t, "done")  BY <1>f, <2>3 DEF Purge
  <2>5. Reached(e, "notify")'
    BY <1>1, <1>2, <1>3, <2>1, <2>2 DEF Reached, StepsOf
  <2> QED  BY <1>6, <2>2, <2>4, <2>5
<1>g. CASE Notify(t)
  <2>1. pc[t] = "notify" /\ e.kind # "create" /\ Goto(t, After(e)) /\ rows' = rows
    BY <1>3, <1>g DEF Notify, Reached, StepsOf, dbVars, InGroup, Given, Checked
  <2>2. LastSaid(m)  BY <1>2, <1>3, <2>1 DEF Reached
  <2>3. After(e) = "done" \/ (After(e) = "process" /\ e.text # None)  BY DEF After
  <2>4. After(e) # "done" => Reached(e, After(e))
    BY <1>2, <1>3, <2>1, <2>2, <2>3 DEF Reached, StepsOf, InGroup
  <2> QED  BY <1>2, <1>6, <1>7, <2>1, <2>2, <2>4
<1>h. CASE Block(t) \/ PurgeAuthor(t) \/ Unblock(t)
  <2>1. pc[t] \in {"block", "purgeAuthor", "unblock"}  BY <1>h DEF Block, PurgeAuthor, Unblock
  <2> QED  BY <1>3, <2>1 DEF Reached, StepsOf, InGroup, Given, Checked
<1> QED  BY <1>a, <1>b, <1>c, <1>d, <1>e, <1>f, <1>g, <1>h, <1>i, <1>j DEF Handle

\* A message that goes through the group alone stays its handler's; those that met are
\* out of turn, and nobody is given or loses any other.
LEMMA ProcessKeepsTurn ==
    ASSUME RawInv, TurnInv, NEW t \in Tasks, Process(t)
    PROVE  TurnInv'
<1>0. PICK e : e = ev[t]  OBVIOUS
<1>1. PICK misled \in SUBSET OthersAt(t, Given) :
         ev' = [u \in Tasks |-> IF u \in misled THEN ev[t] ELSE ev[u]]
  BY DEF Process
<1>2. /\ pc[t] = "process" /\ pc' = [pc EXCEPT ![t] = "preBadWords"]
      /\ orderly' = IF OthersAt(t, Given) = {} THEN orderly
                    ELSE orderly \ {ev[u].message : u \in OthersAt(t, Given) \cup {t}}
      /\ orderly' \subseteq orderly
      /\ UNCHANGED <<rows, blocked, life, expected>>
  BY DEF Process, dbVars
<1>3. /\ ev \in [Tasks -> Event \cup {None}] /\ pc \in [Tasks -> Steps]
      /\ orderly \subseteq Messages
  BY DEF RawInv, RawTypeOK
<1>4. /\ Proper(e) /\ e \in Event /\ e # None /\ e.kind \in {"create", "update"}
  <2>1. Serves(pc[t], e)  BY <1>0, <1>2 DEF RawInv, HandlersServe, Busy
  <2> QED  BY <1>2, <2>1, NoneIsNoEvent DEF Serves, Proper, Recording
<1>5. ev'[t] = e /\ pc'[t] = "preBadWords"
      /\ \A u \in Tasks \ {t} : pc'[u] = pc[u] /\ ev'[u] \in {ev[u], e}
  BY <1>0, <1>1, <1>2, <1>3 DEF OthersAt
<1>6. \A u \in misled : u \in Tasks /\ pc[u] \in Given /\ u # t  BY DEF OthersAt
<1>7. \A u \in Tasks \ misled : ev'[u] = ev[u]  BY <1>1
<1>a. AuthorsInv'
  <2>1. ASSUME NEW u \in Tasks, ev'[u] # None
        PROVE  /\ Busy(pc'[u])
               /\ ev'[u].kind \in {"create", "update"} =>
                    ev'[u].user \in {AuthorOf[ev'[u].message], None}
    <3>1. e.user \in {AuthorOf[e.message], None}  BY <1>0, <1>4 DEF TurnInv, AuthorsInv
    <3>2. CASE u = t  BY <1>5, <3>1, <3>2 DEF Busy
    <3>3. CASE u # t /\ u \in misled
      <4>1. ev'[u] = e /\ pc'[u] \in Given  BY <1>0, <1>1, <1>5, <1>6, <3>3
      <4> QED  BY <3>1, <4>1 DEF Busy, Given
    <3>4. CASE u # t /\ u \notin misled
      BY <1>5, <1>7, <2>1, <3>4 DEF TurnInv, AuthorsInv
    <3> QED  BY <3>2, <3>3, <3>4
  <2>2. \A m \in Messages : Stored(m)' => rows'[m].author \in {AuthorOf[m], None}
    BY <1>2 DEF TurnInv, AuthorsInv, Stored
  <2> QED  BY <2>1, <2>2 DEF AuthorsInv
<1>b. UnblockedInv'
  <2>1. ASSUME NEW m \in orderly', NEW u \in Tasks, ev'[u] # None,
               ev'[u].kind \in {"block", "unblock"}
        PROVE  ev'[u].user # AuthorOf[m]
    <3>1. ev'[u] = ev[u]  BY <1>4, <1>5, <2>1
    <3> QED  BY <1>2, <2>1, <3>1 DEF TurnInv, UnblockedInv
  <2> QED  BY <1>2, <2>1 DEF TurnInv, UnblockedInv
<1>c. UnsentInv'
  <2>1. SUFFICES ASSUME NEW m \in Messages, life[m] = "unsent"
                 PROVE  expected[m] = None /\ \A u \in Tasks : ~Handles(u, m)'
    BY <1>2 DEF UnsentInv
  <2>2. expected[m] = None /\ \A u \in Tasks : ~Handles(u, m)
    BY <2>1 DEF TurnInv, UnsentInv
  <2>3. e.message # m  BY <1>0, <1>4, <2>2 DEF Handles
  <2> QED  BY <1>5, <2>2, <2>3 DEF Handles
<1>d. ASSUME NEW m \in orderly' \cap LearningMessages  PROVE Turn(m)'
  <2>1. m \in orderly /\ Turn(m)  BY <1>2 DEF TurnInv
  <2>2. CASE e.message = m
    <3>1. OthersAt(t, Given) = {}  BY <1>0, <1>2, <2>2
    <3>2. \A u \in Tasks : ev'[u] = ev[u]  BY <1>7, <3>1
    <3>3. Handles(t, m) /\ Reached(e, "process")
      BY <1>0, <1>2, <1>4, <2>1, <2>2 DEF Handles, Turn
    <3>4. Reached(e, "preBadWords")
      BY <3>3 DEF Reached, StepsOf, InGroup, Given, Checked
    <3>5. Reached(ev[t], pc[t])'
      BY <1>2, <1>5, <3>4 DEF Reached, Stored, LastSaid
    <3>6. \A u \in Tasks \ {t} : ~Handles(u, m) /\ ~Handles(u, m)'
      BY <2>1, <3>2, <3>3 DEF Turn, Handles
    <3>7. Handles(t, m)'  BY <3>2, <3>3 DEF Handles
    <3> QED  BY <3>5, <3>6, <3>7 DEF Turn
  <2>3. CASE e.message # m
    <3>1. ~Handles(t, m) /\ ~Handles(t, m)'  BY <1>0, <1>5, <2>3 DEF Handles
    <3>2. ASSUME NEW u \in Tasks \ {t}
          PROVE  /\ Handles(u, m)' <=> Handles(u, m)
                 /\ Handles(u, m)' => ev'[u] = ev[u]
      <4>1. CASE u \in misled
        <5>1. ev'[u] = e  BY <1>0, <1>1, <4>1
        <5>2. ev[u].message # m  BY <1>2, <1>d, <4>1
        <5> QED  BY <2>3, <5>1, <5>2 DEF Handles
      <4>2. CASE u \notin misled  BY <1>7, <4>2 DEF Handles
      <4> QED  BY <4>1, <4>2
    <3>3. LastSaid(m)' <=> LastSaid(m)  BY <1>2 DEF LastSaid, Stored
    <3>4. ASSUME NEW u \in Tasks, Handles(u, m)'  PROVE Reached(ev[u], pc[u])'
      <4>1. u # t /\ Handles(u, m) /\ ev'[u] = ev[u] /\ pc'[u] = pc[u]
        BY <1>5, <3>1, <3>2, <3>4
      <4>2. Reached(ev[u], pc[u])  BY <2>1, <4>1 DEF Turn
      <4> QED  BY <1>2, <4>1, <4>2 DEF Reached, Stored, LastSaid
    <3>5. \A u \in Tasks : Handles(u, m)' <=> Handles(u, m)  BY <3>1, <3>2
    <3> QED  BY <2>1, <3>3, <3>4, <3>5 DEF Turn
  <2> QED  BY <2>2, <2>3
<1> QED  BY <1>a, <1>b, <1>c, <1>d DEF TurnInv

LEMMA HandleKeepsTurn ==
    ASSUME RawInv, TurnInv, NEW t \in Tasks, Handle(t), ~Process(t)
    PROVE  TurnInv'
<1>1. AuthorsInv'  BY HandleNames DEF TurnInv
<1>2. UnblockedInv' /\ UnsentInv'  BY HandleKeepsTurns DEF TurnInv
<1>3. /\ UNCHANGED <<life, expected>> /\ orderly' \subseteq orderly
      /\ \E step : Goto(t, step)
      /\ \A u \in Tasks \ {t} : ev'[u] = ev[u] /\ pc'[u] = pc[u]
      /\ ev'[t] # None => ev'[t] = ev[t]
  BY HandlerMoves, GotoMoves DEF TurnInv
<1>4. ASSUME NEW m \in orderly' \cap LearningMessages  PROVE Turn(m)'
  <2>1. CASE Handles(t, m)  BY <2>1, HandleTurnOwn
  <2>2. CASE ~Handles(t, m)
    <3>1. rows'[m] = rows[m]  BY <1>3, <2>2, HandlerRows DEF TurnInv
    <3>2. ~Handles(t, m)'  BY <1>3, <2>2 DEF Handles
    <3>3. Turn(m)  BY <1>3 DEF TurnInv
    <3> QED  BY <1>3, <2>2, <3>1, <3>2, <3>3, TurnAway
  <2> QED  BY <2>1, <2>2
<1> QED  BY <1>1, <1>2, <1>3, <1>4 DEF TurnInv

\* An event arrives for a message whose former event is handled, or takes the message
\* out of turn.
LEMMA ReceiveKeepsTurn ==
    ASSUME RawInv, TurnInv, NEW t \in Tasks, Receive(t)
    PROVE  TurnInv'
<1>1. PICK e \in Event :
         /\ Happens(e)
         /\ pc' = [pc EXCEPT ![t] = FirstStep(e)]
         /\ ev' = [ev EXCEPT ![t] = e]
         /\ IF e.kind \in {"block", "unblock"}
            THEN /\ orderly' = {m \in orderly : AuthorOf[m] # e.user}
                 /\ UNCHANGED <<life, expected>>
            ELSE /\ life' = [life EXCEPT ![e.message] =
                               IF e.kind = "delete" THEN "deleted" ELSE "live"]
                 /\ expected' = [expected EXCEPT ![e.message] = Leaves(e)]
                 /\ orderly' = IF InTurn(e) THEN orderly ELSE orderly \ {e.message}
  BY DEF Receive
<1>2. /\ pc[t] = "new" /\ rows' = rows /\ blocked' = blocked
      /\ ev \in [Tasks -> Event \cup {None}] /\ pc \in [Tasks -> Steps]
      /\ life \in [Messages -> {"unsent", "live", "deleted"}]
      /\ expected \in [Messages -> Texts \cup {None}]
      /\ orderly \subseteq Messages
  BY DEF Receive, dbVars, RawInv, RawTypeOK
<1>3. e # None /\ e.kind \in Kinds /\ Proper(e)
  BY <1>1, NoneIsNoEvent DEF Event, Happens, Proper
<1>4. ev[t] = None  BY <1>2 DEF TurnInv, AuthorsInv, Busy
<1>5. /\ pc'[t] = FirstStep(e) /\ ev'[t] = e
      /\ FirstStep(e) \in {"process", "syncCheck", "purge", "block", "unblock"}
      /\ \A u \in Tasks \ {t} : ev'[u] = ev[u] /\ pc'[u] = pc[u]
  BY <1>1, <1>2, <1>3 DEF FirstStep, Kinds
<1>6. AuthorsInv'
  <2>1. e.kind \in {"create", "update"} => e.user \in {AuthorOf[e.message], None}
    BY <1>1 DEF Happens
  <2>2. Busy(FirstStep(e))  BY <1>5 DEF Busy
  <2>3. \A m \in Messages : Stored(m)' => rows'[m].author \in {AuthorOf[m], None}
    BY <1>2 DEF TurnInv, AuthorsInv, Stored
  <2>4. ASSUME NEW u \in Tasks, ev'[u] # None
        PROVE  /\ Busy(pc'[u])
               /\ ev'[u].kind \in {"create", "update"} =>
                    ev'[u].user \in {AuthorOf[ev'[u].message], None}
    <3>1. CASE u = t  BY <1>5, <2>1, <2>2, <2>4, <3>1
    <3>2. CASE u # t  BY <1>5, <2>4, <3>2 DEF TurnInv, AuthorsInv
    <3> QED  BY <3>1, <3>2
  <2> QED  BY <2>3, <2>4 DEF AuthorsInv
<1>7. UnblockedInv'
  <2>1. orderly' \subseteq orderly  BY <1>1
  <2>2. ASSUME NEW m \in orderly', NEW u \in Tasks, ev'[u] # None,
               ev'[u].kind \in {"block", "unblock"}
        PROVE  ev'[u].user # AuthorOf[m]
    <3>1. CASE u = t  BY <1>1, <1>5, <2>2, <3>1
    <3>2. CASE u # t  BY <1>5, <2>1, <2>2, <3>2 DEF TurnInv, UnblockedInv
    <3> QED  BY <3>1, <3>2
  <2> QED  BY <1>2, <2>1, <2>2 DEF TurnInv, UnblockedInv
<1>8. UnsentInv'
  <2>1. SUFFICES ASSUME NEW m \in Messages, life'[m] = "unsent"
                 PROVE  expected'[m] = None /\ \A u \in Tasks : ~Handles(u, m)'
    BY DEF UnsentInv
  <2>2. life[m] = "unsent" /\ expected'[m] = expected[m] /\ (e # None => e.message # m)
    <3>1. CASE e.kind \in {"block", "unblock"}
      <4>1. e.message = None /\ None \notin Messages  BY <1>1, <3>1, RawConstants DEF Happens
      <4> QED  BY <1>1, <2>1, <3>1, <4>1
    <3>2. CASE e.kind \notin {"block", "unblock"}
      <4>1. e.message # m  BY <1>1, <1>2, <2>1, <3>2
      <4> QED  BY <1>1, <1>2, <2>1, <3>2, <4>1
    <3> QED  BY <3>1, <3>2
  <2>3. expected[m] = None /\ \A u \in Tasks : ~Handles(u, m)
    BY <2>2 DEF TurnInv, UnsentInv
  <2>4. \A u \in Tasks : ~Handles(u, m)'  BY <1>3, <1>5, <2>2, <2>3 DEF Handles
  <2> QED  BY <2>2, <2>3, <2>4
<1>9. ASSUME NEW m \in orderly' \cap LearningMessages  PROVE Turn(m)'
  <2>1. m \in orderly /\ m \in Messages /\ Turn(m)  BY <1>1, <1>2, <1>9 DEF TurnInv
  <2>2. CASE e.message # m
    <3>1. ~Handles(t, m) /\ ~Handles(t, m)'  BY <1>4, <1>5, <2>2 DEF Handles
    <3>2. expected'[m] = expected[m]
      BY <1>1, <1>2, <2>1, <2>2
    <3> QED  BY <1>2, <1>5, <2>1, <3>1, <3>2, TurnAway
  <2>3. CASE e.message = m
    <3>1. e.kind \notin {"block", "unblock"}
      BY <1>1, <2>1, <2>3, RawConstants DEF Happens
    <3>2. InTurn(e)  BY <1>1, <1>9, <2>3, <3>1
    <3>3. \A u \in Tasks : ~Handles(u, m)  BY <2>3, <3>2 DEF InTurn, Handles
    <3>4. \A u \in Tasks \ {t} : ~Handles(u, m)'  BY <1>5, <3>3 DEF Handles
    <3>5. LastSaid(m)  BY <2>1, <3>3 DEF Turn
    <3>6. expected'[m] = Leaves(e)
      BY <1>1, <1>2, <2>1, <2>3, <3>1
    <3>7. e.kind = "create" => ~Stored(m)
      <4>1. e.kind = "create" => life[m] = "unsent"  BY <1>1, <2>3, <3>1 DEF Happens
      <4> QED  BY <2>1, <3>5, <4>1 DEF TurnInv, UnsentInv, LastSaid
    <3>8. ev'[t] = e /\ pc'[t] = FirstStep(e) /\ Handles(t, m)'
      BY <1>3, <1>5, <2>3 DEF Handles
    <3>9. FirstStep(e) \in StepsOf(e)
      <4>1. CASE e.kind = "delete"
        <5>1. e.text = None  BY <1>1, <3>1, <4>1 DEF Happens
        <5> QED  BY <4>1, <5>1 DEF FirstStep, StepsOf
      <4>2. CASE e.kind \in {"create", "update"}
        BY <4>2 DEF FirstStep, StepsOf, InGroup
      <4> QED  BY <1>3, <3>1, <4>1, <4>2 DEF Kinds
    <3>10. /\ FirstStep(e) = "process" => e.kind = "create"
           /\ FirstStep(e) \in {"process", "syncCheck", "purge"}
      BY <1>3, <3>1 DEF FirstStep, Kinds
    <3>11. Reached(e, FirstStep(e))'
      BY <1>2, <2>3, <3>6, <3>7, <3>9, <3>10 DEF Reached, Stored, InGroup, Given, Checked
    <3>12. Reached(ev[t], pc[t])'  BY <3>8, <3>11 DEF Reached, Stored, LastSaid
    <3> QED  BY <3>4, <3>8, <3>12 DEF Turn
  <2> QED  BY <2>2, <2>3
<1> QED  BY <1>6, <1>7, <1>8, <1>9 DEF TurnInv

\* When the process dies, a message whose event was in hand is out of turn.
LEMMA DownKeepsTurn ==
    ASSUME RawInv, TurnInv, Down
    PROVE  TurnInv'
<1>1. /\ rows' = rows /\ blocked' = blocked /\ life' = life /\ expected' = expected
      /\ \A u \in Tasks : ev'[u] = None
      /\ orderly' = {m \in orderly : \A t \in Tasks : ev[t] # None => ev[t].message # m}
  BY DEF Down, dbVars
<1>2. AuthorsInv'  BY <1>1 DEF TurnInv, AuthorsInv, Stored
<1>3. UnblockedInv'  BY <1>1 DEF TurnInv, UnblockedInv
<1>4. UnsentInv'  BY <1>1 DEF TurnInv, UnsentInv, Handles
<1>5. ASSUME NEW m \in orderly' \cap LearningMessages  PROVE Turn(m)'
  <2>1. Turn(m) /\ \A t \in Tasks : ~Handles(t, m)  BY <1>1 DEF TurnInv, Handles
  <2>2. LastSaid(m)'  BY <1>1, <2>1 DEF Turn, LastSaid, Stored
  <2> QED  BY <1>1, <2>2 DEF Turn, Handles
<1> QED  BY <1>2, <1>3, <1>4, <1>5 DEF TurnInv

LEMMA TurnStep == RawInv /\ TurnInv /\ [RawNext]_rawVars => TurnInv'
<1> SUFFICES ASSUME RawInv, TurnInv, [RawNext]_rawVars  PROVE TurnInv'  OBVIOUS
<1>1. CASE \E t \in Tasks : Receive(t)  BY <1>1, ReceiveKeepsTurn
<1>2. CASE \E t \in Tasks : Handle(t)  BY <1>2, HandleKeepsTurn, ProcessKeepsTurn
<1>3. CASE Down  BY <1>3, DownKeepsTurn
<1>4. CASE Learners \/ Startup \/ UNCHANGED rawVars
  <2>1. UNCHANGED <<rows, blocked, ev, pc, life, expected, orderly>>
    BY <1>4 DEF Learners, LearnQuery, LearnRows, RebuildQuery, RebuildRows, RebuildDone, Startup,
                dbVars, taskVars, discordVars, rawVars
  <2> QED
    BY <2>1 DEF TurnInv, AuthorsInv, UnblockedInv, UnsentInv, Turn, Handles, LastSaid, Reached,
                Stored
<1> QED  BY <1>1, <1>2, <1>3, <1>4 DEF RawNext, DuplicateKey, Crash

\* The events of a message, each handled before the next arrives, leave in the table
\* what the last of them says, whatever the handlers of other messages store, delete
\* and block, and however often the process dies (RecordRawDiscordMessage,
\* SyncRawDiscordMessage, DeleteRawDiscordMessage) - also when updates come without
\* their author.  The message must have had the shared MessageTriggerGroup to itself
\* from Process() to the recorder: the recorder is given what the group holds then.
THEOREM EventsInTurn == RawSpec => []EventsInTurnAreStored
<1>1. RawInit => TurnInv
  <2> SUFFICES ASSUME RawInit  PROVE TurnInv  OBVIOUS
  <2>1. AuthorsInv  BY DEF RawInit, AuthorsInv, Stored
  <2>2. UnblockedInv  BY DEF RawInit, UnblockedInv
  <2>3. UnsentInv  BY DEF RawInit, UnsentInv, Handles
  <2>4. \A m \in orderly \cap LearningMessages : Turn(m)
    BY DEF RawInit, Turn, Handles, LastSaid, Stored
  <2> QED  BY <2>1, <2>2, <2>3, <2>4 DEF TurnInv
<1>2. RawInv /\ TurnInv /\ [RawNext]_rawVars => TurnInv'  BY TurnStep
<1>3. TurnInv => EventsInTurnAreStored
  BY DEF TurnInv, Turn, LastSaid, Handles, EventsInTurnAreStored
<1> QED  BY <1>1, <1>2, <1>3, RawInvariance, PTL DEF RawSpec

-----------------------------------------------------------------------------
(***************************************************************************)
(* MarkovModel                                                             *)
(***************************************************************************)


----------------------------------------------------------------------------
(* The invariant of the indexes *)

\* The locals of a learner: which they are, and what it has in hand of a sentence.
PenInv ==
  /\ pen = [at |-> pen.at, rows |-> pen.rows, row |-> pen.row, sentences |-> pen.sentences,
            ids |-> pen.ids, word |-> pen.word, chain |-> pen.chain]
  /\ pen.ids \in Seq(Nat) /\ pen.chain \in Seq(Fragment)
  /\ pen.at \in {"list", "file"} => pen.chain # <<>>

\* The four parts of the model.
PartsInv ==
  /\ words \in [DOMAIN words -> Nat]
  /\ \E S : revWords \in Seq(S)
  /\ fragments \in Seq(Fragment)
  /\ fragmentWords \in [DOMAIN fragmentWords -> Seq(Nat)]

\* The mutex: who learns or resets holds it, and whoever takes it finds no learner's locals.
MutexInv ==
  /\ \A g \in Actors : at[g] \in {"reset", "query", "learn"} <=> owner = g
  /\ owner \in Actors \cup {NoOne}
  /\ at \in [Actors -> Places]
  /\ owner = NoOne => pen = Idle
  /\ \A g \in Actors : at[g] = "query" => pen = Idle
  /\ \A g \in Actors : at[g] = "learn" => ~Resetting

\* How far a reset has got.
ResetInv ==
  /\ pen.at \in {"fragmentWords", "blank", "revBlank"} => fragments = <<>>
  /\ pen.at \in {"blank", "revBlank"} => DOMAIN fragmentWords = {}
  /\ pen.at = "revBlank" => words = [w \in {Blank} |-> 0]

\* A word's id leads back to the word, but for the word being added.
WordsInv ==
  ~Resetting =>
    \A w \in DOMAIN words :
      \/ words[w] < Len(revWords) /\ revWords[words[w] + 1] = w
      \/ pen.at = "revWord" /\ pen.word = w /\ words[w] = Len(revWords)

Filing == pen.at \in {"list", "file"}
FiledUnder(c, id) == {i \in DOMAIN fragmentWords[c] : fragmentWords[c][i] = id}

\* What is filed under a word are fragments around it; the last fragment is filed last.
FiledInv ==
  ~Resetting =>
    \A c \in DOMAIN fragmentWords : \A i \in DOMAIN fragmentWords[c] :
      /\ fragmentWords[c][i] < Len(fragments)
      /\ fragments[fragmentWords[c][i] + 1].c = c
      /\ Filing => fragmentWords[c][i] # Len(fragments) - 1

\* Every fragment is filed once.
OnceInv ==
  ~Resetting =>
    /\ \A id \in 0 .. Len(fragments) - 1 :
         \/ /\ fragments[id + 1].c \in DOMAIN fragmentWords
            /\ Cardinality(FiledUnder(fragments[id + 1].c, id)) = 1
         \/ Filing /\ id = Len(fragments) - 1
    /\ Filing => Len(fragments) > 0 /\ fragments[Len(fragments)] = Head(pen.chain)
    /\ pen.at = "file" => Head(pen.chain).c \in DOMAIN fragmentWords
    /\ pen.at = "list" => Head(pen.chain).c \notin DOMAIN fragmentWords

IndexInv ==
  PenInv /\ PartsInv /\ MutexInv /\ ResetInv /\ WordsInv /\ FiledInv /\ OnceInv

----------------------------------------------------------------------------
(* What does not learn leaves the model alone *)

Unlocked == Places \ {"reset", "query", "learn"}

\* A step of a goroutine that neither holds nor takes the mutex.
Outside(g) ==
  /\ UNCHANGED <<model, owner, pen>>
  /\ at[g] \in Unlocked
  /\ UNCHANGED at \/ \E place \in Unlocked : Go(g, place)

LEMMA SayGoes ==
  ASSUME NEW g \in Goroutines, NEW out, Say(g, out)
  PROVE  \E place \in Unlocked : Go(g, place)
<1>1. Go(g, "wait") \/ Go(g, "done")  BY DEF Say
<1> QED  BY <1>1 DEF Unlocked, Places

LEMMA SideDoneGoes ==
  ASSUME NEW g \in Goroutines, NEW results, SideDone(g, results)
  PROVE  \E place \in Unlocked : Go(g, place)
<1>1. Go(g, "walk") \/ Go(g, "spell")  BY DEF SideDone
<1> QED  BY <1>1 DEF Unlocked, Places

LEMMA WalkOnGoes ==
  ASSUME NEW g \in Goroutines, NEW s, WalkOn(g, s)
  PROVE  \E place \in Unlocked : Go(g, place)
<1>1. Go(g, "walk") \/ SideDone(g, s.results)  BY DEF WalkOn
<1> QED  BY <1>1, SideDoneGoes DEF Unlocked, Places

LEMMA PanicGoes ==
  ASSUME NEW g \in Goroutines, Panic(g)
  PROVE  \E place \in Unlocked : Go(g, place)
<1>1. Go(g, "failed")  BY DEF Panic
<1> QED  BY <1>1 DEF Unlocked, Places

LEMMA SpeakerElsewhere ==
  ASSUME NEW g \in Goroutines, Speaker(g) \/ Ask(g)
  PROVE  Outside(g)
<1>1. CASE LearnMore(g)
  <2>1. Go(g, "wait") \/ Go(g, "find")  BY <1>1 DEF LearnMore
  <2> QED  BY <1>1, <2>1 DEF LearnMore, Speaks, ReadsOnly, Outside, Unlocked, Places
<1>2. CASE LearnedMore(g)
  <2>1. Go(g, "wait") \/ Go(g, "find")  BY <1>2 DEF LearnedMore
  <2> QED  BY <1>2, <2>1 DEF LearnedMore, ReadsOnly, Outside, Unlocked, Places
<1>3. CASE FindWord(g)
  <2>1. Say(g, <<>>) \/ Go(g, "list") \/ Panic(g)  BY <1>3 DEF FindWord
  <2>2. \E place \in Unlocked : Go(g, place)
    BY <2>1, SayGoes, PanicGoes DEF Unlocked, Places
  <2> QED  BY <1>3, <2>2 DEF FindWord, ReadsOnly, Outside, Unlocked, Places
<1>4. CASE ListFragments(g)
  <2>1. Say(g, <<>>) \/ Go(g, "pick") \/ Go(g, "again")  BY <1>4 DEF ListFragments
  <2>2. \E place \in Unlocked : Go(g, place)
    BY <2>1, SayGoes DEF Unlocked, Places
  <2> QED  BY <1>4, <2>2 DEF ListFragments, ReadsOnly, Outside, Unlocked, Places
<1>5. CASE DrawAnother(g)
  <2>1. Panic(g) \/ Go(g, "pick") \/ UNCHANGED at \/ Say(g, <<>>)  BY <1>5 DEF DrawAnother
  <2>2. UNCHANGED at \/ \E place \in Unlocked : Go(g, place)
    BY <2>1, SayGoes, PanicGoes DEF Unlocked, Places
  <2> QED  BY <1>5, <2>2 DEF DrawAnother, ReadsOnly, Outside, Unlocked, Places
<1>6. CASE PickFragment(g)
  <2>1. Say(g, <<>>) \/ Go(g, "walk") \/ Panic(g)  BY <1>6 DEF PickFragment
  <2>2. \E place \in Unlocked : Go(g, place)
    BY <2>1, SayGoes, PanicGoes DEF Unlocked, Places
  <2> QED  BY <1>6, <2>2 DEF PickFragment, ReadsOnly, Outside, Unlocked, Places
<1>7. CASE LookUpLink(g)
  <2>1. Go(g, "link") \/ SideDone(g, speech[g].results)  BY <1>7 DEF LookUpLink
  <2>2. \E place \in Unlocked : Go(g, place)
    BY <2>1, SideDoneGoes DEF Unlocked, Places
  <2> QED  BY <1>7, <2>2 DEF LookUpLink, Speaks, ReadsOnly, Outside, Unlocked, Places
<1>8. CASE NextChainLink(g)
  <2>1. \/ Panic(g) \/ Go(g, "walk") \/ (\E results : SideDone(g, results))
        \/ (\E s : WalkOn(g, s))
    BY <1>8 DEF NextChainLink
  <2>2. \E place \in Unlocked : Go(g, place)
    BY <2>1, SideDoneGoes, WalkOnGoes, PanicGoes DEF Unlocked, Places
  <2> QED  BY <1>8, <2>2 DEF NextChainLink, ReadsOnly, Outside, Unlocked, Places
<1>9. CASE Spell(g)
  <2>1. Panic(g) \/ \E out : Say(g, out)  BY <1>9 DEF Spell
  <2>2. \E place \in Unlocked : Go(g, place)  BY <2>1, SayGoes, PanicGoes
  <2> QED  BY <1>9, <2>2 DEF Spell, ReadsOnly, Outside, Unlocked, Places
<1>10. CASE Ask(g)
  <2>1. \E place \in {"asked", "find", "done", "wait"} : Go(g, place)  BY <1>10 DEF Ask
  <2> QED  BY <1>10, <2>1 DEF Ask, Outside, Unlocked, Places
<1> QED
  BY <1>1, <1>2, <1>3, <1>4, <1>5, <1>6, <1>7, <1>8, <1>9, <1>10 DEF Speaker

\* The invariant is about the model, the mutex and the learner only.
LEMMA ElsewhereKeeps ==
  ASSUME IndexInv, UNCHANGED <<model, owner, pen>>,
         UNCHANGED at \/ \E g \in Goroutines : Outside(g)
  PROVE  IndexInv'
<1>a. /\ words' = words /\ revWords' = revWords /\ fragments' = fragments
      /\ fragmentWords' = fragmentWords /\ pen' = pen /\ owner' = owner
  BY DEF model
<1>b. Resetting' = Resetting /\ Filing' = Filing  BY <1>a DEF Resetting, Filing
<1>3. PenInv'  BY <1>a DEF IndexInv, PenInv
<1>4. PartsInv'  BY <1>a DEF IndexInv, PartsInv
<1>5. ResetInv'  BY <1>a DEF IndexInv, ResetInv
<1>6. WordsInv'  BY <1>a, <1>b DEF IndexInv, WordsInv
<1>7. FiledInv'  BY <1>a, <1>b DEF IndexInv, FiledInv
<1>8. OnceInv'  BY <1>a, <1>b DEF IndexInv, OnceInv, FiledUnder
<1>2. MutexInv'
  <2>1. CASE UNCHANGED at
    BY <2>1 DEF IndexInv, MutexInv, Resetting
  <2>2. CASE \E g \in Goroutines : Outside(g)
    <3>1. PICK g \in Goroutines : Outside(g)  BY <2>2
    <3>2. CASE UNCHANGED at
      BY <3>2 DEF IndexInv, MutexInv, Resetting
    <3>3. CASE \E place \in Unlocked : Go(g, place)
      <4>1. PICK place \in Unlocked : at' = [at EXCEPT ![g] = place]  BY <3>3 DEF Go
      <4>2. /\ at[g] \notin {"reset", "query", "learn"} /\ at'[g] \notin {"reset", "query", "learn"}
            /\ \A h \in Actors : h # g => at'[h] = at[h]
            /\ at' \in [Actors -> Places]
        BY <3>1, <4>1 DEF Outside, Unlocked, IndexInv, MutexInv, Actors
      <4>3. \A h \in Actors : at'[h] \in {"reset", "query", "learn"} <=> owner' = h
        BY <1>a, <4>2 DEF IndexInv, MutexInv
      <4>4. owner' \in Actors \cup {NoOne} /\ (owner' = NoOne => pen' = Idle)
        BY <1>a DEF IndexInv, MutexInv
      <4>5. \A h \in Actors : at'[h] = "query" => pen' = Idle
        BY <1>a, <4>2 DEF IndexInv, MutexInv
      <4>6. \A h \in Actors : at'[h] = "learn" => ~Resetting'
        BY <1>b, <4>2 DEF IndexInv, MutexInv
      <4> QED  BY <4>2, <4>3, <4>4, <4>5, <4>6 DEF MutexInv
    <3> QED  BY <3>1, <3>2, <3>3 DEF Outside
  <2> QED  BY <2>1, <2>2
<1> QED  BY <1>2, <1>3, <1>4, <1>5, <1>6, <1>7, <1>8 DEF IndexInv
----------------------------------------------------------------------------
(* The start *)

LEMMA ResetNames ==
  Range(ResetSteps) = {"words", "revWords", "fragments", "fragmentWords", "blank", "revBlank"}
<1>1. DOMAIN ResetSteps = 1 .. 6  BY DEF ResetSteps
<1> QED  BY <1>1 DEF Range, ResetSteps

LEMMA NoOneElse == NoOne \notin Actors
  BY MarkovConstants DEF Actors, NoOne, Main

LEMMA IndexInit == Init => IndexInv
<1> SUFFICES ASSUME Init PROVE IndexInv  OBVIOUS
<1>1. /\ pen = Idle /\ words = [w \in {Blank} |-> 0] /\ revWords = <<Blank>> /\ fragments = <<>>
      /\ fragmentWords = [c \in {} |-> <<>>] /\ owner = NoOne
  BY DEF Init
<1>2. pen.at = "row" /\ pen.ids = <<>> /\ pen.chain = <<>>  BY <1>1 DEF Idle
<1>3. ~Resetting /\ ~Filing  BY <1>2, ResetNames DEF Resetting, Filing
<1>4. PenInv  BY <1>1, <1>2 DEF PenInv, Idle
<1>5. PartsInv
  <2>1. revWords \in Seq({Blank})  BY <1>1
  <2>2. fragments \in Seq(Fragment) /\ fragmentWords \in [DOMAIN fragmentWords -> Seq(Nat)]
    BY <1>1
  <2>3. words \in [DOMAIN words -> Nat]  BY <1>1
  <2> QED  BY <2>1, <2>2, <2>3 DEF PartsInv
<1>6. MutexInv
  <2>1. at \in [Actors -> Places] /\ \A g \in Actors : at[g] \notin {"reset", "query", "learn"}
    BY DEF Init, Places
  <2> QED  BY <1>1, <2>1, NoOneElse DEF MutexInv
<1>7. ResetInv  BY <1>2 DEF ResetInv
<1>8. WordsInv  BY <1>1 DEF WordsInv
<1>9. FiledInv  BY <1>1 DEF FiledInv
<1>10. OnceInv  BY <1>1, <1>3, <1>2 DEF OnceInv, Filing
<1> QED  BY <1>4, <1>5, <1>6, <1>7, <1>8, <1>9, <1>10 DEF IndexInv

----------------------------------------------------------------------------
(* Who learns keeps the mutex *)

LEMMA OwnerGoesOn ==
  ASSUME IndexInv, NEW g \in Actors, owner = g, owner' = g,
         NEW place \in {"reset", "query", "learn"}, at' = [at EXCEPT ![g] = place],
         place = "query" => pen' = Idle, place = "learn" => ~Resetting'
  PROVE  MutexInv'
<1>1. at \in [Actors -> Places] /\ \A h \in Actors : at[h] \in {"reset", "query", "learn"} <=> owner = h
  BY DEF IndexInv, MutexInv
<1>2. /\ at' \in [Actors -> Places] /\ at'[g] = place
      /\ \A h \in Actors \ {g} : at'[h] = at[h] /\ at[h] \notin {"reset", "query", "learn"}
  BY <1>1 DEF Places
<1>3. \A h \in Actors : at'[h] \in {"reset", "query", "learn"} <=> owner' = h  BY <1>2
<1>4. owner' \in Actors \cup {NoOne} /\ owner' # NoOne  BY NoOneElse
<1>5. \A h \in Actors : at'[h] = "query" => pen' = Idle  BY <1>2
<1>6. \A h \in Actors : at'[h] = "learn" => ~Resetting'  BY <1>2
<1> QED  BY <1>2, <1>3, <1>4, <1>5, <1>6 DEF MutexInv

LEMMA LearnerStays ==
  ASSUME IndexInv, NEW g \in Actors, owner = g, at[g] = "learn", UNCHANGED <<owner, at>>,
         ~Resetting'
  PROVE  MutexInv'
<1>1. at' = [at EXCEPT ![g] = "learn"]  BY DEF IndexInv, MutexInv
<1> QED  BY <1>1, OwnerGoesOn

\* A step that leaves the model as it is, outside of a reset and between two writes.
LEMMA PenOnly ==
  ASSUME IndexInv, UNCHANGED <<words, revWords, fragments, fragmentWords>>, PenInv', MutexInv',
         ~Resetting, ~Resetting', ~Filing, ~Filing', pen.at # "revWord"
  PROVE  IndexInv'
<1>1. PartsInv'  BY DEF IndexInv, PartsInv
<1>2. ResetInv'  BY ResetNames DEF ResetInv, Resetting
<1>3. WordsInv'  BY DEF IndexInv, WordsInv
<1>4. FiledInv'  BY DEF IndexInv, FiledInv
<1>5. OnceInv'
  <2>1. \A id \in 0 .. Len(fragments) - 1 :
           /\ fragments[id + 1].c \in DOMAIN fragmentWords
           /\ Cardinality(FiledUnder(fragments[id + 1].c, id)) = 1
    BY DEF IndexInv, OnceInv
  <2>2. pen'.at \notin {"list", "file"}  BY DEF Filing
  <2> QED  BY <2>1, <2>2 DEF OnceInv, FiledUnder
<1> QED  BY <1>1, <1>2, <1>3, <1>4, <1>5 DEF IndexInv
----------------------------------------------------------------------------
(* The mutex is taken and given back, the model is reset *)

LEMMA IdleIsTyped ==
  ASSUME pen' = Idle
  PROVE  PenInv' /\ ~Resetting' /\ ~Filing' /\ pen'.at = "row"
<1>1. pen'.at = "row" /\ pen'.ids = <<>> /\ pen'.chain = <<>>  BY DEF Idle
<1>2. PenInv'  BY <1>1 DEF PenInv, Idle
<1> QED  BY <1>1, <1>2, ResetNames DEF Resetting, Filing

LEMMA LockKeeps ==
  ASSUME NEW g \in Actors, IndexInv, LockForLearning(g)
  PROVE  IndexInv'
<1>1. pen = Idle /\ owner = NoOne /\ owner' = g  BY DEF LockForLearning, IndexInv, MutexInv
<1>2. UNCHANGED <<words, revWords, fragments, fragmentWords>>  BY DEF LockForLearning, model
<1>3. ~Resetting /\ ~Filing /\ pen.at = "row"
  BY <1>1, ResetNames DEF Resetting, Filing, Idle
<1>4. /\ at \in [Actors -> Places]
      /\ \A h \in Actors : at[h] \notin {"reset", "query", "learn"}
  BY <1>1, NoOneElse DEF IndexInv, MutexInv
<1>5. ASSUME NEW place \in {"reset", "query"}, Go(g, place), place = "query" => pen' = Idle
      PROVE  MutexInv'
  <2>1. /\ at' \in [Actors -> Places] /\ at'[g] = place
        /\ \A h \in Actors \ {g} : at'[h] \notin {"reset", "query", "learn"}
    BY <1>4, <1>5 DEF Go, Places
  <2>2. owner' \in Actors \cup {NoOne} /\ owner' # NoOne  BY <1>1, NoOneElse
  <2>3. \A h \in Actors : at'[h] \in {"reset", "query", "learn"} <=> owner' = h
    BY <1>1, <2>1
  <2>4. \A h \in Actors : at'[h] # "learn"  BY <2>1
  <2>5. \A h \in Actors : at'[h] = "query" => pen' = Idle  BY <1>5, <2>1
  <2> QED  BY <2>1, <2>2, <2>3, <2>4, <2>5 DEF MutexInv
<1>6. CASE job[g] = "rebuild"
  <2>1. Go(g, "reset") /\ pen' = [Idle EXCEPT !.at = "words"]  BY <1>6 DEF LockForLearning
  <2>2. pen'.at = "words" /\ pen'.ids = <<>> /\ pen'.chain = <<>>  BY <2>1 DEF Idle
  <2>3. PenInv'  BY <2>1, <2>2 DEF PenInv, Idle
  <2>4. MutexInv'  BY <1>5, <2>1
  <2>5. Resetting'  BY <2>2, ResetNames DEF Resetting
  <2>6. PartsInv'  BY <1>2 DEF IndexInv, PartsInv
  <2>7. ResetInv'  BY <2>2 DEF ResetInv
  <2>8. WordsInv' /\ FiledInv' /\ OnceInv'  BY <2>5 DEF WordsInv, FiledInv, OnceInv
  <2> QED  BY <2>3, <2>4, <2>6, <2>7, <2>8 DEF IndexInv
<1>7. CASE job[g] # "rebuild"
  <2>1. Go(g, "query") /\ pen' = Idle  BY <1>7 DEF LockForLearning
  <2>2. MutexInv'  BY <1>5, <2>1
  <2> QED  BY <1>2, <1>3, <2>1, <2>2, IdleIsTyped, PenOnly
<1> QED  BY <1>6, <1>7

LEMMA UnlockKeeps ==
  ASSUME NEW g \in Actors, IndexInv, UnlockLearned(g)
  PROVE  IndexInv'
<1>1. owner = g /\ owner' = NoOne /\ pen' = Idle /\ at[g] = "learn" /\ pen.at = "row"
  BY DEF UnlockLearned, Learning
<1>2. UNCHANGED <<words, revWords, fragments, fragmentWords>>  BY DEF UnlockLearned, model
<1>3. ~Resetting /\ ~Filing  BY <1>1, ResetNames DEF Resetting, Filing
<1>4. PICK place \in Unlocked : Go(g, place)  BY DEF UnlockLearned, Unlocked, Places
<1>5. MutexInv'
  <2>1. at \in [Actors -> Places] /\ \A h \in Actors \ {g} : at[h] \notin {"reset", "query", "learn"}
    BY <1>1 DEF IndexInv, MutexInv
  <2>2. at' \in [Actors -> Places] /\ \A h \in Actors : at'[h] \notin {"reset", "query", "learn"}
    BY <1>4, <2>1 DEF Go, Unlocked
  <2> QED  BY <1>1, <2>2, NoOneElse DEF MutexInv
<1> QED  BY <1>1, <1>2, <1>3, <1>5, IdleIsTyped, PenOnly

\* Up to the last of its writes a reset leaves nothing to be believed.
LEMMA ResetGoesOn ==
  ASSUME NEW g \in Actors, IndexInv, Reset(g), PartsInv', ResetInv',
         NEW next, pen' = [pen EXCEPT !.at = next], UNCHANGED at,
         next \in {"revWords", "fragments", "fragmentWords", "blank", "revBlank"}
  PROVE  IndexInv'
<1>1. pen'.at = next /\ pen'.ids = pen.ids /\ pen'.chain = pen.chain  BY DEF IndexInv, PenInv
<1>2. PenInv'  BY <1>1 DEF IndexInv, PenInv
<1>3. Resetting'  BY <1>1, ResetNames DEF Resetting
<1>4. MutexInv'
  <2>1. owner = g /\ owner' = g /\ at[g] = "reset"  BY DEF Reset
  <2>2. at' = [at EXCEPT ![g] = "reset"]  BY <2>1 DEF IndexInv, MutexInv
  <2> QED  BY <2>1, <2>2, OwnerGoesOn
<1>5. WordsInv' /\ FiledInv' /\ OnceInv'  BY <1>3 DEF WordsInv, FiledInv, OnceInv
<1> QED  BY <1>2, <1>4, <1>5 DEF IndexInv

LEMMA ResetKeeps ==
  ASSUME NEW g \in Actors, IndexInv, Reset(g)
  PROVE  IndexInv'
<1>1. PICK n \in 1 .. Len(ResetSteps) :
        /\ pen.at = ResetSteps[n]
        /\ IF n < Len(ResetSteps)
           THEN pen' = [pen EXCEPT !.at = ResetSteps[n + 1]] /\ UNCHANGED <<at, expired>>
           ELSE pen' = Idle /\ Go(g, "query") /\ expired' = FALSE
  BY DEF Reset
<1>2. /\ words \in [DOMAIN words -> Nat] /\ fragments \in Seq(Fragment)
      /\ fragmentWords \in [DOMAIN fragmentWords -> Seq(Nat)]
  BY DEF IndexInv, PartsInv
<1>3. PICK S : revWords \in Seq(S)  BY DEF IndexInv, PartsInv
<1>4. owner = g /\ owner' = g /\ at[g] = "reset"  BY DEF Reset
<1>5. Len(ResetSteps) = 6  BY DEF ResetSteps
<1>6. CASE n = 1
  <2>1. pen.at = "words" /\ pen' = [pen EXCEPT !.at = "revWords"] /\ UNCHANGED at
    BY <1>1, <1>5, <1>6 DEF ResetSteps
  <2>2. /\ words' = [w \in {} |-> 0] /\ revWords' = revWords /\ fragments' = fragments
        /\ fragmentWords' = fragmentWords
    BY <2>1 DEF Reset
  <2>3. PartsInv'  BY <1>2, <1>3, <2>2 DEF PartsInv
  <2>4. pen'.at = "revWords"  BY <2>1 DEF IndexInv, PenInv
  <2>5. ResetInv'  BY <2>4 DEF ResetInv
  <2> QED  BY <2>1, <2>3, <2>5, ResetGoesOn
<1>7. CASE n = 2
  <2>1. pen.at = "revWords" /\ pen' = [pen EXCEPT !.at = "fragments"] /\ UNCHANGED at
    BY <1>1, <1>5, <1>7 DEF ResetSteps
  <2>2. /\ words' = words /\ revWords' = <<>> /\ fragments' = fragments
        /\ fragmentWords' = fragmentWords
    BY <2>1 DEF Reset
  <2>3. revWords' \in Seq({})  BY <2>2
  <2>4. PartsInv'  BY <1>2, <2>2, <2>3 DEF PartsInv
  <2>5. pen'.at = "fragments"  BY <2>1 DEF IndexInv, PenInv
  <2>6. ResetInv'  BY <2>5 DEF ResetInv
  <2> QED  BY <2>1, <2>4, <2>6, ResetGoesOn
<1>8. CASE n = 3
  <2>1. pen.at = "fragments" /\ pen' = [pen EXCEPT !.at = "fragmentWords"] /\ UNCHANGED at
    BY <1>1, <1>5, <1>8 DEF ResetSteps
  <2>2. /\ words' = words /\ revWords' = revWords /\ fragments' = <<>>
        /\ fragmentWords' = fragmentWords
    BY <2>1 DEF Reset
  <2>3. PartsInv'  BY <1>2, <1>3, <2>2 DEF PartsInv
  <2>4. pen'.at = "fragmentWords"  BY <2>1 DEF IndexInv, PenInv
  <2>5. ResetInv'  BY <2>2, <2>4 DEF ResetInv
  <2> QED  BY <2>1, <2>3, <2>5, ResetGoesOn
<1>9. CASE n = 4
  <2>1. pen.at = "fragmentWords" /\ pen' = [pen EXCEPT !.at = "blank"] /\ UNCHANGED at
    BY <1>1, <1>5, <1>9 DEF ResetSteps
  <2>2. /\ words' = words /\ revWords' = revWords /\ fragments' = fragments
        /\ fragmentWords' = [c \in {} |-> <<>>]
    BY <2>1 DEF Reset
  <2>3. PartsInv'  BY <1>2, <1>3, <2>2 DEF PartsInv
  <2>4. pen'.at = "blank" /\ fragments = <<>>  BY <2>1 DEF IndexInv, PenInv, ResetInv
  <2>5. ResetInv'  BY <2>2, <2>4 DEF ResetInv
  <2> QED  BY <2>1, <2>3, <2>5, ResetGoesOn
<1>10. CASE n = 5
  <2>1. pen.at = "blank" /\ pen' = [pen EXCEPT !.at = "revBlank"] /\ UNCHANGED at
    BY <1>1, <1>5, <1>10 DEF ResetSteps
  <2>2. /\ words' = [w \in {Blank} |-> 0] /\ revWords' = revWords /\ fragments' = fragments
        /\ fragmentWords' = fragmentWords
    BY <2>1 DEF Reset
  <2>3. PartsInv'  BY <1>2, <1>3, <2>2 DEF PartsInv
  <2>4. pen'.at = "revBlank" /\ fragments = <<>> /\ DOMAIN fragmentWords = {}
    BY <2>1 DEF IndexInv, PenInv, ResetInv
  <2>5. ResetInv'  BY <2>2, <2>4 DEF ResetInv
  <2> QED  BY <2>1, <2>3, <2>5, ResetGoesOn
<1>11. CASE n = 6
  <2>1. pen.at = "revBlank" /\ pen' = Idle /\ Go(g, "query")
    BY <1>1, <1>5, <1>11 DEF ResetSteps
  <2>2. /\ words' = words /\ revWords' = <<Blank>> /\ fragments' = fragments
        /\ fragmentWords' = fragmentWords
    BY <2>1 DEF Reset
  <2>3. /\ fragments = <<>> /\ DOMAIN fragmentWords = {} /\ words = [w \in {Blank} |-> 0]
    BY <2>1 DEF IndexInv, ResetInv
  <2>4. PenInv' /\ ~Resetting' /\ ~Filing' /\ pen'.at = "row"  BY <2>1, IdleIsTyped
  <2>5. PartsInv'
    <3>1. revWords' \in Seq({Blank})  BY <2>2
    <3> QED  BY <1>2, <2>2, <3>1 DEF PartsInv
  <2>6. MutexInv'  BY <1>4, <2>1, OwnerGoesOn DEF Go
  <2>7. ResetInv'  BY <2>4 DEF ResetInv
  <2>8. WordsInv'  BY <2>2, <2>3 DEF WordsInv
  <2>9. FiledInv'  BY <2>2, <2>3 DEF FiledInv
  <2>10. OnceInv'  BY <2>2, <2>3, <2>4 DEF OnceInv, Filing
  <2> QED  BY <2>4, <2>5, <2>6, <2>7, <2>8, <2>9, <2>10 DEF IndexInv
<1> QED  BY <1>5, <1>6, <1>7, <1>8, <1>9, <1>10, <1>11
----------------------------------------------------------------------------
(* Between two writes: the learner's own locals *)

LEMMA LearnsAlone ==
  ASSUME NEW g \in Actors, IndexInv, NEW place, Learning(g, place), LearnsOnly,
         place \notin {"words", "revWords", "fragments", "fragmentWords", "blank", "revBlank"},
         NEW next, pen'.at = next,
         next \notin {"words", "revWords", "fragments", "fragmentWords", "blank", "revBlank"}
  PROVE  ~Resetting /\ ~Resetting' /\ MutexInv' /\ ResetInv'
<1>1. ~Resetting /\ ~Resetting'  BY ResetNames DEF Learning, Resetting
<1>2. owner = g /\ at[g] = "learn" /\ UNCHANGED <<owner, at>>  BY DEF Learning, LearnsOnly
<1>3. ResetInv'  BY DEF ResetInv
<1> QED  BY <1>1, <1>2, <1>3, LearnerStays

LEMMA QueryKeeps ==
  ASSUME NEW g \in Actors, IndexInv, LearnFromRawMessages(g)
  PROVE  IndexInv'
<1>1. owner = g /\ owner' = g /\ pen = Idle /\ at' = [at EXCEPT ![g] = "learn"]
  BY DEF LearnFromRawMessages, IndexInv, MutexInv, Go
<1>2. PICK given : pen' = [Idle EXCEPT !.rows = given]  BY DEF LearnFromRawMessages
<1>3. pen'.at = "row" /\ pen'.ids = <<>> /\ pen'.chain = <<>>  BY <1>2 DEF Idle
<1>4. PenInv'  BY <1>2, <1>3 DEF PenInv, Idle
<1>5. pen.at = "row"  BY <1>1 DEF Idle
<1>6. ~Resetting /\ ~Resetting' /\ ~Filing /\ ~Filing'
  BY <1>3, <1>5, ResetNames DEF Resetting, Filing
<1>7. MutexInv'  BY <1>1, <1>6, OwnerGoesOn
<1>8. UNCHANGED <<words, revWords, fragments, fragmentWords>>  BY DEF LearnFromRawMessages, model
<1> QED  BY <1>4, <1>5, <1>6, <1>7, <1>8, PenOnly

LEMMA LearnStringKeeps ==
  ASSUME NEW g \in Actors, IndexInv, LearnString(g)
  PROVE  IndexInv'
<1>1. PICK row, given, sentences :
        pen' = [pen EXCEPT !.at = "sentence", !.row = row, !.rows = given, !.sentences = sentences]
  BY DEF LearnString
<1>2. pen'.at = "sentence" /\ pen'.ids = pen.ids /\ pen'.chain = pen.chain
  BY <1>1 DEF IndexInv, PenInv
<1>3. PenInv'  BY <1>1, <1>2 DEF IndexInv, PenInv
<1>4. Learning(g, "row") /\ LearnsOnly  BY DEF LearnString
<1>5. pen.at = "row"  BY <1>4 DEF Learning
<1>6. ~Resetting /\ ~Resetting' /\ MutexInv'  BY <1>2, <1>4, LearnsAlone
<1>7. ~Filing /\ ~Filing'  BY <1>2, <1>5 DEF Filing
<1>8. UNCHANGED <<words, revWords, fragments, fragmentWords>>  BY DEF LearnString, model
<1> QED  BY <1>3, <1>5, <1>6, <1>7, <1>8, PenOnly

LEMMA FragmentsOfIds ==
  ASSUME NEW ids \in Seq(Nat)
  PROVE  CreateFragments(ids) \in Seq(Fragment)
<1>1. \A pos \in Int : safeGetWordID(ids, pos) \in Nat  BY DEF safeGetWordID, LeftMost
<1>2. \A pos \in 1 .. Len(ids) + 1 :
         [l |-> safeGetWordID(ids, pos - 1), c |-> safeGetWordID(ids, pos),
          r |-> safeGetWordID(ids, pos + 1)] \in Fragment
  BY <1>1 DEF Fragment
<1>3. PICK n \in Nat : n = Len(ids) + 1  OBVIOUS
<1>4. CreateFragments(ids) \in [1 .. n -> Fragment]
  <2> HIDE DEF Fragment
  <2> QED  BY <1>2, <1>3 DEF CreateFragments
<1> HIDE DEF Fragment
<1> QED  BY <1>3, <1>4

LEMMA LearnSimpleTokensKeeps ==
  ASSUME NEW g \in Actors, IndexInv, LearnSimpleTokens(g)
  PROVE  IndexInv'
<1>1. PICK sentences :
        pen' = [pen EXCEPT !.at = "fragment", !.chain = CreateFragments(pen.ids), !.ids = <<>>,
                           !.sentences = sentences]
  BY DEF LearnSimpleTokens
<1>2. pen'.at = "fragment" /\ pen'.ids = <<>> /\ pen'.chain = CreateFragments(pen.ids)
  BY <1>1 DEF IndexInv, PenInv
<1>3. pen'.chain \in Seq(Fragment)  BY <1>2, FragmentsOfIds DEF IndexInv, PenInv
<1>4. PenInv'
  <2> DEFINE chain == CreateFragments(pen.ids)
  <2>1. pen' = [pen EXCEPT !.at = "fragment", !.chain = chain, !.ids = <<>>, !.sentences = sentences]
    BY <1>1
  <2> HIDE DEF chain
  <2>2. pen' = [at |-> "fragment", rows |-> pen.rows, row |-> pen.row, sentences |-> sentences,
                ids |-> <<>>, word |-> pen.word, chain |-> chain]
    BY <2>1 DEF IndexInv, PenInv
  <2>3. pen'.ids \in Seq(Nat)  BY <2>2
  <2> QED  BY <1>3, <2>2, <2>3 DEF PenInv
<1>5. Learning(g, "sentence") /\ LearnsOnly  BY DEF LearnSimpleTokens
<1>6. pen.at = "sentence"  BY <1>5 DEF Learning
<1>7. ~Resetting /\ ~Resetting' /\ MutexInv'  BY <1>2, <1>5, LearnsAlone
<1>8. ~Filing /\ ~Filing'  BY <1>2, <1>6 DEF Filing
<1>9. UNCHANGED <<words, revWords, fragments, fragmentWords>>
  BY DEF LearnSimpleTokens, model
<1> QED  BY <1>4, <1>6, <1>7, <1>8, <1>9, PenOnly

LEMMA EndSentenceKeeps ==
  ASSUME NEW g \in Actors, IndexInv, EndSentence(g)
  PROVE  IndexInv'
<1>1. pen' = [pen EXCEPT !.at = "sentence"]  BY DEF EndSentence
<1>2. pen'.at = "sentence" /\ pen'.ids = pen.ids /\ pen'.chain = pen.chain
  BY <1>1 DEF IndexInv, PenInv
<1>3. PenInv'  BY <1>1, <1>2 DEF IndexInv, PenInv
<1>4. Learning(g, "fragment") /\ LearnsOnly  BY DEF EndSentence
<1>5. pen.at = "fragment"  BY <1>4 DEF Learning
<1>6. ~Resetting /\ ~Resetting' /\ MutexInv'  BY <1>2, <1>4, LearnsAlone
<1>7. ~Filing /\ ~Filing'  BY <1>2, <1>5 DEF Filing
<1>8. UNCHANGED <<words, revWords, fragments, fragmentWords>>  BY DEF EndSentence, model
<1> QED  BY <1>3, <1>5, <1>6, <1>7, <1>8, PenOnly

LEMMA EndRowKeeps ==
  ASSUME NEW g \in Actors, IndexInv, EndRow(g)
  PROVE  IndexInv'
<1>1. pen' = [pen EXCEPT !.at = "row"]  BY DEF EndRow
<1>2. pen'.at = "row" /\ pen'.ids = pen.ids /\ pen'.chain = pen.chain
  BY <1>1 DEF IndexInv, PenInv
<1>3. PenInv'  BY <1>1, <1>2 DEF IndexInv, PenInv
<1>4. Learning(g, "sentence") /\ LearnsOnly  BY DEF EndRow
<1>5. pen.at = "sentence"  BY <1>4 DEF Learning
<1>6. ~Resetting /\ ~Resetting' /\ MutexInv'  BY <1>2, <1>4, LearnsAlone
<1>7. ~Filing /\ ~Filing'  BY <1>2, <1>5 DEF Filing
<1>8. UNCHANGED <<words, revWords, fragments, fragmentWords>>  BY DEF EndRow
<1> QED  BY <1>3, <1>5, <1>6, <1>7, <1>8, PenOnly

----------------------------------------------------------------------------
(* The words *)

\* What the fragments are filed under does not change with the words.
LEMMA FragmentsStand ==
  ASSUME IndexInv, UNCHANGED <<fragments, fragmentWords>>, ~Resetting, ~Filing, ~Filing'
  PROVE  FiledInv' /\ OnceInv'
<1>1. FiledInv'  BY DEF IndexInv, FiledInv
<1>2. \A id \in 0 .. Len(fragments) - 1 :
         /\ fragments[id + 1].c \in DOMAIN fragmentWords
         /\ Cardinality(FiledUnder(fragments[id + 1].c, id)) = 1
  BY DEF IndexInv, OnceInv
<1>3. pen'.at \notin {"list", "file"}  BY DEF Filing
<1>4. OnceInv'  BY <1>2, <1>3 DEF OnceInv, FiledUnder
<1> QED  BY <1>1, <1>4

LEMMA FindOrAddWordKeeps ==
  ASSUME NEW g \in Actors, IndexInv, FindOrAddWord(g)
  PROVE  IndexInv'
<1> DEFINE w == Head(Head(pen.sentences))
<1>1. Learning(g, "sentence") /\ LearnsOnly  BY DEF FindOrAddWord
<1>2. pen.at = "sentence"  BY <1>1 DEF Learning
<1>3. UNCHANGED <<revWords, fragments, fragmentWords>>  BY DEF FindOrAddWord
<1>4. words \in [DOMAIN words -> Nat]  BY DEF IndexInv, PartsInv
<1>5. PICK S : revWords \in Seq(S)  BY DEF IndexInv, PartsInv
<1>6. CASE w \in DOMAIN words
  <2>1. PICK sentences :
          /\ pen' = [[pen EXCEPT !.sentences = sentences] EXCEPT !.ids = Append(@, words[w])]
          /\ words' = words
    BY <1>6 DEF FindOrAddWord
  <2>2. /\ pen'.at = "sentence" /\ pen'.ids = Append(pen.ids, words[w])
        /\ pen'.chain = pen.chain
    BY <2>1, <1>2 DEF IndexInv, PenInv
  <2>3. pen'.ids \in Seq(Nat)
    <3>1. pen.ids \in Seq(Nat) /\ words[w] \in Nat  BY <1>4, <1>6 DEF IndexInv, PenInv
    <3> QED  BY <2>2, <3>1
  <2>4. PenInv'  BY <2>1, <2>2, <2>3 DEF IndexInv, PenInv
  <2>5. ~Resetting /\ ~Resetting' /\ MutexInv'  BY <2>2, <1>1, LearnsAlone
  <2>6. ~Filing /\ ~Filing'  BY <2>2, <1>2 DEF Filing
  <2> QED  BY <1>2, <1>3, <2>1, <2>4, <2>5, <2>6, PenOnly
<1>7. CASE w \notin DOMAIN words
  <2>1. PICK sentences :
          pen' = [[pen EXCEPT !.sentences = sentences]
                    EXCEPT !.ids = Append(@, Len(revWords)), !.at = "revWord", !.word = w]
    BY <1>7 DEF FindOrAddWord
  <2>2. words' = [v \in DOMAIN words \cup {w} |-> IF v = w THEN Len(revWords) ELSE words[v]]
    BY <1>7 DEF FindOrAddWord
  <2> HIDE DEF w
  <2>3. /\ pen'.at = "revWord" /\ pen'.ids = Append(pen.ids, Len(revWords))
        /\ pen'.chain = pen.chain /\ pen'.word = w
    BY <2>1 DEF IndexInv, PenInv
  <2>4. Len(revWords) \in Nat  BY <1>5
  <2>5. pen'.ids \in Seq(Nat)  BY <2>3, <2>4 DEF IndexInv, PenInv
  <2>6. PenInv'  BY <2>1, <2>3, <2>5 DEF IndexInv, PenInv
  <2>7. ~Resetting /\ ~Resetting' /\ MutexInv' /\ ResetInv'  BY <2>3, <1>1, LearnsAlone
  <2>8. ~Filing /\ ~Filing'  BY <2>3, <1>2 DEF Filing
  <2>9. PartsInv'
    <3>1. words' \in [DOMAIN words' -> Nat]  BY <1>4, <2>2, <2>4
    <3>2. fragments' \in Seq(Fragment) /\ fragmentWords' \in [DOMAIN fragmentWords' -> Seq(Nat)]
      BY <1>3 DEF IndexInv, PartsInv
    <3> QED  BY <3>1, <3>2, <1>3, <1>5 DEF PartsInv
  <2>10. WordsInv'
    <3>1. SUFFICES ASSUME NEW v \in DOMAIN words'
                   PROVE  \/ words'[v] < Len(revWords') /\ revWords'[words'[v] + 1] = v
                          \/ pen'.at = "revWord" /\ pen'.word = v /\ words'[v] = Len(revWords')
      BY DEF WordsInv
    <3>2. CASE v = w  BY <3>2, <2>2, <2>3, <1>3
    <3>3. CASE v # w
      <4>1. v \in DOMAIN words /\ words'[v] = words[v]  BY <3>1, <3>3, <2>2
      <4>2. words[v] < Len(revWords) /\ revWords[words[v] + 1] = v
        BY <4>1, <2>7, <1>2 DEF IndexInv, WordsInv
      <4> QED  BY <4>1, <4>2, <1>3
    <3> QED  BY <3>2, <3>3
  <2>11. FiledInv' /\ OnceInv'  BY <1>3, <2>7, <2>8, FragmentsStand
  <2> QED  BY <2>6, <2>7, <2>9, <2>10, <2>11 DEF IndexInv
<1> QED  BY <1>6, <1>7

LEMMA AddRevWordKeeps ==
  ASSUME NEW g \in Actors, IndexInv, AddRevWord(g)
  PROVE  IndexInv'
<1>1. pen' = [pen EXCEPT !.at = "sentence"]  BY DEF AddRevWord
<1>2. /\ pen'.at = "sentence" /\ pen'.ids = pen.ids /\ pen'.chain = pen.chain
  BY <1>1 DEF IndexInv, PenInv
<1>3. PenInv'  BY <1>1, <1>2 DEF IndexInv, PenInv
<1>4. Learning(g, "revWord") /\ LearnsOnly  BY DEF AddRevWord
<1>5. pen.at = "revWord"  BY <1>4 DEF Learning
<1>6. ~Resetting /\ ~Resetting' /\ MutexInv' /\ ResetInv'  BY <1>2, <1>4, LearnsAlone
<1>7. ~Filing /\ ~Filing'  BY <1>2, <1>5 DEF Filing
<1>8. UNCHANGED <<words, fragments, fragmentWords>> /\ revWords' = Append(revWords, pen.word)
  BY DEF AddRevWord
<1>9. words \in [DOMAIN words -> Nat]  BY DEF IndexInv, PartsInv
<1>10. PICK S : revWords \in Seq(S)  BY DEF IndexInv, PartsInv
<1>11. revWords \in Seq(S \cup {pen.word})  BY <1>10, SeqMonotonic
<1>12. /\ revWords' \in Seq(S \cup {pen.word}) /\ Len(revWords) \in Nat
       /\ Len(revWords') = Len(revWords) + 1 /\ revWords'[Len(revWords) + 1] = pen.word
       /\ \A i \in 1 .. Len(revWords) : revWords'[i] = revWords[i]
  BY <1>8, <1>11
<1>13. PartsInv'
  <2>1. fragments' \in Seq(Fragment) /\ fragmentWords' \in [DOMAIN fragmentWords' -> Seq(Nat)]
    BY <1>8 DEF IndexInv, PartsInv
  <2> QED  BY <2>1, <1>8, <1>9, <1>12 DEF PartsInv
<1>14. WordsInv'
  <2>1. SUFFICES ASSUME NEW v \in DOMAIN words
                 PROVE  words[v] < Len(revWords') /\ revWords'[words[v] + 1] = v
    BY <1>8 DEF WordsInv
  <2>2. words[v] \in Nat  BY <1>9
  <2>3. \/ words[v] < Len(revWords) /\ revWords[words[v] + 1] = v
        \/ pen.word = v /\ words[v] = Len(revWords)
    BY <1>6 DEF IndexInv, WordsInv
  <2> QED  BY <2>2, <2>3, <1>12
<1>15. FiledInv' /\ OnceInv'  BY <1>6, <1>7, <1>8, FragmentsStand
<1> QED  BY <1>3, <1>6, <1>13, <1>14, <1>15 DEF IndexInv
----------------------------------------------------------------------------
(* The fragments *)

\* What the words' ids lead to does not change with the fragments.
LEMMA WordsStand ==
  ASSUME IndexInv, UNCHANGED <<words, revWords>>, ~Resetting, pen.at # "revWord"
  PROVE  WordsInv'
BY DEF IndexInv, WordsInv

LEMMA AddFragmentKeeps ==
  ASSUME NEW g \in Actors, IndexInv, AddFragment(g)
  PROVE  IndexInv'
<1> DEFINE c0 == Head(pen.chain).c
<1>1. pen' = [pen EXCEPT !.at = IF c0 \in DOMAIN fragmentWords THEN "file" ELSE "list"]
  BY DEF AddFragment
<1>2. /\ pen'.at = IF c0 \in DOMAIN fragmentWords THEN "file" ELSE "list"
      /\ pen'.ids = pen.ids /\ pen'.chain = pen.chain
  BY <1>1 DEF IndexInv, PenInv
<1>3. pen.chain # <<>> /\ pen.chain \in Seq(Fragment)  BY DEF AddFragment, IndexInv, PenInv
<1>4. PenInv'  BY <1>1, <1>2, <1>3 DEF IndexInv, PenInv
<1>5. Learning(g, "fragment") /\ LearnsOnly  BY DEF AddFragment
<1>6. pen.at = "fragment"  BY <1>5 DEF Learning
<1>7. ~Resetting /\ ~Resetting' /\ MutexInv' /\ ResetInv'  BY <1>2, <1>5, LearnsAlone
<1>8. ~Filing /\ Filing'  BY <1>2, <1>6 DEF Filing
<1>9. /\ UNCHANGED <<words, revWords, fragmentWords>>
      /\ fragments' = Append(fragments, Head(pen.chain))
  BY DEF AddFragment
<1>10. fragments \in Seq(Fragment) /\ fragmentWords \in [DOMAIN fragmentWords -> Seq(Nat)]
  BY DEF IndexInv, PartsInv
<1>11. Head(pen.chain) \in Fragment  BY <1>3
<1>12. /\ fragments' \in Seq(Fragment) /\ Len(fragments) \in Nat
       /\ Len(fragments') = Len(fragments) + 1
       /\ fragments'[Len(fragments) + 1] = Head(pen.chain)
       /\ \A i \in 1 .. Len(fragments) : fragments'[i] = fragments[i]
  BY <1>9, <1>10, <1>11
<1>13. PartsInv'  BY <1>9, <1>10, <1>12 DEF IndexInv, PartsInv
<1>14. WordsInv'  BY <1>6, <1>7, <1>9, WordsStand
<1>15. FiledInv'
  <2>1. SUFFICES ASSUME NEW c \in DOMAIN fragmentWords, NEW i \in DOMAIN fragmentWords[c]
                 PROVE  /\ fragmentWords[c][i] < Len(fragments')
                        /\ fragments'[fragmentWords[c][i] + 1].c = c
                        /\ fragmentWords[c][i] # Len(fragments') - 1
    BY <1>9 DEF FiledInv
  <2>2. fragmentWords[c][i] \in Nat  BY <1>10
  <2>3. fragmentWords[c][i] < Len(fragments) /\ fragments[fragmentWords[c][i] + 1].c = c
    BY <1>7 DEF IndexInv, FiledInv
  <2> QED  BY <2>2, <2>3, <1>12
<1>16. OnceInv'
  <2>1. ASSUME NEW id \in 0 .. Len(fragments') - 1, id # Len(fragments') - 1
        PROVE  /\ fragments'[id + 1].c \in DOMAIN fragmentWords
               /\ Cardinality({i \in DOMAIN fragmentWords[fragments'[id + 1].c] :
                                 fragmentWords[fragments'[id + 1].c][i] = id}) = 1
    <3>1. id \in 0 .. Len(fragments) - 1 /\ fragments'[id + 1] = fragments[id + 1]
      BY <2>1, <1>12
    <3>2. /\ fragments[id + 1].c \in DOMAIN fragmentWords
          /\ Cardinality({i \in DOMAIN fragmentWords[fragments[id + 1].c] :
                            fragmentWords[fragments[id + 1].c][i] = id}) = 1
      BY <3>1, <1>7, <1>8 DEF IndexInv, OnceInv, FiledUnder
    <3> QED  BY <3>1, <3>2
  <2>2. Len(fragments') > 0 /\ fragments'[Len(fragments')] = Head(pen'.chain)
    BY <1>2, <1>12
  <2>3. /\ pen'.at = "file" => Head(pen'.chain).c \in DOMAIN fragmentWords
        /\ pen'.at = "list" => Head(pen'.chain).c \notin DOMAIN fragmentWords
    BY <1>2
  <2> QED  BY <2>1, <2>2, <2>3, <1>8, <1>9 DEF OnceInv, FiledUnder
<1> QED  BY <1>4, <1>7, <1>13, <1>14, <1>15, <1>16 DEF IndexInv

LEMMA MakeListKeeps ==
  ASSUME NEW g \in Actors, IndexInv, MakeList(g)
  PROVE  IndexInv'
<1> DEFINE c0 == Head(pen.chain).c
<1>1. pen' = [pen EXCEPT !.at = "file"]  BY DEF MakeList
<1>2. pen'.at = "file" /\ pen'.ids = pen.ids /\ pen'.chain = pen.chain
  BY <1>1 DEF IndexInv, PenInv
<1>3. Learning(g, "list") /\ LearnsOnly  BY DEF MakeList
<1>4. pen.at = "list"  BY <1>3 DEF Learning
<1>5. pen.chain # <<>> /\ pen.chain \in Seq(Fragment)  BY <1>4 DEF IndexInv, PenInv
<1>6. PenInv'  BY <1>1, <1>2, <1>5 DEF IndexInv, PenInv
<1>7. ~Resetting /\ ~Resetting' /\ MutexInv' /\ ResetInv'  BY <1>2, <1>3, LearnsAlone
<1>8. Filing /\ Filing'  BY <1>2, <1>4 DEF Filing
<1>9. /\ UNCHANGED <<words, revWords, fragments>>
      /\ fragmentWords' = [c \in DOMAIN fragmentWords \cup {c0} |->
                             IF c = c0 THEN <<>> ELSE fragmentWords[c]]
  BY DEF MakeList
<1>f. fragments' = fragments  BY <1>9
<1>10. c0 \notin DOMAIN fragmentWords  BY <1>4, <1>7 DEF IndexInv, OnceInv
<1> HIDE DEF c0
<1>11. /\ DOMAIN fragmentWords' = DOMAIN fragmentWords \cup {c0} /\ fragmentWords'[c0] = <<>>
       /\ \A c \in DOMAIN fragmentWords : c # c0 /\ fragmentWords'[c] = fragmentWords[c]
  BY <1>9, <1>10
<1>12. PartsInv'
  <2>1. fragmentWords' \in [DOMAIN fragmentWords' -> Seq(Nat)]
    BY <1>9 DEF IndexInv, PartsInv
  <2> QED  BY <2>1, <1>9 DEF IndexInv, PartsInv
<1>13. WordsInv'  BY <1>4, <1>7, <1>9, WordsStand
<1>14. FiledInv'
  <2>1. SUFFICES ASSUME NEW c \in DOMAIN fragmentWords', NEW i \in DOMAIN fragmentWords'[c]
                 PROVE  /\ fragmentWords'[c][i] < Len(fragments)
                        /\ fragments[fragmentWords'[c][i] + 1].c = c
                        /\ fragmentWords'[c][i] # Len(fragments) - 1
    BY <1>f DEF FiledInv
  <2>2. c # c0  BY <1>11
  <2>3. c \in DOMAIN fragmentWords /\ fragmentWords'[c] = fragmentWords[c]  BY <2>2, <1>11
  <2> QED  BY <2>3, <1>7, <1>8 DEF IndexInv, FiledInv
<1>15. OnceInv'
  <2>1. ASSUME NEW id \in 0 .. Len(fragments) - 1, id # Len(fragments) - 1
        PROVE  /\ fragments[id + 1].c \in DOMAIN fragmentWords'
               /\ Cardinality({i \in DOMAIN fragmentWords'[fragments[id + 1].c] :
                                 fragmentWords'[fragments[id + 1].c][i] = id}) = 1
    <3>1. /\ fragments[id + 1].c \in DOMAIN fragmentWords
          /\ Cardinality({i \in DOMAIN fragmentWords[fragments[id + 1].c] :
                            fragmentWords[fragments[id + 1].c][i] = id}) = 1
      BY <2>1, <1>7 DEF IndexInv, OnceInv, FiledUnder
    <3> QED  BY <3>1, <1>11
  <2>2. Len(fragments) > 0 /\ fragments[Len(fragments)] = Head(pen.chain)
    BY <1>7, <1>8 DEF IndexInv, OnceInv
  <2>3. Head(pen'.chain).c \in DOMAIN fragmentWords'  BY <1>2, <1>11 DEF c0
  <2> QED  BY <2>1, <2>2, <2>3, <1>2, <1>8, <1>f DEF OnceInv, FiledUnder
<1> QED  BY <1>6, <1>7, <1>12, <1>13, <1>14, <1>15 DEF IndexInv

LEMMA FileFragmentKeeps ==
  ASSUME NEW g \in Actors, IndexInv, FileFragment(g)
  PROVE  IndexInv'
<1> DEFINE c0   == Head(pen.chain).c
           list == fragmentWords[c0]
           last == Len(fragments) - 1
<1>1. pen' = [pen EXCEPT !.at = "fragment", !.chain = Tail(@)]  BY DEF FileFragment
<1>2. pen'.at = "fragment" /\ pen'.ids = pen.ids /\ pen'.chain = Tail(pen.chain)
  BY <1>1 DEF IndexInv, PenInv
<1>3. Learning(g, "file") /\ LearnsOnly  BY DEF FileFragment
<1>4. pen.at = "file"  BY <1>3 DEF Learning
<1>5. pen.chain # <<>> /\ pen.chain \in Seq(Fragment)  BY <1>4 DEF IndexInv, PenInv
<1>6. PenInv'
  <2>1. Tail(pen.chain) \in Seq(Fragment)  BY <1>5
  <2> QED  BY <2>1, <1>1, <1>2 DEF IndexInv, PenInv
<1>7. ~Resetting /\ ~Resetting' /\ MutexInv' /\ ResetInv'  BY <1>2, <1>3, LearnsAlone
<1>8. Filing /\ ~Filing'  BY <1>2, <1>4 DEF Filing
<1>9. /\ UNCHANGED <<words, revWords, fragments>>
      /\ fragmentWords' = [fragmentWords EXCEPT ![c0] = Append(@, last)]
  BY DEF FileFragment
<1>f. fragments' = fragments /\ pen'.at \notin {"list", "file"}  BY <1>2, <1>9
<1>10. /\ c0 \in DOMAIN fragmentWords
       /\ Len(fragments) > 0 /\ fragments[Len(fragments)] = Head(pen.chain)
  BY <1>4, <1>7, <1>8 DEF IndexInv, OnceInv
<1>11. fragments \in Seq(Fragment) /\ fragmentWords \in [DOMAIN fragmentWords -> Seq(Nat)]
  BY DEF IndexInv, PartsInv
<1>12. last \in Nat /\ Len(fragments) \in Nat /\ last + 1 = Len(fragments)  BY <1>10, <1>11
<1>13. fragments[last + 1].c = c0  BY <1>10, <1>12
<1>14. \A c \in DOMAIN fragmentWords : \A i \in DOMAIN fragmentWords[c] :
          /\ fragmentWords[c][i] < Len(fragments) /\ fragments[fragmentWords[c][i] + 1].c = c
          /\ fragmentWords[c][i] # last
  BY <1>7, <1>8 DEF IndexInv, FiledInv
<1> HIDE DEF c0, last
<1>15. list \in Seq(Nat)  BY <1>10, <1>11
<1>16. /\ DOMAIN fragmentWords' = DOMAIN fragmentWords
       /\ fragmentWords'[c0] = Append(list, last)
       /\ \A c \in DOMAIN fragmentWords : c # c0 => fragmentWords'[c] = fragmentWords[c]
  BY <1>9, <1>10
<1>17. /\ Append(list, last) \in Seq(Nat) /\ Len(list) \in Nat
       /\ DOMAIN Append(list, last) = 1 .. Len(list) + 1 /\ DOMAIN list = 1 .. Len(list)
       /\ Append(list, last)[Len(list) + 1] = last
       /\ \A i \in 1 .. Len(list) : Append(list, last)[i] = list[i]
  BY <1>12, <1>15
<1>18. PartsInv'
  <2>1. \A c \in DOMAIN fragmentWords : fragmentWords'[c] \in Seq(Nat)
    BY <1>11, <1>16, <1>17
  <2>2. fragmentWords' \in [DOMAIN fragmentWords' -> Seq(Nat)]
    BY <2>1, <1>9, <1>16
  <2> QED  BY <2>2, <1>9 DEF IndexInv, PartsInv
<1>19. WordsInv'  BY <1>4, <1>7, <1>9, WordsStand
<1>20. FiledInv'
  <2>1. SUFFICES ASSUME NEW c \in DOMAIN fragmentWords, NEW i \in DOMAIN fragmentWords'[c]
                 PROVE  /\ fragmentWords'[c][i] < Len(fragments)
                        /\ fragments[fragmentWords'[c][i] + 1].c = c
    BY <1>8, <1>9, <1>16 DEF FiledInv
  <2>2. CASE c # c0
    <3>1. fragmentWords'[c] = fragmentWords[c]  BY <2>2, <1>16
    <3> QED  BY <3>1, <1>14
  <2>3. CASE c = c0
    <3>1. i \in 1 .. Len(list) + 1 /\ fragmentWords'[c] = Append(list, last)
      BY <2>3, <1>16, <1>17
    <3>2. CASE i = Len(list) + 1
      <4>1. fragmentWords'[c][i] = last  BY <3>1, <3>2, <1>17
      <4> QED  BY <4>1, <2>3, <1>12, <1>13
    <3>3. CASE i # Len(list) + 1
      <4>1. i \in 1 .. Len(list)  BY <3>1, <3>3, <1>17
      <4>2. fragmentWords'[c][i] = list[i]  BY <3>1, <4>1, <1>17
      <4>3. i \in DOMAIN fragmentWords[c]  BY <4>1, <1>17, <2>3
      <4> QED  BY <4>2, <4>3, <1>14, <2>3
    <3> QED  BY <3>2, <3>3
  <2> QED  BY <2>2, <2>3
<1>21. OnceInv'
  <2>1. SUFFICES ASSUME NEW id \in 0 .. Len(fragments) - 1
                 PROVE  /\ fragments[id + 1].c \in DOMAIN fragmentWords'
                        /\ Cardinality({i \in DOMAIN fragmentWords'[fragments[id + 1].c] :
                                          fragmentWords'[fragments[id + 1].c][i] = id}) = 1
    BY <1>f, <1>8 DEF OnceInv, FiledUnder
  <2>2. CASE id = last
    <3>1. fragments[id + 1].c = c0  BY <2>2, <1>13
    <3>2. {i \in DOMAIN Append(list, last) : Append(list, last)[i] = last} = {Len(list) + 1}
      <4>1. \A i \in 1 .. Len(list) : Append(list, last)[i] # last
        BY <1>10, <1>14, <1>17
      <4>2. \A i \in 1 .. Len(list) + 1 : i \in 1 .. Len(list) \/ i = Len(list) + 1
        BY <1>17
      <4> HIDE DEF list
      <4> QED  BY <4>1, <4>2, <1>17
    <3>3. Cardinality({Len(list) + 1}) = 1  BY FS_Singleton
    <3> QED  BY <2>2, <3>1, <3>2, <3>3, <1>10, <1>16
  <2>3. CASE id # last
    <3>1. /\ fragments[id + 1].c \in DOMAIN fragmentWords
          /\ Cardinality({i \in DOMAIN fragmentWords[fragments[id + 1].c] :
                            fragmentWords[fragments[id + 1].c][i] = id}) = 1
      BY <2>1, <2>3, <1>7 DEF IndexInv, OnceInv, FiledUnder, last
    <3>2. CASE fragments[id + 1].c # c0
      <4>1. fragmentWords'[fragments[id + 1].c] = fragmentWords[fragments[id + 1].c]
        BY <3>1, <3>2, <1>16
      <4> QED  BY <3>1, <4>1, <1>16
    <3>3. CASE fragments[id + 1].c = c0
      <4>1. {i \in DOMAIN Append(list, last) : Append(list, last)[i] = id}
              = {i \in DOMAIN list : list[i] = id}
        <5>1. \A i \in 1 .. Len(list) + 1 : i \in 1 .. Len(list) \/ i = Len(list) + 1
          BY <1>17
        <5>2. \A i \in 1 .. Len(list) : i \in 1 .. Len(list) + 1  BY <1>17
        <5> HIDE DEF list
        <5> QED  BY <5>1, <5>2, <2>3, <1>17
      <4> QED  BY <3>1, <3>3, <4>1, <1>16
    <3> QED  BY <3>2, <3>3
  <2> QED  BY <2>2, <2>3
<1> QED  BY <1>6, <1>7, <1>18, <1>19, <1>20, <1>21 DEF IndexInv

----------------------------------------------------------------------------
(* Every step keeps the indexes *)

LEMMA IndexStep == IndexInv /\ [Next]_vars => IndexInv'
<1> SUFFICES ASSUME IndexInv, [Next]_vars PROVE IndexInv'  OBVIOUS
<1>1. ASSUME NEW g \in Actors, Learner(g)  PROVE IndexInv'
  BY <1>1, LockKeeps, ResetKeeps, QueryKeeps, LearnStringKeeps, FindOrAddWordKeeps,
     AddRevWordKeeps, LearnSimpleTokensKeeps, AddFragmentKeeps, MakeListKeeps,
     FileFragmentKeeps, EndSentenceKeeps, EndRowKeeps, UnlockKeeps
     DEF Learner
<1>2. ASSUME NEW g \in Goroutines, Speaker(g) \/ Ask(g)  PROVE IndexInv'
  <2>1. Outside(g)  BY <1>2, SpeakerElsewhere
  <2> QED  BY <2>1, ElsewhereKeeps DEF Outside
<1>3. CASE Store \/ HourPasses
  BY <1>3, ElsewhereKeeps DEF Store, HourPasses
<1>4. CASE UNCHANGED vars
  BY <1>4, ElsewhereKeeps DEF vars
<1> QED  BY <1>1, <1>2, <1>3, <1>4 DEF Next, Step

\* The invariant holds for any rows and any number of goroutines, each with
\* one of its jobs (markov3/learning.go, triggers/markov.go).
THEOREM IndexInvariance == Spec => []IndexInv
<1>1. Init => IndexInv  BY IndexInit
<1>2. IndexInv /\ [Next]_vars => IndexInv'  BY IndexStep
<1> QED  BY <1>1, <1>2, PTL DEF Spec

\* The parts of the model have their types, and one goroutine holds the mutex and
\* learns or resets (learningMutex).
THEOREM ModelTypeCorrect == Spec => []ModelTypeOK
<1>1. IndexInv => ModelTypeOK  BY DEF IndexInv, PartsInv, MutexInv, ModelTypeOK
<1> QED  BY <1>1, IndexInvariance, PTL

\* Between any two writes of a learner, and across every rebuild, a word's id
\* leads back to the word, an id filed under a word is that of a fragment around
\* it, and every fragment is filed once (AddWord, AddFragment, Reset).
THEOREM IndexesCorrect == Spec => []IndexesAgree
<1>1. IndexInv => IndexesAgree
  BY DEF IndexInv, WordsInv, FiledInv, OnceInv, IndexesAgree, Filing, FiledUnder
<1> QED  BY <1>1, IndexInvariance, PTL

----------------------------------------------------------------------------
(* The sentences of a row *)

LEMMA NatMinimum ==
  ASSUME NEW T, T \subseteq Nat, T # {}
  PROVE  \E m \in T : \A n \in T : m <= n
<1>1. PICK m \in T : \A n \in T : <<n, m>> \notin OpToRel(<, Nat)
  BY NatLessThanWellFounded, WFMin
<1>2. \A x, y \in Nat : <<y, x>> \in OpToRel(<, Nat) <=> y < x  BY DEF OpToRel
<1>3. ASSUME NEW n \in T  PROVE m <= n
  <2>1. m \in Nat /\ n \in Nat  OBVIOUS
  <2>2. ~(n < m)  BY <1>1, <1>2, <2>1
  <2> QED  BY <2>1, <2>2
<1> QED  BY <1>3

\* A set of numbers after a that has no gaps is as long as it is large.
LEMMA NoGaps ==
  ASSUME NEW a \in Nat, NEW b \in Nat, NEW A, A \subseteq a + 1 .. b,
         \A p \in A : \A q \in a + 1 .. p : q \in A
  PROVE  Cardinality(A) \in Nat /\ A = a + 1 .. a + Cardinality(A)
<1> DEFINE T == {n \in Nat : n > a /\ n \notin A}
<1>1. a + b + 1 \in T  OBVIOUS
<1>2. PICK m \in T : \A n \in T : m <= n  BY <1>1, NatMinimum
<1>3. m \in Nat /\ m > a /\ m \notin A  OBVIOUS
<1>4. ASSUME NEW n \in a + 1 .. m - 1  PROVE n \in A
  <2>1. n \in Nat /\ n > a /\ ~(m <= n)  BY <1>3
  <2> QED  BY <1>2, <2>1
<1>5. ASSUME NEW n \in A  PROVE n \in a + 1 .. m - 1
  <2>1. n \in Nat /\ a + 1 <= n  OBVIOUS
  <2>2. n >= m => m \in a + 1 .. n  BY <1>3, <2>1
  <2>3. ~(n >= m)  BY <1>3, <2>2
  <2> QED  BY <1>3, <2>1, <2>3
<1>6. A = a + 1 .. m - 1
  <2> HIDE DEF T
  <2> QED  BY <1>4, <1>5
<1>7. Cardinality(A) = m - 1 - a
  <2> HIDE DEF T
  <2>1. a + 1 \in Int /\ m - 1 \in Int  BY <1>3
  <2>2. Cardinality(a + 1 .. m - 1) = IF a + 1 > m - 1 THEN 0 ELSE (m - 1) - (a + 1) + 1
    BY <2>1, FS_Interval
  <2>3. Cardinality(a + 1 .. m - 1) = m - 1 - a  BY <1>3, <2>2
  <2> QED  BY <1>6, <2>3
<1> HIDE DEF T
<1> QED  BY <1>3, <1>6, <1>7

\* The sentence ends before a place of a row, where a sentence starts and how long it is.
EndsBefore(row, p) == Cardinality({e \in 1 .. p - 1 : row[e] = SentEnd})
BeforeSentence(row, n) == {p \in 1 .. Len(row) : EndsBefore(row, p) < n}
SentenceAt(row, n) == {p \in 1 .. Len(row) : EndsBefore(row, p) = n /\ row[p] # SentEnd}

LEMMA SentencesAre ==
  ASSUME NEW row
  PROVE  Sentences(row) =
           [n \in 1 .. IF row = <<>> THEN 0 ELSE EndsBefore(row, Len(row)) + 1 |->
              [i \in 1 .. Cardinality(SentenceAt(row, n - 1)) |->
                 row[Cardinality(BeforeSentence(row, n - 1)) + i]]]
  BY DEF Sentences, EndsBefore, BeforeSentence, SentenceAt

LEMMA EndsCount ==
  ASSUME NEW row, NEW p \in Nat \ {0}
  PROVE  /\ EndsBefore(row, p) \in Nat
         /\ EndsBefore(row, p + 1) = EndsBefore(row, p) + (IF row[p] = SentEnd THEN 1 ELSE 0)
         /\ \A q \in 1 .. p : EndsBefore(row, q) <= EndsBefore(row, p)
<1> DEFINE E(q) == {e \in 1 .. q - 1 : row[e] = SentEnd}
<1>1. ASSUME NEW q \in Nat \ {0}  PROVE IsFiniteSet(E(q)) /\ Cardinality(E(q)) \in Nat
  <2>1. IsFiniteSet(1 .. q - 1)  BY FS_Interval
  <2>2. E(q) \in SUBSET (1 .. q - 1)  OBVIOUS
  <2>3. IsFiniteSet(E(q))  BY <2>1, <2>2, FS_Subset
  <2> QED  BY <2>3, FS_CardinalityType
<1>2. EndsBefore(row, p + 1) = EndsBefore(row, p) + (IF row[p] = SentEnd THEN 1 ELSE 0)
  <2>1. p \notin E(p)  OBVIOUS
  <2>2. E(p + 1) = IF row[p] = SentEnd THEN E(p) \cup {p} ELSE E(p)
    <3>1. \A e \in 1 .. p : e \in 1 .. p - 1 \/ e = p  OBVIOUS
    <3>2. 1 .. (p + 1) - 1 = 1 .. p /\ 1 .. p - 1 \subseteq 1 .. p /\ p \in 1 .. p  OBVIOUS
    <3> QED  BY <3>1, <3>2
  <2> HIDE DEF E
  <2>3. Cardinality(E(p) \cup {p}) = Cardinality(E(p)) + 1  BY <1>1, <2>1, FS_AddElement
  <2>4. Cardinality(E(p + 1)) = Cardinality(E(p)) + (IF row[p] = SentEnd THEN 1 ELSE 0)
    BY <1>1, <2>2, <2>3
  <2> QED  BY <2>4 DEF E, EndsBefore
<1>3. ASSUME NEW q \in 1 .. p  PROVE EndsBefore(row, q) <= EndsBefore(row, p)
  <2>1. E(q) \in SUBSET E(p)  OBVIOUS
  <2> HIDE DEF E
  <2>2. Cardinality(E(q)) <= Cardinality(E(p))  BY <1>1, <2>1, FS_Subset
  <2> QED  BY <2>2 DEF E, EndsBefore
<1>4. EndsBefore(row, p) \in Nat
  <2> HIDE DEF E
  <2>1. Cardinality(E(p)) \in Nat  BY <1>1
  <2> QED  BY <2>1 DEF E, EndsBefore
<1> QED  BY <1>2, <1>3, <1>4

\* A sentence is a stretch of its row.
LEMMA SentencePlaces ==
  ASSUME NEW S, NEW row \in Seq(S), NEW n \in Nat
  PROVE  LET start  == Cardinality(BeforeSentence(row, n))
             length == Cardinality(SentenceAt(row, n))
         IN /\ start \in Nat /\ length \in Nat
            /\ SentenceAt(row, n) = start + 1 .. start + length
<1> DEFINE start == Cardinality(BeforeSentence(row, n))
           length == Cardinality(SentenceAt(row, n))
<1>1. Len(row) \in Nat  OBVIOUS
<1>2. start \in Nat /\ BeforeSentence(row, n) = 1 .. start
  <2>1. BeforeSentence(row, n) \subseteq 0 + 1 .. Len(row)  BY DEF BeforeSentence
  <2>2. ASSUME NEW p \in BeforeSentence(row, n), NEW q \in 0 + 1 .. p
        PROVE  q \in BeforeSentence(row, n)
    <3>1. p \in 1 .. Len(row) /\ EndsBefore(row, p) < n  BY DEF BeforeSentence
    <3>2. EndsBefore(row, q) <= EndsBefore(row, p) /\ EndsBefore(row, p) \in Nat
      BY <3>1, <1>1, EndsCount
    <3>3. q \in 1 .. Len(row) /\ q \in Nat \ {0}  BY <3>1, <1>1
    <3>4. EndsBefore(row, q) \in Nat  BY <3>3, EndsCount
    <3> QED  BY <3>1, <3>2, <3>3, <3>4 DEF BeforeSentence
  <2>3. 0 \in Nat  OBVIOUS
  <2>4. Cardinality(BeforeSentence(row, n)) \in Nat
        /\ BeforeSentence(row, n) = 0 + 1 .. 0 + Cardinality(BeforeSentence(row, n))
    BY <2>1, <2>2, <2>3, <1>1, NoGaps
  <2>5. 0 + 1 .. 0 + Cardinality(BeforeSentence(row, n)) = 1 .. Cardinality(BeforeSentence(row, n))
    BY <2>4
  <2> QED  BY <2>4, <2>5
<1> HIDE DEF start
<1>3. SentenceAt(row, n) \subseteq start + 1 .. Len(row)
  <2> SUFFICES ASSUME NEW p \in SentenceAt(row, n)  PROVE p \in start + 1 .. Len(row)
    OBVIOUS
  <2>1. p \in 1 .. Len(row) /\ EndsBefore(row, p) = n  BY DEF SentenceAt
  <2>2. p \notin 1 .. start  BY <1>2, <2>1 DEF BeforeSentence
  <2> QED  BY <1>1, <1>2, <2>1, <2>2
<1>4. ASSUME NEW p \in SentenceAt(row, n), NEW q \in start + 1 .. p
      PROVE  q \in SentenceAt(row, n)
  <2>1. p \in 1 .. Len(row) /\ EndsBefore(row, p) = n /\ row[p] # SentEnd  BY DEF SentenceAt
  <2>2. q \in 1 .. Len(row) /\ q \in Nat \ {0} /\ p \in Nat \ {0}  BY <1>1, <1>2, <2>1
  <2>3. EndsBefore(row, q) <= EndsBefore(row, p) /\ EndsBefore(row, q) \in Nat
    BY <2>2, EndsCount
  <2>4. ~(EndsBefore(row, q) < n)
    <3>1. q \notin 1 .. start  BY <1>2, <2>2
    <3> QED  BY <1>2, <2>2, <3>1 DEF BeforeSentence
  <2>5. EndsBefore(row, q) = n  BY <2>1, <2>3, <2>4
  <2>6. row[q] # SentEnd
    <3>1. SUFFICES ASSUME row[q] = SentEnd  PROVE FALSE  OBVIOUS
    <3>2. EndsBefore(row, q + 1) = n + 1  BY <2>2, <2>5, <3>1, EndsCount
    <3>3. q # p  BY <2>1, <3>1
    <3>4. q + 1 \in 1 .. p  BY <2>2, <3>3
    <3>5. EndsBefore(row, q + 1) <= EndsBefore(row, p)  BY <2>2, <3>4, EndsCount
    <3> QED  BY <2>1, <3>2, <3>5
  <2> QED  BY <2>2, <2>5, <2>6 DEF SentenceAt
<1>5. length \in Nat /\ SentenceAt(row, n) = start + 1 .. start + length
  BY <1>1, <1>2, <1>3, <1>4, NoGaps
<1> QED  BY <1>2, <1>5 DEF start

\* The sentences of a stored row are sequences of words.
LEMMA SentencesTyped ==
  ASSUME NEW row \in Seq(Words \cup {SentEnd})
  PROVE  Sentences(row) \in Seq(Seq(Words))
<1> DEFINE count == IF row = <<>> THEN 0 ELSE EndsBefore(row, Len(row)) + 1
           sentence(n) == [i \in 1 .. Cardinality(SentenceAt(row, n - 1)) |->
                             row[Cardinality(BeforeSentence(row, n - 1)) + i]]
<1>1. count \in Nat
  <2>1. row # <<>> => Len(row) \in Nat \ {0}  OBVIOUS
  <2>2. row # <<>> => EndsBefore(row, Len(row)) \in Nat  BY <2>1, EndsCount
  <2> QED  BY <2>2
<1>2. ASSUME NEW n \in 1 .. count  PROVE sentence(n) \in Seq(Words)
  <2> DEFINE start == Cardinality(BeforeSentence(row, n - 1))
             length == Cardinality(SentenceAt(row, n - 1))
  <2>1. n - 1 \in Nat  BY <1>1
  <2>2. /\ start \in Nat /\ length \in Nat
        /\ SentenceAt(row, n - 1) = start + 1 .. start + length
    BY <2>1, SentencePlaces
  <2> HIDE DEF start, length
  <2>3. ASSUME NEW i \in 1 .. length  PROVE row[start + i] \in Words
    <3>1. start + i \in SentenceAt(row, n - 1)  BY <2>2
    <3>2. start + i \in 1 .. Len(row) /\ row[start + i] # SentEnd  BY <3>1 DEF SentenceAt
    <3> QED  BY <3>2
  <2>4. [i \in 1 .. length |-> row[start + i]] \in [1 .. length -> Words]  BY <2>3
  <2>5. [i \in 1 .. length |-> row[start + i]] \in Seq(Words)  BY <2>2, <2>4
  <2> QED  BY <2>5 DEF start, length
<1> HIDE DEF count, sentence
<1>3. [n \in 1 .. count |-> sentence(n)] \in [1 .. count -> Seq(Words)]  BY <1>2
<1>4. [n \in 1 .. count |-> sentence(n)] \in Seq(Seq(Words))  BY <1>1, <1>3
<1> QED  BY <1>4, SentencesAre DEF count, sentence

\* Every word of a row is in one of its sentences.
LEMMA SentencesCover ==
  ASSUME NEW row \in Seq(Words \cup {SentEnd}), NEW p \in 1 .. Len(row), row[p] # SentEnd
  PROVE  \E n \in DOMAIN Sentences(row) : \E i \in DOMAIN Sentences(row)[n] :
           Sentences(row)[n][i] = row[p]
<1> DEFINE n == EndsBefore(row, p)
           start == Cardinality(BeforeSentence(row, n))
           length == Cardinality(SentenceAt(row, n))
<1>1. Len(row) \in Nat \ {0} /\ p \in Nat \ {0} /\ row # <<>>  OBVIOUS
<1>2. n \in Nat /\ n <= EndsBefore(row, Len(row)) /\ EndsBefore(row, Len(row)) \in Nat
  BY <1>1, EndsCount
<1>3. /\ start \in Nat /\ length \in Nat
      /\ SentenceAt(row, n) = start + 1 .. start + length
  BY <1>2, SentencePlaces
<1>4. p \in SentenceAt(row, n)  BY DEF SentenceAt
<1>5. Sentences(row) =
        [m \in 1 .. EndsBefore(row, Len(row)) + 1 |->
           [i \in 1 .. Cardinality(SentenceAt(row, m - 1)) |->
              row[Cardinality(BeforeSentence(row, m - 1)) + i]]]
  BY <1>1, SentencesAre
<1> HIDE DEF n
<1>6. n + 1 \in 1 .. EndsBefore(row, Len(row)) + 1 /\ (n + 1) - 1 = n  BY <1>2
<1>7. Sentences(row)[n + 1] = [i \in 1 .. length |-> row[start + i]]  BY <1>5, <1>6
<1> HIDE DEF start, length
<1>8. p - start \in 1 .. length /\ start + (p - start) = p  BY <1>1, <1>3, <1>4
<1>9. n + 1 \in DOMAIN Sentences(row)  BY <1>5, <1>6
<1>10. /\ p - start \in DOMAIN Sentences(row)[n + 1]
       /\ Sentences(row)[n + 1][p - start] = row[p]
  BY <1>7, <1>8
<1> QED  BY <1>9, <1>10

----------------------------------------------------------------------------
(* What the learner has in hand, and what the model holds of the rows *)

Rest == pen.at \in {"fragment", "list", "file"}
InRow == Rest \/ pen.at \in {"sentence", "revWord"}

\* The sentences of the row in hand, and how many of them the learner is done with.
Split == Sentences(Rows[cursor + 1])
Ended == Len(Split) - Len(pen.sentences)

\* A learner takes the rows after the cursor in turn, each of them once.
PlaceInv ==
  /\ stored \in 0 .. Len(Rows) /\ cursor \in 0 .. stored
  /\ ~Resetting =>
       /\ pen.rows \in Seq(Nat)
       /\ \A i \in 1 .. Len(pen.rows) :
            pen.rows[i] = (IF InRow THEN cursor + 1 ELSE cursor) + i /\ pen.rows[i] <= stored
       /\ InRow => pen.row = cursor + 1 /\ cursor < stored

\* The first words of a sentence have their ids, the rest of it is to come.
InHand(sentence) ==
  /\ Len(sentence) = Len(pen.ids) + Len(Head(pen.sentences))
  /\ \A i \in 1 .. Len(pen.ids) : sentence[i] \in DOMAIN words /\ pen.ids[i] = words[sentence[i]]
  /\ \A i \in 1 .. Len(Head(pen.sentences)) : sentence[Len(pen.ids) + i] = Head(pen.sentences)[i]

\* Of the row's sentences those to come are whole; of the one begun the ids are noted.
HandInv ==
  ~Resetting =>
    /\ InRow =>
         /\ pen.sentences \in Seq(Seq(Words)) /\ Len(pen.sentences) <= Len(Split)
         /\ \A i \in 1 .. Len(pen.sentences) : Rest \/ i > 1 => pen.sentences[i] = Split[Ended + i]
         /\ Rest => Ended > 0
         /\ ~Rest /\ pen.sentences # <<>> => InHand(Split[Ended + 1])
    /\ Rest \/ pen.at = "row" \/ pen.sentences = <<>> => pen.ids = <<>>

\* Two words stand next to each other in a sentence of a stored row.
Adjacent(v, w) ==
  \E k \in 1 .. stored : \E n \in DOMAIN Sentences(Rows[k]) :
    <<v, w>> \in Neighbours(Sentences(Rows[k])[n])

Known(ids) == \A i \in DOMAIN ids : ids[i] < Len(revWords)
Linked(ids) ==
  \A i \in 1 .. Len(ids) - 1 : Adjacent(revWords[ids[i] + 1], revWords[ids[i + 1] + 1])

Triple(f) == <<f.l, f.c, f.r>>
Attested(f) == Known(Triple(f)) /\ Linked(Triple(f))

\* The model is whole until the first write of a Reset, and again after its last.
IsIntact == ~Resetting \/ pen.at = "words"

\* A whole model has the word "" and fragments of stored sentences only.
IntactInv ==
  IsIntact =>
    /\ revWords # <<>> /\ revWords[1] = Blank
    /\ \A c \in DOMAIN fragmentWords : \A i \in DOMAIN fragmentWords[c] :
         fragmentWords[c][i] < Len(fragments) /\ fragments[fragmentWords[c][i] + 1].c = c
    /\ \A i \in 1 .. Len(fragments) : Attested(fragments[i])
    /\ \A i \in 1 .. Len(pen.chain) : Attested(pen.chain[i])

RowsInv == PlaceInv /\ HandInv /\ IntactInv

----------------------------------------------------------------------------
(* What was taught stays taught *)

\* Words, fragments and rows are added after those that are there.
Grows ==
  /\ Len(revWords) <= Len(revWords') /\ \A i \in 1 .. Len(revWords) : revWords'[i] = revWords[i]
  /\ Len(fragments) <= Len(fragments')
  /\ \A i \in 1 .. Len(fragments) : fragments'[i] = fragments[i]
  /\ stored <= stored'

LEMMA LengthsTyped ==
  ASSUME PartsInv
  PROVE  Len(revWords) \in Nat /\ Len(fragments) \in Nat
<1>1. PICK S : revWords \in Seq(S)  BY DEF PartsInv
<1> QED  BY <1>1 DEF PartsInv

LEMMA TriplesTyped ==
  ASSUME NEW f \in Fragment
  PROVE  Triple(f) \in Seq(Nat) /\ Len(Triple(f)) = 3
  BY DEF Triple, Fragment

LEMMA LinksStay ==
  ASSUME PartsInv, PartsInv', PlaceInv, PlaceInv', Grows, NEW ids \in Seq(Nat), Known(ids)
  PROVE  Known(ids)' /\ (Linked(ids) => Linked(ids)')
<1>1. Len(revWords) \in Nat /\ Len(revWords') \in Nat  BY LengthsTyped
<1>2. stored \in Nat /\ stored' \in Nat /\ stored <= stored'  BY DEF PlaceInv, Grows
<1>3. ASSUME NEW i \in 1 .. Len(ids)
      PROVE  ids[i] < Len(revWords') /\ revWords'[ids[i] + 1] = revWords[ids[i] + 1]
  <2>1. ids[i] \in Nat /\ ids[i] < Len(revWords)  BY DEF Known
  <2>2. ids[i] + 1 \in 1 .. Len(revWords)  BY <1>1, <2>1
  <2> QED  BY <1>1, <2>1, <2>2 DEF Grows
<1>4. Known(ids)'  BY <1>3 DEF Known
<1>5. ASSUME NEW v, NEW w, Adjacent(v, w)  PROVE Adjacent(v, w)'
  <2>1. \A k \in 1 .. stored : k \in 1 .. stored'  BY <1>2
  <2> QED  BY <1>5, <2>1 DEF Adjacent
<1>6. ASSUME Linked(ids)  PROVE Linked(ids)'
  <2>1. SUFFICES ASSUME NEW i \in 1 .. Len(ids) - 1
                 PROVE  Adjacent(revWords[ids[i] + 1], revWords[ids[i + 1] + 1])'
    BY DEF Linked
  <2>2. i \in 1 .. Len(ids) /\ i + 1 \in 1 .. Len(ids)  OBVIOUS
  <2>3. Adjacent(revWords[ids[i] + 1], revWords[ids[i + 1] + 1])  BY <1>6 DEF Linked
  <2>4. Adjacent(revWords'[ids[i] + 1], revWords'[ids[i + 1] + 1])  BY <1>3, <2>2, <2>3
  <2>5. \A v, w : v = revWords'[ids[i] + 1] /\ w = revWords'[ids[i + 1] + 1] => Adjacent(v, w)'
    BY <1>5, <2>4
  <2> QED  BY <2>5 DEF Adjacent
<1> QED  BY <1>4, <1>6

LEMMA AttestedStays ==
  ASSUME PartsInv, PartsInv', PlaceInv, PlaceInv', Grows, NEW f \in Fragment, Attested(f)
  PROVE  Attested(f)'
  BY TriplesTyped, LinksStay DEF Attested

LEMMA IntactStays ==
  ASSUME IndexInv, IndexInv', PlaceInv, PlaceInv', IntactInv, IsIntact, ~Resetting', Grows,
         \A i \in 1 .. Len(fragments') :
           i \in 1 .. Len(fragments) \/ \E j \in 1 .. Len(pen.chain) : fragments'[i] = pen.chain[j],
         \A i \in 1 .. Len(pen'.chain) : \E j \in 1 .. Len(pen.chain) : pen'.chain[i] = pen.chain[j]
  PROVE  IntactInv'
<1>1. /\ PartsInv /\ PartsInv' /\ fragments \in Seq(Fragment) /\ pen.chain \in Seq(Fragment)
      /\ Len(revWords) \in Nat /\ Len(revWords') \in Nat
  BY LengthsTyped DEF IndexInv, PartsInv, PenInv
<1>2. revWords' # <<>> /\ revWords'[1] = Blank
  <2>1. revWords # <<>> /\ revWords[1] = Blank  BY DEF IntactInv
  <2>2. PICK S : revWords \in Seq(S)  BY <1>1 DEF PartsInv
  <2>3. Len(revWords) > 0  BY <2>1, <2>2
  <2>4. 1 \in 1 .. Len(revWords) /\ Len(revWords') > 0  BY <1>1, <2>3 DEF Grows
  <2>5. PICK T : revWords' \in Seq(T)  BY <1>1 DEF PartsInv
  <2> QED  BY <2>1, <2>4, <2>5 DEF Grows
<1>3. \A c \in DOMAIN fragmentWords' : \A i \in DOMAIN fragmentWords'[c] :
        fragmentWords'[c][i] < Len(fragments') /\ fragments'[fragmentWords'[c][i] + 1].c = c
  BY DEF IndexInv, FiledInv
<1>4. ASSUME NEW f \in Fragment,
             (\E i \in 1 .. Len(fragments) : f = fragments[i])
               \/ (\E j \in 1 .. Len(pen.chain) : f = pen.chain[j])
      PROVE  Attested(f)'
  <2>1. Attested(f)  BY <1>4 DEF IntactInv
  <2> QED  BY <1>1, <2>1, AttestedStays
<1>5. ASSUME NEW i \in 1 .. Len(fragments')  PROVE Attested(fragments[i])'
  <2>1. CASE i \in 1 .. Len(fragments)
    <3>1. fragments'[i] = fragments[i] /\ fragments[i] \in Fragment  BY <1>1, <2>1 DEF Grows
    <3>2. Attested(fragments[i])'  BY <1>4, <2>1, <3>1
    <3> QED  BY <3>1, <3>2 DEF Attested, Known, Linked, Triple
  <2>2. CASE \E j \in 1 .. Len(pen.chain) : fragments'[i] = pen.chain[j]
    <3>1. PICK f \in Fragment : f = fragments'[i] /\ \E j \in 1 .. Len(pen.chain) : f = pen.chain[j]
      BY <1>1, <2>2
    <3>2. Attested(f)'  BY <1>4, <3>1
    <3> QED  BY <3>1, <3>2
  <2> QED  BY <2>1, <2>2
<1>6. ASSUME NEW i \in 1 .. Len(pen'.chain)  PROVE Attested(pen.chain[i])'
  <2>1. PICK f \in Fragment : f = pen'.chain[i] /\ \E j \in 1 .. Len(pen.chain) : f = pen.chain[j]
    BY <1>1
  <2>2. Attested(f)'  BY <1>4, <2>1
  <2> QED  BY <2>1, <2>2
<1> QED  BY <1>2, <1>3, <1>5, <1>6 DEF IntactInv

\* A sequence between one element and two.
LEMMA Bracketed ==
  ASSUME NEW W, NEW a \in W, NEW s \in Seq(W), NEW b \in Seq(W), Len(b) = 2
  PROVE  LET t == <<a>> \o s \o b
         IN /\ Len(t) = Len(s) + 3 /\ t[1] = a /\ t[Len(s) + 2] = b[1] /\ t[Len(s) + 3] = b[2]
            /\ \A i \in 1 .. Len(s) : t[i + 1] = s[i]
<1> DEFINE u == <<a>> \o s
           m == Len(s)
<1>1. m \in Nat  OBVIOUS
<1>2. u \in Seq(W) /\ Len(u) = m + 1 /\ u[1] = a /\ \A i \in 1 .. m : u[i + 1] = s[i]
  <2>1. <<a>> \in Seq(W) /\ Len(<<a>>) = 1 /\ <<a>>[1] = a  OBVIOUS
  <2> DEFINE v == <<a>>
  <2> HIDE DEF v
  <2>2. /\ v \o s \in Seq(W) /\ Len(v \o s) = Len(v) + Len(s)
        /\ \A i \in 1 .. Len(v) + Len(s) :
             (v \o s)[i] = IF i <= Len(v) THEN v[i] ELSE s[i - Len(v)]
    BY <2>1, ConcatProperties DEF v
  <2>3. u = v \o s /\ Len(v) = 1 /\ v[1] = a  BY <2>1 DEF v
  <2> HIDE DEF u
  <2>4. 1 \in 1 .. m + 1 /\ \A i \in 1 .. m : i + 1 \in 1 .. 1 + m /\ ~(i + 1 <= 1) /\ (i + 1) - 1 = i
    BY <1>1
  <2> HIDE DEF m
  <2> QED  BY <2>2, <2>3, <2>4, <1>1 DEF m
<1> HIDE DEF u
<1>3. /\ Len(u \o b) = Len(u) + Len(b)
      /\ \A i \in 1 .. Len(u) + Len(b) :
           (u \o b)[i] = IF i <= Len(u) THEN u[i] ELSE b[i - Len(u)]
  BY <1>2, ConcatProperties
<1>4. /\ m + 2 \in 1 .. (m + 1) + 2 /\ m + 3 \in 1 .. (m + 1) + 2 /\ 1 \in 1 .. (m + 1) + 2
      /\ ~(m + 2 <= m + 1) /\ ~(m + 3 <= m + 1) /\ (m + 2) - (m + 1) = 1 /\ (m + 3) - (m + 1) = 2
      /\ \A i \in 1 .. m : i + 1 \in 1 .. (m + 1) + 2 /\ i + 1 <= m + 1
      /\ 1 <= m + 1 /\ (m + 1) + 2 = m + 3
  BY <1>1
<1> DEFINE t == u \o b
<1>5. t = <<a>> \o s \o b  BY DEF u
<1> HIDE DEF t, m
<1>6. /\ Len(t) = m + 3 /\ t[1] = a /\ t[m + 2] = b[1] /\ t[m + 3] = b[2]
      /\ \A i \in 1 .. m : t[i + 1] = s[i]
  BY <1>2, <1>3, <1>4 DEF t
<1> QED  BY <1>5, <1>6 DEF m

\* The fragments made of the ids of a stored sentence.
LEMMA ChainAttested ==
  ASSUME PartsInv, revWords # <<>>, revWords[1] = Blank,
         NEW k \in 1 .. stored, NEW n \in DOMAIN Sentences(Rows[k]),
         NEW sentence \in Seq(Words), sentence = Sentences(Rows[k])[n],
         NEW ids \in Seq(Nat), Len(ids) = Len(sentence),
         \A i \in 1 .. Len(ids) : ids[i] < Len(revWords) /\ revWords[ids[i] + 1] = sentence[i],
         NEW pos \in 1 .. Len(ids) + 1
  PROVE  Attested(CreateFragments(ids)[pos])
<1> DEFINE s == <<Blank>> \o sentence \o <<Blank, Blank>>
           m == Len(ids)
           f == CreateFragments(ids)[pos]
<1>1. Len(revWords) \in Nat /\ Len(revWords) > 0 /\ m \in Nat
  <2>1. PICK S : revWords \in Seq(S)  BY DEF PartsInv
  <2> QED  BY <2>1
<1>2. /\ Len(s) = m + 3 /\ s[1] = Blank /\ s[m + 2] = Blank /\ s[m + 3] = Blank
      /\ \A i \in 1 .. m : s[i + 1] = sentence[i]
  <2> DEFINE W == Words \cup {Blank}
             b == <<Blank, Blank>>
  <2>1. Blank \in W /\ sentence \in Seq(W) /\ b \in Seq(W) /\ Len(b) = 2
        /\ b[1] = Blank /\ b[2] = Blank
    OBVIOUS
  <2> HIDE DEF W, b
  <2>2. /\ Len(<<Blank>> \o sentence \o b) = Len(sentence) + 3
        /\ (<<Blank>> \o sentence \o b)[1] = Blank
        /\ (<<Blank>> \o sentence \o b)[Len(sentence) + 2] = b[1]
        /\ (<<Blank>> \o sentence \o b)[Len(sentence) + 3] = b[2]
        /\ \A i \in 1 .. Len(sentence) : (<<Blank>> \o sentence \o b)[i + 1] = sentence[i]
    BY <2>1, Bracketed
  <2>3. s = <<Blank>> \o sentence \o b  BY DEF b
  <2> HIDE DEF s
  <2> QED  BY <2>1, <2>2, <2>3
<1>3. ASSUME NEW j \in 0 .. m + 2
      PROVE  /\ safeGetWordID(ids, j) \in Nat /\ safeGetWordID(ids, j) < Len(revWords)
             /\ revWords[safeGetWordID(ids, j) + 1] = s[j + 1]
  <2>1. CASE j \in 1 .. m
    <3>1. safeGetWordID(ids, j) = ids[j] /\ ids[j] \in Nat  BY <2>1 DEF safeGetWordID
    <3>2. s[j + 1] = sentence[j]  BY <1>2, <2>1
    <3> QED  BY <2>1, <3>1, <3>2
  <2>2. CASE j \notin 1 .. m
    <3>1. safeGetWordID(ids, j) = 0  BY <2>2 DEF safeGetWordID, LeftMost
    <3>2. j = 0 \/ j = m + 1 \/ j = m + 2
      <4> HIDE DEF s, f, m
      <4> QED  BY <1>1, <2>2
    <3>3. s[j + 1] = Blank  BY <1>1, <1>2, <3>2
    <3> QED  BY <1>1, <3>1, <3>3
  <2> QED  BY <2>1, <2>2
<1>4. ASSUME NEW j \in 1 .. m + 2  PROVE Adjacent(s[j], s[j + 1])
  <2>1. j \in 1 .. Len(s) - 1  BY <1>1, <1>2
  <2>2. <<s[j], s[j + 1]>> \in Neighbours(sentence)  BY <2>1 DEF Neighbours
  <2> QED  BY <2>2 DEF Adjacent
<1>5. /\ pos - 1 \in 0 .. m + 2 /\ pos \in 0 .. m + 2 /\ pos + 1 \in 0 .. m + 2
      /\ pos \in 1 .. m + 2 /\ pos + 1 \in 1 .. m + 2 /\ (pos - 1) + 1 = pos
  BY <1>1
<1>6. /\ f.l = safeGetWordID(ids, pos - 1) /\ f.c = safeGetWordID(ids, pos)
      /\ f.r = safeGetWordID(ids, pos + 1)
  BY DEF CreateFragments
<1> HIDE DEF s, f, m
<1>7. /\ f.l \in Nat /\ f.c \in Nat /\ f.r \in Nat
      /\ f.l < Len(revWords) /\ f.c < Len(revWords) /\ f.r < Len(revWords)
      /\ revWords[f.l + 1] = s[pos] /\ revWords[f.c + 1] = s[pos + 1]
      /\ revWords[f.r + 1] = s[pos + 1 + 1]
  BY <1>3, <1>5, <1>6
<1>8. Adjacent(revWords[f.l + 1], revWords[f.c + 1]) /\ Adjacent(revWords[f.c + 1], revWords[f.r + 1])
  BY <1>4, <1>5, <1>7
<1> DEFINE t == Triple(f)
<1>9. /\ DOMAIN t = {1, 2, 3} /\ 1 .. Len(t) - 1 = {1, 2}
      /\ t[1] = f.l /\ t[2] = f.c /\ t[3] = f.r
  BY DEF Triple
<1> HIDE DEF t
<1>10. Known(t)  BY <1>7, <1>9 DEF Known
<1>11. Linked(t)
  <2>1. SUFFICES ASSUME NEW i \in {1, 2}
                 PROVE  Adjacent(revWords[t[i] + 1], revWords[t[i + 1] + 1])
    BY <1>9 DEF Linked
  <2>2. CASE i = 1  BY <1>8, <1>9, <2>2
  <2>3. CASE i = 2  BY <1>8, <1>9, <2>3
  <2> QED  BY <2>2, <2>3
<1> QED  BY <1>10, <1>11 DEF Attested, f, t

----------------------------------------------------------------------------
(* The learner keeps its place *)

LEMMA RowsTyped ==
  ASSUME NEW k \in 1 .. Len(Rows)
  PROVE  Rows[k] \in Seq(Words \cup {SentEnd}) /\ Sentences(Rows[k]) \in Seq(Seq(Words))
<1>1. Rows[k] \in Seq(Words \cup {SentEnd})  BY MarkovConstants
<1> QED  BY <1>1, SentencesTyped

\* Who has nothing in hand, or resets the model, is not in a row.
LEMMA EmptyHanded ==
  ASSUME stored' \in 0 .. Len(Rows), cursor' \in 0 .. stored', pen' = Idle \/ Resetting'
  PROVE  PlaceInv' /\ HandInv'
<1>1. CASE Resetting'  BY <1>1 DEF PlaceInv, HandInv
<1>2. CASE pen' = Idle
  <2>1. pen'.at = "row" /\ pen'.rows = <<>> /\ pen'.ids = <<>>  BY <1>2 DEF Idle
  <2>2. ~InRow' /\ ~Rest'  BY <2>1 DEF InRow, Rest
  <2>3. PlaceInv'  BY <2>1, <2>2 DEF PlaceInv
  <2>4. HandInv'  BY <2>1, <2>2 DEF HandInv
  <2> QED  BY <2>3, <2>4
<1> QED  BY <1>1, <1>2

LEMMA IntactSame ==
  ASSUME IntactInv, IsIntact, UNCHANGED <<revWords, fragments, fragmentWords, stored>>,
         pen'.chain = pen.chain \/ pen'.chain = <<>>
  PROVE  IntactInv'
<1>1. \A f : Attested(f) => Attested(f)'  BY DEF Attested, Known, Linked, Adjacent
<1>2. fragments' = fragments /\ fragmentWords' = fragmentWords /\ revWords' = revWords  OBVIOUS
<1>3. \A i \in 1 .. Len(pen'.chain) : Attested(pen.chain[i])'
  <2>1. CASE pen'.chain = <<>>  BY <2>1
  <2>2. CASE pen'.chain = pen.chain
    <3>1. SUFFICES ASSUME NEW i \in 1 .. Len(pen'.chain)  PROVE Attested(pen.chain[i])'
      OBVIOUS
    <3>2. Attested(pen.chain[i])  BY <2>2, <3>1 DEF IntactInv
    <3>3. \A f : f = pen.chain[i] => Attested(f)'  BY <1>1, <3>2
    <3> QED  BY <2>2, <3>3
  <2> QED  BY <2>1, <2>2
<1>4. \A i \in 1 .. Len(fragments') : Attested(fragments[i])'
  <2>1. SUFFICES ASSUME NEW i \in 1 .. Len(fragments)  PROVE Attested(fragments[i])'
    BY <1>2
  <2>2. \A f : f = fragments[i] => Attested(f)'  BY <1>1 DEF IntactInv
  <2> QED  BY <1>2, <2>2
<1> QED  BY <1>2, <1>3, <1>4 DEF IntactInv

LEMMA SamePlace ==
  ASSUME PlaceInv, UNCHANGED <<cursor, stored>>, ~Resetting, ~Resetting', InRow, InRow',
         pen'.rows = pen.rows, pen'.row = pen.row
  PROVE  PlaceInv'
  BY DEF PlaceInv

\* A step that writes the model, or turns to the next of a sentence's fragments.
LEMMA SameHand ==
  ASSUME IndexInv, HandInv, UNCHANGED <<cursor, words>>, ~Resetting, InRow, InRow', Rest' <=> Rest,
         pen'.sentences = pen.sentences, pen'.ids = pen.ids
  PROVE  HandInv'
<1>1. pen.at # "row" /\ pen'.at # "row"  BY DEF InRow, Rest
<1>2. UNCHANGED <<Split, Ended>>  BY DEF Split, Ended
<1>3. \A s : InHand(s) => InHand(s)'  BY DEF InHand
<1>4. Split' = Split /\ Ended' = Ended  BY <1>2
<1>5. InHand(Split[Ended + 1]) => InHand(Split[Ended + 1])'
  <2>1. \A s : s = Split[Ended + 1] => (InHand(s) => InHand(s)')  BY <1>3
  <2> QED  BY <1>4, <2>1
<1> QED  BY <1>1, <1>4, <1>5 DEF HandInv

LEMMA LockRows ==
  ASSUME NEW g \in Actors, IndexInv, RowsInv, LockForLearning(g)
  PROVE  RowsInv'
<1>1. pen = Idle /\ UNCHANGED <<model, stored>>  BY DEF LockForLearning, IndexInv, MutexInv
<1>2. IsIntact  BY <1>1, ResetNames DEF IsIntact, Resetting, Idle
<1>3. pen' = Idle \/ pen' = [Idle EXCEPT !.at = "words"]  BY DEF LockForLearning
<1>4. pen' = Idle \/ Resetting'
  <2>1. pen' = [Idle EXCEPT !.at = "words"] => pen'.at = "words"  BY DEF Idle
  <2> QED  BY <1>3, <2>1, ResetNames DEF Resetting
<1>5. pen'.chain = <<>>  BY <1>3 DEF Idle
<1>6. PlaceInv' /\ HandInv'  BY <1>1, <1>4, EmptyHanded DEF RowsInv, PlaceInv, model
<1>7. IntactInv'  BY <1>1, <1>2, <1>5, IntactSame DEF RowsInv, model
<1> QED  BY <1>6, <1>7 DEF RowsInv

LEMMA ResetRows ==
  ASSUME NEW g \in Actors, IndexInv, RowsInv, Reset(g)
  PROVE  RowsInv'
<1>1. PICK n \in 1 .. Len(ResetSteps) :
        /\ pen.at = ResetSteps[n]
        /\ IF n < Len(ResetSteps)
           THEN pen' = [pen EXCEPT !.at = ResetSteps[n + 1]] /\ UNCHANGED <<at, expired>>
           ELSE pen' = Idle /\ Go(g, "query") /\ expired' = FALSE
  BY DEF Reset
<1>2. Len(ResetSteps) = 6  BY DEF ResetSteps
<1>3. cursor' = 0 /\ stored' = stored  BY DEF Reset
<1>4. stored' \in 0 .. Len(Rows) /\ cursor' \in 0 .. stored'  BY <1>3 DEF RowsInv, PlaceInv
<1>5. CASE n = 6
  <2>1. pen.at = "revBlank" /\ pen' = Idle  BY <1>1, <1>2, <1>5 DEF ResetSteps
  <2>2. revWords' = <<Blank>> /\ fragments' = fragments /\ fragmentWords' = fragmentWords
    BY <2>1 DEF Reset
  <2>3. fragments = <<>> /\ DOMAIN fragmentWords = {}  BY <2>1 DEF IndexInv, ResetInv
  <2>4. pen'.chain = <<>>  BY <2>1 DEF Idle
  <2>5. IntactInv'  BY <2>2, <2>3, <2>4 DEF IntactInv
  <2> QED  BY <1>4, <2>1, <2>5, EmptyHanded DEF RowsInv
<1>6. CASE n # 6
  <2>1. pen' = [pen EXCEPT !.at = ResetSteps[n + 1]]  BY <1>1, <1>2, <1>6
  <2>2. pen'.at = ResetSteps[n + 1]  BY <2>1 DEF IndexInv, PenInv
  <2>3. n \in 1 .. 5  BY <1>2, <1>6
  <2>4. ResetSteps[n + 1] \in {"revWords", "fragments", "fragmentWords", "blank", "revBlank"}
    BY <2>3 DEF ResetSteps
  <2>5. Resetting' /\ ~IsIntact'  BY <2>2, <2>4, ResetNames DEF Resetting, IsIntact
  <2>6. IntactInv'  BY <2>5 DEF IntactInv
  <2> QED  BY <1>4, <2>5, <2>6, EmptyHanded DEF RowsInv
<1> QED  BY <1>5, <1>6

LEMMA QueryRows ==
  ASSUME NEW g \in Actors, IndexInv, RowsInv, LearnFromRawMessages(g)
  PROVE  RowsInv'
<1> DEFINE given == [k \in 1 .. stored - cursor |-> cursor + k]
<1>1. /\ UNCHANGED <<model, stored>> /\ at[g] = "query"
      /\ pen' = [Idle EXCEPT !.rows = given]
  BY DEF LearnFromRawMessages
<1>2. pen = Idle  BY <1>1 DEF IndexInv, MutexInv
<1>3. pen.at = "row" /\ pen'.at = "row"  BY <1>1, <1>2 DEF Idle
<1>4. ~Resetting /\ ~Resetting' /\ ~InRow' /\ ~Rest'
  BY <1>3, ResetNames DEF Resetting, InRow, Rest
<1>5. pen'.rows = given /\ pen'.ids = <<>> /\ pen'.chain = <<>>  BY <1>1 DEF Idle
<1>6. PlaceInv'
  <2>1. stored \in Nat /\ cursor \in 0 .. stored /\ stored \in 0 .. Len(Rows)
    BY DEF RowsInv, PlaceInv
  <2>2. UNCHANGED <<cursor, stored>>  BY <1>1 DEF model
  <2>3. given \in [1 .. stored - cursor -> Nat] /\ stored - cursor \in Nat  BY <2>1
  <2>4. given \in Seq(Nat) /\ Len(given) = stored - cursor  BY <2>3
  <2>5. \A i \in 1 .. Len(given) : given[i] = cursor + i /\ given[i] <= stored  BY <2>1, <2>4
  <2> HIDE DEF given
  <2> QED  BY <1>4, <1>5, <2>1, <2>2, <2>4, <2>5 DEF PlaceInv
<1>7. HandInv'  BY <1>4, <1>5 DEF HandInv
<1>8. IntactInv'
  <2>1. IsIntact  BY <1>4 DEF IsIntact
  <2> QED  BY <1>1, <1>5, <2>1, IntactSame DEF RowsInv, model
<1> QED  BY <1>6, <1>7, <1>8 DEF RowsInv

LEMMA LearnStringRows ==
  ASSUME NEW g \in Actors, IndexInv, RowsInv, LearnString(g)
  PROVE  RowsInv'
<1> DEFINE k == Head(pen.rows)
<1>1. /\ Learning(g, "row") /\ LearnsOnly /\ pen.rows # <<>> /\ UNCHANGED model
      /\ pen' = [pen EXCEPT !.at = "sentence", !.row = k, !.rows = Tail(pen.rows),
                            !.sentences = Sentences(Rows[k])]
  BY DEF LearnString
<1>2. /\ pen'.at = "sentence" /\ pen'.row = k /\ pen'.rows = Tail(pen.rows)
      /\ pen'.sentences = Sentences(Rows[k]) /\ pen'.ids = pen.ids /\ pen'.chain = pen.chain
  BY <1>1 DEF IndexInv, PenInv
<1>3. UNCHANGED <<words, cursor, stored>>  BY <1>1 DEF model, LearnsOnly
<1>4. pen.at = "row"  BY <1>1 DEF Learning
<1>5. ~Resetting /\ ~Resetting' /\ ~InRow /\ InRow' /\ ~Rest'
  BY <1>2, <1>4, ResetNames DEF Resetting, InRow, Rest
<1>6. /\ pen.rows \in Seq(Nat) /\ Len(pen.rows) > 0 /\ stored \in Nat /\ cursor \in Nat
      /\ \A i \in 1 .. Len(pen.rows) : pen.rows[i] = cursor + i /\ pen.rows[i] <= stored
      /\ stored <= Len(Rows)
  BY <1>1, <1>5 DEF RowsInv, PlaceInv
<1>7. k = cursor + 1 /\ cursor < stored
  <2>1. k = pen.rows[1] /\ 1 \in 1 .. Len(pen.rows)  BY <1>6
  <2> QED  BY <1>6, <2>1
<1>8. PlaceInv'
  <2>1. Tail(pen.rows) \in Seq(Nat) /\ Len(Tail(pen.rows)) = Len(pen.rows) - 1
    BY <1>6
  <2>2. ASSUME NEW i \in 1 .. Len(Tail(pen.rows))
        PROVE  Tail(pen.rows)[i] = (cursor + 1) + i /\ Tail(pen.rows)[i] <= stored
    <3>1. i + 1 \in 1 .. Len(pen.rows) /\ Tail(pen.rows)[i] = pen.rows[i + 1]  BY <1>6, <2>1
    <3>2. pen.rows[i + 1] = cursor + (i + 1) /\ pen.rows[i + 1] <= stored  BY <1>6, <3>1
    <3> QED  BY <1>6, <3>1, <3>2
  <2> QED  BY <1>2, <1>3, <1>5, <1>7, <2>1, <2>2 DEF RowsInv, PlaceInv
<1>9. HandInv'
  <2>1. Split' = Sentences(Rows[k]) /\ Split' \in Seq(Seq(Words))
    <3>1. k \in 1 .. Len(Rows)  BY <1>6, <1>7
    <3> QED  BY <1>3, <1>7, <3>1, RowsTyped DEF Split
  <2> HIDE DEF k
  <2>2. pen'.sentences = Split' /\ Ended' = 0  BY <1>2, <2>1 DEF Ended
  <2>3. pen'.ids = <<>>  BY <1>2, <1>4, <1>5 DEF RowsInv, HandInv
  <2>4. pen'.sentences # <<>> => InHand(Split[Ended + 1])'
    <3>1. ASSUME pen'.sentences # <<>>  PROVE InHand(Split[Ended + 1])'
      <4>1. Head(pen'.sentences) = Split'[1] /\ Split'[1] \in Seq(Words)  BY <2>1, <2>2, <3>1
      <4>2. Ended' + 1 = 1 /\ Len(pen'.ids) = 0  BY <2>2, <2>3
      <4> QED  BY <2>3, <4>1, <4>2 DEF InHand
    <3> QED  BY <3>1
  <2>5. \A i \in 1 .. Len(pen'.sentences) : pen'.sentences[i] = Split'[Ended' + i]
    BY <2>1, <2>2
  <2>6. Len(pen'.sentences) <= Len(Split')  BY <2>1, <2>2
  <2> QED  BY <1>5, <2>1, <2>2, <2>3, <2>4, <2>5, <2>6 DEF HandInv
<1>10. IntactInv'
  <2>1. IsIntact  BY <1>5 DEF IsIntact
  <2> QED  BY <1>1, <1>2, <1>3, <2>1, IntactSame DEF RowsInv, model
<1> QED  BY <1>8, <1>9, <1>10 DEF RowsInv

LEMMA UnlockRows ==
  ASSUME NEW g \in Actors, IndexInv, RowsInv, UnlockLearned(g)
  PROVE  RowsInv'
<1>1. UNCHANGED <<model, stored>> /\ pen' = Idle /\ pen.at = "row"
  BY DEF UnlockLearned, Learning
<1>2. IsIntact  BY <1>1, ResetNames DEF IsIntact, Resetting
<1>3. pen'.chain = <<>>  BY <1>1 DEF Idle
<1>4. PlaceInv' /\ HandInv'  BY <1>1, EmptyHanded DEF RowsInv, PlaceInv, model
<1>5. IntactInv'  BY <1>1, <1>2, <1>3, IntactSame DEF RowsInv, model
<1> QED  BY <1>4, <1>5 DEF RowsInv

LEMMA EndRowRows ==
  ASSUME NEW g \in Actors, IndexInv, RowsInv, EndRow(g)
  PROVE  RowsInv'
<1>1. /\ Learning(g, "sentence") /\ LearnsOnly /\ pen.sentences = <<>> /\ cursor' = pen.row
      /\ pen' = [pen EXCEPT !.at = "row"]
      /\ UNCHANGED <<words, revWords, fragments, fragmentWords>>
  BY DEF EndRow
<1>2. /\ pen'.at = "row" /\ pen'.rows = pen.rows /\ pen'.ids = pen.ids /\ pen'.chain = pen.chain
      /\ pen.at = "sentence" /\ stored' = stored
  BY <1>1 DEF IndexInv, PenInv, Learning, LearnsOnly
<1>3. ~Resetting /\ ~Resetting' /\ InRow /\ ~InRow' /\ ~Rest'
  BY <1>2, ResetNames DEF Resetting, InRow, Rest
<1>4. PlaceInv'  BY <1>1, <1>2, <1>3 DEF RowsInv, PlaceInv
<1>5. HandInv'  BY <1>1, <1>2, <1>3 DEF RowsInv, HandInv
<1>6. IsIntact  BY <1>3 DEF IsIntact
<1>7. IntactInv'  BY <1>1, <1>2, <1>6, IntactSame DEF RowsInv
<1> QED  BY <1>4, <1>5, <1>7 DEF RowsInv

LEMMA EndSentenceRows ==
  ASSUME NEW g \in Actors, IndexInv, RowsInv, EndSentence(g)
  PROVE  RowsInv'
<1>1. /\ Learning(g, "fragment") /\ LearnsOnly /\ UNCHANGED model
      /\ pen' = [pen EXCEPT !.at = "sentence"]
  BY DEF EndSentence
<1>2. /\ pen'.at = "sentence" /\ pen'.rows = pen.rows /\ pen'.ids = pen.ids
      /\ pen'.chain = pen.chain /\ pen'.row = pen.row /\ pen'.sentences = pen.sentences
      /\ pen.at = "fragment" /\ stored' = stored /\ cursor' = cursor
  BY <1>1 DEF IndexInv, PenInv, Learning, LearnsOnly, model
<1>3. ~Resetting /\ ~Resetting' /\ InRow /\ InRow' /\ Rest /\ ~Rest'
  BY <1>2, ResetNames DEF Resetting, InRow, Rest
<1>4. PlaceInv'  BY <1>2, <1>3, SamePlace DEF RowsInv
<1>5. HandInv'
  <2>1. Split' = Split /\ Ended' = Ended  BY <1>2 DEF Split, Ended
  <2>2. /\ pen.sentences \in Seq(Seq(Words)) /\ Len(pen.sentences) <= Len(Split)
        /\ \A i \in 1 .. Len(pen.sentences) : pen.sentences[i] = Split[Ended + i]
        /\ pen.ids = <<>>
    BY <1>3 DEF RowsInv, HandInv
  <2>3. ASSUME pen.sentences # <<>>  PROVE InHand(Split[Ended + 1])'
    <3>1. /\ 1 \in 1 .. Len(pen.sentences) /\ Head(pen.sentences) = pen.sentences[1]
          /\ pen.sentences[1] \in Seq(Words)
      BY <2>2, <2>3
    <3>2. Head(pen.sentences) = Split[Ended + 1]  BY <2>2, <3>1
    <3>3. Head(pen'.sentences) = Split'[Ended' + 1] /\ Split'[Ended' + 1] \in Seq(Words)
      BY <1>2, <2>1, <3>1, <3>2
    <3>4. pen'.ids = <<>> /\ Len(pen'.ids) = 0  BY <1>2, <2>2
    <3> QED  BY <3>3, <3>4 DEF InHand
  <2> QED  BY <1>2, <1>3, <2>1, <2>2, <2>3 DEF HandInv
<1>6. IsIntact  BY <1>3 DEF IsIntact
<1>7. IntactInv'  BY <1>1, <1>2, <1>6, IntactSame DEF RowsInv, model
<1> QED  BY <1>4, <1>5, <1>7 DEF RowsInv

LEMMA OtherHead ==
  ASSUME NEW W, NEW s \in Seq(W), s # <<>>, NEW x \in W
  PROVE  LET t == <<x>> \o Tail(s)
         IN /\ t \in Seq(W) /\ t # <<>> /\ Len(t) = Len(s) /\ Head(t) = x
            /\ \A i \in 1 .. Len(s) : i > 1 => t[i] = s[i]
<1> DEFINE a == <<x>>
           b == Tail(s)
<1>1. a \in Seq(W) /\ Len(a) = 1 /\ a[1] = x  OBVIOUS
<1>2. /\ b \in Seq(W) /\ Len(s) \in Nat \ {0} /\ Len(b) = Len(s) - 1
      /\ \A i \in 1 .. Len(s) - 1 : b[i] = s[i + 1]
  OBVIOUS
<1> HIDE DEF a, b
<1>3. /\ a \o b \in Seq(W) /\ Len(a \o b) = Len(a) + Len(b)
      /\ \A i \in 1 .. Len(a) + Len(b) :
           (a \o b)[i] = IF i <= Len(a) THEN a[i] ELSE b[i - Len(a)]
  BY <1>1, <1>2, ConcatProperties
<1> DEFINE t == a \o b
<1> HIDE DEF t
<1>4. /\ t \in Seq(W) /\ Len(t) = Len(s)
      /\ \A i \in 1 .. Len(s) : t[i] = IF i <= 1 THEN a[i] ELSE b[i - 1]
  BY <1>1, <1>2, <1>3 DEF t
<1>5. t[1] = x /\ t # <<>> /\ Head(t) = t[1]  BY <1>1, <1>2, <1>4
<1>6. ASSUME NEW i \in 1 .. Len(s), i > 1  PROVE t[i] = s[i]
  <2>1. i - 1 \in 1 .. Len(s) - 1 /\ ~(i <= 1) /\ (i - 1) + 1 = i  BY <1>2, <1>6
  <2> QED  BY <1>2, <1>4, <2>1
<1>7. t = <<x>> \o Tail(s)  BY DEF t, a, b
<1> QED  BY <1>4, <1>5, <1>6, <1>7

LEMMA FindOrAddWordRows ==
  ASSUME NEW g \in Actors, IndexInv, IndexInv', RowsInv, FindOrAddWord(g)
  PROVE  RowsInv'
<1> DEFINE h == Head(pen.sentences)
           w == Head(h)
           sentences == <<Tail(h)>> \o Tail(pen.sentences)
<1>1. /\ Learning(g, "sentence") /\ LearnsOnly /\ pen.sentences # <<>> /\ h # <<>>
      /\ UNCHANGED <<revWords, fragments, fragmentWords, cursor>>
  BY DEF FindOrAddWord
<1>2. pen.at = "sentence"  BY <1>1 DEF Learning
<1>3. /\ w \in DOMAIN words' /\ pen'.ids = Append(pen.ids, words'[w])
      /\ \A v \in DOMAIN words : v \in DOMAIN words' /\ words'[v] = words[v]
      /\ pen'.at \in {"sentence", "revWord"} /\ pen'.rows = pen.rows /\ pen'.row = pen.row
      /\ pen'.sentences = sentences /\ pen'.chain = pen.chain
  <2> DEFINE rest == [pen EXCEPT !.sentences = sentences]
  <2> HIDE DEF sentences
  <2>a. /\ rest.at = "sentence" /\ rest.rows = pen.rows /\ rest.row = pen.row /\ rest.ids = pen.ids
        /\ rest.sentences = sentences /\ rest.chain = pen.chain
        /\ rest = [at |-> rest.at, rows |-> rest.rows, row |-> rest.row,
                   sentences |-> rest.sentences, ids |-> rest.ids, word |-> rest.word,
                   chain |-> rest.chain]
    <3>1. pen = [at |-> pen.at, rows |-> pen.rows, row |-> pen.row, sentences |-> pen.sentences,
                 ids |-> pen.ids, word |-> pen.word, chain |-> pen.chain]
      BY DEF IndexInv, PenInv
    <3>2. rest = [at |-> pen.at, rows |-> pen.rows, row |-> pen.row, sentences |-> sentences,
                  ids |-> pen.ids, word |-> pen.word, chain |-> pen.chain]
      BY <3>1
    <3> HIDE DEF rest
    <3> QED  BY <1>2, <3>2
  <2>1. CASE w \in DOMAIN words
    <3>1. pen' = [rest EXCEPT !.ids = Append(@, words[w])] /\ words' = words
      BY <2>1 DEF FindOrAddWord, sentences
    <3> HIDE DEF rest, w
    <3>2. /\ pen'.ids = Append(rest.ids, words[w]) /\ pen'.at = rest.at /\ pen'.rows = rest.rows
          /\ pen'.row = rest.row /\ pen'.sentences = rest.sentences /\ pen'.chain = rest.chain
      BY <3>1, <2>a
    <3> QED  BY <3>1, <3>2, <2>1, <2>a
  <2>2. CASE w \notin DOMAIN words
    <3>1. /\ pen' = [rest EXCEPT !.ids = Append(@, Len(revWords)), !.at = "revWord", !.word = w]
          /\ words' = [v \in DOMAIN words \cup {w} |-> IF v = w THEN Len(revWords) ELSE words[v]]
      BY <2>2 DEF FindOrAddWord, sentences
    <3> HIDE DEF rest, w
    <3>2. /\ pen'.ids = Append(rest.ids, Len(revWords)) /\ pen'.at = "revWord"
          /\ pen'.rows = rest.rows /\ pen'.row = rest.row /\ pen'.sentences = rest.sentences
          /\ pen'.chain = rest.chain
      BY <3>1, <2>a
    <3>3. w \in DOMAIN words' /\ words'[w] = Len(revWords)  BY <3>1
    <3>4. \A v \in DOMAIN words : v \in DOMAIN words' /\ words'[v] = words[v]  BY <3>1, <2>2
    <3> QED  BY <3>2, <3>3, <3>4, <2>a
  <2> QED  BY <2>1, <2>2
<1>4. ~Resetting /\ ~Resetting' /\ InRow /\ InRow' /\ ~Rest /\ ~Rest' /\ pen'.at # "row"
  BY <1>2, <1>3, ResetNames DEF Resetting, InRow, Rest
<1>5. stored' = stored /\ cursor' = cursor  BY <1>1 DEF LearnsOnly
<1>6. PlaceInv'  BY <1>3, <1>4, <1>5, SamePlace DEF RowsInv
<1>7. /\ pen.sentences \in Seq(Seq(Words)) /\ Len(pen.sentences) <= Len(Split)
      /\ \A i \in 1 .. Len(pen.sentences) : i > 1 => pen.sentences[i] = Split[Ended + i]
      /\ InHand(Split[Ended + 1])
  BY <1>1, <1>4 DEF RowsInv, HandInv
<1>8. h \in Seq(Words) /\ Tail(h) \in Seq(Words) /\ Len(h) \in Nat \ {0} /\ Len(Tail(h)) = Len(h) - 1
      /\ w = h[1] /\ \A i \in 1 .. Len(h) - 1 : Tail(h)[i] = h[i + 1]
  <2>1. h \in Seq(Words)  BY <1>1, <1>7
  <2> HIDE DEF h
  <2> QED  BY <1>1, <2>1 DEF w
<1>9. /\ sentences \in Seq(Seq(Words)) /\ sentences # <<>> /\ Len(sentences) = Len(pen.sentences)
      /\ Head(sentences) = Tail(h)
      /\ \A i \in 1 .. Len(pen.sentences) : i > 1 => sentences[i] = pen.sentences[i]
  <2> HIDE DEF h
  <2>1. PICK s, x : s = pen.sentences /\ x = Tail(h)  OBVIOUS
  <2>2. s \in Seq(Seq(Words)) /\ s # <<>> /\ x \in Seq(Words)  BY <1>1, <1>7, <1>8, <2>1
  <2>3. sentences = <<x>> \o Tail(s)  BY <2>1
  <2> HIDE DEF sentences
  <2> QED  BY <2>1, <2>2, <2>3, OtherHead
<1> HIDE DEF h, w, sentences
<1>10. Split' = Split /\ Ended' = Ended  BY <1>3, <1>5, <1>9 DEF Split, Ended
<1>11. InHand(Split[Ended + 1])'
  <2> DEFINE s == Split[Ended + 1]
             n == Len(pen.ids)
  <2>1. /\ Len(s) = n + Len(h)
        /\ \A i \in 1 .. n : s[i] \in DOMAIN words /\ pen.ids[i] = words[s[i]]
        /\ \A i \in 1 .. Len(h) : s[n + i] = h[i]
    BY <1>7 DEF InHand, h
  <2>2. pen.ids \in Seq(Nat) /\ n \in Nat  BY DEF IndexInv, PenInv
  <2>3. words'[w] \in Nat  BY <1>3 DEF IndexInv, PartsInv
  <2>4. /\ Len(pen'.ids) = n + 1 /\ pen'.ids[n + 1] = words'[w]
        /\ \A i \in 1 .. n : pen'.ids[i] = pen.ids[i]
    BY <1>3, <2>2, <2>3
  <2>5. Head(pen'.sentences) = Tail(h)  BY <1>3, <1>9
  <2> HIDE DEF s, n
  <2>6. Len(s) = (n + 1) + (Len(h) - 1)  BY <1>8, <2>1, <2>2
  <2>7. ASSUME NEW i \in 1 .. n + 1  PROVE s[i] \in DOMAIN words' /\ pen'.ids[i] = words'[s[i]]
    <3>1. CASE i \in 1 .. n  BY <1>3, <2>1, <2>4, <3>1
    <3>2. CASE i = n + 1
      <4>1. s[n + 1] = w  BY <1>8, <2>1
      <4> QED  BY <1>3, <2>4, <3>2, <4>1
    <3> QED  BY <2>2, <3>1, <3>2
  <2>8. ASSUME NEW i \in 1 .. Len(h) - 1  PROVE s[(n + 1) + i] = Tail(h)[i]
    <3>1. i + 1 \in 1 .. Len(h) /\ n + (i + 1) = (n + 1) + i  BY <1>8, <2>2
    <3> QED  BY <1>8, <2>1, <3>1
  <2>9. \A q : q = s => InHand(q)'  BY <1>8, <2>4, <2>5, <2>6, <2>7, <2>8 DEF InHand
  <2>10. Split'[Ended' + 1] = s  BY <1>10 DEF s
  <2> QED  BY <2>9, <2>10
<1>12. HandInv'
  <2>1. \A i \in 1 .. Len(pen'.sentences) : i > 1 => pen'.sentences[i] = Split'[Ended' + i]
    BY <1>3, <1>7, <1>9, <1>10
  <2>2. pen'.sentences \in Seq(Seq(Words)) /\ Len(pen'.sentences) <= Len(Split')
        /\ pen'.sentences # <<>>
    BY <1>3, <1>7, <1>9, <1>10
  <2> QED  BY <1>4, <1>11, <2>1, <2>2 DEF HandInv
<1>13. IntactInv'
  <2>1. IsIntact  BY <1>4 DEF IsIntact
  <2> QED  BY <1>1, <1>3, <1>5, <2>1, IntactSame DEF RowsInv
<1> QED  BY <1>6, <1>12, <1>13 DEF RowsInv

LEMMA AddRevWordRows ==
  ASSUME NEW g \in Actors, IndexInv, IndexInv', RowsInv, AddRevWord(g)
  PROVE  RowsInv'
<1>1. /\ Learning(g, "revWord") /\ LearnsOnly /\ pen' = [pen EXCEPT !.at = "sentence"]
      /\ revWords' = Append(revWords, pen.word)
      /\ UNCHANGED <<words, fragments, fragmentWords, cursor>>
  BY DEF AddRevWord
<1>2. /\ pen'.at = "sentence" /\ pen'.rows = pen.rows /\ pen'.row = pen.row /\ pen'.ids = pen.ids
      /\ pen'.sentences = pen.sentences /\ pen'.chain = pen.chain /\ pen.at = "revWord"
      /\ stored' = stored
  BY <1>1 DEF IndexInv, PenInv, Learning, LearnsOnly
<1>3. ~Resetting /\ ~Resetting' /\ InRow /\ InRow' /\ ~Rest /\ ~Rest'
  BY <1>2, ResetNames DEF Resetting, InRow, Rest
<1>4. PlaceInv'  BY <1>1, <1>2, <1>3, SamePlace DEF RowsInv
<1>5. HandInv'  BY <1>1, <1>2, <1>3, SameHand DEF RowsInv
<1>6. Grows
  <2>1. PICK S : revWords \in Seq(S)  BY DEF IndexInv, PartsInv
  <2>2. revWords \in Seq(S \cup {pen.word})  BY <2>1, SeqMonotonic
  <2>3. /\ Len(revWords) \in Nat /\ Len(revWords') = Len(revWords) + 1
        /\ \A i \in 1 .. Len(revWords) : revWords'[i] = revWords[i]
    BY <1>1, <2>2
  <2>4. Len(fragments) \in Nat /\ stored \in Nat
    BY LengthsTyped DEF IndexInv, RowsInv, PlaceInv
  <2> QED  BY <1>1, <1>2, <2>3, <2>4 DEF Grows
<1>7. IntactInv'
  <2>1. IsIntact  BY <1>3 DEF IsIntact
  <2> QED  BY <1>1, <1>2, <1>3, <1>4, <1>6, <2>1, IntactStays DEF RowsInv
<1> QED  BY <1>4, <1>5, <1>7 DEF RowsInv

LEMMA LearnSimpleTokensRows ==
  ASSUME NEW g \in Actors, IndexInv, IndexInv', RowsInv, LearnSimpleTokens(g)
  PROVE  RowsInv'
<1> DEFINE chain == CreateFragments(pen.ids)
           sentence == Split[Ended + 1]
<1>1. /\ Learning(g, "sentence") /\ LearnsOnly /\ UNCHANGED model
      /\ pen.sentences # <<>> /\ Head(pen.sentences) = <<>>
      /\ pen' = [pen EXCEPT !.at = "fragment", !.chain = chain, !.ids = <<>>,
                            !.sentences = Tail(pen.sentences)]
  BY DEF LearnSimpleTokens
<1> HIDE DEF chain
<1>2. /\ pen'.at = "fragment" /\ pen'.rows = pen.rows /\ pen'.row = pen.row /\ pen'.ids = <<>>
      /\ pen'.sentences = Tail(pen.sentences) /\ pen'.chain = chain /\ pen.at = "sentence"
      /\ stored' = stored /\ cursor' = cursor
  BY <1>1 DEF IndexInv, PenInv, Learning, LearnsOnly, model
<1>3. ~Resetting /\ ~Resetting' /\ InRow /\ InRow' /\ ~Rest /\ Rest'
  BY <1>2, ResetNames DEF Resetting, InRow, Rest
<1>4. PlaceInv'  BY <1>2, <1>3, SamePlace DEF RowsInv
<1>5. /\ pen.sentences \in Seq(Seq(Words)) /\ Len(pen.sentences) <= Len(Split)
      /\ \A i \in 1 .. Len(pen.sentences) : i > 1 => pen.sentences[i] = Split[Ended + i]
      /\ InHand(sentence) /\ cursor < stored /\ stored \in 0 .. Len(Rows) /\ cursor \in 0 .. stored
  BY <1>1, <1>3 DEF RowsInv, HandInv, PlaceInv
<1>6. /\ cursor + 1 \in 1 .. Len(Rows) /\ cursor + 1 \in 1 .. stored /\ Split \in Seq(Seq(Words))
  <2>1. cursor + 1 \in 1 .. Len(Rows) /\ cursor + 1 \in 1 .. stored  BY <1>5
  <2> QED  BY <2>1, RowsTyped DEF Split
<1>7. /\ Len(pen.sentences) \in Nat \ {0} /\ Len(Split) \in Nat
      /\ Ended = Len(Split) - Len(pen.sentences)
  BY <1>1, <1>5, <1>6 DEF Ended
<1>8. Ended + 1 \in DOMAIN Split /\ sentence \in Seq(Words)
  <2>1. Ended + 1 \in 1 .. Len(Split)  BY <1>5, <1>7
  <2> QED  BY <1>6, <2>1
<1> HIDE DEF sentence
<1>9. HandInv'
  <2>1. /\ Tail(pen.sentences) \in Seq(Seq(Words))
        /\ Len(Tail(pen.sentences)) = Len(pen.sentences) - 1
        /\ \A i \in 1 .. Len(pen.sentences) - 1 : Tail(pen.sentences)[i] = pen.sentences[i + 1]
    BY <1>1, <1>5
  <2>2. Split' = Split  BY <1>2 DEF Split
  <2>3. Ended' = Ended + 1
    <3>1. Ended' = Len(Split') - Len(pen'.sentences)  BY DEF Ended
    <3>2. Len(pen'.sentences) = Len(pen.sentences) - 1  BY <1>2, <2>1
    <3> QED  BY <1>7, <2>2, <3>1, <3>2
  <2>4. ASSUME NEW i \in 1 .. Len(pen'.sentences)
        PROVE  pen'.sentences[i] = Split'[Ended' + i]
    <3>1. i + 1 \in 1 .. Len(pen.sentences) /\ i + 1 > 1 /\ i \in 1 .. Len(pen.sentences) - 1
      BY <1>2, <1>7, <2>1
    <3>2. pen.sentences[i + 1] = Split[Ended + (i + 1)]  BY <1>5, <3>1
    <3>3. Ended + (i + 1) = Ended' + i  BY <1>7, <2>3, <3>1
    <3> QED  BY <1>2, <2>1, <2>2, <3>1, <3>2, <3>3
  <2>5. Ended' > 0
    <3>1. Len(pen.sentences) <= Len(Split)  BY <1>5
    <3>2. Ended \in Nat  BY <1>7, <3>1
    <3> QED  BY <2>3, <3>2
  <2>6. Len(pen'.sentences) <= Len(Split')  BY <1>2, <1>5, <1>7, <2>1, <2>2
  <2> QED  BY <1>2, <1>3, <2>1, <2>4, <2>5, <2>6 DEF HandInv
<1>10. ASSUME NEW i \in 1 .. Len(chain)  PROVE Attested(chain[i])
  <2>1. pen.ids \in Seq(Nat) /\ PartsInv  BY DEF IndexInv, PenInv
  <2>2. revWords # <<>> /\ revWords[1] = Blank  BY <1>3 DEF RowsInv, IntactInv, IsIntact
  <2>a. Len(Head(pen.sentences)) = 0 /\ Len(pen.ids) \in Nat  BY <1>1, <2>1
  <2>b. InHand(sentence)  BY <1>5
  <2>3. /\ Len(pen.ids) = Len(sentence)
        /\ \A j \in 1 .. Len(pen.ids) :
             sentence[j] \in DOMAIN words /\ pen.ids[j] = words[sentence[j]]
    <3>1. Len(sentence) = Len(pen.ids) + Len(Head(pen.sentences))  BY <2>b DEF InHand
    <3>2. \A j \in 1 .. Len(pen.ids) :
             sentence[j] \in DOMAIN words /\ pen.ids[j] = words[sentence[j]]
      BY <2>b DEF InHand
    <3>3. Len(pen.ids) = Len(sentence)
      <4> DEFINE l == Len(pen.ids)
                 k == Len(Head(pen.sentences))
                 n == Len(sentence)
      <4>1. n = l + k /\ k = 0 /\ l \in Nat  BY <2>a, <3>1
      <4> HIDE DEF l, k, n
      <4>2. l = n  BY <4>1
      <4> QED  BY <4>2 DEF l, n
    <3> QED  BY <3>2, <3>3
  <2>4. \A w \in DOMAIN words : words[w] < Len(revWords) /\ revWords[words[w] + 1] = w
    BY <1>2, <1>3 DEF IndexInv, WordsInv
  <2>5. \A j \in 1 .. Len(pen.ids) :
           pen.ids[j] < Len(revWords) /\ revWords[pen.ids[j] + 1] = sentence[j]
    BY <2>3, <2>4
  <2>6. Len(chain) = Len(pen.ids) + 1
    <3>1. Len(pen.ids) + 1 \in Nat  BY <2>1
    <3> QED  BY <3>1 DEF chain, CreateFragments
  <2>7. Ended + 1 \in DOMAIN Sentences(Rows[cursor + 1])
        /\ sentence = Sentences(Rows[cursor + 1])[Ended + 1]
    BY <1>8 DEF Split, sentence
  <2> QED  BY <1>6, <1>8, <2>1, <2>2, <2>3, <2>5, <2>6, <2>7, ChainAttested DEF chain
<1>11. IntactInv'
  <2>1. /\ revWords' = revWords /\ fragments' = fragments /\ fragmentWords' = fragmentWords
    BY <1>1 DEF model
  <2>2. \A f : Attested(f) => Attested(f)'
    BY <1>2, <2>1 DEF Attested, Known, Linked, Adjacent
  <2>3. IsIntact  BY <1>3 DEF IsIntact
  <2>4. \A i \in 1 .. Len(fragments') : Attested(fragments[i])'
    <3>1. SUFFICES ASSUME NEW i \in 1 .. Len(fragments)  PROVE Attested(fragments[i])'
      BY <2>1
    <3>2. Attested(fragments[i])  BY <2>3 DEF RowsInv, IntactInv
    <3>3. \A f : f = fragments[i] => Attested(f)'  BY <2>2, <3>2
    <3> QED  BY <2>1, <3>3
  <2>5. \A i \in 1 .. Len(pen'.chain) : Attested(pen.chain[i])'
    <3>1. SUFFICES ASSUME NEW i \in 1 .. Len(chain)  PROVE Attested(pen.chain[i])'
      BY <1>2
    <3>2. \A f : f = chain[i] => Attested(f)'  BY <1>10, <2>2
    <3> QED  BY <1>2, <3>2
  <2> QED  BY <2>1, <2>3, <2>4, <2>5 DEF RowsInv, IntactInv
<1> QED  BY <1>4, <1>9, <1>11 DEF RowsInv

LEMMA AddFragmentRows ==
  ASSUME NEW g \in Actors, IndexInv, IndexInv', RowsInv, AddFragment(g)
  PROVE  RowsInv'
<1>1. /\ Learning(g, "fragment") /\ LearnsOnly /\ pen.chain # <<>>
      /\ fragments' = Append(fragments, Head(pen.chain))
      /\ UNCHANGED <<words, revWords, fragmentWords, cursor>>
      /\ pen' = [pen EXCEPT !.at = IF Head(pen.chain).c \in DOMAIN fragmentWords
                                   THEN "file" ELSE "list"]
  BY DEF AddFragment
<1>2. /\ pen'.at \in {"list", "file"} /\ pen'.rows = pen.rows /\ pen'.row = pen.row
      /\ pen'.ids = pen.ids /\ pen'.sentences = pen.sentences /\ pen'.chain = pen.chain
      /\ pen.at = "fragment" /\ stored' = stored
  BY <1>1 DEF IndexInv, PenInv, Learning, LearnsOnly
<1>3. ~Resetting /\ ~Resetting' /\ InRow /\ InRow' /\ Rest /\ Rest'
  BY <1>2, ResetNames DEF Resetting, InRow, Rest
<1>4. PlaceInv'  BY <1>1, <1>2, <1>3, SamePlace DEF RowsInv
<1>5. HandInv'  BY <1>1, <1>2, <1>3, SameHand DEF RowsInv
<1>6. /\ fragments \in Seq(Fragment) /\ pen.chain \in Seq(Fragment)
      /\ Head(pen.chain) = pen.chain[1] /\ 1 \in 1 .. Len(pen.chain) /\ pen.chain[1] \in Fragment
  BY <1>1 DEF IndexInv, PartsInv, PenInv
<1>7. /\ Len(fragments) \in Nat /\ Len(fragments') = Len(fragments) + 1
      /\ fragments'[Len(fragments) + 1] = pen.chain[1]
      /\ \A i \in 1 .. Len(fragments) : fragments'[i] = fragments[i]
  BY <1>1, <1>6
<1>8. Grows
  <2>1. Len(revWords) \in Nat /\ stored \in Nat
    BY LengthsTyped DEF IndexInv, RowsInv, PlaceInv
  <2> QED  BY <1>1, <1>2, <1>7, <2>1 DEF Grows
<1>9. ASSUME NEW i \in 1 .. Len(fragments')
      PROVE  i \in 1 .. Len(fragments) \/ \E j \in 1 .. Len(pen.chain) : fragments'[i] = pen.chain[j]
  <2>1. i \in 1 .. Len(fragments) \/ i = Len(fragments) + 1  BY <1>7
  <2> QED  BY <1>6, <1>7, <2>1
<1>10. IntactInv'
  <2>1. IsIntact  BY <1>3 DEF IsIntact
  <2> QED  BY <1>2, <1>3, <1>4, <1>8, <1>9, <2>1, IntactStays DEF RowsInv
<1> QED  BY <1>4, <1>5, <1>10 DEF RowsInv

\* The index is written, and the fragment filed is done with.
LEMMA FilingRows ==
  ASSUME NEW g \in Actors, IndexInv, IndexInv', RowsInv, MakeList(g) \/ FileFragment(g)
  PROVE  RowsInv'
<1>1. /\ LearnsOnly /\ UNCHANGED <<words, revWords, fragments, cursor>>
      /\ pen.at \in {"list", "file"}
      /\ \/ pen' = [pen EXCEPT !.at = "file"]
         \/ pen' = [pen EXCEPT !.at = "fragment", !.chain = Tail(pen.chain)]
  BY DEF MakeList, FileFragment, Learning
<1>2. /\ pen'.at \in {"file", "fragment"} /\ pen'.rows = pen.rows /\ pen'.row = pen.row
      /\ pen'.ids = pen.ids /\ pen'.sentences = pen.sentences /\ stored' = stored
      /\ pen'.chain = pen.chain \/ pen'.chain = Tail(pen.chain)
  BY <1>1 DEF IndexInv, PenInv, LearnsOnly
<1>3. ~Resetting /\ ~Resetting' /\ InRow /\ InRow' /\ Rest /\ Rest'
  BY <1>1, <1>2, ResetNames DEF Resetting, InRow, Rest
<1>4. PlaceInv'  BY <1>1, <1>2, <1>3, SamePlace DEF RowsInv
<1>5. HandInv'  BY <1>1, <1>2, <1>3, SameHand DEF RowsInv
<1>6. Grows
  <2>1. Len(revWords) \in Nat /\ Len(fragments) \in Nat /\ stored \in Nat
    BY LengthsTyped DEF IndexInv, RowsInv, PlaceInv
  <2> QED  BY <1>1, <1>2, <2>1 DEF Grows
<1>7. pen.chain \in Seq(Fragment) /\ pen.chain # <<>>  BY <1>1 DEF IndexInv, PenInv
<1>8. ASSUME NEW i \in 1 .. Len(pen'.chain)
      PROVE  \E j \in 1 .. Len(pen.chain) : pen'.chain[i] = pen.chain[j]
  <2>1. CASE pen'.chain = pen.chain  BY <2>1
  <2>2. CASE pen'.chain = Tail(pen.chain)
    <3>1. i + 1 \in 1 .. Len(pen.chain) /\ Tail(pen.chain)[i] = pen.chain[i + 1]
      BY <1>7, <2>2
    <3> QED  BY <2>2, <3>1
  <2> QED  BY <1>2, <2>1, <2>2
<1>9. IntactInv'
  <2>1. IsIntact  BY <1>3 DEF IsIntact
  <2> QED  BY <1>1, <1>3, <1>4, <1>6, <1>8, <2>1, IntactStays DEF RowsInv
<1> QED  BY <1>4, <1>5, <1>9 DEF RowsInv

----------------------------------------------------------------------------
(* Every step keeps the rows *)

\* A row is stored, or a speaker does something.
LEMMA OthersRows ==
  ASSUME IndexInv, IndexInv', RowsInv, UNCHANGED <<model, pen>>,
         stored' \in stored .. Len(Rows)
  PROVE  RowsInv'
<1>1. /\ words' = words /\ revWords' = revWords /\ fragments' = fragments
      /\ fragmentWords' = fragmentWords /\ cursor' = cursor /\ pen' = pen
  BY DEF model
<1>2. Resetting' = Resetting /\ InRow' = InRow /\ Rest' = Rest /\ IsIntact' = IsIntact
  BY <1>1 DEF Resetting, InRow, Rest, IsIntact
<1>3. stored \in Nat /\ cursor \in 0 .. stored /\ Len(Rows) \in Nat
  BY MarkovConstants DEF RowsInv, PlaceInv
<1>4. PlaceInv'
  <2>1. \A i \in 1 .. Len(pen.rows) : pen.rows \in Seq(Nat) /\ pen.rows[i] <= stored
                                        => pen.rows[i] <= stored'
    BY <1>3
  <2> QED  BY <1>1, <1>2, <1>3, <2>1 DEF RowsInv, PlaceInv
<1>5. HandInv'
  <2>1. Split' = Split /\ Ended' = Ended  BY <1>1 DEF Split, Ended
  <2>2. \A s : InHand(s) => InHand(s)'  BY <1>1 DEF InHand
  <2>3. InHand(Split[Ended + 1]) => InHand(Split[Ended + 1])'
    <3>1. \A s : s = Split[Ended + 1] => (InHand(s) => InHand(s)')  BY <2>2
    <3> QED  BY <2>1, <3>1
  <2> QED  BY <1>1, <1>2, <2>1, <2>3 DEF RowsInv, HandInv
<1>6. Grows
  <2>1. Len(revWords) \in Nat /\ Len(fragments) \in Nat  BY LengthsTyped DEF IndexInv
  <2> QED  BY <1>1, <1>3, <2>1 DEF Grows
<1>7. IntactInv'
  <2>1. CASE ~IsIntact  BY <1>2, <2>1 DEF IntactInv
  <2>2. CASE IsIntact
    <3>1. /\ PartsInv /\ PartsInv' /\ fragments \in Seq(Fragment) /\ pen.chain \in Seq(Fragment)
      BY DEF IndexInv, PartsInv, PenInv
    <3>2. \A f \in Fragment : Attested(f) => Attested(f)'
      BY <1>4, <1>6, <3>1, AttestedStays DEF RowsInv
    <3>3. ASSUME NEW i \in 1 .. Len(fragments)  PROVE Attested(fragments[i])'
      <4>1. fragments[i] \in Fragment /\ Attested(fragments[i])
        BY <2>2, <3>1 DEF RowsInv, IntactInv
      <4>2. \A f \in Fragment : f = fragments[i] => Attested(f)'  BY <3>2, <4>1
      <4> QED  BY <1>1, <4>1, <4>2
    <3>4. ASSUME NEW i \in 1 .. Len(pen.chain)  PROVE Attested(pen.chain[i])'
      <4>1. pen.chain[i] \in Fragment /\ Attested(pen.chain[i])
        BY <2>2, <3>1 DEF RowsInv, IntactInv
      <4>2. \A f \in Fragment : f = pen.chain[i] => Attested(f)'  BY <3>2, <4>1
      <4> QED  BY <1>1, <4>1, <4>2
    <3> QED  BY <1>1, <2>2, <3>3, <3>4 DEF RowsInv, IntactInv
  <2> QED  BY <2>1, <2>2
<1> QED  BY <1>4, <1>5, <1>7 DEF RowsInv

LEMMA RowsInit == Init => RowsInv
<1> SUFFICES ASSUME Init PROVE RowsInv  OBVIOUS
<1>1. /\ pen = Idle /\ revWords = <<Blank>> /\ fragments = <<>> /\ cursor = 0
      /\ fragmentWords = [c \in {} |-> <<>>] /\ stored \in 0 .. Len(Rows)
  BY DEF Init
<1>2. pen.at = "row" /\ pen.rows = <<>> /\ pen.ids = <<>> /\ pen.chain = <<>>  BY <1>1 DEF Idle
<1>3. ~InRow /\ ~Rest  BY <1>2 DEF InRow, Rest
<1>4. Len(Rows) \in Nat  BY MarkovConstants
<1>5. PlaceInv  BY <1>1, <1>2, <1>3, <1>4 DEF PlaceInv
<1>6. HandInv  BY <1>2, <1>3 DEF HandInv
<1>7. IntactInv  BY <1>1, <1>2 DEF IntactInv
<1> QED  BY <1>5, <1>6, <1>7 DEF RowsInv

LEMMA RowsStep == IndexInv /\ IndexInv' /\ RowsInv /\ [Next]_vars => RowsInv'
<1> SUFFICES ASSUME IndexInv, IndexInv', RowsInv, [Next]_vars PROVE RowsInv'  OBVIOUS
<1>a. stored \in stored .. Len(Rows)  BY DEF RowsInv, PlaceInv
<1>1. ASSUME NEW g \in Actors, Learner(g)  PROVE RowsInv'
  BY <1>1, LockRows, ResetRows, QueryRows, LearnStringRows, FindOrAddWordRows, AddRevWordRows,
     LearnSimpleTokensRows, AddFragmentRows, FilingRows, EndSentenceRows, EndRowRows, UnlockRows
     DEF Learner
<1>2. ASSUME NEW g \in Goroutines, Speaker(g) \/ Ask(g)  PROVE RowsInv'
  <2>1. UNCHANGED <<model, pen>>  BY <1>2, SpeakerElsewhere DEF Outside
  <2>2. stored' = stored
    BY <1>2 DEF Speaker, Ask, LearnMore, LearnedMore, FindWord, ListFragments, DrawAnother,
                PickFragment, LookUpLink, NextChainLink, Spell, Speaks, ReadsOnly
  <2> QED  BY <1>a, <2>1, <2>2, OthersRows
<1>3. CASE Store
  <2>1. UNCHANGED <<model, pen>> /\ stored < Len(Rows) /\ stored' = stored + 1
    BY <1>3 DEF Store
  <2>2. stored \in Nat /\ Len(Rows) \in Nat  BY MarkovConstants DEF RowsInv, PlaceInv
  <2>3. stored' \in stored .. Len(Rows)  BY <2>1, <2>2
  <2> QED  BY <2>1, <2>3, OthersRows
<1>4. CASE HourPasses \/ UNCHANGED vars
  <2>1. UNCHANGED <<model, pen, stored>>  BY <1>4 DEF HourPasses, vars
  <2> QED  BY <1>a, <2>1, OthersRows
<1> QED  BY <1>1, <1>2, <1>3, <1>4 DEF Next, Step

\* The learner takes the rows after the cursor in turn and has their sentences in
\* hand, and words a fragment joins stood next to each other in a stored row
\* (markov3/learning.go).
THEOREM RowsInvariance == Spec => []RowsInv
<1>1. Init => RowsInv  BY RowsInit
<1>2. IndexInv /\ IndexInv' /\ RowsInv /\ [Next]_vars => RowsInv'  BY RowsStep
<1> QED  BY <1>1, <1>2, IndexInvariance, PTL DEF Spec

----------------------------------------------------------------------------
(* Joining the sequences of a sequence *)

\* The joins of the first sequences of s, one after the other.
Joins(s, j) == j = [i \in 1 .. Len(s) |-> IF i = 1 THEN s[i] ELSE j[i - 1] \o s[i]]

\* Two lists of joins agree as far as what they join does.
LEMMA JoinsAgree ==
  ASSUME NEW s, NEW t, NEW j, NEW k, Joins(s, j), Joins(t, k), Len(s) \in Nat, Len(t) \in Nat,
         Len(s) <= Len(t), \A i \in 1 .. Len(s) : s[i] = t[i]
  PROVE  \A i \in 1 .. Len(s) : j[i] = k[i]
<1> DEFINE m == Len(s)
           T == {i \in 1 .. m : j[i] # k[i]}
<1>1. SUFFICES ASSUME T # {}  PROVE FALSE  OBVIOUS
<1>2. PICK i \in T : \A n \in T : i <= n
  <2>1. T \subseteq Nat  OBVIOUS
  <2> QED  BY <1>1, <2>1, NatMinimum
<1>3. /\ i \in 1 .. m /\ i \in 1 .. Len(s) /\ i \in 1 .. Len(t) /\ i \in Nat
      /\ j[i] # k[i] /\ s[i] = t[i]
  OBVIOUS
<1>4. /\ j[i] = IF i = 1 THEN s[i] ELSE j[i - 1] \o s[i]
      /\ k[i] = IF i = 1 THEN t[i] ELSE k[i - 1] \o t[i]
  BY <1>3 DEF Joins
<1>5. i # 1  BY <1>3, <1>4
<1>6. i - 1 \in 1 .. m /\ ~(i <= i - 1)  BY <1>3, <1>5
<1>7. j[i - 1] = k[i - 1]  BY <1>2, <1>6
<1> QED  BY <1>3, <1>4, <1>5, <1>7

\* The last of the joins is what all of them come to.
LEMMA FlattenIsLast ==
  ASSUME NEW s, NEW j, Joins(s, j), Len(s) \in Nat, Len(s) # 0
  PROVE  FlattenSeq(s) = j[Len(s)]
<1>1. FlattenSeq(s) = (CHOOSE k : Joins(s, k))[Len(s)]  BY DEF FlattenSeq, Joins
<1>2. PICK k : Joins(s, k) /\ FlattenSeq(s) = k[Len(s)]  BY <1>1
<1>3. Len(s) <= Len(s) /\ \A i \in 1 .. Len(s) : s[i] = s[i]  OBVIOUS
<1>4. \A i \in 1 .. Len(s) : j[i] = k[i]  BY <1>2, <1>3, JoinsAgree
<1> QED  BY <1>2, <1>4

LEMMA JoinsExist ==
  ASSUME NEW S, NEW s \in Seq(Seq(S))
  PROVE  \E j : Joins(s, j) /\ j \in [1 .. Len(s) -> Seq(S)]
<1> DEFINE P(n) == \E j \in [1 .. n -> Seq(S)] :
                     j = [i \in 1 .. n |-> IF i = 1 THEN s[i] ELSE j[i - 1] \o s[i]]
           T == {n \in 0 .. Len(s) : ~P(n)}
<1>1. Len(s) \in Nat /\ \A i \in 1 .. Len(s) : s[i] \in Seq(S)  OBVIOUS
<1> HIDE DEF P
<1>2. SUFFICES ASSUME T # {}  PROVE FALSE
  <2>1. P(Len(s))  BY <1>1, <1>2
  <2> QED  BY <2>1 DEF P, Joins
<1>3. PICK m \in T : \A n \in T : m <= n
  <2>1. T \subseteq Nat  BY <1>1
  <2> QED  BY <1>2, <2>1, NatMinimum
<1>4. m \in 0 .. Len(s) /\ ~P(m)  OBVIOUS
<1>5. P(0)
  <2> DEFINE e == [i \in 1 .. 0 |-> s[i]]
  <2>1. e \in [1 .. 0 -> Seq(S)]  OBVIOUS
  <2>2. e = [i \in 1 .. 0 |-> IF i = 1 THEN s[i] ELSE e[i - 1] \o s[i]]  OBVIOUS
  <2> HIDE DEF e
  <2> QED  BY <2>1, <2>2 DEF P
<1>6. m \in 1 .. Len(s) /\ m - 1 \in 0 .. Len(s) /\ ~(m <= m - 1)  BY <1>1, <1>4, <1>5
<1>7. P(m - 1)  BY <1>3, <1>6
<1>8. PICK f \in [1 .. m - 1 -> Seq(S)] :
        f = [i \in 1 .. m - 1 |-> IF i = 1 THEN s[i] ELSE f[i - 1] \o s[i]]
  BY <1>7 DEF P
<1> DEFINE last == IF m = 1 THEN s[m] ELSE f[m - 1] \o s[m]
           g == [i \in 1 .. m |-> IF i = m THEN last ELSE f[i]]
<1>9. last \in Seq(S)
  <2>1. s[m] \in Seq(S)  BY <1>1, <1>6
  <2>2. m # 1 => f[m - 1] \in Seq(S)  BY <1>6, <1>8
  <2>3. \A a, b \in Seq(S) : a \o b \in Seq(S)  BY ConcatProperties
  <2> QED  BY <2>1, <2>2, <2>3
<1>a. last = IF m = 1 THEN s[m] ELSE f[m - 1] \o s[m]  OBVIOUS
<1> HIDE DEF last
<1>10. g \in [1 .. m -> Seq(S)]
  <2>1. \A i \in 1 .. m : i # m => i \in 1 .. m - 1  BY <1>6
  <2> QED  BY <1>8, <1>9, <2>1
<1>11. ASSUME NEW i \in 1 .. m  PROVE g[i] = IF i = 1 THEN s[i] ELSE g[i - 1] \o s[i]
  <2>1. i # 1 => i - 1 \in 1 .. m /\ i - 1 # m  BY <1>6
  <2>2. i # 1 => g[i - 1] = f[i - 1]  BY <2>1
  <2>3. CASE i = m  BY <1>a, <2>2, <2>3
  <2>4. CASE i # m
    <3>1. i \in 1 .. m - 1  BY <1>6, <2>4
    <3>2. g[i] = f[i]  BY <2>4
    <3>3. f[i] = IF i = 1 THEN s[i] ELSE f[i - 1] \o s[i]  BY <1>8, <3>1
    <3> QED  BY <2>2, <3>2, <3>3
  <2> QED  BY <2>3, <2>4
<1>12. g = [i \in 1 .. m |-> g[i]]  OBVIOUS
<1> HIDE DEF g
<1>13. g = [i \in 1 .. m |-> IF i = 1 THEN s[i] ELSE g[i - 1] \o s[i]]
  BY <1>11, <1>12
<1>14. P(m)  BY <1>10, <1>13 DEF P
<1> QED  BY <1>4, <1>14

\* Nothing joined is nothing, and what is joined is of the same kind.
LEMMA FlattenTyped ==
  ASSUME NEW S, NEW s \in Seq(Seq(S))
  PROVE  FlattenSeq(s) \in Seq(S) /\ (Len(s) = 0 => FlattenSeq(s) = <<>>)
<1>1. CASE Len(s) = 0
  <2>1. s = <<>>  BY <1>1
  <2>2. FlattenSeq(s) = s  BY <1>1 DEF FlattenSeq
  <2>3. <<>> \in Seq(S)  OBVIOUS
  <2> QED  BY <1>1, <2>1, <2>2, <2>3
<1>2. CASE Len(s) # 0
  <2>1. PICK j : Joins(s, j) /\ j \in [1 .. Len(s) -> Seq(S)]  BY JoinsExist
  <2>2. Len(s) \in Nat /\ Len(s) \in 1 .. Len(s)  BY <1>2
  <2>3. FlattenSeq(s) = j[Len(s)]  BY <1>2, <2>1, <2>2, FlattenIsLast
  <2> QED  BY <1>2, <2>1, <2>2, <2>3
<1> QED  BY <1>1, <1>2

LEMMA JoinsMore ==
  ASSUME NEW s, NEW t, NEW j, NEW k, Joins(s, j), Joins(t, k), Len(s) \in Nat, Len(s) # 0,
         Len(t) = Len(s) + 1, \A i \in 1 .. Len(s) : t[i] = s[i]
  PROVE  FlattenSeq(t) = FlattenSeq(s) \o t[Len(t)]
<1>1. /\ Len(t) \in Nat /\ Len(t) # 0 /\ Len(s) <= Len(t) /\ Len(s) \in 1 .. Len(s)
      /\ Len(t) \in 1 .. Len(t) /\ Len(t) # 1 /\ Len(t) - 1 = Len(s)
  OBVIOUS
<1>2. FlattenSeq(s) = j[Len(s)] /\ FlattenSeq(t) = k[Len(t)]  BY <1>1, FlattenIsLast
<1>3. \A i \in 1 .. Len(s) : j[i] = k[i]  BY <1>1, JoinsAgree
<1>4. k[Len(t)] = k[Len(s)] \o t[Len(t)]  BY <1>1 DEF Joins
<1> QED  BY <1>1, <1>2, <1>3, <1>4

\* The last sequence is joined behind the others.
LEMMA FlattenMore ==
  ASSUME NEW S, NEW s \in Seq(Seq(S)), NEW t \in Seq(Seq(S)), Len(t) = Len(s) + 1,
         \A i \in 1 .. Len(s) : t[i] = s[i]
  PROVE  FlattenSeq(t) = FlattenSeq(s) \o t[Len(t)]
<1>1. Len(s) \in Nat /\ Len(t) \in 1 .. Len(t) /\ t[Len(t)] \in Seq(S)  OBVIOUS
<1>2. PICK j, k : Joins(s, j) /\ Joins(t, k) /\ k \in [1 .. Len(t) -> Seq(S)]  BY JoinsExist
<1>3. CASE Len(s) # 0  BY <1>1, <1>2, <1>3, JoinsMore
<1>4. CASE Len(s) = 0
  <2>a. Len(s) = 0 => FlattenSeq(s) = <<>>  BY FlattenTyped
  <2>1. FlattenSeq(s) = <<>> /\ Len(t) = 1  BY <1>4, <2>a
  <2>2. FlattenSeq(t) = k[1]  BY <1>2, <2>1, FlattenIsLast
  <2>3. k[1] = t[1]  BY <1>2, <2>1 DEF Joins
  <2>4. <<>> \o t[1] = t[1]  BY <1>1, <2>1, ConcatEmptySeq
  <2> QED  BY <2>1, <2>2, <2>3, <2>4
<1> QED  BY <1>3, <1>4

----------------------------------------------------------------------------
(* What the rows teach *)

\* The words of a sentence have their ids.
Learnt(sentence) == \A i \in 1 .. Len(sentence) : sentence[i] \in DOMAIN words

\* What the first sentences of a row teach.
TaughtOf(k, m) == FlattenSeq([i \in 1 .. m |-> Taught(Sentences(Rows[k])[i])])

\* The fragments of the learner's sentence that are still to be added.
Pending == IF Filing THEN Tail(pen.chain) ELSE IF pen.at = "fragment" THEN pen.chain ELSE <<>>
TaughtInHand == IF InRow THEN TaughtOf(cursor + 1, Ended) ELSE <<>>

\* The model holds the rows up to the cursor, and of the row in hand the
\* sentences ended, but for the fragments still to be added.
TaughtInv ==
  ~Resetting =>
    /\ \A k \in 1 .. cursor : \A n \in 1 .. Len(Sentences(Rows[k])) : Learnt(Sentences(Rows[k])[n])
    /\ InRow => \A n \in 1 .. Ended : Learnt(Split[n])
    /\ fragments \o Pending = TaughtByRows(cursor) \o TaughtInHand

LEMMA TaughtTyped ==
  ASSUME PartsInv, NEW s \in Seq(Words), Learnt(s)
  PROVE  Taught(s) \in Seq(Fragment)
<1> DEFINE ids == [i \in 1 .. Len(s) |-> words[s[i]]]
<1>1. \A i \in 1 .. Len(s) : words[s[i]] \in Nat  BY DEF PartsInv, Learnt
<1>2. ids \in [1 .. Len(s) -> Nat] /\ Len(s) \in Nat  BY <1>1
<1>3. ids \in Seq(Nat)  BY <1>2
<1>4. Taught(s) = CreateFragments(ids)  BY DEF Taught
<1> HIDE DEF ids
<1> QED  BY <1>3, <1>4, FragmentsOfIds

\* The first m sentences of a row, all of them learnt.
RowLearnt(k, m) ==
  /\ k \in 1 .. Len(Rows) /\ m \in 0 .. Len(Sentences(Rows[k]))
  /\ \A n \in 1 .. m : Learnt(Sentences(Rows[k])[n])

LEMMA TaughtOfTyped ==
  ASSUME PartsInv, NEW k, NEW m, RowLearnt(k, m)
  PROVE  /\ [i \in 1 .. m |-> Taught(Sentences(Rows[k])[i])] \in Seq(Seq(Fragment))
         /\ TaughtOf(k, m) \in Seq(Fragment) /\ (m = 0 => TaughtOf(k, m) = <<>>)
<1> DEFINE all == Sentences(Rows[k])
           t == [i \in 1 .. m |-> Taught(all[i])]
<1>1. m \in Nat /\ all \in Seq(Seq(Words)) /\ m <= Len(all) /\ \A i \in 1 .. m : Learnt(all[i])
  BY RowsTyped DEF RowLearnt
<1>2. ASSUME NEW i \in 1 .. m  PROVE Taught(all[i]) \in Seq(Fragment)
  <2>1. all[i] \in Seq(Words) /\ Learnt(all[i])
    <3> HIDE DEF all
    <3>1. i \in 1 .. Len(all)  BY <1>1
    <3> QED  BY <1>1, <3>1
  <2> QED  BY <2>1, TaughtTyped
<1>3. t \in [1 .. m -> Seq(Fragment)]
  <2> HIDE DEF all
  <2> QED  BY <1>2
<1>4. TaughtOf(k, m) = FlattenSeq(t)  BY DEF TaughtOf
<1>5. t = [i \in 1 .. m |-> Taught(Sentences(Rows[k])[i])]  OBVIOUS
<1> HIDE DEF t
<1>6. t \in Seq(Seq(Fragment)) /\ Len(t) = m  BY <1>1, <1>3
<1> QED  BY <1>4, <1>5, <1>6, FlattenTyped

\* One sentence more teaches its fragments besides.
LEMMA TaughtOneMore ==
  ASSUME PartsInv, NEW k, NEW m, RowLearnt(k, m), RowLearnt(k, m + 1)
  PROVE  TaughtOf(k, m + 1) = TaughtOf(k, m) \o Taught(Sentences(Rows[k])[m + 1])
<1> DEFINE x(i) == Taught(Sentences(Rows[k])[i])
           s == [i \in 1 .. m |-> x(i)]
           t == [i \in 1 .. m + 1 |-> x(i)]
<1>1. s \in Seq(Seq(Fragment)) /\ t \in Seq(Seq(Fragment))  BY TaughtOfTyped
<1>2. m \in Nat  BY DEF RowLearnt
<1>3. TaughtOf(k, m) = FlattenSeq(s) /\ TaughtOf(k, m + 1) = FlattenSeq(t)  BY DEF TaughtOf
<1> HIDE DEF x
<1>4. /\ Len(s) = m /\ Len(t) = m + 1 /\ t[m + 1] = x(m + 1)
      /\ \A i \in 1 .. m : t[i] = s[i]
  <2>1. m + 1 \in Nat /\ m + 1 \in 1 .. m + 1 /\ \A i \in 1 .. m : i \in 1 .. m + 1  BY <1>2
  <2> QED  BY <1>2, <2>1
<1> HIDE DEF s, t
<1>5. FlattenSeq(t) = FlattenSeq(s) \o t[Len(t)]  BY <1>1, <1>4, FlattenMore
<1> QED  BY <1>3, <1>4, <1>5 DEF x

\* All of the first n rows.
RowsLearnt(n) ==
  n \in 0 .. Len(Rows) /\ \A k \in 1 .. n : RowLearnt(k, Len(Sentences(Rows[k])))

LEMMA TaughtByRowsIs ==
  ASSUME NEW n
  PROVE  TaughtByRows(n) = FlattenSeq([k \in 1 .. n |-> TaughtOf(k, Len(Sentences(Rows[k])))])
  BY DEF TaughtByRows, TaughtOf

LEMMA TaughtByRowsTyped ==
  ASSUME PartsInv, NEW n, RowsLearnt(n)
  PROVE  /\ [k \in 1 .. n |-> TaughtOf(k, Len(Sentences(Rows[k])))] \in Seq(Seq(Fragment))
         /\ TaughtByRows(n) \in Seq(Fragment) /\ (n = 0 => TaughtByRows(n) = <<>>)
<1> DEFINE x(k) == TaughtOf(k, Len(Sentences(Rows[k])))
           t == [k \in 1 .. n |-> x(k)]
<1>1. \A k \in 1 .. n : x(k) \in Seq(Fragment)  BY TaughtOfTyped DEF RowsLearnt
<1>2. n \in Nat  BY MarkovConstants DEF RowsLearnt
<1>3. TaughtByRows(n) = FlattenSeq(t)  BY TaughtByRowsIs
<1>4. t = [k \in 1 .. n |-> TaughtOf(k, Len(Sentences(Rows[k])))]  OBVIOUS
<1> HIDE DEF x
<1>5. t \in [1 .. n -> Seq(Fragment)]  BY <1>1
<1> HIDE DEF t
<1>6. t \in Seq(Seq(Fragment)) /\ Len(t) = n  BY <1>2, <1>5
<1> QED  BY <1>3, <1>4, <1>6, FlattenTyped

LEMMA TaughtRowMore ==
  ASSUME PartsInv, NEW n, RowsLearnt(n), RowsLearnt(n + 1)
  PROVE  TaughtByRows(n + 1) =
           TaughtByRows(n) \o TaughtOf(n + 1, Len(Sentences(Rows[n + 1])))
<1> DEFINE x(k) == TaughtOf(k, Len(Sentences(Rows[k])))
           s == [k \in 1 .. n |-> x(k)]
           t == [k \in 1 .. n + 1 |-> x(k)]
<1>1. s \in Seq(Seq(Fragment)) /\ t \in Seq(Seq(Fragment))  BY TaughtByRowsTyped
<1>2. n \in Nat  BY MarkovConstants DEF RowsLearnt
<1>3. TaughtByRows(n) = FlattenSeq(s) /\ TaughtByRows(n + 1) = FlattenSeq(t)
  BY TaughtByRowsIs
<1> HIDE DEF x
<1>4. /\ Len(s) = n /\ Len(t) = n + 1 /\ t[n + 1] = x(n + 1)
      /\ \A k \in 1 .. n : t[k] = s[k]
  <2>1. n + 1 \in Nat /\ n + 1 \in 1 .. n + 1 /\ \A k \in 1 .. n : k \in 1 .. n + 1  BY <1>2
  <2> QED  BY <1>2, <2>1
<1> HIDE DEF s, t
<1>5. FlattenSeq(t) = FlattenSeq(s) \o t[Len(t)]  BY <1>1, <1>4, FlattenMore
<1> QED  BY <1>3, <1>4, <1>5 DEF x

\* Words that are added change nothing of what the learnt sentences teach.
WordsKept == \A w \in DOMAIN words : w \in DOMAIN words' /\ words'[w] = words[w]

LEMMA TaughtOfStays ==
  ASSUME WordsKept, NEW k, NEW m, RowLearnt(k, m)
  PROVE  RowLearnt(k, m)' /\ TaughtOf(k, m)' = TaughtOf(k, m)
<1> DEFINE all == Sentences(Rows[k])
<1>1. m \in Nat /\ all \in Seq(Seq(Words)) /\ m <= Len(all) /\ \A i \in 1 .. m : Learnt(all[i])
  BY RowsTyped DEF RowLearnt
<1>2. ASSUME NEW i \in 1 .. m  PROVE Learnt(all[i])' /\ Taught(all[i])' = Taught(all[i])
  <2> DEFINE s == all[i]
  <2>1. \A j \in 1 .. Len(s) : s[j] \in DOMAIN words  BY <1>1 DEF Learnt
  <2>2. \A j \in 1 .. Len(s) : s[j] \in DOMAIN words' /\ words'[s[j]] = words[s[j]]
    BY <2>1 DEF WordsKept
  <2>3. [j \in 1 .. Len(s) |-> words'[s[j]]] = [j \in 1 .. Len(s) |-> words[s[j]]]
    BY <2>2
  <2> QED  BY <2>2, <2>3 DEF Learnt, Taught
<1>3. [i \in 1 .. m |-> Taught(all[i])'] = [i \in 1 .. m |-> Taught(all[i])]  BY <1>2
<1>4. TaughtOf(k, m)' = TaughtOf(k, m)  BY <1>3 DEF TaughtOf
<1>5. RowLearnt(k, m)'  BY <1>2 DEF RowLearnt
<1> QED  BY <1>4, <1>5

LEMMA TaughtByRowsStays ==
  ASSUME WordsKept, NEW n, RowsLearnt(n)
  PROVE  RowsLearnt(n)' /\ TaughtByRows(n)' = TaughtByRows(n)
<1> DEFINE x(k) == TaughtOf(k, Len(Sentences(Rows[k])))
<1>1. \A k \in 1 .. n : RowLearnt(k, Len(Sentences(Rows[k])))' /\ x(k)' = x(k)
  BY TaughtOfStays DEF RowsLearnt
<1>2. [k \in 1 .. n |-> x(k)'] = [k \in 1 .. n |-> x(k)]  BY <1>1
<1>3. TaughtByRows(n) = FlattenSeq([k \in 1 .. n |-> x(k)])  BY TaughtByRowsIs
<1>4. TaughtByRows(n)' = FlattenSeq([k \in 1 .. n |-> x(k)'])
  BY DEF TaughtByRows, TaughtOf
<1>5. RowsLearnt(n)'  BY <1>1 DEF RowsLearnt
<1> QED  BY <1>2, <1>3, <1>4, <1>5

----------------------------------------------------------------------------
(* Every step keeps what the rows taught *)

LEMMA TaughtFacts ==
  ASSUME IndexInv, RowsInv, TaughtInv, ~Resetting
  PROVE  /\ RowsLearnt(cursor) /\ (InRow => RowLearnt(cursor + 1, Ended))
         /\ fragments \in Seq(Fragment) /\ Pending \in Seq(Fragment)
         /\ TaughtByRows(cursor) \in Seq(Fragment) /\ TaughtInHand \in Seq(Fragment)
<1>1. /\ stored \in 0 .. Len(Rows) /\ cursor \in 0 .. stored /\ Len(Rows) \in Nat
      /\ InRow => cursor < stored
  BY MarkovConstants DEF RowsInv, PlaceInv
<1>2. RowsLearnt(cursor)
  <2>1. SUFFICES ASSUME NEW k \in 1 .. cursor  PROVE RowLearnt(k, Len(Sentences(Rows[k])))
    BY <1>1 DEF RowsLearnt
  <2>2. k \in 1 .. Len(Rows)  BY <1>1
  <2>3. Len(Sentences(Rows[k])) \in Nat  BY <2>2, RowsTyped
  <2> QED  BY <2>2, <2>3 DEF RowLearnt, TaughtInv
<1>3. ASSUME InRow  PROVE RowLearnt(cursor + 1, Ended)
  <2>1. cursor + 1 \in 1 .. Len(Rows)  BY <1>1, <1>3
  <2>2. Split \in Seq(Seq(Words))  BY <2>1, RowsTyped DEF Split
  <2>3. pen.sentences \in Seq(Seq(Words)) /\ Len(pen.sentences) <= Len(Split)
    BY <1>3 DEF RowsInv, HandInv
  <2>4. Len(Split) \in Nat /\ Len(pen.sentences) \in Nat  BY <2>2, <2>3
  <2>5. Ended \in 0 .. Len(Split)  BY <2>3, <2>4 DEF Ended
  <2> QED  BY <1>3, <2>1, <2>5 DEF RowLearnt, TaughtInv, Split
<1>4. PartsInv /\ fragments \in Seq(Fragment) /\ pen.chain \in Seq(Fragment)
      /\ (Filing => pen.chain # <<>>)
  BY DEF IndexInv, PartsInv, PenInv, Filing
<1>5. Pending \in Seq(Fragment)
  <2>1. <<>> \in Seq(Fragment)  OBVIOUS
  <2>2. Filing => Tail(pen.chain) \in Seq(Fragment)  BY <1>4
  <2> QED  BY <1>4, <2>1, <2>2 DEF Pending
<1>6. TaughtByRows(cursor) \in Seq(Fragment)  BY <1>2, <1>4, TaughtByRowsTyped
<1>7. TaughtInHand \in Seq(Fragment)
  <2>1. <<>> \in Seq(Fragment)  OBVIOUS
  <2>2. InRow => TaughtOf(cursor + 1, Ended) \in Seq(Fragment)  BY <1>3, <1>4, TaughtOfTyped
  <2> QED  BY <2>1, <2>2 DEF TaughtInHand
<1> QED  BY <1>2, <1>3, <1>4, <1>5, <1>6, <1>7

\* A step after which the learner is as far as before.
LEMMA TaughtSame ==
  ASSUME IndexInv, RowsInv, TaughtInv, ~Resetting, WordsKept, cursor' = cursor, InRow' <=> InRow,
         InRow => Ended' = Ended, fragments' \o Pending' = fragments \o Pending
  PROVE  TaughtInv'
<1>1. RowsLearnt(cursor) /\ (InRow => RowLearnt(cursor + 1, Ended))  BY TaughtFacts
<1>2. /\ RowsLearnt(cursor)' /\ TaughtByRows(cursor)' = TaughtByRows(cursor)
  <2>1. \A n : n = cursor => RowsLearnt(n)' /\ TaughtByRows(n)' = TaughtByRows(n)
    BY <1>1, TaughtByRowsStays
  <2> QED  BY <2>1 DEF RowsLearnt, RowLearnt, Learnt, TaughtByRows, Taught
<1>3. InRow => /\ RowLearnt(cursor + 1, Ended)'
               /\ TaughtOf(cursor + 1, Ended)' = TaughtOf(cursor + 1, Ended)
  <2>1. \A k, m : k = cursor + 1 /\ m = Ended /\ InRow =>
                    RowLearnt(k, m)' /\ TaughtOf(k, m)' = TaughtOf(k, m)
    BY <1>1, TaughtOfStays
  <2> QED  BY <2>1 DEF RowLearnt, Learnt, TaughtOf, Taught
<1>4. TaughtInHand' = TaughtInHand  BY <1>3 DEF TaughtInHand
<1>5. fragments \o Pending = TaughtByRows(cursor) \o TaughtInHand  BY DEF TaughtInv
<1>6. \A k \in 1 .. cursor' : \A n \in 1 .. Len(Sentences(Rows[k])) : Learnt(Sentences(Rows[k])[n])'
  BY <1>2 DEF RowsLearnt, RowLearnt
<1>7. InRow' => \A n \in 1 .. Ended' : Learnt(Split[n])'
  BY <1>3 DEF RowLearnt, Split, Learnt
<1> QED  BY <1>2, <1>4, <1>5, <1>6, <1>7 DEF TaughtInv

LEMMA LockTeaches ==
  ASSUME NEW g \in Actors, IndexInv, RowsInv, TaughtInv, LockForLearning(g)
  PROVE  TaughtInv'
<1>1. pen = Idle /\ UNCHANGED <<words, fragments, cursor>>
  BY DEF LockForLearning, IndexInv, MutexInv, model
<1>2. CASE pen' = Idle
  <2>1. ~Resetting  BY <1>1, ResetNames DEF Resetting, Idle
  <2>2. pen' = pen  BY <1>1, <1>2
  <2>3. Pending' = Pending /\ (InRow' <=> InRow) /\ Ended' = Ended /\ WordsKept
    BY <1>1, <2>2 DEF Pending, Filing, InRow, Rest, Ended, Split, WordsKept
  <2> QED  BY <1>1, <2>1, <2>3, TaughtSame
<1>3. CASE pen' = [Idle EXCEPT !.at = "words"]
  <2>1. pen'.at = "words"  BY <1>3 DEF Idle
  <2> QED  BY <2>1, ResetNames DEF TaughtInv, Resetting
<1> QED  BY <1>2, <1>3 DEF LockForLearning

LEMMA ResetTeaches ==
  ASSUME NEW g \in Actors, IndexInv, RowsInv, Reset(g)
  PROVE  TaughtInv'
<1>1. PICK n \in 1 .. Len(ResetSteps) :
        /\ pen.at = ResetSteps[n]
        /\ IF n < Len(ResetSteps)
           THEN pen' = [pen EXCEPT !.at = ResetSteps[n + 1]] /\ UNCHANGED <<at, expired>>
           ELSE pen' = Idle /\ Go(g, "query") /\ expired' = FALSE
  BY DEF Reset
<1>2. Len(ResetSteps) = 6  BY DEF ResetSteps
<1>3. CASE n = 6
  <2>1. pen.at = "revBlank" /\ pen' = Idle  BY <1>1, <1>2, <1>3 DEF ResetSteps
  <2>2. fragments' = <<>> /\ cursor' = 0
    BY <2>1 DEF Reset, IndexInv, ResetInv
  <2>3. pen'.at = "row"  BY <2>1 DEF Idle
  <2>4. ~InRow' /\ ~Filing' /\ Pending' = <<>> /\ TaughtInHand' = <<>>
    BY <2>3 DEF InRow, Rest, Filing, Pending, TaughtInHand
  <2>5. TaughtByRows(cursor)' = <<>>
    <3>1. [k \in 1 .. 0 |-> TaughtOf(k, Len(Sentences(Rows[k])))'] = <<>>  OBVIOUS
    <3>2. TaughtByRows(cursor)' =
            FlattenSeq([k \in 1 .. cursor' |-> TaughtOf(k, Len(Sentences(Rows[k])))'])
      BY DEF TaughtByRows, TaughtOf
    <3>3. <<>> \in Seq(Seq(Fragment)) /\ Len(<<>>) = 0  OBVIOUS
    <3>4. FlattenSeq(<<>>) = <<>>  BY <3>3, FlattenTyped
    <3> QED  BY <2>2, <3>1, <3>2, <3>4
  <2>6. <<>> \o <<>> = <<>>
    <3>1. <<>> \in Seq(Nat)  OBVIOUS
    <3> QED  BY <3>1, ConcatEmptySeq
  <2> QED  BY <2>2, <2>4, <2>5, <2>6 DEF TaughtInv
<1>4. CASE n # 6
  <2>1. pen' = [pen EXCEPT !.at = ResetSteps[n + 1]]  BY <1>1, <1>2, <1>4
  <2>2. pen'.at = ResetSteps[n + 1]  BY <2>1 DEF IndexInv, PenInv
  <2>3. n \in 1 .. 5  BY <1>2, <1>4
  <2>4. ResetSteps[n + 1] \in {"revWords", "fragments", "fragmentWords", "blank", "revBlank"}
    BY <2>3 DEF ResetSteps
  <2>5. Resetting'  BY <2>2, <2>4, ResetNames DEF Resetting
  <2> QED  BY <2>5 DEF TaughtInv
<1> QED  BY <1>3, <1>4

\* The learner asks for the rows, or has learnt them all.
LEMMA NoRowTeaches ==
  ASSUME NEW g \in Actors, IndexInv, RowsInv, TaughtInv,
         LearnFromRawMessages(g) \/ UnlockLearned(g)
  PROVE  TaughtInv'
<1>1. UNCHANGED <<words, fragments, cursor>>
  BY DEF LearnFromRawMessages, UnlockLearned, model
<1>2. pen.at = "row" /\ pen'.at = "row"
  <2>1. CASE LearnFromRawMessages(g)
    <3>1. pen = Idle  BY <2>1 DEF LearnFromRawMessages, IndexInv, MutexInv
    <3> QED  BY <2>1, <3>1 DEF LearnFromRawMessages, Idle
  <2>2. CASE UnlockLearned(g)  BY <2>2 DEF UnlockLearned, Learning, Idle
  <2> QED  BY <2>1, <2>2
<1>3. ~Resetting /\ ~InRow /\ ~InRow' /\ Pending = <<>> /\ Pending' = <<>>
  BY <1>2, ResetNames DEF Resetting, InRow, Rest, Pending, Filing
<1>4. WordsKept  BY <1>1 DEF WordsKept
<1> QED  BY <1>1, <1>3, <1>4, TaughtSame

LEMMA LearnStringTeaches ==
  ASSUME NEW g \in Actors, IndexInv, RowsInv, TaughtInv, LearnString(g)
  PROVE  TaughtInv'
<1>1. /\ Learning(g, "row") /\ pen.rows # <<>> /\ UNCHANGED <<words, fragments, cursor>>
      /\ pen' = [pen EXCEPT !.at = "sentence", !.row = Head(pen.rows), !.rows = Tail(pen.rows),
                            !.sentences = Sentences(Rows[Head(pen.rows)])]
  BY DEF LearnString, model
<1>2. /\ pen'.at = "sentence" /\ pen.at = "row"
      /\ pen'.sentences = Sentences(Rows[Head(pen.rows)])
  BY <1>1 DEF IndexInv, PenInv, Learning
<1>3. ~Resetting /\ ~InRow /\ InRow' /\ Pending = <<>> /\ Pending' = <<>>
  BY <1>2, ResetNames DEF Resetting, InRow, Rest, Pending, Filing
<1>4. Head(pen.rows) = cursor + 1 /\ cursor + 1 \in 1 .. Len(Rows)
  <2>1. /\ pen.rows \in Seq(Nat) /\ Len(pen.rows) > 0 /\ cursor \in Nat
        /\ stored \in 0 .. Len(Rows)
        /\ \A i \in 1 .. Len(pen.rows) : pen.rows[i] = cursor + i /\ pen.rows[i] <= stored
    BY <1>1, <1>3 DEF RowsInv, PlaceInv
  <2>2. Head(pen.rows) = pen.rows[1] /\ 1 \in 1 .. Len(pen.rows) /\ Len(Rows) \in Nat
    BY <2>1, MarkovConstants
  <2>3. pen.rows[1] = cursor + 1 /\ cursor + 1 <= stored  BY <2>1, <2>2
  <2> QED  BY <2>1, <2>2, <2>3
<1>5. Ended' = 0
  <2>1. Split' = pen'.sentences  BY <1>1, <1>2, <1>4 DEF Split
  <2>2. Len(Split') \in Nat  BY <1>2, <1>4, <2>1, RowsTyped
  <2> QED  BY <2>1, <2>2 DEF Ended
<1>6. TaughtInHand = <<>> /\ TaughtInHand' = <<>>
  <2>1. PartsInv' /\ RowLearnt(cursor + 1, 0)'
    <3>1. Len(Sentences(Rows[cursor + 1])) \in Nat  BY <1>4, RowsTyped
    <3> QED  BY <1>1, <1>4, <3>1, LearnStringKeeps DEF RowLearnt, IndexInv
  <2>2. TaughtOf(cursor + 1, 0)' = <<>>
    <3>1. TaughtOf(cursor + 1, 0)' = FlattenSeq([i \in 1 .. 0 |-> Taught(Sentences(Rows[cursor + 1])[i])'])
      BY <1>1 DEF TaughtOf, Taught
    <3>2. [i \in 1 .. 0 |-> Taught(Sentences(Rows[cursor + 1])[i])'] = <<>>  OBVIOUS
    <3>3. <<>> \in Seq(Seq(Fragment)) /\ Len(<<>>) = 0  OBVIOUS
    <3>4. FlattenSeq(<<>>) = <<>>  BY <3>3, FlattenTyped
    <3> QED  BY <3>1, <3>2, <3>4
  <2> QED  BY <1>3, <1>5, <2>2 DEF TaughtInHand, TaughtOf
<1>7. TaughtByRows(cursor)' = TaughtByRows(cursor)  BY <1>1 DEF TaughtByRows, Taught
<1>8. \A s : Learnt(s)' <=> Learnt(s)  BY <1>1 DEF Learnt
<1>9. \A k \in 1 .. cursor' : \A n \in 1 .. Len(Sentences(Rows[k])) : Learnt(Sentences(Rows[k])[n])'
  BY <1>1, <1>3, <1>8 DEF TaughtInv
<1>10. fragments' \o Pending' = TaughtByRows(cursor)' \o TaughtInHand'
  BY <1>1, <1>3, <1>6, <1>7 DEF TaughtInv
<1>11. \A n \in 1 .. Ended' : Learnt(Split[n])'  BY <1>5
<1> QED  BY <1>9, <1>10, <1>11 DEF TaughtInv

\* A word gets its id: those that have one keep it.
LEMMA FindOrAddWordTeaches ==
  ASSUME NEW g \in Actors, IndexInv, RowsInv, TaughtInv, FindOrAddWord(g)
  PROVE  TaughtInv'
<1> DEFINE h == Head(pen.sentences)
           sentences == <<Tail(h)>> \o Tail(pen.sentences)
<1>1. /\ Learning(g, "sentence") /\ pen.sentences # <<>> /\ h # <<>>
      /\ UNCHANGED <<fragments, cursor>>
  BY DEF FindOrAddWord
<1>2. pen.at = "sentence"  BY <1>1 DEF Learning
<1>3. ~Resetting /\ InRow /\ ~Rest /\ Pending = <<>>
  BY <1>2, ResetNames DEF Resetting, InRow, Rest, Pending, Filing
<1>4. pen.sentences \in Seq(Seq(Words))  BY <1>3 DEF RowsInv, HandInv
<1>5. Len(sentences) = Len(pen.sentences)
  <2>1. h \in Seq(Words) /\ Tail(h) \in Seq(Words)  BY <1>1, <1>4
  <2> QED  BY <1>1, <1>4, <2>1, OtherHead
<1>6. WordsKept  BY DEF FindOrAddWord, WordsKept
<1>7. pen'.sentences = sentences /\ pen'.at \in {"sentence", "revWord"}
  <2> DEFINE rest == [pen EXCEPT !.sentences = sentences]
  <2>1. \E i : pen' = [rest EXCEPT !.ids = i]
               \/ \E w : pen' = [rest EXCEPT !.ids = i, !.at = "revWord", !.word = w]
    BY DEF FindOrAddWord
  <2> HIDE DEF sentences
  <2>2. rest = [at |-> "sentence", rows |-> pen.rows, row |-> pen.row, sentences |-> sentences,
                ids |-> pen.ids, word |-> pen.word, chain |-> pen.chain]
    BY <1>2 DEF IndexInv, PenInv
  <2> HIDE DEF rest
  <2> QED  BY <2>1, <2>2
<1>8. InRow' /\ Pending' = <<>>  BY <1>7 DEF InRow, Rest, Pending, Filing
<1>9. Ended' = Ended  BY <1>1, <1>5, <1>7 DEF Ended, Split
<1> QED  BY <1>1, <1>3, <1>6, <1>8, <1>9, TaughtSame

\* The second half of a word, a list for its first fragment, a fragment's id, or the
\* next sentence: what is taught and what is to be added stay together.
LEMMA BetweenTeaches ==
  ASSUME NEW g \in Actors, IndexInv, RowsInv, TaughtInv,
         AddRevWord(g) \/ MakeList(g) \/ FileFragment(g) \/ EndSentence(g)
  PROVE  TaughtInv'
<1>1. /\ UNCHANGED <<words, fragments, cursor>>
      /\ \/ pen.at = "revWord" /\ pen' = [pen EXCEPT !.at = "sentence"]
         \/ pen.at = "list" /\ pen' = [pen EXCEPT !.at = "file"]
         \/ pen.at = "file" /\ pen' = [pen EXCEPT !.at = "fragment", !.chain = Tail(pen.chain)]
         \/ pen.at = "fragment" /\ pen.chain = <<>> /\ pen' = [pen EXCEPT !.at = "sentence"]
  BY DEF AddRevWord, MakeList, FileFragment, EndSentence, Learning, model
<1>2. /\ pen'.sentences = pen.sentences
      /\ \/ pen.at = "revWord" /\ pen'.at = "sentence"
         \/ pen.at = "list" /\ pen'.at = "file" /\ pen'.chain = pen.chain
         \/ pen.at = "file" /\ pen'.at = "fragment" /\ pen'.chain = Tail(pen.chain)
         \/ pen.at = "fragment" /\ pen.chain = <<>> /\ pen'.at = "sentence"
  BY <1>1 DEF IndexInv, PenInv
<1>3. ~Resetting /\ InRow /\ InRow'  BY <1>2, ResetNames DEF Resetting, InRow, Rest
<1>4. Pending' = Pending  BY <1>2 DEF Pending, Filing
<1>5. Ended' = Ended /\ WordsKept  BY <1>1, <1>2 DEF Ended, Split, WordsKept
<1> QED  BY <1>1, <1>3, <1>4, <1>5, TaughtSame

LEMMA AddFragmentTeaches ==
  ASSUME NEW g \in Actors, IndexInv, RowsInv, TaughtInv, AddFragment(g)
  PROVE  TaughtInv'
<1>1. /\ Learning(g, "fragment") /\ pen.chain # <<>> /\ UNCHANGED <<words, cursor>>
      /\ fragments' = Append(fragments, Head(pen.chain))
      /\ pen' = [pen EXCEPT !.at = IF Head(pen.chain).c \in DOMAIN fragmentWords
                                   THEN "file" ELSE "list"]
  BY DEF AddFragment
<1>2. /\ pen'.at \in {"list", "file"} /\ pen'.sentences = pen.sentences
      /\ pen'.chain = pen.chain /\ pen.at = "fragment"
  BY <1>1 DEF IndexInv, PenInv, Learning
<1>3. ~Resetting /\ InRow /\ InRow'  BY <1>2, ResetNames DEF Resetting, InRow, Rest
<1>4. Pending = pen.chain /\ Pending' = Tail(pen.chain)  BY <1>2 DEF Pending, Filing
<1>5. fragments \in Seq(Fragment) /\ pen.chain \in Seq(Fragment)
  BY DEF IndexInv, PartsInv, PenInv
<1>6. fragments' \o Pending' = fragments \o Pending
  <2> DEFINE f == fragments
             c == pen.chain
             e == <<Head(c)>>
  <2>1. e \in Seq(Fragment) /\ Tail(c) \in Seq(Fragment) /\ Head(c) \in Fragment
    BY <1>1, <1>5
  <2>2. Append(f, Head(c)) = f \o e  BY <1>5, <2>1, AppendIsConcat
  <2>3. c = e \o Tail(c)
    <3> DEFINE t == Tail(c)
    <3>1. e \in Seq(Fragment) /\ t \in Seq(Fragment) /\ Len(e) = 1 /\ e[1] = c[1]
          /\ Len(c) \in Nat /\ Len(c) > 0 /\ Len(t) = Len(c) - 1
          /\ \A i \in 1 .. Len(c) - 1 : t[i] = c[i + 1]
      BY <1>1, <1>5
    <3> HIDE DEF e, t
    <3>a. e \in Seq(Fragment) /\ t \in Seq(Fragment)  BY <3>1
    <3>2. /\ e \o t \in Seq(Fragment) /\ Len(e \o t) = Len(e) + Len(t)
          /\ \A i \in 1 .. Len(e) + Len(t) : (e \o t)[i] = IF i <= Len(e) THEN e[i] ELSE t[i - Len(e)]
      BY <3>a, ConcatProperties
    <3> DEFINE u == e \o t
    <3>3. u \in Seq(Fragment) /\ Len(u) = Len(c)
          /\ \A i \in 1 .. Len(c) : u[i] = IF i <= 1 THEN e[i] ELSE t[i - 1]
      <4>1. Len(e) + Len(t) = Len(c)  BY <3>1
      <4> QED  BY <3>1, <3>2, <4>1
    <3> HIDE DEF u
    <3>4. ASSUME NEW i \in 1 .. Len(c)  PROVE u[i] = c[i]
      <4>1. CASE i = 1  BY <3>1, <3>3, <4>1
      <4>2. CASE i # 1
        <5>1. i - 1 \in 1 .. Len(c) - 1 /\ (i - 1) + 1 = i /\ ~(i <= 1)  BY <3>1, <4>2
        <5> QED  BY <3>1, <3>3, <5>1
      <4> QED  BY <4>1, <4>2
    <3>5. u = c  BY <1>5, <3>3, <3>4, SeqEqual
    <3> QED  BY <3>5 DEF u, t
  <2>4. (f \o e) \o Tail(c) = f \o (e \o Tail(c))
    <3> DEFINE t == Tail(c)
    <3>1. f \in Seq(Fragment) /\ e \in Seq(Fragment) /\ t \in Seq(Fragment)  BY <1>5, <2>1
    <3> HIDE DEF e, f, t
    <3>2. (f \o e) \o t = f \o (e \o t)  BY <3>1, ConcatAssociative
    <3> QED  BY <3>2 DEF t
  <2> HIDE DEF e
  <2> QED  BY <1>1, <1>4, <2>2, <2>3, <2>4
<1>7. Ended' = Ended /\ WordsKept  BY <1>1, <1>2 DEF Ended, Split, WordsKept
<1> QED  BY <1>1, <1>3, <1>6, <1>7, TaughtSame

\* The sentence's fragments are made: they are what it teaches.
LEMMA LearnSimpleTokensTeaches ==
  ASSUME NEW g \in Actors, IndexInv, IndexInv', RowsInv, RowsInv', TaughtInv, LearnSimpleTokens(g)
  PROVE  TaughtInv'
<1> DEFINE chain == CreateFragments(pen.ids)
           sentence == Split[Ended + 1]
           n == Ended
<1>1. /\ Learning(g, "sentence") /\ UNCHANGED <<words, fragments, cursor>>
      /\ pen.sentences # <<>> /\ Head(pen.sentences) = <<>>
      /\ pen' = [pen EXCEPT !.at = "fragment", !.chain = chain, !.ids = <<>>,
                            !.sentences = Tail(pen.sentences)]
  BY DEF LearnSimpleTokens, model
<1> HIDE DEF chain
<1>2. /\ pen'.at = "fragment" /\ pen'.sentences = Tail(pen.sentences) /\ pen'.chain = chain
      /\ pen.at = "sentence"
  BY <1>1 DEF IndexInv, PenInv, Learning
<1>3. ~Resetting /\ ~Resetting' /\ InRow /\ InRow' /\ ~Rest /\ Pending = <<>> /\ Pending' = chain
  BY <1>2, ResetNames DEF Resetting, InRow, Rest, Pending, Filing
<1>4. /\ RowsLearnt(cursor) /\ RowLearnt(cursor + 1, n) /\ fragments \in Seq(Fragment)
      /\ TaughtByRows(cursor) \in Seq(Fragment) /\ TaughtInHand = TaughtOf(cursor + 1, n)
      /\ TaughtOf(cursor + 1, n) \in Seq(Fragment)
      /\ fragments \o Pending = TaughtByRows(cursor) \o TaughtInHand
  BY <1>3, TaughtFacts DEF TaughtInHand, TaughtInv
<1>5. /\ pen.sentences \in Seq(Seq(Words)) /\ Len(pen.sentences) <= Len(Split)
      /\ InHand(sentence)
  BY <1>1, <1>3 DEF RowsInv, HandInv
<1>6. /\ cursor + 1 \in 1 .. Len(Rows) /\ Split \in Seq(Seq(Words)) /\ n \in Nat
      /\ n = Len(Split) - Len(pen.sentences)
  <2>1. cursor + 1 \in 1 .. Len(Rows) /\ n \in Nat  BY <1>4 DEF RowLearnt
  <2> QED  BY <2>1, RowsTyped DEF Split, Ended
<1>7. Ended' = n + 1 /\ n + 1 \in 1 .. Len(Split)
  <2>1. Len(Tail(pen.sentences)) = Len(pen.sentences) - 1 /\ Len(pen.sentences) \in Nat \ {0}
    BY <1>1, <1>5
  <2>2. Ended' = Len(Split) - Len(pen'.sentences) /\ Len(Split) \in Nat
    BY <1>1, <1>6 DEF Ended, Split
  <2> DEFINE a == Len(Split)
             b == Len(pen.sentences)
             d == Ended'
  <2>3. a \in Nat /\ b \in Nat \ {0} /\ b <= a /\ n = a - b /\ d = a - (b - 1)
    BY <1>2, <1>5, <1>6, <2>1, <2>2
  <2> HIDE DEF n, a, b, d
  <2>4. d = n + 1 /\ n + 1 \in 1 .. a  BY <2>3
  <2> QED  BY <2>4 DEF a, d
<1>8. sentence \in Seq(Words)
  <2> DEFINE all == Split
  <2>a. all \in Seq(Seq(Words)) /\ n + 1 \in 1 .. Len(all)  BY <1>6, <1>7
  <2> HIDE DEF n, all
  <2>b. all[n + 1] \in Seq(Words)  BY <2>a
  <2>1. Split[n + 1] \in Seq(Words)  BY <2>b DEF all
  <2> QED  BY <2>1 DEF n
<1>9. /\ pen.ids \in Seq(Nat) /\ Len(pen.ids) = Len(sentence)
      /\ \A j \in 1 .. Len(sentence) :
           sentence[j] \in DOMAIN words /\ pen.ids[j] = words[sentence[j]]
  <2>1. /\ Len(sentence) = Len(pen.ids) + Len(Head(pen.sentences))
        /\ \A j \in 1 .. Len(pen.ids) :
             sentence[j] \in DOMAIN words /\ pen.ids[j] = words[sentence[j]]
    BY <1>5 DEF InHand
  <2>2. pen.ids \in Seq(Nat)  BY DEF IndexInv, PenInv
  <2> DEFINE l == Len(pen.ids)
             k == Len(Head(pen.sentences))
             m == Len(sentence)
  <2>3. m = l + k /\ k = 0 /\ l \in Nat  BY <1>1, <2>1, <2>2
  <2> HIDE DEF l, k, m
  <2>4. l = m  BY <2>3
  <2> QED  BY <2>1, <2>2, <2>4 DEF l, m
<1> HIDE DEF sentence
<1>10. Learnt(sentence) /\ Taught(sentence) = chain
  <2>1. [i \in 1 .. Len(sentence) |-> words[sentence[i]]] = pen.ids
    <3>1. pen.ids = [i \in 1 .. Len(pen.ids) |-> pen.ids[i]]  BY <1>9
    <3> QED  BY <1>9, <3>1
  <2> QED  BY <1>9, <2>1 DEF Learnt, Taught, chain
<1>11. RowLearnt(cursor + 1, n + 1)
  <2>1. \A i \in 1 .. n + 1 : i \in 1 .. n \/ i = n + 1  BY <1>6
  <2>2. Split = Sentences(Rows[cursor + 1])  BY DEF Split
  <2>3. sentence = Split[n + 1]  BY DEF sentence
  <2>4. n + 1 \in 0 .. Len(Split)  BY <1>6, <1>7
  <2> HIDE DEF n
  <2>5. \A i \in 1 .. n + 1 : Learnt(Split[i])
    BY <1>4, <1>10, <2>1, <2>2, <2>3 DEF RowLearnt
  <2> QED  BY <1>6, <2>2, <2>4, <2>5 DEF RowLearnt
<1>12. TaughtOf(cursor + 1, n + 1) = TaughtOf(cursor + 1, n) \o chain
  <2>1. sentence = Sentences(Rows[cursor + 1])[n + 1]  BY DEF sentence, Split
  <2> HIDE DEF n
  <2> QED  BY <1>4, <1>10, <1>11, <2>1, TaughtOneMore DEF IndexInv
<1>13. \A s : (Learnt(s)' <=> Learnt(s)) /\ Taught(s)' = Taught(s)
  BY <1>1 DEF Learnt, Taught
<1>14. TaughtByRows(cursor)' = TaughtByRows(cursor) /\ TaughtInHand' = TaughtOf(cursor + 1, n + 1)
  <2>1. TaughtByRows(cursor)' = TaughtByRows(cursor)  BY <1>1 DEF TaughtByRows, Taught
  <2>2. \A m : TaughtOf(cursor + 1, m)' = TaughtOf(cursor + 1, m)  BY <1>1 DEF TaughtOf, Taught
  <2>4. TaughtInHand' = TaughtOf(cursor + 1, Ended)'  BY <1>3 DEF TaughtInHand
  <2>5. TaughtOf(cursor + 1, Ended)' = TaughtOf(cursor + 1, n + 1)
    BY <1>1, <1>7 DEF TaughtOf, Taught
  <2> QED  BY <2>1, <2>4, <2>5
<1>15. fragments' \o Pending' = TaughtByRows(cursor)' \o TaughtInHand'
  <2> DEFINE a == TaughtByRows(cursor)
             b == TaughtOf(cursor + 1, n)
  <2>1. a \in Seq(Fragment) /\ b \in Seq(Fragment) /\ fragments \in Seq(Fragment)  BY <1>4
  <2>2. chain \in Seq(Fragment)  BY <1>9, FragmentsOfIds DEF chain
  <2>3. fragments = a \o b
    <3>1. fragments \o <<>> = fragments  BY <2>1, ConcatEmptySeq
    <3> QED  BY <1>3, <1>4, <3>1
  <2>4. fragments' \o Pending' = fragments \o chain  BY <1>1, <1>3
  <2>5. TaughtByRows(cursor)' \o TaughtInHand' = a \o (b \o chain)  BY <1>12, <1>14
  <2> HIDE DEF a, b
  <2>6. (a \o b) \o chain = a \o (b \o chain)  BY <2>1, <2>2, ConcatAssociative
  <2> QED  BY <2>3, <2>4, <2>5, <2>6
<1>16. \A k \in 1 .. cursor' : \A i \in 1 .. Len(Sentences(Rows[k])) : Learnt(Sentences(Rows[k])[i])'
  BY <1>1, <1>3, <1>13 DEF TaughtInv
<1>17. \A i \in 1 .. Ended' : Learnt(Split[i])'
  <2>1. \A i \in 1 .. n + 1 : Learnt(Split[i])  BY <1>11 DEF RowLearnt, Split
  <2>2. Split' = Split  BY <1>1 DEF Split
  <2> QED  BY <1>1, <1>7, <2>1, <2>2 DEF Learnt
<1> QED  BY <1>15, <1>16, <1>17 DEF TaughtInv

\* The row is learnt, all of its sentences are.
LEMMA EndRowTeaches ==
  ASSUME NEW g \in Actors, IndexInv, RowsInv, TaughtInv, EndRow(g)
  PROVE  TaughtInv'
<1> DEFINE m == Len(Sentences(Rows[cursor + 1]))
<1>1. /\ Learning(g, "sentence") /\ UNCHANGED <<words, fragments>>
      /\ pen.sentences = <<>> /\ cursor' = pen.row /\ pen' = [pen EXCEPT !.at = "row"]
  BY DEF EndRow
<1>2. pen'.at = "row" /\ pen.at = "sentence"  BY <1>1 DEF IndexInv, PenInv, Learning
<1>3. ~Resetting /\ InRow /\ ~InRow' /\ Pending = <<>> /\ Pending' = <<>> /\ TaughtInHand' = <<>>
  BY <1>2, ResetNames DEF Resetting, InRow, Rest, Pending, Filing, TaughtInHand
<1>4. /\ RowsLearnt(cursor) /\ RowLearnt(cursor + 1, Ended) /\ fragments \in Seq(Fragment)
      /\ TaughtByRows(cursor) \in Seq(Fragment)
      /\ fragments \o <<>> = TaughtByRows(cursor) \o TaughtOf(cursor + 1, Ended)
  BY <1>3, TaughtFacts DEF TaughtInHand, TaughtInv
<1>5. cursor' = cursor + 1  BY <1>1, <1>3 DEF RowsInv, PlaceInv
<1>6. Ended = m
  <2>1. cursor + 1 \in 1 .. Len(Rows)  BY <1>4 DEF RowLearnt
  <2>2. m \in Nat  BY <2>1, RowsTyped
  <2>3. Ended = m - 0  BY <1>1 DEF Ended, Split
  <2> HIDE DEF m
  <2> QED  BY <2>2, <2>3
<1>7. RowLearnt(cursor + 1, m)  BY <1>4, <1>6
<1>8. RowsLearnt(cursor + 1)
  <2>1. cursor \in Nat /\ cursor + 1 \in 1 .. Len(Rows) /\ Len(Rows) \in Nat
    BY <1>4, MarkovConstants DEF RowsLearnt, RowLearnt
  <2>2. \A k \in 1 .. cursor + 1 : k \in 1 .. cursor \/ k = cursor + 1  BY <2>1
  <2>3. cursor + 1 \in 0 .. Len(Rows)  BY <2>1
  <2> QED  BY <1>4, <1>7, <2>2, <2>3 DEF RowsLearnt
<1>9. TaughtByRows(cursor + 1) = TaughtByRows(cursor) \o TaughtOf(cursor + 1, m)
  BY <1>4, <1>8, TaughtRowMore DEF IndexInv
<1>10. TaughtByRows(cursor)' = TaughtByRows(cursor + 1)  BY <1>1, <1>5 DEF TaughtByRows, Taught
<1>11. TaughtByRows(cursor + 1) \in Seq(Fragment)
  BY <1>8, TaughtByRowsTyped DEF IndexInv
<1>12. fragments' \o Pending' = TaughtByRows(cursor)' \o TaughtInHand'
  <2> DEFINE a == TaughtByRows(cursor + 1)
  <2>1. fragments \o <<>> = a  BY <1>4, <1>6, <1>9
  <2>2. a \o <<>> = a  BY <1>11, ConcatEmptySeq
  <2> QED  BY <1>1, <1>3, <1>10, <2>1, <2>2
<1>13. \A k \in 1 .. cursor' : \A n \in 1 .. Len(Sentences(Rows[k])) : Learnt(Sentences(Rows[k])[n])'
  <2>1. \A s : Learnt(s)' <=> Learnt(s)  BY <1>1 DEF Learnt
  <2>2. \A k \in 1 .. cursor + 1 : \A n \in 1 .. Len(Sentences(Rows[k])) :
          Learnt(Sentences(Rows[k])[n])
    BY <1>8 DEF RowsLearnt, RowLearnt
  <2> QED  BY <1>5, <2>1, <2>2
<1> QED  BY <1>3, <1>12, <1>13 DEF TaughtInv

\* A step that leaves the model and the learner alone.
LEMMA OthersTeach ==
  ASSUME IndexInv, RowsInv, TaughtInv, UNCHANGED <<model, pen>>
  PROVE  TaughtInv'
<1>1. UNCHANGED <<words, fragments, cursor, pen>>  BY DEF model
<1>2. CASE Resetting
  <2>1. Resetting'  BY <1>1, <1>2 DEF Resetting
  <2> QED  BY <2>1 DEF TaughtInv
<1>3. CASE ~Resetting
  <2>1. Pending' = Pending /\ (InRow' <=> InRow) /\ Ended' = Ended /\ WordsKept
    BY <1>1 DEF Pending, Filing, InRow, Rest, Ended, Split, WordsKept
  <2> QED  BY <1>1, <1>3, <2>1, TaughtSame
<1> QED  BY <1>2, <1>3

LEMMA TaughtInit == Init => TaughtInv
<1> SUFFICES ASSUME Init PROVE TaughtInv  OBVIOUS
<1>1. pen = Idle /\ fragments = <<>> /\ cursor = 0  BY DEF Init
<1>2. pen.at = "row"  BY <1>1 DEF Idle
<1>3. ~InRow /\ Pending = <<>> /\ TaughtInHand = <<>>
  BY <1>2 DEF InRow, Rest, Filing, Pending, TaughtInHand
<1>4. TaughtByRows(0) = <<>>
  <2>1. PartsInv  BY IndexInit DEF IndexInv
  <2>2. RowsLearnt(0)
    <3>1. Len(Rows) \in Nat  BY MarkovConstants
    <3> QED  BY <3>1 DEF RowsLearnt
  <2> QED  BY <2>1, <2>2, TaughtByRowsTyped
<1>5. <<>> \o <<>> = <<>>
  <2>1. <<>> \in Seq(Nat)  OBVIOUS
  <2> QED  BY <2>1, ConcatEmptySeq
<1> QED  BY <1>1, <1>3, <1>4, <1>5 DEF TaughtInv

LEMMA TaughtStep ==
  IndexInv /\ IndexInv' /\ RowsInv /\ RowsInv' /\ TaughtInv /\ [Next]_vars => TaughtInv'
<1> SUFFICES ASSUME IndexInv, IndexInv', RowsInv, RowsInv', TaughtInv, [Next]_vars
             PROVE  TaughtInv'
  OBVIOUS
<1>1. ASSUME NEW g \in Actors, Learner(g)  PROVE TaughtInv'
  BY <1>1, LockTeaches, ResetTeaches, NoRowTeaches, LearnStringTeaches, FindOrAddWordTeaches,
     BetweenTeaches, LearnSimpleTokensTeaches, AddFragmentTeaches, EndRowTeaches
     DEF Learner
<1>2. ASSUME NEW g \in Goroutines, Speaker(g) \/ Ask(g)  PROVE TaughtInv'
  <2>1. UNCHANGED <<model, pen>>  BY <1>2, SpeakerElsewhere DEF Outside
  <2> QED  BY <2>1, OthersTeach
<1>3. CASE Store \/ HourPasses \/ UNCHANGED vars
  <2>1. UNCHANGED <<model, pen>>  BY <1>3 DEF Store, HourPasses, vars
  <2> QED  BY <2>1, OthersTeach
<1> QED  BY <1>1, <1>2, <1>3 DEF Next, Step

\* The model holds what the rows up to the cursor teach and what the learner has
\* added of the row in hand, in the order of the rows (markov3/learning.go).
THEOREM TaughtInvariance == Spec => []TaughtInv
<1>1. Init => TaughtInv  BY TaughtInit
<1>2. IndexInv /\ IndexInv' /\ RowsInv /\ RowsInv' /\ TaughtInv /\ [Next]_vars => TaughtInv'
  BY TaughtStep
<1> QED  BY <1>1, <1>2, IndexInvariance, RowsInvariance, PTL DEF Spec

\* Whenever nobody learns, the model holds every word and, once each and in order,
\* the fragments of the rows up to the cursor, whatever was reset, asked for or
\* stored meanwhile (markovGenerate, markovV3Learn, markovV3Rebuild).
THEOREM TheModelIsItsRows == Spec => []ModelIsTheRows
<1>1. ASSUME IndexInv, RowsInv, TaughtInv  PROVE ModelIsTheRows
  <2>1. SUFFICES ASSUME owner = NoOne
                 PROVE  /\ \A k \in 1 .. cursor : Range(Rows[k]) \ {SentEnd} \subseteq DOMAIN words
                        /\ fragments = TaughtByRows(cursor)
    BY DEF ModelIsTheRows
  <2>2. pen.at = "row"  BY <1>1, <2>1 DEF IndexInv, MutexInv, Idle
  <2>3. ~Resetting /\ Pending = <<>> /\ TaughtInHand = <<>>
    BY <2>2, ResetNames DEF Resetting, Pending, Filing, TaughtInHand, InRow, Rest
  <2>4. /\ RowsLearnt(cursor) /\ fragments \in Seq(Fragment)
        /\ TaughtByRows(cursor) \in Seq(Fragment)
    BY <1>1, <2>3, TaughtFacts
  <2>5. fragments = TaughtByRows(cursor)
    <3>1. fragments \o <<>> = TaughtByRows(cursor) \o <<>>  BY <1>1, <2>3 DEF TaughtInv
    <3>2. fragments \o <<>> = fragments  BY <2>4, ConcatEmptySeq
    <3>3. TaughtByRows(cursor) \o <<>> = TaughtByRows(cursor)  BY <2>4, ConcatEmptySeq
    <3> QED  BY <3>1, <3>2, <3>3
  <2>6. ASSUME NEW k \in 1 .. cursor, NEW w \in Range(Rows[k]), w # SentEnd
        PROVE  w \in DOMAIN words
    <3> DEFINE all == Sentences(Rows[k])
    <3>1. k \in 1 .. Len(Rows)  BY <2>4, MarkovConstants DEF RowsLearnt, RowLearnt
    <3>2. Rows[k] \in Seq(Words \cup {SentEnd}) /\ all \in Seq(Seq(Words))
      BY <3>1, RowsTyped
    <3>3. PICK p \in 1 .. Len(Rows[k]) : Rows[k][p] = w
      BY <3>2 DEF Range
    <3>4. PICK n \in DOMAIN all : \E i \in DOMAIN all[n] : all[n][i] = w
      BY <2>6, <3>2, <3>3, SentencesCover
    <3>5. Learnt(all[n])
      <4>1. n \in 1 .. Len(all)  BY <3>2
      <4> QED  BY <2>4, <4>1 DEF RowsLearnt, RowLearnt
    <3> HIDE DEF all
    <3>6. all[n] \in Seq(Words)  BY <3>2
    <3>7. PICK i \in 1 .. Len(all[n]) : all[n][i] = w  BY <3>4, <3>6
    <3> QED  BY <3>5, <3>7 DEF Learnt
  <2> QED  BY <2>5, <2>6
<1> QED  BY <1>1, IndexInvariance, RowsInvariance, TaughtInvariance, PTL

----------------------------------------------------------------------------
(* What a speaker has in hand *)

SpeechFields == {"word", "tries", "revLen", "w", "ids", "base", "side", "frag", "link", "runt",
                 "results", "left", "back", "again"}
IsSpeech(s) ==
  /\ s = [f \in SpeechFields |-> s[f]]
  /\ s.ids \in Seq(Nat) /\ s.results \in Seq(Nat) /\ s.left \in Seq(Nat)
  /\ s.base \in Fragment /\ s.frag \in Fragment
  /\ s.side \in {"left", "right"} /\ s.back \in BOOLEAN

Fresh(s) == s.results = <<>> /\ s.left = <<>> /\ s.side = "left" /\ s.back = FALSE

\* The words walked so far, in the order they will be spoken, and where the walk goes on.
Walked(s) ==
  IF s.side = "left" THEN Reverse(s.results) \o Triple(s.base)
                     ELSE s.left \o Triple(s.base) \o s.results
OuterEnd(s) == IF s.side = "left" THEN Walked(s)[1] ELSE Walked(s)[Len(Walked(s))]

\* What a speaker at a place read leads to fragments and words that are still there.
Sound(place, s) ==
  /\ place = "again" => s.revLen # 0
  /\ place \in {"pick", "link"} => \A i \in DOMAIN s.ids : s.ids[i] < Len(fragments)
  /\ place = "link" => \A i \in DOMAIN s.ids : fragments[s.ids[i] + 1].c = Target(s.frag, s.side)
  /\ place \in {"walk", "link"} =>
       /\ Known(Walked(s))
       /\ s.back = FALSE => Linked(Walked(s)) /\ Target(s.frag, s.side) = OuterEnd(s)
  /\ place = "spell" => Known(s.results) /\ (s.back = FALSE => Linked(s.results))

SpeakingPlaces == {"list", "again", "pick", "walk", "link", "spell"}

SpeakerInv ==
  /\ speech = [a \in Actors |-> speech[a]]
  /\ \A g \in Goroutines :
       /\ IsSpeech(speech[g])
       /\ at[g] \in {"walk", "link", "spell", "failed"} \/ Fresh(speech[g])
       /\ at[g] \in SpeakingPlaces /\ g \notin overtaken => IsIntact /\ Sound(at[g], speech[g])

----------------------------------------------------------------------------
(* Walks *)

LEMMA WalkedTyped ==
  ASSUME NEW s, IsSpeech(s)
  PROVE  /\ Reverse(s.results) \in Seq(Nat) /\ Len(Reverse(s.results)) = Len(s.results)
         /\ Triple(s.base) \in Seq(Nat) /\ Len(Triple(s.base)) = 3
         /\ Walked(s) \in Seq(Nat) /\ Len(Walked(s)) \in Nat /\ Len(Walked(s)) >= 3
<1> DEFINE r == s.results
           b == Triple(s.base)
<1>1. r \in Seq(Nat) /\ s.left \in Seq(Nat) /\ s.side \in {"left", "right"} /\ Len(r) \in Nat
  BY DEF IsSpeech
<1>2. b \in Seq(Nat) /\ Len(b) = 3  BY TriplesTyped DEF IsSpeech
<1> HIDE DEF r, b
<1>3. Reverse(r) \in Seq(Nat) /\ Len(Reverse(r)) = Len(r)
  <2>1. \A i \in 1 .. Len(r) : (Len(r) - i) + 1 \in 1 .. Len(r)  BY <1>1
  <2>2. \A i \in 1 .. Len(r) : r[(Len(r) - i) + 1] \in Nat  BY <1>1, <2>1
  <2>3. Reverse(r) \in [1 .. Len(r) -> Nat]  BY <2>2 DEF Reverse
  <2> QED  BY <1>1, <2>3
<1>4. Reverse(r) \o b \in Seq(Nat) /\ Len(Reverse(r) \o b) = Len(r) + 3
  <2>1. Reverse(r) \o b \in Seq(Nat) /\ Len(Reverse(r) \o b) = Len(Reverse(r)) + Len(b)
    BY <1>2, <1>3, ConcatProperties
  <2> QED  BY <1>2, <1>3, <2>1
<1>5. /\ s.left \o b \in Seq(Nat) /\ Len(s.left \o b) = Len(s.left) + 3 /\ Len(s.left) \in Nat
  <2>1. s.left \o b \in Seq(Nat) /\ Len(s.left \o b) = Len(s.left) + Len(b)
    BY <1>1, <1>2, ConcatProperties
  <2>2. Len(s.left) \in Nat  BY <1>1
  <2> QED  BY <1>2, <2>1, <2>2
<1>6. s.left \o b \o r \in Seq(Nat) /\ Len(s.left \o b \o r) = (Len(s.left) + 3) + Len(r)
  <2> DEFINE lb == s.left \o b
  <2>1. lb \in Seq(Nat) /\ Len(lb) = Len(s.left) + 3  BY <1>5
  <2> HIDE DEF lb
  <2>2. lb \o r \in Seq(Nat) /\ Len(lb \o r) = Len(lb) + Len(r)
    BY <1>1, <2>1, ConcatProperties
  <2> QED  BY <2>1, <2>2 DEF lb
<1>7. Walked(s) = IF s.side = "left" THEN Reverse(r) \o b ELSE s.left \o b \o r
  BY DEF Walked, r, b
<1>8. Walked(s) \in Seq(Nat) /\ Len(Walked(s)) \in Nat /\ Len(Walked(s)) >= 3
  <2>1. CASE s.side = "left"
    <3> DEFINE u == Reverse(r) \o b
    <3> HIDE DEF u
    <3>1. u \in Seq(Nat) /\ Len(u) \in Nat /\ Len(u) >= 3  BY <1>1, <1>4 DEF u
    <3> QED  BY <1>7, <2>1, <3>1 DEF u
  <2>2. CASE s.side # "left"
    <3> DEFINE u == s.left \o b \o r
    <3> HIDE DEF u
    <3>1. u \in Seq(Nat) /\ Len(u) \in Nat /\ Len(u) >= 3  BY <1>1, <1>5, <1>6 DEF u
    <3> QED  BY <1>7, <2>2, <3>1 DEF u
  <2> QED  BY <2>1, <2>2
<1> QED  BY <1>2, <1>3, <1>8 DEF r, b

\* A walk to the right adds its words behind, a walk to the left before.
LEMMA WalkedRight ==
  ASSUME NEW s, IsSpeech(s), NEW x \in Nat, NEW t, t.side = "right", s.side = "right",
         t.base = s.base, t.left = s.left, t.results = Append(s.results, x)
  PROVE  Walked(t) = Append(Walked(s), x)
<1> DEFINE b == Triple(s.base)
           lb == s.left \o b
           r == s.results
<1>1. lb \in Seq(Nat) /\ r \in Seq(Nat) /\ <<x>> \in Seq(Nat)
  <2>1. s.left \in Seq(Nat) /\ r \in Seq(Nat)  BY DEF IsSpeech
  <2>2. b \in Seq(Nat)  BY WalkedTyped
  <2> HIDE DEF b
  <2>3. lb \in Seq(Nat)  BY <2>1, <2>2, ConcatProperties
  <2> QED  BY <2>1, <2>3
<1>2. Walked(t) = lb \o Append(r, x) /\ Walked(s) = lb \o r  BY DEF Walked
<1> HIDE DEF lb, r
<1>3. Append(r, x) = r \o <<x>>  BY <1>1, AppendIsConcat
<1>4. lb \o (r \o <<x>>) = (lb \o r) \o <<x>>  BY <1>1, ConcatAssociative
<1>5. lb \o r \in Seq(Nat)  BY <1>1, ConcatProperties
<1>6. Append(lb \o r, x) = (lb \o r) \o <<x>>  BY <1>5, AppendIsConcat
<1> QED  BY <1>2, <1>3, <1>4, <1>6

LEMMA ReverseAppend ==
  ASSUME NEW S, NEW r \in Seq(S), NEW x \in S
  PROVE  Reverse(Append(r, x)) = <<x>> \o Reverse(r)
<1> DEFINE n == Len(r)
           a == Append(r, x)
           u == Reverse(a)
           v == <<x>> \o Reverse(r)
           y == <<x>>
<1>1. n \in Nat /\ a \in Seq(S) /\ Len(a) = n + 1 /\ a[n + 1] = x /\ \A i \in 1 .. n : a[i] = r[i]
  OBVIOUS
<1>2. u \in Seq(S) /\ Len(u) = n + 1 /\ \A i \in 1 .. n + 1 : u[i] = a[(n + 1 - i) + 1]
  <2> HIDE DEF a, n
  <2>1. \A i \in 1 .. n + 1 : (n + 1 - i) + 1 \in 1 .. n + 1  BY <1>1
  <2>2. \A i \in 1 .. n + 1 : a[(n + 1 - i) + 1] \in S  BY <1>1, <2>1
  <2>3. u = [i \in 1 .. n + 1 |-> a[(n + 1 - i) + 1]]  BY <1>1 DEF Reverse
  <2>4. u \in [1 .. n + 1 -> S] /\ n + 1 \in Nat  BY <1>1, <2>2, <2>3
  <2> QED  BY <2>3, <2>4
<1>3. /\ Reverse(r) \in Seq(S) /\ Len(Reverse(r)) = n
      /\ \A i \in 1 .. n : Reverse(r)[i] = r[(n - i) + 1]
  <2>1. \A i \in 1 .. n : (n - i) + 1 \in 1 .. n  BY <1>1
  <2>2. \A i \in 1 .. n : r[(n - i) + 1] \in S  BY <2>1
  <2>3. Reverse(r) = [i \in 1 .. n |-> r[(n - i) + 1]]  BY DEF Reverse
  <2> HIDE DEF n
  <2>4. PICK rev : rev = Reverse(r)  OBVIOUS
  <2>5. rev \in [1 .. n -> S] /\ n \in Nat  BY <1>1, <2>2, <2>3, <2>4
  <2>6. rev \in Seq(S) /\ Len(rev) = n  BY <2>5
  <2>7. \A i \in 1 .. n : rev[i] = r[(n - i) + 1]  BY <2>3, <2>4
  <2> QED  BY <2>4, <2>6, <2>7
<1>4. y \in Seq(S) /\ Len(y) = 1 /\ y[1] = x  OBVIOUS
<1> HIDE DEF y
<1>5. /\ v \in Seq(S) /\ Len(v) = 1 + n
      /\ \A i \in 1 .. 1 + n : v[i] = IF i <= 1 THEN y[i] ELSE Reverse(r)[i - 1]
  BY <1>3, <1>4, ConcatProperties DEF y
<1> HIDE DEF u, v, a, n
<1>6. ASSUME NEW i \in 1 .. n + 1  PROVE u[i] = v[i]
  <2>1. CASE i = 1
    <3>1. u[i] = x  BY <1>1, <1>2, <2>1
    <3> QED  BY <1>1, <1>4, <1>5, <2>1, <3>1
  <2>2. CASE i # 1
    <3>1. i - 1 \in 1 .. n /\ ~(i <= 1) /\ i \in 1 .. 1 + n  BY <1>1, <2>2
    <3>2. (n + 1 - i) + 1 \in 1 .. n /\ (n + 1 - i) + 1 = (n - (i - 1)) + 1  BY <1>1, <3>1
    <3>3. u[i] = r[(n - (i - 1)) + 1]  BY <1>1, <1>2, <3>2
    <3>4. v[i] = r[(n - (i - 1)) + 1]  BY <1>3, <1>5, <3>1
    <3> QED  BY <3>3, <3>4
  <2> QED  BY <2>1, <2>2
<1>7. Len(u) = Len(v)  BY <1>1, <1>2, <1>5
<1>8. u = v  BY <1>2, <1>5, <1>6, <1>7, SeqEqual
<1> QED  BY <1>8 DEF u, v, a

LEMMA WalkedLeft ==
  ASSUME NEW s, IsSpeech(s), NEW x \in Nat, NEW t, t.side = "left", s.side = "left",
         t.base = s.base, t.results = Append(s.results, x)
  PROVE  Walked(t) = <<x>> \o Walked(s)
<1> DEFINE b == Triple(s.base)
           r == s.results
           q == Reverse(r)
<1>1. q \in Seq(Nat) /\ b \in Seq(Nat) /\ r \in Seq(Nat) /\ <<x>> \in Seq(Nat)
  BY WalkedTyped DEF IsSpeech
<1>2. Walked(t) = Reverse(Append(r, x)) \o b /\ Walked(s) = q \o b  BY DEF Walked
<1>3. Reverse(Append(r, x)) = <<x>> \o q  BY <1>1, ReverseAppend
<1> HIDE DEF q, b, r
<1>4. (<<x>> \o q) \o b = <<x>> \o (q \o b)  BY <1>1, ConcatAssociative
<1> QED  BY <1>2, <1>3, <1>4

LEMMA LinkedBehind ==
  ASSUME NEW ids \in Seq(Nat), Len(ids) > 0, NEW x \in Nat, Known(ids), x < Len(revWords)
  PROVE  LET more == Append(ids, x)
         IN /\ Known(more)
            /\ Linked(ids) /\ Adjacent(revWords[ids[Len(ids)] + 1], revWords[x + 1]) => Linked(more)
            /\ more[Len(more)] = x
<1> DEFINE n == Len(ids)
           more == Append(ids, x)
<1>1. /\ n \in Nat /\ n > 0 /\ Len(more) = n + 1 /\ DOMAIN more = 1 .. n + 1 /\ more[n + 1] = x
      /\ \A i \in 1 .. n : more[i] = ids[i]
  OBVIOUS
<1>2. \A i \in 1 .. n : ids[i] < Len(revWords)  BY DEF Known
<1> HIDE DEF more, n
<1>3. Known(more)
  <2>1. \A i \in 1 .. n + 1 : i \in 1 .. n \/ i = n + 1  BY <1>1
  <2> QED  BY <1>1, <1>2, <2>1 DEF Known
<1>4. ASSUME Linked(ids), Adjacent(revWords[ids[n] + 1], revWords[x + 1])  PROVE Linked(more)
  <2>1. SUFFICES ASSUME NEW i \in 1 .. n
                 PROVE  Adjacent(revWords[more[i] + 1], revWords[more[i + 1] + 1])
    BY <1>1 DEF Linked
  <2>2. CASE i = n  BY <1>1, <1>4, <2>2
  <2>3. CASE i # n
    <3>1. i \in 1 .. n - 1 /\ i + 1 \in 1 .. n  BY <1>1, <2>3
    <3>2. Adjacent(revWords[ids[i] + 1], revWords[ids[i + 1] + 1])
      BY <1>4, <3>1 DEF Linked, n
    <3> QED  BY <1>1, <3>1, <3>2
  <2> QED  BY <2>2, <2>3
<1> QED  BY <1>1, <1>3, <1>4 DEF more, n

LEMMA LinkedBefore ==
  ASSUME NEW ids \in Seq(Nat), Len(ids) > 0, NEW x \in Nat, Known(ids), x < Len(revWords)
  PROVE  LET more == <<x>> \o ids
         IN /\ Known(more)
            /\ Linked(ids) /\ Adjacent(revWords[x + 1], revWords[ids[1] + 1]) => Linked(more)
            /\ more[1] = x
<1> DEFINE n == Len(ids)
           y == <<x>>
           more == y \o ids
<1>1. y \in Seq(Nat) /\ Len(y) = 1 /\ y[1] = x /\ n \in Nat /\ n > 0  OBVIOUS
<1>2. more = <<x>> \o ids  OBVIOUS
<1> HIDE DEF y
<1>3. /\ more \in Seq(Nat) /\ Len(more) = 1 + n
      /\ \A i \in 1 .. 1 + n : more[i] = IF i <= 1 THEN y[i] ELSE ids[i - 1]
  <2>1. /\ y \o ids \in Seq(Nat) /\ Len(y \o ids) = Len(y) + Len(ids)
        /\ \A i \in 1 .. Len(y) + Len(ids) :
             (y \o ids)[i] = IF i <= Len(y) THEN y[i] ELSE ids[i - Len(y)]
    BY <1>1, ConcatProperties
  <2> HIDE DEF more
  <2>2. Len(y) = 1 /\ Len(ids) = n  BY <1>1
  <2> HIDE DEF n
  <2> QED  BY <2>1, <2>2 DEF more
<1>4. \A i \in 1 .. n : ids[i] < Len(revWords)  BY DEF Known
<1> HIDE DEF more, n
<1>5. /\ DOMAIN more = 1 .. n + 1 /\ more[1] = x
      /\ \A i \in 1 .. n : more[i + 1] = ids[i]
  <2>1. \A i \in 1 .. n : i + 1 \in 1 .. 1 + n /\ ~(i + 1 <= 1) /\ (i + 1) - 1 = i  BY <1>1
  <2>2. DOMAIN more = 1 .. 1 + n /\ 1 \in 1 .. 1 + n /\ 1 + n = n + 1  BY <1>1, <1>3
  <2> QED  BY <1>1, <1>3, <2>1, <2>2
<1>6. Known(more)
  <2>1. SUFFICES ASSUME NEW i \in 1 .. n + 1  PROVE more[i] < Len(revWords)
    BY <1>5 DEF Known
  <2>2. CASE i = 1  BY <1>5, <2>2
  <2>3. CASE i # 1
    <3>1. i - 1 \in 1 .. n /\ (i - 1) + 1 = i  BY <1>1, <2>3
    <3> QED  BY <1>4, <1>5, <3>1
  <2> QED  BY <2>2, <2>3
<1>7. ASSUME Linked(ids), Adjacent(revWords[x + 1], revWords[ids[1] + 1])  PROVE Linked(more)
  <2>1. SUFFICES ASSUME NEW i \in 1 .. n
                 PROVE  Adjacent(revWords[more[i] + 1], revWords[more[i + 1] + 1])
    <3>1. Len(more) - 1 = n  BY <1>1, <1>3
    <3> QED  BY <2>1, <3>1 DEF Linked
  <2>2. CASE i = 1  BY <1>1, <1>5, <1>7, <2>2
  <2>3. CASE i # 1
    <3>1. i - 1 \in 1 .. n - 1 /\ i - 1 \in 1 .. n /\ (i - 1) + 1 = i  BY <1>1, <2>3
    <3>2. Adjacent(revWords[ids[i - 1] + 1], revWords[ids[(i - 1) + 1] + 1])
      BY <1>7, <3>1 DEF Linked, n
    <3> QED  BY <1>5, <3>1, <3>2
  <2> QED  BY <2>2, <2>3
<1> QED  BY <1>2, <1>5, <1>6, <1>7 DEF n

----------------------------------------------------------------------------
(* What others do does not take away what a speaker has in hand *)

LEMMA SoundSame ==
  ASSUME UNCHANGED <<revWords, stored, fragments>>, NEW place, NEW s
  PROVE  Sound(place, s)' <=> Sound(place, s)
<1>1. \A ids : (Known(ids)' <=> Known(ids)) /\ (Linked(ids)' <=> Linked(ids))
  BY DEF Known, Linked, Adjacent
<1>2. fragments' = fragments  OBVIOUS
<1> QED  BY <1>1, <1>2 DEF Sound

LEMMA SoundStays ==
  ASSUME PartsInv, PartsInv', PlaceInv, PlaceInv', Grows, NEW place, NEW s, IsSpeech(s),
         Sound(place, s)
  PROVE  Sound(place, s)'
<1>1. s.ids \in Seq(Nat) /\ s.results \in Seq(Nat) /\ Walked(s) \in Seq(Nat)
  BY WalkedTyped DEF IsSpeech
<1>2. Len(fragments) \in Nat /\ Len(fragments') \in Nat  BY LengthsTyped
<1>3. ASSUME place \in {"pick", "link"}, NEW i \in DOMAIN s.ids
      PROVE  /\ s.ids[i] < Len(fragments')
             /\ place = "link" => fragments'[s.ids[i] + 1].c = Target(s.frag, s.side)
  <2>1. s.ids[i] \in Nat /\ s.ids[i] < Len(fragments)  BY <1>1, <1>3 DEF Sound
  <2>2. s.ids[i] + 1 \in 1 .. Len(fragments)  BY <1>2, <2>1
  <2>3. fragments'[s.ids[i] + 1] = fragments[s.ids[i] + 1]  BY <2>2 DEF Grows
  <2>4. s.ids[i] < Len(fragments')  BY <1>2, <2>1 DEF Grows
  <2>5. place = "link" => fragments[s.ids[i] + 1].c = Target(s.frag, s.side)  BY DEF Sound
  <2> QED  BY <2>3, <2>4, <2>5
<1>4. \A q \in Seq(Nat) : Known(q) => Known(q)' /\ (Linked(q) => Linked(q)')  BY LinksStay
<1>5. place \in {"walk", "link"} =>
        /\ Known(Walked(s))'
        /\ s.back = FALSE => Linked(Walked(s))' /\ Target(s.frag, s.side) = OuterEnd(s)
  BY <1>1, <1>4 DEF Sound
<1>6. place = "spell" => Known(s.results)' /\ (s.back = FALSE => Linked(s.results)')
  BY <1>1, <1>4 DEF Sound
<1>7. place = "again" => s.revLen # 0  BY DEF Sound
<1> QED  BY <1>3, <1>5, <1>6, <1>7 DEF Sound

LEMMA GrowsOrSame ==
  ASSUME IndexInv, PlaceInv, UNCHANGED <<revWords, fragments, stored>>
  PROVE  Grows
  BY LengthsTyped DEF IndexInv, PlaceInv, Grows

\* A step that moves no speaker, and takes nothing from the model.
LEMMA SpeakersStay ==
  ASSUME IndexInv, IndexInv', RowsInv, RowsInv', SpeakerInv, UNCHANGED <<speech, overtaken>>,
         Grows, IsIntact => IsIntact',
         \A g \in Goroutines :
           at'[g] = at[g] \/ (at[g] \notin {"walk", "link", "spell", "failed"}
                                /\ at'[g] \notin SpeakingPlaces)
  PROVE  SpeakerInv'
<1>1. ASSUME NEW g \in Goroutines
      PROVE  /\ IsSpeech(speech'[g])
             /\ at'[g] \in {"walk", "link", "spell", "failed"} \/ Fresh(speech'[g])
             /\ at'[g] \in SpeakingPlaces /\ g \notin overtaken' => IsIntact' /\ Sound(at[g], speech[g])'
  <2>1. IsSpeech(speech[g]) /\ speech'[g] = speech[g] /\ overtaken' = overtaken  BY DEF SpeakerInv
  <2>2. at'[g] \in {"walk", "link", "spell", "failed"} \/ Fresh(speech'[g])
    BY <2>1 DEF SpeakerInv
  <2>3. ASSUME at'[g] \in SpeakingPlaces, g \notin overtaken'
        PROVE  IsIntact' /\ Sound(at[g], speech[g])'
    <3>1. at'[g] = at[g]  BY <2>3
    <3>2. IsIntact /\ Sound(at[g], speech[g])  BY <2>1, <2>3, <3>1 DEF SpeakerInv
    <3>3. ASSUME NEW place, NEW s, place = at[g], s = speech[g]  PROVE Sound(place, s)'
      BY <2>1, <3>2, <3>3, SoundStays DEF IndexInv, RowsInv
    <3> QED  BY <2>1, <3>1, <3>2, <3>3
  <2> QED  BY <2>1, <2>2, <2>3
<1>2. speech' = [a \in Actors |-> speech'[a]]  BY DEF SpeakerInv
<1> QED  BY <1>1, <1>2 DEF SpeakerInv

----------------------------------------------------------------------------
(* A speaker's steps *)

\* Where a speaker that fails may have been, and in what state.
Excused(g) ==
  \/ g \in overtaken
  \/ at[g] = "find" /\ Resetting
  \/ at[g] \in {"pick", "link"} /\ speech[g].ids = <<>>

Sane(g, place, s) ==
  /\ place \in Unlocked
  /\ IsSpeech(s)
  /\ place \in {"walk", "link", "spell", "failed"} \/ Fresh(s)
  /\ place \in SpeakingPlaces /\ g \notin overtaken' => IsIntact /\ Sound(place, s)
  /\ place = "failed" /\ at[g] # "failed" => Excused(g)

Moves(g, place, s) == at' = [at EXCEPT ![g] = place] /\ speech' = [speech EXCEPT ![g] = s]

\* A speaker comes to a place with what it needs there.
Arrives(g) ==
  /\ UNCHANGED <<model, stored, pen>>
  /\ \A h \in Goroutines : h # g => (h \in overtaken' <=> h \in overtaken)
  /\ \E place, s : Moves(g, place, s) /\ Sane(g, place, s)

LEMMA ArrivesKeeps ==
  ASSUME IndexInv, SpeakerInv, NEW g \in Goroutines, Arrives(g)
  PROVE  SpeakerInv' /\ (at[g] # "failed" /\ at'[g] = "failed" => Excused(g))
<1>1. PICK place, s : Moves(g, place, s) /\ Sane(g, place, s)  BY DEF Arrives
<1>2. at \in [Actors -> Places] /\ g \in Actors  BY DEF IndexInv, MutexInv, Actors
<1>3. /\ at'[g] = place /\ speech'[g] = s
      /\ \A h \in Actors : h # g => at'[h] = at[h] /\ speech'[h] = speech[h]
      /\ speech' = [a \in Actors |-> speech'[a]]
  BY <1>1, <1>2 DEF Moves, SpeakerInv
<1>4. UNCHANGED <<revWords, stored, fragments>> /\ pen' = pen  BY DEF Arrives, model
<1>5. IsIntact' <=> IsIntact  BY <1>4 DEF IsIntact, Resetting
<1>6. \A p, q : Sound(p, q)' <=> Sound(p, q)  BY <1>4, SoundSame
<1>7. ASSUME NEW h \in Goroutines
      PROVE  /\ IsSpeech(speech'[h])
             /\ at'[h] \in {"walk", "link", "spell", "failed"} \/ Fresh(speech'[h])
             /\ at'[h] \in SpeakingPlaces /\ h \notin overtaken' => IsIntact' /\ Sound(at[h], speech[h])'
  <2>1. CASE h = g
    <3>1. \A p, q : p = at'[h] /\ q = speech'[h] => (Sound(at[h], speech[h])' <=> Sound(p, q)')
      OBVIOUS
    <3>2. Sound(at[h], speech[h])' <=> Sound(place, s)  BY <1>3, <1>6, <2>1, <3>1
    <3> QED  BY <1>1, <1>3, <1>5, <2>1, <3>2 DEF Sane
  <2>2. CASE h # g
    <3>1. at'[h] = at[h] /\ speech'[h] = speech[h] /\ (h \in overtaken' <=> h \in overtaken)
      BY <1>3, <2>2 DEF Arrives, Actors
    <3>2. \A p, q : p = at'[h] /\ q = speech'[h] => (Sound(at[h], speech[h])' <=> Sound(p, q)')
      OBVIOUS
    <3>3. Sound(at[h], speech[h])' <=> Sound(at[h], speech[h])  BY <1>6, <3>1, <3>2
    <3> QED  BY <1>5, <3>1, <3>3 DEF SpeakerInv
  <2> QED  BY <2>1, <2>2
<1>8. SpeakerInv'  BY <1>3, <1>7 DEF SpeakerInv
<1>9. at[g] # "failed" /\ at'[g] = "failed" => Excused(g)  BY <1>1, <1>3 DEF Sane
<1> QED  BY <1>8, <1>9

LEMMA SilenceTyped == IsSpeech(Silence) /\ Fresh(Silence)
<1>1. DOMAIN Silence = SpeechFields  BY DEF Silence, SpeechFields
<1>2. Silence = [f \in DOMAIN Silence |-> Silence[f]]  BY DEF Silence
<1>3. /\ Silence.ids = <<>> /\ Silence.results = <<>> /\ Silence.left = <<>>
      /\ Silence.base = NoFragment /\ Silence.frag = NoFragment
      /\ Silence.side = "left" /\ Silence.back = FALSE
  BY DEF Silence
<1>4. NoFragment \in Fragment /\ <<>> \in Seq(Nat)  BY DEF NoFragment, Fragment, LeftMost
<1> QED  BY <1>1, <1>2, <1>3, <1>4 DEF IsSpeech, Fresh

LEMMA SilenceBroken ==
  ASSUME NEW w, NEW s, s = [Silence EXCEPT !.word = w] \/ s = [Silence EXCEPT !.word = w, !.again = TRUE]
  PROVE  IsSpeech(s) /\ Fresh(s)
  BY SilenceTyped DEF IsSpeech, SpeechFields, Fresh

LEMMA SayArrives ==
  ASSUME NEW g \in Goroutines, NEW out, Say(g, out)
  PROVE  \E place, s : Moves(g, place, s) /\ Sane(g, place, s)
<1>1. \E place \in {"wait", "done"} : \E s :
        Moves(g, place, s) /\ (s = Silence \/ \E w : s = [Silence EXCEPT !.word = w, !.again = TRUE])
  BY DEF Say, Moves, Go, Note
<1>2. PICK place, s :
        /\ place \in {"wait", "done"} /\ Moves(g, place, s)
        /\ s = Silence \/ \E w : s = [Silence EXCEPT !.word = w, !.again = TRUE]
  BY <1>1
<1>3. IsSpeech(s) /\ Fresh(s)  BY <1>2, SilenceTyped, SilenceBroken
<1>4. Sane(g, place, s)  BY <1>2, <1>3 DEF Sane, Unlocked, Places, SpeakingPlaces
<1> QED  BY <1>2, <1>4

LEMMA PanicArrives ==
  ASSUME IndexInv, SpeakerInv, NEW g \in Goroutines, Panic(g), at[g] # "failed" => Excused(g)
  PROVE  \E place, s : Moves(g, place, s) /\ Sane(g, place, s)
<1> DEFINE s == speech[g]
<1>1. Moves(g, "failed", s)
  <2>1. speech' = [speech EXCEPT ![g] = speech[g]]  BY DEF Panic, SpeakerInv, Actors
  <2> QED  BY <2>1 DEF Panic, Go, Moves
<1>2. Sane(g, "failed", s)  BY DEF Sane, Unlocked, Places, SpeakingPlaces, SpeakerInv
<1> QED  BY <1>1, <1>2

\* Where a side of the walk begins, its outer end is that of its first fragment.
LEMMA WalkBegins ==
  ASSUME NEW s, IsSpeech(s), s.results = <<>>
  PROVE  OuterEnd(s) = Target(s.base, s.side)
<1> DEFINE b == Triple(s.base)
           q == Reverse(s.results)
           a == s.left
<1>1. b \in Seq(Nat) /\ Len(b) = 3 /\ q \in Seq(Nat) /\ Len(q) = 0 /\ a \in Seq(Nat)
  BY WalkedTyped DEF IsSpeech
<1>2. b[1] = s.base.l /\ b[3] = s.base.r  BY DEF Triple
<1>3. /\ s.side = "left" => Walked(s) = q \o b
      /\ s.side # "left" => Walked(s) = (a \o b) \o <<>>
  BY DEF Walked
<1> HIDE DEF b, q, a
<1>4. q = <<>>  BY <1>1
<1>5. q \o b = b /\ a \o b \in Seq(Nat) /\ (a \o b) \o <<>> = a \o b
  BY <1>1, <1>4, ConcatProperties, ConcatEmptySeq
<1>6. Len(a \o b) = Len(a) + 3 /\ (a \o b)[Len(a) + 3] = b[3]
  <2>1. /\ Len(a \o b) = Len(a) + Len(b)
        /\ \A i \in 1 .. Len(a) + Len(b) : (a \o b)[i] = IF i <= Len(a) THEN a[i] ELSE b[i - Len(a)]
    BY <1>1, ConcatProperties
  <2>2. Len(a) \in Nat  BY <1>1
  <2> DEFINE n == Len(a)
  <2>3. n + 3 \in 1 .. n + 3 /\ ~(n + 3 <= n) /\ (n + 3) - n = 3  BY <2>2
  <2> HIDE DEF n
  <2>4. Len(b) = 3  BY <1>1
  <2> QED  BY <2>1, <2>3, <2>4 DEF n
<1>7. CASE s.side = "left"
  <2>1. Walked(s) = b  BY <1>3, <1>5, <1>7
  <2> QED  BY <1>2, <1>7, <2>1 DEF OuterEnd, Target
<1>8. CASE s.side # "left"
  <2>1. Walked(s) = a \o b  BY <1>3, <1>5, <1>8
  <2>2. s.side = "right"  BY <1>8 DEF IsSpeech
  <2> QED  BY <1>2, <1>6, <2>1, <2>2 DEF OuterEnd, Target
<1> QED  BY <1>7, <1>8

\* What is in hand at the walk: the words so far are those of the model.
Carries(s, back) == Known(Walked(s)) /\ (back = FALSE => Linked(Walked(s)))

\* One side is complete: its words are those of the next side's walk, or of the text.
LEMMA SideDoneArrives ==
  ASSUME SpeakerInv, NEW g \in Goroutines, NEW results, SideDone(g, results),
         at[g] # "failed",
         NEW t, IsSpeech(t), t.results = results, t.base = speech[g].base,
         t.left = speech[g].left, t.side = speech[g].side,
         g \notin overtaken' => IsIntact /\ Carries(t, speech[g].back)
  PROVE  \E place, s : Moves(g, place, s) /\ Sane(g, place, s)
<1> DEFINE s == speech[g]
           b == Triple(s.base)
           fresh == [s EXCEPT !.ids = <<>>, !.frag = s.base, !.link = 0, !.runt = 0,
                              !.results = <<>>]
<1>1. IsSpeech(s)  BY DEF SpeakerInv
<1>2. /\ results \in Seq(Nat) /\ s.left \in Seq(Nat) /\ s.base \in Fragment
      /\ s.side \in {"left", "right"} /\ b \in Seq(Nat) /\ Reverse(results) \in Seq(Nat)
      /\ Walked(t) \in Seq(Nat)
  BY <1>1, WalkedTyped DEF IsSpeech
<1>3. Walked(t) = IF s.side = "left" THEN Reverse(results) \o b ELSE s.left \o b \o results
  BY DEF Walked
<1>4. <<>> \in Seq(Nat)  OBVIOUS
<1>5. CASE s.side = "left"
  <2> DEFINE u == [fresh EXCEPT !.side = "right", !.left = Reverse(results)]
             q == Reverse(results)
  <2>1. Moves(g, "walk", u)  BY <1>5 DEF SideDone, Moves, Go, Note
  <2>2. /\ IsSpeech(u) /\ u.results = <<>> /\ u.left = q /\ u.base = s.base /\ u.frag = s.base
        /\ u.side = "right" /\ u.back = s.back
    BY <1>1, <1>2, <1>4 DEF IsSpeech, SpeechFields
  <2> HIDE DEF u
  <2>3. Walked(u) = (q \o b) \o <<>>  BY <2>2 DEF Walked
  <2> HIDE DEF b, q
  <2>4. q \o b \in Seq(Nat)  BY <1>2, ConcatProperties DEF q
  <2>5. Walked(u) = Walked(t)  BY <1>3, <1>5, <2>3, <2>4, ConcatEmptySeq DEF q
  <2>6. Target(u.frag, u.side) = OuterEnd(u)  BY <2>2, WalkBegins
  <2>7. g \notin overtaken' => IsIntact /\ Sound("walk", u)
    BY <2>2, <2>5, <2>6 DEF Sound, Carries
  <2>8. Sane(g, "walk", u)  BY <2>2, <2>7 DEF Sane, Unlocked, Places
  <2> QED  BY <2>1, <2>8
<1>6. CASE s.side # "left"
  <2> DEFINE w == s.left \o <<s.base.l, s.base.c, s.base.r>> \o results
             u == [fresh EXCEPT !.results = w]
  <2>1. Moves(g, "spell", u)  BY <1>6 DEF SideDone, Moves, Go, Note
  <2>2. w = Walked(t)  BY <1>3, <1>6 DEF Triple
  <2> HIDE DEF w
  <2>3. IsSpeech(u) /\ u.results = Walked(t) /\ u.back = s.back
    BY <1>1, <1>2, <1>4, <2>2 DEF IsSpeech, SpeechFields
  <2> HIDE DEF u
  <2>4. g \notin overtaken' => IsIntact /\ Sound("spell", u)  BY <2>3 DEF Sound, Carries
  <2>5. Sane(g, "spell", u)  BY <2>3, <2>4 DEF Sane, Unlocked, Places
  <2> QED  BY <2>1, <2>5
<1> QED  BY <1>5, <1>6

----------------------------------------------------------------------------

\* A speaker on its way that no Reset has overtaken knows what it needs.
LEMMA SpeakerKnows ==
  ASSUME SpeakerInv, NEW g \in Goroutines
  PROVE  /\ IsSpeech(speech[g])
         /\ at[g] \in {"walk", "link", "spell", "failed"} \/ Fresh(speech[g])
         /\ at[g] \in SpeakingPlaces /\ g \notin overtaken =>
              IsIntact /\ Sound(at[g], speech[g])
  BY DEF SpeakerInv

LEMMA AskArrives ==
  ASSUME SpeakerInv, NEW g \in Goroutines, Ask(g)
  PROVE  Arrives(g)
<1>1. UNCHANGED <<model, stored, pen, overtaken>>  BY DEF Ask
<1>2. IsSpeech(speech[g]) /\ Fresh(speech[g])  BY SpeakerKnows DEF Ask
<1>3. \E place \in {"asked", "find", "done", "wait"} : Go(g, place)  BY DEF Ask
<1>4. speech' = [speech EXCEPT ![g] = speech[g]] \/ \E w : Note(g, [Silence EXCEPT !.word = w])
  BY DEF Ask, SpeakerInv, Actors
<1>5. \E s : speech' = [speech EXCEPT ![g] = s] /\ IsSpeech(s) /\ Fresh(s)
  BY <1>2, <1>4, SilenceBroken DEF Note
<1> QED
  BY <1>1, <1>3, <1>5 DEF Arrives, Moves, Go, Sane, Unlocked, Places, SpeakingPlaces

LEMMA LearningArrives ==
  ASSUME SpeakerInv, NEW g \in Goroutines, LearnMore(g) \/ LearnedMore(g)
  PROVE  Arrives(g)
<1>1. UNCHANGED <<model, stored, pen, overtaken>>
  BY DEF LearnMore, LearnedMore, Speaks, ReadsOnly
<1>2. IsSpeech(speech[g]) /\ Fresh(speech[g])  BY SpeakerKnows DEF LearnMore, LearnedMore
<1>3. \E place \in {"find", "wait"} : Go(g, place)  BY DEF LearnMore, LearnedMore
<1>4. PICK n : Note(g, [speech[g] EXCEPT !.tries = n])  BY DEF LearnMore, LearnedMore
<1>5. IsSpeech([speech[g] EXCEPT !.tries = n]) /\ Fresh([speech[g] EXCEPT !.tries = n])
  BY <1>2 DEF IsSpeech, SpeechFields, Fresh
<1> QED
  BY <1>1, <1>3, <1>4, <1>5
     DEF Arrives, Moves, Go, Note, Sane, Unlocked, Places, SpeakingPlaces

LEMMA FindWordArrives ==
  ASSUME IndexInv, RowsInv, SpeakerInv, NEW g \in Goroutines, FindWord(g)
  PROVE  Arrives(g)
<1> DEFINE s == speech[g]
<1>1. at[g] = "find" /\ UNCHANGED <<model, stored, pen>>  BY DEF FindWord, ReadsOnly
<1>2. \A h \in Goroutines : h # g => (h \in overtaken' <=> h \in overtaken)
  BY DEF FindWord, Panic
<1>3. CASE Say(g, <<>>)
  BY <1>1, <1>2, <1>3, SayArrives DEF Arrives
<1>4. ASSUME NEW id, Note(g, [s EXCEPT !.w = id]), Go(g, "list"),
             overtaken' = IF pen.at \in Range(ResetSteps) THEN overtaken \cup {g}
                                                          ELSE overtaken \ {g}
      PROVE  Arrives(g)
  <2> DEFINE t == [s EXCEPT !.w = id]
  <2>1. IsSpeech(s) /\ Fresh(s)  BY <1>1, SpeakerKnows
  <2>2. IsSpeech(t) /\ Fresh(t)  BY <2>1 DEF IsSpeech, SpeechFields, Fresh
  <2>3. Moves(g, "list", t)  BY <1>4 DEF Moves, Go, Note
  <2> HIDE DEF t
  <2>4. g \notin overtaken' => IsIntact  BY <1>4 DEF IsIntact, Resetting
  <2>5. Sane(g, "list", t)  BY <2>2, <2>4 DEF Sane, Sound, Unlocked, Places
  <2> QED  BY <1>1, <1>2, <2>3, <2>5 DEF Arrives
<1>5. CASE revWords = <<>> /\ Panic(g)
  <2>1. Resetting  BY <1>5 DEF RowsInv, IntactInv, IsIntact
  <2> QED  BY <1>1, <1>2, <1>5, <2>1, PanicArrives DEF Arrives, Excused
<1> QED  BY <1>3, <1>4, <1>5 DEF FindWord

LEMMA ListFragmentsArrives ==
  ASSUME IndexInv, RowsInv, SpeakerInv, NEW g \in Goroutines, ListFragments(g)
  PROVE  Arrives(g)
<1> DEFINE s == speech[g]
<1>1. at[g] = "list" /\ UNCHANGED <<model, stored, pen, overtaken>>
  BY DEF ListFragments, ReadsOnly
<1>2. IsSpeech(s) /\ Fresh(s) /\ (g \notin overtaken => IsIntact)
  BY <1>1, SpeakerKnows DEF SpeakingPlaces
<1>3. CASE Say(g, <<>>)
  BY <1>1, <1>3, SayArrives DEF Arrives
<1>4. CASE s.w \in DOMAIN fragmentWords /\ Note(g, [s EXCEPT !.ids = fragmentWords[s.w]])
           /\ Go(g, "pick")
  <2> DEFINE q == fragmentWords[s.w]
             t == [s EXCEPT !.ids = q]
  <2>1. q \in Seq(Nat)  BY <1>4 DEF IndexInv, PartsInv
  <2>2. IsIntact => \A i \in DOMAIN q : q[i] < Len(fragments)  BY <1>4 DEF RowsInv, IntactInv
  <2>3. Moves(g, "pick", t)  BY <1>4 DEF Moves, Go, Note
  <2> HIDE DEF q
  <2>4. IsSpeech(t) /\ Fresh(t) /\ t.ids = q
    BY <1>2, <2>1 DEF IsSpeech, SpeechFields, Fresh
  <2> HIDE DEF t
  <2>5. Sane(g, "pick", t)
    BY <1>1, <1>2, <2>2, <2>4 DEF Sane, Sound, Unlocked, Places
  <2> QED  BY <1>1, <2>3, <2>5 DEF Arrives
<1>5. CASE Note(g, [s EXCEPT !.tries = 0, !.revLen = Len(revWords)]) /\ Go(g, "again")
  <2> DEFINE n == Len(revWords)
             t == [s EXCEPT !.tries = 0, !.revLen = n]
  <2>1. IsIntact => n # 0
    <3>1. PICK S : revWords \in Seq(S)  BY DEF IndexInv, PartsInv
    <3> QED  BY <3>1 DEF RowsInv, IntactInv
  <2>2. Moves(g, "again", t)  BY <1>5 DEF Moves, Go, Note
  <2> HIDE DEF n
  <2>3. IsSpeech(t) /\ Fresh(t) /\ t.revLen = n  BY <1>2 DEF IsSpeech, SpeechFields, Fresh
  <2> HIDE DEF t
  <2>4. Sane(g, "again", t)
    BY <1>1, <1>2, <2>1, <2>3 DEF Sane, Sound, Unlocked, Places
  <2> QED  BY <1>1, <2>2, <2>4 DEF Arrives
<1> QED  BY <1>3, <1>4, <1>5 DEF ListFragments

LEMMA DrawAnotherArrives ==
  ASSUME IndexInv, RowsInv, SpeakerInv, NEW g \in Goroutines, DrawAnother(g)
  PROVE  Arrives(g)
<1> DEFINE s == speech[g]
<1>1. at[g] = "again" /\ UNCHANGED <<model, stored, pen, overtaken>>
  BY DEF DrawAnother, ReadsOnly, Panic
<1>2. IsSpeech(s) /\ Fresh(s) /\ (g \notin overtaken => IsIntact /\ s.revLen # 0)
  BY <1>1, SpeakerKnows DEF SpeakingPlaces, Sound
<1>3. CASE s.revLen = 0 /\ Panic(g)
  BY <1>1, <1>2, <1>3, PanicArrives DEF Arrives, Excused
<1>4. CASE Say(g, <<>>)
  BY <1>1, <1>4, SayArrives DEF Arrives
<1>5. ASSUME NEW w \in DOMAIN fragmentWords, Go(g, "pick"),
             Note(g, [s EXCEPT !.ids = fragmentWords[w], !.tries = 0, !.revLen = 0])
      PROVE  Arrives(g)
  <2> DEFINE q == fragmentWords[w]
             t == [s EXCEPT !.ids = q, !.tries = 0, !.revLen = 0]
  <2>1. q \in Seq(Nat)  BY <1>5 DEF IndexInv, PartsInv
  <2>2. IsIntact => \A i \in DOMAIN q : q[i] < Len(fragments)  BY <1>5 DEF RowsInv, IntactInv
  <2>3. Moves(g, "pick", t)  BY <1>5 DEF Moves, Go, Note
  <2> HIDE DEF q
  <2>4. IsSpeech(t) /\ Fresh(t) /\ t.ids = q
    BY <1>2, <2>1 DEF IsSpeech, SpeechFields, Fresh
  <2> HIDE DEF t
  <2>5. Sane(g, "pick", t)
    BY <1>1, <1>2, <2>2, <2>4 DEF Sane, Sound, Unlocked, Places
  <2> QED  BY <1>1, <2>3, <2>5 DEF Arrives
<1>6. CASE Note(g, [s EXCEPT !.tries = @ + 1]) /\ UNCHANGED at
  <2> DEFINE n == s.tries + 1
             t == [s EXCEPT !.tries = n]
  <2>1. at' = [at EXCEPT ![g] = "again"]  BY <1>1, <1>6 DEF IndexInv, MutexInv
  <2>2. Moves(g, "again", t)  BY <1>6, <2>1 DEF Moves, Note
  <2> HIDE DEF n
  <2>3. IsSpeech(t) /\ Fresh(t) /\ t.revLen = s.revLen
    BY <1>2 DEF IsSpeech, SpeechFields, Fresh
  <2> HIDE DEF t
  <2>4. Sane(g, "again", t)  BY <1>1, <1>2, <2>3 DEF Sane, Sound, Unlocked, Places
  <2> QED  BY <1>1, <2>2, <2>4 DEF Arrives
<1> QED  BY <1>3, <1>4, <1>5, <1>6 DEF DrawAnother

LEMMA PickFragmentArrives ==
  ASSUME IndexInv, RowsInv, SpeakerInv, NEW g \in Goroutines, PickFragment(g)
  PROVE  Arrives(g)
<1> DEFINE s == speech[g]
<1>1. at[g] = "pick" /\ UNCHANGED <<model, stored, pen, overtaken>>
  BY DEF PickFragment, ReadsOnly, Panic
<1>2. /\ IsSpeech(s) /\ Fresh(s)
      /\ g \notin overtaken => IsIntact /\ \A i \in DOMAIN s.ids : s.ids[i] < Len(fragments)
  BY <1>1, SpeakerKnows DEF SpeakingPlaces, Sound
<1>3. PICK i \in Drawn(s.ids) :
        \/ /\ i \in DOMAIN s.ids /\ s.ids[i] < Len(fragments)
           /\ \/ Say(g, <<>>)
              \/ /\ Go(g, "walk")
                 /\ Note(g, [s EXCEPT !.base = fragments[s.ids[i] + 1],
                                      !.frag = fragments[s.ids[i] + 1], !.ids = <<>>, !.w = 0])
        \/ ~(i \in DOMAIN s.ids /\ s.ids[i] < Len(fragments)) /\ Panic(g)
  BY DEF PickFragment
<1>4. CASE Say(g, <<>>)
  BY <1>1, <1>4, SayArrives DEF Arrives
<1>5. CASE ~(i \in DOMAIN s.ids /\ s.ids[i] < Len(fragments)) /\ Panic(g)
  <2>1. Excused(g)  BY <1>1, <1>2, <1>3, <1>5 DEF Excused, Drawn
  <2> QED  BY <1>1, <1>5, <2>1, PanicArrives DEF Arrives
<1>6. CASE /\ i \in DOMAIN s.ids /\ s.ids[i] < Len(fragments) /\ Go(g, "walk")
           /\ Note(g, [s EXCEPT !.base = fragments[s.ids[i] + 1],
                                !.frag = fragments[s.ids[i] + 1], !.ids = <<>>, !.w = 0])
  <2> DEFINE f == fragments[s.ids[i] + 1]
             t == [s EXCEPT !.base = f, !.frag = f, !.ids = <<>>, !.w = 0]
  <2>1. s.ids[i] + 1 \in 1 .. Len(fragments)
    <3>1. s.ids[i] \in Nat /\ Len(fragments) \in Nat
      BY <1>2, <1>6, LengthsTyped DEF IsSpeech, IndexInv
    <3> QED  BY <1>6, <3>1
  <2>2. f \in Fragment /\ (IsIntact => Attested(f))
    BY <2>1 DEF IndexInv, PartsInv, RowsInv, IntactInv
  <2>3. Moves(g, "walk", t)  BY <1>6 DEF Moves, Go, Note
  <2> HIDE DEF f
  <2>4. /\ IsSpeech(t) /\ t.base = f /\ t.frag = f /\ t.results = <<>> /\ t.side = "left"
        /\ t.back = FALSE
    <3>1. <<>> \in Seq(Nat)  OBVIOUS
    <3> QED  BY <1>2, <2>2, <3>1 DEF IsSpeech, SpeechFields, Fresh
  <2> HIDE DEF t
  <2>5. OuterEnd(t) = Target(t.frag, t.side)  BY <2>4, WalkBegins
  <2>6. Walked(t) = Triple(f)
    <3> DEFINE q == Reverse(t.results)
    <3>1. q \in Seq(Nat) /\ Len(q) = 0 /\ Triple(f) \in Seq(Nat)  BY <2>2, <2>4, WalkedTyped, TriplesTyped
    <3>2. Walked(t) = q \o Triple(f)  BY <2>4 DEF Walked
    <3> HIDE DEF q
    <3>3. q = <<>>  BY <3>1
    <3> QED  BY <3>1, <3>2, <3>3, ConcatEmptySeq
  <2>7. Sane(g, "walk", t)
    BY <1>1, <1>2, <2>2, <2>4, <2>5, <2>6 DEF Sane, Sound, Attested, Unlocked, Places
  <2> QED  BY <1>1, <2>3, <2>7 DEF Arrives
<1> QED  BY <1>3, <1>4, <1>5, <1>6

LEMMA LookUpLinkArrives ==
  ASSUME IndexInv, RowsInv, SpeakerInv, NEW g \in Goroutines, LookUpLink(g)
  PROVE  Arrives(g)
<1> DEFINE s == speech[g]
           target == Target(s.frag, s.side)
<1>1. at[g] = "walk" /\ UNCHANGED <<model, stored, pen, overtaken>>
  BY DEF LookUpLink, Speaks, ReadsOnly
<1>2. /\ IsSpeech(s)
      /\ g \notin overtaken => /\ IsIntact /\ Carries(s, s.back)
                               /\ s.back = FALSE => target = OuterEnd(s)
  BY <1>1, SpeakerKnows DEF SpeakingPlaces, Sound, Carries
<1>3. CASE /\ target \in DOMAIN fragmentWords /\ Go(g, "link")
           /\ Note(g, [s EXCEPT !.ids = fragmentWords[target]])
  <2> DEFINE q == fragmentWords[target]
             t == [s EXCEPT !.ids = q]
  <2>1. q \in Seq(Nat)  BY <1>3 DEF IndexInv, PartsInv
  <2>2. IsIntact => \A i \in DOMAIN q : q[i] < Len(fragments) /\ fragments[q[i] + 1].c = target
    BY <1>3 DEF RowsInv, IntactInv
  <2>3. Moves(g, "link", t)  BY <1>3 DEF Moves, Go, Note
  <2> HIDE DEF q
  <2>4. /\ IsSpeech(t) /\ t.ids = q /\ t.frag = s.frag /\ t.side = s.side /\ t.back = s.back
        /\ t.base = s.base /\ t.results = s.results /\ t.left = s.left
    BY <1>2, <2>1 DEF IsSpeech, SpeechFields
  <2> HIDE DEF t
  <2>5. Walked(t) = Walked(s) /\ OuterEnd(t) = OuterEnd(s)  BY <2>4 DEF Walked, OuterEnd
  <2>6. Sane(g, "link", t)
    BY <1>1, <1>2, <2>2, <2>4, <2>5 DEF Sane, Sound, Carries, Unlocked, Places
  <2> QED  BY <1>1, <2>3, <2>6 DEF Arrives
<1>4. CASE SideDone(g, s.results)
  <2>1. \E place, r : Moves(g, place, r) /\ Sane(g, place, r)
    BY <1>1, <1>2, <1>4, SideDoneArrives
  <2> QED  BY <1>1, <2>1 DEF Arrives
<1> QED  BY <1>3, <1>4 DEF LookUpLink

LEMMA SpellArrives ==
  ASSUME IndexInv, SpeakerInv, NEW g \in Goroutines, Spell(g)
  PROVE  Arrives(g)
<1>1. at[g] = "spell" /\ UNCHANGED <<model, stored, pen, overtaken>>
  BY DEF Spell, ReadsOnly, Panic
<1>2. CASE Say(g, Spelled(speech[g].results))
  BY <1>1, <1>2, SayArrives DEF Arrives
<1>3. CASE Unspellable(speech[g].results) /\ Panic(g)
  <2>1. g \notin overtaken => Known(speech[g].results)
    BY <1>1, SpeakerKnows DEF SpeakingPlaces, Sound
  <2>2. speech[g].results \in Seq(Nat) /\ Len(revWords) \in Nat
    BY SpeakerKnows, LengthsTyped DEF IsSpeech, IndexInv
  <2>3. g \in overtaken  BY <1>3, <2>1, <2>2 DEF Known, Unspellable
  <2> QED  BY <1>1, <1>3, <2>3, PanicArrives DEF Arrives, Excused
<1> QED  BY <1>2, <1>3 DEF Spell

----------------------------------------------------------------------------
(* The next link of the chain *)

\* Back at the fragment it started from, the walk goes on from there or is done.
LEMMA BackArrives ==
  ASSUME IndexInv, SpeakerInv, NEW g \in Goroutines, at[g] = "link",
         UNCHANGED <<model, stored, pen, overtaken>>,
         WalkOn(g, [speech[g] EXCEPT !.frag = speech[g].base, !.ids = <<>>, !.runt = @ + 1,
                                     !.back = @ \/ speech[g].results # <<>>])
  PROVE  Arrives(g)
<1> DEFINE s == speech[g]
           b == s.base
           n == s.runt + 1
           t == [s EXCEPT !.frag = b, !.ids = <<>>, !.runt = n, !.back = @ \/ s.results # <<>>]
<1>1. IsSpeech(s) /\ (g \notin overtaken => IsIntact /\ Carries(s, s.back))
  BY SpeakerKnows DEF SpeakingPlaces, Sound, Carries
<1>2. WalkOn(g, t)  OBVIOUS
<1> HIDE DEF n
<1>3. b \in Fragment /\ <<>> \in Seq(Nat) /\ s.back \in BOOLEAN  BY <1>1 DEF IsSpeech
<1>4. /\ IsSpeech(t) /\ t.frag = t.base /\ t.side = s.side /\ t.base = s.base
      /\ t.results = s.results /\ t.left = s.left
      /\ t.back = FALSE => s.back = FALSE /\ t.results = <<>>
  BY <1>1, <1>3 DEF IsSpeech, SpeechFields
<1> HIDE DEF t
<1>5. Walked(t) = Walked(s)  BY <1>4 DEF Walked
<1>6. CASE Go(g, "walk") /\ Note(g, t)
  <2>1. t.back = FALSE => Target(t.frag, t.side) = OuterEnd(t)  BY <1>4, WalkBegins
  <2>2. Sane(g, "walk", t)
    BY <1>1, <1>4, <1>5, <2>1 DEF Sane, Sound, Carries, Unlocked, Places
  <2> QED  BY <1>6, <2>2 DEF Arrives, Moves, Go, Note
<1>7. CASE SideDone(g, s.results)
  <2>1. \E place, r : Moves(g, place, r) /\ Sane(g, place, r)
    BY <1>1, <1>7, SideDoneArrives
  <2> QED  BY <2>1 DEF Arrives
<1> QED  BY <1>2, <1>4, <1>6, <1>7 DEF WalkOn

\* A fragment linked on adds the word its neighbour in a stored sentence.
LEMMA LinkedArrives ==
  ASSUME IndexInv, RowsInv, SpeakerInv, NEW g \in Goroutines, at[g] = "link",
         UNCHANGED <<model, stored, pen, overtaken>>,
         NEW i \in DOMAIN speech[g].ids, ~Dangling(speech[g].ids),
         NEW next, next = fragments[speech[g].ids[i] + 1],
         NEW t, t = [speech[g] EXCEPT !.frag = next, !.ids = <<>>, !.link = @ + 1,
                                      !.results = Append(@, Target(next, speech[g].side))],
         (Go(g, "walk") /\ Note(g, t)) \/ SideDone(g, t.results)
  PROVE  Arrives(g)
<1> DEFINE s == speech[g]
           x == Target(next, s.side)
           more == Append(s.results, x)
           n == s.link + 1
<1>1. /\ IsSpeech(s)
      /\ g \notin overtaken =>
           /\ IsIntact /\ Carries(s, s.back) /\ next.c = Target(s.frag, s.side)
           /\ s.back = FALSE => Target(s.frag, s.side) = OuterEnd(s)
  BY SpeakerKnows DEF SpeakingPlaces, Sound, Carries
<1>2. s.ids[i] + 1 \in 1 .. Len(fragments)
  <2>1. s.ids[i] \in Nat
    <3>1. PICK ids \in Seq(Nat) : ids = s.ids  BY <1>1 DEF IsSpeech
    <3>2. i \in DOMAIN ids  BY <3>1
    <3> HIDE DEF s
    <3>3. ids[i] \in Nat  BY <3>1, <3>2
    <3> QED  BY <3>1, <3>3
  <2>2. Len(fragments) \in Nat  BY LengthsTyped DEF IndexInv
  <2>3. s.ids[i] < Len(fragments)  BY <2>1, <2>2 DEF Dangling
  <2> QED  BY <2>1, <2>2, <2>3
<1>3. next \in Fragment /\ (IsIntact => Attested(next))
  BY <1>2 DEF IndexInv, PartsInv, RowsInv, IntactInv
<1>4. x \in Nat /\ next.c \in Nat /\ s.results \in Seq(Nat) /\ s.side \in {"left", "right"}
  BY <1>1, <1>3 DEF Target, Fragment, IsSpeech
<1>5. more \in Seq(Nat) /\ <<>> \in Seq(Nat)  BY <1>4
<1>6. t = [s EXCEPT !.frag = next, !.ids = <<>>, !.link = n, !.results = more]  OBVIOUS
<1> HIDE DEF n, more
<1>7. /\ IsSpeech(t) /\ t.frag = next /\ t.results = more /\ t.base = s.base
      /\ t.left = s.left /\ t.side = s.side /\ t.back = s.back
  BY <1>1, <1>3, <1>5, <1>6 DEF IsSpeech, SpeechFields
<1>8. Walked(s) \in Seq(Nat) /\ Len(Walked(s)) > 0  BY <1>1, WalkedTyped
<1>9. IsIntact => /\ x < Len(revWords)
                  /\ s.side = "right" => Adjacent(revWords[next.c + 1], revWords[x + 1])
                  /\ s.side = "left" => Adjacent(revWords[x + 1], revWords[next.c + 1])
  <2>1. SUFFICES ASSUME IsIntact
                 PROVE  /\ x < Len(revWords)
                        /\ s.side = "right" => Adjacent(revWords[next.c + 1], revWords[x + 1])
                        /\ s.side = "left" => Adjacent(revWords[x + 1], revWords[next.c + 1])
    OBVIOUS
  <2> DEFINE b == Triple(next)
  <2>2. /\ b \in Seq(Nat) /\ Len(b) = 3 /\ b[1] = next.l /\ b[2] = next.c /\ b[3] = next.r
    BY <1>3, TriplesTyped DEF Triple
  <2>3. Known(b) /\ Linked(b)  BY <1>3, <2>1 DEF Attested
  <2> HIDE DEF b
  <2>4. b[1] < Len(revWords) /\ b[3] < Len(revWords)  BY <2>2, <2>3 DEF Known
  <2>5. \A j \in 1 .. 2 : Adjacent(revWords[b[j] + 1], revWords[b[j + 1] + 1])
    BY <2>2, <2>3 DEF Linked
  <2>6. /\ Adjacent(revWords[b[1] + 1], revWords[b[2] + 1])
        /\ Adjacent(revWords[b[2] + 1], revWords[b[3] + 1])
    <3>1. 1 \in 1 .. 2 /\ 2 \in 1 .. 2 /\ 1 + 1 = 2 /\ 2 + 1 = 3  OBVIOUS
    <3> QED  BY <2>5, <3>1
  <2> QED  BY <2>2, <2>4, <2>6 DEF Target
<1>10. ASSUME g \notin overtaken
       PROVE  IsIntact /\ Carries(t, s.back) /\ (s.back = FALSE => Target(next, s.side) = OuterEnd(t))
  <2> DEFINE q == Walked(s)
  <2>1. IsIntact /\ Known(q) /\ (s.back = FALSE => Linked(q) /\ next.c = OuterEnd(s))
    BY <1>1, <1>10 DEF Carries
  <2>2. CASE s.side = "right"
    <3>1. Walked(t) = Append(q, x)  BY <1>1, <1>4, <1>7, <2>2, WalkedRight DEF more
    <3>2. OuterEnd(s) = q[Len(q)] /\ OuterEnd(t) = Walked(t)[Len(Walked(t))]
      BY <1>7, <2>2 DEF OuterEnd
    <3> DEFINE w == Append(q, x)
    <3>3. w[Len(w)] = x  BY <1>4, <1>8
    <3>4. /\ Known(w)
          /\ Linked(q) /\ Adjacent(revWords[q[Len(q)] + 1], revWords[x + 1]) => Linked(w)
      BY <1>4, <1>8, <1>9, <2>1, LinkedBehind
    <3>5. s.back = FALSE => Linked(w)  BY <1>9, <2>1, <2>2, <3>2, <3>4
    <3> HIDE DEF w
    <3> QED  BY <2>1, <3>1, <3>2, <3>3, <3>4, <3>5 DEF Carries, w
  <2>3. CASE s.side = "left"
    <3>1. Walked(t) = <<x>> \o q  BY <1>1, <1>4, <1>7, <2>3, WalkedLeft DEF more
    <3>2. OuterEnd(s) = q[1] /\ OuterEnd(t) = Walked(t)[1]
      BY <1>7, <2>3 DEF OuterEnd
    <3> DEFINE w == <<x>> \o q
    <3>4. /\ Known(w) /\ w[1] = x
          /\ Linked(q) /\ Adjacent(revWords[x + 1], revWords[q[1] + 1]) => Linked(w)
      BY <1>4, <1>8, <1>9, <2>1, LinkedBefore
    <3>5. s.back = FALSE => Linked(w)  BY <1>9, <2>1, <2>3, <3>2, <3>4
    <3> HIDE DEF w
    <3> QED  BY <2>1, <3>1, <3>2, <3>4, <3>5 DEF Carries, w
  <2> QED  BY <1>4, <2>2, <2>3
<1>11. CASE Go(g, "walk") /\ Note(g, t)
  <2>1. Sane(g, "walk", t)  BY <1>7, <1>10 DEF Sane, Sound, Carries, Unlocked, Places
  <2> QED  BY <1>11, <2>1 DEF Arrives, Moves, Go, Note
<1>12. CASE SideDone(g, t.results)
  <2>1. \E place, r : Moves(g, place, r) /\ Sane(g, place, r)
    BY <1>7, <1>10, <1>12, SideDoneArrives
  <2> QED  BY <2>1 DEF Arrives
<1> QED  BY <1>11, <1>12

LEMMA NextChainLinkArrives ==
  ASSUME IndexInv, RowsInv, SpeakerInv, NEW g \in Goroutines, NextChainLink(g)
  PROVE  Arrives(g)
<1> DEFINE s == speech[g]
<1>1. at[g] = "link" /\ UNCHANGED <<model, stored, pen, overtaken>>
  BY DEF NextChainLink, ReadsOnly, Panic
<1>2. /\ IsSpeech(s)
      /\ g \notin overtaken =>
           IsIntact /\ Carries(s, s.back) /\ \A i \in DOMAIN s.ids : s.ids[i] < Len(fragments)
  BY <1>1, SpeakerKnows DEF SpeakingPlaces, Sound, Carries
<1>3. Len(fragments) \in Nat  BY LengthsTyped DEF IndexInv
<1>4. CASE (Dangling(s.ids) \/ s.ids = <<>>) /\ Panic(g)
  <2>1. g \in overtaken \/ s.ids = <<>>
    <3>1. s.ids \in Seq(Nat)  BY <1>2 DEF IsSpeech
    <3> QED  BY <1>2, <1>3, <1>4, <3>1 DEF Dangling
  <2>2. Excused(g)  BY <1>1, <2>1 DEF Excused
  <2> QED  BY <1>1, <1>4, <2>2, PanicArrives DEF Arrives
<1>5. ASSUME NEW i \in DOMAIN s.ids,
             NEW id \in Range(PeekList(fragments[s.ids[i] + 1], s.side)), id >= Len(fragments),
             Panic(g)
      PROVE  Arrives(g)
  <2> DEFINE c == Target(fragments[s.ids[i] + 1], s.side)
  <2>1. PICK n : c \in DOMAIN fragmentWords /\ n \in DOMAIN fragmentWords[c] /\ id = fragmentWords[c][n]
    BY <1>5 DEF PeekList, Range
  <2> HIDE DEF c
  <2>2. IsIntact => id < Len(fragments)  BY <2>1 DEF RowsInv, IntactInv
  <2>3. id \in Nat
    <3>1. fragmentWords[c] \in Seq(Nat)  BY <2>1 DEF IndexInv, PartsInv
    <3> QED  BY <2>1, <3>1
  <2>4. g \in overtaken  BY <1>2, <1>3, <1>5, <2>2, <2>3
  <2> QED  BY <1>1, <1>5, <2>4, PanicArrives DEF Arrives, Excused
<1>6. CASE SideDone(g, s.results)
  <2>1. \E place, r : Moves(g, place, r) /\ Sane(g, place, r)
    BY <1>1, <1>2, <1>6, SideDoneArrives
  <2> QED  BY <1>1, <2>1 DEF Arrives
<1>7. ASSUME NEW i \in DOMAIN s.ids, ~Dangling(s.ids),
             LET next == fragments[s.ids[i] + 1]
                 linked == [s EXCEPT !.frag = next, !.ids = <<>>, !.link = @ + 1,
                                     !.results = Append(@, Target(next, s.side))]
             IN IF next = s.base
                THEN WalkOn(g, [s EXCEPT !.frag = next, !.ids = <<>>, !.runt = @ + 1,
                                         !.back = @ \/ s.results # <<>>])
                ELSE IF linked.link <= MaxChainDistance
                     THEN Go(g, "walk") /\ Note(g, linked)
                     ELSE SideDone(g, linked.results)
      PROVE  Arrives(g)
  <2> DEFINE next == fragments[s.ids[i] + 1]
             linked == [s EXCEPT !.frag = next, !.ids = <<>>, !.link = @ + 1,
                                 !.results = Append(@, Target(next, s.side))]
  <2>1. CASE next = s.base
    <3>1. WalkOn(g, [s EXCEPT !.frag = s.base, !.ids = <<>>, !.runt = @ + 1,
                              !.back = @ \/ s.results # <<>>])
      BY <1>7, <2>1
    <3> QED  BY <1>1, <3>1, BackArrives
  <2>2. CASE next # s.base
    <3>1. (Go(g, "walk") /\ Note(g, linked)) \/ SideDone(g, linked.results)  BY <1>7, <2>2
    <3> QED  BY <1>1, <1>7, <3>1, LinkedArrives
  <2> QED  BY <2>1, <2>2
<1> DEFINE peeked == IF Cardinality(EligibleOf(s)) = 1
                     THEN UNION {Range(PeekList(fragments[s.ids[i] + 1], s.side)) : i \in EligibleOf(s)}
                     ELSE {}
<1>8. EligibleOf(s) \subseteq DOMAIN s.ids  BY DEF EligibleOf
<1>9. CASE Dangling(s.ids) \/ s.ids = <<>>
  BY <1>4, <1>9 DEF NextChainLink
<1>10. CASE ~(Dangling(s.ids) \/ s.ids = <<>>)
  <2>1. CASE \E id \in peeked : id >= Len(fragments)
    <3>1. Panic(g)  BY <1>10, <2>1 DEF NextChainLink
    <3>2. PICK id \in peeked : id >= Len(fragments)  BY <2>1
    <3>3. PICK i \in EligibleOf(s) : id \in Range(PeekList(fragments[s.ids[i] + 1], s.side))
      BY <3>2
    <3> QED  BY <1>5, <1>8, <3>1, <3>2, <3>3
  <2>2. CASE ~(\E id \in peeked : id >= Len(fragments))
    <3> HIDE <1>5, <1>7
    <3>1. \/ SideDone(g, s.results)
          \/ \E i \in DOMAIN s.ids :
               LET next == fragments[s.ids[i] + 1]
                   linked == [s EXCEPT !.frag = next, !.ids = <<>>, !.link = @ + 1,
                                       !.results = Append(@, Target(next, s.side))]
               IN IF next = s.base
                  THEN WalkOn(g, [s EXCEPT !.frag = next, !.ids = <<>>, !.runt = @ + 1,
                                           !.back = @ \/ s.results # <<>>])
                  ELSE IF linked.link <= MaxChainDistance
                       THEN Go(g, "walk") /\ Note(g, linked)
                       ELSE SideDone(g, linked.results)
      BY <1>8, <1>10, <2>2 DEF NextChainLink
    <3> QED  BY <1>6, <1>7, <1>10, <3>1
  <2> QED  BY <2>1, <2>2
<1> QED  BY <1>9, <1>10

LEMMA SpeakerArrives ==
  ASSUME IndexInv, RowsInv, SpeakerInv, NEW g \in Goroutines, Speaker(g) \/ Ask(g)
  PROVE  Arrives(g)
  BY AskArrives, LearningArrives, FindWordArrives, ListFragmentsArrives, DrawAnotherArrives,
     PickFragmentArrives, LookUpLinkArrives, NextChainLinkArrives, SpellArrives DEF Speaker

----------------------------------------------------------------------------
(* Learners and rebuilds leave the speakers what they need, or overtake them *)

LEMMA SpeakersInit == Init => SpeakerInv
<1> SUFFICES ASSUME Init PROVE SpeakerInv  OBVIOUS
<1>1. \A g \in Goroutines : speech[g] = Silence /\ at[g] = "idle"
  BY MarkovConstants DEF Init, Actors, Main
<1>2. speech = [a \in Actors |-> speech[a]]  BY DEF Init
<1> QED  BY <1>1, <1>2, SilenceTyped DEF SpeakerInv, SpeakingPlaces

LEMMA ResetOvertakes ==
  ASSUME IndexInv, SpeakerInv, NEW g \in Actors, Reset(g)
  PROVE  SpeakerInv' /\ \A h \in Goroutines : at'[h] = "failed" => at[h] = "failed"
<1>1. /\ at[g] = "reset" /\ UNCHANGED speech /\ overtaken' = overtaken \cup Speaking
      /\ UNCHANGED at \/ at' = [at EXCEPT ![g] = "query"]
  BY DEF Reset, Go
<1>2. at \in [Actors -> Places]  BY DEF IndexInv, MutexInv
<1>3. ASSUME NEW h \in Goroutines
      PROVE  at'[h] = at[h] \/ (at[h] = "reset" /\ at'[h] = "query")
  BY <1>1, <1>2 DEF Actors
<1>4. ASSUME NEW h \in Goroutines
      PROVE  /\ IsSpeech(speech'[h])
             /\ at'[h] \in {"walk", "link", "spell", "failed"} \/ Fresh(speech'[h])
             /\ ~(at'[h] \in SpeakingPlaces /\ h \notin overtaken')
  <2>1. IsSpeech(speech'[h])  BY <1>1 DEF SpeakerInv
  <2>2. at'[h] \in {"walk", "link", "spell", "failed"} \/ Fresh(speech'[h])
    BY <1>1, <1>3 DEF SpeakerInv
  <2>3. at'[h] \in SpeakingPlaces => h \in Speaking  BY <1>3 DEF Speaking, SpeakingPlaces
  <2> QED  BY <1>1, <2>1, <2>2, <2>3
<1>5. speech' = [a \in Actors |-> speech'[a]]  BY <1>1 DEF SpeakerInv
<1>6. \A h \in Goroutines : at'[h] = "failed" => at[h] = "failed"  BY <1>3
<1> QED  BY <1>4, <1>5, <1>6 DEF SpeakerInv

LEMMA LearnerGrows ==
  ASSUME IndexInv, RowsInv, NEW g \in Actors, Learner(g), ~Reset(g)
  PROVE  Grows /\ (IsIntact => IsIntact')
<1>1. stored' = stored /\ stored \in Nat
  BY DEF Learner, LockForLearning, LearnFromRawMessages, LearnString, FindOrAddWord, AddRevWord,
         LearnSimpleTokens, AddFragment, MakeList, FileFragment, EndSentence, EndRow,
         UnlockLearned, LearnsOnly, RowsInv, PlaceInv
<1>2. Len(revWords) \in Nat /\ Len(fragments) \in Nat  BY LengthsTyped DEF IndexInv
<1>3. IsIntact => IsIntact'
  <2>1. pen'.at \notin Range(ResetSteps) \/ pen'.at = "words"
    <3>1. Idle.at = "row" /\ [Idle EXCEPT !.at = "words"].at = "words"  BY DEF Idle
    <3>2. \A k : [Idle EXCEPT !.rows = k].at = "row"  BY DEF Idle
    <3>3. PenInv  BY DEF IndexInv
    <3>4. CASE LockForLearning(g) \/ LearnFromRawMessages(g) \/ UnlockLearned(g)
      BY <3>1, <3>2, <3>4, ResetNames DEF LockForLearning, LearnFromRawMessages, UnlockLearned
    <3>5. CASE \/ LearnString(g) \/ FindOrAddWord(g) \/ AddRevWord(g) \/ LearnSimpleTokens(g)
               \/ AddFragment(g) \/ MakeList(g) \/ FileFragment(g) \/ EndSentence(g) \/ EndRow(g)
      <4>1. pen'.at \in {"sentence", "revWord", "fragment", "list", "file", "row"}
        BY <3>3, <3>5 DEF PenInv, LearnString, FindOrAddWord, AddRevWord, LearnSimpleTokens,
                          AddFragment, MakeList, FileFragment, EndSentence, EndRow, Learning
      <4> QED  BY <4>1, ResetNames
    <3> QED  BY <3>4, <3>5 DEF Learner
  <2> QED  BY <2>1 DEF IsIntact, Resetting
<1>4. CASE UNCHANGED <<revWords, fragments>>
  BY <1>1, <1>2, <1>3, <1>4 DEF Grows
<1>5. CASE AddRevWord(g)
  <2>1. revWords' = Append(revWords, pen.word) /\ fragments' = fragments  BY <1>5 DEF AddRevWord
  <2>2. PICK S : revWords \in Seq(S)  BY DEF IndexInv, PartsInv
  <2>3. revWords \in Seq(S \cup {pen.word})  BY <2>2
  <2>4. /\ Len(revWords') = Len(revWords) + 1
        /\ \A i \in 1 .. Len(revWords) : revWords'[i] = revWords[i]
    BY <2>1, <2>3
  <2> QED  BY <1>1, <1>2, <1>3, <2>1, <2>4 DEF Grows
<1>6. CASE AddFragment(g)
  <2>1. fragments' = Append(fragments, Head(pen.chain)) /\ revWords' = revWords
        /\ pen.chain # <<>>
    BY <1>6 DEF AddFragment
  <2>2. fragments \in Seq(Fragment) /\ Head(pen.chain) \in Fragment
    BY <2>1 DEF IndexInv, PartsInv, PenInv
  <2>3. /\ Len(fragments') = Len(fragments) + 1
        /\ \A i \in 1 .. Len(fragments) : fragments'[i] = fragments[i]
    BY <2>1, <2>2
  <2> QED  BY <1>1, <1>2, <1>3, <2>1, <2>3 DEF Grows
<1> QED
  BY <1>3, <1>4, <1>5, <1>6
     DEF Learner, LockForLearning, LearnFromRawMessages, LearnString, FindOrAddWord, model,
         LearnSimpleTokens, MakeList, FileFragment, EndSentence, EndRow, UnlockLearned

LEMMA LearnerPasses ==
  ASSUME IndexInv, IndexInv', RowsInv, RowsInv', SpeakerInv, NEW g \in Actors, Learner(g)
  PROVE  SpeakerInv' /\ \A h \in Goroutines : at'[h] = "failed" => at[h] = "failed"
<1>1. CASE Reset(g)  BY <1>1, ResetOvertakes
<1>2. CASE ~Reset(g)
  <2>1. UNCHANGED <<speech, overtaken>>
    BY <1>2 DEF Learner, LockForLearning, LearnFromRawMessages, LearnString, FindOrAddWord,
                AddRevWord, LearnSimpleTokens, AddFragment, MakeList, FileFragment, EndSentence,
                EndRow, UnlockLearned, LearnsOnly
  <2>2. \/ UNCHANGED at
        \/ /\ at[g] \in {"wait", "query", "learn"}
           /\ \E place \in {"reset", "query", "learn", "learned", "find", "done"} : Go(g, place)
    BY <1>2 DEF Learner, LockForLearning, LearnFromRawMessages, LearnString, FindOrAddWord,
                AddRevWord, LearnSimpleTokens, AddFragment, MakeList, FileFragment, EndSentence,
                EndRow, UnlockLearned, LearnsOnly, Learning
  <2>3. at \in [Actors -> Places]  BY DEF IndexInv, MutexInv
  <2>4. ASSUME NEW h \in Goroutines
        PROVE  \/ at'[h] = at[h]
               \/ /\ at[h] \in {"wait", "query", "learn"}
                  /\ at'[h] \in {"reset", "query", "learn", "learned", "find", "done"}
    BY <2>2, <2>3 DEF Go, Actors
  <2>5. SpeakerInv'
    BY <1>2, <2>1, <2>4, LearnerGrows, SpeakersStay DEF SpeakingPlaces
  <2> QED  BY <2>4, <2>5
<1> QED  BY <1>1, <1>2

----------------------------------------------------------------------------
(* The theorems about speaking *)

LEMMA SpeakersStep ==
  IndexInv /\ IndexInv' /\ RowsInv /\ RowsInv' /\ SpeakerInv /\ [Next]_vars =>
    /\ SpeakerInv'
    /\ \A g \in Goroutines : at[g] # "failed" /\ at'[g] = "failed" => Excused(g)
<1> SUFFICES ASSUME IndexInv, IndexInv', RowsInv, RowsInv', SpeakerInv, [Next]_vars
             PROVE  /\ SpeakerInv'
                    /\ \A g \in Goroutines : at[g] # "failed" /\ at'[g] = "failed" => Excused(g)
  OBVIOUS
<1>1. ASSUME NEW g \in Actors, Learner(g)
      PROVE  SpeakerInv' /\ \A h \in Goroutines : at'[h] = "failed" => at[h] = "failed"
  BY <1>1, LearnerPasses
<1>2. ASSUME NEW g \in Goroutines, Speaker(g) \/ Ask(g)
      PROVE  /\ SpeakerInv'
             /\ \A h \in Goroutines : at[h] # "failed" /\ at'[h] = "failed" => Excused(h)
  <2>1. Arrives(g)  BY <1>2, SpeakerArrives
  <2>2. SpeakerInv' /\ (at[g] # "failed" /\ at'[g] = "failed" => Excused(g))
    BY <2>1, ArrivesKeeps
  <2>3. \A h \in Goroutines : h # g => at'[h] = at[h]
    BY <2>1 DEF Arrives, Moves, IndexInv, MutexInv, Actors
  <2> QED  BY <2>2, <2>3
<1>3. CASE Store \/ HourPasses \/ UNCHANGED vars
  <2>1. UNCHANGED <<speech, overtaken, at, pen, model>>  BY <1>3 DEF Store, HourPasses, vars
  <2>2. Grows /\ (IsIntact => IsIntact')
    <3>1. stored \in Nat /\ Len(revWords) \in Nat /\ Len(fragments) \in Nat
      BY LengthsTyped DEF IndexInv, RowsInv, PlaceInv
    <3>2. stored <= stored'  BY <1>3, <3>1 DEF Store, HourPasses, vars
    <3> QED  BY <2>1, <3>1, <3>2 DEF Grows, IsIntact, Resetting, model
  <2> QED  BY <2>1, <2>2, SpeakersStay
<1> QED  BY <1>1, <1>2, <1>3 DEF Next, Step

\* A speaker knows what it has in hand: ids that lead somewhere and fragments that a
\* stored row attests, until a rebuild overtakes it (markov3/generating.go).
THEOREM SpeakerInvariance == Spec => []SpeakerInv
<1>1. Init => SpeakerInv  BY SpeakersInit
<1>2. IndexInv /\ IndexInv' /\ RowsInv /\ RowsInv' /\ SpeakerInv /\ [Next]_vars => SpeakerInv'
  BY SpeakersStep
<1> QED  BY <1>1, <1>2, IndexInvariance, RowsInvariance, PTL DEF Spec

\* Words spoken next to each other stood next to each other in a sentence of a stored
\* row, unless the model was reset meanwhile or the walk had come back to its first
\* fragment (FollowChain, NextChainLink, WordIDsToWords).
THEOREM SpeakersSpeakAsTaught == Spec => []SpeaksAsTaught
<1>1. ASSUME IndexInv, SpeakerInv  PROVE SpeaksAsTaught
  <2>1. SUFFICES ASSUME NEW g \in Goroutines, at[g] = "spell", g \notin overtaken,
                        ~speech[g].back
                 PROVE  /\ ~Unspellable(speech[g].results)
                        /\ LET said == Spelled(speech[g].results)
                           IN \A i \in 1 .. Len(said) - 1 : Adjacent(said[i], said[i + 1])
    BY DEF SpeaksAsTaught, Adjacent
  <2> DEFINE ids == speech[g].results
             said == Spelled(ids)
  <2>2. ids \in Seq(Nat) /\ speech[g].back = FALSE
    <3>1. ids \in Seq(Nat) /\ speech[g].back \in BOOLEAN  BY <1>1, SpeakerKnows DEF IsSpeech
    <3>2. \A b \in BOOLEAN : ~b => b = FALSE  OBVIOUS
    <3> QED  BY <2>1, <3>1, <3>2
  <2>3. Known(ids) /\ Linked(ids)
    <3>1. Sound("spell", speech[g])  BY <1>1, <2>1, SpeakerKnows DEF SpeakingPlaces
    <3> QED  BY <2>2, <3>1 DEF Sound
  <2>4. Len(revWords) \in Nat  BY <1>1, LengthsTyped DEF IndexInv
  <2> HIDE DEF ids
  <2>5. ~Unspellable(ids)
    <3>1. \A i \in DOMAIN ids : ids[i] \in Nat  BY <2>2
    <3> QED  BY <2>3, <2>4, <3>1 DEF Unspellable, Known
  <2>6. said = [i \in 1 .. Len(ids) |-> revWords[ids[i] + 1]] /\ Len(ids) \in Nat
    BY <2>2 DEF Spelled
  <2>7. Len(said) = Len(ids)  BY <2>6
  <2>8. \A i \in 1 .. Len(ids) : said[i] = revWords[ids[i] + 1]  BY <2>6
  <2> HIDE DEF said
  <2>9. ASSUME NEW i \in 1 .. Len(said) - 1  PROVE Adjacent(said[i], said[i + 1])
    <3>1. i \in 1 .. Len(ids) - 1 /\ i \in 1 .. Len(ids) /\ i + 1 \in 1 .. Len(ids)
      BY <2>6, <2>7
    <3>2. Adjacent(revWords[ids[i] + 1], revWords[ids[i + 1] + 1])  BY <2>3, <3>1 DEF Linked
    <3> QED  BY <2>8, <3>1, <3>2
  <2> QED  BY <2>5, <2>9 DEF said, ids
<1> QED  BY <1>1, IndexInvariance, SpeakerInvariance, PTL

\* A speaker ends the process only when a rebuild reset the model while it spoke or
\* looked its word up, or when it drew from the still empty list of a word's first
\* fragment (random.Int, GetFragmentWithWordID).
THEOREM FailuresAreExcused == Spec => OnlyRebuildsAndFirstFragmentsFail
<1>1. IndexInv /\ IndexInv' /\ RowsInv /\ RowsInv' /\ SpeakerInv /\ [Next]_vars =>
        [\A g \in Goroutines :
           at[g] # "failed" /\ at'[g] = "failed" =>
             \/ g \in overtaken
             \/ at[g] = "find" /\ Resetting
             \/ at[g] \in {"pick", "link"} /\ speech[g].ids = <<>>]_vars
  BY SpeakersStep DEF Excused
<1> QED
  BY <1>1, IndexInvariance, RowsInvariance, SpeakerInvariance, PTL
     DEF Spec, OnlyRebuildsAndFirstFragmentsFail
=============================================================================
