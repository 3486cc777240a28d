-------------------------- MODULE ManicMinuteProofs --------------------------
(***************************************************************************)
(* Proofs about ManicMinute, for every set of messages, channels and words *)
(* and every bound: the typing and the safety of the manager, from the     *)
(* inductive invariant IInv; cooldowns, while the database answers; that   *)
(* the manager implements MinuteContract; and, of ManicWord, that the      *)
(* command line beside it leaves all of IInv true and has its word loaded. *)
(***************************************************************************)
EXTENDS ManicWord, TLAPS

\* From the assumption on the constants: a word an automatic sanitizer lets
\* through is a word, and the empty word is not.
LEMMA WordFacts == AutoWords \subseteq Words /\ None \notin Words
  BY ConstantsAssumption

\* None names no message, and the inputs are inputs.
LEMMA MessageFacts == None \notin Messages /\ Inputs \subseteq Input
  BY ConstantsAssumption

\* The lengths of a minute and of a cooldown, and the horizon, are numbers.
LEMMA LengthFacts == MinuteLen \in Nat /\ CooldownLen \in Nat /\ Horizon \in Nat
  BY ConstantsAssumption

Stores == [mgr : Manager, row : RuntimeRow \cup {None}]

\* What the manager says of the minute that runs and of the one to be told.
SameMinute(mm, nn) ==
    /\ nn.active = mm.active /\ nn.channel = mm.channel
    /\ nn.trigger = mm.trigger /\ nn.event = mm.event
    /\ nn.endsAt = mm.endsAt /\ nn.count = mm.count
    /\ nn.pending = mm.pending

-----------------------------------------------------------------------------
(* Updates of the manager are managers *)

\* A manager with another word (or none) and another version is a manager:
\* selectNewTriggerWordLocked() and setTriggerWord().
LEMMA WordAndVersion ==
    ASSUME NEW mm \in Manager, NEW w \in Words \cup {None}, NEW v \in Nat
    PROVE  [mm EXCEPT !.word = w, !.version = v] \in Manager
  BY DEF Manager

\* The same with another cooldown: restoreRuntimeStateLocked().
LEMMA WordCooldownAndVersion ==
    ASSUME NEW mm \in Manager, NEW w \in Words \cup {None}, NEW c \in Nat,
           NEW v \in Nat
    PROVE  [mm EXCEPT !.word = w, !.cooldownUntil = c, !.version = v] \in Manager
  BY DEF Manager

\* start() makes a manager that runs the minute of its message, with its row,
\* one message counted, the same word, and a later version.
LEMMA OpenedIsManager ==
    ASSUME NEW mm \in Manager, NEW m \in Messages, NEW e \in Messages \cup {None},
           msg[m] \in Input, now \in Nat
    PROVE  /\ Opened(mm, m, e) \in Manager
           /\ Opened(mm, m, e).active = TRUE
           /\ Opened(mm, m, e).trigger = m
           /\ Opened(mm, m, e).event = e
           /\ Opened(mm, m, e).count = 1
           /\ Opened(mm, m, e).word = mm.word
           /\ Opened(mm, m, e).pending = mm.pending
           /\ Opened(mm, m, e).version > mm.version
<1> DEFINE c == msg[m].channel
           u == now + MinuteLen
           d == now + CooldownLen
           v == mm.version + 1
<1>1. c \in Channels /\ u \in Nat /\ d \in Nat /\ v \in Nat
  BY LengthFacts DEF Input, Manager
<1>2. Opened(mm, m, e) =
        [mm EXCEPT !.active = TRUE, !.channel = c, !.trigger = m, !.event = e,
                   !.endsAt = u, !.cooldownUntil = d, !.count = 1, !.version = v]
  BY DEF Opened
<1> HIDE DEF c, u, d, v
<1>3. [mm EXCEPT !.active = TRUE, !.channel = c, !.trigger = m, !.event = e,
                 !.endsAt = u, !.cooldownUntil = d, !.count = 1, !.version = v]
        \in Manager
  BY <1>1 DEF Manager
<1>4. v = mm.version + 1
  BY DEF v
<1> QED
  BY <1>2, <1>3, <1>4 DEF Manager

\* start() begins the cooldown with the minute.
LEMMA OpenedCooldown ==
    ASSUME NEW mm \in Manager, NEW m \in Messages, NEW e \in Messages \cup {None}
    PROVE  Opened(mm, m, e).cooldownUntil = now + CooldownLen
<1> DEFINE d == now + CooldownLen
<1>1. Opened(mm, m, e) =
        [mm EXCEPT !.active = TRUE, !.channel = msg[m].channel, !.trigger = m,
                   !.event = e, !.endsAt = now + MinuteLen, !.cooldownUntil = d,
                   !.count = 1, !.version = mm.version + 1]
  BY DEF Opened
<1> HIDE DEF d
<1>2. Opened(mm, m, e).cooldownUntil = d
  BY <1>1 DEF Manager
<1> QED
  BY <1>2 DEF d

\* stop() and the natural end leave a manager that runs nothing and still holds
\* the conclusion that was queued.
LEMMA ClosedIsManager ==
    ASSUME NEW mm \in Manager
    PROVE  /\ Closed(mm) \in Manager
           /\ Closed(mm).active = FALSE
           /\ Closed(mm).trigger = None
           /\ Closed(mm).event = None
           /\ Closed(mm).pending = mm.pending
           /\ Closed(mm).version = mm.version
  BY DEF Manager, Closed

\* Filling or emptying the slot changes nothing else of the manager.
LEMMA QueuedIsManager ==
    ASSUME NEW mm \in Manager, NEW m \in Messages \cup {None}
    PROVE  /\ Queued(mm, m) \in Manager
           /\ Queued(mm, m).active = mm.active
           /\ Queued(mm, m).trigger = mm.trigger
           /\ Queued(mm, m).event = mm.event
           /\ Queued(mm, m).count = mm.count
           /\ Queued(mm, m).word = mm.word
           /\ Queued(mm, m).version = mm.version
           /\ Queued(mm, m).pending = m
  BY DEF Manager, Queued

-----------------------------------------------------------------------------
(* The parts of the manager's methods *)

\* Persisting keeps the manager it is given, whether or not the write succeeds.
LEMMA PersistKeeps ==
    ASSUME NEW s \in Stores, NEW mm \in Manager,
           NEW t \in PersistRuntimeState(s, mm)
    PROVE  t \in Stores /\ t.mgr = mm
<1>1. RowOf(mm) \in RuntimeRow
  BY DEF RowOf, RuntimeRow, Manager
<1>2. PICK r \in Written(s.row, RowOf(mm)) : t = [mgr |-> mm, row |-> r]
  BY DEF PersistRuntimeState
<1>3. r \in RuntimeRow \cup {None}
  BY <1>1 DEF Written, Stores
<1> QED
  BY <1>2, <1>3 DEF Stores

\* Drawing a word changes the word and moves the version on by one, nothing else
\* of the minute, and never leaves a manager that had a word without one.
LEMMA SelectKeepsMinute ==
    ASSUME NEW s \in Stores, NEW t \in SelectNewTriggerWord(s)
    PROVE  /\ t \in Stores
           /\ SameMinute(s.mgr, t.mgr)
           /\ t.mgr.version = s.mgr.version + 1
           /\ s.mgr.word # None => t.mgr.word # None
<1>1. PICK w \in AutoWords \cup {s.mgr.word} :
        t \in PersistRuntimeState(s, [s.mgr EXCEPT !.word = w, !.version = @ + 1])
  BY DEF SelectNewTriggerWord
<1> DEFINE mm == [s.mgr EXCEPT !.word = w, !.version = @ + 1]
<1>2. s.mgr \in Manager
  BY DEF Stores
<1>3. mm \in Manager
  <2>1. s.mgr.version + 1 \in Nat /\ s.mgr.word \in Words \cup {None}
    BY <1>2 DEF Manager
  <2> QED
    BY <1>2, <2>1, WordFacts, WordAndVersion
<1>4. t \in Stores /\ t.mgr = mm
  BY <1>1, <1>3, PersistKeeps
<1>5. SameMinute(s.mgr, mm) /\ mm.version = s.mgr.version + 1 /\ mm.word = w
  BY <1>2 DEF Manager, SameMinute
<1>6. s.mgr.word # None => w # None
  BY WordFacts
<1> QED
  BY <1>4, <1>5, <1>6

\* Restoring the row keeps the minute and never turns the version back.
LEMMA RestoreKeepsMinute ==
    ASSUME NEW s \in Stores, NEW t \in RestoreRuntimeState(s), now \in Nat,
           s.mgr.word = None
    PROVE  /\ t \in Stores
           /\ SameMinute(s.mgr, t.mgr)
           /\ t.mgr.version >= s.mgr.version
<1> DEFINE tried == [s.mgr EXCEPT !.restoreAttempted = TRUE]
<1>1. s.mgr \in Manager /\ s.row \in RuntimeRow \cup {None}
  BY DEF Stores
<1>2. tried \in Manager /\ SameMinute(s.mgr, tried) /\ tried.version = s.mgr.version
  BY <1>1 DEF Manager, SameMinute
<1>3. CASE t = s
  BY <1>3, <1>1 DEF SameMinute, Manager
<1>4. CASE t = [s EXCEPT !.mgr = tried]
  <2>1. t \in Stores /\ t.mgr = tried /\ tried.version \in Nat
    BY <1>4, <1>1, <1>2 DEF Stores, Manager
  <2> QED
    BY <2>1, <1>2 DEF SameMinute
<1>5. CASE s.row # None /\ t \in PersistRuntimeState(s, Restored(tried, s.row))
  <2>1. Restored(tried, s.row) \in Manager
    <3>1. /\ tried.version + 1 \in Nat /\ tried.cooldownUntil \in Nat
          /\ s.row.word \in Words \cup {None} /\ s.row.cooldownUntil \in Nat
      BY <1>1, <1>2, <1>5 DEF Manager, RuntimeRow
    <3> QED
      BY <1>2, <3>1, WordCooldownAndVersion DEF Restored
  <2>2. /\ SameMinute(tried, Restored(tried, s.row))
        /\ Restored(tried, s.row).version = tried.version + 1
    BY <1>2 DEF Restored, Manager, SameMinute
  <2>3. t \in Stores /\ t.mgr = Restored(tried, s.row)
    BY <1>5, <2>1, PersistKeeps
  <2>4. tried.version \in Nat
    BY <1>2 DEF Manager
  <2> QED
    BY <1>2, <2>2, <2>3, <2>4 DEF SameMinute
<1> QED
  BY <1>3, <1>4, <1>5 DEF RestoreRuntimeState

\* ensureInitializedLocked() keeps the minute, never turns the version back, and
\* does nothing to a manager that has a word.
LEMMA EnsureKeepsMinute ==
    ASSUME NEW s \in Stores, NEW t \in EnsureInitialized(s), now \in Nat
    PROVE  /\ t \in Stores
           /\ SameMinute(s.mgr, t.mgr)
           /\ t.mgr.version >= s.mgr.version
           /\ s.mgr.word # None => t = s
<1>1. CASE s.mgr.word # None
  BY <1>1 DEF EnsureInitialized, SameMinute, Stores, Manager
<1>2. CASE s.mgr.word = None
  <2>1. PICK u \in RestoreRuntimeState(s) :
          t \in IF u.mgr.word # None THEN {u} ELSE SelectNewTriggerWord(u)
    BY <1>2 DEF EnsureInitialized
  <2>2. /\ u \in Stores /\ SameMinute(s.mgr, u.mgr)
        /\ u.mgr.version >= s.mgr.version
    BY <1>2, RestoreKeepsMinute
  <2>3. CASE t = u
    BY <2>2, <2>3, <1>2
  <2>4. CASE t \in SelectNewTriggerWord(u)
    <3>1. /\ t \in Stores /\ SameMinute(u.mgr, t.mgr)
          /\ t.mgr.version = u.mgr.version + 1
      BY <2>2, <2>4, SelectKeepsMinute
    <3>2. u.mgr.version \in Nat /\ s.mgr.version \in Nat
      BY <2>2 DEF Stores, Manager
    <3> QED
      BY <2>2, <3>1, <3>2, <1>2 DEF SameMinute
  <2> QED
    BY <2>1, <2>3, <2>4
<1> QED
  BY <1>1, <1>2

-----------------------------------------------------------------------------
(* The inductive invariant, action by action *)

\* What a method sees is typed.
LEMMA StoreIsTyped == IInv => Store \in Stores
  BY DEF IInv, TypeOK, Store, Stores

\* A step that leaves the minutes, their rows and what is to be told alone keeps
\* the invariant if it keeps the handlers' part of it.
LEMMA QuietStep ==
    ASSUME IInv, mgr' \in Manager, row' \in RuntimeRow \cup {None},
           SameMinute(mgr, mgr'), mgr'.version >= mgr.version,
           mgr.word # None => mgr'.word # None,
           UNCHANGED <<events, stopped, phase, outputs>>,
           sched' \in Scheduler, sched' = sched \/ sched'.step = "idle",
           up' \in BOOLEAN, now' \in Nat, crashes' \in Nat,
           msg' \in [Messages -> Inputs \cup {None}],
           pc' \in [Messages -> Steps], HandlersInv'
    PROVE  IInv'
<1>1. TypeOK'
  BY DEF IInv, TypeOK
<1>2. ManagerInv'
  BY DEF IInv, ManagerInv, SameMinute
<1>3. MinutesInv'
  BY DEF IInv, MinutesInv
<1>4. SnapshotInv'
  <2>1. mgr.version \in Nat /\ mgr'.version \in Nat /\ sched.version \in Nat
    BY DEF IInv, TypeOK, Manager, Scheduler
  <2> QED
    BY <2>1 DEF IInv, SnapshotInv, SameMinute
<1>5. HoldersInv'
  BY DEF IInv, HoldersInv
<1>6. OneMinuteAtATime'
  BY DEF IInv, OneMinuteAtATime, SameMinute
<1>7. CountsTellOutputs'
  BY DEF IInv, CountsTellOutputs, SameMinute
<1>8. OwedConclusionsAreHeld'
  BY DEF IInv, OwedConclusionsAreHeld, SameMinute
<1> QED
  BY <1>1, <1>2, <1>3, <1>4, <1>5, <1>6, <1>7, <1>8 DEF IInv

\* What a method that only makes sure there is a word does to the manager.
LEMMA CommitEnsured ==
    ASSUME IInv, NEW s \in EnsureInitialized(Store), Commit(s)
    PROVE  /\ mgr' \in Manager /\ row' \in RuntimeRow \cup {None}
           /\ SameMinute(mgr, mgr') /\ mgr'.version >= mgr.version
           /\ mgr.word # None => mgr'.word # None
<1>1. Store \in Stores /\ now \in Nat /\ Store.mgr = mgr
  BY StoreIsTyped DEF IInv, TypeOK, Store
<1>2. /\ s \in Stores /\ SameMinute(mgr, s.mgr) /\ s.mgr.version >= mgr.version
      /\ mgr.word # None => s = Store
  BY <1>1, EnsureKeepsMinute
<1> QED
  BY <1>1, <1>2 DEF Commit, Stores

\* The same for a method that draws a new word after initializing.
LEMMA CommitSelected ==
    ASSUME IInv, NEW s \in EnsureInitialized(Store),
           NEW t \in SelectNewTriggerWord(s), Commit(t)
    PROVE  /\ mgr' \in Manager /\ row' \in RuntimeRow \cup {None}
           /\ SameMinute(mgr, mgr') /\ mgr'.version >= mgr.version
           /\ mgr.word # None => mgr'.word # None
<1>1. Store \in Stores /\ now \in Nat /\ Store.mgr = mgr
  BY StoreIsTyped DEF IInv, TypeOK, Store
<1>2. /\ s \in Stores /\ SameMinute(mgr, s.mgr) /\ s.mgr.version >= mgr.version
      /\ mgr.word # None => s = Store
  BY <1>1, EnsureKeepsMinute
<1>3. /\ t \in Stores /\ SameMinute(s.mgr, t.mgr)
      /\ t.mgr.version = s.mgr.version + 1
      /\ s.mgr.word # None => t.mgr.word # None
  BY <1>2, SelectKeepsMinute
<1>4. mgr.version \in Nat /\ s.mgr.version \in Nat
  BY <1>1, <1>2 DEF Stores, Manager
<1> QED
  BY <1>1, <1>2, <1>3, <1>4 DEF Commit, Stores, SameMinute

\* A handler that goes from a step of its own to another keeps its part of the
\* invariant.
LEMMA GotoKeepsHandlers ==
    ASSUME IInv, NEW m \in Messages, NEW step \in Steps \ {"new", "queue"},
           pc[m] \notin {"new", "queue", "done"}, Goto(m, step),
           UNCHANGED <<msg, stopped, phase>>
    PROVE  HandlersInv' /\ pc' \in [Messages -> Steps]
  BY DEF IInv, TypeOK, HandlersInv, Goto, Steps

\* The steps of a handler that leave the minute alone.
QuietHandling(m) ==
    \/ IfIdle(m) \/ Match(m) \/ Rotate(m) \/ SetTriggerWord(m)
    \/ StartRefused(m) \/ StartOnChannelCooldown(m) \/ StartOnWordCooldown(m)
    \/ StopIdle(m)

\* A step that leaves manager and row alone is quiet.
LEMMA NoChangeIsQuiet ==
    ASSUME IInv, UNCHANGED <<mgr, row>>
    PROVE  /\ mgr' \in Manager /\ row' \in RuntimeRow \cup {None}
           /\ SameMinute(mgr, mgr') /\ mgr'.version >= mgr.version
           /\ mgr.word # None => mgr'.word # None
<1>1. mgr.version \in Nat
  BY DEF IInv, TypeOK, Manager
<1> QED
  BY <1>1 DEF IInv, TypeOK, SameMinute

\* setTriggerWord() changes the word, the version and nothing of the minute.
LEMMA SetWordIsQuiet ==
    ASSUME IInv, NEW m \in Messages, SetTriggerWord(m)
    PROVE  /\ mgr' \in Manager /\ row' \in RuntimeRow \cup {None}
           /\ SameMinute(mgr, mgr') /\ mgr'.version >= mgr.version
           /\ mgr.word # None => mgr'.word # None
<1>1. PICK w \in msg[m].says :
        \E s \in PersistRuntimeState(Store,
                   [mgr EXCEPT !.word = w, !.version = @ + 1]) : Commit(s)
  BY DEF SetTriggerWord
<1> DEFINE mm == [mgr EXCEPT !.word = w, !.version = @ + 1]
<1>2. PICK s \in PersistRuntimeState(Store, mm) : Commit(s)
  BY <1>1
<1>3. w \in Words
  BY MessageFacts DEF IInv, HandlersInv, SetTriggerWord, Input
<1>4. mgr \in Manager /\ mgr.version \in Nat /\ mgr.version + 1 \in Nat
  BY DEF IInv, TypeOK, Manager
<1>5. mm \in Manager
  BY <1>3, <1>4, WordAndVersion
<1>6. s \in Stores /\ s.mgr = mm
  BY <1>2, <1>5, StoreIsTyped, PersistKeeps
<1>7. SameMinute(mgr, mm) /\ mm.version = mgr.version + 1 /\ mm.word = w
  BY <1>4 DEF Manager, SameMinute
<1> QED
  BY <1>2, <1>3, <1>4, <1>5, <1>6, <1>7, WordFacts DEF Commit, Stores

\* Every step of a handler that neither opens nor ends a minute, nor queues a
\* conclusion, keeps the invariant.
LEMMA QuietHandlingInv ==
    ASSUME IInv, NEW m \in Messages, QuietHandling(m)
    PROVE  IInv'
<1>1. /\ mgr' \in Manager /\ row' \in RuntimeRow \cup {None}
      /\ SameMinute(mgr, mgr') /\ mgr'.version >= mgr.version
      /\ mgr.word # None => mgr'.word # None
  <2>1. CASE IfIdle(m)
    BY <2>1, NoChangeIsQuiet DEF IfIdle, botVars
  <2>2. CASE Match(m)
    BY <2>2, CommitEnsured DEF Match
  <2>3. CASE Rotate(m)
    BY <2>3, CommitSelected DEF Rotate
  <2>4. CASE SetTriggerWord(m)
    BY <2>4, SetWordIsQuiet
  <2>5. CASE StartRefused(m)
    BY <2>5, CommitEnsured, NoChangeIsQuiet DEF StartRefused
  <2>6. CASE StartOnChannelCooldown(m)
    BY <2>6, CommitEnsured DEF StartOnChannelCooldown
  <2>7. CASE StartOnWordCooldown(m)
    BY <2>7, CommitSelected DEF StartOnWordCooldown
  <2>8. CASE StopIdle(m)
    BY <2>8, CommitEnsured DEF StopIdle
  <2> QED
    BY <2>1, <2>2, <2>3, <2>4, <2>5, <2>6, <2>7, <2>8 DEF QuietHandling
<1>2. UNCHANGED <<events, msg, stopped, phase, outputs, sched, up, now, crashes>>
  BY DEF QuietHandling, IfIdle, Match, Rotate, SetTriggerWord, StartRefused,
         StartOnChannelCooldown, StartOnWordCooldown, StopIdle, botVars, envVars,
         history
<1>3. \E step \in Steps \ {"new", "queue"} : Goto(m, step)
  BY DEF QuietHandling, IfIdle, Match, Rotate, SetTriggerWord, StartRefused,
         StartOnChannelCooldown, StartOnWordCooldown, StopIdle, Steps
<1>4. pc[m] \notin {"new", "queue", "done"}
  BY DEF QuietHandling, IfIdle, Match, Rotate, SetTriggerWord, StartRefused,
         StartOnChannelCooldown, StartOnWordCooldown, StopIdle
<1>5. HandlersInv' /\ pc' \in [Messages -> Steps]
  BY <1>2, <1>3, <1>4, GotoKeepsHandlers
<1>6. /\ sched' \in Scheduler /\ up' \in BOOLEAN /\ now' \in Nat /\ crashes' \in Nat
      /\ msg' \in [Messages -> Inputs \cup {None}]
  BY <1>2 DEF IInv, TypeOK
<1> QED
  BY <1>1, <1>2, <1>5, <1>6, QuietStep

-----------------------------------------------------------------------------
(* The first state, and the steps that open, end and conclude minutes *)

\* The program starts in a state of the invariant.
LEMMA InitInv == Init => IInv
<1> SUFFICES ASSUME Init PROVE IInv
  OBVIOUS
<1>1. TypeOK
  BY DEF Init, TypeOK, NewManager, IdleScheduler, Manager, Scheduler, Steps, Phases
<1>2. HandlersInv /\ ManagerInv /\ MinutesInv /\ SnapshotInv /\ HoldersInv
  BY DEF Init, NewManager, IdleScheduler, HandlersInv, ManagerInv, MinutesInv,
         SnapshotInv, HoldersInv
<1>3. OneMinuteAtATime /\ CountsTellOutputs /\ OwedConclusionsAreHeld
  BY DEF Init, NewManager, OneMinuteAtATime, CountsTellOutputs, OwedConclusionsAreHeld
<1> QED
  BY <1>1, <1>2, <1>3 DEF IInv

\* A message's arrival opens no minute.
LEMMA ReceiveInv ==
    ASSUME IInv, NEW m \in Messages, Receive(m)
    PROVE  IInv'
<1>1. PICK in \in Inputs :
        /\ msg' = [msg EXCEPT ![m] = in]
        /\ Goto(m, FirstStep(in))
        /\ IF Initializes(in)
           THEN \E s \in EnsureInitialized(Store) : Commit(s)
           ELSE UNCHANGED <<mgr, row>>
  BY DEF Receive
<1>2. /\ mgr' \in Manager /\ row' \in RuntimeRow \cup {None}
      /\ SameMinute(mgr, mgr') /\ mgr'.version >= mgr.version
      /\ mgr.word # None => mgr'.word # None
  BY <1>1, CommitEnsured, NoChangeIsQuiet
<1>3. UNCHANGED <<events, stopped, phase, outputs, sched, up, now, crashes>>
  BY DEF Receive, envVars, history
<1>4. FirstStep(in) \in Steps \ {"new", "queue"}
  BY DEF FirstStep, Steps
<1>5. pc' \in [Messages -> Steps] /\ msg' \in [Messages -> Inputs \cup {None}]
  BY <1>1, <1>4 DEF IInv, TypeOK, Goto
<1>6. HandlersInv'
  BY <1>1, <1>3, <1>4 DEF IInv, TypeOK, HandlersInv, Goto, Receive
<1>7. sched' \in Scheduler /\ up' \in BOOLEAN /\ now' \in Nat /\ crashes' \in Nat
  BY <1>3 DEF IInv, TypeOK
<1> QED
  BY <1>2, <1>3, <1>5, <1>6, <1>7, QuietStep

\* What start() does when it opens a minute.
LEMMA StartFacts ==
    ASSUME IInv, NEW m \in Messages, StartMinute(m)
    PROVE  /\ mgr' \in Manager /\ row' \in RuntimeRow \cup {None}
           /\ events' \in [Messages -> EventRow \cup {None}]
           /\ ~mgr.active
           /\ mgr'.active /\ mgr'.trigger = m /\ mgr'.event \in {m, None}
           /\ mgr'.word # None /\ mgr'.count = 1 /\ mgr'.pending = mgr.pending
           /\ mgr'.version > mgr.version
           /\ mgr'.event # None => events'[m] # None
           /\ events'[m] # None => events'[m].status = "active"
           /\ \A x \in Messages \ {m} : events'[x] = events[x]
<1> DEFINE c == msg[m].channel
<1>1. PICK s \in EnsureInitialized(Store), inserted \in Written(FALSE, TRUE) :
        /\ CanStart(s.mgr)
        /\ events' = IF inserted THEN [events EXCEPT ![m] = NewEvent(c, s.mgr.word)]
                     ELSE events
        /\ \E t \in PersistRuntimeState(s, Opened(s.mgr, m, IF inserted THEN m ELSE None)) :
              Commit(t)
  BY DEF StartMinute
<1>a. PICK e \in Messages \cup {None} : e = IF inserted THEN m ELSE None
  OBVIOUS
<1>2. PICK t \in PersistRuntimeState(s, Opened(s.mgr, m, e)) : Commit(t)
  BY <1>1, <1>a
<1>3. Store \in Stores /\ now \in Nat /\ Store.mgr = mgr
  BY StoreIsTyped DEF IInv, TypeOK, Store
<1>4. s \in Stores /\ SameMinute(mgr, s.mgr) /\ s.mgr.version >= mgr.version
  BY <1>3, EnsureKeepsMinute
<1>5. s.mgr \in Manager /\ s.mgr.version \in Nat /\ mgr.version \in Nat
  BY <1>3, <1>4 DEF Stores, Manager
<1>6. msg[m] \in Input /\ pc[m] = "start" /\ events[m] = None
  BY MessageFacts DEF IInv, HandlersInv, MinutesInv, StartMinute
<1>7. e \in {m, None}
  BY <1>a
<1>8. /\ Opened(s.mgr, m, e) \in Manager
      /\ Opened(s.mgr, m, e).active = TRUE
      /\ Opened(s.mgr, m, e).trigger = m
      /\ Opened(s.mgr, m, e).event = e
      /\ Opened(s.mgr, m, e).count = 1
      /\ Opened(s.mgr, m, e).word = s.mgr.word
      /\ Opened(s.mgr, m, e).pending = s.mgr.pending
      /\ Opened(s.mgr, m, e).version > s.mgr.version
  BY <1>3, <1>5, <1>6, OpenedIsManager
<1>9. t \in Stores /\ mgr' = Opened(s.mgr, m, e) /\ row' = t.row
  BY <1>2, <1>4, <1>8, PersistKeeps DEF Commit
<1>10. s.mgr.word \in Words /\ s.mgr.word # None /\ ~s.mgr.active
  BY <1>1, <1>5 DEF CanStart, Manager
<1>11. NewEvent(c, s.mgr.word) \in EventRow /\ NewEvent(c, s.mgr.word).status = "active"
  <2>1. now + CooldownLen \in Nat /\ c \in Channels
    BY <1>3, <1>6, LengthFacts DEF Input
  <2> QED
    BY <1>3, <1>10, <2>1 DEF NewEvent, EventRow
<1>12. NewEvent(c, s.mgr.word) # None
  BY <1>11, NoneIsNoRow
<1>13. /\ events' \in [Messages -> EventRow \cup {None}]
       /\ inserted => events'[m] = NewEvent(c, s.mgr.word)
       /\ ~inserted => events'[m] = None
       /\ \A x \in Messages \ {m} : events'[x] = events[x]
  BY <1>1, <1>6, <1>11 DEF IInv, TypeOK
<1>14. row' \in RuntimeRow \cup {None}
  BY <1>9 DEF Stores
<1>15. ~mgr.active /\ s.mgr.pending = mgr.pending
  BY <1>4, <1>10 DEF SameMinute
<1>16. mgr'.event # None => inserted
  BY <1>8, <1>9, <1>a
<1>17. mgr'.version > mgr.version
  <2>1. Opened(s.mgr, m, e).version \in Nat
    BY <1>8 DEF Manager
  <2> QED
    BY <2>1, <1>4, <1>5, <1>8, <1>9
<1> QED
  BY <1>7, <1>8, <1>9, <1>10, <1>11, <1>12, <1>13, <1>14, <1>15, <1>16, <1>17

\* Opening a minute keeps the invariant: no other runs, its message left no
\* trace before, and the later version outdates every snapshot.
LEMMA StartInv ==
    ASSUME IInv, NEW m \in Messages, StartMinute(m)
    PROVE  IInv'
<1>1. /\ mgr' \in Manager /\ row' \in RuntimeRow \cup {None}
      /\ events' \in [Messages -> EventRow \cup {None}]
      /\ ~mgr.active
      /\ mgr'.active /\ mgr'.trigger = m /\ mgr'.event \in {m, None}
      /\ mgr'.word # None /\ mgr'.count = 1 /\ mgr'.pending = mgr.pending
      /\ mgr'.version > mgr.version
      /\ mgr'.event # None => events'[m] # None
      /\ events'[m] # None => events'[m].status = "active"
      /\ \A x \in Messages \ {m} : events'[x] = events[x]
  BY StartFacts
<1>2. /\ pc[m] = "start" /\ pc' = [pc EXCEPT ![m] = "done"]
      /\ phase' = [phase EXCEPT ![m] = "running"]
      /\ UNCHANGED <<msg, stopped, sched, up, now, crashes, outputs>>
  BY DEF StartMinute, Goto, envVars
<1>3. /\ phase[m] = "none" /\ outputs[m] = 0 /\ stopped[m] = None /\ m # None
      /\ phase \in [Messages -> Phases] /\ pc \in [Messages -> Steps]
  BY <1>2, MessageFacts DEF IInv, TypeOK, HandlersInv, MinutesInv
<1>4. TypeOK'
  BY <1>1, <1>2 DEF IInv, TypeOK, Phases, Steps
<1>5. HandlersInv'
  BY <1>2, <1>3 DEF IInv, HandlersInv
<1>6. ManagerInv'
  BY <1>1, <1>3 DEF ManagerInv
<1>7. MinutesInv'
  BY <1>1, <1>2, <1>3 DEF IInv, MinutesInv
<1>8. SnapshotInv'
  <2>1. mgr.version \in Nat /\ mgr'.version \in Nat /\ sched.version \in Nat
    BY <1>1 DEF IInv, TypeOK, Manager, Scheduler
  <2> QED
    BY <2>1, <1>1, <1>2 DEF IInv, SnapshotInv
<1>9. HoldersInv'
  BY <1>2 DEF IInv, HoldersInv
<1>10. OneMinuteAtATime'
  BY <1>1, <1>2, <1>3 DEF IInv, OneMinuteAtATime
<1>11. CountsTellOutputs'
  BY <1>1, <1>2, <1>3 DEF IInv, CountsTellOutputs
<1>12. OwedConclusionsAreHeld'
  BY <1>1, <1>2, <1>3 DEF IInv, OwedConclusionsAreHeld
<1> QED
  BY <1>4, <1>5, <1>6, <1>7, <1>8, <1>9, <1>10, <1>11, <1>12 DEF IInv

\* What stop() and the natural end do to the manager and to the minute's row.
LEMMA CloseFacts ==
    ASSUME IInv, mgr.active, NEW status \in {"completed", "stopped"},
           CloseMinute(Store, status)
    PROVE  /\ mgr' \in Manager /\ row' \in RuntimeRow \cup {None}
           /\ events' \in [Messages -> EventRow \cup {None}]
           /\ ~mgr'.active /\ mgr'.trigger = None /\ mgr'.event = None
           /\ mgr'.pending = mgr.pending /\ mgr'.version > mgr.version
           /\ \/ events' = events
              \/ /\ events[mgr.trigger] # None /\ events'[mgr.trigger] # None
                 /\ events'[mgr.trigger].status # "active"
                 /\ events'[mgr.trigger].count = mgr.count
                 /\ \A x \in Messages \ {mgr.trigger} : events'[x] = events[x]
<1>1. Store \in Stores /\ mgr \in Manager /\ Store.mgr = mgr /\ mgr.version \in Nat
  BY StoreIsTyped DEF IInv, TypeOK, Store, Manager
<1> DEFINE u == [Store EXCEPT !.mgr = Closed(Store.mgr)]
<1>2. PICK t \in SelectNewTriggerWord(u) : mgr' = t.mgr /\ row' = t.row
  BY DEF CloseMinute
<1>3. /\ Closed(mgr) \in Manager /\ Closed(mgr).active = FALSE
      /\ Closed(mgr).trigger = None /\ Closed(mgr).event = None
      /\ Closed(mgr).pending = mgr.pending /\ Closed(mgr).version = mgr.version
  BY <1>1, ClosedIsManager
<1>4. u \in Stores /\ u.mgr = Closed(mgr)
  BY <1>1, <1>3 DEF Stores
<1>5. t \in Stores /\ SameMinute(u.mgr, t.mgr) /\ t.mgr.version = u.mgr.version + 1
  BY <1>4, SelectKeepsMinute
<1>6. /\ mgr' \in Manager /\ row' \in RuntimeRow \cup {None}
      /\ ~mgr'.active /\ mgr'.trigger = None /\ mgr'.event = None
      /\ mgr'.pending = mgr.pending /\ mgr'.version > mgr.version
  BY <1>1, <1>2, <1>3, <1>4, <1>5 DEF SameMinute, Stores
<1>7. events' \in CompleteEvent(mgr, status)
  BY <1>1 DEF CloseMinute
<1>8. events \in [Messages -> EventRow \cup {None}]
  BY DEF IInv, TypeOK
<1>9. CASE events' = events
  BY <1>6, <1>8, <1>9
<1>10. CASE events' # events
  <2>1. /\ mgr.event = mgr.trigger /\ mgr.trigger \in Messages
        /\ events' = [events EXCEPT ![mgr.event].status = status,
                                    ![mgr.event].count = mgr.count]
        /\ events[mgr.trigger] \in EventRow
    BY <1>1, <1>7, <1>8, <1>10
       DEF IInv, ManagerInv, CompleteEvent, Written, Manager
  <2> DEFINE e == [events[mgr.trigger] EXCEPT !.status = status, !.count = mgr.count]
  <2>2. e \in EventRow /\ e.status # "active" /\ e.count = mgr.count
    BY <1>1, <2>1 DEF EventRow, Manager
  <2>3. e # None /\ events[mgr.trigger] # None
    BY <2>1, <2>2, NoneIsNoRow
  <2>4. events' = [events EXCEPT ![mgr.trigger] = e]
    BY <1>8, <2>1
  <2> HIDE DEF e
  <2> QED
    BY <1>6, <1>8, <2>1, <2>2, <2>3, <2>4
<1> QED
  BY <1>9, <1>10

\* The parts of the invariant that ending the minute keeps, whoever ends it and
\* whether or not its channel is told at once.
LEMMA CloseKeeps ==
    ASSUME IInv, mgr.active, NEW status \in {"completed", "stopped"},
           CloseMinute(Store, status),
           NEW p \in {"owed", "concluded"}, phase' = [phase EXCEPT ![mgr.trigger] = p],
           outputs' = outputs, sched' = sched \/ sched'.step = "idle"
    PROVE  /\ phase' \in [Messages -> Phases]
           /\ ManagerInv' /\ MinutesInv' /\ SnapshotInv'
           /\ OneMinuteAtATime' /\ CountsTellOutputs'
<1>1. /\ mgr' \in Manager
      /\ ~mgr'.active /\ mgr'.trigger = None /\ mgr'.event = None
      /\ mgr'.version > mgr.version
      /\ \/ events' = events
         \/ /\ events[mgr.trigger] # None /\ events'[mgr.trigger] # None
            /\ events'[mgr.trigger].status # "active"
            /\ events'[mgr.trigger].count = mgr.count
            /\ \A x \in Messages \ {mgr.trigger} : events'[x] = events[x]
  BY CloseFacts
<1>2. mgr.trigger \in Messages /\ phase[mgr.trigger] = "running"
  BY DEF IInv, TypeOK, ManagerInv, OneMinuteAtATime, Manager
<1>3. phase \in [Messages -> Phases] /\ mgr.count = 1 + outputs[mgr.trigger]
  BY DEF IInv, TypeOK, CountsTellOutputs
<1>4. phase' \in [Messages -> Phases]
  BY <1>3 DEF Phases
<1>5. ManagerInv'
  BY <1>1 DEF ManagerInv
<1>6. MinutesInv'
  BY <1>1, <1>2, <1>3 DEF IInv, MinutesInv
<1>7. SnapshotInv'
  <2>1. mgr.version \in Nat /\ mgr'.version \in Nat /\ sched.version \in Nat
    BY <1>1 DEF IInv, TypeOK, Manager, Scheduler
  <2> QED
    BY <2>1, <1>1 DEF IInv, SnapshotInv
<1>8. OneMinuteAtATime'
  BY <1>1, <1>2, <1>3 DEF IInv, OneMinuteAtATime
<1>9. CountsTellOutputs'
  BY <1>1, <1>2, <1>3 DEF IInv, CountsTellOutputs
<1> QED
  BY <1>4, <1>5, <1>6, <1>7, <1>8, <1>9

\* A stop keeps the invariant.  Stopped from elsewhere, the minute is owed and
\* its handler holds it; it was held nowhere before, for it was running.
LEMMA StopInv ==
    ASSUME IInv, NEW m \in Messages, StopMinute(m)
    PROVE  IInv'
<1> DEFINE elsewhere == mgr.channel # msg[m].channel
           p == IF elsewhere THEN "owed" ELSE "concluded"
           held == IF elsewhere THEN mgr.trigger ELSE None
           next == IF elsewhere THEN "queue" ELSE "done"
<1>1. /\ mgr.active /\ CloseMinute(Store, "stopped") /\ pc[m] = "stop"
      /\ pc' = [pc EXCEPT ![m] = next]
      /\ stopped' = [stopped EXCEPT ![m] = held]
      /\ phase' = [phase EXCEPT ![mgr.trigger] = p]
      /\ UNCHANGED <<msg, sched, up, now, crashes, outputs>>
  BY DEF StopMinute, Goto, envVars
<1>2. /\ phase' \in [Messages -> Phases]
      /\ ManagerInv' /\ MinutesInv' /\ SnapshotInv'
      /\ OneMinuteAtATime' /\ CountsTellOutputs'
  BY <1>1, CloseKeeps
<1>3. /\ mgr' \in Manager /\ row' \in RuntimeRow \cup {None}
      /\ events' \in [Messages -> EventRow \cup {None}]
      /\ mgr'.pending = mgr.pending
  BY <1>1, CloseFacts
<1>4. /\ mgr.trigger \in Messages /\ mgr.trigger # None
      /\ phase[mgr.trigger] = "running"
  BY <1>1 DEF IInv, TypeOK, ManagerInv, OneMinuteAtATime, Manager
<1>5. /\ phase \in [Messages -> Phases] /\ pc \in [Messages -> Steps]
      /\ stopped \in [Messages -> Messages \cup {None}]
      /\ stopped[m] = None /\ phase[m] = "none" /\ msg[m] \in Inputs
      /\ mgr.pending \in Messages \cup {None}
  BY <1>1 DEF IInv, TypeOK, HandlersInv, Manager
<1>6. \A h \in Messages : stopped[h] # mgr.trigger
  BY <1>4, <1>5 DEF IInv, OwedConclusionsAreHeld
<1>7. mgr.pending # mgr.trigger
  BY <1>4, <1>5 DEF IInv, OwedConclusionsAreHeld
<1>8. TypeOK'
  BY <1>1, <1>2, <1>3, <1>4, <1>5 DEF IInv, TypeOK, Steps
<1>9. HandlersInv'
  BY <1>1, <1>4, <1>5 DEF IInv, HandlersInv
<1>10. HoldersInv'
  BY <1>1, <1>5, <1>6 DEF IInv, HoldersInv
<1>11. OwedConclusionsAreHeld'
  <2>1. \A h \in Messages : stopped'[h] # None => mgr'.pending # stopped'[h]
    BY <1>1, <1>3, <1>5, <1>7 DEF IInv, OwedConclusionsAreHeld
  <2>2. \A x \in Messages :
          phase'[x] = "owed" <=> phase[x] = "owed" \/ x = held
    BY <1>1, <1>4, <1>5, MessageFacts
  <2>3. ({mgr'.pending} \cup {stopped'[h] : h \in Messages}) \ {None} =
          (({mgr.pending} \cup {stopped[h] : h \in Messages}) \ {None})
            \cup ({held} \ {None})
    BY <1>1, <1>3, <1>5
  <2>4. held \in Messages \cup {None} /\ None \notin Messages
    BY <1>4, MessageFacts
  <2> HIDE DEF held
  <2> QED
    BY <2>1, <2>2, <2>3, <2>4 DEF IInv, OwedConclusionsAreHeld
<1> QED
  BY <1>2, <1>8, <1>9, <1>10, <1>11 DEF IInv

\* The natural end keeps the invariant: the minute is told at once.
LEMMA FinishInv ==
    ASSUME IInv, FinishMinute
    PROVE  IInv'
<1>1. /\ mgr.active /\ CloseMinute(Store, "completed")
      /\ phase' = [phase EXCEPT ![mgr.trigger] = "concluded"]
      /\ sched' = IdleScheduler(now)
      /\ UNCHANGED <<msg, pc, stopped, up, now, crashes, outputs>>
  BY DEF FinishMinute, taskVars, envVars
<1>2. sched' \in Scheduler /\ sched'.step = "idle"
  BY <1>1 DEF IInv, TypeOK, IdleScheduler, Scheduler
<1>3. /\ phase' \in [Messages -> Phases]
      /\ ManagerInv' /\ MinutesInv' /\ SnapshotInv'
      /\ OneMinuteAtATime' /\ CountsTellOutputs'
  BY <1>1, <1>2, CloseKeeps
<1>4. /\ mgr' \in Manager /\ row' \in RuntimeRow \cup {None}
      /\ events' \in [Messages -> EventRow \cup {None}]
      /\ mgr'.pending = mgr.pending
  BY <1>1, CloseFacts
<1>5. mgr.trigger \in Messages /\ phase[mgr.trigger] = "running"
  BY <1>1 DEF IInv, TypeOK, ManagerInv, OneMinuteAtATime, Manager
<1>6. phase \in [Messages -> Phases]
  BY DEF IInv, TypeOK
<1>7. TypeOK'
  BY <1>1, <1>2, <1>3, <1>4 DEF IInv, TypeOK
<1>8. HandlersInv' /\ HoldersInv'
  BY <1>1, <1>5, <1>6 DEF IInv, HandlersInv, HoldersInv
<1>9. OwedConclusionsAreHeld'
  BY <1>1, <1>4, <1>5, <1>6 DEF IInv, OwedConclusionsAreHeld
<1> QED
  BY <1>3, <1>7, <1>8, <1>9 DEF IInv

\* Queueing a conclusion keeps the invariant: what the handler held is in the
\* slot, and what the slot held is lost and held nowhere.
LEMMA QueueInv ==
    ASSUME IInv, NEW m \in Messages, QueueConclusion(m)
    PROVE  IInv'
<1>1. /\ pc[m] = "queue" /\ pc' = [pc EXCEPT ![m] = "done"]
      /\ mgr' = Queued(mgr, stopped[m])
      /\ phase' = IF mgr.pending = None THEN phase
                  ELSE [phase EXCEPT ![mgr.pending] = "lost"]
      /\ stopped' = [stopped EXCEPT ![m] = None]
      /\ UNCHANGED <<row, events, msg, sched, up, now, crashes, outputs>>
  BY DEF QueueConclusion, Goto, envVars
<1>2. /\ phase \in [Messages -> Phases] /\ pc \in [Messages -> Steps]
      /\ stopped \in [Messages -> Messages \cup {None}]
      /\ mgr \in Manager /\ mgr.pending \in Messages \cup {None}
      /\ mgr.version \in Nat /\ None \notin Messages
  BY MessageFacts DEF IInv, TypeOK, Manager
<1>3. stopped[m] \in Messages /\ phase[m] = "none"
  BY <1>1, <1>2 DEF IInv, HandlersInv
<1>4. /\ mgr' \in Manager /\ mgr'.active = mgr.active
      /\ mgr'.trigger = mgr.trigger /\ mgr'.event = mgr.event
      /\ mgr'.count = mgr.count /\ mgr'.word = mgr.word
      /\ mgr'.version = mgr.version /\ mgr'.pending = stopped[m]
  BY <1>1, <1>2, <1>3, QueuedIsManager
<1>5. \A x \in Messages :
        phase'[x] = IF x = mgr.pending THEN "lost" ELSE phase[x]
  BY <1>1, <1>2
<1>6. mgr.pending # None => phase[mgr.pending] = "owed"
  BY <1>2 DEF IInv, OwedConclusionsAreHeld
<1>7. TypeOK'
  BY <1>1, <1>2, <1>4 DEF IInv, TypeOK, Phases, Steps
<1>8. HandlersInv'
  BY <1>1, <1>2, <1>5, <1>6 DEF IInv, HandlersInv
<1>9. ManagerInv'
  BY <1>1, <1>4 DEF IInv, ManagerInv
<1>10. MinutesInv'
  BY <1>1, <1>5 DEF IInv, MinutesInv
<1>11. SnapshotInv'
  BY <1>1, <1>4 DEF IInv, SnapshotInv
<1>12. HoldersInv'
  BY <1>1, <1>2 DEF IInv, HoldersInv
<1>13. OneMinuteAtATime'
  BY <1>2, <1>4, <1>5, <1>6 DEF IInv, OneMinuteAtATime
<1>14. CountsTellOutputs'
  BY <1>1, <1>4 DEF IInv, CountsTellOutputs
<1>15. OwedConclusionsAreHeld'
  <2>1. \A h \in Messages : stopped'[h] # None => mgr'.pending # stopped'[h]
    BY <1>1, <1>2, <1>3, <1>4 DEF IInv, HoldersInv
  <2>2. \A x \in Messages : x \in {stopped[h] : h \in Messages} => x # mgr.pending
    BY <1>2 DEF IInv, OwedConclusionsAreHeld
  <2>3. ({mgr'.pending} \cup {stopped'[h] : h \in Messages}) \ {None} =
          {stopped[h] : h \in Messages} \ {None}
    BY <1>1, <1>2, <1>3, <1>4
  <2>4. {x \in Messages : phase'[x] = "owed"} =
          {x \in Messages : phase[x] = "owed"} \ {mgr.pending}
    BY <1>5
  <2> QED
    BY <1>2, <2>1, <2>2, <2>3, <2>4 DEF IInv, OwedConclusionsAreHeld
<1> QED
  BY <1>7, <1>8, <1>9, <1>10, <1>11, <1>12, <1>13, <1>14, <1>15 DEF IInv

\* Delivering the conclusion keeps the invariant: the minute in the slot is told
\* and no longer held.
LEMMA DeliverInv ==
    ASSUME IInv, DeliverConclusion
    PROVE  IInv'
<1>1. /\ mgr.pending # None
      /\ phase' = [phase EXCEPT ![mgr.pending] = "concluded"]
      /\ sched' = IdleScheduler(now)
      /\ UNCHANGED <<events, msg, pc, stopped, up, now, crashes, outputs>>
  BY DEF DeliverConclusion, taskVars, envVars
<1>2. PICK s \in EnsureInitialized(Store) : Commit([s EXCEPT !.mgr.pending = None])
  BY DEF DeliverConclusion
<1>3. Store \in Stores /\ now \in Nat /\ Store.mgr = mgr /\ mgr.version \in Nat
  BY StoreIsTyped DEF IInv, TypeOK, Store, Manager
<1>4. /\ s \in Stores /\ SameMinute(mgr, s.mgr) /\ s.mgr.version >= mgr.version
      /\ mgr.word # None => s = Store
  BY <1>3, EnsureKeepsMinute
<1>5. s.mgr \in Manager /\ s.row \in RuntimeRow \cup {None}
  BY <1>4 DEF Stores
<1>6. mgr' = Queued(s.mgr, None) /\ row' = s.row
  BY <1>2, <1>4, <1>5 DEF Commit, Stores, Queued
<1>7. /\ mgr' \in Manager /\ row' \in RuntimeRow \cup {None}
      /\ mgr'.active = mgr.active /\ mgr'.trigger = mgr.trigger
      /\ mgr'.event = mgr.event /\ mgr'.count = mgr.count
      /\ mgr.word # None => mgr'.word # None
      /\ mgr'.version >= mgr.version /\ mgr'.pending = None
  BY <1>3, <1>4, <1>5, <1>6, QueuedIsManager DEF SameMinute
<1>8. /\ phase \in [Messages -> Phases] /\ mgr.pending \in Messages
      /\ None \notin Messages
  BY <1>1, MessageFacts DEF IInv, TypeOK, Manager
<1>9. \A x \in Messages :
        phase'[x] = IF x = mgr.pending THEN "concluded" ELSE phase[x]
  BY <1>1, <1>8
<1>10. phase[mgr.pending] = "owed"
  BY <1>8 DEF IInv, OwedConclusionsAreHeld
<1>11. sched' \in Scheduler /\ sched'.step = "idle"
  BY <1>1, <1>3 DEF IdleScheduler, Scheduler
<1>12. TypeOK'
  BY <1>1, <1>7, <1>8, <1>11 DEF IInv, TypeOK, Phases
<1>13. HandlersInv' /\ HoldersInv'
  BY <1>1, <1>9, <1>10 DEF IInv, HandlersInv, HoldersInv
<1>14. ManagerInv'
  BY <1>1, <1>7 DEF IInv, ManagerInv
<1>15. MinutesInv'
  BY <1>1, <1>9 DEF IInv, MinutesInv
<1>16. SnapshotInv'
  BY <1>11 DEF SnapshotInv
<1>17. OneMinuteAtATime'
  BY <1>7, <1>9, <1>10 DEF IInv, OneMinuteAtATime
<1>18. CountsTellOutputs'
  BY <1>1, <1>7 DEF IInv, CountsTellOutputs
<1>19. OwedConclusionsAreHeld'
  BY <1>1, <1>7, <1>8, <1>9 DEF IInv, OwedConclusionsAreHeld
<1> QED
  BY <1>12, <1>13, <1>14, <1>15, <1>16, <1>17, <1>18, <1>19 DEF IInv

\* A snapshot names the running minute at the manager's present version.
LEMMA SnapshotStepInv ==
    ASSUME IInv, SnapshotMinute
    PROVE  IInv'
<1>1. /\ mgr.active
      /\ sched' = [step |-> "generating", channel |-> mgr.channel,
                   version |-> mgr.version, minute |-> mgr.trigger, lastRan |-> now]
      /\ UNCHANGED <<mgr, row, events, msg, pc, stopped, up, now, crashes, phase,
                     outputs>>
  BY DEF SnapshotMinute, botVars, taskVars, envVars, history
<1>2. mgr \in Manager /\ mgr.version \in Nat /\ now \in Nat
  BY DEF IInv, TypeOK, Manager
<1>3. sched' \in Scheduler
  BY <1>1, <1>2 DEF Scheduler, Manager
<1>4. TypeOK'
  BY <1>1, <1>3 DEF IInv, TypeOK
<1>5. SnapshotInv'
  BY <1>1, <1>2 DEF IInv, SnapshotInv, ManagerInv
<1>6. HandlersInv' /\ ManagerInv' /\ MinutesInv' /\ HoldersInv'
  BY <1>1 DEF IInv, HandlersInv, ManagerInv, MinutesInv, HoldersInv
<1>7. OneMinuteAtATime' /\ CountsTellOutputs' /\ OwedConclusionsAreHeld'
  BY <1>1 DEF IInv, OneMinuteAtATime, CountsTellOutputs, OwedConclusionsAreHeld
<1> QED
  BY <1>4, <1>5, <1>6, <1>7 DEF IInv

\* recordOutput() counts a text for the minute it was generated for: an accepted
\* snapshot is of the running minute.
LEMMA PostInv ==
    ASSUME IInv, PostOutput
    PROVE  IInv'
<1>1. /\ sched.step = "generating" /\ mgr.active /\ mgr.version = sched.version
      /\ mgr' = [mgr EXCEPT !.count = @ + 1]
      /\ outputs' = [outputs EXCEPT ![sched.minute] = @ + 1]
      /\ sched' = IdleScheduler(now)
      /\ UNCHANGED <<row, events, msg, pc, stopped, up, now, crashes, phase>>
  BY DEF PostOutput, AcceptsOutput, taskVars, envVars
<1>2. sched.minute = mgr.trigger /\ mgr.trigger \in Messages
  BY <1>1 DEF IInv, SnapshotInv, ManagerInv, TypeOK, Manager
<1>3. /\ mgr \in Manager /\ mgr.count \in Nat /\ now \in Nat
      /\ outputs \in [Messages -> Nat] /\ outputs[mgr.trigger] \in Nat
      /\ mgr.count = 1 + outputs[mgr.trigger] /\ phase[mgr.trigger] = "running"
  BY <1>1, <1>2
     DEF IInv, TypeOK, Manager, CountsTellOutputs, OneMinuteAtATime
<1> DEFINE c == mgr.count + 1
           o == outputs[mgr.trigger] + 1
<1>4. c \in Nat /\ o \in Nat /\ c = 1 + o
  BY <1>3
<1>5. mgr' = [mgr EXCEPT !.count = c] /\ outputs' = [outputs EXCEPT ![mgr.trigger] = o]
  BY <1>1, <1>2, <1>3
<1> HIDE DEF c, o
<1>6. /\ mgr' \in Manager /\ mgr'.active = mgr.active
      /\ mgr'.trigger = mgr.trigger /\ mgr'.event = mgr.event
      /\ mgr'.count = c /\ mgr'.word = mgr.word
      /\ mgr'.version = mgr.version /\ mgr'.pending = mgr.pending
  BY <1>3, <1>4, <1>5 DEF Manager
<1>7. /\ outputs' \in [Messages -> Nat] /\ outputs'[mgr.trigger] = o
      /\ \A x \in Messages \ {mgr.trigger} : outputs'[x] = outputs[x]
  BY <1>2, <1>3, <1>4, <1>5
<1>8. sched' \in Scheduler /\ sched'.step = "idle"
  BY <1>1, <1>3 DEF IdleScheduler, Scheduler
<1>9. TypeOK'
  BY <1>1, <1>6, <1>7, <1>8 DEF IInv, TypeOK
<1>10. SnapshotInv'
  BY <1>8 DEF SnapshotInv
<1>11. HandlersInv' /\ ManagerInv' /\ HoldersInv'
  BY <1>1, <1>6 DEF IInv, HandlersInv, ManagerInv, HoldersInv
<1>12. MinutesInv'
  BY <1>1, <1>2, <1>3, <1>7 DEF IInv, MinutesInv
<1>13. CountsTellOutputs'
  BY <1>1, <1>2, <1>3, <1>4, <1>6, <1>7 DEF IInv, CountsTellOutputs, MinutesInv
<1>14. OneMinuteAtATime' /\ OwedConclusionsAreHeld'
  BY <1>1, <1>6 DEF IInv, OneMinuteAtATime, OwedConclusionsAreHeld
<1> QED
  BY <1>9, <1>10, <1>11, <1>12, <1>13, <1>14 DEF IInv

\* A crash forgets the minute, the slot and the handlers together.
LEMMA CrashInv ==
    ASSUME IInv, Crash
    PROVE  IInv'
<1>1. /\ up' = FALSE /\ crashes' = crashes + 1 /\ mgr' = NewManager
      /\ pc' = [m \in Messages |-> IF pc[m] = "new" THEN "new" ELSE "done"]
      /\ stopped' = [m \in Messages |-> None] /\ sched' = IdleScheduler(0)
      /\ phase' = [m \in Messages |->
                     IF phase[m] \in {"running", "owed"} THEN "lost" ELSE phase[m]]
      /\ UNCHANGED <<row, events, msg, now, outputs>>
  BY DEF Crash
<1>2. phase \in [Messages -> Phases]
  BY DEF IInv, TypeOK
<1>3. NewManager \in Manager /\ sched' \in Scheduler /\ sched'.step = "idle"
  BY <1>1 DEF NewManager, Manager, IdleScheduler, Scheduler
<1>4. phase' \in [Messages -> Phases] /\ pc' \in [Messages -> Steps]
  BY <1>1, <1>2 DEF Phases, Steps
<1>11. crashes' \in Nat
  BY <1>1 DEF IInv, TypeOK
<1>12. stopped' \in [Messages -> Messages \cup {None}]
  BY <1>1
<1>5. TypeOK'
  BY <1>1, <1>3, <1>4, <1>11, <1>12 DEF IInv, TypeOK
<1>6. HandlersInv'
  BY <1>1 DEF IInv, HandlersInv
<1>7. ManagerInv' /\ SnapshotInv' /\ HoldersInv'
  BY <1>1, <1>3 DEF NewManager, ManagerInv, SnapshotInv, HoldersInv
<1>8. MinutesInv'
  BY <1>1 DEF IInv, MinutesInv
<1>9. OneMinuteAtATime' /\ OwedConclusionsAreHeld'
  BY <1>1, MessageFacts DEF NewManager, OneMinuteAtATime, OwedConclusionsAreHeld
<1>10. CountsTellOutputs'
  BY <1>1 DEF IInv, NewManager, CountsTellOutputs
<1> QED
  BY <1>5, <1>6, <1>7, <1>8, <1>9, <1>10 DEF IInv

\* The scheduler's other steps, starting the process and the clock are quiet.
QuietBackground ==
    NothingToSay \/ DropOutput \/ GenerateNothing \/ Startup \/ Tick

\* They keep the invariant.
LEMMA QuietBackgroundInv ==
    ASSUME IInv, QuietBackground
    PROVE  IInv'
<1>1. /\ UNCHANGED <<events, msg, pc, stopped, crashes, phase, outputs>>
      /\ sched' = sched \/ sched' = IdleScheduler(now)
      /\ up' = TRUE \/ up' = up
      /\ now' = now \/ now' = now + 1
  BY DEF QuietBackground, NothingToSay, DropOutput, GenerateNothing, Startup, Tick,
         botVars, taskVars, envVars, history
<1>2. /\ mgr' \in Manager /\ row' \in RuntimeRow \cup {None}
      /\ SameMinute(mgr, mgr') /\ mgr'.version >= mgr.version
      /\ mgr.word # None => mgr'.word # None
  <2>1. UNCHANGED <<mgr, row>> \/ \E s \in EnsureInitialized(Store) : Commit(s)
    BY DEF QuietBackground, NothingToSay, DropOutput, GenerateNothing, Startup, Tick,
           botVars
  <2> QED
    BY <2>1, CommitEnsured, NoChangeIsQuiet
<1>3. /\ sched' \in Scheduler /\ (sched' = sched \/ sched'.step = "idle")
      /\ up' \in BOOLEAN /\ now' \in Nat /\ crashes' \in Nat
      /\ msg' \in [Messages -> Inputs \cup {None}] /\ pc' \in [Messages -> Steps]
  <2>1. now \in Nat /\ sched \in Scheduler /\ up \in BOOLEAN
    BY DEF IInv, TypeOK
  <2>2. IdleScheduler(now) \in Scheduler /\ IdleScheduler(now).step = "idle"
    BY <2>1 DEF IdleScheduler, Scheduler
  <2>3. now + 1 \in Nat
    BY <2>1
  <2>4. /\ crashes' \in Nat /\ msg' \in [Messages -> Inputs \cup {None}]
        /\ pc' \in [Messages -> Steps]
    BY <1>1 DEF IInv, TypeOK
  <2> QED
    BY <1>1, <2>1, <2>2, <2>3, <2>4
<1>4. HandlersInv'
  BY <1>1 DEF IInv, HandlersInv
<1> QED
  BY <1>1, <1>2, <1>3, <1>4, QuietStep

-----------------------------------------------------------------------------
(* The theorems *)

\* Every step, or stutter, keeps the invariant.
LEMMA NextInv == IInv /\ [Next]_vars => IInv'
<1> SUFFICES ASSUME IInv, [Next]_vars PROVE IInv'
  OBVIOUS
<1>1. ASSUME NEW m \in Messages, Receive(m) PROVE IInv'
  BY <1>1, ReceiveInv
<1>2. ASSUME NEW m \in Messages, Handle(m) PROVE IInv'
  BY <1>2, QuietHandlingInv, StartInv, StopInv, QueueInv DEF Handle, QuietHandling
<1>3. ASSUME Schedule PROVE IInv'
  BY <1>3, DeliverInv, FinishInv, SnapshotStepInv, PostInv, QuietBackgroundInv
     DEF Schedule, QuietBackground
<1>4. ASSUME Startup \/ Tick PROVE IInv'
  BY <1>4, QuietBackgroundInv DEF QuietBackground
<1>5. ASSUME Crash PROVE IInv'
  BY <1>5, CrashInv
<1>6. ASSUME UNCHANGED vars PROVE IInv'
  BY <1>6 DEF vars, IInv, TypeOK, HandlersInv, ManagerInv, MinutesInv, SnapshotInv,
              HoldersInv, OneMinuteAtATime, CountsTellOutputs, OwedConclusionsAreHeld
<1> QED
  BY <1>1, <1>2, <1>3, <1>4, <1>5, <1>6 DEF Next

\* The invariant holds in every reachable state.
THEOREM Invariance == Spec => []IInv
  BY InitInv, NextInv, PTL DEF Spec

\* The variables keep their types: no method leaves the manager, the runtime row
\* or an event row with a field out of place, whatever fails.
THEOREM TypeCorrect == Spec => []TypeOK
<1>1. IInv => TypeOK
  BY DEF IInv
<1> QED
  BY <1>1, Invariance, PTL

\* However messages interleave, at most one minute runs, and it is the one the
\* manager holds.
THEOREM OneMinute == Spec => []OneMinuteAtATime
<1>1. IInv => OneMinuteAtATime
  BY DEF IInv
<1> QED
  BY <1>1, Invariance, PTL

\* The count of every minute is its opening message plus the texts posted for
\* it: a text generated for an earlier minute is never counted or posted.
THEOREM CountsAreOutputs == Spec => []CountsTellOutputs
<1>1. IInv => CountsTellOutputs
  BY DEF IInv
<1> QED
  BY <1>1, Invariance, PTL

\* Every minute that ended untold is held in exactly one place.
THEOREM OwedAreHeld == Spec => []OwedConclusionsAreHeld
<1>1. IInv => OwedConclusionsAreHeld
  BY DEF IInv
<1> QED
  BY <1>1, Invariance, PTL
-----------------------------------------------------------------------------
(* Cooldowns, while the database answers *)

\* A statement that does not fail leaves the manager it was given in the row.
LEMMA PersistRecords ==
    ASSUME ~DbMayFail, NEW s \in Stores, NEW mm \in Manager,
           NEW t \in PersistRuntimeState(s, mm)
    PROVE  t.mgr = mm /\ t.row = RowOf(mm)
  BY DEF PersistRuntimeState, Written

\* Drawing a word leaves the manager in the row and its cooldown as it was.
LEMMA SelectRecords ==
    ASSUME ~DbMayFail, NEW s \in Stores, NEW t \in SelectNewTriggerWord(s)
    PROVE  /\ t.row = RowOf(t.mgr)
           /\ t.mgr.cooldownUntil = s.mgr.cooldownUntil
<1>1. PICK w \in AutoWords \cup {s.mgr.word} :
        t \in PersistRuntimeState(s, [s.mgr EXCEPT !.word = w, !.version = @ + 1])
  BY DEF SelectNewTriggerWord
<1> DEFINE mm == [s.mgr EXCEPT !.word = w, !.version = @ + 1]
<1>2. s.mgr \in Manager /\ s.mgr.version + 1 \in Nat /\ w \in Words \cup {None}
  BY WordFacts DEF Stores, Manager
<1>3. mm \in Manager /\ mm.cooldownUntil = s.mgr.cooldownUntil
  BY <1>2, WordAndVersion DEF Manager
<1> QED
  BY <1>1, <1>3, PersistRecords

\* Restoring leaves the manager in the row, unless it leaves it without a word;
\* a cooldown in a row that has a word is restored while it lasts.
LEMMA RestoreRecords ==
    ASSUME ~DbMayFail, now \in Nat, NEW s \in Stores, s.mgr.word = None,
           NEW t \in RestoreRuntimeState(s)
    PROVE  /\ t.mgr.word # None => t.row = RowOf(t.mgr)
           /\ ~s.mgr.restoreAttempted /\ s.row # None /\ s.row.word # None =>
                /\ t.mgr.word # None
                /\ s.row.cooldownUntil > now =>
                     t.mgr.cooldownUntil = s.row.cooldownUntil
<1> DEFINE tried == [s.mgr EXCEPT !.restoreAttempted = TRUE]
<1>1. s.mgr \in Manager /\ s.row \in RuntimeRow \cup {None}
  BY DEF Stores
<1>2. tried \in Manager /\ tried.word = None
  BY <1>1 DEF Manager
<1>3. CASE s.mgr.restoreAttempted
  BY <1>3 DEF RestoreRuntimeState
<1>4. CASE ~s.mgr.restoreAttempted /\ ~(s.row # None /\ s.row.word # None)
  <2>1. t = [s EXCEPT !.mgr = tried]
    BY <1>4 DEF RestoreRuntimeState
  <2>2. t.mgr = tried
    BY <2>1 DEF Stores
  <2> QED
    BY <1>2, <1>4, <2>2
<1>5. CASE ~s.mgr.restoreAttempted /\ s.row # None /\ s.row.word # None
  <2> DEFINE r == Restored(tried, s.row)
  <2>1. t \in PersistRuntimeState(s, r)
    BY <1>5 DEF RestoreRuntimeState
  <2>2. /\ tried.version + 1 \in Nat /\ tried.cooldownUntil \in Nat
        /\ s.row.word \in Words /\ s.row.cooldownUntil \in Nat
    BY <1>1, <1>2, <1>5 DEF Manager, RuntimeRow
  <2>3. r \in Manager
    BY <1>2, <2>2, WordCooldownAndVersion DEF Restored
  <2>4. /\ r.word = s.row.word
        /\ s.row.cooldownUntil > now => r.cooldownUntil = s.row.cooldownUntil
    BY <1>2, <2>2 DEF Restored, Manager
  <2>5. t.mgr = r /\ t.row = RowOf(r)
    BY <2>1, <2>3, PersistRecords
  <2> QED
    BY <1>5, <2>4, <2>5
<1> QED
  BY <1>3, <1>4, <1>5

\* ensureInitializedLocked() leaves the manager in the row if it was there or
\* had no word to begin with.
LEMMA EnsureRecords ==
    ASSUME ~DbMayFail, now \in Nat, NEW s \in Stores, NEW t \in EnsureInitialized(s),
           s.mgr.word # None => s.row = RowOf(s.mgr)
    PROVE  /\ t.row = RowOf(t.mgr)
           /\ s.mgr.word = None /\ ~s.mgr.restoreAttempted
                /\ s.row # None /\ s.row.word # None =>
                /\ t.mgr.word # None
                /\ s.row.cooldownUntil > now =>
                     t.mgr.cooldownUntil = s.row.cooldownUntil
<1>1. CASE s.mgr.word # None
  BY <1>1 DEF EnsureInitialized
<1>2. CASE s.mgr.word = None
  <2>1. PICK u \in RestoreRuntimeState(s) :
          t \in IF u.mgr.word # None THEN {u} ELSE SelectNewTriggerWord(u)
    BY <1>2 DEF EnsureInitialized
  <2>2. u \in Stores
    BY <1>2, RestoreKeepsMinute
  <2>3. /\ u.mgr.word # None => u.row = RowOf(u.mgr)
        /\ ~s.mgr.restoreAttempted /\ s.row # None /\ s.row.word # None =>
             /\ u.mgr.word # None
             /\ s.row.cooldownUntil > now =>
                  u.mgr.cooldownUntil = s.row.cooldownUntil
    BY <1>2, RestoreRecords
  <2>4. CASE u.mgr.word # None
    BY <2>1, <2>3, <2>4
  <2>5. CASE u.mgr.word = None
    BY <2>1, <2>2, <2>3, <2>5, SelectRecords
  <2> QED
    BY <2>4, <2>5
<1> QED
  BY <1>1, <1>2

\* A step that leaves what every event row says of its cooldown alone.
SameCooldowns ==
    \A m \in Messages :
        /\ events'[m] = None <=> events[m] = None
        /\ events[m] # None =>
             /\ events'[m].channel = events[m].channel
             /\ events'[m].word = events[m].word
             /\ events'[m].startedAt = events[m].startedAt
             /\ events'[m].cooldownUntil = events[m].cooldownUntil
             /\ msg'[m] = msg[m]

\* Such a step keeps what the rows say of each other, and the clock only goes on.
LEMMA SameCooldownsInv ==
    ASSUME IInv, CooldownInv, SameCooldowns, now' \in Nat, now' >= now
    PROVE  EventTimesInv' /\ CooldownsRespected'
<1>1. EventTimesInv'
  <2> SUFFICES ASSUME NEW m \in Messages, events'[m] # None
               PROVE  /\ events'[m].startedAt <= now'
                      /\ events'[m].cooldownUntil = events'[m].startedAt + CooldownLen
    BY DEF EventTimesInv
  <2>1. events[m] # None /\ events[m] \in EventRow /\ now \in Nat
    BY DEF SameCooldowns, IInv, TypeOK
  <2>2. /\ events[m].startedAt <= now
        /\ events[m].cooldownUntil = events[m].startedAt + CooldownLen
    BY <2>1 DEF CooldownInv, EventTimesInv
  <2>3. /\ events'[m].startedAt = events[m].startedAt
        /\ events'[m].cooldownUntil = events[m].cooldownUntil
        /\ events[m].startedAt \in Nat
    BY <2>1 DEF SameCooldowns, EventRow
  <2> QED
    BY <2>1, <2>2, <2>3
<1>2. CooldownsRespected'
  BY DEF CooldownInv, CooldownsRespected, SameCooldowns
<1> QED
  BY <1>1, <1>2

\* A method of the running process keeps the invariant if it leaves the manager
\* in the row, with its word and its cooldown if it had a word.
LEMMA CalmStep ==
    ASSUME IInv, CooldownInv, up, up' = up, SameCooldowns, now' = now,
           mgr' \in Manager, row' = RowOf(mgr'),
           mgr.word # None => mgr'.word # None /\ mgr'.cooldownUntil = mgr.cooldownUntil
    PROVE  CooldownInv'
<1>1. ProcessInv'
  BY DEF ProcessInv
<1>2. EventTimesInv' /\ CooldownsRespected'
  <2>1. now' \in Nat /\ now' >= now
    BY DEF IInv, TypeOK
  <2> QED
    BY <2>1, SameCooldownsInv
<1>3. CoolingRowInv'
  <2> SUFFICES ASSUME NEW m \in Messages, events'[m] # None,
                      events'[m].cooldownUntil > now'
               PROVE  /\ row' # None /\ row'.word # None
                      /\ row'.cooldownUntil >= events'[m].cooldownUntil
    BY DEF CoolingRowInv
  <2>1. /\ events[m] # None /\ events[m].cooldownUntil > now
        /\ events'[m].cooldownUntil = events[m].cooldownUntil
    BY DEF SameCooldowns
  <2>2. /\ row # None /\ row.word # None
        /\ row.cooldownUntil >= events[m].cooldownUntil
    BY <2>1 DEF CooldownInv, CoolingRowInv
  <2>3. row = RowOf(mgr) /\ RowOf(mgr).word = mgr.word
        /\ RowOf(mgr).cooldownUntil = mgr.cooldownUntil
    BY DEF CooldownInv, ProcessInv, RowOf
  <2>4. mgr'.word # None /\ mgr'.cooldownUntil = mgr.cooldownUntil
    BY <2>2, <2>3
  <2>6. row'.word = mgr'.word /\ row'.cooldownUntil = mgr'.cooldownUntil
    BY DEF RowOf
  <2>7. row' # None
    BY NoneIsNoRow DEF RowOf, RuntimeRow, Manager
  <2> QED
    BY <2>1, <2>2, <2>3, <2>4, <2>6, <2>7
<1> QED
  BY <1>1, <1>2, <1>3 DEF CooldownInv

\* What a method of the running process that only makes sure there is a word
\* leaves.
LEMMA EnsuredWhileUp ==
    ASSUME ~DbMayFail, IInv, CooldownInv, up, NEW s \in EnsureInitialized(Store)
    PROVE  /\ s \in Stores /\ s.mgr \in Manager /\ s.row = RowOf(s.mgr)
           /\ SameMinute(mgr, s.mgr)
           /\ mgr.word # None =>
                s.mgr.word # None /\ s.mgr.cooldownUntil = mgr.cooldownUntil
<1>1. Store \in Stores /\ now \in Nat /\ Store.mgr = mgr /\ Store.row = row
  BY StoreIsTyped DEF IInv, TypeOK, Store
<1>2. row = RowOf(mgr)
  BY DEF CooldownInv, ProcessInv
<1>3. s \in Stores /\ SameMinute(mgr, s.mgr) /\ (mgr.word # None => s = Store)
  BY <1>1, EnsureKeepsMinute
<1>4. s.row = RowOf(s.mgr)
  BY <1>1, <1>2, EnsureRecords
<1> QED
  BY <1>1, <1>3, <1>4 DEF Stores

\* The same for a method that also draws a new word.
LEMMA SelectedWhileUp ==
    ASSUME ~DbMayFail, IInv, CooldownInv, up, NEW s \in EnsureInitialized(Store),
           NEW t \in SelectNewTriggerWord(s)
    PROVE  /\ t.mgr \in Manager /\ t.row = RowOf(t.mgr)
           /\ mgr.word # None =>
                t.mgr.word # None /\ t.mgr.cooldownUntil = mgr.cooldownUntil
<1>1. /\ s \in Stores
      /\ mgr.word # None =>
           s.mgr.word # None /\ s.mgr.cooldownUntil = mgr.cooldownUntil
  BY EnsuredWhileUp
<1>2. t \in Stores /\ (s.mgr.word # None => t.mgr.word # None)
  BY <1>1, SelectKeepsMinute
<1>3. t.row = RowOf(t.mgr) /\ t.mgr.cooldownUntil = s.mgr.cooldownUntil
  BY <1>1, SelectRecords
<1> QED
  BY <1>1, <1>2, <1>3 DEF Stores

\* A handler under way, or a text being generated, is of the running process.
LEMMA OnlyWhileUp ==
    ASSUME IInv, CooldownInv
    PROVE  /\ \A m \in Messages : pc[m] \notin {"new", "done"} => up
           /\ sched.step = "generating" => up
  BY DEF CooldownInv, ProcessInv

\* A step that touches no event and no arrived message is one of SameCooldowns.
LEMMA UntouchedEvents ==
    ASSUME UNCHANGED events, UNCHANGED msg
    PROVE  SameCooldowns
  BY DEF SameCooldowns

\* The steps of a handler that leave the minute alone keep the cooldowns.
LEMMA QuietHandlingCooldowns ==
    ASSUME ~DbMayFail, IInv, CooldownInv, NEW m \in Messages, QuietHandling(m)
    PROVE  CooldownInv'
<1>1. UNCHANGED <<events, msg, up, now>>
  BY DEF QuietHandling, IfIdle, Match, Rotate, SetTriggerWord, StartRefused,
         StartOnChannelCooldown, StartOnWordCooldown, StopIdle, botVars, envVars
<1>2. up
  <2>1. pc[m] \notin {"new", "done"}
    BY DEF QuietHandling, IfIdle, Match, Rotate, SetTriggerWord, StartRefused,
           StartOnChannelCooldown, StartOnWordCooldown, StopIdle
  <2> QED
    BY <2>1, OnlyWhileUp
<1>3. /\ mgr' \in Manager /\ row' = RowOf(mgr')
      /\ mgr.word # None =>
           mgr'.word # None /\ mgr'.cooldownUntil = mgr.cooldownUntil
  <2>1. CASE UNCHANGED <<mgr, row>>
    BY <1>2, <2>1 DEF IInv, TypeOK, CooldownInv, ProcessInv
  <2>2. CASE \E s \in EnsureInitialized(Store) : Commit(s)
    BY <1>2, <2>2, EnsuredWhileUp DEF Commit
  <2>3. CASE \E s \in EnsureInitialized(Store) :
               \E t \in SelectNewTriggerWord(s) : Commit(t)
    BY <1>2, <2>3, SelectedWhileUp DEF Commit
  <2>4. CASE SetTriggerWord(m)
    <3>1. PICK w \in msg[m].says :
            \E s \in PersistRuntimeState(Store,
                       [mgr EXCEPT !.word = w, !.version = @ + 1]) : Commit(s)
      BY <2>4 DEF SetTriggerWord
    <3> DEFINE mm == [mgr EXCEPT !.word = w, !.version = @ + 1]
    <3>2. w \in Words
      BY <2>4, MessageFacts DEF IInv, HandlersInv, SetTriggerWord, Input
    <3>3. mgr \in Manager /\ mgr.version + 1 \in Nat
      BY DEF IInv, TypeOK, Manager
    <3>4. mm \in Manager /\ mm.word = w /\ mm.cooldownUntil = mgr.cooldownUntil
      BY <3>2, <3>3, WordAndVersion DEF Manager
    <3>5. mgr' = mm /\ row' = RowOf(mm)
      BY <3>1, <3>4, StoreIsTyped, PersistRecords DEF Commit
    <3> QED
      BY <3>2, <3>4, <3>5, WordFacts
  <2> QED
    BY <2>1, <2>2, <2>3, <2>4
       DEF QuietHandling, IfIdle, Match, Rotate, StartRefused,
           StartOnChannelCooldown, StartOnWordCooldown, StopIdle, botVars
<1> QED
  BY <1>1, <1>2, <1>3, UntouchedEvents, CalmStep

\* So does a message's arrival: no minute was started by it before.
LEMMA ReceiveCooldowns ==
    ASSUME ~DbMayFail, IInv, CooldownInv, NEW m \in Messages, Receive(m)
    PROVE  CooldownInv'
<1>1. /\ up /\ pc[m] = "new" /\ UNCHANGED <<events, up, now>>
      /\ \A x \in Messages \ {m} : msg'[x] = msg[x]
      /\ \/ \E s \in EnsureInitialized(Store) : Commit(s)
         \/ UNCHANGED <<mgr, row>>
  BY DEF Receive, envVars, IInv, TypeOK
<1>2. events[m] = None
  BY <1>1 DEF IInv, HandlersInv, MinutesInv
<1>3. SameCooldowns
  BY <1>1, <1>2 DEF SameCooldowns
<1>4. /\ mgr' \in Manager /\ row' = RowOf(mgr')
      /\ mgr.word # None =>
           mgr'.word # None /\ mgr'.cooldownUntil = mgr.cooldownUntil
  <2>1. CASE UNCHANGED <<mgr, row>>
    BY <1>1, <2>1 DEF IInv, TypeOK, CooldownInv, ProcessInv
  <2>2. CASE \E s \in EnsureInitialized(Store) : Commit(s)
    BY <1>1, <2>2, EnsuredWhileUp DEF Commit
  <2> QED
    BY <1>1, <2>1, <2>2
<1> QED
  BY <1>1, <1>3, <1>4, CalmStep

\* stop() and the natural end keep the cooldowns: the row that is completed
\* keeps its own, and the manager its word's.
LEMMA CloseCooldowns ==
    ASSUME ~DbMayFail, IInv, CooldownInv, up, mgr.active,
           NEW status \in {"completed", "stopped"}, CloseMinute(Store, status),
           UNCHANGED <<msg, up, now>>
    PROVE  CooldownInv'
<1>1. Store \in Stores /\ mgr \in Manager /\ Store.mgr = mgr
  BY StoreIsTyped DEF IInv, TypeOK, Store
<1> DEFINE u == [Store EXCEPT !.mgr = Closed(Store.mgr)]
<1>2. PICK t \in SelectNewTriggerWord(u) : mgr' = t.mgr /\ row' = t.row
  BY DEF CloseMinute
<1>3. /\ Closed(mgr) \in Manager /\ Closed(mgr).word = mgr.word
      /\ Closed(mgr).cooldownUntil = mgr.cooldownUntil
  BY <1>1 DEF Manager, Closed
<1>4. u \in Stores /\ u.mgr = Closed(mgr)
  BY <1>1, <1>3 DEF Stores
<1>5. t \in Stores /\ (u.mgr.word # None => t.mgr.word # None)
  BY <1>4, SelectKeepsMinute
<1>6. t.row = RowOf(t.mgr) /\ t.mgr.cooldownUntil = u.mgr.cooldownUntil
  BY <1>4, SelectRecords
<1>7. /\ mgr' \in Manager /\ row' = RowOf(mgr')
      /\ mgr.word # None =>
           mgr'.word # None /\ mgr'.cooldownUntil = mgr.cooldownUntil
  BY <1>2, <1>3, <1>4, <1>5, <1>6 DEF Stores
<1>8. SameCooldowns
  <2>1. CASE events' = events
    BY <2>1, UntouchedEvents
  <2>2. CASE events' # events
    <3>1. /\ mgr.event \in Messages /\ events[mgr.event] # None
          /\ events' = [events EXCEPT ![mgr.event].status = status,
                                      ![mgr.event].count = mgr.count]
          /\ events \in [Messages -> EventRow \cup {None}]
      BY <1>1, <2>2
         DEF CloseMinute, CompleteEvent, Written, IInv, TypeOK, ManagerInv, Manager
    <3> DEFINE e == [events[mgr.event] EXCEPT !.status = status, !.count = mgr.count]
    <3>2. events[mgr.event] \in EventRow
      BY <3>1
    <3>3. /\ e \in EventRow
          /\ e.channel = events[mgr.event].channel
          /\ e.word = events[mgr.event].word
          /\ e.startedAt = events[mgr.event].startedAt
          /\ e.cooldownUntil = events[mgr.event].cooldownUntil
      BY <1>1, <3>2 DEF EventRow, Manager
    <3>4. events' = [events EXCEPT ![mgr.event] = e]
      BY <3>1
    <3>5. e # None
      BY <3>3, NoneIsNoRow
    <3> HIDE DEF e
    <3> QED
      BY <3>1, <3>3, <3>4, <3>5 DEF SameCooldowns
  <2> QED
    BY <2>1, <2>2
<1> QED
  BY <1>7, <1>8, CalmStep

\* A chat message opens a minute only if no cooldown lasts on its channel or on
\* the word; "test" asks nobody.
LEMMA StartAsks ==
    ASSUME ~DbMayFail, IInv, CooldownInv, NEW m \in Messages, StartMinute(m)
    PROVE  /\ mgr' \in Manager /\ row' = RowOf(mgr')
           /\ mgr'.word # None /\ mgr'.cooldownUntil = now + CooldownLen
           /\ events[m] = None
           /\ events' = [events EXCEPT ![m] = NewEvent(msg[m].channel, mgr'.word)]
           /\ NewEvent(msg[m].channel, mgr'.word) \in EventRow
           /\ msg[m].kind = "chat" =>
                /\ ~ChannelOnCooldown(msg[m].channel)
                /\ ~WordOnCooldown(msg[m].channel, mgr'.word)
<1> DEFINE c == msg[m].channel
<1>1. PICK s \in EnsureInitialized(Store) :
        /\ CanStart(s.mgr)
        /\ \/ msg[m].kind = "test"
           \/ /\ FALSE \in Answered(ChannelOnCooldown(c))
              /\ FALSE \in Answered(WordOnCooldown(c, s.mgr.word))
        /\ \E inserted \in Written(FALSE, TRUE) :
              /\ events' = IF inserted
                           THEN [events EXCEPT ![m] = NewEvent(c, s.mgr.word)]
                           ELSE events
              /\ \E t \in PersistRuntimeState(s,
                            Opened(s.mgr, m, IF inserted THEN m ELSE None)) :
                    Commit(t)
  BY DEF StartMinute
<1>2. Written(FALSE, TRUE) = {TRUE}
  BY DEF Written
<1>3. PICK t \in PersistRuntimeState(s, Opened(s.mgr, m, m)) : Commit(t)
  BY <1>1, <1>2
<1>4. events' = [events EXCEPT ![m] = NewEvent(c, s.mgr.word)]
  BY <1>1, <1>2
<1>5. pc[m] = "start" /\ msg[m] \in Input /\ events[m] = None /\ now \in Nat
  BY MessageFacts DEF StartMinute, IInv, TypeOK, HandlersInv, MinutesInv
<1>6. up
  BY <1>5, OnlyWhileUp
<1>7. s \in Stores /\ s.mgr \in Manager
  BY <1>6, EnsuredWhileUp
<1>8. /\ Opened(s.mgr, m, m) \in Manager
      /\ Opened(s.mgr, m, m).word = s.mgr.word
      /\ Opened(s.mgr, m, m).cooldownUntil = now + CooldownLen
  <2>1. PICK e \in Messages \cup {None} : e = m
    OBVIOUS
  <2>2. /\ Opened(s.mgr, m, e) \in Manager
        /\ Opened(s.mgr, m, e).active = TRUE
        /\ Opened(s.mgr, m, e).trigger = m
        /\ Opened(s.mgr, m, e).event = e
        /\ Opened(s.mgr, m, e).count = 1
        /\ Opened(s.mgr, m, e).word = s.mgr.word
        /\ Opened(s.mgr, m, e).pending = s.mgr.pending
        /\ Opened(s.mgr, m, e).version > s.mgr.version
    BY <1>5, <1>7, OpenedIsManager
  <2>3. Opened(s.mgr, m, e).cooldownUntil = now + CooldownLen
    BY <1>7, OpenedCooldown
  <2> QED
    BY <2>1, <2>2, <2>3
<1>9. mgr' = Opened(s.mgr, m, m) /\ row' = RowOf(mgr')
  BY <1>3, <1>7, <1>8, PersistRecords DEF Commit
<1>10. s.mgr.word # None /\ s.mgr.word \in Words
  BY <1>1, <1>7 DEF CanStart, Manager
<1>11. NewEvent(c, s.mgr.word) \in EventRow
  <2>1. now + CooldownLen \in Nat /\ c \in Channels
    BY <1>5, LengthFacts DEF Input
  <2> QED
    BY <1>5, <1>10, <2>1 DEF NewEvent, EventRow
<1>12. msg[m].kind = "chat" =>
         ~ChannelOnCooldown(c) /\ ~WordOnCooldown(c, s.mgr.word)
  BY <1>1 DEF Answered
<1> QED
  BY <1>4, <1>5, <1>8, <1>9, <1>10, <1>11, <1>12

\* Opening a minute keeps the cooldowns: they all have the same length, so that
\* the new one, which the manager takes, lasts longest.
LEMMA StartCooldowns ==
    ASSUME ~DbMayFail, IInv, CooldownInv, NEW m \in Messages, StartMinute(m)
    PROVE  CooldownInv'
<1> DEFINE e == NewEvent(msg[m].channel, mgr'.word)
<1>1. /\ mgr' \in Manager /\ row' = RowOf(mgr')
      /\ mgr'.word # None /\ mgr'.cooldownUntil = now + CooldownLen
      /\ events[m] = None
      /\ events' = [events EXCEPT ![m] = e]
      /\ e \in EventRow
      /\ msg[m].kind = "chat" =>
           /\ ~ChannelOnCooldown(msg[m].channel)
           /\ ~WordOnCooldown(msg[m].channel, mgr'.word)
  BY StartAsks
<1>2. /\ UNCHANGED <<msg, up, now>> /\ up /\ now \in Nat
      /\ events \in [Messages -> EventRow \cup {None}]
      /\ CooldownLen \in Nat /\ CooldownLen > 0
  BY OnlyWhileUp, ConstantsAssumption DEF StartMinute, envVars, IInv, TypeOK
<1>3. /\ e.channel = msg[m].channel /\ e.word = mgr'.word
      /\ e.startedAt = now /\ e.cooldownUntil = now + CooldownLen
  BY DEF NewEvent
<1> HIDE DEF e
<1>4. /\ events'[m] = e
      /\ \A x \in Messages : x # m => events'[x] = events[x]
      /\ \A x \in Messages : events'[x] # None =>
           events'[x].startedAt \in Nat /\ events'[x].cooldownUntil \in Nat
  BY <1>1, <1>2 DEF EventRow
<1>5. \A x \in Messages : events'[x] # None =>
        /\ events'[x].startedAt <= now
        /\ events'[x].cooldownUntil = events'[x].startedAt + CooldownLen
  BY <1>2, <1>3, <1>4 DEF CooldownInv, EventTimesInv
<1>6. ProcessInv' /\ EventTimesInv'
  BY <1>1, <1>2, <1>5 DEF ProcessInv, EventTimesInv
<1>7. CoolingRowInv'
  <2>1. row' # None /\ row'.word # None /\ row'.cooldownUntil = now + CooldownLen
    BY <1>1, NoneIsNoRow DEF RowOf, RuntimeRow, Manager
  <2> QED
    BY <1>2, <1>4, <1>5, <2>1 DEF CoolingRowInv
<1>8. CooldownsRespected'
  <2> SUFFICES
        ASSUME NEW a \in Messages, NEW b \in Messages,
               a # b, events'[a] # None, events'[b] # None, msg'[b].kind = "chat",
               \/ events'[a].channel = events'[b].channel
               \/ /\ ServerOf[events'[a].channel] = ServerOf[events'[b].channel]
                  /\ events'[a].word = events'[b].word,
               \/ events'[a].startedAt < events'[b].startedAt
               \/ events'[a].startedAt = events'[b].startedAt /\ msg'[a].kind = "chat"
        PROVE  events'[a].cooldownUntil <= events'[b].startedAt
    BY DEF CooldownsRespected
  <2>1. CASE a # m /\ b # m
    BY <1>2, <1>4, <2>1 DEF CooldownInv, CooldownsRespected
  <2>2. CASE b = m
    <3>1. events[a] = events'[a] /\ events[a] # None /\ msg[m].kind = "chat"
      BY <1>2, <1>4, <2>2
    <3>2. events[a].cooldownUntil \in Nat
      BY <1>4, <3>1
    <3>3. ~(events[a].cooldownUntil > now)
      BY <1>1, <1>3, <1>4, <2>2, <3>1 DEF ChannelOnCooldown, WordOnCooldown
    <3> QED
      BY <1>2, <1>3, <1>4, <2>2, <3>1, <3>2, <3>3
  <2>3. CASE a = m
    <3>1. events[b] = events'[b] /\ events[b] # None
      BY <1>4, <2>3
    <3>2. events[b].startedAt = now /\ msg[m].kind = "chat"
      BY <1>2, <1>3, <1>4, <1>5, <2>3, <3>1
    <3>3. events[b].cooldownUntil = now + CooldownLen
      BY <1>5, <3>1, <3>2
    <3>4. ~(events[b].cooldownUntil > now)
      BY <1>1, <1>3, <1>4, <2>3, <3>1, <3>2 DEF ChannelOnCooldown, WordOnCooldown
    <3> QED
      BY <1>2, <3>3, <3>4
  <2> QED
    BY <2>1, <2>2, <2>3
<1> QED
  BY <1>6, <1>7, <1>8 DEF CooldownInv

\* The steps that end a minute or queue its conclusion keep the cooldowns.
LEMMA StopCooldowns ==
    ASSUME ~DbMayFail, IInv, CooldownInv, NEW m \in Messages,
           StopMinute(m) \/ QueueConclusion(m)
    PROVE  CooldownInv'
<1>1. up
  BY OnlyWhileUp DEF StopMinute, QueueConclusion
<1>2. CASE StopMinute(m)
  BY <1>1, <1>2, CloseCooldowns DEF StopMinute, envVars
<1>3. CASE QueueConclusion(m)
  <2>1. /\ mgr' = [mgr EXCEPT !.pending = stopped[m]]
        /\ UNCHANGED <<row, events, msg, up, now>>
        /\ mgr \in Manager /\ stopped[m] \in Messages \cup {None}
    BY <1>3 DEF QueueConclusion, Queued, envVars, IInv, TypeOK
  <2>2. mgr' \in Manager /\ mgr'.word = mgr.word /\ RowOf(mgr') = RowOf(mgr)
        /\ mgr'.cooldownUntil = mgr.cooldownUntil
    BY <2>1 DEF Manager, RowOf
  <2>3. row = RowOf(mgr)
    BY <1>1 DEF CooldownInv, ProcessInv
  <2> QED
    BY <1>1, <2>1, <2>2, <2>3, UntouchedEvents, CalmStep
<1> QED
  BY <1>2, <1>3

\* So does the scheduler, whatever it has to do.
LEMMA ScheduleCooldowns ==
    ASSUME ~DbMayFail, IInv, CooldownInv, Schedule
    PROVE  CooldownInv'
<1>1. UNCHANGED <<msg, up, now>> /\ up
  BY OnlyWhileUp
     DEF Schedule, DeliverConclusion, NothingToSay, FinishMinute, SnapshotMinute,
         PostOutput, DropOutput, GenerateNothing, SchedulerDue, taskVars, envVars
<1>2. mgr \in Manager /\ row = RowOf(mgr)
  BY <1>1 DEF IInv, TypeOK, CooldownInv, ProcessInv
<1>3. CASE FinishMinute
  BY <1>1, <1>3, CloseCooldowns DEF FinishMinute
<1>4. CASE DeliverConclusion
  <2>1. PICK s \in EnsureInitialized(Store) : Commit([s EXCEPT !.mgr.pending = None])
    BY <1>4 DEF DeliverConclusion
  <2>2. /\ s \in Stores /\ s.mgr \in Manager /\ s.row = RowOf(s.mgr)
        /\ mgr.word # None =>
             s.mgr.word # None /\ s.mgr.cooldownUntil = mgr.cooldownUntil
    BY <1>1, EnsuredWhileUp
  <2>3. mgr' = [s.mgr EXCEPT !.pending = None] /\ row' = s.row
    BY <2>1, <2>2 DEF Commit, Stores
  <2>4. mgr' \in Manager /\ mgr'.word = s.mgr.word /\ RowOf(mgr') = RowOf(s.mgr)
        /\ mgr'.cooldownUntil = s.mgr.cooldownUntil
    BY <2>2, <2>3 DEF Manager, RowOf
  <2>5. events' = events
    BY <1>4 DEF DeliverConclusion
  <2> QED
    BY <1>1, <2>2, <2>3, <2>4, <2>5, UntouchedEvents, CalmStep
<1>5. CASE NothingToSay
  <2>1. PICK s \in EnsureInitialized(Store) : mgr' = s.mgr /\ row' = s.row
    BY <1>5 DEF NothingToSay, Commit
  <2>2. /\ s.mgr \in Manager /\ s.row = RowOf(s.mgr)
        /\ mgr.word # None =>
             s.mgr.word # None /\ s.mgr.cooldownUntil = mgr.cooldownUntil
    BY <1>1, EnsuredWhileUp
  <2>3. events' = events
    BY <1>5 DEF NothingToSay
  <2> QED
    BY <1>1, <2>1, <2>2, <2>3, UntouchedEvents, CalmStep
<1>6. CASE PostOutput
  <2>1. mgr' = [mgr EXCEPT !.count = mgr.count + 1] /\ UNCHANGED <<row, events>>
    BY <1>2, <1>6 DEF PostOutput
  <2>2. mgr.count + 1 \in Nat
    BY <1>2 DEF Manager
  <2>3. mgr' \in Manager /\ mgr'.word = mgr.word /\ RowOf(mgr') = RowOf(mgr)
        /\ mgr'.cooldownUntil = mgr.cooldownUntil
    BY <1>2, <2>1, <2>2 DEF Manager, RowOf
  <2> QED
    BY <1>1, <1>2, <2>1, <2>3, UntouchedEvents, CalmStep
<1>7. CASE SnapshotMinute \/ DropOutput \/ GenerateNothing
  <2>1. UNCHANGED <<mgr, row, events>>
    BY <1>7 DEF SnapshotMinute, DropOutput, GenerateNothing, botVars
  <2> QED
    BY <1>1, <1>2, <2>1, UntouchedEvents, CalmStep
<1> QED
  BY <1>3, <1>4, <1>5, <1>6, <1>7 DEF Schedule

\* A start of the process keeps them: the row of a cooldown that lasts has a
\* word, so that it is restored with the cooldown before it is written back.
LEMMA StartupCooldowns ==
    ASSUME ~DbMayFail, IInv, CooldownInv, Startup
    PROVE  CooldownInv'
<1>1. PICK s \in EnsureInitialized(Store) : mgr' = s.mgr /\ row' = s.row
  BY DEF Startup, Commit
<1>2. /\ ~up /\ up' = TRUE /\ mgr = NewManager
      /\ UNCHANGED <<events, msg, now>>
  BY DEF Startup, taskVars, CooldownInv, ProcessInv
<1>3. /\ Store \in Stores /\ now \in Nat /\ Store.mgr = mgr /\ Store.row = row
      /\ mgr.word = None /\ ~mgr.restoreAttempted
  BY <1>2, StoreIsTyped DEF IInv, TypeOK, Store, NewManager
<1>4. s \in Stores
  BY <1>3, EnsureKeepsMinute
<1>5. /\ s.row = RowOf(s.mgr)
      /\ row # None /\ row.word # None =>
           /\ s.mgr.word # None
           /\ row.cooldownUntil > now => s.mgr.cooldownUntil = row.cooldownUntil
  BY <1>3, EnsureRecords
<1>6. EventTimesInv' /\ CooldownsRespected'
  BY <1>2, <1>3, UntouchedEvents, SameCooldownsInv
<1>7. CoolingRowInv'
  <2> SUFFICES ASSUME NEW m \in Messages, events[m] # None,
                      events[m].cooldownUntil > now
               PROVE  /\ row' # None /\ row'.word # None
                      /\ row'.cooldownUntil >= events[m].cooldownUntil
    BY <1>2 DEF CoolingRowInv
  <2>1. /\ row # None /\ row.word # None
        /\ row.cooldownUntil >= events[m].cooldownUntil
    BY DEF CooldownInv, CoolingRowInv
  <2>2. row.cooldownUntil \in Nat /\ events[m].cooldownUntil \in Nat
    BY <2>1 DEF IInv, TypeOK, RuntimeRow, EventRow
  <2>3. row.cooldownUntil > now
    BY <1>3, <2>1, <2>2
  <2>4. s.mgr.word # None /\ s.mgr.cooldownUntil = row.cooldownUntil
    BY <1>5, <2>1, <2>3
  <2>5. s.row.word = s.mgr.word /\ s.row.cooldownUntil = s.mgr.cooldownUntil
    BY <1>5 DEF RowOf
  <2>6. s.row # None
    BY <1>4, <1>5, NoneIsNoRow DEF RowOf, RuntimeRow, Stores, Manager
  <2> QED
    BY <1>1, <2>1, <2>4, <2>5, <2>6
<1>8. ProcessInv'
  BY <1>1, <1>2, <1>5 DEF ProcessInv
<1> QED
  BY <1>6, <1>7, <1>8 DEF CooldownInv

\* A crash leaves the rows, and time ends cooldowns and begins none.
LEMMA CrashAndTickCooldowns ==
    ASSUME IInv, CooldownInv, Crash \/ Tick
    PROVE  CooldownInv'
<1>1. UNCHANGED <<row, events, msg>> /\ now' \in Nat /\ now' >= now /\ now \in Nat
  BY LengthFacts DEF Crash, Tick, botVars, taskVars, IInv, TypeOK
<1>2. EventTimesInv' /\ CooldownsRespected'
  BY <1>1, UntouchedEvents, SameCooldownsInv
<1>3. CoolingRowInv'
  <2> SUFFICES ASSUME NEW m \in Messages, events[m] # None,
                      events[m].cooldownUntil > now'
               PROVE  /\ row # None /\ row.word # None
                      /\ row.cooldownUntil >= events[m].cooldownUntil
    BY <1>1 DEF CoolingRowInv
  <2>1. events[m].cooldownUntil \in Nat
    BY DEF IInv, TypeOK, EventRow
  <2>2. events[m].cooldownUntil > now
    BY <1>1, <2>1
  <2> QED
    BY <2>2 DEF CooldownInv, CoolingRowInv
<1>4. ProcessInv'
  <2>1. CASE Crash
    BY <2>1 DEF Crash, ProcessInv, IdleScheduler
  <2>2. CASE Tick
    BY <2>2 DEF Tick, botVars, taskVars, CooldownInv, ProcessInv, RowOf
  <2> QED
    BY <2>1, <2>2
<1> QED
  BY <1>2, <1>3, <1>4 DEF CooldownInv

\* Every step, or stutter, keeps both invariants while the database answers.
LEMMA NextCooldowns ==
    ~DbMayFail /\ IInv /\ CooldownInv /\ [Next]_vars => CooldownInv'
<1> SUFFICES ASSUME ~DbMayFail, IInv, CooldownInv, [Next]_vars PROVE CooldownInv'
  OBVIOUS
<1>1. ASSUME NEW m \in Messages, Receive(m) PROVE CooldownInv'
  BY <1>1, ReceiveCooldowns
<1>2. ASSUME NEW m \in Messages, Handle(m) PROVE CooldownInv'
  BY <1>2, QuietHandlingCooldowns, StartCooldowns, StopCooldowns
     DEF Handle, QuietHandling
<1>3. ASSUME Schedule PROVE CooldownInv'
  BY <1>3, ScheduleCooldowns
<1>4. ASSUME Startup PROVE CooldownInv'
  BY <1>4, StartupCooldowns
<1>5. ASSUME Crash \/ Tick PROVE CooldownInv'
  BY <1>5, CrashAndTickCooldowns
<1>6. ASSUME UNCHANGED vars PROVE CooldownInv'
  BY <1>6 DEF vars, CooldownInv, ProcessInv, EventTimesInv, CoolingRowInv,
              CooldownsRespected, RowOf
<1> QED
  BY <1>1, <1>2, <1>3, <1>4, <1>5, <1>6 DEF Next

\* While the database answers, the cooldowns' invariant holds in every state.
THEOREM CooldownInvariance == ~DbMayFail /\ Spec => [](IInv /\ CooldownInv)
<1> SUFFICES ASSUME ~DbMayFail PROVE Spec => [](IInv /\ CooldownInv)
  OBVIOUS
<1>1. Init => IInv /\ CooldownInv
  BY InitInv DEF Init, CooldownInv, ProcessInv, EventTimesInv, CoolingRowInv,
                 CooldownsRespected, IdleScheduler
<1>2. IInv /\ CooldownInv /\ [Next]_vars => (IInv /\ CooldownInv)'
  BY NextInv, NextCooldowns
<1> QED
  BY <1>1, <1>2, PTL DEF Spec

\* While the database answers, no chat message opens a minute in a channel, or
\* on a word of its guild, that an earlier minute's cooldown covers: whatever
\* other handlers, crashes and restarts come between the two.
THEOREM CooldownsAreRespected == ~DbMayFail /\ Spec => []CooldownsRespected
<1>1. CooldownInv => CooldownsRespected
  BY DEF CooldownInv
<1> QED
  BY <1>1, CooldownInvariance, PTL

\* While the database answers, the runtime row is what the running manager
\* holds: no method forgets to persist what it changed.
THEOREM RowIsTheManager == ~DbMayFail /\ Spec => []RowMirrorsManager
<1>1. CooldownInv => RowMirrorsManager
  BY DEF CooldownInv, ProcessInv, RowMirrorsManager
<1> QED
  BY <1>1, CooldownInvariance, PTL

\* While the database answers, a cooldown is in the runtime row for as long as it
\* lasts, however often the process dies and starts again.
THEOREM CooldownsOutliveRestarts == ~DbMayFail /\ Spec => []CooldownOutlivesRestart
<1>1. CooldownInv => CooldownOutlivesRestart
  BY DEF CooldownInv, CoolingRowInv, CooldownOutlivesRestart
<1> QED
  BY <1>1, CooldownInvariance, PTL

----------------------------------------------------------------------------
(***************************************************************************)
(* The manager, with its handlers, scheduler, failing database and         *)
(* crashes, implements MinuteContract: starting opens a minute of the      *)
(* contract, stop(), the natural end and a crash end it, delivering from   *)
(* the slot tells it, recordOutput() posts, and every other step stutters. *)
(***************************************************************************)
Told     == {m \in Messages : phase[m] = "concluded"}
Begun    == {m \in Messages : phase[m] # "none"}
Reported == [m \in Messages |->
               IF events[m] = None THEN None
               ELSE IF events[m].status = "active" THEN None
               ELSE events[m].count]

\* What the contract sees of a state is determined by these four.
LEMMA ContractSees ==
    mgr'.trigger = mgr.trigger /\ UNCHANGED <<events, phase, outputs>>
      => UNCHANGED Contract!vars
  BY DEF Contract!vars

\* The bot starts where the contract starts.
LEMMA InitRefines == Init => Contract!Init
  BY DEF Init, NewManager, Contract!Init

\* start() opens a minute that was not opened before, while none runs.
LEMMA StartRefines ==
    ASSUME IInv, NEW m \in Messages, StartMinute(m)
    PROVE  Contract!Open(m)
<1>1. /\ ~mgr.active /\ mgr'.trigger = m
      /\ events'[m] # None => events'[m].status = "active"
      /\ \A x \in Messages \ {m} : events'[x] = events[x]
  BY StartFacts
<1>2. /\ phase' = [phase EXCEPT ![m] = "running"] /\ outputs' = outputs
      /\ pc[m] = "start"
  BY DEF StartMinute
<1>3. /\ phase[m] = "none" /\ events[m] = None /\ mgr.trigger = None
      /\ phase \in [Messages -> Phases]
  BY <1>1, <1>2 DEF IInv, TypeOK, HandlersInv, MinutesInv, ManagerInv
<1>4. Begun' = Begun \cup {m} /\ Told' = Told /\ m \notin Begun
  BY <1>2, <1>3 DEF Begun, Told
<1>5. Reported' = Reported
  BY <1>1, <1>3 DEF Reported
<1> QED
  BY <1>1, <1>2, <1>3, <1>4, <1>5 DEF Contract!Open, Begun, Told, Reported

\* Whoever closes the minute ends it in the contract, and what its row then says
\* is the opening message plus the texts posted.
LEMMA CloseRefines ==
    ASSUME IInv, mgr.active, NEW status \in {"completed", "stopped"},
           CloseMinute(Store, status),
           NEW p \in {"owed", "concluded"}, phase' = [phase EXCEPT ![mgr.trigger] = p],
           outputs' = outputs
    PROVE  Contract!End
<1>1. /\ mgr'.trigger = None
      /\ \/ events' = events
         \/ /\ events[mgr.trigger] # None /\ events'[mgr.trigger] # None
            /\ events'[mgr.trigger].status # "active"
            /\ events'[mgr.trigger].count = mgr.count
            /\ \A x \in Messages \ {mgr.trigger} : events'[x] = events[x]
  BY CloseFacts
<1>2. /\ mgr.trigger \in Messages /\ mgr.trigger # None
      /\ phase[mgr.trigger] = "running" /\ mgr.count = 1 + outputs[mgr.trigger]
      /\ phase \in [Messages -> Phases]
  BY DEF IInv, TypeOK, ManagerInv, OneMinuteAtATime, CountsTellOutputs, Manager
<1>3. Begun' = Begun /\ Told' \in {Told, Told \cup {mgr.trigger}}
  BY <1>2 DEF Begun, Told
<1>4. Reported' \in {Reported,
                     [Reported EXCEPT ![mgr.trigger] = 1 + outputs[mgr.trigger]]}
  BY <1>1, <1>2 DEF Reported
<1> QED
  BY <1>1, <1>2, <1>3, <1>4 DEF Contract!End, Begun, Told, Reported

\* Queueing changes nothing the contract sees: the minute that is lost from the
\* slot is begun and untold as before.
LEMMA QueueRefines ==
    ASSUME IInv, NEW m \in Messages, QueueConclusion(m)
    PROVE  UNCHANGED Contract!vars
<1>1. /\ mgr' = Queued(mgr, stopped[m]) /\ UNCHANGED <<events, outputs>>
      /\ phase' = IF mgr.pending = None THEN phase
                  ELSE [phase EXCEPT ![mgr.pending] = "lost"]
  BY DEF QueueConclusion
<1>2. /\ mgr.pending # None => phase[mgr.pending] = "owed"
      /\ phase \in [Messages -> Phases] /\ mgr \in Manager
  BY MessageFacts DEF IInv, TypeOK, OwedConclusionsAreHeld, Manager
<1>3. mgr'.trigger = mgr.trigger
  BY <1>1, <1>2 DEF Queued, Manager
<1>4. Begun' = Begun /\ Told' = Told
  BY <1>1, <1>2 DEF Begun, Told
<1> QED
  BY <1>1, <1>3, <1>4 DEF Contract!vars, Begun, Told

\* Delivering from the slot tells a minute that is over and was not told.
LEMMA DeliverRefines ==
    ASSUME IInv, DeliverConclusion
    PROVE  \E m \in Messages : Contract!Tell(m)
<1>1. /\ mgr.pending # None /\ UNCHANGED <<events, outputs>>
      /\ phase' = [phase EXCEPT ![mgr.pending] = "concluded"]
  BY DEF DeliverConclusion
<1>2. /\ mgr.pending \in Messages /\ phase[mgr.pending] = "owed"
      /\ phase \in [Messages -> Phases]
  BY <1>1 DEF IInv, TypeOK, OwedConclusionsAreHeld, Manager
<1>3. mgr.pending # mgr.trigger
  BY <1>2, MessageFacts DEF IInv, ManagerInv, OneMinuteAtATime
<1>4. mgr'.trigger = mgr.trigger
  <2>1. PICK s \in EnsureInitialized(Store) : mgr' = [s.mgr EXCEPT !.pending = None]
    <3>1. PICK s \in EnsureInitialized(Store) : Commit([s EXCEPT !.mgr.pending = None])
      BY DEF DeliverConclusion
    <3>2. s \in Stores
      BY EnsureKeepsMinute, StoreIsTyped DEF IInv, TypeOK
    <3> QED
      BY <3>1, <3>2 DEF Commit, Stores
  <2>2. Store \in Stores /\ now \in Nat /\ Store.mgr = mgr
    BY StoreIsTyped DEF IInv, TypeOK, Store
  <2>3. s \in Stores /\ SameMinute(mgr, s.mgr)
    BY <2>2, EnsureKeepsMinute
  <2> QED
    BY <2>1, <2>3 DEF SameMinute, Stores, Manager
<1>5. /\ Begun' = Begun /\ Told' = Told \cup {mgr.pending}
      /\ mgr.pending \in Begun \ Told
  BY <1>1, <1>2 DEF Begun, Told
<1>6. PICK m \in Messages : m = mgr.pending
  BY <1>2
<1>7. Contract!Tell(m)
  BY <1>1, <1>3, <1>4, <1>5, <1>6 DEF Contract!Tell, Begun, Told
<1> QED
  BY <1>7

\* recordOutput() posts for the running minute.
LEMMA PostRefines ==
    ASSUME IInv, PostOutput
    PROVE  Contract!Post
<1>1. /\ sched.step = "generating" /\ mgr.active /\ mgr.version = sched.version
      /\ mgr' = [mgr EXCEPT !.count = @ + 1]
      /\ outputs' = [outputs EXCEPT ![sched.minute] = @ + 1]
      /\ UNCHANGED <<events, phase>>
  BY DEF PostOutput, AcceptsOutput
<1>2. sched.minute = mgr.trigger /\ mgr.trigger # None /\ mgr \in Manager
  BY <1>1 DEF IInv, SnapshotInv, ManagerInv, TypeOK
<1>3. mgr'.trigger = mgr.trigger
  BY <1>1, <1>2 DEF Manager
<1> QED
  BY <1>1, <1>2, <1>3 DEF Contract!Post

\* A crash ends the running minute, untold and unreported, and is nothing to the
\* contract when none runs.
LEMMA CrashRefines ==
    ASSUME IInv, Crash
    PROVE  Contract!End \/ UNCHANGED Contract!vars
<1>1. /\ mgr'.trigger = None /\ UNCHANGED <<events, outputs>>
      /\ phase' = [m \in Messages |->
                     IF phase[m] \in {"running", "owed"} THEN "lost" ELSE phase[m]]
  BY DEF Crash, NewManager
<1>2. Begun' = Begun /\ Told' = Told
  BY <1>1 DEF Begun, Told
<1> QED
  BY <1>1, <1>2 DEF Contract!End, Contract!vars, Begun, Told

\* Every other step leaves what the contract sees alone.
LEMMA QuietRefines ==
    ASSUME IInv,
           \/ \E m \in Messages : Receive(m) \/ QuietHandling(m)
           \/ SnapshotMinute \/ QuietBackground
    PROVE  UNCHANGED Contract!vars
<1>1. UNCHANGED <<events, phase, outputs>>
  BY DEF Receive, QuietHandling, IfIdle, Match, Rotate, SetTriggerWord, StartRefused,
         StartOnChannelCooldown, StartOnWordCooldown, StopIdle, SnapshotMinute,
         QuietBackground, NothingToSay, DropOutput, GenerateNothing, Startup, Tick,
         botVars, history
<1>2. SameMinute(mgr, mgr')
  <2>1. CASE UNCHANGED <<mgr, row>>
    BY <2>1, NoChangeIsQuiet
  <2>2. CASE \E s \in EnsureInitialized(Store) : Commit(s)
    BY <2>2, CommitEnsured
  <2>3. CASE \E s \in EnsureInitialized(Store) :
               \E t \in SelectNewTriggerWord(s) : Commit(t)
    BY <2>3, CommitSelected
  <2>4. CASE \E m \in Messages : SetTriggerWord(m)
    BY <2>4, SetWordIsQuiet
  <2> QED
    BY <2>1, <2>2, <2>3, <2>4
       DEF Receive, QuietHandling, IfIdle, Match, Rotate, StartRefused,
           StartOnChannelCooldown, StartOnWordCooldown, StopIdle, SnapshotMinute,
           QuietBackground, NothingToSay, DropOutput, GenerateNothing, Startup, Tick,
           botVars
<1> QED
  BY <1>1, <1>2, ContractSees DEF SameMinute

\* From a state of the invariant, every step is one of the contract or none.
LEMMA NextRefines == IInv /\ [Next]_vars => [Contract!Next]_(Contract!vars)
<1> SUFFICES ASSUME IInv, [Next]_vars
             PROVE  Contract!Next \/ UNCHANGED Contract!vars
  OBVIOUS
<1> DEFINE Refines == Contract!Next \/ UNCHANGED Contract!vars
<1>1. ASSUME NEW m \in Messages, Receive(m) \/ QuietHandling(m) PROVE Refines
  BY <1>1, QuietRefines
<1>2. ASSUME NEW m \in Messages, StartMinute(m) PROVE Refines
  BY <1>2, StartRefines DEF Contract!Next
<1>3. ASSUME NEW m \in Messages, StopMinute(m) PROVE Refines
  BY <1>3, CloseRefines DEF StopMinute, Contract!Next
<1>4. ASSUME NEW m \in Messages, QueueConclusion(m) PROVE Refines
  BY <1>4, QueueRefines
<1>5. ASSUME Schedule PROVE Refines
  <2>1. CASE DeliverConclusion
    BY <2>1, DeliverRefines DEF Contract!Next
  <2>2. CASE FinishMinute
    BY <2>2, CloseRefines DEF FinishMinute, envVars, Contract!Next
  <2>3. CASE PostOutput
    BY <2>3, PostRefines DEF Contract!Next
  <2>4. CASE SnapshotMinute \/ QuietBackground
    BY <2>4, QuietRefines
  <2> QED
    BY <1>5, <2>1, <2>2, <2>3, <2>4 DEF Schedule, QuietBackground
<1>6. ASSUME Startup \/ Tick PROVE Refines
  BY <1>6, QuietRefines DEF QuietBackground
<1>7. ASSUME Crash PROVE Refines
  BY <1>7, CrashRefines DEF Contract!Next
<1>8. ASSUME UNCHANGED vars PROVE Refines
  BY <1>8, ContractSees DEF vars
<1> QED
  BY <1>1, <1>2, <1>3, <1>4, <1>5, <1>6, <1>7, <1>8 DEF Next, Handle, QuietHandling

\* Whatever fails, crashes or comes late, the life of every minute is one that
\* the contract allows.
THEOREM Refinement == Spec => ImplementsContract
  BY InitRefines, NextRefines, Invariance, PTL
     DEF Spec, ImplementsContract, Contract!Spec

-----------------------------------------------------------------------------
(* The command line beside the bot *)

\* Of a process that is down nothing is left.
DownInv ==
    ~up => /\ mgr = NewManager
           /\ sched.step = "idle"
           /\ \A m \in Messages : pc[m] \in {"new", "done"}

\* A word ordered while the bot was down is in the row for as long as it is
\* down, whatever else the command read from the row.
OrderedInv ==
    /\ cli \in RuntimeRow \cup {None}
    /\ ordered \in Words \cup {None} /\ wroteLive \in BOOLEAN
    /\ ordered # None /\ ~wroteLive => ~up /\ row # None /\ row.word = ordered

WordInv == IInv /\ DownInv /\ OrderedInv

\* While the process is down it can only start, and nothing writes the row.
LEMMA DownMoves ==
    ASSUME IInv, DownInv, Next
    PROVE  DownInv' /\ (~up => Startup \/ (~up' /\ row' = row))
<1>1. CASE \E m \in Messages : Receive(m)
  <2>1. PICK m \in Messages : Receive(m)
    BY <1>1
  <2>2. up /\ up' = up
    BY <2>1 DEF Receive, envVars
  <2> QED
    BY <2>2 DEF DownInv
<1>2. CASE \E m \in Messages : Handle(m)
  <2>1. PICK m \in Messages : Handle(m)
    BY <1>2
  <2>2. pc[m] \notin {"new", "done"} /\ up' = up
    BY <2>1 DEF Handle, IfIdle, Match, Rotate, SetTriggerWord, StartRefused,
                StartOnChannelCooldown, StartOnWordCooldown, StartMinute, StopIdle,
                StopMinute, QueueConclusion, envVars
  <2> QED
    BY <2>2 DEF DownInv
<1>3. CASE Schedule
  <2>1. up \/ sched.step = "generating"
    BY <1>3 DEF Schedule, DeliverConclusion, NothingToSay, FinishMinute, SnapshotMinute,
                PostOutput, DropOutput, GenerateNothing, SchedulerDue
  <2>2. up' = up
    BY <1>3 DEF Schedule, DeliverConclusion, NothingToSay, FinishMinute, SnapshotMinute,
                PostOutput, DropOutput, GenerateNothing, envVars
  <2> QED
    BY <2>1, <2>2 DEF DownInv
<1>4. CASE Startup
  BY <1>4 DEF Startup, DownInv
<1>5. CASE Crash
  <2>1. pc \in [Messages -> Steps]
    BY DEF IInv, TypeOK
  <2> QED
    BY <1>5, <2>1 DEF Crash, DownInv, IdleScheduler
<1>6. CASE Tick
  BY <1>6 DEF Tick, botVars, taskVars, DownInv
<1> QED
  BY <1>1, <1>2, <1>3, <1>4, <1>5, <1>6 DEF Next

\* A process that starts with a word in the row starts with that word.
LEMMA StartupLoadsWord ==
    ASSUME ~DbMayFail, IInv, DownInv, Startup, row # None, row.word # None
    PROVE  mgr'.word = row.word
<1>1. PICK s \in EnsureInitialized(Store) : mgr' = s.mgr
  BY DEF Startup, Commit
<1>2. /\ Store \in Stores /\ Store.mgr = mgr /\ Store.row = row
      /\ mgr.word = None /\ ~mgr.restoreAttempted /\ mgr = NewManager
  BY StoreIsTyped DEF Startup, DownInv, Store, NewManager
<1> DEFINE tried == [mgr EXCEPT !.restoreAttempted = TRUE]
           r == Restored(tried, row)
<1>3. RestoreRuntimeState(Store) = PersistRuntimeState(Store, r)
  BY <1>2 DEF RestoreRuntimeState
<1>4. r.word = row.word
  BY <1>2 DEF Restored, NewManager
<1>5. PICK t \in RestoreRuntimeState(Store) :
        s \in IF t.mgr.word # None THEN {t} ELSE SelectNewTriggerWord(t)
  BY <1>1, <1>2 DEF EnsureInitialized
<1> HIDE DEF r, tried
<1>6. t.mgr = r
  <2>1. PICK q \in Written(Store.row, RowOf(r)) : t = [mgr |-> r, row |-> q]
    BY <1>3, <1>5 DEF PersistRuntimeState
  <2> QED
    BY <2>1
<1> QED
  BY <1>1, <1>4, <1>5, <1>6

LEMMA CliKeepsTheRest ==
    ASSUME IInv, DownInv, row' \in RuntimeRow \cup {None},
           UNCHANGED <<mgr, events, taskVars, sched, envVars, history>>
    PROVE  IInv' /\ DownInv'
  BY DEF taskVars, envVars, history, IInv, TypeOK, HandlersInv, ManagerInv, MinutesInv,
         SnapshotInv, HoldersInv, OneMinuteAtATime, CountsTellOutputs,
         OwedConclusionsAreHeld, DownInv

\* What the command writes is a row with the word it chose.
LEMMA WrittenRow ==
    ASSUME NEW state \in RuntimeRow, NEW w \in Words
    PROVE  CliRow(state, w) \in RuntimeRow /\ CliRow(state, w).word = w
  BY DEF CliRow, RuntimeRow

LEMMA CliStep ==
    ASSUME WordInv, CliRead \/ CliWrite \/ CliFatal
    PROVE  WordInv'
<1>1. IInv /\ DownInv /\ OrderedInv /\ row \in RuntimeRow \cup {None} /\ up \in BOOLEAN
  BY DEF WordInv, IInv, TypeOK
<1>2. CASE CliRead \/ CliFatal
  <2>1. UNCHANGED vars /\ UNCHANGED <<ordered, wroteLive>>
    BY <1>2 DEF CliRead, CliFatal
  <2>2. row' \in RuntimeRow \cup {None} /\ up' = up /\ row' = row
        /\ UNCHANGED <<mgr, events, taskVars, sched, envVars, history>>
    BY <1>1, <2>1 DEF vars, taskVars, envVars, history
  <2>3. EmptyRow \in RuntimeRow
    BY DEF EmptyRow, RuntimeRow
  <2>4. cli' \in RuntimeRow \cup {None}
    BY <1>1, <1>2, <2>3 DEF CliRead, CliFatal
  <2> QED
    BY <1>1, <2>1, <2>2, <2>4, CliKeepsTheRest DEF WordInv, OrderedInv
<1>3. CASE CliWrite
  <2>1. PICK w \in Words : row' = CliRow(cli, w) /\ ordered' = w
    BY <1>3 DEF CliWrite
  <2>2. cli \in RuntimeRow /\ cli' = None /\ wroteLive' = up
        /\ UNCHANGED <<mgr, events, taskVars, sched, envVars, history>>
    BY <1>1, <1>3 DEF CliWrite, OrderedInv
  <2>3. row' \in RuntimeRow /\ row'.word = w /\ row' # None
    BY <2>1, <2>2, WrittenRow, NoneIsNoRow
  <2>4. up' = up
    BY <2>2 DEF envVars
  <2> QED
    BY <1>1, <2>1, <2>2, <2>3, <2>4, CliKeepsTheRest DEF WordInv, OrderedInv
<1> QED
  BY <1>2, <1>3

LEMMA BotStep ==
    ASSUME WordInv, Bot
    PROVE  WordInv'
<1>1. IInv /\ DownInv /\ OrderedInv /\ up \in BOOLEAN
  BY DEF WordInv, IInv, TypeOK
<1>2. Next /\ ordered' = (IF ~up /\ up' THEN None ELSE ordered)
      /\ UNCHANGED <<cli, commands, wroteLive>>
  BY DEF Bot, AsBot
<1>3. IInv'
  BY <1>1, <1>2, NextInv
<1>4. DownInv' /\ (~up => Startup \/ (~up' /\ row' = row))
  BY <1>1, <1>2, DownMoves
<1>5. Startup => up'
  BY DEF Startup
<1>6. OrderedInv'
  BY <1>1, <1>2, <1>4, <1>5 DEF OrderedInv
<1> QED
  BY <1>3, <1>4, <1>6 DEF WordInv

\* Whatever row the command writes, and whenever, everything proved of the minutes
\* from IInv stays true of a bot whose row it changes (dcli/manic_word.go).
THEOREM WordInvariance == WordSpec => []WordInv
<1>1. WordInit => WordInv
  <2> SUFFICES ASSUME WordInit PROVE WordInv
    OBVIOUS
  <2>1. IInv
    BY InitInv DEF WordInit
  <2>2. DownInv
    BY DEF WordInit, Init, DownInv, IdleScheduler
  <2>3. OrderedInv
    BY DEF WordInit, CliInit, OrderedInv
  <2> QED
    BY <2>1, <2>2, <2>3 DEF WordInv
<1>2. WordInv /\ [WordNext]_wordVars => WordInv'
  <2> SUFFICES ASSUME WordInv, [WordNext]_wordVars PROVE WordInv'
    OBVIOUS
  <2>1. CASE UNCHANGED wordVars
    <3>1. row \in RuntimeRow \cup {None}
      BY DEF WordInv, IInv, TypeOK
    <3>2. UNCHANGED <<mgr, events, taskVars, sched, envVars, history>> /\ row' = row
          /\ UNCHANGED <<cli, ordered, wroteLive, up>>
      BY <2>1 DEF wordVars, cliVars, vars, taskVars, envVars, history
    <3> QED
      BY <3>1, <3>2, CliKeepsTheRest DEF WordInv, OrderedInv
  <2> QED
    BY <2>1, BotStep, CliStep DEF WordNext
<1> QED
  BY <1>1, <1>2, PTL DEF WordSpec

\* While the database answers, a bot that starts after a word was ordered while it
\* was down starts with that word, whatever row the crash left and the command
\* read before (currentManicMinuteRuntimeState, restoreRuntimeStateLocked).
THEOREM OrderedWordIsLoaded == ~DbMayFail /\ WordSpec => DownBotLoadsOrderedWord
<1> SUFFICES ASSUME ~DbMayFail PROVE WordSpec => DownBotLoadsOrderedWord
  OBVIOUS
<1>1. WordInv /\ [WordNext]_wordVars =>
        [~up /\ up' /\ ordered # None /\ ~wroteLive => mgr'.word = ordered]_wordVars
  <2> SUFFICES ASSUME WordInv, [WordNext]_wordVars,
                      ~up, up', ordered # None, ~wroteLive
               PROVE  mgr'.word = ordered
    OBVIOUS
  <2>1. IInv /\ DownInv /\ up \in BOOLEAN /\ row # None /\ row.word = ordered
    BY DEF WordInv, OrderedInv, IInv, TypeOK
  <2>2. ~(UNCHANGED up)
    BY <2>1
  <2>3. Bot
    BY <2>2 DEF WordNext, CliRead, CliWrite, CliFatal, wordVars, cliVars, vars, envVars
  <2>4. Startup
    BY <2>1, <2>3, DownMoves DEF Bot, AsBot
  <2> QED
    BY <2>1, <2>4, StartupLoadsWord
<1> QED
  BY <1>1, WordInvariance, PTL DEF WordSpec, DownBotLoadsOrderedWord
=============================================================================
