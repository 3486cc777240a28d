----------------------------- MODULE ManicMinute -----------------------------
(***************************************************************************)
(* The "manic minute": a user says the current trigger word, and for one   *)
(* minute the bot posts generated text in that channel, every scheduler    *)
(* tick, until the minute runs out or an admin stops it.                   *)
(*                                                                         *)
(* One manager (manicMinuteManager, src/internal/triggers/manic_minute.go) *)
(* is shared by the goroutines that handle incoming messages - discordgo   *)
(* starts one per message - and by the scheduler goroutine.  Each method   *)
(* of the manager holds its mutex from entry to return, so a method is one *)
(* action here; a handler calls several methods, and whatever it read in   *)
(* an earlier one may be stale in a later one.  The manager writes two     *)
(* tables: manic_minute_events, one row per minute, and                    *)
(* manic_minute_runtime_state, one row per protocol.  Every write and read *)
(* may fail (the code logs and carries on) when DbMayFail; a crash in the  *)
(* middle of a method is then the same as its remaining writes failing and *)
(* the process crashing just after it.                                     *)
(*                                                                         *)
(* A minute is identified by the message that started it, which is what    *)
(* the event row's trigger_message_id holds.  The clock counts scheduler   *)
(* ticks (manicMinuteTick, 5 seconds).                                     *)
(***************************************************************************)
EXTENDS Naturals, FiniteSets

CONSTANTS
    Messages,          \* the messages that may arrive, one goroutine for each
    Channels,          \* channels and direct-message conversations
    Servers,           \* guilds
    ServerOf,          \* the guild of a channel, None for a direct message
    LearningChannels,  \* channels whose messages may trigger a minute
    Words,             \* words a sanitizer lets through
    AutoWords,         \* those the stricter automatic sanitizer lets through
    Inputs,            \* what a message may be
    None,              \* no value: an empty string, a nil pointer, no row
    MinuteLen,         \* manicMinuteDuration, in ticks
    CooldownLen,       \* manicMinuteCooldownMinutes, in ticks
    DbMayFail,         \* whether statements may fail
    Horizon,           \* bound: the last instant of the clock
    LastArrival,       \* bound: no message arrives after this instant
    MaxCrashes         \* bound: how often the process may crash

Kinds == {"chat", "stop", "rotate", "adminStop", "test", "status"}

Input == [kind : Kinds, channel : Channels, says : SUBSET Words, admin : BOOLEAN]

ASSUME ConstantsAssumption ==
    /\ ServerOf \in [Channels -> Servers \cup {None}]
    /\ LearningChannels \subseteq Channels
    /\ AutoWords \subseteq Words
    /\ Inputs \subseteq Input
    /\ \A in \in Inputs : in.kind = "test" => Cardinality(in.says) <= 1
    /\ None \notin Messages \cup Channels \cup Servers \cup Words
    /\ MinuteLen \in Nat \ {0} /\ CooldownLen \in Nat \ {0}
    /\ MinuteLen <= CooldownLen
    /\ DbMayFail \in BOOLEAN
    /\ Horizon \in Nat /\ LastArrival \in Nat /\ MaxCrashes \in Nat
    /\ LastArrival + MinuteLen < Horizon

VARIABLES
    mgr,      \* the manager: the fields of manicMinuteManager
    row,      \* the row of manic_minute_runtime_state, None before the first
    events,   \* the rows of manic_minute_events, by trigger_message_id
    msg,      \* each message, once it has arrived
    pc,       \* where its handler stands
    stopped,  \* the minute that handler's stop() ended, if it must be told
    sched,    \* the scheduler goroutine, between snapshot and output
    up,       \* whether the process runs
    now,      \* the clock
    crashes,  \* how often the process has crashed
    phase,    \* history: the life of each minute
    outputs   \* history: the generated texts posted for each minute

botVars  == <<mgr, row, events>>
taskVars == <<msg, pc, stopped>>
envVars  == <<up, now, crashes>>
history  == <<phase, outputs>>
vars     == <<mgr, row, events, msg, pc, stopped, sched, up, now, crashes,
              phase, outputs>>

-----------------------------------------------------------------------------
(* Types *)

Manager ==
    [word : Words \cup {None}, active : BOOLEAN, channel : Channels \cup {None},
     trigger : Messages \cup {None}, event : Messages \cup {None},
     endsAt : Nat, cooldownUntil : Nat, count : Nat, version : Nat,
     pending : Messages \cup {None}, restoreAttempted : BOOLEAN]

RuntimeRow ==
    [word : Words \cup {None}, active : BOOLEAN, channel : Channels \cup {None},
     cooldownUntil : Nat]

EventRow ==
    [channel : Channels, word : Words, status : {"active", "completed", "stopped"},
     startedAt : Nat, cooldownUntil : Nat, count : Nat]

ASSUME NoneIsNoRow == None \notin RuntimeRow \cup EventRow

Steps  == {"new", "ifIdle", "match", "setWord", "rotate", "start", "stop",
           "queue", "done"}
Phases == {"none", "running", "owed", "concluded", "lost"}

Scheduler ==
    [step : {"idle", "generating"}, channel : Channels \cup {None}, version : Nat,
     minute : Messages \cup {None}, lastRan : Nat]

TypeOK ==
    /\ mgr \in Manager
    /\ row \in RuntimeRow \cup {None}
    /\ events \in [Messages -> EventRow \cup {None}]
    /\ msg \in [Messages -> Inputs \cup {None}]
    /\ pc \in [Messages -> Steps]
    /\ stopped \in [Messages -> Messages \cup {None}]
    /\ sched \in Scheduler
    /\ up \in BOOLEAN /\ now \in Nat /\ crashes \in Nat
    /\ phase \in [Messages -> Phases]
    /\ outputs \in [Messages -> Nat]

NewManager ==
    [word |-> None, active |-> FALSE, channel |-> None, trigger |-> None,
     event |-> None, endsAt |-> 0, cooldownUntil |-> 0, count |-> 0,
     version |-> 0, pending |-> None, restoreAttempted |-> FALSE]

IdleScheduler(ranAt) ==
    [step |-> "idle", channel |-> None, version |-> 0, minute |-> None,
     lastRan |-> ranAt]

Init ==
    /\ mgr = NewManager
    /\ row = None
    /\ events = [m \in Messages |-> None]
    /\ msg = [m \in Messages |-> None]
    /\ pc = [m \in Messages |-> "new"]
    /\ stopped = [m \in Messages |-> None]
    /\ sched = IdleScheduler(0)
    /\ up = FALSE
    /\ now = 1
    /\ crashes = 0
    /\ phase = [m \in Messages |-> "none"]
    /\ outputs = [m \in Messages |-> 0]

-----------------------------------------------------------------------------
(* The parts of the manager's methods, as functions of what a method sees: *)
(* a store s holds the manager and the runtime row; a method that draws a  *)
(* word at random or whose write may fail yields a set of stores.          *)

Store == [mgr |-> mgr, row |-> row]

RowOf(mm) ==
    [word |-> mm.word, active |-> mm.active, channel |-> mm.channel,
     cooldownUntil |-> mm.cooldownUntil]

\* What a statement that should replace old by new may leave in the database,
\* and what a query whose answer is found may tell the code.
Written(old, new) == IF DbMayFail THEN {old, new} ELSE {new}
Answered(found)   == IF DbMayFail THEN {found, FALSE} ELSE {found}

PersistRuntimeState(s, mm) ==
    {[mgr |-> mm, row |-> r] : r \in Written(s.row, RowOf(mm))}

\* Any automatic word may be drawn; the previous one stays when no other is.
SelectNewTriggerWord(s) ==
    UNION {PersistRuntimeState(s, [s.mgr EXCEPT !.word = w, !.version = @ + 1]) :
             w \in AutoWords \cup {s.mgr.word}}

\* Mutants: restoring the word alone, or only during a cooldown.
RestoredWordOnly(mm, r) == [mm EXCEPT !.word = r.word, !.version = @ + 1]
RestoredWhileCooling(mm, r) ==
    IF r.cooldownUntil <= now THEN mm
    ELSE [mm EXCEPT !.word = r.word, !.cooldownUntil = r.cooldownUntil,
                    !.version = @ + 1]

Restored(mm, r) ==
    [mm EXCEPT !.word = r.word,
               !.cooldownUntil = IF r.cooldownUntil > now THEN r.cooldownUntil ELSE @,
               !.version = @ + 1]

\* Mutant: the restored state is not written back ("startup-restore").
RestoreWithoutPersisting(s) ==
    LET tried == [s.mgr EXCEPT !.restoreAttempted = TRUE]
    IN  IF s.mgr.restoreAttempted THEN {s}
        ELSE {[s EXCEPT !.mgr = IF s.row # None /\ s.row.word # None
                                THEN Restored(tried, s.row) ELSE tried]}

RestoreRuntimeState(s) ==
    LET tried   == [s.mgr EXCEPT !.restoreAttempted = TRUE]
        hasWord == s.row # None /\ s.row.word # None
    IN  IF s.mgr.restoreAttempted
        THEN {s}
        ELSE (IF DbMayFail \/ ~hasWord THEN {[s EXCEPT !.mgr = tried]} ELSE {})
               \cup
             (IF hasWord THEN PersistRuntimeState(s, Restored(tried, s.row)) ELSE {})

EnsureInitialized(s) ==
    IF s.mgr.word # None
    THEN {s}
    ELSE UNION {IF t.mgr.word # None THEN {t} ELSE SelectNewTriggerWord(t) :
                  t \in RestoreRuntimeState(s)}

\* start(): what it refuses, the cooldowns it asks the event table about, and
\* the minute it opens.
\* Mutants: start() trusts the handlers' checks.
CanStartWhileActive(mm) == mm.word # None
CanStartWithoutWord(mm) == ~mm.active

CanStart(mm) == ~mm.active /\ mm.word # None

\* Mutant: a minute puts its channel on cooldown only once it is over.
ChannelOnCooldownOnceOver(c) ==
    \E e \in Messages : /\ events[e] # None
                        /\ events[e].channel = c
                        /\ events[e].status # "active"
                        /\ events[e].cooldownUntil > now

ChannelOnCooldown(c) ==
    \E e \in Messages : /\ events[e] # None
                        /\ events[e].channel = c
                        /\ events[e].cooldownUntil > now

WordOnCooldown(c, w) ==
    \E e \in Messages : /\ events[e] # None
                        /\ ServerOf[events[e].channel] = ServerOf[c]
                        /\ events[e].word = w
                        /\ events[e].cooldownUntil > now

NewEvent(c, w) ==
    [channel |-> c, word |-> w, status |-> "active", startedAt |-> now,
     cooldownUntil |-> now + CooldownLen, count |-> 0]

Opened(mm, m, event) ==
    [mm EXCEPT !.active = TRUE, !.channel = msg[m].channel, !.trigger = m,
               !.event = event, !.endsAt = now + MinuteLen,
               !.cooldownUntil = now + CooldownLen, !.count = 1,
               !.version = @ + 1]

\* stop() and the scheduler's natural end: the fields they clear, and the
\* event row they complete.
Closed(mm) ==
    [mm EXCEPT !.active = FALSE, !.channel = None, !.trigger = None,
               !.event = None, !.endsAt = 0, !.count = 0]

CompleteEvent(mm, status) ==
    IF mm.event = None
    THEN {events}
    ELSE Written(events, [events EXCEPT ![mm.event].status = status,
                                        ![mm.event].count = mm.count])

CloseMinute(s, status) ==
    /\ events' \in CompleteEvent(s.mgr, status)
    /\ \E t \in SelectNewTriggerWord([s EXCEPT !.mgr = Closed(s.mgr)]) :
          mgr' = t.mgr /\ row' = t.row

Commit(s) == mgr' = s.mgr /\ row' = s.row

\* recordOutput(): the text counts only if the minute it was generated for is
\* still the one running, which the manager's version tells.
\* Mutants: any minute in the same channel will do; nothing is looked at again.
AcceptsOutputForChannel(mm, snapshot) ==
    mm.active /\ mm.channel = snapshot.channel
AcceptsAnyOutput(mm, snapshot) == TRUE

AcceptsOutput(mm, snapshot) ==
    /\ mm.active
    /\ mm.version = snapshot.version
    /\ mm.channel = snapshot.channel

-----------------------------------------------------------------------------
(* The handlers: manicMinuteHandler and manicMinuteAdminHandler *)

Goto(m, step) == pc' = [pc EXCEPT ![m] = step]

\* The step after a message's early returns: a chat message must be in a
\* channel the bot learns from, everything else needs an admin.
FirstStep(in) ==
    IF in.kind = "chat"
    THEN IF in.channel \in LearningChannels THEN "ifIdle" ELSE "done"
    ELSE IF ~in.admin \/ in.kind = "status" THEN "done"
    ELSE IF in.kind \in {"stop", "adminStop"} THEN "stop" ELSE "ifIdle"

\* A message arrives.  manicMinuteHandler calls InitializeManicMinute before
\* it looks at the text; an admin's "!manic" command is consumed before it, and
\* of those only "status" initializes, and changes nothing else.
Initializes(in) == in.kind \in {"chat", "stop", "status"} \/ ~in.admin

Receive(m) ==
    /\ up /\ pc[m] = "new" /\ now <= LastArrival
    /\ \E in \in Inputs :
          /\ msg' = [msg EXCEPT ![m] = in]
          /\ Goto(m, FirstStep(in))
          /\ IF Initializes(in)
             THEN \E s \in EnsureInitialized(Store) : Commit(s)
             ELSE UNCHANGED <<mgr, row>>
    /\ UNCHANGED <<events, stopped, sched, envVars, history>>

\* isActive(): a chat message, "rotate" and "test" go on only between minutes.
IfIdle(m) ==
    /\ pc[m] = "ifIdle"
    /\ Goto(m, IF mgr.active THEN "done"
               ELSE CASE msg[m].kind = "chat"   -> "match"
                      [] msg[m].kind = "rotate" -> "rotate"
                      [] OTHER -> IF msg[m].says = {} THEN "start" ELSE "setWord")
    /\ UNCHANGED <<botVars, msg, stopped, sched, envVars, history>>

\* currentTriggerWord() and messageContainsTriggerWord().
Match(m) ==
    /\ pc[m] = "match"
    /\ \E s \in EnsureInitialized(Store) :
          /\ Commit(s)
          /\ Goto(m, IF s.mgr.word \in msg[m].says THEN "start" ELSE "done")
    /\ UNCHANGED <<events, msg, stopped, sched, envVars, history>>

\* rotate(): it does not ask again whether a minute is running.
Rotate(m) ==
    /\ pc[m] = "rotate"
    /\ \E s \in EnsureInitialized(Store) :
          \E t \in SelectNewTriggerWord(s) : Commit(t)
    /\ Goto(m, "done")
    /\ UNCHANGED <<events, msg, stopped, sched, envVars, history>>

\* setTriggerWord(), which neither initializes nor asks for a running minute.
SetTriggerWord(m) ==
    /\ pc[m] = "setWord"
    /\ \E w \in msg[m].says :
          \E s \in PersistRuntimeState(Store,
                      [mgr EXCEPT !.word = w, !.version = @ + 1]) : Commit(s)
    /\ Goto(m, "start")
    /\ UNCHANGED <<events, msg, stopped, sched, envVars, history>>

\* start(), by its four outcomes.  "test" bypasses the cooldowns.
StartRefused(m) ==
    /\ pc[m] = "start"
    /\ IF ServerOf[msg[m].channel] = None
       THEN UNCHANGED <<mgr, row>>
       ELSE \E s \in EnsureInitialized(Store) : ~CanStart(s.mgr) /\ Commit(s)
    /\ Goto(m, "done")
    /\ UNCHANGED <<events, msg, stopped, sched, envVars, history>>

StartOnChannelCooldown(m) ==
    /\ pc[m] = "start" /\ msg[m].kind # "test" /\ ServerOf[msg[m].channel] # None
    /\ TRUE \in Answered(ChannelOnCooldown(msg[m].channel))
    /\ \E s \in EnsureInitialized(Store) : CanStart(s.mgr) /\ Commit(s)
    /\ Goto(m, "done")
    /\ UNCHANGED <<events, msg, stopped, sched, envVars, history>>

StartOnWordCooldown(m) ==
    LET c == msg[m].channel IN
    /\ pc[m] = "start" /\ msg[m].kind # "test" /\ ServerOf[c] # None
    /\ FALSE \in Answered(ChannelOnCooldown(c))
    /\ \E s \in EnsureInitialized(Store) :
          /\ CanStart(s.mgr)
          /\ TRUE \in Answered(WordOnCooldown(c, s.mgr.word))
          /\ \E t \in SelectNewTriggerWord(s) : Commit(t)
    /\ Goto(m, "done")
    /\ UNCHANGED <<events, msg, stopped, sched, envVars, history>>

StartMinute(m) ==
    LET c == msg[m].channel IN
    /\ pc[m] = "start" /\ ServerOf[c] # None
    /\ \E s \in EnsureInitialized(Store) :
          /\ CanStart(s.mgr)
          /\ \/ msg[m].kind = "test"
             \/ /\ FALSE \in Answered(ChannelOnCooldown(c))
                /\ FALSE \in Answered(WordOnCooldown(c, s.mgr.word))
          /\ \E inserted \in Written(FALSE, TRUE) :
                /\ events' = IF inserted
                             THEN [events EXCEPT ![m] = NewEvent(c, s.mgr.word)]
                             ELSE events
                /\ \E t \in PersistRuntimeState(s,
                              Opened(s.mgr, m, IF inserted THEN m ELSE None)) :
                      Commit(t)
    /\ Goto(m, "done")
    /\ phase' = [phase EXCEPT ![m] = "running"]
    /\ UNCHANGED <<msg, stopped, sched, envVars, outputs>>

\* stop(), then the reply: the conclusion lines (or the admin's confirmation)
\* in the minute's own channel, otherwise the conclusion must be queued.  A
\* running minute has a word (ManagerInv): there is nothing to initialize.
StopIdle(m) ==
    /\ pc[m] = "stop"
    /\ \E s \in EnsureInitialized(Store) : ~s.mgr.active /\ Commit(s)
    /\ Goto(m, "done")
    /\ UNCHANGED <<events, msg, stopped, sched, envVars, history>>

StopMinute(m) ==
    LET elsewhere == mgr.channel # msg[m].channel IN
    /\ pc[m] = "stop" /\ mgr.active
    /\ CloseMinute(Store, "stopped")
    /\ Goto(m, IF elsewhere THEN "queue" ELSE "done")
    /\ stopped' = [stopped EXCEPT ![m] = IF elsewhere THEN mgr.trigger ELSE None]
    /\ phase' = [phase EXCEPT ![mgr.trigger] =
                                  IF elsewhere THEN "owed" ELSE "concluded"]
    /\ UNCHANGED <<msg, sched, envVars, outputs>>

\* queueConclusion(): one slot, and what it held is gone.
\* Mutant: nothing is queued while another minute runs.
QueuedWhileIdle(mm, minute) == IF mm.active THEN mm ELSE [mm EXCEPT !.pending = minute]

Queued(mm, minute) == [mm EXCEPT !.pending = minute]

QueueConclusion(m) ==
    /\ pc[m] = "queue"
    /\ mgr' = Queued(mgr, stopped[m])
    /\ phase' = IF mgr.pending = None THEN phase
                ELSE [phase EXCEPT ![mgr.pending] = "lost"]
    /\ stopped' = [stopped EXCEPT ![m] = None]
    /\ Goto(m, "done")
    /\ UNCHANGED <<row, events, msg, sched, envVars, outputs>>

Handle(m) ==
    \/ IfIdle(m) \/ Match(m) \/ Rotate(m) \/ SetTriggerWord(m)
    \/ StartRefused(m) \/ StartOnChannelCooldown(m) \/ StartOnWordCooldown(m)
    \/ StartMinute(m) \/ StopIdle(m) \/ StopMinute(m) \/ QueueConclusion(m)

-----------------------------------------------------------------------------
(* The scheduler goroutine: manicMinuteScheduler, run by the schedule group *)
(* when a tick has passed since it last ran.  Bound: at the horizon, which  *)
(* stands for every later instant, it is due for as long as it has work.    *)

SchedulerDue ==
    /\ up /\ sched.step = "idle"
    /\ \/ now > sched.lastRan
       \/ now = Horizon /\ (mgr.active \/ mgr.pending # None)

\* Mutant: the minute's end is mistaken for its cooldown's.
ExpiredCooldown(mm) == now > mm.cooldownUntil

Expired(mm) == now > mm.endsAt

\* A queued conclusion goes out before anything else.
DeliverConclusion ==
    /\ SchedulerDue /\ mgr.pending # None
    /\ \E s \in EnsureInitialized(Store) :
          Commit([s EXCEPT !.mgr.pending = None])
    /\ phase' = [phase EXCEPT ![mgr.pending] = "concluded"]
    /\ sched' = IdleScheduler(now)
    /\ UNCHANGED <<events, taskVars, envVars, outputs>>

NothingToSay ==
    /\ SchedulerDue /\ mgr.pending = None /\ ~mgr.active
    /\ \E s \in EnsureInitialized(Store) : Commit(s)
    /\ sched' = IdleScheduler(now)
    /\ UNCHANGED <<events, taskVars, envVars, history>>

FinishMinute ==
    /\ SchedulerDue /\ mgr.pending = None /\ mgr.active /\ Expired(mgr)
    /\ CloseMinute(Store, "completed")
    /\ phase' = [phase EXCEPT ![mgr.trigger] = "concluded"]
    /\ sched' = IdleScheduler(now)
    /\ UNCHANGED <<taskVars, envVars, outputs>>

SnapshotMinute ==
    /\ SchedulerDue /\ mgr.pending = None /\ mgr.active /\ ~Expired(mgr)
    /\ sched' = [step |-> "generating", channel |-> mgr.channel,
                 version |-> mgr.version, minute |-> mgr.trigger, lastRan |-> now]
    /\ UNCHANGED <<botVars, taskVars, envVars, history>>

\* The text was generated without the lock; recordOutput() then accepts it or
\* has it dropped.
PostOutput ==
    /\ sched.step = "generating" /\ AcceptsOutput(mgr, sched)
    /\ mgr' = [mgr EXCEPT !.count = @ + 1]
    /\ outputs' = [outputs EXCEPT ![sched.minute] = @ + 1]
    /\ sched' = IdleScheduler(now)
    /\ UNCHANGED <<row, events, taskVars, envVars, phase>>

DropOutput ==
    /\ sched.step = "generating" /\ ~AcceptsOutput(mgr, sched)
    /\ sched' = IdleScheduler(now)
    /\ UNCHANGED <<botVars, taskVars, envVars, history>>

\* The model had nothing to say.
GenerateNothing ==
    /\ sched.step = "generating"
    /\ sched' = IdleScheduler(now)
    /\ UNCHANGED <<botVars, taskVars, envVars, history>>

Schedule ==
    \/ DeliverConclusion \/ NothingToSay \/ FinishMinute \/ SnapshotMinute
    \/ PostOutput \/ DropOutput \/ GenerateNothing

-----------------------------------------------------------------------------
(* The process and the clock *)

\* RegisterHandlers and InitializeManicMinute, before the driver connects.
Startup ==
    /\ ~up
    /\ up' = TRUE
    /\ \E s \in EnsureInitialized(Store) : Commit(s)
    /\ UNCHANGED <<events, taskVars, sched, now, crashes, history>>

\* The memory of the process is gone, with the handlers it was running.
Crash ==
    /\ up /\ crashes < MaxCrashes
    /\ up' = FALSE
    /\ crashes' = crashes + 1
    /\ mgr' = NewManager
    /\ pc' = [m \in Messages |-> IF pc[m] = "new" THEN "new" ELSE "done"]
    /\ stopped' = [m \in Messages |-> None]
    /\ sched' = IdleScheduler(0)
    /\ phase' = [m \in Messages |->
                   IF phase[m] \in {"running", "owed"} THEN "lost" ELSE phase[m]]
    /\ UNCHANGED <<row, events, msg, now, outputs>>

\* Bounds: past LastArrival the clock waits for the handlers under way, so that
\* every minute the model starts can also end; it stays at the horizon.
Tick ==
    /\ now >= LastArrival => \A m \in Messages : pc[m] \in {"new", "done"}
    /\ now' = IF now < Horizon THEN now + 1 ELSE now
    /\ UNCHANGED <<botVars, taskVars, sched, up, crashes, history>>

Next ==
    \/ \E m \in Messages : Receive(m) \/ Handle(m)
    \/ Schedule \/ Startup \/ Crash \/ Tick

Spec == Init /\ [][Next]_vars

\* Go runs every goroutine that can run; users and crashes owe nothing.
Fairness ==
    /\ \A m \in Messages : WF_vars(Handle(m))
    /\ WF_vars(Schedule) /\ WF_vars(Startup) /\ WF_vars(Tick)

FairSpec == Spec /\ Fairness

-----------------------------------------------------------------------------
(* What must hold *)

\* A minute runs exactly while the manager says so, and nobody but the manager
\* runs one: two messages that both saw the manager idle and both say the word
\* (the handler asks isActive() long before start()) open a single minute.
OneMinuteAtATime ==
    \A m \in Messages : phase[m] = "running" <=> mgr.active /\ mgr.trigger = m

\* The count the manager keeps for the running minute, and the message_count
\* it stores when the minute is over, is the opening message plus the texts
\* posted for that very minute: a text generated for one minute and finished
\* after it ended - even after another began in the same channel - is dropped.
CountsTellOutputs ==
    /\ mgr.active => mgr.count = 1 + outputs[mgr.trigger]
    /\ \A m \in Messages :
          events[m] # None /\ events[m].status # "active" =>
              events[m].count = 1 + outputs[m]

\* The minutes that ended without their channel having been told are just the
\* one in the slot and those a handler is about to put there: whatever other
\* steps come between stop() and queueConclusion(), none is forgotten silently
\* and none is told twice.
OwedConclusionsAreHeld ==
    /\ {m \in Messages : phase[m] = "owed"} =
          ({mgr.pending} \cup {stopped[h] : h \in Messages}) \ {None}
    /\ \A h \in Messages : stopped[h] # None => mgr.pending # stopped[h]

\* While the database answers, no chat message opens a minute in a channel, or
\* on a word of its guild, that another minute has put on cooldown - whether or
\* not the process was restarted in between.
CooldownsRespected ==
    \A a, b \in Messages :
        /\ a # b /\ events[a] # None /\ events[b] # None
        /\ msg[b].kind = "chat"
        /\ \/ events[a].channel = events[b].channel
           \/ /\ ServerOf[events[a].channel] = ServerOf[events[b].channel]
              /\ events[a].word = events[b].word
        /\ \/ events[a].startedAt < events[b].startedAt
           \/ events[a].startedAt = events[b].startedAt /\ msg[a].kind = "chat"
        => events[a].cooldownUntil <= events[b].startedAt

\* While the database answers and only the bot writes it, the runtime row is
\* what the running manager holds: no method changes the word, the minute or
\* the cooldown and forgets to persist it.
RowMirrorsManager ==
    up /\ mgr.word # None => row = RowOf(mgr)

\* The cooldown a minute starts is still in the runtime row as long as it
\* lasts, restarts included: restoring the word restores the cooldown, so that
\* the first write of the new process does not erase it.
CooldownOutlivesRestart ==
    \A m \in Messages :
        events[m] # None /\ events[m].cooldownUntil > now =>
            row # None /\ row.cooldownUntil >= events[m].cooldownUntil

\* The manager as an implementation of the contract: a minute is told over when
\* its channel got the conclusion, and reported when its row was completed.
Contract == INSTANCE MinuteContract WITH
    opened   <- {m \in Messages : phase[m] # "none"},
    running  <- mgr.trigger,
    posted   <- outputs,
    reported <- [m \in Messages |->
                   IF events[m] = None THEN None
                   ELSE IF events[m].status = "active" THEN None
                   ELSE events[m].count],
    told     <- {m \in Messages : phase[m] = "concluded"}

\* Whatever fails, crashes or comes late, a minute's life is one the contract
\* allows.
ImplementsContract == Contract!Spec

\* Every minute ends, and its channel is told, unless the slot was overwritten
\* by the conclusion of another minute, or the process died: no minute runs on
\* for ever, and no conclusion stays in the slot when no other minute comes.
MinutesAreConcluded ==
    \A m \in Messages : phase[m] = "running" ~> phase[m] \in {"concluded", "lost"}

-----------------------------------------------------------------------------
(* The inductive invariant behind OneMinuteAtATime, CountsTellOutputs and    *)
(* OwedConclusionsAreHeld                                                    *)

\* A handler that is under way knows its message, and its message has not
\* started a minute; a message that starts one is done.
HandlersInv ==
    \A m \in Messages :
        /\ pc[m] # "new" => msg[m] \in Inputs
        /\ pc[m] # "done" => phase[m] = "none"
        /\ stopped[m] # None <=> pc[m] = "queue"

\* The manager's fields describe one minute or none.
ManagerInv ==
    /\ mgr.active <=> mgr.trigger # None
    /\ mgr.active => mgr.word # None
    /\ mgr.event # None => mgr.event = mgr.trigger /\ events[mgr.event] # None

\* A minute that has not begun has left no trace, and the row of the running
\* one is still open.
MinutesInv ==
    \A m \in Messages :
        /\ phase[m] = "none" => outputs[m] = 0 /\ events[m] = None
        /\ phase[m] = "running" /\ events[m] # None => events[m].status = "active"

\* The snapshot under generation is of a version the manager has reached, and
\* of its running minute if that version is still the current one: every start
\* and every end moves the version on.
SnapshotInv ==
    sched.step = "generating" =>
        /\ sched.minute # None
        /\ sched.version <= mgr.version
        /\ mgr.active /\ sched.version = mgr.version => sched.minute = mgr.trigger

\* What is to be told is in one place each.
HoldersInv ==
    \A h, g \in Messages : h # g /\ stopped[h] # None => stopped[h] # stopped[g]

IInv ==
    /\ TypeOK
    /\ HandlersInv /\ ManagerInv /\ MinutesInv /\ SnapshotInv /\ HoldersInv
    /\ OneMinuteAtATime /\ CountsTellOutputs /\ OwedConclusionsAreHeld

-----------------------------------------------------------------------------
(* The inductive invariant behind RowMirrorsManager, CooldownOutlivesRestart *)
(* and CooldownsRespected, which IInv and answers from the database make one *)

\* While the process runs the row is the manager's, even before there is a word;
\* while it does not, nothing of the process is left.
ProcessInv ==
    /\ up => row = RowOf(mgr)
    /\ ~up => /\ mgr = NewManager
              /\ sched.step = "idle"
              /\ \A m \in Messages : pc[m] \in {"new", "done"}

\* Minutes have begun, each with the same length of cooldown.
EventTimesInv ==
    \A m \in Messages : events[m] # None =>
        /\ events[m].startedAt <= now
        /\ events[m].cooldownUntil = events[m].startedAt + CooldownLen

\* The row of a cooldown that lasts has a word: restoring looks for one.
CoolingRowInv ==
    \A m \in Messages :
        events[m] # None /\ events[m].cooldownUntil > now =>
            /\ row # None /\ row.word # None
            /\ row.cooldownUntil >= events[m].cooldownUntil

CooldownInv == ProcessInv /\ EventTimesInv /\ CoolingRowInv /\ CooldownsRespected
=============================================================================
