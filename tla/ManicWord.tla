------------------------------ MODULE ManicWord ------------------------------
(***************************************************************************)
(* "dungar manic-word rotate" and "dungar manic-word set <word>"           *)
(* (src/internal/dcli/manic_word.go): a second process that changes the    *)
(* persisted trigger word.  It reads the runtime row, gives up if a minute *)
(* is active, and writes the whole row back with another word.  Between    *)
(* its read and its write the bot goes on; the README asks the operator to *)
(* restart the bot afterwards.  The module composes it with ManicMinute,   *)
(* with which it shares the row.                                           *)
(***************************************************************************)
EXTENDS ManicMinute

CONSTANT MaxCommands   \* bound: how often the operator runs the command

ASSUME MaxCommandsAssumption == MaxCommands \in Nat

VARIABLES
    cli,       \* the row the running command has read, None when none runs
    commands,  \* how many commands have been run
    ordered,   \* history: the word of the last command, until the bot starts
    wroteLive  \* history: whether the bot was up when that word was written

cliVars  == <<cli, commands, ordered, wroteLive>>
wordVars == <<vars, cliVars>>

\* What currentManicMinuteRuntimeState() makes of a missing row.
EmptyRow == [word |-> None, active |-> FALSE, channel |-> None, cooldownUntil |-> 0]

CliInit ==
    /\ cli = None
    /\ commands = 0
    /\ ordered = None
    /\ wroteLive = FALSE

\* The command reads the row, and ends if a minute is active.
CliRead ==
    LET state == IF row = None THEN EmptyRow ELSE row IN
    /\ cli = None /\ commands < MaxCommands
    /\ commands' = commands + 1
    /\ cli' = IF state.active THEN None ELSE state
    /\ UNCHANGED <<vars, ordered, wroteLive>>

\* "set" takes any word the sanitizer accepts, "rotate" draws one from the
\* stored messages; the rest of the row is written back as it was read.
CliRow(state, w) == [state EXCEPT !.word = w]

CliWrite ==
    /\ cli # None
    /\ \E w \in Words : row' = CliRow(cli, w) /\ ordered' = w
    /\ cli' = None
    /\ wroteLive' = up
    /\ UNCHANGED <<mgr, events, taskVars, sched, envVars, history, commands>>

\* log.Fatal: no other word was found, the word is not acceptable, or the
\* database did not answer.
CliFatal ==
    /\ cli # None
    /\ cli' = None
    /\ UNCHANGED <<vars, commands, ordered, wroteLive>>

AsBot(step) ==
    /\ step
    /\ ordered' = IF ~up /\ up' THEN None ELSE ordered
    /\ UNCHANGED <<cli, commands, wroteLive>>

Bot == AsBot(Next)

WordInit == Init /\ CliInit
WordNext == Bot \/ CliRead \/ CliWrite \/ CliFatal
WordSpec == WordInit /\ [][WordNext]_wordVars

\* The bot's own fairness; the operator owes nothing.
FairWordSpec ==
    /\ WordSpec
    /\ \A m \in Messages : WF_wordVars(AsBot(Handle(m)))
    /\ WF_wordVars(AsBot(Schedule)) /\ WF_wordVars(AsBot(Startup)) /\ WF_wordVars(AsBot(Tick))

-----------------------------------------------------------------------------
\* A word written while the bot is down is the one it starts with, whatever the
\* crash that took it down left in the row.
DownBotLoadsOrderedWord ==
    [][~up /\ up' /\ ordered # None /\ ~wroteLive => mgr'.word = ordered]_wordVars
=============================================================================
