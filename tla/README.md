# A specification of Dungar

Dungar is a Markov chat bot: it listens on Discord, stores what is said in the channels it may learn from,
learns a Markov model from the stored rows, answers, runs timed games such as the *manic minute*, and is
administered both from chat and from a command line that shares its database. This directory holds TLA+ models of
its parts, translated from `src/`, the TLC configurations that check them on small instances, and proofs checked by
TLAPS of what must hold for every instance.

    tlc -config ManicMinuteStops.cfg MCManicMinute.tla     # one of the runs listed in PROJECT.json
    tlapm ManicMinuteProofs.tla                            # one of the proof modules

`PROJECT.json` lists the runs, the theorems, the hazards, the definitions with the lines they translate, and for
every checked property a plausible bug of the code (a *mutant*, kept beside the definition it changes) that
breaks it.

## 1. The system

Four kinds of goroutine share the memory of `dungar run`: discordgo starts one **per gateway event** (creation,
edit, deletion of a message, members, channels, ...); one **outgoing loop** sends queued answers and runs the
schedules every few ticks; one **rebuild** goroutine at a time relearns the Markov model; `main` waits for a signal.
Other **processes** (`dungar manic-word`, `backfill-discord`, `learn`) share only Postgres with it. At start-up
(`dcli/protocol_discord.go`) the handlers are registered, the model is preloaded, the manic minute restored, and
only then does the driver connect.

| component (source) | state | operations | interacts with |
|---|---|---|---|
| manic minute (`triggers/manic_minute*.go`, `db/manic_minute.go`) | one mutex-guarded manager (word, running minute, cooldown, version, one pending conclusion); tables `manic_minute_runtime_state`, `manic_minute_events` | chat handler, `!manic ...`, scheduler tick, restore | message goroutines, outgoing loop, command line (runtime row) |
| manic-word command (`dcli/manic_word.go`) | none; reads and writes the runtime row | print, `rotate`, `set` | the bot, through the row |
| stored messages and block list (`db/raw_message*.go`, `triggers/raw_message.go`, `triggers/blocklist.go`, `accord/message.go`) | tables `raw_messages_discord`, `raw_message_user_blocklist` | record, sync, delete, block, unblock | every message event; asks for model rebuilds |
| learning and rebuilds (`triggers/markov.go`, `markov3/pgsql.go`) | `m3`, `lastLoadedM3`, `learningMutex`, `rebuildBusy` | preload, hourly learning, rebuild | reads the stored rows |
| Markov model (`markov3/`) | words, fragments and four indexes | learn, reset, generate | generating goroutines read it without the learning lock |
| message pipeline (`library/core2/message_trigger.go`, `incoming_message_handler.go`, `triggers/handlers_message.go`) | the shared trigger group with its current message and responses; a backlog of at most 99 messages | `Process`, consume, cancel | every handler runs inside it |
| outgoing messages (`library/core2/outgoing_responses.go`, `schedule_trigger.go`, `triggers/delayed_responding.go`, `accord/connection_outgoing*.go`) | mailbox, delayed queue, schedule group, silent mode | add, drain, run schedules | message goroutines fill, the loop drains |
| history backfill (`accord/backfill.go`, `db/backfill_checkpoint.go`) | a checkpoint per channel | page, resume, fail | stores rows beside the live bot |
| user tracking and spam (`db/user_tracking.go`, `triggers/user_tracking.go`) | last-seen rows, line counts | upsert | every message |
| Discord driver (`accord/channels*.go`, `users*.go`, `protocol_*.go`) | caches of guilds, channels, members, roles | gateway events | read by conversions and handlers |
| channel tracking (`triggers/tracking/channels.go`) | a row per channel | insert or update | channel and thread events |
| message texts (`accord/message_parsing.go`, `cleaner/`) | none | parse markup, tokenize, list tokens | between driver, store and model |
| controlled randomness (`random/`, `triggers/main.go`) | master list of chances, a control per name | throw, `!change`, `!disable` | every handler that answers at times |
| older models, simple triggers, pins, Slack driver, CLI, HTTP | mostly none | functions of a message, or I/O | - |

What is hard here, and what makes each part correct:

* **Manic minute.** A handler calls several methods of the manager; each holds the mutex, nothing holds across
  them. So the check ("is a minute running?", "does the text contain the word?") may be stale when `start()` or
  `rotate()` acts; a generated text may be ready after its minute ended; a conclusion is in no channel's hands
  between `stop()` and `queueConclusion()`. Writes to the two tables may fail, and the process may die anywhere.
  Correct means: one minute at a time; texts and counts belong to the right minute; a channel is told once; cooldowns
  hold and survive restarts; the rows say what the manager holds.
* **manic-word.** Read, decide, write the whole row, while the bot does the same. Correct means: the row refuses a
  command only because of a minute that runs, and a word the operator sets is the one the bot starts with.
* **Stored messages.** Events of one message are handled concurrently and need not finish in order; a
  select-then-insert statement draws an id before it commits; block, delete and rebuild are three steps of which one may
  fail. Correct means: what is stored is what Discord last said; nothing a blocked user wrote is learned.
* **Learning.** A query and a loop over its rows, while rows change; requests for rebuilds are coalesced. Correct
  means: the model follows the table.
* **Pipeline.** The group's current message and its responses are plain fields that all message goroutines share, and
  the group itself is created by whoever comes first. Correct means: a message is answered by its own handlers as if it
  were alone; what is cancelled or contains a bad word stays in.
* **Outgoing.** Mailbox and queue are created lazily by whoever comes first; one loop must go round while others fill
  them. Correct means: only the race of a creation loses a text; the others leave once, in order, and eventually.
* **Backfill.** Pages, checkpoints, failing requests and crashes, beside a bot that stores the same messages. Correct
  means: *completed* is complete, counters add up, nothing outdated is brought back.
* **Markov model.** Generation reads maps and slices that learning writes and a rebuild empties. Correct means: the
  indexes agree, the model is the rows, and what is said follows links that were learned.
* **Texts.** Three hand-written scanners with look-ahead. Correct means: they end, and lose no rune or mention.
* **Driver state, tracking, dice.** Unlocked caches, maps and read-then-write counters that every event goroutine
  touches. Correct means: without an overlap they say what happened, and an overlap spoils no more than what it is
  about.

The hazards are listed at their lines in `PROJECT.json`, each with the properties that would catch it going wrong.

## 2. The modules

| module | models |
|---|---|
| `ManicMinute` | the manager, its handlers, its scheduler, both tables, failures, crash and restart |
| `MinuteContract` | what a minute promises, with no manager, database or scheduler |
| `ManicWord` | the command line beside a bot that may be up or down; extends `ManicMinute` |
| `RawMessages` | stored rows, block list, event handlers, learners and rebuilds |
| `MessagePipeline` | the trigger group that answers messages, shared by the goroutines of all of them |
| `Outgoing` | mailbox, delayed queue, schedules, and the loop that sends |
| `Backfill` | the import of history, its checkpoints, and the bot beside it |
| `MarkovModel` | the model's words, fragments and indexes under learners and speakers |
| `DiscordText`, `Tokenizer`, `ReceivedText` | a text on its way into the model: markup, tokens, and both one after the other |
| `GuildCache` | the driver's caches, what relies on them, and the table of channels |
| `MessageRecords` | backlog, rows of users, blocking by name |
| `Chances` | the dice of the handlers and the commands that load them |
| `MC...` | one instance for TLC of each: sets of channels, words, users, texts, and the events that may come |
| `Subsequences` | what a loop keeps of a slice, without recursion; used by `Outgoing` and `Tokenizer` |
| `ManicMinuteProofs`, `LearningProofs`, `MessagePipelineProofs`, `OutgoingProofs`, `DiscordProofs`, `GuildCacheProofs`, `MessageRecordsProofs`, `ChancesProofs` | the theorems: `LearningProofs` those about `RawMessages` and `MarkovModel`, `DiscordProofs` those about `Backfill` and `ReceivedText`, the others those about the module they are named after |

Each of them keeps to one rule of granularity: what a mutex or one SQL statement makes indivisible is one action; what
neither does is split at every access another goroutine could see, or where `MarkovModel` merges reads its section says
which. What a property needs to know of the past is in
history variables, which no guard of the code's actions reads and which the declarations mark as such.

### ManicMinute

`mgr` holds the fields of `manicMinuteManager`; `row` and `events` are the two tables; `pc[m]` says where the handler
of message `m` stands, `sched` where the scheduler does (idle, or generating with the snapshot it took). A **method is
one action**, since it holds the mutex from entry to return: `StartMinute`, `StopMinute`, `Rotate`, `SetTriggerWord`,
`IfIdle`, `Match`, `QueueConclusion`, the scheduler's `SnapshotMinute`, `FinishMinute` and `PostOutput`, and the
restore. A handler is a path of such steps (`manicMinuteHandler`, `manicMinuteAdminHandler`). Operators carry the
names of the methods they translate (`SelectNewTriggerWord`, `RestoreRuntimeState`, `ChannelOnCooldown`, ...).

* A message that starts a minute names it, as `trigger_message_id` does in the event row.
* Every statement may fail on its own when `DbMayFail`. As the code logs and carries on, a crash in the middle of a
  method is the same as the remaining statements failing and a crash right after, which is why `Crash` is only taken
  between actions.
* The clock counts scheduler ticks (`manicMinuteTick`). At the bound `Horizon` it stops: that last instant stands for
  all later ones, and is late enough for every minute to have ended (`ConstantsAssumption`).
* `phase` and `outputs` are history: the life of each minute (none, running, owed, concluded, lost) and the texts
  posted for it.
* Abstracted: the choice of words (any automatic word other than the current one), the length of a cooldown within
  its range, texts and layout of replies, logging. `!manic status` and `stats` change nothing but may be what
  initialises the manager.

### MinuteContract

Variables `opened`, `running`, `posted`, `reported`, `told`; actions `Open`, `Post`, `End`, `Tell`. The mapping is
`Contract` in `ManicMinute`: `running` is the manager's trigger message, `reported` the count of a completed event
row, `told` the minutes whose channel got the conclusion. The contract knows neither the slot, the version counter,
the rows nor the cooldown.

### ManicWord

The bot of `ManicMinute` and a command that reads the row (`cli` is what it read), refuses if the row says *active*,
and otherwise writes word, miss count and cooldown back. `ordered` remembers the operator's last word, `wroteLive`
whether the bot was up then.

### RawMessages

`rows` is the table, one row per message (its unique index), each with the id the sequence gave it; `ev`, `pc` and
`drawn` are the goroutines that handle events. A **statement is one action**, except the two that insert when
nothing is there (`RecordRawDiscordMessage`, `SyncRawDiscordMessage`): under Postgres' default isolation these look in
a snapshot and draw an id (`DrawId`), and insert later (`Inserted`), which fails on the unique index if another
transaction was faster (`DuplicateKey`). That failure panics in `ConMustExec`, nobody recovers the panics of an event
goroutine, and the process dies (`Down`).

A learner's query (`LearnQuery`, `RebuildQuery`) and the loop that learns its rows (`LearnRows`, `RebuildRows`) are
separate actions between which rows may change; `learningMutex` admits one learner. `Notify` is
`markovV3RebuildAsync`: it starts a rebuild unless one is under way, and `lost` remembers that it was dropped by one
that had read the rows already. `RebuildDone` is the deferred function that clears `rebuildBusy` after the lock was
given back.

All messages pass through one trigger group, which keeps the message in a field (`message_trigger.go:71`) and reads
the field again for each handler (`:182`). `Process` therefore puts its message into the hands of *every* goroutine that
is in the group up to the recorder: creation B between `Process` and the recorder of A makes A's goroutine record B,
and A is never stored. `EventsInTurnAreStored` excludes such a message from `orderly`, a history of what Discord sent
and who met in the group, and claims the rest. While the group is being set up (`ready`) goroutines may have groups of
their own, so that none, some or all of them are misled, or find no handlers (`Unfinished`). The handlers modelled are
the first two of the table, bad words and recorder, and the block list's; the whole table is `MessagePipeline`'s.

* `AnsweredBlocked`: a block-list query that fails answers "not blocked", as does one for an unknown author.
* `PartialUpdates`: whether an update with a text may come without its author, which the conversion in
  `accord/message.go` provides for by leaving the user empty.
* A command that another message replaces in the group is a command that does not arrive, or arrives twice.
* Abstracted: one server; rows younger than the 30-day window; texts longer than one byte (shorter ones are not
  learned); the hourly check is "at any time"; a message whose conversion fails is one whose event was not delivered,
  and events missed while the process is down do not arrive later. The list of bad words is fixed. The message that
  carries an admin's command is recorded like any other and is a creation event of its own. The legacy Slack recorder
  is left out.

### MessagePipeline

`groups` are the `MessageTriggerGroup`s ever created, `group` is the global `msgGroup`, `run[m]` the goroutine of
message `m`: where it stands, the group its call of `Process` is for, the next handler, and the responses so far. Its
path is `Receive` (is there a group?), the three steps of `initMessageGroup`, `Reset` and `Process` (the message is
stored in the group), one `RunMessageEv` per handler in the order of the table, `Finish` (filters, cancellation), and
the two halves of reading the responses back into an envelope. None of this holds a lock, so **every access to the
group is a step of its own**.

* Where another goroutine gets in between, the outcome is what Go's memory model lets the build produce: a pointer is
  read whole, the header of a slice in two words, so that `ReadRest` may combine the elements of one list with the
  length of another. What indexes past the end, dereferences a nil message or reads a list of handlers while it is set
  is a `Panic`, which nobody recovers: the process is down, and the model ends there (a restart begins with an empty
  group, as `Init` does).
* A handler *reacts* to a message: not at all, with a remark that leaves it to later handlers, with an answer, or
  with a cancellation (`Reactions`); `said` fixes how each handler reacts to each message, so that an answer shows which
  message it is for. Of a text the model keeps what the filters tell apart. A handler's own state (the minute, the
  stored rows) is the other modules' matter; so is an edit's (`message.go:31-90`), whose envelope is discarded.
* `misled`, `crowded`, `rushed` and `sent` are history: which message was given another's text, overlapped with
  another, was run by an unfinished group, and what each envelope holds.
* Left out: the backlog of `incoming_message_handler.go` (in `MessageRecords`), the refresh of the list of bad words,
  the whitespace filter (layout).

`RawMessages` shares the group up to the recorder. In the other modules a handler keeps its own message, which the
pipeline promises, and keeps only for messages that do not overlap *inside the group*: those modules are about how the
steps of handlers interleave, each with the message it was given. `ManicMinute`'s properties hold whichever messages
those are, as any message may come at any time; the counts of `MessageRecords` are of what was recorded.

### Outgoing

`cell` says which of the `boxes` created so far is the mailbox and which the queue in use; `at`, `task` and `held` are
the goroutines of messages and events, `loop` the one that sends. Whoever wants a box looks whether there is one
(`Look`), makes one if not (`Make`), takes the pointer (`Take`) and appends under its mutex (`Put`): looking and
making are apart, so two may make one each, and what the first put into its own is gone (`raced`). The loop makes
passes: it returns in silent mode, runs the schedules that are due (the queue's, the manic minute's, the
commentator's), puts what they say into the mailbox by channel, and drains it envelope by envelope (`SkipEnvelope` for
a channel that is not allowed or a blank text, `HandleResponse` for the rest).

* Two spaces in a row make the translation of emoji index past the end of a word; the loop has no recovery, so the
  process is down (`TranslateEmptyWord`). Texts of the commentator name no channel and leave the loop unsent.
* Left out: a session that is nil (the loop is started with one), what Discord answers, files and pictures.

### Backfill

`run` is the import: where it stands, the channels left, the page in hand, its place and its counters; `checkpoints` is
its table. `FetchPage`, `HandleMessage`, `Record` and `SavePage` are its steps, with a failing variant where the code
handles an error; `Crash` may come between any two. `Post`, `Edit`, `Delete` and `Block` are the users and the bot
beside it, which may be down and miss the event. `seen` are the messages that existed when the import of a channel
last began from the newest, `inserted` the rows it really stored.

* Ids grow with time: an id is also the message's timestamp. The unique index that rejects a row the bot inserted in
  between panics, which is one of the crashes. A block-list query that fails answers "not blocked"
  (`raw_message_blocklist.go:90-98`), so that a blocked author's message is stored again. A conversion error cannot
  happen with what Discord sends and is left out. One import runs at a time.

### MarkovModel

`words`, `revWords`, `fragments` and `fragmentWords` are the fields of the model; `pen` is what the owner of
`learningMutex` is writing, `speech[g]` what goroutine `g` is saying. **One write of a map or slice is one
step, and so is one read, or a few reads in a row that only a rebuild could tell apart**: `ListFragments` sees
whether the model is empty together with the list of the word, and `PickFragment` and `NextChainLink` read several
fields of entries that nothing but a reset ever changes; a speaker that a reset overtakes is excused whatever it reads.
So a speaker stands between any two writes of a learner or of `Reset`, which empties one field after the other. A walk
draws a first fragment, adds links to the right and to the left (`LookUpLink` reads the list, `NextChainLink` the
fragment), and spells its ids at the end. `overtaken` are the speakers a rebuild reset the model under.

* A goroutine's job is one generation (with or without a word asked for), an hourly load, or a rebuild; two jobs
  suffice for every pair of a reader and a writer. `stored` rows come while they work.
* `random.Int(0)` is 1, so an empty list makes the draw index past its end (`Panic`): the list of a word is in the map,
  empty, before its first fragment is filed.
* Left out: statistics, the wording of fillers, the exported file, the lists of one author, and Go's own abort on
  concurrent use of a map (which ends the process, as a panic does).

### DiscordText, Tokenizer, ReceivedText

A rune is a character class, a token the range of runes that is its value; what is kept and lost is then a matter of
ranges. One turn of a loop is one step, and one token's parse is one loop. `DiscordText` cuts a message at its spaces,
looks for `<@user>`, `<@&role>`, `<#channel>`, `<:emoji:id>`, and writes the names of the caches out. `Tokenizer` is
the scan of the runes for a variant, the parse of words and markup, and the simple tokens `LearnTokenList` takes.
`ReceivedText` composes them: what the driver writes is what is stored and later learned.

* What trimming and collapsing leave of a text is defined by places (`TrimBoth`, `Kept`), not by recursion, so that it
  can be proved about.
* The properties say what is *kept*; each names what is not. In the code a `>` outside a bracket loses the text before
  it, of two adjacent mentions the second is lost, a second `<` repeats the prefix, unknown markup is dropped, the
  rune after a run of `!` or `?` and the text before an `@` or `#` inside a word are lost, a filler glued to a word is
  not learned, and `<:a>` panics.
* Who is mentioned in a word of their own is learnt, but not between brackets or backticks: there the tokenizer takes
  the written `@name` for a link or for code. If the name begins with `&` it is learnt as the mention of a role.
* `cleaner_chat.go` has no caller and is left out.

### GuildCache

Discord (`members`, `channels`, `roles`, `emoji`) is external: it changes, sends its events in order (`sent`), may
lose the connection and begin a new session with all of the guild. Every event is handled by a goroutine, at most as
many at a time as there are `Handlers`; `caches` are the guilds made so far and `guild` the one in use. A write to one
map entry is one step. Three users of the cache are modelled up to their answers: `GetUser`, `HasRole` and
`ConvertMessage`, each with the look-up at Discord where the cache has nothing (`LookUp`), and the select, insert or
update of `channel_tracking`.

* The code keeps a map for each sort of entry; the ids of members, channels and roles and the key of the emoji are
  therefore kept apart (`GuildConstants`), and `keys` are entries of any of them.
* Entries two goroutines touch at once, and those changed while there was no connection, are history (`overlapped`,
  `missed`); properties speak of the rest. Roles have no handler of their own, so a role's name is that of the session's
  beginning (`told`). A guild that leaves is not forgotten. A channel of a kind the code does not know panics when it is
  translated.
* The table of channels is in no schema file; its columns are those the statements name.

### MessageRecords

`backlog` is the slice, `rows` has a name and a count per user, `at` and `held` are the goroutines of messages and
edits, each in the code's order: backlog, author, select, insert or update, and for an admin's block command the
resolution of a name. Reads and writes of the slice, and statements, are steps. `spoken`, `log`, `tangled` and
`muddled` are history: what was recorded or said, and which overlap spoiled what.

The bot knows names at second hand. `nick` is the name at Discord, `cached` the one in the driver's `memberCache`,
`updates` the update events whose handlers have not written it yet, each a goroutine of its own; an event may also be
missed. `GetUser` answers from the cache (`KnowAuthor`) or asks Discord (`AskForAuthor`) and stores the answer later
(`StoreAuthor`), over what an event has brought meanwhile. A block by name looks for exactly one cached member of that
name (`resolveUserByNickFromCache`), and otherwise, whatever the error - `blocklist.go:189` says "use a direct
mention", but `resolveBlocklistTargetUser` drops it - for a row (`GetLastSeen`). Every one of these names may be old.
`had` and `unsure` are the history that `BlocksHitTheNamed` speaks of: the names a user has had, and whether what is
under way must leave the cache right. From them `Sure` and `Doubted` are read off at the look-up: whose, of the cached
members, the name surely is, and of whom that cannot be known.

* The limit of 100 is `Limit`; as the entry is cut on *reaching* it the backlog holds one less. Edits count as
  messages.
* `spoken` counts what comes to the insert or update: a message of an author Discord would not name, or one that an
  earlier handler consumes, is no lost count. The name in a row is the one the bot knew.
* A rename is of another user than the admin (`Renamers`); members do not leave, which is in `GuildCache`.
* Left out: mentions resolved by id, and the queries behind `!seen`, `!top` and the active users.

### Chances

`master` is the list, `table` maps a name to its control, `controls` holds chance and counters; a throw is a path of
reads and writes (`ReadMaster`, `Find`, `Create`, `Store`, `SetChance`, the draw, `LoadCount`/`StoreCount` twice).
`Abort` is Go ending the process when it notices a map used while another goroutine writes it, or a draw that indexes
the shared source out of its range: both may happen or not, and after either nothing survives.

* A name is thrown with the chance of the list (`fromBasicChance`) or with one its caller brings
  (`fromDefinedChance`). `coinFlipHandler--singleSide` is in the list (`main.go:8`), and its caller brings a chance all
  the same (`coin_flip.go:48`): `Listed` and `Given` overlap, and what is brought decides (`Basic`). For it "!change"
  and "!disable" are answered, and change nothing; `DrawsOfItsTime` says so.
* Chances are never, maybe or always. The advanced control has no caller; `!analytics` never answers, since nothing
  sets `lastRanAnalytics`; reseeding changes no outcome that is modelled.

## 3. The runs

Small sets suffice because the properties relate at most two minutes (or two handlers and a learner) and one stale
value; the bounds below give each of them room. Where instances are symmetric in messages or goroutines the
configuration says so (safety only).

| run | instance | shows |
|---|---|---|
| `minute_stops` | 3 messages from 2 channels, 2 words, chat, stop, rotate or test, 1 crash, clock 0..5 with minutes of 1 and cooldowns of 2 | `OneMinuteAtATime`; `OwedConclusionsAreHeld`: the minutes whose channel is still to be told are exactly the one in the slot and those in a handler's hands; `CooldownsRespected` across restarts; `CooldownOutlivesRestart`: the restore keeps the cooldown in the row; `RowMirrorsManager`: no method forgets to persist; `CountsTellOutputs`: a count is the opening plus the texts of that very minute, however late a text is ready |
| `minute_failures` | 2 messages of any kind (a direct conversation and a denied admin among them), 3 words, every statement may fail, 1 crash, clock 0..4 | the inductive invariant `IInv` of the proofs in every reachable state, and `ImplementsContract`, the refinement of `MinuteContract` |
| `word_command` | 2 messages, 2 commands, 1 crash, 2 words, cooldowns of 5, fair goroutines | `DownBotLoadsOrderedWord`: a word written while the bot is down is the one it starts with; `MinutesAreConcluded`: every minute ends and every conclusion leaves the slot |
| `raw_messages` | 2 messages of 2 users, one of a channel that is learned from, through one group, 2 texts of which one is bad, 3 goroutines, failing statements, 1 crash, fair goroutines | `EventsInTurnAreStored`: a message whose events do not overlap is stored as Discord last said, unless it met another in the group; `ModelFollowsStore`; `BlockedAuthorsStayOut`; `StaleTextsAreForgotten` |
| `pipeline` | 3 messages, at most 2 at a time, 2 handlers, six combinations of reactions | `AnsweredAsAlone`: a message nobody overlaps with is answered as the reference definition says, whatever others left in the group; `QuietGroupIsReady`: however the group came to be, it has its handlers once nobody sets it up; `BadWordsStayIn`, torn reads included |
| `outgoing` | 2 goroutines with an answer of two texts, one that makes the sender panic, a remark or a note; 2 channels of which one is allowed; every schedule at every pass | `OnlyRacesLose`; `DeliveredOnceInOrder`; `WaitingTextsLeave` |
| `backfill` | 2 channels, 4 ids of which 3 exist at first, one unusable, pages of 2, windows of everything or of all but the oldest message, 2 imports, 2 events, 1 fault | `CompletedIsComplete`; `CountersAddUp`; `StoredAsDiscordSays`; `ImportsEnd` |
| `markov_model` | 2 goroutines, one that speaks, learns or rebuilds and one that learns or rebuilds; 2 rows over 2 words, one with an empty sentence; chains of 2, 2 repetitions, 1 retry | `IndexesAgree`; `ModelIsTheRows`; `OnlyRebuildsAndFirstFragmentsFail`; `SpeaksAsTaught`; `JobsEnd` |
| `texts` | all texts of up to 4 runes over four alphabets (markup, mentions, sentences, words) and up to 3 over the blanks, some longer ones, six variants; all messages of up to 4 runes over `a`, space, `<`, `>`, `:` pairs of mentions, and mentions in code or brackets; names with a space, beginning with `&`, or unknown | `RunesAreKept`: the scan cuts the text up without a gap and letters reach the tokens; `NothingIsLost`; `MentionsReachTheModel`; `TextsEnd` |
| `guild_cache` | 2 handlers, 1 user, 2 channels, 1 role, kinds text, thread and one the code does not know, 2 changes, 1 message | `CacheFollowsDiscord`; `AnswersFollowDiscord` |
| `message_records` | 2 goroutines, 2 users of whom one is an admin and the other may rename once, seen by the bot or not; 2 names, any cache of them; 3 messages or edits, 1 of them a command; limit 2 | `BacklogHoldsTheLatest`; `CountsAreMessages`; `BlocksHitTheNamed` |
| `chances` | 2 goroutines, a name thrown with the chance of the list, a listed one whose caller brings a chance, 3 throws, 2 commands | `DrawsOfItsTime`; `OnlyRacesLoseCounts` |

Three goroutines are what it takes for a deletion, an edit and a creation of one message to overlap, or for two
recorders and a block-list command. Three messages give a minute, a stop and a second minute (or a second stop)
between two ticks. A horizon of five ticks fits two minutes, their cooldowns and a restart in between. Two messages at
a time make every race of two accesses in the pipeline; the third comes after or between them. Two imports with one
fault are an interruption and a resumption, with another window. Four runes hold a bracket, its sign, one rune and its
end; the longer texts add code blocks, timestamps and addresses. A limit of 2 makes the backlog overflow at the second
message. Every other race is of two parties. Deadlock is not checked where the system may stop: when the messages,
throws or events of the instance are used up, or after a panic; each configuration says which.

`raw_messages` assumes that updates name their author (`PartialUpdates` false), without which `BlockedAuthorsStayOut`
cannot hold. The cooldown properties and `RowMirrorsManager` hold while statements succeed, as they must in
`minute_stops`.

### Where program and text disagree

Seen while modelling; the properties above are stated around them.

* "queueConclusion asks the scheduler to deliver the conclusion lines to the given channel on its next tick"
  (`manic_minute.go:459`): the queue has one slot (`:470`); a second stop from elsewhere before the tick overwrites
  it, and the first channel is never told.
* "updates an existing stored Discord message or inserts it if it did not previously exist" (`raw_message.go:103`): the
  insert may race with another and fails on the unique index, which takes the process down.
* "Blocklisted @%s (%s), deleted %d stored messages; Markov rebuild started." (`blocklist.go:81`): a rebuild under way
  that has read the rows already swallows the request (`markov.go:99`), and the model keeps the deleted texts.
* "Process takes the incoming IncomingMessage and runs it against our list of MessageEvHandler's"
  (`message_trigger.go:65`): handlers get whatever message the shared group holds, and one that arrives meanwhile
  replaces it (`:182`); the recorder may store that one twice and this one never.
* "Changed val '%s' to be from '%.4f' to '%0.4f'" (`main_control.go:64`): of `coinFlipHandler--singleSide` the value
  in the list changes, which no throw reads (`coin_flip.go:48`).
* "multiple users matched '%s'; use a direct mention" (`blocklist.go:189`): the error is dropped, and whoever last
  spoke under the name is blocked (`:110`).
* "this will also split up sequences by cleaner.TokenSentEnd" (`markov3/learning.go:17`): the list of simple tokens
  makes the end of a sentence part of the word it follows (`cleaner/token_output.go:80`), so only an end that stands
  alone splits; two ordinary sentences are learned as one.

### Fairness

The fair specifications are weakly fair to the program's own goroutines: Go's scheduler runs whatever goroutine can
run, and a statement or request returns (or fails). Nothing obliges a user to write, a statement to fail or a process
to crash.

* `FairWordSpec`: every handler under way, the scheduler and the clock, and the start of a process. The scheduler's
  part of it is what a bot outside silent running does: in silent running the outgoing loop returns before it runs any
  schedule (`connection_outgoing.go:36`, modelled in `Outgoing`), no minute ends and no conclusion is told, so
  `MinutesAreConcluded` is a promise of a bot that is not silent.
* `FairRawSpec`: handlers, the loops over fetched rows, the end of a rebuild, the start of a process. The rebuild
  goroutine waits for `learningMutex` while hourly learners come and go; Go's mutex hands itself over to a waiter that
  has waited for a millisecond, so a waiter acquires it when it is free again and again: strong fairness for
  `RebuildQuery`, weak for the rest. Incremental learning has none, since it only happens when somebody talks.
* `FairSpec` of `Outgoing`: the loop, its ticks and the ready event that starts it, and a goroutine that has begun to
  put a text (`Make`, `Take`, `Put`), but not that anybody begins. Of `Backfill`: `WF(Import)`, each step of which
  works or fails. Of `MarkovModel`: every goroutine's next step.
* `TextSpec`: the loops go on, there being nothing else to run.

## 4. The proofs

Everything is for arbitrary sets of messages, channels, words, users and goroutines, arbitrary lengths and bounds,
with and without failures. The assumptions are those the modules declare: `ConstantsAssumption` (constants have the
types stated, a cooldown is at least as long as a minute, the clock's bound lies behind the last minute),
`RawConstants`, `OutgoingConstants`, `BackfillConstants`, `MarkovConstants`, `RecordsConstants`, `ChancesConstants`,
`GuildConstants`, `TextConstants`, `TokenizerConstants` and the pipeline's; `NoneIsNoRow`, `NoneIsNoStoredRow` and
`NoneIsNoEvent` say that what is absent is not a row or an event. Theorems about cooldowns and the runtime row assume
in their statement that no statement fails (`~DbMayFail`), the one about blocked users that updates name their
authors.

Induction over data: the provers cannot use a rule that quantifies over predicates, but they can take the smallest
number for which a claim fails, if one does, and contradict it from the claim for its predecessor. That is how the
facts about ranks in sets of numbers, about joined sequences and about the sentences of a row are proved, wherever a
definition counts or folds.

**`ManicMinuteProofs`.** `Invariance` proves `Spec => []IInv`; `TypeCorrect`, `OneMinute`, `CountsAreOutputs` and
`OwedAreHeld` follow. None of these is inductive alone. That a late text is not counted for another minute rests on
`SnapshotInv`: while a text is generated, its snapshot's version is not ahead of the manager's, and *if it equals it*,
the snapshot's minute is the running one - which holds because every start and every end moves the version on
(`AcceptsOutput` compares nothing else but the channel). That no conclusion is forgotten or told twice rests on
`HoldersInv` and `HandlersInv`: a minute to be told is in one handler's hands or in the slot. `ManagerInv` ties the
manager's fields to each other (so that `stop()` on a running minute need not initialise: a running minute has a word),
`MinutesInv` says that a minute that has not begun left no trace. The proof has one lemma per action, and shared lemmas
for the operations several of them use: closing a minute, selecting a word, completing a row.

`CooldownsAreRespected`, `RowIsTheManager` and `CooldownsOutliveRestarts` hold as long as the database answers; a lost
write of the row is exactly what breaks them. `CooldownInvariance` carries them: `ProcessInv` (the row is the
manager's, even before there is a word, and a stopped process leaves nothing behind), `EventTimesInv` (every event's
cooldown is of the one length, counted from its start) and `CoolingRowInv`: the row of a cooldown that lasts has a word,
without which the restore would pass it over, and reaches as far as *every* event that still cools. The last holds
since all cooldowns are equally long, so that the latest start's ends last, and it makes one row speak for all events.

`Refinement` proves `Spec => Contract!Spec`: every action is an `Open`, `Post`, `End`, `Tell` or a stutter of the
contract under the mapping, given `IInv` before and after.

`WordInvariance` proves that `IInv` survives the command line: it may write back an old row under a live bot at any
moment, and the minutes stay single, counted and concluded, because the manager trusts its memory and reads the row only
when it starts. `OrderedWordIsLoaded` proves `DownBotLoadsOrderedWord` while the database answers: a bot that is down
writes nothing (`DownInv`), so a word ordered meanwhile is still in the row when it starts (`OrderedInv`), and a row
with a word is restored before anything else happens.

**`LearningProofs`.** Of the stored messages, `RawTypeCorrect` from an invariant that says what event a handler at
each step has in hand, and that a process that is down has nothing under way. `BlockedStayOut` proves
`BlockedAuthorsStayOut` when updates name their authors: rows carry their true author (`RowsAuthored`), the users a
model was emptied of are still listed (`CleanListed`), and what a learner has fetched is free of them
(`FetchedOfRest`) - so a late insert or a failed deletion leaves a row behind, but no query returns it. `ModelFollows`
proves `ModelFollowsStore` from `CurrentOrRequested`: what is known or fetched is what the table says, or a request is
pending or lost; the lemma that carries it (`HandleReports`) says that a handler either goes on to report or leaves
every stored text alone. `EventsInTurn` proves `EventsInTurnAreStored`, updates without an author included: `Turn`
says how far the one handler of a message has brought its row (`Reached`: nothing is stored before an insert, and from
the notification on the row is what the event says); `UnblockedInv` and `AuthorsInv` keep everybody else's deletions
off it, since rows and events bear their message's author or none. The step that is not a handler's own matter is
`Process`: it changes what other goroutines have in hand, and every message one of them gets or loses by it has met
another in the group, so that it leaves `orderly`.

Of the model, `IndexesCorrect` from `IndexInv`: one goroutine writes at a time (`MutexInv`); while `Reset`
goes on, the fields it has been through are empty (`ResetInv`); a word in the map has its id, or is the one being
written (`WordsInv`); what is filed is around its word (`FiledInv`), once (`OnceInv`), and the last fragment is filed
last, which is why filing it adds what was not there.

`TheModelIsItsRows` from `RowsInvariance` and `TaughtInvariance`. A learner takes the rows behind the cursor in turn
(`PlaceInv`); of the row in hand the sentences still to come are whole, and the ids noted are those of the words already
passed (`HandInv`); the fragments, followed by those still to be added, are those the rows up to the cursor teach
followed by those of the sentences ended (`TaughtInv`). What a sentence teaches depends on the ids of its words, which
never change between resets: what was taught stays taught.

`SpeakersSpeakAsTaught` and `FailuresAreExcused` from `SpeakerInvariance`. `IntactInv`: in a whole model every fragment
is of three words that stand next to each other in a stored row. `Sound` says what a speaker may have in hand at each
step, read by read, while the learner goes on: ids it has read are those of fragments and words that are still there, a
list it took still is of the word it is at, its walk is linked and goes on from its outer end. All of that a learner
only adds to; a reset voids it, and then the speaker is among the `overtaken`. What remains is what the property
excuses: `FailuresAreExcused` is an action property, of the step at which a speaker fails.

**`MessagePipelineProofs`.** `PipelineInvariance` proves `Spec => []PipelineInv`, and with it `PipelineTypeCorrect`,
`QuietGroupReady` and `BadWordsAreKept`, for any number of messages and handlers. `SetupInv` strengthens the second:
as long as the group in use lacks its handlers or its filters, *somebody* is still at a step that will set those of
whatever group is in use then - not necessarily the one it created, which is why the claim is about the group in use
and about no other. `CleanInv` strengthens the third: no list an envelope could be read from, not the group's nor half
of a torn read, has a bad word in it, because the filter sees what the handlers said before any of it reaches the
group. `LonelyMessagesAnswered` proves `AnsweredAsAlone` from `AloneInvariance`: a message that nobody overlapped is the
only one under way, works on the group in use, and has been told exactly what the handlers before the next one say, in
their order (`Told`, by the ranks of the handlers that speak); what is in the group at the end amounts to that, through
the cancellation and the filters (`Owed`), and so is what both halves of the read yield.

**`OutgoingProofs`.** `OnlyRacesLoseTexts` and `TextsLeaveOnceInOrder`. `OutgoingInvariance` ties pointers, boxes and
locals to each other; `SingleInvariance` says that without a race there is at most one mailbox and one queue, which is
then the one in use and the one in everybody's hands. Neither property can be proved of a single box: a text is
on its way through all of them. `Lies` therefore names **where a text lies**, as a place in one of six stages: handed to
Discord, in the loop's hands, in a mailbox, grouped for a channel, collected by a schedule, in a queue. `SaidInv`: what
lies somewhere was said by somebody, for that channel, at a stage its sort of text can reach. `OnceInv`: a text lies in
one place only. `FoundInv`: what was put lies somewhere, or may be dropped. `OrderInv`: without a race, of two texts of
a channel that went into the same box the one put first is at a later stage or before the other in the same one -
texts of different stages never change their order, as a pass empties each stage before the one behind it
(`GroupedInv`: a channel has one envelope). Steps of the loop are instances of one lemma (`DownMoves`): they take what
lies at one stage, in its order, to a free place of the next. A commentator's text is the exception to all: it
names no channel, is grouped nowhere and never sent.

**`DiscordProofs`.** Of the import, `CompletedChannels`, `CountersCorrect` and `TextsUpToDate` from `BackfillInv`. A
completed channel says nothing while pages are read, so the invariant covers the way there: `CoverInv` says that every
message of the window is *behind the place* of the running import (looked at, and stored unless it must not be), on
the page, or older than the page; `SavedInv` says the same of a saved checkpoint, so that a resumption begins where a
crash cannot have left a gap, even with another window. `StatsInv` ties the counters of the run to the message in
hand, `CheckpointInv` those of the table to `inserted`. `TextInv` adds to the claim about rows that a page in hand is
up to date too, but for what was missed or overtaken.

Of the texts, `TextIsKept` proves `NothingIsLost` from `ReadInv`: `PlaceInv` says where position, start and bracket of
the piece may stand, `FoundInv` that every rune before the word in hand (`Frontier`, `SeenTo`) is in a token
found or stands before a closing bracket, and that tokens overlap only before an opening one.

`RunesKept` proves `RunesAreKept` from `TokensInv`. While the text is scanned, tokens follow one another and end by the
mark, and each rune before it is in one or is a backtick (`ScanInv`); in a text without markup a word has no blank in
it (`Bare`). While it is parsed, each letter is in a token still to come, in the word in hand, in a parsed token, or is
lost for a reason the property names, and one the parser has passed and still has in hand may be found twice only
before a bracket or a quote (`ParseInv`, `CurInv`); `KeptInv` is what that amounts to in the end. All turns of the
parser's loop are instances of one lemma, `WordMoves`: what a turn finds ends by the new mark, and what it skips is
lost for such a reason.

`MentionsLearnt` proves `MentionsReachTheModel`, in the stages a mention goes through; none of them knows of a single
mention, so each says what becomes of all of them, and the counts are compared by injections.

* Reading: `LoneInv` says that a piece which is a mention comes to its closing bracket with nothing of it made a word,
  that its token follows a space in the list, and that the text written out ends with that space when the sign is
  written behind it. So the text has a sign at the beginning, or behind a space, for each such mention (`Signs`).
* Preparing: what `TokenizePrep` trims and drops leaves every sign, and a space before it unless the sign now begins the
  text, as a run of spaces leaves its first one (`SignsPrepared`). `ContentsInv` holds what is known from there on.
* Tokenizing: `SignInv` follows each sign of a text that encloses nothing. While it is scanned, the word in hand begins
  with the sign, or a token does that follows a space; while it is parsed, the sign is in such a token, in the word in
  hand, which nothing has been made of, or in a mention parsed. No code or emoticon swallows it: the first would
  enclose something and the second has no space in it.
* Simplifying: `LearntInv` pairs, one for one, the simple tokens that are no words with the parsed tokens passed that
  are none, are not glued to a word before them and have something left when cleaned. `EndInv` is needed with it: the
  end of the text is the last parsed token, so that `GetSimpleTokenList` stops there and no earlier. A mention behind a
  space is glued to nothing.

**`GuildCacheProofs`.** `CacheFollowsHolds` proves `CacheFollowsDiscord` and `AnswersFollowHolds` proves
`AnswersFollowDiscord`, both from `CacheInv`. A cache is right only once all events are handled, so `FollowInv` says for
every entry, at any time, what will make it right: of the events still to be handled the last about it tells what
Discord has (`LastWord`); two goroutines at work on it make it one of the `overlapped` (`Alone`); and if no event about
it is still to come, what the one goroutine at work on it has yet to write is right, or what it wrote is in the cache
(`InHand`). The events of a new session tell what is there, but not what is gone: only entries not `missed` are
followed. `AnswerInv` is about what a handler was told of a member, `TrackInv` about the table of channels: a created
channel has its row, or its handler is on the way to it and nobody else is.

**`MessageRecordsProofs`.** `CountsCorrect` from `RecordingInv` (a user who is not muddled has at most one goroutine
recording, and what it has read is still in the row) and `CountsInv` (no row, and nothing about to be written, counts
more than was recorded); `BlocksCorrect` from `NamesInv`, which follows a name on its way. `FreshInv`: of a user
who is not `unsure`, every event and answer still to be stored, and the cache once none is, has the name Discord has,
since the only one under way is the latest. `HadInv` and `HadBy`: no name is kept for anybody, in the cache, a row or a
goroutine's hands, who never had it. `BlocksFor`: what a goroutine knows between the look-up and the block - that a
cached member found is sure or in doubt, and nobody else is sure; that not exactly one was found to be sure without a
doubt when the rows are asked - which is about the moment of the look-up, and kept whatever renames come after it.
`BacklogCorrect` proves `BacklogHoldsTheLatest`: while there was no overlap at most one goroutine is at work on the
backlog, which then lacks the message to be appended (`Appending`), has one too many (`Cutting`), or has at a place not
yet looked at the message before its edit (`Replacing`). The proof needed the overlap excluded from the bound on the
length as well: two goroutines that both append before either checks leave an entry too many, and as every later message
adds one and drops one, it stays for good.

**`ChancesProofs`.** `DrawsCorrect` and `LossesCorrect` from `ChancesInv`: a control belongs to one name (`RefsInv`);
any value a throw may come to be made with - that it holds, that its control holds, that another throw for the name is
about to write - is among what it has heard (`HeardInv`); a counter's value plus the throws still to be counted never
exceeds the throws (`AtMostInv`), which bounds lost updates on one side; and of a name nobody threw for twice at once
nothing is missing but what the one throw has yet to count (`AloneInv`).

Model-checked only: liveness, which with `ENABLED` is beyond the prover. Every safety property and every action property
of the runs is proved.

## 5. Not modelled

`PROJECT.json` lists every component with its status.

* The database-backed `markov` and the experimental `markov4`: reachable only from admin commands and offline tools,
  single-threaded queries and text.
* Pins (one statement per operation), simple triggers (stateless answers), the Slack driver (which the project's
  documentation calls legacy).
* HTTP and websocket traffic, formatting of replies, logging, configuration parsing: I/O.
* Of modelled components: conversion failures of single events and the learning window of `RawMessages`, the refresh of
  the list of bad words, spam counters, reactions and files in the driver, per-platform lexical tables of the
  tokenizers (data), the searches of the Markov model for several adjacent words.
* What is not composed: each module gives the others' parts as free inputs (any message at any time), which is more than
  they do; only the minute with its command line, and the driver's text with the tokenizer, are composed.
