------------------------------ MODULE Backfill ------------------------------
(***************************************************************************)
(* The import of Discord history (internal/accord/backfill.go) into the    *)
(* stored messages, with its checkpoint per channel                        *)
(* (internal/db/backfill_checkpoint.go).  It is a process of its own       *)
(* (internal/dcli/backfill_discord.go); meanwhile the bot may record, edit *)
(* and delete the same messages, or be down and miss what happens.         *)
(*                                                                         *)
(* Message ids grow with time; an id is also the message's timestamp, and  *)
(* 0 is the empty id.                                                      *)
(***************************************************************************)
EXTENDS Integers, Sequences, FiniteSets, SequencesExt

CONSTANTS
  Channels,      \* the channels to import, in the order of their ids
  LastId,        \* ids go from 1 to LastId
  MessageOf,     \* channel, author and usability of each message
  Present,       \* ids up to Present exist at the start
  PageSize,      \* messages per request: 100 in the code
  Windows,       \* starts of the lookback window
  MaxRuns,       \* bound: how often the import is started
  MaxEvents,     \* bound: new messages, edits, deletions and blocks
  MaxFaults      \* bound: requests and statements that fail

Ids == 1..LastId
ChannelIds == {Channels[i] : i \in DOMAIN Channels}
Authors == {MessageOf[m].author : m \in Ids}
Versions == {1, 2}

ASSUME BackfillConstants ==
  /\ Channels \in Seq(ChannelIds) /\ Channels # <<>>
  /\ LastId \in Nat /\ Present \in 0..LastId /\ PageSize \in Nat \ {0}
  /\ \A m \in Ids : MessageOf[m].channel \in ChannelIds /\ MessageOf[m].usable \in BOOLEAN
  /\ Windows \subseteq Nat
  /\ {MaxRuns, MaxEvents, MaxFaults} \subseteq Nat

VARIABLES
  posted,       \* the newest message of the server
  version,      \* the text of each message: 2 once edited
  deleted,      \* messages deleted on Discord
  rows,         \* raw_messages_discord: the stored text of each stored message
  blocked,      \* the block list
  checkpoints,  \* discord_backfill_checkpoints
  run,          \* the import: where it is, and its locals
  runs, events, faults,
  seen,         \* history: what existed when each channel was last begun afresh
  everBlocked,  \* history: users who have been blocked
  missed,       \* history: messages edited or deleted while the bot was down
  overtaken,    \* history: messages deleted while the import had them in hand
  inserted      \* history: the rows each channel's import added, in all

vars == <<posted, version, deleted, rows, blocked, checkpoints, run, runs, events, faults,
          seen, everBlocked, missed, overtaken, inserted>>
server == <<posted, version, deleted, blocked, everBlocked, missed, overtaken, events>>

(***************************************************************************)
(* DiscordBackfillCheckpoint, without names, texts of errors and times     *)
(* that nothing reads.                                                     *)
(***************************************************************************)
NoStats == [fetched |-> 0, stored |-> 0, duplicate |-> 0, unusable |-> 0, old |-> 0]
Stats == [fetched : Nat, stored : Nat, duplicate : Nat, unusable : Nat, old : Nat]
Checkpoint == [status : {"none", "in_progress", "failed", "completed"},
               before : 0..LastId, since : Nat, stats : Stats]
NoCheckpoint == [status |-> "none", before |-> 0, since |-> 0, stats |-> NoStats]

Entry == [id : Ids, version : Versions]
Run == [at : {"off", "seed", "load", "fetch", "handle", "record"},
        channels : Seq(ChannelIds), since : Nat, checkpoint : Checkpoint, stats : Stats,
        page : Seq(Entry), full : BOOLEAN, last : 0..LastId, older : BOOLEAN]

Off == [at |-> "off", channels |-> <<>>, since |-> 0, checkpoint |-> NoCheckpoint,
        stats |-> NoStats, page |-> <<>>, full |-> FALSE, last |-> 0, older |-> FALSE]

Init ==
  /\ posted = Present /\ version = [m \in Ids |-> 1] /\ deleted = {}
  /\ rows \in {[m \in S |-> 1] : S \in SUBSET {m \in 1..Present : MessageOf[m].usable}}
  /\ blocked = {} /\ everBlocked = {}
  /\ checkpoints = [c \in ChannelIds |-> NoCheckpoint]
  /\ run = Off /\ runs = 0 /\ events = 0 /\ faults = 0
  /\ seen = [c \in ChannelIds |-> {}]
  /\ missed = {} /\ overtaken = {}
  /\ inserted = [c \in ChannelIds |-> 0]

At(step) == run.at = step
Channel == Head(run.channels)
Fails == faults < MaxFaults /\ faults' = faults + 1
Works == UNCHANGED faults

----------------------------------------------------------------------------
(***************************************************************************)
(* Users, and what the bot does about them when it is up (handled in       *)
(* detail in RawMessages): a new message is recorded unless its author is  *)
(* blocked, an edit is stored, a deletion removes the row, and a blocked   *)
(* author's rows are deleted.                                              *)
(***************************************************************************)
Without(ids) == [m \in DOMAIN rows \ ids |-> rows[m]]
With(m, v) == [k \in DOMAIN rows \cup {m} |-> IF k = m THEN v ELSE rows[k]]
Wanted(m) == MessageOf[m].usable /\ MessageOf[m].author \notin blocked
InHand == ToSet([i \in DOMAIN run.page |-> run.page[i].id])

Event == events < MaxEvents /\ events' = events + 1

Post ==
  /\ Event /\ posted < LastId
  /\ posted' = posted + 1
  /\ \E botUp \in BOOLEAN :
       rows' = IF botUp /\ Wanted(posted') THEN With(posted', 1) ELSE rows
  /\ UNCHANGED <<version, deleted, blocked, everBlocked, missed, overtaken,
                 checkpoints, run, runs, faults, seen, inserted>>

Edit(m) ==
  /\ Event /\ m <= posted /\ m \notin deleted /\ version[m] = 1
  /\ version' = [version EXCEPT ![m] = 2]
  /\ \E botUp \in BOOLEAN :
       /\ rows' = IF botUp /\ Wanted(m) THEN With(m, 2) ELSE rows
       /\ missed' = IF botUp /\ Wanted(m) THEN missed ELSE missed \cup {m}
  /\ UNCHANGED <<posted, deleted, blocked, everBlocked, overtaken,
                 checkpoints, run, runs, faults, seen, inserted>>

Delete(m) ==
  /\ Event /\ m <= posted /\ m \notin deleted
  /\ deleted' = deleted \cup {m}
  /\ overtaken' = IF m \in InHand THEN overtaken \cup {m} ELSE overtaken
  /\ \E botUp \in BOOLEAN :
       /\ rows' = IF botUp THEN Without({m}) ELSE rows
       /\ missed' = IF botUp THEN missed ELSE missed \cup {m}
  /\ UNCHANGED <<posted, version, blocked, everBlocked,
                 checkpoints, run, runs, faults, seen, inserted>>

Block(u) ==
  /\ Event /\ u \notin blocked
  /\ blocked' = blocked \cup {u} /\ everBlocked' = everBlocked \cup {u}
  /\ rows' = Without({m \in Ids : MessageOf[m].author = u})
  /\ UNCHANGED <<posted, version, deleted, missed, overtaken,
                 checkpoints, run, runs, faults, seen, inserted>>

Users == Post \/ (\E m \in Ids : Edit(m) \/ Delete(m)) \/ (\E u \in Authors : Block(u))

----------------------------------------------------------------------------
(***************************************************************************)
(* BackfillHistory(): one channel after the other; a channel that fails is *)
(* logged and left.                                                        *)
(***************************************************************************)
NextOfAllChannels(r) ==   \* mutant: the channel stays in the list
  [Off EXCEPT !.at = "seed", !.channels = r.channels, !.since = r.since]
NextChannel(r) ==
  IF Len(r.channels) <= 1 THEN Off
  ELSE [Off EXCEPT !.at = "seed", !.channels = Tail(r.channels), !.since = r.since]

UpsertCheckpoint(cp) == checkpoints' = [checkpoints EXCEPT ![Channel] = cp]

BackfillDiscordHistory ==
  /\ At("off") /\ runs < MaxRuns
  /\ runs' = runs + 1
  /\ \E since \in Windows :
       /\ \A c \in ChannelIds : checkpoints[c].since <= since
       /\ run' = [Off EXCEPT !.at = "seed", !.channels = Channels, !.since = since]
  /\ UNCHANGED <<server, rows, checkpoints, faults, seen, inserted>>

SeedGuildCache ==
  /\ At("seed")
  /\ \/ /\ Works
        /\ run' = [run EXCEPT !.at = "load"]
        /\ UNCHANGED checkpoints
     \/ /\ Fails
        /\ run' = NextChannel(run)
        /\ \/ UpsertCheckpoint([NoCheckpoint EXCEPT !.status = "failed", !.since = run.since])
           \/ UNCHANGED checkpoints
  /\ UNCHANGED <<server, rows, runs, seen, inserted>>

(***************************************************************************)
(* backfillChannelHistory(): go on where an import of the channel stopped  *)
(* or failed, with the window of today; otherwise begin afresh.            *)
(***************************************************************************)
ToResume(cp) == cp.status \in {"in_progress", "failed"}

ResumedCountingAgain(cp, since) ==   \* mutant: only the place and what was stored are kept
  [NoCheckpoint EXCEPT !.status = "in_progress", !.since = since,
     !.before = IF ToResume(cp) THEN cp.before ELSE 0,
     !.stats.stored = IF ToResume(cp) THEN cp.stats.stored ELSE 0]
Resumed(cp, since) ==
  IF ToResume(cp) THEN [cp EXCEPT !.status = "in_progress", !.since = since]
  ELSE [NoCheckpoint EXCEPT !.status = "in_progress", !.since = since]

LoadCheckpoint ==
  /\ At("load")
  /\ LET cp == Resumed(checkpoints[Channel], run.since)
     IN \/ /\ Works
           /\ UpsertCheckpoint(cp)
           /\ run' = [run EXCEPT !.at = "fetch", !.checkpoint = cp, !.stats = cp.stats]
        \/ /\ Fails
           /\ run' = NextChannel(run)
           /\ UNCHANGED checkpoints
  /\ UNCHANGED <<server, rows, runs, seen, inserted>>

(***************************************************************************)
(* ChannelMessages(): the newest messages before an id, newest first.      *)
(***************************************************************************)
Existing(c) == {m \in 1..posted : MessageOf[m].channel = c /\ m \notin deleted}

Newest(ids) ==
  LET size == IF Cardinality(ids) < PageSize THEN Cardinality(ids) ELSE PageSize
      nth(i) == CHOOSE m \in ids : Cardinality({k \in ids : k > m}) = i - 1
  IN [i \in 1..size |-> [id |-> nth(i), version |-> version[nth(i)]]]

PageBefore(c, before) == Newest({m \in Existing(c) : before = 0 \/ m < before})

Completed(cp, stats) == [cp EXCEPT !.status = "completed", !.before = 0, !.stats = stats]

FetchPageSavingPlace ==   \* mutant: the place is saved before the page is handled
  /\ At("fetch") /\ PageBefore(Channel, run.checkpoint.before) # <<>>
  /\ Works
  /\ LET page == PageBefore(Channel, run.checkpoint.before)
         cp == [run.checkpoint EXCEPT !.before = page[Len(page)].id]
     IN /\ run' = [run EXCEPT !.at = "handle", !.page = page, !.last = page[Len(page)].id,
                              !.full = Len(page) = PageSize, !.older = FALSE, !.checkpoint = cp]
        /\ UpsertCheckpoint(cp)
  /\ seen' = IF run.checkpoint.before = 0 THEN [seen EXCEPT ![Channel] = Existing(Channel)] ELSE seen
  /\ UNCHANGED <<server, rows, runs, inserted>>
FetchPage ==
  /\ At("fetch") /\ PageBefore(Channel, run.checkpoint.before) # <<>>
  /\ Works
  /\ LET page == PageBefore(Channel, run.checkpoint.before)
     IN run' = [run EXCEPT !.at = "handle", !.page = page, !.last = page[Len(page)].id,
                           !.full = Len(page) = PageSize, !.older = FALSE]
  /\ seen' = IF run.checkpoint.before = 0 THEN [seen EXCEPT ![Channel] = Existing(Channel)] ELSE seen
  /\ UNCHANGED <<server, rows, checkpoints, runs, inserted>>

FetchNothing ==
  /\ At("fetch") /\ PageBefore(Channel, run.checkpoint.before) = <<>>
  /\ \/ Works /\ UpsertCheckpoint(Completed(run.checkpoint, run.stats))
     \/ Fails /\ UNCHANGED checkpoints
  /\ seen' = IF run.checkpoint.before = 0 THEN [seen EXCEPT ![Channel] = {}] ELSE seen
  /\ run' = NextChannel(run)
  /\ UNCHANGED <<server, rows, runs, inserted>>

FetchFails ==
  /\ At("fetch")
  /\ Fails
  /\ \/ UpsertCheckpoint([run.checkpoint EXCEPT !.status = "failed"])
     \/ UNCHANGED checkpoints
  /\ run' = NextChannel(run)
  /\ UNCHANGED <<server, rows, runs, seen, inserted>>

(***************************************************************************)
(* One message of the page: too old, not usable, by a blocked author, or   *)
(* recorded.  The block list is asked in one statement and the row         *)
(* inserted in another; a statement that fails answers "not blocked"       *)
(* (IsRawMessageUserBlocked), and the message goes on to be recorded.      *)
(***************************************************************************)
Message == Head(run.page)
Counts(stats, counters) == [k \in DOMAIN stats |-> stats[k] + (IF k \in counters THEN 1 ELSE 0)]

HandleMessage ==
  /\ At("handle") /\ run.page # <<>>
  /\ LET m == Message.id
         next == [run EXCEPT !.page = Tail(@)]
     IN \/ /\ m < run.since
           /\ Works
           /\ run' = [next EXCEPT !.stats = Counts(@, {"old"}), !.older = TRUE]
        \/ /\ m >= run.since /\ ~Wanted(m)
           /\ Works
           /\ run' = [next EXCEPT !.stats = Counts(@, {"fetched", "unusable"})]
        \/ /\ m >= run.since
           /\ \/ Wanted(m) /\ Works
              \/ MessageOf[m].usable /\ Fails
           /\ run' = [run EXCEPT !.at = "record", !.stats = Counts(@, {"fetched"})]
  /\ UNCHANGED <<server, rows, checkpoints, runs, seen, inserted>>

(***************************************************************************)
(* RecordRawDiscordMessageAt() inserts what is not there.  When the bot    *)
(* inserts the same message in between, the unique index rejects it and    *)
(* the import panics: one of the crashes below.                            *)
(***************************************************************************)
RecordUpdating ==   \* mutant: an existing row is overwritten
  /\ At("record")
  /\ LET m == Message.id
     IN /\ rows' = With(m, Message.version)
        /\ inserted' = [inserted EXCEPT ![Channel] = @ + 1]
        /\ run' = [run EXCEPT !.at = "handle", !.page = Tail(@), !.stats = Counts(@, {"stored"})]
  /\ UNCHANGED <<server, checkpoints, runs, faults, seen>>
Record ==
  /\ At("record")
  /\ LET m == Message.id
         new == m \notin DOMAIN rows
     IN /\ rows' = IF new THEN With(m, Message.version) ELSE rows
        /\ inserted' = [inserted EXCEPT ![Channel] = @ + (IF new THEN 1 ELSE 0)]
        /\ run' = [run EXCEPT !.at = "handle", !.page = Tail(@),
                              !.stats = Counts(@, {IF new THEN "stored" ELSE "duplicate"})]
  /\ UNCHANGED <<server, checkpoints, runs, faults, seen>>

(***************************************************************************)
(* The end of a page: the place and the counters are saved together, and   *)
(* the channel is complete when the page reached beyond the window or was  *)
(* not full.                                                               *)
(***************************************************************************)
Done == run.older \/ ~run.full

After(cp, last, stats) ==
  IF Done THEN Completed(cp, stats)
  ELSE [cp EXCEPT !.status = "in_progress", !.before = last, !.stats = stats]

SavePage ==
  /\ At("handle") /\ run.page = <<>>
  /\ LET cp == After(run.checkpoint, run.last, run.stats)
     IN \/ /\ Works
           /\ UpsertCheckpoint(cp)
           /\ run' = IF Done THEN NextChannel(run)
                     ELSE [run EXCEPT !.at = "fetch", !.checkpoint = cp, !.last = 0, !.full = FALSE]
        \/ /\ Fails
           /\ run' = NextChannel(run)
           /\ UNCHANGED checkpoints
  /\ UNCHANGED <<server, rows, runs, seen, inserted>>

Crash ==
  /\ ~At("off")
  /\ run' = Off
  /\ UNCHANGED <<server, rows, checkpoints, runs, faults, seen, inserted>>

Import ==
  \/ SeedGuildCache \/ LoadCheckpoint \/ FetchPage \/ FetchNothing \/ FetchFails
  \/ HandleMessage \/ Record \/ SavePage

Next == Users \/ BackfillDiscordHistory \/ Import \/ Crash

Spec == Init /\ [][Next]_vars

(***************************************************************************)
(* The import is run by its own process; nobody has to start it.           *)
(***************************************************************************)
FairSpec == Spec /\ WF_vars(Import)

----------------------------------------------------------------------------
(***************************************************************************)
(* Type invariant.                                                         *)
(***************************************************************************)
BackfillTypeOK ==
  /\ posted \in 0..LastId /\ version \in [Ids -> Versions] /\ deleted \subseteq 1..posted
  /\ rows \in [DOMAIN rows -> Versions] /\ DOMAIN rows \subseteq 1..posted
  /\ blocked \subseteq everBlocked /\ everBlocked \subseteq Authors
  /\ checkpoints \in [ChannelIds -> Checkpoint]
  /\ run \in Run
  /\ ~At("off") => run.channels # <<>>
  /\ At("record") => run.page # <<>>
  /\ {runs, events, faults} \subseteq Nat
  /\ seen \in [ChannelIds -> SUBSET (1..posted)]
  /\ missed \subseteq 1..posted /\ overtaken \subseteq 1..posted
  /\ inserted \in [ChannelIds -> Nat]

(***************************************************************************)
(* A channel whose checkpoint says completed has every usable message of   *)
(* the window that existed when its import was last begun from the newest  *)
(* message, unless deleted since or by a user who was blocked: whatever    *)
(* requests and statements failed, wherever the process stopped, and with  *)
(* whatever window it was resumed (backfillChannelHistory).                *)
(***************************************************************************)
CompletedIsComplete ==
  \A c \in ChannelIds : checkpoints[c].status = "completed" =>
    \A m \in seen[c] :
      \/ m < checkpoints[c].since \/ ~MessageOf[m].usable \/ m \in deleted
      \/ MessageOf[m].author \in everBlocked
      \/ m \in DOMAIN rows

(***************************************************************************)
(* The counters of every saved checkpoint add up, and claim no row that    *)
(* the import did not insert, also when pages are repeated after a crash   *)
(* (HistoryBackfillStats, DiscordBackfillCheckpoint).                      *)
(***************************************************************************)
CountersAddUp ==
  \A c \in ChannelIds :
    LET stats == checkpoints[c].stats
    IN /\ stats.fetched = stats.stored + stats.duplicate + stats.unusable
       /\ stats.stored <= inserted[c]

(***************************************************************************)
(* A stored text is what Discord says: an import running beside the bot    *)
(* never brings back an old text or a deleted message, unless the bot      *)
(* missed the edit or deletion, the message was deleted while the import   *)
(* had it in hand, or its author is blocked (RecordRawDiscordMessageAt).   *)
(***************************************************************************)
StoredAsDiscordSays ==
  \A m \in DOMAIN rows :
    \/ m \in missed \cup overtaken
    \/ MessageOf[m].author \in blocked
    \/ rows[m] = version[m] /\ m \notin deleted

(***************************************************************************)
(* Every import ends, while people go on writing: each page lies before    *)
(* the one before it (beforeID).                                           *)
(***************************************************************************)
ImportsEnd == ~At("off") ~> At("off")
=============================================================================
