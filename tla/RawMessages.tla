----------------------------- MODULE RawMessages -----------------------------
(***************************************************************************)
(* What the bot stores of Discord's messages (raw_messages_discord), whose *)
(* messages it must not keep (raw_message_user_blocklist), and the Markov  *)
(* model it learns from the stored rows.                                   *)
(*                                                                         *)
(* Every message_create, message_update and message_delete event, and      *)
(* every "!blocklist" command, is handled by a goroutine of its own, so    *)
(* the statements of two handlers interleave.  A statement is one action,  *)
(* except the two that insert a row if none exists: Postgres looks for the *)
(* row in a snapshot and draws an id, and only then inserts, which fails   *)
(* when another transaction has inserted the message meanwhile (the unique *)
(* index on message_id).  A failed statement of this kind panics, and      *)
(* nothing recovers the panic of an event handler: the process dies.       *)
(*                                                                         *)
(* A learner reads the rows with one query and then adds them to the model *)
(* one by one; the learning lock admits one learner at a time.  Changes of *)
(* stored rows ask for a rebuild, which starts unless one is under way.    *)
(*                                                                         *)
(* All messages go through one MessageTriggerGroup, which keeps the one it *)
(* processes in a field: a handler is given the message that is there when *)
(* its turn comes, and another may have replaced the one it was called     *)
(* for.  Of the handlers in the group those up to the recorder are here,   *)
(* and the block list's; the group itself is MessagePipeline's.            *)
(*                                                                         *)
(* Messages are of one server, rows stay within the learning window, and   *)
(* texts are longer than a byte.                                           *)
(***************************************************************************)
EXTENDS Naturals

CONSTANTS
    Messages,          \* Discord's message ids
    Users,
    AuthorOf,          \* who writes a message
    Texts,             \* what a message says, other than nothing
    BadTexts,          \* texts with a bad word
    LearningMessages,  \* messages of channels the bot learns from
    Tasks,             \* the goroutines that handle events
    EventKinds,        \* the kinds of event that arrive
    PartialUpdates,    \* whether an update may come without its author
    DbMayFail,         \* whether statements whose errors are handled may fail
    MaxCrashes,        \* bound: how often the process is killed
    None

Kinds == {"create", "update", "delete", "block", "unblock"}

ASSUME RawConstants ==
    /\ AuthorOf \in [Messages -> Users]
    /\ BadTexts \subseteq Texts
    /\ LearningMessages \subseteq Messages
    /\ EventKinds \subseteq Kinds
    /\ PartialUpdates \in BOOLEAN /\ DbMayFail \in BOOLEAN
    /\ MaxCrashes \in Nat
    /\ None \notin Messages \cup Users \cup Texts

VARIABLES
    rows,      \* the table, by message_id; None where there is no row
    nextId,    \* the sequence that numbers the rows
    blocked,   \* the block list
    ev,        \* the event whose message a goroutine has in hand
    pc,        \* where its handler stands
    drawn,     \* the row id its pending insert has drawn
    ready,     \* the group is set up, and nobody is left who found it unfinished
    m3,        \* the Markov model: the texts learned, and lastRawMessageID
    fetched,   \* the rows the learner's query returned
    learning,  \* whether an incremental learner holds the learning lock
    rebuild,   \* the rebuild goroutine; rebuildBusy unless "idle"
    running, crashes,
    life,      \* Discord: whether a message is unsent, live or deleted
    expected,  \* history: the text m's events, handled in turn, leave stored
    orderly,   \* history: the messages whose events were handled in turn, and met
               \* no other message in the group
    clean,     \* history: the users blocked when the model was last emptied
    lost       \* history: a rebuild was asked for and not begun since the query

dbVars      == <<rows, nextId, blocked>>
taskVars    == <<ev, pc, drawn, ready>>
modelVars   == <<m3, fetched, learning, rebuild>>
processVars == <<running, crashes>>
discordVars == <<life, expected, orderly>>
rawVars == <<rows, nextId, blocked, ev, pc, drawn, ready, m3, fetched, learning,
             rebuild, running, crashes, life, expected, orderly, clean, lost>>

-----------------------------------------------------------------------------
(* Types *)

Row     == [id : Nat, author : Users \cup {None}, text : Texts]
Event   == [kind : Kinds, message : Messages \cup {None}, user : Users \cup {None},
            text : Texts \cup {None}]

ASSUME NoneIsNoStoredRow == None \notin Row
ASSUME NoneIsNoEvent == None \notin Event

Learned == [message : Messages, text : Texts]
Fetched == [message : Messages, text : Texts, id : Nat]
Steps   == {"new", "syncCheck", "sync", "syncInsert", "purge", "notify",
            "process", "preBadWords", "recordCheck", "record", "insert",
            "block", "purgeAuthor", "unblock", "done"}

RawTypeOK ==
    /\ rows \in [Messages -> Row \cup {None}]
    /\ nextId \in Nat
    /\ blocked \subseteq Users
    /\ ev \in [Tasks -> Event \cup {None}]
    /\ pc \in [Tasks -> Steps]
    /\ drawn \in [Tasks -> Nat]
    /\ ready \in BOOLEAN
    /\ m3 \in [texts : SUBSET Learned, last : Nat]
    /\ fetched \subseteq Fetched
    /\ learning \in BOOLEAN
    /\ rebuild \in {"idle", "waiting", "learning", "finishing"}
    /\ running \in BOOLEAN /\ crashes \in Nat
    /\ life \in [Messages -> {"unsent", "live", "deleted"}]
    /\ expected \in [Messages -> Texts \cup {None}]
    /\ orderly \subseteq Messages
    /\ clean \subseteq Users
    /\ lost \in BOOLEAN

EmptyModel == [texts |-> {}, last |-> 0]

RawInit ==
    /\ rows = [m \in Messages |-> None] /\ nextId = 1 /\ blocked = {}
    /\ ev = [t \in Tasks |-> None]
    /\ pc = [t \in Tasks |-> "new"]
    /\ drawn = [t \in Tasks |-> 0]
    /\ ready = FALSE
    /\ m3 = EmptyModel /\ fetched = {} /\ learning = FALSE /\ rebuild = "idle"
    /\ running = FALSE /\ crashes = 0
    /\ life = [m \in Messages |-> "unsent"]
    /\ expected = [m \in Messages |-> None]
    /\ orderly = Messages
    /\ clean = {} /\ lost = FALSE

-----------------------------------------------------------------------------
(* The store *)

Stored(m) == rows[m] # None

\* IsRawMessageUserBlocked(): a query that fails, or an unknown author, is not
\* blocked.
AnsweredBlocked(u) ==
    {answer \in BOOLEAN : answer = (u \in blocked) \/ (DbMayFail /\ ~answer)}

\* The rows a learner asks for.
\* Mutant: whoever wrote them.
SelectedOfAll(last) ==
    {[message |-> m, text |-> rows[m].text, id |-> rows[m].id] :
       m \in {n \in LearningMessages : Stored(n) /\ rows[n].id > last}}

Selected(last) ==
    {[message |-> m, text |-> rows[m].text, id |-> rows[m].id] :
       m \in {n \in LearningMessages : /\ Stored(n)
                                       /\ rows[n].id > last
                                       /\ rows[n].author \notin blocked}}

\* Deleting a message's row, and a user's rows.
Without(ms) == [m \in Messages |-> IF m \in ms THEN None ELSE rows[m]]
WrittenBy(u) == {m \in Messages : Stored(m) /\ rows[m].author = u}

-----------------------------------------------------------------------------
(* Events arrive *)

\* What Discord may send next, and whose it says a message is: an update may
\* leave the author out, a deletion always does.
Happens(e) ==
    /\ e.kind \in EventKinds
    /\ IF e.kind \in {"block", "unblock"}
       THEN e.message = None /\ e.user # None /\ e.text = None
       ELSE /\ e.message # None
            /\ life[e.message] = IF e.kind = "create" THEN "unsent" ELSE "live"
            /\ e.kind = "create" => e.text # None
            /\ e.kind = "delete" => e.text = None
            /\ \/ e.kind # "delete" /\ e.user = AuthorOf[e.message]
               \/ e.kind = "delete" /\ e.user = None
               \/ e.kind = "update" /\ e.user = None /\ PartialUpdates

\* The step after the early returns.
FirstStep(e) ==
    CASE e.kind = "create" -> "process"
      [] e.kind = "update" -> IF e.text = None THEN "purge" ELSE "syncCheck"
      [] e.kind = "delete" -> "purge"
      [] OTHER             -> e.kind

\* The step after a mutation and its notification: an update with a text is
\* handled like a new message, the others are over.
After(e) ==
    IF e.kind = "update" /\ e.text # None THEN "process" ELSE "done"

\* What an event should leave stored: of a new message with a bad word nothing.
Leaves(e) == IF e.kind = "create" /\ e.text \in BadTexts THEN None ELSE e.text

InTurn(e) == \A t \in Tasks : ev[t] # None => ev[t].message # e.message

\* A goroutine of its own for each event; which one does not matter.
Receive(t) ==
    /\ running /\ pc[t] = "new" /\ t = CHOOSE u \in Tasks : pc[u] = "new"
    /\ \E e \in Event :
          /\ Happens(e)
          /\ pc' = [pc EXCEPT ![t] = FirstStep(e)]
          /\ ev' = [ev EXCEPT ![t] = e]
          /\ IF e.kind \in {"block", "unblock"}
             THEN /\ orderly' = {m \in orderly : AuthorOf[m] # e.user}
                  /\ UNCHANGED <<life, expected>>
             ELSE /\ life' = [life EXCEPT ![e.message] =
                                IF e.kind = "delete" THEN "deleted" ELSE "live"]
                  /\ expected' = [expected EXCEPT ![e.message] = Leaves(e)]
                  /\ orderly' = IF InTurn(e) THEN orderly ELSE orderly \ {e.message}
    /\ UNCHANGED <<dbVars, drawn, ready, modelVars, processVars, clean, lost>>

-----------------------------------------------------------------------------
(* The handlers, statement by statement *)

\* A handler goes on to a step, or is over and forgotten.
Goto(t, step) ==
    /\ pc' = [pc EXCEPT ![t] = step]
    /\ ev' = IF step = "done" THEN [ev EXCEPT ![t] = None] ELSE ev

Elsewhere == <<ready, modelVars, processVars, discordVars, clean, lost>>

\* mtg.message is what the goroutines in the group, up to the recorder, will be
\* given: Process() puts its message into the hands of all of them.
Given   == {"preBadWords", "recordCheck"}
InGroup == Given \cup {"process"}
OthersAt(t, steps) == {u \in Tasks \ {t} : pc[u] \in steps}

\* Process(): while the group is being set up a goroutine may have one of its own,
\* which keeps its message.
Process(t) ==
    /\ pc[t] = "process"
    /\ \E misled \in SUBSET OthersAt(t, Given) :
          /\ ready => misled = OthersAt(t, Given)
          /\ ev' = [u \in Tasks |-> IF u \in misled THEN ev[t] ELSE ev[u]]
    /\ pc' = [pc EXCEPT ![t] = "preBadWords"]
    /\ ready' = (ready \/ OthersAt(t, InGroup) = {})
    /\ orderly' = IF OthersAt(t, Given) = {} THEN orderly
                  ELSE orderly \ {ev[u].message : u \in OthersAt(t, Given) \cup {t}}
    /\ UNCHANGED <<dbVars, drawn, modelVars, processVars, life, expected, clean, lost>>

\* incomingMessageHandler(): a message that comes while another sets the group up
\* may find no handlers in it.
Unfinished(t) ==
    /\ pc[t] = "process" /\ ~ready /\ OthersAt(t, {"process"}) # {}
    /\ orderly' = orderly \ {ev[t].message}
    /\ Goto(t, "done")
    /\ UNCHANGED <<dbVars, drawn, ready, modelVars, processVars, life, expected,
                   clean, lost>>

\* Handlers run in order, and a bad word goes no further than the first.
PreBadWords(t) ==
    /\ pc[t] = "preBadWords"
    /\ Goto(t, IF ev[t].text \in BadTexts THEN "done" ELSE "recordCheck")
    /\ UNCHANGED <<dbVars, drawn, Elsewhere>>

\* rawMessageRecorder(): the channel and the block list, then the insert.
RecordCheck(t) ==
    /\ pc[t] = "recordCheck"
    /\ \E isBlocked \in AnsweredBlocked(ev[t].user) :
          Goto(t, IF ev[t].message \in LearningMessages /\ ~isBlocked
                  THEN "record" ELSE "done")
    /\ UNCHANGED <<dbVars, drawn, Elsewhere>>

\* The snapshot of an insert shows no row: an id is drawn.
DrawId(t) ==
    /\ ~Stored(ev[t].message)
    /\ drawn' = [drawn EXCEPT ![t] = nextId]
    /\ nextId' = nextId + 1
    /\ UNCHANGED <<rows, blocked>>

\* RecordRawDiscordMessage(): an existing row only learns its author.
Record(t) ==
    LET m == ev[t].message IN
    /\ pc[t] = "record"
    /\ \/ DrawId(t) /\ Goto(t, "insert")
       \/ /\ Stored(m)
          /\ rows' = [rows EXCEPT ![m].author = IF @ = None THEN ev[t].user ELSE @]
          /\ Goto(t, "done")
          /\ UNCHANGED <<nextId, blocked, drawn>>
    /\ UNCHANGED Elsewhere

\* The insert goes through if no other has stored the message meanwhile.
Inserted(t, next) ==
    LET m == ev[t].message IN
    /\ ~Stored(m)
    /\ rows' = [rows EXCEPT ![m] =
                  [id |-> drawn[t], author |-> ev[t].user, text |-> ev[t].text]]
    /\ drawn' = [drawn EXCEPT ![t] = 0]
    /\ Goto(t, next)
    /\ UNCHANGED <<nextId, blocked, Elsewhere>>

Insert(t) == pc[t] = "insert" /\ Inserted(t, "done")

\* shouldSyncDiscordUpdateMessage(): otherwise the row is deleted.
SyncCheck(t) ==
    /\ pc[t] = "syncCheck"
    /\ \E isBlocked \in AnsweredBlocked(ev[t].user) :
          Goto(t, IF ev[t].message \in LearningMessages /\ ~isBlocked
                  THEN "sync" ELSE "purge")
    /\ UNCHANGED <<dbVars, drawn, Elsewhere>>

\* Mutant: an update is recorded like a new message.
SyncLikeRecord(t) ==
    /\ pc[t] = "sync"
    /\ \/ DrawId(t) /\ Goto(t, "syncInsert")
       \/ /\ Stored(ev[t].message)
          /\ Goto(t, "notify")
          /\ UNCHANGED <<dbVars, drawn>>
    /\ UNCHANGED Elsewhere

\* SyncRawDiscordMessage(): an existing row keeps its id, and its author if the
\* update names none.
Sync(t) ==
    LET m == ev[t].message IN
    /\ pc[t] = "sync"
    /\ \/ DrawId(t) /\ Goto(t, "syncInsert")
       \/ /\ Stored(m)
          /\ rows' = [rows EXCEPT ![m].text = ev[t].text,
                                  ![m].author = IF ev[t].user = None THEN @ ELSE ev[t].user]
          /\ Goto(t, "notify")
          /\ UNCHANGED <<nextId, blocked, drawn>>
    /\ UNCHANGED Elsewhere

SyncInsert(t) == pc[t] = "syncInsert" /\ Inserted(t, "notify")

\* Mutant: a deletion is not reported.
PurgeSilently(t) ==
    /\ pc[t] = "purge"
    /\ rows' = Without({ev[t].message})
    /\ Goto(t, After(ev[t]))
    /\ UNCHANGED <<nextId, blocked, drawn, Elsewhere>>

\* DeleteRawDiscordMessage(): only a row that was there is worth a rebuild.
Purge(t) ==
    LET m == ev[t].message IN
    /\ pc[t] = "purge"
    /\ rows' = Without({m})
    /\ Goto(t, IF Stored(m) THEN "notify" ELSE After(ev[t]))
    /\ UNCHANGED <<nextId, blocked, drawn, Elsewhere>>

\* "!blocklist add": the user is listed, the rows deleted, a rebuild asked for;
\* an error of either statement ends the handler.
Block(t) ==
    /\ pc[t] = "block"
    /\ \/ blocked' = blocked \cup {ev[t].user} /\ Goto(t, "purgeAuthor")
       \/ DbMayFail /\ UNCHANGED blocked /\ Goto(t, "done")
    /\ UNCHANGED <<rows, nextId, drawn, Elsewhere>>

PurgeAuthor(t) ==
    /\ pc[t] = "purgeAuthor"
    /\ \/ rows' = Without(WrittenBy(ev[t].user)) /\ Goto(t, "notify")
       \/ DbMayFail /\ UNCHANGED rows /\ Goto(t, "done")
    /\ UNCHANGED <<nextId, blocked, drawn, Elsewhere>>

\* "!blocklist remove".
Unblock(t) ==
    /\ pc[t] = "unblock"
    /\ \/ /\ blocked' = blocked \ {ev[t].user}
          /\ clean' = clean \ {ev[t].user}
          /\ Goto(t, "notify")
       \/ DbMayFail /\ UNCHANGED <<blocked, clean>> /\ Goto(t, "done")
    /\ UNCHANGED <<rows, nextId, drawn, ready, modelVars, processVars,
                   discordVars, lost>>

\* markovV3RebuildAsync(): a request is dropped while a rebuild is under way,
\* even one that has already read the rows.
Notify(t) ==
    /\ pc[t] = "notify"
    /\ rebuild' = IF rebuild = "idle" THEN "waiting" ELSE rebuild
    /\ lost' = (lost \/ rebuild \in {"learning", "finishing"})
    /\ Goto(t, After(ev[t]))
    /\ UNCHANGED <<dbVars, drawn, ready, m3, fetched, learning, processVars,
                   discordVars, clean>>

Handle(t) ==
    \/ Process(t) \/ Unfinished(t) \/ PreBadWords(t)
    \/ RecordCheck(t) \/ Record(t) \/ Insert(t)
    \/ SyncCheck(t) \/ Sync(t) \/ SyncInsert(t) \/ Purge(t)
    \/ Block(t) \/ PurgeAuthor(t) \/ Unblock(t) \/ Notify(t)

-----------------------------------------------------------------------------
(* The learners *)

\* What the loop over a query's rows may make of a model: all of them are
\* learned, or those before one that cannot be read.
LearnedFrom(known, found) ==
    {[last  |-> last,
      texts |-> known.texts \cup {[message |-> f.message, text |-> f.text] :
                                    f \in {g \in found : g.id <= last}}] :
       last \in {n \in {known.last} \cup {f.id : f \in found} :
                   DbMayFail \/ \A f \in found : f.id <= n}}

\* markovV3Learn(), when the model has not learned for an hour: the new rows.
LearnQuery ==
    /\ running /\ ~learning /\ rebuild # "learning"
    /\ learning' = TRUE
    /\ fetched' = Selected(m3.last)
    /\ UNCHANGED <<dbVars, taskVars, m3, rebuild, processVars, discordVars,
                   clean, lost>>

LearnRows ==
    /\ learning
    /\ m3' \in LearnedFrom(m3, fetched)
    /\ fetched' = {}
    /\ learning' = FALSE
    /\ UNCHANGED <<dbVars, taskVars, rebuild, processVars, discordVars, clean, lost>>

\* markovV3Rebuild(): the model is emptied and learned anew.
\* Mutant: the model is not emptied.
RebuildWithoutReset ==
    /\ rebuild = "waiting" /\ ~learning
    /\ rebuild' = "learning"
    /\ fetched' = Selected(0)
    /\ clean' = blocked /\ lost' = FALSE
    /\ UNCHANGED <<dbVars, taskVars, m3, learning, processVars, discordVars>>

RebuildQuery ==
    /\ rebuild = "waiting" /\ ~learning
    /\ rebuild' = "learning"
    /\ m3' = EmptyModel
    /\ fetched' = Selected(0)
    /\ clean' = blocked /\ lost' = FALSE
    /\ UNCHANGED <<dbVars, taskVars, learning, processVars, discordVars>>

RebuildRows ==
    /\ rebuild = "learning"
    /\ m3' \in LearnedFrom(m3, fetched)
    /\ fetched' = {}
    /\ rebuild' = "finishing"
    /\ UNCHANGED <<dbVars, taskVars, learning, processVars, discordVars, clean, lost>>

\* The goroutine's deferred function, after the lock was given back.
RebuildDone ==
    /\ rebuild = "finishing"
    /\ rebuild' = "idle"
    /\ UNCHANGED <<dbVars, taskVars, m3, fetched, learning, processVars,
                   discordVars, clean, lost>>

Learners == LearnQuery \/ LearnRows \/ RebuildQuery \/ RebuildRows \/ RebuildDone

-----------------------------------------------------------------------------
(* The process *)

\* PreloadMarkovOnStartup(), before the driver connects.
Startup ==
    /\ ~running /\ running' = TRUE
    /\ m3' \in LearnedFrom(EmptyModel, Selected(0))
    /\ clean' = blocked /\ lost' = FALSE
    /\ UNCHANGED <<dbVars, taskVars, fetched, learning, rebuild, crashes, discordVars>>

\* The memory is gone, and pending inserts with it.
Down ==
    /\ running /\ running' = FALSE
    /\ pc' = [t \in Tasks |-> IF pc[t] = "new" THEN "new" ELSE "done"]
    /\ ev' = [t \in Tasks |-> None]
    /\ drawn' = [t \in Tasks |-> 0]
    /\ ready' = FALSE
    /\ m3' = EmptyModel /\ fetched' = {} /\ learning' = FALSE /\ rebuild' = "idle"
    /\ orderly' = {m \in orderly : \A t \in Tasks : ev[t] # None => ev[t].message # m}
    /\ UNCHANGED <<dbVars, life, expected, clean, lost>>

\* The process is killed, or panics, as it does when a handler reads the group
\* while Process() has emptied it and not yet put its message there.
Crash == crashes < MaxCrashes /\ crashes' = crashes + 1 /\ Down

\* An insert finds the message stored by another: the statement fails, the
\* handler panics.
DuplicateKey(t) ==
    /\ pc[t] \in {"insert", "syncInsert"} /\ Stored(ev[t].message)
    /\ Down
    /\ UNCHANGED crashes

RawNext ==
    \/ \E t \in Tasks : Receive(t) \/ Handle(t) \/ DuplicateKey(t)
    \/ Learners \/ Startup \/ Crash

RawSpec == RawInit /\ [][RawNext]_rawVars

\* Go runs what can run, and its mutex lets no waiter starve.
RawFairness ==
    /\ \A t \in Tasks : WF_rawVars(Handle(t))
    /\ WF_rawVars(LearnRows) /\ WF_rawVars(RebuildRows) /\ WF_rawVars(RebuildDone)
    /\ SF_rawVars(RebuildQuery) /\ WF_rawVars(Startup)

FairRawSpec == RawSpec /\ RawFairness

-----------------------------------------------------------------------------
(* What must hold *)

\* Once the model was rebuilt, or preloaded, with a user on the block list, it
\* knows nothing that user wrote, as long as the user stays listed: not the
\* rows a recorder or an edit stored late, having asked the block list before,
\* nor those a deletion that failed left in the table.
BlockedAuthorsStayOut ==
    \A known \in m3.texts : AuthorOf[known.message] \notin clean

\* Between changes: no mutation waits to be reported, no learner runs.
Settled ==
    /\ running /\ ~learning /\ rebuild = "idle"
    /\ \A t \in Tasks : pc[t] # "notify"

OnlyStoredTextsKnown ==
    \A known \in m3.texts :
        Stored(known.message) /\ rows[known.message].text = known.text

\* Every edit and every deletion of a row is followed by a rebuild that reads
\* the rows after it: once things settle the model knows only texts that are
\* stored - unless the request for it came too late for the running rebuild.
ModelFollowsStore == Settled /\ ~lost => OnlyStoredTextsKnown

\* The events of a message, each handled before the next arrives, leave in the
\* table what the last of them says, whatever else is inserted, edited, deleted
\* or fails meanwhile - unless the message met another in the group between
\* Process() and the recorder, or found the group unfinished: then one may be
\* recorded for the other, late or never.
EventsInTurnAreStored ==
    \A m \in orderly \cap LearningMessages :
        (\A t \in Tasks : ev[t] # None => ev[t].message # m) =>
            IF expected[m] = None THEN ~Stored(m)
            ELSE Stored(m) /\ rows[m].text = expected[m]

\* What the model knows and the table no longer says is forgotten in the end,
\* unless the request to forget it was lost, or the process died.
StaleTextsAreForgotten ==
    [](~OnlyStoredTextsKnown => <>(OnlyStoredTextsKnown \/ lost \/ ~running))
=============================================================================
