------------------------------ MODULE Outgoing ------------------------------
(***************************************************************************)
(* How texts leave the bot: the mailbox of envelopes that message and      *)
(* event goroutines fill (internal/accord/connection_outgoing_responses.go,*)
(* library/core2/outgoing_responses.go), the queue of texts to be sent     *)
(* without a message to answer (internal/triggers/delayed_responding.go),  *)
(* and the one loop that runs the schedules and sends                      *)
(* (internal/accord/connection_outgoing.go).                               *)
(*                                                                         *)
(* Mailbox and queue are each created by whoever first finds the pointer   *)
(* nil, without a lock; their contents are guarded by a mutex each, so one *)
(* critical section is one step.                                           *)
(***************************************************************************)
EXTENDS Naturals, Sequences, FiniteSets, SequencesExt, Subsequences

CONSTANTS
  Goroutines,    \* message and event goroutines, each with one thing to say
  Tasks,         \* what a goroutine may have to say
  Channels,
  Allowed,       \* discord_allowed_output_channels; {} allows every channel
  NoChannel,     \* ""
  RunTick,       \* seconds between two runs of each schedule
  MaxSpeeches    \* bound: texts the manic-minute schedule has to say

Loop == "loop"
Minute == "minute"
Commentator == "commentator"
Cells == {"mailbox", "queue"}
Schedules == <<"OutputQueue", "ManicMinute", "Commentator">>

(***************************************************************************)
(* A text may be blank, and may have two spaces in a row ("gapped").  An   *)
(* answer or a remark without any text goes nowhere.                       *)
(***************************************************************************)
Kinds == {"text", "reaction", "blank", "gapped"}
Task == [kind : {"answer", "event", "note"}, channel : Channels, texts : Seq(Kinds)]

ASSUME OutgoingConstants ==
  /\ Tasks \subseteq Task
  /\ \A t \in Tasks : t.texts # <<>> /\ (t.kind # "answer" => Len(t.texts) = 1)
  /\ {Loop, Minute, Commentator} \cap Goroutines = {}
  /\ NoChannel \notin Channels /\ Allowed \subseteq Channels
  /\ RunTick \in [1..Len(Schedules) -> Nat \ {0}]
  /\ MaxSpeeches \in Nat

VARIABLES
  ready,     \* d.botUser is set
  silent,    \* silent_running
  up,        \* the process has not panicked
  cell,      \* the mailbox and the queue in use, by number; 0 for nil
  boxes,     \* every mailbox ever created, of envelopes [channel, responses], and
             \* every queue, of messages [channel, text]; a text is [from, n, kind]
  task,      \* what each goroutine has to say
  at,        \* where each goroutine is
  held,      \* the mailbox or queue it works on
  loop,      \* the locals of the loop
  since,     \* seconds since each schedule ran, up to its tick
  speeches,  \* texts the manic-minute schedule has said
  attempts,  \* history: texts handed to Discord, in order
  put,       \* history: texts put into a mailbox or queue, in order
  raced      \* history: cells that two goroutines found nil at once

vars == <<ready, silent, up, cell, boxes, task, at, held, loop, since, speeches,
          attempts, put, raced>>
cells == <<cell, boxes, raced>>

Actors == Goroutines \cup {Loop}

IdleLoop == [cell |-> "mailbox", outgoing |-> 0, due |-> {}, messages |-> <<>>,
             scheduled |-> {}, taken |-> <<>>]

Init ==
  /\ ready = FALSE /\ silent \in BOOLEAN /\ up = TRUE
  /\ cell = [c \in Cells |-> 0] /\ boxes = [c \in Cells |-> <<>>]
  /\ task \in [Goroutines -> Tasks]
  /\ at = [g \in Actors |-> "idle"] /\ held = [g \in Actors |-> 0]
  /\ loop = IdleLoop
  /\ since = RunTick        \* LastRan is 0, the epoch
  /\ speeches = 0
  /\ attempts = <<>> /\ put = <<>> /\ raced = {}

At(g, step) == up /\ at[g] = step
Goes(g, step) == at' = [at EXCEPT ![g] = step]
Lets(g) == held' = [held EXCEPT ![g] = 0]

----------------------------------------------------------------------------
(***************************************************************************)
(* GetOutgoingResponses() and usingOutgoingQueue(): the pointer is read,   *)
(* written if it was nil, and read again to be returned.                   *)
(***************************************************************************)
CellOf(g) == IF g = Loop THEN loop.cell
             ELSE IF task[g].kind = "note" THEN "queue" ELSE "mailbox"

Contents(g) == boxes[CellOf(g)][held[g]]

Look(g, c) ==
  /\ IF cell[c] = 0
     THEN /\ Goes(g, "make")
          /\ raced' = IF \E h \in Actors \ {g} : at[h] = "make" /\ CellOf(h) = c
                      THEN raced \cup {c} ELSE raced
     ELSE Goes(g, "take") /\ UNCHANGED raced
  /\ UNCHANGED <<cell, boxes, held>>

Make(g) ==
  /\ At(g, "make")
  /\ boxes' = [boxes EXCEPT ![CellOf(g)] = Append(@, <<>>)]
  /\ cell' = [cell EXCEPT ![CellOf(g)] = Len(boxes'[CellOf(g)])]
  /\ Goes(g, "take")
  /\ UNCHANGED <<ready, silent, up, task, held, loop, since, speeches, attempts, put, raced>>

Take(g) ==
  /\ At(g, "take")
  /\ held' = [held EXCEPT ![g] = cell[CellOf(g)]]
  /\ Goes(g, "use")
  /\ UNCHANGED <<ready, silent, up, cells, task, loop, since, speeches, attempts, put>>

(***************************************************************************)
(* A goroutine has something to say: the answer to a message, the remark   *)
(* on a reaction (dropped when there is no mailbox yet), or a note for the *)
(* queue.                                                                  *)
(***************************************************************************)
Begin(g) ==
  /\ At(g, "idle")
  /\ task[g].kind # "event"
  /\ Look(g, CellOf(g))
  /\ UNCHANGED <<ready, silent, up, task, loop, since, speeches, attempts, put>>

HandleEventResponseEnvelope(g) ==
  /\ At(g, "idle")
  /\ task[g].kind = "event"
  /\ Goes(g, IF cell["mailbox"] = 0 THEN "done" ELSE "take")
  /\ UNCHANGED <<ready, silent, up, cells, task, held, loop, since, speeches, attempts, put>>

Texts(g) == [n \in DOMAIN task[g].texts |-> [from |-> g, n |-> n, kind |-> task[g].texts[n]]]

AddedAlone(box, item) == <<item>>   \* mutant: the append starts from an empty slice
Added(box, item) == Append(box, item)

Put(g) ==
  /\ At(g, "use")
  /\ LET item == IF task[g].kind = "note"
                 THEN [channel |-> task[g].channel, text |-> Texts(g)[1]]
                 ELSE [channel |-> task[g].channel, responses |-> Texts(g)]
     IN boxes' = [boxes EXCEPT ![CellOf(g)][held[g]] = Added(@, item)]
  /\ put' = put \o Texts(g)
  /\ Goes(g, "done") /\ Lets(g)
  /\ UNCHANGED <<ready, silent, up, cell, task, loop, since, speeches, attempts, raced>>

Speak(g) == Begin(g) \/ HandleEventResponseEnvelope(g) \/ Make(g) \/ Take(g) \/ Put(g)

----------------------------------------------------------------------------
(***************************************************************************)
(* The loop.  A pass waits for the bot's user, then looks up the mailbox;  *)
(* in silent running it ends there.                                        *)
(***************************************************************************)
Pass ==
  /\ At(Loop, "idle")
  /\ ready
  /\ Look(Loop, "mailbox")
  /\ UNCHANGED <<ready, silent, up, task, loop, since, speeches, attempts, put>>

StaySilent ==
  /\ At(Loop, "use") /\ loop.cell = "mailbox"
  /\ silent
  /\ Goes(Loop, "idle") /\ Lets(Loop)
  /\ UNCHANGED <<ready, silent, up, cells, task, loop, since, speeches, attempts, put>>

(***************************************************************************)
(* Process(): which schedules are due is decided by the time at its start. *)
(***************************************************************************)
DueLater == {i \in DOMAIN Schedules : since[i] > RunTick[i]}   \* mutant
Due == {i \in DOMAIN Schedules : since[i] >= RunTick[i]}

Process ==
  /\ At(Loop, "use") /\ loop.cell = "mailbox"
  /\ ~silent
  /\ loop' = [loop EXCEPT !.outgoing = held[Loop], !.due = Due]
  /\ Goes(Loop, "schedule") /\ Lets(Loop)
  /\ UNCHANGED <<ready, silent, up, cells, task, since, speeches, attempts, put>>

(***************************************************************************)
(* The next schedule that is due, and what it leaves when it has run: its  *)
(* texts that are not blank, and the time.                                 *)
(***************************************************************************)
IsNext(name) ==
  loop.due # {} /\ Schedules[CHOOSE i \in loop.due : \A j \in loop.due : i <= j] = name

NotEmpty(messages) == Kept(messages, {i \in DOMAIN messages : messages[i].text.kind # "blank"})

RunSchedule(name, messages) ==
  LET i == CHOOSE k \in DOMAIN Schedules : Schedules[k] = name
  IN /\ loop' = [loop EXCEPT !.due = @ \ {i}, !.cell = "mailbox", !.messages = @ \o NotEmpty(messages)]
     /\ since' = [since EXCEPT ![i] = 0]

UseQueue ==
  /\ At(Loop, "schedule") /\ IsNext("OutputQueue")
  /\ loop' = [loop EXCEPT !.cell = "queue"]
  /\ Look(Loop, "queue")
  /\ UNCHANGED <<ready, silent, up, task, since, speeches, attempts, put>>

RestOfAll(box) == box   \* mutant: the slice is returned but not replaced
Rest(box) == <<>>

PopAll ==
  /\ At(Loop, "use") /\ loop.cell = "queue"
  /\ RunSchedule("OutputQueue", Contents(Loop))
  /\ boxes' = [boxes EXCEPT !["queue"][held[Loop]] = Rest(@)]
  /\ Goes(Loop, "schedule") /\ Lets(Loop)
  /\ UNCHANGED <<ready, silent, up, cell, task, speeches, attempts, put, raced>>

ManicMinuteScheduler ==
  /\ At(Loop, "schedule") /\ IsNext("ManicMinute")
  /\ \/ RunSchedule("ManicMinute", <<>>) /\ UNCHANGED speeches
     \/ /\ speeches < MaxSpeeches
        /\ speeches' = speeches + 1
        /\ \E c \in Channels :
             RunSchedule("ManicMinute",
               <<[channel |-> c, text |-> [from |-> Minute, n |-> speeches', kind |-> "text"]]>>)
  /\ UNCHANGED <<ready, silent, up, cells, task, at, held, attempts, put>>

CommentateScheduler ==
  /\ At(Loop, "schedule") /\ IsNext("Commentator")
  /\ \/ RunSchedule("Commentator", <<>>)
     \/ \E kind \in {"text", "blank"} :
          RunSchedule("Commentator",
            <<[channel |-> NoChannel, text |-> [from |-> Commentator, n |-> 0, kind |-> kind]]>>)
  /\ UNCHANGED <<ready, silent, up, cells, task, at, held, speeches, attempts, put>>

(***************************************************************************)
(* HandleSchedule() leaves out what has no channel; ToResponseEnvelopes()  *)
(* makes an envelope of each channel's texts, and they are added to the    *)
(* mailbox in no particular order, one critical section each.              *)
(***************************************************************************)
Addressed(messages) == Kept(messages, {i \in DOMAIN messages : messages[i].channel # NoChannel})

ResponsesFor(channel, messages) ==
  LET mine == Kept(messages, {i \in DOMAIN messages : messages[i].channel = channel})
  IN [i \in DOMAIN mine |-> mine[i].text]

ToResponseEnvelopes(messages) ==
  {[channel |-> c, responses |-> ResponsesFor(c, messages)] :
     c \in {messages[i].channel : i \in DOMAIN messages}}

HandleSchedule ==
  /\ At(Loop, "schedule") /\ loop.due = {}
  /\ loop' = [loop EXCEPT !.scheduled = ToResponseEnvelopes(Addressed(loop.messages)),
                          !.messages = <<>>]
  /\ Goes(Loop, "add")
  /\ UNCHANGED <<ready, silent, up, cells, task, held, since, speeches, attempts, put>>

AddScheduled ==
  /\ At(Loop, "add")
  /\ \E e \in loop.scheduled :
       /\ boxes' = [boxes EXCEPT !["mailbox"][loop.outgoing] = Added(@, e)]
       /\ loop' = [loop EXCEPT !.scheduled = @ \ {e}]
  /\ UNCHANGED <<ready, silent, up, cell, task, at, held, since, speeches, attempts, put, raced>>

(***************************************************************************)
(* HasEnvelopes() and RetrieveEnvelopes(): only the loop takes envelopes   *)
(* out, so what is there at the first is there at the second, and more.    *)
(***************************************************************************)
RetrieveEnvelopes ==
  /\ At(Loop, "add") /\ loop.scheduled = {}
  /\ IF boxes["mailbox"][loop.outgoing] = <<>>
     THEN loop' = IdleLoop /\ Goes(Loop, "idle") /\ UNCHANGED boxes
     ELSE /\ loop' = [loop EXCEPT !.taken = boxes["mailbox"][loop.outgoing]]
          /\ boxes' = [boxes EXCEPT !["mailbox"][loop.outgoing] = Rest(@)]
          /\ Goes(Loop, "send")
  /\ UNCHANGED <<ready, silent, up, cell, task, held, since, speeches, attempts, put, raced>>

----------------------------------------------------------------------------
(***************************************************************************)
(* handleEnvelope(), one response at a time; a send that fails is logged   *)
(* and forgotten.  Emoji are looked for in every word between two spaces   *)
(* by its first byte, which the empty word between two neighbouring spaces *)
(* does not have: the loop panics, and nothing recovers it.                *)
(***************************************************************************)
IsAllowedOutputChannel(channel) == Allowed = {} \/ channel \in Allowed

IsValidOutgoing(text) == text.kind # "blank"

Sending == At(Loop, "send") /\ loop.taken # <<>>

NextEnvelope(taken) == IF Len(taken[1].responses) <= 1 THEN Tail(taken)
                       ELSE [taken EXCEPT ![1].responses = Tail(@)]

SkipEnvelope ==
  /\ Sending
  /\ ~IsAllowedOutputChannel(loop.taken[1].channel)
  /\ loop' = [loop EXCEPT !.taken = Tail(@)]
  /\ UNCHANGED <<ready, silent, up, cells, task, at, held, since, speeches, attempts, put>>

HandleResponse ==
  /\ Sending
  /\ IsAllowedOutputChannel(loop.taken[1].channel)
  /\ LET text == loop.taken[1].responses[1]
     IN /\ text.kind # "gapped"
        /\ attempts' = IF IsValidOutgoing(text)
                       THEN Append(attempts, [text |-> text, channel |-> loop.taken[1].channel])
                       ELSE attempts
  /\ loop' = [loop EXCEPT !.taken = NextEnvelope(@)]
  /\ UNCHANGED <<ready, silent, up, cells, task, at, held, since, speeches, put>>

TranslateEmptyWord ==
  /\ Sending
  /\ IsAllowedOutputChannel(loop.taken[1].channel)
  /\ loop.taken[1].responses[1].kind = "gapped"
  /\ up' = FALSE
  /\ UNCHANGED <<ready, silent, cells, task, at, held, loop, since, speeches, attempts, put>>

EndPass ==
  /\ At(Loop, "send") /\ loop.taken = <<>>
  /\ loop' = IdleLoop
  /\ Goes(Loop, "idle")
  /\ UNCHANGED <<ready, silent, up, cells, task, held, since, speeches, attempts, put>>

----------------------------------------------------------------------------
HandleReadyStateEvent ==
  /\ up /\ ~ready
  /\ ready' = TRUE
  /\ UNCHANGED <<silent, up, cells, task, at, held, loop, since, speeches, attempts, put>>

Tick ==
  /\ up
  /\ \E i \in DOMAIN Schedules : since[i] < RunTick[i]
  /\ since' = [i \in DOMAIN Schedules |-> IF since[i] < RunTick[i] THEN since[i] + 1 ELSE since[i]]
  /\ UNCHANGED <<ready, silent, up, cells, task, at, held, loop, speeches, attempts, put>>

OutgoingEventLoop ==
  \/ Pass \/ Make(Loop) \/ Take(Loop) \/ StaySilent \/ Process
  \/ UseQueue \/ PopAll \/ ManicMinuteScheduler \/ CommentateScheduler
  \/ HandleSchedule \/ AddScheduled \/ RetrieveEnvelopes
  \/ SkipEnvelope \/ HandleResponse \/ TranslateEmptyWord \/ EndPass

Next ==
  \/ \E g \in Goroutines : Speak(g)
  \/ OutgoingEventLoop
  \/ HandleReadyStateEvent
  \/ Tick

Spec == Init /\ [][Next]_vars

(***************************************************************************)
(* The scheduler of Go runs every goroutine, time passes and Discord sends *)
(* the ready event; whether anybody says something is up to the users.     *)
(***************************************************************************)
FairSpec ==
  /\ Spec
  /\ WF_vars(OutgoingEventLoop) /\ WF_vars(Tick) /\ WF_vars(HandleReadyStateEvent)
  /\ \A g \in Goroutines : WF_vars(Make(g) \/ Take(g) \/ Put(g))

----------------------------------------------------------------------------
(***************************************************************************)
(* What is in a box, and what the loop has in its hands.                   *)
(***************************************************************************)
MailIn(box) == UNION {ToSet(box[i].responses) : i \in DOMAIN box}
NotesIn(box) == {box[i].text : i \in DOMAIN box}

InUse ==
  (IF cell["mailbox"] = 0 THEN {} ELSE MailIn(boxes["mailbox"][cell["mailbox"]]))
    \cup (IF cell["queue"] = 0 THEN {} ELSE NotesIn(boxes["queue"][cell["queue"]]))

InHand == NotesIn(loop.messages) \cup (UNION {ToSet(e.responses) : e \in loop.scheduled})
            \cup MailIn(loop.taken)

Attempted == {attempts[i].text : i \in DOMAIN attempts}

MayBeDropped(text) ==
  \/ text.kind = "blank"
  \/ text.from \in Goroutines /\ ~IsAllowedOutputChannel(task[text.from].channel)

(***************************************************************************)
(* A text put into the mailbox or the queue is there, in the hands of the  *)
(* loop, or handed to Discord, or was blank or for a channel the bot must  *)
(* not write to: only goroutines that created the mailbox (or the queue)   *)
(* at the same time can lose one (GetOutgoingResponses,                    *)
(* usingOutgoingQueue, RetrieveEnvelopes, PopAll).                         *)
(***************************************************************************)
OnlyRacesLose ==
  raced = {} => ToSet(put) \subseteq
    InUse \cup InHand \cup Attempted \cup {t \in ToSet(put) : MayBeDropped(t)}

(***************************************************************************)
(* No text is handed to Discord twice, and two texts of one channel that   *)
(* went into the same place leave in the order in which they were put      *)
(* there, through the queue, the grouping by channel and the mailbox       *)
(* (ToResponseEnvelopes, handleOutgoingResponses).                         *)
(***************************************************************************)
Position(s, x) == CHOOSE i \in DOMAIN s : s[i] = x

DeliveredOnceInOrder ==
  /\ \A i, j \in DOMAIN attempts : attempts[i].text = attempts[j].text => i = j
  /\ raced = {} =>
     \A i, j \in DOMAIN attempts :
       LET s == attempts[i].text  t == attempts[j].text
       IN /\ i < j
          /\ attempts[i].channel = attempts[j].channel
          /\ {s.from, t.from} \subseteq Goroutines
          /\ CellOf(s.from) = CellOf(t.from)
          => Position(put, s) < Position(put, t)

(***************************************************************************)
(* Unless the bot runs silently or has panicked, what waits in the mailbox *)
(* or in the queue in use leaves it (outgoingEventLoop): waiting on one    *)
(* pass never keeps a text from a later one.                               *)
(***************************************************************************)
Waiting(g) == \E n \in DOMAIN task[g].texts : Texts(g)[n] \in InUse
WaitingTextsLeave ==
  \A g \in Goroutines : Waiting(g) ~> (~Waiting(g) \/ silent \/ ~up)

=============================================================================
