-------------------------- MODULE MessagePipeline --------------------------
(***************************************************************************)
(* The trigger group that answers messages (library/core2/                 *)
(* message_trigger.go) and the handler that owns it (internal/triggers/    *)
(* handlers_message.go).  Each message is handled by a goroutine of its    *)
(* own; all share one group, created by whoever comes first, which keeps   *)
(* the message being processed and the responses to it in plain fields.    *)
(*                                                                         *)
(* Go's pointers are read and written whole, slices in two words (where    *)
(* the elements are, and how many): a reader may get one of each.          *)
(***************************************************************************)
EXTENDS Naturals, Sequences, FiniteSets, Subsequences

CONSTANTS
  Messages,     \* messages that may arrive, each once
  Handlers,     \* how many message handlers the group has
  Sayings,      \* what a message may be: how each handler reacts to it, and
                \* whether it is an edit of an earlier one
  NoMessage,    \* nil
  Crowd         \* bound: how many messages are handled at the same time

(***************************************************************************)
(* Reactions: nothing; a remark that leaves the message to later handlers; *)
(* an answer, whose text may be plain, contain a bad word, be very long,   *)
(* or be all garbage prefix; or a cancellation.                            *)
(***************************************************************************)
Texts == {"plain", "bad", "long", "garbage"}
Reactions == {"pass", "note", "cancel"} \cup Texts

ASSUME PipelineConstants ==
  /\ Handlers \in Nat
  /\ Sayings \subseteq [reacts : [1..Handlers -> Reactions], edit : BOOLEAN]
  /\ NoMessage \notin Messages
  /\ Crowd \in Nat

VARIABLES
  group,     \* msgGroup: the number of the group in use, 0 for nil
  groups,    \* every group ever created
  run,       \* the goroutine of each message
  up,        \* the process has not panicked
  said,      \* what each message that arrived was
  misled,    \* history: messages whose handlers were given another one
  sent,      \* history: the responses in each message's envelope, by position
  crowded,   \* history: messages handled while another one was
  rushed     \* history: messages run by a group that was not set up

vars == <<group, groups, run, up, said, misled, sent, crowded, rushed>>

Response == [to : Messages \cup {NoMessage}, by : 0..Handlers, cancelled : BOOLEAN,
             text : Texts \cup {"blank", "jest"}]
Group == [handlers : BOOLEAN, filters : BOOLEAN,
          message : Messages \cup {NoMessage}, responses : Seq(Response)]
Steps == {"away", "create", "triggers", "filters", "process", "assign",
          "handle", "debug", "collect", "read", "done"}
Run == [at : Steps, group : Nat, next : 1..(Handlers + 1),
        out : Seq(Response), half : Seq(Response)]

NewGroup == [handlers |-> FALSE, filters |-> FALSE, message |-> NoMessage,
             responses |-> <<>>]

Away == [at |-> "away", group |-> 0, next |-> 1, out |-> <<>>, half |-> <<>>]

At(m, step) == up /\ run[m].at = step
Own(m) == groups[run[m].group]
Busy == {m \in Messages : run[m].at \notin {"away", "done"}}
SomeoneAt(step) == \E m \in Messages : run[m].at = step

Init ==
  /\ group = 0 /\ groups = <<>> /\ up = TRUE
  /\ run = [m \in Messages |-> Away]
  /\ said \in [Messages -> Sayings]
  /\ sent = [m \in Messages |-> <<>>]
  /\ misled = {} /\ crowded = {} /\ rushed = {}

----------------------------------------------------------------------------
(***************************************************************************)
(* A message arrives; the group is created if there is none.  The setup    *)
(* names the group by the global variable at every step.                   *)
(***************************************************************************)
NeedsGroup == group = 0

Receive(m) ==
  /\ At(m, "away") /\ Cardinality(Busy) < Crowd
  /\ run' = [run EXCEPT ![m].at = IF NeedsGroup THEN "create" ELSE "process"]
  /\ crowded' = IF Busy = {} THEN crowded ELSE crowded \cup Busy \cup {m}
  /\ UNCHANGED <<group, groups, up, said, misled, sent, rushed>>

InitMessageGroup(m) ==
  /\ At(m, "create")
  /\ groups' = Append(groups, NewGroup)
  /\ group' = Len(groups) + 1
  /\ run' = [run EXCEPT ![m].at = "triggers"]
  /\ UNCHANGED <<up, said, misled, sent, crowded, rushed>>

SetMessageTriggers(m) ==
  /\ At(m, "triggers")
  /\ groups' = [groups EXCEPT ![group].handlers = TRUE]
  /\ run' = [run EXCEPT ![m].at = "filters"]
  /\ UNCHANGED <<group, up, said, misled, sent, crowded, rushed>>

FiltersSetUnlessInUse(g) == [g EXCEPT !.filters = g.message = NoMessage]   \* mutant
FiltersSet(g) == [g EXCEPT !.filters = TRUE]

SetResponseTriggers(m) ==
  /\ At(m, "filters")
  /\ groups' = [groups EXCEPT ![group] = FiltersSet(@)]
  /\ run' = [run EXCEPT ![m].at = "process"]
  /\ UNCHANGED <<group, up, said, misled, sent, crowded, rushed>>

(***************************************************************************)
(* Process resets the group, stores the message, and gives whatever        *)
(* message the group holds to one handler after the other.                 *)
(***************************************************************************)
Reset(m) ==
  /\ At(m, "process")
  /\ groups' = [groups EXCEPT ![group].message = NoMessage,
                              ![group].responses = <<>>]
  /\ run' = [run EXCEPT ![m].at = "assign", ![m].group = group]
  /\ UNCHANGED <<group, up, said, misled, sent, crowded, rushed>>

Process(m) ==
  /\ At(m, "assign")
  /\ groups' = [groups EXCEPT ![run[m].group].message = m]
  /\ run' = [run EXCEPT ![m].at = "handle",
                        ![m].next = IF Own(m).handlers THEN 1 ELSE Handlers + 1]
  /\ rushed' = IF Own(m).handlers THEN rushed ELSE rushed \cup {m}
  /\ UNCHANGED <<group, up, said, misled, sent, crowded>>

Handled(reaction) == reaction # "pass"
Consumed(reaction) == reaction \notin {"pass", "note"}

Wording(reaction) ==
  CASE reaction = "cancel" -> "blank"
    [] reaction = "note" -> "plain"
    [] reaction \in Texts -> reaction

Reply(m, h, reaction) ==
  [to |-> m, by |-> h, cancelled |-> reaction = "cancel", text |-> Wording(reaction)]

OutgoingOfLastHandler(out, reply) == <<reply>>   \* mutant
Outgoing(out, reply) == Append(out, reply)

RunMessageEv(m) ==
  LET h == run[m].next
      message == Own(m).message
      reaction == said[message].reacts[h]
  IN /\ At(m, "handle") /\ h <= Handlers /\ message # NoMessage
     /\ misled' = IF message = m THEN misled ELSE misled \cup {m}
     /\ run' = [run EXCEPT
          ![m].at = IF Handled(reaction) THEN "debug" ELSE "handle",
          ![m].next = IF Consumed(reaction) THEN Handlers + 1 ELSE h + 1,
          ![m].out = IF Handled(reaction)
                     THEN Outgoing(@, Reply(message, h, reaction)) ELSE @]
     /\ UNCHANGED <<group, groups, up, said, sent, crowded, rushed>>

DbgMessaging(m) ==
  /\ At(m, "debug") /\ Own(m).message # NoMessage
  /\ run' = [run EXCEPT ![m].at = "handle"]
  /\ UNCHANGED <<group, groups, up, said, misled, sent, crowded, rushed>>

(***************************************************************************)
(* The filters on what the handlers said, in their order.                  *)
(***************************************************************************)
BadWordsOfFirst(rs) ==   \* mutant
  [i \in DOMAIN rs |-> [rs[i] EXCEPT !.cancelled = @ \/ (i = 1 /\ rs[i].text = "bad")]]
BadWords(rs) ==
  [i \in DOMAIN rs |-> [rs[i] EXCEPT !.cancelled = @ \/ rs[i].text = "bad"]]

GarbagePrefixes(rs) ==
  [i \in DOMAIN rs |-> [rs[i] EXCEPT !.text = IF @ = "garbage" THEN "blank" ELSE @]]

Jest == [to |-> NoMessage, by |-> 0, cancelled |-> FALSE, text |-> "jest"]
Longs(rs) == {i \in DOMAIN rs : rs[i].text = "long"}
SelfSpamming(rs) == rs \o [k \in 1..Cardinality(Longs(rs)) |-> Jest]

Filtered(rs) == SelfSpamming(GarbagePrefixes(BadWords(rs)))

IsAnyCancelled(rs) == \E i \in DOMAIN rs : rs[i].cancelled

Finish(m) ==
  LET out == run[m].out
      result == IF Own(m).filters THEN Filtered(out) ELSE out
  IN /\ At(m, "handle") /\ run[m].next > Handlers
     /\ groups' = [groups EXCEPT ![run[m].group].responses =
                     IF IsAnyCancelled(result) THEN <<>> ELSE result]
     /\ run' = [run EXCEPT ![m].at = "collect", ![m].out = <<>>]
     /\ rushed' = IF Own(m).filters \/ out = <<>> THEN rushed ELSE rushed \cup {m}
     /\ UNCHANGED <<group, up, said, misled, sent, crowded>>

(***************************************************************************)
(* incomingMessageHandler takes the responses from the group in use, one   *)
(* word of the slice in Responses and the other in ReadRest, and drops     *)
(* what is empty or cancelled.  The envelope of an edit is discarded.      *)
(***************************************************************************)
Responses(m) ==
  /\ At(m, "collect")
  /\ run' = [run EXCEPT ![m].at = "read", ![m].group = group,
                        ![m].half = groups[group].responses]
  /\ UNCHANGED <<group, groups, up, said, misled, sent, crowded, rushed>>

IsOutput(r) == r.text # "blank" /\ ~r.cancelled
Output(rs, length) ==   \* what is kept, by position
  LET kept == {i \in 1..length : IsOutput(rs[i])} IN [i \in kept |-> rs[i]]

Slices(m) ==   \* elements of one read, length of the other
  {<<run[m].half, Len(Own(m).responses)>>, <<Own(m).responses, Len(run[m].half)>>}

ReadRest(m) ==
  /\ At(m, "read")
  /\ \E slice \in Slices(m) :
    /\ slice[2] <= Len(slice[1])
    /\ sent' = [sent EXCEPT ![m] =
                  IF said[m].edit THEN <<>>
                  ELSE Output(slice[1], slice[2])]
    /\ run' = [run EXCEPT ![m] = [Away EXCEPT !.at = "done"]]
    /\ UNCHANGED <<group, groups, up, said, misled, crowded, rushed>>

(***************************************************************************)
(* What takes the process down: a handler, or the line that logs it, is    *)
(* given no message; a slice is read past its end; a slice of handlers is  *)
(* read while another goroutine sets it.                                   *)
(***************************************************************************)
NilMessage(m) ==
  /\ \/ At(m, "handle") /\ run[m].next <= Handlers
     \/ At(m, "debug")
  /\ Own(m).message = NoMessage

PastTheEnd(m) ==
  /\ At(m, "read")
  /\ \E slice \in Slices(m) : slice[2] > Len(slice[1])

TornHandlers(m) ==
  \/ At(m, "assign") /\ ~Own(m).handlers /\ SomeoneAt("triggers")
  \/ At(m, "handle") /\ run[m].next > Handlers /\ run[m].out # <<>>
     /\ ~Own(m).filters /\ SomeoneAt("filters")

Panic(m) ==
  /\ NilMessage(m) \/ PastTheEnd(m) \/ TornHandlers(m)
  /\ up' = FALSE
  /\ group' = 0 /\ groups' = <<>> /\ run' = [n \in Messages |-> Away]
  /\ UNCHANGED <<said, misled, sent, crowded, rushed>>

Next ==
  \E m \in Messages :
    \/ Receive(m) \/ InitMessageGroup(m) \/ SetMessageTriggers(m)
    \/ SetResponseTriggers(m) \/ Reset(m) \/ Process(m) \/ RunMessageEv(m)
    \/ DbgMessaging(m) \/ Finish(m) \/ Responses(m) \/ ReadRest(m) \/ Panic(m)

Spec == Init /\ [][Next]_vars

----------------------------------------------------------------------------
(***************************************************************************)
(* Properties.                                                             *)
(***************************************************************************)

\* Every state is well typed: in particular a message is never processed by a group that does
\* not exist, and an envelope holds neither empty nor cancelled responses.
PipelineTypeOK ==
  /\ group = Len(groups)
  /\ groups \in Seq(Group)
  /\ run \in [Messages -> Run]
  /\ \A m \in Messages :
       /\ run[m].group <= Len(groups)
       /\ run[m].at \in {"assign", "handle", "debug", "read"} => run[m].group > 0
       /\ run[m].at \in {"triggers", "filters", "process", "collect"} => group > 0
  /\ up \in BOOLEAN
  /\ said \in [Messages -> Sayings]
  /\ DOMAIN sent = Messages
  /\ \A m \in Messages : \A i \in DOMAIN sent[m] :
       sent[m][i] \in Response /\ sent[m][i].text # "blank" /\ ~sent[m][i].cancelled
  /\ misled \subseteq Messages /\ crowded \subseteq Messages /\ rushed \subseteq Messages

\* The reference: what the pipeline owes a message, whatever else goes on.  Handlers hear it
\* up to the first that consumes it; what they say goes out, with a joke for each long text,
\* unless anything was cancelled or contains a bad word.
Hears(saying, h) == \A k \in 1..h - 1 : ~Consumed(saying.reacts[k])
Speakers(saying) == {h \in 1..Handlers : Hears(saying, h) /\ Handled(saying.reacts[h])}

Alone(m) ==
  LET speakers == Speakers(said[m])
      n == Cardinality(speakers)
      speech == [i \in 1..n |-> said[m].reacts[Nth(speakers, i)]]
      jokes == IF n > 0 /\ speech[n] = "long" THEN {n + 1} ELSE {}
      reply(i) == [to |-> m, by |-> Nth(speakers, i), cancelled |-> FALSE,
                   text |-> IF speech[i] = "note" THEN "plain" ELSE speech[i]]
  IN IF said[m].edit \/ \E i \in 1..n : speech[i] \in {"cancel", "bad"} THEN <<>>
     ELSE [i \in {j \in 1..n : speech[j] # "garbage"} \cup jokes |->
             IF i > n THEN Jest ELSE reply(i)]

\* A message that no other overlaps with is answered as the reference says, after its handlers
\* heard that very message: nothing of an earlier message - its responses, its cancellation,
\* the group it created in a crowd - is left for it.
AnsweredAsAlone ==
  \A m \in Messages \ crowded :
    m \notin misled /\ (up /\ run[m].at = "done" => sent[m] = Alone(m))

\* However many goroutines found no group and created one, and in whatever order: when none of
\* them is setting one up any more, the group in use has its handlers and its filters.
QuietGroupIsReady ==
  group > 0 /\ ~SomeoneAt("triggers") /\ ~SomeoneAt("filters")
    => groups[group].handlers /\ groups[group].filters

\* A text with a bad word never leaves the bot, not even in the envelope of another message or
\* through a torn read, unless some message was run before the filters were set.
BadWordsStayIn ==
  rushed = {} => \A m \in Messages : \A i \in DOMAIN sent[m] : sent[m][i].text # "bad"

\* The strengthening that makes the last two inductive: whoever created the group in use is
\* still setting it up, as long as something is missing; and no list that could reach an
\* envelope - a group's, or half read - has a text with a bad word in it.
NoBadWord(rs) == \A i \in DOMAIN rs : rs[i].text # "bad"

SetupInv ==
  group > 0 => /\ groups[group].handlers \/ SomeoneAt("triggers")
               /\ groups[group].filters \/ SomeoneAt("triggers") \/ SomeoneAt("filters")

CleanInv ==
  rushed = {} => /\ \A g \in DOMAIN groups : NoBadWord(groups[g].responses)
                 /\ \A m \in Messages : NoBadWord(run[m].half) /\ NoBadWord(sent[m])

PipelineInv == PipelineTypeOK /\ SetupInv /\ CleanInv
============================================================================
