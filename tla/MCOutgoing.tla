----------------------------- MODULE MCOutgoing -----------------------------
EXTENDS Outgoing

(* An answer of two texts, a text that makes the sender panic, a remark on a *)
(* reaction and a note; the manic-minute schedule writes to either channel,  *)
(* and only one is allowed.                                                  *)
MCTasks ==
  {[kind |-> "answer", channel |-> "c1", texts |-> <<"text", "reaction">>],
   [kind |-> "answer", channel |-> "c1", texts |-> <<"gapped">>],
   [kind |-> "event",  channel |-> "c1", texts |-> <<"text">>],
   [kind |-> "note",   channel |-> "c1", texts |-> <<"text">>]}
MCRunTick == <<1, 1, 1>>
=============================================================================
