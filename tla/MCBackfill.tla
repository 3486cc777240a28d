----------------------------- MODULE MCBackfill -----------------------------
EXTENDS Backfill

(* A channel of three messages, one of them not usable, and one without;     *)
(* pages hold two, so an import of the first channel takes several.          *)
MCChannels == <<"c1", "c2">>
MCMessageOf ==
  <<[channel |-> "c1", author |-> "u1", usable |-> TRUE],
    [channel |-> "c1", author |-> "u2", usable |-> TRUE],
    [channel |-> "c1", author |-> "u1", usable |-> FALSE],
    [channel |-> "c1", author |-> "u1", usable |-> TRUE]>>
=============================================================================
