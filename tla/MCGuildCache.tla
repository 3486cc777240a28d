---------------------------- MODULE MCGuildCache ----------------------------
EXTENDS GuildCache, TLC

(* One channel is there from the beginning, one is created later. *)
MCFirstChannels == "c1" :> [kind |-> "text", name |-> 0] @@ "c2" :> NoChannel
Symmetric == Permutations(Handlers)
=============================================================================
