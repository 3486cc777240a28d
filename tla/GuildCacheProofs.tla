-------------------------- MODULE GuildCacheProofs --------------------------
(***************************************************************************)
(* Proofs about GuildCache, for any number of goroutines, members,         *)
(* channels, roles, sessions and restarts.                                 *)
(*   - What is at rest is in the caches as Discord has it: the last event  *)
(*     of an entry that is still to be handled tells what Discord has, and *)
(*     so does what the one goroutine at work on it has yet to write.      *)
(*   - A channel has one row, and one that is created gets it.             *)
(*   - So no message is dropped whose channel exists, and only admins are  *)
(*     taken for admins.                                                   *)
(***************************************************************************)
EXTENDS GuildCache, SequenceTheorems, TLAPS

----------------------------------------------------------------------------
(* The inductive invariant *)

ChannelState == [kind : Kinds \cup Gone, name : Nat]
MemberState == {member \in Member : member.in \/ member = Stranger}
GuildState == [members : [Users -> MemberState], channels : [Channels -> ChannelState],
               roles : [Roles -> RoleNames], emoji : BOOLEAN]
MessageValue == [channel : Channels, mention : Users \cup Channels \cup {"nobody"}]

ChannelPuts == {"channel_create", "channel_update", "thread_create", "thread_update"}
ChannelDrops == {"channel_delete", "thread_delete"}

Places == {"idle", "channels", "members", "roles", "emojis", "put", "remove", "event", "select", "insert",
           "update", "name", "storename", "channelname", "convert", "role", "storerole", "decide"}

\* What Discord sends.
GuildEvents == [type : {"guild_create"}, key : {"guild"}, value : GuildState]
MemberEvents == [type : {"member_add", "member_update"}, key : Users, value : MemberState]
RemoveEvents == [type : {"member_remove"}, key : Users, value : {Stranger}]
PutEvents == [type : ChannelPuts, key : Channels, value : {state \in ChannelState : state.kind \notin Gone}]
DropEvents == [type : ChannelDrops, key : Channels, value : ChannelState]
EmojiEvents == [type : {"emojis_update"}, key : {Emoji}, value : BOOLEAN]
MessageEvents == [type : {"message"}, key : Users, value : MessageValue]
Events == GuildEvents \cup MemberEvents \cup RemoveEvents \cup PutEvents \cup DropEvents \cup EmojiEvents
            \cup MessageEvents

Nothing == Event("none", "none", 0)
Locals == [guild : Int, member : MemberState, truth : MemberState, sure : BOOLEAN, channel : ChannelState]

TypeInv ==
  /\ members \in [Users -> MemberState]
  /\ channels \in [Channels -> ChannelState]
  /\ roles \in [Roles -> RoleNames] /\ told \in [Roles -> RoleNames]
  /\ emoji \in BOOLEAN /\ online \in BOOLEAN /\ up \in BOOLEAN /\ raced \in BOOLEAN
  /\ sent \in Seq(Events)
  /\ caches \in Seq(GuildState)
  /\ at \in [Handlers -> Places] /\ held \in [Handlers -> Locals]
  /\ keys \in [Handlers -> SUBSET Keys]
  /\ job \in [Handlers -> Events \cup {Nothing}]
  /\ rows \in [Channels -> Seq(ChannelState)]

\* What a handler has in hand at each place, and the entries it may still write.
InPlace(h) ==
  \/ at[h] = "idle" /\ keys[h] = {} /\ held[h] = Idle
  \/ at[h] \in {"channels", "members", "roles"} /\ job[h].type = "guild_create" /\ keys[h] = Touched(job[h])
  \/ at[h] = "emojis" /\ job[h].type = "emojis_update" /\ keys[h] = {Emoji}
  \/ at[h] = "put" /\ job[h].type \in {"member_add", "member_update"} \cup ChannelPuts /\ keys[h] = {Key(h)}
  \/ at[h] = "remove" /\ job[h].type \in {"member_remove"} \cup ChannelDrops /\ keys[h] = {Key(h)}
  \/ /\ at[h] \in {"event", "select", "insert", "update"}
     /\ job[h].type \in {"channel_create", "thread_create"} \cup ChannelDrops /\ keys[h] = {Key(h)}
  \/ /\ at[h] \in {"name", "storename"} /\ job[h].type = "message" /\ Mention(h) \in Users
     /\ keys[h] = IF at[h] = "name" THEN {} ELSE {Mention(h)}
  \/ at[h] \in {"channelname", "convert", "role", "decide"} /\ job[h].type = "message" /\ keys[h] = {}
  \/ at[h] = "storerole" /\ job[h].type = "message" /\ keys[h] = {Key(h)}

\* Whose guild a handler has: the last, if the guild was made once.
GuildInv ==
  /\ guild = Len(caches)
  /\ ~raced => Len(caches) <= 1
  /\ sent # <<>> => online
  /\ \A h \in Handlers :
       /\ InPlace(h)
       /\ held[h].guild \in {Nil, Unread} \cup (1 .. Len(caches))
       /\ at[h] \in {"members", "roles", "storename", "storerole", "decide"} => held[h].guild > 0

\* The entry of a key as Discord has it.
Shown(c) == IF Live(c) THEN channels[c] ELSE NoChannel

Tells(ev, k) ==
  /\ k \in Users => members[k] = IF ev.type = "guild_create" THEN ev.value.members[k] ELSE ev.value
  /\ k \in Channels => Shown(k) = IF ev.type = "guild_create" THEN ev.value.channels[k]
                                  ELSE IF IsDelete(ev) THEN NoChannel ELSE ev.value
  /\ k \in Roles => told[k] = ev.value.roles[k]
  /\ k = Emoji => emoji = IF ev.type = "guild_create" THEN ev.value.emoji ELSE ev.value

Same(k) ==
  /\ k \in Users => Cache.members[k] = members[k]
  /\ k \in Channels => Known(k) = Shown(k)
  /\ k \in Roles => Cache.roles[k] = told[k]
  /\ k = Emoji => Cache.emoji = emoji

Agrees(k) == (k \in Users /\ ~Cache.members[k].in) \/ Same(k)

\* The entries a handler has yet to write, and that what it will write is right.
Unwritten(h) ==
  {k \in keys[h] :
     \/ at[h] \in {"channels", "put", "remove", "emojis", "storename", "storerole"}
     \/ at[h] = "members" /\ k \notin Channels
     \/ at[h] = "roles" /\ k \notin Users \cup Channels}

WillBeRight(h, k) ==
  IF at[h] \in {"storename", "storerole"} THEN held[h].member = members[k] ELSE Tells(job[h], k)

Unsent(k) == \A i \in DOMAIN sent : k \notin Touched(sent[i])
Watched(k) == up /\ ~raced /\ k \notin missed /\ k \notin overlapped /\ Unsent(k)

LastWord(k) ==
  \A i \in DOMAIN sent :
    k \in Touched(sent[i]) /\ (\A j \in DOMAIN sent : j > i => k \notin Touched(sent[j])) => Tells(sent[i], k)
Alone(k) == \A g, h \in Handlers : g # h /\ k \in keys[g] /\ k \in keys[h] => k \in overlapped
InHand(k) ==
  Watched(k) =>
    /\ \A h \in Handlers : k \in keys[h] => IF k \in Unwritten(h) THEN WillBeRight(h, k) ELSE Same(k)
    /\ (\A h \in Handlers : k \notin keys[h]) => Agrees(k)

FollowInv == \A k \in Keys : LastWord(k) /\ Alone(k) /\ InHand(k)

\* What a handler was told of a member, and whether it is known to be so.
AnswerInv ==
  \A h \in Handlers : held[h].sure =>
    \/ held[h].member = held[h].truth /\ held[h].truth.in
    \/ held[h].member = Stranger /\ ~held[h].truth.in

Storing(h, c) ==
  /\ c \in keys[h] /\ \A g \in Handlers \ {h} : c \notin keys[g]
  /\ IsCreate(job[h]) /\ Key(h) = c
  /\ at[h] \in {"put", "event", "select", "insert"}
  /\ at[h] = "event" => Known(c) = job[h].value

TrackInv ==
  /\ \A h \in Handlers : at[h] = "insert" /\ Key(h) \notin doubled =>
       rows[Key(h)] = <<>> /\ \A g \in Handlers \ {h} : at[g] = "insert" => Key(g) # Key(h)
  /\ \A h \in Handlers : at[h] = "update" => rows[Key(h)] # <<>>
  /\ \A c \in Channels :
       /\ Len(rows[c]) > 1 => c \in doubled
       /\ c \in announced /\ up /\ ~raced /\ rows[c] = <<>> /\ c \notin unsaved
            => \E h \in Handlers : Storing(h, c)

CacheInv == TypeInv /\ GuildInv /\ FollowInv /\ AnswerInv /\ TrackInv

----------------------------------------------------------------------------
(* Events *)

\* What the parts of an event are.
LEMMA EventShape ==
  ASSUME NEW ev \in Events \cup {Nothing}
  PROVE  /\ ev.type = "guild_create" => ev.value \in GuildState
         /\ ev.type \in {"member_add", "member_update"} => ev.key \in Users /\ ev.value \in MemberState
         /\ ev.type = "member_remove" => ev.key \in Users /\ ev.value = Stranger
         /\ ev.type \in ChannelPuts
              => ev.key \in Channels /\ ev.value \in ChannelState /\ ev.value.kind \notin Gone
         /\ ev.type \in ChannelDrops => ev.key \in Channels
         /\ ev.type = "emojis_update" => ev.key = Emoji /\ ev.value \in BOOLEAN
         /\ ev.type = "message" => ev.key \in Users /\ ev.value \in MessageValue
         /\ ev.type \in {"guild_create", "member_add", "member_update", "member_remove", "emojis_update",
                         "message", "none"} \cup ChannelPuts \cup ChannelDrops
         /\ ev.type = "none" => ev = Nothing
<1>1. CASE ev \in GuildEvents  BY <1>1 DEF GuildEvents, ChannelPuts, ChannelDrops
<1>2. CASE ev \in MemberEvents  BY <1>2 DEF MemberEvents, ChannelPuts, ChannelDrops
<1>3. CASE ev \in RemoveEvents  BY <1>3 DEF RemoveEvents, ChannelPuts, ChannelDrops
<1>4. CASE ev \in PutEvents  BY <1>4 DEF PutEvents, ChannelPuts, ChannelDrops
<1>5. CASE ev \in DropEvents  BY <1>5 DEF DropEvents, ChannelPuts, ChannelDrops
<1>6. CASE ev \in EmojiEvents  BY <1>6 DEF EmojiEvents, ChannelPuts, ChannelDrops
<1>7. CASE ev \in MessageEvents  BY <1>7 DEF MessageEvents, ChannelPuts, ChannelDrops
<1>8. CASE ev = Nothing  BY <1>8 DEF Nothing, Event, ChannelPuts, ChannelDrops
<1> QED  BY <1>1, <1>2, <1>3, <1>4, <1>5, <1>6, <1>7, <1>8 DEF Events

\* An event is about entries of the guild.
LEMMA TouchedKeys ==
  ASSUME NEW ev \in Events
  PROVE  /\ Touched(ev) \subseteq Keys
         /\ ev.type = "message" => Touched(ev) = {}
         /\ ev.type = "guild_create" =>
              Touched(ev) = Roles \cup (IF ev.value.emoji THEN {Emoji} ELSE {})
                              \cup {u \in Users : ev.value.members[u].in}
                              \cup {c \in Channels : ev.value.channels[c] # NoChannel}
         /\ ev.type \notin {"message", "guild_create"} => Touched(ev) = {ev.key}
<1>0. ev.type \notin {"none"}  
  BY DEF Events, GuildEvents, MemberEvents, RemoveEvents, PutEvents, DropEvents, EmojiEvents, MessageEvents,
         ChannelPuts, ChannelDrops
<1>1. CASE ev.type = "guild_create"  BY <1>1 DEF Touched, Keys
<1>2. CASE ev.type = "message"  BY <1>2 DEF Touched
<1>3. CASE ev.type \notin {"guild_create", "message"}
  <2>1. Touched(ev) = {ev.key}  BY <1>3 DEF Touched
  <2>2. ev.key \in Keys  BY <1>0, <1>3, EventShape DEF Keys
  <2> QED  BY <1>3, <2>1, <2>2
<1> QED  BY <1>1, <1>2, <1>3

LEMMA EmptyGuildShape == EmptyGuild \in GuildState
  BY DEF EmptyGuild, GuildState, Stranger, NoChannel, Member, MemberState, ChannelState, Gone, RoleNames

\* The types of what Discord has.
GuildTypes ==
  /\ members \in [Users -> MemberState] /\ channels \in [Channels -> ChannelState]
  /\ roles \in [Roles -> RoleNames] /\ emoji \in BOOLEAN

\* What Discord sends of its guild.
LEMMA GuildCreateShape ==
  ASSUME GuildTypes, NEW known \in SUBSET Present
  PROVE  /\ GuildCreate(known) \in Events
         /\ GuildCreate(known).type = "guild_create"
         /\ \A u \in Users : GuildCreate(known).value.members[u] = IF u \in known THEN members[u] ELSE Stranger
         /\ \A c \in Channels : GuildCreate(known).value.channels[c] = Shown(c)
         /\ GuildCreate(known).value.roles = roles /\ GuildCreate(known).value.emoji = emoji
<1>0. PICK value :
        value = [members |-> [u \in Users |-> IF u \in known THEN members[u] ELSE Stranger],
                 channels |-> [c \in Channels |-> IF Live(c) THEN channels[c] ELSE NoChannel],
                 roles |-> roles, emoji |-> emoji]
  OBVIOUS
<1>1. GuildCreate(known) = [type |-> "guild_create", key |-> "guild", value |-> value]
  BY <1>0 DEF GuildCreate, Event
<1>2. value \in GuildState
  <2>1. value.members \in [Users -> MemberState]  BY <1>0 DEF GuildTypes, Member, MemberState, Stranger
  <2>2. value.channels \in [Channels -> ChannelState]  BY <1>0 DEF GuildTypes, ChannelState, NoChannel, Gone
  <2> QED  BY <1>0, <2>1, <2>2 DEF GuildTypes, GuildState
<1>5. \A u \in Users : value.members[u] = IF u \in known THEN members[u] ELSE Stranger  BY <1>0
<1>6. \A c \in Channels : value.channels[c] = Shown(c)  BY <1>0 DEF Shown
<1>7. value.roles = roles /\ value.emoji = emoji  BY <1>0
<1>3. GuildCreate(known) \in Events  BY <1>1, <1>2 DEF Events, GuildEvents
<1>4. GuildCreate(known).value = value /\ GuildCreate(known).type = "guild_create"  BY <1>1
<1> QED  BY <1>3, <1>4, <1>5, <1>6, <1>7

\* It tells the truth of every entry it is about, and is about every entry that is there.
LEMMA GuildCreateTells ==
  ASSUME GuildTypes, NEW known \in SUBSET Present, NEW ev, ev = GuildCreate(known), NEW k \in Keys
  PROVE  /\ told = roles /\ k \in Touched(ev) => Tells(ev, k)
         /\ told' = roles /\ UNCHANGED <<members, channels, emoji>> /\ k \in Touched(ev) => Tells(ev, k)'
         /\ k \in Channels /\ k \notin Touched(ev) => ~Live(k)
         /\ k \in Roles => k \in Touched(ev)
         /\ k = Emoji /\ k \notin Touched(ev) => emoji = FALSE
<1>1. /\ ev \in Events
      /\ ev.type = "guild_create"
      /\ \A u \in Users : ev.value.members[u] = IF u \in known THEN members[u] ELSE Stranger
      /\ \A c \in Channels : ev.value.channels[c] = Shown(c)
      /\ ev.value.roles = roles /\ ev.value.emoji = emoji
  BY GuildCreateShape
<1>2. Touched(ev) = Roles \cup (IF ev.value.emoji THEN {Emoji} ELSE {})
                      \cup {u \in Users : ev.value.members[u].in}
                      \cup {c \in Channels : ev.value.channels[c] # NoChannel}
  BY <1>1, TouchedKeys
<1>3. k \in Users /\ k \in Touched(ev) => members[k] = ev.value.members[k]
  BY <1>1, <1>2, GuildConstants DEF Stranger
<1>4. told = roles /\ k \in Touched(ev) => Tells(ev, k)
  BY <1>1, <1>3 DEF Tells
<1>5. told' = roles /\ UNCHANGED <<members, channels, emoji>> /\ k \in Touched(ev) => Tells(ev, k)'
  <2>1. UNCHANGED channels => \A c \in Channels : Shown(c)' = Shown(c)  BY DEF Shown, Live
  <2> QED  BY <1>1, <1>3, <2>1 DEF Tells
<1>6. k \in Channels /\ k \notin Touched(ev) => ~Live(k)
  BY <1>1, <1>2, GuildConstants DEF Shown, Live, NoChannel, Gone
<1>7. k = Emoji /\ k \notin Touched(ev) => emoji = FALSE
  BY <1>1, <1>2 DEF GuildTypes
<1> QED  BY <1>2, <1>4, <1>5, <1>6, <1>7

----------------------------------------------------------------------------
(* A step of one handler *)

\* The other handlers stay as they are.
OthersKeep(h) ==
  \A g \in Handlers \ {h} : at'[g] = at[g] /\ job'[g] = job[g] /\ held'[g] = held[g] /\ keys'[g] = keys[g]

\* The entry of a key stays as it is.
Keeps(k) ==
  /\ k \in Users => Cache'.members[k] = Cache.members[k]
  /\ k \in Channels => Cache'.channels[k] = Cache.channels[k]
  /\ k \in Roles => Cache'.roles[k] = Cache.roles[k]
  /\ k = Emoji => Cache'.emoji = Cache.emoji

\* A handler goes on: it writes what it has in hand, and keeps the other entries.
GoesOn(h) ==
  /\ OthersKeep(h)
  /\ UNCHANGED <<discord, sent, up, missed, overlapped>> /\ (raced => raced')
  /\ keys'[h] \subseteq keys[h] /\ Unwritten(h)' \subseteq Unwritten(h)
  /\ \A k \in Keys : k \in Unwritten(h)' /\ WillBeRight(h, k) => WillBeRight(h, k)'
  /\ ~raced' => \A k \in Keys :
       IF k \in Unwritten(h) \ Unwritten(h)' THEN WillBeRight(h, k) => Same(k)' ELSE Keeps(k)

LEMMA KeepsSame ==
  ASSUME NEW k, Keeps(k), UNCHANGED discord
  PROVE  (Same(k) => Same(k)') /\ (Agrees(k) => Agrees(k)')
<1>1. \A c : Shown(c)' = Shown(c)  BY DEF Shown, Live, discord
<1>2. Same(k) => Same(k)'  BY <1>1 DEF Keeps, Same, Known, discord
<1> QED  BY <1>2 DEF Keeps, Agrees

LEMMA TellsSame ==
  ASSUME NEW k, NEW ev, UNCHANGED discord
  PROVE  Tells(ev, k)' <=> Tells(ev, k)
  BY DEF Tells, Shown, Live, discord

\* What is in hand of another handler.
LEMMA OtherSame ==
  ASSUME NEW k, NEW g \in Handlers, UNCHANGED discord,
         at'[g] = at[g], job'[g] = job[g], held'[g] = held[g], keys'[g] = keys[g]
  PROVE  /\ k \in Unwritten(g)' <=> k \in Unwritten(g)
         /\ WillBeRight(g, k)' <=> WillBeRight(g, k)
<1>1. k \in Unwritten(g)' <=> k \in Unwritten(g)  BY DEF Unwritten
<1>2. PICK ev : ev = job[g]  OBVIOUS
<1>3. Tells(job[g], k)' <=> Tells(job[g], k)  BY <1>2, TellsSame
<1> QED  BY <1>1, <1>3 DEF WillBeRight, discord

\* Where a handler goes on, every entry follows Discord as before.
LEMMA GoesOnFollows ==
  ASSUME NEW h \in Handlers, NEW k \in Keys, LastWord(k), Alone(k), InHand(k), GoesOn(h)
  PROVE  LastWord(k)' /\ Alone(k)' /\ InHand(k)'
<1>0. UNCHANGED discord /\ UNCHANGED <<sent, up, missed, overlapped>> /\ (raced => raced')
  BY DEF GoesOn
<1>1. LastWord(k)'
  <2> SUFFICES ASSUME NEW i \in DOMAIN sent, k \in Touched(sent[i]),
                      \A j \in DOMAIN sent : j > i => k \notin Touched(sent[j])
               PROVE  Tells(sent[i], k)'
    BY <1>0 DEF LastWord
  <2>1. PICK ev : ev = sent[i]  OBVIOUS
  <2>2. Tells(ev, k)  BY <2>1 DEF LastWord
  <2> QED  BY <1>0, <2>1, <2>2, TellsSame
<1>2. \A g \in Handlers \ {h} : at'[g] = at[g] /\ job'[g] = job[g] /\ held'[g] = held[g] /\ keys'[g] = keys[g]
  BY DEF GoesOn, OthersKeep
<1>3. \A g \in Handlers : k \in keys'[g] => k \in keys[g]
  BY <1>2 DEF GoesOn
<1>4. Alone(k)'  BY <1>0, <1>3 DEF Alone
<1>5. InHand(k)'
  <2> SUFFICES ASSUME Watched(k)'
               PROVE  /\ \A g \in Handlers : k \in keys'[g] =>
                           IF k \in Unwritten(g)' THEN WillBeRight(g, k)' ELSE Same(k)'
                      /\ (\A g \in Handlers : k \notin keys'[g]) => Agrees(k)'
    BY DEF InHand
  <2>1. Watched(k)  BY <1>0 DEF Watched, Unsent
  <2>2. ~raced' /\ k \notin overlapped  BY <1>0 DEF Watched
  <2>3. /\ \A g \in Handlers : k \in keys[g] => IF k \in Unwritten(g) THEN WillBeRight(g, k) ELSE Same(k)
        /\ (\A g \in Handlers : k \notin keys[g]) => Agrees(k)
    BY <2>1 DEF InHand
  <2>4. Unwritten(h) \subseteq keys[h]  BY DEF Unwritten
  <2>4a. Unwritten(h)' \subseteq keys'[h]  BY DEF Unwritten
  <2>5. CASE k \in Unwritten(h) /\ k \notin Unwritten(h)'
    <3>1. Same(k)'  BY <2>2, <2>3, <2>4, <2>5 DEF GoesOn
    <3>2. \A g \in Handlers \ {h} : k \notin keys'[g]
      BY <1>2, <2>2, <2>4, <2>5 DEF Alone
    <3> QED  BY <2>5, <3>1, <3>2 DEF Agrees
  <2>6. CASE ~(k \in Unwritten(h) /\ k \notin Unwritten(h)')
    <3>1. Keeps(k)  BY <2>2, <2>6 DEF GoesOn
    <3>2. (Same(k) => Same(k)') /\ (Agrees(k) => Agrees(k)')  BY <1>0, <3>1, KeepsSame
    <3>3. ASSUME NEW g \in Handlers, k \in keys'[g]
          PROVE  IF k \in Unwritten(g)' THEN WillBeRight(g, k)' ELSE Same(k)'
      <4>1. CASE g = h
        <5>1. k \in keys[h]  BY <1>3, <3>3, <4>1
        <5>2. k \in Unwritten(h)' <=> k \in Unwritten(h)  BY <2>6 DEF GoesOn
        <5> QED  BY <2>3, <3>2, <4>1, <5>1, <5>2 DEF GoesOn
      <4>2. CASE g # h
        <5>1. at'[g] = at[g] /\ job'[g] = job[g] /\ held'[g] = held[g] /\ keys'[g] = keys[g]  BY <1>2, <4>2
        <5>2. (k \in Unwritten(g)' <=> k \in Unwritten(g)) /\ (WillBeRight(g, k)' <=> WillBeRight(g, k))
          BY <1>0, <5>1, OtherSame
        <5> QED  BY <2>3, <3>2, <3>3, <5>1, <5>2
      <4> QED  BY <4>1, <4>2
    <3>4. ASSUME \A g \in Handlers : k \notin keys'[g]
          PROVE  Agrees(k)'
      <4>1. k \notin Unwritten(h)  BY <2>4a, <2>6, <3>4
      <4>2. CASE k \in keys[h]  BY <2>3, <3>2, <4>1, <4>2 DEF Agrees
      <4>3. CASE k \notin keys[h]
        <5>1. \A g \in Handlers : k \notin keys[g]  BY <1>2, <3>4, <4>3
        <5> QED  BY <2>3, <3>2, <5>1
      <4> QED  BY <4>2, <4>3
    <3> QED  BY <3>3, <3>4
  <2> QED  BY <2>5, <2>6
<1> QED  BY <1>1, <1>4, <1>5

\* Where a handler takes up entries, what it will make of them must be right.
LEMMA TakesUpFollows ==
  ASSUME NEW h \in Handlers, NEW k \in Keys, NEW touched, Alone(k), InHand(k),
         OthersKeep(h), UNCHANGED <<discord, up, missed, raced, guild, caches>>,
         DOMAIN keys = Handlers, keys[h] = {}, TakesUp(h, touched),
         k \in touched /\ Watched(k)' => k \in Unwritten(h)' /\ WillBeRight(h, k)',
         k \notin touched /\ Unsent(k)' => Unsent(k)
  PROVE  Alone(k)' /\ InHand(k)'
<1>0. UNCHANGED discord /\ UNCHANGED <<up, missed, raced, guild, caches>>  OBVIOUS
<1>1. keys'[h] = touched  BY DEF TakesUp
<1>2. \A g \in Handlers \ {h} : at'[g] = at[g] /\ job'[g] = job[g] /\ held'[g] = held[g] /\ keys'[g] = keys[g]
  BY DEF OthersKeep
<1>3. overlapped' = (overlapped \ touched) \cup Shared(h, touched)  BY DEF TakesUp
<1>4. \A g \in Handlers \ {h} : k \in touched /\ k \in keys[g] => k \in overlapped'
  BY <1>3 DEF Shared
<1>5. Alone(k)'
  <2>1. k \notin touched /\ k \in overlapped => k \in overlapped'  BY <1>3
  <2> QED  BY <1>1, <1>2, <1>4, <2>1 DEF Alone
<1>6. InHand(k)'
  <2> SUFFICES ASSUME Watched(k)'
               PROVE  /\ \A g \in Handlers : k \in keys'[g] =>
                           IF k \in Unwritten(g)' THEN WillBeRight(g, k)' ELSE Same(k)'
                      /\ (\A g \in Handlers : k \notin keys'[g]) => Agrees(k)'
    BY DEF InHand
  <2>1. CASE k \in touched
    <3>1. \A g \in Handlers \ {h} : k \notin keys'[g]  BY <1>2, <1>4, <2>1 DEF Watched
    <3>2. k \in Unwritten(h)' /\ WillBeRight(h, k)'  BY <2>1
    <3> QED  BY <1>1, <2>1, <3>1, <3>2
  <2>2. CASE k \notin touched
    <3>1. k \notin overlapped  BY <1>3, <2>2 DEF Watched
    <3>2. Watched(k)  BY <1>0, <2>2, <3>1 DEF Watched
    <3>3. /\ \A g \in Handlers : k \in keys[g] => IF k \in Unwritten(g) THEN WillBeRight(g, k) ELSE Same(k)
          /\ (\A g \in Handlers : k \notin keys[g]) => Agrees(k)
      BY <3>2 DEF InHand
    <3>4. Keeps(k)  BY <1>0 DEF Keeps, Cache
    <3>5. (Same(k) => Same(k)') /\ (Agrees(k) => Agrees(k)')  BY <1>0, <3>4, KeepsSame
    <3>6. ASSUME NEW g \in Handlers, k \in keys'[g]
          PROVE  IF k \in Unwritten(g)' THEN WillBeRight(g, k)' ELSE Same(k)'
      <4>1. g # h  BY <1>1, <2>2, <3>6
      <4>2. at'[g] = at[g] /\ job'[g] = job[g] /\ held'[g] = held[g] /\ keys'[g] = keys[g]  BY <1>2, <4>1
      <4>3. (k \in Unwritten(g)' <=> k \in Unwritten(g)) /\ (WillBeRight(g, k)' <=> WillBeRight(g, k))
        BY <1>0, <4>2, OtherSame
      <4> QED  BY <3>3, <3>5, <3>6, <4>2, <4>3
    <3>7. ASSUME \A g \in Handlers : k \notin keys'[g]
          PROVE  Agrees(k)'
      <4>1. \A g \in Handlers : k \notin keys[g]  BY <1>2, <3>7
      <4> QED  BY <3>3, <3>5, <4>1
    <3> QED  BY <3>6, <3>7
  <2> QED  BY <2>1, <2>2
<1> QED  BY <1>5, <1>6

----------------------------------------------------------------------------
(* What the steps of handlers have in common *)

LEMMA IdleShape == Idle \in Locals
  BY DEF Idle, Locals, Unread, Stranger, NoChannel, Member, MemberState, ChannelState, Gone

\* The types and the places are kept where one handler steps.
LEMMA HandlerTypes ==
  ASSUME TypeInv, GuildInv, NEW h \in Handlers, OthersKeep(h), UNCHANGED <<discord, sent, up>>,
         at' \in [Handlers -> Places], held' \in [Handlers -> Locals],
         keys' \in [Handlers -> SUBSET Keys], job' \in [Handlers -> Events \cup {Nothing}],
         rows' \in [Channels -> Seq(ChannelState)],
         caches' \in Seq(GuildState), guild' = Len(caches'), Len(caches) <= Len(caches'),
         raced' \in BOOLEAN, ~raced' => Len(caches') <= 1,
         InPlace(h)', held'[h].guild \in {Nil, Unread} \cup (1 .. Len(caches')),
         at'[h] \in {"members", "roles", "storename", "storerole", "decide"} => held'[h].guild > 0
  PROVE  TypeInv' /\ GuildInv'
<1>1. TypeInv'  BY DEF TypeInv, discord
<1>2. ASSUME NEW g \in Handlers
      PROVE  /\ InPlace(g)'
             /\ held'[g].guild \in {Nil, Unread} \cup (1 .. Len(caches'))
             /\ at'[g] \in {"members", "roles", "storename", "storerole", "decide"} => held'[g].guild > 0
  <2>1. CASE g = h  BY <2>1
  <2>2. CASE g # h
    <3>1. at'[g] = at[g] /\ job'[g] = job[g] /\ held'[g] = held[g] /\ keys'[g] = keys[g]
      BY <2>2 DEF OthersKeep
    <3>2. InPlace(g)'
      <4>1. InPlace(g)  BY DEF GuildInv
      <4> QED  BY <3>1, <4>1 DEF InPlace, Key, Mention
    <3>3. held[g].guild \in {Nil, Unread} \cup (1 .. Len(caches))  BY DEF GuildInv
    <3>4. Len(caches) \in Nat /\ Len(caches') \in Nat  BY DEF TypeInv
    <3>5. held[g].guild \in {Nil, Unread} \cup (1 .. Len(caches'))  BY <3>3, <3>4
    <3> QED  BY <3>1, <3>2, <3>5 DEF GuildInv
  <2> QED  BY <2>1, <2>2
<1>3. sent' = sent /\ online' = online  BY DEF discord
<1> QED  BY <1>1, <1>2, <1>3 DEF GuildInv

\* A handler goes to a place with what it has.
LEMMA Goes ==
  ASSUME TypeInv, NEW h \in Handlers, NEW place \in Places, Go(h, place), UNCHANGED <<job, held, keys>>
  PROVE  /\ OthersKeep(h)
         /\ at' \in [Handlers -> Places] /\ held' \in [Handlers -> Locals]
         /\ keys' \in [Handlers -> SUBSET Keys] /\ job' \in [Handlers -> Events \cup {Nothing}]
         /\ at'[h] = place /\ job'[h] = job[h] /\ held'[h] = held[h] /\ keys'[h] = keys[h]
  BY DEF TypeInv, Go, OthersKeep

\* A handler ends.
LEMMA Finishes ==
  ASSUME TypeInv, NEW h \in Handlers, Finish(h)
  PROVE  /\ OthersKeep(h)
         /\ at' \in [Handlers -> Places] /\ held' \in [Handlers -> Locals]
         /\ keys' \in [Handlers -> SUBSET Keys] /\ job' \in [Handlers -> Events \cup {Nothing}]
         /\ at'[h] = "idle" /\ job'[h] = Nothing /\ held'[h] = Idle /\ keys'[h] = {}
         /\ Unwritten(h)' = {} /\ InPlace(h)'
         /\ held'[h].guild = Unread
<1>1. "idle" \in Places /\ Idle \in Locals /\ Idle.guild = Unread  BY IdleShape DEF Places, Idle
<1>2. /\ at' \in [Handlers -> Places] /\ held' \in [Handlers -> Locals]
      /\ keys' \in [Handlers -> SUBSET Keys] /\ job' \in [Handlers -> Events \cup {Nothing}]
  BY <1>1 DEF TypeInv, Finish, Nothing
<1>3. at'[h] = "idle" /\ job'[h] = Nothing /\ held'[h] = Idle /\ keys'[h] = {}
  BY DEF TypeInv, Finish, Nothing
<1>4. OthersKeep(h)  BY DEF TypeInv, Finish, OthersKeep
<1>5. Unwritten(h)' = {} /\ InPlace(h)'  BY <1>3 DEF Unwritten, InPlace
<1> QED  BY <1>1, <1>2, <1>3, <1>4, <1>5

\* A handler's guild is the bot's guild, unless it was made twice.
LEMMA MineIsCache ==
  ASSUME TypeInv, GuildInv, NEW h \in Handlers, held[h].guild > 0
  PROVE  /\ Mine(h) \in GuildState /\ held[h].guild \in 1 .. Len(caches)
         /\ ~raced => Mine(h) = Cache
<1>1. held[h].guild \in 1 .. Len(caches) /\ Len(caches) \in Nat  BY DEF GuildInv, TypeInv, Nil, Unread
<1>2. Mine(h) \in GuildState  BY <1>1 DEF TypeInv, Mine
<1>3. ~raced => held[h].guild = guild /\ guild # 0  BY <1>1 DEF GuildInv
<1> QED  BY <1>1, <1>2, <1>3 DEF Mine, Cache

LEMMA CacheShape ==
  ASSUME TypeInv, GuildInv
  PROVE  Cache \in GuildState
  BY EmptyGuildShape DEF TypeInv, GuildInv, Cache

\* The entry of a key as a guild has it, and whether it is as Discord has it.
SameEntry(one, other, k) ==
  /\ k \in Users => one.members[k] = other.members[k]
  /\ k \in Channels => one.channels[k] = other.channels[k]
  /\ k \in Roles => one.roles[k] = other.roles[k]
  /\ k = Emoji => one.emoji = other.emoji
Holds(one, k) ==
  /\ k \in Users => one.members[k] = members[k]
  /\ k \in Channels => one.channels[k] = Shown(k)
  /\ k \in Roles => one.roles[k] = told[k]
  /\ k = Emoji => one.emoji = emoji

\* A handler makes right what it has in hand, and keeps the rest of its guild.
Stores(h, value) ==
  \A k \in Keys : IF k \in Unwritten(h) \ Unwritten(h)' THEN WillBeRight(h, k) => Holds(value, k)
                  ELSE SameEntry(value, Mine(h), k)
\* What it has in hand still will be right.
StaysRight(h) == \A k \in Keys : k \in Unwritten(h)' /\ WillBeRight(h, k) => WillBeRight(h, k)'

\* A handler that writes: its guild is replaced by one whose entries are its own or right.
LEMMA WriteGoesOn ==
  ASSUME TypeInv, GuildInv, NEW h \in Handlers, held[h].guild > 0, NEW value \in GuildState,
         Write(h, value), UNCHANGED <<discord, sent, up, guild, raced, missed, overlapped>>,
         OthersKeep(h), keys'[h] \subseteq keys[h], Unwritten(h)' \subseteq Unwritten(h),
         StaysRight(h), Stores(h, value)
  PROVE  /\ GoesOn(h)
         /\ caches' \in Seq(GuildState) /\ guild' = Len(caches') /\ Len(caches') = Len(caches)
         /\ ~raced => Cache' = value
<1>1. held[h].guild \in 1 .. Len(caches) /\ (~raced => Mine(h) = Cache)  BY MineIsCache
<1>2. caches' \in Seq(GuildState) /\ Len(caches') = Len(caches)
      /\ caches'[held[h].guild] = value
  BY <1>1 DEF TypeInv, Write
<1>3. guild' = Len(caches')  BY <1>2 DEF GuildInv
<1>4. ~raced => Cache' = value
  <2>1. ~raced => held[h].guild = guild' /\ guild' # 0  BY <1>1, <1>2, <1>3 DEF GuildInv, TypeInv
  <2> QED  BY <1>2, <2>1 DEF Cache
<1>5. \A c : Shown(c)' = Shown(c)  BY DEF Shown, Live, discord
<1>6. ASSUME NEW k \in Keys, ~raced'
      PROVE  IF k \in Unwritten(h) \ Unwritten(h)' THEN WillBeRight(h, k) => Same(k)' ELSE Keeps(k)
  <2>1. Cache' = value /\ Mine(h) = Cache  BY <1>1, <1>4, <1>6
  <2>2. Holds(value, k) => Same(k)'  BY <1>5, <2>1 DEF Holds, Same, Known, discord
  <2>3. SameEntry(value, Mine(h), k) => Keeps(k)  BY <2>1 DEF SameEntry, Keeps
  <2> QED  BY <2>2, <2>3 DEF Stores
<1>7. GoesOn(h)  BY <1>6 DEF GoesOn, StaysRight
<1> QED  BY <1>2, <1>3, <1>4, <1>7

\* So its step keeps the types and the places, too.
LEMMA Writes ==
  ASSUME TypeInv, GuildInv, NEW h \in Handlers, held[h].guild > 0, NEW value \in GuildState,
         Write(h, value), AfterWrite(h),
         OthersKeep(h),
         at' \in [Handlers -> Places], held' \in [Handlers -> Locals],
         keys' \in [Handlers -> SUBSET Keys], job' \in [Handlers -> Events \cup {Nothing}],
         InPlace(h)', held'[h].guild = held[h].guild \/ (at'[h] = "idle" /\ held'[h].guild = Unread),
         keys'[h] \subseteq keys[h], Unwritten(h)' \subseteq Unwritten(h),
         StaysRight(h), Stores(h, value)
  PROVE  TypeInv' /\ GuildInv' /\ GoesOn(h) /\ (~raced => Cache' = value)
<1>1. UNCHANGED <<discord, sent, up, guild, raced, missed, overlapped>> /\ rows' = rows
  BY DEF AfterWrite, tracked
<1>2. /\ GoesOn(h)
      /\ caches' \in Seq(GuildState) /\ guild' = Len(caches') /\ Len(caches') = Len(caches)
      /\ ~raced => Cache' = value
  BY <1>1, WriteGoesOn
<1>3. Len(caches) \in Nat /\ rows' \in [Channels -> Seq(ChannelState)] /\ raced' \in BOOLEAN
      /\ (~raced' => Len(caches') <= 1)
  BY <1>1, <1>2 DEF TypeInv, GuildInv
<1>4. held'[h].guild \in {Nil, Unread} \cup (1 .. Len(caches'))  BY <1>2 DEF GuildInv
<1>5. at'[h] \in {"members", "roles", "storename", "storerole", "decide"} => held'[h].guild > 0  OBVIOUS
<1>6. TypeInv' /\ GuildInv'  BY <1>1, <1>2, <1>3, <1>4, <1>5, HandlerTypes
<1> QED  BY <1>2, <1>6

\* A handler that leaves the caches alone and has nothing to write.
LEMMA ReadGoesOn ==
  ASSUME NEW h \in Handlers, OthersKeep(h), Unwritten(h)' = {}, Unwritten(h) = {}, keys'[h] \subseteq keys[h],
         UNCHANGED <<discord, sent, up, guild, caches, raced, missed, overlapped>>
  PROVE  GoesOn(h)
<1>1. \A k \in Keys : Keeps(k)  BY DEF Keeps, Cache
<1> QED  BY <1>1 DEF GoesOn

----------------------------------------------------------------------------
(* The handlers that write *)

LEMMA MergedShape ==
  ASSUME NEW S, NEW T, NEW old \in [S -> T], NEW new \in [S -> T], NEW nothing
  PROVE  /\ Merged(old, new, nothing) \in [S -> T]
         /\ \A k \in S : Merged(old, new, nothing)[k] = IF new[k] = nothing THEN old[k] ELSE new[k]
  BY DEF Merged

\* The entries a guild that was created still has to fill.
LEMMA GuildInHand ==
  ASSUME TypeInv, GuildInv, NEW h \in Handlers, at[h] \in {"channels", "members", "roles"}
  PROVE  /\ job[h] \in Events /\ job[h].type = "guild_create" /\ job[h].value \in GuildState
         /\ keys[h] = Roles \cup (IF job[h].value.emoji THEN {Emoji} ELSE {})
                       \cup {u \in Users : job[h].value.members[u].in}
                       \cup {c \in Channels : job[h].value.channels[c] # NoChannel}
<1>1. job[h].type = "guild_create" /\ keys[h] = Touched(job[h])  BY DEF GuildInv, InPlace
<1>2. job[h] \in Events \cup {Nothing}  BY DEF TypeInv
<1>3. job[h] \in Events  BY <1>1, <1>2 DEF Nothing, Event
<1>4. job[h].value \in GuildState  BY <1>1, <1>2, EventShape
<1> QED  BY <1>1, <1>3, <1>4, TouchedKeys

LEMMA GuildTellsStill ==
  ASSUME NEW h \in Handlers, UNCHANGED discord, NEW k,
         {at[h], at'[h]} \subseteq {"channels", "members", "roles"}, job'[h] = job[h], WillBeRight(h, k)
  PROVE  WillBeRight(h, k)'
<1>1. PICK ev : ev = job[h]  OBVIOUS
<1>2. Tells(ev, k)  BY <1>1 DEF WillBeRight
<1> QED  BY <1>1, <1>2, TellsSame DEF WillBeRight

LEMMA ChannelsStored ==
  ASSUME TypeInv, GuildInv, NEW h \in Handlers, StoreGuildChannels(h)
  PROVE  TypeInv' /\ GuildInv' /\ GoesOn(h)
<1>1. /\ at[h] = "channels" /\ held[h].guild > 0 /\ Go(h, "members") /\ UNCHANGED <<job, held, keys>>
      /\ AfterWrite(h) /\ UNCHANGED discord
  BY DEF StoreGuildChannels, Ready, NeedsGuild, AfterWrite
<1>2. PICK old, new : old = Mine(h).channels /\ new = job[h].value.channels  OBVIOUS
<1>3. PICK value : value = [Mine(h) EXCEPT !.channels = Merged(old, new, NoChannel)]  OBVIOUS
<1>4. Write(h, value)  BY <1>2, <1>3 DEF StoreGuildChannels
<1>5. Mine(h) \in GuildState  BY <1>1, MineIsCache
<1>6. job[h].type = "guild_create" /\ job[h].value \in GuildState
      /\ keys[h] = Roles \cup (IF job[h].value.emoji THEN {Emoji} ELSE {})
                       \cup {u \in Users : job[h].value.members[u].in}
                       \cup {c \in Channels : job[h].value.channels[c] # NoChannel}
  BY <1>1, GuildInHand
<1>7. old \in [Channels -> ChannelState] /\ new \in [Channels -> ChannelState]
  BY <1>2, <1>5, <1>6 DEF GuildState
<1>8. /\ Merged(old, new, NoChannel) \in [Channels -> ChannelState]
      /\ \A c \in Channels : Merged(old, new, NoChannel)[c] = IF new[c] = NoChannel THEN old[c] ELSE new[c]
  BY <1>7, MergedShape
<1>9. /\ value \in GuildState
      /\ value.members = Mine(h).members /\ value.roles = Mine(h).roles /\ value.emoji = Mine(h).emoji
      /\ value.channels = Merged(old, new, NoChannel)
  BY <1>3, <1>5, <1>8 DEF GuildState
<1>10. /\ OthersKeep(h)
       /\ at' \in [Handlers -> Places] /\ held' \in [Handlers -> Locals]
       /\ keys' \in [Handlers -> SUBSET Keys] /\ job' \in [Handlers -> Events \cup {Nothing}]
       /\ at'[h] = "members" /\ job'[h] = job[h] /\ held'[h] = held[h] /\ keys'[h] = keys[h]
  BY <1>1, Goes DEF Places
<1>11. Unwritten(h) = keys[h] /\ Unwritten(h)' = keys[h] \ Channels
  BY <1>1, <1>10 DEF Unwritten
<1>12. \A k \in Keys : WillBeRight(h, k) => WillBeRight(h, k)'
  BY <1>1, <1>10, GuildTellsStill
<1>13. ASSUME NEW k \in Keys
       PROVE  IF k \in Unwritten(h) \ Unwritten(h)' THEN WillBeRight(h, k) => Holds(value, k)
              ELSE SameEntry(value, Mine(h), k)
  <2>1. CASE k \in Channels /\ k \in keys[h]
    <3>1. value.channels[k] = new[k]
      BY <1>2, <1>6, <1>8, <1>9, <2>1, GuildConstants
    <3>2. WillBeRight(h, k) => Shown(k) = new[k]
      BY <1>1, <1>2, <1>6, <2>1 DEF WillBeRight, Tells
    <3>3. WillBeRight(h, k) => Holds(value, k)
      BY <2>1, <3>1, <3>2, GuildConstants DEF Holds
    <3> QED  BY <1>11, <2>1, <3>3
  <2>2. CASE ~(k \in Channels /\ k \in keys[h])
    <3>1. k \in Channels => value.channels[k] = Mine(h).channels[k]
      BY <1>2, <1>6, <1>8, <1>9, <2>2
    <3>2. SameEntry(value, Mine(h), k)  BY <1>9, <3>1 DEF SameEntry
    <3> QED  BY <1>11, <2>2, <3>2
  <2> QED  BY <2>1, <2>2
<1>14. InPlace(h)'
  <2>1. InPlace(h)  BY DEF GuildInv
  <2> QED  BY <1>1, <1>10, <2>1 DEF InPlace
<1>15. keys'[h] \subseteq keys[h] /\ Unwritten(h)' \subseteq Unwritten(h)  BY <1>10, <1>11
<1>16. StaysRight(h) /\ Stores(h, value)  BY <1>12, <1>13 DEF StaysRight, Stores
<1> QED  BY <1>1, <1>4, <1>9, <1>10, <1>14, <1>15, <1>16, Writes

LEMMA MembersStored ==
  ASSUME TypeInv, GuildInv, NEW h \in Handlers, StoreGuildMembers(h)
  PROVE  TypeInv' /\ GuildInv' /\ GoesOn(h)
<1>1. /\ at[h] = "members" /\ held[h].guild > 0 /\ Go(h, "roles") /\ UNCHANGED <<job, held, keys>>
      /\ AfterWrite(h) /\ UNCHANGED discord
  BY DEF StoreGuildMembers, GuildInv, AfterWrite
<1>2. PICK old, new : old = Mine(h).members /\ new = job[h].value.members  OBVIOUS
<1>3. PICK value : value = [Mine(h) EXCEPT !.members = Merged(old, new, Stranger)]  OBVIOUS
<1>4. Write(h, value)  BY <1>2, <1>3 DEF StoreGuildMembers
<1>5. Mine(h) \in GuildState  BY <1>1, MineIsCache
<1>6. job[h].type = "guild_create" /\ job[h].value \in GuildState
      /\ keys[h] = Roles \cup (IF job[h].value.emoji THEN {Emoji} ELSE {})
                       \cup {u \in Users : job[h].value.members[u].in}
                       \cup {c \in Channels : job[h].value.channels[c] # NoChannel}
  BY <1>1, GuildInHand
<1>7. old \in [Users -> MemberState] /\ new \in [Users -> MemberState]
  BY <1>2, <1>5, <1>6 DEF GuildState
<1>8. /\ Merged(old, new, Stranger) \in [Users -> MemberState]
      /\ \A u \in Users : Merged(old, new, Stranger)[u] = IF new[u] = Stranger THEN old[u] ELSE new[u]
  BY <1>7, MergedShape
<1>9. /\ value \in GuildState
      /\ value.channels = Mine(h).channels /\ value.roles = Mine(h).roles /\ value.emoji = Mine(h).emoji
      /\ value.members = Merged(old, new, Stranger)
  BY <1>3, <1>5, <1>8 DEF GuildState
<1>10. /\ OthersKeep(h)
       /\ at' \in [Handlers -> Places] /\ held' \in [Handlers -> Locals]
       /\ keys' \in [Handlers -> SUBSET Keys] /\ job' \in [Handlers -> Events \cup {Nothing}]
       /\ at'[h] = "roles" /\ job'[h] = job[h] /\ held'[h] = held[h] /\ keys'[h] = keys[h]
  BY <1>1, Goes DEF Places
<1>11. Unwritten(h) = keys[h] \ Channels /\ Unwritten(h)' = keys[h] \ (Users \cup Channels)
  BY <1>1, <1>10 DEF Unwritten
<1>12. \A k \in Keys : WillBeRight(h, k) => WillBeRight(h, k)'
  BY <1>1, <1>10, GuildTellsStill
<1>13. ASSUME NEW k \in Keys
       PROVE  IF k \in Unwritten(h) \ Unwritten(h)' THEN WillBeRight(h, k) => Holds(value, k)
              ELSE SameEntry(value, Mine(h), k)
  <2>1. CASE k \in Users /\ k \in keys[h]
    <3>1. new[k].in  BY <1>2, <1>6, <2>1, GuildConstants
    <3>2. value.members[k] = new[k]
      BY <1>8, <1>9, <2>1, <3>1 DEF Stranger
    <3>3. WillBeRight(h, k) => members[k] = new[k]
      BY <1>1, <1>2, <1>6, <2>1 DEF WillBeRight, Tells
    <3>4. WillBeRight(h, k) => Holds(value, k)
      BY <2>1, <3>2, <3>3, GuildConstants DEF Holds
    <3> QED  BY <1>11, <2>1, <3>4, GuildConstants
  <2>2. CASE ~(k \in Users /\ k \in keys[h])
    <3>1. ASSUME k \in Users
          PROVE  value.members[k] = Mine(h).members[k]
      <4>1. ~new[k].in  BY <1>2, <1>6, <2>2, <3>1
      <4>2. new[k] = Stranger  BY <1>7, <3>1, <4>1 DEF MemberState
      <4> QED  BY <1>2, <1>8, <1>9, <3>1, <4>2
    <3>2. SameEntry(value, Mine(h), k)  BY <1>9, <3>1 DEF SameEntry
    <3> QED  BY <1>11, <2>2, <3>2
  <2> QED  BY <2>1, <2>2
<1>14. InPlace(h)'
  <2>1. InPlace(h)  BY DEF GuildInv
  <2> QED  BY <1>1, <1>10, <2>1 DEF InPlace
<1>15. keys'[h] \subseteq keys[h] /\ Unwritten(h)' \subseteq Unwritten(h)  BY <1>10, <1>11
<1>16. StaysRight(h) /\ Stores(h, value)  BY <1>12, <1>13 DEF StaysRight, Stores
<1> QED  BY <1>1, <1>4, <1>9, <1>10, <1>14, <1>15, <1>16, Writes

LEMMA RolesStored ==
  ASSUME TypeInv, GuildInv, NEW h \in Handlers, StoreGuildRoles(h)
  PROVE  TypeInv' /\ GuildInv' /\ GoesOn(h)
<1>1. at[h] = "roles" /\ held[h].guild > 0 /\ Finish(h) /\ AfterWrite(h)
  BY DEF StoreGuildRoles, GuildInv
<1>2. PICK value : value = [Mine(h) EXCEPT !.roles = job[h].value.roles, !.emoji = @ \/ job[h].value.emoji]
  OBVIOUS
<1>3. Write(h, value)  BY <1>2 DEF StoreGuildRoles
<1>4. Mine(h) \in GuildState  BY <1>1, MineIsCache
<1>5. job[h].type = "guild_create" /\ job[h].value \in GuildState
      /\ keys[h] = Roles \cup (IF job[h].value.emoji THEN {Emoji} ELSE {})
                       \cup {u \in Users : job[h].value.members[u].in}
                       \cup {c \in Channels : job[h].value.channels[c] # NoChannel}
  BY <1>1, GuildInHand
<1>6. /\ value.members = Mine(h).members /\ value.channels = Mine(h).channels
      /\ value.roles = job[h].value.roles /\ (value.emoji <=> Mine(h).emoji \/ job[h].value.emoji)
      /\ value \in GuildState
  BY <1>2, <1>4, <1>5 DEF GuildState
<1>7. /\ OthersKeep(h)
      /\ at' \in [Handlers -> Places] /\ held' \in [Handlers -> Locals]
      /\ keys' \in [Handlers -> SUBSET Keys] /\ job' \in [Handlers -> Events \cup {Nothing}]
      /\ at'[h] = "idle" /\ keys'[h] = {} /\ Unwritten(h)' = {} /\ InPlace(h)'
      /\ held'[h].guild = Unread
  BY <1>1, Finishes
<1>8. Unwritten(h) = keys[h] \ (Users \cup Channels)  BY <1>1 DEF Unwritten
<1>9. ASSUME NEW k \in Keys
      PROVE  IF k \in Unwritten(h) \ Unwritten(h)' THEN WillBeRight(h, k) => Holds(value, k)
             ELSE SameEntry(value, Mine(h), k)
  <2>1. WillBeRight(h, k) => Tells(job[h], k)  BY <1>1 DEF WillBeRight
  <2>2. CASE k \in Roles
    <3>1. k \in Unwritten(h) \ Unwritten(h)'  BY <1>5, <1>7, <1>8, <2>2, GuildConstants
    <3>2. WillBeRight(h, k) => value.roles[k] = told[k]  BY <1>6, <2>1, <2>2 DEF Tells
    <3>3. WillBeRight(h, k) => Holds(value, k)  BY <2>2, <3>2, GuildConstants DEF Holds
    <3> QED  BY <3>1, <3>3
  <2>3. CASE k = Emoji
    <3>1. CASE job[h].value.emoji
      <4>1. k \in Unwritten(h) \ Unwritten(h)'  BY <1>5, <1>7, <1>8, <2>3, <3>1, GuildConstants
      <4>2. value.emoji = job[h].value.emoji
        BY <1>4, <1>5, <1>6, <3>1 DEF GuildState
      <4>3. WillBeRight(h, k) => value.emoji = emoji
        BY <1>5, <2>1, <2>3, <4>2 DEF Tells
      <4>4. WillBeRight(h, k) => Holds(value, k)  BY <2>3, <4>3, GuildConstants DEF Holds
      <4> QED  BY <4>1, <4>4
    <3>2. CASE ~job[h].value.emoji
      <4>1. k \notin Unwritten(h)  BY <1>5, <1>8, <2>3, <3>2, GuildConstants
      <4>2. value.emoji = Mine(h).emoji  BY <1>4, <1>6, <3>2 DEF GuildState
      <4>3. SameEntry(value, Mine(h), k)  BY <2>3, <4>2, GuildConstants DEF SameEntry
      <4> QED  BY <4>1, <4>3
    <3> QED  BY <3>1, <3>2
  <2>4. CASE k \in Users \cup Channels
    <3>1. SameEntry(value, Mine(h), k)  BY <1>6, <2>4, GuildConstants DEF SameEntry
    <3> QED  BY <1>8, <2>4, <3>1
  <2> QED  BY <2>2, <2>3, <2>4 DEF Keys
<1>10. StaysRight(h) /\ Stores(h, value)  BY <1>7, <1>9 DEF StaysRight, Stores
<1>11. keys'[h] \subseteq keys[h] /\ Unwritten(h)' \subseteq Unwritten(h)  BY <1>7
<1> QED  BY <1>1, <1>3, <1>6, <1>7, <1>10, <1>11, Writes

\* A handler that writes one entry and is done with it.
LEMMA OneEntryStored ==
  ASSUME TypeInv, GuildInv, NEW h \in Handlers, NEW value \in GuildState, NEW key \in Keys,
         Write(h, value), AfterWrite(h), held[h].guild > 0,
         at[h] \in {"put", "remove", "emojis", "storename", "storerole"}, keys[h] = {key},
         OthersKeep(h),
         at' \in [Handlers -> Places], held' \in [Handlers -> Locals],
         keys' \in [Handlers -> SUBSET Keys], job' \in [Handlers -> Events \cup {Nothing}],
         at'[h] \in {"idle", "event", "convert", "decide"}, keys'[h] \subseteq keys[h],
         InPlace(h)', held'[h].guild = held[h].guild \/ (at'[h] = "idle" /\ held'[h].guild = Unread),
         WillBeRight(h, key) => Holds(value, key),
         \A k \in Keys \ {key} : SameEntry(value, Mine(h), k)
  PROVE  TypeInv' /\ GuildInv' /\ GoesOn(h) /\ (~raced => Cache' = value)
<1>1. Unwritten(h) = {key} /\ Unwritten(h)' = {}  BY DEF Unwritten
<1>2. StaysRight(h) /\ Stores(h, value)  BY <1>1 DEF StaysRight, Stores
<1>3. Unwritten(h)' \subseteq Unwritten(h)  BY <1>1
<1> QED  BY <1>2, <1>3, Writes

LEMMA EmojisStored ==
  ASSUME TypeInv, GuildInv, NEW h \in Handlers, StoreEmojis(h)
  PROVE  TypeInv' /\ GuildInv' /\ GoesOn(h)
<1>1. at[h] = "emojis" /\ held[h].guild > 0 /\ Finish(h) /\ AfterWrite(h)
  BY DEF StoreEmojis, Ready, NeedsGuild
<1>2. PICK value : value = [Mine(h) EXCEPT !.emoji = job[h].value]  OBVIOUS
<1>3. Write(h, value)  BY <1>2 DEF StoreEmojis
<1>4. Mine(h) \in GuildState  BY <1>1, MineIsCache
<1>5. job[h].type = "emojis_update" /\ keys[h] = {Emoji}
  <2>1. InPlace(h)  BY DEF GuildInv
  <2> QED  BY <1>1, <2>1 DEF InPlace
<1>6. job[h].value \in BOOLEAN
  <2>1. job[h] \in Events \cup {Nothing}  BY DEF TypeInv
  <2> QED  BY <1>5, <2>1, EventShape
<1>7. /\ value.members = Mine(h).members /\ value.channels = Mine(h).channels
      /\ value.roles = Mine(h).roles /\ value.emoji = job[h].value
      /\ value \in GuildState
  BY <1>2, <1>4, <1>6 DEF GuildState
<1>8. /\ OthersKeep(h)
      /\ at' \in [Handlers -> Places] /\ held' \in [Handlers -> Locals]
      /\ keys' \in [Handlers -> SUBSET Keys] /\ job' \in [Handlers -> Events \cup {Nothing}]
      /\ at'[h] = "idle" /\ keys'[h] = {} /\ InPlace(h)' /\ held'[h].guild = Unread
  BY <1>1, Finishes
<1>9. Emoji \in Keys  BY DEF Keys
<1>10. WillBeRight(h, Emoji) => Holds(value, Emoji)
  BY <1>1, <1>5, <1>7, GuildConstants DEF WillBeRight, Tells, Holds
<1>11. \A k \in Keys \ {Emoji} : SameEntry(value, Mine(h), k)  BY <1>7 DEF SameEntry
<1> QED  BY <1>1, <1>3, <1>5, <1>7, <1>8, <1>9, <1>10, <1>11, OneEntryStored

\* A guild with another member.
WithMember(old, user, member) == [old EXCEPT !.members[user] = member]

LEMMA MemberEntry ==
  ASSUME NEW old \in GuildState, NEW user \in Users, NEW member \in MemberState
  PROVE  /\ WithMember(old, user, member) \in GuildState
         /\ WithMember(old, user, member).members[user] = member
         /\ \A k \in Keys \ {user} : SameEntry(WithMember(old, user, member), old, k)
<1>0. PICK value : value = WithMember(old, user, member)  OBVIOUS
<1>1. value.members = [old.members EXCEPT ![user] = member] /\ value.channels = old.channels
      /\ value.roles = old.roles /\ value.emoji = old.emoji
  BY <1>0 DEF GuildState, WithMember
<1>2. value.members \in [Users -> MemberState] /\ value.members[user] = member  BY <1>1 DEF GuildState
<1>3. value \in GuildState
  <2>1. value = [members |-> value.members, channels |-> old.channels, roles |-> old.roles, emoji |-> old.emoji]
    BY <1>0 DEF GuildState, WithMember
  <2> QED  BY <1>2, <2>1 DEF GuildState
<1>4. \A k \in Keys \ {user} : SameEntry(value, old, k)  BY <1>1 DEF SameEntry, GuildState
<1> QED  BY <1>0, <1>2, <1>3, <1>4

LEMMA MemberStored ==
  ASSUME TypeInv, GuildInv, NEW h \in Handlers, StoreMember(h) \/ ForgetMember(h)
  PROVE  TypeInv' /\ GuildInv' /\ GoesOn(h)
<1>1. at[h] \in {"put", "remove"} /\ held[h].guild > 0 /\ Finish(h) /\ AfterWrite(h)
  BY DEF StoreMember, ForgetMember, Ready, NeedsGuild
<1>2. PICK user : user = Key(h)  OBVIOUS
<1>3. PICK member : member = IF StoreMember(h) THEN job[h].value ELSE Stranger  OBVIOUS
<1>4. PICK value : value = WithMember(Mine(h), user, member)  OBVIOUS
<1>5. Write(h, value)  BY <1>2, <1>3, <1>4 DEF StoreMember, ForgetMember, WithMember
<1>6. Mine(h) \in GuildState  BY <1>1, MineIsCache
<1>7. user \in Users /\ member \in MemberState /\ member = job[h].value /\ keys[h] = {user}
      /\ job[h].type # "guild_create"
  <2>1. job[h] \in Events \cup {Nothing}  BY DEF TypeInv
  <2>2. InPlace(h)  BY DEF GuildInv
  <2>3. CASE StoreMember(h)
    <3>1. at[h] = "put" /\ job[h].type \in {"member_add", "member_update"}  BY <2>3 DEF StoreMember, Ready
    <3>2. keys[h] = {Key(h)}  BY <2>2, <3>1 DEF InPlace
    <3> QED  BY <1>2, <1>3, <2>1, <2>3, <3>1, <3>2, EventShape DEF Key
  <2>4. CASE ~StoreMember(h)
    <3>1. at[h] = "remove" /\ job[h].type = "member_remove"  BY <2>4 DEF ForgetMember, Ready
    <3>2. keys[h] = {Key(h)}  BY <2>2, <3>1 DEF InPlace
    <3>3. Stranger \in MemberState  BY DEF Stranger, MemberState, Member
    <3> QED  BY <1>2, <1>3, <2>1, <2>4, <3>1, <3>2, <3>3, EventShape DEF Key
  <2> QED  BY <2>3, <2>4
<1>8. /\ value \in GuildState
      /\ value.members[user] = member
      /\ \A k \in Keys \ {user} : SameEntry(value, Mine(h), k)
  <2>1. PICK old : old = Mine(h)  OBVIOUS
  <2> QED  BY <1>4, <1>6, <1>7, <2>1, MemberEntry
<1>9. /\ OthersKeep(h)
      /\ at' \in [Handlers -> Places] /\ held' \in [Handlers -> Locals]
      /\ keys' \in [Handlers -> SUBSET Keys] /\ job' \in [Handlers -> Events \cup {Nothing}]
      /\ at'[h] = "idle" /\ keys'[h] = {} /\ InPlace(h)' /\ held'[h].guild = Unread
  BY <1>1, Finishes
<1>10. user \in Keys  BY <1>7 DEF Keys
<1>11. WillBeRight(h, user) => Holds(value, user)
  BY <1>1, <1>7, <1>8, GuildConstants DEF WillBeRight, Tells, Holds
<1> QED  BY <1>1, <1>5, <1>7, <1>8, <1>9, <1>10, <1>11, OneEntryStored

\* A guild with another channel.
WithChannel(old, c, state) == [old EXCEPT !.channels[c] = state]

LEMMA ChannelEntry ==
  ASSUME NEW old \in GuildState, NEW c \in Channels, NEW state \in ChannelState
  PROVE  /\ WithChannel(old, c, state) \in GuildState
         /\ WithChannel(old, c, state).channels[c] = state
         /\ \A k \in Keys \ {c} : SameEntry(WithChannel(old, c, state), old, k)
<1>0. PICK value : value = WithChannel(old, c, state)  OBVIOUS
<1>1. value.channels = [old.channels EXCEPT ![c] = state] /\ value.members = old.members
      /\ value.roles = old.roles /\ value.emoji = old.emoji
  BY <1>0 DEF GuildState, WithChannel
<1>2. value.channels \in [Channels -> ChannelState] /\ value.channels[c] = state  BY <1>1 DEF GuildState
<1>3. value \in GuildState
  <2>1. value = [members |-> old.members, channels |-> value.channels, roles |-> old.roles, emoji |-> old.emoji]
    BY <1>0 DEF GuildState, WithChannel
  <2> QED  BY <1>2, <2>1 DEF GuildState
<1>4. \A k \in Keys \ {c} : SameEntry(value, old, k)  BY <1>1 DEF SameEntry, GuildState
<1> QED  BY <1>0, <1>2, <1>3, <1>4

\* The job of a handler that is at work on a channel.
LEMMA ChannelJob ==
  ASSUME TypeInv, GuildInv, NEW h \in Handlers,
         \/ at[h] = "put" /\ job[h].type \in ChannelPuts
         \/ at[h] = "remove" /\ job[h].type \in ChannelDrops
         \/ at[h] \in {"event", "select", "insert", "update"}
  PROVE  /\ keys[h] = {Key(h)} /\ Key(h) \in Channels
         /\ job[h].type \in {"channel_create", "thread_create"} \cup ChannelDrops \/ at[h] = "put"
         /\ job[h].type \in ChannelPuts => job[h].value \in ChannelState /\ job[h].value.kind \notin Gone
<1>1. InPlace(h)  BY DEF GuildInv
<1>2. job[h] \in Events \cup {Nothing}  BY DEF TypeInv
<1>3. keys[h] = {Key(h)} /\ job[h].type \in ChannelPuts \cup ChannelDrops
      /\ (job[h].type \in {"channel_create", "thread_create"} \cup ChannelDrops \/ at[h] = "put")
  BY <1>1 DEF InPlace, ChannelPuts
<1> QED  BY <1>2, <1>3, EventShape DEF Key

\* A handler stores a channel, or takes it out, and ends or raises an event.
LEMMA ChannelStored ==
  ASSUME TypeInv, GuildInv, NEW h \in Handlers, held[h].guild > 0, AfterWrite(h),
         \/ at[h] = "put" /\ job[h].type \in ChannelPuts /\ PutChannel(h)
         \/ at[h] = "remove" /\ job[h].type \in ChannelDrops /\ DropChannel(h),
         \/ Finish(h)
         \/ RaiseEvent(h) /\ job[h].type \in {"channel_create", "thread_create"} \cup ChannelDrops
  PROVE  /\ TypeInv' /\ GuildInv' /\ GoesOn(h)
         /\ at[h] = "put" /\ ~raced => Cache'.channels[Key(h)] = job[h].value
<1>1. keys[h] = {Key(h)} /\ Key(h) \in Channels
      /\ (job[h].type \in ChannelPuts => job[h].value \in ChannelState /\ job[h].value.kind \notin Gone)
  BY ChannelJob
<1>2. PICK c, old : c = Key(h) /\ old = Mine(h)  OBVIOUS
<1>3. PICK state : state = IF at[h] = "put" THEN job[h].value ELSE NoChannel  OBVIOUS
<1>4. PICK value : value = WithChannel(old, c, state)  OBVIOUS
<1>5. Write(h, value)  BY <1>2, <1>3, <1>4 DEF PutChannel, DropChannel, WithChannel
<1>6. c \in Channels /\ old \in GuildState /\ state \in ChannelState
  BY <1>1, <1>2, <1>3, MineIsCache DEF NoChannel, ChannelState, Gone
<1>7. /\ value \in GuildState
      /\ value.channels[c] = state
      /\ \A k \in Keys \ {c} : SameEntry(value, Mine(h), k)
  BY <1>2, <1>4, <1>6, ChannelEntry
<1>8. /\ OthersKeep(h)
      /\ at' \in [Handlers -> Places] /\ held' \in [Handlers -> Locals]
      /\ keys' \in [Handlers -> SUBSET Keys] /\ job' \in [Handlers -> Events \cup {Nothing}]
      /\ at'[h] \in {"idle", "event"} /\ keys'[h] \subseteq keys[h] /\ InPlace(h)'
      /\ held'[h].guild = held[h].guild \/ (at'[h] = "idle" /\ held'[h].guild = Unread)
  <2>1. CASE Finish(h)  BY <2>1, Finishes
  <2>2. CASE RaiseEvent(h) /\ job[h].type \in {"channel_create", "thread_create"} \cup ChannelDrops
    <3>1. Go(h, "event") /\ UNCHANGED <<job, held, keys>> /\ "event" \in Places  BY <2>2 DEF RaiseEvent, Places
    <3>2. /\ OthersKeep(h)
          /\ at' \in [Handlers -> Places] /\ held' \in [Handlers -> Locals]
          /\ keys' \in [Handlers -> SUBSET Keys] /\ job' \in [Handlers -> Events \cup {Nothing}]
          /\ at'[h] = "event" /\ job'[h] = job[h] /\ held'[h] = held[h] /\ keys'[h] = keys[h]
      BY <3>1, Goes
    <3>3. InPlace(h)'  BY <1>1, <2>2, <3>2 DEF InPlace, Key
    <3> QED  BY <3>2, <3>3
  <2> QED  BY <2>1, <2>2
<1>9. c \in Keys  BY <1>6 DEF Keys
<1>10. WillBeRight(h, c) => Holds(value, c)
  <2>1. WillBeRight(h, c) => Shown(c) = state
    BY <1>1, <1>2, <1>3, <1>6 DEF WillBeRight, Tells, IsDelete, ChannelPuts, ChannelDrops
  <2> QED  BY <1>6, <1>7, <2>1, GuildConstants DEF Holds
<1>11. at[h] \in {"put", "remove", "emojis", "storename", "storerole"} /\ keys[h] = {c}
       /\ at'[h] \in {"idle", "event", "convert", "decide"}
  BY <1>1, <1>2, <1>8
<1>12. TypeInv' /\ GuildInv' /\ GoesOn(h) /\ (~raced => Cache' = value)
  BY <1>5, <1>7, <1>8, <1>9, <1>10, <1>11, OneEntryStored
<1>13. at[h] = "put" /\ ~raced => Cache'.channels[c] = job[h].value
  BY <1>3, <1>7, <1>12
<1> QED  BY <1>2, <1>12, <1>13

\* The six handlers of channels and threads.
ChannelHandlers(h) ==
  \/ handleChannelCreateEvent(h) \/ handleChannelUpdateEvent(h) \/ handleChannelDeleteEvent(h)
  \/ handleThreadCreateEvent(h) \/ handleThreadUpdateEvent(h) \/ handleThreadDeleteEvent(h)

LEMMA ChannelHandled ==
  ASSUME TypeInv, GuildInv, NEW h \in Handlers, ChannelHandlers(h)
  PROVE  /\ TypeInv' /\ GuildInv' /\ GoesOn(h) /\ AfterWrite(h)
         /\ at[h] \in {"put", "remove"} /\ at'[h] \in {"idle", "event"}
         /\ at[h] = "put" /\ at'[h] = "idle" => ~IsCreate(job[h])
         /\ at'[h] = "event" => UNCHANGED <<job, held, keys>>
         /\ at[h] = "put" /\ ~raced => Cache'.channels[Key(h)] = job[h].value
<1>1. /\ held[h].guild > 0 /\ AfterWrite(h)
      /\ \/ at[h] = "put" /\ job[h].type \in ChannelPuts /\ PutChannel(h)
         \/ at[h] = "remove" /\ job[h].type \in ChannelDrops /\ DropChannel(h)
      /\ \/ Finish(h) /\ ~IsCreate(job[h])
         \/ RaiseEvent(h) /\ job[h].type \in {"channel_create", "thread_create"} \cup ChannelDrops
  <2>1. CASE handleChannelCreateEvent(h)
    BY <2>1 DEF handleChannelCreateEvent, Ready, NeedsGuild, ChannelPuts
  <2>2. CASE handleChannelUpdateEvent(h)
    BY <2>2 DEF handleChannelUpdateEvent, Ready, NeedsGuild, ChannelPuts, IsCreate
  <2>3. CASE handleChannelDeleteEvent(h)
    BY <2>3 DEF handleChannelDeleteEvent, Ready, NeedsGuild, ChannelDrops
  <2>4. CASE handleThreadCreateEvent(h)
    BY <2>4 DEF handleThreadCreateEvent, Ready, NeedsGuild, ChannelPuts
  <2>5. CASE handleThreadUpdateEvent(h)
    BY <2>5 DEF handleThreadUpdateEvent, Ready, NeedsGuild, ChannelPuts, IsCreate
  <2>6. CASE handleThreadDeleteEvent(h)
    BY <2>6 DEF handleThreadDeleteEvent, Ready, NeedsGuild, ChannelDrops
  <2> QED  BY <2>1, <2>2, <2>3, <2>4, <2>5, <2>6 DEF ChannelHandlers
<1>2. TypeInv' /\ GuildInv' /\ GoesOn(h)
      /\ (at[h] = "put" /\ ~raced => Cache'.channels[Key(h)] = job[h].value)
  BY <1>1, ChannelStored
<1>3. \/ Finish(h) /\ at'[h] = "idle" /\ ~IsCreate(job[h])
      \/ at'[h] = "event" /\ UNCHANGED <<job, held, keys>>
  <2>1. CASE Finish(h) /\ ~IsCreate(job[h])  BY <2>1, Finishes
  <2>2. CASE RaiseEvent(h)  BY <2>2, Goes DEF RaiseEvent, Places
  <2> QED  BY <1>1, <2>1, <2>2
<1> QED  BY <1>1, <1>2, <1>3

\* What a message asked for of a member is put into the cache.
LEMMA AnswerCached ==
  ASSUME TypeInv, GuildInv, NEW h \in Handlers, CacheUser(h) \/ CacheMember(h)
  PROVE  /\ TypeInv' /\ GuildInv' /\ GoesOn(h) /\ AfterWrite(h)
         /\ at[h] \in {"storename", "storerole"} /\ at'[h] \in {"convert", "decide"} /\ UNCHANGED <<job, held>>
<1>1. /\ at[h] \in {"storename", "storerole"} /\ held[h].guild > 0 /\ UNCHANGED <<job, held>>
      /\ AfterWrite(h)
      /\ keys' = [keys EXCEPT ![h] = {}]
      /\ \/ at[h] = "storename" /\ Go(h, "convert")
         \/ at[h] = "storerole" /\ Go(h, "decide")
  BY DEF CacheUser, CacheMember, MessageStep, AfterWrite, GuildInv
<1>2. PICK user, old : user = (IF at[h] = "storename" THEN Mention(h) ELSE Key(h)) /\ old = Mine(h)  OBVIOUS
<1>3. PICK value : value = WithMember(old, user, held[h].member)  OBVIOUS
<1>4. Write(h, value)  BY <1>2, <1>3 DEF CacheUser, CacheMember, CacheAnswer, WithMember
<1>5. keys[h] = {user} /\ user \in Users /\ job[h].type = "message" /\ (at[h] = "storename" => Mention(h) \in Users)
  <2>1. InPlace(h)  BY DEF GuildInv
  <2>2. job[h] \in Events \cup {Nothing}  BY DEF TypeInv
  <2>3. job[h].type = "message" /\ keys[h] = {user} /\ (at[h] = "storename" => user = Mention(h) /\ user \in Users)
        /\ (at[h] = "storerole" => user = Key(h))
    BY <1>1, <1>2, <2>1 DEF InPlace
  <2>4. Key(h) \in Users  BY <2>2, <2>3, EventShape DEF Key
  <2> QED  BY <1>1, <2>3, <2>4
<1>6. old \in GuildState /\ held[h].member \in MemberState
  BY <1>1, <1>2, MineIsCache DEF TypeInv, Locals
<1>7. /\ value \in GuildState
      /\ value.members[user] = held[h].member
      /\ \A k \in Keys \ {user} : SameEntry(value, Mine(h), k)
  <2>1. PICK member \in MemberState : member = held[h].member  BY <1>6
  <2> QED  BY <1>2, <1>3, <1>5, <1>6, <2>1, MemberEntry
<1>8. /\ OthersKeep(h)
      /\ at' \in [Handlers -> Places] /\ held' \in [Handlers -> Locals]
      /\ keys' \in [Handlers -> SUBSET Keys] /\ job' \in [Handlers -> Events \cup {Nothing}]
      /\ at'[h] \in {"convert", "decide"} /\ keys'[h] = {} /\ held'[h] = held[h] /\ job'[h] = job[h]
  BY <1>1 DEF TypeInv, Go, OthersKeep, Places
<1>9. InPlace(h)'  BY <1>5, <1>8 DEF InPlace
<1>10. user \in Keys  BY <1>5 DEF Keys
<1>11. WillBeRight(h, user) => Holds(value, user)
  BY <1>1, <1>5, <1>7, GuildConstants DEF WillBeRight, Holds
<1>12. TypeInv' /\ GuildInv' /\ GoesOn(h)
  BY <1>1, <1>4, <1>5, <1>7, <1>8, <1>9, <1>10, <1>11, OneEntryStored
<1> QED  BY <1>1, <1>8, <1>12

----------------------------------------------------------------------------
(* The steps that do not write into the caches *)

LEMMA GuildFound ==
  ASSUME TypeInv, GuildInv, NEW h \in Handlers, FindGuild(h)
  PROVE  /\ TypeInv' /\ GuildInv' /\ GoesOn(h)
         /\ \A g \in Handlers : held'[g].member = held[g].member /\ held'[g].truth = held[g].truth
                                /\ held'[g].sure = held[g].sure
<1>1. /\ at[h] \in NeedsGuild /\ UNCHANGED <<at, job, keys>>
      /\ UNCHANGED <<discord, sent, up, guild, caches, raced, missed, overlapped, rows>>
  BY DEF FindGuild, cacheVars, tracked, history
<1>2. PICK found : found = IF guild = 0 THEN Nil ELSE guild  OBVIOUS
<1>3. Len(caches) \in Nat /\ found \in {Nil, Unread} \cup (1 .. Len(caches)) /\ found \in Int
  BY <1>2 DEF TypeInv, GuildInv, Nil
<1>4. /\ held' \in [Handlers -> Locals] /\ held'[h].guild = found
      /\ \A g \in Handlers \ {h} : held'[g] = held[g]
      /\ held'[h].member = held[h].member /\ held'[h].truth = held[h].truth /\ held'[h].sure = held[h].sure
  <2>1. held' = [held EXCEPT ![h].guild = found]  BY <1>2 DEF FindGuild
  <2> QED  BY <1>3, <2>1 DEF TypeInv, Locals
<1>5. OthersKeep(h)  BY <1>1, <1>4 DEF OthersKeep
<1>6. InPlace(h)'
  <2>1. InPlace(h)  BY DEF GuildInv
  <2> QED  BY <1>1, <2>1 DEF InPlace, NeedsGuild, Key, Mention
<1>7. at'[h] \notin {"members", "roles", "storename", "storerole", "decide"}  BY <1>1 DEF NeedsGuild
<1>8. /\ at' \in [Handlers -> Places] /\ keys' \in [Handlers -> SUBSET Keys]
      /\ job' \in [Handlers -> Events \cup {Nothing}] /\ rows' \in [Channels -> Seq(ChannelState)]
      /\ caches' \in Seq(GuildState) /\ guild' = Len(caches') /\ Len(caches) <= Len(caches')
      /\ raced' \in BOOLEAN /\ (~raced' => Len(caches') <= 1)
      /\ held'[h].guild \in {Nil, Unread} \cup (1 .. Len(caches'))
  BY <1>1, <1>3, <1>4 DEF TypeInv, GuildInv
<1>9. TypeInv' /\ GuildInv'  BY <1>1, <1>4, <1>5, <1>6, <1>7, <1>8, HandlerTypes
<1>10. Unwritten(h)' = Unwritten(h)  BY <1>1 DEF Unwritten
<1>11. \A k \in Keys : WillBeRight(h, k) => WillBeRight(h, k)'
  <2> SUFFICES ASSUME NEW k \in Keys, WillBeRight(h, k)
               PROVE  WillBeRight(h, k)'
    OBVIOUS
  <2>1. PICK ev : ev = job[h]  OBVIOUS
  <2>2. at[h] \notin {"storename", "storerole"} /\ UNCHANGED discord  BY <1>1 DEF NeedsGuild
  <2>3. Tells(ev, k)  BY <2>1, <2>2 DEF WillBeRight
  <2> QED  BY <1>1, <2>1, <2>2, <2>3, TellsSame DEF WillBeRight
<1>12. \A k \in Keys : Keeps(k)  BY <1>1 DEF Keeps, Cache
<1>13. GoesOn(h)  BY <1>1, <1>5, <1>10, <1>11, <1>12 DEF GoesOn
<1> QED  BY <1>4, <1>9, <1>13

\* A guild is made: it is empty, as no guild was.
LEMMA GuildMade ==
  ASSUME TypeInv, GuildInv, NEW h \in Handlers, MakeGuild(h)
  PROVE  /\ TypeInv' /\ GuildInv' /\ GoesOn(h)
         /\ \A g \in Handlers : held'[g].member = held[g].member /\ held'[g].truth = held[g].truth
                                /\ held'[g].sure = held[g].sure
<1>1. /\ held[h].guild = Nil /\ UNCHANGED <<at, job, keys>>
      /\ UNCHANGED <<discord, sent, up, missed, overlapped, rows>>
      /\ caches' = Append(caches, EmptyGuild) /\ guild' = Len(caches')
      /\ raced' = (raced \/ guild # 0)
  BY DEF MakeGuild, tracked, history
<1>2. /\ caches' \in Seq(GuildState) /\ Len(caches') = Len(caches) + 1 /\ Len(caches) \in Nat
      /\ caches'[Len(caches')] = EmptyGuild
  BY <1>1, EmptyGuildShape DEF TypeInv
<1>3. PICK made : made = Len(caches')  OBVIOUS
<1>4. /\ held' \in [Handlers -> Locals] /\ held'[h].guild = made
      /\ \A g \in Handlers \ {h} : held'[g] = held[g]
      /\ held'[h].member = held[h].member /\ held'[h].truth = held[h].truth /\ held'[h].sure = held[h].sure
  <2>1. held' = [held EXCEPT ![h].guild = made] /\ made \in Int  BY <1>2, <1>3 DEF MakeGuild
  <2> QED  BY <2>1 DEF TypeInv, Locals
<1>5. OthersKeep(h)  BY <1>1, <1>4 DEF OthersKeep
<1>6. InPlace(h)'
  <2>1. InPlace(h) /\ held[h] # Idle  BY <1>1 DEF GuildInv, Idle, Nil, Unread
  <2> QED  BY <1>1, <2>1 DEF InPlace, Key, Mention
<1>7. at'[h] \in {"members", "roles", "storename", "storerole", "decide"} => held'[h].guild > 0
  BY <1>2, <1>3, <1>4
<1>8. raced' \in BOOLEAN /\ (~raced' => Len(caches') <= 1) /\ (raced => raced')
      /\ (~raced' => guild = 0)
  <2>1. raced' \in BOOLEAN /\ (raced => raced') /\ (~raced' => guild = 0)  BY <1>1 DEF TypeInv
  <2> QED  BY <1>2, <2>1 DEF GuildInv
<1>9. /\ at' \in [Handlers -> Places] /\ keys' \in [Handlers -> SUBSET Keys]
      /\ job' \in [Handlers -> Events \cup {Nothing}] /\ rows' \in [Channels -> Seq(ChannelState)]
      /\ Len(caches) <= Len(caches')
      /\ held'[h].guild \in {Nil, Unread} \cup (1 .. Len(caches'))
  BY <1>1, <1>2, <1>3, <1>4 DEF TypeInv
<1>10. TypeInv' /\ GuildInv'  BY <1>1, <1>2, <1>4, <1>5, <1>6, <1>7, <1>8, <1>9, HandlerTypes
<1>11. Unwritten(h)' = Unwritten(h)  BY <1>1 DEF Unwritten
<1>12. \A k \in Keys : k \in Unwritten(h)' /\ WillBeRight(h, k) => WillBeRight(h, k)'
  <2> SUFFICES ASSUME NEW k \in Keys, WillBeRight(h, k)
               PROVE  WillBeRight(h, k)'
    OBVIOUS
  <2>1. PICK ev : ev = job[h]  OBVIOUS
  <2>2. UNCHANGED discord  BY <1>1
  <2>3. (Tells(ev, k)' <=> Tells(ev, k)) /\ job'[h] = ev  BY <1>1, <2>1, <2>2, TellsSame
  <2> QED  BY <1>1, <1>4, <2>1, <2>2, <2>3 DEF WillBeRight, discord
<1>13. ~raced' => Cache = EmptyGuild /\ Cache' = EmptyGuild
  BY <1>1, <1>2, <1>8 DEF Cache
<1>14. ~raced' => \A k \in Keys : Keeps(k)  BY <1>13 DEF Keeps
<1>15. GoesOn(h)  BY <1>1, <1>5, <1>8, <1>11, <1>12, <1>14 DEF GoesOn
<1> QED  BY <1>4, <1>10, <1>15

\* A handler that has nothing to write leaves the caches alone.
LEMMA Reads ==
  ASSUME TypeInv, GuildInv, NEW h \in Handlers, OthersKeep(h),
         UNCHANGED <<discord, sent, up, guild, caches, raced, missed, overlapped>>,
         at' \in [Handlers -> Places], held' \in [Handlers -> Locals],
         keys' \in [Handlers -> SUBSET Keys], job' \in [Handlers -> Events \cup {Nothing}],
         rows' \in [Channels -> Seq(ChannelState)],
         InPlace(h)', held'[h].guild = held[h].guild \/ held'[h].guild = Unread,
         at'[h] \in {"members", "roles", "storename", "storerole", "decide"} => held'[h].guild > 0,
         keys'[h] \subseteq keys[h],
         at[h] \in {"event", "select", "insert", "update", "name", "role", "channelname", "convert", "decide"},
         at'[h] \in {"idle", "select", "insert", "update", "role", "convert", "decide"}
  PROVE  TypeInv' /\ GuildInv' /\ GoesOn(h)
<1>1. /\ caches' \in Seq(GuildState) /\ guild' = Len(caches') /\ Len(caches) <= Len(caches')
      /\ raced' \in BOOLEAN /\ (~raced' => Len(caches') <= 1)
      /\ held'[h].guild \in {Nil, Unread} \cup (1 .. Len(caches'))
  BY DEF TypeInv, GuildInv
<1>2. TypeInv' /\ GuildInv'  BY <1>1, HandlerTypes
<1>3. Unwritten(h) = {} /\ Unwritten(h)' = {}  BY DEF Unwritten
<1> QED  BY <1>2, <1>3, ReadGoesOn

LEMMA ChannelTracked ==
  ASSUME TypeInv, GuildInv, NEW h \in Handlers, TrackChannel(h)
  PROVE  /\ TypeInv' /\ GuildInv' /\ GoesOn(h) /\ UNCHANGED <<rows, announced, doubled, unsaved, raced, up>>
         /\ at[h] = "event" /\ at'[h] \in {"idle", "select"}
         /\ at'[h] = "idle" => Known(Key(h)).kind = "none"
         /\ at'[h] = "select" => UNCHANGED <<job, keys>>
         /\ held'[h].sure => held'[h].member = held[h].member /\ held'[h].truth = held[h].truth /\ held[h].sure
<1>1. /\ at[h] = "event" /\ UNCHANGED <<rows, announced, doubled, unsaved>>
      /\ UNCHANGED <<discord, sent, up, guild, caches, raced, missed, overlapped>>
  BY DEF TrackChannel, NoWrite, cacheVars, tracked
<1>2. Key(h) \in Channels  BY <1>1, ChannelJob
<1>3. CASE Known(Key(h)).kind = "none"
  <2>1. Finish(h)  BY <1>3 DEF TrackChannel
  <2>2. /\ OthersKeep(h)
        /\ at' \in [Handlers -> Places] /\ held' \in [Handlers -> Locals]
        /\ keys' \in [Handlers -> SUBSET Keys] /\ job' \in [Handlers -> Events \cup {Nothing}]
        /\ at'[h] = "idle" /\ held'[h] = Idle /\ keys'[h] = {} /\ InPlace(h)' /\ held'[h].guild = Unread
    BY <2>1, Finishes
  <2>3. keys'[h] \subseteq keys[h] /\ rows' \in [Channels -> Seq(ChannelState)]  BY <1>1, <2>2 DEF TypeInv
  <2>4. TypeInv' /\ GuildInv' /\ GoesOn(h)  BY <1>1, <2>2, <2>3, Reads
  <2>5. ~held'[h].sure  BY <2>2 DEF Idle
  <2> QED  BY <1>1, <1>3, <2>2, <2>4, <2>5
<1>4. CASE Known(Key(h)).kind # "none"
  <2>1. /\ held' = [held EXCEPT ![h].channel = Known(Key(h))]
        /\ Go(h, "select") /\ UNCHANGED <<job, keys>>
    BY <1>4 DEF TrackChannel
  <2>2. Known(Key(h)) \in ChannelState  BY <1>2, CacheShape DEF Known, GuildState
  <2>3. PICK state \in ChannelState : state = Known(Key(h))  BY <2>2
  <2>4. /\ held' \in [Handlers -> Locals] /\ held'[h].guild = held[h].guild
        /\ \A g \in Handlers \ {h} : held'[g] = held[g]
        /\ held'[h].member = held[h].member /\ held'[h].truth = held[h].truth /\ held'[h].sure = held[h].sure
    <3>1. held' = [held EXCEPT ![h].channel = state]  BY <2>1, <2>3
    <3> QED  BY <3>1 DEF TypeInv, Locals
  <2>5. /\ at' \in [Handlers -> Places] /\ at'[h] = "select" /\ keys'[h] = keys[h] /\ job'[h] = job[h]
        /\ keys' \in [Handlers -> SUBSET Keys] /\ job' \in [Handlers -> Events \cup {Nothing}]
        /\ rows' \in [Channels -> Seq(ChannelState)]
        /\ OthersKeep(h)
    BY <1>1, <2>1, <2>4 DEF TypeInv, Go, Places, OthersKeep
  <2>6. InPlace(h)'
    <3>1. InPlace(h)  BY DEF GuildInv
    <3> QED  BY <1>1, <2>5, <3>1 DEF InPlace, Key
  <2>7. keys'[h] \subseteq keys[h]  BY <2>5
  <2>8. TypeInv' /\ GuildInv' /\ GoesOn(h)  BY <1>1, <2>4, <2>5, <2>6, <2>7, Reads
  <2> QED  BY <1>1, <2>1, <2>4, <2>5, <2>8
<1> QED  BY <1>3, <1>4

LEMMA ChannelSelected ==
  ASSUME TypeInv, GuildInv, NEW h \in Handlers, SelectChannel(h)
  PROVE  /\ TypeInv' /\ GuildInv' /\ GoesOn(h) /\ UNCHANGED <<rows, announced, unsaved, raced, up, job, held, keys>>
         /\ at[h] = "select" /\ at'[h] \in {"insert", "update"}
         /\ doubled \subseteq doubled' /\ doubled' \subseteq doubled \cup {Key(h)}
         /\ at'[h] = "update" => rows[Key(h)] # <<>>
         /\ at'[h] = "insert" /\ Key(h) \notin doubled' =>
              rows[Key(h)] = <<>> /\ \A g \in Handlers \ {h} : at[g] = "insert" => Key(g) # Key(h)
<1>1. /\ at[h] = "select" /\ UNCHANGED <<rows, announced, unsaved, job, held, keys>>
      /\ UNCHANGED <<discord, sent, up, guild, caches, raced, missed, overlapped>>
  BY DEF SelectChannel, NoWrite, cacheVars
<1>2. PICK fails \in BOOLEAN :
        LET c == Key(h)
            others == {g \in Handlers \ {h} : at[g] = "insert" /\ Key(g) = c}
        IN /\ Go(h, IF fails \/ rows[c] = <<>> THEN "insert" ELSE "update")
           /\ doubled' = IF fails \/ others # {} THEN doubled \cup {c} ELSE doubled
  BY DEF SelectChannel
<1>3. PICK place : place = IF fails \/ rows[Key(h)] = <<>> THEN "insert" ELSE "update"  OBVIOUS
<1>4. place \in Places /\ place \in {"insert", "update"} /\ Go(h, place)
  BY <1>2, <1>3 DEF Places
<1>5. /\ OthersKeep(h)
      /\ at' \in [Handlers -> Places] /\ held' \in [Handlers -> Locals]
      /\ keys' \in [Handlers -> SUBSET Keys] /\ job' \in [Handlers -> Events \cup {Nothing}]
      /\ at'[h] = place /\ job'[h] = job[h] /\ held'[h] = held[h] /\ keys'[h] = keys[h]
  BY <1>1, <1>4, Goes
<1>6. InPlace(h)'
  <2>1. InPlace(h)  BY DEF GuildInv
  <2> QED  BY <1>1, <1>4, <1>5, <2>1 DEF InPlace, Key
<1>7. keys'[h] \subseteq keys[h] /\ rows' \in [Channels -> Seq(ChannelState)]  BY <1>1 DEF TypeInv
<1>8. TypeInv' /\ GuildInv' /\ GoesOn(h)  BY <1>1, <1>4, <1>5, <1>6, <1>7, Reads
<1>9. doubled' = IF fails \/ {g \in Handlers \ {h} : at[g] = "insert" /\ Key(g) = Key(h)} # {}
                 THEN doubled \cup {Key(h)} ELSE doubled
  BY <1>2
<1>10. /\ doubled \subseteq doubled' /\ doubled' \subseteq doubled \cup {Key(h)}
       /\ place = "update" => rows[Key(h)] # <<>>
       /\ place = "insert" /\ Key(h) \notin doubled' =>
            rows[Key(h)] = <<>> /\ \A g \in Handlers \ {h} : at[g] = "insert" => Key(g) # Key(h)
  BY <1>3, <1>9
<1> QED  BY <1>1, <1>4, <1>5, <1>8, <1>10

\* The rows of other channels stay, and the row of the channel is inserted or updated.
LEMMA ChannelSaved ==
  ASSUME TypeInv, GuildInv, NEW h \in Handlers, InsertChannel(h) \/ UpdateChannel(h)
  PROVE  /\ TypeInv' /\ GuildInv' /\ GoesOn(h) /\ UNCHANGED <<announced, doubled, raced, up>>
         /\ at[h] \in {"insert", "update"} /\ at'[h] = "idle" /\ ~held'[h].sure
         /\ \A c \in Channels \ {Key(h)} : rows'[c] = rows[c]
         /\ unsaved \subseteq unsaved'
         /\ rows' # rows \/ Key(h) \in unsaved' \/ at[h] = "update"
         /\ \/ rows' = rows
            \/ at[h] = "insert" /\ Len(rows'[Key(h)]) = Len(rows[Key(h)]) + 1
            \/ at[h] = "update" /\ Len(rows'[Key(h)]) = Len(rows[Key(h)])
<1>1. /\ at[h] \in {"insert", "update"} /\ UNCHANGED <<announced, doubled>> /\ Finish(h)
      /\ UNCHANGED <<discord, sent, up, guild, caches, raced, missed, overlapped>>
  BY DEF InsertChannel, UpdateChannel, NoWrite, cacheVars
<1>2. /\ OthersKeep(h)
      /\ at' \in [Handlers -> Places] /\ held' \in [Handlers -> Locals]
      /\ keys' \in [Handlers -> SUBSET Keys] /\ job' \in [Handlers -> Events \cup {Nothing}]
      /\ at'[h] = "idle" /\ held'[h] = Idle /\ keys'[h] = {} /\ InPlace(h)' /\ held'[h].guild = Unread
  BY <1>1, Finishes
<1>3. PICK c \in Channels : c = Key(h)  BY <1>1, ChannelJob
<1>4. PICK state \in ChannelState : state = held[h].channel  BY DEF TypeInv, Locals
<1>5. rows \in [Channels -> Seq(ChannelState)] /\ rows[c] \in Seq(ChannelState) /\ Len(rows[c]) \in Nat
  BY DEF TypeInv
<1>6. /\ rows' \in [Channels -> Seq(ChannelState)]
      /\ \A d \in Channels \ {c} : rows'[d] = rows[d]
      /\ unsaved \subseteq unsaved'
      /\ rows' # rows \/ c \in unsaved' \/ at[h] = "update"
      /\ \/ rows' = rows
         \/ at[h] = "insert" /\ Len(rows'[c]) = Len(rows[c]) + 1
         \/ at[h] = "update" /\ Len(rows'[c]) = Len(rows[c])
  <2>1. CASE InsertChannel(h)
    <3>0. at[h] = "insert"  BY <2>1 DEF InsertChannel
    <3>1. CASE rows' = [rows EXCEPT ![c] = Append(rows[c], state)] /\ UNCHANGED unsaved
      <4>1. Append(rows[c], state) \in Seq(ChannelState) /\ Len(Append(rows[c], state)) = Len(rows[c]) + 1
        BY <1>5
      <4>2. rows'[c] = Append(rows[c], state)  BY <1>5, <3>1
      <4>3. rows' # rows  BY <1>5, <4>1, <4>2
      <4> QED  BY <1>5, <3>0, <3>1, <4>1, <4>2, <4>3
    <3>2. CASE unsaved' = unsaved \cup {c} /\ UNCHANGED rows  BY <1>5, <3>2
    <3> QED  BY <1>3, <1>4, <2>1, <3>1, <3>2 DEF InsertChannel
  <2>2. CASE UpdateChannel(h)
    <3>0. at[h] = "update"  BY <2>2 DEF UpdateChannel
    <3>1. CASE rows' = [rows EXCEPT ![c] = [i \in DOMAIN rows[c] |-> state]] /\ UNCHANGED unsaved
      <4>1. PICK n \in Nat : n = Len(rows[c])  BY <1>5
      <4>2. DOMAIN rows[c] = 1 .. n  BY <1>5, <4>1
      <4>3. [i \in 1 .. n |-> state] \in Seq(ChannelState) /\ Len([i \in 1 .. n |-> state]) = n
        OBVIOUS
      <4>4. rows'[c] = [i \in 1 .. n |-> state]  BY <1>5, <3>1, <4>2
      <4> QED  BY <1>5, <3>0, <3>1, <4>1, <4>2, <4>3, <4>4
    <3>2. CASE unsaved' = unsaved \cup {c} /\ UNCHANGED rows  BY <1>5, <3>0, <3>2
    <3> QED  BY <1>3, <1>4, <2>2, <3>1, <3>2 DEF UpdateChannel
  <2> QED  BY <2>1, <2>2
<1>7. keys'[h] \subseteq keys[h]  BY <1>2
<1>8. TypeInv' /\ GuildInv' /\ GoesOn(h)  BY <1>1, <1>2, <1>6, <1>7, Reads
<1>9. ~held'[h].sure  BY <1>2 DEF Idle
<1> QED  BY <1>1, <1>2, <1>3, <1>6, <1>8, <1>9

LEMMA NameRead ==
  ASSUME TypeInv, GuildInv, NEW h \in Handlers, ChannelName(h)
  PROVE  /\ TypeInv' /\ GuildInv' /\ GoesOn(h) /\ UNCHANGED <<tracked, raced, up, job, held, keys, verdicts>>
         /\ at[h] = "channelname" /\ at'[h] = "convert"
<1>1. /\ at[h] = "channelname" /\ Go(h, "convert") /\ UNCHANGED <<job, held, keys, rows, tracked, verdicts>>
      /\ UNCHANGED <<discord, sent, up, guild, caches, raced, missed, overlapped>>
  BY DEF ChannelName, MessageStep, tracked
<1>2. /\ OthersKeep(h)
      /\ at' \in [Handlers -> Places] /\ held' \in [Handlers -> Locals]
      /\ keys' \in [Handlers -> SUBSET Keys] /\ job' \in [Handlers -> Events \cup {Nothing}]
      /\ at'[h] = "convert" /\ job'[h] = job[h] /\ held'[h] = held[h] /\ keys'[h] = keys[h]
  BY <1>1, Goes DEF Places
<1>3. InPlace(h)'
  <2>1. InPlace(h)  BY DEF GuildInv
  <2> QED  BY <1>1, <1>2, <2>1 DEF InPlace
<1>4. keys'[h] \subseteq keys[h] /\ rows' \in [Channels -> Seq(ChannelState)]  BY <1>1 DEF TypeInv
<1>5. TypeInv' /\ GuildInv' /\ GoesOn(h)  BY <1>1, <1>2, <1>3, <1>4, Reads
<1> QED  BY <1>1, <1>2, <1>5

LEMMA MessageJudged ==
  ASSUME TypeInv, GuildInv, NEW h \in Handlers, ConvertMessage(h) \/ Decide(h)
  PROVE  /\ TypeInv' /\ GuildInv' /\ GoesOn(h) /\ UNCHANGED <<tracked, raced, up>>
         /\ at[h] \in {"convert", "decide"} /\ at'[h] \in {"idle", "role"} /\ ~held'[h].sure
<1>1. /\ at[h] \in {"convert", "decide"} /\ UNCHANGED <<rows, tracked>>
      /\ UNCHANGED <<discord, sent, up, guild, caches, raced, missed, overlapped>>
  BY DEF ConvertMessage, Decide, MessageStep, tracked
<1>2. \/ Finish(h)
      \/ Go(h, "role") /\ held' = [held EXCEPT ![h] = Idle] /\ UNCHANGED <<job, keys>> /\ at[h] = "convert"
  BY DEF ConvertMessage, Decide
<1>3. /\ OthersKeep(h)
      /\ at' \in [Handlers -> Places] /\ held' \in [Handlers -> Locals]
      /\ keys' \in [Handlers -> SUBSET Keys] /\ job' \in [Handlers -> Events \cup {Nothing}]
      /\ at'[h] \in {"idle", "role"} /\ held'[h] = Idle /\ keys'[h] \subseteq keys[h] /\ InPlace(h)'
  <2>1. CASE Finish(h)  BY <2>1, Finishes
  <2>2. CASE Go(h, "role") /\ held' = [held EXCEPT ![h] = Idle] /\ UNCHANGED <<job, keys>> /\ at[h] = "convert"
    <3>1. /\ OthersKeep(h)
          /\ at' \in [Handlers -> Places] /\ held' \in [Handlers -> Locals]
          /\ keys' \in [Handlers -> SUBSET Keys] /\ job' \in [Handlers -> Events \cup {Nothing}]
          /\ at'[h] = "role" /\ held'[h] = Idle /\ keys'[h] = keys[h] /\ job'[h] = job[h]
      BY <2>2, IdleShape DEF TypeInv, Go, OthersKeep, Places
    <3>2. InPlace(h)'
      <4>1. InPlace(h)  BY DEF GuildInv
      <4> QED  BY <2>2, <3>1, <4>1 DEF InPlace
    <3> QED  BY <3>1, <3>2
  <2> QED  BY <1>2, <2>1, <2>2
<1>4. rows' \in [Channels -> Seq(ChannelState)] /\ held'[h].guild = Unread  BY <1>1, <1>3 DEF TypeInv, Idle
<1>5. TypeInv' /\ GuildInv' /\ GoesOn(h)  BY <1>1, <1>3, <1>4, Reads
<1>6. ~held'[h].sure  BY <1>3 DEF Idle
<1> QED  BY <1>1, <1>3, <1>5, <1>6

LEMMA GoesOnFollowInv ==
  ASSUME FollowInv, NEW h \in Handlers, GoesOn(h)
  PROVE  FollowInv'
  BY GoesOnFollows DEF FollowInv, Keys

LEMMA LastWordStays ==
  ASSUME NEW k, LastWord(k), UNCHANGED <<discord, sent>>
  PROVE  LastWord(k)'
<1> SUFFICES ASSUME NEW i \in DOMAIN sent, k \in Touched(sent[i]),
                    \A j \in DOMAIN sent : j > i => k \notin Touched(sent[j])
             PROVE  Tells(sent[i], k)'
  BY DEF LastWord
<1>1. PICK ev : ev = sent[i]  OBVIOUS
<1>2. Tells(ev, k)  BY <1>1 DEF LastWord
<1> QED  BY <1>1, <1>2, TellsSame

\* A handler notes what it was told of a member.
LEMMA Noted ==
  ASSUME TypeInv, NEW h \in Handlers, NEW member \in MemberState, NEW truth \in MemberState, NEW sure \in BOOLEAN,
         held' = [held EXCEPT ![h].member = member, ![h].truth = truth, ![h].sure = sure]
  PROVE  /\ held' \in [Handlers -> Locals]
         /\ \A g \in Handlers \ {h} : held'[g] = held[g]
         /\ held'[h].guild = held[h].guild /\ held'[h].member = member /\ held'[h].truth = truth
         /\ held'[h].sure = sure
  BY DEF TypeInv, Locals

\* A member is looked up: the cache says so, Discord does, or neither.
LEMMA MemberAsked ==
  ASSUME TypeInv, GuildInv, FollowInv, AnswerInv, NEW h \in Handlers, GetUser(h) \/ HasRole(h)
  PROVE  /\ TypeInv' /\ GuildInv' /\ FollowInv' /\ AnswerInv'
         /\ UNCHANGED <<tracked, raced, up, job, guild, caches>> /\ OthersKeep(h)
         /\ at[h] \in {"name", "role"} /\ at'[h] \in {"convert", "decide", "storename", "storerole"}
         /\ keys'[h] \subseteq Users
<1>1. PICK user : user = IF at[h] = "name" THEN Mention(h) ELSE Key(h)  OBVIOUS
<1>2. PICK next, store : /\ next = IF at[h] = "name" THEN "convert" ELSE "decide"
                         /\ store = IF at[h] = "name" THEN "storename" ELSE "storerole"
  OBVIOUS
<1>3. at[h] \in {"name", "role"} /\ held[h].guild > 0 /\ up
  BY DEF GetUser, HasRole, LookUp, Ready, NeedsGuild
<1>4. LookUp(h, user, at[h], next, next)
  <2>1. CASE at[h] = "name"  BY <1>1, <1>2, <2>1 DEF GetUser, HasRole, LookUp, Ready
  <2>2. CASE at[h] = "role"  BY <1>1, <1>2, <2>2 DEF GetUser, HasRole, LookUp, Ready
  <2> QED  BY <1>3, <2>1, <2>2
<1>5. user \in Users /\ keys[h] = {} /\ job[h].type = "message" /\ (at[h] = "name" => Mention(h) \in Users)
  <2>1. InPlace(h)  BY DEF GuildInv
  <2>2. job[h] \in Events \cup {Nothing}  BY DEF TypeInv
  <2>3. job[h].type = "message" /\ keys[h] = {} /\ (at[h] = "name" => Mention(h) \in Users)
    BY <1>3, <2>1 DEF InPlace
  <2>4. Key(h) \in Users  BY <2>2, <2>3, EventShape DEF Key
  <2> QED  BY <1>1, <2>3, <2>4
<1>6. /\ UNCHANGED <<discord, sent, up, guild, caches, raced, missed, rows, tracked, job>>
  BY <1>4 DEF LookUp, MessageStep, tracked
<1>7. Mine(h) \in GuildState /\ (~raced => Mine(h) = Cache)  BY <1>3, MineIsCache
<1>8. PICK entry, truth : entry = Mine(h).members[user] /\ truth = members[user]  OBVIOUS
<1>9. entry \in MemberState /\ truth \in MemberState  BY <1>5, <1>7, <1>8 DEF GuildState, TypeInv
<1>10. Settled(user, h) /\ entry.in => entry = truth
  <2> SUFFICES ASSUME Settled(user, h), entry.in
               PROVE  entry = truth
    OBVIOUS
  <2>1. Watched(user) /\ \A g \in Handlers : user \notin keys[g]
    BY <1>5 DEF Settled, AtRest, Watched, Unsent
  <2>2. InHand(user)  BY <1>5 DEF FollowInv, Keys
  <2>3. Agrees(user)  BY <2>1, <2>2 DEF InHand
  <2>4. Mine(h) = Cache  BY <1>7, <2>1 DEF Watched
  <2> QED  BY <1>5, <1>8, <2>3, <2>4 DEF Agrees, Same
<1>11. \/ /\ entry.in
          /\ held' = [held EXCEPT ![h].member = entry, ![h].truth = truth, ![h].sure = Settled(user, h)]
          /\ Go(h, next) /\ UNCHANGED <<keys, overlapped>>
       \/ /\ ~entry.in /\ truth.in
          /\ held' = [held EXCEPT ![h].member = truth, ![h].truth = truth, ![h].sure = TRUE]
          /\ Go(h, store) /\ TakesUp(h, {user})
       \/ /\ ~entry.in
          /\ held' = [held EXCEPT ![h].member = Stranger, ![h].truth = truth,
                                  ![h].sure = Settled(user, h) /\ ~truth.in]
          /\ Go(h, next) /\ UNCHANGED <<keys, overlapped>>
  <2>1. \/ /\ Mine(h).members[user].in
           /\ held' = [held EXCEPT ![h].member = Mine(h).members[user], ![h].truth = members[user],
                                   ![h].sure = Settled(user, h)]
           /\ Go(h, next) /\ UNCHANGED <<keys, overlapped>>
        \/ /\ ~Mine(h).members[user].in /\ members[user].in
           /\ held' = [held EXCEPT ![h].member = members[user], ![h].truth = members[user],
                                   ![h].sure = TRUE]
           /\ Go(h, IF at[h] = "name" THEN "storename" ELSE "storerole") /\ TakesUp(h, {user})
        \/ /\ ~Mine(h).members[user].in
           /\ held' = [held EXCEPT ![h].member = Stranger, ![h].truth = members[user],
                                   ![h].sure = Settled(user, h) /\ ~members[user].in]
           /\ Go(h, next) /\ UNCHANGED <<keys, overlapped>>
    BY <1>4 DEF LookUp
  <2> QED  BY <1>2, <1>8, <2>1
<1>12. next \in Places /\ store \in Places /\ next \in {"convert", "decide"} /\ store \in {"storename", "storerole"}
  BY <1>2 DEF Places
<1>13. \E sure \in BOOLEAN : sure = Settled(user, h)  BY DEF Settled, AtRest
<1>14. PICK settled \in BOOLEAN : settled = Settled(user, h)  BY <1>13
<1>15. \E sure \in BOOLEAN : sure = (Settled(user, h) /\ ~truth.in)  OBVIOUS
<1>16. PICK away \in BOOLEAN : away = (Settled(user, h) /\ ~truth.in)  BY <1>15
<1>17. /\ held' \in [Handlers -> Locals]
       /\ \A g \in Handlers \ {h} : held'[g] = held[g]
       /\ held'[h].guild = held[h].guild
       /\ held'[h].sure => \/ held'[h].member = held'[h].truth /\ held'[h].truth.in
                           \/ held'[h].member = Stranger /\ ~held'[h].truth.in
       /\ TakesUp(h, {user}) /\ Go(h, store) => held'[h].member = members[user]
  <2>1. CASE /\ entry.in
             /\ held' = [held EXCEPT ![h].member = entry, ![h].truth = truth, ![h].sure = Settled(user, h)]
             /\ Go(h, next) /\ UNCHANGED <<keys, overlapped>>
    <3>1. held' = [held EXCEPT ![h].member = entry, ![h].truth = truth, ![h].sure = settled]  BY <1>14, <2>1
    <3>2. /\ held' \in [Handlers -> Locals]
          /\ \A g \in Handlers \ {h} : held'[g] = held[g]
          /\ held'[h].guild = held[h].guild /\ held'[h].member = entry /\ held'[h].truth = truth
          /\ held'[h].sure = settled
      BY <1>9, <3>1, Noted
    <3>3. held'[h].sure => entry = truth /\ truth.in  BY <1>10, <1>14, <2>1, <3>2
    <3>4. ~(TakesUp(h, {user}) /\ Go(h, store))
      BY <1>3, <1>12, <2>1 DEF Go, TypeInv
    <3> QED  BY <3>2, <3>3, <3>4
  <2>2. CASE /\ ~entry.in /\ truth.in
             /\ held' = [held EXCEPT ![h].member = truth, ![h].truth = truth, ![h].sure = TRUE]
             /\ Go(h, store) /\ TakesUp(h, {user})
    <3>1. /\ held' \in [Handlers -> Locals]
          /\ \A g \in Handlers \ {h} : held'[g] = held[g]
          /\ held'[h].guild = held[h].guild /\ held'[h].member = truth /\ held'[h].truth = truth
      BY <1>9, <2>2, Noted
    <3> QED  BY <1>8, <2>2, <3>1
  <2>3. CASE /\ ~entry.in
             /\ held' = [held EXCEPT ![h].member = Stranger, ![h].truth = truth,
                                     ![h].sure = Settled(user, h) /\ ~truth.in]
             /\ Go(h, next) /\ UNCHANGED <<keys, overlapped>>
    <3>1. held' = [held EXCEPT ![h].member = Stranger, ![h].truth = truth, ![h].sure = away]  BY <1>16, <2>3
    <3>2. Stranger \in MemberState  BY DEF Stranger, MemberState, Member
    <3>3. /\ held' \in [Handlers -> Locals]
          /\ \A g \in Handlers \ {h} : held'[g] = held[g]
          /\ held'[h].guild = held[h].guild /\ held'[h].member = Stranger /\ held'[h].truth = truth
          /\ held'[h].sure = away
      BY <1>9, <3>1, <3>2, Noted
    <3>4. held'[h].sure => ~truth.in  BY <1>16, <3>3
    <3>5. ~(TakesUp(h, {user}) /\ Go(h, store))
      BY <1>3, <1>12, <2>3 DEF Go, TypeInv
    <3> QED  BY <3>3, <3>4, <3>5
  <2> QED  BY <1>11, <2>1, <2>2, <2>3
<1>18. /\ at' \in [Handlers -> Places] /\ job' \in [Handlers -> Events \cup {Nothing}] /\ job'[h] = job[h]
       /\ rows' \in [Channels -> Seq(ChannelState)]
       /\ \/ at'[h] = next /\ keys' = keys /\ UNCHANGED overlapped
          \/ at'[h] = store /\ TakesUp(h, {user}) /\ Go(h, store)
  BY <1>6, <1>11, <1>12 DEF TypeInv, Go
<1>19. user \in Keys  BY <1>5 DEF Keys
<1>20. /\ keys' \in [Handlers -> SUBSET Keys] /\ OthersKeep(h)
       /\ keys'[h] = IF at'[h] = store THEN {user} ELSE {}
  <2>1. at' = [at EXCEPT ![h] = at'[h]]  BY <1>11 DEF Go, TypeInv
  <2>2. CASE at'[h] = next /\ keys' = keys /\ UNCHANGED overlapped
    <3>1. at'[h] # store  BY <1>12, <2>2
    <3> QED  BY <1>5, <1>6, <1>17, <2>1, <2>2, <3>1 DEF TypeInv, OthersKeep
  <2>3. CASE at'[h] = store /\ TakesUp(h, {user}) /\ Go(h, store)
    <3>1. keys' = [keys EXCEPT ![h] = keys[h] \cup {user}]  BY <2>3 DEF TakesUp
    <3>2. keys' \in [Handlers -> SUBSET Keys] /\ keys'[h] = {user} /\ \A g \in Handlers \ {h} : keys'[g] = keys[g]
      BY <1>5, <1>19, <3>1 DEF TypeInv
    <3> QED  BY <1>6, <1>17, <2>1, <2>3, <3>2 DEF TypeInv, OthersKeep
  <2> QED  BY <1>18, <2>2, <2>3
<1>21. InPlace(h)'
  <2>1. at'[h] = store \/ at'[h] = next  BY <1>18
  <2>2. at[h] = "role" /\ at'[h] = store => keys'[h] = {Key(h)}  BY <1>1, <1>20
  <2>3. at[h] = "name" /\ at'[h] = store => keys'[h] = {Mention(h)}  BY <1>1, <1>20
  <2>4. at'[h] = next => keys'[h] = {}  BY <1>12, <1>20
  <2> QED  BY <1>2, <1>3, <1>5, <1>18, <2>1, <2>2, <2>3, <2>4 DEF InPlace, Key, Mention
<1>22. /\ caches' \in Seq(GuildState) /\ guild' = Len(caches') /\ Len(caches) <= Len(caches')
       /\ raced' \in BOOLEAN /\ (~raced' => Len(caches') <= 1)
       /\ held'[h].guild \in {Nil, Unread} \cup (1 .. Len(caches')) /\ held'[h].guild > 0
  BY <1>3, <1>6, <1>17 DEF TypeInv, GuildInv
<1>23. TypeInv' /\ GuildInv'
  BY <1>6, <1>17, <1>18, <1>20, <1>21, <1>22, HandlerTypes
<1>24. AnswerInv'  BY <1>17 DEF AnswerInv
<1>25. FollowInv'
  <2>1. CASE at'[h] = next /\ keys' = keys /\ UNCHANGED overlapped
    <3>1. Unwritten(h) = {} /\ Unwritten(h)' = {} /\ keys'[h] \subseteq keys[h]
      BY <1>3, <1>12, <2>1 DEF Unwritten
    <3>2. GoesOn(h)  BY <1>6, <1>20, <2>1, <3>1, ReadGoesOn
    <3> QED  BY <3>2, GoesOnFollowInv
  <2>2. CASE at'[h] = store /\ TakesUp(h, {user}) /\ Go(h, store)
    <3> SUFFICES ASSUME NEW k \in Keys
                 PROVE  LastWord(k)' /\ Alone(k)' /\ InHand(k)'
      BY DEF FollowInv, Keys
    <3>1. LastWord(k) /\ Alone(k) /\ InHand(k)  BY DEF FollowInv
    <3>2. LastWord(k)'  BY <1>6, <3>1, LastWordStays
    <3>3. k \in {user} => k \in Unwritten(h)' /\ WillBeRight(h, k)'
      BY <1>6, <1>12, <1>17, <1>20, <2>2 DEF Unwritten, WillBeRight, discord
    <3>4. Unsent(k)' => Unsent(k)  BY <1>6 DEF Unsent
    <3>5. DOMAIN keys = Handlers /\ UNCHANGED <<discord, up, missed, raced, guild, caches>>  BY <1>6 DEF TypeInv
    <3>6. Alone(k)' /\ InHand(k)'
      BY <1>5, <1>20, <2>2, <3>1, <3>3, <3>4, <3>5, TakesUpFollows
    <3> QED  BY <3>2, <3>6
  <2> QED  BY <1>18, <2>1, <2>2
<1>26. keys'[h] \subseteq Users  BY <1>5, <1>20
<1>27. at'[h] \in {"convert", "decide", "storename", "storerole"}  BY <1>12, <1>18
<1> QED  BY <1>3, <1>6, <1>20, <1>23, <1>24, <1>25, <1>26, <1>27

----------------------------------------------------------------------------
(* A handler starts, or panics *)

LEMMA FirstPlaces ==
  ASSUME NEW ev \in Events
  PROVE  /\ ev.type = "guild_create" => FirstPlace(ev) = "channels"
         /\ ev.type = "message" =>
              /\ FirstPlace(ev) \in {"name", "channelname", "convert"}
              /\ FirstPlace(ev) = "name" => ev.value.mention \in Users
         /\ ev.type = "emojis_update" => FirstPlace(ev) = "emojis"
         /\ ev.type \in {"member_remove"} \cup ChannelDrops => FirstPlace(ev) = "remove"
         /\ ev.type \in {"member_add", "member_update"} \cup ChannelPuts => FirstPlace(ev) = "put"
         /\ FirstPlace(ev) \in {"channels", "name", "channelname", "convert", "emojis", "remove", "put"}
<1>1. CASE ev.type = "guild_create"  BY <1>1 DEF FirstPlace, IsDelete, ChannelPuts, ChannelDrops
<1>2. CASE ev.type = "message"
  <2>1. FirstPlace(ev) = IF ev.value.mention \in Users THEN "name"
                         ELSE IF ev.value.mention \in Channels THEN "channelname" ELSE "convert"
    BY <1>2 DEF FirstPlace, IsDelete
  <2> QED  BY <1>2, <2>1 DEF ChannelPuts, ChannelDrops
<1>3. CASE ev.type = "emojis_update"  BY <1>3 DEF FirstPlace, IsDelete, ChannelPuts, ChannelDrops
<1>4. CASE ev.type \in {"member_remove"} \cup ChannelDrops
  BY <1>4 DEF FirstPlace, ChannelPuts, ChannelDrops, IsDelete
<1>5. CASE ev.type \in {"member_add", "member_update"} \cup ChannelPuts
  BY <1>5 DEF FirstPlace, ChannelPuts, ChannelDrops, IsDelete
<1>6. ev.type # "none"
  BY DEF Events, GuildEvents, MemberEvents, RemoveEvents, PutEvents, DropEvents, EmojiEvents, MessageEvents,
         ChannelPuts, ChannelDrops
<1> QED  BY <1>1, <1>2, <1>3, <1>4, <1>5, <1>6, EventShape

LEMMA Started ==
  ASSUME TypeInv, GuildInv, FollowInv, NEW h \in Handlers, HandlerStarts(h)
  PROVE  /\ TypeInv' /\ GuildInv' /\ FollowInv'
         /\ OthersKeep(h) /\ UNCHANGED <<held, rows, doubled, unsaved, raced, up, guild, caches>>
         /\ at[h] = "idle" /\ at'[h] \notin {"event", "select", "insert", "update"}
         /\ IsCreate(job'[h]) => at'[h] = "put" /\ keys'[h] = {job'[h].key}
         /\ announced' = IF IsCreate(job'[h]) /\ Shared(h, keys'[h]) = {} THEN announced \cup {job'[h].key}
                         ELSE announced \ Shared(h, Channels \cap keys'[h])
<1>0. /\ at[h] = "idle" /\ sent # <<>> /\ sent' = Tail(sent)
      /\ UNCHANGED <<discord, up, guild, caches, raced, held, rows, doubled, unsaved, missed>>
  BY DEF HandlerStarts, cacheVars
<1>1. PICK ev \in Events : ev = Head(sent) /\ ev = sent[1]  BY <1>0 DEF TypeInv
<1>2. PICK touched : touched = Touched(ev)  OBVIOUS
<1>3. /\ job' = [job EXCEPT ![h] = ev] /\ Go(h, FirstPlace(ev)) /\ TakesUp(h, touched)
      /\ announced' = IF IsCreate(ev) /\ Shared(h, touched) = {} THEN announced \cup {ev.key}
                      ELSE announced \ Shared(h, Channels \cap touched)
  BY <1>1, <1>2 DEF HandlerStarts
<1>4. touched \subseteq Keys  BY <1>2, TouchedKeys
<1>5. keys[h] = {} /\ held[h] = Idle
  <2>1. InPlace(h)  BY DEF GuildInv
  <2> QED  BY <1>0, <2>1 DEF InPlace
<1>6. FirstPlace(ev) \in {"channels", "name", "channelname", "convert", "emojis", "remove", "put"}
  BY FirstPlaces
<1>7. /\ at' \in [Handlers -> Places] /\ at'[h] = FirstPlace(ev)
      /\ job' \in [Handlers -> Events \cup {Nothing}] /\ job'[h] = ev
      /\ keys' \in [Handlers -> SUBSET Keys] /\ keys'[h] = touched
      /\ OthersKeep(h)
  BY <1>0, <1>3, <1>4, <1>5, <1>6 DEF TypeInv, Go, TakesUp, OthersKeep, Places
<1>8. /\ ev.type = "guild_create" => touched = Touched(ev)
      /\ ev.type = "message" => touched = {}
      /\ ev.type \notin {"message", "guild_create"} => touched = {ev.key}
      /\ ev.type = "emojis_update" => ev.key = Emoji
  BY <1>2, TouchedKeys, EventShape
<1>9. Unwritten(h)' = touched
  <2>1. CASE ev.type = "message"
    BY <1>7, <1>8, <2>1 DEF Unwritten
  <2>2. CASE ev.type # "message"
    <3>1. ev.type # "none"
      BY DEF Events, GuildEvents, MemberEvents, RemoveEvents, PutEvents, DropEvents, EmojiEvents, MessageEvents,
             ChannelPuts, ChannelDrops
    <3>2. FirstPlace(ev) \in {"channels", "emojis", "remove", "put"}
      BY <2>2, <3>1, FirstPlaces, EventShape
    <3> QED  BY <1>7, <3>2 DEF Unwritten
  <2> QED  BY <2>1, <2>2
<1>10. InPlace(h)'
  <2>1. ev.type # "none"
    BY DEF Events, GuildEvents, MemberEvents, RemoveEvents, PutEvents, DropEvents, EmojiEvents, MessageEvents,
           ChannelPuts, ChannelDrops
  <2>2. \/ ev.type = "guild_create" /\ at'[h] = "channels"
        \/ ev.type = "message" /\ at'[h] \in {"name", "channelname", "convert"}
           /\ (at'[h] = "name" => ev.value.mention \in Users)
        \/ ev.type = "emojis_update" /\ at'[h] = "emojis"
        \/ ev.type \in {"member_remove"} \cup ChannelDrops /\ at'[h] = "remove"
        \/ ev.type \in {"member_add", "member_update"} \cup ChannelPuts /\ at'[h] = "put"
    BY <1>7, <2>1, FirstPlaces, EventShape
  <2>3. ev.type \in {"member_add", "member_update", "member_remove"} \cup ChannelPuts \cup ChannelDrops
          => touched = {ev.key}
    BY <1>8 DEF ChannelPuts, ChannelDrops
  <2> QED  BY <1>7, <1>8, <2>2, <2>3, Zenon DEF InPlace, Key, Mention
<1>11. sent' \in Seq(Events) /\ (sent' # <<>> => online')
  BY <1>0 DEF TypeInv, GuildInv, discord
<1>12. TypeInv' /\ GuildInv'
  <2>1. TypeInv'  BY <1>0, <1>7, <1>11 DEF TypeInv, discord
  <2>2. ASSUME NEW g \in Handlers
        PROVE  /\ InPlace(g)' /\ held'[g].guild \in {Nil, Unread} \cup (1 .. Len(caches'))
               /\ at'[g] \in {"members", "roles", "storename", "storerole", "decide"} => held'[g].guild > 0
    <3>1. CASE g = h  BY <1>0, <1>6, <1>7, <1>10, <3>1 DEF GuildInv
    <3>2. CASE g # h
      <4>1. at'[g] = at[g] /\ job'[g] = job[g] /\ held'[g] = held[g] /\ keys'[g] = keys[g]
        BY <1>7, <3>2 DEF OthersKeep
      <4>2. InPlace(g)'
        <5>1. InPlace(g)  BY DEF GuildInv
        <5> QED  BY <4>1, <5>1 DEF InPlace, Key, Mention
      <4> QED  BY <1>0, <4>1, <4>2 DEF GuildInv
    <3> QED  BY <3>1, <3>2
  <2> QED  BY <1>0, <1>11, <2>1, <2>2 DEF GuildInv
<1>13. FollowInv'
  <2> SUFFICES ASSUME NEW k \in Keys
               PROVE  LastWord(k)' /\ Alone(k)' /\ InHand(k)'
    BY DEF FollowInv, Keys
  <2>1. LastWord(k) /\ Alone(k) /\ InHand(k)  BY DEF FollowInv
  <2>2. PICK n \in Nat : n = Len(sent) /\ n > 0 /\ DOMAIN sent = 1 .. n
    BY <1>0 DEF TypeInv
  <2>3. DOMAIN sent' = 1 .. (n - 1) /\ \A i \in 1 .. (n - 1) : sent'[i] = sent[i + 1]
    BY <1>0, <2>2 DEF TypeInv
  <2>4. LastWord(k)'
    <3> SUFFICES ASSUME NEW i \in 1 .. (n - 1), k \in Touched(sent'[i]),
                        \A j \in 1 .. (n - 1) : j > i => k \notin Touched(sent'[j])
                 PROVE  Tells(sent[i], k)'
      BY <2>3 DEF LastWord
    <3>1. PICK last : last = sent[i + 1]  OBVIOUS
    <3>2. ASSUME NEW j \in 1 .. n, j > i + 1
          PROVE  k \notin Touched(sent[j])
      <4>1. j - 1 \in 1 .. (n - 1) /\ j - 1 > i /\ (j - 1) + 1 = j  BY <2>2, <3>2
      <4> QED  BY <2>3, <4>1
    <3>3. i + 1 \in 1 .. n /\ k \in Touched(sent[i + 1])  BY <2>2, <2>3
    <3>4. Tells(last, k)  BY <2>1, <2>2, <3>1, <3>2, <3>3 DEF LastWord
    <3> QED  BY <1>0, <2>3, <3>1, <3>4, TellsSame
  <2>5. ASSUME k \in touched, Watched(k)'
        PROVE  k \in Unwritten(h)' /\ WillBeRight(h, k)'
    <3>1. ASSUME NEW j \in 1 .. n, j > 1
          PROVE  k \notin Touched(sent[j])
      <4>1. j - 1 \in 1 .. (n - 1) /\ (j - 1) + 1 = j  BY <2>2, <3>1
      <4> QED  BY <2>3, <2>5, <4>1 DEF Watched, Unsent
    <3>2. Tells(ev, k)  BY <1>1, <1>2, <2>1, <2>2, <2>5, <3>1 DEF LastWord
    <3>3. Tells(ev, k)'  BY <1>0, <3>2, TellsSame
    <3>4. at'[h] \notin {"storename", "storerole"}  BY <1>6, <1>7
    <3> QED  BY <1>7, <1>9, <2>5, <3>3, <3>4 DEF WillBeRight
  <2>6. ASSUME k \notin touched, Unsent(k)'
        PROVE  Unsent(k)
    <3> SUFFICES ASSUME NEW j \in 1 .. n
                 PROVE  k \notin Touched(sent[j])
      BY <2>2 DEF Unsent
    <3>1. CASE j = 1  BY <1>1, <1>2, <2>6, <3>1
    <3>2. CASE j > 1
      <4>1. j - 1 \in 1 .. (n - 1) /\ (j - 1) + 1 = j  BY <2>2, <3>2
      <4> QED  BY <2>3, <2>6, <4>1 DEF Unsent
    <3> QED  BY <2>2, <3>1, <3>2
  <2>7. DOMAIN keys = Handlers /\ UNCHANGED <<discord, up, missed, raced, guild, caches>>  BY <1>0 DEF TypeInv
  <2>8. Alone(k)' /\ InHand(k)'
    BY <1>3, <1>5, <1>7, <2>1, <2>5, <2>6, <2>7, TakesUpFollows
  <2> QED  BY <2>4, <2>8
<1>14. IsCreate(ev) => FirstPlace(ev) = "put" /\ touched = {ev.key}
  BY <1>8, FirstPlaces DEF IsCreate, ChannelPuts
<1> QED  BY <1>0, <1>3, <1>6, <1>7, <1>12, <1>13, <1>14

LEMMA Panicked ==
  ASSUME TypeInv, GuildInv, FollowInv, NEW h \in Handlers, TranslationPanics(h)
  PROVE  TypeInv' /\ GuildInv' /\ FollowInv' /\ UNCHANGED <<tracked, goroutines>> /\ ~up'
<1>1. /\ up' = FALSE /\ online' = FALSE /\ sent' = <<>>
      /\ UNCHANGED <<members, channels, roles, emoji, told, guild, caches, raced, at, job, held, keys>>
      /\ UNCHANGED <<rows, tracked, goroutines, overlapped>>
  BY DEF TranslationPanics, Panic, cacheVars, goroutines, tracked, history
<1>2. TypeInv'
  <2>1. up' \in BOOLEAN  BY <1>1, Zenon
  <2>2. online' \in BOOLEAN  BY <1>1, Zenon
  <2>3. sent' \in Seq(Events)  BY <1>1
  <2> QED  BY <1>1, <2>1, <2>2, <2>3 DEF TypeInv
<1>3. GuildInv'
  <2>1. \A g \in Handlers : InPlace(g)' <=> InPlace(g)  BY <1>1 DEF InPlace, Key, Mention
  <2> QED  BY <1>1, <2>1 DEF GuildInv
<1>4. FollowInv'
  <2> SUFFICES ASSUME NEW k \in Keys
               PROVE  LastWord(k)' /\ Alone(k)' /\ InHand(k)'
    BY DEF FollowInv, Keys
  <2>1. Alone(k)  BY DEF FollowInv
  <2>2. LastWord(k)'  BY <1>1 DEF LastWord
  <2>3. InHand(k)'  BY <1>1 DEF InHand, Watched
  <2> QED  BY <1>1, <2>1, <2>2, <2>3 DEF Alone
<1> QED  BY <1>1, <1>2, <1>3, <1>4

----------------------------------------------------------------------------
(* Discord's steps *)

\* The entry of a key stays as Discord has it.
Unmoved(k) ==
  /\ k \in Users => members'[k] = members[k]
  /\ k \in Channels => channels'[k] = channels[k]
  /\ k \in Roles => told'[k] = told[k]
  /\ k = Emoji => emoji' = emoji

LEMMA UnmovedSame ==
  ASSUME NEW k, NEW ev, Unmoved(k)
  PROVE  /\ Tells(ev, k)' <=> Tells(ev, k)
         /\ UNCHANGED <<guild, caches>> => (Same(k)' <=> Same(k)) /\ (Agrees(k)' <=> Agrees(k))
<1>1. k \in Channels => Shown(k)' = Shown(k)  BY DEF Unmoved, Shown, Live
<1>2. Tells(ev, k)' <=> Tells(ev, k)  BY <1>1 DEF Tells, Unmoved
<1>3. UNCHANGED <<guild, caches>> => (Same(k)' <=> Same(k))
  BY <1>1 DEF Same, Known, Cache, Unmoved
<1>4. UNCHANGED <<guild, caches>> => (Agrees(k)' <=> Agrees(k))
  BY <1>3 DEF Agrees, Cache
<1> QED  BY <1>2, <1>3, <1>4

\* The process stands still: what is watched after the step was watched before, and did not move.
LEMMA DiscordFollows ==
  ASSUME TypeInv, GuildInv, NEW k \in Keys, Alone(k), InHand(k),
         UNCHANGED <<guild, caches, at, job, held, keys, overlapped>>,
         Watched(k)' => Watched(k) /\ Unmoved(k)
  PROVE  Alone(k)' /\ InHand(k)'
<1>1. Alone(k)'  BY DEF Alone
<1>2. InHand(k)'
  <2> SUFFICES ASSUME Watched(k)'
               PROVE  /\ \A g \in Handlers : k \in keys'[g] =>
                           IF k \in Unwritten(g)' THEN WillBeRight(g, k)' ELSE Same(k)'
                      /\ (\A g \in Handlers : k \notin keys'[g]) => Agrees(k)'
    BY DEF InHand
  <2>1. Unmoved(k)
        /\ (\A h \in Handlers : k \in keys[h] => IF k \in Unwritten(h) THEN WillBeRight(h, k) ELSE Same(k))
        /\ ((\A h \in Handlers : k \notin keys[h]) => Agrees(k))
    BY DEF InHand
  <2>2. (Same(k)' <=> Same(k)) /\ (Agrees(k)' <=> Agrees(k))  BY <2>1, UnmovedSame
  <2>3. ASSUME NEW g \in Handlers, k \in keys'[g]
        PROVE  IF k \in Unwritten(g)' THEN WillBeRight(g, k)' ELSE Same(k)'
    <3>1. k \in Unwritten(g)' <=> k \in Unwritten(g)  BY DEF Unwritten
    <3>2. PICK ev : ev = job[g]  OBVIOUS
    <3>3. (Tells(ev, k)' <=> Tells(ev, k)) /\ job'[g] = ev  BY <2>1, <3>2, UnmovedSame
    <3>4. at[g] \in {"storename", "storerole"} => k \in Users
      <4>1. InPlace(g) /\ k \in keys[g] /\ job[g] \in Events \cup {Nothing}  BY <2>3 DEF GuildInv, TypeInv
      <4> QED  BY <4>1, EventShape DEF InPlace, Key
    <3>5. WillBeRight(g, k) => WillBeRight(g, k)'
      <4>1. CASE at[g] \in {"storename", "storerole"}  BY <2>1, <3>4, <4>1 DEF WillBeRight, Unmoved
      <4>2. CASE at[g] \notin {"storename", "storerole"}
        <5>1. WillBeRight(g, k) => Tells(ev, k)  BY <3>2, <4>2 DEF WillBeRight
        <5>2. Tells(ev, k)' => WillBeRight(g, k)'  BY <3>3, <4>2 DEF WillBeRight
        <5> QED  BY <3>3, <5>1, <5>2
      <4> QED  BY <4>1, <4>2
    <3> QED  BY <2>1, <2>2, <2>3, <3>1, <3>5
  <2> QED  BY <2>1, <2>2, <2>3
<1> QED  BY <1>1, <1>2

\* The process stands still: its types and places are kept.
LEMMA StandsStill ==
  ASSUME TypeInv, GuildInv, UNCHANGED <<guild, caches, raced, at, job, held, keys, rows>>,
         members' \in [Users -> MemberState], channels' \in [Channels -> ChannelState],
         roles' \in [Roles -> RoleNames], told' \in [Roles -> RoleNames],
         emoji' \in BOOLEAN, online' \in BOOLEAN, up' \in BOOLEAN,
         sent' \in Seq(Events), sent' # <<>> => online'
  PROVE  TypeInv' /\ GuildInv'
<1>1. TypeInv'  BY DEF TypeInv
<1>2. \A g \in Handlers : InPlace(g)' <=> InPlace(g)  BY DEF InPlace, Key, Mention
<1> QED  BY <1>1, <1>2 DEF GuildInv

\* A change that is sent, or missed, concerns one entry.
LEMMA Changed ==
  ASSUME TypeInv, GuildInv, FollowInv, NEW ev \in Events, Change(ev), ev.type \notin {"message", "guild_create"},
         members' \in [Users -> MemberState], channels' \in [Channels -> ChannelState],
         emoji' \in BOOLEAN, UNCHANGED roles,
         \A k \in Keys \ {ev.key} : Unmoved(k), Tells(ev, ev.key)'
  PROVE  TypeInv' /\ GuildInv' /\ FollowInv'
<1>0. /\ sent' = IF online THEN Append(sent, ev) ELSE sent
      /\ missed' = IF online THEN missed ELSE missed \cup {ev.key}
      /\ UNCHANGED <<told, online, up, guild, caches, raced, at, job, held, keys, rows, overlapped>>
  BY DEF Change, cacheVars, goroutines, tracked
<1>1. Touched(ev) = {ev.key}  BY TouchedKeys
<1>2. TypeInv' /\ GuildInv'
  <2>1. sent' \in Seq(Events) /\ (sent' # <<>> => online')  BY <1>0 DEF TypeInv, GuildInv
  <2>2. roles' \in [Roles -> RoleNames] /\ told' \in [Roles -> RoleNames]  BY <1>0 DEF TypeInv
  <2>3. online' \in BOOLEAN /\ up' \in BOOLEAN  BY <1>0 DEF TypeInv
  <2> QED  BY <1>0, <2>1, <2>2, <2>3, StandsStill
<1>3. ASSUME NEW k \in Keys
      PROVE  LastWord(k)' /\ Alone(k)' /\ InHand(k)'
  <2>0. LastWord(k) /\ Alone(k) /\ InHand(k)  BY DEF FollowInv
  <2>1. PICK n \in Nat : n = Len(sent) /\ DOMAIN sent = 1 .. n  BY DEF TypeInv
  <2>2. LastWord(k)'
    <3> SUFFICES ASSUME NEW i \in DOMAIN sent', k \in Touched(sent'[i]),
                        \A j \in DOMAIN sent' : j > i => k \notin Touched(sent'[j])
                 PROVE  Tells(sent[i], k)'
      BY DEF LastWord
    <3>1. online /\ sent' = Append(sent, ev)  BY <1>0 DEF GuildInv
    <3>2. DOMAIN sent' = 1 .. (n + 1) /\ sent'[n + 1] = ev /\ \A j \in 1 .. n : sent'[j] = sent[j]
      BY <2>1, <3>1 DEF TypeInv
    <3>3. CASE i = n + 1  BY <1>1, <3>2, <3>3
    <3>4. CASE i # n + 1
      <4>1. i \in 1 .. n /\ n + 1 > i  BY <3>2, <3>4
      <4>2. PICK told2 : told2 = sent[i]  OBVIOUS
      <4>3. k # ev.key  BY <1>1, <3>2, <4>1
      <4>4. Tells(told2, k)
        <5>1. \A j \in 1 .. n : j > i => k \notin Touched(sent[j])  BY <3>2
        <5>2. k \in Touched(sent[i])  BY <3>2, <4>1
        <5> QED  BY <2>0, <2>1, <4>1, <4>2, <5>1, <5>2 DEF LastWord
      <4>5. Tells(told2, k)'  BY <4>3, <4>4, UnmovedSame
      <4> QED  BY <3>2, <4>1, <4>2, <4>5
    <3> QED  BY <3>3, <3>4
  <2>3. ASSUME Watched(k)'
        PROVE  Watched(k) /\ Unmoved(k)
    <3>1. CASE online
      <4>1. DOMAIN sent' = 1 .. (n + 1) /\ sent'[n + 1] = ev /\ \A j \in 1 .. n : sent'[j] = sent[j]
        BY <1>0, <2>1, <3>1 DEF TypeInv
      <4>2. Unsent(k)'  BY <2>3 DEF Watched
      <4>3. Unsent(k) /\ k \notin Touched(ev)  BY <2>1, <4>1, <4>2 DEF Unsent
      <4> QED  BY <1>0, <1>1, <2>3, <3>1, <4>3 DEF Watched
    <3>2. CASE ~online
      <4>1. k \notin missed /\ k # ev.key /\ sent' = sent  BY <1>0, <2>3, <3>2 DEF Watched
      <4> QED  BY <1>0, <2>3, <4>1 DEF Watched, Unsent
    <3> QED  BY <3>1, <3>2
  <2>4. Alone(k)' /\ InHand(k)'  BY <1>0, <2>0, <2>3, DiscordFollows
  <2> QED  BY <2>2, <2>4
<1> QED  BY <1>2, <1>3 DEF FollowInv, Keys

LEMMA MemberChanged ==
  ASSUME TypeInv, GuildInv, FollowInv, MemberChanges
  PROVE  TypeInv' /\ GuildInv' /\ FollowInv' /\ UNCHANGED <<up, cacheVars, goroutines, tracked, verdicts>>
<1>1. PICK u \in Users, now \in Member :
        /\ now # members[u] /\ (now.in \/ now = Stranger)
        /\ members' = [members EXCEPT ![u] = now]
        /\ Change(Event(CASE ~now.in -> "member_remove"
                          [] now.in /\ ~members[u].in -> "member_add"
                          [] OTHER -> "member_update", u, now))
        /\ UNCHANGED <<channels, roles, emoji>>
  BY DEF MemberChanges
<1>2. PICK type : type = CASE ~now.in -> "member_remove"
                           [] now.in /\ ~members[u].in -> "member_add"
                           [] OTHER -> "member_update"
  OBVIOUS
<1>3. PICK ev : ev = Event(type, u, now)  OBVIOUS
<1>4. ev.type = type /\ ev.key = u /\ ev.value = now  BY <1>3 DEF Event
<1>5. now \in MemberState  BY <1>1 DEF MemberState
<1>6. ev \in MemberEvents \cup RemoveEvents
  <2>1. CASE ~now.in
    <3>1. type = "member_remove" /\ now = Stranger  BY <1>1, <1>2, <2>1
    <3> QED  BY <1>3, <3>1 DEF Event, RemoveEvents
  <2>2. CASE now.in
    <3>1. type \in {"member_add", "member_update"}  BY <1>2, <2>2
    <3> QED  BY <1>3, <1>5, <3>1 DEF Event, MemberEvents
  <2> QED  BY <2>1, <2>2
<1>7. ev \in Events /\ ev.type \in {"member_add", "member_update", "member_remove"}
  BY <1>6 DEF Events, MemberEvents, RemoveEvents
<1>8. Change(ev)  BY <1>1, <1>2, <1>3
<1>9. members' \in [Users -> MemberState]  BY <1>1, <1>5 DEF TypeInv
<1>10. \A k \in Keys \ {ev.key} : Unmoved(k)
  <2>1. told' = told  BY <1>8 DEF Change
  <2> QED  BY <1>1, <1>4, <2>1 DEF Unmoved, TypeInv
<1>11. Tells(ev, ev.key)'
  BY <1>1, <1>4, <1>7, GuildConstants DEF Tells, TypeInv, Keys
<1>12. UNCHANGED <<up, cacheVars, goroutines, tracked, verdicts>>  BY <1>8 DEF Change
<1>13. channels' \in [Channels -> ChannelState] /\ emoji' \in BOOLEAN  BY <1>1 DEF TypeInv
<1> QED  BY <1>1, <1>7, <1>8, <1>9, <1>10, <1>11, <1>12, <1>13, Changed

LEMMA EmojisChanged ==
  ASSUME TypeInv, GuildInv, FollowInv, EmojisChange
  PROVE  TypeInv' /\ GuildInv' /\ FollowInv' /\ UNCHANGED <<up, cacheVars, goroutines, tracked, verdicts>>
<1>1. PICK now \in BOOLEAN : now = ~emoji  BY Zenon
<1>2. PICK ev : ev = Event("emojis_update", Emoji, now)  OBVIOUS
<1>3. Change(ev) /\ emoji' = now /\ UNCHANGED <<members, channels, roles>>
  BY <1>1, <1>2, Zenon DEF EmojisChange
<1>4. ev.type = "emojis_update" /\ ev.key = Emoji /\ ev.value = now  BY <1>2 DEF Event
<1>5. ev \in Events  BY <1>2 DEF Event, Events, EmojiEvents
<1>6. \A k \in Keys \ {ev.key} : Unmoved(k)
  <2>1. told' = told  BY <1>3 DEF Change
  <2> QED  BY <1>3, <1>4, <2>1 DEF Unmoved
<1>7. Tells(ev, ev.key)'
  BY <1>3, <1>4, GuildConstants DEF Tells
<1>8. UNCHANGED <<up, cacheVars, goroutines, tracked, verdicts>>  BY <1>3 DEF Change
<1>9. /\ members' \in [Users -> MemberState] /\ channels' \in [Channels -> ChannelState]
      /\ emoji' \in BOOLEAN
  BY <1>3 DEF TypeInv
<1> QED  BY <1>3, <1>4, <1>5, <1>6, <1>7, <1>8, <1>9, Changed

LEMMA ChannelEventNames ==
  ASSUME NEW kind
  PROVE  /\ ChannelEvent(kind, "create") \in {"channel_create", "thread_create"}
         /\ ChannelEvent(kind, "update") \in {"channel_update", "thread_update"}
         /\ ChannelEvent(kind, "delete") \in {"channel_delete", "thread_delete"}
  BY DEF ChannelEvent

\* Discord puts or drops a channel.
LEMMA ChannelMoved ==
  ASSUME TypeInv, GuildInv, FollowInv, NEW c \in Channels, NEW now \in ChannelState, NEW ev, Change(ev),
         channels' = [channels EXCEPT ![c] = now], UNCHANGED <<members, roles, emoji>>,
         ev.key = c,
         \/ ev \in PutEvents /\ ev.value = now
         \/ ev \in DropEvents /\ now.kind \in Gone
  PROVE  TypeInv' /\ GuildInv' /\ FollowInv'
<1>1. ev \in Events  BY DEF Events
<1>2. \/ ev.type \in ChannelPuts /\ ev.value = now /\ now.kind \notin Gone
      \/ ev.type \in ChannelDrops /\ now.kind \in Gone
  BY DEF PutEvents, DropEvents
<1>3. told' = told  BY DEF Change
<1>4. /\ members' \in [Users -> MemberState] /\ channels' \in [Channels -> ChannelState]
      /\ emoji' \in BOOLEAN /\ channels'[c] = now
  BY DEF TypeInv
<1>5. \A k \in Keys \ {ev.key} : Unmoved(k)  BY <1>3 DEF Unmoved, TypeInv
<1>6. Shown(c)' = IF now.kind \in Gone THEN NoChannel ELSE now  BY <1>4 DEF Shown, Live
<1>7. IsDelete(ev) <=> now.kind \in Gone  BY <1>2 DEF IsDelete, ChannelPuts, ChannelDrops
<1>8. c \notin Users /\ c \notin Roles /\ c # Emoji  BY GuildConstants
<1>9. ev.type \notin {"guild_create", "message"}  BY <1>2 DEF ChannelPuts, ChannelDrops
<1>10. Tells(ev, ev.key)'  BY <1>2, <1>6, <1>7, <1>8, <1>9 DEF Tells
<1> QED  BY <1>1, <1>4, <1>5, <1>9, <1>10, Changed

LEMMA ChannelChanged ==
  ASSUME TypeInv, GuildInv, FollowInv, ChannelChanges
  PROVE  TypeInv' /\ GuildInv' /\ FollowInv' /\ UNCHANGED <<up, cacheVars, goroutines, tracked, verdicts>>
<1>1. PICK c \in Channels :
        /\ \/ /\ channels[c].kind = "none"
              /\ \E k \in Kinds :
                   /\ channels' = [channels EXCEPT ![c].kind = k]
                   /\ Change(Event(ChannelEvent(k, "create"), c, channels'[c]))
           \/ /\ Live(c) /\ channels' = [channels EXCEPT ![c].name = @ + 1]
              /\ Change(Event(ChannelEvent(channels[c].kind, "update"), c, channels'[c]))
           \/ /\ Live(c) /\ channels' = [channels EXCEPT ![c].kind = "deleted"]
              /\ Change(Event(ChannelEvent(channels[c].kind, "delete"), c, channels[c]))
           \/ /\ channels[c].kind = "thread"
              /\ Change(Event("thread_create", c, channels[c])) /\ UNCHANGED channels
        /\ UNCHANGED <<members, roles, emoji>>
  BY DEF ChannelChanges
<1>2. PICK old \in ChannelState : old = channels[c]  BY DEF TypeInv
<1>3. Live(c) <=> old.kind \notin Gone  BY <1>2 DEF Live
<1>4. Kinds \cap Gone = {}  BY GuildConstants DEF Gone
<1> DEFINE Moves(now, ev) == /\ Change(ev) /\ channels' = [channels EXCEPT ![c] = now] /\ ev.key = c
                             /\ \/ ev \in PutEvents /\ ev.value = now
                                \/ ev \in DropEvents /\ now.kind \in Gone
<1>5. \E now \in ChannelState : \E ev : Moves(now, ev)
  <2>1. ASSUME NEW k \in Kinds, channels' = [channels EXCEPT ![c].kind = k],
               Change(Event(ChannelEvent(k, "create"), c, channels'[c]))
        PROVE  \E now \in ChannelState : \E ev : Moves(now, ev)
    <3>1. PICK now : now = [old EXCEPT !.kind = k]  OBVIOUS
    <3>2. now \in ChannelState /\ now.kind = k  BY <3>1 DEF ChannelState
    <3>3. channels' = [channels EXCEPT ![c] = now] /\ channels'[c] = now  BY <1>2, <2>1, <3>1 DEF TypeInv
    <3>4. PICK ev : ev = Event(ChannelEvent(k, "create"), c, now)  OBVIOUS
    <3>5. ev \in PutEvents /\ ev.key = c /\ ev.value = now
      BY <1>4, <3>2, <3>4, ChannelEventNames DEF Event, PutEvents, ChannelPuts
    <3> QED  BY <2>1, <3>2, <3>3, <3>4, <3>5
  <2>2. ASSUME Live(c), channels' = [channels EXCEPT ![c].name = @ + 1],
               Change(Event(ChannelEvent(channels[c].kind, "update"), c, channels'[c]))
        PROVE  \E now \in ChannelState : \E ev : Moves(now, ev)
    <3>1. PICK now : now = [old EXCEPT !.name = @ + 1]  OBVIOUS
    <3>2. now \in ChannelState /\ now.kind = old.kind  BY <3>1 DEF ChannelState
    <3>3. channels' = [channels EXCEPT ![c] = now] /\ channels'[c] = now  BY <1>2, <2>2, <3>1 DEF TypeInv
    <3>4. PICK ev : ev = Event(ChannelEvent(old.kind, "update"), c, now)  OBVIOUS
    <3>5. ev \in PutEvents /\ ev.key = c /\ ev.value = now
      BY <1>3, <2>2, <3>2, <3>4, ChannelEventNames DEF Event, PutEvents, ChannelPuts
    <3> QED  BY <1>2, <2>2, <3>2, <3>3, <3>4, <3>5
  <2>3. ASSUME Live(c), channels' = [channels EXCEPT ![c].kind = "deleted"],
               Change(Event(ChannelEvent(channels[c].kind, "delete"), c, channels[c]))
        PROVE  \E now \in ChannelState : \E ev : Moves(now, ev)
    <3>1. PICK now : now = [old EXCEPT !.kind = "deleted"]  OBVIOUS
    <3>2. now \in ChannelState /\ now.kind \in Gone  BY <3>1 DEF ChannelState, Gone
    <3>3. channels' = [channels EXCEPT ![c] = now]  BY <1>2, <2>3, <3>1 DEF TypeInv
    <3>4. PICK ev : ev = Event(ChannelEvent(old.kind, "delete"), c, old)  OBVIOUS
    <3>5. ev \in DropEvents /\ ev.key = c
      BY <3>4, ChannelEventNames DEF Event, DropEvents, ChannelDrops
    <3> QED  BY <1>2, <2>3, <3>2, <3>3, <3>4, <3>5
  <2>4. ASSUME channels[c].kind = "thread", Change(Event("thread_create", c, channels[c])), UNCHANGED channels
        PROVE  \E now \in ChannelState : \E ev : Moves(now, ev)
    <3>1. channels' = [channels EXCEPT ![c] = old]  BY <1>2, <2>4 DEF TypeInv
    <3>2. PICK ev : ev = Event("thread_create", c, old)  OBVIOUS
    <3>3. ev \in PutEvents /\ ev.key = c /\ ev.value = old
      BY <1>2, <2>4, <3>2 DEF Event, PutEvents, ChannelPuts, Gone
    <3> QED  BY <1>2, <2>4, <3>1, <3>2, <3>3
  <2> QED  BY <1>1, <2>1, <2>2, <2>3, <2>4
<1>6. PICK now \in ChannelState : \E ev : Moves(now, ev)  BY <1>5
<1>7. PICK ev : Moves(now, ev)  BY <1>6
<1>8. TypeInv' /\ GuildInv' /\ FollowInv'  BY <1>1, <1>7, ChannelMoved
<1>9. UNCHANGED <<up, cacheVars, goroutines, tracked, verdicts>>  BY <1>7 DEF Change
<1> QED  BY <1>8, <1>9

LEMMA RoleChanged ==
  ASSUME TypeInv, GuildInv, FollowInv, RoleRenamed
  PROVE  TypeInv' /\ GuildInv' /\ FollowInv' /\ UNCHANGED <<up, cacheVars, goroutines, tracked, verdicts>>
<1>1. /\ UNCHANGED <<members, channels, emoji, told, online, sent, up, guild, caches, raced, at, job, held, keys>>
      /\ UNCHANGED <<rows, missed, overlapped, up, cacheVars, goroutines, tracked, verdicts>>
  BY DEF RoleRenamed, cacheVars, goroutines, tracked, history
<1>2. roles' \in [Roles -> RoleNames]  BY DEF RoleRenamed, TypeInv, RoleNames
<1>3. TypeInv' /\ GuildInv'
  <2>1. /\ members' \in [Users -> MemberState] /\ channels' \in [Channels -> ChannelState]
        /\ told' \in [Roles -> RoleNames] /\ sent' \in Seq(Events) /\ (sent' # <<>> => online')
    BY <1>1 DEF TypeInv, GuildInv
  <2>2. emoji' \in BOOLEAN /\ online' \in BOOLEAN /\ up' \in BOOLEAN  BY <1>1 DEF TypeInv
  <2> QED  BY <1>1, <1>2, <2>1, <2>2, StandsStill
<1>4. ASSUME NEW k \in Keys
      PROVE  LastWord(k)' /\ Alone(k)' /\ InHand(k)'
  <2>0. LastWord(k) /\ Alone(k) /\ InHand(k)  BY DEF FollowInv
  <2>1. Unmoved(k)  BY <1>1 DEF Unmoved
  <2>2. LastWord(k)'
    <3> SUFFICES ASSUME NEW i \in DOMAIN sent, k \in Touched(sent[i]),
                        \A j \in DOMAIN sent : j > i => k \notin Touched(sent[j])
                 PROVE  Tells(sent[i], k)'
      BY <1>1 DEF LastWord
    <3>1. PICK ev : ev = sent[i]  OBVIOUS
    <3>2. Tells(ev, k)  BY <2>0, <3>1 DEF LastWord
    <3> QED  BY <1>1, <2>1, <3>1, <3>2, UnmovedSame
  <2>3. Watched(k)' => Watched(k)  BY <1>1 DEF Watched, Unsent
  <2> QED  BY <1>1, <2>0, <2>1, <2>2, <2>3, DiscordFollows
<1> QED  BY <1>1, <1>3, <1>4 DEF FollowInv, Keys

LEMMA MessageSent ==
  ASSUME TypeInv, GuildInv, FollowInv, MessagePosted
  PROVE  TypeInv' /\ GuildInv' /\ FollowInv' /\ UNCHANGED <<up, cacheVars, goroutines, tracked, verdicts>>
<1>1. /\ UNCHANGED <<discord, up, guild, caches, raced, at, job, held, keys>> /\ online
      /\ UNCHANGED <<rows, missed, overlapped, up, cacheVars, goroutines, tracked, verdicts>>
  BY DEF MessagePosted, cacheVars, goroutines, tracked, history
<1>2. PICK u \in Users, c \in Channels, mention \in Users \cup Channels \cup {"nobody"} :
        sent' = Append(sent, Event("message", u, [channel |-> c, mention |-> mention]))
  BY DEF MessagePosted, Present
<1>3. PICK ev : ev = Event("message", u, [channel |-> c, mention |-> mention])  OBVIOUS
<1>4. ev \in Events /\ ev.type = "message"  BY <1>3 DEF Event, Events, MessageEvents, MessageValue
<1>5. Touched(ev) = {}  BY <1>4, TouchedKeys
<1>6. TypeInv' /\ GuildInv'
  <2>1. /\ members' \in [Users -> MemberState] /\ channels' \in [Channels -> ChannelState]
        /\ told' \in [Roles -> RoleNames] /\ roles' \in [Roles -> RoleNames]
        /\ sent' \in Seq(Events) /\ (sent' # <<>> => online')
    BY <1>1, <1>2, <1>3, <1>4 DEF TypeInv, discord
  <2>2. emoji' \in BOOLEAN /\ online' \in BOOLEAN /\ up' \in BOOLEAN  BY <1>1 DEF TypeInv, discord
  <2> QED  BY <1>1, <2>1, <2>2, StandsStill
<1>7. ASSUME NEW k \in Keys
      PROVE  LastWord(k)' /\ Alone(k)' /\ InHand(k)'
  <2>0. LastWord(k) /\ Alone(k) /\ InHand(k)  BY DEF FollowInv
  <2>1. Unmoved(k)  BY <1>1 DEF Unmoved, discord
  <2>2. PICK n \in Nat : n = Len(sent) /\ DOMAIN sent = 1 .. n  BY DEF TypeInv
  <2>3. DOMAIN sent' = 1 .. (n + 1) /\ sent'[n + 1] = ev /\ \A j \in 1 .. n : sent'[j] = sent[j]
    BY <1>2, <1>3, <2>2 DEF TypeInv
  <2>4. LastWord(k)'
    <3> SUFFICES ASSUME NEW i \in DOMAIN sent', k \in Touched(sent'[i]),
                        \A j \in DOMAIN sent' : j > i => k \notin Touched(sent'[j])
                 PROVE  Tells(sent[i], k)'
      BY DEF LastWord
    <3>1. i \in 1 .. n  BY <1>5, <2>3
    <3>2. PICK last : last = sent[i]  OBVIOUS
    <3>3. \A j \in 1 .. n : j > i => k \notin Touched(sent[j])  BY <2>3
    <3>4. k \in Touched(sent[i])  BY <2>3, <3>1
    <3>5. Tells(last, k)  BY <2>0, <2>2, <3>1, <3>2, <3>3, <3>4 DEF LastWord
    <3>6. Tells(last, k)'  BY <2>1, <3>5, UnmovedSame
    <3> QED  BY <2>3, <3>1, <3>2, <3>6
  <2>5. Watched(k)' => Watched(k)
    <3>1. Unsent(k)' => Unsent(k)  BY <2>2, <2>3 DEF Unsent
    <3> QED  BY <1>1, <3>1 DEF Watched
  <2> QED  BY <1>1, <2>0, <2>1, <2>4, <2>5, DiscordFollows
<1> QED  BY <1>1, <1>6, <1>7 DEF FollowInv, Keys

LEMMA ConnectionGone ==
  ASSUME TypeInv, GuildInv, FollowInv, ConnectionLost
  PROVE  TypeInv' /\ GuildInv' /\ FollowInv' /\ UNCHANGED <<up, cacheVars, goroutines, tracked, verdicts>>
<1>1. /\ UNCHANGED <<members, channels, roles, emoji, told, up, guild, caches, raced, at, job, held, keys>>
      /\ UNCHANGED <<rows, overlapped, up, cacheVars, goroutines, tracked, verdicts>>
      /\ online' = FALSE /\ sent' = <<>>
      /\ missed' = missed \cup UNION {Touched(sent[i]) : i \in DOMAIN sent}
  BY DEF ConnectionLost, cacheVars, goroutines, tracked
<1>2. TypeInv' /\ GuildInv'
  <2>1. /\ members' \in [Users -> MemberState] /\ channels' \in [Channels -> ChannelState]
        /\ told' \in [Roles -> RoleNames] /\ roles' \in [Roles -> RoleNames]
        /\ sent' \in Seq(Events) /\ (sent' # <<>> => online')
    BY <1>1 DEF TypeInv
  <2>2. emoji' \in BOOLEAN /\ up' \in BOOLEAN  BY <1>1 DEF TypeInv
  <2>3. online' \in BOOLEAN  BY <1>1, Zenon
  <2> QED  BY <1>1, <2>1, <2>2, <2>3, StandsStill
<1>3. ASSUME NEW k \in Keys
      PROVE  LastWord(k)' /\ Alone(k)' /\ InHand(k)'
  <2>0. LastWord(k) /\ Alone(k) /\ InHand(k)  BY DEF FollowInv
  <2>1. Unmoved(k)  BY <1>1 DEF Unmoved
  <2>2. LastWord(k)'  BY <1>1 DEF LastWord
  <2>3. Watched(k)' => Watched(k)  BY <1>1 DEF Watched, Unsent
  <2> QED  BY <1>1, <2>0, <2>1, <2>2, <2>3, DiscordFollows
<1> QED  BY <1>1, <1>2, <1>3 DEF FollowInv, Keys

LEMMA SessionResumed ==
  ASSUME TypeInv, GuildInv, FollowInv, Reconnect
  PROVE  TypeInv' /\ GuildInv' /\ FollowInv' /\ UNCHANGED <<up, cacheVars, goroutines, tracked, verdicts>>
<1>1. /\ UNCHANGED <<members, channels, roles, emoji, up, guild, caches, raced, at, job, held, keys>>
      /\ UNCHANGED <<rows, overlapped, up, cacheVars, goroutines, tracked, verdicts>>
      /\ online' = TRUE /\ told' = roles /\ ~online
  BY DEF Reconnect, NewSession, cacheVars, goroutines, tracked
<1>2. PICK known \in SUBSET Present :
        sent' = <<GuildCreate(known)>> /\ missed' = missed \ Touched(GuildCreate(known))
  BY DEF Reconnect, NewSession
<1>3. PICK ev : ev = GuildCreate(known)  OBVIOUS
<1>4. ev \in Events /\ GuildTypes
  <2>1. GuildTypes  BY DEF TypeInv, GuildTypes
  <2> QED  BY <1>3, <2>1, GuildCreateShape
<1>5. sent = <<>>  BY <1>1 DEF GuildInv
<1>6. TypeInv' /\ GuildInv'
  <2>1. /\ members' \in [Users -> MemberState] /\ channels' \in [Channels -> ChannelState]
        /\ told' \in [Roles -> RoleNames] /\ roles' \in [Roles -> RoleNames]
        /\ sent' \in Seq(Events) /\ (sent' # <<>> => online')
    BY <1>1, <1>2, <1>3, <1>4 DEF TypeInv
  <2>2. emoji' \in BOOLEAN /\ up' \in BOOLEAN  BY <1>1 DEF TypeInv
  <2>3. online' \in BOOLEAN  BY <1>1, Zenon
  <2> QED  BY <1>1, <2>1, <2>2, <2>3, StandsStill
<1>7. ASSUME NEW k \in Keys
      PROVE  LastWord(k)' /\ Alone(k)' /\ InHand(k)'
  <2>0. LastWord(k) /\ Alone(k) /\ InHand(k)  BY DEF FollowInv
  <2>1. (k \in Touched(ev) => Tells(ev, k)') /\ (k \in Roles => k \in Touched(ev))
    BY <1>1, <1>3, <1>4, GuildCreateTells
  <2>2. DOMAIN sent' = {1} /\ sent'[1] = ev  BY <1>2, <1>3
  <2>3. LastWord(k)'
    <3> SUFFICES ASSUME k \in Touched(ev) PROVE Tells(ev, k)'
      BY <2>2 DEF LastWord
    <3> QED  BY <2>1
  <2>4. ASSUME Watched(k)'
        PROVE  Watched(k) /\ Unmoved(k)
    <3>1. k \notin Touched(ev)  BY <2>2, <2>4 DEF Watched, Unsent
    <3>2. k \notin missed  BY <1>2, <1>3, <2>4, <3>1 DEF Watched
    <3>3. Unsent(k)  BY <1>5 DEF Unsent
    <3> QED  BY <1>1, <2>1, <2>4, <3>1, <3>2, <3>3 DEF Watched, Unmoved
  <2> QED  BY <1>1, <1>6, <2>0, <2>3, <2>4, DiscordFollows
<1> QED  BY <1>1, <1>6, <1>7 DEF FollowInv, Keys

LEMMA Restarted ==
  ASSUME TypeInv, Restart
  PROVE  /\ TypeInv' /\ GuildInv' /\ FollowInv'
         /\ UNCHANGED <<rows, doubled, unsaved, verdicts>> /\ announced' = {}
         /\ \A g \in Handlers : at'[g] = "idle" /\ held'[g] = Idle
<1>1. /\ UNCHANGED <<members, channels, roles, emoji>> /\ up' = TRUE /\ online' = TRUE /\ told' = roles
      /\ guild' = 0 /\ caches' = <<>> /\ raced' = FALSE /\ overlapped' = {} /\ announced' = {}
      /\ at' = [h \in Handlers |-> "idle"] /\ job' = [h \in Handlers |-> Nothing]
      /\ held' = [h \in Handlers |-> Idle] /\ keys' = [h \in Handlers |-> {}]
      /\ UNCHANGED <<rows, doubled, unsaved, verdicts>>
  BY DEF Restart, NewSession, Nothing
<1>2. PICK known \in SUBSET Present : sent' = <<GuildCreate(known)>>
  BY DEF Restart, NewSession
<1>3. PICK ev : ev = GuildCreate(known)  OBVIOUS
<1>4. ev \in Events /\ GuildTypes
  <2>1. GuildTypes  BY DEF TypeInv, GuildTypes
  <2> QED  BY <1>3, <2>1, GuildCreateShape
<1>5. TypeInv'
  <2>1. /\ members' \in [Users -> MemberState] /\ channels' \in [Channels -> ChannelState]
        /\ told' \in [Roles -> RoleNames] /\ roles' \in [Roles -> RoleNames]
        /\ sent' \in Seq(Events) /\ caches' \in Seq(GuildState) /\ rows' \in [Channels -> Seq(ChannelState)]
    BY <1>1, <1>2, <1>3, <1>4 DEF TypeInv
  <2>2. emoji' \in BOOLEAN  BY <1>1 DEF TypeInv
  <2>3. up' \in BOOLEAN  BY <1>1, Zenon
  <2>4. online' \in BOOLEAN  BY <1>1, Zenon
  <2>5. raced' \in BOOLEAN  BY <1>1, Zenon
  <2>6. /\ at' \in [Handlers -> Places] /\ held' \in [Handlers -> Locals]
        /\ keys' \in [Handlers -> SUBSET Keys] /\ job' \in [Handlers -> Events \cup {Nothing}]
    BY <1>1, IdleShape DEF Places
  <2> QED  BY <2>1, <2>2, <2>3, <2>4, <2>5, <2>6 DEF TypeInv
<1>6. GuildInv'
  <2>1. \A g \in Handlers : at'[g] = "idle" /\ keys'[g] = {} /\ held'[g] = Idle  BY <1>1
  <2>2. Idle.guild = Unread  BY DEF Idle
  <2> QED  BY <1>1, <2>1, <2>2 DEF GuildInv, InPlace
<1>7. ASSUME NEW k \in Keys
      PROVE  LastWord(k)' /\ Alone(k)' /\ InHand(k)'
  <2>1. /\ k \in Touched(ev) => Tells(ev, k)'
        /\ k \in Channels /\ k \notin Touched(ev) => ~Live(k)
        /\ k \in Roles => k \in Touched(ev)
        /\ k = Emoji /\ k \notin Touched(ev) => emoji = FALSE
    BY <1>1, <1>3, <1>4, GuildCreateTells
  <2>2. DOMAIN sent' = {1} /\ sent'[1] = ev  BY <1>2, <1>3
  <2>3. LastWord(k)'
    <3> SUFFICES ASSUME k \in Touched(ev) PROVE Tells(ev, k)'
      BY <2>2 DEF LastWord
    <3> QED  BY <2>1
  <2>4. Alone(k)'  BY <1>1 DEF Alone
  <2>5. ASSUME Watched(k)'
        PROVE  Agrees(k)'
    <3>1. k \notin Touched(ev)  BY <2>2, <2>5 DEF Watched, Unsent
    <3>2. Cache' = EmptyGuild  BY <1>1 DEF Cache
    <3>3. k \in Users => ~Cache'.members[k].in  BY <3>2 DEF EmptyGuild, Stranger
    <3>4. k \in Channels => Known(k)' = Shown(k)'
      <4>1. k \in Channels => Known(k)' = NoChannel  BY <3>2 DEF Known, EmptyGuild
      <4>2. k \in Channels => Shown(k)' = NoChannel  BY <1>1, <2>1, <3>1 DEF Shown, Live
      <4> QED  BY <4>1, <4>2
    <3>5. k = Emoji => Cache'.emoji = FALSE /\ emoji' = FALSE  BY <1>1, <2>1, <3>1, <3>2 DEF EmptyGuild
    <3>6. k \notin Roles  BY <2>1, <3>1
    <3>7. k \in Users \/ Same(k)'  BY <3>4, <3>5, <3>6 DEF Same
    <3> QED  BY <3>3, <3>7 DEF Agrees
  <2>6. InHand(k)'
    <3>1. \A g \in Handlers : k \notin keys'[g]  BY <1>1
    <3> QED  BY <2>5, <3>1 DEF InHand
  <2> QED  BY <2>3, <2>4, <2>6
<1> QED  BY <1>1, <1>5, <1>6, <1>7 DEF FollowInv, Keys

\* The first session.
LEMMA FirstSession ==
  ASSUME Init
  PROVE  CacheInv
<1>1. /\ members = [u \in Users |-> [in |-> TRUE, roles |-> Roles]] /\ channels = FirstChannels
      /\ roles = [r \in Roles |-> "admin"] /\ told = roles /\ emoji \in BOOLEAN
      /\ online = TRUE /\ up = TRUE /\ guild = 0 /\ caches = <<>> /\ raced = FALSE
      /\ at = [h \in Handlers |-> "idle"] /\ job = [h \in Handlers |-> Nothing]
      /\ held = [h \in Handlers |-> Idle] /\ keys = [h \in Handlers |-> {}]
      /\ rows = [c \in Channels |-> <<>>] /\ announced = {} /\ overlapped = {}
  BY DEF Init, Nothing
<1>2. GuildTypes
  <2>1. [in |-> TRUE, roles |-> Roles] \in MemberState  BY DEF MemberState, Member
  <2>2. channels \in [Channels -> ChannelState]  BY <1>1, GuildConstants DEF Channel, ChannelState
  <2>3. roles \in [Roles -> RoleNames]  BY <1>1 DEF RoleNames
  <2> QED  BY <1>1, <2>1, <2>2, <2>3 DEF GuildTypes
<1>3. PICK known \in SUBSET Present : sent = <<GuildCreate(known)>>  BY DEF Init
<1>4. PICK ev : ev = GuildCreate(known)  OBVIOUS
<1>5. ev \in Events  BY <1>2, <1>4, GuildCreateShape
<1>6. TypeInv
  <2>1. sent \in Seq(Events) /\ caches \in Seq(GuildState) /\ rows \in [Channels -> Seq(ChannelState)]
    BY <1>1, <1>3, <1>4, <1>5
  <2>2. up \in BOOLEAN  BY <1>1, Zenon
  <2>3. online \in BOOLEAN  BY <1>1, Zenon
  <2>4. raced \in BOOLEAN  BY <1>1, Zenon
  <2>5. /\ at \in [Handlers -> Places] /\ held \in [Handlers -> Locals]
        /\ keys \in [Handlers -> SUBSET Keys] /\ job \in [Handlers -> Events \cup {Nothing}]
    BY <1>1, IdleShape DEF Places
  <2>6. told \in [Roles -> RoleNames]  BY <1>1, <1>2 DEF GuildTypes
  <2> QED  BY <1>2, <2>1, <2>2, <2>3, <2>4, <2>5, <2>6 DEF TypeInv, GuildTypes
<1>7. GuildInv
  <2>1. \A g \in Handlers : at[g] = "idle" /\ keys[g] = {} /\ held[g] = Idle  BY <1>1
  <2>2. Idle.guild = Unread  BY DEF Idle
  <2> QED  BY <1>1, <2>1, <2>2 DEF GuildInv, InPlace
<1>8. ASSUME NEW k \in Keys
      PROVE  LastWord(k) /\ Alone(k) /\ InHand(k)
  <2>1. /\ k \in Touched(ev) => Tells(ev, k)
        /\ k \in Channels /\ k \notin Touched(ev) => ~Live(k)
        /\ k \in Roles => k \in Touched(ev)
        /\ k = Emoji /\ k \notin Touched(ev) => emoji = FALSE
    BY <1>1, <1>2, <1>4, GuildCreateTells
  <2>2. DOMAIN sent = {1} /\ sent[1] = ev  BY <1>3, <1>4
  <2>3. LastWord(k)  BY <2>1, <2>2 DEF LastWord
  <2>4. Alone(k)  BY <1>1 DEF Alone
  <2>5. ASSUME Watched(k)
        PROVE  Agrees(k)
    <3>1. k \notin Touched(ev)  BY <2>2, <2>5 DEF Watched, Unsent
    <3>2. Cache = EmptyGuild  BY <1>1 DEF Cache
    <3>3. k \in Users => ~Cache.members[k].in  BY <3>2 DEF EmptyGuild, Stranger
    <3>4. k \in Channels => Known(k) = Shown(k)
      <4>1. k \in Channels => Known(k) = NoChannel  BY <3>2 DEF Known, EmptyGuild
      <4>2. k \in Channels => Shown(k) = NoChannel  BY <2>1, <3>1 DEF Shown
      <4> QED  BY <4>1, <4>2
    <3>5. k = Emoji => Cache.emoji = FALSE /\ emoji = FALSE  BY <2>1, <3>1, <3>2 DEF EmptyGuild
    <3>6. k \notin Roles  BY <2>1, <3>1
    <3>7. k \in Users \/ Same(k)  BY <3>4, <3>5, <3>6 DEF Same
    <3> QED  BY <3>3, <3>7 DEF Agrees
  <2>6. InHand(k)  BY <1>1, <2>5 DEF InHand
  <2> QED  BY <2>3, <2>4, <2>6
<1>9. FollowInv  BY <1>8 DEF FollowInv, Keys
<1>10. AnswerInv  BY <1>1 DEF AnswerInv, Idle
<1>11. TrackInv
  <2>1. \A c \in Channels : Len(rows[c]) = 0  BY <1>1
  <2> QED  BY <1>1, <2>1 DEF TrackInv
<1> QED  BY <1>6, <1>7, <1>9, <1>10, <1>11 DEF CacheInv

----------------------------------------------------------------------------
(* What is known of members, and the rows of channels *)

\* A handler is no surer than it was.
LEMMA AnswersKept ==
  ASSUME AnswerInv, NEW h \in Handlers, OthersKeep(h),
         held'[h].sure => /\ held[h].sure
                          /\ held'[h].member = held[h].member /\ held'[h].truth = held[h].truth
  PROVE  AnswerInv'
  BY DEF AnswerInv, OthersKeep

LEMMA StoringShape ==
  ASSUME TypeInv, GuildInv, NEW h \in Handlers, NEW c \in Channels, Storing(h, c)
  PROVE  /\ job[h].type \in {"channel_create", "thread_create"} /\ job[h].value.kind \notin Gone
         /\ at[h] \in {"put", "event", "select", "insert"}
         /\ c \notin Unwritten(h) \/ at[h] = "put"
  BY EventShape DEF Storing, IsCreate, ChannelPuts, TypeInv, Unwritten

\* Who else stores a channel goes on storing it.
LEMMA StoringOn ==
  ASSUME NEW h \in Handlers, GoesOn(h), ~raced', NEW c \in Channels, NEW g \in Handlers \ {h}, Storing(g, c)
  PROVE  Storing(g, c)'
<1>1. c \notin keys[h] /\ c \notin keys'[h]  BY DEF Storing, GoesOn
<1>2. c \notin Unwritten(h)  BY <1>1 DEF Unwritten
<1>3. Keeps(c)  BY <1>2 DEF GoesOn, Keys
<1>4. Known(c)' = Known(c)  BY <1>3 DEF Keeps, Known
<1>5. \A f \in Handlers \ {h} : at'[f] = at[f] /\ job'[f] = job[f] /\ keys'[f] = keys[f]
  BY DEF GoesOn, OthersKeep
<1>6. \A f \in Handlers \ {g} : c \notin keys'[f]  BY <1>1, <1>5 DEF Storing
<1> QED  BY <1>4, <1>5, <1>6 DEF Storing, IsCreate, Key

\* A handler goes on and leaves the rows alone: it stores what it stored.
LEMMA TracksOn ==
  ASSUME TypeInv, GuildInv, TrackInv, NEW h \in Handlers, GoesOn(h), UNCHANGED <<rows, announced, doubled, unsaved>>,
         \/ at'[h] = at[h] /\ job'[h] = job[h] /\ keys'[h] = keys[h]
         \/ /\ at'[h] \notin {"insert", "update"}
            /\ \A c \in Channels : Storing(h, c) /\ ~raced' => Storing(h, c)'
  PROVE  TrackInv'
<1>1. \A g \in Handlers \ {h} : at'[g] = at[g] /\ job'[g] = job[g] /\ keys'[g] = keys[g]
  BY DEF GoesOn, OthersKeep
<1>2. \A g \in Handlers : at'[g] \in {"insert", "update"} => at[g] = at'[g] /\ Key(g)' = Key(g)
  BY <1>1 DEF Key
<1>3. \A g \in Handlers : at'[g] = "insert" /\ Key(g)' \notin doubled' =>
        rows'[Key(g)'] = <<>> /\ \A f \in Handlers \ {g} : at'[f] = "insert" => Key(f)' # Key(g)'
  BY <1>2 DEF TrackInv
<1>4. \A g \in Handlers : at'[g] = "update" => rows'[Key(g)'] # <<>>
  BY <1>2 DEF TrackInv
<1>5. ASSUME NEW c \in Channels, c \in announced', up', ~raced', rows'[c] = <<>>, c \notin unsaved'
      PROVE  \E g \in Handlers : Storing(g, c)'
  <2>1. up /\ ~raced  BY <1>5 DEF GoesOn
  <2>2. PICK g \in Handlers : Storing(g, c)  BY <1>5, <2>1 DEF TrackInv
  <2>3. CASE g # h  BY <1>5, <2>2, <2>3, StoringOn
  <2>4. CASE g = h /\ at'[h] = at[h] /\ job'[h] = job[h] /\ keys'[h] = keys[h]
    <3>1. \A f \in Handlers \ {h} : c \notin keys'[f]  BY <1>1, <2>2, <2>4 DEF Storing
    <3>2. at[h] = "event" => Known(c)' = Known(c)
      <4>1. at[h] = "event" => c \notin Unwritten(h)  BY DEF Unwritten, Keys
      <4>2. at[h] = "event" => Keeps(c)
        <5>1. c \notin Users \cup Roles /\ c # Emoji  BY GuildConstants
        <5> QED  BY <1>5, <4>1, <5>1 DEF GoesOn, Keys
      <4> QED  BY <4>2 DEF Keeps, Known
    <3> QED  BY <2>2, <2>4, <3>1, <3>2 DEF Storing, IsCreate, Key
  <2> QED  BY <1>5, <2>2, <2>3, <2>4
<1>6. \A c \in Channels : Len(rows'[c]) > 1 => c \in doubled'  BY DEF TrackInv
<1> QED  BY <1>3, <1>4, <1>5, <1>6 DEF TrackInv

\* A handler that does not store a channel does not miss one.
LEMMA TracksNothing ==
  ASSUME TypeInv, GuildInv, TrackInv, NEW h \in Handlers, GoesOn(h), UNCHANGED <<rows, announced, doubled, unsaved>>,
         at'[h] \notin {"insert", "update"},
         at[h] \notin {"put", "event", "select", "insert"} \/ ~IsCreate(job[h])
  PROVE  TrackInv'
<1>1. \A c \in Channels : ~Storing(h, c)  BY DEF Storing
<1> QED  BY <1>1, TracksOn

\* Nothing happens to the handlers and the rows.
LEMMA TrackStill ==
  ASSUME TrackInv, UNCHANGED <<cacheVars, goroutines, tracked>>, up' => up
  PROVE  TrackInv'
<1>1. UNCHANGED <<guild, caches, raced, at, job, keys, rows, announced, doubled, unsaved>>
  BY DEF cacheVars, goroutines, tracked
<1>2. \A g : Key(g)' = Key(g)  BY <1>1 DEF Key
<1>3. \A g, c : Storing(g, c)' <=> Storing(g, c)
  <2>1. \A c : Known(c)' = Known(c)  BY <1>1 DEF Known, Cache
  <2> QED  BY <1>1, <2>1 DEF Storing, IsCreate, Key
<1>4. \A g \in Handlers : at'[g] = "insert" /\ Key(g)' \notin doubled' =>
        rows'[Key(g)'] = <<>> /\ \A f \in Handlers \ {g} : at'[f] = "insert" => Key(f)' # Key(g)'
  BY <1>1, <1>2 DEF TrackInv
<1>5. \A g \in Handlers : at'[g] = "update" => rows'[Key(g)'] # <<>>
  BY <1>1, <1>2 DEF TrackInv
<1>6. \A c \in Channels : /\ Len(rows'[c]) > 1 => c \in doubled'
                          /\ c \in announced' /\ up' /\ ~raced' /\ rows'[c] = <<>> /\ c \notin unsaved'
                               => \E g \in Handlers : Storing(g, c)'
  BY <1>1, <1>3 DEF TrackInv
<1> QED  BY <1>4, <1>5, <1>6 DEF TrackInv

\* A handler that starts with a channel alone stores it.
LEMMA StartTracks ==
  ASSUME TypeInv, GuildInv, FollowInv, TrackInv, NEW h \in Handlers, HandlerStarts(h)
  PROVE  TrackInv'
<1>0. /\ OthersKeep(h) /\ UNCHANGED <<rows, doubled, unsaved, raced, up, guild, caches>>
      /\ at[h] = "idle" /\ at'[h] \notin {"event", "select", "insert", "update"}
      /\ IsCreate(job'[h]) => at'[h] = "put" /\ keys'[h] = {job'[h].key}
      /\ announced' = IF IsCreate(job'[h]) /\ Shared(h, keys'[h]) = {} THEN announced \cup {job'[h].key}
                      ELSE announced \ Shared(h, Channels \cap keys'[h])
  BY Started
<1>1. \A g \in Handlers \ {h} : at'[g] = at[g] /\ job'[g] = job[g] /\ keys'[g] = keys[g]
  BY <1>0 DEF OthersKeep
<1>2. \A g \in Handlers : at'[g] \in {"insert", "update"} => at[g] = at'[g] /\ Key(g)' = Key(g)
  BY <1>0, <1>1 DEF Key
<1>3. \A g \in Handlers : at'[g] = "insert" /\ Key(g)' \notin doubled' =>
        rows'[Key(g)'] = <<>> /\ \A f \in Handlers \ {g} : at'[f] = "insert" => Key(f)' # Key(g)'
  BY <1>0, <1>2 DEF TrackInv
<1>4. \A g \in Handlers : at'[g] = "update" => rows'[Key(g)'] # <<>>
  BY <1>0, <1>2 DEF TrackInv
<1>5. ASSUME NEW c \in Channels, c \in announced', up', ~raced', rows'[c] = <<>>, c \notin unsaved'
      PROVE  \E g \in Handlers : Storing(g, c)'
  <2>1. CASE IsCreate(job'[h]) /\ Shared(h, keys'[h]) = {} /\ c = job'[h].key
    <3>1. \A g \in Handlers \ {h} : c \notin keys'[g]  BY <1>0, <1>1, <2>1 DEF Shared
    <3>2. IsCreate(job[h])' /\ Key(h)' = c  BY <2>1 DEF IsCreate, Key
    <3>3. Storing(h, c)'  BY <1>0, <2>1, <3>1, <3>2 DEF Storing
    <3> QED  BY <3>3
  <2>2. CASE ~(IsCreate(job'[h]) /\ Shared(h, keys'[h]) = {} /\ c = job'[h].key)
    <3>1. c \in announced  BY <1>0, <1>5, <2>2
    <3>2. PICK g \in Handlers : Storing(g, c)  BY <1>0, <1>5, <3>1 DEF TrackInv
    <3>3. g # h /\ c \in keys[g]  BY <1>0, <3>2 DEF Storing
    <3>4. c \notin keys'[h]
      <4>1. CASE IsCreate(job'[h]) /\ Shared(h, keys'[h]) = {}  BY <1>0, <2>2, <4>1
      <4>2. CASE ~(IsCreate(job'[h]) /\ Shared(h, keys'[h]) = {})
        BY <1>0, <1>5, <3>3, <4>2 DEF Shared
      <4> QED  BY <4>1, <4>2
    <3>5. Known(c)' = Known(c)  BY <1>0 DEF Known, Cache
    <3>6. \A f \in Handlers \ {g} : c \notin keys'[f]  BY <1>1, <3>2, <3>4 DEF Storing
    <3>7. Storing(g, c)'  BY <1>1, <3>2, <3>3, <3>5, <3>6 DEF Storing, IsCreate, Key
    <3> QED  BY <3>7
  <2> QED  BY <2>1, <2>2
<1>6. \A c \in Channels : Len(rows'[c]) > 1 => c \in doubled'  BY <1>0 DEF TrackInv
<1> QED  BY <1>3, <1>4, <1>5, <1>6 DEF TrackInv

\* A handler that asks for a member takes up no channel.
LEMMA AskTracks ==
  ASSUME TrackInv, NEW h \in Handlers, OthersKeep(h),
         UNCHANGED <<tracked, raced, up, job, guild, caches>>,
         at[h] \in {"name", "role"}, at'[h] \in {"convert", "decide", "storename", "storerole"},
         keys'[h] \subseteq Users
  PROVE  TrackInv'
<1>0. UNCHANGED <<rows, announced, doubled, unsaved>>  BY DEF tracked
<1>1. \A g \in Handlers \ {h} : at'[g] = at[g] /\ job'[g] = job[g] /\ keys'[g] = keys[g]
  BY DEF OthersKeep
<1>2. \A g \in Handlers : at'[g] \in {"insert", "update"} => at[g] = at'[g] /\ Key(g)' = Key(g)
  BY <1>1 DEF Key
<1>3. \A g \in Handlers : at'[g] = "insert" /\ Key(g)' \notin doubled' =>
        rows'[Key(g)'] = <<>> /\ \A f \in Handlers \ {g} : at'[f] = "insert" => Key(f)' # Key(g)'
  BY <1>0, <1>2 DEF TrackInv
<1>4. \A g \in Handlers : at'[g] = "update" => rows'[Key(g)'] # <<>>
  BY <1>0, <1>2 DEF TrackInv
<1>5. ASSUME NEW c \in Channels, c \in announced', up', ~raced', rows'[c] = <<>>, c \notin unsaved'
      PROVE  \E g \in Handlers : Storing(g, c)'
  <2>1. PICK g \in Handlers : Storing(g, c)  BY <1>0, <1>5 DEF TrackInv
  <2>2. g # h  BY <2>1 DEF Storing
  <2>3. c \notin keys'[h]  BY GuildConstants
  <2>4. Known(c)' = Known(c)  BY DEF Known, Cache
  <2>5. \A f \in Handlers \ {g} : c \notin keys'[f]  BY <1>1, <2>1, <2>3 DEF Storing
  <2>6. Storing(g, c)'  BY <1>1, <2>1, <2>2, <2>4, <2>5 DEF Storing, IsCreate, Key
  <2> QED  BY <2>6
<1>6. \A c \in Channels : Len(rows'[c]) > 1 => c \in doubled'  BY <1>0 DEF TrackInv
<1> QED  BY <1>3, <1>4, <1>5, <1>6 DEF TrackInv

\* A channel that is put into the cache is looked up there.
LEMMA PutTracks ==
  ASSUME TypeInv, GuildInv, TrackInv, NEW h \in Handlers, ChannelHandlers(h)
  PROVE  TrackInv'
<1>0. /\ GoesOn(h) /\ AfterWrite(h)
      /\ at[h] \in {"put", "remove"} /\ at'[h] \in {"idle", "event"}
      /\ at[h] = "put" /\ at'[h] = "idle" => ~IsCreate(job[h])
      /\ at'[h] = "event" => UNCHANGED <<job, held, keys>>
      /\ at[h] = "put" /\ ~raced => Cache'.channels[Key(h)] = job[h].value
  BY ChannelHandled
<1>1. UNCHANGED <<rows, announced, doubled, unsaved, raced>>  BY <1>0 DEF AfterWrite, tracked
<1>2. ASSUME NEW c \in Channels, Storing(h, c), ~raced'
      PROVE  Storing(h, c)'
  <2>1. at[h] = "put" /\ at'[h] = "event" /\ UNCHANGED <<job, held, keys>>
    BY <1>0, <1>2 DEF Storing
  <2>2. Known(c)' = job[h].value  BY <1>0, <1>1, <1>2, <2>1 DEF Storing, Known
  <2> QED  BY <1>2, <2>1, <2>2 DEF Storing, IsCreate, Key
<1> QED  BY <1>0, <1>1, <1>2, TracksOn

\* What is in the cache, alone, is found there.
LEMMA EventTracks ==
  ASSUME TypeInv, GuildInv, TrackInv, NEW h \in Handlers, TrackChannel(h)
  PROVE  TrackInv'
<1>0. /\ GoesOn(h) /\ UNCHANGED <<rows, announced, doubled, unsaved, raced, up>>
      /\ at[h] = "event" /\ at'[h] \in {"idle", "select"}
      /\ at'[h] = "idle" => Known(Key(h)).kind = "none"
      /\ at'[h] = "select" => UNCHANGED <<job, keys>>
  BY ChannelTracked
<1>1. ASSUME NEW c \in Channels, Storing(h, c), ~raced'
      PROVE  Storing(h, c)'
  <2>1. Known(Key(h)) = job[h].value /\ job[h].value.kind \notin Gone
    BY <1>0, <1>1, StoringShape DEF Storing
  <2>2. at'[h] = "select"  BY <1>0, <2>1 DEF Gone
  <2> QED  BY <1>0, <1>1, <2>2 DEF Storing, IsCreate, Key
<1> QED  BY <1>0, <1>1, TracksOn

LEMMA SelectTracks ==
  ASSUME TypeInv, GuildInv, TrackInv, NEW h \in Handlers, SelectChannel(h)
  PROVE  TrackInv'
<1>0. /\ GoesOn(h) /\ UNCHANGED <<rows, announced, unsaved, raced, up, job, held, keys>>
      /\ at[h] = "select" /\ at'[h] \in {"insert", "update"}
      /\ doubled \subseteq doubled'
      /\ at'[h] = "update" => rows[Key(h)] # <<>>
      /\ at'[h] = "insert" /\ Key(h) \notin doubled' =>
           rows[Key(h)] = <<>> /\ \A g \in Handlers \ {h} : at[g] = "insert" => Key(g) # Key(h)
      /\ at'[h] = "insert" => \A g \in Handlers \ {h} : at[g] = "insert" /\ Key(g) = Key(h) => Key(h) \in doubled'
  BY ChannelSelected
<1>1. \A g : Key(g)' = Key(g)  BY <1>0 DEF Key
<1>2. \A g \in Handlers \ {h} : at'[g] = at[g]  BY <1>0 DEF GoesOn, OthersKeep
<1>3. ASSUME NEW g \in Handlers, at'[g] = "insert", Key(g)' \notin doubled'
      PROVE  rows'[Key(g)'] = <<>> /\ \A f \in Handlers \ {g} : at'[f] = "insert" => Key(f)' # Key(g)'
  <2>1. CASE g = h  BY <1>0, <1>1, <1>2, <1>3, <2>1
  <2>2. CASE g # h
    <3>1. at[g] = "insert" /\ Key(g) \notin doubled  BY <1>0, <1>1, <1>2, <1>3, <2>2
    <3>2. \A f \in Handlers \ {g, h} : at'[f] = "insert" => Key(f)' # Key(g)'
      BY <1>1, <1>2, <3>1 DEF TrackInv
    <3>3. at'[h] = "insert" => Key(h)' # Key(g)'  BY <1>0, <1>1, <1>3, <2>2, <3>1
    <3>4. rows'[Key(g)'] = <<>>  BY <1>0, <1>1, <3>1 DEF TrackInv
    <3> QED  BY <3>2, <3>3, <3>4
  <2> QED  BY <2>1, <2>2
<1>4. \A g \in Handlers : at'[g] = "update" => rows'[Key(g)'] # <<>>
  BY <1>0, <1>1, <1>2 DEF TrackInv
<1>5. ASSUME NEW c \in Channels, c \in announced', up', ~raced', rows'[c] = <<>>, c \notin unsaved'
      PROVE  \E g \in Handlers : Storing(g, c)'
  <2>1. PICK g \in Handlers : Storing(g, c)  BY <1>0, <1>5 DEF TrackInv
  <2>2. CASE g # h  BY <1>0, <1>5, <2>1, <2>2, StoringOn
  <2>3. CASE g = h
    <3>1. at'[h] = "insert"  BY <1>0, <1>5, <2>1, <2>3 DEF Storing
    <3>2. Storing(h, c)'  BY <1>0, <2>1, <2>3, <3>1 DEF Storing, IsCreate, Key
    <3> QED  BY <3>2
  <2> QED  BY <2>2, <2>3
<1>6. \A c \in Channels : Len(rows'[c]) > 1 => c \in doubled'  BY <1>0 DEF TrackInv
<1> QED  BY <1>3, <1>4, <1>5, <1>6 DEF TrackInv

LEMMA SaveTracks ==
  ASSUME TypeInv, GuildInv, TrackInv, NEW h \in Handlers, InsertChannel(h) \/ UpdateChannel(h)
  PROVE  TrackInv'
<1>0. /\ TypeInv' /\ GoesOn(h) /\ UNCHANGED <<announced, doubled, raced, up>>
      /\ at[h] \in {"insert", "update"} /\ at'[h] = "idle"
      /\ \A c \in Channels \ {Key(h)} : rows'[c] = rows[c]
      /\ unsaved \subseteq unsaved'
      /\ rows' # rows \/ Key(h) \in unsaved' \/ at[h] = "update"
      /\ \/ rows' = rows
         \/ at[h] = "insert" /\ Len(rows'[Key(h)]) = Len(rows[Key(h)]) + 1
         \/ at[h] = "update" /\ Len(rows'[Key(h)]) = Len(rows[Key(h)])
  BY ChannelSaved
<1>1. Key(h) \in Channels  BY <1>0, ChannelJob
<1>2. \A c \in Channels : rows[c] \in Seq(ChannelState) /\ rows'[c] \in Seq(ChannelState)
  BY <1>0 DEF TypeInv
<1>3. \A c \in Channels : rows[c] # <<>> => rows'[c] # <<>>
  <2> SUFFICES ASSUME NEW c \in Channels, rows[c] # <<>> PROVE rows'[c] # <<>>
    OBVIOUS
  <2>1. Len(rows[c]) > 0 /\ Len(rows'[c]) >= Len(rows[c])  BY <1>0, <1>1, <1>2
  <2> QED  BY <1>2, <2>1
<1>4. \A g \in Handlers \ {h} : at'[g] = at[g] /\ Key(g)' = Key(g)  BY <1>0 DEF GoesOn, OthersKeep, Key
<1>5. ASSUME NEW g \in Handlers, at'[g] = "insert", Key(g)' \notin doubled'
      PROVE  rows'[Key(g)'] = <<>> /\ \A f \in Handlers \ {g} : at'[f] = "insert" => Key(f)' # Key(g)'
  <2>1. g # h /\ at[g] = "insert" /\ Key(g) \notin doubled /\ Key(g)' = Key(g)  BY <1>0, <1>4, <1>5
  <2>2. rows[Key(g)] = <<>> /\ \A f \in Handlers \ {g} : at[f] = "insert" => Key(f) # Key(g)
    BY <2>1 DEF TrackInv
  <2>3. Key(g) # Key(h)
    <3>1. CASE at[h] = "insert"  BY <2>1, <2>2, <3>1
    <3>2. CASE at[h] = "update"  BY <2>2, <3>2 DEF TrackInv
    <3> QED  BY <1>0, <3>1, <3>2
  <2>4. Key(g) \in Channels  BY <2>1, ChannelJob
  <2> QED  BY <1>0, <1>4, <2>1, <2>2, <2>3, <2>4
<1>6. ASSUME NEW g \in Handlers, at'[g] = "update"
      PROVE  rows'[Key(g)'] # <<>>
  <2>1. g # h /\ at[g] = "update" /\ Key(g)' = Key(g)  BY <1>0, <1>4, <1>6
  <2>2. Key(g) \in Channels /\ rows[Key(g)] # <<>>  BY <2>1, ChannelJob DEF TrackInv
  <2> QED  BY <1>3, <2>1, <2>2
<1>7. ASSUME NEW c \in Channels, c \in announced', up', ~raced', rows'[c] = <<>>, c \notin unsaved'
      PROVE  \E g \in Handlers : Storing(g, c)'
  <2>1. rows[c] = <<>> /\ c \notin unsaved  BY <1>0, <1>3, <1>7
  <2>2. PICK g \in Handlers : Storing(g, c)  BY <1>0, <1>7, <2>1 DEF TrackInv
  <2>3. CASE g # h  BY <1>0, <1>7, <2>2, <2>3, StoringOn
  <2>4. CASE g = h
    <3>1. at[h] = "insert" /\ Key(h) = c  BY <1>0, <2>2, <2>4 DEF Storing
    <3>2. Len(rows'[c]) = Len(rows[c]) + 1  BY <1>0, <1>7, <3>1
    <3> QED  BY <1>2, <1>7, <3>2
  <2> QED  BY <2>3, <2>4
<1>8. ASSUME NEW c \in Channels, Len(rows'[c]) > 1
      PROVE  c \in doubled'
  <2>1. CASE c # Key(h) \/ rows' = rows \/ at[h] = "update"
    <3>1. Len(rows'[c]) = Len(rows[c])  BY <1>0, <2>1
    <3> QED  BY <1>0, <1>8, <3>1 DEF TrackInv
  <2>2. CASE c = Key(h) /\ rows' # rows /\ at[h] = "insert"
    <3>1. Len(rows'[c]) = Len(rows[c]) + 1  BY <1>0, <2>2
    <3>2. rows[c] # <<>>  BY <1>2, <1>8, <3>1
    <3> QED  BY <1>0, <2>2, <3>2 DEF TrackInv
  <2> QED  BY <1>0, <2>1, <2>2
<1> QED  BY <1>5, <1>6, <1>7, <1>8 DEF TrackInv

----------------------------------------------------------------------------
(* The invariant is kept *)

\* A handler that writes and stores no channel.
LEMMA WriterKeeps ==
  ASSUME CacheInv, NEW h \in Handlers, TypeInv' /\ GuildInv' /\ GoesOn(h), AfterWrite(h),
         held'[h] = held[h] \/ held'[h] = Idle, at'[h] \notin {"insert", "update"},
         at[h] \notin {"put", "event", "select", "insert"} \/ ~IsCreate(job[h])
  PROVE  CacheInv'
<1>1. UNCHANGED <<rows, announced, doubled, unsaved>>  BY DEF AfterWrite, tracked
<1>2. FollowInv'  BY GoesOnFollowInv DEF CacheInv
<1>3. AnswerInv'
  <2>1. OthersKeep(h)  BY DEF GoesOn
  <2>2. held'[h].sure => held'[h] = held[h]  BY DEF Idle
  <2> QED  BY <2>1, <2>2, AnswersKept DEF CacheInv
<1>4. TrackInv'  BY <1>1, TracksNothing DEF CacheInv
<1> QED  BY <1>2, <1>3, <1>4 DEF CacheInv

LEMMA GuildHandlersKeep ==
  ASSUME CacheInv, NEW h \in Handlers,
         \/ StoreGuildChannels(h) \/ StoreGuildMembers(h) \/ StoreGuildRoles(h) \/ StoreEmojis(h)
         \/ StoreMember(h) \/ ForgetMember(h)
  PROVE  CacheInv'
<1>0. TypeInv /\ GuildInv  BY DEF CacheInv
<1>1. CASE StoreGuildChannels(h)
  <2>1. TypeInv' /\ GuildInv' /\ GoesOn(h)  BY <1>0, <1>1, ChannelsStored
  <2>2. at[h] = "channels" /\ Go(h, "members") /\ UNCHANGED <<job, held, keys>> /\ AfterWrite(h)
    BY <1>1 DEF StoreGuildChannels, Ready
  <2>3. at'[h] = "members"  BY <1>0, <2>2 DEF Go, TypeInv
  <2> QED  BY <2>1, <2>2, <2>3, WriterKeeps
<1>2. CASE StoreGuildMembers(h)
  <2>1. TypeInv' /\ GuildInv' /\ GoesOn(h)  BY <1>0, <1>2, MembersStored
  <2>2. at[h] = "members" /\ Go(h, "roles") /\ UNCHANGED <<job, held, keys>> /\ AfterWrite(h)
    BY <1>2 DEF StoreGuildMembers
  <2>3. at'[h] = "roles"  BY <1>0, <2>2 DEF Go, TypeInv
  <2> QED  BY <2>1, <2>2, <2>3, WriterKeeps
<1>3. CASE StoreGuildRoles(h)
  <2>1. TypeInv' /\ GuildInv' /\ GoesOn(h)  BY <1>0, <1>3, RolesStored
  <2>2. at[h] = "roles" /\ Finish(h) /\ AfterWrite(h)  BY <1>3 DEF StoreGuildRoles
  <2>3. at'[h] = "idle" /\ held'[h] = Idle  BY <1>0, <2>2, Finishes
  <2> QED  BY <2>1, <2>2, <2>3, WriterKeeps
<1>4. CASE StoreEmojis(h)
  <2>1. TypeInv' /\ GuildInv' /\ GoesOn(h)  BY <1>0, <1>4, EmojisStored
  <2>2. at[h] = "emojis" /\ Finish(h) /\ AfterWrite(h)  BY <1>4 DEF StoreEmojis, Ready
  <2>3. at'[h] = "idle" /\ held'[h] = Idle  BY <1>0, <2>2, Finishes
  <2> QED  BY <2>1, <2>2, <2>3, WriterKeeps
<1>5. CASE StoreMember(h) \/ ForgetMember(h)
  <2>1. TypeInv' /\ GuildInv' /\ GoesOn(h)  BY <1>0, <1>5, MemberStored
  <2>2. job[h].type \in {"member_add", "member_update", "member_remove"} /\ Finish(h) /\ AfterWrite(h)
    BY <1>5 DEF StoreMember, ForgetMember
  <2>3. at'[h] = "idle" /\ held'[h] = Idle /\ ~IsCreate(job[h])  BY <1>0, <2>2, Finishes DEF IsCreate
  <2> QED  BY <2>1, <2>2, <2>3, WriterKeeps
<1> QED  BY <1>1, <1>2, <1>3, <1>4, <1>5

LEMMA ChannelHandlersKeep ==
  ASSUME CacheInv, NEW h \in Handlers,
         \/ ChannelHandlers(h)
         \/ TrackChannel(h) \/ SelectChannel(h) \/ InsertChannel(h) \/ UpdateChannel(h)
  PROVE  CacheInv'
<1>0. TypeInv /\ GuildInv /\ FollowInv /\ AnswerInv /\ TrackInv  BY DEF CacheInv
<1>1. /\ TypeInv' /\ GuildInv' /\ GoesOn(h) /\ TrackInv'
      /\ held'[h].sure => /\ held[h].sure
                          /\ held'[h].member = held[h].member /\ held'[h].truth = held[h].truth
  <2>1. CASE ChannelHandlers(h)
    <3>1. TypeInv' /\ GuildInv' /\ GoesOn(h) /\ (at'[h] = "event" => UNCHANGED <<job, held, keys>>)
          /\ at'[h] \in {"idle", "event"}
      BY <1>0, <2>1, ChannelHandled
    <3>2. at'[h] = "idle" => held'[h] = Idle
      <4>1. InPlace(h)'  BY <3>1 DEF GuildInv
      <4> QED  BY <4>1 DEF InPlace
    <3>3. TrackInv'  BY <1>0, <2>1, PutTracks
    <3> QED  BY <3>1, <3>2, <3>3 DEF Idle
  <2>2. CASE TrackChannel(h)
    <3>1. TypeInv' /\ GuildInv' /\ GoesOn(h)
          /\ (held'[h].sure => held'[h].member = held[h].member /\ held'[h].truth = held[h].truth /\ held[h].sure)
      BY <1>0, <2>2, ChannelTracked
    <3>2. TrackInv'  BY <1>0, <2>2, EventTracks
    <3> QED  BY <3>1, <3>2
  <2>3. CASE SelectChannel(h)
    <3>1. TypeInv' /\ GuildInv' /\ GoesOn(h) /\ UNCHANGED held  BY <1>0, <2>3, ChannelSelected
    <3>2. TrackInv'  BY <1>0, <2>3, SelectTracks
    <3> QED  BY <3>1, <3>2
  <2>4. CASE InsertChannel(h) \/ UpdateChannel(h)
    <3>1. TypeInv' /\ GuildInv' /\ GoesOn(h) /\ ~held'[h].sure  BY <1>0, <2>4, ChannelSaved
    <3>2. TrackInv'  BY <1>0, <2>4, SaveTracks
    <3> QED  BY <3>1, <3>2
  <2> QED  BY <2>1, <2>2, <2>3, <2>4
<1>2. FollowInv'  BY <1>0, <1>1, GoesOnFollowInv
<1>3. AnswerInv'
  <2>1. OthersKeep(h)  BY <1>1 DEF GoesOn
  <2> QED  BY <1>0, <1>1, <2>1, AnswersKept
<1> QED  BY <1>1, <1>2, <1>3 DEF CacheInv

LEMMA MessageHandlersKeep ==
  ASSUME CacheInv, NEW h \in Handlers,
         \/ GetUser(h) \/ HasRole(h) \/ CacheUser(h) \/ CacheMember(h) \/ ChannelName(h)
         \/ ConvertMessage(h) \/ Decide(h)
  PROVE  CacheInv'
<1>0. TypeInv /\ GuildInv /\ FollowInv /\ AnswerInv /\ TrackInv  BY DEF CacheInv
<1>1. CASE GetUser(h) \/ HasRole(h)
  <2>1. /\ TypeInv' /\ GuildInv' /\ FollowInv' /\ AnswerInv'
        /\ UNCHANGED <<tracked, raced, up, job, guild, caches>> /\ OthersKeep(h)
        /\ at[h] \in {"name", "role"} /\ at'[h] \in {"convert", "decide", "storename", "storerole"}
        /\ keys'[h] \subseteq Users
    BY <1>0, <1>1, MemberAsked
  <2>2. TrackInv'  BY <1>0, <2>1, AskTracks
  <2> QED  BY <2>1, <2>2 DEF CacheInv
<1>2. CASE CacheUser(h) \/ CacheMember(h)
  <2>1. /\ TypeInv' /\ GuildInv' /\ GoesOn(h) /\ AfterWrite(h)
        /\ at[h] \in {"storename", "storerole"} /\ at'[h] \in {"convert", "decide"} /\ UNCHANGED <<job, held>>
    BY <1>0, <1>2, AnswerCached
  <2> QED  BY <2>1, WriterKeeps
<1>3. CASE ChannelName(h) \/ ConvertMessage(h) \/ Decide(h)
  <2>1. /\ TypeInv' /\ GuildInv' /\ GoesOn(h) /\ UNCHANGED tracked
        /\ at[h] \in {"channelname", "convert", "decide"} /\ at'[h] \in {"idle", "role", "convert"}
        /\ held'[h].sure => held' = held
    BY <1>0, <1>3, NameRead, MessageJudged
  <2>2. UNCHANGED <<rows, announced, doubled, unsaved>>  BY <2>1 DEF tracked
  <2>3. FollowInv'  BY <1>0, <2>1, GoesOnFollowInv
  <2>4. AnswerInv'
    <3>1. OthersKeep(h)  BY <2>1 DEF GoesOn
    <3> QED  BY <1>0, <2>1, <3>1, AnswersKept
  <2>5. TrackInv'  BY <1>0, <2>1, <2>2, TracksNothing
  <2> QED  BY <2>1, <2>3, <2>4, <2>5 DEF CacheInv
<1> QED  BY <1>1, <1>2, <1>3

LEMMA OtherStepsKeep ==
  ASSUME CacheInv, NEW h \in Handlers,
         HandlerStarts(h) \/ FindGuild(h) \/ MakeGuild(h) \/ TranslationPanics(h)
  PROVE  CacheInv'
<1>0. TypeInv /\ GuildInv /\ FollowInv /\ AnswerInv /\ TrackInv  BY DEF CacheInv
<1>1. CASE HandlerStarts(h)
  <2>1. TypeInv' /\ GuildInv' /\ FollowInv' /\ UNCHANGED held  BY <1>0, <1>1, Started
  <2>2. AnswerInv'  BY <1>0, <2>1 DEF AnswerInv
  <2>3. TrackInv'  BY <1>0, <1>1, StartTracks
  <2> QED  BY <2>1, <2>2, <2>3 DEF CacheInv
<1>2. CASE FindGuild(h) \/ MakeGuild(h)
  <2>1. /\ TypeInv' /\ GuildInv' /\ GoesOn(h)
        /\ \A g \in Handlers : held'[g].member = held[g].member /\ held'[g].truth = held[g].truth
                               /\ held'[g].sure = held[g].sure
    BY <1>0, <1>2, GuildFound, GuildMade
  <2>2. UNCHANGED <<at, job, keys, tracked>>  BY <1>2 DEF FindGuild, MakeGuild
  <2>3. FollowInv'  BY <1>0, <2>1, GoesOnFollowInv
  <2>4. AnswerInv'  BY <1>0, <2>1 DEF AnswerInv
  <2>5. TrackInv'
    <3>1. UNCHANGED <<rows, announced, doubled, unsaved>>  BY <2>2 DEF tracked
    <3> QED  BY <1>0, <2>1, <2>2, <3>1, TracksOn
  <2> QED  BY <2>1, <2>3, <2>4, <2>5 DEF CacheInv
<1>3. CASE TranslationPanics(h)
  <2>1. TypeInv' /\ GuildInv' /\ FollowInv' /\ UNCHANGED <<tracked, goroutines>> /\ ~up'
    BY <1>0, <1>3, Panicked
  <2>2. UNCHANGED cacheVars  BY <1>3 DEF TranslationPanics, Panic
  <2>3. TrackInv'  BY <1>0, <2>1, <2>2, TrackStill
  <2>4. AnswerInv'  BY <1>0, <2>1 DEF AnswerInv, goroutines
  <2> QED  BY <2>1, <2>3, <2>4 DEF CacheInv
<1> QED  BY <1>1, <1>2, <1>3

LEMMA DiscordStepsKeep ==
  ASSUME CacheInv, DiscordStep
  PROVE  CacheInv'
<1>0. TypeInv /\ GuildInv /\ FollowInv /\ AnswerInv /\ TrackInv  BY DEF CacheInv
<1>1. CASE Restart
  <2>1. /\ TypeInv' /\ GuildInv' /\ FollowInv'
        /\ UNCHANGED <<rows, doubled>> /\ announced' = {}
        /\ \A g \in Handlers : at'[g] = "idle" /\ held'[g] = Idle
    BY <1>0, <1>1, Restarted
  <2>2. AnswerInv'  BY <2>1 DEF AnswerInv, Idle
  <2>3. TrackInv'  BY <1>0, <2>1 DEF TrackInv
  <2> QED  BY <2>1, <2>2, <2>3 DEF CacheInv
<1>2. CASE ~Restart
  <2>1. /\ TypeInv' /\ GuildInv' /\ FollowInv'
        /\ UNCHANGED <<up, cacheVars, goroutines, tracked>>
    BY <1>0, <1>2, MemberChanged, ChannelChanged, EmojisChanged, RoleChanged, MessageSent, ConnectionGone,
       SessionResumed DEF DiscordStep
  <2>2. TrackInv'  BY <1>0, <2>1, TrackStill
  <2>3. AnswerInv'  BY <1>0, <2>1 DEF AnswerInv, goroutines
  <2> QED  BY <2>1, <2>2, <2>3 DEF CacheInv
<1> QED  BY <1>1, <1>2

LEMMA CacheInvKept ==
  ASSUME CacheInv, [Next]_vars
  PROVE  CacheInv'
<1>1. CASE DiscordStep  BY <1>1, DiscordStepsKeep
<1>2. ASSUME NEW h \in Handlers, HandlerStep(h)
      PROVE  CacheInv'
  BY <1>2, GuildHandlersKeep, ChannelHandlersKeep, MessageHandlersKeep, OtherStepsKeep
     DEF HandlerStep, ChannelHandlers
<1>3. CASE UNCHANGED vars
  <2>1. UNCHANGED discord /\ UNCHANGED <<sent, up, guild, caches, raced, at, job, held, keys, missed, overlapped>>
        /\ UNCHANGED <<cacheVars, goroutines, tracked, rows>>
    BY <1>3 DEF vars, cacheVars, goroutines, tracked, history
  <2>2. TypeInv /\ GuildInv /\ FollowInv /\ AnswerInv /\ TrackInv  BY DEF CacheInv
  <2>3. TypeInv' /\ GuildInv'
    <3>1. TypeInv'  BY <2>1, <2>2 DEF TypeInv, discord
    <3>2. \A g \in Handlers : InPlace(g)' <=> InPlace(g)  BY <2>1 DEF InPlace, Key, Mention
    <3> QED  BY <2>1, <2>2, <3>1, <3>2 DEF GuildInv, discord
  <2>4. ASSUME NEW k \in Keys
        PROVE  LastWord(k)' /\ Alone(k)' /\ InHand(k)'
    <3>1. LastWord(k) /\ Alone(k) /\ InHand(k)  BY <2>2 DEF FollowInv
    <3>2. LastWord(k)'  BY <2>1, <3>1, LastWordStays
    <3>3. Watched(k)' => Watched(k) /\ Unmoved(k)  BY <2>1 DEF Watched, Unsent, Unmoved, discord
    <3> QED  BY <2>1, <2>2, <3>1, <3>2, <3>3, DiscordFollows
  <2>5. FollowInv'  BY <2>4 DEF FollowInv, Keys
  <2>6. TrackInv'  BY <2>1, <2>2, TrackStill
  <2>7. AnswerInv'  BY <2>1, <2>2 DEF AnswerInv
  <2> QED  BY <2>3, <2>5, <2>6, <2>7 DEF CacheInv
<1> QED  BY <1>1, <1>2, <1>3 DEF Next

(* The types, whose guild each goroutine has, what each has yet to write,   *)
(* what it was told of a member, and who stores a channel (the handlers of  *)
(* internal/accord, internal/triggers/tracking/channels.go).                *)
THEOREM CacheInvHolds == Spec => []CacheInv
<1>1. Init => CacheInv  BY FirstSession
<1>2. CacheInv /\ [Next]_vars => CacheInv'  BY CacheInvKept
<1> QED  BY <1>1, <1>2, PTL DEF Spec

----------------------------------------------------------------------------
(* What follows *)

\* What is at rest agrees.
LEMMA RestAgrees ==
  ASSUME CacheInv, NEW handlers \in SUBSET Handlers, NEW k \in Keys, AtRest(k, handlers),
         \A h \in Handlers \ handlers : k \notin keys[h]
  PROVE  Agrees(k)
<1>1. Watched(k)  BY DEF AtRest, Watched, Unsent
<1>2. \A h \in Handlers : k \notin keys[h]  BY DEF AtRest
<1>3. InHand(k)  BY DEF CacheInv, FollowInv
<1> QED  BY <1>1, <1>2, <1>3 DEF InHand

\* Only of users less may be known.
LEMMA RestSame ==
  ASSUME CacheInv, NEW handlers \in SUBSET Handlers, NEW k \in Channels \cup Roles \cup {Emoji}, AtRest(k, handlers),
         \A h \in Handlers \ handlers : k \notin keys[h]
  PROVE  Same(k)
<1>1. k \in Keys /\ k \notin Users  BY GuildConstants DEF Keys
<1>2. Agrees(k)  BY <1>1, RestAgrees
<1> QED  BY <1>1, <1>2 DEF Agrees

LEMMA CacheFollows ==
  ASSUME CacheInv
  PROVE  CacheFollowsDiscord
<1>0. TypeInv /\ GuildInv /\ TrackInv  BY DEF CacheInv
<1>1. TrackedOnce
  <2> SUFFICES ASSUME NEW c \in Channels
               PROVE  /\ Len(rows[c]) > 1 => c \in doubled
                      /\ c \in announced /\ up /\ ~raced /\ (\A h \in Handlers : c \notin keys[h])
                           => rows[c] # <<>> \/ c \in unsaved
    BY DEF TrackedOnce
  <2>1. \A h \in Handlers : Storing(h, c) => c \in keys[h]  BY DEF Storing
  <2> QED  BY <1>0, <2>1 DEF TrackInv
<1>2. ASSUME NEW u \in Users, Quiet(u), Cache.members[u].in
      PROVE  Cache.members[u] = members[u]
  <2>1. Agrees(u)  BY <1>2, RestAgrees DEF Quiet, Keys
  <2> QED  BY <1>2, <2>1 DEF Agrees, Same
<1>3. ASSUME NEW c \in Channels, Quiet(c)
      PROVE  Known(c) = IF Live(c) THEN channels[c] ELSE NoChannel
  <2>1. Same(c)  BY <1>3, RestSame DEF Quiet
  <2> QED  BY <2>1 DEF Same, Shown
<1>4. ASSUME NEW r \in Roles, Quiet(r)
      PROVE  Cache.roles[r] = told[r]
  <2>1. Same(r)  BY <1>4, RestSame DEF Quiet
  <2> QED  BY <2>1 DEF Same
<1>5. Quiet(Emoji) => Cache.emoji = emoji
  <2>1. Quiet(Emoji) => Same(Emoji)  BY RestSame DEF Quiet
  <2> QED  BY <2>1 DEF Same
<1> QED  BY <1>1, <1>2, <1>3, <1>4, <1>5 DEF CacheFollowsDiscord

(* For any number of goroutines, members, channels and roles, sessions and   *)
(* restarts: what is at rest is in the caches as Discord has it, and a       *)
(* channel has one row (the handlers of internal/accord, StoreChannel).      *)
THEOREM CacheFollowsHolds == Spec => []CacheFollowsDiscord
<1>1. CacheInv => CacheFollowsDiscord  BY CacheFollows
<1> QED  BY <1>1, CacheInvHolds, PTL

\* What is noted of a message.
LEMMA ConversionRight ==
  ASSUME CacheInv, NEW h \in Handlers, ConvertMessage(h), NEW v \in verdicts', v \notin verdicts, v.sure
  PROVE  v.said = v.right
<1>0. TypeInv /\ GuildInv /\ at[h] = "convert"  BY DEF CacheInv, ConvertMessage
<1>1. keys[h] = {} /\ job[h].type = "message"
  <2>1. InPlace(h)  BY <1>0 DEF GuildInv
  <2> QED  BY <1>0, <2>1 DEF InPlace
<1>2. PICK c \in Channels : c = job[h].value.channel
  <2>1. job[h] \in Events \cup {Nothing}  BY <1>0 DEF TypeInv
  <2> QED  BY <1>1, <2>1, EventShape DEF MessageValue
<1>3. PICK known \in BOOLEAN : known = (Known(c).kind # "none")  OBVIOUS
<1>4. PICK live \in BOOLEAN : live = Live(c)  BY DEF Live
<1>5. PICK settled \in BOOLEAN : settled = Settled(c, h)  BY DEF Settled, AtRest
<1>6. v = Verdict(settled, known, live)  BY <1>2, <1>3, <1>4, <1>5 DEF ConvertMessage
<1>7. v.sure = settled /\ v.said = known /\ v.right = live  BY <1>6 DEF Verdict
<1>8. Settled(c, h)  BY <1>5, <1>7
<1>9. Same(c)  BY <1>1, <1>8, RestSame DEF Settled
<1>10. known <=> live
  <2>1. Known(c) = Shown(c)  BY <1>9 DEF Same
  <2> QED  BY <1>3, <1>4, <2>1 DEF Shown, Live, Gone, NoChannel
<1> QED  BY <1>7, <1>10

LEMMA DecisionRight ==
  ASSUME CacheInv, NEW h \in Handlers, Decide(h), NEW v \in verdicts', v \notin verdicts, v.sure
  PROVE  v.said = v.right
<1>0. TypeInv /\ GuildInv /\ AnswerInv /\ at[h] = "decide" /\ held[h].guild > 0
  BY DEF CacheInv, Decide, GuildInv
<1>1. keys[h] = {}
  <2>1. InPlace(h)  BY <1>0 DEF GuildInv
  <2> QED  BY <1>0, <2>1 DEF InPlace
<1>2. PICK said \in BOOLEAN : said = (\E r \in held[h].member.roles : Mine(h).roles[r] = "admin")  OBVIOUS
<1>3. PICK right \in BOOLEAN : right = (held[h].truth.in /\ \E r \in held[h].truth.roles : told[r] = "admin")
  OBVIOUS
<1>4. PICK sure \in BOOLEAN : sure = (held[h].sure /\ \A r \in Roles : Settled(r, h))  OBVIOUS
<1>5. v = Verdict(sure, said, right)  BY <1>2, <1>3, <1>4 DEF Decide
<1>6. v.sure = sure /\ v.said = said /\ v.right = right  BY <1>5 DEF Verdict
<1>7. held[h].sure /\ \A r \in Roles : Settled(r, h)  BY <1>4, <1>6
<1>8. held[h].member.roles \subseteq Roles  BY <1>0 DEF TypeInv, Locals, MemberState, Member
<1>9. ASSUME NEW r \in Roles
      PROVE  Mine(h).roles[r] = told[r]
  <2>1. Settled(r, h)  BY <1>7
  <2>2. Same(r)  BY <1>1, <2>1, RestSame DEF Settled
  <2>3. Mine(h) = Cache  BY <1>0, <2>1, MineIsCache DEF Settled, AtRest
  <2> QED  BY <2>2, <2>3 DEF Same
<1>10. \/ held[h].member = held[h].truth /\ held[h].truth.in
       \/ held[h].member = Stranger /\ ~held[h].truth.in
  BY <1>0, <1>7 DEF AnswerInv
<1>11. said <=> right
  <2>1. CASE held[h].member = Stranger /\ ~held[h].truth.in
    <3>1. ~\E r \in held[h].member.roles : Mine(h).roles[r] = "admin"  BY <2>1 DEF Stranger
    <3> QED  BY <1>2, <1>3, <2>1, <3>1
  <2>2. CASE held[h].member = held[h].truth /\ held[h].truth.in
    <3>1. (\E r \in held[h].member.roles : Mine(h).roles[r] = "admin")
            <=> \E r \in held[h].truth.roles : told[r] = "admin"
      BY <1>8, <1>9, <2>2
    <3> QED  BY <1>2, <1>3, <2>2, <3>1
  <2> QED  BY <1>10, <2>1, <2>2
<1> QED  BY <1>6, <1>11

(* For any number of goroutines, members, channels and roles: no message is *)
(* dropped whose channel exists, and only admins are taken for admins, when *)
(* nothing about it is under way (convertMessageCreate, HasRole).           *)
THEOREM AnswersFollowHolds == Spec => []AnswersFollowDiscord
<1>1. Init => AnswersFollowDiscord  BY DEF Init, AnswersFollowDiscord
<1>2. ASSUME CacheInv, AnswersFollowDiscord, [Next]_vars
      PROVE  AnswersFollowDiscord'
  <2> SUFFICES ASSUME NEW v \in verdicts', v \notin verdicts, v.sure
               PROVE  v.said = v.right
    BY <1>2 DEF AnswersFollowDiscord
  <2>1. CASE \E h \in Handlers : ConvertMessage(h)  BY <1>2, <2>1, ConversionRight
  <2>2. CASE \E h \in Handlers : Decide(h)  BY <1>2, <2>2, DecisionRight
  <2>3. CASE UNCHANGED verdicts  BY <2>3
  <2>4. CASE DiscordStep
    <3>1. UNCHANGED verdicts
      BY <2>4 DEF DiscordStep, MemberChanges, ChannelChanges, EmojisChange, RoleRenamed, MessagePosted,
         ConnectionLost, Reconnect, Restart, Change, history
    <3> QED  BY <3>1
  <2>5. ASSUME NEW h \in Handlers, HandlerStep(h), ~ConvertMessage(h), ~Decide(h)
        PROVE  UNCHANGED verdicts
    <3>1. CASE \/ HandlerStarts(h) \/ FindGuild(h) \/ MakeGuild(h) \/ TranslationPanics(h)
      BY <3>1 DEF HandlerStarts, FindGuild, MakeGuild, TranslationPanics, Panic, history
    <3>2. CASE \/ StoreGuildChannels(h) \/ StoreGuildMembers(h) \/ StoreGuildRoles(h) \/ StoreEmojis(h)
               \/ StoreMember(h) \/ ForgetMember(h)
      BY <3>2 DEF StoreGuildChannels, StoreGuildMembers, StoreGuildRoles, StoreEmojis, StoreMember, ForgetMember,
         AfterWrite
    <3>3. CASE ChannelHandlers(h)
      BY <3>3 DEF ChannelHandlers, handleChannelCreateEvent, handleChannelUpdateEvent, handleChannelDeleteEvent,
         handleThreadCreateEvent, handleThreadUpdateEvent, handleThreadDeleteEvent, AfterWrite
    <3>4. CASE TrackChannel(h) \/ SelectChannel(h) \/ InsertChannel(h) \/ UpdateChannel(h)
      BY <3>4 DEF TrackChannel, SelectChannel, InsertChannel, UpdateChannel, NoWrite
    <3>5. CASE GetUser(h) \/ HasRole(h) \/ CacheUser(h) \/ CacheMember(h) \/ ChannelName(h)
      BY <3>5 DEF GetUser, HasRole, LookUp, CacheUser, CacheMember, ChannelName
    <3> QED  BY <2>5, <3>1, <3>2, <3>3, <3>4, <3>5 DEF HandlerStep, ChannelHandlers
  <2>6. UNCHANGED vars => UNCHANGED verdicts  BY DEF vars, history
  <2> QED  BY <1>2, <2>1, <2>2, <2>3, <2>4, <2>5, <2>6 DEF Next
<1> QED  BY <1>1, <1>2, CacheInvHolds, PTL DEF Spec
=============================================================================
