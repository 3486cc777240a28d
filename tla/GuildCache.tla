----------------------------- MODULE GuildCache -----------------------------
(***************************************************************************)
(* What the Discord driver knows of its guild (internal/accord): the       *)
(* members, channels, roles and emojis that events put into its caches,    *)
(* every event on a goroutine of its own and none under a lock, and who    *)
(* relies on them: the conversion of a message, the check that its author  *)
(* is an admin (internal/triggers/admin_role.go), and the rows that keep   *)
(* track of channels (internal/triggers/tracking/channels.go).             *)
(*                                                                         *)
(* Discord is external: it changes, sends its events in order, and answers *)
(* a request for a member.  A member is the roles they have, a channel its *)
(* kind and the number of its name.                                        *)
(***************************************************************************)
EXTENDS Integers, Sequences, FiniteSets, SequencesExt

CONSTANTS
  Handlers,      \* goroutines that may run at once
  Users, Channels, Roles,
  Kinds,         \* kinds of channels; "new" is one the driver does not know
  FirstChannels, \* Discord's channels at first
  MaxTurns,      \* bound: changes at Discord, and sessions after the first
  MaxMessages    \* bound: messages

Gone == {"none", "deleted"}
Emoji == "emoji"
Keys == Users \cup Channels \cup Roles \cup {Emoji}
Member == [in : BOOLEAN, roles : SUBSET Roles]
Channel == [kind : Kinds \cup Gone, name : 0 .. MaxTurns]
RoleNames == {"admin", "other", "none"}

Stranger == [in |-> FALSE, roles |-> {}]
NoChannel == [kind |-> "none", name |-> 0]

ASSUME GuildConstants ==
  /\ Kinds \subseteq {"text", "thread", "new"}
  /\ FirstChannels \in [Channels -> Channel]
  /\ MaxTurns \in Nat /\ MaxMessages \in Nat
  \* what is kept by its id is kept apart from what is not of its kind
  /\ Users \cap Channels = {} /\ Roles \cap (Users \cup Channels) = {}
  /\ Emoji \notin Users \cup Channels \cup Roles

VARIABLES
  members, channels, roles, emoji,   \* Discord's
  told,       \* the names of the roles when the session began
  online,
  sent,       \* events no goroutine has been started for
  up,         \* the process has not panicked
  guild,      \* the guild in d.guilds, by number; 0 for none
  caches,     \* every Guild that was ever made
  at, job,    \* where each goroutine is, with which event
  held,       \* and its locals
  rows,       \* channel_tracking
  done,       \* how many turns and messages there were
  keys,       \* history: what each goroutine may still write
  missed,     \* history: what changed without an event
  overlapped, \* history: what two goroutines worked on at once, the last time
  raced,      \* history: a guild was made twice
  announced,  \* history: channels created, with an event that was handled alone
  doubled,    \* history: channels looked up in vain or by two goroutines at once
  unsaved,    \* history: channels a statement failed for
  verdicts    \* history: what was made of messages

discord == <<members, channels, roles, emoji, told, online>>
cacheVars == <<guild, caches, raced>>
goroutines == <<at, job, held, keys>>
tracked == <<rows, announced, doubled, unsaved>>
history == <<missed, overlapped, verdicts>>
vars == <<discord, sent, up, cacheVars, goroutines, tracked, done, history>>

Unread == 0
Nil == -1
Idle == [guild |-> Unread, member |-> Stranger, truth |-> Stranger, sure |-> FALSE,
         channel |-> NoChannel]
EmptyGuild == [members |-> [u \in Users |-> Stranger], channels |-> [c \in Channels |-> NoChannel],
               roles |-> [r \in Roles |-> "none"], emoji |-> FALSE]

Live(c) == channels[c].kind \notin Gone
Event(type, key, value) == [type |-> type, key |-> key, value |-> value]

(* Without the intent for presences a guild comes with some of its members. *)
GuildCreate(known) ==
  Event("guild_create", "guild", [members |-> [u \in Users |-> IF u \in known THEN members[u] ELSE Stranger],
                             channels |-> [c \in Channels |-> IF Live(c) THEN channels[c] ELSE NoChannel],
                             roles |-> roles, emoji |-> emoji])
Present == {u \in Users : members[u].in}

(* The entries an event sets. *)
Touched(ev) ==
  CASE ev.type = "guild_create" ->
         Roles \cup (IF ev.value.emoji THEN {Emoji} ELSE {})
           \cup {u \in Users : ev.value.members[u].in}
           \cup {c \in Channels : ev.value.channels[c] # NoChannel}
    [] ev.type = "message" -> {}
    [] OTHER -> {ev.key}

Init ==
  /\ members = [u \in Users |-> [in |-> TRUE, roles |-> Roles]]
  /\ channels = FirstChannels
  /\ roles = [r \in Roles |-> "admin"] /\ told = roles
  /\ emoji \in BOOLEAN
  /\ online = TRUE /\ up = TRUE
  /\ \E known \in SUBSET Present : sent = <<GuildCreate(known)>>
  /\ guild = 0 /\ caches = <<>> /\ raced = FALSE
  /\ at = [h \in Handlers |-> "idle"] /\ job = [h \in Handlers |-> Event("none", "none", 0)]
  /\ held = [h \in Handlers |-> Idle] /\ keys = [h \in Handlers |-> {}]
  /\ rows = [c \in Channels |-> <<>>]
  /\ announced = {} /\ doubled = {} /\ unsaved = {}
  /\ done = [turns |-> 0, messages |-> 0]
  /\ missed = {} /\ overlapped = {} /\ verdicts = {}

-----------------------------------------------------------------------------
(***************************************************************************)
(* Discord (external)                                                      *)
(***************************************************************************)
Change(ev) ==
  /\ done.turns < MaxTurns /\ done' = [done EXCEPT !.turns = @ + 1]
  /\ sent' = IF online THEN Append(sent, ev) ELSE sent
  /\ missed' = IF online THEN missed ELSE missed \cup {ev.key}
  /\ UNCHANGED <<told, online, up, cacheVars, goroutines, tracked, overlapped, verdicts>>

MemberChanges ==
  \E u \in Users, now \in Member :
    /\ now # members[u] /\ (now.in \/ now = Stranger)
    /\ members' = [members EXCEPT ![u] = now]
    /\ Change(Event(CASE ~now.in -> "member_remove"
                      [] now.in /\ ~members[u].in -> "member_add"
                      [] OTHER -> "member_update", u, now))
    /\ UNCHANGED <<channels, roles, emoji>>

ChannelEvent(kind, type) ==
  [channel |-> [create |-> "channel_create", update |-> "channel_update", delete |-> "channel_delete"],
   thread |-> [create |-> "thread_create", update |-> "thread_update", delete |-> "thread_delete"]
  ][IF kind = "thread" THEN "thread" ELSE "channel"][type]

ChannelChanges ==
  \E c \in Channels :
    /\ \/ /\ channels[c].kind = "none"
          /\ \E k \in Kinds :
               /\ channels' = [channels EXCEPT ![c].kind = k]
               /\ Change(Event(ChannelEvent(k, "create"), c, channels'[c]))
       \/ /\ Live(c) /\ channels' = [channels EXCEPT ![c].name = @ + 1]
          /\ Change(Event(ChannelEvent(channels[c].kind, "update"), c, channels'[c]))
       \/ /\ Live(c) /\ channels' = [channels EXCEPT ![c].kind = "deleted"]
          /\ Change(Event(ChannelEvent(channels[c].kind, "delete"), c, channels[c]))
       \/ /\ channels[c].kind = "thread"      \* a thread is shown again
          /\ Change(Event("thread_create", c, channels[c])) /\ UNCHANGED channels
    /\ UNCHANGED <<members, roles, emoji>>

EmojisChange ==
  /\ emoji' = ~emoji /\ Change(Event("emojis_update", Emoji, ~emoji))
  /\ UNCHANGED <<members, channels, roles>>

(* There is no handler for a change of a role. *)
RoleRenamed ==
  /\ done.turns < MaxTurns /\ done' = [done EXCEPT !.turns = @ + 1]
  /\ \E r \in Roles : roles' = [roles EXCEPT ![r] = IF @ = "admin" THEN "other" ELSE "admin"]
  /\ UNCHANGED <<members, channels, emoji, told, online, sent, up, cacheVars, goroutines,
                 tracked, history>>

MessagePosted ==
  /\ done.messages < MaxMessages /\ online
  /\ done' = [done EXCEPT !.messages = @ + 1]
  /\ \E u \in Present, c \in Channels, mention \in Users \cup Channels \cup {"nobody"} :
       /\ Live(c) /\ sent' = Append(sent, Event("message", u, [channel |-> c, mention |-> mention]))
  /\ UNCHANGED <<discord, up, cacheVars, goroutines, tracked, history>>

ConnectionLost ==
  /\ online /\ up /\ done.turns < MaxTurns
  /\ online' = FALSE /\ sent' = <<>>
  /\ missed' = missed \cup UNION {Touched(sent[i]) : i \in DOMAIN sent}
  /\ UNCHANGED <<members, channels, roles, emoji, told, up, cacheVars, goroutines, tracked,
                 done, overlapped, verdicts>>

(* A new session begins with all of the guild: what is gone is not in it. *)
NewSession(known, stale) ==
  /\ done.turns < MaxTurns /\ done' = [done EXCEPT !.turns = @ + 1]
  /\ online' = TRUE /\ told' = roles
  /\ sent' = <<GuildCreate(known)>>
  /\ missed' = stale \ Touched(GuildCreate(known))
  /\ UNCHANGED <<members, channels, roles, emoji>>

Reconnect ==
  /\ ~online /\ up /\ \E known \in SUBSET Present : NewSession(known, missed)
  /\ UNCHANGED <<up, cacheVars, goroutines, tracked, overlapped, verdicts>>

Restart ==
  /\ ~up /\ up' = TRUE
  /\ \E known \in SUBSET Present : NewSession(known, {})
  /\ guild' = 0 /\ caches' = <<>> /\ raced' = FALSE
  /\ at' = [h \in Handlers |-> "idle"] /\ job' = [h \in Handlers |-> Event("none", "none", 0)]
  /\ held' = [h \in Handlers |-> Idle] /\ keys' = [h \in Handlers |-> {}]
  /\ overlapped' = {} /\ announced' = {}
  /\ UNCHANGED <<rows, doubled, unsaved, verdicts>>

-----------------------------------------------------------------------------
(***************************************************************************)
(* Goroutines                                                              *)
(***************************************************************************)
Shared(h, touched) == {k \in touched : \E g \in Handlers \ {h} : k \in keys[g]}

(* h is at work on more entries: what another goroutine is at work on too   *)
(* may be written in either order; what none is, is in order again.         *)
TakesUp(h, touched) ==
  /\ keys' = [keys EXCEPT ![h] = @ \cup touched]
  /\ overlapped' = (overlapped \ touched) \cup Shared(h, touched)

Finish(h) ==
  /\ at' = [at EXCEPT ![h] = "idle"] /\ held' = [held EXCEPT ![h] = Idle]
  /\ job' = [job EXCEPT ![h] = Event("none", "none", 0)] /\ keys' = [keys EXCEPT ![h] = {}]

Go(h, place) == at' = [at EXCEPT ![h] = place]
Panic ==
  /\ up' = FALSE /\ online' = FALSE /\ sent' = <<>>
  /\ UNCHANGED <<members, channels, roles, emoji, told, cacheVars, goroutines, tracked, done, history>>

IsCreate(ev) == ev.type \in {"channel_create", "thread_create"}
IsDelete(ev) == ev.type \in {"channel_delete", "thread_delete"}

FirstPlace(ev) ==
  CASE ev.type = "guild_create" -> "channels"
    [] ev.type = "message" -> IF ev.value.mention \in Users THEN "name"
                              ELSE IF ev.value.mention \in Channels THEN "channelname" ELSE "convert"
    [] ev.type = "emojis_update" -> "emojis"
    [] IsDelete(ev) \/ ev.type = "member_remove" -> "remove"
    [] OTHER -> "put"

(* registerHandlers: the library calls a handler on a new goroutine. *)
HandlerStarts(h) ==
  /\ up /\ at[h] = "idle" /\ sent # <<>>
  /\ LET ev == Head(sent)
         alone == Shared(h, Touched(ev)) = {}
         named == Channels \cap Touched(ev)
     IN /\ job' = [job EXCEPT ![h] = ev] /\ Go(h, FirstPlace(ev))
        /\ TakesUp(h, Touched(ev))
        /\ announced' = IF IsCreate(ev) /\ alone THEN announced \cup {ev.key}
                        ELSE announced \ Shared(h, named)
  /\ sent' = Tail(sent)
  /\ UNCHANGED <<discord, up, cacheVars, held, rows, doubled, unsaved, done, missed, verdicts>>

(* What uses a guild gets or makes it first. *)
NeedsGuild == {"channels", "put", "remove", "emojis", "name", "role"}
Ready(h, place) == up /\ at[h] = place /\ (place \in NeedsGuild => held[h].guild > 0)

FindGuild(h) ==
  /\ up /\ at[h] \in NeedsGuild /\ held[h].guild = Unread
  /\ held' = [held EXCEPT ![h].guild = IF guild = 0 THEN Nil ELSE guild]
  /\ UNCHANGED <<discord, sent, up, cacheVars, at, job, keys, tracked, done, history>>

MakeGuild(h) ==
  /\ up /\ held[h].guild = Nil
  /\ caches' = Append(caches, EmptyGuild) /\ guild' = Len(caches')
  /\ raced' = (raced \/ guild # 0)
  /\ held' = [held EXCEPT ![h].guild = Len(caches')]
  /\ UNCHANGED <<discord, sent, up, at, job, keys, tracked, done, history>>

Mine(h) == caches[held[h].guild]
Write(h, value) == caches' = [caches EXCEPT ![held[h].guild] = value]
AfterWrite(h) ==
  UNCHANGED <<discord, sent, up, guild, raced, tracked, done, missed, overlapped, verdicts>>

Key(h) == job[h].key

-----------------------------------------------------------------------------
(***************************************************************************)
(* handleGuildCreateEvent: what the guild comes with is added.             *)
(***************************************************************************)
Merged(old, new, nothing) == [k \in DOMAIN old |-> IF new[k] = nothing THEN old[k] ELSE new[k]]

StoreGuildChannels(h) ==
  /\ Ready(h, "channels")
  /\ Write(h, [Mine(h) EXCEPT !.channels = Merged(@, job[h].value.channels, NoChannel)])
  /\ Go(h, "members") /\ UNCHANGED <<job, held, keys>> /\ AfterWrite(h)

StoreGuildMembers(h) ==
  /\ up /\ at[h] = "members"
  /\ Write(h, [Mine(h) EXCEPT !.members = Merged(@, job[h].value.members, Stranger)])
  /\ Go(h, "roles") /\ UNCHANGED <<job, held, keys>> /\ AfterWrite(h)

StoreGuildRoles(h) ==
  /\ up /\ at[h] = "roles"
  /\ Write(h, [Mine(h) EXCEPT !.roles = job[h].value.roles, !.emoji = @ \/ job[h].value.emoji])
  /\ Finish(h) /\ AfterWrite(h)

(* handleGuildEmojisUpdate makes the map anew. *)
StoreEmojis(h) ==
  /\ Ready(h, "emojis")
  /\ Write(h, [Mine(h) EXCEPT !.emoji = job[h].value])
  /\ Finish(h) /\ AfterWrite(h)

-----------------------------------------------------------------------------
(***************************************************************************)
(* Members and channels                                                    *)
(***************************************************************************)
StoreMember(h) ==
  /\ Ready(h, "put") /\ job[h].type \in {"member_add", "member_update"}
  /\ Write(h, [Mine(h) EXCEPT !.members[Key(h)] = job[h].value])
  /\ Finish(h) /\ AfterWrite(h)

ForgetMember(h) ==
  /\ Ready(h, "remove") /\ job[h].type = "member_remove"
  /\ Write(h, [Mine(h) EXCEPT !.members[Key(h)] = Stranger])
  /\ Finish(h) /\ AfterWrite(h)

PutChannel(h) == Write(h, [Mine(h) EXCEPT !.channels[Key(h)] = job[h].value])
DropChannel(h) == Write(h, [Mine(h) EXCEPT !.channels[Key(h)] = NoChannel])
RaiseEvent(h) == Go(h, "event") /\ UNCHANGED <<job, held, keys>>

handleChannelCreateEvent(h) ==
  Ready(h, "put") /\ job[h].type = "channel_create" /\ PutChannel(h) /\ RaiseEvent(h) /\ AfterWrite(h)
handleChannelUpdateEvent(h) ==
  Ready(h, "put") /\ job[h].type = "channel_update" /\ PutChannel(h) /\ Finish(h) /\ AfterWrite(h)
KeepChannel(h) ==   \* mutant: the channel stays in the cache
  Ready(h, "remove") /\ job[h].type = "channel_delete" /\ UNCHANGED caches /\ RaiseEvent(h) /\ AfterWrite(h)
handleChannelDeleteEvent(h) ==
  Ready(h, "remove") /\ job[h].type = "channel_delete" /\ DropChannel(h) /\ RaiseEvent(h) /\ AfterWrite(h)
handleThreadCreateEvent(h) ==
  Ready(h, "put") /\ job[h].type = "thread_create" /\ PutChannel(h) /\ RaiseEvent(h) /\ AfterWrite(h)
handleThreadUpdateEvent(h) ==
  Ready(h, "put") /\ job[h].type = "thread_update" /\ PutChannel(h) /\ Finish(h) /\ AfterWrite(h)
handleThreadDeleteEvent(h) ==
  Ready(h, "remove") /\ job[h].type = "thread_delete" /\ DropChannel(h) /\ RaiseEvent(h) /\ AfterWrite(h)

-----------------------------------------------------------------------------
(***************************************************************************)
(* trackChannelFromEvent: GetChannel translates every channel it knows,    *)
(* and there is no translation for a kind that is new.                     *)
(***************************************************************************)
Cache == IF guild = 0 THEN EmptyGuild ELSE caches[guild]
Known(c) == Cache.channels[c]
Untranslatable == \E c \in Channels : Known(c).kind = "new"
NoWrite == UNCHANGED <<discord, sent, up, cacheVars, done, missed, verdicts>>

TranslationPanics(h) ==
  /\ up /\ at[h] \in {"event", "channelname"} /\ Untranslatable
  /\ Panic

TrackChannel(h) ==
  /\ up /\ at[h] = "event" /\ ~Untranslatable
  /\ IF Known(Key(h)).kind = "none" THEN Finish(h)
     ELSE /\ held' = [held EXCEPT ![h].channel = Known(Key(h))]
          /\ Go(h, "select") /\ UNCHANGED <<job, keys>>
  /\ UNCHANGED <<tracked, overlapped>> /\ NoWrite

(* StoreChannel takes any error of the query for a channel without a row. *)
SelectChannel(h) ==
  /\ up /\ at[h] = "select"
  /\ \E fails \in BOOLEAN :
       LET c == Key(h)
           others == {g \in Handlers \ {h} : at[g] = "insert" /\ Key(g) = c}
       IN /\ Go(h, IF fails \/ rows[c] = <<>> THEN "insert" ELSE "update")
          /\ doubled' = IF fails \/ others # {} THEN doubled \cup {c} ELSE doubled
  /\ UNCHANGED <<job, held, keys, rows, announced, unsaved, overlapped>> /\ NoWrite

InsertChannel(h) ==
  /\ up /\ at[h] = "insert"
  /\ \/ rows' = [rows EXCEPT ![Key(h)] = Append(@, held[h].channel)] /\ UNCHANGED unsaved
     \/ unsaved' = unsaved \cup {Key(h)} /\ UNCHANGED rows
  /\ Finish(h) /\ UNCHANGED <<announced, doubled, overlapped>> /\ NoWrite

UpdateChannel(h) ==
  /\ up /\ at[h] = "update"
  /\ \/ /\ rows' = [rows EXCEPT ![Key(h)] = [i \in DOMAIN @ |-> held[h].channel]]
        /\ UNCHANGED unsaved
     \/ unsaved' = unsaved \cup {Key(h)} /\ UNCHANGED rows
  /\ Finish(h) /\ UNCHANGED <<announced, doubled, overlapped>> /\ NoWrite

-----------------------------------------------------------------------------
(***************************************************************************)
(* A message: the names of whom it mentions, its channel, and whether its  *)
(* author is an admin.                                                     *)
(***************************************************************************)
(* The entry is as Discord last said, and nothing that concerns it is under *)
(* way, on these goroutines.                                                *)
AtRest(k, handlers) ==
  /\ up /\ online /\ ~raced /\ k \notin missed \cup overlapped
  /\ \A i \in DOMAIN sent : k \notin Touched(sent[i])
  /\ \A g \in handlers : k \notin keys[g]
Settled(k, h) == AtRest(k, Handlers \ {h})
Quiet(k) == AtRest(k, Handlers)

MessageStep == UNCHANGED <<discord, sent, up, guild, raced, tracked, done, missed>>

(* GetUser and HasRole: a member who is not in the cache is asked for, and  *)
(* the answer is put into the cache later.                                  *)
LookUp(h, user, place, next, failed) ==
  /\ Ready(h, place)
  /\ \/ /\ Mine(h).members[user].in
        /\ held' = [held EXCEPT ![h].member = Mine(h).members[user], ![h].truth = members[user],
                                ![h].sure = Settled(user, h)]
        /\ Go(h, next) /\ UNCHANGED <<keys, overlapped>>
     \/ /\ ~Mine(h).members[user].in /\ members[user].in
        /\ held' = [held EXCEPT ![h].member = members[user], ![h].truth = members[user],
                                ![h].sure = TRUE]
        /\ Go(h, IF place = "name" THEN "storename" ELSE "storerole") /\ TakesUp(h, {user})
     \/ /\ ~Mine(h).members[user].in
        /\ held' = [held EXCEPT ![h].member = Stranger, ![h].truth = members[user],
                                ![h].sure = Settled(user, h) /\ ~members[user].in]
        /\ Go(h, failed) /\ UNCHANGED <<keys, overlapped>>
  /\ UNCHANGED <<job, caches, verdicts>> /\ MessageStep

Mention(h) == job[h].value.mention

GetUser(h) == at[h] = "name" /\ LookUp(h, Mention(h), "name", "convert", "convert")
HasRole(h) == at[h] = "role" /\ LookUp(h, Key(h), "role", "decide", "decide")

CacheAnswer(h, user) == Write(h, [Mine(h) EXCEPT !.members[user] = held[h].member])

CacheUser(h) ==
  /\ up /\ at[h] = "storename"
  /\ CacheAnswer(h, Mention(h))
  /\ Go(h, "convert") /\ keys' = [keys EXCEPT ![h] = {}]
  /\ UNCHANGED <<job, held, overlapped, verdicts>> /\ MessageStep

CacheMember(h) ==
  /\ up /\ at[h] = "storerole"
  /\ CacheAnswer(h, Key(h))
  /\ Go(h, "decide") /\ keys' = [keys EXCEPT ![h] = {}]
  /\ UNCHANGED <<job, held, overlapped, verdicts>> /\ MessageStep

ChannelName(h) ==
  /\ up /\ at[h] = "channelname" /\ ~Untranslatable
  /\ Go(h, "convert")
  /\ UNCHANGED <<job, held, keys, caches, overlapped, verdicts>> /\ MessageStep

(* Whether something was sure, what was said of it, and what was so. *)
Verdict(sure, said, right) == [sure |-> sure, said |-> said, right |-> right]

(* convertMessageCreate: a message of a channel it does not know is dropped. *)
ConvertMessage(h) ==
  /\ up /\ at[h] = "convert"
  /\ LET c == job[h].value.channel  known == Known(c).kind # "none"
     IN /\ verdicts' = verdicts \cup {Verdict(Settled(c, h), known, Live(c))}
        /\ IF known THEN /\ Go(h, "role") /\ held' = [held EXCEPT ![h] = Idle]
                         /\ UNCHANGED <<job, keys>>
           ELSE Finish(h)
  /\ UNCHANGED <<caches, overlapped>> /\ MessageStep

DecideByAnyRole(h) ==   \* mutant: a role whose name is not known counts
  /\ up /\ at[h] = "decide"
  /\ verdicts' = verdicts \cup
       {Verdict(held[h].sure /\ \A r \in Roles : Settled(r, h),
                \E r \in held[h].member.roles : Mine(h).roles[r] # "none",
                held[h].truth.in /\ \E r \in held[h].truth.roles : told[r] = "admin")}
  /\ Finish(h) /\ UNCHANGED <<caches, overlapped>> /\ MessageStep

Decide(h) ==
  /\ up /\ at[h] = "decide"
  /\ verdicts' = verdicts \cup
       {Verdict(held[h].sure /\ \A r \in Roles : Settled(r, h),
                \E r \in held[h].member.roles : Mine(h).roles[r] = "admin",
                held[h].truth.in /\ \E r \in held[h].truth.roles : told[r] = "admin")}
  /\ Finish(h) /\ UNCHANGED <<caches, overlapped>> /\ MessageStep

-----------------------------------------------------------------------------
DiscordStep ==
  \/ MemberChanges \/ ChannelChanges \/ EmojisChange \/ RoleRenamed \/ MessagePosted
  \/ ConnectionLost \/ Reconnect \/ Restart

HandlerStep(h) ==
  \/ HandlerStarts(h) \/ FindGuild(h) \/ MakeGuild(h)
  \/ StoreGuildChannels(h) \/ StoreGuildMembers(h) \/ StoreGuildRoles(h) \/ StoreEmojis(h)
  \/ StoreMember(h) \/ ForgetMember(h)
  \/ handleChannelCreateEvent(h) \/ handleChannelUpdateEvent(h) \/ handleChannelDeleteEvent(h)
  \/ handleThreadCreateEvent(h) \/ handleThreadUpdateEvent(h) \/ handleThreadDeleteEvent(h)
  \/ TranslationPanics(h) \/ TrackChannel(h) \/ SelectChannel(h) \/ InsertChannel(h) \/ UpdateChannel(h)
  \/ GetUser(h) \/ HasRole(h) \/ CacheUser(h) \/ CacheMember(h) \/ ChannelName(h)
  \/ ConvertMessage(h) \/ Decide(h)

Next == DiscordStep \/ \E h \in Handlers : HandlerStep(h)
Spec == Init /\ [][Next]_vars

-----------------------------------------------------------------------------
(***************************************************************************)
(* Correctness                                                             *)
(***************************************************************************)
(* A channel has one row, unless a query failed or two goroutines stored it *)
(* at once, and one that is created gets it (StoreChannel).                 *)
TrackedOnce ==
  \A c \in Channels :
    /\ Len(rows[c]) > 1 => c \in doubled
    /\ c \in announced /\ up /\ ~raced /\ (\A h \in Handlers : c \notin keys[h])
         => rows[c] # <<>> \/ c \in unsaved

(* The caches and the table of channels are as Discord is, but for what      *)
(* changed while there was no connection, what two goroutines were at work   *)
(* on at once, and everything if two of them made the guild (the handlers of *)
(* the driver; the names of roles are those of the last session).            *)
CacheFollowsDiscord ==
  /\ TrackedOnce
  /\ \A u \in Users : Quiet(u) /\ Cache.members[u].in => Cache.members[u] = members[u]
  /\ \A c \in Channels : Quiet(c) => Known(c) = IF Live(c) THEN channels[c] ELSE NoChannel
  /\ \A r \in Roles : Quiet(r) => Cache.roles[r] = told[r]
  /\ Quiet(Emoji) => Cache.emoji = emoji

(* So no message is dropped whose channel exists, and only admins are taken *)
(* for admins, when nothing about it is under way (convertMessageCreate,    *)
(* HasRole).                                                                *)
AnswersFollowDiscord == \A v \in verdicts : v.sure => v.said = v.right
=============================================================================
