--------------------------- MODULE MessageRecords ---------------------------
(***************************************************************************)
(* What the bot keeps of messages and their authors besides the texts: the *)
(* backlog of the service (library/core2/incoming_message_handler.go), one *)
(* row per user with their name and the number of their messages           *)
(* (internal/db/user_tracking.go), and whom an admin blocks by name        *)
(* (internal/triggers/blocklist.go).  Every message is handled on a        *)
(* goroutine of its own; neither the backlog nor the rows are locked.  The *)
(* message in a goroutine's hands is the one the shared group gave it,     *)
(* which with overlapping messages may be another's (MessagePipeline).     *)
(*                                                                         *)
(* The driver keeps the members it knows, with the names they had when an  *)
(* event or an answer last brought them: a name may be out of date, or     *)
(* stay so when two of them come in the wrong order.                       *)
(*                                                                         *)
(* What a block does to stored messages is in RawMessages, the rest of the *)
(* driver's cache in GuildCache.                                           *)
(***************************************************************************)
EXTENDS Integers, Sequences, FiniteSets, SequencesExt

CONSTANTS
  Goroutines,
  Users, Admins, Nicks,
  Renamers,      \* bound: the users who change their nick
  Nobody,
  Limit,         \* the backlog is cut at this length: 100
  MaxMessages,   \* bound: messages and edits
  MaxCommands,   \* bound: commands among them
  MaxRenames     \* bound: changes of a nick

ASSUME RecordsConstants ==
  /\ IsFiniteSet(Users) /\ Admins \cup Renamers \subseteq Users /\ Nobody \notin Users \cup Nicks
  /\ Limit \in Nat \ {0, 1} /\ MaxMessages \in Nat
  /\ MaxCommands \in Nat /\ MaxRenames \in Nat

VARIABLES
  nick,       \* the names of the users at Discord
  cached,     \* the names in the driver's cache; Nobody for a user it lacks
  updates,    \* events of renames that are not in the cache yet
  up,
  backlog,
  rows,       \* user_tracking_new
  at, job,    \* where each goroutine is, with which message
  held,       \* its locals
  sent,       \* how many messages, commands and renames there were
  log,        \* history: all messages, as last edited, with their authors
  tangled,    \* history: two goroutines were at work on the backlog at once
  spoken,     \* history: what should be in the rows
  muddled,    \* history: users two goroutines recorded at once, or not at all
  had,        \* history: the names each user has had
  unsure      \* history: users whose name was last brought twice at once, or not

names == <<nick, cached, updates, had, unsure>>
vars == <<names, up, backlog, rows, at, job, held, sent, log, tangled, spoken,
          muddled>>

NoRow == [nick |-> Nobody, count |-> 0]
Row == [nick : Nicks \cup {Nobody}, count : Nat]
Entry == [id : Nat, edit : Nat]
Logged == [entry : Entry, user : Users]
Job == [id : Nat, edit : Nat, user : Users \cup {Nobody}, block : Nicks \cup {Nobody}]
Local == [backlog : Seq(Entry), k : Nat, nick : Nicks \cup {Nobody}, row : Row,
          sure : SUBSET Users, doubt : SUBSET Users, target : Users \cup {Nobody}, spoke : BOOLEAN]
NoJob == [id |-> 0, edit |-> 0, user |-> Nobody, block |-> Nobody]
Locals == [backlog |-> <<>>, k |-> 0, nick |-> Nobody, row |-> NoRow,
           sure |-> {}, doubt |-> {}, target |-> Nobody, spoke |-> FALSE]

Init ==
  /\ nick \in [Users -> Nicks] /\ had = [u \in Users |-> {nick[u]}]
  /\ \E known \in SUBSET Users : cached = [u \in Users |-> IF u \in known THEN nick[u] ELSE Nobody]
  /\ updates = {} /\ unsure = {}
  /\ up = TRUE /\ backlog = <<>> /\ rows = [u \in Users |-> NoRow]
  /\ at = [g \in Goroutines |-> "idle"] /\ job = [g \in Goroutines |-> NoJob]
  /\ held = [g \in Goroutines |-> Locals]
  /\ sent = [messages |-> 0, commands |-> 0, renames |-> 0]
  /\ log = <<>> /\ tangled = FALSE
  /\ spoken = [u \in Users |-> NoRow] /\ muddled = {}

Go(g, place) == at' = [at EXCEPT ![g] = place]
Is(g, place) == up /\ at[g] = place
Mine(g) == [id |-> job[g].id, edit |-> job[g].edit]

-----------------------------------------------------------------------------
(***************************************************************************)
(* Discord (external): users rename themselves, write and edit messages;   *)
(* a message may be an admin's command to block a name.                    *)
(***************************************************************************)
Writing(u) ==
  \/ \E e \in updates : e.user = u
  \/ \E g \in Goroutines : at[g] = "answer" /\ job[g].user = u

(* A name is on its way to the cache.  With another on its way either may   *)
(* come last; with none the cache will be up to date again.                *)
Brings(u) == unsure' = IF Writing(u) THEN unsure \cup {u} ELSE unsure \ {u}

(* The event of a rename may be missed: the connection was lost. *)
Rename ==
  /\ up /\ sent.renames < MaxRenames /\ sent' = [sent EXCEPT !.renames = @ + 1]
  /\ \E u \in Renamers, n \in Nicks :
       /\ n # nick[u] /\ nick' = [nick EXCEPT ![u] = n] /\ had' = [had EXCEPT ![u] = @ \cup {n}]
       /\ \/ updates' = updates \cup {[user |-> u, nick |-> n, no |-> sent'.renames]} /\ Brings(u)
          \/ unsure' = unsure \cup {u} /\ UNCHANGED updates
  /\ UNCHANGED <<cached, up, backlog, rows, at, job, held, log, tangled, spoken,
                 muddled>>

(* handleGuildMemberUpdateEvent, on a goroutine of its own for each event.  *)
StoreName ==
  /\ up
  /\ \E e \in updates :
       cached' = [cached EXCEPT ![e.user] = e.nick] /\ updates' = updates \ {e}
  /\ UNCHANGED <<nick, had, unsure, up, backlog, rows, at, job, held, sent, log, tangled,
                 spoken, muddled>>

AtBacklog == {"append", "write", "check", "cut", "trim", "find", "replace"}

Arrives(g, message, place, newLog) ==
  /\ up /\ at[g] = "idle" /\ sent.messages < MaxMessages
  /\ sent' = [sent EXCEPT !.messages = @ + 1,
                        !.commands = IF message.block = Nobody THEN @ ELSE @ + 1]
  /\ job' = [job EXCEPT ![g] = message] /\ Go(g, place)
  /\ log' = newLog
  /\ tangled' = (tangled \/ \E o \in Goroutines \ {g} : at[o] \in AtBacklog)

Commands(u) ==
  {Nobody} \cup (IF u \in Admins /\ sent.commands < MaxCommands THEN Nicks ELSE {})

MessageArrives(g) ==
  /\ \E u \in Users : \E b \in Commands(u) :
       LET id == sent.messages + 1
       IN Arrives(g, [id |-> id, edit |-> 0, user |-> u, block |-> b], "append",
                  Append(log, [entry |-> [id |-> id, edit |-> 0], user |-> u]))
  /\ UNCHANGED <<names, up, backlog, rows, held, spoken, muddled>>

(* The text of an edit that comes without an author is not a command. *)
EditArrives(g) ==
  /\ \E i \in DOMAIN log : \E u \in {log[i].user, Nobody} :
       LET edited == [id |-> log[i].entry.id, edit |-> sent.messages + 1]
       IN Arrives(g, [id |-> edited.id, edit |-> edited.edit, user |-> u, block |-> Nobody], "find",
                  [log EXCEPT ![i].entry = edited])
  /\ held' = [held EXCEPT ![g].k = Len(backlog)]
  /\ UNCHANGED <<names, up, backlog, rows, spoken, muddled>>

-----------------------------------------------------------------------------
(***************************************************************************)
(* HandleIncomingMessage                                                   *)
(***************************************************************************)
Backlogging(g) ==
  UNCHANGED <<names, rows, job, sent, log, tangled, spoken, muddled>>

ReadBacklog(g, place, next) ==
  /\ Is(g, place) /\ held' = [held EXCEPT ![g].backlog = backlog] /\ Go(g, next)
  /\ UNCHANGED <<up, backlog>> /\ Backlogging(g)

AppendReads(g) == ReadBacklog(g, "append", "write")

(* A slice is a length and an array that others may have, too: messages may *)
(* have been replaced in it since, and two appends that overlap write to    *)
(* the same place.                                                          *)
Slices(g) ==
  LET old == held[g].backlog
      Now(i) == {j \in DOMAIN backlog : backlog[j].id = old[i].id}
  IN {old, [i \in DOMAIN old |-> IF Now(i) = {} THEN old[i] ELSE backlog[CHOOSE j \in Now(i) : TRUE]]}

AppendWrites(g) ==
  /\ Is(g, "write")
  /\ \E slice \in Slices(g) :
       \E last \in {Mine(g)} \cup {backlog[i] : i \in {Len(slice) + 1} \cap DOMAIN backlog} :
         backlog' = Append(slice, last)
  /\ held' = [held EXCEPT ![g].backlog = <<>>] /\ Go(g, "check")
  /\ UNCHANGED up /\ Backlogging(g)

CheckLengthAtMost(g) ==   \* mutant: the backlog may grow to the limit
  /\ Is(g, "check")
  /\ Go(g, IF Len(backlog) > Limit THEN "cut" ELSE "handle")
  /\ UNCHANGED <<held, up, backlog>> /\ Backlogging(g)

CheckLength(g) ==
  /\ Is(g, "check")
  /\ Go(g, IF Len(backlog) >= Limit THEN "cut" ELSE "handle")
  /\ UNCHANGED <<held, up, backlog>> /\ Backlogging(g)

CutReads(g) == ReadBacklog(g, "cut", "trim")

CutWrites(g) ==
  /\ Is(g, "trim")
  /\ IF held[g].backlog = <<>> THEN up' = FALSE /\ UNCHANGED <<backlog, held, at>>
     ELSE /\ \E slice \in Slices(g) : backlog' = Tail(slice)
          /\ Go(g, "handle")
          /\ held' = [held EXCEPT ![g].backlog = <<>>] /\ UNCHANGED up
  /\ Backlogging(g)

(* The loop looks for the message from the newest back.  Its index was the  *)
(* last when it began.                                                      *)
FindMessage(g) ==
  /\ Is(g, "find")
  /\ LET k == held[g].k
     IN IF k = 0 THEN Go(g, "handle") /\ UNCHANGED <<held, up>>
        ELSE IF k > Len(backlog) THEN up' = FALSE /\ UNCHANGED <<held, at>>
        ELSE IF backlog[k].id = job[g].id THEN Go(g, "replace") /\ UNCHANGED <<held, up>>
        ELSE held' = [held EXCEPT ![g].k = k - 1] /\ UNCHANGED <<at, up>>
  /\ UNCHANGED backlog /\ Backlogging(g)

ReplaceMessage(g) ==
  /\ Is(g, "replace")
  /\ LET k == held[g].k
     IN IF k > Len(backlog) THEN up' = FALSE /\ UNCHANGED <<backlog, held, at>>
        ELSE /\ backlog' = [backlog EXCEPT ![k] = Mine(g)] /\ Go(g, "handle")
             /\ held' = [held EXCEPT ![g].k = 0] /\ UNCHANGED up
  /\ Backlogging(g)

-----------------------------------------------------------------------------
(***************************************************************************)
(* userTrackingHandler and UpsertLastSeen: the row is read, and written    *)
(* back with the count it had.                                             *)
(***************************************************************************)
Recording(g) == at[g] \in {"select", "insert", "update"}
Tracking == UNCHANGED <<nick, updates, had, up, backlog, sent, log, tangled>>

Done(g) ==
  /\ Go(g, "idle") /\ job' = [job EXCEPT ![g] = NoJob] /\ held' = [held EXCEPT ![g] = Locals]
Leave(g) ==
  IF job[g].block \in Nicks THEN /\ Go(g, "resolve") /\ held' = [held EXCEPT ![g] = Locals]
                                /\ UNCHANGED job
  ELSE Done(g)

NoAuthor(g) ==
  /\ Is(g, "handle") /\ job[g].user = Nobody
  /\ Leave(g) /\ UNCHANGED <<cached, unsure, rows, spoken, muddled>> /\ Tracking

Muddles(g) ==
  LET others == {o \in Goroutines \ {g} : Recording(o) /\ job[o].user = job[g].user}
  IN muddled' = IF others = {} THEN muddled ELSE muddled \cup {job[g].user}

(* GetUser, of a user in the cache. *)
KnowAuthor(g) ==
  /\ Is(g, "handle") /\ job[g].user # Nobody
  /\ cached[job[g].user] # Nobody
  /\ Go(g, "select") /\ held' = [held EXCEPT ![g].nick = cached[job[g].user]] /\ Muddles(g)
  /\ UNCHANGED <<cached, unsure, job, rows, spoken>> /\ Tracking

(* Of another Discord is asked, and may not answer; then the message is not *)
(* counted.                                                                *)
AskForAuthor(g) ==
  /\ Is(g, "handle") /\ job[g].user # Nobody
  /\ LET u == job[g].user
     IN /\ cached[u] = Nobody
        /\ \/ /\ Go(g, "answer") /\ held' = [held EXCEPT ![g].nick = nick[u]]
              /\ Brings(u) /\ UNCHANGED job
           \/ Leave(g) /\ UNCHANGED unsure
  /\ UNCHANGED <<cached, rows, spoken, muddled>> /\ Tracking

StoreAuthor(g) ==
  /\ Is(g, "answer") /\ cached' = [cached EXCEPT ![job[g].user] = held[g].nick]
  /\ Go(g, "select") /\ Muddles(g)
  /\ UNCHANGED <<unsure, job, held, rows, spoken>> /\ Tracking

(* Any error is taken for a user without a row. *)
SelectUser(g) ==
  /\ Is(g, "select")
  /\ LET u == job[g].user
     IN \/ rows[u] # NoRow /\ Go(g, "update") /\ held' = [held EXCEPT ![g].row = rows[u]]
        \/ Go(g, "insert") /\ UNCHANGED held
  /\ UNCHANGED <<cached, unsure, job, rows, spoken, muddled>> /\ Tracking

Recorded(g) == [spoken EXCEPT ![job[g].user] = [nick |-> held[g].nick, count |-> @.count + 1]]
Fails(g) == muddled' = muddled \cup {job[g].user} /\ UNCHANGED rows

(* A second row for a user violates the primary key. *)
InsertUser(g) ==
  /\ Is(g, "insert")
  /\ LET u == job[g].user
     IN \/ /\ rows[u] = NoRow /\ rows' = [rows EXCEPT ![u] = [nick |-> held[g].nick, count |-> 1]]
           /\ UNCHANGED muddled
        \/ Fails(g)
  /\ spoken' = Recorded(g) /\ Leave(g) /\ UNCHANGED <<cached, unsure>> /\ Tracking

UpdateUserKeepingNick(g) ==   \* mutant: the name is not updated
  /\ Is(g, "update")
  /\ \/ /\ rows' = [rows EXCEPT ![job[g].user] = [held[g].row EXCEPT !.count = @ + 1]]
        /\ UNCHANGED muddled
     \/ Fails(g)
  /\ spoken' = Recorded(g) /\ Leave(g) /\ UNCHANGED <<cached, unsure>> /\ Tracking

UpdateUser(g) ==
  /\ Is(g, "update")
  /\ \/ /\ rows' = [rows EXCEPT ![job[g].user] = [nick |-> held[g].nick, count |-> held[g].row.count + 1]]
        /\ UNCHANGED muddled
     \/ Fails(g)
  /\ spoken' = Recorded(g) /\ Leave(g) /\ UNCHANGED <<cached, unsure>> /\ Tracking

-----------------------------------------------------------------------------
(***************************************************************************)
(* blocklistHandler: a name is looked for among the members in the cache,  *)
(* and if there is not exactly one, among the rows.                        *)
(***************************************************************************)
Blocking == UNCHANGED <<names, up, backlog, rows, sent, log, tangled, spoken, muddled>>
Wanted(g) == job[g].block
Named(n) == {u \in Users : cached[u] = n}

(* What can be known of a name: whose it surely is, of the members in the   *)
(* cache, and whose it may or may not be.                                  *)
InDoubt(u) == u \in unsure \/ Writing(u)
Sure(n) == {u \in Users : cached[u] # Nobody /\ nick[u] = n /\ ~InDoubt(u)}
Doubted(n) == {u \in Users : cached[u] # Nobody /\ n \in {nick[u], cached[u]} /\ InDoubt(u)}

ByMember(g, u) ==
  /\ Go(g, "block") /\ UNCHANGED job
  /\ held' = [held EXCEPT ![g].target = u,
                         ![g].sure = Sure(Wanted(g)), ![g].doubt = Doubted(Wanted(g))]
NotOne(g) ==
  /\ Go(g, "lookup") /\ UNCHANGED job
  /\ held' = [held EXCEPT ![g].sure = Sure(Wanted(g)), ![g].doubt = Doubted(Wanted(g))]

FindNamed(g) ==   \* mutant: the first of several members is taken
  /\ Is(g, "resolve")
  /\ LET named == Named(Wanted(g))
     IN IF named # {} THEN \E u \in named : ByMember(g, u) ELSE NotOne(g)
  /\ Blocking

resolveUserByNickFromCache(g) ==
  /\ Is(g, "resolve")
  /\ LET named == Named(Wanted(g))
     IN IF Cardinality(named) = 1 THEN \E u \in named : ByMember(g, u) ELSE NotOne(g)
  /\ Blocking

(* GetLastSeen, after an error of any kind: for lack of a member of that    *)
(* name, or for too many.                                                  *)
GetLastSeen(g) ==
  /\ Is(g, "lookup")
  /\ \/ \E u \in Users :
          /\ rows[u].nick = Wanted(g) /\ Go(g, "blockRow") /\ UNCHANGED job
          /\ held' = [held EXCEPT ![g].target = u,
                                 ![g].spoke = spoken[u].nick = Wanted(g) \/ u \in muddled]
     \/ Done(g)    \* none, or an error
  /\ Blocking

(* What blocks the user is in RawMessages. *)
Block(g) == up /\ at[g] \in {"block", "blockRow"} /\ Done(g) /\ Blocking

-----------------------------------------------------------------------------
Step(g) ==
  \/ MessageArrives(g) \/ EditArrives(g)
  \/ AppendReads(g) \/ AppendWrites(g) \/ CheckLength(g) \/ CutReads(g) \/ CutWrites(g)
  \/ FindMessage(g) \/ ReplaceMessage(g)
  \/ NoAuthor(g) \/ KnowAuthor(g) \/ AskForAuthor(g) \/ StoreAuthor(g)
  \/ SelectUser(g) \/ InsertUser(g) \/ UpdateUser(g)
  \/ resolveUserByNickFromCache(g) \/ GetLastSeen(g) \/ Block(g)
Next == Rename \/ StoreName \/ \E g \in Goroutines : Step(g)
Spec == Init /\ [][Next]_vars

-----------------------------------------------------------------------------
(***************************************************************************)
(* Correctness                                                             *)
(***************************************************************************)
Places == {"idle", "handle", "answer", "select", "insert", "update", "resolve", "lookup",
           "block", "blockRow"} \cup AtBacklog
Update == [user : Users, nick : Nicks, no : Nat]

RecordsTypeOK ==
  /\ nick \in [Users -> Nicks] /\ cached \in [Users -> Nicks \cup {Nobody}]
  /\ updates \subseteq Update /\ had \in [Users -> SUBSET Nicks]
  /\ unsure \subseteq Users /\ muddled \subseteq Users
  /\ backlog \in Seq(Entry) /\ log \in Seq(Logged)
  /\ rows \in [Users -> Row] /\ spoken \in [Users -> Row]
  /\ at \in [Goroutines -> Places] /\ job \in [Goroutines -> Job]
  /\ held \in [Goroutines -> Local]
  /\ sent \in [messages : Nat, commands : Nat, renames : Nat]

(* The backlog holds the latest messages but one short of its limit, as     *)
(* last edited, is never longer than the limit, and no index is out of its  *)
(* range, unless two goroutines were at work on it at once; then it may     *)
(* lose messages, and stay too long (HandleIncomingMessage).                *)
Least(a, b) == IF a < b THEN a ELSE b
Latest == LET n == Least(Len(log), Limit - 1)
          IN [i \in 1 .. n |-> log[Len(log) - n + i].entry]
BacklogHoldsTheLatest ==
  ~tangled => /\ up /\ Len(backlog) <= Limit
              /\ (\A g \in Goroutines : at[g] \notin AtBacklog) => backlog = Latest

(* A row counts the messages and edits of its user that were recorded, and  *)
(* has the name under which the bot knew the author of the last one, unless *)
(* two of them were recorded at once or a statement failed; it never counts *)
(* more.  A message whose author nobody told the bot is not recorded        *)
(* (UpsertLastSeen).                                                        *)
CountsAreMessages ==
  \A u \in Users :
    /\ rows[u].count <= spoken[u].count
    /\ u \notin muddled => rows[u] = spoken[u]

(* A command blocks only someone who has, or had, the name at Discord.  It  *)
(* takes the name for one member's only if it surely is nobody else's, and  *)
(* for that of one who has dropped it only while the rename is unknown; if  *)
(* it is surely one member's, it does not take whoever last spoke under it  *)
(* instead (resolveBlocklistTargetUser).                                    *)
BlocksHitTheNamed ==
  \A g \in Goroutines :
    LET u == held[g].target
        sure == held[g].sure
        doubt == held[g].doubt
    IN /\ at[g] \in {"block", "blockRow"} => Wanted(g) \in had[u]
       /\ at[g] = "block" => u \in sure \cup doubt /\ sure \subseteq {u}
       /\ at[g] = "blockRow" => held[g].spoke /\ (Cardinality(sure) # 1 \/ doubt # {})
=============================================================================
