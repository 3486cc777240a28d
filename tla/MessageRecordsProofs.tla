------------------------ MODULE MessageRecordsProofs ------------------------
(***************************************************************************)
(* Proofs about MessageRecords for any users, names, goroutines and number *)
(* of messages: what the rows of the users count, whom a block hits, and   *)
(* what the backlog holds.                                                 *)
(***************************************************************************)
EXTENDS MessageRecords, FiniteSetTheorems, TLAPS

----------------------------------------------------------------------------
(* The inductive invariant *)

RecordsFor(g, u) == Recording(g) /\ job[g].user = u

\* A goroutine at work on a row, or waiting for an author, has one; unless the user is
\* muddled it is alone with the row, and what it read is still there.
RecordingInv ==
  /\ \A g \in Goroutines : Recording(g) \/ at[g] = "answer" => job[g].user \in Users
  /\ \A u \in Users : u \notin muddled =>
       \A g \in Goroutines : RecordsFor(g, u) =>
         /\ \A h \in Goroutines : RecordsFor(h, u) => h = g
         /\ at[g] = "update" => held[g].row = rows[u]

\* What is about to be written counts no message twice.
CountsInv ==
  /\ \A u \in Users : rows[u].count <= spoken[u].count /\ (u \notin muddled => rows[u] = spoken[u])
  /\ \A g \in Goroutines : at[g] = "update" => held[g].row.count <= spoken[job[g].user].count

RecordsInv == RecordsTypeOK /\ RecordingInv /\ CountsInv
----------------------------------------------------------------------------
(* Types *)

LEMMA SlicesAreEntries ==
  ASSUME RecordsTypeOK, NEW g \in Goroutines, NEW slice \in Slices(g)
  PROVE  slice \in Seq(Entry)
<1> DEFINE old == held[g].backlog
           Now(i) == {j \in DOMAIN backlog : backlog[j].id = old[i].id}
<1>1. old \in Seq(Entry) /\ backlog \in Seq(Entry)  BY DEF RecordsTypeOK, Local
<1>2. \A j \in DOMAIN backlog : backlog[j] \in Entry  BY <1>1
<1>3. \A i \in DOMAIN old : old[i] \in Entry  BY <1>1
<1>4. \A i : Now(i) # {} => (CHOOSE j \in Now(i) : TRUE) \in DOMAIN backlog  OBVIOUS
<1>5. \/ slice = old
      \/ slice = [i \in DOMAIN old |-> IF Now(i) = {} THEN old[i]
                                       ELSE backlog[CHOOSE j \in Now(i) : TRUE]]
  BY DEF Slices
<1> HIDE DEF Now, old
<1>6. CASE slice = old  BY <1>1, <1>6
<1>7. CASE slice = [i \in DOMAIN old |-> IF Now(i) = {} THEN old[i]
                                         ELSE backlog[CHOOSE j \in Now(i) : TRUE]]
  <2>1. \A i \in DOMAIN old : slice[i] \in Entry  BY <1>2, <1>3, <1>4, <1>7
  <2>2. DOMAIN old = 1 .. Len(old) /\ Len(old) \in Nat  BY <1>1
  <2>3. slice = [i \in 1 .. Len(old) |-> slice[i]]  BY <1>7, <2>2
  <2> QED  BY <2>1, <2>2, <2>3
<1> QED  BY <1>5, <1>6, <1>7

LEMMA MineIsEntry ==
  ASSUME RecordsTypeOK, NEW g \in Goroutines
  PROVE  Mine(g) \in Entry
BY DEF RecordsTypeOK, Job, Mine, Entry

LEMMA FreshLocals == Locals \in Local /\ NoJob \in Job /\ NoRow \in Row /\ Locals.row = NoRow
<1>1. NoRow \in Row  BY DEF NoRow, Row
<1>2. <<>> \in Seq(Entry)  OBVIOUS
<1>3. Locals \in Local  BY <1>1, <1>2 DEF Locals, Local
<1> QED  BY <1>1, <1>3 DEF NoJob, Job, Locals

\* Going leaves the other goroutines where they are.
LEMMA GoTypes ==
  ASSUME RecordsTypeOK, NEW g \in Goroutines, NEW place \in Places, Go(g, place)
  PROVE  /\ at' \in [Goroutines -> Places] /\ at'[g] = place
         /\ \A h \in Goroutines : h # g => at'[h] = at[h]
BY DEF RecordsTypeOK, Go

LEMMA LeaveTypes ==
  ASSUME RecordsTypeOK, NEW g \in Goroutines, Leave(g)
  PROVE  /\ at' \in [Goroutines -> Places] /\ at'[g] \in {"idle", "resolve"}
         /\ job' \in [Goroutines -> Job] /\ held' \in [Goroutines -> Local]
         /\ \A h \in Goroutines : h # g => at'[h] = at[h] /\ job'[h] = job[h] /\ held'[h] = held[h]
<1>1. /\ at' = [at EXCEPT ![g] = "resolve"] \/ at' = [at EXCEPT ![g] = "idle"]
      /\ job' = job \/ job' = [job EXCEPT ![g] = NoJob]
      /\ held' = [held EXCEPT ![g] = Locals]
  BY DEF Leave, Done, Go
<1>2. "idle" \in Places /\ "resolve" \in Places  BY DEF Places
<1> QED  BY <1>1, <1>2, FreshLocals DEF RecordsTypeOK

LEMMA BacklogTypes ==
  ASSUME RecordsTypeOK, NEW g \in Goroutines, Backlogging(g),
         backlog' \in Seq(Entry), at' \in [Goroutines -> Places], held' \in [Goroutines -> Local]
  PROVE  RecordsTypeOK'
BY DEF RecordsTypeOK, Backlogging, names

\* What a step on the backlog does to the goroutines.
BacklogStep(g) ==
  \/ AppendReads(g) \/ AppendWrites(g) \/ CheckLength(g) \/ CutReads(g) \/ CutWrites(g)
  \/ FindMessage(g) \/ ReplaceMessage(g)

LEMMA BacklogStepTypes ==
  ASSUME RecordsTypeOK, NEW g \in Goroutines, BacklogStep(g)
  PROVE  /\ RecordsTypeOK' /\ Backlogging(g)
         /\ at[g] \in AtBacklog /\ at'[g] \in AtBacklog \cup {"handle"}
         /\ \A h \in Goroutines : h # g => at'[h] = at[h] /\ held'[h] = held[h]
<1>1. /\ backlog \in Seq(Entry) /\ at \in [Goroutines -> Places] /\ held \in [Goroutines -> Local]
      /\ held[g].backlog \in Seq(Entry) /\ held[g].k \in Nat
  BY DEF RecordsTypeOK, Local
<1>2. ASSUME NEW place, NEW next, ReadBacklog(g, place, next),
             place \in AtBacklog, next \in AtBacklog
      PROVE  /\ RecordsTypeOK' /\ Backlogging(g)
             /\ at[g] \in AtBacklog /\ at'[g] \in AtBacklog \cup {"handle"}
             /\ \A h \in Goroutines : h # g => at'[h] = at[h] /\ held'[h] = held[h]
  <2>1. /\ held' = [held EXCEPT ![g].backlog = backlog] /\ Go(g, next) /\ backlog' = backlog
        /\ Backlogging(g) /\ at[g] = place
    BY <1>2 DEF ReadBacklog, Is
  <2>2. next \in Places  BY <1>2 DEF Places
  <2>3. held' \in [Goroutines -> Local] /\ \A h \in Goroutines : h # g => held'[h] = held[h]
    BY <1>1, <2>1 DEF Local
  <2> QED  BY <1>1, <1>2, <2>1, <2>2, <2>3, GoTypes, BacklogTypes
<1>3. CASE AppendReads(g)  BY <1>2, <1>3 DEF AppendReads, AtBacklog
<1>4. CASE CutReads(g)  BY <1>2, <1>4 DEF CutReads, AtBacklog
<1>5. CASE AppendWrites(g)
  <2>1. PICK slice \in Slices(g) :
          \E last \in {Mine(g)} \cup {backlog[i] : i \in {Len(slice) + 1} \cap DOMAIN backlog} :
            backlog' = Append(slice, last)
    BY <1>5 DEF AppendWrites
  <2>2. PICK last \in {Mine(g)} \cup {backlog[i] : i \in {Len(slice) + 1} \cap DOMAIN backlog} :
          backlog' = Append(slice, last)
    BY <2>1
  <2>3. \A i \in DOMAIN backlog : backlog[i] \in Entry  BY <1>1
  <2>4. last \in Entry  BY <2>2, <2>3, MineIsEntry
  <2>5. slice \in Seq(Entry)  BY SlicesAreEntries
  <2>6. backlog' \in Seq(Entry)  BY <2>2, <2>4, <2>5
  <2>7. held' = [held EXCEPT ![g].backlog = <<>>] /\ Go(g, "check") /\ Backlogging(g) /\ at[g] = "write"
    BY <1>5 DEF AppendWrites, Is
  <2>8. "check" \in Places  BY DEF Places, AtBacklog
  <2>9. <<>> \in Seq(Entry)  OBVIOUS
  <2>10. held' \in [Goroutines -> Local] /\ \A h \in Goroutines : h # g => held'[h] = held[h]
    BY <1>1, <2>7, <2>9 DEF Local
  <2> QED  BY <2>6, <2>7, <2>8, <2>10, GoTypes, BacklogTypes DEF AtBacklog
<1>6. CASE CheckLength(g)
  <2>1. /\ Go(g, "cut") \/ Go(g, "handle")
        /\ held' = held /\ backlog' = backlog /\ Backlogging(g) /\ at[g] = "check"
    BY <1>6 DEF CheckLength, Is
  <2>2. "cut" \in Places /\ "handle" \in Places  BY DEF Places, AtBacklog
  <2> QED  BY <1>1, <2>1, <2>2, GoTypes, BacklogTypes DEF AtBacklog
<1>7. CASE CutWrites(g)
  <2>1. Backlogging(g) /\ at[g] = "trim"  BY <1>7 DEF CutWrites, Is
  <2>2. CASE held[g].backlog = <<>>
    <3>1. UNCHANGED <<backlog, held, at>>  BY <1>7, <2>2 DEF CutWrites
    <3> QED  BY <1>1, <2>1, <3>1, BacklogTypes DEF AtBacklog
  <2>3. CASE held[g].backlog # <<>>
    <3>1. PICK slice \in Slices(g) : backlog' = Tail(slice)  BY <1>7, <2>3 DEF CutWrites
    <3>2. slice \in Seq(Entry)  BY SlicesAreEntries
    <3>3. slice # <<>>
      <4>1. DOMAIN slice = DOMAIN held[g].backlog  BY DEF Slices
      <4> QED  BY <1>1, <2>3, <4>1, <3>2
    <3>4. backlog' \in Seq(Entry)  BY <3>1, <3>2, <3>3
    <3>5. held' = [held EXCEPT ![g].backlog = <<>>] /\ Go(g, "handle")
      BY <1>7, <2>3 DEF CutWrites
    <3>6. "handle" \in Places  BY DEF Places
    <3>7. <<>> \in Seq(Entry)  OBVIOUS
    <3>8. held' \in [Goroutines -> Local] /\ \A h \in Goroutines : h # g => held'[h] = held[h]
      BY <1>1, <3>5, <3>7 DEF Local
    <3> QED  BY <2>1, <3>4, <3>5, <3>6, <3>8, GoTypes, BacklogTypes DEF AtBacklog
  <2> QED  BY <2>2, <2>3
<1>8. CASE FindMessage(g)
  <2>1. Backlogging(g) /\ at[g] = "find" /\ backlog' = backlog  BY <1>8 DEF FindMessage, Is
  <2>2. "handle" \in Places /\ "replace" \in Places  BY DEF Places, AtBacklog
  <2>3. \/ Go(g, "handle") /\ held' = held
        \/ Go(g, "replace") /\ held' = held
        \/ at' = at /\ held' = held
        \/ held[g].k # 0 /\ at' = at /\ held' = [held EXCEPT ![g].k = held[g].k - 1]
    BY <1>8 DEF FindMessage
  <2>4. ASSUME held[g].k # 0, at' = at, held' = [held EXCEPT ![g].k = held[g].k - 1]
        PROVE  held' \in [Goroutines -> Local] /\ \A h \in Goroutines : h # g => held'[h] = held[h]
    <3>1. held[g].k - 1 \in Nat  BY <1>1, <2>4
    <3> QED  BY <1>1, <2>4, <3>1 DEF Local
  <2> QED  BY <1>1, <2>1, <2>2, <2>3, <2>4, GoTypes, BacklogTypes DEF AtBacklog
<1>9. CASE ReplaceMessage(g)
  <2>1. Backlogging(g) /\ at[g] = "replace"  BY <1>9 DEF ReplaceMessage, Is
  <2>2. CASE held[g].k > Len(backlog)
    <3>1. UNCHANGED <<backlog, held, at>>  BY <1>9, <2>2 DEF ReplaceMessage
    <3> QED  BY <1>1, <2>1, <3>1, BacklogTypes DEF AtBacklog
  <2>3. CASE ~(held[g].k > Len(backlog))
    <3>1. /\ backlog' = [backlog EXCEPT ![held[g].k] = Mine(g)] /\ Go(g, "handle")
          /\ held' = [held EXCEPT ![g].k = 0]
      BY <1>9, <2>3 DEF ReplaceMessage
    <3>2. backlog' \in Seq(Entry)
      <4>1. DOMAIN backlog' = 1 .. Len(backlog) /\ Len(backlog) \in Nat  BY <1>1, <3>1
      <4>2. \A i \in 1 .. Len(backlog) : backlog'[i] \in Entry  BY <1>1, <3>1, MineIsEntry
      <4>3. backlog' = [i \in 1 .. Len(backlog) |-> backlog'[i]]  BY <4>1, <3>1
      <4> QED  BY <4>1, <4>2, <4>3
    <3>3. "handle" \in Places  BY DEF Places
    <3>4. held' \in [Goroutines -> Local] /\ \A h \in Goroutines : h # g => held'[h] = held[h]
      BY <1>1, <3>1 DEF Local
    <3> QED  BY <2>1, <3>1, <3>2, <3>3, <3>4, GoTypes, BacklogTypes DEF AtBacklog
  <2> QED  BY <2>2, <2>3
<1> QED  BY <1>3, <1>4, <1>5, <1>6, <1>7, <1>8, <1>9 DEF BacklogStep
LEMMA ArrivalTypes ==
  ASSUME RecordsTypeOK, NEW g \in Goroutines, MessageArrives(g) \/ EditArrives(g)
  PROVE  /\ RecordsTypeOK' /\ UNCHANGED <<names, rows, spoken, muddled>>
         /\ at[g] = "idle" /\ at'[g] \in AtBacklog
         /\ \A h \in Goroutines : h # g =>
              at'[h] = at[h] /\ job'[h] = job[h] /\ held'[h] = held[h]
<1>1. /\ log \in Seq(Logged) /\ sent \in [messages : Nat, commands : Nat, renames : Nat]
      /\ held \in [Goroutines -> Local] /\ job \in [Goroutines -> Job]
      /\ Len(backlog) \in Nat
  BY DEF RecordsTypeOK
<1>2. \A i \in DOMAIN log : log[i].user \in Users /\ log[i].entry \in Entry
                            /\ log[i] = [entry |-> log[i].entry, user |-> log[i].user]
  <2>1. \A i \in DOMAIN log : log[i] \in Logged  BY <1>1
  <2> QED  BY <2>1 DEF Logged
<1>3. \A i \in DOMAIN log : log[i].entry.id \in Nat  BY <1>2 DEF Entry
<1>4. sent.messages + 1 \in Nat /\ sent.commands \in Nat /\ sent.commands + 1 \in Nat  BY <1>1
<1>5. ASSUME NEW message \in Job, NEW place \in AtBacklog, NEW newLog,
             Arrives(g, message, place, newLog)
      PROVE  /\ at' \in [Goroutines -> Places] /\ job' \in [Goroutines -> Job]
             /\ sent' \in [messages : Nat, commands : Nat, renames : Nat]
             /\ at[g] = "idle" /\ at'[g] \in AtBacklog
             /\ \A h \in Goroutines : h # g => at'[h] = at[h] /\ job'[h] = job[h]
  <2>1. /\ job' = [job EXCEPT ![g] = message] /\ Go(g, place) /\ at[g] = "idle"
        /\ sent' = [sent EXCEPT !.messages = @ + 1,
                               !.commands = IF message.block = Nobody THEN @ ELSE @ + 1]
    BY <1>5 DEF Arrives
  <2>2. place \in Places  BY DEF Places
  <2>3. sent' \in [messages : Nat, commands : Nat, renames : Nat]  BY <1>1, <1>4, <2>1
  <2> QED  BY <1>1, <2>1, <2>2, <2>3, GoTypes
<1>6. CASE MessageArrives(g)
  <2>a. PICK u \in Users : \E b \in Commands(u) :
          Arrives(g, [id |-> sent.messages + 1, edit |-> 0, user |-> u, block |-> b], "append",
                  Append(log, [entry |-> [id |-> sent.messages + 1, edit |-> 0], user |-> u]))
    BY <1>6 DEF MessageArrives
  <2>1. PICK b \in Commands(u) :
          Arrives(g, [id |-> sent.messages + 1, edit |-> 0, user |-> u, block |-> b], "append",
                  Append(log, [entry |-> [id |-> sent.messages + 1, edit |-> 0], user |-> u]))
    BY <2>a
  <2>2. b \in Nicks \cup {Nobody}  BY <2>1 DEF Commands
  <2>3. [id |-> sent.messages + 1, edit |-> 0, user |-> u, block |-> b] \in Job
    BY <1>4, <2>2 DEF Job
  <2>4. [entry |-> [id |-> sent.messages + 1, edit |-> 0], user |-> u] \in Logged
    BY <1>4 DEF Entry, Logged
  <2>5. log' \in Seq(Logged)  BY <1>1, <2>1, <2>4 DEF Arrives
  <2>6. "append" \in AtBacklog  BY DEF AtBacklog
  <2>7. UNCHANGED <<names, backlog, rows, held, spoken, muddled>>
    BY <1>6 DEF MessageArrives
  <2> QED  BY <1>5, <2>1, <2>3, <2>5, <2>6, <2>7 DEF RecordsTypeOK, names
<1>7. CASE EditArrives(g)
  <2>a. PICK i \in DOMAIN log : \E u \in {log[i].user, Nobody} :
          Arrives(g, [id |-> log[i].entry.id, edit |-> sent.messages + 1, user |-> u,
                      block |-> Nobody], "find",
                  [log EXCEPT ![i].entry = [id |-> log[i].entry.id, edit |-> sent.messages + 1]])
    BY <1>7 DEF EditArrives
  <2>1. PICK u \in {log[i].user, Nobody} :
          Arrives(g, [id |-> log[i].entry.id, edit |-> sent.messages + 1, user |-> u,
                      block |-> Nobody], "find",
                  [log EXCEPT ![i].entry = [id |-> log[i].entry.id, edit |-> sent.messages + 1]])
    BY <2>a
  <2>2. u \in Users \cup {Nobody}  BY <1>2, <2>1
  <2>3. [id |-> log[i].entry.id, edit |-> sent.messages + 1, user |-> u, block |-> Nobody] \in Job
    BY <1>3, <1>4, <2>2 DEF Job
  <2> DEFINE edited == [id |-> log[i].entry.id, edit |-> sent.messages + 1]
  <2>4. edited \in Entry  BY <1>3, <1>4 DEF Entry
  <2>5. log' = [log EXCEPT ![i].entry = edited]  BY <2>1 DEF Arrives
  <2> HIDE DEF edited
  <2>6. log' \in Seq(Logged)
    <3>1. DOMAIN log' = 1 .. Len(log) /\ Len(log) \in Nat  BY <1>1, <2>5
    <3>2. \A n \in 1 .. Len(log) : log'[n] \in Logged
      <4>1. TAKE n \in 1 .. Len(log)
      <4>2. n \in DOMAIN log  BY <1>1
      <4>3. CASE n = i
        <5>1. log'[n] = [log[n] EXCEPT !.entry = edited]  BY <2>5, <4>2, <4>3
        <5> QED  BY <5>1, <1>2, <4>2, <2>4 DEF Logged
      <4>4. CASE n # i
        <5>1. log'[n] = log[n] /\ log[n] \in Logged  BY <1>1, <2>5, <4>2, <4>4
        <5> QED  BY <5>1
      <4> QED  BY <4>3, <4>4
    <3>3. log' = [n \in 1 .. Len(log) |-> log'[n]]  BY <3>1, <2>5
    <3> QED  BY <3>1, <3>2, <3>3
  <2>7. "find" \in AtBacklog  BY DEF AtBacklog
  <2>8. held' = [held EXCEPT ![g].k = Len(backlog)]  BY <1>7 DEF EditArrives
  <2>9. held' \in [Goroutines -> Local] /\ \A h \in Goroutines : h # g => held'[h] = held[h]
    BY <1>1, <2>8 DEF Local
  <2>10. UNCHANGED <<names, backlog, rows, spoken, muddled>>
    BY <1>7 DEF EditArrives
  <2> QED  BY <1>5, <2>1, <2>3, <2>6, <2>7, <2>9, <2>10 DEF RecordsTypeOK, names
<1> QED  BY <1>6, <1>7

----------------------------------------------------------------------------
(* Steps that touch no row *)

\* A step of one goroutine that does not end at a row.
LEMMA ElsewhereKeeps ==
  ASSUME RecordsInv, RecordsTypeOK', UNCHANGED <<rows, spoken, muddled>>,
         NEW g \in Goroutines, at'[g] \notin {"select", "insert", "update"},
         at'[g] = "answer" => job'[g].user \in Users,
         \A h \in Goroutines : h # g => at'[h] = at[h] /\ job'[h] = job[h] /\ held'[h] = held[h]
  PROVE  RecordsInv'
<1>1. \A h \in Goroutines : Recording(h)' => h # g /\ Recording(h)  BY DEF Recording
<1>2. RecordingInv'
  <2>1. \A h \in Goroutines : Recording(h)' \/ at'[h] = "answer" => job'[h].user \in Users
    BY <1>1 DEF RecordsInv, RecordingInv
  <2>2. ASSUME NEW u \in Users, u \notin muddled', NEW h \in Goroutines, RecordsFor(h, u)'
        PROVE  /\ \A o \in Goroutines : RecordsFor(o, u)' => o = h
               /\ at'[h] = "update" => held'[h].row = rows'[u]
    <3>1. h # g /\ RecordsFor(h, u)  BY <1>1, <2>2 DEF RecordsFor
    <3>2. \A o \in Goroutines : RecordsFor(o, u)' => RecordsFor(o, u)  BY <1>1 DEF RecordsFor
    <3> QED  BY <2>2, <3>1, <3>2 DEF RecordsInv, RecordingInv
  <2> QED  BY <2>1, <2>2 DEF RecordingInv
<1>3. CountsInv'  BY DEF RecordsInv, CountsInv
<1> QED  BY <1>2, <1>3 DEF RecordsInv

LEMMA BacklogKeeps ==
  ASSUME RecordsInv, NEW g \in Goroutines, BacklogStep(g)
  PROVE  RecordsInv'
<1>1. RecordsTypeOK  BY DEF RecordsInv
<1>2. UNCHANGED <<rows, job, spoken, muddled>>
  BY <1>1, BacklogStepTypes DEF Backlogging
<1>3. at'[g] \notin {"select", "insert", "update", "answer"}
  BY <1>1, BacklogStepTypes DEF AtBacklog
<1> QED  BY <1>1, <1>2, <1>3, BacklogStepTypes, ElsewhereKeeps

LEMMA ArrivalKeeps ==
  ASSUME RecordsInv, NEW g \in Goroutines, MessageArrives(g) \/ EditArrives(g)
  PROVE  RecordsInv'
<1>1. RecordsTypeOK  BY DEF RecordsInv
<1>2. at'[g] \notin {"select", "insert", "update", "answer"}
  BY <1>1, ArrivalTypes DEF AtBacklog
<1> QED  BY <1>1, <1>2, ArrivalTypes, ElsewhereKeeps

\* A goroutine takes a name.
LEMMA NickTypes ==
  ASSUME RecordsTypeOK, NEW g \in Goroutines, NEW n \in Nicks, held' = [held EXCEPT ![g].nick = n]
  PROVE  /\ held' \in [Goroutines -> Local] /\ held'[g].nick = n
         /\ \A h \in Goroutines : h # g => held'[h] = held[h]
<1>1. held \in [Goroutines -> Local]  BY DEF RecordsTypeOK
<1> QED  BY <1>1 DEF Local

LEMMA RenameKeeps ==
  ASSUME RecordsInv, Rename
  PROVE  RecordsInv'
<1>1. /\ sent' = [sent EXCEPT !.renames = @ + 1]
      /\ UNCHANGED <<cached, backlog, rows, at, job, held, log, spoken, muddled>>
  BY DEF Rename
<1>2. sent' \in [messages : Nat, commands : Nat, renames : Nat] /\ sent'.renames \in Nat
  <2>1. sent \in [messages : Nat, commands : Nat, renames : Nat]  BY DEF RecordsInv, RecordsTypeOK
  <2>2. sent.renames + 1 \in Nat  BY <2>1
  <2> QED  BY <1>1, <2>1, <2>2
<1>3. PICK u \in Users, n \in Nicks :
        /\ nick' = [nick EXCEPT ![u] = n] /\ had' = [had EXCEPT ![u] = @ \cup {n}]
        /\ \/ updates' = updates \cup {[user |-> u, nick |-> n, no |-> sent'.renames]} /\ Brings(u)
           \/ unsure' = unsure \cup {u} /\ UNCHANGED updates
  BY RecordsConstants DEF Rename
<1>4. nick' \in [Users -> Nicks] /\ had' \in [Users -> SUBSET Nicks] /\ unsure' \subseteq Users
  BY <1>3 DEF RecordsInv, RecordsTypeOK, Brings
<1>5. [user |-> u, nick |-> n, no |-> sent'.renames] \in Update  BY <1>2 DEF Update
<1>6. updates' \subseteq Update  BY <1>3, <1>5 DEF RecordsInv, RecordsTypeOK
<1>7. RecordsTypeOK'  BY <1>1, <1>2, <1>4, <1>6 DEF RecordsInv, RecordsTypeOK
<1>8. RecordingInv'  BY <1>1 DEF RecordsInv, RecordingInv, RecordsFor, Recording
<1>9. CountsInv'  BY <1>1 DEF RecordsInv, CountsInv
<1> QED  BY <1>7, <1>8, <1>9 DEF RecordsInv

LEMMA StoreNameKeeps ==
  ASSUME RecordsInv, StoreName
  PROVE  RecordsInv'
<1>1. UNCHANGED <<nick, had, unsure, backlog, rows, at, job, held, sent, log, spoken, muddled>>
  BY DEF StoreName
<1>2. PICK e \in updates :
        cached' = [cached EXCEPT ![e.user] = e.nick] /\ updates' = updates \ {e}
  BY DEF StoreName
<1>3. e.nick \in Nicks  BY DEF RecordsInv, RecordsTypeOK, Update
<1>4. cached' \in [Users -> Nicks \cup {Nobody}] /\ updates' \subseteq Update
  BY <1>2, <1>3 DEF RecordsInv, RecordsTypeOK
<1>5. RecordsTypeOK'  BY <1>1, <1>4 DEF RecordsInv, RecordsTypeOK
<1>6. RecordingInv'  BY <1>1 DEF RecordsInv, RecordingInv, RecordsFor, Recording
<1>7. CountsInv'  BY <1>1 DEF RecordsInv, CountsInv
<1> QED  BY <1>5, <1>6, <1>7 DEF RecordsInv

LEMMA NoAuthorKeeps ==
  ASSUME RecordsInv, NEW g \in Goroutines, NoAuthor(g)
  PROVE  RecordsInv'
<1>1. RecordsTypeOK /\ Leave(g)  BY DEF RecordsInv, NoAuthor
<1>2. UNCHANGED <<nick, updates, had, unsure, backlog, sent, log, cached, rows, spoken, muddled>>
  BY DEF NoAuthor, Tracking
<1>3. RecordsTypeOK'  BY <1>1, <1>2, LeaveTypes DEF RecordsTypeOK
<1> QED  BY <1>1, <1>2, <1>3, LeaveTypes, ElsewhereKeeps

LEMMA AskForAuthorKeeps ==
  ASSUME RecordsInv, NEW g \in Goroutines, AskForAuthor(g)
  PROVE  RecordsInv'
<1> DEFINE u == job[g].user
<1>1. RecordsTypeOK /\ at[g] = "handle" /\ u # Nobody  BY DEF RecordsInv, AskForAuthor, Is
<1>2. u \in Users
  <2>1. job[g] \in Job  BY <1>1 DEF RecordsTypeOK
  <2> QED  BY <1>1, <2>1 DEF Job
<1>3. UNCHANGED <<cached, nick, updates, had, backlog, sent, log, rows, spoken, muddled>>
  BY DEF AskForAuthor, Tracking
<1> HIDE DEF u
<1>4. CASE /\ Go(g, "answer") /\ held' = [held EXCEPT ![g].nick = nick[u]]
           /\ Brings(u) /\ UNCHANGED job
  <2>1. "answer" \in Places  BY DEF Places
  <2>2. /\ at' \in [Goroutines -> Places] /\ at'[g] = "answer"
        /\ \A h \in Goroutines : h # g => at'[h] = at[h]
    BY <1>1, <1>4, <2>1, GoTypes
  <2>3. nick[u] \in Nicks  BY <1>1, <1>2 DEF RecordsTypeOK
  <2>4. held' \in [Goroutines -> Local] /\ \A h \in Goroutines : h # g => held'[h] = held[h]
    BY <1>1, <1>4, <2>3, NickTypes
  <2>5. unsure' \subseteq Users  BY <1>1, <1>2, <1>4 DEF RecordsTypeOK, Brings
  <2>6. RecordsTypeOK'  BY <1>1, <1>3, <1>4, <2>2, <2>4, <2>5 DEF RecordsTypeOK
  <2>7. job'[g].user \in Users  BY <1>2, <1>4 DEF u
  <2> QED  BY <1>3, <1>4, <2>2, <2>4, <2>6, <2>7, ElsewhereKeeps
<1>5. CASE Leave(g) /\ UNCHANGED unsure
  <2>1. RecordsTypeOK'  BY <1>1, <1>3, <1>5, LeaveTypes DEF RecordsTypeOK
  <2> QED  BY <1>1, <1>3, <1>5, <2>1, LeaveTypes, ElsewhereKeeps
<1> QED  BY <1>4, <1>5 DEF AskForAuthor, u
----------------------------------------------------------------------------
(* The rows *)

\* A goroutine that turns to the row of a user muddles it if another is at work on it.
LEMMA ToRowKeeps ==
  ASSUME RecordsInv, RecordsTypeOK', NEW g \in Goroutines, job[g].user \in Users,
         Go(g, "select"), Muddles(g), UNCHANGED <<job, rows, spoken>>,
         \A h \in Goroutines : h # g => held'[h] = held[h]
  PROVE  RecordsInv'
<1> DEFINE u == job[g].user
           others == {o \in Goroutines \ {g} : Recording(o) /\ job[o].user = u}
<1>1. at'[g] = "select" /\ \A h \in Goroutines : h # g => at'[h] = at[h]
  BY DEF RecordsInv, RecordsTypeOK, Go
<1>2. muddled' = IF others = {} THEN muddled ELSE muddled \cup {u}  BY DEF Muddles
<1>3. \A h \in Goroutines : Recording(h)' => h = g \/ Recording(h)  BY <1>1 DEF Recording
<1> HIDE DEF u
<1>4. RecordingInv'
  <2>1. \A h \in Goroutines : Recording(h)' \/ at'[h] = "answer" => job'[h].user \in Users
    BY <1>1, <1>3 DEF RecordsInv, RecordingInv, u
  <2>2. ASSUME NEW v \in Users, v \notin muddled', NEW h \in Goroutines, RecordsFor(h, v)'
        PROVE  /\ \A o \in Goroutines : RecordsFor(o, v)' => o = h
               /\ at'[h] = "update" => held'[h].row = rows'[v]
    <3>1. v \notin muddled  BY <1>2, <2>2
    <3>2. \A o \in Goroutines : RecordsFor(o, v)' =>
             job[o].user = v /\ (o = g \/ RecordsFor(o, v))
      BY <1>3, <3>1 DEF RecordsFor
    <3>3. CASE v = u
      <4>1. others = {}  BY <1>2, <2>2, <3>3
      <4>2. \A o \in Goroutines : RecordsFor(o, v)' => o = g
        BY <3>2, <3>3, <4>1 DEF RecordsFor
      <4> QED  BY <2>2, <4>2, <1>1
    <3>4. CASE v # u
      <4>1. \A o \in Goroutines : RecordsFor(o, v)' => o # g /\ RecordsFor(o, v)
        BY <3>2, <3>4 DEF u
      <4>2. h # g /\ RecordsFor(h, v)  BY <2>2, <4>1
      <4>3. at'[h] = at[h] /\ held'[h] = held[h]  BY <1>1, <4>2
      <4> QED  BY <2>2, <3>1, <4>1, <4>2, <4>3 DEF RecordsInv, RecordingInv
    <3> QED  BY <3>3, <3>4
  <2> QED  BY <2>1, <2>2 DEF RecordingInv
<1>5. CountsInv'
  <2>1. muddled \subseteq muddled'  BY <1>2
  <2>2. \A h \in Goroutines : at'[h] = "update" => h # g  BY <1>1
  <2> QED  BY <1>1, <2>1, <2>2 DEF RecordsInv, CountsInv
<1> QED  BY <1>4, <1>5 DEF RecordsInv

\* The goroutine, and who was muddled, when it turns to the row of a user.
LEMMA ToRowTypes ==
  ASSUME RecordsTypeOK, NEW g \in Goroutines, Go(g, "select"), Muddles(g), job[g].user \in Users
  PROVE  at' \in [Goroutines -> Places] /\ muddled' \subseteq Users
<1>1. "select" \in Places  BY DEF Places
<1> QED  BY <1>1, GoTypes DEF Muddles, RecordsTypeOK

LEMMA KnowAuthorKeeps ==
  ASSUME RecordsInv, NEW g \in Goroutines, KnowAuthor(g)
  PROVE  RecordsInv'
<1>1. /\ RecordsTypeOK /\ job[g].user # Nobody /\ cached[job[g].user] # Nobody
      /\ Go(g, "select") /\ Muddles(g)
      /\ held' = [held EXCEPT ![g].nick = cached[job[g].user]]
      /\ UNCHANGED <<nick, updates, had, unsure, backlog, sent, log, cached, job, rows, spoken>>
  BY DEF RecordsInv, KnowAuthor, Tracking
<1>2. job[g].user \in Users
  <2>1. job[g] \in Job  BY <1>1 DEF RecordsTypeOK
  <2> QED  BY <1>1, <2>1 DEF Job
<1>3. cached[job[g].user] \in Nicks  BY <1>1, <1>2 DEF RecordsTypeOK
<1>4. held' \in [Goroutines -> Local] /\ \A h \in Goroutines : h # g => held'[h] = held[h]
  BY <1>1, <1>3, NickTypes
<1>5. RecordsTypeOK'  BY <1>1, <1>2, <1>4, ToRowTypes DEF RecordsTypeOK
<1> QED  BY <1>1, <1>2, <1>4, <1>5, ToRowKeeps

LEMMA StoreAuthorKeeps ==
  ASSUME RecordsInv, NEW g \in Goroutines, StoreAuthor(g)
  PROVE  RecordsInv'
<1>1. /\ RecordsTypeOK /\ at[g] = "answer" /\ Go(g, "select") /\ Muddles(g)
      /\ cached' = [cached EXCEPT ![job[g].user] = held[g].nick]
      /\ UNCHANGED <<nick, updates, had, unsure, backlog, sent, log, job, held, rows, spoken>>
  BY DEF RecordsInv, StoreAuthor, Tracking, Is
<1>2. job[g].user \in Users  BY <1>1 DEF RecordsInv, RecordingInv
<1>3. held[g].nick \in Nicks \cup {Nobody}  BY <1>1 DEF RecordsTypeOK, Local
<1>4. cached' \in [Users -> Nicks \cup {Nobody}]  BY <1>1, <1>3 DEF RecordsTypeOK
<1>5. RecordsTypeOK'  BY <1>1, <1>2, <1>4, ToRowTypes DEF RecordsTypeOK
<1> QED  BY <1>1, <1>2, <1>5, ToRowKeeps

LEMMA SelectUserKeeps ==
  ASSUME RecordsInv, NEW g \in Goroutines, SelectUser(g)
  PROVE  RecordsInv'
<1> DEFINE u == job[g].user
<1>1. RecordsTypeOK /\ at[g] = "select"  BY DEF RecordsInv, SelectUser, Is
<1>2. Recording(g) /\ u \in Users  BY <1>1 DEF RecordsInv, RecordingInv, Recording
<1>3. UNCHANGED <<nick, updates, had, unsure, backlog, sent, log, cached, job, rows, spoken, muddled>>
  BY DEF SelectUser, Tracking
<1>4. held \in [Goroutines -> Local] /\ rows \in [Users -> Row]  BY <1>1 DEF RecordsTypeOK
<1>5. \/ Go(g, "update") /\ held' = [held EXCEPT ![g].row = rows[u]]
      \/ Go(g, "insert") /\ held' = held
  BY DEF SelectUser
<1>6. "update" \in Places /\ "insert" \in Places  BY DEF Places
<1>7. /\ at' \in [Goroutines -> Places] /\ at'[g] \in {"update", "insert"}
      /\ \A h \in Goroutines : h # g => at'[h] = at[h]
  BY <1>1, <1>5, <1>6, GoTypes
<1>8. /\ held' \in [Goroutines -> Local] /\ \A h \in Goroutines : h # g => held'[h] = held[h]
      /\ at'[g] = "update" => held'[g].row = rows[u]
  <2>1. rows[u] \in Row  BY <1>2, <1>4
  <2>2. CASE Go(g, "update") /\ held' = [held EXCEPT ![g].row = rows[u]]
    <3> HIDE DEF u
    <3> QED  BY <2>1, <2>2, <1>4 DEF Local
  <2>3. CASE Go(g, "insert") /\ held' = held
    <3>1. at'[g] = "insert"  BY <1>1, <1>6, <2>3, GoTypes
    <3> QED  BY <1>4, <2>3, <3>1
  <2> QED  BY <1>5, <2>2, <2>3
<1>9. RecordsTypeOK'  BY <1>1, <1>3, <1>7, <1>8 DEF RecordsTypeOK
<1>10. \A h \in Goroutines : Recording(h)' = Recording(h)
  BY <1>1, <1>7 DEF Recording
<1>11. RecordingInv'
  <2>1. \A h \in Goroutines, v \in Users : RecordsFor(h, v)' <=> RecordsFor(h, v)
    BY <1>3, <1>10 DEF RecordsFor
  <2>2. \A h \in Goroutines : Recording(h)' \/ at'[h] = "answer" => job'[h].user \in Users
    BY <1>2, <1>3, <1>7, <1>10 DEF RecordsInv, RecordingInv
  <2>3. ASSUME NEW v \in Users, v \notin muddled', NEW h \in Goroutines, RecordsFor(h, v)'
        PROVE  /\ \A o \in Goroutines : RecordsFor(o, v)' => o = h
               /\ at'[h] = "update" => held'[h].row = rows'[v]
    <3>1. RecordsFor(h, v) /\ v \notin muddled  BY <1>3, <2>1, <2>3
    <3>2. \A o \in Goroutines : RecordsFor(o, v)' => o = h
      BY <2>1, <3>1 DEF RecordsInv, RecordingInv
    <3>3. CASE h = g  BY <3>1, <3>2, <3>3, <1>3, <1>8 DEF RecordsFor
    <3>4. CASE h # g
      BY <3>1, <3>2, <3>4, <1>3, <1>7, <1>8 DEF RecordsInv, RecordingInv
    <3> QED  BY <3>3, <3>4
  <2> QED  BY <2>2, <2>3 DEF RecordingInv
<1>12. CountsInv'
  <2>1. ASSUME NEW h \in Goroutines, at'[h] = "update"
        PROVE  held'[h].row.count <= spoken'[job'[h].user].count
    <3>1. CASE h = g  BY <1>2, <1>3, <1>8, <2>1, <3>1 DEF RecordsInv, CountsInv
    <3>2. CASE h # g  BY <1>3, <1>7, <1>8, <2>1, <3>2 DEF RecordsInv, CountsInv
    <3> QED  BY <3>1, <3>2
  <2> QED  BY <1>3, <2>1 DEF RecordsInv, CountsInv
<1> QED  BY <1>9, <1>11, <1>12 DEF RecordsInv

\* A statement that writes a row that counts one message more, or fails.
LEMMA RecordedKeeps ==
  ASSUME RecordsInv, NEW g \in Goroutines, Recording(g), Leave(g), Tracking,
         UNCHANGED <<cached, unsure>>, spoken' = Recorded(g),
         NEW row \in Row, row.nick = held[g].nick,
         row.count <= spoken[job[g].user].count + 1,
         job[g].user \notin muddled => row.count = spoken[job[g].user].count + 1,
         \/ rows' = [rows EXCEPT ![job[g].user] = row] /\ UNCHANGED muddled
         \/ Fails(g)
  PROVE  RecordsInv'
<1> DEFINE u == job[g].user
           new == [nick |-> held[g].nick, count |-> spoken[u].count + 1]
<1>1. RecordsTypeOK /\ u \in Users  BY DEF RecordsInv, RecordingInv
<1>2. spoken \in [Users -> Row] /\ rows \in [Users -> Row] /\ muddled \subseteq Users
  BY <1>1 DEF RecordsTypeOK
<1>3. UNCHANGED <<nick, updates, had, backlog, sent, log>>  BY DEF Tracking
<1>4. new \in Row
  <2>1. held[g] \in Local /\ spoken[u] \in Row  BY <1>1 DEF RecordsTypeOK
  <2> QED  BY <2>1 DEF Local, Row
<1>5. spoken' = [spoken EXCEPT ![u] = new]  BY DEF Recorded
<1> HIDE DEF new, u
<1>6. /\ spoken' \in [Users -> Row] /\ spoken'[u] = new
      /\ \A v \in Users : v # u => spoken'[v] = spoken[v]
  BY <1>1, <1>2, <1>4, <1>5
<1>7. /\ rows' \in [Users -> Row] /\ muddled' \subseteq Users /\ muddled \subseteq muddled'
      /\ \A v \in Users : v # u => rows'[v] = rows[v]
      /\ (rows'[u] = row /\ muddled' = muddled) \/ (rows'[u] = rows[u] /\ u \in muddled')
  BY <1>1, <1>2 DEF Fails, u
<1>8. RecordsTypeOK'  BY <1>1, <1>3, <1>6, <1>7, LeaveTypes DEF RecordsTypeOK
<1>9. /\ at'[g] \in {"idle", "resolve"}
      /\ \A h \in Goroutines : h # g => at'[h] = at[h] /\ job'[h] = job[h] /\ held'[h] = held[h]
  BY <1>1, LeaveTypes
<1>10. \A h \in Goroutines : Recording(h)' => h # g /\ Recording(h)  BY <1>9 DEF Recording
<1>11. RecordingInv'
  <2>1. \A h \in Goroutines : Recording(h)' \/ at'[h] = "answer" => job'[h].user \in Users
    BY <1>9, <1>10 DEF RecordsInv, RecordingInv
  <2>2. ASSUME NEW v \in Users, v \notin muddled', NEW h \in Goroutines, RecordsFor(h, v)'
        PROVE  /\ \A o \in Goroutines : RecordsFor(o, v)' => o = h
               /\ at'[h] = "update" => held'[h].row = rows'[v]
    <3>1. \A o \in Goroutines : RecordsFor(o, v)' => o # g /\ RecordsFor(o, v)
      BY <1>9, <1>10 DEF RecordsFor
    <3>2. v \notin muddled /\ h # g /\ RecordsFor(h, v)  BY <1>7, <2>2, <3>1
    <3>3. v # u
      <4>1. v = u => RecordsFor(g, v)  BY DEF RecordsFor, u
      <4> QED  BY <3>2, <4>1 DEF RecordsInv, RecordingInv
    <3> QED  BY <1>7, <1>9, <3>1, <3>2, <3>3 DEF RecordsInv, RecordingInv
  <2> QED  BY <2>1, <2>2 DEF RecordingInv
<1>12. CountsInv'
  <2>1. new.count = spoken[u].count + 1 /\ new.nick = held[g].nick  BY DEF new
  <2>2. /\ \A v \in Users : rows[v] \in Row /\ spoken[v] \in Row
        /\ \A v \in Users : rows[v].count \in Nat /\ spoken[v].count \in Nat
    BY <1>2 DEF Row
  <2>3. row.count <= new.count /\ (u \notin muddled => row = new)
    <3>1. row = [nick |-> row.nick, count |-> row.count]  BY DEF Row
    <3>2. row.count <= new.count  BY <2>1 DEF u
    <3>3. ASSUME u \notin muddled  PROVE row = new
      BY <3>1, <3>3, <2>1 DEF new, u
    <3> QED  BY <3>2, <3>3
  <2>4. ASSUME NEW v \in Users
        PROVE  rows'[v].count <= spoken'[v].count /\ (v \notin muddled' => rows'[v] = spoken'[v])
    <3>1. CASE v # u  BY <1>6, <1>7, <3>1 DEF RecordsInv, CountsInv
    <3>2. CASE v = u
      <4>1. rows[u].count <= new.count  BY <1>1, <2>1, <2>2 DEF RecordsInv, CountsInv
      <4> QED  BY <1>6, <1>7, <2>3, <3>2, <4>1
    <3> QED  BY <3>1, <3>2
  <2>5. \A v \in Users : spoken[v].count <= spoken'[v].count
    BY <1>6, <2>1, <2>2
  <2>6. ASSUME NEW h \in Goroutines, at'[h] = "update"
        PROVE  held'[h].row.count <= spoken'[job'[h].user].count
    <3>1. h # g /\ at[h] = "update" /\ Recording(h)  BY <1>9, <2>6 DEF Recording
    <3>2. job[h].user \in Users /\ held[h].row.count <= spoken[job[h].user].count
      BY <3>1 DEF RecordsInv, RecordingInv, CountsInv
    <3>3. held[h].row.count \in Nat
      <4>1. held[h] \in Local  BY <1>1 DEF RecordsTypeOK
      <4> QED  BY <4>1 DEF Local, Row
    <3>4. spoken'[job[h].user].count \in Nat
      <4>1. spoken'[job[h].user] \in Row  BY <1>6, <3>2
      <4> QED  BY <4>1 DEF Row
    <3> QED  BY <1>9, <2>2, <2>5, <3>1, <3>2, <3>3, <3>4
  <2> QED  BY <2>4, <2>6 DEF CountsInv
<1> QED  BY <1>8, <1>11, <1>12 DEF RecordsInv

LEMMA InsertUserKeeps ==
  ASSUME RecordsInv, NEW g \in Goroutines, InsertUser(g)
  PROVE  RecordsInv'
<1> DEFINE u == job[g].user
           row == [nick |-> held[g].nick, count |-> 1]
<1>1. RecordsTypeOK /\ Recording(g) /\ u \in Users
  <2>1. Recording(g)  BY DEF InsertUser, Is, Recording
  <2> QED  BY <2>1 DEF RecordsInv, RecordingInv
<1>2. spoken' = Recorded(g) /\ Leave(g) /\ UNCHANGED <<cached, unsure>> /\ Tracking  BY DEF InsertUser
<1>3. row \in Row
  <2>1. held[g] \in Local  BY <1>1 DEF RecordsTypeOK
  <2> QED  BY <2>1 DEF Local, Row
<1>4. spoken[u].count \in Nat
  <2>1. spoken[u] \in Row  BY <1>1 DEF RecordsTypeOK
  <2> QED  BY <2>1 DEF Row
<1>5. CASE rows[u] = NoRow /\ rows' = [rows EXCEPT ![u] = row] /\ UNCHANGED muddled
  <2>1. u \notin muddled => spoken[u].count = 0
    BY <1>1, <1>5 DEF RecordsInv, CountsInv, NoRow
  <2>2. row.count <= spoken[u].count + 1 /\ (u \notin muddled => row.count = spoken[u].count + 1)
    BY <1>4, <2>1
  <2> QED  BY <1>1, <1>2, <1>3, <1>5, <2>2, RecordedKeeps
<1>6. CASE Fails(g)
  <2> DEFINE new == [nick |-> held[g].nick, count |-> spoken[u].count + 1]
  <2>1. new \in Row
    <3>1. held[g] \in Local  BY <1>1 DEF RecordsTypeOK
    <3> QED  BY <1>4, <3>1 DEF Local, Row
  <2>2. new.count <= spoken[u].count + 1 /\ new.count = spoken[u].count + 1  BY <1>4
  <2> QED  BY <1>1, <1>2, <1>6, <2>1, <2>2, RecordedKeeps
<1> QED  BY <1>5, <1>6 DEF InsertUser

LEMMA UpdateUserKeeps ==
  ASSUME RecordsInv, NEW g \in Goroutines, UpdateUser(g)
  PROVE  RecordsInv'
<1> DEFINE u == job[g].user
           row == [nick |-> held[g].nick, count |-> held[g].row.count + 1]
<1>1. RecordsTypeOK /\ Recording(g) /\ u \in Users /\ at[g] = "update"
  <2>1. Recording(g) /\ at[g] = "update"  BY DEF UpdateUser, Is, Recording
  <2> QED  BY <2>1 DEF RecordsInv, RecordingInv
<1>2. spoken' = Recorded(g) /\ Leave(g) /\ UNCHANGED <<cached, unsure>> /\ Tracking  BY DEF UpdateUser
<1>3. held[g].row.count \in Nat /\ row \in Row
  <2>1. held[g] \in Local  BY <1>1 DEF RecordsTypeOK
  <2> QED  BY <2>1 DEF Local, Row
<1>4. spoken[u].count \in Nat
  <2>1. spoken[u] \in Row  BY <1>1 DEF RecordsTypeOK
  <2> QED  BY <2>1 DEF Row
<1>5. held[g].row.count <= spoken[u].count  BY <1>1 DEF RecordsInv, CountsInv
<1>6. u \notin muddled => held[g].row.count = spoken[u].count
  <2>1. RecordsFor(g, u)  BY <1>1 DEF RecordsFor
  <2> QED  BY <1>1, <2>1 DEF RecordsInv, RecordingInv, CountsInv
<1>7. row.count <= spoken[u].count + 1 /\ (u \notin muddled => row.count = spoken[u].count + 1)
  BY <1>3, <1>4, <1>5, <1>6
<1>8. \/ rows' = [rows EXCEPT ![u] = row] /\ UNCHANGED muddled
      \/ Fails(g)
  BY DEF UpdateUser
<1> QED  BY <1>1, <1>2, <1>3, <1>7, <1>8, RecordedKeeps

----------------------------------------------------------------------------
(* The commands *)

LEMMA DoneTypes ==
  ASSUME RecordsTypeOK, NEW g \in Goroutines, Done(g)
  PROVE  /\ at' \in [Goroutines -> Places] /\ at'[g] = "idle"
         /\ job' \in [Goroutines -> Job] /\ held' \in [Goroutines -> Local]
         /\ \A h \in Goroutines : h # g => at'[h] = at[h] /\ job'[h] = job[h] /\ held'[h] = held[h]
<1>1. "idle" \in Places  BY DEF Places
<1> QED  BY <1>1, FreshLocals DEF RecordsTypeOK, Done, Go

LEMMA SureTypes == \A n : Sure(n) \subseteq Users /\ Doubted(n) \subseteq Users /\ Named(n) \subseteq Users
BY DEF Sure, Doubted, Named

\* Who was found, or known, goes into the locals of the goroutine.
LEMMA ResolveTypes ==
  ASSUME RecordsInv, NEW g \in Goroutines, resolveUserByNickFromCache(g)
  PROVE  /\ RecordsTypeOK' /\ job' = job /\ Blocking
         /\ \A h \in Goroutines : h # g => at'[h] = at[h] /\ held'[h] = held[h]
         /\ held'[g].sure = Sure(Wanted(g)) /\ held'[g].doubt = Doubted(Wanted(g))
         /\ \/ /\ at'[g] = "block" /\ Cardinality(Named(Wanted(g))) = 1
               /\ held'[g].target \in Named(Wanted(g))
            \/ at'[g] = "lookup" /\ Cardinality(Named(Wanted(g))) # 1
<1> DEFINE sure == Sure(Wanted(g))
           doubt == Doubted(Wanted(g))
           named == Named(Wanted(g))
<1>1. RecordsTypeOK /\ Blocking /\ held \in [Goroutines -> Local]
  BY DEF RecordsInv, resolveUserByNickFromCache, RecordsTypeOK
<1>2. sure \subseteq Users /\ doubt \subseteq Users /\ named \subseteq Users  BY SureTypes
<1>3. "block" \in Places /\ "lookup" \in Places  BY DEF Places
<1>4. CASE Cardinality(named) = 1
  <2>1. PICK u \in named : ByMember(g, u)  BY <1>4 DEF resolveUserByNickFromCache
  <2>2. /\ Go(g, "block") /\ job' = job /\ u \in Users
        /\ held' = [held EXCEPT ![g].target = u, ![g].sure = sure, ![g].doubt = doubt]
    BY <2>1, <1>2 DEF ByMember
  <2> HIDE DEF sure, doubt
  <2>3. /\ held' \in [Goroutines -> Local] /\ \A h \in Goroutines : h # g => held'[h] = held[h]
        /\ held'[g].sure = sure /\ held'[g].doubt = doubt /\ held'[g].target = u
    BY <1>1, <1>2, <2>2 DEF Local
  <2>4. /\ at' \in [Goroutines -> Places] /\ at'[g] = "block"
        /\ \A h \in Goroutines : h # g => at'[h] = at[h]
    BY <1>1, <1>3, <2>2, GoTypes
  <2>5. RecordsTypeOK'  BY <1>1, <2>2, <2>3, <2>4 DEF RecordsTypeOK, Blocking, names
  <2> QED  BY <1>1, <1>4, <2>1, <2>2, <2>3, <2>4, <2>5 DEF sure, doubt
<1>5. CASE Cardinality(named) # 1
  <2>1. /\ Go(g, "lookup") /\ job' = job
        /\ held' = [held EXCEPT ![g].sure = sure, ![g].doubt = doubt]
    BY <1>5 DEF resolveUserByNickFromCache, NotOne
  <2> HIDE DEF sure, doubt
  <2>2. /\ held' \in [Goroutines -> Local] /\ \A h \in Goroutines : h # g => held'[h] = held[h]
        /\ held'[g].sure = sure /\ held'[g].doubt = doubt
    BY <1>1, <1>2, <2>1 DEF Local
  <2>3. /\ at' \in [Goroutines -> Places] /\ at'[g] = "lookup"
        /\ \A h \in Goroutines : h # g => at'[h] = at[h]
    BY <1>1, <1>3, <2>1, GoTypes
  <2>4. RecordsTypeOK'  BY <1>1, <2>1, <2>2, <2>3 DEF RecordsTypeOK, Blocking, names
  <2> QED  BY <1>1, <1>5, <2>1, <2>2, <2>3, <2>4 DEF sure, doubt
<1> QED  BY <1>4, <1>5

LEMMA ResolveKeeps ==
  ASSUME RecordsInv, NEW g \in Goroutines, resolveUserByNickFromCache(g)
  PROVE  RecordsInv'
<1>1. /\ RecordsTypeOK' /\ UNCHANGED <<rows, spoken, muddled, job>> /\ at'[g] \in {"block", "lookup"}
      /\ \A h \in Goroutines : h # g => at'[h] = at[h] /\ held'[h] = held[h]
  BY ResolveTypes DEF Blocking
<1> QED  BY <1>1, ElsewhereKeeps

\* A row of the name is found, or none.
LEMMA GetLastSeenTypes ==
  ASSUME RecordsInv, NEW g \in Goroutines, GetLastSeen(g)
  PROVE  /\ RecordsTypeOK' /\ Blocking /\ at[g] = "lookup"
         /\ \A h \in Goroutines : h # g => at'[h] = at[h] /\ job'[h] = job[h] /\ held'[h] = held[h]
         /\ \/ at'[g] = "idle"
            \/ /\ at'[g] = "blockRow" /\ job'[g] = job[g]
               /\ held'[g].sure = held[g].sure /\ held'[g].doubt = held[g].doubt
               /\ \E u \in Users :
                    /\ held'[g].target = u /\ rows[u].nick = Wanted(g)
                    /\ held'[g].spoke = (spoken[u].nick = Wanted(g) \/ u \in muddled)
<1>1. RecordsTypeOK /\ at[g] = "lookup" /\ Blocking /\ held \in [Goroutines -> Local]
  BY DEF RecordsInv, RecordsTypeOK, GetLastSeen, Is
<1>2. CASE Done(g)
  <2>1. RecordsTypeOK'  BY <1>1, <1>2, DoneTypes DEF RecordsTypeOK, Blocking, names
  <2> QED  BY <1>1, <1>2, <2>1, DoneTypes
<1>3. CASE \E u \in Users :
             /\ rows[u].nick = Wanted(g) /\ Go(g, "blockRow") /\ UNCHANGED job
             /\ held' = [held EXCEPT ![g].target = u,
                                    ![g].spoke = spoken[u].nick = Wanted(g) \/ u \in muddled]
  <2>1. PICK u \in Users :
          /\ rows[u].nick = Wanted(g) /\ Go(g, "blockRow") /\ UNCHANGED job
          /\ held' = [held EXCEPT ![g].target = u,
                                 ![g].spoke = spoken[u].nick = Wanted(g) \/ u \in muddled]
    BY <1>3
  <2> DEFINE spoke == spoken[u].nick = Wanted(g) \/ u \in muddled
  <2>2. held' = [held EXCEPT ![g].target = u, ![g].spoke = spoke] /\ spoke \in BOOLEAN  BY <2>1
  <2> HIDE DEF spoke
  <2>3. /\ held' \in [Goroutines -> Local] /\ \A h \in Goroutines : h # g => held'[h] = held[h]
        /\ held'[g].target = u /\ held'[g].spoke = spoke
        /\ held'[g].sure = held[g].sure /\ held'[g].doubt = held[g].doubt
    BY <1>1, <2>2 DEF Local
  <2>4. "blockRow" \in Places  BY DEF Places
  <2>5. /\ at' \in [Goroutines -> Places] /\ at'[g] = "blockRow"
        /\ \A h \in Goroutines : h # g => at'[h] = at[h]
    BY <1>1, <2>1, <2>4, GoTypes
  <2>6. RecordsTypeOK'  BY <1>1, <2>1, <2>3, <2>5 DEF RecordsTypeOK, Blocking, names
  <2> QED  BY <1>1, <2>1, <2>3, <2>5, <2>6 DEF spoke
<1> QED  BY <1>2, <1>3 DEF GetLastSeen

LEMMA GetLastSeenKeeps ==
  ASSUME RecordsInv, NEW g \in Goroutines, GetLastSeen(g)
  PROVE  RecordsInv'
<1>1. /\ RecordsTypeOK' /\ UNCHANGED <<rows, spoken, muddled>> /\ at'[g] \in {"idle", "blockRow"}
      /\ \A h \in Goroutines : h # g => at'[h] = at[h] /\ job'[h] = job[h] /\ held'[h] = held[h]
  BY GetLastSeenTypes DEF Blocking
<1> QED  BY <1>1, ElsewhereKeeps

LEMMA BlockKeeps ==
  ASSUME RecordsInv, NEW g \in Goroutines, Block(g)
  PROVE  RecordsInv'
<1>1. RecordsTypeOK /\ Done(g) /\ Blocking  BY DEF RecordsInv, Block
<1>2. RecordsTypeOK'  BY <1>1, DoneTypes DEF RecordsTypeOK, Blocking, names
<1> QED  BY <1>1, <1>2, DoneTypes, ElsewhereKeeps DEF Blocking

----------------------------------------------------------------------------
(* The theorems *)

LEMMA RecordsInit == Init => RecordsInv
<1> SUFFICES ASSUME Init PROVE RecordsInv  OBVIOUS
<1>1. /\ nick \in [Users -> Nicks] /\ had = [u \in Users |-> {nick[u]}]
      /\ \E known \in SUBSET Users : cached = [u \in Users |-> IF u \in known THEN nick[u] ELSE Nobody]
      /\ updates = {} /\ unsure = {} /\ muddled = {}
      /\ backlog = <<>> /\ log = <<>>
      /\ rows = [u \in Users |-> NoRow] /\ spoken = [u \in Users |-> NoRow]
      /\ at = [g \in Goroutines |-> "idle"] /\ job = [g \in Goroutines |-> NoJob]
      /\ held = [g \in Goroutines |-> Locals] /\ sent = [messages |-> 0, commands |-> 0, renames |-> 0]
  BY DEF Init
<1>2. RecordsTypeOK
  <2>1. backlog \in Seq(Entry) /\ log \in Seq(Logged)  BY <1>1
  <2>2. rows \in [Users -> Row] /\ spoken \in [Users -> Row]  BY <1>1, FreshLocals
  <2>3. job \in [Goroutines -> Job] /\ held \in [Goroutines -> Local]  BY <1>1, FreshLocals
  <2>4. at \in [Goroutines -> Places]  BY <1>1 DEF Places
  <2>5. sent \in [messages : Nat, commands : Nat, renames : Nat]  BY <1>1
  <2>6. cached \in [Users -> Nicks \cup {Nobody}] /\ had \in [Users -> SUBSET Nicks]  BY <1>1
  <2> QED  BY <1>1, <2>1, <2>2, <2>3, <2>4, <2>5, <2>6 DEF RecordsTypeOK
<1>3. \A g \in Goroutines : at[g] = "idle"  BY <1>1
<1>4. RecordingInv  BY <1>3 DEF RecordingInv, RecordsFor, Recording
<1>5. CountsInv  BY <1>1, <1>3 DEF CountsInv, NoRow
<1> QED  BY <1>2, <1>4, <1>5 DEF RecordsInv

LEMMA RecordsStep == RecordsInv /\ [Next]_vars => RecordsInv'
<1> SUFFICES ASSUME RecordsInv, [Next]_vars PROVE RecordsInv'  OBVIOUS
<1>1. ASSUME NEW g \in Goroutines, Step(g)  PROVE RecordsInv'
  BY <1>1, ArrivalKeeps, BacklogKeeps, NoAuthorKeeps, KnowAuthorKeeps, AskForAuthorKeeps,
     StoreAuthorKeeps, SelectUserKeeps, InsertUserKeeps, UpdateUserKeeps, ResolveKeeps,
     GetLastSeenKeeps, BlockKeeps DEF Step, BacklogStep
<1>2. CASE Rename  BY <1>2, RenameKeeps
<1>3. CASE StoreName  BY <1>3, StoreNameKeeps
<1>4. CASE UNCHANGED vars
  <2>1. RecordsTypeOK'  BY <1>4 DEF vars, names, RecordsInv, RecordsTypeOK
  <2>2. RecordingInv'  BY <1>4 DEF vars, RecordsInv, RecordingInv, RecordsFor, Recording
  <2>3. CountsInv'  BY <1>4 DEF vars, RecordsInv, CountsInv
  <2> QED  BY <2>1, <2>2, <2>3 DEF RecordsInv
<1> QED  BY <1>1, <1>2, <1>3, <1>4 DEF Next

\* The invariant holds for any users, messages and goroutines
\* (db/user_tracking.go, triggers/blocklist.go).
THEOREM RecordsInvariance == Spec => []RecordsInv
<1> QED  BY RecordsInit, RecordsStep, PTL DEF Spec

\* The backlog, the rows and the goroutines' locals have their types.
THEOREM RecordsTypeCorrect == Spec => []RecordsTypeOK
<1>1. RecordsInv => RecordsTypeOK  BY DEF RecordsInv
<1> QED  BY <1>1, RecordsInvariance, PTL

\* A user's row counts the messages and edits recorded for them and has the name
\* the bot knew them by at the last one, unless two were recorded at once or a
\* statement failed, and never counts more (UpsertLastSeen).
THEOREM CountsCorrect == Spec => []CountsAreMessages
<1>1. RecordsInv => CountsAreMessages  BY DEF RecordsInv, CountsInv, CountsAreMessages
<1> QED  BY <1>1, RecordsInvariance, PTL

----------------------------------------------------------------------------
(* The names and the blocks *)

\* A user whose name is not in doubt has the same name at Discord, on every way to
\* the cache and, with none under way, in the cache.
FreshInv ==
  \A u \in Users : u \notin unsure =>
    /\ \A e \in updates : e.user = u => e.nick = nick[u]
    /\ \A g \in Goroutines : at[g] = "answer" /\ job[g].user = u => held[g].nick = nick[u]
    /\ ~Writing(u) /\ cached[u] # Nobody => cached[u] = nick[u]

\* Wherever a name is kept, its user has it, or had it.
HadInv ==
  /\ \A u \in Users : /\ nick[u] \in had[u]
                      /\ cached[u] \in had[u] \cup {Nobody} /\ rows[u].nick \in had[u] \cup {Nobody}
  /\ \A e \in updates : e.nick \in had[e.user]
HadBy(g) == Recording(g) \/ at[g] = "answer" => held[g].nick \in had[job[g].user]

\* What a goroutine with a command knows at each of its places.
BlocksFor(g) ==
  LET u == held[g].target
      sure == held[g].sure
      doubt == held[g].doubt
  IN /\ at[g] \in {"resolve", "lookup"} => Wanted(g) \in Nicks
     /\ at[g] \in {"lookup", "blockRow"} => Cardinality(sure) # 1 \/ doubt # {}
     /\ at[g] \in {"block", "blockRow"} => u \in Users /\ Wanted(g) \in had[u]
     /\ at[g] = "block" => u \in sure \cup doubt /\ sure \subseteq {u}
     /\ at[g] = "blockRow" => held[g].spoke

NamesInv == FreshInv /\ HadInv /\ \A g \in Goroutines : HadBy(g) /\ BlocksFor(g)

\* A step of one goroutine that brings no name to the cache.
LEMMA OthersNames ==
  ASSUME NamesInv, UNCHANGED names, \A u \in Users : rows'[u].nick \in had[u] \cup {Nobody},
         NEW g \in Goroutines, at[g] # "answer", at'[g] # "answer", HadBy(g)', BlocksFor(g)',
         \A h \in Goroutines : h # g => at'[h] = at[h] /\ job'[h] = job[h] /\ held'[h] = held[h]
  PROVE  NamesInv'
<1>1. UNCHANGED <<nick, cached, updates, had, unsure>>  BY DEF names
<1>2. \A u \in Users : Writing(u)' <=> Writing(u)  BY <1>1 DEF Writing
<1>3. \A h \in Goroutines : at'[h] = "answer" =>
         at[h] = "answer" /\ job'[h] = job[h] /\ held'[h] = held[h]
  OBVIOUS
<1>4. FreshInv'  BY <1>1, <1>2, <1>3 DEF NamesInv, FreshInv
<1>5. HadInv'  BY <1>1 DEF NamesInv, HadInv
<1>6. ASSUME NEW h \in Goroutines, h # g  PROVE HadBy(h)' /\ BlocksFor(h)'
  <2>1. HadBy(h) /\ BlocksFor(h)  BY DEF NamesInv
  <2>2. at'[h] = at[h] /\ job'[h] = job[h] /\ held'[h] = held[h] /\ had' = had  BY <1>1, <1>6
  <2> QED  BY <2>1, <2>2 DEF HadBy, BlocksFor, Recording, Wanted
<1> QED  BY <1>4, <1>5, <1>6 DEF NamesInv

\* A message without its author's name is done, or is a command.
LEMMA LeaveNames ==
  ASSUME RecordsInv, NamesInv, NEW g \in Goroutines, Leave(g), UNCHANGED names,
         \A u \in Users : rows'[u].nick \in had[u] \cup {Nobody}, at[g] # "answer"
  PROVE  NamesInv'
<1>1. RecordsTypeOK  BY DEF RecordsInv
<1>2. /\ at'[g] \in {"idle", "resolve"}
      /\ \A h \in Goroutines : h # g => at'[h] = at[h] /\ job'[h] = job[h] /\ held'[h] = held[h]
  BY <1>1, LeaveTypes
<1>3. at'[g] = "resolve" => Wanted(g)' \in Nicks
  BY <1>1 DEF Leave, Done, Go, Wanted, RecordsTypeOK
<1>4. HadBy(g)' /\ BlocksFor(g)'  BY <1>2, <1>3 DEF HadBy, BlocksFor, Recording
<1> QED  BY <1>2, <1>4, OthersNames

LEMMA ArrivalNames ==
  ASSUME RecordsInv, NamesInv, NEW g \in Goroutines, MessageArrives(g) \/ EditArrives(g)
  PROVE  NamesInv'
<1>1. RecordsTypeOK  BY DEF RecordsInv
<1>2. /\ at[g] # "answer" /\ at'[g] \in AtBacklog /\ at'[g] # "answer" /\ UNCHANGED <<names, rows>>
      /\ \A h \in Goroutines : h # g => at'[h] = at[h] /\ job'[h] = job[h] /\ held'[h] = held[h]
  BY <1>1, ArrivalTypes DEF AtBacklog
<1>3. HadBy(g)' /\ BlocksFor(g)'  BY <1>2 DEF AtBacklog, HadBy, BlocksFor, Recording
<1>4. \A u \in Users : rows'[u].nick \in had[u] \cup {Nobody}  BY <1>2 DEF NamesInv, HadInv
<1> QED  BY <1>2, <1>3, <1>4, OthersNames

LEMMA BacklogNames ==
  ASSUME RecordsInv, NamesInv, NEW g \in Goroutines, BacklogStep(g)
  PROVE  NamesInv'
<1>1. RecordsTypeOK  BY DEF RecordsInv
<1>2. /\ at[g] \in AtBacklog /\ at'[g] \in AtBacklog \cup {"handle"}
      /\ UNCHANGED <<names, rows, job>>
      /\ \A h \in Goroutines : h # g => at'[h] = at[h] /\ held'[h] = held[h]
  BY <1>1, BacklogStepTypes DEF Backlogging
<1>3. HadBy(g)' /\ BlocksFor(g)'  BY <1>2 DEF AtBacklog, HadBy, BlocksFor, Recording
<1>4. at[g] # "answer" /\ at'[g] # "answer"  BY <1>2 DEF AtBacklog
<1>5. \A u \in Users : rows'[u].nick \in had[u] \cup {Nobody}  BY <1>2 DEF NamesInv, HadInv
<1> QED  BY <1>2, <1>3, <1>4, <1>5, OthersNames

\* A new name comes with an event, or unnoticed.
LEMMA RenameNames ==
  ASSUME RecordsInv, NamesInv, Rename
  PROVE  NamesInv'
<1>1. UNCHANGED <<cached, rows, at, job, held>>  BY DEF Rename
<1>2. PICK v \in Users, n \in Nicks :
        /\ nick' = [nick EXCEPT ![v] = n] /\ had' = [had EXCEPT ![v] = @ \cup {n}]
        /\ \/ updates' = updates \cup {[user |-> v, nick |-> n, no |-> sent'.renames]} /\ Brings(v)
           \/ unsure' = unsure \cup {v} /\ UNCHANGED updates
  BY RecordsConstants DEF Rename
<1>3. /\ nick'[v] = n /\ n \in had'[v]
      /\ \A u \in Users : u # v => nick'[u] = nick[u] /\ had'[u] = had[u]
      /\ \A u \in Users : had[u] \subseteq had'[u]
  BY <1>2 DEF RecordsInv, RecordsTypeOK
<1> DEFINE event == [user |-> v, nick |-> n, no |-> sent'.renames]
<1>4. event.user = v /\ event.nick = n  OBVIOUS
<1>5. updates \subseteq updates' /\ updates' \subseteq updates \cup {event}  BY <1>2
<1> HIDE DEF event
<1>6. \A e \in updates : e.user \in Users  BY DEF RecordsInv, RecordsTypeOK, Update
<1>7. \A u \in Users : Writing(u) => Writing(u)'  BY <1>1, <1>5 DEF Writing
<1>8. ASSUME NEW u \in Users, u # v, u \notin unsure'
      PROVE  /\ \A e \in updates' : e.user = u => e.nick = nick'[u]
             /\ \A g \in Goroutines : at'[g] = "answer" /\ job'[g].user = u => held'[g].nick = nick'[u]
             /\ ~Writing(u)' /\ cached'[u] # Nobody => cached'[u] = nick'[u]
  <2>1. u \notin unsure  BY <1>2, <1>8 DEF Brings
  <2> QED  BY <2>1, <1>1, <1>3, <1>4, <1>5, <1>7, <1>8 DEF NamesInv, FreshInv
<1>9. ASSUME v \notin unsure'
      PROVE  /\ \A e \in updates' : e.user = v => e.nick = nick'[v]
             /\ \A g \in Goroutines : at'[g] = "answer" /\ job'[g].user = v => held'[g].nick = nick'[v]
             /\ Writing(v)'
  <2>1. updates' = updates \cup {event} /\ ~Writing(v)  BY <1>2, <1>9 DEF Brings, event
  <2>2. Writing(v)'  BY <2>1, <1>4 DEF Writing
  <2> QED  BY <2>1, <2>2, <1>1, <1>3, <1>4 DEF Writing
<1>10. FreshInv'  BY <1>8, <1>9 DEF FreshInv
<1>11. HadInv'
  <2>1. ASSUME NEW e \in updates'  PROVE e.nick \in had'[e.user]
    <3>1. CASE e = event  BY <3>1, <1>3, <1>4
    <3>2. CASE e \in updates  BY <3>2, <1>3, <1>6 DEF NamesInv, HadInv
    <3> QED  BY <1>5, <3>1, <3>2
  <2>2. \A u \in Users : nick'[u] \in had'[u]  BY <1>3 DEF NamesInv, HadInv
  <2>3. \A u \in Users : /\ cached'[u] \in had'[u] \cup {Nobody}
                         /\ rows'[u].nick \in had'[u] \cup {Nobody}
    BY <1>1, <1>3 DEF NamesInv, HadInv
  <2> QED  BY <2>1, <2>2, <2>3 DEF HadInv
<1>12. ASSUME NEW g \in Goroutines  PROVE HadBy(g)' /\ BlocksFor(g)'
  <2>1. HadBy(g) /\ BlocksFor(g)  BY DEF NamesInv
  <2>2. Recording(g) \/ at[g] = "answer" => job[g].user \in Users
    BY DEF RecordsInv, RecordingInv
  <2>3. HadBy(g)'  BY <1>1, <1>3, <2>1, <2>2 DEF HadBy, Recording
  <2>4. BlocksFor(g)'  BY <1>1, <1>3, <2>1 DEF BlocksFor, Wanted
  <2> QED  BY <2>3, <2>4
<1> QED  BY <1>10, <1>11, <1>12 DEF NamesInv

LEMMA StoreNameNames ==
  ASSUME RecordsInv, NamesInv, StoreName
  PROVE  NamesInv'
<1>1. UNCHANGED <<nick, had, unsure, rows, at, job, held>>  BY DEF StoreName
<1>2. PICK e \in updates :
        cached' = [cached EXCEPT ![e.user] = e.nick] /\ updates' = updates \ {e}
  BY DEF StoreName
<1>3. e.user \in Users /\ Writing(e.user)  BY DEF RecordsInv, RecordsTypeOK, Update, Writing
<1>4. /\ cached'[e.user] = e.nick
      /\ \A u \in Users : u # e.user => cached'[u] = cached[u]
  BY <1>2, <1>3 DEF RecordsInv, RecordsTypeOK
<1>5. \A u \in Users : u # e.user => (Writing(u)' <=> Writing(u))  BY <1>1, <1>2 DEF Writing
<1>6. FreshInv'
  <2> SUFFICES ASSUME NEW u \in Users, u \notin unsure'
               PROVE  /\ \A x \in updates' : x.user = u => x.nick = nick'[u]
                      /\ \A g \in Goroutines :
                           at'[g] = "answer" /\ job'[g].user = u => held'[g].nick = nick'[u]
                      /\ ~Writing(u)' /\ cached'[u] # Nobody => cached'[u] = nick'[u]
    BY DEF FreshInv
  <2>1. u \notin unsure  BY <1>1
  <2>2. /\ \A x \in updates' : x.user = u => x.nick = nick'[u]
        /\ \A g \in Goroutines : at'[g] = "answer" /\ job'[g].user = u => held'[g].nick = nick'[u]
    BY <2>1, <1>1, <1>2 DEF NamesInv, FreshInv
  <2>3. CASE u = e.user
    <3>1. e.nick = nick[u]  BY <2>1, <2>3 DEF NamesInv, FreshInv
    <3> QED  BY <2>2, <2>3, <3>1, <1>1, <1>4
  <2>4. CASE u # e.user
    <3>1. ~Writing(u) /\ cached[u] # Nobody => cached[u] = nick[u]
      BY <2>1 DEF NamesInv, FreshInv
    <3> QED  BY <2>2, <2>4, <3>1, <1>1, <1>4, <1>5
  <2> QED  BY <2>3, <2>4
<1>7. HadInv'  BY <1>1, <1>2, <1>4 DEF NamesInv, HadInv
<1>8. \A g \in Goroutines : HadBy(g)' /\ BlocksFor(g)'
  BY <1>1 DEF NamesInv, HadBy, BlocksFor, Recording, Wanted
<1> QED  BY <1>6, <1>7, <1>8 DEF NamesInv

LEMMA AskForAuthorNames ==
  ASSUME RecordsInv, NamesInv, NEW g \in Goroutines, AskForAuthor(g)
  PROVE  NamesInv'
<1> DEFINE v == job[g].user
<1>1. RecordsTypeOK /\ at[g] = "handle" /\ v # Nobody  BY DEF RecordsInv, AskForAuthor, Is
<1>2. v \in Users
  <2>1. job[g] \in Job  BY <1>1 DEF RecordsTypeOK
  <2> QED  BY <1>1, <2>1 DEF Job
<1>3. UNCHANGED <<nick, cached, updates, had, rows>>  BY DEF AskForAuthor, Tracking
<1>4. \A u \in Users : rows'[u].nick \in had[u] \cup {Nobody}  BY <1>3 DEF NamesInv, HadInv
<1> HIDE DEF v
<1>5. CASE Leave(g) /\ UNCHANGED unsure
  <2>1. UNCHANGED names  BY <1>3, <1>5 DEF names
  <2> QED  BY <1>1, <1>4, <1>5, <2>1, LeaveNames
<1>6. CASE /\ Go(g, "answer") /\ held' = [held EXCEPT ![g].nick = nick[v]]
           /\ Brings(v) /\ UNCHANGED job
  <2>1. /\ at'[g] = "answer" /\ held'[g].nick = nick[v]
        /\ \A h \in Goroutines : h # g => at'[h] = at[h] /\ held'[h] = held[h]
    BY <1>1, <1>6 DEF RecordsTypeOK, Go, Local
  <2>2. \A u \in Users : Writing(u) => Writing(u)'  BY <1>1, <1>3, <1>6, <2>1 DEF Writing
  <2>3. FreshInv'
    <3> SUFFICES ASSUME NEW u \in Users, u \notin unsure'
                 PROVE  /\ \A x \in updates' : x.user = u => x.nick = nick'[u]
                        /\ \A h \in Goroutines :
                             at'[h] = "answer" /\ job'[h].user = u => held'[h].nick = nick'[u]
                        /\ ~Writing(u)' /\ cached'[u] # Nobody => cached'[u] = nick'[u]
      BY DEF FreshInv
    <3>1. CASE u = v
      <4>1. ~Writing(v)  BY <1>6, <3>1 DEF Brings
      <4>2. \A x \in updates' : x.user # v  BY <1>3, <4>1 DEF Writing
      <4>3. \A h \in Goroutines : at'[h] = "answer" /\ job'[h].user = v => h = g
        BY <1>6, <2>1, <4>1 DEF Writing
      <4>4. \A x \in updates' : x.user = u => x.nick = nick'[u]
        <5>1. \A x \in updates' : x.user # u  BY <3>1, <4>2
        <5> QED  BY <5>1
      <4>5. \A h \in Goroutines : at'[h] = "answer" /\ job'[h].user = u => held'[h].nick = nick'[u]
        BY <1>3, <2>1, <3>1, <4>3
      <4>6. Writing(u)'  BY <1>6, <2>1, <3>1 DEF Writing, v
      <4> QED  BY <4>4, <4>5, <4>6
    <3>2. CASE u # v
      <4>1. u \notin unsure  BY <1>6, <3>2 DEF Brings
      <4>2. \A h \in Goroutines : at'[h] = "answer" /\ job'[h].user = u =>
              h # g /\ at[h] = "answer" /\ job[h].user = u /\ held'[h] = held[h]
        BY <1>6, <2>1, <3>2 DEF v
      <4> QED  BY <1>3, <2>2, <4>1, <4>2 DEF NamesInv, FreshInv
    <3> QED  BY <3>1, <3>2
  <2>4. HadInv'  BY <1>3 DEF NamesInv, HadInv
  <2>5. ASSUME NEW h \in Goroutines  PROVE HadBy(h)' /\ BlocksFor(h)'
    <3>1. HadBy(h) /\ BlocksFor(h)  BY DEF NamesInv
    <3>2. CASE h = g
      <4>1. nick[v] \in had[v]  BY <1>2 DEF NamesInv, HadInv
      <4> QED  BY <1>3, <1>6, <2>1, <3>2, <4>1 DEF HadBy, BlocksFor, v
    <3>3. CASE h # g
      <4>1. at'[h] = at[h] /\ job'[h] = job[h] /\ held'[h] = held[h] /\ had' = had
        BY <1>3, <1>6, <2>1, <3>3
      <4> QED  BY <3>1, <4>1 DEF HadBy, BlocksFor, Recording, Wanted
    <3> QED  BY <3>2, <3>3
  <2> QED  BY <2>3, <2>4, <2>5 DEF NamesInv
<1> QED  BY <1>5, <1>6 DEF AskForAuthor, v

LEMMA StoreAuthorNames ==
  ASSUME RecordsInv, NamesInv, NEW g \in Goroutines, StoreAuthor(g)
  PROVE  NamesInv'
<1> DEFINE v == job[g].user
<1>1. /\ RecordsTypeOK /\ at[g] = "answer" /\ Go(g, "select")
      /\ cached' = [cached EXCEPT ![v] = held[g].nick]
      /\ UNCHANGED <<nick, updates, had, unsure, job, held, rows>>
  BY DEF RecordsInv, StoreAuthor, Tracking, Is
<1>2. v \in Users /\ Writing(v) /\ held[g].nick \in had[v]
  BY <1>1 DEF RecordsInv, RecordingInv, Writing, NamesInv, HadBy
<1> HIDE DEF v
<1>3. at'[g] = "select" /\ \A h \in Goroutines : h # g => at'[h] = at[h]
  BY <1>1 DEF RecordsTypeOK, Go
<1>4. cached'[v] = held[g].nick /\ \A u \in Users : u # v => cached'[u] = cached[u]
  BY <1>1, <1>2 DEF RecordsTypeOK
<1>5. \A u \in Users : u # v => (Writing(u)' <=> Writing(u))  BY <1>1, <1>3 DEF Writing, v
<1>6. FreshInv'
  <2> SUFFICES ASSUME NEW u \in Users, u \notin unsure'
               PROVE  /\ \A x \in updates' : x.user = u => x.nick = nick'[u]
                      /\ \A h \in Goroutines :
                           at'[h] = "answer" /\ job'[h].user = u => held'[h].nick = nick'[u]
                      /\ ~Writing(u)' /\ cached'[u] # Nobody => cached'[u] = nick'[u]
    BY DEF FreshInv
  <2>1. u \notin unsure  BY <1>1
  <2>2. /\ \A x \in updates' : x.user = u => x.nick = nick'[u]
        /\ \A h \in Goroutines : at'[h] = "answer" /\ job'[h].user = u => held'[h].nick = nick'[u]
    BY <2>1, <1>1, <1>3 DEF NamesInv, FreshInv
  <2>3. CASE u = v
    <3>1. held[g].nick = nick[u]  BY <1>1, <2>1, <2>3 DEF NamesInv, FreshInv, v
    <3> QED  BY <2>2, <2>3, <3>1, <1>1, <1>4
  <2>4. CASE u # v
    <3>1. ~Writing(u) /\ cached[u] # Nobody => cached[u] = nick[u]
      BY <2>1 DEF NamesInv, FreshInv
    <3> QED  BY <2>2, <2>4, <3>1, <1>1, <1>4, <1>5
  <2> QED  BY <2>3, <2>4
<1>7. HadInv'  BY <1>1, <1>2, <1>4 DEF NamesInv, HadInv
<1>8. ASSUME NEW h \in Goroutines  PROVE HadBy(h)' /\ BlocksFor(h)'
  <2>1. HadBy(h) /\ BlocksFor(h)  BY DEF NamesInv
  <2>2. CASE h = g  BY <1>1, <1>2, <1>3, <2>2 DEF HadBy, BlocksFor, v
  <2>3. CASE h # g  BY <1>1, <1>3, <2>1, <2>3 DEF HadBy, BlocksFor, Recording, Wanted
  <2> QED  BY <2>2, <2>3
<1> QED  BY <1>6, <1>7, <1>8 DEF NamesInv

LEMMA KnowAuthorNames ==
  ASSUME RecordsInv, NamesInv, NEW g \in Goroutines, KnowAuthor(g)
  PROVE  NamesInv'
<1> DEFINE v == job[g].user
           n == cached[v]
<1>1. /\ RecordsTypeOK /\ at[g] = "handle" /\ v # Nobody /\ n # Nobody /\ Go(g, "select")
      /\ held' = [held EXCEPT ![g].nick = n]
      /\ UNCHANGED <<names, job, rows>>
  BY DEF RecordsInv, KnowAuthor, Tracking, Is, names
<1>2. v \in Users
  <2>1. job[g] \in Job  BY <1>1 DEF RecordsTypeOK
  <2> QED  BY <1>1, <2>1 DEF Job
<1>3. n \in had[v] /\ had' = had  BY <1>1, <1>2 DEF NamesInv, HadInv, names
<1> HIDE DEF n
<1>4. /\ at'[g] = "select" /\ held'[g].nick = n
      /\ \A h \in Goroutines : h # g => at'[h] = at[h] /\ job'[h] = job[h] /\ held'[h] = held[h]
  BY <1>1 DEF RecordsTypeOK, Go, Local
<1>5. HadBy(g)' /\ BlocksFor(g)'  BY <1>1, <1>3, <1>4 DEF HadBy, BlocksFor
<1>6. \A u \in Users : rows'[u].nick \in had[u] \cup {Nobody}  BY <1>1 DEF NamesInv, HadInv
<1> QED  BY <1>1, <1>4, <1>5, <1>6, OthersNames

LEMMA SelectUserNames ==
  ASSUME RecordsInv, NamesInv, NEW g \in Goroutines, SelectUser(g)
  PROVE  NamesInv'
<1>1. /\ RecordsTypeOK /\ at[g] = "select" /\ UNCHANGED <<names, job, rows>>
      /\ \/ Go(g, "update") /\ held' = [held EXCEPT ![g].row = rows[job[g].user]]
         \/ Go(g, "insert") /\ held' = held
  BY DEF RecordsInv, SelectUser, Tracking, Is, names
<1>2. /\ at'[g] \in {"update", "insert"} /\ held'[g].nick = held[g].nick
      /\ \A h \in Goroutines : h # g => at'[h] = at[h] /\ job'[h] = job[h] /\ held'[h] = held[h]
  <2> DEFINE row == rows[job[g].user]
  <2>1. \/ Go(g, "update") /\ held' = [held EXCEPT ![g].row = row]
        \/ Go(g, "insert") /\ held' = held
    BY <1>1
  <2> HIDE DEF row
  <2> QED  BY <1>1, <2>1 DEF RecordsTypeOK, Go, Local
<1>3. HadBy(g) /\ Recording(g) /\ had' = had  BY <1>1 DEF NamesInv, Recording, names
<1>4. HadBy(g)' /\ BlocksFor(g)'  BY <1>1, <1>2, <1>3 DEF HadBy, BlocksFor
<1>5. \A u \in Users : rows'[u].nick \in had[u] \cup {Nobody}  BY <1>1 DEF NamesInv, HadInv
<1> QED  BY <1>1, <1>2, <1>4, <1>5, OthersNames

\* What is written to a row has the name its writer had.
LEMMA WrittenNames ==
  ASSUME RecordsInv, NamesInv, NEW g \in Goroutines, InsertUser(g) \/ UpdateUser(g)
  PROVE  NamesInv'
<1>1. RecordsTypeOK /\ Recording(g) /\ Leave(g) /\ UNCHANGED names /\ at[g] # "answer"
  BY DEF RecordsInv, InsertUser, UpdateUser, Tracking, Is, Recording, names
<1>2. job[g].user \in Users /\ held[g].nick \in had[job[g].user]
  BY <1>1 DEF RecordsInv, RecordingInv, NamesInv, HadBy
<1>3. \/ rows' = rows
      \/ \E c : rows' = [rows EXCEPT ![job[g].user] = [nick |-> held[g].nick, count |-> c]]
  BY DEF InsertUser, UpdateUser, Fails
<1>4. \A u \in Users : rows'[u].nick \in had[u] \cup {Nobody}
  <2>1. \A u \in Users : rows[u].nick \in had[u] \cup {Nobody}  BY DEF NamesInv, HadInv
  <2>2. CASE rows' = rows  BY <2>1, <2>2
  <2>3. ASSUME NEW c, rows' = [rows EXCEPT ![job[g].user] = [nick |-> held[g].nick, count |-> c]]
        PROVE  \A u \in Users : rows'[u].nick \in had[u] \cup {Nobody}
    <3>1. rows'[job[g].user].nick = held[g].nick  BY <1>1, <1>2, <2>3 DEF RecordsTypeOK
    <3>2. \A u \in Users : u # job[g].user => rows'[u] = rows[u]
      BY <1>1, <2>3 DEF RecordsTypeOK
    <3> QED  BY <1>2, <2>1, <3>1, <3>2
  <2> QED  BY <1>3, <2>2, <2>3
<1> QED  BY <1>1, <1>4, LeaveNames

\* With no name in doubt the members of a name in the cache are those who have it.
LEMMA FoundMembers ==
  ASSUME RecordsInv, NamesInv, NEW n \in Nicks
  PROVE  Sure(n) \subseteq Named(n) /\ Named(n) \subseteq Sure(n) \cup Doubted(n)
<1>1. n # Nobody  BY RecordsConstants
<1>2. \A u \in Users : ~InDoubt(u) /\ cached[u] # Nobody => cached[u] = nick[u]
  BY DEF InDoubt, NamesInv, FreshInv
<1>3. Sure(n) \subseteq Named(n)  BY <1>2 DEF Sure, Named
<1>4. ASSUME NEW u \in Named(n)  PROVE u \in Sure(n) \cup Doubted(n)
  <2>1. u \in Users /\ cached[u] = n /\ cached[u] # Nobody  BY <1>1, <1>4 DEF Named
  <2>2. CASE InDoubt(u)  BY <2>1, <2>2 DEF Doubted
  <2>3. CASE ~InDoubt(u)  BY <2>1, <2>3, <1>2 DEF Sure
  <2> QED  BY <2>2, <2>3
<1> QED  BY <1>3, <1>4

LEMMA ResolveNames ==
  ASSUME RecordsInv, NamesInv, NEW g \in Goroutines, resolveUserByNickFromCache(g)
  PROVE  NamesInv'
<1> DEFINE n == Wanted(g)
<1>1. at[g] = "resolve" /\ UNCHANGED <<names, rows>>
  BY DEF resolveUserByNickFromCache, Is, Blocking
<1>2. n \in Nicks  BY <1>1 DEF NamesInv, BlocksFor
<1>3. Sure(n) \subseteq Named(n) /\ Named(n) \subseteq Sure(n) \cup Doubted(n)
  BY <1>2, FoundMembers
<1>4. /\ job' = job
      /\ \A h \in Goroutines : h # g => at'[h] = at[h] /\ held'[h] = held[h]
      /\ held'[g].sure = Sure(n) /\ held'[g].doubt = Doubted(n)
      /\ \/ at'[g] = "block" /\ Cardinality(Named(n)) = 1 /\ held'[g].target \in Named(n)
         \/ at'[g] = "lookup" /\ Cardinality(Named(n)) # 1
  BY ResolveTypes
<1>5. Wanted(g)' = n /\ had' = had  BY <1>1, <1>4 DEF Wanted, names
<1> HIDE DEF n
<1>6. BlocksFor(g)'
  <2>1. CASE at'[g] = "block" /\ Cardinality(Named(n)) = 1 /\ held'[g].target \in Named(n)
    <3> DEFINE u == held'[g].target
    <3>1. IsFiniteSet(Named(n))  BY SureTypes, RecordsConstants, FS_Subset
    <3>2. PICK x : Named(n) = {x}  BY <2>1, <3>1, FS_Singleton
    <3>3. Named(n) = {u}  BY <2>1, <3>2
    <3>4. u \in Sure(n) \cup Doubted(n) /\ Sure(n) \subseteq {u}  BY <1>3, <3>3
    <3>5. u \in Users /\ n \in had[u]
      <4>1. u \in Users /\ cached[u] = n  BY <2>1 DEF Named
      <4> QED  BY <1>2, <4>1, RecordsConstants DEF NamesInv, HadInv
    <3> QED  BY <1>4, <1>5, <2>1, <3>4, <3>5 DEF BlocksFor
  <2>2. CASE at'[g] = "lookup" /\ Cardinality(Named(n)) # 1
    <3>1. Doubted(n) = {} => Sure(n) = Named(n)  BY <1>3
    <3>2. Cardinality(Sure(n)) # 1 \/ Doubted(n) # {}  BY <2>2, <3>1
    <3> QED  BY <1>2, <1>4, <1>5, <2>2, <3>2 DEF BlocksFor
  <2> QED  BY <1>4, <2>1, <2>2
<1>7. HadBy(g)' /\ at'[g] # "answer"  BY <1>4 DEF HadBy, Recording
<1>8. \A u \in Users : rows'[u].nick \in had[u] \cup {Nobody}  BY <1>1 DEF NamesInv, HadInv
<1> QED  BY <1>1, <1>4, <1>6, <1>7, <1>8, OthersNames

LEMMA GetLastSeenNames ==
  ASSUME RecordsInv, NamesInv, NEW g \in Goroutines, GetLastSeen(g)
  PROVE  NamesInv'
<1>1. /\ at[g] = "lookup" /\ UNCHANGED <<names, rows>>
      /\ \A h \in Goroutines : h # g => at'[h] = at[h] /\ job'[h] = job[h] /\ held'[h] = held[h]
  BY GetLastSeenTypes DEF Blocking
<1>2. BlocksFor(g) /\ had' = had  BY <1>1 DEF NamesInv, names
<1>3. \/ at'[g] = "idle"
      \/ /\ at'[g] = "blockRow" /\ job'[g] = job[g]
         /\ held'[g].sure = held[g].sure /\ held'[g].doubt = held[g].doubt
         /\ \E u \in Users :
              /\ held'[g].target = u /\ rows[u].nick = Wanted(g)
              /\ held'[g].spoke = (spoken[u].nick = Wanted(g) \/ u \in muddled)
  BY GetLastSeenTypes
<1>4. BlocksFor(g)'
  <2>1. CASE at'[g] = "idle"  BY <2>1 DEF BlocksFor
  <2>2. CASE at'[g] # "idle"
    <3>1. PICK u \in Users :
            /\ held'[g].target = u /\ rows[u].nick = Wanted(g)
            /\ held'[g].spoke = (spoken[u].nick = Wanted(g) \/ u \in muddled)
      BY <1>3, <2>2
    <3>2. Wanted(g) \in Nicks /\ Wanted(g)' = Wanted(g)
      BY <1>1, <1>2, <1>3, <2>2 DEF BlocksFor, Wanted
    <3>3. Wanted(g) \in had[u]  BY <3>1, <3>2, RecordsConstants DEF NamesInv, HadInv
    <3>4. held'[g].spoke  BY <3>1 DEF RecordsInv, CountsInv
    <3>5. Cardinality(held'[g].sure) # 1 \/ held'[g].doubt # {}
      BY <1>1, <1>2, <1>3, <2>2 DEF BlocksFor
    <3> QED  BY <1>2, <1>3, <2>2, <3>1, <3>2, <3>3, <3>4, <3>5 DEF BlocksFor
  <2> QED  BY <2>1, <2>2
<1>5. HadBy(g)' /\ at'[g] # "answer"  BY <1>3 DEF HadBy, Recording
<1>6. \A u \in Users : rows'[u].nick \in had[u] \cup {Nobody}  BY <1>1 DEF NamesInv, HadInv
<1> QED  BY <1>1, <1>4, <1>5, <1>6, OthersNames

LEMMA BlockNames ==
  ASSUME RecordsInv, NamesInv, NEW g \in Goroutines, Block(g)
  PROVE  NamesInv'
<1>1. RecordsTypeOK /\ Done(g) /\ at[g] # "answer" /\ UNCHANGED <<names, rows>>
  BY DEF RecordsInv, Block, Blocking
<1>2. /\ at'[g] = "idle"
      /\ \A h \in Goroutines : h # g => at'[h] = at[h] /\ job'[h] = job[h] /\ held'[h] = held[h]
  BY <1>1, DoneTypes
<1>3. HadBy(g)' /\ BlocksFor(g)'  BY <1>2 DEF HadBy, BlocksFor, Recording
<1>4. \A u \in Users : rows'[u].nick \in had[u] \cup {Nobody}  BY <1>1 DEF NamesInv, HadInv
<1> QED  BY <1>1, <1>2, <1>3, <1>4, OthersNames

LEMMA NoAuthorNames ==
  ASSUME RecordsInv, NamesInv, NEW g \in Goroutines, NoAuthor(g)
  PROVE  NamesInv'
<1>1. Leave(g) /\ at[g] # "answer" /\ UNCHANGED <<names, rows>>
  BY DEF NoAuthor, Is, Tracking, names
<1>2. \A u \in Users : rows'[u].nick \in had[u] \cup {Nobody}  BY <1>1 DEF NamesInv, HadInv
<1> QED  BY <1>1, <1>2, LeaveNames

LEMMA NamesInit == Init => NamesInv
<1> SUFFICES ASSUME Init PROVE NamesInv  OBVIOUS
<1>1. /\ nick \in [Users -> Nicks] /\ had = [u \in Users |-> {nick[u]}]
      /\ \E known \in SUBSET Users : cached = [u \in Users |-> IF u \in known THEN nick[u] ELSE Nobody]
      /\ updates = {} /\ rows = [u \in Users |-> NoRow]
      /\ \A g \in Goroutines : at[g] = "idle"
  BY DEF Init
<1>2. \A u \in Users : cached[u] \in {nick[u], Nobody}  BY <1>1
<1>3. FreshInv  BY <1>1, <1>2 DEF FreshInv
<1>4. HadInv  BY <1>1, <1>2 DEF HadInv, NoRow
<1>5. \A g \in Goroutines : HadBy(g) /\ BlocksFor(g)  BY <1>1 DEF HadBy, BlocksFor, Recording
<1> QED  BY <1>3, <1>4, <1>5 DEF NamesInv

LEMMA NamesStep == RecordsInv /\ NamesInv /\ [Next]_vars => NamesInv'
<1> SUFFICES ASSUME RecordsInv, NamesInv, [Next]_vars PROVE NamesInv'  OBVIOUS
<1>1. ASSUME NEW g \in Goroutines, Step(g)  PROVE NamesInv'
  BY <1>1, ArrivalNames, BacklogNames, NoAuthorNames, KnowAuthorNames, AskForAuthorNames,
     StoreAuthorNames, SelectUserNames, WrittenNames, ResolveNames, GetLastSeenNames, BlockNames
     DEF Step, BacklogStep
<1>2. CASE Rename  BY <1>2, RenameNames
<1>3. CASE StoreName  BY <1>3, StoreNameNames
<1>4. CASE UNCHANGED vars
  <2>1. UNCHANGED <<nick, cached, updates, had, unsure, rows, at, job, held>>
    BY <1>4 DEF vars, names
  <2>2. \A u \in Users : Writing(u)' <=> Writing(u)  BY <2>1 DEF Writing
  <2>3. FreshInv' /\ HadInv'  BY <2>1, <2>2 DEF NamesInv, FreshInv, HadInv
  <2>4. \A g \in Goroutines : HadBy(g)' /\ BlocksFor(g)'
    BY <2>1 DEF NamesInv, HadBy, BlocksFor, Recording, Wanted
  <2> QED  BY <2>3, <2>4 DEF NamesInv
<1> QED  BY <1>1, <1>2, <1>3, <1>4 DEF Next

\* However events and answers with names, some of them lost, overtake each other and
\* the messages: a command blocks only who has the name, or had it; it takes the name
\* for a member's only if it surely is nobody else's in the cache, and does not take
\* whoever spoke under it instead if it surely is one member's
\* (resolveBlocklistTargetUser).
THEOREM BlocksCorrect == Spec => []BlocksHitTheNamed
<1>1. NamesInv => BlocksHitTheNamed
  BY DEF NamesInv, BlocksFor, BlocksHitTheNamed
<1> QED  BY <1>1, NamesInit, NamesStep, RecordsInvariance, PTL DEF Spec

----------------------------------------------------------------------------
(* The backlog *)

\* The n last messages up to position hi of the log.
Window(hi, n) == [i \in 1 .. n |-> log[hi - n + i].entry]

\* A message is logged once, and after those that were sent before it.
LogInv ==
  \A i \in DOMAIN log :
    /\ log[i].entry.id <= sent.messages
    /\ \A j \in DOMAIN log : i < j => log[i].entry.id < log[j].entry.id

\* While one goroutine is at work on the backlog, it lacks the message that is
\* to be appended, ...
Appending(g) ==
  /\ Len(log) >= 1 /\ log[Len(log)].entry = Mine(g)
  /\ backlog = Window(Len(log) - 1, Least(Len(log) - 1, Limit - 1))
  /\ at[g] = "write" => held[g].backlog = backlog

\* ... has one too many, ...
Cutting(g) ==
  /\ backlog = Window(Len(log), Least(Len(log), Limit))
  /\ at[g] # "check" => Len(log) >= Limit
  /\ at[g] = "trim" => held[g].backlog = backlog

\* ... or has, at a place that was not yet looked at, the message before its edit.
Replacing(g) ==
  /\ Len(backlog) = Least(Len(log), Limit - 1) /\ held[g].k <= Len(backlog)
  /\ \A j \in 1 .. Len(backlog) : backlog[j].id = log[Len(log) - Len(backlog) + j].entry.id
  /\ \E i \in DOMAIN log :
       /\ log[i].entry = Mine(g)
       /\ \A j \in 1 .. Len(backlog) :
            Len(log) - Len(backlog) + j # i => backlog[j] = log[Len(log) - Len(backlog) + j].entry
  /\ \A j \in 1 .. Len(backlog) : j > held[g].k => backlog[j].id # job[g].id
  /\ at[g] = "replace" => held[g].k > 0 /\ backlog[held[g].k].id = job[g].id

AtWork(g) ==
  /\ at[g] \in {"append", "write"} => Appending(g)
  /\ at[g] \in {"check", "cut", "trim"} => Cutting(g)
  /\ at[g] \in {"find", "replace"} => Replacing(g)

Alone ==
  /\ \A g, h \in Goroutines : at[g] \in AtBacklog /\ at[h] \in AtBacklog => g = h
  /\ \A g \in Goroutines : AtWork(g)
  /\ (\A g \in Goroutines : at[g] \notin AtBacklog) => backlog = Latest

BacklogInv == RecordsTypeOK /\ LogInv /\ (~tangled => up /\ Alone)

LEMMA LogTypes ==
  ASSUME RecordsTypeOK
  PROVE  /\ log \in Seq(Logged) /\ Len(log) \in Nat /\ DOMAIN log = 1 .. Len(log)
         /\ backlog \in Seq(Entry) /\ Len(backlog) \in Nat /\ DOMAIN backlog = 1 .. Len(backlog)
         /\ sent.messages \in Nat /\ Limit \in Nat /\ Limit > 1
         /\ \A i \in 1 .. Len(log) : log[i].entry \in Entry /\ log[i].entry.id \in Nat
<1>1. log \in Seq(Logged) /\ backlog \in Seq(Entry) /\ sent \in [messages : Nat, commands : Nat, renames : Nat]
  BY DEF RecordsTypeOK
<1>2. \A i \in 1 .. Len(log) : log[i] \in Logged  BY <1>1
<1>3. \A i \in 1 .. Len(log) : log[i].entry \in Entry /\ log[i].entry.id \in Nat
  BY <1>2 DEF Logged, Entry
<1>4. Limit \in Nat /\ Limit > 1  BY RecordsConstants
<1> QED  BY <1>1, <1>3, <1>4

LEMMA MineIs == ASSUME NEW g PROVE Mine(g).id = job[g].id
BY DEF Mine

\* What goes on elsewhere leaves the backlog, and who is at work on it, alone.
LEMMA ElsewhereLeavesBacklog ==
  ASSUME BacklogInv, RecordsTypeOK',
         UNCHANGED <<backlog, log, tangled, up>>, sent'.messages = sent.messages,
         \A h \in Goroutines :
           \/ at[h] \notin AtBacklog /\ at'[h] \notin AtBacklog
           \/ at'[h] = at[h] /\ job'[h] = job[h] /\ held'[h] = held[h]
  PROVE  BacklogInv'
<1>1. LogInv'  BY DEF BacklogInv, LogInv
<1>2. ASSUME ~tangled  PROVE up' /\ Alone'
  <2>1. up /\ Alone  BY <1>2 DEF BacklogInv
  <2>2. \A h \in Goroutines : at'[h] \in AtBacklog <=> at[h] \in AtBacklog  OBVIOUS
  <2>3. ASSUME NEW h \in Goroutines  PROVE AtWork(h)'
    <3>1. CASE at'[h] \notin AtBacklog  BY <3>1 DEF AtWork, AtBacklog
    <3>2. CASE at'[h] \in AtBacklog
      <4>1. at'[h] = at[h] /\ job'[h] = job[h] /\ held'[h] = held[h]  BY <3>2, <2>2
      <4>2. Mine(h)' = Mine(h)  BY <4>1 DEF Mine
      <4>3. AtWork(h)  BY <2>1 DEF Alone
      <4>4. CASE at[h] \in {"append", "write"}
        BY <4>1, <4>2, <4>3, <4>4 DEF AtWork, Appending, Window
      <4>5. CASE at[h] \in {"check", "cut", "trim"}
        BY <4>1, <4>2, <4>3, <4>5 DEF AtWork, Cutting, Window
      <4>6. CASE at[h] \in {"find", "replace"}
        BY <4>1, <4>2, <4>3, <4>6 DEF AtWork, Replacing
      <4> QED  BY <4>1, <4>4, <4>5, <4>6, <3>2 DEF AtBacklog
    <3> QED  BY <3>1, <3>2
  <2>4. (\A h \in Goroutines : at'[h] \notin AtBacklog) => backlog' = Latest'
    BY <2>1, <2>2 DEF Alone, Latest
  <2> QED  BY <2>1, <2>2, <2>3, <2>4 DEF Alone
<1> QED  BY <1>1, <1>2 DEF BacklogInv

\* One goroutine at work alone, before and after its step.
LEMMA AloneAtWork ==
  ASSUME NEW g \in Goroutines, \A h \in Goroutines : h # g => at'[h] \notin AtBacklog,
         AtWork(g)', at'[g] \notin AtBacklog => backlog' = Latest'
  PROVE  Alone'
<1>1. \A h \in Goroutines : AtWork(h)'  BY DEF AtWork, AtBacklog
<1>2. \A h, o \in Goroutines : at'[h] \in AtBacklog /\ at'[o] \in AtBacklog => h = o  OBVIOUS
<1> QED  BY <1>1, <1>2 DEF Alone

\* Whoever is alone with the backlog finds the array under its slice unchanged.
LEMMA AloneSlices ==
  ASSUME RecordsTypeOK, NEW g \in Goroutines, held[g].backlog = backlog,
         \A i, j \in 1 .. Len(backlog) : backlog[i].id = backlog[j].id => i = j,
         NEW slice \in Slices(g)
  PROVE  slice = backlog
<1> DEFINE Now(i) == {j \in DOMAIN backlog : backlog[j].id = backlog[i].id}
<1>1. DOMAIN backlog = 1 .. Len(backlog) /\ backlog \in Seq(Entry)  BY LogTypes
<1>2. \A i \in DOMAIN backlog : Now(i) = {i}  BY <1>1
<1>3. \/ slice = backlog
      \/ slice = [i \in DOMAIN backlog |-> IF Now(i) = {} THEN backlog[i]
                                           ELSE backlog[CHOOSE j \in Now(i) : TRUE]]
  BY DEF Slices
<1> HIDE DEF Now
<1>4. \A i \in DOMAIN backlog : (CHOOSE j \in Now(i) : TRUE) = i /\ Now(i) # {}  BY <1>2
<1>5. backlog = [i \in DOMAIN backlog |-> backlog[i]]  BY <1>1
<1> QED  BY <1>3, <1>4, <1>5

\* The messages of a window are different ones.
LEMMA WindowIds ==
  ASSUME RecordsTypeOK, LogInv, NEW hi \in 0 .. Len(log), NEW n \in 0 .. hi
  PROVE  /\ Window(hi, n) \in Seq(Entry) /\ Len(Window(hi, n)) = n
         /\ DOMAIN Window(hi, n) = 1 .. n
         /\ \A i \in 1 .. n : Window(hi, n)[i] = log[hi - n + i].entry
         /\ \A i, j \in 1 .. n : Window(hi, n)[i].id = Window(hi, n)[j].id => i = j
<1>1. Len(log) \in Nat /\ DOMAIN log = 1 .. Len(log)  BY LogTypes
<1>2. \A i \in 1 .. n : hi - n + i \in 1 .. Len(log)  BY <1>1
<1>3. \A i \in 1 .. n : log[hi - n + i].entry \in Entry  BY <1>2, LogTypes
<1>4. \A i \in 1 .. n : Window(hi, n)[i] = log[hi - n + i].entry  BY DEF Window
<1>5. Window(hi, n) \in Seq(Entry) /\ Len(Window(hi, n)) = n /\ DOMAIN Window(hi, n) = 1 .. n
  BY <1>1, <1>3 DEF Window
<1>6. ASSUME NEW i \in 1 .. n, NEW j \in 1 .. n, i < j
      PROVE  Window(hi, n)[i].id # Window(hi, n)[j].id
  <2>1. hi - n + i < hi - n + j  BY <1>1, <1>6
  <2>2. log[hi - n + i].entry.id < log[hi - n + j].entry.id  BY <1>1, <1>2, <2>1 DEF LogInv
  <2>3. log[hi - n + i].entry.id \in Nat /\ log[hi - n + j].entry.id \in Nat  BY <1>2, LogTypes
  <2> QED  BY <1>4, <2>2, <2>3
<1>7. ASSUME NEW i \in 1 .. n, NEW j \in 1 .. n, i # j
      PROVE  Window(hi, n)[i].id # Window(hi, n)[j].id
  <2>1. i < j \/ j < i  BY <1>1, <1>7
  <2> QED  BY <2>1, <1>6
<1> QED  BY <1>4, <1>5, <1>7

LEMMA AloneStep ==
  ASSUME BacklogInv, ~tangled, NEW g \in Goroutines, BacklogStep(g)
  PROVE  /\ up /\ AtWork(g) /\ RecordsTypeOK' /\ LogInv'
         /\ UNCHANGED <<log, job, sent, tangled>> /\ Mine(g)' = Mine(g)
         /\ \A h \in Goroutines : h # g => at'[h] \notin AtBacklog
<1>1. RecordsTypeOK /\ up /\ Alone  BY DEF BacklogInv
<1>2. Backlogging(g) /\ RecordsTypeOK' /\ at[g] \in AtBacklog
      /\ \A h \in Goroutines : h # g => at'[h] = at[h]
  BY <1>1, BacklogStepTypes
<1>3. UNCHANGED <<log, job, sent, tangled>>  BY <1>2 DEF Backlogging
<1>4. \A h \in Goroutines : h # g => at[h] \notin AtBacklog  BY <1>1, <1>2 DEF Alone
<1>5. LogInv'  BY <1>3 DEF BacklogInv, LogInv
<1>6. AtWork(g)  BY <1>1 DEF Alone
<1>7. Mine(g)' = Mine(g)  BY <1>3 DEF Mine
<1> QED  BY <1>1, <1>2, <1>3, <1>4, <1>5, <1>6, <1>7

LEMMA AppendReadsAlone ==
  ASSUME BacklogInv, ~tangled, NEW g \in Goroutines, AppendReads(g)
  PROVE  up' /\ Alone'
<1>1. at[g] = "append" /\ held' = [held EXCEPT ![g].backlog = backlog] /\ Go(g, "write")
      /\ UNCHANGED <<up, backlog>>
  BY DEF AppendReads, ReadBacklog, Is
<1>2. at'[g] = "write" /\ held'[g].backlog = backlog
  BY <1>1 DEF BacklogInv, RecordsTypeOK, Go, Local
<1>3. BacklogStep(g)  BY DEF BacklogStep
<1>4. Appending(g)  BY <1>1, <1>3, AloneStep DEF AtWork
<1>5. Appending(g)'  BY <1>1, <1>2, <1>3, <1>4, AloneStep DEF Appending, Window
<1>6. AtWork(g)' /\ at'[g] \in AtBacklog  BY <1>2, <1>5 DEF AtWork, AtBacklog
<1> QED  BY <1>1, <1>3, <1>6, AloneStep, AloneAtWork

LEMMA AppendWritesAlone ==
  ASSUME BacklogInv, ~tangled, NEW g \in Goroutines, AppendWrites(g)
  PROVE  up' /\ Alone'
<1>1. at[g] = "write" /\ Go(g, "check") /\ UNCHANGED up  BY DEF AppendWrites, Is
<1>2. at'[g] = "check"  BY <1>1 DEF BacklogInv, RecordsTypeOK, Go
<1>3. BacklogStep(g) /\ RecordsTypeOK /\ LogInv  BY DEF BacklogStep, BacklogInv
<1>4. Appending(g) /\ held[g].backlog = backlog  BY <1>1, <1>3, AloneStep DEF AtWork, Appending
<1> DEFINE L == Len(log)
           n == Least(L - 1, Limit - 1)
<1>5. L \in Nat /\ L >= 1 /\ n \in 0 .. L - 1 /\ n + 1 = Least(L, Limit) /\ L - 1 \in 0 .. L
  BY <1>3, <1>4, LogTypes DEF Appending, Least
<1>6. backlog = Window(L - 1, n) /\ log[L].entry = Mine(g)  BY <1>4 DEF Appending
<1> HIDE DEF n
<1>7. /\ Len(backlog) = n
      /\ \A i, j \in 1 .. Len(backlog) : backlog[i].id = backlog[j].id => i = j
  <2> DEFINE w == Window(L - 1, n)
  <2>1. Len(w) = n /\ \A i, j \in 1 .. n : w[i].id = w[j].id => i = j
    BY <1>3, <1>5, WindowIds
  <2>2. backlog = w  BY <1>6
  <2> HIDE DEF w
  <2> QED  BY <2>1, <2>2
<1>8. PICK slice \in Slices(g) :
        \E last \in {Mine(g)} \cup {backlog[i] : i \in {Len(slice) + 1} \cap DOMAIN backlog} :
          backlog' = Append(slice, last)
  BY DEF AppendWrites
<1>9. slice = backlog  BY <1>3, <1>4, <1>7, <1>8, AloneSlices
<1>10. {Len(slice) + 1} \cap DOMAIN backlog = {}  BY <1>3, <1>9, LogTypes
<1>11. backlog' = Append(backlog, Mine(g))  BY <1>8, <1>9, <1>10
<1>12. backlog' = Window(L, n + 1)
  <2>1. backlog \in Seq(Entry) /\ Mine(g) \in Entry  BY <1>3, LogTypes, MineIsEntry
  <2>2. backlog' \in Seq(Entry) /\ Len(backlog') = n + 1 /\ backlog'[n + 1] = Mine(g)
        /\ \A i \in 1 .. n : backlog'[i] = backlog[i]
    BY <1>7, <1>11, <2>1
  <2>3. \A i \in 1 .. n : backlog[i] = log[(L - 1) - n + i].entry
    BY <1>3, <1>5, <1>6, WindowIds
  <2>4. \A i \in 1 .. n + 1 : backlog'[i] = log[L - (n + 1) + i].entry
    <3>1. TAKE i \in 1 .. n + 1
    <3>2. CASE i \in 1 .. n
      <4>1. L - (n + 1) + i = (L - 1) - n + i  BY <1>5, <3>2
      <4> QED  BY <2>2, <2>3, <3>2, <4>1
    <3>3. CASE i = n + 1
      <4>1. L - (n + 1) + i = L  BY <1>5, <3>3
      <4> QED  BY <1>6, <2>2, <3>3, <4>1
    <3> QED  BY <1>5, <3>2, <3>3
  <2>5. backlog' = [i \in 1 .. n + 1 |-> backlog'[i]]  BY <2>2, <1>5
  <2>6. [i \in 1 .. n + 1 |-> backlog'[i]] = [i \in 1 .. n + 1 |-> log[L - (n + 1) + i].entry]
    BY <2>4
  <2> QED  BY <2>5, <2>6 DEF Window
<1>13. Cutting(g)'
  <2>1. log' = log  BY <1>3, AloneStep
  <2>2. backlog' = Window(Len(log), Least(Len(log), Limit))  BY <1>5, <1>12
  <2> QED  BY <1>2, <2>1, <2>2 DEF Cutting, Window
<1>14. AtWork(g)' /\ at'[g] \in AtBacklog  BY <1>2, <1>13 DEF AtWork, AtBacklog
<1> QED  BY <1>1, <1>3, <1>14, AloneStep, AloneAtWork

\* The window a cutter finds, and its length.
LEMMA CutWindow ==
  ASSUME RecordsTypeOK, LogInv, NEW g \in Goroutines, Cutting(g)
  PROVE  /\ Len(backlog) = Least(Len(log), Limit)
         /\ \A i \in 1 .. Len(backlog) : backlog[i] = log[Len(log) - Len(backlog) + i].entry
         /\ \A i, j \in 1 .. Len(backlog) : backlog[i].id = backlog[j].id => i = j
<1>1. Least(Len(log), Limit) \in 0 .. Len(log) /\ Len(log) \in 0 .. Len(log)
  BY LogTypes DEF Least
<1> DEFINE n == Least(Len(log), Limit)
           w == Window(Len(log), n)
<1>2. backlog = w  BY DEF Cutting
<1> HIDE DEF n
<1>3. /\ Len(w) = n /\ \A i \in 1 .. n : w[i] = log[Len(log) - n + i].entry
      /\ \A i, j \in 1 .. n : w[i].id = w[j].id => i = j
  BY <1>1, WindowIds DEF n
<1>4. n = Least(Len(log), Limit)  BY DEF n
<1> HIDE DEF w
<1> QED  BY <1>2, <1>3, <1>4

LEMMA CheckLengthAlone ==
  ASSUME BacklogInv, ~tangled, NEW g \in Goroutines, CheckLength(g)
  PROVE  up' /\ Alone'
<1>1. /\ at[g] = "check" /\ Go(g, IF Len(backlog) >= Limit THEN "cut" ELSE "handle")
      /\ UNCHANGED <<held, up, backlog>>
  BY DEF CheckLength, Is
<1>2. BacklogStep(g) /\ RecordsTypeOK /\ LogInv  BY DEF BacklogStep, BacklogInv
<1>3. Cutting(g)  BY <1>1, <1>2, AloneStep DEF AtWork
<1>4. Len(backlog) = Least(Len(log), Limit)  BY <1>2, <1>3, CutWindow
<1>5. Len(log) \in Nat /\ Limit \in Nat /\ log' = log  BY <1>2, LogTypes, AloneStep
<1>6. CASE Len(backlog) >= Limit
  <2>1. at'[g] = "cut"  BY <1>1, <1>6 DEF BacklogInv, RecordsTypeOK, Go
  <2>2. Len(log) >= Limit  BY <1>4, <1>5, <1>6 DEF Least
  <2>3. Cutting(g)'  BY <1>1, <1>3, <1>5, <2>1, <2>2 DEF Cutting, Window
  <2>4. AtWork(g)' /\ at'[g] \in AtBacklog  BY <2>1, <2>3 DEF AtWork, AtBacklog
  <2> QED  BY <1>1, <1>2, <2>4, AloneStep, AloneAtWork
<1>7. CASE ~(Len(backlog) >= Limit)
  <2>1. at'[g] = "handle"  BY <1>1, <1>7 DEF BacklogInv, RecordsTypeOK, Go
  <2>2. Least(Len(log), Limit) = Least(Len(log), Limit - 1)  BY <1>4, <1>5, <1>7 DEF Least
  <2>3. backlog = Window(Len(log), Least(Len(log), Limit - 1))  BY <1>3, <2>2 DEF Cutting
  <2>4. backlog' = Latest'  BY <1>1, <1>5, <2>3 DEF Latest, Window
  <2>5. AtWork(g)'  BY <2>1 DEF AtWork
  <2> QED  BY <1>1, <1>2, <2>4, <2>5, AloneStep, AloneAtWork
<1> QED  BY <1>6, <1>7

LEMMA CutReadsAlone ==
  ASSUME BacklogInv, ~tangled, NEW g \in Goroutines, CutReads(g)
  PROVE  up' /\ Alone'
<1>1. at[g] = "cut" /\ held' = [held EXCEPT ![g].backlog = backlog] /\ Go(g, "trim")
      /\ UNCHANGED <<up, backlog>>
  BY DEF CutReads, ReadBacklog, Is
<1>2. at'[g] = "trim" /\ held'[g].backlog = backlog
  BY <1>1 DEF BacklogInv, RecordsTypeOK, Go, Local
<1>3. BacklogStep(g)  BY DEF BacklogStep
<1>4. Cutting(g) /\ log' = log  BY <1>1, <1>3, AloneStep DEF AtWork
<1>5. Cutting(g)'  BY <1>1, <1>2, <1>4 DEF Cutting, Window
<1>6. AtWork(g)' /\ at'[g] \in AtBacklog  BY <1>2, <1>5 DEF AtWork, AtBacklog
<1> QED  BY <1>1, <1>3, <1>6, AloneStep, AloneAtWork

LEMMA CutWritesAlone ==
  ASSUME BacklogInv, ~tangled, NEW g \in Goroutines, CutWrites(g)
  PROVE  up' /\ Alone'
<1>1. at[g] = "trim"  BY DEF CutWrites, Is
<1>2. BacklogStep(g) /\ RecordsTypeOK /\ LogInv  BY DEF BacklogStep, BacklogInv
<1>3. Cutting(g) /\ held[g].backlog = backlog /\ Len(log) >= Limit
  BY <1>1, <1>2, AloneStep DEF AtWork, Cutting
<1> DEFINE L == Len(log)
<1>4. /\ L \in Nat /\ Limit \in Nat /\ Limit > 1 /\ backlog \in Seq(Entry) /\ log' = log
  BY <1>2, LogTypes, AloneStep
<1>5. /\ Len(backlog) = Limit /\ Limit - 1 = Least(L, Limit - 1)
  BY <1>2, <1>3, <1>4, CutWindow DEF Least
<1>6. \A i \in 1 .. Limit : backlog[i] = log[L - Limit + i].entry
  BY <1>2, <1>3, <1>5, CutWindow
<1>7. \A i, j \in 1 .. Len(backlog) : backlog[i].id = backlog[j].id => i = j
  BY <1>2, <1>3, CutWindow
<1>8. backlog # <<>>  BY <1>4, <1>5
<1>9. PICK slice \in Slices(g) : backlog' = Tail(slice) /\ Go(g, "handle") /\ UNCHANGED up
  BY <1>3, <1>8 DEF CutWrites
<1>10. slice = backlog  BY <1>2, <1>3, <1>7, <1>9, AloneSlices
<1>11. backlog' = Window(L, Limit - 1)
  <2>1. backlog' \in Seq(Entry) /\ Len(backlog') = Limit - 1
        /\ \A i \in 1 .. Limit - 1 : backlog'[i] = backlog[i + 1]
    BY <1>4, <1>5, <1>8, <1>9, <1>10
  <2>2. \A i \in 1 .. Limit - 1 : backlog'[i] = log[L - (Limit - 1) + i].entry
    <3>1. TAKE i \in 1 .. Limit - 1
    <3>2. i + 1 \in 1 .. Limit /\ L - Limit + (i + 1) = L - (Limit - 1) + i  BY <1>4
    <3> QED  BY <1>6, <2>1, <3>2
  <2>3. backlog' = [i \in 1 .. Limit - 1 |-> backlog'[i]]  BY <2>1
  <2>4. [i \in 1 .. Limit - 1 |-> backlog'[i]]
          = [i \in 1 .. Limit - 1 |-> log[L - (Limit - 1) + i].entry]
    BY <2>2
  <2> QED  BY <2>3, <2>4 DEF Window
<1>12. backlog' = Latest'  BY <1>4, <1>5, <1>11 DEF Latest, Window
<1>13. at'[g] = "handle"  BY <1>9 DEF BacklogInv, RecordsTypeOK, Go
<1>14. AtWork(g)'  BY <1>13 DEF AtWork
<1> QED  BY <1>2, <1>9, <1>12, <1>14, AloneStep, AloneAtWork

\* While an edit is looked for, its identifier is the one of a logged message.
LEMMA EditedIsLogged ==
  ASSUME RecordsTypeOK, LogInv, NEW g \in Goroutines, Replacing(g)
  PROVE  \E i \in 1 .. Len(log) :
           /\ log[i].entry = Mine(g) /\ log[i].entry.id = job[g].id
           /\ \A j \in 1 .. Len(backlog) :
                /\ Len(log) - Len(backlog) + j \in 1 .. Len(log)
                /\ backlog[j].id = job[g].id <=> Len(log) - Len(backlog) + j = i
                /\ Len(log) - Len(backlog) + j # i
                     => backlog[j] = log[Len(log) - Len(backlog) + j].entry
<1> DEFINE low == Len(log) - Len(backlog)
<1>1. /\ Len(log) \in Nat /\ Len(backlog) \in Nat /\ DOMAIN log = 1 .. Len(log)
      /\ Limit \in Nat /\ Limit > 1
      /\ \A i \in 1 .. Len(log) : log[i].entry.id \in Nat
  BY LogTypes
<1>2. Len(backlog) <= Len(log)  BY <1>1 DEF Replacing, Least
<1>3. PICK i \in DOMAIN log :
        /\ log[i].entry = Mine(g)
        /\ \A j \in 1 .. Len(backlog) : low + j # i => backlog[j] = log[low + j].entry
  BY DEF Replacing
<1>4. log[i].entry.id = job[g].id  BY <1>3, MineIs
<1>5. \A j \in 1 .. Len(backlog) : low + j \in 1 .. Len(log)  BY <1>1, <1>2
<1>6. \A j \in 1 .. Len(backlog) : backlog[j].id = log[low + j].entry.id  BY DEF Replacing
<1> HIDE DEF low
<1>7. \A x, y \in 1 .. Len(log) : log[x].entry.id = log[y].entry.id => x = y
  <2>1. \A x, y \in 1 .. Len(log) : x < y => log[x].entry.id < log[y].entry.id
    BY <1>1 DEF LogInv
  <2> QED  BY <1>1, <2>1
<1>8. \A j \in 1 .. Len(backlog) : backlog[j].id = job[g].id <=> low + j = i
  BY <1>1, <1>3, <1>4, <1>5, <1>6, <1>7
<1> QED  BY <1>1, <1>3, <1>4, <1>5, <1>8 DEF low

\* A backlog that has all the latest messages holds them.
LEMMA HoldsLatest ==
  ASSUME RecordsTypeOK, NEW b \in Seq(Entry), Len(b) = Least(Len(log), Limit - 1),
         \A j \in 1 .. Len(b) : b[j] = log[Len(log) - Len(b) + j].entry
  PROVE  b = Latest
<1> DEFINE n == Least(Len(log), Limit - 1)
<1>1. b = [j \in 1 .. Len(b) |-> b[j]]  OBVIOUS
<1>2. [j \in 1 .. Len(b) |-> b[j]] = [j \in 1 .. Len(b) |-> log[Len(log) - Len(b) + j].entry]
  OBVIOUS
<1>3. Len(b) = n  OBVIOUS
<1>4. Latest = [i \in 1 .. n |-> log[Len(log) - n + i].entry]  BY DEF Latest
<1> HIDE DEF n
<1> QED  BY <1>1, <1>2, <1>3, <1>4

LEMMA FindMessageAlone ==
  ASSUME BacklogInv, ~tangled, NEW g \in Goroutines, FindMessage(g)
  PROVE  up' /\ Alone'
<1> DEFINE k == held[g].k
<1>1. at[g] = "find" /\ up /\ UNCHANGED backlog  BY DEF FindMessage, Is
<1>2. BacklogStep(g) /\ RecordsTypeOK /\ LogInv  BY DEF BacklogStep, BacklogInv
<1>3. Replacing(g)  BY <1>1, <1>2, AloneStep DEF AtWork
<1>4. /\ Len(log) \in Nat /\ Len(backlog) \in Nat /\ backlog \in Seq(Entry)
      /\ log' = log /\ job' = job /\ Mine(g)' = Mine(g)
  BY <1>2, LogTypes, AloneStep
<1>5. held \in [Goroutines -> Local] /\ k \in Nat /\ at \in [Goroutines -> Places]
  BY <1>2 DEF RecordsTypeOK, Local
<1>6. k <= Len(backlog)  BY <1>3 DEF Replacing
<1>7. CASE k = 0
  <2>1. Go(g, "handle") /\ UNCHANGED up  BY <1>7 DEF FindMessage
  <2>2. \A j \in 1 .. Len(backlog) : backlog[j].id # job[g].id
    <3>1. \A j \in 1 .. Len(backlog) : j > k  BY <1>7
    <3> QED  BY <1>3, <3>1 DEF Replacing
  <2>3. \A j \in 1 .. Len(backlog) : backlog[j] = log[Len(log) - Len(backlog) + j].entry
    BY <1>2, <1>3, <2>2, EditedIsLogged
  <2>4. backlog = Latest  BY <1>2, <1>3, <1>4, <2>3, HoldsLatest DEF Replacing
  <2>5. backlog' = Latest'  BY <1>1, <1>4, <2>4 DEF Latest
  <2>6. AtWork(g)'  BY <1>5, <2>1 DEF AtWork, Go
  <2> QED  BY <1>1, <1>2, <2>1, <2>5, <2>6, AloneStep, AloneAtWork
<1>8. CASE k # 0 /\ backlog[k].id = job[g].id
  <2>1. Go(g, "replace") /\ UNCHANGED <<held, up>>  BY <1>4, <1>5, <1>6, <1>8 DEF FindMessage
  <2>2. at'[g] = "replace"  BY <1>5, <2>1 DEF Go
  <2>3. Replacing(g)'  BY <1>1, <1>3, <1>4, <1>5, <1>8, <2>1 DEF Replacing
  <2>4. AtWork(g)' /\ at'[g] \in AtBacklog  BY <2>2, <2>3 DEF AtWork, AtBacklog
  <2> QED  BY <1>1, <1>2, <2>1, <2>4, AloneStep, AloneAtWork
<1>9. CASE k # 0 /\ backlog[k].id # job[g].id
  <2>1. held' = [held EXCEPT ![g].k = k - 1] /\ UNCHANGED <<at, up>>
    BY <1>4, <1>5, <1>6, <1>9 DEF FindMessage
  <2>2. held'[g].k = k - 1 /\ at'[g] = "find"  BY <1>1, <1>5, <2>1 DEF Local
  <2>3. \A j \in 1 .. Len(backlog) : j > k - 1 => backlog[j].id # job[g].id
    <3>1. \A j \in 1 .. Len(backlog) : j > k - 1 => j = k \/ j > k  BY <1>4, <1>5
    <3> QED  BY <1>3, <1>9, <3>1 DEF Replacing
  <2>4. k - 1 <= Len(backlog)  BY <1>4, <1>5, <1>6
  <2> HIDE DEF k
  <2>5. Replacing(g)'  BY <1>1, <1>3, <1>4, <2>2, <2>3, <2>4 DEF Replacing
  <2>6. AtWork(g)' /\ at'[g] \in AtBacklog  BY <2>2, <2>5 DEF AtWork, AtBacklog
  <2> QED  BY <1>1, <1>2, <2>1, <2>6, AloneStep, AloneAtWork
<1> QED  BY <1>7, <1>8, <1>9

LEMMA ReplaceMessageAlone ==
  ASSUME BacklogInv, ~tangled, NEW g \in Goroutines, ReplaceMessage(g)
  PROVE  up' /\ Alone'
<1> DEFINE k == held[g].k
           low == Len(log) - Len(backlog)
<1>1. at[g] = "replace" /\ up  BY DEF ReplaceMessage, Is
<1>2. BacklogStep(g) /\ RecordsTypeOK /\ LogInv  BY DEF BacklogStep, BacklogInv
<1>3. Replacing(g)  BY <1>1, <1>2, AloneStep DEF AtWork
<1>4. /\ Len(log) \in Nat /\ Len(backlog) \in Nat /\ backlog \in Seq(Entry) /\ log' = log
      /\ k \in Nat /\ at \in [Goroutines -> Places] /\ Mine(g) \in Entry
  BY <1>2, LogTypes, AloneStep, MineIsEntry DEF RecordsTypeOK, Local
<1>5. k <= Len(backlog) /\ k > 0 /\ backlog[k].id = job[g].id  BY <1>1, <1>3 DEF Replacing
<1>6. backlog' = [backlog EXCEPT ![k] = Mine(g)] /\ Go(g, "handle") /\ UNCHANGED up
  BY <1>4, <1>5 DEF ReplaceMessage
<1>7. PICK i \in 1 .. Len(log) :
        /\ log[i].entry = Mine(g)
        /\ \A j \in 1 .. Len(backlog) :
             /\ backlog[j].id = job[g].id <=> low + j = i
             /\ low + j # i => backlog[j] = log[low + j].entry
  BY <1>2, <1>3, EditedIsLogged
<1>8. k \in 1 .. Len(backlog) /\ low + k = i  BY <1>4, <1>5, <1>7
<1>9. backlog' \in Seq(Entry) /\ Len(backlog') = Len(backlog)  BY <1>4, <1>6, <1>8
<1>10. \A j \in 1 .. Len(backlog) : backlog'[j] = log[low + j].entry
  <2>1. TAKE j \in 1 .. Len(backlog)
  <2>2. CASE j = k  BY <1>4, <1>6, <1>7, <1>8, <2>2
  <2>3. CASE j # k
    <3>1. low + j # i  BY <1>4, <1>8, <2>3
    <3>2. backlog'[j] = backlog[j]  BY <1>4, <1>6, <2>3
    <3> QED  BY <1>7, <3>1, <3>2
  <2> QED  BY <2>2, <2>3
<1>11. backlog' = Latest
  <2>1. Len(backlog') = Least(Len(log), Limit - 1)  BY <1>3, <1>9 DEF Replacing
  <2>2. \A j \in 1 .. Len(backlog') : backlog'[j] = log[Len(log) - Len(backlog') + j].entry
    BY <1>9, <1>10
  <2> QED  BY <1>2, <1>9, <2>1, <2>2, HoldsLatest
<1>12. backlog' = Latest'  BY <1>4, <1>11 DEF Latest
<1>13. AtWork(g)'  BY <1>4, <1>6 DEF AtWork, Go
<1> QED  BY <1>2, <1>6, <1>1, <1>12, <1>13, AloneStep, AloneAtWork

\* A message or an edit comes to a goroutine that does nothing: alone, if the
\* backlog is not tangled then.
LEMMA ArrivesAlone ==
  ASSUME BacklogInv, NEW g \in Goroutines, MessageArrives(g) \/ EditArrives(g)
  PROVE  /\ RecordsTypeOK' /\ LogInv /\ up /\ UNCHANGED <<up, backlog>>
         /\ sent'.messages = sent.messages + 1
         /\ ~tangled' => /\ ~tangled /\ backlog = Latest
                         /\ \A h \in Goroutines : h # g => at'[h] \notin AtBacklog
<1>1. RecordsTypeOK /\ LogInv  BY DEF BacklogInv
<1>2. /\ RecordsTypeOK' /\ at[g] = "idle"
      /\ \A h \in Goroutines : h # g => at'[h] = at[h]
  BY <1>1, ArrivalTypes
<1>3. /\ up /\ UNCHANGED <<up, backlog>>
      /\ tangled' = (tangled \/ \E o \in Goroutines \ {g} : at[o] \in AtBacklog)
  BY DEF MessageArrives, EditArrives, Arrives
<1>4. sent'.messages = sent.messages + 1
  BY <1>1 DEF RecordsTypeOK, MessageArrives, EditArrives, Arrives
<1>5. ASSUME ~tangled'
      PROVE  /\ ~tangled /\ backlog = Latest
             /\ \A h \in Goroutines : h # g => at'[h] \notin AtBacklog
  <2>1. ~tangled /\ \A o \in Goroutines \ {g} : at[o] \notin AtBacklog  BY <1>3, <1>5
  <2>2. at[g] \notin AtBacklog  BY <1>2 DEF AtBacklog
  <2>3. backlog = Latest  BY <2>1, <2>2 DEF BacklogInv, Alone
  <2> QED  BY <1>2, <2>1, <2>3
<1> QED  BY <1>1, <1>2, <1>3, <1>4, <1>5

LEMMA MessageArrivesKeeps ==
  ASSUME BacklogInv, NEW g \in Goroutines, MessageArrives(g)
  PROVE  BacklogInv'
<1> DEFINE L == Len(log)
           new == [id |-> sent.messages + 1, edit |-> 0]
<1>1. RecordsTypeOK /\ RecordsTypeOK'  BY ArrivesAlone DEF BacklogInv
<1>2. PICK u \in Users : \E b \in Commands(u) :
        Arrives(g, [id |-> sent.messages + 1, edit |-> 0, user |-> u, block |-> b], "append",
                Append(log, [entry |-> new, user |-> u]))
  BY DEF MessageArrives
<1>3. PICK b \in Commands(u) :
        Arrives(g, [id |-> sent.messages + 1, edit |-> 0, user |-> u, block |-> b], "append",
                Append(log, [entry |-> new, user |-> u]))
  BY <1>2
<1>4. /\ job' = [job EXCEPT ![g] = [id |-> sent.messages + 1, edit |-> 0, user |-> u, block |-> b]]
      /\ Go(g, "append") /\ log' = Append(log, [entry |-> new, user |-> u])
  BY <1>3 DEF Arrives
<1>5. at'[g] = "append" /\ Mine(g)' = new  BY <1>1, <1>4 DEF RecordsTypeOK, Go, Mine
<1>6. /\ L \in Nat /\ log \in Seq(Logged) /\ sent.messages \in Nat /\ Limit \in Nat /\ Limit > 1
      /\ DOMAIN log = 1 .. L /\ \A i \in 1 .. L : log[i].entry.id \in Nat
  BY <1>1, LogTypes
<1>7. [entry |-> new, user |-> u] \in Logged  BY <1>6 DEF Logged, Entry
<1>8. /\ Len(log') = L + 1 /\ DOMAIN log' = 1 .. L + 1
      /\ log'[L + 1] = [entry |-> new, user |-> u] /\ \A i \in 1 .. L : log'[i] = log[i]
  BY <1>4, <1>6, <1>7
<1>9. log'[L + 1].entry = new /\ new.id = sent.messages + 1  BY <1>8
<1>10. LogInv'
  <2>1. LogInv /\ sent'.messages = sent.messages + 1  BY ArrivesAlone
  <2>2. \A i \in 1 .. L : log[i].entry.id <= sent.messages  BY <1>6, <2>1 DEF LogInv
  <2>3. \A i, j \in 1 .. L : i < j => log[i].entry.id < log[j].entry.id
    BY <1>6, <2>1 DEF LogInv
  <2> HIDE DEF new
  <2>4. ASSUME NEW i \in 1 .. L + 1
        PROVE  /\ log'[i].entry.id <= sent'.messages
               /\ \A j \in 1 .. L + 1 : i < j => log'[i].entry.id < log'[j].entry.id
    <3>1. CASE i = L + 1  BY <1>6, <1>9, <2>1, <3>1
    <3>2. CASE i \in 1 .. L
      <4>1. log'[i].entry.id \in Nat /\ log'[i].entry.id <= sent.messages
        BY <1>6, <1>8, <2>2, <3>2
      <4>2. ASSUME NEW j \in 1 .. L + 1, i < j  PROVE log'[i].entry.id < log'[j].entry.id
        <5>1. CASE j = L + 1  BY <1>6, <1>9, <4>1, <5>1
        <5>2. CASE j \in 1 .. L  BY <1>8, <2>3, <3>2, <4>2, <5>2
        <5> QED  BY <1>6, <5>1, <5>2
      <4> QED  BY <1>6, <2>1, <4>1, <4>2
    <3> QED  BY <1>6, <3>1, <3>2
  <2> QED  BY <1>8, <2>4 DEF LogInv
<1>11. ASSUME ~tangled'  PROVE up' /\ Alone'
  <2>1. /\ up' /\ backlog' = backlog /\ backlog = Latest
        /\ \A h \in Goroutines : h # g => at'[h] \notin AtBacklog
    BY <1>11, ArrivesAlone
  <2> DEFINE n == Least(L, Limit - 1)
  <2>2. n \in 0 .. L  BY <1>6 DEF Least
  <2>3. backlog = [i \in 1 .. n |-> log[L - n + i].entry]  BY <2>1 DEF Latest
  <2>4. Len(log') - 1 = L  BY <1>6, <1>8
  <2> HIDE DEF n
  <2>5. \A i \in 1 .. n : L - n + i \in 1 .. L  BY <1>6, <2>2
  <2>6. \A i \in 1 .. n : log'[L - n + i] = log[L - n + i]  BY <1>8, <2>5
  <2>7. backlog' = [i \in 1 .. n |-> log'[L - n + i].entry]  BY <2>1, <2>3, <2>6
  <2>8. Appending(g)'
    <3>1. backlog' = [i \in 1 .. Least(Len(log') - 1, Limit - 1) |->
                        log'[Len(log') - 1 - Least(Len(log') - 1, Limit - 1) + i].entry]
      BY <2>4, <2>7 DEF n
    <3> QED  BY <1>5, <1>6, <1>8, <1>9, <3>1 DEF Appending, Window
  <2>9. AtWork(g)' /\ at'[g] \in AtBacklog  BY <1>5, <2>8 DEF AtWork, AtBacklog
  <2> QED  BY <2>1, <2>9, AloneAtWork
<1> QED  BY <1>1, <1>10, <1>11 DEF BacklogInv

LEMMA EditArrivesKeeps ==
  ASSUME BacklogInv, NEW g \in Goroutines, EditArrives(g)
  PROVE  BacklogInv'
<1> DEFINE L == Len(log)
           Edited(i) == [id |-> log[i].entry.id, edit |-> sent.messages + 1]
<1>1. RecordsTypeOK /\ RecordsTypeOK'  BY ArrivesAlone DEF BacklogInv
<1>2. PICK i \in DOMAIN log : \E u \in {log[i].user, Nobody} :
        Arrives(g, [id |-> Edited(i).id, edit |-> Edited(i).edit, user |-> u, block |-> Nobody],
                "find", [log EXCEPT ![i].entry = Edited(i)])
  BY DEF EditArrives
<1> DEFINE edited == Edited(i)
<1>3. PICK u \in {log[i].user, Nobody} :
        Arrives(g, [id |-> edited.id, edit |-> edited.edit, user |-> u, block |-> Nobody],
                "find", [log EXCEPT ![i].entry = edited])
  BY <1>2
<1>4. /\ job' = [job EXCEPT ![g] = [id |-> edited.id, edit |-> edited.edit, user |-> u, block |-> Nobody]]
      /\ Go(g, "find") /\ log' = [log EXCEPT ![i].entry = edited]
      /\ held' = [held EXCEPT ![g].k = Len(backlog)]
  BY <1>3 DEF Arrives, EditArrives
<1>5. /\ at'[g] = "find" /\ Mine(g)' = edited /\ job'[g].id = edited.id
      /\ held'[g].k = Len(backlog)
  BY <1>1, <1>4 DEF RecordsTypeOK, Go, Mine, Local
<1>6. /\ L \in Nat /\ log \in Seq(Logged) /\ sent.messages \in Nat /\ Limit \in Nat /\ Limit > 1
      /\ DOMAIN log = 1 .. L /\ \A x \in 1 .. L : log[x].entry.id \in Nat
      /\ Len(backlog) \in Nat /\ backlog \in Seq(Entry)
  BY <1>1, LogTypes
<1>7. edited.id = log[i].entry.id  OBVIOUS
<1> HIDE DEF edited
<1>8. /\ Len(log') = L /\ DOMAIN log' = 1 .. L /\ log'[i].entry = edited
      /\ \A x \in 1 .. L : x # i => log'[x] = log[x]
  <2>1. log[i] \in Logged  BY <1>6
  <2>2. log'[i].entry = edited  BY <1>4, <1>6, <2>1 DEF Logged
  <2>3. DOMAIN log' = 1 .. L /\ \A x \in 1 .. L : x # i => log'[x] = log[x]  BY <1>4, <1>6
  <2>4. log' \in Seq(Logged)  BY <1>1 DEF RecordsTypeOK
  <2> QED  BY <1>6, <2>2, <2>3, <2>4
<1>9. \A x \in 1 .. L : log'[x].entry.id = log[x].entry.id  BY <1>7, <1>8
<1>10. LogInv /\ sent'.messages = sent.messages + 1  BY ArrivesAlone
<1>11. LogInv'
  <2>1. \A x \in 1 .. L : log'[x].entry.id <= sent'.messages
    <3>1. \A x \in 1 .. L : log[x].entry.id <= sent.messages  BY <1>6, <1>10 DEF LogInv
    <3> QED  BY <1>6, <1>9, <1>10, <3>1
  <2>2. \A x, y \in 1 .. L : x < y => log'[x].entry.id < log'[y].entry.id
    BY <1>6, <1>9, <1>10 DEF LogInv
  <2> QED  BY <1>8, <2>1, <2>2 DEF LogInv
<1>12. ASSUME ~tangled'  PROVE up' /\ Alone'
  <2>1. /\ up' /\ backlog' = backlog /\ backlog = Latest
        /\ \A h \in Goroutines : h # g => at'[h] \notin AtBacklog
    BY <1>12, ArrivesAlone
  <2> DEFINE n == Least(L, Limit - 1)
  <2>2. n \in 0 .. L  BY <1>6 DEF Least
  <2>3. backlog = [j \in 1 .. n |-> log[L - n + j].entry]  BY <2>1 DEF Latest
  <2>4. n = Least(Len(log'), Limit - 1)  BY <1>8
  <2> HIDE DEF n
  <2>5. Len(backlog) = n /\ \A j \in 1 .. n : backlog[j] = log[L - n + j].entry
    BY <1>6, <2>2, <2>3
  <2>6. \A j \in 1 .. n : L - n + j \in 1 .. L  BY <1>6, <2>2
  <2>7. \A j \in 1 .. n : backlog[j].id = log'[L - n + j].entry.id  BY <1>9, <2>5, <2>6
  <2>8. \A j \in 1 .. n : L - n + j # i => backlog[j] = log'[L - n + j].entry
    BY <1>8, <2>5, <2>6
  <2>9. \A j \in 1 .. n : ~(j > Len(backlog))  BY <2>2, <2>5
  <2>10. Replacing(g)'
    BY <1>5, <1>6, <1>8, <2>1, <2>4, <2>5, <2>7, <2>8, <2>9 DEF Replacing
  <2>11. AtWork(g)' /\ at'[g] \in AtBacklog  BY <1>5, <2>10 DEF AtWork, AtBacklog
  <2> QED  BY <2>1, <2>11, AloneAtWork
<1> QED  BY <1>1, <1>11, <1>12 DEF BacklogInv

LEMMA BacklogInit == Init => BacklogInv
<1> SUFFICES ASSUME Init PROVE BacklogInv  OBVIOUS
<1>1. RecordsTypeOK  BY RecordsInit DEF RecordsInv
<1>2. log = <<>> /\ backlog = <<>> /\ up /\ \A g \in Goroutines : at[g] = "idle"  BY DEF Init
<1>3. LogInv  BY <1>2 DEF LogInv
<1>4. Alone
  <2>1. \A g \in Goroutines : AtWork(g) /\ at[g] \notin AtBacklog
    BY <1>2 DEF AtWork, AtBacklog
  <2>2. Least(Len(log), Limit - 1) = 0  BY <1>2, RecordsConstants DEF Least
  <2>3. \A j \in 1 .. Len(backlog) : backlog[j] = log[Len(log) - Len(backlog) + j].entry
    BY <1>2
  <2>4. backlog \in Seq(Entry) /\ Len(backlog) = 0  BY <1>2
  <2>5. backlog = Latest  BY <1>1, <2>2, <2>3, <2>4, HoldsLatest
  <2> QED  BY <2>1, <2>5 DEF Alone
<1> QED  BY <1>1, <1>2, <1>3, <1>4 DEF BacklogInv

LEMMA BacklogNext == BacklogInv /\ RecordsTypeOK' /\ [Next]_vars => BacklogInv'
<1> SUFFICES ASSUME BacklogInv, RecordsTypeOK', [Next]_vars PROVE BacklogInv'  OBVIOUS
<1>1. ASSUME NEW g \in Goroutines, BacklogStep(g)  PROVE BacklogInv'
  <2>1. RecordsTypeOK  BY DEF BacklogInv
  <2>2. /\ Backlogging(g) /\ \A h \in Goroutines : h # g => at'[h] = at[h]
    BY <1>1, <2>1, BacklogStepTypes
  <2>3. LogInv' /\ tangled' = tangled  BY <2>2 DEF Backlogging, BacklogInv, LogInv
  <2>4. ASSUME ~tangled  PROVE up' /\ Alone'
    BY <1>1, <2>4, AppendReadsAlone, AppendWritesAlone, CheckLengthAlone, CutReadsAlone,
       CutWritesAlone, FindMessageAlone, ReplaceMessageAlone DEF BacklogStep
  <2> QED  BY <2>3, <2>4 DEF BacklogInv
<1>2. ASSUME NEW g \in Goroutines,
             \/ NoAuthor(g) \/ KnowAuthor(g) \/ AskForAuthor(g) \/ StoreAuthor(g)
             \/ SelectUser(g) \/ InsertUser(g) \/ UpdateUser(g)
             \/ resolveUserByNickFromCache(g) \/ GetLastSeen(g) \/ Block(g)
      PROVE  BacklogInv'
  <2>1. UNCHANGED <<backlog, log, tangled, up, sent>>
    BY <1>2 DEF NoAuthor, KnowAuthor, AskForAuthor, StoreAuthor, SelectUser, InsertUser,
         UpdateUser, Tracking, resolveUserByNickFromCache, GetLastSeen, Block, Blocking
  <2>2. at \in [Goroutines -> Places] /\ job \in [Goroutines -> Job] /\ held \in [Goroutines -> Local]
    BY DEF BacklogInv, RecordsTypeOK
  <2>3. at[g] \notin AtBacklog
    BY <1>2 DEF NoAuthor, KnowAuthor, AskForAuthor, StoreAuthor, SelectUser, InsertUser,
         UpdateUser, resolveUserByNickFromCache, GetLastSeen, Block, Is, AtBacklog
  <2>4. \E p \in {"answer", "select", "insert", "update", "resolve", "lookup", "block", "blockRow", "idle"} :
          Go(g, p)
    BY <1>2 DEF NoAuthor, KnowAuthor, AskForAuthor, StoreAuthor, SelectUser, InsertUser,
         UpdateUser, resolveUserByNickFromCache, GetLastSeen, Block, Leave, Done, ByMember, NotOne
  <2>5. at'[g] \notin AtBacklog /\ \A h \in Goroutines : h # g => at'[h] = at[h]
    BY <2>2, <2>4 DEF Go, AtBacklog
  <2>6. \A h \in Goroutines : h # g => job'[h] = job[h] /\ held'[h] = held[h]
    BY <1>2, <2>2 DEF NoAuthor, KnowAuthor, AskForAuthor, StoreAuthor, SelectUser, InsertUser,
         UpdateUser, resolveUserByNickFromCache, GetLastSeen, Block, Leave, Done, ByMember, NotOne
  <2> QED  BY <2>1, <2>3, <2>5, <2>6, ElsewhereLeavesBacklog
<1>3. CASE Rename
  <2>1. /\ UNCHANGED <<backlog, log, tangled, up, at, job, held>>
        /\ sent' = [sent EXCEPT !.renames = @ + 1]
    BY <1>3 DEF Rename
  <2>2. sent'.messages = sent.messages  BY <2>1 DEF BacklogInv, RecordsTypeOK
  <2> QED  BY <2>1, <2>2, ElsewhereLeavesBacklog
<1>4. CASE StoreName \/ UNCHANGED vars
  <2>1. UNCHANGED <<backlog, log, tangled, up, at, job, held, sent>>  BY <1>4 DEF StoreName, vars
  <2> QED  BY <2>1, ElsewhereLeavesBacklog
<1>5. CASE \E g \in Goroutines : Step(g)
  <2>1. PICK g \in Goroutines : Step(g)  BY <1>5
  <2>2. \/ MessageArrives(g) \/ EditArrives(g) \/ BacklogStep(g)
        \/ NoAuthor(g) \/ KnowAuthor(g) \/ AskForAuthor(g) \/ StoreAuthor(g)
        \/ SelectUser(g) \/ InsertUser(g) \/ UpdateUser(g)
        \/ resolveUserByNickFromCache(g) \/ GetLastSeen(g) \/ Block(g)
    BY <2>1 DEF Step, BacklogStep
  <2> QED  BY <2>2, <1>1, <1>2, MessageArrivesKeeps, EditArrivesKeeps
<1> QED  BY <1>3, <1>4, <1>5 DEF Next

\* At most one message too many is in a backlog nobody tangles.
LEMMA BacklogAsPromised == BacklogInv => BacklogHoldsTheLatest
<1> SUFFICES ASSUME BacklogInv, ~tangled
             PROVE  /\ up /\ Len(backlog) <= Limit
                    /\ (\A g \in Goroutines : at[g] \notin AtBacklog) => backlog = Latest
  BY DEF BacklogHoldsTheLatest
<1>1. RecordsTypeOK /\ LogInv /\ up /\ Alone  BY DEF BacklogInv
<1>2. Len(log) \in Nat /\ Limit \in Nat /\ Limit > 1  BY <1>1, LogTypes
<1>3. \A n \in Nat : Least(n, Limit - 1) \in 0 .. n /\ Least(n, Limit - 1) <= Limit
                     /\ Least(n, Limit) <= Limit
  BY <1>2 DEF Least
<1>4. CASE \A g \in Goroutines : at[g] \notin AtBacklog
  <2>1. backlog = Latest  BY <1>1, <1>4 DEF Alone
  <2>2. backlog = Window(Len(log), Least(Len(log), Limit - 1))  BY <2>1 DEF Latest, Window
  <2> DEFINE n == Least(Len(log), Limit - 1)
  <2>3. n \in 0 .. Len(log) /\ Len(log) \in 0 .. Len(log) /\ n <= Limit  BY <1>2, <1>3
  <2> HIDE DEF n
  <2>4. Len(Window(Len(log), n)) = n  BY <1>1, <2>3, WindowIds
  <2>5. backlog = Window(Len(log), n)  BY <2>2 DEF n
  <2> QED  BY <1>1, <2>1, <2>3, <2>4, <2>5
<1>5. ASSUME NEW g \in Goroutines, at[g] \in AtBacklog  PROVE Len(backlog) <= Limit
  <2>1. AtWork(g)  BY <1>1 DEF Alone
  <2>2. CASE at[g] \in {"append", "write"}
    <3>1. Appending(g)  BY <2>1, <2>2 DEF AtWork
    <3> DEFINE m == Len(log) - 1  n == Least(m, Limit - 1)
    <3>2. m \in Nat /\ m \in 0 .. Len(log)  BY <1>2, <3>1 DEF Appending
    <3>3. n \in 0 .. m /\ n <= Limit  BY <1>3, <3>2
    <3>4. backlog = Window(m, n)  BY <3>1 DEF Appending
    <3> HIDE DEF m, n
    <3>5. Len(Window(m, n)) = n  BY <1>1, <3>2, <3>3, WindowIds
    <3> QED  BY <3>3, <3>4, <3>5
  <2>3. CASE at[g] \in {"check", "cut", "trim"}
    <3>1. Len(backlog) = Least(Len(log), Limit)  BY <1>1, <2>1, <2>3, CutWindow DEF AtWork
    <3> QED  BY <1>2, <1>3, <3>1
  <2>4. CASE at[g] \in {"find", "replace"}
    <3>1. Len(backlog) = Least(Len(log), Limit - 1)  BY <2>1, <2>4 DEF AtWork, Replacing
    <3> QED  BY <1>2, <1>3, <3>1
  <2> QED  BY <1>5, <2>2, <2>3, <2>4 DEF AtBacklog
<1> QED  BY <1>1, <1>4, <1>5

\* Whatever messages and edits come, overlapping elsewhere: a backlog on which no
\* two goroutines were at work at once holds the latest messages as last edited,
\* at most as many as its limit, and nobody indexes it out of its range
\* (HandleIncomingMessage).
THEOREM BacklogCorrect == Spec => []BacklogHoldsTheLatest
<1> QED  BY BacklogInit, BacklogNext, RecordsTypeCorrect, BacklogAsPromised, PTL DEF Spec
=============================================================================
