----------------------- MODULE MessagePipelineProofs -----------------------
(***************************************************************************)
(* Proofs about MessagePipeline for any messages, handlers, reactions and  *)
(* number of goroutines: its types, that a group nobody sets up any more   *)
(* is ready, that no bad word leaves once filters are set, and what a      *)
(* message is answered that no other overlaps with.                        *)
(***************************************************************************)
EXTENDS MessagePipeline, FiniteSetTheorems, TLAPS

----------------------------------------------------------------------------
(* Lemmas about the operators *)

\* What a handler says is a response.
LEMMA ReplyType ==
  ASSUME NEW m \in Messages, NEW h \in 1..Handlers, NEW reaction \in Reactions,
         Handled(reaction)
  PROVE  Reply(m, h, reaction) \in Response
<1>1. Wording(reaction) \in Texts \cup {"blank", "jest"}
  <2>1. reaction = "cancel" => Wording(reaction) = "blank"  BY DEF Wording, Texts
  <2>2. reaction = "note" => Wording(reaction) = "plain"  BY DEF Wording, Texts
  <2>3. reaction \in Texts => Wording(reaction) = reaction  BY DEF Wording, Texts
  <2> QED  BY <2>1, <2>2, <2>3 DEF Reactions, Handled, Texts
<1>2. h \in 0..Handlers  BY PipelineConstants
<1> QED  BY <1>1, <1>2 DEF Reply, Response

\* The filters turn responses into responses; if none is cancelled afterwards, none has a bad
\* word in it.
LEMMA FilteredType ==
  ASSUME NEW rs \in Seq(Response)
  PROVE  /\ Filtered(rs) \in Seq(Response)
         /\ ~IsAnyCancelled(Filtered(rs)) => NoBadWord(Filtered(rs))
         /\ rs = <<>> => NoBadWord(rs)
<1> DEFINE bw == BadWords(rs)
           gp == GarbagePrefixes(bw)
           jests == [k \in 1..Cardinality(Longs(gp)) |-> Jest]
<1>0. Len(rs) \in Nat /\ DOMAIN rs = 1..Len(rs) /\ \A i \in 1..Len(rs) : rs[i] \in Response
  OBVIOUS
<1>1. /\ bw \in Seq(Response) /\ Len(bw) = Len(rs)
      /\ \A i \in 1..Len(rs) : bw[i].text = "bad" => bw[i].cancelled
  <2> DEFINE e(i) == [rs[i] EXCEPT !.cancelled = @ \/ rs[i].text = "bad"]
  <2>1. \A i \in 1..Len(rs) : e(i) \in Response /\ (e(i).text = "bad" => e(i).cancelled)
    BY <1>0 DEF Response
  <2>2. bw = [i \in 1..Len(rs) |-> e(i)]  BY <1>0 DEF BadWords
  <2> HIDE DEF e, bw
  <2> QED  BY <1>0, <2>1, <2>2
<1>2. /\ gp \in Seq(Response) /\ Len(gp) = Len(rs)
      /\ \A i \in 1..Len(rs) : gp[i].text = "bad" => gp[i].cancelled
  <2> HIDE DEF bw
  <2>1. DOMAIN bw = 1..Len(rs) /\ \A i \in 1..Len(rs) : bw[i] \in Response  BY <1>1
  <2> DEFINE e(i) == [bw[i] EXCEPT !.text = IF @ = "garbage" THEN "blank" ELSE @]
  <2>2. \A i \in 1..Len(rs) : e(i) \in Response /\ (e(i).text = "bad" => e(i).cancelled)
    BY <1>1, <2>1 DEF Response
  <2>3. gp = [i \in 1..Len(rs) |-> e(i)]  BY <2>1 DEF GarbagePrefixes
  <2> HIDE DEF e, gp
  <2> QED  BY <1>0, <2>2, <2>3
<1> HIDE DEF bw, gp
<1>3. Cardinality(Longs(gp)) \in Nat
  PROOF
  <2>1. IsFiniteSet(1..Len(rs))  BY FS_Interval
  <2>2. Longs(gp) \subseteq 1..Len(rs)  BY <1>2 DEF Longs
  <2> QED  BY <2>1, <2>2, FS_Subset, FS_CardinalityType
<1>4. jests \in Seq(Response) /\ \A k \in 1..Len(jests) : jests[k].text # "bad"
  <2>1. Jest \in Response /\ Jest.text # "bad"  BY PipelineConstants DEF Jest, Response
  <2> QED  BY <1>3, <2>1
<1>5. Filtered(rs) = gp \o jests  BY DEF Filtered, SelfSpamming, gp, bw
<1> HIDE DEF jests
<1>6. \A i \in 1..Len(rs) : ~gp[i].cancelled => gp[i].text # "bad"  BY <1>2
<1>7. ASSUME ~IsAnyCancelled(gp \o jests) PROVE NoBadWord(gp \o jests)
  <2>1. \A i \in 1..Len(rs) : (gp \o jests)[i] = gp[i]  BY <1>2, <1>4
  <2>2. \A i \in DOMAIN (gp \o jests) :
           i \in 1..Len(rs) \/ \E k \in 1..Len(jests) : (gp \o jests)[i] = jests[k]
    <3> SUFFICES ASSUME NEW i \in DOMAIN (gp \o jests), i \notin 1..Len(rs)
                 PROVE  \E k \in 1..Len(jests) : (gp \o jests)[i] = jests[k]
      OBVIOUS
    <3>1. i - Len(rs) \in 1..Len(jests) /\ (gp \o jests)[i] = jests[i - Len(rs)]
      BY <1>2, <1>4
    <3> QED  BY <3>1
  <2>3. \A i \in DOMAIN (gp \o jests) : ~(gp \o jests)[i].cancelled
    BY <1>7 DEF IsAnyCancelled
  <2>4. 1..Len(rs) \subseteq DOMAIN (gp \o jests)  BY <1>2, <1>4
  <2> QED  BY <1>4, <1>6, <2>1, <2>2, <2>3, <2>4 DEF NoBadWord
<1>8. gp \o jests \in Seq(Response)  BY <1>2, <1>4
<1> QED  BY <1>5, <1>7, <1>8 DEF NoBadWord

\* What is kept of a list are its own responses, none empty, none cancelled.
LEMMA OutputKeeps ==
  ASSUME NEW rs \in Seq(Response), NEW n \in Nat, n <= Len(rs)
  PROVE  \A i \in DOMAIN Output(rs, n) :
            /\ i \in DOMAIN rs /\ Output(rs, n)[i] = rs[i]
            /\ rs[i] \in Response /\ rs[i].text # "blank" /\ ~rs[i].cancelled
<1> DEFINE kept == {i \in 1..n : IsOutput(rs[i])}
<1>1. Output(rs, n) = [i \in kept |-> rs[i]]  BY DEF Output
<1>2. \A i \in kept : i \in DOMAIN rs /\ rs[i] \in Response /\ IsOutput(rs[i])  OBVIOUS
<1> QED  BY <1>1, <1>2 DEF IsOutput

\* The empty list is one of responses, with no bad word in it.
LEMMA EmptyList == <<>> \in Seq(Response) /\ NoBadWord(<<>>)
BY DEF NoBadWord

----------------------------------------------------------------------------
(* Initially *)

LEMMA InitPipelineInv ==
  Init => PipelineInv
<1> SUFFICES ASSUME Init PROVE PipelineInv
  OBVIOUS
<1>1. Away \in Run  BY PipelineConstants DEF Away, Run, Steps
<1>2. PipelineTypeOK
  BY <1>1, PipelineConstants DEF Init, PipelineTypeOK, Away
<1>3. SetupInv  BY DEF Init, SetupInv
<1>4. CleanInv  BY DEF Init, CleanInv, NoBadWord, Away
<1> QED  BY <1>2, <1>3, <1>4 DEF PipelineInv

----------------------------------------------------------------------------
(* Every step *)

\* What the types say of the parts a step looks at.
LEMMA Facts ==
  ASSUME PipelineInv
  PROVE  /\ Len(groups) \in Nat /\ group \in Nat /\ group = Len(groups)
         /\ groups \in Seq(Group) /\ DOMAIN groups = 1..Len(groups)
         /\ \A k \in 1..Len(groups) : groups[k] \in Group
         /\ \A n \in Messages :
              /\ run[n] \in Run /\ run[n].group \in 0..Len(groups)
              /\ run[n].at \in {"assign", "handle", "debug", "read"} => run[n].group > 0
              /\ run[n].at \in {"triggers", "filters", "process", "collect"} => group > 0
              /\ said[n] \in Sayings
         /\ Handlers \in Nat
<1>1. PipelineTypeOK /\ Handlers \in Nat  BY PipelineConstants DEF PipelineInv
<1>2. /\ Len(groups) \in Nat /\ group = Len(groups) /\ groups \in Seq(Group)
      /\ run \in [Messages -> Run] /\ said \in [Messages -> Sayings]
  BY <1>1 DEF PipelineTypeOK
<1>3. DOMAIN groups = 1..Len(groups) /\ \A k \in 1..Len(groups) : groups[k] \in Group
  BY <1>2
<1>4. ASSUME NEW n \in Messages
      PROVE  /\ run[n] \in Run /\ run[n].group \in 0..Len(groups)
             /\ run[n].at \in {"assign", "handle", "debug", "read"} => run[n].group > 0
             /\ run[n].at \in {"triggers", "filters", "process", "collect"} => group > 0
             /\ said[n] \in Sayings
  <2>1. run[n] \in Run /\ said[n] \in Sayings  BY <1>2
  <2>2. run[n].group \in Nat  BY <2>1 DEF Run
  <2> QED  BY <1>1, <1>2, <2>1, <2>2 DEF PipelineTypeOK
<1> QED  BY <1>1, <1>2, <1>3, <1>4

LEMMA RunMoves ==
  ASSUME PipelineTypeOK, NEW m \in Messages, NEW r \in Run, run' = [run EXCEPT ![m] = r]
  PROVE  run' \in [Messages -> Run] /\ \A n \in Messages : run'[n] = IF n = m THEN r ELSE run[n]
BY DEF PipelineTypeOK

LEMMA GroupChanges ==
  ASSUME groups \in Seq(Group), NEW k \in 1..Len(groups), NEW g \in Group,
         groups' = [groups EXCEPT ![k] = g]
  PROVE  /\ groups' \in Seq(Group) /\ Len(groups') = Len(groups)
         /\ \A j \in 1..Len(groups) : groups'[j] = IF j = k THEN g ELSE groups[j]
OBVIOUS

\* Where a goroutine may stand: it has a group when it uses one, and so has the process.
Stands(r) ==
  /\ r.group <= Len(groups)
  /\ r.at \in {"assign", "handle", "debug", "read"} => r.group > 0
  /\ r.at \in {"triggers", "filters", "process", "collect"} => group > 0

\* Groups keep their setup, and get no bad word unless something was rushed.
GroupsKept ==
  /\ groups' \in Seq(Group) /\ Len(groups') = Len(groups)
  /\ \A k \in 1..Len(groups) :
       /\ groups'[k].handlers = groups[k].handlers
       /\ groups'[k].filters = groups[k].filters
       /\ rushed' = {} /\ NoBadWord(groups[k].responses) => NoBadWord(groups'[k].responses)

\* The invariant survives the step of a goroutine that is not setting up a group and fills no
\* envelope.
LEMMA MoveKeeps ==
  ASSUME PipelineInv, NEW m \in Messages, NEW r \in Run, run' = [run EXCEPT ![m] = r],
         run[m].at \notin {"triggers", "filters"}, Stands(r), GroupsKept,
         UNCHANGED <<group, up, said, sent>>,
         misled' \subseteq Messages, crowded' \subseteq Messages,
         rushed \subseteq rushed', rushed' \subseteq Messages,
         rushed' = {} => NoBadWord(r.half)
  PROVE  PipelineInv'
<1> USE DEF PipelineInv
<1>1. /\ run' \in [Messages -> Run]
      /\ \A n \in Messages : run'[n] = IF n = m THEN r ELSE run[n]
  BY RunMoves
<1>2. PipelineTypeOK'
  BY <1>1 DEF PipelineTypeOK, Stands, GroupsKept
<1>3. \A step \in {"triggers", "filters"} : SomeoneAt(step) => SomeoneAt(step)'
  BY <1>1 DEF SomeoneAt
<1>4. SetupInv'
  <2>1. /\ SomeoneAt("triggers") => SomeoneAt("triggers")'
        /\ SomeoneAt("filters") => SomeoneAt("filters")'
    BY <1>3
  <2>2. group > 0 => group \in 1..Len(groups)  BY Facts
  <2> QED  BY <2>1, <2>2 DEF SetupInv, GroupsKept
<1>5. CleanInv'
  <2>1. DOMAIN groups' = DOMAIN groups /\ DOMAIN groups = 1..Len(groups)
    BY Facts DEF GroupsKept
  <2> QED  BY <1>1, <2>1 DEF CleanInv, GroupsKept
<1> QED  BY <1>2, <1>4, <1>5

LEMMA StepPipelineInv ==
  ASSUME PipelineInv, [Next]_vars
  PROVE  PipelineInv'
<1>t. PipelineTypeOK /\ SetupInv /\ CleanInv  BY DEF PipelineInv
<1>k. UNCHANGED <<groups, rushed>> => GroupsKept  BY Facts DEF GroupsKept
<1>e. Away \in Run /\ Away.group = 0 /\ Away.at = "away" /\ Away.half = <<>>
  <2>1. 1 \in 1..(Handlers + 1)  BY PipelineConstants
  <2> QED  BY <2>1, EmptyList DEF Away, Run, Steps
<1>h. rushed = {} => \A n \in Messages : NoBadWord(run[n].half)  BY <1>t DEF CleanInv
<1>1. ASSUME NEW m \in Messages, Receive(m)
      PROVE  PipelineInv'
  <2> DEFINE r == [run[m] EXCEPT !.at = IF NeedsGroup THEN "create" ELSE "process"]
  <2>1. /\ r \in Run /\ r.half = run[m].half /\ r.group = run[m].group
        /\ r.at = IF group = 0 THEN "create" ELSE "process"
    BY Facts DEF Run, Steps, NeedsGroup
  <2>2. /\ run' = [run EXCEPT ![m] = r] /\ run[m].at = "away"
        /\ UNCHANGED <<group, groups, up, said, misled, sent, rushed>>
    BY <1>1 DEF Receive, At
  <2>3. crowded' \subseteq Messages  BY <1>t, <1>1 DEF Receive, Busy, PipelineTypeOK
  <2>4. Stands(r)  BY <2>1, Facts DEF Stands
  <2> HIDE DEF r
  <2> QED  BY <1>t, <1>k, <1>h, <2>1, <2>2, <2>3, <2>4, MoveKeeps DEF PipelineTypeOK
<1>2. ASSUME NEW m \in Messages, InitMessageGroup(m)
      PROVE  PipelineInv'
  <2> DEFINE r == [run[m] EXCEPT !.at = "triggers"]
  <2>1. r \in Run /\ r.half = run[m].half /\ r.group = run[m].group /\ r.at = "triggers"
    BY Facts DEF Run, Steps
  <2>2. /\ run' = [run EXCEPT ![m] = r] /\ run[m].at = "create"
        /\ groups' = Append(groups, NewGroup) /\ group' = Len(groups) + 1
        /\ UNCHANGED <<up, said, misled, sent, crowded, rushed>>
    BY <1>2 DEF InitMessageGroup, At
  <2> HIDE DEF r
  <2>3. /\ run' \in [Messages -> Run]
        /\ \A n \in Messages : run'[n] = IF n = m THEN r ELSE run[n]
    BY <1>t, <2>1, <2>2, RunMoves
  <2>4. NewGroup \in Group /\ NewGroup.responses = <<>>  BY DEF NewGroup, Group
  <2>5. /\ groups' \in Seq(Group) /\ Len(groups') = Len(groups) + 1
        /\ \A k \in 1..Len(groups) : groups'[k] = groups[k]
        /\ groups'[Len(groups) + 1] = NewGroup
    BY <2>2, <2>4, Facts
  <2>6. PipelineTypeOK'
    <3>1. /\ Len(groups') = Len(groups) + 1 /\ group' = Len(groups') /\ Len(groups) \in Nat
          /\ group' > 0
      BY <2>2, <2>5, Facts
    <3>2. \A n \in Messages :
             /\ run'[n].group <= Len(groups')
             /\ run'[n].at \in {"assign", "handle", "debug", "read"} => run'[n].group > 0
      BY <2>1, <2>3, <3>1, Facts
    <3> QED  BY <1>t, <2>2, <2>3, <2>5, <3>1, <3>2 DEF PipelineTypeOK
  <2>7. SomeoneAt("triggers")'  BY <2>1, <2>3 DEF SomeoneAt
  <2>8. CleanInv'
    <3>1. DOMAIN groups' = 1..(Len(groups) + 1)  BY <2>5
    <3>2. \A k \in DOMAIN groups' : k \in 1..Len(groups) \/ k = Len(groups) + 1
      BY <3>1, Facts
    <3>3. NoBadWord(NewGroup.responses)  BY <2>4 DEF NoBadWord
    <3> QED  BY <1>t, <1>h, <2>1, <2>2, <2>3, <2>5, <3>2, <3>3, Facts DEF CleanInv
  <2> QED  BY <2>6, <2>7, <2>8 DEF PipelineInv, SetupInv
<1>3. ASSUME NEW m \in Messages, SetMessageTriggers(m)
      PROVE  PipelineInv'
  <2> DEFINE r == [run[m] EXCEPT !.at = "filters"]
             g == [groups[group] EXCEPT !.handlers = TRUE]
  <2>0. run[m].at = "triggers" /\ group \in 1..Len(groups)  BY <1>3, Facts DEF SetMessageTriggers, At
  <2>1. r \in Run /\ r.half = run[m].half /\ r.group = run[m].group /\ r.at = "filters"
    BY Facts DEF Run, Steps
  <2>2. g \in Group /\ g.handlers /\ g.filters = groups[group].filters
        /\ g.responses = groups[group].responses
    BY <2>0, Facts DEF Group
  <2>3. /\ run' = [run EXCEPT ![m] = r] /\ groups' = [groups EXCEPT ![group] = g]
        /\ UNCHANGED <<group, up, said, misled, sent, crowded, rushed>>
    BY <1>3 DEF SetMessageTriggers
  <2> HIDE DEF r, g
  <2>4. /\ run' \in [Messages -> Run]
        /\ \A n \in Messages : run'[n] = IF n = m THEN r ELSE run[n]
    BY <1>t, <2>1, <2>3, RunMoves
  <2>5. /\ groups' \in Seq(Group) /\ Len(groups') = Len(groups)
        /\ \A j \in 1..Len(groups) : groups'[j] = IF j = group THEN g ELSE groups[j]
    BY <2>0, <2>2, <2>3, Facts, GroupChanges
  <2>6. PipelineTypeOK'
    BY <1>t, <2>0, <2>1, <2>3, <2>4, <2>5, Facts DEF PipelineTypeOK
  <2>7. SomeoneAt("filters")' /\ groups'[group].handlers
    BY <2>0, <2>1, <2>2, <2>4, <2>5 DEF SomeoneAt
  <2>8. CleanInv'
    BY <1>t, <1>h, <2>1, <2>2, <2>3, <2>4, <2>5, Facts DEF CleanInv
  <2> QED  BY <2>3, <2>6, <2>7, <2>8 DEF PipelineInv, SetupInv
<1>4. ASSUME NEW m \in Messages, SetResponseTriggers(m)
      PROVE  PipelineInv'
  <2> DEFINE r == [run[m] EXCEPT !.at = "process"]
             g == [groups[group] EXCEPT !.filters = TRUE]
  <2>0. run[m].at = "filters" /\ group \in 1..Len(groups)  BY <1>4, Facts DEF SetResponseTriggers, At
  <2>1. r \in Run /\ r.half = run[m].half /\ r.group = run[m].group /\ r.at = "process"
    BY Facts DEF Run, Steps
  <2>2. g \in Group /\ g.filters /\ g.handlers = groups[group].handlers
        /\ g.responses = groups[group].responses
    BY <2>0, Facts DEF Group
  <2>3. /\ run' = [run EXCEPT ![m] = r] /\ groups' = [groups EXCEPT ![group] = g]
        /\ UNCHANGED <<group, up, said, misled, sent, crowded, rushed>>
    BY <1>4 DEF SetResponseTriggers, FiltersSet
  <2> HIDE DEF r, g
  <2>4. /\ run' \in [Messages -> Run]
        /\ \A n \in Messages : run'[n] = IF n = m THEN r ELSE run[n]
    BY <1>t, <2>1, <2>3, RunMoves
  <2>5. /\ groups' \in Seq(Group) /\ Len(groups') = Len(groups)
        /\ \A j \in 1..Len(groups) : groups'[j] = IF j = group THEN g ELSE groups[j]
    BY <2>0, <2>2, <2>3, Facts, GroupChanges
  <2>6. PipelineTypeOK'
    BY <1>t, <2>0, <2>1, <2>3, <2>4, <2>5, Facts DEF PipelineTypeOK
  <2>7. groups'[group].filters /\ groups'[group].handlers = groups[group].handlers
    BY <2>0, <2>2, <2>5
  <2>8. SomeoneAt("triggers") => SomeoneAt("triggers")'
    BY <2>0, <2>4 DEF SomeoneAt
  <2>9. CleanInv'
    BY <1>t, <1>h, <2>1, <2>2, <2>3, <2>4, <2>5, Facts DEF CleanInv
  <2> QED  BY <1>t, <2>3, <2>6, <2>7, <2>8, <2>9 DEF PipelineInv, SetupInv
<1>5. ASSUME NEW m \in Messages, Reset(m)
      PROVE  PipelineInv'
  <2> DEFINE r == [run[m] EXCEPT !.at = "assign", !.group = group]
             g == [groups[group] EXCEPT !.message = NoMessage, !.responses = <<>>]
  <2>0. run[m].at = "process" /\ group \in 1..Len(groups)  BY <1>5, Facts DEF Reset, At
  <2>1. r \in Run /\ r.half = run[m].half /\ r.group = group /\ r.at = "assign"
    BY Facts DEF Run, Steps
  <2>2. /\ g \in Group /\ g.filters = groups[group].filters
        /\ g.handlers = groups[group].handlers /\ NoBadWord(g.responses)
    BY <2>0, Facts, EmptyList DEF Group
  <2>3. /\ run' = [run EXCEPT ![m] = r] /\ groups' = [groups EXCEPT ![group] = g]
        /\ UNCHANGED <<group, up, said, misled, sent, crowded, rushed>>
    BY <1>5 DEF Reset
  <2>4. Stands(r)  BY <2>0, <2>1, Facts DEF Stands
  <2> HIDE DEF r, g
  <2>5. GroupsKept  BY <2>0, <2>2, <2>3, Facts, GroupChanges DEF GroupsKept
  <2> QED  BY <1>t, <1>h, <2>0, <2>1, <2>3, <2>4, <2>5, MoveKeeps DEF PipelineTypeOK
<1>6. ASSUME NEW m \in Messages, Process(m)
      PROVE  PipelineInv'
  <2> DEFINE k == run[m].group
             r == [run[m] EXCEPT !.at = "handle",
                                 !.next = IF Own(m).handlers THEN 1 ELSE Handlers + 1]
             g == [groups[k] EXCEPT !.message = m]
  <2>0. run[m].at = "assign" /\ k \in 1..Len(groups)  BY <1>6, Facts DEF Process, At
  <2>1. r \in Run /\ r.half = run[m].half /\ r.group = run[m].group /\ r.at = "handle"
    <3>1. run[m] \in Run /\ Handlers \in Nat  BY Facts
    <3>2. (IF Own(m).handlers THEN 1 ELSE Handlers + 1) \in 1..(Handlers + 1)  BY <3>1
    <3> QED  BY <3>1, <3>2 DEF Run, Steps
  <2>2. /\ g \in Group /\ g.filters = groups[k].filters
        /\ g.handlers = groups[k].handlers /\ g.responses = groups[k].responses
    <3>1. groups[k] \in Group  BY <2>0, Facts
    <3> QED  BY <3>1 DEF Group
  <2>3. /\ run' = [run EXCEPT ![m] = r] /\ groups' = [groups EXCEPT ![k] = g]
        /\ UNCHANGED <<group, up, said, misled, sent, crowded>>
        /\ rushed \subseteq rushed' /\ rushed' \subseteq rushed \cup {m}
    BY <1>6 DEF Process
  <2>4. Stands(r)  BY <2>0, <2>1, Facts DEF Stands
  <2> HIDE DEF r, g, k
  <2>5. GroupsKept  BY <2>0, <2>2, <2>3, Facts, GroupChanges DEF GroupsKept
  <2>6. rushed' = {} => rushed = {}  BY <2>3
  <2> QED  BY <1>t, <1>h, <2>0, <2>1, <2>3, <2>4, <2>5, <2>6, MoveKeeps DEF PipelineTypeOK
<1>7. ASSUME NEW m \in Messages, RunMessageEv(m)
      PROVE  PipelineInv'
  <2> DEFINE h == run[m].next
             message == Own(m).message
             reaction == said[message].reacts[h]
             out == IF Handled(reaction) THEN Append(run[m].out, Reply(message, h, reaction))
                    ELSE run[m].out
             r == [run[m] EXCEPT !.at = IF Handled(reaction) THEN "debug" ELSE "handle",
                                 !.next = IF Consumed(reaction) THEN Handlers + 1 ELSE h + 1,
                                 !.out = out]
  <2>0. run[m].at = "handle" /\ run[m].group \in 1..Len(groups)
    BY <1>7, Facts DEF RunMessageEv, At
  <2>1. h \in 1..Handlers /\ message \in Messages
    <3>1. h \in 1..(Handlers + 1) /\ h <= Handlers  BY <1>7, Facts DEF RunMessageEv, Run
    <3>2. message \in Messages \cup {NoMessage} /\ message # NoMessage
      BY <2>0, <1>7, Facts DEF RunMessageEv, Own, Group
    <3> QED  BY <3>1, <3>2, Facts
  <2>2. reaction \in Reactions  BY <2>1, Facts, PipelineConstants
  <2>3. out \in Seq(Response)
    <3>1. run[m].out \in Seq(Response)  BY Facts DEF Run
    <3>2. Handled(reaction) => Reply(message, h, reaction) \in Response
      BY <2>1, <2>2, ReplyType
    <3> QED  BY <3>1, <3>2
  <2>4. /\ run' = [run EXCEPT ![m] = r]
        /\ UNCHANGED <<group, groups, up, said, sent, crowded, rushed>>
        /\ misled' \subseteq misled \cup {m}
    BY <1>7 DEF RunMessageEv, Outgoing
  <2> HIDE DEF out, message, reaction
  <2>5. r \in Run /\ r.half = run[m].half /\ r.group = run[m].group /\ r.at \in {"debug", "handle"}
    <3>1. run[m] \in Run /\ Handlers \in Nat  BY Facts
    <3>2. (IF Consumed(reaction) THEN Handlers + 1 ELSE h + 1) \in 1..(Handlers + 1)  BY <2>1, <3>1
    <3> QED  BY <2>3, <3>1, <3>2 DEF Run, Steps
  <2> HIDE DEF r
  <2>6. Stands(r)  BY <2>0, <2>5, Facts DEF Stands
  <2> QED  BY <1>t, <1>k, <1>h, <2>0, <2>4, <2>5, <2>6, MoveKeeps DEF PipelineTypeOK
<1>8. ASSUME NEW m \in Messages, DbgMessaging(m)
      PROVE  PipelineInv'
  <2> DEFINE r == [run[m] EXCEPT !.at = "handle"]
  <2>1. r \in Run /\ r.half = run[m].half /\ r.group = run[m].group /\ r.at = "handle"
    BY Facts DEF Run, Steps
  <2>2. /\ run' = [run EXCEPT ![m] = r] /\ run[m].at = "debug"
        /\ UNCHANGED <<group, groups, up, said, misled, sent, crowded, rushed>>
    BY <1>8 DEF DbgMessaging, At
  <2>3. Stands(r)  BY <2>1, <2>2, Facts DEF Stands
  <2> HIDE DEF r
  <2> QED  BY <1>t, <1>k, <1>h, <2>1, <2>2, <2>3, MoveKeeps DEF PipelineTypeOK
<1>9. ASSUME NEW m \in Messages, Finish(m)
      PROVE  PipelineInv'
  <2> DEFINE k == run[m].group
             out == run[m].out
             result == IF Own(m).filters THEN Filtered(out) ELSE out
             kept == IF IsAnyCancelled(result) THEN <<>> ELSE result
             r == [run[m] EXCEPT !.at = "collect", !.out = <<>>]
             g == [groups[k] EXCEPT !.responses = kept]
  <2>0. run[m].at = "handle" /\ k \in 1..Len(groups) /\ group > 0
    BY <1>9, Facts DEF Finish, At
  <2>1. r \in Run /\ r.half = run[m].half /\ r.group = run[m].group /\ r.at = "collect"
    <3>1. run[m] \in Run  BY Facts
    <3> QED  BY <3>1, EmptyList DEF Run, Steps
  <2>2. out \in Seq(Response)  BY Facts DEF Run
  <2>3. kept \in Seq(Response)  BY <2>2, FilteredType
  <2>4. /\ run' = [run EXCEPT ![m] = r] /\ groups' = [groups EXCEPT ![k] = g]
        /\ UNCHANGED <<group, up, said, misled, sent, crowded>>
        /\ rushed \subseteq rushed' /\ rushed' \subseteq rushed \cup {m}
    BY <1>9 DEF Finish
  <2>5. rushed' = {} => NoBadWord(kept)
    <3>1. NoBadWord(<<>>)  BY DEF NoBadWord
    <3>2. CASE Own(m).filters  BY <2>2, <3>1, <3>2, FilteredType
    <3>3. CASE ~Own(m).filters  BY <1>9, <3>1, <3>3 DEF Finish
    <3> QED  BY <3>2, <3>3
  <2> HIDE DEF kept
  <2>6. /\ g \in Group /\ g.filters = groups[k].filters
        /\ g.handlers = groups[k].handlers /\ g.responses = kept
    BY <2>0, <2>3, Facts DEF Group
  <2>7. Stands(r)  BY <2>0, <2>1, Facts DEF Stands
  <2> HIDE DEF r, g, k
  <2>8. GroupsKept  BY <2>0, <2>4, <2>5, <2>6, Facts, GroupChanges DEF GroupsKept
  <2>9. rushed' = {} => rushed = {}  BY <2>4
  <2> QED  BY <1>t, <1>h, <2>0, <2>1, <2>4, <2>7, <2>8, <2>9, MoveKeeps DEF PipelineTypeOK
<1>10. ASSUME NEW m \in Messages, Responses(m)
       PROVE  PipelineInv'
  <2> DEFINE r == [run[m] EXCEPT !.at = "read", !.group = group, !.half = groups[group].responses]
  <2>0. run[m].at = "collect" /\ group \in 1..Len(groups)  BY <1>10, Facts DEF Responses, At
  <2>1. r \in Run /\ r.half = groups[group].responses /\ r.group = group /\ r.at = "read"
    BY <2>0, Facts DEF Run, Steps, Group
  <2>2. /\ run' = [run EXCEPT ![m] = r]
        /\ UNCHANGED <<group, groups, up, said, misled, sent, crowded, rushed>>
    BY <1>10 DEF Responses
  <2>3. Stands(r)  BY <2>0, <2>1, Facts DEF Stands
  <2>4. rushed = {} => NoBadWord(groups[group].responses)  BY <1>t, <2>0, Facts DEF CleanInv
  <2> HIDE DEF r
  <2> QED  BY <1>t, <1>k, <2>0, <2>1, <2>2, <2>3, <2>4, MoveKeeps DEF PipelineTypeOK
<1>11. ASSUME NEW m \in Messages, ReadRest(m)
       PROVE  PipelineInv'
  <2> DEFINE half == run[m].half
             full == Own(m).responses
             r == [Away EXCEPT !.at = "done"]
  <2>0. run[m].at = "read" /\ run[m].group \in 1..Len(groups)
    BY <1>11, Facts DEF ReadRest, At
  <2>1. half \in Seq(Response) /\ full \in Seq(Response)
    BY <2>0, Facts DEF Own, Run, Group
  <2>2. rushed = {} => NoBadWord(half) /\ NoBadWord(full)
    BY <1>t, <1>h, <2>0, Facts DEF CleanInv, Own
  <2>3. PICK list \in {half, full}, n \in Nat :
          /\ n <= Len(list)
          /\ sent' = [sent EXCEPT ![m] = IF said[m].edit THEN <<>> ELSE Output(list, n)]
          /\ run' = [run EXCEPT ![m] = r]
          /\ UNCHANGED <<group, groups, up, said, misled, crowded, rushed>>
    <3>1. PICK slice \in {<<half, Len(full)>>, <<full, Len(half)>>} :
            /\ slice[2] <= Len(slice[1])
            /\ sent' = [sent EXCEPT ![m] = IF said[m].edit THEN <<>> ELSE Output(slice[1], slice[2])]
            /\ run' = [run EXCEPT ![m] = r]
            /\ UNCHANGED <<group, groups, up, said, misled, crowded, rushed>>
      BY <1>11 DEF ReadRest, Slices
    <3>2. slice[1] \in {half, full} /\ slice[2] \in {Len(half), Len(full)}
      <4>1. CASE slice = <<half, Len(full)>>  BY <4>1
      <4>2. CASE slice = <<full, Len(half)>>  BY <4>2
      <4> QED  BY <3>1, <4>1, <4>2
    <3>3. slice[2] \in Nat  BY <2>1, <3>2
    <3> QED  BY <3>1, <3>2, <3>3
  <2>4. r \in Run /\ r.at = "done" /\ r.group = 0 /\ r.half = <<>>
    <3>1. 1 \in 1..(Handlers + 1)  BY PipelineConstants
    <3> QED  BY <3>1, EmptyList DEF Away, Run, Steps
  <2> HIDE DEF r, half, full
  <2>5. /\ run' \in [Messages -> Run]
        /\ \A k \in Messages : run'[k] = IF k = m THEN r ELSE run[k]
    BY <1>t, <2>3, <2>4, RunMoves
  <2>6. \A k \in Messages : \A i \in DOMAIN sent'[k] :
           IF k = m THEN /\ i \in DOMAIN list /\ sent'[k][i] = list[i]
                         /\ list[i] \in Response /\ list[i].text # "blank" /\ ~list[i].cancelled
           ELSE i \in DOMAIN sent[k] /\ sent'[k][i] = sent[k][i]
    <3>1. list \in Seq(Response)  BY <2>1
    <3>2. \A i \in DOMAIN Output(list, n) :
             /\ i \in DOMAIN list /\ Output(list, n)[i] = list[i]
             /\ list[i] \in Response /\ list[i].text # "blank" /\ ~list[i].cancelled
      BY <2>3, <3>1, OutputKeeps
    <3>3. \A k \in Messages :
             sent'[k] = IF k # m THEN sent[k]
                        ELSE IF said[m].edit THEN <<>> ELSE Output(list, n)
      BY <1>t, <2>3 DEF PipelineTypeOK
    <3>4. ASSUME NEW k \in Messages, NEW i \in DOMAIN sent'[k], k = m
          PROVE  /\ i \in DOMAIN list /\ sent'[k][i] = list[i]
                 /\ list[i] \in Response /\ list[i].text # "blank" /\ ~list[i].cancelled
      <4>1. CASE said[m].edit
        <5>1. sent'[k] = <<>>  BY <3>3, <3>4, <4>1
        <5> QED  BY <3>4, <5>1
      <4>2. CASE ~said[m].edit  BY <3>2, <3>3, <3>4, <4>2
      <4> QED  BY <4>1, <4>2
    <3> QED  BY <3>3, <3>4
  <2>7. PipelineTypeOK'
    <3>1. DOMAIN sent' = Messages  BY <1>t, <2>3 DEF PipelineTypeOK
    <3>2. \A k \in Messages : \A i \in DOMAIN sent'[k] :
             sent'[k][i] \in Response /\ sent'[k][i].text # "blank" /\ ~sent'[k][i].cancelled
      BY <1>t, <2>6 DEF PipelineTypeOK
    <3> QED  BY <1>t, <2>3, <2>4, <2>5, <3>1, <3>2 DEF PipelineTypeOK
  <2>8. SetupInv'
    BY <1>t, <2>0, <2>3, <2>4, <2>5 DEF SetupInv, SomeoneAt
  <2>9. CleanInv'
    <3>1. rushed = {} => \A k \in Messages : NoBadWord(sent'[k])
      BY <1>t, <2>2, <2>3, <2>6 DEF CleanInv, NoBadWord
    <3>2. NoBadWord(r.half)  BY <2>4 DEF NoBadWord
    <3> QED  BY <1>t, <1>h, <2>3, <2>5, <3>1, <3>2 DEF CleanInv
  <2> QED  BY <2>7, <2>8, <2>9 DEF PipelineInv
<1>12. ASSUME NEW m \in Messages, Panic(m)
       PROVE  PipelineInv'
  <2>2. /\ up' = FALSE /\ group' = 0 /\ groups' = <<>>
        /\ run' = [n \in Messages |-> Away]
        /\ UNCHANGED <<said, misled, sent, crowded, rushed>>
    BY <1>12 DEF Panic
  <2>3. PipelineTypeOK'
    <3>1. Len(<<>>) = 0 /\ <<>> \in Seq(Group)  OBVIOUS
    <3>2. run' \in [Messages -> Run] /\ \A n \in Messages : run'[n] = Away  BY <1>e, <2>2
    <3>3. \A n \in Messages : /\ run'[n].group <= Len(groups')
                            /\ run'[n].at = "away"
      BY <1>e, <2>2, <3>1, <3>2
    <3>4. group' = Len(groups') /\ groups' \in Seq(Group)  BY <2>2, <3>1
    <3> QED  BY <1>t, <2>2, <3>2, <3>3, <3>4 DEF PipelineTypeOK
  <2>4. SetupInv'  BY <2>2 DEF SetupInv
  <2>5. CleanInv'  BY <1>t, <1>e, <2>2 DEF CleanInv, NoBadWord
  <2> QED  BY <2>3, <2>4, <2>5 DEF PipelineInv
<1>13. ASSUME UNCHANGED vars
       PROVE  PipelineInv'
  BY <1>t, <1>13 DEF vars, PipelineInv, PipelineTypeOK, SetupInv, CleanInv, SomeoneAt
<1> QED
  BY <1>1, <1>2, <1>3, <1>4, <1>5, <1>6, <1>7, <1>8, <1>9, <1>10, <1>11, <1>12, <1>13
  DEF Next

----------------------------------------------------------------------------
(* The theorems *)

\* The pipeline's invariant holds in every reachable state.
THEOREM PipelineInvariance == Spec => []PipelineInv
<1>1. PipelineInv /\ [Next]_vars => PipelineInv'  BY StepPipelineInv
<1> QED  BY InitPipelineInv, <1>1, PTL DEF Spec

\* Types: no message is run by a group that does not exist, and no envelope holds an empty or
\* a cancelled response, in whatever order goroutines create the group and overwrite it.
THEOREM PipelineTypeCorrect == Spec => []PipelineTypeOK
<1>1. PipelineInv => PipelineTypeOK  BY DEF PipelineInv
<1> QED  BY PipelineInvariance, <1>1, PTL

\* However many goroutines race to create the group, the one in use is complete once nobody is
\* setting one up.
THEOREM QuietGroupReady == Spec => []QuietGroupIsReady
<1>1. PipelineInv => QuietGroupIsReady  BY DEF PipelineInv, SetupInv, QuietGroupIsReady
<1> QED  BY PipelineInvariance, <1>1, PTL

\* No envelope, not even one read torn or filled for another message, has a bad word in it,
\* unless a message was run before the filters were set.
THEOREM BadWordsAreKept == Spec => []BadWordsStayIn
<1>1. PipelineInv => BadWordsStayIn  BY DEF PipelineInv, CleanInv, BadWordsStayIn, NoBadWord
<1> QED  BY PipelineInvariance, <1>1, PTL

----------------------------------------------------------------------------
(* What a message nobody overlaps with is answered *)

\* Who spoke before the next handler, and what there is of it.
Spoke(saying, next) == {h \in Speakers(saying) : h < next}
Told(m, next, out) ==
  /\ Len(out) = Cardinality(Spoke(said[m], next))
  /\ \A i \in 1..Len(out) :
       \E h \in Spoke(said[m], next) :
         Rank(Spoke(said[m], next), h) = i /\ out[i] = Reply(m, h, said[m].reacts[h])

\* What the list of responses must yield.
Owed(m, rs) == ~said[m].edit => Output(rs, Len(rs)) = Alone(m)

\* A later number of a finite set has a higher rank.
LEMMA RankRises ==
  ASSUME NEW L \in Nat, NEW S \in SUBSET (1..L), NEW g \in S, NEW h \in S, g < h
  PROVE  Rank(S, g) \in Nat /\ Rank(S, h) \in Nat /\ Rank(S, g) < Rank(S, h)
<1> DEFINE G == {k \in S : k <= g}
           H == {k \in S : k <= h}
<1>1. IsFiniteSet(1..L)  BY FS_Interval
<1>2. g \in Nat /\ h \in Nat /\ \A k \in S : k \in Nat  OBVIOUS
<1>3. H \in SUBSET (1..L) /\ G \in SUBSET H /\ h \in H /\ h \notin G
  <2>1. \A k \in S : k <= g => k <= h  BY <1>2
  <2>2. h <= h /\ ~(h <= g)  BY <1>2
  <2> QED  BY <2>1, <2>2
<1>4. IsFiniteSet(H)  BY <1>1, <1>3, FS_Subset
<1>5. IsFiniteSet(G) /\ Cardinality(G) <= Cardinality(H) /\ Cardinality(G) # Cardinality(H)
  BY <1>3, <1>4, FS_Subset
<1>6. Cardinality(G) \in Nat /\ Cardinality(H) \in Nat  BY <1>4, <1>5, FS_CardinalityType
<1>7. Rank(S, g) = Cardinality(G) /\ Rank(S, h) = Cardinality(H)  BY DEF Rank
<1> QED  BY <1>5, <1>6, <1>7

\* So the one of a rank is the only one.
LEMMA NthIs ==
  ASSUME NEW L \in Nat, NEW S \in SUBSET (1..L), NEW h \in S
  PROVE  Nth(S, Rank(S, h)) = h
<1> DEFINE g == Nth(S, Rank(S, h))
<1>1. g \in S /\ Rank(S, g) = Rank(S, h)  BY DEF Nth
<1> HIDE DEF g
<1>2. ~(g < h) /\ ~(h < g)
  <2>1. ASSUME g < h PROVE FALSE
    <3>1. Rank(S, g) \in Nat /\ Rank(S, g) < Rank(S, h)  BY <1>1, <2>1, RankRises
    <3> QED  BY <1>1, <3>1
  <2>2. ASSUME h < g PROVE FALSE
    <3>1. Rank(S, h) \in Nat /\ Rank(S, h) < Rank(S, g)  BY <1>1, <2>2, RankRises
    <3> QED  BY <1>1, <3>1
  <2> QED  BY <2>1, <2>2
<1>3. g \in Nat /\ h \in Nat  BY <1>1
<1>4. g = h  BY <1>2, <1>3
<1> QED  BY <1>4 DEF g

LEMMA SpeakersSpeak ==
  ASSUME NEW saying \in Sayings, NEW next \in Nat
  PROVE  /\ Spoke(saying, next) \in SUBSET (1..Handlers)
         /\ Spoke(saying, Handlers + 1) = Speakers(saying)
         /\ IsFiniteSet(Spoke(saying, next)) /\ Cardinality(Spoke(saying, next)) \in Nat
         /\ \A h \in Speakers(saying) :
              /\ h \in 1..Handlers /\ saying.reacts[h] \in Reactions
              /\ saying.reacts[h] # "pass"
              /\ \A g \in Speakers(saying) : g < h => saying.reacts[g] = "note"
<1>1. Handlers \in Nat /\ saying.reacts \in [1..Handlers -> Reactions]  BY PipelineConstants
<1>2. Spoke(saying, next) \in SUBSET (1..Handlers)  BY DEF Spoke, Speakers
<1>3. Spoke(saying, Handlers + 1) = Speakers(saying)  BY <1>1 DEF Spoke, Speakers
<1>4. IsFiniteSet(1..Handlers)  BY <1>1, FS_Interval
<1>5. IsFiniteSet(Spoke(saying, next)) /\ Cardinality(Spoke(saying, next)) \in Nat
  BY <1>2, <1>4, FS_Subset, FS_CardinalityType
<1>6. ASSUME NEW h \in Speakers(saying)
      PROVE  /\ h \in 1..Handlers /\ saying.reacts[h] \in Reactions
             /\ saying.reacts[h] # "pass"
             /\ \A g \in Speakers(saying) : g < h => saying.reacts[g] = "note"
  <2>1. h \in 1..Handlers /\ Hears(saying, h) /\ Handled(saying.reacts[h])  BY DEF Speakers
  <2>2. saying.reacts[h] \in Reactions /\ saying.reacts[h] # "pass"  BY <1>1, <2>1 DEF Handled
  <2>3. ASSUME NEW g \in Speakers(saying), g < h  PROVE saying.reacts[g] = "note"
    <3>1. g \in 1..Handlers /\ Handled(saying.reacts[g])  BY DEF Speakers
    <3>2. g \in 1..h - 1  BY <2>1, <2>3, <3>1
    <3>3. ~Consumed(saying.reacts[g])  BY <2>1, <3>2 DEF Hears
    <3> QED  BY <3>1, <3>3 DEF Consumed, Handled
  <2> QED  BY <2>1, <2>2, <2>3
<1> QED  BY <1>2, <1>3, <1>5, <1>6

\* What the filters make of the replies of all who spoke is what the message is owed.
LEMMA AnswerIsOwed ==
  ASSUME PipelineTypeOK, NEW m \in Messages, NEW out \in Seq(Response), Told(m, Handlers + 1, out),
         NEW rs, rs = IF IsAnyCancelled(Filtered(out)) THEN <<>> ELSE Filtered(out)
  PROVE  Owed(m, rs)
<1> DEFINE saying == said[m]
           S == Speakers(saying)
           n == Cardinality(S)
           speech == [i \in 1..n |-> saying.reacts[Nth(S, i)]]
<1>1. saying \in Sayings /\ Handlers \in Nat  BY PipelineConstants DEF PipelineTypeOK
<1>2. S \in SUBSET (1..Handlers) /\ n \in Nat  BY <1>1, SpeakersSpeak
<1>3. Len(out) = n /\ DOMAIN out = 1..n  BY <1>1, SpeakersSpeak DEF Told
<1>4. ASSUME NEW i \in 1..n
      PROVE  /\ Nth(S, i) \in S /\ Rank(S, Nth(S, i)) = i /\ speech[i] = saying.reacts[Nth(S, i)]
             /\ out[i] = Reply(m, Nth(S, i), speech[i])
             /\ speech[i] \in Reactions /\ speech[i] # "pass"
  <2>1. PICK h \in S : Rank(S, h) = i /\ out[i] = Reply(m, h, saying.reacts[h])
    BY <1>1, <1>3, SpeakersSpeak DEF Told
  <2>2. Nth(S, i) = h  BY <1>1, <1>2, <2>1, NthIs
  <2>3. saying.reacts[h] \in Reactions /\ saying.reacts[h] # "pass"  BY <1>1, SpeakersSpeak
  <2> QED  BY <2>1, <2>2, <2>3
<1>5. ASSUME NEW i \in 1..n, NEW j \in 1..n, i < j  PROVE speech[i] = "note"
  <2> DEFINE g == Nth(S, i)  h == Nth(S, j)
  <2>1. g \in S /\ h \in S /\ Rank(S, g) = i /\ Rank(S, h) = j  BY <1>4
  <2>2. g \in Nat /\ h \in Nat  BY <1>2, <2>1
  <2>3. speech[i] = saying.reacts[g]  BY <1>4
  <2> HIDE DEF g, h
  <2>4. g # h  BY <1>2, <1>5, <2>1
  <2>5. ~(h < g)
    <3> SUFFICES ASSUME h < g PROVE FALSE  OBVIOUS
    <3>1. Rank(S, h) < Rank(S, g)  BY <1>1, <1>2, <2>1, RankRises
    <3> QED  BY <1>2, <1>5, <2>1, <3>1
  <2>6. g < h  BY <2>2, <2>4, <2>5
  <2> QED  BY <1>1, <2>1, <2>3, <2>6, SpeakersSpeak
<1> HIDE DEF speech
<1> DEFINE bw == BadWords(out)
           gp == GarbagePrefixes(bw)
           Said(i) == [to |-> m, by |-> Nth(S, i),
                       cancelled |-> speech[i] \in {"cancel", "bad"},
                       text |-> IF speech[i] \in {"cancel", "garbage"} THEN "blank"
                                ELSE IF speech[i] = "note" THEN "plain" ELSE speech[i]]
<1>6. gp = [i \in 1..n |-> Said(i)]
  <2> DEFINE b(i) == [out[i] EXCEPT !.cancelled = @ \/ out[i].text = "bad"]
  <2>1. bw = [i \in 1..n |-> b(i)]  BY <1>3 DEF BadWords
  <2> DEFINE p(i) == [b(i) EXCEPT !.text = IF @ = "garbage" THEN "blank" ELSE @]
  <2>2. gp = [i \in 1..n |-> p(i)]
    <3>1. DOMAIN bw = 1..n /\ \A i \in 1..n : bw[i] = b(i)  BY <2>1
    <3> HIDE DEF bw, b
    <3> QED  BY <3>1 DEF GarbagePrefixes
  <2>3. ASSUME NEW i \in 1..n  PROVE p(i) = Said(i)
    <3> DEFINE w == Wording(speech[i])
    <3>1. out[i] = [to |-> m, by |-> Nth(S, i), cancelled |-> speech[i] = "cancel", text |-> w]
      BY <1>4 DEF Reply
    <3>2. /\ speech[i] = "cancel" => w = "blank"
          /\ speech[i] = "note" => w = "plain"
          /\ speech[i] \in Texts => w = speech[i]
      BY DEF Wording, Texts
    <3>3. speech[i] \in {"note", "cancel", "plain", "bad", "long", "garbage"}
      BY <1>4 DEF Reactions, Texts
    <3> HIDE DEF w
    <3>4. w = "bad" <=> speech[i] = "bad"  BY <3>2, <3>3 DEF Texts
    <3>5. (IF w = "garbage" THEN "blank" ELSE w)
            = IF speech[i] \in {"cancel", "garbage"} THEN "blank"
              ELSE IF speech[i] = "note" THEN "plain" ELSE speech[i]
      BY <3>2, <3>3 DEF Texts
    <3>6. (speech[i] = "cancel" \/ w = "bad") <=> speech[i] \in {"cancel", "bad"}  BY <3>4
    <3>7. p(i) = [to |-> m, by |-> Nth(S, i), cancelled |-> speech[i] = "cancel" \/ w = "bad",
                  text |-> IF w = "garbage" THEN "blank" ELSE w]
      <4>1. b(i) = [to |-> m, by |-> Nth(S, i), cancelled |-> speech[i] = "cancel" \/ w = "bad",
                    text |-> w]
        <5> DEFINE c == speech[i] = "cancel"
        <5>1. out[i] = [to |-> m, by |-> Nth(S, i), cancelled |-> c, text |-> w]  BY <3>1
        <5> HIDE DEF c
        <5>2. out[i].text = w /\ out[i].cancelled = c  BY <5>1
        <5> DEFINE d == out[i].cancelled \/ out[i].text = "bad"
        <5>3. b(i) = [out[i] EXCEPT !.cancelled = d]  OBVIOUS
        <5>4. d = (c \/ w = "bad")  BY <5>2
        <5> HIDE DEF b, d
        <5>5. b(i) = [to |-> m, by |-> Nth(S, i), cancelled |-> d, text |-> w]  BY <5>1, <5>3
        <5> QED  BY <5>4, <5>5 DEF c
      <4> HIDE DEF b
      <4> QED  BY <4>1
    <3> HIDE DEF p
    <3> QED  BY <3>5, <3>6, <3>7
  <2> HIDE DEF p, Said, gp
  <2> QED  BY <2>2, <2>3
<1> HIDE DEF bw, gp
<1> DEFINE jests == [k \in 1..Cardinality(Longs(gp)) |-> Jest]
           jokes == IF n > 0 /\ speech[n] = "long" THEN {n + 1} ELSE {}
<1>7. /\ DOMAIN gp = 1..n /\ \A i \in 1..n : gp[i] = Said(i)
  BY <1>6
<1>8. \A i \in 1..n : gp[i].text = "long" <=> speech[i] = "long"  BY <1>7
<1>9. \A i \in 1..n : speech[i] = "long" => i = n
  <2> SUFFICES ASSUME NEW i \in 1..n, speech[i] = "long", i # n  PROVE FALSE  OBVIOUS
  <2>1. n \in 1..n /\ i < n  BY <1>2
  <2> QED  BY <1>5, <2>1
<1>10. /\ Cardinality(Longs(gp)) \in Nat
       /\ \A k : k \in 1..Cardinality(Longs(gp)) <=> n + k \in jokes /\ k = 1
  <2>1. Longs(gp) = {i \in 1..n : speech[i] = "long"}  BY <1>7, <1>8 DEF Longs
  <2>2. CASE n > 0 /\ speech[n] = "long"
    <3>1. n \in 1..n  BY <1>2, <2>2
    <3>2. Longs(gp) = {n}  BY <1>9, <2>1, <2>2, <3>1
    <3>3. Cardinality(Longs(gp)) = 1  BY <3>2, FS_Singleton
    <3> QED  BY <1>2, <2>2, <3>3
  <2>3. CASE ~(n > 0 /\ speech[n] = "long")
    <3>1. Longs(gp) = {}  BY <1>2, <1>9, <2>1, <2>3
    <3>2. Cardinality(Longs(gp)) = 0  BY <3>1, FS_EmptySet
    <3> QED  BY <2>3, <3>2
  <2> QED  BY <2>2, <2>3
<1>s. /\ \A i : /\ Said(i).cancelled <=> speech[i] \in {"cancel", "bad"}
               /\ Said(i).text = IF speech[i] \in {"cancel", "garbage"} THEN "blank"
                                 ELSE IF speech[i] = "note" THEN "plain" ELSE speech[i]
      /\ ~Jest.cancelled /\ Jest.text = "jest"
  BY DEF Jest
<1> HIDE DEF Said
<1> DEFINE fs == gp \o jests
<1>11. /\ DOMAIN fs = 1..n \cup jokes /\ Len(fs) \in Nat /\ DOMAIN fs = 1..Len(fs)
       /\ \A i \in 1..n : fs[i] = Said(i)
       /\ \A i \in jokes : fs[i] = Jest
  <2> DEFINE c == Cardinality(Longs(gp))
  <2>0. gp \in Seq({Said(i) : i \in 1..n}) /\ jests \in Seq({Jest}) /\ Len(gp) = n /\ Len(jests) = c
    BY <1>2, <1>6, <1>10
  <2>1. /\ Len(fs) = n + c /\ DOMAIN fs = 1..n + c
        /\ \A i \in 1..n + c : fs[i] = IF i <= n THEN gp[i] ELSE jests[i - n]
    BY <1>2, <1>10, <2>0
  <2>2. c \in Nat /\ \A k : k \in 1..c <=> n + k \in jokes /\ k = 1  BY <1>10
  <2>3. jokes \subseteq {n + 1}  OBVIOUS
  <2>4. \A k \in 1..c : jests[k] = Jest  OBVIOUS
  <2> HIDE DEF jests, jokes, c, fs
  <2>5. jokes = {n + k : k \in 1..c}
    <3>1. ASSUME NEW k \in 1..c PROVE n + k \in jokes  BY <2>2
    <3>2. ASSUME NEW j \in jokes PROVE \E k \in 1..c : j = n + k
      <4>1. j = n + 1  BY <2>3
      <4>2. 1 \in 1..c  BY <2>2, <4>1
      <4> QED  BY <4>1, <4>2
    <3> QED  BY <3>1, <3>2
  <2>6. 1..n + c = 1..n \cup {n + k : k \in 1..c}
    <3>1. ASSUME NEW i \in 1..n + c, i \notin 1..n PROVE \E k \in 1..c : i = n + k
      <4>1. i - n \in 1..c /\ i = n + (i - n)  BY <1>2, <2>2, <3>1
      <4> QED  BY <4>1
    <3> QED  BY <1>2, <2>2, <3>1
  <2>7. ASSUME NEW i \in jokes PROVE fs[i] = Jest
    <3>1. PICK k \in 1..c : i = n + k  BY <2>5
    <3>2. i \in 1..n + c /\ ~(i <= n) /\ i - n = k  BY <1>2, <2>2, <3>1
    <3> QED  BY <2>1, <2>4, <3>2
  <2>8. ASSUME NEW i \in 1..n PROVE fs[i] = Said(i)
    <3>1. i \in 1..n + c /\ i <= n  BY <1>2, <2>2
    <3> QED  BY <1>7, <2>1, <3>1
  <2>9. n + c \in Nat  BY <1>2, <2>2
  <2> QED  BY <2>1, <2>5, <2>6, <2>7, <2>8, <2>9
<1>12. Filtered(out) = fs  BY DEF Filtered, SelfSpamming, fs, gp, bw
<1> HIDE DEF fs, jests
<1>13. \A i \in jokes : i > n /\ i \notin 1..n  BY <1>2
<1>14. IsAnyCancelled(fs) <=> \E i \in 1..n : speech[i] \in {"cancel", "bad"}
  <2>1. \A i \in jokes : ~fs[i].cancelled  BY <1>s, <1>11
  <2>2. \A i \in 1..n : fs[i].cancelled <=> speech[i] \in {"cancel", "bad"}  BY <1>s, <1>11
  <2> QED  BY <1>11, <2>1, <2>2 DEF IsAnyCancelled
<1> HIDE DEF jokes
<1> DEFINE reply(i) == [to |-> m, by |-> Nth(S, i), cancelled |-> FALSE,
                        text |-> IF speech[i] = "note" THEN "plain" ELSE speech[i]]
<1>15. Alone(m) = IF saying.edit \/ \E i \in 1..n : speech[i] \in {"cancel", "bad"} THEN <<>>
                  ELSE [i \in {j \in 1..n : speech[j] # "garbage"} \cup jokes |->
                          IF i > n THEN Jest ELSE reply(i)]
  BY DEF Alone, speech, jokes
<1>16. CASE \E i \in 1..n : speech[i] \in {"cancel", "bad"}
  <2>1. rs = <<>> /\ Alone(m) = <<>>  BY <1>12, <1>14, <1>15, <1>16
  <2>2. Output(<<>>, 0) = <<>>
    <3>1. {i \in 1..0 : IsOutput(<<>>[i])} = {}  OBVIOUS
    <3> QED  BY <3>1 DEF Output
  <2> QED  BY <2>1, <2>2 DEF Owed
<1>17. CASE ~\E i \in 1..n : speech[i] \in {"cancel", "bad"}
  <2>1. rs = fs  BY <1>12, <1>14, <1>17
  <2> DEFINE kept == {i \in 1..Len(fs) : IsOutput(fs[i])}
  <2>2. kept = {j \in 1..n : speech[j] # "garbage"} \cup jokes
    <3>1. \A i \in jokes : IsOutput(fs[i])  BY <1>s, <1>11 DEF IsOutput
    <3>2. ASSUME NEW i \in 1..n  PROVE IsOutput(fs[i]) <=> speech[i] # "garbage"
      <4>1. speech[i] \in {"note", "plain", "long", "garbage"}
        BY <1>4, <1>17 DEF Reactions, Texts
      <4> QED  BY <1>s, <1>11, <1>17, <4>1 DEF IsOutput
    <3> QED  BY <1>11, <3>1, <3>2
  <2>3. ASSUME NEW i \in kept  PROVE fs[i] = IF i > n THEN Jest ELSE reply(i)
    <3>1. CASE i \in jokes  BY <1>11, <1>13, <3>1
    <3>2. CASE i \in 1..n /\ speech[i] # "garbage"
      <4>1. speech[i] \notin {"cancel", "bad", "garbage"}  BY <1>17, <3>2
      <4>2. Said(i) = reply(i)
        <5>1. (speech[i] \in {"cancel", "bad"}) = FALSE  BY <4>1
        <5>2. (IF speech[i] \in {"cancel", "garbage"} THEN "blank"
               ELSE IF speech[i] = "note" THEN "plain" ELSE speech[i])
                = IF speech[i] = "note" THEN "plain" ELSE speech[i]
          BY <4>1
        <5> QED  BY <5>1, <5>2 DEF Said
      <4>3. ~(i > n)  BY <1>2, <3>2
      <4> QED  BY <1>11, <3>2, <4>2, <4>3
    <3> QED  BY <2>2, <3>1, <3>2
  <2>4. Output(fs, Len(fs)) = [i \in kept |-> fs[i]]  BY DEF Output
  <2> HIDE DEF kept, reply
  <2>5. [i \in kept |-> fs[i]] = [i \in kept |-> IF i > n THEN Jest ELSE reply(i)]  BY <2>3
  <2> QED  BY <1>15, <1>17, <2>1, <2>2, <2>4, <2>5 DEF Owed
<1> QED  BY <1>16, <1>17

----------------------------------------------------------------------------
(* The invariant of a message nobody overlaps with *)

\* It is alone from its arrival to its answer; the group in use is its group, gives its
\* handlers that message and no other, and has then what their replies amount to.
AloneFor(m) ==
  /\ m \notin misled
  /\ up /\ run[m].at = "done" => sent[m] = Alone(m)
  /\ m \in Busy => Busy = {m}
  /\ run[m].at \in {"assign", "handle", "debug", "collect", "read"} => run[m].group = group
  /\ run[m].at \in {"handle", "debug"} =>
       /\ groups[group].message = m /\ Told(m, run[m].next, run[m].out)
       /\ run[m].next <= Handlers => Hears(said[m], run[m].next)
  /\ run[m].at \in {"collect", "read"} => Owed(m, groups[group].responses)
  /\ run[m].at = "read" => run[m].half = groups[group].responses
  /\ run[m].at \notin {"handle", "debug"} => run[m].out = <<>>

AloneInv == PipelineInv /\ \A m \in Messages \ crowded : AloneFor(m)

\* One message moves; it is alone if it was, and nobody else comes in.
LEMMA MoverStaysAlone ==
  ASSUME PipelineInv, NEW m \in Messages, m \in Busy => Busy = {m},
         m \notin Busy => Busy = {},
         NEW r \in Run, run' = [run EXCEPT ![m] = r]
  PROVE  /\ run'[m] = r /\ (m \in Busy' => Busy' = {m})
         /\ m \in Busy' <=> r.at \notin {"away", "done"}
<1>1. run' \in [Messages -> Run] /\ \A n \in Messages : run'[n] = IF n = m THEN r ELSE run[n]
  BY RunMoves DEF PipelineInv
<1>2. \A n \in Messages : n # m => n \notin Busy  OBVIOUS
<1>3. \A n \in Messages : n # m => n \notin Busy'  BY <1>1, <1>2 DEF Busy
<1>4. Busy' \subseteq Messages  BY DEF Busy
<1> QED  BY <1>1, <1>3, <1>4 DEF Busy

\* Where a group is used by a message that is alone, it is ready.
LEMMA AloneIsReady ==
  ASSUME PipelineInv, NEW m \in Messages, Busy = {m}, group > 0,
         run[m].at \notin {"triggers", "filters"}
  PROVE  groups[group].handlers /\ groups[group].filters /\ group \in 1..Len(groups)
<1>1. ~SomeoneAt("triggers") /\ ~SomeoneAt("filters")
  <2>1. \A n \in Messages : n # m => run[n].at \in {"away", "done"}  BY DEF Busy
  <2> QED  BY <2>1 DEF SomeoneAt
<1>2. group \in 1..Len(groups)  BY Facts
<1> QED  BY <1>1, <1>2 DEF PipelineInv, SetupInv

\* What other goroutines do is nothing to a message that is not handled now.
LEMMA OthersLeaveIt ==
  ASSUME NEW m \in Messages, AloneFor(m), m \notin Busy, run'[m] = run[m], m \notin misled',
         up' => up, sent'[m] = sent[m], said' = said
  PROVE  AloneFor(m)'
<1>1. run[m].at \in {"away", "done"}  BY DEF Busy
<1>2. m \notin Busy'  BY <1>1 DEF Busy
<1>3. Alone(m)' = Alone(m)  BY DEF Alone
<1> QED  BY <1>1, <1>2, <1>3 DEF AloneFor

\* A step of another goroutine: that of a message that is handled now crowds it.
LEMMA OthersStep ==
  ASSUME PipelineInv, NEW m \in Messages \ crowded', AloneFor(m), m \notin crowded,
         NEW n \in Messages, n # m,
         \/ Receive(n) \/ InitMessageGroup(n) \/ SetMessageTriggers(n)
         \/ SetResponseTriggers(n) \/ Reset(n) \/ Process(n) \/ RunMessageEv(n)
         \/ DbgMessaging(n) \/ Finish(n) \/ Responses(n) \/ ReadRest(n)
  PROVE  AloneFor(m)'
<1>1. run \in [Messages -> Run] /\ DOMAIN sent = Messages  BY DEF PipelineInv, PipelineTypeOK
<1>2. run'[m] = run[m]
  BY <1>1 DEF Receive, InitMessageGroup, SetMessageTriggers, SetResponseTriggers, Reset, Process,
       RunMessageEv, DbgMessaging, Finish, Responses, ReadRest
<1>3. misled' \subseteq misled \cup {n} /\ said' = said /\ up' = up
  BY DEF Receive, InitMessageGroup, SetMessageTriggers, SetResponseTriggers, Reset, Process,
       RunMessageEv, DbgMessaging, Finish, Responses, ReadRest
<1>4. sent'[m] = sent[m]
  <2>1. CASE ReadRest(n)
    <3>1. \E v : sent' = [sent EXCEPT ![n] = v]  BY <2>1 DEF ReadRest
    <3> QED  BY <1>1, <3>1
  <2>2. CASE ~ReadRest(n)
    BY <2>2 DEF Receive, InitMessageGroup, SetMessageTriggers, SetResponseTriggers, Reset, Process,
       RunMessageEv, DbgMessaging, Finish, Responses
  <2> QED  BY <2>1, <2>2
<1>5. m \notin Busy
  <2> SUFFICES ASSUME m \in Busy PROVE FALSE  OBVIOUS
  <2>1. Busy = {m}  BY DEF AloneFor
  <2>2. n \notin Busy  BY <2>1
  <2>3. run[n].at \in {"away", "done"}  BY <2>2 DEF Busy
  <2>4. Receive(n)
    BY <2>3 DEF At, InitMessageGroup, SetMessageTriggers, SetResponseTriggers, Reset, Process,
       RunMessageEv, DbgMessaging, Finish, Responses, ReadRest
  <2>5. m \in crowded'  BY <2>1, <2>4 DEF Receive
  <2> QED  BY <2>5
<1>6. m \notin misled'  BY <1>3 DEF AloneFor
<1> QED  BY <1>2, <1>3, <1>4, <1>5, <1>6, OthersLeaveIt

\* A message on its way to its handlers.
LEMMA OnTheWay ==
  ASSUME PipelineInv, NEW m \in Messages, AloneFor(m), m \notin Busy => Busy = {},
         NEW r \in Run, run' = [run EXCEPT ![m] = r], r.out = run[m].out,
         run[m].at \notin {"handle", "debug"},
         r.at \in {"create", "triggers", "filters", "process", "assign"},
         r.at = "assign" => r.group = group', misled' = misled
  PROVE  AloneFor(m)'
<1>1. run'[m] = r /\ (m \in Busy' => Busy' = {m})
  BY MoverStaysAlone DEF AloneFor
<1>2. r.out = <<>>  BY DEF AloneFor
<1> QED  BY <1>1, <1>2 DEF AloneFor

LEMMA ItsOwnStep ==
  ASSUME PipelineInv, NEW m \in Messages \ crowded', AloneFor(m), m \notin crowded,
         \/ Receive(m) \/ InitMessageGroup(m) \/ SetMessageTriggers(m)
         \/ SetResponseTriggers(m) \/ Reset(m)
  PROVE  AloneFor(m)'
<1>0. run[m] \in Run /\ group \in Nat /\ Len(groups) \in Nat  BY Facts
<1>1. CASE Receive(m)
  <2> DEFINE r == [run[m] EXCEPT !.at = IF NeedsGroup THEN "create" ELSE "process"]
  <2>1. /\ run' = [run EXCEPT ![m] = r] /\ run[m].at = "away" /\ misled' = misled
        /\ crowded' = IF Busy = {} THEN crowded ELSE crowded \cup Busy \cup {m}
    BY <1>1 DEF Receive, At
  <2>2. Busy = {}  BY <2>1
  <2>3. r \in Run /\ r.out = run[m].out /\ r.at \in {"create", "process"}
    BY <1>0 DEF Run, Steps
  <2> HIDE DEF r
  <2> QED  BY <2>1, <2>2, <2>3, OnTheWay
<1>2. CASE InitMessageGroup(m)
  <2> DEFINE r == [run[m] EXCEPT !.at = "triggers"]
  <2>1. run' = [run EXCEPT ![m] = r] /\ run[m].at = "create" /\ misled' = misled
    BY <1>2 DEF InitMessageGroup, At
  <2>2. m \in Busy  BY <2>1 DEF Busy
  <2>3. r \in Run /\ r.out = run[m].out /\ r.at = "triggers"  BY <1>0 DEF Run, Steps
  <2> HIDE DEF r
  <2> QED  BY <2>1, <2>2, <2>3, OnTheWay
<1>3. CASE SetMessageTriggers(m)
  <2> DEFINE r == [run[m] EXCEPT !.at = "filters"]
  <2>1. run' = [run EXCEPT ![m] = r] /\ run[m].at = "triggers" /\ misled' = misled
    BY <1>3 DEF SetMessageTriggers, At
  <2>2. m \in Busy  BY <2>1 DEF Busy
  <2>3. r \in Run /\ r.out = run[m].out /\ r.at = "filters"  BY <1>0 DEF Run, Steps
  <2> HIDE DEF r
  <2> QED  BY <2>1, <2>2, <2>3, OnTheWay
<1>4. CASE SetResponseTriggers(m)
  <2> DEFINE r == [run[m] EXCEPT !.at = "process"]
  <2>1. run' = [run EXCEPT ![m] = r] /\ run[m].at = "filters" /\ misled' = misled
    BY <1>4 DEF SetResponseTriggers, At
  <2>2. m \in Busy  BY <2>1 DEF Busy
  <2>3. r \in Run /\ r.out = run[m].out /\ r.at = "process"  BY <1>0 DEF Run, Steps
  <2> HIDE DEF r
  <2> QED  BY <2>1, <2>2, <2>3, OnTheWay
<1>5. CASE Reset(m)
  <2> DEFINE r == [run[m] EXCEPT !.at = "assign", !.group = group]
  <2>1. run' = [run EXCEPT ![m] = r] /\ run[m].at = "process" /\ misled' = misled /\ group' = group
    BY <1>5 DEF Reset, At
  <2>2. m \in Busy  BY <2>1 DEF Busy
  <2>3. r \in Run /\ r.out = run[m].out /\ r.at = "assign" /\ r.group = group
    BY <1>0 DEF Run, Steps
  <2> HIDE DEF r
  <2> QED  BY <2>1, <2>2, <2>3, OnTheWay
<1> QED  BY <1>1, <1>2, <1>3, <1>4, <1>5

\* The first handler is the next, and nobody spoke yet.
LEMMA ProcessAlone ==
  ASSUME PipelineInv, NEW m \in Messages, AloneFor(m), Process(m)
  PROVE  AloneFor(m)'
<1>0. run[m] \in Run /\ groups \in Seq(Group) /\ Handlers \in Nat /\ said[m] \in Sayings
      /\ \A k \in 1..Len(groups) : groups[k] \in Group
  BY Facts
<1>1. run[m].at = "assign" /\ m \in Busy  BY DEF Process, At, Busy
<1>2. Busy = {m} /\ run[m].group = group /\ run[m].out = <<>>  BY <1>1 DEF AloneFor
<1>3. group > 0  BY <1>1, <1>2, Facts
<1>4. groups[group].handlers /\ group \in 1..Len(groups)  BY <1>1, <1>2, <1>3, AloneIsReady
<1> DEFINE r == [run[m] EXCEPT !.at = "handle", !.next = 1]
<1>5. /\ run' = [run EXCEPT ![m] = r] /\ groups' = [groups EXCEPT ![group].message = m]
      /\ UNCHANGED <<group, up, said, misled, sent>>
  BY <1>2, <1>4 DEF Process, Own
<1>6. r \in Run /\ r.out = <<>> /\ r.at = "handle" /\ r.next = 1 /\ r.group = group
  <2>1. 1 \in 1..(Handlers + 1)  BY <1>0
  <2> QED  BY <1>0, <1>2, <2>1 DEF Run, Steps
<1> HIDE DEF r
<1>7. run'[m] = r /\ (m \in Busy' => Busy' = {m})  BY <1>1, <1>2, <1>5, <1>6, MoverStaysAlone
<1>8. groups'[group].message = m  BY <1>0, <1>4, <1>5 DEF Group
<1>9. Told(m, 1, <<>>)
  <2>1. Spoke(said[m], 1) = {}  BY <1>0 DEF Spoke, Speakers
  <2> QED  BY <2>1, FS_EmptySet DEF Told
<1>10. Told(m, run[m].next, run[m].out)'
  <2>1. run'[m].next = 1 /\ run'[m].out = <<>>  BY <1>6, <1>7
  <2> QED  BY <1>5, <1>9, <2>1 DEF Told
<1>11. Hears(said[m], run[m].next)'
  <2>1. run'[m].next = 1 /\ said' = said  BY <1>5, <1>6, <1>7
  <2> QED  BY <2>1 DEF Hears
<1> QED  BY <1>5, <1>6, <1>7, <1>8, <1>10, <1>11 DEF AloneFor

\* A handler hears the message; what it says is the last reply so far.
LEMMA OneMoreSpoke ==
  ASSUME PipelineInv, NEW m \in Messages, NEW h \in 1..Handlers, NEW out \in Seq(Response),
         Told(m, h, out), Hears(said[m], h), NEW reaction, reaction = said[m].reacts[h],
         NEW next, next = IF Consumed(reaction) THEN Handlers + 1 ELSE h + 1
  PROVE  /\ Handled(reaction) => Told(m, next, Append(out, Reply(m, h, reaction)))
         /\ ~Handled(reaction) => Told(m, next, out)
         /\ next <= Handlers => Hears(said[m], next)
<1> DEFINE saying == said[m]
           old == Spoke(saying, h)
           new == Spoke(saying, next)
<1>1. saying \in Sayings /\ Handlers \in Nat  BY Facts
<1>2. \A g \in Speakers(saying) : g \in 1..Handlers /\ Hears(saying, g)  BY DEF Speakers
<1>3. Handled(reaction) => h \in Speakers(saying)  BY DEF Speakers
<1>4. ~Handled(reaction) => h \notin Speakers(saying) /\ ~Consumed(reaction)
  BY DEF Speakers, Handled, Consumed
<1>5. ASSUME NEW g \in Speakers(saying), g > h  PROVE ~Consumed(reaction)
  <2>1. h \in 1..g - 1 /\ Hears(saying, g)  BY <1>1, <1>2, <1>5
  <2> QED  BY <2>1 DEF Hears
<1>6. new = IF Handled(reaction) THEN old \cup {h} ELSE old
  <2>1. ASSUME NEW g \in Speakers(saying)
        PROVE  g < next <=> g < h \/ g = h
    <3>1. g \in 1..Handlers  BY <1>2
    <3>2. CASE Consumed(reaction)
      <4>1. ~(g > h) /\ next = Handlers + 1  BY <1>5, <3>2
      <4> QED  BY <1>1, <3>1, <4>1
    <3>3. CASE ~Consumed(reaction)  BY <1>1, <3>1, <3>3
    <3> QED  BY <3>2, <3>3
  <2> QED  BY <1>3, <1>4, <2>1 DEF Spoke
<1>7. /\ IsFiniteSet(old) /\ Cardinality(old) \in Nat /\ old \in SUBSET (1..Handlers)
  BY <1>1, SpeakersSpeak
<1>8. \A g \in old : g < h  BY DEF Spoke
<1>9. Len(out) = Cardinality(old)
      /\ \A i \in 1..Len(out) :
           \E g \in old : Rank(old, g) = i /\ out[i] = Reply(m, g, saying.reacts[g])
  BY DEF Told
<1> HIDE DEF old, new, saying
<1>10. ASSUME Handled(reaction)
       PROVE  Told(m, next, Append(out, Reply(m, h, reaction)))
  <2> DEFINE more == Append(out, Reply(m, h, reaction))
  <2>1. new = old \cup {h} /\ h \notin old  BY <1>6, <1>8, <1>10
  <2>2. Cardinality(new) = Cardinality(old) + 1  BY <1>7, <2>1, FS_AddElement
  <2>3. Len(more) = Cardinality(new)  BY <1>9, <2>2
  <2>4. Rank(new, h) = Cardinality(new)
    <3>1. \A g \in new : g <= h  BY <1>7, <1>8, <2>1
    <3>2. {k \in new : k <= h} = new  BY <3>1
    <3> QED  BY <3>2 DEF Rank
  <2>5. \A g \in old : Rank(new, g) = Rank(old, g)
    <3>1. TAKE g \in old
    <3>2. ~(h <= g)  BY <1>7, <1>8
    <3>3. {k \in new : k <= g} = {k \in old : k <= g}  BY <2>1, <3>2
    <3> QED  BY <3>3 DEF Rank
  <2>6. ASSUME NEW i \in 1..Len(more)
        PROVE  \E g \in new : Rank(new, g) = i /\ more[i] = Reply(m, g, saying.reacts[g])
    <3>0. Len(out) \in Nat /\ Len(more) = Len(out) + 1  OBVIOUS
    <3>1. CASE i \in 1..Len(out)
      <4>1. PICK g \in old : Rank(old, g) = i /\ out[i] = Reply(m, g, saying.reacts[g])
        BY <1>9, <3>1
      <4>2. more[i] = out[i]  BY <3>1
      <4> QED  BY <2>1, <2>5, <4>1, <4>2
    <3>2. CASE i = Len(out) + 1
      <4>1. more[i] = Reply(m, h, reaction) /\ i = Cardinality(new)  BY <1>9, <2>2, <3>2
      <4>2. reaction = saying.reacts[h]  BY DEF saying
      <4> QED  BY <2>1, <2>4, <4>1, <4>2
    <3> QED  BY <3>0, <3>1, <3>2
  <2> HIDE DEF more
  <2>7. Told(m, next, more)  BY <2>3, <2>6 DEF Told, new, saying
  <2> QED  BY <1>10, <2>7 DEF more
<1>11. ASSUME ~Handled(reaction)  PROVE Told(m, next, out)
  <2>1. new = old  BY <1>6, <1>11
  <2> QED  BY <1>9, <1>11, <2>1 DEF Told, new, saying
<1>12. ASSUME next <= Handlers  PROVE Hears(saying, next)
  <2>1. ~Consumed(reaction) /\ next = h + 1  BY <1>1, <1>12
  <2>2. reaction = saying.reacts[h] /\ Hears(saying, h)  BY DEF saying
  <2>3. \A k \in 1..next - 1 : k \in 1..h - 1 \/ k = h  BY <2>1
  <2> QED  BY <2>1, <2>2, <2>3 DEF Hears
<1>13. next <= Handlers => Hears(said[m], next)  BY <1>12 DEF saying
<1> QED  BY <1>10, <1>11, <1>13

LEMMA HandleAlone ==
  ASSUME PipelineInv, NEW m \in Messages, AloneFor(m), RunMessageEv(m) \/ DbgMessaging(m)
  PROVE  AloneFor(m)'
<1>0. run[m] \in Run /\ Handlers \in Nat /\ group \in Nat /\ said[m] \in Sayings  BY Facts
<1>1. run[m].at \in {"handle", "debug"} /\ m \in Busy  BY DEF RunMessageEv, DbgMessaging, At, Busy
<1>2. /\ Busy = {m} /\ run[m].group = group /\ groups[group].message = m
      /\ Told(m, run[m].next, run[m].out)
      /\ run[m].next <= Handlers => Hears(said[m], run[m].next)
  BY <1>1 DEF AloneFor
<1>3. Own(m).message = m  BY <1>2 DEF Own
<1>4. CASE DbgMessaging(m)
  <2> DEFINE r == [run[m] EXCEPT !.at = "handle"]
  <2>1. run' = [run EXCEPT ![m] = r] /\ UNCHANGED <<group, groups, up, said, misled, sent>>
    BY <1>4 DEF DbgMessaging
  <2>2. /\ r \in Run /\ r.out = run[m].out /\ r.at = "handle" /\ r.next = run[m].next
        /\ r.group = run[m].group
    BY <1>0 DEF Run, Steps
  <2> HIDE DEF r
  <2>3. run'[m] = r /\ (m \in Busy' => Busy' = {m})  BY <1>1, <1>2, <2>1, <2>2, MoverStaysAlone
  <2>4. Told(m, run[m].next, run[m].out)'  BY <1>2, <2>1, <2>2, <2>3 DEF Told
  <2>5. (run[m].next <= Handlers => Hears(said[m], run[m].next))'
    BY <1>2, <2>1, <2>2, <2>3 DEF Hears
  <2> QED  BY <1>2, <2>1, <2>2, <2>3, <2>4, <2>5 DEF AloneFor
<1>5. CASE RunMessageEv(m)
  <2> DEFINE h == run[m].next
             reaction == said[m].reacts[h]
             next == IF Consumed(reaction) THEN Handlers + 1 ELSE h + 1
             out == IF Handled(reaction) THEN Append(run[m].out, Reply(m, h, reaction))
                    ELSE run[m].out
             r == [run[m] EXCEPT !.at = IF Handled(reaction) THEN "debug" ELSE "handle",
                                 !.next = next, !.out = out]
  <2>1. h <= Handlers /\ h \in 1..Handlers /\ Hears(said[m], h) /\ run[m].out \in Seq(Response)
    BY <1>0, <1>2, <1>5 DEF RunMessageEv, Run
  <2>2. run' = [run EXCEPT ![m] = r] /\ UNCHANGED <<group, groups, up, said, misled, sent>>
    BY <1>3, <1>5 DEF RunMessageEv, Outgoing
  <2>3. Told(m, h, run[m].out)  BY <1>2
  <2>4. Told(m, next, out) /\ (next <= Handlers => Hears(said[m], next))
    BY <2>1, <2>3, OneMoreSpoke
  <2>5. out \in Seq(Response)
    <3>1. reaction \in Reactions  BY <1>0, <2>1, PipelineConstants
    <3>2. Handled(reaction) => Reply(m, h, reaction) \in Response  BY <2>1, <3>1, ReplyType
    <3> QED  BY <2>1, <3>2
  <2>6. next \in 1..(Handlers + 1)  BY <1>0, <2>1
  <2> HIDE DEF next, out, reaction
  <2>7. /\ r \in Run /\ r.out = out /\ r.at \in {"handle", "debug"} /\ r.next = next
        /\ r.group = run[m].group
    BY <1>0, <2>5, <2>6 DEF Run, Steps
  <2> HIDE DEF r
  <2>8. run'[m] = r /\ (m \in Busy' => Busy' = {m})  BY <1>1, <1>2, <2>2, <2>7, MoverStaysAlone
  <2>9. Told(m, run[m].next, run[m].out)'
    <3>1. run'[m].next = next /\ run'[m].out = out /\ said' = said  BY <2>2, <2>7, <2>8
    <3> QED  BY <2>4, <3>1 DEF Told
  <2>10. (run[m].next <= Handlers => Hears(said[m], run[m].next))'
    <3>1. run'[m].next = next /\ said' = said  BY <2>2, <2>7, <2>8
    <3> QED  BY <2>4, <3>1 DEF Hears
  <2> QED  BY <1>2, <2>2, <2>7, <2>8, <2>9, <2>10 DEF AloneFor
<1> QED  BY <1>4, <1>5

LEMMA FinishAlone ==
  ASSUME PipelineInv, NEW m \in Messages, AloneFor(m), Finish(m)
  PROVE  AloneFor(m)'
<1>0. /\ run[m] \in Run /\ groups \in Seq(Group) /\ Handlers \in Nat /\ said[m] \in Sayings
      /\ \A k \in 1..Len(groups) : groups[k] \in Group
  BY Facts
<1>1. run[m].at = "handle" /\ m \in Busy /\ run[m].next > Handlers  BY DEF Finish, At, Busy
<1>2. Busy = {m} /\ run[m].group = group /\ Told(m, run[m].next, run[m].out)
  BY <1>1 DEF AloneFor
<1>3. group > 0  BY <1>1, <1>2, Facts
<1>4. groups[group].filters /\ group \in 1..Len(groups)  BY <1>1, <1>2, <1>3, AloneIsReady
<1>5. run[m].next = Handlers + 1 /\ run[m].out \in Seq(Response)  BY <1>0, <1>1 DEF Run
<1> DEFINE out == run[m].out
           rs == IF IsAnyCancelled(Filtered(out)) THEN <<>> ELSE Filtered(out)
           r == [run[m] EXCEPT !.at = "collect", !.out = <<>>]
<1>6. /\ run' = [run EXCEPT ![m] = r] /\ groups' = [groups EXCEPT ![group].responses = rs]
      /\ UNCHANGED <<group, up, said, misled, sent>>
  BY <1>2, <1>4 DEF Finish, Own
<1>7. Owed(m, rs)
  <2>1. Told(m, Handlers + 1, out)  BY <1>2, <1>5
  <2> QED  BY <1>5, <2>1, AnswerIsOwed DEF PipelineInv
<1> HIDE DEF rs
<1>8. r \in Run /\ r.out = <<>> /\ r.at = "collect" /\ r.group = group
  BY <1>0, <1>2, EmptyList DEF Run, Steps
<1> HIDE DEF r
<1>9. run'[m] = r /\ (m \in Busy' => Busy' = {m})  BY <1>1, <1>2, <1>6, <1>8, MoverStaysAlone
<1>10. groups'[group].responses = rs  BY <1>0, <1>4, <1>6 DEF Group
<1>11. Owed(m, groups[group].responses)'
  <2>1. groups'[group'].responses = rs /\ said' = said  BY <1>6, <1>10
  <2>2. Alone(m)' = Alone(m)  BY <2>1 DEF Alone
  <2> QED  BY <1>7, <2>1, <2>2 DEF Owed
<1> QED  BY <1>6, <1>8, <1>9, <1>11 DEF AloneFor

LEMMA CollectAlone ==
  ASSUME PipelineInv, NEW m \in Messages, AloneFor(m), Responses(m)
  PROVE  AloneFor(m)'
<1>0. run[m] \in Run /\ group \in Nat /\ \A k \in 1..Len(groups) : groups[k] \in Group  BY Facts
<1>1. run[m].at = "collect" /\ m \in Busy /\ group \in 1..Len(groups)
  BY Facts DEF Responses, At, Busy
<1>2. Busy = {m} /\ Owed(m, groups[group].responses) /\ run[m].out = <<>>  BY <1>1 DEF AloneFor
<1> DEFINE r == [run[m] EXCEPT !.at = "read", !.group = group, !.half = groups[group].responses]
<1>3. run' = [run EXCEPT ![m] = r] /\ UNCHANGED <<group, groups, up, said, misled, sent>>
  BY DEF Responses
<1>4. /\ r \in Run /\ r.out = <<>> /\ r.at = "read" /\ r.group = group
      /\ r.half = groups[group].responses
  <2>1. groups[group].responses \in Seq(Response)  BY <1>0, <1>1 DEF Group
  <2> QED  BY <1>0, <1>2, <2>1 DEF Run, Steps
<1> HIDE DEF r
<1>5. run'[m] = r /\ (m \in Busy' => Busy' = {m})  BY <1>1, <1>2, <1>3, <1>4, MoverStaysAlone
<1>6. Owed(m, groups[group].responses)'
  <2>1. Alone(m)' = Alone(m)  BY <1>3 DEF Alone
  <2> QED  BY <1>2, <1>3, <2>1 DEF Owed
<1> QED  BY <1>3, <1>4, <1>5, <1>6 DEF AloneFor

LEMMA ReadRestAlone ==
  ASSUME PipelineInv, NEW m \in Messages, AloneFor(m), ReadRest(m)
  PROVE  AloneFor(m)'
<1>1. run[m].at = "read" /\ m \in Busy  BY DEF ReadRest, At, Busy
<1> DEFINE rs == groups[group].responses
           r == [Away EXCEPT !.at = "done"]
<1>2. Busy = {m} /\ run[m].group = group /\ Owed(m, rs) /\ run[m].half = rs
  BY <1>1 DEF AloneFor
<1>3. Slices(m) = {<<rs, Len(rs)>>}  BY <1>2 DEF Slices, Own
<1>4. /\ sent' = [sent EXCEPT ![m] = IF said[m].edit THEN <<>> ELSE Output(rs, Len(rs))]
      /\ run' = [run EXCEPT ![m] = r] /\ UNCHANGED <<group, groups, up, said, misled>>
  <2>1. PICK slice \in Slices(m) :
          /\ sent' = [sent EXCEPT ![m] = IF said[m].edit THEN <<>> ELSE Output(slice[1], slice[2])]
          /\ run' = [run EXCEPT ![m] = r] /\ UNCHANGED <<group, groups, up, said, misled>>
    BY DEF ReadRest
  <2>2. slice = <<rs, Len(rs)>>  BY <1>3, <2>1
  <2>3. slice[1] = rs /\ slice[2] = Len(rs)  BY <2>2
  <2> QED  BY <2>1, <2>3
<1>5. r \in Run /\ r.at = "done" /\ r.out = <<>>
  <2>1. 1 \in 1..(Handlers + 1)  BY PipelineConstants
  <2> QED  BY <2>1, EmptyList DEF Away, Run, Steps
<1> HIDE DEF r
<1>6. run'[m] = r /\ m \notin Busy'  BY <1>1, <1>2, <1>4, <1>5, MoverStaysAlone
<1>7. sent'[m] = Alone(m)
  <2>1. DOMAIN sent = Messages  BY DEF PipelineInv, PipelineTypeOK
  <2>2. CASE said[m].edit  BY <1>4, <2>1, <2>2 DEF Alone
  <2>3. CASE ~said[m].edit  BY <1>2, <1>4, <2>1, <2>3 DEF Owed
  <2> QED  BY <2>2, <2>3
<1>8. Alone(m)' = Alone(m)  BY <1>4 DEF Alone
<1> QED  BY <1>4, <1>5, <1>6, <1>7, <1>8 DEF AloneFor

LEMMA PanicLeavesIt ==
  ASSUME NEW n \in Messages, Panic(n), NEW m \in Messages, AloneFor(m)
  PROVE  AloneFor(m)'
<1>1. up' = FALSE /\ run' = [k \in Messages |-> Away] /\ misled' = misled  BY DEF Panic
<1>2. run'[m] = Away /\ Away.at = "away" /\ Away.out = <<>>  BY <1>1 DEF Away
<1>3. m \notin Busy'  BY <1>2 DEF Busy
<1> QED  BY <1>1, <1>2, <1>3 DEF AloneFor

LEMMA AloneStep ==
  ASSUME AloneInv, PipelineInv', [Next]_vars
  PROVE  AloneInv'
<1>0. PipelineInv  BY DEF AloneInv
<1> SUFFICES ASSUME NEW m \in Messages \ crowded'  PROVE AloneFor(m)'
  BY DEF AloneInv
<1>1. crowded \subseteq crowded'
  BY DEF Next, vars, Receive, InitMessageGroup, SetMessageTriggers, SetResponseTriggers, Reset,
     Process, RunMessageEv, DbgMessaging, Finish, Responses, ReadRest, Panic
<1>2. m \notin crowded /\ AloneFor(m)  BY <1>1 DEF AloneInv
<1>3. CASE UNCHANGED vars
  <2>1. Alone(m)' = Alone(m) /\ Busy' = Busy  BY <1>3 DEF vars, Alone, Busy
  <2>2. Told(m, run[m].next, run[m].out)' <=> Told(m, run[m].next, run[m].out)
    BY <1>3 DEF vars, Told
  <2>3. Hears(said[m], run[m].next)' <=> Hears(said[m], run[m].next)  BY <1>3 DEF vars, Hears
  <2>4. Owed(m, groups[group].responses)' <=> Owed(m, groups[group].responses)
    BY <1>3, <2>1 DEF vars, Owed
  <2> QED  BY <1>2, <1>3, <2>1, <2>2, <2>3, <2>4 DEF vars, AloneFor
<1>4. CASE Next
  <2>1. PICK n \in Messages :
          \/ Receive(n) \/ InitMessageGroup(n) \/ SetMessageTriggers(n)
          \/ SetResponseTriggers(n) \/ Reset(n) \/ Process(n) \/ RunMessageEv(n)
          \/ DbgMessaging(n) \/ Finish(n) \/ Responses(n) \/ ReadRest(n) \/ Panic(n)
    BY <1>4 DEF Next
  <2>2. CASE Panic(n)  BY <1>2, <2>2, PanicLeavesIt
  <2>3. CASE n # m /\ ~Panic(n)  BY <1>0, <1>2, <2>1, <2>3, OthersStep
  <2>4. CASE n = m /\ ~Panic(n)
    <3>1. \/ Receive(m) \/ InitMessageGroup(m) \/ SetMessageTriggers(m)
          \/ SetResponseTriggers(m) \/ Reset(m) \/ Process(m) \/ RunMessageEv(m)
          \/ DbgMessaging(m) \/ Finish(m) \/ Responses(m) \/ ReadRest(m)
      BY <2>1, <2>4
    <3> QED  BY <1>0, <1>2, <3>1, ItsOwnStep, ProcessAlone, HandleAlone, FinishAlone,
                CollectAlone, ReadRestAlone
  <2> QED  BY <2>2, <2>3, <2>4
<1> QED  BY <1>3, <1>4

LEMMA InitAlone == Init => AloneInv
<1> SUFFICES ASSUME Init PROVE AloneInv  OBVIOUS
<1>1. PipelineInv  BY InitPipelineInv
<1>2. /\ \A m \in Messages : run[m] = Away
      /\ misled = {} /\ Away.at = "away" /\ Away.out = <<>>
  BY DEF Init, Away
<1>3. Busy = {}  BY <1>2 DEF Busy
<1> QED  BY <1>1, <1>2, <1>3 DEF AloneInv, AloneFor

\* The invariant above, for every message that overlaps with no other.
THEOREM AloneInvariance == Spec => []AloneInv
<1>1. AloneInv /\ PipelineInv' /\ [Next]_vars => AloneInv'  BY AloneStep
<1> QED  BY InitAlone, PipelineInvariance, <1>1, PTL DEF Spec

\* Whatever came before and whoever created the group: a message that overlaps with no other
\* is heard by its own handlers only, and its envelope is what these say of it, filtered
\* (Process, processWithHandlers, processFilters, incomingMessageHandler).
THEOREM LonelyMessagesAnswered == Spec => []AnsweredAsAlone
<1>1. AloneInv => AnsweredAsAlone  BY DEF AloneInv, AloneFor, AnsweredAsAlone
<1> QED  BY AloneInvariance, <1>1, PTL

============================================================================
