------------------------------ MODULE Chances ------------------------------
(***************************************************************************)
(* The dice of the handlers.  masterChanceList (internal/triggers/main.go) *)
(* says how likely a handler is to answer; "!change" and "!disable" write  *)
(* it while the goroutines of other messages read it.  A throw goes        *)
(* through a BasicControl (internal/random/controlled_basic.go), made at   *)
(* the first throw, which holds the chance and counts the outcomes.        *)
(* Nothing here is locked: Go ends the process when a map is used while    *)
(* another goroutine writes it, if it notices; a counter that two          *)
(* goroutines increase may lose one; the source of random numbers may      *)
(* index out of its range when two draw at once.                           *)
(***************************************************************************)
EXTENDS Integers, Sequences, FiniteSets, Functions

CONSTANTS
  Goroutines,
  Listed,        \* the names in masterChanceList
  Given,         \* the names whose callers bring a chance, listed or not
  MaxCalls,      \* bound: throws
  MaxChanges     \* bound: commands of the admin

ASSUME ChancesConstants ==
  /\ IsFiniteSet(Goroutines)
  /\ Listed # {}
  /\ MaxCalls \in Nat /\ MaxChanges \in Nat

Names  == Listed \cup Given
Basic  == Listed \ Given                 \* thrown with the chance of the list
Levels == {"never", "maybe", "always"}   \* 0, between, 1

VARIABLES
  master,      \* masterChanceList
  table,       \* the control of each name in the group, 0 for none
  controls,    \* all controls ever made, the forgotten ones too
  writing,     \* who is writing which map
  at, held,    \* where each goroutine is, and its locals
  up, changes,
  thrown,      \* history: the throws for each name and their outcomes
  alone,       \* history: the names two goroutines never threw for at once
  heard        \* history: the chances in force, or set by others, since g's call

vars == <<master, table, controls, writing, at, held, up, changes, thrown, alone, heard>>
history == <<thrown, alone, heard>>

Counts   == [calls : Nat, trues : Nat, falses : Nat]
NoCounts == [calls |-> 0, trues |-> 0, falses |-> 0]
Control  == [chance : Levels, counts : Counts]
Local    == [name : Names, chance : Levels \cup {"unread"}, ref : Nat, copy : Nat,
             used : Levels \cup {"unread"}, won : BOOLEAN]
Locals   == [name |-> CHOOSE n \in Names : TRUE, chance |-> "unread", ref |-> 0,
             copy |-> 0, used |-> "unread", won |-> FALSE]

Init ==
  /\ master = [n \in Listed |-> "maybe"]
  /\ table = [n \in Names |-> 0] /\ controls = <<>> /\ writing = {}
  /\ at = [g \in Goroutines |-> "idle"] /\ held = [g \in Goroutines |-> Locals]
  /\ up = TRUE /\ changes = 0
  /\ thrown = [n \in Names |-> NoCounts] /\ alone = Names
  /\ heard = [g \in Goroutines |-> {}]

Is(g, place) == up /\ at[g] = place
Go(g, place) == at' = [at EXCEPT ![g] = place]
Throwing(n) == {g \in Goroutines : at[g] \notin {"idle", "return", "look", "write", "written"}
                                     /\ held[g].name = n}
\* Another goroutine is in the middle of writing the map.
Written(g, map) == \E h \in Goroutines \ {g} : <<h, map>> \in writing

-----------------------------------------------------------------------------
(***************************************************************************)
(* A throw: fromBasicChance, fromDefinedChance.                            *)
(***************************************************************************)
\* A handler asks for a throw, by one of the two functions for each name; a
\* chance that the caller brings is heard by those who throw for the name at
\* the same time.
Call(g, n, chance) ==
  /\ Is(g, "idle") /\ FoldFunction(+, 0, [m \in Names |-> thrown[m].calls]) < MaxCalls
  /\ held' = [held EXCEPT ![g] = [Locals EXCEPT !.name = n, !.chance = chance]]
  /\ thrown' = [thrown EXCEPT ![n].calls = @ + 1]
  /\ alone' = IF Throwing(n) = {} THEN alone ELSE alone \ {n}
  /\ heard' = [h \in Goroutines |->
       CASE h = g -> ({held[o].chance : o \in Throwing(n)} \ {"unread"})
                       \cup (IF n \in Basic THEN {master[n]} ELSE {chance})
         [] h \in Throwing(n) /\ n \in Given -> heard[h] \cup {chance}
         [] OTHER -> heard[h]]
  /\ Go(g, IF n \in Basic THEN "read" ELSE "find")
  /\ UNCHANGED <<master, table, controls, writing, up, changes>>

fromBasicChance(g) == \E n \in Basic : Call(g, n, "unread")
fromDefinedChance(g) == \E n \in Given, chance \in Levels : Call(g, n, chance)

ReadMaster(g) ==
  /\ Is(g, "read")
  /\ held' = [held EXCEPT ![g].chance = master[held[g].name]]
  /\ Go(g, "find")
  /\ UNCHANGED <<master, table, controls, writing, up, changes, history>>

\* Mutant: each throw makes a control.
FindNothing(g) ==
  /\ Is(g, "find")
  /\ Go(g, "create")
  /\ UNCHANGED <<master, table, controls, writing, held, up, changes, history>>

\* Execute of the group: the control of the name, made if there is none.
Find(g) ==
  /\ Is(g, "find")
  /\ held' = [held EXCEPT ![g].ref = table[held[g].name]]
  /\ Go(g, IF table[held[g].name] = 0 THEN "create" ELSE "set")
  /\ UNCHANGED <<master, table, controls, writing, up, changes, history>>

Create(g) ==
  /\ Is(g, "create")
  /\ controls' = Append(controls, [chance |-> held[g].chance, counts |-> NoCounts])
  /\ held' = [held EXCEPT ![g].ref = Len(controls) + 1]
  /\ writing' = writing \cup {<<g, "table">>}
  /\ Go(g, "store")
  /\ UNCHANGED <<master, table, up, changes, history>>

Store(g) ==
  /\ Is(g, "store")
  /\ table' = [table EXCEPT ![held[g].name] = held[g].ref]
  /\ writing' = writing \ {<<g, "table">>}
  /\ Go(g, "set")
  /\ UNCHANGED <<master, controls, held, up, changes, history>>

\* Mutant: the control keeps the chance it was made with.
KeepChance(g) ==
  /\ Is(g, "set")
  /\ Go(g, "loadCalls")
  /\ UNCHANGED <<master, table, controls, writing, held, up, changes, history>>

\* The chance may have changed since the control was made.
SetChance(g) ==
  /\ Is(g, "set")
  /\ controls' = [controls EXCEPT ![held[g].ref].chance = held[g].chance]
  /\ Go(g, "loadCalls")
  /\ UNCHANGED <<master, table, writing, held, up, changes, history>>

\* Execute of the control.  An increment is a load and a store.
Outcome(g) == IF held[g].won THEN "trues" ELSE "falses"

LoadCount(g, place, field, next) ==
  /\ Is(g, place)
  /\ held' = [held EXCEPT ![g].copy = controls[held[g].ref].counts[field]]
  /\ Go(g, next)
  /\ UNCHANGED <<master, table, controls, writing, up, changes, history>>

StoreCount(g, place, field, next) ==
  /\ Is(g, place)
  /\ controls' = [controls EXCEPT ![held[g].ref].counts[field] = held[g].copy + 1]
  /\ Go(g, next)
  /\ UNCHANGED <<master, table, writing, held, up, changes, history>>

CountCall(g) ==
  \/ LoadCount(g, "loadCalls", "calls", "storeCalls")
  \/ StoreCount(g, "storeCalls", "calls", "randomly")

CountOutcome(g) ==
  \/ LoadCount(g, "loadOutcome", Outcome(g), "storeOutcome")
  \/ StoreCount(g, "storeOutcome", Outcome(g), "return")

\* The handler knows.
Return(g) ==
  /\ Is(g, "return")
  /\ held' = [held EXCEPT ![g] = Locals]
  /\ heard' = [heard EXCEPT ![g] = {}]
  /\ Go(g, "idle")
  /\ UNCHANGED <<master, table, controls, writing, up, changes, thrown, alone>>

\* RandomlyTrue: 0 and 1 need no number.
RandomlyTrue(g) ==
  LET chance == controls[held[g].ref].chance IN
  /\ Is(g, "randomly")
  /\ held' = [held EXCEPT ![g].used = chance, ![g].won = (chance = "always")]
  /\ IF chance = "maybe"
     THEN Go(g, "draw") /\ UNCHANGED thrown
     ELSE /\ Go(g, "loadOutcome")
          /\ thrown' = [thrown EXCEPT ![held[g].name][IF chance = "always" THEN "trues"
                                                      ELSE "falses"] = @ + 1]
  /\ UNCHANGED <<master, table, controls, writing, up, changes, alone, heard>>

Draw(g) ==
  /\ Is(g, "draw")
  /\ \E won \in BOOLEAN :
        /\ held' = [held EXCEPT ![g].won = won]
        /\ thrown' = [thrown EXCEPT ![held[g].name][IF won THEN "trues" ELSE "falses"]
                                    = @ + 1]
  /\ Go(g, "loadOutcome")
  /\ UNCHANGED <<master, table, controls, writing, up, changes, alone, heard>>

-----------------------------------------------------------------------------
(***************************************************************************)
(* mainControlHandler: an admin's "!change" or "!disable"; other users and *)
(* texts, numbers that cannot be read and unknown names change nothing.    *)
(***************************************************************************)
Command(g) ==
  /\ Is(g, "idle") /\ changes < MaxChanges /\ changes' = changes + 1
  /\ \E n \in Listed, next \in Levels :
        held' = [held EXCEPT ![g] = [Locals EXCEPT !.name = n, !.chance = next]]
  /\ Go(g, "look")
  /\ UNCHANGED <<master, table, controls, writing, up, history>>

LookUp(g) ==
  /\ Is(g, "look")
  /\ Go(g, "write")
  /\ UNCHANGED <<master, table, controls, writing, held, up, changes, history>>

BeginChange(g) ==
  /\ Is(g, "write")
  /\ writing' = writing \cup {<<g, "master">>}
  /\ Go(g, "written")
  /\ UNCHANGED <<master, table, controls, held, up, changes, history>>

EndChange(g) ==
  LET n == held[g].name IN
  /\ Is(g, "written")
  /\ master' = [master EXCEPT ![n] = held[g].chance]
  /\ writing' = writing \ {<<g, "master">>}
  /\ heard' = [h \in Goroutines |->
       IF n \in Basic /\ h \in Throwing(n) THEN heard[h] \cup {held[g].chance} ELSE heard[h]]
  /\ held' = [held EXCEPT ![g] = Locals]
  /\ Go(g, "idle")
  /\ UNCHANGED <<table, controls, up, changes, thrown, alone>>

-----------------------------------------------------------------------------
\* Undefined behaviour: a map in use while another writes it, and two draws
\* from the one source, may end the process; nothing of this survives it.
Touches(g, map) ==
  at[g] \in IF map = "master" THEN {"read", "look", "write"} ELSE {"find", "create"}

Abort ==
  /\ up
  /\ \E g \in Goroutines :
       \/ \E map \in {"master", "table"} : Touches(g, map) /\ Written(g, map)
       \/ at[g] = "draw" /\ \E h \in Goroutines \ {g} : at[h] = "draw"
  /\ up' = FALSE
  /\ UNCHANGED <<master, table, controls, writing, at, held, changes, history>>

Throw(g) ==
  \/ ReadMaster(g) \/ Find(g) \/ Create(g) \/ Store(g) \/ SetChance(g)
  \/ CountCall(g) \/ RandomlyTrue(g) \/ Draw(g) \/ CountOutcome(g)
  \/ Return(g)

Next ==
  \/ \E g \in Goroutines :
        \/ fromBasicChance(g) \/ fromDefinedChance(g) \/ Throw(g)
        \/ Command(g) \/ LookUp(g) \/ BeginChange(g) \/ EndChange(g)
  \/ Abort

Spec == Init /\ [][Next]_vars

-----------------------------------------------------------------------------
(***************************************************************************)
(* Properties.                                                             *)
(***************************************************************************)
Places == {"idle", "read", "find", "create", "store", "set", "loadCalls", "storeCalls",
           "randomly", "draw", "loadOutcome", "storeOutcome", "return", "look", "write", "written"}

ChancesTypeOK ==
  /\ master \in [Listed -> Levels] /\ table \in [Names -> Nat] /\ controls \in Seq(Control)
  /\ at \in [Goroutines -> Places] /\ held \in [Goroutines -> Local]
  /\ thrown \in [Names -> Counts] /\ alone \subseteq Names
  /\ heard \in [Goroutines -> SUBSET Levels]

\* A throw for a name that is thrown with the chance of the list is made with
\* one that was in the list at some moment of it: once "!disable" has been
\* answered and the throws under way are over, its handler is quiet, whatever
\* chance its control was made with.  A throw whose caller brings a chance is
\* made with that, or with one that a throw for the same name at the same time
\* brought, whatever the list says: "!disable coinFlipHandler--singleSide" is
\* answered, too, and disables nothing.
DrawsOfItsTime ==
  \A g \in Goroutines : held[g].used # "unread" => held[g].used \in heard[g]

\* Only throws at the same time for one name lose counts: a name nobody threw
\* for twice at once has one control, which counts each throw and its outcome;
\* otherwise the control in the table never counts more than was thrown.
OnlyRacesLoseCounts ==
  \A n \in Names :
    LET counts == IF table[n] = 0 THEN NoCounts ELSE controls[table[n]].counts IN
    /\ n \in alone /\ Throwing(n) = {} => counts = thrown[n]
    /\ \A field \in DOMAIN counts : counts[field] <= thrown[n][field]
=============================================================================
