---------------------------- MODULE MinuteContract ----------------------------
(***************************************************************************)
(* What the manic minute promises, without manager, database or scheduler: *)
(* minutes run one at a time and each at most once; a generated text is    *)
(* posted only while its minute runs; the message count reported when a    *)
(* minute ends is the opening message plus those texts; and a channel is   *)
(* told that its minute is over at most once, after it is over.            *)
(***************************************************************************)
EXTENDS Naturals

CONSTANTS Messages, None

VARIABLES
    opened,    \* the minutes that have begun
    running,   \* the one that runs, or None
    posted,    \* the generated texts posted for each
    reported,  \* the final count stored for each, or None
    told       \* the minutes whose channel was told they are over

vars == <<opened, running, posted, reported, told>>

Init ==
    /\ opened = {}
    /\ running = None
    /\ posted = [m \in Messages |-> 0]
    /\ reported = [m \in Messages |-> None]
    /\ told = {}

Open(m) ==
    /\ running = None /\ m \notin opened
    /\ opened' = opened \cup {m}
    /\ running' = m
    /\ UNCHANGED <<posted, reported, told>>

Post ==
    /\ running # None
    /\ posted' = [posted EXCEPT ![running] = @ + 1]
    /\ UNCHANGED <<opened, running, reported, told>>

\* A minute ends by itself, is stopped, or ends because the process died; in
\* the last case, or when a write fails, nothing is reported.
End ==
    /\ running # None
    /\ running' = None
    /\ told' \in {told, told \cup {running}}
    /\ reported' \in {reported, [reported EXCEPT ![running] = 1 + posted[running]]}
    /\ UNCHANGED <<opened, posted>>

Tell(m) ==
    /\ m \in opened \ told /\ m # running
    /\ told' = told \cup {m}
    /\ UNCHANGED <<opened, running, posted, reported>>

Next == Post \/ End \/ \E m \in Messages : Open(m) \/ Tell(m)

Spec == Init /\ [][Next]_vars
=============================================================================
