--------------------------- MODULE DiscreteEvents ---------------------------
(***************************************************************************)
(* What a discrete event scheduler promises, without any list: every       *)
(* process is due at some time or not at all, one process operates at a    *)
(* time, a process starts only when no other is due earlier, and the clock *)
(* stands still while a process operates and never passes a due event.     *)
(***************************************************************************)
EXTENDS Integers

CONSTANTS Proc, NULL, Never

VARIABLES now, due, active

vars == <<now, due, active>>

Pending == {p \in Proc : due[p] # Never}

Init ==
    /\ now = 0
    /\ due = [p \in Proc |-> Never]
    /\ active = NULL

\* The code that has control plans events, none of them in the past, and
\* keeps control or gives it up.
Plan ==
    /\ due' \in [Proc -> Nat \cup {Never}]
    /\ \A p \in Proc : due'[p] \in {due[p], Never} \/ due'[p] >= now
    /\ active' \in {active, NULL}
    /\ now' = now

\* The earliest event happens.
Start(p) ==
    /\ active = NULL
    /\ p \in Pending
    /\ \A q \in Pending : due[p] <= due[q]
    /\ now' = due[p]
    /\ due' = [due EXCEPT ![p] = Never]
    /\ active' = p

\* Time passes up to some moment before which nothing is due.
Pass ==
    /\ active = NULL
    /\ now' >= now
    /\ \A p \in Pending : due[p] > now'
    /\ UNCHANGED <<due, active>>

Next == Plan \/ (\E p \in Proc : Start(p)) \/ Pass

Spec == Init /\ [][Next]_vars
=============================================================================
