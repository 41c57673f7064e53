----------------------------- MODULE Components -----------------------------
(***************************************************************************)
(* What Simula's coroutines promise, without stacks and saved contexts: a  *)
(* quasi-parallel system of components.                                    *)
(*                                                                         *)
(* Every object is attached to another one or to the main program, or is   *)
(* the head of a component of its own, or has ended.  The objects attached *)
(* to a head, directly or not, belong to its component; the main program   *)
(* is the head of the main component.  One component operates, at its      *)
(* innermost attached object; every other one remembers the object at      *)
(* which it goes on (its reactivation point).                              *)
(***************************************************************************)
CONSTANTS
    Object,
    Main,   \* the main program, not one of them
    None    \* neither of these

VARIABLES
    operating,  \* the object whose code runs
    attachedTo, \* the object each one returns to, None for a head
    goesOnAt    \* the reactivation point of every suspended component

compVars == <<operating, attachedTo, goesOnAt>>

Place == Object \cup {Main}

ComponentsInit ==
    /\ operating = Main
    /\ attachedTo = [x \in Object |-> None]
    /\ goesOnAt = [x \in Place |-> None]

Attachment == INSTANCE Chains

Attacher == [x \in Place |-> IF x = Main THEN None ELSE attachedTo[x]]

\* The head of the component that operates.
OperatingHead == Attachment!Head(operating, Attacher)

Suspended(x) == x # OperatingHead /\ goesOnAt[x] # None

\* NEW: the object operates attached to its creator.
Begin(x) ==
    /\ attachedTo[x] = None /\ goesOnAt[x] = None /\ x # OperatingHead
    /\ attachedTo' = [attachedTo EXCEPT ![x] = operating]
    /\ operating' = x
    /\ UNCHANGED goesOnAt

\* x leaves: to the object it is attached to, or, if it heads the operating
\* component, to the reactivation point of the main program.
Leave(x, next) ==
    IF attachedTo[x] # None
      THEN /\ operating' = attachedTo[x]
           /\ attachedTo' = [attachedTo EXCEPT ![x] = None]
           /\ goesOnAt' = [goesOnAt EXCEPT ![x] = next]
      ELSE /\ operating' = goesOnAt[Main]
           /\ goesOnAt' = [goesOnAt EXCEPT ![x] = next, ![Main] = None]
           /\ UNCHANGED attachedTo

\* DETACH of an object of the operating component: it becomes the head of a
\* component, with everything attached to it.
DetachAs(x) ==
    /\ x # Main
    /\ x \in Attachment!Chain(operating, Attacher)
    /\ Leave(x, operating)

\* The end of the operating object.
End ==
    /\ operating # Main
    /\ Leave(operating, None)

\* RESUME: the operating component is suspended here, x's goes on.
ResumeAs(x) ==
    /\ x # Main /\ Suspended(x)
    /\ operating' = goesOnAt[x]
    /\ goesOnAt' = [goesOnAt EXCEPT ![OperatingHead] = operating, ![x] = None]
    /\ UNCHANGED attachedTo

\* CALL: the component of x becomes a part of the operating one.
CallAs(x) ==
    /\ x # Main /\ Suspended(x)
    /\ operating' = goesOnAt[x]
    /\ attachedTo' = [attachedTo EXCEPT ![x] = operating]
    /\ goesOnAt' = [goesOnAt EXCEPT ![x] = None]

ComponentsNext ==
    \/ \E x \in Object : Begin(x) \/ DetachAs(x) \/ ResumeAs(x) \/ CallAs(x)
    \/ End

ComponentsSpec == ComponentsInit /\ [][ComponentsNext]_compVars
=============================================================================
