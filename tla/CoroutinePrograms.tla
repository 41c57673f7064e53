------------------------- MODULE CoroutinePrograms -------------------------
(***************************************************************************)
(* Classes of programs that use the coroutine layer.                       *)
(*                                                                         *)
(* A suspended RESUME or NEW keeps the head its component had when it was  *)
(* entered, and assigns it back to _chain_head.  The component can get     *)
(* another head in the meantime in two ways: CALL of an object that a      *)
(* RESUME suspended, and DETACH of an object other than the one whose      *)
(* stack runs (a DETACH in a procedure of the object, called by another).  *)
(* Plain programs do neither; the other classes allow one of the two.      *)
(***************************************************************************)
EXTENDS Coroutines

\* c would go on after a DETACH, not after a RESUME.
SuspendedByDetach(c) ==
    StackIn(<<"context", c>>) # NoSlot => ~ frame[StackIn(<<"context", c>>)].restores

OwnDetach(c) == c = on /\ Detach(c)

PlainCall(c) == SuspendedByDetach(c) /\ Call(c)

\* What every class of programs may do.
Common ==
    \/ \E c \in Coro : New(c) \/ OwnDetach(c) \/ Resume(c) \/ Refused(c)
    \/ Terminate
    \/ EndProgram

PlainSpec == Init /\ [][Common \/ \E c \in Coro : PlainCall(c)]_vars

\* Any detached object may be called.  TLC refutes ChainHeadIsHead of these
\* programs, and NoStaleJump of those of Spec, which DETACH any object.
CallingSpec == Init /\ [][Common \/ \E c \in Coro : Call(c)]_vars
=============================================================================
