------------------------------- MODULE Simset -------------------------------
(***************************************************************************)
(* SIMSET: the classes LINKAGE, HEAD and LINK that the compiler adds to a  *)
(* program as Simula source (SIMSET_PRELUDE in src/main.cpp).              *)
(*                                                                         *)
(* A list is a ring through suc_ and pred_ with the head as one of its     *)
(* nodes; a linkage that is in no ring has NONE in both.  The procedures   *)
(* are sequences of pointer assignments.  Each is one step here, composed  *)
(* of its assignments in their order, except CLEAR, whose loop runs one    *)
(* turn at a time.                                                         *)
(***************************************************************************)
EXTENDS Integers, SequencesExt

CONSTANTS
    Owner, \* the objects of class HEAD
    Link,  \* the objects of class LINK (and of PROCESS, which is one)
    NONE   \* the reference to no object

ASSUME SimsetAssumption ==
    /\ Owner \cap Link = {}
    /\ NONE \notin Owner \cup Link
    /\ IsFiniteSet(Link)

VARIABLES
    suc_,    \* LINKAGE attribute
    pred_,   \* LINKAGE attribute
    clearing \* the head whose CLEAR is under way, or NONE

vars == <<suc_, pred_, clearing>>

Linkage   == Owner \cup Link
Reference == Linkage \cup {NONE}

\* The two attributes of all linkages, as the value the procedures work on.
Ring == [suc : [Linkage -> Reference], pred : [Linkage -> Reference]]
ring == [suc |-> suc_, pred |-> pred_]

Set(r) == suc_' = r.suc /\ pred_' = r.pred

\* ishead_ is set by the body of HEAD and never changes.
ishead_(x) == x \in Owner

Init ==
    /\ suc_ = [x \in Linkage |-> NONE]
    /\ pred_ = [x \in Linkage |-> NONE]
    /\ clearing = NONE

-----------------------------------------------------------------------------
(* Faulty variants of definitions below: with one of them in the place of  *)
(* the right one, a property of this module fails.                         *)

\* SUC and PRED without the test for the head.
SucAnyNode(r, x)  == r.suc[x]
PredAnyNode(r, x) == r.pred[x]

\* The test whether x is in a ring reduced to the one for NONE.
NotNone(r, x) == x # NONE

\* FOLLOW with x.suc_ assigned before it is read for this link's suc_.
BehindOutOfOrder(r, l, x) ==
    LET suc1 == [r.suc EXCEPT ![x] = l]
    IN  [suc |-> [suc1 EXCEPT ![l] = suc1[x]],
         pred |-> [r.pred EXCEPT ![l] = x, ![suc1[x]] = l]]

\* FOLLOW on the wrong side of x.
PutOnWrongSide(r, l, x) ==
    LET suc1  == [r.suc EXCEPT ![l] = x]
        pred1 == [r.pred EXCEPT ![l] = r.pred[x]]
    IN  [suc |-> [suc1 EXCEPT ![pred1[l]] = l], pred |-> [pred1 EXCEPT ![x] = l]]

-----------------------------------------------------------------------------
(* Functions that read the ring.                                           *)

\* LINKAGE.SUC and PRED: the neighbour, NONE where that is the head.
SUC(r, x)  == IF r.suc[x] # NONE /\ ~ ishead_(r.suc[x]) THEN r.suc[x] ELSE NONE
PRED(r, x) == IF r.pred[x] # NONE /\ ~ ishead_(r.pred[x]) THEN r.pred[x] ELSE NONE

\* HEAD.FIRST, LAST and EMPTY.
FIRST(r, h) == SUC(r, h)
LAST(r, h)  == PRED(r, h)
EMPTY(r, h) == r.suc[h] = h

\* The p of CARDINAL's loop after n turns, which stops when it is back at h.
CursorAfter(r, h, n) ==
    LET p[i \in 0 .. n] == IF i = 0 THEN r.suc[h]
                           ELSE IF p[i - 1] \in {h, NONE} THEN p[i - 1]
                           ELSE r.suc[p[i - 1]]
    IN  p[n]

\* CARDINAL: how many turns the loop takes.  A ring that does not lead back
\* to h within all links would keep it running for ever.
Turns(r, h) == {n \in 0 .. Cardinality(Link) : CursorAfter(r, h, n) = h}
CARDINAL(r, h) == Min(Turns(r, h))

-----------------------------------------------------------------------------
(* Procedures that change it: the ring after them.                         *)

\* LINK.OUT.
Removed(r, l) ==
    IF r.suc[l] = NONE THEN r
    ELSE LET pred1 == [r.pred EXCEPT ![r.suc[l]] = r.pred[l]]
             suc1  == [r.suc EXCEPT ![pred1[l]] = r.suc[l]]
         IN  [suc |-> [suc1 EXCEPT ![l] = NONE], pred |-> [pred1 EXCEPT ![l] = NONE]]

\* X =/= NONE AND THEN X.suc_ =/= NONE.
InRing(r, x) == x # NONE /\ r.suc[x] # NONE

\* LINK.FOLLOW(x) after its OUT.
PutBehind(r, l, x) ==
    LET pred1 == [r.pred EXCEPT ![l] = x]
        suc1  == [r.suc EXCEPT ![l] = r.suc[x]]
    IN  [pred |-> [pred1 EXCEPT ![suc1[l]] = l], suc |-> [suc1 EXCEPT ![x] = l]]

\* LINK.PRECEDE(x) after its OUT.
PutBefore(r, l, x) ==
    LET suc1  == [r.suc EXCEPT ![l] = x]
        pred1 == [r.pred EXCEPT ![l] = r.pred[x]]
    IN  [suc |-> [suc1 EXCEPT ![pred1[l]] = l], pred |-> [pred1 EXCEPT ![x] = l]]

Idle == clearing = NONE

\* NEW HEAD: the body makes the head a ring of its own.
NewHead(h) ==
    /\ Idle
    /\ suc_[h] = NONE
    /\ Set([suc |-> [suc_ EXCEPT ![h] = h], pred |-> [pred_ EXCEPT ![h] = h]])
    /\ UNCHANGED clearing

Out(l) ==
    /\ Idle
    /\ Set(Removed(ring, l))
    /\ UNCHANGED clearing

\* x may be a head, any link, l itself or NONE; a head that was never made
\* has no reference to it.
Named(x) == x \in Owner => suc_[x] # NONE

Follow(l, x) ==
    /\ Idle /\ Named(x)
    /\ LET r == Removed(ring, l)
       IN  Set(IF InRing(r, x) THEN PutBehind(r, l, x) ELSE r)
    /\ UNCHANGED clearing

\* INTO(S) is PRECEDE(S) with a head, so it is among these.
Precede(l, x) ==
    /\ Idle /\ Named(x)
    /\ LET r == Removed(ring, l)
       IN  Set(IF InRing(r, x) THEN PutBefore(r, l, x) ELSE r)
    /\ UNCHANGED clearing

\* HEAD.CLEAR is entered, takes one turn, or finds the list empty.
Clear(h) ==
    /\ Idle /\ Named(h)
    /\ clearing' = h
    /\ UNCHANGED <<suc_, pred_>>

ClearTurn ==
    /\ clearing # NONE
    /\ FIRST(ring, clearing) # NONE
    /\ Set(Removed(ring, FIRST(ring, clearing)))
    /\ UNCHANGED clearing

ClearEnds ==
    /\ clearing # NONE
    /\ FIRST(ring, clearing) = NONE
    /\ clearing' = NONE
    /\ UNCHANGED <<suc_, pred_>>

Next ==
    \/ \E h \in Owner : NewHead(h) \/ Clear(h)
    \/ \E l \in Link : Out(l)
    \/ \E l \in Link, x \in Reference : Follow(l, x) \/ Precede(l, x)
    \/ ClearTurn \/ ClearEnds

\* The program that calls CLEAR goes on executing it.
Spec == Init /\ [][Next]_vars /\ WF_vars(ClearTurn \/ ClearEnds)

-----------------------------------------------------------------------------
(* Properties.                                                             *)

TypeOK ==
    /\ suc_ \in [Linkage -> Reference]
    /\ pred_ \in [Linkage -> Reference]
    /\ clearing \in {h \in Owner : suc_[h] # NONE} \cup {NONE}

\* suc_ and pred_ are each other's inverse, also after a link was put next to
\* its own neighbour, next to itself or next to a link that is in no list.
TwoWay ==
    \A x \in Linkage :
        /\ suc_[x] = NONE <=> pred_[x] = NONE
        /\ suc_[x] # NONE => suc_[x] \in Linkage /\ pred_[suc_[x]] = x
        /\ pred_[x] # NONE => pred_[x] \in Linkage /\ suc_[pred_[x]] = x

\* Every ring has exactly one head: from any link in a ring, following suc_
\* leads to a head, and no ring runs through two of them.  CARDINAL stops.
HasHead ==
    /\ \A h \in Owner : suc_[h] # NONE => Turns(ring, h) # {}
    /\ \A l \in Link : suc_[l] # NONE =>
            Cardinality({h \in Owner : suc_[h] # NONE
                           /\ \E n \in 0 .. Cardinality(Link) : CursorAfter(ring, h, n) = l}) = 1

\* The list of h as a walk along suc_ shows it: none of a head that was not
\* made, and no list at all if the walk does not end.
ListOf(r, h) ==
    IF r.suc[h] = NONE THEN << >>
    ELSE IF Turns(r, h) = {} THEN NONE
    ELSE [n \in 1 .. CARDINAL(r, h) |-> CursorAfter(r, h, n - 1)]

\* What FIRST, LAST and EMPTY return is what the list says, and SUC and PRED of
\* its links are the neighbours in it: walking back along pred_ gives the same
\* list reversed.
FunctionsAgree ==
    \A h \in Owner : suc_[h] # NONE =>
        LET list == ListOf(ring, h)
        IN  /\ EMPTY(ring, h) <=> list = << >>
            /\ FIRST(ring, h) = IF list = << >> THEN NONE ELSE Head(list)
            /\ LAST(ring, h) = IF list = << >> THEN NONE ELSE Last(list)
            /\ \A i \in DOMAIN list :
                    /\ PRED(ring, list[i]) = IF i = 1 THEN NONE ELSE list[i - 1]
                    /\ SUC(ring, list[i]) = IF i = Len(list) THEN NONE ELSE list[i + 1]

List == INSTANCE Lists WITH made <- {h \in Owner : suc_[h] # NONE},
                            list <- [h \in Owner |-> ListOf(ring, h)]

\* Each procedure is the operation of Lists of its own name, and a turn of
\* CLEAR takes out the first link.
EachAsMeant ==
    /\ \A h \in Owner : NewHead(h) => List!Create(h)
    /\ \A l \in Link : Out(l) => List!Quit(l)
    /\ \A l \in Link, x \in Reference :
            /\ Follow(l, x) => List!Follow(l, x)
            /\ Precede(l, x) => List!Precede(l, x)
    /\ ClearTurn => List!Quit(Head(ListOf(ring, clearing)))
    /\ ClearEnds \/ (\E h \in Owner : Clear(h)) => UNCHANGED List!listVars

\* The rings are lists: NEW HEAD, OUT, FOLLOW, PRECEDE, INTO and each turn of
\* CLEAR change them exactly as the list operation they stand for, on the
\* side of the other linkage they say, and touch no other list.
ImplementsLists == List!ListsSpec /\ [][EachAsMeant]_vars

\* CLEAR comes to an end, with the list empty.
ClearIsDone ==
    \A h \in Owner : clearing = h ~> clearing = NONE /\ EMPTY(ring, h)
=============================================================================
