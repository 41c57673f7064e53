------------------------------- MODULE Lists -------------------------------
(***************************************************************************)
(* What SIMSET promises: every head owns a list of links, a link is in at  *)
(* most one list, and joining a list leaves the one it was in before.      *)
(* There is one action for each procedure.  INTO is PRECEDE of a head.     *)
(***************************************************************************)
EXTENDS Integers, SequencesExt

CONSTANTS
    Owner, \* the heads
    Link,  \* the links
    NONE   \* no object

VARIABLES
    made, \* the heads that exist
    list  \* their lists; the others have none, which is written << >>

listVars == <<made, list>>

\* All lists without l.
Leaving(l) == [h \in Owner |-> RemoveFirst(list[h], l)]

ListsInit == made = {} /\ list = [h \in Owner |-> << >>]

Create(h) ==
    /\ h \notin made
    /\ made' = made \cup {h}
    /\ UNCHANGED list

Quit(l) ==
    /\ list' = Leaving(l)
    /\ UNCHANGED made

\* l leaves the list it is in and gets this place in h's.
PutAt(l, h, place) ==
    /\ list' = [Leaving(l) EXCEPT ![h] = InsertAt(@, place, l)]
    /\ UNCHANGED made

\* Once l has left, x is neither a head nor in a list: there is no place next
\* to NONE, next to l itself or next to a link that is in no list.
Astray(l, x) == x \notin made /\ \A h \in made : x \notin ToSet(Leaving(l)[h])

\* FOLLOW: l stands directly behind x, as the first one behind a head.
Follow(l, x) ==
    \/ x \in made /\ PutAt(l, x, 1)
    \/ \E h \in made : \E i \in DOMAIN Leaving(l)[h] :
          Leaving(l)[h][i] = x /\ PutAt(l, h, i + 1)
    \/ Astray(l, x) /\ Quit(l)

\* PRECEDE: l stands directly before x, as the last one of a head's list.
Precede(l, x) ==
    \/ x \in made /\ PutAt(l, x, Len(Leaving(l)[x]) + 1)
    \/ \E h \in made : \E i \in DOMAIN Leaving(l)[h] :
          Leaving(l)[h][i] = x /\ PutAt(l, h, i)
    \/ Astray(l, x) /\ Quit(l)

ListsNext ==
    \/ \E h \in Owner : Create(h)
    \/ \E l \in Link : Quit(l)
    \/ \E l \in Link, x \in Owner \cup Link \cup {NONE} : Follow(l, x) \/ Precede(l, x)

ListsSpec == ListsInit /\ [][ListsNext]_listVars
=============================================================================
