---------------------------- MODULE SimsetProofs ----------------------------
(***************************************************************************)
(* Proofs about SIMSET, for any sets of heads and links.                   *)
(*                                                                         *)
(* First, suc_ and pred_ stay each other's inverse: TypeOK and TwoWay      *)
(* together are inductive.  The work is in two lemmas about rings as       *)
(* values, one for OUT and one for what FOLLOW and PRECEDE do after their  *)
(* OUT; the actions only compose them.                                     *)
(*                                                                         *)
(* Second, the rings are lists: there are sequences of links, one per head *)
(* and no link in two places, that the rings run through.  OUT takes an    *)
(* element out of one, FOLLOW and PRECEDE put one in.  CARDINAL's walk     *)
(* shows these sequences, so the rings implement module Lists, every ring  *)
(* has one head, and the functions of HEAD return what the lists say.      *)
(***************************************************************************)
EXTENDS Simset, SequenceTheorems, FiniteSetTheorems, WellFoundedInduction,
        TLAPS

-----------------------------------------------------------------------------
(* Lists with an element put in or taken out.                              *)

\* Every non-empty set of natural numbers has a least element, and Min is it.
LEMMA MinNat ==
    ASSUME NEW S \in SUBSET Nat, S # {}
    PROVE  /\ Min(S) \in S
           /\ \A n \in S : Min(S) <= n
<1>1. PICK m \in S : \A n \in S : ~ (<<n, m>> \in OpToRel(<, Nat))
  BY NatLessThanWellFounded, WFMin, Zenon
<1>2. ASSUME NEW n \in S, n < m
      PROVE  FALSE
  <2>1. <<n, m>> \in {r \in Nat \X Nat : r[1] < r[2]}
    BY <1>2
  <2> QED
    BY <1>1, <2>1, Zenon DEF OpToRel
<1>3. \A n \in S : m <= n
  BY <1>2
<1> QED
  BY <1>3 DEF Min

\* What a list is once InsertAt has put e at place k of s.
Seated(s, k, e, S) ==
    /\ InsertAt(s, k, e) \in Seq(S)
    /\ Len(InsertAt(s, k, e)) = Len(s) + 1
    /\ \A j \in 1 .. Len(s) + 1 :
          InsertAt(s, k, e)[j] = IF j < k THEN s[j]
                                 ELSE IF j = k THEN e ELSE s[j - 1]

\* InsertAt puts one element in and keeps the others in their order.
LEMMA InsertAtProperties ==
    ASSUME NEW S, NEW s \in Seq(S), NEW k \in 1 .. Len(s) + 1, NEW e \in S
    PROVE  Seated(s, k, e, S)
<1> DEFINE front == SubSeq(s, 1, k - 1)
           back  == SubSeq(s, k, Len(s))
<1>1. /\ front \in Seq(S) /\ Len(front) = k - 1
      /\ \A i \in 1 .. k - 1 : front[i] = s[i]
  BY SubSeqProperties
<1>2. /\ back \in Seq(S) /\ Len(back) = Len(s) - k + 1
      /\ \A i \in 1 .. Len(s) - k + 1 : back[i] = s[k + i - 1]
  BY SubSeqProperties
<1> DEFINE mid == front \o <<e>>
<1>3. <<e>> \in Seq(S) /\ Len(<<e>>) = 1 /\ <<e>>[1] = e
  OBVIOUS
<1> HIDE DEF front, back
<1>4. /\ mid \in Seq(S) /\ Len(mid) = k
      /\ \A i \in 1 .. k : mid[i] = IF i < k THEN s[i] ELSE e
  BY <1>1, <1>3, ConcatProperties
<1> HIDE DEF mid
<1>5. /\ mid \o back \in Seq(S) /\ Len(mid \o back) = Len(s) + 1
      /\ \A j \in 1 .. Len(s) + 1 :
           (mid \o back)[j] = IF j <= k THEN mid[j] ELSE back[j - k]
  <2> HIDE DEF mid
  <2>1. /\ mid \o back \in Seq(S) /\ Len(mid \o back) = Len(mid) + Len(back)
        /\ \A j \in 1 .. Len(mid) + Len(back) :
             (mid \o back)[j] = IF j <= Len(mid) THEN mid[j] ELSE back[j - Len(mid)]
    BY <1>2, <1>4, ConcatProperties
  <2>2. Len(mid) + Len(back) = Len(s) + 1
    BY <1>2, <1>4
  <2> QED
    BY <2>1, <2>2, <1>4
<1>6. InsertAt(s, k, e) = mid \o back
  BY DEF InsertAt, mid, front, back
<1> QED
  BY <1>2, <1>4, <1>5, <1>6 DEF Seated

\* RemoveAt takes one element out and keeps the others in their order.
LEMMA RemoveAtProperties ==
    ASSUME NEW S, NEW s \in Seq(S), NEW k \in 1 .. Len(s)
    PROVE  /\ RemoveAt(s, k) \in Seq(S)
           /\ Len(RemoveAt(s, k)) = Len(s) - 1
           /\ \A j \in 1 .. Len(s) - 1 :
                 RemoveAt(s, k)[j] = IF j < k THEN s[j] ELSE s[j + 1]
<1> DEFINE front == SubSeq(s, 1, k - 1)
           back  == SubSeq(s, k + 1, Len(s))
<1>1. /\ front \in Seq(S) /\ Len(front) = k - 1
      /\ \A i \in 1 .. k - 1 : front[i] = s[i]
  BY SubSeqProperties
<1>2. /\ back \in Seq(S) /\ Len(back) = Len(s) - k
      /\ \A i \in 1 .. Len(s) - k : back[i] = s[k + i]
  BY SubSeqProperties
<1>3. RemoveAt(s, k) = front \o back
  BY DEF RemoveAt
<1> HIDE DEF front, back
<1>4. /\ front \o back \in Seq(S) /\ Len(front \o back) = Len(front) + Len(back)
      /\ \A j \in 1 .. Len(front) + Len(back) :
           (front \o back)[j] =
              IF j <= Len(front) THEN front[j] ELSE back[j - Len(front)]
  BY <1>1, <1>2, ConcatProperties
<1>5. Len(front) + Len(back) = Len(s) - 1
  BY <1>1, <1>2
<1>6. \A j \in 1 .. Len(s) - 1 :
         (front \o back)[j] = IF j < k THEN s[j] ELSE s[j + 1]
  <2> TAKE j \in 1 .. Len(s) - 1
  <2>1. (front \o back)[j] = IF j <= k - 1 THEN front[j] ELSE back[j - (k - 1)]
    BY <1>1, <1>4, <1>5
  <2>2. CASE j < k
    <3>1. j \in 1 .. k - 1
      BY <2>2
    <3>2. (front \o back)[j] = front[j]
      BY <2>1, <3>1
    <3> QED
      BY <1>1, <2>2, <3>1, <3>2
  <2>3. CASE ~(j < k)
    <3>1. j - (k - 1) \in 1 .. Len(s) - k /\ ~(j <= k - 1)
      BY <2>3
    <3>2. (front \o back)[j] = back[j - (k - 1)]
      BY <2>1, <3>1
    <3>3. back[j - (k - 1)] = s[k + (j - (k - 1))]
      BY <1>2, <3>1
    <3>4. k + (j - (k - 1)) = j + 1
      OBVIOUS
    <3> QED
      BY <2>3, <3>2, <3>3, <3>4
  <2> QED
    BY <2>2, <2>3
<1>7. /\ RemoveAt(s, k) \in Seq(S)
      /\ Len(RemoveAt(s, k)) = Len(s) - 1
  BY <1>3, <1>4, <1>5
<1> QED
  BY <1>3, <1>6, <1>7

\* RemoveFirst takes out an element that is there once, and otherwise nothing.
LEMMA RemoveFirstProperties ==
    ASSUME NEW S, NEW s \in Seq(S), NEW e,
           \A i, j \in 1 .. Len(s) : s[i] = e /\ s[j] = e => i = j
    PROVE  /\ \A k \in 1 .. Len(s) : s[k] = e => RemoveFirst(s, e) = RemoveAt(s, k)
           /\ (\A k \in 1 .. Len(s) : s[k] # e) => RemoveFirst(s, e) = s
<1>1. ASSUME NEW k \in 1 .. Len(s), s[k] = e
      PROVE  RemoveFirst(s, e) = RemoveAt(s, k)
  <2> DEFINE I == {i \in 1 .. Len(s) : s[i] = e}
  <2>1. I = {k} /\ k \in Nat
    BY <1>1
  <2>2. Min(I) = k
    BY <2>1, MinNat
  <2>3. SelectInSeq(s, LAMBDA v : v = e) = k
    BY <2>1, <2>2 DEF SelectInSeq
  <2> QED
    BY <1>1, <2>3 DEF RemoveFirst
<1>2. ASSUME \A k \in 1 .. Len(s) : s[k] # e
      PROVE  RemoveFirst(s, e) = s
  BY <1>2 DEF RemoveFirst
<1> QED
  BY <1>1, <1>2

-----------------------------------------------------------------------------

\* A ring value in which suc and pred are inverse to each other.
Linked(r) ==
    /\ r \in Ring
    /\ \A x \in Linkage :
        /\ r.suc[x] = NONE <=> r.pred[x] = NONE
        /\ r.suc[x] # NONE => r.suc[x] \in Linkage /\ r.pred[r.suc[x]] = x
        /\ r.pred[x] # NONE => r.pred[x] \in Linkage /\ r.suc[r.pred[x]] = x

\* The heads in the rings of r are also in those of q.
KeepsHeads(r, q) == \A h \in Owner : r.suc[h] # NONE => q.suc[h] # NONE

IInv == TypeOK /\ TwoWay

LEMMA LinkedRing == IInv <=> /\ Linked(ring)
                             /\ clearing \in {h \in Owner : suc_[h] # NONE} \cup {NONE}
  BY DEF IInv, TypeOK, TwoWay, Linked, Ring, ring

\* What FOLLOW and PRECEDE put between two neighbours: the ring r with l
\* between x and y.
Between(r, l, x, y) ==
    [suc |-> [r.suc EXCEPT ![l] = y, ![x] = l], pred |-> [r.pred EXCEPT ![l] = x, ![y] = l]]

\* OUT leaves rings that are linked, with l in none of them.
LEMMA RemovedLinked ==
    ASSUME NEW r, Linked(r), NEW l \in Link
    PROVE  /\ Linked(Removed(r, l))
           /\ Removed(r, l).suc[l] = NONE
           /\ KeepsHeads(r, Removed(r, l))
<1> USE SimsetAssumption DEF Linkage, Reference, Ring
<1>1. CASE r.suc[l] = NONE
  BY <1>1 DEF Removed, KeepsHeads
<1>2. CASE r.suc[l] # NONE
  <2> DEFINE s == r.suc[l]
             p == r.pred[l]
             q == Removed(r, l)
  <2>1. s \in Linkage /\ p \in Linkage /\ r.pred[s] = l /\ r.suc[p] = l
    BY <1>2 DEF Linked
  <2>2. /\ q.suc = [[r.suc EXCEPT ![p] = s] EXCEPT ![l] = NONE]
        /\ q.pred = [[r.pred EXCEPT ![s] = p] EXCEPT ![l] = NONE]
    <3>1. [r.pred EXCEPT ![s] = p][l] = p
      BY <2>1 DEF Linked
    <3> QED
      BY <1>2, <3>1 DEF Removed
  <2>3. /\ q.suc \in [Linkage -> Reference] /\ q.pred \in [Linkage -> Reference]
        /\ \A x \in Linkage : q.suc[x] = IF x = l THEN NONE ELSE IF x = p THEN s ELSE r.suc[x]
        /\ \A x \in Linkage : q.pred[x] = IF x = l THEN NONE ELSE IF x = s THEN p ELSE r.pred[x]
    BY <2>1, <2>2 DEF Linked
  <2>4. q = [suc |-> q.suc, pred |-> q.pred]
    BY <1>2 DEF Removed
  <2>5. q \in Ring
    BY <2>3, <2>4
  <2> HIDE DEF q, s, p
  <2>6. \A x \in Linkage : x # l => (r.suc[x] = l <=> x = p) /\ (r.pred[x] = l <=> x = s)
    BY <1>2, <2>1 DEF Linked, s, p
  <2>7. p = l <=> s = l
    BY <1>2, <2>1 DEF Linked, s, p
  <2>8. Linked(q)
    <3> SUFFICES ASSUME NEW x \in Linkage
                 PROVE  /\ q.suc[x] = NONE <=> q.pred[x] = NONE
                        /\ q.suc[x] # NONE => q.suc[x] \in Linkage /\ q.pred[q.suc[x]] = x
                        /\ q.pred[x] # NONE => q.pred[x] \in Linkage /\ q.suc[q.pred[x]] = x
      BY <2>5 DEF Linked
    <3>1. s # NONE /\ p # NONE
      BY <2>1
    <3>2. CASE x = l
      BY <2>3, <3>2
    <3>3. CASE x # l
      <4>1. q.suc[x] = NONE <=> q.pred[x] = NONE
        BY <2>3, <2>1, <3>1, <3>3 DEF Linked
      <4>2. ASSUME q.suc[x] # NONE
            PROVE  q.suc[x] \in Linkage /\ q.pred[q.suc[x]] = x
        BY <2>1, <2>3, <2>6, <2>7, <3>3, <4>2 DEF Linked
      <4>3. ASSUME q.pred[x] # NONE
            PROVE  q.pred[x] \in Linkage /\ q.suc[q.pred[x]] = x
        BY <2>1, <2>3, <2>6, <2>7, <3>3, <4>3 DEF Linked
      <4> QED
        BY <4>1, <4>2, <4>3
    <3> QED
      BY <3>2, <3>3
  <2>9. KeepsHeads(r, q)
    BY <2>1, <2>3 DEF KeepsHeads
  <2> QED
    BY <2>3, <2>8, <2>9 DEF q
<1> QED
  BY <1>1, <1>2

\* A link in no ring, put between two neighbours, leaves linked rings.
LEMMA BetweenLinked ==
    ASSUME NEW r, Linked(r), NEW l \in Link, r.suc[l] = NONE,
           NEW x \in Linkage, NEW y \in Linkage, r.suc[x] = y
    PROVE  Linked(Between(r, l, x, y)) /\ KeepsHeads(r, Between(r, l, x, y))
<1> USE SimsetAssumption DEF Linkage, Reference, Ring
<1> DEFINE q == Between(r, l, x, y)
<1>1. r.pred[y] = x /\ r.pred[l] = NONE /\ x # l /\ y # l
  BY DEF Linked
<1>2. /\ q.suc \in [Linkage -> Reference] /\ q.pred \in [Linkage -> Reference]
      /\ q = [suc |-> q.suc, pred |-> q.pred]
      /\ \A z \in Linkage : q.suc[z] = IF z = x THEN l ELSE IF z = l THEN y ELSE r.suc[z]
      /\ \A z \in Linkage : q.pred[z] = IF z = y THEN l ELSE IF z = l THEN x ELSE r.pred[z]
  BY <1>1 DEF Linked, Between
<1>3. q \in Ring
  BY <1>2
<1> HIDE DEF q
<1>4. ASSUME NEW z \in Linkage
      PROVE  /\ q.suc[z] = NONE <=> q.pred[z] = NONE
             /\ q.suc[z] # NONE => q.suc[z] \in Linkage /\ q.pred[q.suc[z]] = z
             /\ q.pred[z] # NONE => q.pred[z] \in Linkage /\ q.suc[q.pred[z]] = z
  <2>1. q.suc[z] = NONE <=> q.pred[z] = NONE
    BY <1>1, <1>2 DEF Linked
  <2>2. ASSUME q.suc[z] # NONE
        PROVE  q.suc[z] \in Linkage /\ q.pred[q.suc[z]] = z
    BY <1>1, <1>2, <2>2 DEF Linked
  <2>3. ASSUME q.pred[z] # NONE
        PROVE  q.pred[z] \in Linkage /\ q.suc[q.pred[z]] = z
    BY <1>1, <1>2, <2>3 DEF Linked
  <2> QED
    BY <2>1, <2>2, <2>3
<1>5. Linked(q)
  BY <1>3, <1>4 DEF Linked
<1>6. KeepsHeads(r, q)
  BY <1>1, <1>2 DEF KeepsHeads
<1> QED
  BY <1>5, <1>6 DEF q

\* FOLLOW and PRECEDE put the link between x and a neighbour of x.
LEMMA PutIsBetween ==
    ASSUME NEW r, Linked(r), NEW l \in Link, r.suc[l] = NONE,
           NEW x \in Reference, InRing(r, x)
    PROVE  /\ x \in Linkage /\ r.suc[x] \in Linkage /\ r.pred[x] \in Linkage
           /\ r.suc[r.pred[x]] = x
           /\ PutBehind(r, l, x) = Between(r, l, x, r.suc[x])
           /\ PutBefore(r, l, x) = Between(r, l, r.pred[x], x)
<1> USE SimsetAssumption DEF Linkage, Reference, Ring
<1>1. /\ x \in Linkage /\ r.suc[x] \in Linkage /\ r.pred[x] \in Linkage
      /\ r.suc[r.pred[x]] = x
  BY DEF Linked, InRing
<1>2. PutBehind(r, l, x) = Between(r, l, x, r.suc[x])
  BY <1>1 DEF PutBehind, Between, Linked
<1>3. PutBefore(r, l, x) = Between(r, l, r.pred[x], x)
  BY <1>1 DEF PutBefore, Between, Linked
<1> QED
  BY <1>1, <1>2, <1>3

LEMMA InitIInv == Init => IInv
  BY SimsetAssumption DEF Init, IInv, TypeOK, TwoWay, Reference, Linkage

\* A step that puts a linked ring in place and keeps the heads.
LEMMA SetIInv ==
    ASSUME IInv, NEW r, Linked(r), KeepsHeads(ring, r), Set(r), UNCHANGED clearing
    PROVE  IInv'
<1>1. suc_' = r.suc /\ pred_' = r.pred
  BY DEF Set
<1>2. clearing' \in {h \in Owner : suc_'[h] # NONE} \cup {NONE}
  BY <1>1 DEF IInv, TypeOK, KeepsHeads, ring
<1> QED
  BY <1>1, <1>2 DEF IInv, TypeOK, TwoWay, Linked, Ring

LEMMA StepIInv == IInv /\ [Next]_vars => IInv'
<1> SUFFICES ASSUME IInv, [Next]_vars
             PROVE  IInv'
  OBVIOUS
<1>0. Linked(ring) /\ ring.suc = suc_
  BY LinkedRing DEF ring
<1>1. ASSUME NEW h \in Owner, NewHead(h)
      PROVE  IInv'
  <2> DEFINE r == [suc |-> [suc_ EXCEPT ![h] = h], pred |-> [pred_ EXCEPT ![h] = h]]
  <2>1. Linked(r)
    BY <1>1, SimsetAssumption
    DEF IInv, TypeOK, TwoWay, NewHead, Linked, Ring, Linkage, Reference
  <2>2. KeepsHeads(ring, r)
    BY <1>1, SimsetAssumption DEF IInv, TypeOK, NewHead, KeepsHeads, ring, Linkage
  <2>3. Set(r) /\ UNCHANGED clearing
    BY <1>1 DEF NewHead
  <2> QED
    BY <2>1, <2>2, <2>3, SetIInv
<1>2. ASSUME NEW h \in Owner, Clear(h)
      PROVE  IInv'
  BY <1>2, SimsetAssumption
  DEF IInv, TypeOK, TwoWay, Clear, Named, Linkage, Reference
<1>3. ASSUME NEW l \in Link, Out(l)
      PROVE  IInv'
  BY <1>0, <1>3, RemovedLinked, SetIInv DEF Out
<1>4. ASSUME NEW l \in Link, NEW x \in Reference, Follow(l, x) \/ Precede(l, x)
      PROVE  IInv'
  <2> DEFINE r == Removed(ring, l)
  <2>1. Linked(r) /\ r.suc[l] = NONE /\ KeepsHeads(ring, r)
    BY <1>0, RemovedLinked
  <2>2. UNCHANGED clearing
    BY <1>4 DEF Follow, Precede
  <2>3. CASE ~ InRing(r, x)
    <3>1. Set(r)
      BY <1>4, <2>3 DEF Follow, Precede
    <3> QED
      BY <2>1, <2>2, <3>1, SetIInv
  <2>4. CASE InRing(r, x)
    <3>1. PICK q \in {PutBehind(r, l, x), PutBefore(r, l, x)} : Set(q)
      BY <1>4, <2>4 DEF Follow, Precede
    <3> HIDE DEF r
    <3>2. Linked(q) /\ KeepsHeads(r, q)
      <4>1. Linked(PutBehind(r, l, x)) /\ KeepsHeads(r, PutBehind(r, l, x))
        BY <2>1, <2>4, PutIsBetween, BetweenLinked
      <4>2. Linked(PutBefore(r, l, x)) /\ KeepsHeads(r, PutBefore(r, l, x))
        BY <2>1, <2>4, PutIsBetween, BetweenLinked
      <4> QED
        BY <4>1, <4>2
    <3>3. KeepsHeads(ring, q)
      BY <2>1, <3>2 DEF KeepsHeads
    <3> QED
      BY <2>2, <3>1, <3>2, <3>3, SetIInv
  <2> QED
    BY <2>3, <2>4
<1>5. ASSUME ClearTurn
      PROVE  IInv'
  <2> DEFINE l == FIRST(ring, clearing)
  <2>1. l \in Link /\ Set(Removed(ring, l)) /\ UNCHANGED clearing
    BY <1>5, SimsetAssumption
    DEF ClearTurn, FIRST, SUC, ishead_, ring, IInv, TypeOK, Linkage, Reference
  <2> QED
    BY <1>0, <2>1, RemovedLinked, SetIInv
<1>6. ASSUME ClearEnds
      PROVE  IInv'
  BY <1>6 DEF ClearEnds, IInv, TypeOK, TwoWay
<1>7. CASE UNCHANGED vars
  BY <1>7 DEF vars, IInv, TypeOK, TwoWay
<1> QED
  BY <1>1, <1>2, <1>3, <1>4, <1>5, <1>6, <1>7 DEF Next

\* The attributes keep their types, and a head being cleared exists.
THEOREM TypeCorrect == Spec => []TypeOK
<1>1. IInv => TypeOK
  BY DEF IInv
<1> QED
  BY InitIInv, StepIInv, <1>1, PTL DEF Spec

\* suc_ and pred_ stay inverse to each other in every program, whatever links
\* are put before, behind or into whatever other linkages.
THEOREM AlwaysTwoWay == Spec => []TwoWay
<1>1. IInv => TwoWay
  BY DEF IInv
<1> QED
  BY InitIInv, StepIInv, <1>1, PTL DEF Spec

-----------------------------------------------------------------------------
(* The rings as lists.                                                     *)

\* Node i of the ring of h that is the list s: h itself is before the first
\* link and behind the last one.
Node(s, h, i) == IF i \in DOMAIN s THEN s[i] ELSE h

RingOf(r, h, s) == \A i \in 0 .. Len(s) : r.suc[Node(s, h, i)] = Node(s, h, i + 1)

\* No link is twice in the lists L.
Apart(L) ==
    \A g, h \in Owner : \A i \in DOMAIN L[g], j \in DOMAIN L[h] :
        L[g][i] = L[h][j] => g = h /\ i = j

\* The rings of r are the lists L.
Shows(r, L) ==
    /\ L \in [Owner -> Seq(Link)]
    /\ \A h \in Owner : IF r.suc[h] = NONE THEN L[h] = << >> ELSE RingOf(r, h, L[h])
    /\ \A l \in Link : r.suc[l] # NONE => \E h \in Owner : l \in ToSet(L[h])
    /\ Apart(L)

LEMMA ListFacts ==
    ASSUME NEW L \in [Owner -> Seq(Link)], NEW h \in Owner
    PROVE  /\ L[h] \in Seq(Link) /\ Len(L[h]) \in Nat /\ DOMAIN L[h] = 1 .. Len(L[h])
           /\ \A i \in 1 .. Len(L[h]) : L[h][i] \in Link
           /\ \A i \in Nat : Node(L[h], h, i) \in Linkage
<1>1. L[h] \in Seq(Link)
  OBVIOUS
<1> QED
  BY <1>1 DEF Node, Linkage

LEMMA NodesDiffer ==
    ASSUME NEW L \in [Owner -> Seq(Link)], Apart(L), NEW g \in Owner, NEW h \in Owner,
           NEW i \in 0 .. Len(L[g]), NEW j \in 0 .. Len(L[h]),
           Node(L[g], g, i) = Node(L[h], h, j)
    PROVE  g = h /\ i = j
<1>1. /\ DOMAIN L[g] = 1 .. Len(L[g]) /\ \A k \in 1 .. Len(L[g]) : L[g][k] \in Link
      /\ DOMAIN L[h] = 1 .. Len(L[h]) /\ \A k \in 1 .. Len(L[h]) : L[h][k] \in Link
      /\ Len(L[g]) \in Nat /\ Len(L[h]) \in Nat
  BY ListFacts
<1>2. CASE i = 0 \/ j = 0
  BY <1>1, <1>2, SimsetAssumption DEF Node
<1>3. CASE i # 0 /\ j # 0
  <2>1. i \in DOMAIN L[g] /\ j \in DOMAIN L[h]
    BY <1>1, <1>3
  <2> QED
    BY <2>1 DEF Node, Apart
<1> QED
  BY <1>2, <1>3

\* The heads that exist in r are those that exist in q.
SameHeads(r, q) == \A h \in Owner : q.suc[h] = NONE <=> r.suc[h] = NONE

\* Only existing heads have links in their lists, and these are in a ring.
LEMMA Listed ==
    ASSUME NEW r, NEW L, Shows(r, L), NEW h \in Owner, NEW i \in DOMAIN L[h]
    PROVE  r.suc[h] # NONE /\ L[h][i] \in Link /\ r.suc[L[h][i]] # NONE
<1>1. /\ L \in [Owner -> Seq(Link)] /\ Len(L[h]) \in Nat /\ DOMAIN L[h] = 1 .. Len(L[h])
      /\ L[h][i] \in Link
  BY ListFacts DEF Shows
<1>2. r.suc[h] # NONE
  BY DEF Shows
<1>3. i \in 0 .. Len(L[h]) /\ i + 1 \in Nat /\ Node(L[h], h, i) = L[h][i]
  BY <1>1 DEF Node
<1>4. Node(L[h], h, i + 1) \in Linkage
  BY <1>1, <1>3, ListFacts
<1> QED
  BY <1>1, <1>2, <1>3, <1>4, SimsetAssumption DEF Shows, RingOf, Linkage

\* A procedure that turns the list of g into t and leaves the others alone.
LEMMA ChangeShows ==
    ASSUME NEW r, NEW L, Shows(r, L), NEW q, NEW g \in Owner, NEW t \in Seq(Link),
           r.suc[g] # NONE,
           \A h \in Owner : q.suc[h] = NONE <=> r.suc[h] = NONE,
           \A h \in Owner \ {g} : \A i \in 0 .. Len(L[h]) :
              q.suc[Node(L[h], h, i)] = r.suc[Node(L[h], h, i)],
           RingOf(q, g, t),
           \A i, j \in DOMAIN t : t[i] = t[j] => i = j,
           \A h \in Owner \ {g} : \A i \in DOMAIN t : t[i] \notin ToSet(L[h]),
           \A l \in Link : q.suc[l] # NONE =>
              l \in ToSet(t) \/ \E h \in Owner \ {g} : l \in ToSet(L[h])
    PROVE  Shows(q, [L EXCEPT ![g] = t])
<1> DEFINE M == [L EXCEPT ![g] = t]
<1>1. M \in [Owner -> Seq(Link)] /\ M[g] = t /\ \A h \in Owner \ {g} : M[h] = L[h]
  BY DEF Shows
<1> HIDE DEF M
<1>2. ASSUME NEW h \in Owner
      PROVE  IF q.suc[h] = NONE THEN M[h] = << >> ELSE RingOf(q, h, M[h])
  <2>1. CASE h = g
    BY <1>1, <2>1
  <2>2. CASE h # g
    BY <1>1, <2>2 DEF Shows, RingOf
  <2> QED
    BY <2>1, <2>2
<1>3. \A l \in Link : q.suc[l] # NONE => \E h \in Owner : l \in ToSet(M[h])
  BY <1>1
<1>4. Apart(M)
  <2> SUFFICES ASSUME NEW f \in Owner, NEW h \in Owner, NEW i \in DOMAIN M[f],
                      NEW j \in DOMAIN M[h], M[f][i] = M[h][j]
               PROVE  f = h /\ i = j
    BY DEF Apart
  <2>1. CASE f = g /\ h = g
    BY <1>1, <2>1
  <2>2. CASE f # g /\ h # g
    BY <1>1, <2>2 DEF Apart, Shows
  <2>3. CASE f = g /\ h # g
    BY <1>1, <2>3 DEF ToSet
  <2>4. CASE f # g /\ h = g
    BY <1>1, <2>4 DEF ToSet
  <2> QED
    BY <2>1, <2>2, <2>3, <2>4
<1> QED
  BY <1>1, <1>2, <1>3, <1>4 DEF Shows, M

\* What OUT does to the suc_ of each node.
LEMMA RemovedSuc ==
    ASSUME NEW r, Linked(r), NEW l \in Link, r.suc[l] # NONE
    PROVE  /\ r.suc[l] \in Linkage /\ r.pred[l] \in Linkage
           /\ r.suc[r.pred[l]] = l /\ r.pred[r.suc[l]] = l
           /\ \A x \in Linkage : Removed(r, l).suc[x] =
                 IF x = l THEN NONE ELSE IF x = r.pred[l] THEN r.suc[l] ELSE r.suc[x]
<1> USE SimsetAssumption DEF Linkage, Reference, Ring
<1>1. /\ r.suc[l] \in Linkage /\ r.pred[l] \in Linkage
      /\ r.suc[r.pred[l]] = l /\ r.pred[r.suc[l]] = l
  BY DEF Linked
<1>2. [r.pred EXCEPT ![r.suc[l]] = r.pred[l]][l] = r.pred[l]
  BY <1>1 DEF Linked
<1>3. Removed(r, l).suc = [[r.suc EXCEPT ![r.pred[l]] = r.suc[l]] EXCEPT ![l] = NONE]
  BY <1>2 DEF Removed
<1> QED
  BY <1>1, <1>3 DEF Linked

\* OUT takes the link out of its list.
LEMMA RemovedShows ==
    ASSUME NEW r, Linked(r), NEW L, Shows(r, L), NEW g \in Owner, NEW k \in DOMAIN L[g]
    PROVE  /\ Shows(Removed(r, L[g][k]), [L EXCEPT ![g] = RemoveAt(L[g], k)])
           /\ SameHeads(r, Removed(r, L[g][k]))
<1> DEFINE s == L[g]
           n == Len(s)
           l == s[k]
           q == Removed(r, l)
           t == RemoveAt(s, k)
<1>1. /\ L \in [Owner -> Seq(Link)] /\ s \in Seq(Link) /\ n \in Nat /\ k \in 1 .. n
      /\ DOMAIN s = 1 .. n /\ l \in Link
      /\ \A i \in Nat : Node(s, g, i) \in Linkage
  BY ListFacts DEF Shows
<1>2. r.suc[g] # NONE /\ RingOf(r, g, s)
  BY <1>1 DEF Shows
<1>3. r.suc[Node(s, g, k - 1)] = l /\ r.suc[l] = Node(s, g, k + 1)
  <2>1. k - 1 \in 0 .. n /\ k \in 0 .. n /\ k - 1 + 1 = k /\ Node(s, g, k) = l
    BY <1>1 DEF Node
  <2> QED
    BY <1>2, <2>1 DEF RingOf
<1>4. r.suc[l] # NONE
  BY <1>1, <1>3, SimsetAssumption DEF Linkage
<1>5. r.pred[l] = Node(s, g, k - 1)
  BY <1>1, <1>3, SimsetAssumption DEF Linked, Linkage
<1>6. \A x \in Linkage : q.suc[x] =
         IF x = l THEN NONE
         ELSE IF x = Node(s, g, k - 1) THEN Node(s, g, k + 1) ELSE r.suc[x]
  BY <1>1, <1>3, <1>4, <1>5, RemovedSuc
<1>7. /\ t \in Seq(Link) /\ Len(t) = n - 1 /\ DOMAIN t = 1 .. n - 1
      /\ \A j \in 1 .. n - 1 : t[j] = IF j < k THEN s[j] ELSE s[j + 1]
  <2>1. /\ t \in Seq(Link) /\ Len(t) = n - 1
        /\ \A j \in 1 .. n - 1 : t[j] = IF j < k THEN s[j] ELSE s[j + 1]
    BY <1>1, RemoveAtProperties, Zenon
  <2> HIDE DEF t
  <2> QED
    BY <2>1
<1> HIDE DEF q, t
<1>8. \A i \in 0 .. n : Node(t, g, i) = IF i < k THEN Node(s, g, i) ELSE Node(s, g, i + 1)
  BY <1>1, <1>7 DEF Node
<1>9. RingOf(q, g, t)
  <2> SUFFICES ASSUME NEW i \in 0 .. n - 1
               PROVE  q.suc[Node(t, g, i)] = Node(t, g, i + 1)
    BY <1>7 DEF RingOf
  <2> DEFINE j == IF i < k THEN i ELSE i + 1
  <2>1. j \in 0 .. n /\ j # k /\ k \in 0 .. n /\ k - 1 \in 0 .. n /\ i \in 0 .. n
    BY <1>1
  <2>2. Node(t, g, i) = Node(s, g, j) /\ Node(s, g, j) \in Linkage
    BY <1>1, <1>8, <2>1
  <2>3. Node(s, g, k) = l
    BY <1>1 DEF Node
  <2>4. Node(s, g, j) # l
    BY <1>1, <2>1, <2>3, NodesDiffer DEF Shows
  <2>5. CASE j = k - 1
    <3>1. i + 1 = k /\ i + 1 \in 0 .. n
      BY <1>1, <2>5
    <3>2. Node(t, g, i + 1) = Node(s, g, k + 1)
      BY <1>8, <3>1
    <3> QED
      BY <1>6, <2>2, <2>4, <2>5, <3>2
  <2>6. CASE j # k - 1
    <3>1. Node(s, g, j) # Node(s, g, k - 1)
      BY <1>1, <2>1, <2>6, NodesDiffer DEF Shows
    <3>2. q.suc[Node(t, g, i)] = Node(s, g, j + 1)
      BY <1>2, <1>6, <2>1, <2>2, <2>4, <3>1 DEF RingOf
    <3>3. Node(t, g, i + 1) = Node(s, g, j + 1)
      BY <1>1, <1>8, <2>6
    <3> QED
      BY <3>2, <3>3
  <2> QED
    BY <2>5, <2>6
<1>10. ASSUME NEW h \in Owner \ {g}, NEW i \in 0 .. Len(L[h])
       PROVE  q.suc[Node(L[h], h, i)] = r.suc[Node(L[h], h, i)]
  <2>1. Node(L[h], h, i) # Node(s, g, k) /\ Node(L[h], h, i) # Node(s, g, k - 1)
    <3>1. k \in 0 .. n /\ k - 1 \in 0 .. n
      BY <1>1
    <3> QED
      BY <1>1, <3>1, NodesDiffer DEF Shows
  <2>2. Node(s, g, k) = l /\ Node(L[h], h, i) \in Linkage
    BY <1>1, ListFacts, SMTT(30) DEF Node
  <2> QED
    BY <1>6, <2>1, <2>2
<1>11. \A h \in Owner : q.suc[h] = NONE <=> r.suc[h] = NONE
  BY <1>1, <1>3, <1>6, SimsetAssumption DEF Linkage
<1>12. \A i, j \in DOMAIN t : t[i] = t[j] => i = j
  <2> DEFINE from(j) == IF j < k THEN j ELSE j + 1
  <2>1. \A j \in DOMAIN t : from(j) \in DOMAIN s /\ t[j] = s[from(j)]
    BY <1>1, <1>7
  <2>2. \A i, j \in DOMAIN t : from(i) = from(j) => i = j
    BY <1>1, <1>7
  <2> HIDE DEF from
  <2> QED
    BY <2>1, <2>2 DEF Shows, Apart
<1>13. ASSUME NEW h \in Owner \ {g}, NEW i \in DOMAIN t
       PROVE  t[i] \notin ToSet(L[h])
  BY <1>1, <1>7, SMTT(30) DEF Shows, Apart, ToSet
<1>14. ASSUME NEW m \in Link, q.suc[m] # NONE
       PROVE  m \in ToSet(t) \/ \E h \in Owner \ {g} : m \in ToSet(L[h])
  <2>1. m # l /\ r.suc[m] # NONE
    BY <1>1, <1>3, <1>6, <1>14, SimsetAssumption DEF Linkage
  <2>2. PICK h \in Owner : m \in ToSet(L[h])
    BY <2>1 DEF Shows
  <2>3. CASE h = g
    <3>1. PICK i \in 1 .. n : m = s[i]
      BY <1>1, <2>2, <2>3 DEF ToSet
    <3>2. CASE i < k
      BY <1>1, <1>7, <3>1, <3>2 DEF ToSet
    <3>3. CASE i > k
      <4>1. i - 1 \in DOMAIN t /\ t[i - 1] = m
        BY <1>1, <1>7, <3>1, <3>3
      <4> QED
        BY <4>1 DEF ToSet
    <3> QED
      BY <1>1, <2>1, <3>1, <3>2, <3>3
  <2> QED
    BY <2>2, <2>3
<1> QED
  BY <1>2, <1>7, <1>9, <1>10, <1>11, <1>12, <1>13, <1>14, ChangeShows DEF q, t, SameHeads

\* FOLLOW and PRECEDE, after their OUT, put the link into the list.
LEMMA BetweenShows ==
    ASSUME NEW r, Linked(r), NEW L, Shows(r, L), NEW g \in Owner, r.suc[g] # NONE,
           NEW k \in 1 .. Len(L[g]) + 1, NEW l \in Link, r.suc[l] = NONE
    PROVE  /\ Shows(Between(r, l, Node(L[g], g, k - 1), Node(L[g], g, k)),
                    [L EXCEPT ![g] = InsertAt(L[g], k, l)])
           /\ SameHeads(r, Between(r, l, Node(L[g], g, k - 1), Node(L[g], g, k)))
<1> DEFINE s == L[g]
           n == Len(s)
           x == Node(s, g, k - 1)
           y == Node(s, g, k)
           q == Between(r, l, x, y)
           t == InsertAt(s, k, l)
<1>1. /\ L \in [Owner -> Seq(Link)] /\ s \in Seq(Link) /\ n \in Nat
      /\ DOMAIN s = 1 .. n /\ k \in 1 .. n + 1
      /\ \A i \in Nat : Node(s, g, i) \in Linkage
  BY ListFacts DEF Shows
<1>2. RingOf(r, g, s)
  BY DEF Shows
<1>3. r.suc[x] = y /\ x \in Linkage /\ y \in Linkage
  <2>1. k - 1 \in 0 .. n /\ k - 1 + 1 = k /\ k \in Nat /\ k - 1 \in Nat
    BY <1>1
  <2> QED
    BY <1>1, <1>2, <2>1 DEF RingOf
<1>4. x # l
  BY <1>3, SimsetAssumption DEF Linkage
<1>5. \A z \in Linkage : q.suc[z] = IF z = x THEN l ELSE IF z = l THEN y ELSE r.suc[z]
  BY <1>3, <1>4 DEF Between, Linked, Ring
<1>6. /\ t \in Seq(Link) /\ Len(t) = n + 1 /\ DOMAIN t = 1 .. n + 1
      /\ \A j \in 1 .. n + 1 : t[j] = IF j < k THEN s[j] ELSE IF j = k THEN l ELSE s[j - 1]
  <2>1. Seated(s, k, l, Link)
    BY <1>1, InsertAtProperties, Zenon
  <2>2. /\ t \in Seq(Link) /\ Len(t) = n + 1
        /\ \A j \in 1 .. n + 1 : t[j] = IF j < k THEN s[j] ELSE IF j = k THEN l ELSE s[j - 1]
    BY <2>1, Zenon DEF Seated
  <2> HIDE DEF t
  <2> QED
    BY <2>2
<1> HIDE DEF q, t
<1>7. \A i \in 0 .. n + 2 : Node(t, g, i) =
         IF i < k THEN Node(s, g, i) ELSE IF i = k THEN l ELSE Node(s, g, i - 1)
  BY <1>1, <1>6 DEF Node
<1>8. ASSUME NEW h \in Owner, r.suc[h] # NONE, NEW i \in 0 .. Len(L[h])
      PROVE  Node(L[h], h, i) \in Linkage /\ Node(L[h], h, i) # l
  <2>1. RingOf(r, h, L[h]) /\ Len(L[h]) \in Nat /\ Node(L[h], h, i) \in Linkage
    BY <1>1, <1>8, ListFacts DEF Shows
  <2>2. r.suc[Node(L[h], h, i)] \in Linkage
    BY <1>1, <2>1, ListFacts DEF RingOf
  <2> QED
    BY <2>1, <2>2, SimsetAssumption DEF Linkage
<1>9. RingOf(q, g, t)
  <2> SUFFICES ASSUME NEW i \in 0 .. n + 1
               PROVE  q.suc[Node(t, g, i)] = Node(t, g, i + 1)
    BY <1>6 DEF RingOf
  <2>1. CASE i = k
    <3>1. Node(t, g, i) = l /\ Node(t, g, i + 1) = y
      BY <1>1, <1>7, <2>1
    <3> QED
      BY <1>4, <1>5, <3>1 DEF Linkage
  <2>2. CASE i = k - 1
    <3>1. Node(t, g, i) = x /\ Node(t, g, i + 1) = l
      BY <1>1, <1>7, <2>2
    <3> QED
      BY <1>3, <1>5, <3>1
  <2>3. CASE i # k /\ i # k - 1
    <3> DEFINE j == IF i < k THEN i ELSE i - 1
    <3>1. j \in 0 .. n /\ k - 1 \in 0 .. n /\ j # k - 1
      BY <1>1, <2>3
    <3>2. Node(t, g, i) = Node(s, g, j) /\ Node(t, g, i + 1) = Node(s, g, j + 1)
      BY <1>1, <1>7, <2>3
    <3> HIDE DEF j
    <3>3. Node(s, g, j) # x
      BY <1>1, <3>1, NodesDiffer DEF Shows
    <3>4. r.suc[Node(s, g, j)] = Node(s, g, j + 1)
      BY <1>2, <3>1 DEF RingOf
    <3> QED
      BY <1>5, <1>8, <3>1, <3>2, <3>3, <3>4
  <2> QED
    BY <2>1, <2>2, <2>3
<1>10. ASSUME NEW h \in Owner \ {g}, NEW i \in 0 .. Len(L[h])
       PROVE  q.suc[Node(L[h], h, i)] = r.suc[Node(L[h], h, i)]
  <2>1. Node(L[h], h, i) # x
    <3>1. k - 1 \in 0 .. n
      BY <1>1
    <3> QED
      BY <1>1, <3>1, NodesDiffer DEF Shows
  <2>2. Node(L[h], h, i) \in Linkage /\ Node(L[h], h, i) # l
    <3>1. CASE r.suc[h] = NONE
      <4>1. L[h] = << >>
        BY <3>1 DEF Shows
      <4> QED
        BY <4>1, SimsetAssumption DEF Node, Linkage
    <3> QED
      BY <1>8, <3>1
  <2> QED
    BY <1>5, <2>1, <2>2
<1>11. \A h \in Owner : q.suc[h] = NONE <=> r.suc[h] = NONE
  BY <1>3, <1>5, SimsetAssumption DEF Linkage
<1>12. \A i \in DOMAIN t : i # k =>
          \E j \in DOMAIN s : t[i] = s[j] /\ j = IF i < k THEN i ELSE i - 1
  BY <1>1, <1>6
<1>13. \A h \in Owner : l \notin ToSet(L[h])
  <2> SUFFICES ASSUME NEW h \in Owner, NEW i \in DOMAIN L[h], L[h][i] = l
               PROVE  FALSE
    BY DEF ToSet
  <2>1. r.suc[h] # NONE
    BY DEF Shows
  <2>2. i \in 0 .. Len(L[h]) /\ Node(L[h], h, i) = l
    BY <1>1, ListFacts DEF Node
  <2> QED
    BY <1>8, <2>1, <2>2
<1>14. t[k] = l /\ k \in DOMAIN t
  BY <1>1, <1>6
<1>15. \A i, j \in DOMAIN t : t[i] = t[j] => i = j
  <2> SUFFICES ASSUME NEW i \in DOMAIN t, NEW j \in DOMAIN t, t[i] = t[j]
               PROVE  i = j
    OBVIOUS
  <2>1. CASE i = k \/ j = k
    BY <1>12, <1>13, <1>14, <2>1 DEF ToSet
  <2>2. CASE i # k /\ j # k
    <3>1. PICK i0 \in DOMAIN s : t[i] = s[i0] /\ i0 = IF i < k THEN i ELSE i - 1
      BY <1>12, <2>2
    <3>2. PICK j0 \in DOMAIN s : t[j] = s[j0] /\ j0 = IF j < k THEN j ELSE j - 1
      BY <1>12, <2>2
    <3>3. \A a, b \in DOMAIN s : s[a] = s[b] => a = b
      BY DEF Shows, Apart
    <3>4. i0 = j0
      BY <3>1, <3>2, <3>3, Zenon
    <3> QED
      BY <1>1, <1>6, <2>2, <3>1, <3>2, <3>4
  <2> QED
    BY <2>1, <2>2
<1>16. ASSUME NEW h \in Owner \ {g}, NEW i \in DOMAIN t
       PROVE  t[i] \notin ToSet(L[h])
  BY <1>12, <1>13, <1>14 DEF Shows, Apart, ToSet
<1>17. ASSUME NEW m \in Link, q.suc[m] # NONE
       PROVE  m \in ToSet(t) \/ \E h \in Owner \ {g} : m \in ToSet(L[h])
  <2>1. CASE m = l
    BY <1>14, <2>1 DEF ToSet
  <2>2. CASE m # l
    <3>1. r.suc[m] # NONE
      BY <1>3, <1>5, <1>17, <2>2, SimsetAssumption DEF Linkage
    <3>2. PICK h \in Owner : m \in ToSet(L[h])
      BY <3>1 DEF Shows
    <3>3. CASE h = g
      <4>1. PICK i \in 1 .. n : m = s[i]
        BY <1>1, <3>2, <3>3 DEF ToSet
      <4> DEFINE j == IF i < k THEN i ELSE i + 1
      <4>2. j \in DOMAIN t /\ t[j] = m
        BY <1>1, <1>6, <4>1
      <4> QED
        BY <4>2 DEF ToSet
    <3> QED
      BY <3>2, <3>3
  <2> QED
    BY <2>1, <2>2
<1> QED
  BY <1>6, <1>9, <1>10, <1>11, <1>15, <1>16, <1>17, ChangeShows, ZenonT(30) DEF q, t, SameHeads

-----------------------------------------------------------------------------
(* The walk of CARDINAL, and what the functions of HEAD return.            *)

\* After n turns the walk is at the list's link n + 1, and at the end at h.
LEMMA CursorIs ==
    ASSUME NEW r, NEW L, Shows(r, L), NEW h \in Owner, r.suc[h] # NONE, NEW n \in Nat
    PROVE  CursorAfter(r, h, n) = Node(L[h], h, n + 1)
<1> DEFINE s == L[h]
           Walk(p) == [i \in 0 .. n |->
                         IF i = 0 THEN r.suc[h]
                         ELSE IF p[i - 1] \in {h, NONE} THEN p[i - 1] ELSE r.suc[p[i - 1]]]
           w == [i \in 0 .. n |-> Node(s, h, i + 1)]
           p == CHOOSE c : c = Walk(c)
<1>1. /\ Len(s) \in Nat /\ DOMAIN s = 1 .. Len(s) /\ RingOf(r, h, s)
      /\ \A i \in 1 .. Len(s) : s[i] \in Link
  BY ListFacts DEF Shows
<1>2. w = Walk(w)
  <2> SUFFICES ASSUME NEW i \in 0 .. n
               PROVE  w[i] = Walk(w)[i]
    BY Zenon
  <2>1. CASE i = 0
    <3>1. r.suc[Node(s, h, 0)] = Node(s, h, 0 + 1) /\ Node(s, h, 0) = h
      BY <1>1 DEF RingOf, Node
    <3> QED
      BY <2>1, <3>1
  <2>2. CASE i # 0
    <3>1. i - 1 \in 0 .. n /\ w[i - 1] = Node(s, h, i) /\ i - 1 + 1 = i
      BY <2>2
    <3>2. CASE i \in 1 .. Len(s)
      <4>1. Node(s, h, i) = s[i] /\ s[i] \notin {h, NONE}
        BY <1>1, <3>2, SimsetAssumption DEF Node
      <4>2. r.suc[Node(s, h, i)] = Node(s, h, i + 1)
        BY <1>1, <3>2 DEF RingOf
      <4> QED
        BY <2>2, <3>1, <4>1, <4>2
    <3>3. CASE i \notin 1 .. Len(s)
      <4>1. Node(s, h, i) = h /\ Node(s, h, i + 1) = h
        BY <1>1, <2>2, <3>3 DEF Node
      <4> QED
        BY <2>2, <3>1, <4>1
    <3> QED
      BY <3>2, <3>3
  <2> QED
    BY <2>1, <2>2
<1>3. p = Walk(p)
  <2> HIDE DEF Walk, w
  <2> QED
    BY <1>2, Zenon
<1>4. CursorAfter(r, h, n) = p[n]
  BY Zenon DEF CursorAfter
<1> HIDE DEF p
<1>5. ASSUME NEW i \in 0 .. n
      PROVE  p[i] = w[i]
  <2> DEFINE T == {j \in 0 .. n : p[j] # w[j]}
  <2> SUFFICES ASSUME T # {}
               PROVE  FALSE
    OBVIOUS
  <2>1. T \in SUBSET Nat
    OBVIOUS
  <2>2. PICK j \in T : \A m \in T : j <= m
    BY <2>1, MinNat
  <2>3. CASE j = 0
    <3>1. p[0] = Walk(p)[0] /\ w[0] = Walk(w)[0]
      BY <1>2, <1>3, Zenon
    <3>2. \A c : Walk(c)[0] = r.suc[h]
      OBVIOUS
    <3> HIDE DEF w, Walk
    <3> QED
      BY <2>2, <2>3, <3>1, <3>2
  <2>4. CASE j # 0
    <3>1. j - 1 \in 0 .. n /\ j - 1 \notin T
      BY <2>2, <2>4
    <3>2. p[j - 1] = w[j - 1]
      BY <3>1
    <3>3. p[j] = Walk(p)[j] /\ w[j] = Walk(w)[j] /\ j \in 0 .. n
      BY <1>2, <1>3, <2>2, Zenon
    <3>4. Walk(p)[j] = Walk(w)[j]
      <4> HIDE DEF w
      <4> QED
        BY <2>4, <3>2, <3>3
    <3> QED
      BY <2>2, <3>3, <3>4
  <2> QED
    BY <2>3, <2>4
<1> QED
  BY <1>4, <1>5

\* No list is longer than there are links.
LEMMA ListFits ==
    ASSUME NEW r, NEW L, Shows(r, L), NEW h \in Owner
    PROVE  Len(L[h]) <= Cardinality(Link) /\ Cardinality(Link) \in Nat
<1>1. L[h] \in Seq(Link) /\ Len(L[h]) \in Nat /\ DOMAIN L[h] = 1 .. Len(L[h])
  BY ListFacts DEF Shows
<1>2. L[h] \in Injection(1 .. Len(L[h]), Link)
  BY <1>1 DEF Shows, Apart, Injection, IsInjective
<1>3. Cardinality(1 .. Len(L[h])) = Len(L[h])
  <2>1. PICK n \in Nat : n = Len(L[h])
    BY <1>1
  <2>2. Cardinality(1 .. n) = IF 1 > n THEN 0 ELSE n - 1 + 1
    BY FS_Interval
  <2> QED
    BY <2>1, <2>2
<1>4. Cardinality(1 .. Len(L[h])) <= Cardinality(Link)
  BY <1>2, SimsetAssumption, FS_Injection
<1> QED
  BY <1>3, <1>4, SimsetAssumption, FS_CardinalityType

\* CARDINAL stops, and the walk is the list.
LEMMA WalkIs ==
    ASSUME NEW r, NEW L, Shows(r, L), NEW h \in Owner, r.suc[h] # NONE
    PROVE  /\ Turns(r, h) # {} /\ CARDINAL(r, h) = Len(L[h])
           /\ ListOf(r, h) = L[h]
<1>1. /\ L[h] \in Seq(Link) /\ Len(L[h]) \in Nat /\ DOMAIN L[h] = 1 .. Len(L[h])
      /\ \A i \in 1 .. Len(L[h]) : L[h][i] \in Link
  BY ListFacts DEF Shows
<1>2. \A n \in 0 .. Cardinality(Link) : CursorAfter(r, h, n) = h <=> n >= Len(L[h])
  <2> SUFFICES ASSUME NEW n \in 0 .. Cardinality(Link)
               PROVE  CursorAfter(r, h, n) = h <=> n >= Len(L[h])
    OBVIOUS
  <2>1. CursorAfter(r, h, n) = Node(L[h], h, n + 1) /\ n \in Nat
    BY CursorIs
  <2> QED
    BY <1>1, <2>1, SimsetAssumption DEF Node
<1>3. Turns(r, h) = {n \in 0 .. Cardinality(Link) : n >= Len(L[h])}
  BY <1>2 DEF Turns
<1>4. Len(L[h]) \in Turns(r, h) /\ Turns(r, h) \in SUBSET Nat
  BY <1>1, <1>3, ListFits
<1>5. CARDINAL(r, h) = Len(L[h])
  <2>1. CARDINAL(r, h) \in Turns(r, h) /\ \A n \in Turns(r, h) : CARDINAL(r, h) <= n
    BY <1>4, MinNat DEF CARDINAL
  <2> QED
    BY <1>1, <1>3, <1>4, <2>1
<1>6. ListOf(r, h) = [n \in 1 .. Len(L[h]) |-> CursorAfter(r, h, n - 1)]
  BY <1>4, <1>5 DEF ListOf
<1>7. \A n \in 1 .. Len(L[h]) : CursorAfter(r, h, n - 1) = L[h][n]
  <2> SUFFICES ASSUME NEW n \in 1 .. Len(L[h])
               PROVE  CursorAfter(r, h, n - 1) = L[h][n]
    OBVIOUS
  <2>1. PICK m \in Nat : m = n - 1 /\ m + 1 = n
    OBVIOUS
  <2>2. CursorAfter(r, h, m) = Node(L[h], h, m + 1)
    BY CursorIs
  <2> QED
    BY <1>1, <2>1, <2>2 DEF Node
<1>8. L[h] = [n \in 1 .. Len(L[h]) |-> L[h][n]]
  BY <1>1
<1>9. ListOf(r, h) = L[h]
  BY <1>6, <1>7, <1>8
<1> QED
  BY <1>4, <1>5, <1>9

\* So the lists can be read off the rings.
LEMMA ListsAre ==
    ASSUME NEW r, NEW L, Shows(r, L)
    PROVE  [h \in Owner |-> ListOf(r, h)] = L
<1>1. ASSUME NEW h \in Owner
      PROVE  ListOf(r, h) = L[h]
  <2>1. CASE r.suc[h] = NONE
    BY <2>1 DEF Shows, ListOf
  <2>2. CASE r.suc[h] # NONE
    BY <2>2, WalkIs
  <2> QED
    BY <2>1, <2>2
<1> QED
  BY <1>1 DEF Shows

-----------------------------------------------------------------------------
(* The procedures as operations on lists.                                  *)

Dropped(L, l) == [h \in Owner |-> RemoveFirst(L[h], l)]

LEMMA OutShows ==
    ASSUME NEW r, Linked(r), NEW L, Shows(r, L), NEW l \in Link
    PROVE  Shows(Removed(r, l), Dropped(L, l)) /\ SameHeads(r, Removed(r, l))
<1>1. \A h \in Owner : L[h] \in Seq(Link) /\ DOMAIN L[h] = 1 .. Len(L[h])
  BY ListFacts DEF Shows
<1>2. ASSUME NEW h \in Owner, \A i \in DOMAIN L[h] : L[h][i] # l
      PROVE  RemoveFirst(L[h], l) = L[h]
  BY <1>1, <1>2, RemoveFirstProperties
<1>3. CASE \E g \in Owner : l \in ToSet(L[g])
  <2>0. PICK g \in Owner : l \in ToSet(L[g])
    BY <1>3
  <2>1. PICK k \in DOMAIN L[g] : L[g][k] = l
    BY <2>0 DEF ToSet
  <2>2. \A h \in Owner : \A i \in DOMAIN L[h] : L[h][i] = l => h = g /\ i = k
    BY <2>1 DEF Shows, Apart
  <2>3. RemoveFirst(L[g], l) = RemoveAt(L[g], k)
    BY <1>1, <2>1, <2>2, RemoveFirstProperties
  <2>4. \A h \in Owner \ {g} : RemoveFirst(L[h], l) = L[h]
    BY <1>2, <2>2
  <2>5. Dropped(L, l) = [L EXCEPT ![g] = RemoveAt(L[g], k)]
    BY <2>3, <2>4 DEF Dropped, Shows
  <2>6. /\ Shows(Removed(r, L[g][k]), [L EXCEPT ![g] = RemoveAt(L[g], k)])
        /\ SameHeads(r, Removed(r, L[g][k]))
    BY RemovedShows
  <2> QED
    BY <2>1, <2>5, <2>6
<1>4. CASE ~ \E g \in Owner : l \in ToSet(L[g])
  <2>1. r.suc[l] = NONE
    BY <1>4 DEF Shows
  <2>2. \A h \in Owner : RemoveFirst(L[h], l) = L[h]
    BY <1>2, <1>4 DEF ToSet
  <2>3. Dropped(L, l) = L
    BY <2>2 DEF Dropped, Shows
  <2> QED
    BY <2>1, <2>3 DEF Removed, SameHeads
<1> QED
  BY <1>3, <1>4

\* A node of a ring is a head, or a link in the list of one.
LEMMA NodeOf ==
    ASSUME NEW r, NEW L, Shows(r, L), NEW x \in Linkage, r.suc[x] # NONE
    PROVE  \E h \in Owner : \E j \in 0 .. Len(L[h]) :
              /\ r.suc[h] # NONE /\ x = Node(L[h], h, j)
              /\ IF x \in Owner THEN h = x /\ j = 0 ELSE j \in DOMAIN L[h] /\ L[h][j] = x
<1>1. CASE x \in Owner
  <2>1. Len(L[x]) \in Nat /\ DOMAIN L[x] = 1 .. Len(L[x])
    BY <1>1, ListFacts DEF Shows
  <2>2. 0 \in 0 .. Len(L[x]) /\ x = Node(L[x], x, 0)
    BY <2>1 DEF Node
  <2> QED
    BY <1>1, <2>2
<1>2. CASE x \notin Owner
  <2>1. PICK h \in Owner : x \in ToSet(L[h])
    BY <1>2 DEF Linkage, Shows
  <2>2. PICK j \in DOMAIN L[h] : x = L[h][j]
    BY <2>1 DEF ToSet
  <2>3. r.suc[h] # NONE
    BY <2>2, Listed
  <2>4. j \in 0 .. Len(L[h]) /\ x = Node(L[h], h, j)
    BY <2>2, ListFacts DEF Node, Shows
  <2> QED
    BY <1>2, <2>2, <2>3, <2>4
<1> QED
  BY <1>1, <1>2

\* FOLLOW puts the link behind node j, PRECEDE before it.  Before a head is at
\* the end of its list.
LEMMA PutShows ==
    ASSUME NEW r, Linked(r), NEW L, Shows(r, L), NEW l \in Link, r.suc[l] = NONE,
           NEW h \in Owner, r.suc[h] # NONE, NEW j \in 0 .. Len(L[h]), NEW x,
           x = Node(L[h], h, j)
    PROVE  LET k == IF j = 0 THEN Len(L[h]) + 1 ELSE j
           IN  /\ Shows(PutBehind(r, l, x), [L EXCEPT ![h] = InsertAt(L[h], j + 1, l)])
               /\ SameHeads(r, PutBehind(r, l, x))
               /\ Shows(PutBefore(r, l, x), [L EXCEPT ![h] = InsertAt(L[h], k, l)])
               /\ SameHeads(r, PutBefore(r, l, x))
<1> DEFINE k == IF j = 0 THEN Len(L[h]) + 1 ELSE j
<1>1. /\ L \in [Owner -> Seq(Link)] /\ Len(L[h]) \in Nat /\ DOMAIN L[h] = 1 .. Len(L[h])
      /\ \A i \in Nat : Node(L[h], h, i) \in Linkage
  BY ListFacts DEF Shows
<1>2. RingOf(r, h, L[h])
  BY DEF Shows
<1>3. r.suc[x] = Node(L[h], h, j + 1) /\ x \in Linkage
  BY <1>1, <1>2 DEF RingOf
<1>4. InRing(r, x) /\ x \in Reference
  BY <1>1, <1>3, SimsetAssumption DEF InRing, Linkage, Reference
<1>5. k \in 1 .. Len(L[h]) + 1 /\ x = Node(L[h], h, k) /\ k - 1 \in 0 .. Len(L[h]) /\ k - 1 + 1 = k
  BY <1>1 DEF Node
<1> HIDE DEF k
<1>6. r.suc[Node(L[h], h, k - 1)] = x
  BY <1>2, <1>5 DEF RingOf
<1>7. r.pred[x] = Node(L[h], h, k - 1)
  BY <1>1, <1>3, <1>5, <1>6, SimsetAssumption DEF Linked, Linkage
<1>8. /\ PutBehind(r, l, x) = Between(r, l, x, r.suc[x])
      /\ PutBefore(r, l, x) = Between(r, l, r.pred[x], x)
  BY <1>4, PutIsBetween
<1>9. PICK m \in 1 .. Len(L[h]) + 1 : m = j + 1 /\ m - 1 = j
  BY <1>1
<1>10. /\ Shows(PutBehind(r, l, x), [L EXCEPT ![h] = InsertAt(L[h], j + 1, l)])
       /\ SameHeads(r, PutBehind(r, l, x))
  <2>1. PutBehind(r, l, x) = Between(r, l, Node(L[h], h, m - 1), Node(L[h], h, m))
    BY <1>3, <1>8, <1>9
  <2> QED
    BY <1>9, <2>1, BetweenShows
<1>11. /\ Shows(PutBefore(r, l, x), [L EXCEPT ![h] = InsertAt(L[h], k, l)])
       /\ SameHeads(r, PutBefore(r, l, x))
  <2>1. PutBefore(r, l, x) = Between(r, l, Node(L[h], h, k - 1), Node(L[h], h, k))
    BY <1>5, <1>7, <1>8
  <2> QED
    BY <1>5, <2>1, BetweenShows
<1> QED
  BY <1>10, <1>11 DEF k

-----------------------------------------------------------------------------
(* Every step is a step of Lists.                                          *)

\* Module Lists has the same library operators under other names.
LEMMA SameOperators ==
    /\ \A s, e : List!RemoveFirst(s, e) = RemoveFirst(s, e)
    /\ \A s, k, e : List!InsertAt(s, k, e) = InsertAt(s, k, e)
    /\ \A s : List!ToSet(s) = ToSet(s)
  BY DEF List!RemoveFirst, RemoveFirst, List!InsertAt, InsertAt, List!ToSet, ToSet,
         List!RemoveAt, RemoveAt, List!SelectInSeq, SelectInSeq, List!Min, Min

LEMMA SetRing ==
    ASSUME NEW q, Linked(q), Set(q)
    PROVE  ring' = q
  BY DEF Linked, Ring, Set, ring

\* The lists before and after a step, as module Lists sees them.
LEMMA Views ==
    ASSUME NEW L, Shows(ring, L), NEW q, NEW M, Shows(q, M), ring' = q
    PROVE  /\ [h \in Owner |-> ListOf(ring, h)] = L
           /\ [h \in Owner |-> ListOf(ring, h)]' = M
<1>1. PICK r : r = ring
  OBVIOUS
<1>2. [h \in Owner |-> ListOf(ring, h)] = L
  BY <1>1, ListsAre
<1>3. [h \in Owner |-> ListOf(q, h)] = M
  BY ListsAre
<1> QED
  BY <1>2, <1>3

LEMMA SameMade ==
    ASSUME NEW q, SameHeads(ring, q), Set(q)
    PROVE  {h \in Owner : suc_[h] # NONE}' = {h \in Owner : suc_[h] # NONE}
  BY DEF SameHeads, ring, Set

LEMMA QuitStep ==
    ASSUME IInv, NEW L, Shows(ring, L), NEW l \in Link, Set(Removed(ring, l))
    PROVE  Shows(ring', Dropped(L, l)) /\ List!Quit(l)
<1> DEFINE q == Removed(ring, l)
<1>1. Linked(ring)
  BY LinkedRing
<1>2. Linked(q) /\ Shows(q, Dropped(L, l)) /\ SameHeads(ring, q)
  <2>1. PICK r : r = ring
    OBVIOUS
  <2>2. /\ Linked(Removed(r, l)) /\ Shows(Removed(r, l), Dropped(L, l))
        /\ SameHeads(r, Removed(r, l))
    BY <1>1, <2>1, RemovedLinked, OutShows
  <2> QED
    BY <2>1, <2>2
<1> HIDE DEF q
<1>3. ring' = q /\ Set(q)
  BY <1>2, SetRing DEF q
<1>4. /\ [h \in Owner |-> ListOf(ring, h)] = L
      /\ [h \in Owner |-> ListOf(ring, h)]' = Dropped(L, l)
  BY <1>2, <1>3, Views
<1>5. {h \in Owner : suc_[h] # NONE}' = {h \in Owner : suc_[h] # NONE}
  BY <1>2, <1>3, SameMade
<1> QED
  BY <1>2, <1>3, <1>4, <1>5, SameOperators DEF List!Quit, List!Leaving, Dropped

\* l left the list it was in and has place k in h's.
Joined(L, l, h, k) ==
    [Dropped(L, l) EXCEPT ![h] = InsertAt(Dropped(L, l)[h], k, l)]

LEMMA PutAtStep ==
    ASSUME IInv, NEW L, Shows(ring, L), NEW l \in Link, NEW h \in Owner, NEW k,
           NEW q, Linked(q), SameHeads(ring, q), Shows(q, Joined(L, l, h, k)), Set(q)
    PROVE  (\E M : Shows(ring', M)) /\ List!PutAt(l, h, k)
<1>1. ring' = q
  BY SetRing
<1>2. /\ [g \in Owner |-> ListOf(ring, g)] = L
      /\ [g \in Owner |-> ListOf(ring, g)]' = Joined(L, l, h, k)
  BY <1>1, Views
<1>3. {g \in Owner : suc_[g] # NONE}' = {g \in Owner : suc_[g] # NONE}
  BY SameMade
<1>4. List!Leaving(l) = Dropped(L, l)
  BY <1>2, SameOperators DEF List!Leaving, Dropped
<1>5. List!PutAt(l, h, k)
  BY <1>2, <1>3, <1>4, SameOperators DEF List!PutAt, Joined
<1> QED
  BY <1>1, <1>5

\* Where OUT has left x, and what FOLLOW and PRECEDE of x then make of the
\* rings: l is at the next place of the same list, or at the place of x, which
\* for a head is the one behind the last.
LEMMA JoinShows ==
    ASSUME IInv, NEW L, Shows(ring, L), NEW l \in Link, NEW x \in Reference,
           InRing(Removed(ring, l), x)
    PROVE  \E h \in Owner : \E i \in 0 .. Len(Dropped(L, l)[h]) :
              LET s == Dropped(L, l)[h]
              IN  /\ suc_[h] # NONE
                  /\ IF x \in Owner THEN h = x /\ i = 0 ELSE i # 0 /\ i \in DOMAIN s /\ s[i] = x
                  /\ LET q == PutBehind(Removed(ring, l), l, x)
                     IN  /\ Linked(q) /\ SameHeads(ring, q)
                         /\ Shows(q, Joined(L, l, h, i + 1))
                  /\ LET q == PutBefore(Removed(ring, l), l, x)
                     IN  /\ Linked(q) /\ SameHeads(ring, q)
                         /\ Shows(q, Joined(L, l, h, IF i = 0 THEN Len(s) + 1 ELSE i))
<1> DEFINE D == Dropped(L, l)
<1>1. PICK r : r = Removed(ring, l)
  OBVIOUS
<1>2. Linked(r) /\ r.suc[l] = NONE /\ Shows(r, D) /\ SameHeads(ring, r)
  <2>1. PICK r0 : r0 = ring
    OBVIOUS
  <2>2. /\ Linked(Removed(r0, l)) /\ Shows(Removed(r0, l), Dropped(L, l))
        /\ SameHeads(r0, Removed(r0, l)) /\ Removed(r0, l).suc[l] = NONE
    BY <2>1, LinkedRing, RemovedLinked, OutShows
  <2> QED
    BY <1>1, <2>1, <2>2
<1> HIDE DEF D
<1>3. InRing(r, x)
  BY <1>1
<1>4. x \in Linkage /\ x # l /\ r.suc[x] # NONE
  BY <1>2, <1>3, SimsetAssumption DEF InRing, Reference
<1>5. PICK h \in Owner : \E i \in 0 .. Len(D[h]) :
         /\ r.suc[h] # NONE /\ x = Node(D[h], h, i)
         /\ IF x \in Owner THEN h = x /\ i = 0 ELSE i \in DOMAIN D[h] /\ D[h][i] = x
  BY <1>2, <1>4, NodeOf
<1>6. PICK i \in 0 .. Len(D[h]) :
         /\ r.suc[h] # NONE /\ x = Node(D[h], h, i)
         /\ IF x \in Owner THEN h = x /\ i = 0 ELSE i \in DOMAIN D[h] /\ D[h][i] = x
  BY <1>5
<1>7. /\ Shows(PutBehind(r, l, x), [D EXCEPT ![h] = InsertAt(D[h], i + 1, l)])
      /\ SameHeads(r, PutBehind(r, l, x))
      /\ Shows(PutBefore(r, l, x),
               [D EXCEPT ![h] = InsertAt(D[h], IF i = 0 THEN Len(D[h]) + 1 ELSE i, l)])
      /\ SameHeads(r, PutBefore(r, l, x))
  BY <1>2, <1>6, PutShows
<1>8. Linked(PutBehind(r, l, x)) /\ Linked(PutBefore(r, l, x))
  <2>1. /\ x \in Linkage /\ r.suc[x] \in Linkage /\ r.pred[x] \in Linkage
        /\ r.suc[r.pred[x]] = x
        /\ PutBehind(r, l, x) = Between(r, l, x, r.suc[x])
        /\ PutBefore(r, l, x) = Between(r, l, r.pred[x], x)
    BY <1>2, <1>3, PutIsBetween
  <2>2. Linked(PutBehind(r, l, x))
    BY <1>2, <2>1, BetweenLinked
  <2>3. Linked(PutBefore(r, l, x))
    BY <1>2, <2>1, BetweenLinked
  <2> QED
    BY <2>2, <2>3
<1>9. SameHeads(ring, PutBehind(r, l, x)) /\ SameHeads(ring, PutBefore(r, l, x))
  BY <1>2, <1>7 DEF SameHeads
<1>10. suc_[h] # NONE
  BY <1>2, <1>6 DEF SameHeads, ring
<1>11. /\ Shows(PutBehind(r, l, x), Joined(L, l, h, i + 1))
       /\ Shows(PutBefore(r, l, x), Joined(L, l, h, IF i = 0 THEN Len(D[h]) + 1 ELSE i))
  BY <1>7 DEF Joined, D
<1>12. /\ IF x \in Owner THEN h = x /\ i = 0
          ELSE i # 0 /\ i \in DOMAIN Dropped(L, l)[h] /\ Dropped(L, l)[h][i] = x
       /\ i \in 0 .. Len(Dropped(L, l)[h])
  <2>1. DOMAIN D[h] = 1 .. Len(D[h]) /\ Len(D[h]) \in Nat
    BY <1>2, ListFacts DEF Shows
  <2>2. i \in DOMAIN D[h] => i # 0
    BY <2>1
  <2> QED
    BY <1>6, <2>2 DEF D
<1> QED
  BY <1>1, <1>8, <1>9, <1>10, <1>11, <1>12 DEF D

\* What Lists sees of the lists that l has left.
LEMMA LeftView ==
    ASSUME NEW L, Shows(ring, L), NEW l \in Link
    PROVE  List!Leaving(l) = Dropped(L, l)
<1>1. [h \in Owner |-> ListOf(ring, h)] = L
  <2>1. PICK r : r = ring
    OBVIOUS
  <2> QED
    BY <2>1, ListsAre
<1> QED
  BY <1>1, SameOperators DEF List!Leaving, Dropped

\* When OUT leaves x in no ring, Lists sees no place next to it.
LEMMA AstrayStep ==
    ASSUME IInv, NEW L, Shows(ring, L), NEW l \in Link, NEW x \in Reference, Named(x),
           ~ InRing(Removed(ring, l), x)
    PROVE  List!Astray(l, x)
<1>1. PICK r : r = Removed(ring, l)
  OBVIOUS
<1>2. Shows(r, Dropped(L, l)) /\ SameHeads(ring, r)
  <2>1. PICK r0 : r0 = ring
    OBVIOUS
  <2>2. Shows(Removed(r0, l), Dropped(L, l)) /\ SameHeads(r0, Removed(r0, l))
    BY <2>1, LinkedRing, OutShows
  <2> QED
    BY <1>1, <2>1, <2>2
<1>3. x = NONE \/ r.suc[x] = NONE
  BY <1>1 DEF InRing
<1>4. x \notin {h \in Owner : suc_[h] # NONE}
  BY <1>2, <1>3, SimsetAssumption DEF SameHeads, ring
<1>5. ASSUME NEW h \in Owner, x \in ToSet(Dropped(L, l)[h])
      PROVE  FALSE
  <2>1. PICK i \in DOMAIN Dropped(L, l)[h] : x = Dropped(L, l)[h][i]
    BY <1>5 DEF ToSet
  <2>2. x \in Link /\ r.suc[x] # NONE
    BY <1>2, <2>1, Listed
  <2> QED
    BY <1>3, <2>2, SimsetAssumption
<1>6. \A h \in Owner : x \notin List!ToSet(List!Leaving(l)[h])
  BY <1>5, LeftView, SameOperators
<1> QED
  BY <1>4, <1>6 DEF List!Astray

LEMMA FollowStep ==
    ASSUME IInv, NEW L, Shows(ring, L), NEW l \in Link, NEW x \in Reference, Follow(l, x)
    PROVE  (\E M : Shows(ring', M)) /\ List!Follow(l, x)
<1>1. CASE ~ InRing(Removed(ring, l), x)
  <2>1. Shows(ring', Dropped(L, l)) /\ List!Quit(l)
    BY <1>1, QuitStep DEF Follow
  <2>2. List!Astray(l, x)
    BY <1>1, AstrayStep DEF Follow
  <2> QED
    BY <2>1, <2>2 DEF List!Follow
<1>2. CASE InRing(Removed(ring, l), x)
  <2> DEFINE q == PutBehind(Removed(ring, l), l, x)
  <2>1. Set(q)
    BY <1>2 DEF Follow
  <2> HIDE DEF q
  <2>2. PICK h \in Owner : \E i \in 0 .. Len(Dropped(L, l)[h]) :
           /\ suc_[h] # NONE
           /\ IF x \in Owner THEN h = x /\ i = 0
              ELSE i # 0 /\ i \in DOMAIN Dropped(L, l)[h] /\ Dropped(L, l)[h][i] = x
           /\ Linked(q) /\ SameHeads(ring, q) /\ Shows(q, Joined(L, l, h, i + 1))
    BY <1>2, JoinShows DEF q
  <2>3. PICK i \in 0 .. Len(Dropped(L, l)[h]) :
           /\ suc_[h] # NONE
           /\ IF x \in Owner THEN h = x /\ i = 0
              ELSE i # 0 /\ i \in DOMAIN Dropped(L, l)[h] /\ Dropped(L, l)[h][i] = x
           /\ Linked(q) /\ SameHeads(ring, q) /\ Shows(q, Joined(L, l, h, i + 1))
    BY <2>2
  <2>4. (\E M : Shows(ring', M)) /\ List!PutAt(l, h, i + 1)
    BY <2>1, <2>3, PutAtStep
  <2>5. h \in {g \in Owner : suc_[g] # NONE}
    BY <2>3
  <2>6. CASE x \in Owner
    <3>1. h = x /\ i + 1 = 1
      BY <2>3, <2>6
    <3>2. List!PutAt(l, x, 1)
      BY <2>4, <3>1
    <3> QED
      BY <2>4, <2>5, <3>1, <3>2 DEF List!Follow
  <2>7. CASE x \notin Owner
    <3>1. i \in DOMAIN List!Leaving(l)[h] /\ List!Leaving(l)[h][i] = x
      BY <2>3, <2>7, LeftView
    <3> QED
      BY <2>4, <2>5, <3>1, Zenon DEF List!Follow
  <2> QED
    BY <2>6, <2>7
<1> QED
  BY <1>1, <1>2

LEMMA PrecedeStep ==
    ASSUME IInv, NEW L, Shows(ring, L), NEW l \in Link, NEW x \in Reference, Precede(l, x)
    PROVE  (\E M : Shows(ring', M)) /\ List!Precede(l, x)
<1>1. CASE ~ InRing(Removed(ring, l), x)
  <2>1. Shows(ring', Dropped(L, l)) /\ List!Quit(l)
    BY <1>1, QuitStep DEF Precede
  <2>2. List!Astray(l, x)
    BY <1>1, AstrayStep DEF Precede
  <2> QED
    BY <2>1, <2>2 DEF List!Precede
<1>2. CASE InRing(Removed(ring, l), x)
  <2> DEFINE q == PutBefore(Removed(ring, l), l, x)
             Place(h, i) == IF i = 0 THEN Len(Dropped(L, l)[h]) + 1 ELSE i
  <2>1. Set(q)
    BY <1>2 DEF Precede
  <2> HIDE DEF q
  <2>2. PICK h \in Owner : \E i \in 0 .. Len(Dropped(L, l)[h]) :
           /\ suc_[h] # NONE
           /\ IF x \in Owner THEN h = x /\ i = 0
              ELSE i # 0 /\ i \in DOMAIN Dropped(L, l)[h] /\ Dropped(L, l)[h][i] = x
           /\ Linked(q) /\ SameHeads(ring, q) /\ Shows(q, Joined(L, l, h, Place(h, i)))
    BY <1>2, JoinShows DEF q
  <2>3. PICK i \in 0 .. Len(Dropped(L, l)[h]) :
           /\ suc_[h] # NONE
           /\ IF x \in Owner THEN h = x /\ i = 0
              ELSE i # 0 /\ i \in DOMAIN Dropped(L, l)[h] /\ Dropped(L, l)[h][i] = x
           /\ Linked(q) /\ SameHeads(ring, q) /\ Shows(q, Joined(L, l, h, Place(h, i)))
    BY <2>2
  <2>4. (\E M : Shows(ring', M)) /\ List!PutAt(l, h, Place(h, i))
    BY <2>1, <2>3, PutAtStep
  <2>5. h \in {g \in Owner : suc_[g] # NONE}
    BY <2>3
  <2>6. CASE x \in Owner
    <3>1. h = x /\ Place(h, i) = Len(List!Leaving(l)[x]) + 1
      BY <2>3, <2>6, LeftView
    <3>2. List!PutAt(l, x, Len(List!Leaving(l)[x]) + 1)
      BY <2>4, <3>1
    <3> QED
      BY <2>4, <2>5, <3>1, <3>2 DEF List!Precede
  <2>7. CASE x \notin Owner
    <3>1. i \in DOMAIN List!Leaving(l)[h] /\ List!Leaving(l)[h][i] = x
      BY <2>3, <2>7, LeftView
    <3>2. Place(h, i) = i
      BY <2>3, <2>7
    <3>3. List!PutAt(l, h, i)
      BY <2>4, <3>2
    <3> QED
      BY <2>4, <2>5, <3>1, <3>3, Zenon DEF List!Precede
  <2> QED
    BY <2>6, <2>7
<1> QED
  BY <1>1, <1>2

\* A turn of CLEAR takes out the first link of the list.
LEMMA ClearTurnStep ==
    ASSUME IInv, NEW L, Shows(ring, L), ClearTurn
    PROVE  (\E M : Shows(ring', M)) /\ FIRST(ring, clearing) \in Link
           /\ List!Quit(Head(ListOf(ring, clearing)))
<1> DEFINE l == FIRST(ring, clearing)
<1>1. l \in Link /\ Set(Removed(ring, l)) /\ clearing \in Owner /\ suc_[clearing] # NONE
  BY SimsetAssumption
  DEF ClearTurn, FIRST, SUC, ishead_, ring, IInv, TypeOK, Linkage, Reference
<1>2. Shows(ring', Dropped(L, l)) /\ List!Quit(l)
  BY <1>1, QuitStep
<1>3. PICK r : r = ring /\ r.suc = suc_
  BY DEF ring
<1>4. ListOf(r, clearing) = L[clearing]
  BY <1>1, <1>3, WalkIs
<1>5. L[clearing] \in Seq(Link) /\ Len(L[clearing]) \in Nat
  BY <1>1, ListFacts DEF Shows
<1>6. r.suc[clearing] = Node(L[clearing], clearing, 1)
  <2>1. 0 \in 0 .. Len(L[clearing]) /\ Node(L[clearing], clearing, 0) = clearing
    BY <1>5 DEF Node
  <2>2. RingOf(r, clearing, L[clearing])
    BY <1>1, <1>3 DEF Shows
  <2> QED
    BY <2>1, <2>2 DEF RingOf
<1>7. r.suc[clearing] = l
  BY <1>1, <1>3, SimsetAssumption DEF FIRST, SUC
<1>8. l = Head(L[clearing])
  BY <1>1, <1>5, <1>6, <1>7, SimsetAssumption DEF Node
<1> QED
  BY <1>1, <1>2, <1>3, <1>4, <1>8

LEMMA SameLists ==
    ASSUME NEW L, Shows(ring, L), UNCHANGED <<suc_, pred_>>
    PROVE  Shows(ring', L) /\ UNCHANGED List!listVars
<1>1. PICK r : r = ring /\ ring' = r
  BY DEF ring
<1>2. /\ [h \in Owner |-> ListOf(ring, h)] = L
      /\ [h \in Owner |-> ListOf(ring, h)]' = L
  BY <1>1, Views
<1> QED
  BY <1>1, <1>2 DEF List!listVars

LEMMA NewHeadStep ==
    ASSUME IInv, NEW L, Shows(ring, L), NEW h \in Owner, NewHead(h), IInv'
    PROVE  Shows(ring', L) /\ List!Create(h)
<1> DEFINE q == [suc |-> [suc_ EXCEPT ![h] = h], pred |-> [pred_ EXCEPT ![h] = h]]
<1>1. ring' = q
  BY DEF NewHead, Set, ring
<1>2. /\ suc_ \in [Linkage -> Reference] /\ suc_[h] = NONE /\ ring.suc = suc_
      /\ \A x \in Linkage : q.suc[x] = IF x = h THEN h ELSE suc_[x]
  BY DEF NewHead, IInv, TypeOK, ring
<1>3. L[h] = << >>
  BY <1>2 DEF Shows
<1> HIDE DEF q
<1>4. ASSUME NEW g \in Owner
      PROVE  IF q.suc[g] = NONE THEN L[g] = << >> ELSE RingOf(q, g, L[g])
  <2>1. CASE g = h
    <3>1. Len(L[g]) = 0 /\ Node(L[g], g, 0) = g /\ Node(L[g], g, 1) = g
      BY <1>3, <2>1 DEF Node
    <3>2. q.suc[g] = g /\ g # NONE
      BY <1>2, <2>1, SimsetAssumption DEF Linkage
    <3> QED
      BY <3>1, <3>2 DEF RingOf
  <2>2. CASE g # h
    <3>1. q.suc[g] = suc_[g]
      BY <1>2, <2>2 DEF Linkage
    <3>2. ASSUME suc_[g] # NONE, NEW i \in 0 .. Len(L[g])
          PROVE  q.suc[Node(L[g], g, i)] = Node(L[g], g, i + 1)
      <4>1. suc_[Node(L[g], g, i)] = Node(L[g], g, i + 1)
        BY <1>2, <3>2 DEF Shows, RingOf
      <4>2. Node(L[g], g, i) \in Linkage /\ Node(L[g], g, i) # h
        <5>1. i \in Nat /\ L \in [Owner -> Seq(Link)]
          BY ListFacts DEF Shows
        <5> QED
          BY <2>2, <5>1, ListFacts, SimsetAssumption DEF Node
      <4> QED
        BY <1>2, <4>1, <4>2
    <3> QED
      BY <1>2, <3>1, <3>2 DEF Shows, RingOf
  <2> QED
    BY <2>1, <2>2
<1>5. \A l \in Link : q.suc[l] # NONE => \E g \in Owner : l \in ToSet(L[g])
  BY <1>2, SimsetAssumption DEF Shows, Linkage
<1>6. Shows(q, L)
  BY <1>4, <1>5 DEF Shows
<1>7. /\ [g \in Owner |-> ListOf(ring, g)] = L
      /\ [g \in Owner |-> ListOf(ring, g)]' = L
  BY <1>1, <1>6, Views
<1>8. {g \in Owner : suc_[g] # NONE}' = {g \in Owner : suc_[g] # NONE} \cup {h}
  <2>1. suc_' = q.suc
    BY <1>1 DEF ring
  <2> QED
    BY <1>2, <2>1, SimsetAssumption DEF Linkage
<1> QED
  BY <1>1, <1>2, <1>6, <1>7, <1>8 DEF List!Create

HasLists == \E L : Shows(ring, L)

LEMMA InitLists == Init => HasLists /\ List!ListsInit
<1> SUFFICES ASSUME Init PROVE HasLists /\ List!ListsInit
  OBVIOUS
<1> DEFINE L == [h \in Owner |-> << >>]
<1>1. \A x \in Linkage : suc_[x] = NONE
  BY DEF Init
<1>2. Shows(ring, L)
  BY <1>1 DEF Shows, Apart, ring, Linkage
<1>3. [h \in Owner |-> ListOf(ring, h)] = L
  BY <1>1 DEF ListOf, ring, Linkage
<1> QED
  BY <1>1, <1>2, <1>3 DEF HasLists, List!ListsInit, Linkage

LEMMA StepLists ==
    ASSUME IInv, IInv', HasLists, [Next]_vars
    PROVE  HasLists' /\ [List!ListsNext]_(List!listVars)
<1>0. PICK L : Shows(ring, L)
  BY DEF HasLists
<1>1. ASSUME NEW h \in Owner, NewHead(h)
      PROVE  HasLists' /\ List!ListsNext
  BY <1>0, <1>1, NewHeadStep DEF HasLists, List!ListsNext
<1>2. ASSUME NEW l \in Link, Out(l)
      PROVE  HasLists' /\ List!ListsNext
  BY <1>0, <1>2, QuitStep DEF HasLists, List!ListsNext, Out
<1>3. ASSUME NEW l \in Link, NEW x \in Reference, Follow(l, x) \/ Precede(l, x)
      PROVE  HasLists' /\ List!ListsNext
  <2>1. (\E M : Shows(ring', M)) /\ (List!Follow(l, x) \/ List!Precede(l, x))
    BY <1>0, <1>3, FollowStep, PrecedeStep
  <2>2. x \in Owner \cup Link \cup {NONE}
    BY DEF Reference, Linkage
  <2> QED
    BY <2>1, <2>2 DEF HasLists, List!ListsNext
<1>4. CASE ClearTurn
  <2>1. FIRST(ring, clearing) \in Link /\ Set(Removed(ring, FIRST(ring, clearing)))
    BY <1>0, <1>4, ClearTurnStep DEF ClearTurn
  <2> QED
    BY <1>0, <2>1, QuitStep DEF HasLists, List!ListsNext
<1>5. CASE UNCHANGED <<suc_, pred_>>
  BY <1>0, <1>5, SameLists DEF HasLists
<1> QED
  BY <1>1, <1>2, <1>3, <1>4, <1>5 DEF Next, Clear, ClearEnds, vars

\* Each procedure is the list operation it stands for.
LEMMA StepAsMeant ==
    ASSUME IInv, IInv', HasLists
    PROVE  EachAsMeant
<1>0. PICK L : Shows(ring, L)
  BY DEF HasLists
<1>1. ASSUME NEW h \in Owner, NewHead(h) PROVE List!Create(h)
  BY <1>0, <1>1, NewHeadStep
<1>2. ASSUME NEW l \in Link, Out(l) PROVE List!Quit(l)
  BY <1>0, <1>2, QuitStep DEF Out
<1>3. ASSUME NEW l \in Link, NEW x \in Reference, Follow(l, x) PROVE List!Follow(l, x)
  BY <1>0, <1>3, FollowStep
<1>4. ASSUME NEW l \in Link, NEW x \in Reference, Precede(l, x) PROVE List!Precede(l, x)
  BY <1>0, <1>4, PrecedeStep
<1>5. ASSUME ClearTurn PROVE List!Quit(Head(ListOf(ring, clearing)))
  BY <1>0, <1>5, ClearTurnStep
<1>6. ASSUME ClearEnds \/ \E h \in Owner : Clear(h)
      PROVE  UNCHANGED List!listVars
  <2>1. UNCHANGED <<suc_, pred_>>
    BY <1>6 DEF Clear, ClearEnds
  <2> QED
    BY <1>0, <2>1, SameLists
<1> QED
  BY <1>1, <1>2, <1>3, <1>4, <1>5, <1>6, Zenon DEF EachAsMeant

\* The rings are lists, for any heads and links: NEW HEAD, OUT, FOLLOW,
\* PRECEDE, INTO and each turn of CLEAR are the operations of Lists they are
\* named after, FOLLOW behind the other linkage and PRECEDE before it.
THEOREM RingsAreLists == Spec => ImplementsLists
<1>1. Init => IInv /\ HasLists /\ List!ListsInit
  BY InitIInv, InitLists
<1>2. IInv /\ HasLists /\ [Next]_vars => IInv' /\ HasLists' /\ [List!ListsNext]_(List!listVars)
  BY StepIInv, StepLists
<1>3. IInv /\ HasLists /\ [Next]_vars => [EachAsMeant]_vars
  BY StepIInv, StepAsMeant
<1> QED
  BY <1>1, <1>2, <1>3, PTL DEF Spec, ImplementsLists, List!ListsSpec

\* Every ring has one head, and CARDINAL comes to an end.
THEOREM AlwaysHasHead == Spec => []HasHead
<1>1. HasLists => HasHead
  <2> SUFFICES ASSUME HasLists PROVE HasHead
    OBVIOUS
  <2>1. PICK L : Shows(ring, L)
    BY DEF HasLists
  <2>2. ring.suc = suc_
    BY DEF ring
  <2>3. ASSUME NEW h \in Owner, suc_[h] # NONE
        PROVE  Turns(ring, h) # {}
    BY <2>1, <2>2, <2>3, WalkIs
  <2>4. ASSUME NEW l \in Link, suc_[l] # NONE
        PROVE  Cardinality({h \in Owner : suc_[h] # NONE
                 /\ \E n \in 0 .. Cardinality(Link) : CursorAfter(ring, h, n) = l}) = 1
    <3> DEFINE S == {h \in Owner : suc_[h] # NONE
                      /\ \E n \in 0 .. Cardinality(Link) : CursorAfter(ring, h, n) = l}
    <3>1. PICK g \in Owner : l \in ToSet(L[g])
      BY <2>1, <2>2, <2>4 DEF Shows
    <3>2. PICK k \in DOMAIN L[g] : l = L[g][k]
      BY <3>1 DEF ToSet
    <3>3. suc_[g] # NONE
      BY <2>1, <2>2, <3>2, Listed
    <3>4. PICK m \in 0 .. Cardinality(Link) : m \in Nat /\ k = m + 1
      <4>1. Len(L[g]) \in Nat /\ DOMAIN L[g] = 1 .. Len(L[g])
        BY <2>1, ListFacts DEF Shows
      <4>2. Len(L[g]) <= Cardinality(Link) /\ Cardinality(Link) \in Nat
        BY <2>1, ListFits
      <4>3. k - 1 \in 0 .. Cardinality(Link) /\ k - 1 \in Nat /\ k = k - 1 + 1
        BY <4>1, <4>2
      <4> QED
        BY <4>3
    <3>5. CursorAfter(ring, g, m) = l
      <4>1. CursorAfter(ring, g, m) = Node(L[g], g, m + 1)
        BY <2>1, <2>2, <3>3, <3>4, CursorIs
      <4> QED
        BY <3>2, <3>4, <4>1 DEF Node
    <3>6. ASSUME NEW h \in S
          PROVE  h = g
      <4>1. PICK n \in 0 .. Cardinality(Link) : CursorAfter(ring, h, n) = l
        OBVIOUS
      <4>2. n \in Nat /\ suc_[h] # NONE /\ h \in Owner
        BY <2>1, ListFits
      <4>3. Node(L[h], h, n + 1) = l
        BY <2>1, <2>2, <4>1, <4>2, CursorIs
      <4>4. n + 1 \in DOMAIN L[h] /\ L[h][n + 1] = l
        BY <4>2, <4>3, SimsetAssumption DEF Node
      <4> QED
        BY <2>1, <3>2, <4>2, <4>4 DEF Shows, Apart
    <3>7. S = {g}
      BY <3>3, <3>4, <3>5, <3>6
    <3> QED
      BY <3>7, FS_Singleton
  <2> QED
    BY <2>3, <2>4 DEF HasHead
<1> QED
  BY <1>1, InitIInv, StepIInv, InitLists, StepLists, PTL DEF Spec

\* Walking back along pred_ passes the same nodes.
LEMMA PredIs ==
    ASSUME NEW r, Linked(r), NEW L, Shows(r, L), NEW h \in Owner, r.suc[h] # NONE,
           NEW i \in 0 .. Len(L[h])
    PROVE  /\ r.suc[Node(L[h], h, i)] = Node(L[h], h, i + 1)
           /\ r.pred[Node(L[h], h, i + 1)] = Node(L[h], h, i)
<1>1. /\ Len(L[h]) \in Nat /\ Node(L[h], h, i) \in Linkage /\ Node(L[h], h, i + 1) \in Linkage
  BY ListFacts DEF Shows
<1>2. r.suc[Node(L[h], h, i)] = Node(L[h], h, i + 1)
  BY DEF Shows, RingOf
<1> QED
  BY <1>1, <1>2, SimsetAssumption DEF Linked, Linkage

\* What EMPTY, FIRST, LAST, SUC and PRED return is what the lists say.
THEOREM AlwaysAgree == Spec => []FunctionsAgree
<1>1. IInv /\ HasLists => FunctionsAgree
  <2> SUFFICES ASSUME IInv, HasLists, NEW h \in Owner, suc_[h] # NONE
               PROVE  LET list == ListOf(ring, h)
                      IN  /\ EMPTY(ring, h) <=> list = << >>
                          /\ FIRST(ring, h) = IF list = << >> THEN NONE ELSE Head(list)
                          /\ LAST(ring, h) = IF list = << >> THEN NONE ELSE Last(list)
                          /\ \A i \in DOMAIN list :
                               /\ PRED(ring, list[i]) = IF i = 1 THEN NONE ELSE list[i - 1]
                               /\ SUC(ring, list[i]) = IF i = Len(list) THEN NONE ELSE list[i + 1]
    BY DEF FunctionsAgree
  <2>1. PICK L : Shows(ring, L)
    BY DEF HasLists
  <2>2. Linked(ring) /\ ring.suc = suc_
    BY LinkedRing DEF ring
  <2>3. PICK s : s = L[h] /\ s = ListOf(ring, h)
    BY <2>1, <2>2, WalkIs
  <2>4. /\ s \in Seq(Link) /\ Len(s) \in Nat /\ DOMAIN s = 1 .. Len(s)
        /\ \A i \in 1 .. Len(s) : s[i] \in Link
    BY <2>1, <2>3, ListFacts DEF Shows
  <2>5. ASSUME NEW i \in 0 .. Len(s)
        PROVE  /\ ring.suc[Node(s, h, i)] = Node(s, h, i + 1)
               /\ ring.pred[Node(s, h, i + 1)] = Node(s, h, i)
    <3>1. /\ ring.suc[Node(L[h], h, i)] = Node(L[h], h, i + 1)
          /\ ring.pred[Node(L[h], h, i + 1)] = Node(L[h], h, i)
      <4>1. PICK r : r = ring
        OBVIOUS
      <4>2. PICK j \in 0 .. Len(L[h]) : j = i
        BY <2>3
      <4>3. /\ r.suc[Node(L[h], h, j)] = Node(L[h], h, j + 1)
            /\ r.pred[Node(L[h], h, j + 1)] = Node(L[h], h, j)
        BY <2>1, <2>2, <4>1, PredIs
      <4> QED
        BY <4>1, <4>2, <4>3
    <3> QED
      BY <2>3, <3>1
  <2>6. /\ h \notin Link /\ h # NONE /\ \A l \in Link : l # NONE /\ l \notin Owner
    BY SimsetAssumption
  <2>7. s = << >> <=> Len(s) = 0
    BY <2>4
  <2>8. ASSUME NEW i \in 0 .. Len(s)
        PROVE  /\ SUC(ring, Node(s, h, i)) = IF i = Len(s) THEN NONE ELSE s[i + 1]
               /\ PRED(ring, Node(s, h, i + 1)) = IF i = 0 THEN NONE ELSE s[i]
    <3>0. i \in Nat /\ (i + 1 \in 1 .. Len(s) <=> i # Len(s))
      <4>1. PICK n \in Nat : n = Len(s)
        BY <2>4
      <4>2. i \in 0 .. n
        BY <4>1
      <4>3. i \in Nat /\ (i + 1 \in 1 .. n <=> i # n)
        BY <4>2
      <4> QED
        BY <4>1, <4>3
    <3>1. Node(s, h, i + 1) = IF i = Len(s) THEN h ELSE s[i + 1]
      BY <2>4, <3>0 DEF Node
    <3>2. Node(s, h, i) = IF i = 0 THEN h ELSE s[i]
      BY <2>4 DEF Node
    <3>3. i # Len(s) => s[i + 1] \in Link
      BY <2>4, <3>0
    <3>4. i # 0 => s[i] \in Link
      BY <2>4
    <3>5. SUC(ring, Node(s, h, i)) = IF i = Len(s) THEN NONE ELSE s[i + 1]
      BY <2>5, <2>6, <3>1, <3>3 DEF SUC, ishead_
    <3>6. PRED(ring, Node(s, h, i + 1)) = IF i = 0 THEN NONE ELSE s[i]
      BY <2>5, <2>6, <3>2, <3>4 DEF PRED, ishead_
    <3> QED
      BY <3>5, <3>6
  <2>9. Node(s, h, 0) = h /\ Node(s, h, Len(s) + 1) = h /\ 0 \in 0 .. Len(s) /\ Len(s) \in 0 .. Len(s)
    BY <2>4 DEF Node
  <2>10. EMPTY(ring, h) <=> s = << >>
    <3>1. ring.suc[h] = Node(s, h, 1)
      BY <2>5, <2>9
    <3>2. Node(s, h, 1) = IF Len(s) = 0 THEN h ELSE s[1]
      BY <2>4 DEF Node
    <3>3. Len(s) # 0 => s[1] # h
      BY <2>4, <2>6
    <3> QED
      BY <2>7, <3>1, <3>2, <3>3 DEF EMPTY
  <2>11. FIRST(ring, h) = IF s = << >> THEN NONE ELSE Head(s)
    <3>1. SUC(ring, h) = IF 0 = Len(s) THEN NONE ELSE s[1]
      BY <2>8, <2>9
    <3> QED
      BY <2>4, <2>7, <3>1 DEF FIRST
  <2>12. LAST(ring, h) = IF s = << >> THEN NONE ELSE Last(s)
    <3>1. PRED(ring, h) = IF Len(s) = 0 THEN NONE ELSE s[Len(s)]
      BY <2>8, <2>9
    <3> QED
      BY <2>7, <3>1 DEF LAST, Last
  <2>13. ASSUME NEW i \in DOMAIN s
         PROVE  /\ PRED(ring, s[i]) = IF i = 1 THEN NONE ELSE s[i - 1]
                /\ SUC(ring, s[i]) = IF i = Len(s) THEN NONE ELSE s[i + 1]
    <3>1. PICK j \in 0 .. Len(s) : i = j + 1 /\ j = i - 1
      BY <2>4
    <3>2. i \in 0 .. Len(s) /\ Node(s, h, i) = s[i]
      BY <2>4 DEF Node
    <3> QED
      BY <2>8, <3>1, <3>2
  <2> QED
    BY <2>3, <2>10, <2>11, <2>12, <2>13
<1> QED
  BY <1>1, InitIInv, StepIInv, InitLists, StepLists, PTL DEF Spec
=============================================================================
