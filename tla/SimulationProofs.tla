-------------------------- MODULE SimulationProofs --------------------------
(***************************************************************************)
(* Proofs about module Simulation, for any set of processes and any        *)
(* MaxTime.  The inductive invariant joins the three invariants of the     *)
(* runs; the sequencing set enters it as a list that is Unique and Sorted  *)
(* and as a set of notices each of which is Waiting.                       *)
(***************************************************************************)
EXTENDS Simulation, SequenceTheorems, WellFoundedInduction, TLAPS

-----------------------------------------------------------------------------
(* Lists with an element put in or taken out.                              *)

\* Every non-empty set of natural numbers has a least element, and Min is it.
LEMMA MinNat ==
    ASSUME NEW S \in SUBSET Nat, S # {}
    PROVE  /\ Min(S) \in S
           /\ \A n \in S : Min(S) <= n
<1>1. PICK m \in S : \A n \in S : ~ (<<n, m>> \in OpToRel(<, Nat))
  BY NatLessThanWellFounded, WFMin, Zenon
<1>2. ASSUME NEW n \in S, n < m
      PROVE  FALSE
  <2>1. <<n, m>> \in {r \in Nat \X Nat : r[1] < r[2]}
    BY <1>2
  <2> QED
    BY <1>1, <2>1, Zenon DEF OpToRel
<1>3. \A n \in S : m <= n
  BY <1>2
<1> QED
  BY <1>3 DEF Min

\* What a list is once InsertAt has put e at place k of s.
Seated(s, k, e, S) ==
    /\ InsertAt(s, k, e) \in Seq(S)
    /\ Len(InsertAt(s, k, e)) = Len(s) + 1
    /\ \A j \in 1 .. Len(s) + 1 :
          InsertAt(s, k, e)[j] = IF j < k THEN s[j]
                                 ELSE IF j = k THEN e ELSE s[j - 1]

\* InsertAt puts one element in and keeps the others in their order.
LEMMA InsertAtProperties ==
    ASSUME NEW S, NEW s \in Seq(S), NEW k \in 1 .. Len(s) + 1, NEW e \in S
    PROVE  Seated(s, k, e, S)
<1> DEFINE front == SubSeq(s, 1, k - 1)
           back  == SubSeq(s, k, Len(s))
<1>1. /\ front \in Seq(S) /\ Len(front) = k - 1
      /\ \A i \in 1 .. k - 1 : front[i] = s[i]
  BY SubSeqProperties
<1>2. /\ back \in Seq(S) /\ Len(back) = Len(s) - k + 1
      /\ \A i \in 1 .. Len(s) - k + 1 : back[i] = s[k + i - 1]
  BY SubSeqProperties
<1> DEFINE mid == front \o <<e>>
<1>3. <<e>> \in Seq(S) /\ Len(<<e>>) = 1 /\ <<e>>[1] = e
  OBVIOUS
<1> HIDE DEF front, back
<1>4. /\ mid \in Seq(S) /\ Len(mid) = k
      /\ \A i \in 1 .. k : mid[i] = IF i < k THEN s[i] ELSE e
  BY <1>1, <1>3, ConcatProperties
<1> HIDE DEF mid
<1>5. /\ mid \o back \in Seq(S) /\ Len(mid \o back) = Len(s) + 1
      /\ \A j \in 1 .. Len(s) + 1 :
           (mid \o back)[j] = IF j <= k THEN mid[j] ELSE back[j - k]
  <2> HIDE DEF mid
  <2>1. /\ mid \o back \in Seq(S) /\ Len(mid \o back) = Len(mid) + Len(back)
        /\ \A j \in 1 .. Len(mid) + Len(back) :
             (mid \o back)[j] = IF j <= Len(mid) THEN mid[j] ELSE back[j - Len(mid)]
    BY <1>2, <1>4, ConcatProperties
  <2>2. Len(mid) + Len(back) = Len(s) + 1
    BY <1>2, <1>4
  <2> QED
    BY <2>1, <2>2, <1>4
<1>6. InsertAt(s, k, e) = mid \o back
  BY DEF InsertAt, mid, front, back
<1> QED
  BY <1>2, <1>4, <1>5, <1>6 DEF Seated

\* RemoveAt takes one element out and keeps the others in their order.
LEMMA RemoveAtProperties ==
    ASSUME NEW S, NEW s \in Seq(S), NEW k \in 1 .. Len(s)
    PROVE  /\ RemoveAt(s, k) \in Seq(S)
           /\ Len(RemoveAt(s, k)) = Len(s) - 1
           /\ \A j \in 1 .. Len(s) - 1 :
                 RemoveAt(s, k)[j] = IF j < k THEN s[j] ELSE s[j + 1]
<1> DEFINE front == SubSeq(s, 1, k - 1)
           back  == SubSeq(s, k + 1, Len(s))
<1>1. /\ front \in Seq(S) /\ Len(front) = k - 1
      /\ \A i \in 1 .. k - 1 : front[i] = s[i]
  BY SubSeqProperties
<1>2. /\ back \in Seq(S) /\ Len(back) = Len(s) - k
      /\ \A i \in 1 .. Len(s) - k : back[i] = s[k + i]
  BY SubSeqProperties
<1>3. RemoveAt(s, k) = front \o back
  BY DEF RemoveAt
<1> HIDE DEF front, back
<1>4. /\ front \o back \in Seq(S) /\ Len(front \o back) = Len(front) + Len(back)
      /\ \A j \in 1 .. Len(front) + Len(back) :
           (front \o back)[j] =
              IF j <= Len(front) THEN front[j] ELSE back[j - Len(front)]
  BY <1>1, <1>2, ConcatProperties
<1>5. Len(front) + Len(back) = Len(s) - 1
  BY <1>1, <1>2
<1>6. \A j \in 1 .. Len(s) - 1 :
         (front \o back)[j] = IF j < k THEN s[j] ELSE s[j + 1]
  <2> TAKE j \in 1 .. Len(s) - 1
  <2>1. (front \o back)[j] = IF j <= k - 1 THEN front[j] ELSE back[j - (k - 1)]
    BY <1>1, <1>4, <1>5
  <2>2. CASE j < k
    <3>1. j \in 1 .. k - 1
      BY <2>2
    <3>2. (front \o back)[j] = front[j]
      BY <2>1, <3>1
    <3> QED
      BY <1>1, <2>2, <3>1, <3>2
  <2>3. CASE ~(j < k)
    <3>1. j - (k - 1) \in 1 .. Len(s) - k /\ ~(j <= k - 1)
      BY <2>3
    <3>2. (front \o back)[j] = back[j - (k - 1)]
      BY <2>1, <3>1
    <3>3. back[j - (k - 1)] = s[k + (j - (k - 1))]
      BY <1>2, <3>1
    <3>4. k + (j - (k - 1)) = j + 1
      OBVIOUS
    <3> QED
      BY <2>3, <3>2, <3>3, <3>4
  <2> QED
    BY <2>2, <2>3
<1>7. /\ RemoveAt(s, k) \in Seq(S)
      /\ Len(RemoveAt(s, k)) = Len(s) - 1
  BY <1>3, <1>4, <1>5
<1> QED
  BY <1>3, <1>6, <1>7

-----------------------------------------------------------------------------
(* The list operations: what sim_remove_notice and sim_insert do to the    *)
(* set of notices, to their order and to the uniqueness of every one.      *)

Unique(s) == \A i, j \in DOMAIN s : s[i].obj = s[j].obj => i = j
Sorted(s) == \A i, j \in DOMAIN s : i < j => s[i].evtime <= s[j].evtime

\* The index SelectInSeq finds is the first that passes the test.
LEMMA PlaceOfProperties ==
    ASSUME NEW s \in Seq(Notice), NEW p, HasNotice(s, p)
    PROVE  /\ PlaceOf(s, p) \in 1 .. Len(s)
           /\ s[PlaceOf(s, p)].obj = p
<1> DEFINE I == {i \in 1 .. Len(s) : s[i].obj = p}
<1>1. I # {} /\ I \in SUBSET Nat
  BY DEF HasNotice
<1>2. Min(I) \in I
  BY <1>1, MinNat
<1>3. PlaceOf(s, p) = Min(I)
  BY <1>1 DEF PlaceOf, SelectInSeq
<1> QED
  BY <1>2, <1>3

\* sim_remove_notice deletes the process's notice, no other, and leaves the
\* rest in order.  That one deletion is enough needs Unique.
LEMMA WithoutProperties ==
    ASSUME NEW s \in Seq(Notice), NEW p, Unique(s)
    PROVE  /\ Without(s, p) \in Seq(Notice)
           /\ Unique(Without(s, p))
           /\ Sorted(s) => Sorted(Without(s, p))
           /\ ToSet(Without(s, p)) = {n \in ToSet(s) : n.obj # p}
<1>1. CASE ~ HasNotice(s, p)
  <2>1. Without(s, p) = s
    BY <1>1 DEF Without, RemoveFirstMatch, HasNotice
  <2>2. \A n \in ToSet(s) : n.obj # p
    BY <1>1 DEF HasNotice, ToSet
  <2> QED
    BY <2>1, <2>2
<1>2. CASE HasNotice(s, p)
  <2> DEFINE k == PlaceOf(s, p)
             r == RemoveAt(s, k)
  <2>1. k \in 1 .. Len(s) /\ s[k].obj = p
    BY <1>2, PlaceOfProperties
  <2>2. Without(s, p) = r
    BY <1>2 DEF Without, RemoveFirstMatch, HasNotice, PlaceOf
  <2> HIDE DEF k
  <2>3. /\ r \in Seq(Notice) /\ Len(r) = Len(s) - 1
        /\ \A j \in 1 .. Len(s) - 1 : r[j] = IF j < k THEN s[j] ELSE s[j + 1]
    BY <2>1, RemoveAtProperties
  <2> HIDE DEF r
  <2>4. DOMAIN s = 1 .. Len(s) /\ DOMAIN r = 1 .. Len(s) - 1 /\ Len(s) \in Nat
    BY <2>3
  <2> DEFINE from(j) == IF j < k THEN j ELSE j + 1
  <2>a. \A j \in DOMAIN r : from(j) \in DOMAIN s /\ r[j] = s[from(j)]
    BY <2>1, <2>3, <2>4
  <2>b. \A i, j \in DOMAIN r : (i < j <=> from(i) < from(j)) /\ (from(i) = from(j) => i = j)
    BY <2>1, <2>4
  <2> HIDE DEF from
  <2>5. Unique(r)
    BY <2>a, <2>b, Zenon DEF Unique
  <2>6. Sorted(s) => Sorted(r)
    BY <2>a, <2>b, Zenon DEF Sorted
  <2>7. ASSUME NEW n \in ToSet(r)
        PROVE  n \in ToSet(s) /\ n.obj # p
    BY <2>1, <2>3, <2>4, SMTT(30) DEF ToSet, Unique
  <2>8. ASSUME NEW n \in ToSet(s), n.obj # p
        PROVE  n \in ToSet(r)
    <3>1. PICK i \in 1 .. Len(s) : s[i] = n
      BY <2>4 DEF ToSet
    <3>2. i # k
      BY <2>1, <2>8, <3>1
    <3>3. CASE i < k
      BY <2>1, <2>3, <2>4, <3>1, <3>3 DEF ToSet
    <3>4. CASE i > k
      <4>1. i - 1 \in 1 .. Len(s) - 1 /\ r[i - 1] = s[i]
        BY <2>1, <2>3, <2>4, <3>4
      <4> QED
        BY <2>4, <3>1, <4>1 DEF ToSet
    <3> QED
      BY <2>1, <3>2, <3>3, <3>4
  <2>9. ToSet(r) = {n \in ToSet(s) : n.obj # p}
    BY <2>7, <2>8
  <2> QED
    BY <2>2, <2>3, <2>5, <2>6, <2>9
<1> QED
  BY <1>1, <1>2

\* One notice put into a list, wherever the order of event times allows it.
\* Both sim_insert and the BEFORE / AFTER placement are instances.
LEMMA InsertAtKeepsOrder ==
    ASSUME NEW s \in Seq(Notice), NEW k \in 1 .. Len(s) + 1, NEW e \in Notice,
           Unique(s), ~ HasNotice(s, e.obj)
    PROVE  LET r == InsertAt(s, k, e)
           IN  /\ r \in Seq(Notice)
               /\ Unique(r)
               /\ ToSet(r) = ToSet(s) \cup {e}
               /\ Sorted(s)
                  /\ (\A j \in 1 .. k - 1 : s[j].evtime <= e.evtime)
                  /\ (\A j \in k .. Len(s) : e.evtime <= s[j].evtime)
                    => Sorted(r)
<1> DEFINE r == InsertAt(s, k, e)
<1>1. /\ r \in Seq(Notice) /\ Len(r) = Len(s) + 1
      /\ \A j \in 1 .. Len(s) + 1 : r[j] = IF j < k THEN s[j]
                                         ELSE IF j = k THEN e ELSE s[j - 1]
  <2> HIDE DEF r
  <2>1. Seated(s, k, e, Notice)
    BY InsertAtProperties, Zenon
  <2>2. r = InsertAt(s, k, e)
    BY DEF r
  <2> QED
    BY <2>1, <2>2, Zenon DEF Seated
<1> HIDE DEF r
<1>2. DOMAIN s = 1 .. Len(s) /\ DOMAIN r = 1 .. Len(s) + 1 /\ Len(s) \in Nat
  BY <1>1
<1> DEFINE from(j) == IF j < k THEN j ELSE j - 1
<1>3. \A j \in DOMAIN r : j # k => from(j) \in DOMAIN s /\ r[j] = s[from(j)]
  BY <1>1, <1>2
<1>4. \A i, j \in DOMAIN r \ {k} :
         (i < j => from(i) < from(j)) /\ (from(i) = from(j) => i = j)
  BY <1>2
<1>5. r[k] = e /\ k \in DOMAIN r
  BY <1>1, <1>2
<1>6. \A j \in DOMAIN r \ {k} : r[j].obj # e.obj
  BY <1>3, Zenon DEF HasNotice
<1>7. Unique(r)
  <2> HIDE DEF from
  <2> SUFFICES ASSUME NEW i \in DOMAIN r, NEW j \in DOMAIN r, r[i].obj = r[j].obj
               PROVE  i = j
    BY Zenon DEF Unique
  <2>1. CASE i = k \/ j = k
    BY <1>5, <1>6, <2>1, Zenon
  <2>2. CASE i # k /\ j # k
    BY <1>3, <1>4, <2>2, Zenon DEF Unique
  <2> QED
    BY <2>1, <2>2
<1>8. ASSUME Sorted(s),
             \A j \in 1 .. k - 1 : s[j].evtime <= e.evtime,
             \A j \in k .. Len(s) : e.evtime <= s[j].evtime
      PROVE  Sorted(r)
  <2> SUFFICES ASSUME NEW i \in DOMAIN r, NEW j \in DOMAIN r, i < j
               PROVE  r[i].evtime <= r[j].evtime
    BY Zenon DEF Sorted
  <2>1. CASE i = k
    <3>1. from(j) \in k .. Len(s) /\ r[j] = s[from(j)]
      BY <1>2, <1>3, <2>1
    <3> QED
      BY <1>5, <1>8, <2>1, <3>1
  <2>2. CASE j = k
    <3>1. from(i) \in 1 .. k - 1 /\ r[i] = s[from(i)]
      BY <1>2, <1>3, <2>2
    <3> QED
      BY <1>5, <1>8, <2>2, <3>1
  <2>3. CASE i # k /\ j # k
    <3> HIDE DEF from
    <3> QED
      BY <1>3, <1>4, <1>8, <2>3, Zenon DEF Sorted
  <2> QED
    BY <2>1, <2>2, <2>3
<1>9. ToSet(r) = ToSet(s) \cup {e}
  <2>1. ASSUME NEW n \in ToSet(r)
        PROVE  n \in ToSet(s) \cup {e}
    <3> HIDE DEF from
    <3> QED
      BY <1>3, <1>5, <2>1, Zenon DEF ToSet
  <2>2. ASSUME NEW n \in ToSet(s)
        PROVE  n \in ToSet(r)
    <3>1. PICK i \in 1 .. Len(s) : s[i] = n
      BY <1>2 DEF ToSet
    <3> DEFINE j == IF i < k THEN i ELSE i + 1
    <3>2. j \in DOMAIN r /\ r[j] = s[i]
      BY <1>1, <1>2
    <3> QED
      BY <3>1, <3>2 DEF ToSet
  <2>3. e \in ToSet(r)
    BY <1>5 DEF ToSet
  <2> QED
    BY <2>1, <2>2, <2>3
<1> QED
  BY <1>1, <1>7, <1>8, <1>9 DEF r

\* The place at which sim_insert stops: everything before it is at most t,
\* everything from it on, in a sorted list, at least t.
LEMMA RankProperties ==
    ASSUME NEW s \in Seq(Notice), NEW t \in Nat, NEW prior, Sorted(s)
    PROVE  LET k == Rank(s, t, prior)
           IN  /\ k \in 1 .. Len(s) + 1
               /\ \A j \in 1 .. k - 1 : s[j].evtime <= t
               /\ \A j \in k .. Len(s) : t <= s[j].evtime
<1> DEFINE I == {i \in 1 .. Len(s) + 1 :
                   i <= Len(s) => s[i].evtime > t \/ (s[i].evtime = t /\ prior)}
           k == Rank(s, t, prior)
<1>1. Len(s) \in Nat /\ DOMAIN s = 1 .. Len(s)
  OBVIOUS
<1>2. \A i \in 1 .. Len(s) : s[i].evtime \in Nat
  <2>1. \A i \in 1 .. Len(s) : s[i] \in Notice
    BY ElementOfSeq
  <2> QED
    BY <2>1 DEF Notice
<1>3. I \in SUBSET Nat /\ Len(s) + 1 \in I
  BY <1>1
<1>4. k \in I /\ \A n \in I : k <= n
  BY <1>3, MinNat DEF Rank
<1> HIDE DEF k
<1>5. ASSUME NEW j \in 1 .. k - 1
      PROVE  s[j].evtime <= t
  BY <1>1, <1>2, <1>4
<1>6. ASSUME NEW j \in k .. Len(s)
      PROVE  t <= s[j].evtime
  <2>1. k \in 1 .. Len(s) /\ t <= s[k].evtime
    BY <1>1, <1>2, <1>4
  <2>2. s[k].evtime <= s[j].evtime
    BY <1>1, <1>2, <2>1 DEF Sorted
  <2> QED
    BY <1>1, <1>2, <2>1, <2>2
<1> QED
  BY <1>4, <1>5, <1>6 DEF k

\* sim_insert as a whole.
LEMMA InsertProperties ==
    ASSUME NEW s \in Seq(Notice), NEW p \in Proc, NEW t \in Int, NEW prior,
           time \in Nat, Unique(s), Sorted(s), ~ HasNotice(s, p)
    PROVE  LET r == Insert(s, p, t, prior)
               e == [obj |-> p, evtime |-> Clamped(t)]
           IN  /\ r \in Seq(Notice)
               /\ Unique(r) /\ Sorted(r)
               /\ e \in Notice /\ time <= e.evtime
               /\ ToSet(r) = ToSet(s) \cup {e}
<1> DEFINE e == [obj |-> p, evtime |-> Clamped(t)]
           k == Rank(s, Clamped(t), prior)
<1>1. Clamped(t) \in Nat /\ time <= Clamped(t)
  BY DEF Clamped
<1>2. e \in Notice /\ e.obj = p /\ e.evtime = Clamped(t)
  BY <1>1 DEF Notice
<1>3. /\ k \in 1 .. Len(s) + 1
      /\ \A j \in 1 .. k - 1 : s[j].evtime <= Clamped(t)
      /\ \A j \in k .. Len(s) : Clamped(t) <= s[j].evtime
  BY <1>1, RankProperties
<1>4. Insert(s, p, t, prior) = InsertAt(s, k, e)
  BY DEF Insert
<1> HIDE DEF e, k
<1> QED
  BY <1>1, <1>2, <1>3, <1>4, InsertAtKeepsOrder DEF e

\* A process has a notice in s exactly if one of the elements of s is its.
LEMMA HasNoticeToSet ==
    ASSUME NEW s, NEW p
    PROVE  HasNotice(s, p) <=> \E n \in ToSet(s) : n.obj = p
BY DEF HasNotice, ToSet

-----------------------------------------------------------------------------
(* The invariant.                                                          *)

\* What holds of every notice in the sequencing set.
Waiting(n) ==
    /\ time <= n.evtime
    /\ n.obj # current
    /\ n.obj \notin terminated
    /\ coro[n.obj] = "detached"

SqsInv == Unique(sqs) /\ Sorted(sqs) /\ \A n \in ToSet(sqs) : Waiting(n)

\* What holds of the other variables.
ControlInv ==
    /\ status = "running" => \A p \in Proc : coro[p] = "running" <=> p = current
    /\ current \notin terminated
    /\ current \in Proc => loop # "none"
    /\ loop = "timed" => time <= until
    /\ ResumesOnlyDetached

IInv == TypeOK /\ SqsInv /\ ControlInv

LEMMA InitIInv == Init => IInv
<1> SUFFICES ASSUME Init PROVE IInv
  OBVIOUS
<1>1. TypeOK
  BY SimulationAssumption DEF Init, TypeOK, Actor, Loops
<1>2. SqsInv
  BY DEF Init, SqsInv, Unique, Sorted, ToSet
<1>3. ControlInv
  BY SimulationAssumption DEF Init, ControlInv, ResumesOnlyDetached, Ends
<1> QED
  BY <1>1, <1>2, <1>3 DEF IInv

\* The inductive invariant says the same as the invariants the runs check.
LEMMA IInvImplies == IInv => OneNotice /\ Ordered /\ Consistent /\ ResumesOnlyDetached
<1> SUFFICES ASSUME IInv PROVE OneNotice /\ Ordered /\ Consistent
  BY DEF IInv, ControlInv
<1>1. \A i \in DOMAIN sqs : Waiting(sqs[i])
  BY DEF IInv, SqsInv, ToSet
<1>2. OneNotice
  BY <1>1 DEF IInv, SqsInv, Unique, Waiting, OneNotice, HasNotice
<1>3. Ordered
  BY <1>1 DEF IInv, SqsInv, Sorted, Waiting, Ordered
<1>4. Consistent
  BY <1>1 DEF IInv, ControlInv, Waiting, Consistent
<1> QED
  BY <1>2, <1>3, <1>4

-----------------------------------------------------------------------------
(* Preservation, one lemma per action.                                     *)

\* Facts every step of an actor with control starts from.
LEMMA ControlFacts ==
    ASSUME IInv, NEW c \in Actor, Control(c)
    PROVE  /\ c \notin terminated
           /\ ~ HasNotice(sqs, c)
           /\ \A p \in Proc : Born(p) /\ p # c => coro[p] = "detached"
           /\ c \in Proc => loop # "none"
<1>1. ~ HasNotice(sqs, c)
  BY HasNoticeToSet DEF IInv, SqsInv, Waiting, Control
<1>2. \A p \in Proc : Born(p) /\ p # c => coro[p] = "detached"
  BY DEF IInv, ControlInv, TypeOK, Born, Control
<1> QED
  BY <1>1, <1>2 DEF IInv, ControlInv, Control

LEMMA NewProcessIInv ==
    ASSUME IInv, NEW c \in Actor, NEW p \in Proc, NewProcess(c, p)
    PROVE  IInv'
<1> USE DEF NewProcess
<1>1. TypeOK'
  BY DEF IInv, TypeOK
<1>2. SqsInv'
  <2>1. \A n \in ToSet(sqs) : Waiting(n)'
    BY DEF IInv, SqsInv, TypeOK, Waiting
  <2> QED
    BY <2>1 DEF IInv, SqsInv, Unique, Sorted, ToSet
<1>3. ControlInv'
  BY DEF IInv, ControlInv, TypeOK, Control, ResumesOnlyDetached
<1> QED
  BY <1>1, <1>2, <1>3 DEF IInv

\* Actor c keeps control, or c is a process and gives it up.
Stays(c)  == UNCHANGED <<coro, current>> /\ ~ HasNotice(sqs', c)
Leaves(c) == c \in Proc /\ Yield(c)

\* A statement made by c that leaves a well-formed list behind, whose notices
\* are old ones or belong to live processes and are not in the past.
LEMMA StatementIInv ==
    ASSUME IInv, NEW c \in Actor, Control(c),
           Stays(c) \/ Leaves(c),
           UNCHANGED <<time, terminated, status>>,
           loop' \in Loops, until' \in Nat,
           loop' = "timed" => time <= until',
           c \in Proc => loop' # "none",
           sqs' \in Seq(Notice), Unique(sqs'), Sorted(sqs'),
           \A n \in ToSet(sqs') :
              \/ n \in ToSet(sqs)
              \/ Born(n.obj) /\ n.obj \notin terminated /\ time <= n.evtime
    PROVE  IInv'
<1>1. TypeOK'
  BY DEF IInv, TypeOK, Stays, Leaves, Yield, Actor
<1>2. SqsInv'
  <2>1. ASSUME NEW n \in ToSet(sqs')
        PROVE  Waiting(n)'
    <3>1. n \in Notice
      BY <2>1, RangeOfSeq DEF ToSet
    <3>2. n.obj \in Proc /\ n.obj # NULL
      BY <3>1, SimulationAssumption DEF Notice
    <3>3. n.obj \notin terminated /\ time <= n.evtime
      BY <2>1 DEF IInv, SqsInv, Waiting
    <3>4. n.obj # c => coro[n.obj] = "detached"
      BY <2>1, <3>2, ControlFacts DEF IInv, SqsInv, Waiting
    <3>5. CASE Stays(c)
      <4>1. n.obj # c
        BY <2>1, <3>5, HasNoticeToSet DEF Stays
      <4> QED
        BY <3>3, <3>4, <3>5, <4>1 DEF Waiting, Stays, Control
    <3>6. CASE Leaves(c)
      <4>1. coro'[n.obj] = "detached"
        BY <3>2, <3>4, <3>6 DEF IInv, TypeOK, Leaves, Yield
      <4> QED
        BY <3>2, <3>3, <3>6, <4>1 DEF Waiting, Leaves, Yield
    <3> QED
      BY <3>5, <3>6
  <2> QED
    BY <2>1 DEF SqsInv
<1>3. ControlInv'
  <2>1. CASE Stays(c)
    BY <2>1 DEF IInv, ControlInv, Stays, Control, ResumesOnlyDetached
  <2>2. CASE Leaves(c)
    BY <2>2, SimulationAssumption
    DEF IInv, TypeOK, ControlInv, Leaves, Yield, Control, ResumesOnlyDetached
  <2> QED
    BY <2>1, <2>2
<1> QED
  BY <1>1, <1>2, <1>3 DEF IInv

\* A statement of c about p: it yields only if p is c itself, p is a live
\* process, and every other notice was there before.
LEMMA ScheduleIInv ==
    ASSUME IInv, NEW c \in Actor, NEW p \in Proc, Control(c),
           YieldIfSelf(c, p),
           Born(p), p \notin terminated,
           UNCHANGED <<time, terminated, loop, until, status>>,
           sqs' \in Seq(Notice), Unique(sqs'), Sorted(sqs'),
           \A n \in ToSet(sqs') :
              \/ n \in ToSet(sqs)
              \/ n.obj = p /\ time <= n.evtime
    PROVE  IInv'
<1>1. Stays(c) \/ Leaves(c)
  <2>1. CASE p = c
    BY <2>1 DEF YieldIfSelf, Leaves
  <2>2. CASE p # c
    <3>1. \A n \in ToSet(sqs') : n.obj # c
      BY <2>2, ControlFacts, HasNoticeToSet
    <3> QED
      BY <2>2, <3>1, HasNoticeToSet DEF YieldIfSelf, Stays
  <2> QED
    BY <2>1, <2>2
<1>2. /\ loop' \in Loops /\ until' \in Nat
      /\ loop' = "timed" => time <= until'
      /\ c \in Proc => loop' # "none"
  BY ControlFacts DEF IInv, TypeOK, ControlInv
<1> QED
  BY <1>1, <1>2, StatementIInv

\* What is left of the sequencing set once p's notice is out of it.
LEMMA WithoutSqs ==
    ASSUME IInv, NEW p
    PROVE  LET rest == Without(sqs, p)
           IN  /\ rest \in Seq(Notice) /\ Unique(rest) /\ Sorted(rest)
               /\ ToSet(rest) = {n \in ToSet(sqs) : n.obj # p}
               /\ ~ HasNotice(rest, p)
<1>1. sqs \in Seq(Notice) /\ Unique(sqs) /\ Sorted(sqs)
  BY DEF IInv, TypeOK, SqsInv
<1> QED
  BY <1>1, WithoutProperties, HasNoticeToSet

LEMMA ActivateIInv ==
    ASSUME IInv, NEW c \in Actor, NEW p \in Proc, NEW t \in Times,
           NEW prior \in BOOLEAN, NEW re \in BOOLEAN,
           Activate(c, p, t, prior, re)
    PROVE  IInv'
<1> DEFINE rest == Without(sqs, p)
           e == [obj |-> p, evtime |-> Clamped(t)]
<1>1. /\ rest \in Seq(Notice) /\ Unique(rest) /\ Sorted(rest)
      /\ ToSet(rest) = {n \in ToSet(sqs) : n.obj # p}
      /\ ~ HasNotice(rest, p)
  BY WithoutSqs
<1>2. t \in Int /\ time \in Nat
  BY SimulationAssumption DEF Times, IInv, TypeOK
<1>3. sqs' = Insert(rest, p, t, prior)
  BY DEF Activate
<1> HIDE DEF rest
<1>4. /\ sqs' \in Seq(Notice) /\ Unique(sqs') /\ Sorted(sqs')
      /\ time <= e.evtime
      /\ ToSet(sqs') = ToSet(rest) \cup {e}
  BY <1>1, <1>2, <1>3, InsertProperties
<1>5. \A n \in ToSet(sqs') : n \in ToSet(sqs) \/ (n.obj = p /\ time <= n.evtime)
  BY <1>1, <1>4
<1> QED
  BY <1>4, <1>5, ScheduleIInv DEF Activate, MayActivate

LEMMA ActivateNextToIdleIInv ==
    ASSUME IInv, NEW c \in Actor, NEW p \in Proc, NEW q \in Proc,
           NEW re \in BOOLEAN, ActivateNextToIdle(c, p, q, re)
    PROVE  IInv'
<1>1. /\ sqs' \in Seq(Notice) /\ Unique(sqs') /\ Sorted(sqs')
      /\ ToSet(sqs') = {n \in ToSet(sqs) : n.obj # p}
  BY WithoutSqs DEF ActivateNextToIdle
<1> QED
  BY <1>1, ScheduleIInv DEF ActivateNextToIdle

LEMMA CancelIInv ==
    ASSUME IInv, NEW c \in Actor, NEW p \in Proc, Cancel(c, p)
    PROVE  IInv'
<1>1. /\ sqs' \in Seq(Notice) /\ Unique(sqs') /\ Sorted(sqs')
      /\ ToSet(sqs') = {n \in ToSet(sqs) : n.obj # p}
  BY WithoutSqs DEF Cancel
<1>2. Stays(c) \/ Leaves(c)
  <2>1. p # c => ~ HasNotice(sqs', c)
    BY <1>1, ControlFacts, HasNoticeToSet DEF Cancel
  <2> QED
    BY <2>1 DEF Cancel, YieldIfSelf, Stays, Leaves
<1>3. /\ loop' \in Loops /\ until' \in Nat
      /\ loop' = "timed" => time <= until'
      /\ c \in Proc => loop' # "none"
  BY ControlFacts DEF Cancel, IInv, TypeOK, ControlInv
<1> QED
  BY <1>1, <1>2, <1>3, StatementIInv DEF Cancel

\* Next to a notice of a sorted list there is room for one of the same time.
LEMMA ActivateNextToIInv ==
    ASSUME IInv, NEW c \in Actor, NEW p \in Proc, NEW q \in Proc,
           NEW before \in BOOLEAN, NEW re \in BOOLEAN,
           ActivateNextTo(c, p, q, before, re)
    PROVE  IInv'
<1> DEFINE rest  == Without(sqs, p)
           place == PlaceOf(rest, q)
           k     == IF before THEN place ELSE place + 1
           e     == [obj |-> p, evtime |-> rest[place].evtime]
<1>1. /\ rest \in Seq(Notice) /\ Unique(rest) /\ Sorted(rest)
      /\ ToSet(rest) = {n \in ToSet(sqs) : n.obj # p}
      /\ ~ HasNotice(rest, p)
  BY WithoutSqs
<1>2. /\ Control(c) /\ Born(p) /\ p \notin terminated
      /\ UNCHANGED <<time, terminated, loop, until, status>>
  BY DEF ActivateNextTo, MayActivate
<1>3. CASE HasNotice(rest, q)
  <2>1. sqs' = InsertAt(rest, k, e) /\ YieldIfSelf(c, p)
    BY <1>3 DEF ActivateNextTo
  <2> HIDE DEF rest
  <2>2. place \in 1 .. Len(rest) /\ DOMAIN rest = 1 .. Len(rest) /\ Len(rest) \in Nat
    BY <1>1, <1>3, PlaceOfProperties
  <2> HIDE DEF place
  <2>3. rest[place] \in Notice /\ rest[place] \in ToSet(rest)
    BY <1>1, <2>2 DEF ToSet
  <2>4. e \in Notice /\ e.obj = p /\ e.evtime = rest[place].evtime
    BY <2>3 DEF Notice
  <2>5. k \in 1 .. Len(rest) + 1
    BY <2>2
  <2>6. /\ \A j \in 1 .. k - 1 : rest[j].evtime <= e.evtime
        /\ \A j \in k .. Len(rest) : e.evtime <= rest[j].evtime
    <3>1. \A i \in 1 .. Len(rest) : rest[i].evtime \in Nat
      <4>1. \A i \in 1 .. Len(rest) : rest[i] \in Notice
        BY <1>1, ElementOfSeq
      <4> QED
        BY <4>1 DEF Notice
    <3>2. \A i \in 1 .. Len(rest) :
            /\ i <= place => rest[i].evtime <= e.evtime
            /\ place <= i => e.evtime <= rest[i].evtime
      BY <1>1, <2>2, <2>4, <3>1 DEF Sorted
    <3> HIDE DEF e
    <3> QED
      BY <2>2, <3>2
  <2> HIDE DEF k, e
  <2>7. /\ sqs' \in Seq(Notice) /\ Unique(sqs') /\ Sorted(sqs')
        /\ ToSet(sqs') = ToSet(rest) \cup {e}
    BY <1>1, <2>1, <2>4, <2>5, <2>6, InsertAtKeepsOrder
  <2>8. time <= e.evtime
    BY <1>1, <2>3, <2>4 DEF IInv, SqsInv, Waiting
  <2>9. \A n \in ToSet(sqs') : n \in ToSet(sqs) \/ (n.obj = p /\ time <= n.evtime)
    BY <1>1, <2>4, <2>7, <2>8
  <2> QED
    BY <1>2, <2>1, <2>7, <2>9, ScheduleIInv
<1>4. CASE ~ HasNotice(rest, q)
  <2>1. sqs' = rest /\ UNCHANGED <<coro, current>>
    BY <1>4 DEF ActivateNextTo
  <2> HIDE DEF rest
  <2>2. Stays(c)
    BY <1>1, <1>2, <2>1, ControlFacts, HasNoticeToSet DEF Stays
  <2>3. /\ loop' \in Loops /\ until' \in Nat
        /\ loop' = "timed" => time <= until'
        /\ c \in Proc => loop' # "none"
    BY <1>2, ControlFacts DEF IInv, TypeOK, ControlInv
  <2> QED
    BY <1>1, <1>2, <2>1, <2>2, <2>3, StatementIInv
<1> QED
  BY <1>3, <1>4

LEMMA ActivateNowIInv ==
    ASSUME IInv, NEW c \in Actor, NEW p \in Proc, NEW re \in BOOLEAN,
           ActivateNow(c, p, re)
    PROVE  IInv'
<1> DEFINE rest == Without(sqs, p)
           self == IF c = NULL THEN rest ELSE Insert(rest, c, time, TRUE)
<1>1. /\ rest \in Seq(Notice) /\ Unique(rest) /\ Sorted(rest)
      /\ ToSet(rest) = {n \in ToSet(sqs) : n.obj # p}
      /\ ~ HasNotice(rest, p)
  BY WithoutSqs
<1>2. /\ Control(c) /\ Born(p) /\ p \notin terminated /\ p # c
      /\ UNCHANGED <<time, terminated, status>>
      /\ sqs' = Insert(self, p, time, TRUE)
  BY DEF ActivateNow, MayActivate
<1>3. time \in Nat /\ time \in Int
  BY DEF IInv, TypeOK
<1> HIDE DEF rest
<1>4. /\ self \in Seq(Notice) /\ Unique(self) /\ Sorted(self)
      /\ ~ HasNotice(self, p)
      /\ \A n \in ToSet(self) :
           \/ n \in ToSet(sqs)
           \/ c \in Proc /\ n.obj = c /\ time <= n.evtime
  <2>1. CASE c = NULL
    BY <1>1, <2>1
  <2>2. CASE c # NULL
    <3>1. c \in Proc /\ ~ HasNotice(rest, c)
      BY <1>1, <1>2, <2>2, ControlFacts, HasNoticeToSet DEF Actor
    <3> DEFINE e == [obj |-> c, evtime |-> Clamped(time)]
    <3>2. /\ self \in Seq(Notice) /\ Unique(self) /\ Sorted(self)
          /\ time <= e.evtime
          /\ ToSet(self) = ToSet(rest) \cup {e}
      BY <1>1, <1>3, <2>2, <3>1, InsertProperties
    <3> HIDE DEF self
    <3>3. ~ HasNotice(self, p)
      BY <1>1, <1>2, <3>2, HasNoticeToSet
    <3> QED
      BY <1>1, <3>1, <3>2, <3>3
  <2> QED
    BY <2>1, <2>2
<1> HIDE DEF self
<1> DEFINE e == [obj |-> p, evtime |-> Clamped(time)]
<1>5. /\ sqs' \in Seq(Notice) /\ Unique(sqs') /\ Sorted(sqs')
      /\ time <= e.evtime
      /\ ToSet(sqs') = ToSet(self) \cup {e}
  BY <1>2, <1>3, <1>4, InsertProperties
<1>6. c \in Proc => Born(c) /\ c \notin terminated
  BY <1>2, ControlFacts DEF IInv, TypeOK, ControlInv, Control, Born
<1>7. \A n \in ToSet(sqs') :
        \/ n \in ToSet(sqs)
        \/ Born(n.obj) /\ n.obj \notin terminated /\ time <= n.evtime
  <2> TAKE n \in ToSet(sqs')
  <2>1. CASE n = e
    BY <1>2, <1>5, <2>1
  <2>2. CASE n \in ToSet(self)
    BY <1>4, <1>6, <2>2, Zenon
  <2> QED
    BY <1>5, <2>1, <2>2
<1>8. CASE c = NULL
  <2>1. UNCHANGED <<coro, current>> /\ loop' = "timed" /\ until' = time
    BY <1>8 DEF ActivateNow, EnterLoop
  <2>2. \A n \in ToSet(sqs') : n.obj # NULL
    <3>1. \A n \in ToSet(sqs') : n \in Notice
      BY <1>5, RangeOfSeq DEF ToSet
    <3> QED
      BY <3>1, SimulationAssumption DEF Notice
  <2>3. Stays(c)
    BY <1>8, <2>1, <2>2, HasNoticeToSet DEF Stays
  <2>4. /\ loop' \in Loops /\ until' \in Nat
        /\ loop' = "timed" => time <= until'
        /\ c \in Proc => loop' # "none"
    BY <1>3, <2>1 DEF Loops
  <2> QED
    BY <1>2, <1>5, <1>7, <2>3, <2>4, StatementIInv
<1>9. CASE c # NULL
  <2>1. Leaves(c) /\ UNCHANGED <<loop, until>>
    BY <1>9 DEF ActivateNow, Leaves, Actor
  <2>2. /\ loop' \in Loops /\ until' \in Nat
        /\ loop' = "timed" => time <= until'
        /\ c \in Proc => loop' # "none"
    BY <1>2, <2>1, ControlFacts DEF IInv, TypeOK, ControlInv
  <2> QED
    BY <1>2, <1>5, <1>7, <2>1, <2>2, StatementIInv
<1> QED
  BY <1>8, <1>9

LEMMA HoldIInv ==
    ASSUME IInv, NEW c \in Actor, NEW dt \in Times, Hold(c, dt)
    PROVE  IInv'
<1> DEFINE t == time + (IF dt < 0 THEN 0 ELSE dt)
           e == [obj |-> c, evtime |-> Clamped(t)]
<1>1. dt \in Int /\ time \in Nat
  BY SimulationAssumption DEF Times, IInv, TypeOK
<1>2. t \in Nat /\ t \in Int /\ time <= t
  BY <1>1
<1>3. Control(c) /\ UNCHANGED <<time, terminated, status>>
  BY DEF Hold
<1>4. sqs \in Seq(Notice) /\ Unique(sqs) /\ Sorted(sqs)
  BY DEF IInv, TypeOK, SqsInv
<1>5. CASE c = NULL
  <2>1. UNCHANGED <<sqs, coro, current>> /\ loop' = "timed" /\ until' = t
    BY <1>5 DEF Hold, EnterLoop
  <2> HIDE DEF t
  <2>2. /\ loop' \in Loops /\ until' \in Nat
        /\ loop' = "timed" => time <= until'
        /\ c \in Proc => loop' # "none"
    BY <1>2, <2>1 DEF Loops
  <2>3. Stays(c)
    BY <1>3, <2>1, ControlFacts DEF Stays, HasNotice
  <2> QED
    BY <1>3, <1>4, <2>1, <2>2, <2>3, StatementIInv
<1>6. CASE c # NULL
  <2>1. /\ c \in Proc /\ Leaves(c) /\ UNCHANGED <<loop, until>>
        /\ sqs' = Insert(sqs, c, t, FALSE)
    BY <1>6 DEF Hold, Leaves, Actor
  <2> HIDE DEF t
  <2>2. ~ HasNotice(sqs, c) /\ Born(c) /\ c \notin terminated
    BY <1>3, <2>1, ControlFacts DEF IInv, TypeOK, ControlInv, Control, Born
  <2>3. /\ sqs' \in Seq(Notice) /\ Unique(sqs') /\ Sorted(sqs')
        /\ time <= e.evtime
        /\ ToSet(sqs') = ToSet(sqs) \cup {e}
    BY <1>1, <1>2, <1>4, <2>1, <2>2, InsertProperties
  <2>4. /\ loop' \in Loops /\ until' \in Nat
        /\ loop' = "timed" => time <= until'
        /\ c \in Proc => loop' # "none"
    BY <1>3, <2>1, ControlFacts DEF IInv, TypeOK, ControlInv
  <2>5. \A n \in ToSet(sqs') :
          \/ n \in ToSet(sqs)
          \/ Born(n.obj) /\ n.obj \notin terminated /\ time <= n.evtime
    BY <2>2, <2>3
  <2> QED
    BY <1>3, <2>1, <2>3, <2>4, <2>5, StatementIInv
<1> QED
  BY <1>5, <1>6

LEMMA PassivateIInv ==
    ASSUME IInv, NEW c \in Actor, Passivate(c)
    PROVE  IInv'
<1>1. Control(c) /\ UNCHANGED <<sqs, time, terminated, status>>
  BY DEF Passivate
<1>2. sqs \in Seq(Notice) /\ Unique(sqs) /\ Sorted(sqs)
  BY DEF IInv, TypeOK, SqsInv
<1>3. Stays(c) \/ Leaves(c)
  BY <1>1, ControlFacts DEF Passivate, Stays, Leaves, HasNotice, Actor
<1>4. /\ loop' \in Loops /\ until' \in Nat
      /\ loop' = "timed" => time <= until'
      /\ c \in Proc => loop' # "none"
  BY <1>1, ControlFacts, SimulationAssumption
  DEF Passivate, EnterLoop, Loops, IInv, TypeOK, ControlInv
<1> QED
  BY <1>1, <1>2, <1>3, <1>4, StatementIInv

LEMMA TerminateIInv ==
    ASSUME IInv, NEW c \in Actor, Terminate(c)
    PROVE  IInv'
<1>1. /\ c \in Proc /\ Control(c) /\ Yield(c)
      /\ terminated' = terminated \cup {c}
      /\ UNCHANGED <<time, loop, until, status>>
  BY DEF Terminate
<1>2. /\ sqs' \in Seq(Notice) /\ Unique(sqs') /\ Sorted(sqs')
      /\ ToSet(sqs') = {n \in ToSet(sqs) : n.obj # c}
  BY WithoutSqs DEF Terminate
<1>3. TypeOK'
  BY <1>1, <1>2 DEF IInv, TypeOK, Yield, Actor
<1>4. SqsInv'
  <2>1. ASSUME NEW n \in ToSet(sqs')
        PROVE  Waiting(n)'
    <3>1. n \in Notice
      BY <1>2, <2>1, RangeOfSeq DEF ToSet
    <3>2. n.obj \in Proc /\ n.obj # NULL
      BY <3>1, SimulationAssumption DEF Notice
    <3>3. Waiting(n) /\ n.obj # c
      BY <1>2, <2>1 DEF IInv, SqsInv
    <3> QED
      BY <1>1, <3>2, <3>3 DEF Waiting, Yield, IInv, TypeOK
  <2> QED
    BY <1>2, <2>1 DEF SqsInv
<1>5. ControlInv'
  <2>1. current' = NULL /\ coro' = [coro EXCEPT ![c] = "detached"]
    BY <1>1 DEF Yield
  <2>2. \A p \in Proc : coro'[p] # "running" /\ p # NULL
    BY <1>1, <2>1, SimulationAssumption DEF IInv, TypeOK, ControlInv, Control
  <2>3. NULL \notin terminated'
    BY <1>1, SimulationAssumption DEF IInv, TypeOK
  <2> QED
    BY <1>1, <2>1, <2>2, <2>3 DEF IInv, ControlInv, ResumesOnlyDetached
<1> QED
  BY <1>3, <1>4, <1>5 DEF IInv

\* Steps that only end the program.
LEMMA EndIInv ==
    ASSUME IInv,
           status' \in {"finished", "evtime error"},
           UNCHANGED <<sqs, time, current, terminated, coro, loop, until>>
    PROVE  IInv'
<1>1. TypeOK'
  BY DEF IInv, TypeOK, Ends
<1>2. SqsInv'
  BY DEF IInv, SqsInv, Unique, Sorted, ToSet, Waiting
<1>3. ControlInv'
  BY DEF IInv, ControlInv, ResumesOnlyDetached
<1> QED
  BY <1>1, <1>2, <1>3 DEF IInv

\* The head of the list is its first notice and belongs to a live, suspended
\* process; the tail is the rest of it.
LEMMA HeadFacts ==
    ASSUME IInv, sqs # << >>
    PROVE  /\ Head(sqs) \in Notice /\ Waiting(Head(sqs))
           /\ \A n \in ToSet(sqs) : Head(sqs).evtime <= n.evtime
           /\ Tail(sqs) \in Seq(Notice) /\ Unique(Tail(sqs)) /\ Sorted(Tail(sqs))
           /\ ToSet(Tail(sqs)) = {n \in ToSet(sqs) : n.obj # Head(sqs).obj}
<1> DEFINE r == Tail(sqs)
<1>1. /\ sqs \in Seq(Notice) /\ Unique(sqs) /\ Sorted(sqs)
      /\ DOMAIN sqs = 1 .. Len(sqs) /\ Len(sqs) \in Nat /\ 1 \in DOMAIN sqs
  BY DEF IInv, TypeOK, SqsInv
<1>2. Head(sqs) = sqs[1] /\ sqs[1] \in ToSet(sqs)
  BY <1>1 DEF ToSet
<1>3. /\ r \in Seq(Notice) /\ Len(r) = Len(sqs) - 1
      /\ \A i \in 1 .. Len(r) : r[i] = sqs[i + 1]
  BY <1>1, HeadTailProperties
<1> HIDE DEF r
<1>4. DOMAIN r = 1 .. Len(sqs) - 1
  BY <1>3
<1>5. Head(sqs) \in Notice /\ Waiting(Head(sqs))
  BY <1>1, <1>2 DEF IInv, SqsInv
<1>6. \A n \in ToSet(sqs) : Head(sqs).evtime <= n.evtime
  <2>1. sqs[1].evtime \in Nat
    BY <1>2, <1>5 DEF Notice
  <2>2. ASSUME NEW i \in DOMAIN sqs
        PROVE  sqs[1].evtime <= sqs[i].evtime
    BY <1>1, <2>1 DEF Sorted
  <2> QED
    BY <1>2, <2>2 DEF ToSet
<1> DEFINE from(i) == i + 1
<1>a. \A i \in DOMAIN r : from(i) \in DOMAIN sqs /\ r[i] = sqs[from(i)]
  BY <1>1, <1>3, <1>4
<1>b. \A i, j \in DOMAIN r : (i < j <=> from(i) < from(j)) /\ (from(i) = from(j) => i = j)
  BY <1>4
<1> HIDE DEF from
<1>7. Unique(r)
  <2> SUFFICES ASSUME NEW i \in DOMAIN r, NEW j \in DOMAIN r, r[i].obj = r[j].obj
               PROVE  i = j
    BY DEF Unique
  <2>1. from(i) \in DOMAIN sqs /\ from(j) \in DOMAIN sqs
    BY <1>a
  <2>2. sqs[from(i)].obj = sqs[from(j)].obj
    BY <1>a
  <2>3. from(i) = from(j)
    BY <1>1, <2>1, <2>2 DEF Unique
  <2> QED
    BY <1>b, <2>3
<1>8. Sorted(r)
  BY <1>1, <1>a, <1>b, Zenon DEF Sorted
<1>9. ToSet(r) = {n \in ToSet(sqs) : n.obj # Head(sqs).obj}
  <2>1. ASSUME NEW n \in ToSet(r)
        PROVE  n \in ToSet(sqs) /\ n.obj # sqs[1].obj
    BY <1>1, <1>3, <1>4, <2>1 DEF ToSet, Unique
  <2>2. ASSUME NEW n \in ToSet(sqs), n.obj # sqs[1].obj
        PROVE  n \in ToSet(r)
    <3>1. PICK i \in 1 .. Len(sqs) : sqs[i] = n
      BY <1>1 DEF ToSet
    <3>2. i # 1
      BY <2>2, <3>1
    <3>3. i - 1 \in DOMAIN r /\ r[i - 1] = sqs[i]
      BY <1>1, <1>3, <1>4, <3>2
    <3> QED
      BY <3>1, <3>3 DEF ToSet
  <2> QED
    BY <1>2, <2>1, <2>2
<1> QED
  BY <1>3, <1>5, <1>6, <1>7, <1>8, <1>9 DEF r

LEMMA DispatchIInv ==
    ASSUME IInv, Dispatch
    PROVE  IInv'
<1> DEFINE h == Head(sqs)
<1>1. /\ status = "running" /\ current = NULL /\ loop # "none" /\ sqs # << >>
      /\ loop = "timed" => h.evtime <= until
      /\ sqs' = Tail(sqs) /\ time' = h.evtime
      /\ UNCHANGED <<terminated, loop, until>>
  BY DEF Dispatch, InLoop, Due
<1>2. /\ h \in Notice /\ Waiting(h)
      /\ \A n \in ToSet(sqs) : h.evtime <= n.evtime
      /\ sqs' \in Seq(Notice) /\ Unique(sqs') /\ Sorted(sqs')
      /\ ToSet(sqs') = {n \in ToSet(sqs) : n.obj # h.obj}
  BY <1>1, HeadFacts
<1>3. h.obj \in Proc /\ h.evtime \in Nat
  BY <1>2 DEF Notice
<1>4. /\ current' = h.obj /\ status' = status
      /\ coro' = [coro EXCEPT ![h.obj] = "running"]
      /\ h.obj \notin terminated
  BY <1>2 DEF Dispatch, Waiting
<1> HIDE DEF h
<1>5. TypeOK'
  BY <1>1, <1>2, <1>3, <1>4 DEF IInv, TypeOK, Actor
<1>6. SqsInv'
  <2>1. ASSUME NEW n \in ToSet(sqs')
        PROVE  Waiting(n)'
    <3>1. n \in Notice
      BY <1>2, <2>1, RangeOfSeq DEF ToSet
    <3>2. n.obj \in Proc
      BY <3>1 DEF Notice
    <3>3. Waiting(n) /\ n.obj # h.obj /\ h.evtime <= n.evtime
      BY <1>2, <2>1 DEF IInv, SqsInv
    <3> QED
      BY <1>1, <1>3, <1>4, <3>2, <3>3 DEF Waiting, IInv, TypeOK
  <2> QED
    BY <1>2, <2>1 DEF SqsInv
<1>7. ControlInv'
  <2>1. \A p \in Proc : coro[p] # "running"
    BY <1>1, SimulationAssumption DEF IInv, ControlInv
  <2>2. \A p \in Proc : coro'[p] = "running" <=> p = current'
    BY <1>3, <1>4, <2>1 DEF IInv, TypeOK
  <2> QED
    BY <1>1, <1>4, <2>2 DEF IInv, ControlInv, ResumesOnlyDetached
<1> QED
  BY <1>5, <1>6, <1>7 DEF IInv

LEMMA LeaveLoopIInv ==
    ASSUME IInv, LeaveLoop
    PROVE  IInv'
<1>1. /\ status = "running" /\ current = NULL
      /\ loop' = "none" /\ until' = 0
      /\ UNCHANGED <<sqs, current, terminated, coro>>
      /\ ~ Due
  BY DEF LeaveLoop, InLoop, EnterLoop
<1>2. /\ time' \in Nat /\ time <= time'
      /\ \A n \in ToSet(sqs) : time' <= n.evtime
  <2>1. CASE loop = "timed"
    <3>1. time <= until /\ time' = until
      BY <2>1 DEF LeaveLoop, Clamped, IInv, ControlInv, TypeOK
    <3>2. ASSUME NEW n \in ToSet(sqs)
          PROVE  until <= n.evtime
      <4>1. sqs # << >>
        BY DEF ToSet
      <4>2. Head(sqs) \in Notice /\ Head(sqs).evtime <= n.evtime
        BY <4>1, HeadFacts
      <4>3. n \in Notice
        BY RangeOfSeq DEF ToSet, IInv, TypeOK
      <4>4. ~ (Head(sqs).evtime <= until)
        BY <1>1, <4>1 DEF Due
      <4> QED
        BY <4>2, <4>3, <4>4 DEF Notice, IInv, TypeOK
    <3> QED
      BY <3>1, <3>2 DEF IInv, TypeOK
  <2>2. CASE loop # "timed"
    <3>1. time' = time
      BY <2>2 DEF LeaveLoop
    <3> QED
      BY <3>1 DEF IInv, TypeOK, SqsInv, Waiting
  <2> QED
    BY <2>1, <2>2
<1>3. status' \in {"running", "passivate error"}
  BY <1>1 DEF LeaveLoop
<1>4. TypeOK'
  BY <1>1, <1>2, <1>3 DEF IInv, TypeOK, Loops, Ends
<1>5. SqsInv'
  BY <1>1, <1>2 DEF IInv, SqsInv, Unique, Sorted, ToSet, Waiting
<1>6. ControlInv'
  BY <1>1, <1>3, SimulationAssumption DEF IInv, ControlInv, ResumesOnlyDetached
<1> QED
  BY <1>4, <1>5, <1>6 DEF IInv

-----------------------------------------------------------------------------
LEMMA StatementStep ==
    ASSUME IInv, NEW c \in Actor, Statement(c)
    PROVE  IInv'
<1>1. ASSUME NEW p \in Proc, EvtimeOfIdle(c, p)
      PROVE  IInv'
  BY <1>1, EndIInv DEF EvtimeOfIdle
<1> QED
  BY <1>1, NewProcessIInv, ActivateIInv, ActivateNextToIdleIInv, ActivateNextToIInv,
     ActivateNowIInv, HoldIInv, PassivateIInv, CancelIInv, TerminateIInv
  DEF Statement

LEMMA StutterIInv == IInv /\ UNCHANGED vars => IInv'
<1> SUFFICES ASSUME IInv, UNCHANGED vars PROVE IInv'
  OBVIOUS
<1> USE DEF vars
<1>1. TypeOK'
  BY DEF IInv, TypeOK
<1>2. SqsInv'
  BY DEF IInv, SqsInv, Unique, Sorted, ToSet, Waiting
<1>3. ControlInv'
  BY DEF IInv, ControlInv, ResumesOnlyDetached
<1> QED
  BY <1>1, <1>2, <1>3 DEF IInv

LEMMA NextIInv == IInv /\ [Next]_vars => IInv'
<1> SUFFICES ASSUME IInv, [Next]_vars PROVE IInv'
  OBVIOUS
<1>1. CASE \E c \in Actor : Statement(c)
  BY <1>1, StatementStep
<1>2. CASE MainLoop
  BY <1>2, DispatchIInv, LeaveLoopIInv DEF MainLoop
<1>3. CASE EndProgram
  BY <1>3, EndIInv DEF EndProgram
<1>4. CASE UNCHANGED vars
  BY <1>4, StutterIInv
<1> QED
  BY <1>1, <1>2, <1>3, <1>4 DEF Next

\* The inductive invariant holds throughout every run of the scheduler.
THEOREM Invariance == Spec => []IInv
BY InitIInv, NextIInv, PTL DEF Spec

\* Every variable of the scheduler keeps its type.
THEOREM TypeCorrect == Spec => []TypeOK
<1>1. IInv => TypeOK
  BY DEF IInv
<1> QED
  BY <1>1, Invariance, PTL

\* A process never has two event notices, and the operating and the
\* terminated processes have none, whatever statements a program makes:
\* deleting the first notice in sim_remove_notice is deleting them all.
THEOREM AtMostOneNotice == Spec => []OneNotice
BY IInvImplies, Invariance, PTL

\* The sequencing set is always in the order of event times and never
\* behind the clock, so that taking its head is taking the earliest event.
THEOREM AlwaysOrdered == Spec => []Ordered
BY IInvImplies, Invariance, PTL

\* The states of the coroutines agree with the sequencing set and with the
\* operating process.
THEOREM AlwaysConsistent == Spec => []Consistent
BY IInvImplies, Invariance, PTL

\* Dispatching never runs into the errors of RESUME.
THEOREM NeverResumeError == Spec => []ResumesOnlyDetached
BY IInvImplies, Invariance, PTL

-----------------------------------------------------------------------------
(* Action properties and refinement.                                       *)

\* A main program's HOLD, or direct activation, ends with the clock exactly
\* at the time asked for and with nothing left to do up to that time.
THEOREM HoldExactness == Spec => HoldIsExact
<1>1. IInv /\ [Next]_vars
        => [loop = "timed" /\ loop' = "none"
              => /\ time' = until
                 /\ \A i \in DOMAIN sqs' : sqs'[i].evtime > time']_vars
  <2> SUFFICES ASSUME IInv, Next, loop = "timed", loop' = "none"
               PROVE  /\ time' = until
                      /\ \A i \in DOMAIN sqs' : sqs'[i].evtime > time'
    BY DEF vars
  <2>1. LeaveLoop
    <3>1. ASSUME NEW c \in Actor, Statement(c)
          PROVE  FALSE
      BY <3>1, SimulationAssumption
      DEF Statement, NewProcess, Activate, ActivateNextToIdle, ActivateNextTo,
          ActivateNow, Hold, Passivate, Cancel, Terminate, EvtimeOfIdle,
          MayActivate, Control, EnterLoop
    <3>2. ~ Dispatch /\ ~ EndProgram
      BY DEF Dispatch, EndProgram
    <3> QED
      BY <3>1, <3>2 DEF Next, MainLoop
  <2>2. time' = until /\ sqs' = sqs /\ ~ Due
    BY <2>1 DEF LeaveLoop, Clamped, IInv, ControlInv, TypeOK
  <2>3. ASSUME NEW i \in DOMAIN sqs
        PROVE  sqs[i].evtime > until
    <3>1. sqs # << >> /\ sqs[i] \in ToSet(sqs)
      BY DEF ToSet
    <3>2. Head(sqs) \in Notice /\ Head(sqs).evtime <= sqs[i].evtime
      BY <3>1, HeadFacts
    <3>3. sqs[i] \in Notice
      BY DEF IInv, TypeOK
    <3>4. ~ (Head(sqs).evtime <= until)
      BY <2>2, <3>1 DEF Due
    <3> QED
      BY <3>2, <3>3, <3>4 DEF Notice, IInv, TypeOK
  <2> QED
    BY <2>2, <2>3
<1> QED
  BY <1>1, Invariance, PTL DEF Spec, HoldIsExact

-----------------------------------------------------------------------------
(* The sequencing set and its loop implement the abstract discrete event   *)
(* scheduler: Simulation's ImplementsEvents.  A dispatch is the start of   *)
(* the earliest event.  The end of a timed loop lets time pass.  Every     *)
(* other step leaves the clock alone, and since afterwards nothing is due  *)
(* in the past, all it can do is plan.                                     *)

\* When p is due according to the list s.
DueIn(s, p) == IF HasNotice(s, p) THEN s[PlaceOf(s, p)].evtime ELSE NULL

\* It is the time of the notice of p, if there is one.
LEMMA DueInProperties ==
    ASSUME NEW s \in Seq(Notice), Unique(s), NEW p \in Proc
    PROVE  /\ DueIn(s, p) \in Nat \cup {NULL}
           /\ DueIn(s, p) # NULL =>
                \E n \in ToSet(s) : n.obj = p /\ n.evtime = DueIn(s, p)
           /\ \A n \in ToSet(s) : n.obj = p => n.evtime = DueIn(s, p)
<1>1. CASE ~ HasNotice(s, p)
  BY <1>1, HasNoticeToSet DEF DueIn
<1>2. CASE HasNotice(s, p)
  <2> DEFINE i == PlaceOf(s, p)
  <2>1. i \in DOMAIN s /\ s[i].obj = p /\ s[i] \in Notice
    BY <1>2, PlaceOfProperties
  <2>2. DueIn(s, p) = s[i].evtime /\ s[i] \in ToSet(s) /\ s[i].evtime \in Nat
    BY <1>2, <2>1 DEF DueIn, ToSet, Notice
  <2> HIDE DEF i
  <2>3. ASSUME NEW j \in DOMAIN s, s[j].obj = p
        PROVE  s[j] = s[i]
    BY <2>1, <2>3 DEF Unique
  <2> QED
    BY <2>1, <2>2, <2>3 DEF ToSet
<1> QED
  BY <1>1, <1>2

LEMMA InitRefines == Init => Events!Init
<1> SUFFICES ASSUME Init PROVE Events!Init
  OBVIOUS
<1>1. \A p \in Proc : ~ HasNotice(sqs, p)
  BY DEF Init, HasNotice
<1> QED
  BY <1>1 DEF Init, Events!Init, DueTime

\* A step that leaves the clock alone and gives control to nobody plans.
LEMMA PlanRefines ==
    ASSUME IInv, IInv', time' = time, current' \in {current, NULL}
    PROVE  Events!Plan
<1>1. ASSUME NEW p \in Proc
      PROVE  DueTime(p)' \in Nat \cup {NULL} /\ (DueTime(p)' # NULL => DueTime(p)' >= time)
  <2>1. DueTime(p)' = DueIn(sqs', p)
    BY DEF DueTime, DueIn
  <2>2. sqs' \in Seq(Notice) /\ Unique(sqs') /\ \A n \in ToSet(sqs') : time' <= n.evtime
    BY DEF IInv, TypeOK, SqsInv, Waiting
  <2>3. time \in Nat
    BY DEF IInv, TypeOK
  <2> QED
    BY <2>1, <2>2, <2>3, DueInProperties
<1> QED
  BY <1>1 DEF Events!Plan

\* What a statement or the end of the program does to clock and control.
LEMMA StatementQuiet ==
    ASSUME NEW c \in Actor, Statement(c)
    PROVE  time' = time /\ current' \in {current, NULL}
  BY DEF Statement, NewProcess, Activate, ActivateNextToIdle, ActivateNextTo,
         ActivateNow, Hold, Passivate, Cancel, Terminate, EvtimeOfIdle,
         YieldIfSelf, Yield

LEMMA DispatchRefines ==
    ASSUME IInv, IInv', Dispatch
    PROVE  \E p \in Proc : Events!Start(p)
<1> DEFINE h == Head(sqs)
<1>1. /\ h \in Notice /\ Waiting(h) /\ h \in ToSet(sqs)
      /\ \A n \in ToSet(sqs) : h.evtime <= n.evtime
      /\ ToSet(sqs') = {n \in ToSet(sqs) : n.obj # h.obj}
  <2>1. sqs # << >> /\ sqs' = Tail(sqs)
    BY DEF Dispatch, Due
  <2>2. h \in ToSet(sqs)
    BY <2>1 DEF IInv, TypeOK, ToSet
  <2> QED
    BY <2>1, <2>2, HeadFacts
<1>2. /\ current = NULL /\ current' = h.obj /\ time' = h.evtime
      /\ h.obj \in Proc /\ h.evtime \in Nat
  BY <1>1 DEF Dispatch, InLoop, Waiting, Notice
<1> HIDE DEF h
<1>3. /\ sqs \in Seq(Notice) /\ Unique(sqs) /\ sqs' \in Seq(Notice) /\ Unique(sqs')
      /\ NULL \notin Nat
  BY SimulationAssumption DEF IInv, TypeOK, SqsInv
<1>4. ASSUME NEW p \in Proc
      PROVE  DueIn(sqs', p) = IF p = h.obj THEN NULL ELSE DueIn(sqs, p)
  <2>1. CASE p = h.obj
    BY <1>1, <1>3, <2>1, DueInProperties
  <2>2. CASE p # h.obj
    <3>1. /\ \A n \in ToSet(sqs') : n \in ToSet(sqs)
          /\ \A n \in ToSet(sqs) : n.obj = p => n \in ToSet(sqs')
      BY <1>1, <2>2
    <3>2. CASE DueIn(sqs, p) = NULL
      <4>1. ASSUME NEW n \in ToSet(sqs'), n.obj = p
            PROVE  FALSE
        <5>1. n \in ToSet(sqs)
          BY <3>1, <4>1
        <5>2. n.evtime \in Nat
          <6>1. n \in Notice
            BY <1>3, <5>1, RangeOfSeq DEF ToSet
          <6> QED
            BY <6>1 DEF Notice
        <5>3. n.evtime = NULL
          BY <1>3, <3>2, <4>1, <5>1, DueInProperties
        <5> QED
          BY <1>3, <5>2, <5>3
      <4> QED
        BY <1>3, <2>2, <3>2, <4>1, DueInProperties
    <3>3. CASE DueIn(sqs, p) # NULL
      BY <1>3, <2>2, <3>1, <3>3, DueInProperties
    <3> QED
      BY <3>2, <3>3
  <2> QED
    BY <2>1, <2>2
<1>5. DueIn(sqs, h.obj) = h.evtime
  BY <1>1, <1>2, <1>3, DueInProperties
<1>6. \A q \in Proc : DueIn(sqs, q) # NULL => h.evtime <= DueIn(sqs, q)
  BY <1>1, <1>3, DueInProperties
<1>7. \A p \in Proc : DueTime(p) = DueIn(sqs, p) /\ DueTime(p)' = DueIn(sqs', p)
  BY DEF DueTime, DueIn
<1>8. Events!Pending = {p \in Proc : DueIn(sqs, p) # NULL}
  BY <1>7 DEF Events!Pending
<1>9. Events!Start(h.obj)
  <2>1. h.obj \in Events!Pending
    BY <1>2, <1>3, <1>5, <1>8
  <2>2. \A q \in Events!Pending : DueTime(h.obj) <= DueTime(q)
    BY <1>2, <1>5, <1>6, <1>7, <1>8
  <2>3. time' = DueTime(h.obj)
    BY <1>2, <1>5, <1>7
  <2>4. [p \in Proc |-> DueTime(p)]' = [[p \in Proc |-> DueTime(p)] EXCEPT ![h.obj] = NULL]
    BY <1>2, <1>4, <1>7
  <2>5. Events!Pending \subseteq Proc
    BY DEF Events!Pending
  <2> QED
    BY <1>2, <2>1, <2>2, <2>3, <2>4, <2>5 DEF Events!Start
<1> QED
  BY <1>2, <1>9

LEMMA LeaveLoopRefines ==
    ASSUME IInv, IInv', LeaveLoop
    PROVE  Events!Pass \/ Events!Plan
<1>1. current = NULL /\ current' = NULL /\ ~ Due /\ sqs' = sqs
  BY DEF LeaveLoop, InLoop
<1>2. CASE loop # "timed"
  BY <1>1, <1>2, PlanRefines DEF LeaveLoop
<1>3. CASE loop = "timed"
  <2>1. time' = until /\ time <= time'
    BY <1>3 DEF LeaveLoop, Clamped, IInv, ControlInv, TypeOK
  <2>2. \A p \in Proc : DueTime(p)' = DueTime(p) /\ DueTime(p) = DueIn(sqs, p)
    BY <1>1 DEF DueTime, DueIn
  <2>3. ASSUME NEW n \in ToSet(sqs)
        PROVE  n.evtime > time'
    <3>1. sqs # << >>
      BY DEF ToSet
    <3>2. Head(sqs) \in Notice /\ Head(sqs).evtime <= n.evtime
      BY <3>1, HeadFacts
    <3>3. n \in Notice
      BY RangeOfSeq DEF ToSet, IInv, TypeOK
    <3>4. ~ (Head(sqs).evtime <= until)
      BY <1>1, <1>3, <3>1 DEF Due
    <3> QED
      BY <2>1, <3>2, <3>3, <3>4 DEF Notice, IInv, TypeOK
  <2>4. \A p \in Proc : DueTime(p) # NULL => DueTime(p) > time'
    BY <2>2, <2>3, DueInProperties DEF IInv, TypeOK, SqsInv
  <2> QED
    BY <1>1, <2>1, <2>2, <2>4 DEF Events!Pass, Events!Pending, IInv, TypeOK
<1> QED
  BY <1>2, <1>3

LEMMA NextRefines ==
    ASSUME IInv, IInv', [Next]_vars
    PROVE  [Events!Next]_(Events!vars)
<1>1. ASSUME NEW c \in Actor, Statement(c)
      PROVE  Events!Next
  BY <1>1, StatementQuiet, PlanRefines DEF Events!Next
<1>2. CASE Dispatch
  BY <1>2, DispatchRefines DEF Events!Next
<1>3. CASE LeaveLoop
  BY <1>3, LeaveLoopRefines DEF Events!Next
<1>4. CASE EndProgram
  BY <1>4, PlanRefines DEF Events!Next, EndProgram
<1>5. CASE UNCHANGED vars
  BY <1>5 DEF vars, Events!vars, DueTime
<1> QED
  BY <1>1, <1>2, <1>3, <1>4, <1>5 DEF Next, MainLoop

\* The sequencing set and its loop implement the abstract discrete event
\* scheduler: the earliest process is dispatched, the clock stands still while
\* a process operates, and it never overtakes an event.
THEOREM SimulationImplementsEvents == Spec => ImplementsEvents
  BY InitRefines, NextIInv, Invariance, NextRefines, PTL
  DEF Spec, ImplementsEvents, Events!Spec

=============================================================================
