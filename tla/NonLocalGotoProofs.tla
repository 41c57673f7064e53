-------------------------- MODULE NonLocalGotoProofs --------------------------
(***************************************************************************)
(* GOTO out of procedures is sound for any nesting of procedures and       *)
(* blocks, any labels and any depth of recursion: in all programs the      *)
(* record that an activation holds has the jmp_buf of an activation below  *)
(* it, and in plain programs every jump goes on at the label it means.     *)
(***************************************************************************)
EXTENDS GotoPrograms, FiniteSetTheorems, WellFoundedInduction, TLAPS

USE NonLocalGotoAssumption

-----------------------------------------------------------------------------
(* Depths and chains.                                                      *)

\* Every non-empty set of depths has a greatest element.
LEMMA MaxDepthOf ==
    ASSUME NEW n \in Nat, NEW S \in SUBSET (1 .. n), S # {}
    PROVE  /\ Max(S) \in S
           /\ \A i \in S : i <= Max(S)
<1> DEFINE T == {n - i : i \in S}
<1>1. T \in SUBSET Nat /\ T # {}
  <2>1. \A i \in S : i \in 1 .. n /\ n - i \in Nat
    OBVIOUS
  <2> QED
    BY <2>1
<1>2. PICK t \in T : \A j \in T : ~ (<<j, t>> \in OpToRel(<, Nat))
  <2> HIDE DEF T
  <2> QED
    BY <1>1, NatLessThanWellFounded, WFMin, Zenon
<1>3. PICK m \in S : t = n - m
  OBVIOUS
<1>4. ASSUME NEW i \in S PROVE i <= m
  <2>1. i \in 1 .. n /\ m \in 1 .. n /\ n - i \in T
    OBVIOUS
  <2>2. CASE n - i < n - m
    <3>1. <<n - i, t>> \in {r \in Nat \X Nat : r[1] < r[2]}
      BY <1>3, <2>1, <2>2
    <3> QED
      BY <1>2, <2>1, <3>1, Zenon DEF OpToRel
  <2> QED
    BY <2>1, <2>2
<1> QED
  BY <1>4 DEF Max

LEMMA ChainFacts ==
    ASSUME NEW up, NEW x \in DOMAIN up
    PROVE  /\ Static!Chain(x, up) \subseteq DOMAIN up
           /\ x \in Static!Chain(x, up)
           /\ \A y \in Static!Chain(x, up) :
                 up[y] \in DOMAIN up => up[y] \in Static!Chain(x, up)
           /\ \A S \in SUBSET DOMAIN up :
                 x \in S /\ Static!Closed(S, up) => Static!Chain(x, up) \subseteq S
BY DEF Static!Chain, Static!Closed

-----------------------------------------------------------------------------
(* The text of the program.                                                *)

TextOK ==
    /\ nest \in Nestings
    /\ blocks \in Blocks(nest)
    /\ labels \in Labellings(blocks)

LEMMA TextFacts ==
    ASSUME TextOK
    PROVE  /\ nest \in [Inner -> Body]
           /\ \A p \in Inner : nest[p] < p
           /\ blocks \subseteq Inner /\ Main \subseteq Body
           /\ \A b \in blocks : nest[b] \in Main
           /\ labels \in [Body -> SUBSET Label]
BY DEF TextOK, Nestings, Blocks, Labellings, Main, Inner, Body

\* The bodies around f stand before it in the text, and those around a block
\* are compiled into main.
LEMMA AroundFacts ==
    ASSUME TextOK, NEW f \in Body
    PROVE  /\ f \in Around(nest, f)
           /\ Around(nest, f) \subseteq 0 .. f
           /\ f \in Main => Around(nest, f) \subseteq Main
<1> DEFINE up == [g \in Body |-> IF g = 0 THEN -1 ELSE nest[g]]
<1>1. DOMAIN up = Body /\ Around(nest, f) = Static!Chain(f, up)
  BY DEF Around
<1>2. \A g \in Body : up[g] \in Body =>
         /\ g \in Inner /\ up[g] = nest[g] /\ nest[g] < g
  BY TextFacts DEF Inner, Body
<1>3. 0 .. f \in SUBSET Body /\ f \in 0 .. f
  BY DEF Body
<1>4. Static!Closed(0 .. f, up)
  <2> SUFFICES ASSUME NEW g \in 0 .. f, up[g] \in Body PROVE up[g] \in 0 .. f
    BY <1>1 DEF Static!Closed
  <2>1. g \in Body
    BY <1>3
  <2>2. up[g] = nest[g] /\ nest[g] < g
    BY <1>2, <2>1
  <2> QED
    BY <2>1, <2>2 DEF Body
<1>5. Static!Closed(Main, up)
  <2> SUFFICES ASSUME NEW g \in Main, up[g] \in Body PROVE up[g] \in Main
    BY <1>1 DEF Static!Closed
  <2>1. g \in Inner /\ up[g] = nest[g]
    BY <1>2, TextFacts
  <2>2. g \in blocks
    BY <2>1 DEF Main, Inner
  <2> QED
    BY <2>1, <2>2, TextFacts
<1>6. Main \in SUBSET Body
  BY TextFacts
<1> HIDE DEF up
<1> QED
  BY <1>1, <1>3, <1>4, <1>5, <1>6, ChainFacts

\* The entries of a body are its labels and, in main, those of blocks inside.
LEMMA EntriesFacts ==
    ASSUME TextOK, NEW f \in Body
    PROVE  /\ labels[f] \subseteq Entries(f)
           /\ Entries(f) \subseteq Label
           /\ \A l \in Entries(f) :
                 \/ l \in labels[f]
                 \/ \E c \in blocks : f \in Around(nest, c) /\ l \in labels[c]
           /\ f \notin Main => Entries(f) = labels[f]
<1>1. labels \in [Body -> SUBSET Label] /\ blocks \subseteq Body
  BY TextFacts DEF Inner, Body
<1>2. \A l : l \in Entries(f) <=>
         l \in labels[f] \/ \E c \in blocks : f \in Around(nest, c) /\ l \in labels[c]
  BY DEF Entries
<1>3. ASSUME f \notin Main, NEW c \in blocks PROVE f \notin Around(nest, c)
  BY <1>1, <1>3, AroundFacts DEF Main
<1> QED
  BY <1>1, <1>2, <1>3

\* The text of a program stays what it is.
LEMMA TextKept ==
    ASSUME UNCHANGED <<nest, blocks, labels>>
    PROVE  /\ \A f : Entries(f)' = Entries(f)
           /\ \A f, id : Dispatched(f, id)' = Dispatched(f, id)
           /\ TextOK => TextOK'
<1>1. \A f : Entries(f)' = Entries(f)
  BY DEF Entries
<1>2. \A f, id : Dispatched(f, id)' = Dispatched(f, id)
  BY <1>1 DEF Dispatched, Numbered, IdOf
<1>3. TextOK => TextOK'
  BY DEF TextOK
<1> QED
  BY <1>1, <1>2, <1>3

\* Labels are numbered from 1.
LEMMA IdPositive ==
    ASSUME TextOK, NEW f \in Body, NEW l \in Entries(f)
    PROVE  IdOf(f, l) \in Nat \ {0}
<1> DEFINE S == {k \in Entries(f) : k <= l}
<1>0. Entries(f) \subseteq Label /\ l \in Nat
  BY EntriesFacts
<1>1. S \subseteq Label /\ l \in S
  BY <1>0
<1>2. IsFiniteSet(S)
  BY <1>1, FS_Subset
<1>3. Cardinality(S) \in Nat /\ Cardinality(S) # 0
  <2> HIDE DEF S
  <2> QED
    BY <1>1, <1>2, FS_CardinalityType, FS_EmptySet
<1> QED
  BY <1>3 DEF IdOf

\* Each entry of a body has a number of its own.
LEMMA DispatchedIs ==
    ASSUME TextOK, NEW f \in Body, NEW l \in Entries(f)
    PROVE  Dispatched(f, IdOf(f, l)) = l
<1>0. PICK E : E = Entries(f) /\ E \subseteq Label
  BY EntriesFacts
<1> DEFINE S(m) == {k \in E : k <= m}
<1>1. \A m \in E : IsFiniteSet(S(m))
  <2> TAKE m \in E
  <2>1. S(m) \subseteq Label
    BY <1>0
  <2> QED
    BY <2>1, FS_Subset
<1>2. ASSUME NEW k \in E, NEW m \in E, k < m
      PROVE  Cardinality(S(k)) # Cardinality(S(m))
  <2>1. k \in Nat /\ m \in Nat
    BY <1>0
  <2>2. \A x \in E : x \in Nat
    BY <1>0
  <2>3. S(k) \subseteq S(m)
    <3> SUFFICES ASSUME NEW x \in E, x <= k PROVE x <= m
      OBVIOUS
    <3>1. x \in Nat
      BY <2>2
    <3> QED
      BY <1>2, <2>1, <3>1
  <2>4. m \in S(m) /\ m \notin S(k)
    BY <1>2, <2>1
  <2> HIDE DEF S
  <2> QED
    BY <1>1, <2>3, <2>4, FS_Subset
<1>3. \A k, m \in E : Cardinality(S(k)) = Cardinality(S(m)) => k = m
  <2> SUFFICES ASSUME NEW k \in E, NEW m \in E, k # m
               PROVE  Cardinality(S(k)) # Cardinality(S(m))
    OBVIOUS
  <2>1. k < m \/ m < k
    BY <1>0
  <2> HIDE DEF S
  <2> QED
    BY <1>2, <2>1
<1>4. \A m \in E : IdOf(f, m) = Cardinality(S(m))
  BY <1>0 DEF IdOf
<1> HIDE DEF S
<1> QED
  BY <1>0, <1>3, <1>4 DEF Dispatched, Numbered

-----------------------------------------------------------------------------
(* Records in all programs.                                                *)

\* The record at depth i of a stack s has the jmp_buf of an activation below.
LiveAt(s, i) == s[i].rec # NoRecord => s[i].rec.buf \in 1 .. i - 1

BuffersAreLive == \A i \in 1 .. Top : LiveAt(stack, i)

IInv == TypeOK /\ BuffersAreLive

LEMMA InitIInv == Init => IInv
<1> SUFFICES ASSUME Init PROVE IInv
  OBVIOUS
<1> DEFINE a == [body |-> 0, env |-> 0, rec |-> NoRecord]
<1>1. a \in Activation
  BY DEF Activation, Body
<1>2. stack \in Seq(Activation) /\ Len(stack) = 1 /\ stack[1].rec = NoRecord
  BY <1>1 DEF Init
<1>3. nlbuf \in [Label -> Buffer \cup {Null, Dead}]
  BY DEF Init, Buffer
<1>4. TypeOK
  BY <1>2, <1>3 DEF Init, TypeOK, Top, Buffer, Start
<1> QED
  BY <1>2, <1>4 DEF IInv, BuffersAreLive, LiveAt, Top

\* What the stack is known to be.
LEMMA StackFacts ==
    ASSUME IInv
    PROVE  /\ stack \in Seq(Activation)
           /\ Top = Len(stack) /\ Top \in 1 .. MaxDepth
           /\ \A i \in 1 .. Top : stack[i] \in Activation /\ stack[i].body \in Body
           /\ Now \in Body
           /\ TextOK
<1>1. stack \in Seq(Activation) /\ Top = Len(stack) /\ Top \in 1 .. MaxDepth
  BY DEF IInv, TypeOK, Top, Buffer
<1>2. \A i \in 1 .. Top : stack[i] \in Activation
  BY <1>1
<1>3. \A i \in 1 .. Top : stack[i].body \in Body
  BY <1>2 DEF Activation
<1>4. Now \in Body
  BY <1>1, <1>3 DEF Now
<1>5. TextOK
  BY DEF IInv, TypeOK, TextOK
<1> QED
  BY <1>1, <1>2, <1>3, <1>4, <1>5

\* The activations around the running one.
LEMMA EnclosingBelow ==
    ASSUME IInv
    PROVE  /\ Enclosing(Top) \subseteq 1 .. Top /\ Top \in Enclosing(Top)
           /\ \A e \in Enclosing(Top) :
                 stack[e].env \in 1 .. Top => stack[e].env \in Enclosing(Top)
           /\ InFunction \subseteq Enclosing(Top)
<1> DEFINE env == [i \in 1 .. Top |-> stack[i].env]
<1>1. DOMAIN env = 1 .. Top /\ Top \in 1 .. Top /\ Enclosing(Top) = Static!Chain(Top, env)
  BY StackFacts DEF Enclosing
<1>2. /\ Enclosing(Top) \subseteq 1 .. Top /\ Top \in Enclosing(Top)
      /\ \A e \in Enclosing(Top) : env[e] \in 1 .. Top => env[e] \in Enclosing(Top)
  <2> HIDE DEF env
  <2> QED
    BY <1>1, ChainFacts
<1>3. \A e \in 1 .. Top : env[e] = stack[e].env
  OBVIOUS
<1> HIDE DEF env
<1>4. InFunction \subseteq Enclosing(Top)
  BY <1>2 DEF InFunction
<1> QED
  BY <1>2, <1>3, <1>4

\* The innermost activation that has a visible label.
LEMMA HomeFacts ==
    ASSUME IInv, NEW l, NEW e \in Enclosing(Top), l \in labels[stack[e].body]
    PROVE  /\ Home(l) \in Enclosing(Top) /\ Home(l) \in 1 .. Top
           /\ l \in labels[stack[Home(l)].body]
           /\ \A d \in Enclosing(Top) : l \in labels[stack[d].body] => d <= Home(l)
<1> DEFINE S == {d \in Enclosing(Top) : l \in labels[stack[d].body]}
<1>1. S \in SUBSET (1 .. Top) /\ S # {} /\ Top \in Nat
  BY EnclosingBelow, StackFacts
<1>2. Max(S) \in S /\ \A d \in S : d <= Max(S)
  <2> HIDE DEF S
  <2> QED
    BY <1>1, MaxDepthOf
<1>3. Home(l) = Max(S)
  BY DEF Home
<1> QED
  BY <1>1, <1>2, <1>3

LEMMA KnownFacts ==
    ASSUME IInv, NEW l \in Known
    PROVE  /\ \E e \in InFunction : l \in labels[stack[e].body]
           /\ Home(l) \in 1 .. Top /\ l \in Label
<1>1. PICK e \in InFunction : l \in labels[stack[e].body]
  BY DEF Known
<1>2. e \in Enclosing(Top) /\ stack[e].body \in Body
  BY EnclosingBelow, StackFacts
<1> QED
  BY <1>1, <1>2, HomeFacts, StackFacts, TextFacts

\* A record has the jmp_buf of the newest setup of the running function, and
\* a number of the newest setup that has the label.
LEMMA RecordFacts ==
    ASSUME IInv, NEW l \in Known
    PROVE  /\ CurrentBuffer \in InFunction /\ CurrentBuffer \in 1 .. Top
           /\ \A d \in InFunction : Entries(stack[d].body) # {} => d <= CurrentBuffer
           /\ \E n \in InFunction :
                 /\ l \in Entries(stack[n].body) /\ NumberOf(l) = IdOf(stack[n].body, l)
                 /\ \A d \in InFunction : l \in Entries(stack[d].body) => d <= n
           /\ RecordOf(l) \in Record
<1> DEFINE S == {d \in InFunction : Entries(stack[d].body) # {}}
           T == {d \in InFunction : l \in Entries(stack[d].body)}
<1>1. InFunction \subseteq 1 .. Top /\ Top \in Nat /\ Top <= MaxDepth
  BY EnclosingBelow, StackFacts
<1>2. PICK e \in InFunction : l \in labels[stack[e].body]
  BY KnownFacts
<1>3. l \in Entries(stack[e].body)
  BY <1>1, <1>2, EntriesFacts, StackFacts
<1>4. S \in SUBSET (1 .. Top) /\ S # {} /\ T \in SUBSET (1 .. Top) /\ T # {}
  BY <1>1, <1>3
<1>5. Max(S) \in S /\ \A d \in S : d <= Max(S)
  <2> HIDE DEF S
  <2> QED
    BY <1>1, <1>4, MaxDepthOf
<1>6. Max(T) \in T /\ \A d \in T : d <= Max(T)
  <2> HIDE DEF T
  <2> QED
    BY <1>1, <1>4, MaxDepthOf
<1>7. CurrentBuffer = Max(S)
  BY DEF CurrentBuffer
<1>8. NumberOf(l) = IdOf(stack[Max(T)].body, l)
  BY DEF NumberOf
<1>9. NumberOf(l) \in Nat \ {0}
  <2>1. Max(T) \in 1 .. Top /\ l \in Entries(stack[Max(T)].body)
    BY <1>1, <1>6
  <2> QED
    BY <1>8, <2>1, IdPositive, StackFacts
<1>10. CurrentBuffer \in Buffer
  <2> HIDE DEF S
  <2>1. Max(S) \in 1 .. Top
    BY <1>4, <1>5
  <2> QED
    BY <1>1, <1>7, <2>1 DEF Buffer
<1>11. RecordOf(l) \in Record
  BY <1>9, <1>10 DEF RecordOf, Record
<1>12. CurrentBuffer \in InFunction /\ CurrentBuffer \in 1 .. Top
  BY <1>1, <1>5, <1>7
<1>13. \A d \in InFunction : Entries(stack[d].body) # {} => d <= CurrentBuffer
  BY <1>5, <1>7
<1>14. \E n \in InFunction :
          /\ l \in Entries(stack[n].body) /\ NumberOf(l) = IdOf(stack[n].body, l)
          /\ \A d \in InFunction : l \in Entries(stack[d].body) => d <= n
  BY <1>6, <1>8
<1> QED
  BY <1>11, <1>12, <1>13, <1>14

\* What a function passes for a LABEL parameter is a record of its own or of
\* an activation below it.
LEMMA ActualsAreLive ==
    ASSUME IInv, NEW rec \in Actuals
    PROVE  /\ rec \in Record \cup {NoRecord}
           /\ rec # NoRecord => rec.buf \in 1 .. Top
<1>1. CASE rec = NoRecord
  BY <1>1
<1>2. CASE rec = stack[Top].rec
  <2>1. rec \in Record \cup {NoRecord}
    BY <1>2, StackFacts DEF Activation
  <2>2. LiveAt(stack, Top)
    BY StackFacts DEF IInv, BuffersAreLive
  <2> QED
    BY <1>2, <2>1, <2>2, StackFacts DEF LiveAt
<1>3. ASSUME NEW l \in Known, rec = RecordOf(l)
      PROVE  rec \in Record /\ rec.buf \in 1 .. Top
  BY <1>3, RecordFacts DEF RecordOf
<1> QED
  BY <1>1, <1>2, <1>3 DEF Actuals

\* The activations that are left when the newer ones have ended.
LEMMA CutIInv ==
    ASSUME IInv, NEW d \in 1 .. Top,
           stack' = SubSeq(stack, 1, d), nlbuf' = Outlived(d),
           at' \in Label \cup {Start, Returned},
           UNCHANGED <<nest, blocks, labels, status>>
    PROVE  IInv'
<1>1. /\ stack' \in Seq(Activation)
      /\ Len(stack') = d
      /\ \A i \in 1 .. d : stack'[i] = stack[i]
  BY StackFacts
<1>2. nlbuf' \in [Label -> Buffer \cup {Null, Dead}]
  BY DEF IInv, TypeOK, Outlived
<1>3. Len(stack') \in Buffer
  BY <1>1, StackFacts DEF Buffer
<1>4. TypeOK'
  BY <1>1, <1>2, <1>3 DEF IInv, TypeOK, Top
<1>5. ASSUME NEW i \in 1 .. d
      PROVE  LiveAt(stack', i)
  <2>1. LiveAt(stack, i)
    BY StackFacts DEF IInv, BuffersAreLive
  <2> QED
    BY <1>1, <2>1, StackFacts DEF LiveAt
<1> QED
  BY <1>1, <1>4, <1>5 DEF IInv, BuffersAreLive, Top

\* A new activation, of a procedure or of a block.
LEMMA PushIInv ==
    ASSUME IInv, NEW p \in Inner, NEW d \in 1 .. Top, NEW rec \in Actuals, Top < MaxDepth,
           stack' = Append(stack, [body |-> p, env |-> d, rec |-> rec]),
           nlbuf' = Published(p, Top + 1), at' = Start,
           UNCHANGED <<nest, blocks, labels, status>>
    PROVE  IInv'
<1> DEFINE a == [body |-> p, env |-> d, rec |-> rec]
<1>1. p \in Body /\ d \in 0 .. MaxDepth /\ Top + 1 \in Buffer
  BY StackFacts DEF Inner, Body, Buffer
<1>2. a \in Activation
  BY <1>1, ActualsAreLive DEF Activation
<1>3. /\ stack' \in Seq(Activation)
      /\ Len(stack') = Top + 1
      /\ \A i \in 1 .. Top : stack'[i] = stack[i]
      /\ stack'[Top + 1] = a
  BY <1>2, StackFacts
<1>4. nlbuf' \in [Label -> Buffer \cup {Null, Dead}]
  BY <1>1 DEF IInv, TypeOK, Published
<1>5. TypeOK'
  BY <1>1, <1>3, <1>4 DEF IInv, TypeOK, Top
<1>6. ASSUME NEW i \in 1 .. Top + 1
      PROVE  LiveAt(stack', i)
  <2>1. CASE i \in 1 .. Top
    <3>1. LiveAt(stack, i)
      BY <2>1 DEF IInv, BuffersAreLive
    <3> QED
      BY <1>3, <2>1, <3>1 DEF LiveAt
  <2>2. CASE i = Top + 1
    <3>1. stack'[i].rec = rec
      BY <1>3, <2>2
    <3> QED
      BY <2>2, <3>1, ActualsAreLive, StackFacts DEF LiveAt
  <2> QED
    BY <2>1, <2>2, StackFacts
<1> QED
  BY <1>3, <1>5, <1>6 DEF IInv, BuffersAreLive, Top

LEMMA CallIInv ==
    ASSUME IInv, NEW p \in Inner, NEW rec \in Actuals, Call(p, rec)
    PROVE  IInv'
<1>1. PICK d \in Enclosing(Top) : stack' = Append(stack, [body |-> p, env |-> d, rec |-> rec])
  BY DEF Call
<1>2. d \in 1 .. Top
  BY EnclosingBelow
<1> QED
  BY <1>1, <1>2, PushIInv DEF Call, Fixed

LEMMA EnterIInv ==
    ASSUME IInv, NEW b \in Inner, Enter(b)
    PROVE  IInv'
<1>1. NoRecord \in Actuals /\ Top \in 1 .. Top
  BY StackFacts DEF Actuals
<1> QED
  BY <1>1, PushIInv DEF Enter, Fixed

LEMMA LongJumpIInv ==
    ASSUME IInv, NEW buf, NEW id, LongJump(buf, id)
    PROVE  IInv'
<1> DEFINE f == stack[buf].body
           l == Dispatched(f, IF id = 0 THEN 1 ELSE id)
<1>1. CASE buf \in 1 .. Top /\ l \in labels[f] \cup {Start}
  <2>1. at' = l /\ at' \in Label \cup {Start}
    BY <1>1, StackFacts, TextFacts DEF LongJump
  <2> HIDE DEF l
  <2> QED
    BY <1>1, <2>1, CutIInv DEF LongJump, Fixed, l
<1>2. CASE ~ (buf \in 1 .. Top /\ l \in labels[f] \cup {Start})
  <2>1. Fails("stale jump") \/ Fails("past an entry")
    BY <1>2 DEF LongJump
  <2> QED
    BY <2>1 DEF Fails, Fixed, IInv, TypeOK, BuffersAreLive, Top
<1> QED
  BY <1>1, <1>2

LEMMA StepIInv == IInv /\ [Next]_vars => IInv'
<1> SUFFICES ASSUME IInv, [Next]_vars PROVE IInv'
  OBVIOUS
<1>1. ASSUME NEW p \in Inner, NEW rec \in Actuals, Call(p, rec) PROVE IInv'
  BY <1>1, CallIInv
<1>2. ASSUME NEW b \in Inner, Enter(b) PROVE IInv'
  BY <1>2, EnterIInv
<1>3. CASE Return
  <2>1. Top - 1 \in 1 .. Top
    BY <1>3, StackFacts DEF Return
  <2> QED
    BY <1>3, <2>1, CutIInv DEF Return, Fixed
<1>4. ASSUME NEW l \in Label, GotoLocal(l) PROVE IInv'
  BY <1>4, KnownFacts, CutIInv DEF GotoLocal, Fixed
<1>5. ASSUME NEW l \in Label, GotoOuter(l) PROVE IInv'
  BY <1>5, LongJumpIInv DEF GotoOuter
<1>6. CASE GotoParameter
  BY <1>6, LongJumpIInv DEF GotoParameter
<1>7. CASE UNCHANGED vars
  BY <1>7 DEF vars, IInv, TypeOK, BuffersAreLive, Top
<1> QED
  BY <1>1, <1>2, <1>3, <1>4, <1>5, <1>6, <1>7 DEF Next

LEMMA Invariance == Spec => []IInv
BY InitIInv, StepIInv, PTL DEF Spec

\* All components have their types: whatever number a jump carries, control
\* goes on at a label or at the start of a body.
THEOREM TypeCorrect == Spec => []TypeOK
<1>1. IInv => TypeOK
  BY DEF IInv
<1> QED
  BY <1>1, Invariance, PTL

\* No LABEL parameter outlives the activation it came from, in any program:
\* records go down the stack only and are taken from the jmp_buf of the
\* running function, not from the global that other activations overwrite.
THEOREM LabelBuffersLive == Spec => []BuffersAreLive
<1>1. IInv => BuffersAreLive
  BY DEF IInv
<1> QED
  BY <1>1, Invariance, PTL

-----------------------------------------------------------------------------
(* Plain programs: jumps find their label.                                 *)

\* The activation at depth i stands where its body does in the text, and the
\* blocks of the program are entered from outside in.
NestedAt(s, n, B, i) ==
    /\ IF i = 1 THEN s[i].body = 0 /\ s[i].env = 0
       ELSE s[i].body \in Inner /\ s[i].env \in 1 .. i - 1 /\ s[s[i].env].body = n[s[i].body]
    /\ s[i].body \in {0} \cup B => \A j \in 1 .. i - 1 : s[j].body < s[i].body

\* l is a label of f alone, which does not recurse.
Owner(lab, rec, f, l) ==
    /\ f \in Body /\ f \notin rec /\ l \in lab[f]
    /\ \A g \in Body : l \in lab[g] => g = f

\* Where f is active, the global of its label is its activation.
PublishedAt(s, lab, rec, glob, i) ==
    \A l \in Label : Owner(lab, rec, s[i].body, l) => glob[l] = i

\* The record names a label of the body it has the jmp_buf of.
OwnLabel(rec) ==
    rec # NoRecord =>
        Dispatched(stack[rec.buf].body, rec.id) \in labels[stack[rec.buf].body]

PInv ==
    /\ IInv
    /\ recursive \subseteq Inner \ blocks
    /\ \A i \in 1 .. Len(stack) : NestedAt(stack, nest, blocks, i)
    /\ \A i \in 1 .. Len(stack) : PublishedAt(stack, labels, recursive, nlbuf, i)
    /\ \A i \in 1 .. Len(stack) : OwnLabel(stack[i].rec)
    /\ status = "running"

\* The activations around the running one are those of the bodies around its
\* own.
LEMMA EnclosingFacts ==
    ASSUME PInv
    PROVE  Around(nest, Now) \subseteq {stack[e].body : e \in Enclosing(Top)}
<1> DEFINE up  == [g \in Body |-> IF g = 0 THEN -1 ELSE nest[g]]
           S   == {stack[e].body : e \in Enclosing(Top)}
<1>1. DOMAIN up = Body /\ Now \in Body /\ Around(nest, Now) = Static!Chain(Now, up)
  BY StackFacts DEF Around, PInv
<1>2. S \in SUBSET Body /\ Now \in S
  BY EnclosingBelow, StackFacts DEF Now, PInv
<1>3. ASSUME NEW g \in S, up[g] \in Body PROVE up[g] \in S
  <2>1. PICK e \in Enclosing(Top) : stack[e].body = g
    OBVIOUS
  <2>2. e \in 1 .. Top /\ NestedAt(stack, nest, blocks, e) /\ g \in Body
    BY <1>2, <2>1, EnclosingBelow DEF PInv, Top
  <2>3. g # 0 /\ up[g] = nest[g]
    BY <1>3, <2>2 DEF Body
  <2>4. stack[e].env \in 1 .. Top /\ stack[stack[e].env].body = nest[g]
    BY <2>1, <2>2, <2>3, StackFacts DEF NestedAt, PInv
  <2>5. stack[e].env \in Enclosing(Top)
    BY <2>1, <2>4, EnclosingBelow DEF PInv
  <2> QED
    BY <2>3, <2>4, <2>5
<1> HIDE DEF S, up
<1>4. Around(nest, Now) \subseteq S
  BY <1>1, <1>2, <1>3, ChainFacts DEF Static!Closed
<1> QED
  BY <1>4 DEF S

\* The global of a visible label whose name is unique in the program is an
\* enclosing activation of the body that has the label.
LEMMA GlobalOfVisible ==
    ASSUME PInv, NEW l \in Label, Visible(Now, l), Plain(l)
    PROVE  \E f \in 0 .. Now :
              /\ Owner(labels, recursive, f, l) /\ f \in Around(nest, Now)
              /\ nlbuf[l] \in Enclosing(Top) /\ stack[nlbuf[l]].body = f
<1>1. PICK f \in Around(nest, Now) : l \in labels[f]
  BY DEF Visible
<1>2. f \in 0 .. Now /\ f \in Body
  BY <1>1, AroundFacts, StackFacts DEF Body, PInv
<1>3. PICK e \in Enclosing(Top) : stack[e].body = f
  BY <1>1, EnclosingFacts
<1>4. Owner(labels, recursive, f, l)
  BY <1>1, <1>2 DEF Plain, Unique, Owner
<1>5. e \in 1 .. Top /\ nlbuf[l] = e
  BY <1>3, <1>4, EnclosingBelow DEF PInv, PublishedAt, Top
<1> QED
  BY <1>1, <1>2, <1>3, <1>4, <1>5

\* The record of a label that is passed in a plain program: the jmp_buf and
\* the number of the activation the label means.
LEMMA PassedRecord ==
    ASSUME IInv, NEW l \in Passable
    PROVE  /\ l \in Known /\ Home(l) \in 1 .. Top /\ l \in labels[stack[Home(l)].body]
           /\ RecordOf(l) = [buf |-> Home(l), id |-> IdOf(stack[Home(l)].body, l)]
           /\ Dispatched(stack[Home(l)].body, IdOf(stack[Home(l)].body, l)) = l
<1>1. l \in Known /\ l \in labels[stack[CurrentBuffer].body]
  BY DEF Passable
<1>2. /\ CurrentBuffer \in InFunction /\ CurrentBuffer \in 1 .. Top
      /\ \A d \in InFunction : Entries(stack[d].body) # {} => d <= CurrentBuffer
  BY <1>1, RecordFacts
<1>3. PICK n \in InFunction :
         /\ l \in Entries(stack[n].body) /\ NumberOf(l) = IdOf(stack[n].body, l)
         /\ \A d \in InFunction : l \in Entries(stack[d].body) => d <= n
  BY <1>1, RecordFacts
<1>4. /\ InFunction \subseteq Enclosing(Top) /\ Enclosing(Top) \subseteq 1 .. Top
      /\ Top \in Nat
  BY EnclosingBelow, StackFacts
<1>5. \A d \in 1 .. Top : labels[stack[d].body] \subseteq Entries(stack[d].body)
  BY EntriesFacts, StackFacts
<1>6. n = CurrentBuffer
  <2>1. l \in Entries(stack[CurrentBuffer].body)
    BY <1>1, <1>2, <1>5
  <2>2. n <= CurrentBuffer
    BY <1>2, <1>3
  <2>3. CurrentBuffer <= n
    BY <1>2, <1>3, <2>1
  <2> QED
    BY <1>2, <1>3, <1>4, <2>2, <2>3
<1>7. /\ Home(l) \in Enclosing(Top) /\ Home(l) \in 1 .. Top
      /\ l \in labels[stack[Home(l)].body] /\ CurrentBuffer <= Home(l)
  BY <1>1, <1>2, <1>4, HomeFacts
<1>8. Home(l) \in InFunction
  <2>1. CASE Now \in Main
    BY <1>7, <2>1 DEF InFunction
  <2>2. CASE Now \notin Main
    <3>1. CurrentBuffer = Top
      BY <1>2, <2>2 DEF InFunction
    <3> QED
      BY <1>2, <1>4, <1>7, <3>1
  <2> QED
    BY <2>1, <2>2
<1>9. Home(l) = CurrentBuffer
  <2>1. Home(l) <= CurrentBuffer
    BY <1>2, <1>5, <1>7, <1>8
  <2> QED
    BY <1>2, <1>4, <1>7, <2>1
<1>10. RecordOf(l) = [buf |-> Home(l), id |-> IdOf(stack[Home(l)].body, l)]
  BY <1>3, <1>6, <1>9 DEF RecordOf
<1>11. Dispatched(stack[Home(l)].body, IdOf(stack[Home(l)].body, l)) = l
  BY <1>5, <1>7, DispatchedIs, StackFacts
<1> QED
  BY <1>1, <1>7, <1>10, <1>11

\* Records that are passed on name labels of their own.
LEMMA PlainActualsFacts ==
    ASSUME PInv, NEW rec \in PlainActuals
    PROVE  rec \in Actuals /\ OwnLabel(rec)
<1>1. CASE rec = NoRecord
  BY <1>1 DEF Actuals, OwnLabel
<1>2. CASE rec = stack[Top].rec
  BY <1>2, StackFacts DEF Actuals, PInv
<1>3. ASSUME NEW l \in Passable, rec = RecordOf(l)
      PROVE  rec \in Actuals /\ OwnLabel(rec)
  <2>1. PICK h : h = Home(l)
    OBVIOUS
  <2>2. /\ l \in Known /\ l \in labels[stack[h].body]
        /\ rec = [buf |-> h, id |-> IdOf(stack[h].body, l)]
        /\ Dispatched(stack[h].body, IdOf(stack[h].body, l)) = l
    BY <1>3, <2>1, PassedRecord DEF PInv
  <2>3. rec.buf = h /\ rec.id = IdOf(stack[h].body, l)
    BY <2>2
  <2> QED
    BY <1>3, <2>2, <2>3 DEF Actuals, OwnLabel
<1> QED
  BY <1>1, <1>2, <1>3 DEF PlainActuals

LEMMA InitPInv == PlainInit => PInv
<1> SUFFICES ASSUME PlainInit PROVE PInv
  OBVIOUS
<1>1. IInv
  BY InitIInv DEF PlainInit
<1>2. Len(stack) = 1 /\ stack[1] = [body |-> 0, env |-> 0, rec |-> NoRecord]
  BY DEF PlainInit, Init
<1>3. PublishedAt(stack, labels, recursive, nlbuf, 1)
  <2> SUFFICES ASSUME NEW l \in Label, l \in labels[0] PROVE nlbuf[l] = 1
    BY <1>2 DEF PublishedAt, Owner
  <2>1. l \in Entries(0)
    BY <1>1, EntriesFacts, StackFacts DEF Body
  <2> QED
    BY <2>1 DEF PlainInit, Init
<1>4. NestedAt(stack, nest, blocks, 1)
  BY <1>2 DEF NestedAt
<1>5. OwnLabel(stack[1].rec)
  BY <1>2 DEF OwnLabel
<1>6. recursive \subseteq Inner \ blocks /\ status = "running"
  BY DEF PlainInit, Init
<1>7. \A i \in 1 .. Len(stack) : i = 1
  BY <1>2
<1> QED
  BY <1>1, <1>3, <1>4, <1>5, <1>6, <1>7 DEF PInv

\* A record means the same as long as its activation is there.
LEMMA OwnLabelKept ==
    ASSUME NEW r, NEW n \in Nat, \A i \in 1 .. n : stack'[i] = stack[i],
           UNCHANGED <<nest, blocks, labels>>,
           r = NoRecord \/ r.buf \in 1 .. n, OwnLabel(r)
    PROVE  OwnLabel(r)'
<1>1. CASE r = NoRecord
  BY <1>1 DEF OwnLabel
<1>2. CASE r # NoRecord
  <2>1. stack'[r.buf] = stack[r.buf]
    BY <1>2
  <2>2. Dispatched(stack[r.buf].body, r.id)' = Dispatched(stack'[r.buf].body, r.id)
    BY TextKept, <2>1 DEF Dispatched, Numbered, IdOf
  <2>3. Dispatched(stack'[r.buf].body, r.id) = Dispatched(stack[r.buf].body, r.id)
    BY <2>1
  <2> QED
    BY <1>2, <2>1, <2>2, <2>3 DEF OwnLabel
<1> QED
  BY <1>1, <1>2

\* A jump and a return leave the older activations as they are.
LEMMA CutPInv ==
    ASSUME PInv, NEW d \in 1 .. Top,
           stack' = SubSeq(stack, 1, d), nlbuf' = Outlived(d),
           at' \in Label \cup {Start, Returned},
           UNCHANGED <<nest, blocks, labels, status, recursive>>
    PROVE  PInv'
<1>1. IInv'
  BY CutIInv DEF PInv
<1>2. /\ Len(stack') = d /\ d \in 1 .. Len(stack) /\ d \in Nat
      /\ \A i \in 1 .. d : stack'[i] = stack[i]
  BY StackFacts DEF PInv
<1>3. ASSUME NEW i \in 1 .. d PROVE NestedAt(stack', nest', blocks', i)
  <2>1. NestedAt(stack, nest, blocks, i)
    BY <1>2 DEF PInv
  <2> QED
    BY <1>2, <2>1 DEF NestedAt
<1>4. ASSUME NEW i \in 1 .. d PROVE PublishedAt(stack', labels', recursive', nlbuf', i)
  <2>1. PublishedAt(stack, labels, recursive, nlbuf, i)
    BY <1>2 DEF PInv
  <2>2. \A l \in Label : nlbuf[l] = i => nlbuf'[l] = i
    BY DEF Outlived
  <2> QED
    BY <1>2, <2>1, <2>2 DEF PublishedAt
<1>5. ASSUME NEW i \in 1 .. d PROVE OwnLabel(stack[i].rec)'
  <2>1. PICK r : r = stack[i].rec /\ r = stack'[i].rec
    BY <1>2
  <2>2. LiveAt(stack, i) /\ OwnLabel(r)
    BY <1>2, <2>1 DEF PInv, IInv, BuffersAreLive, Top
  <2>3. r = NoRecord \/ r.buf \in 1 .. d
    BY <1>2, <2>1, <2>2 DEF LiveAt
  <2>4. OwnLabel(r)'
    BY <1>2, <2>2, <2>3, OwnLabelKept
  <2> QED
    BY <2>1, <2>4 DEF OwnLabel
<1> QED
  BY <1>1, <1>2, <1>3, <1>4, <1>5 DEF PInv

\* A new activation of p that no owner of its entries stands below.
LEMMA PushPInv ==
    ASSUME PInv, IInv', NEW p \in Inner, NEW d \in 1 .. Top, NEW rec,
           rec = NoRecord \/ rec.buf \in 1 .. Top, OwnLabel(rec),
           stack[d].body = nest[p],
           stack' = Append(stack, [body |-> p, env |-> d, rec |-> rec]),
           nlbuf' = Published(p, Top + 1),
           UNCHANGED <<nest, blocks, labels, status, recursive>>,
           p \in Main => \A j \in 1 .. Top : stack[j].body < p,
           \A i \in 1 .. Top, l \in Entries(p) : ~ Owner(labels, recursive, stack[i].body, l)
    PROVE  PInv'
<1>1. Top = Len(stack) /\ Top \in Nat /\ p # 0 /\ p \in Body
  BY StackFacts DEF PInv, Inner, Body
<1>2. /\ Len(stack') = Top + 1
      /\ \A i \in 1 .. Top : stack'[i] = stack[i]
      /\ stack'[Top + 1] = [body |-> p, env |-> d, rec |-> rec]
  BY <1>1, StackFacts DEF PInv
<1>3. ASSUME NEW i \in 1 .. Top + 1 PROVE NestedAt(stack', nest', blocks', i)
  <2>1. CASE i \in 1 .. Top
    <3>1. NestedAt(stack, nest, blocks, i)
      BY <1>1, <2>1 DEF PInv
    <3> QED
      BY <1>1, <1>2, <2>1, <3>1 DEF NestedAt
  <2>2. CASE i = Top + 1
    <3>1. stack'[i].body = p /\ stack'[i].env = d /\ i # 1
      BY <1>1, <1>2, <2>2
    <3>2. d \in 1 .. i - 1 /\ stack'[d].body = nest'[p]
      BY <1>1, <1>2, <2>2
    <3>3. p \in {0} \cup blocks' => \A j \in 1 .. i - 1 : stack'[j].body < p
      BY <1>1, <1>2, <2>2 DEF Main
    <3> QED
      BY <3>1, <3>2, <3>3 DEF NestedAt
  <2> QED
    BY <1>1, <2>1, <2>2
<1>4. ASSUME NEW i \in 1 .. Top + 1 PROVE PublishedAt(stack', labels', recursive', nlbuf', i)
  <2> SUFFICES ASSUME NEW l \in Label, Owner(labels, recursive, stack'[i].body, l)
               PROVE  nlbuf'[l] = i
    BY DEF PublishedAt
  <2>1. nlbuf'[l] = IF l \in Entries(p) THEN Top + 1 ELSE nlbuf[l]
    BY DEF Published
  <2>2. CASE i \in 1 .. Top
    <3>1. nlbuf[l] = i
      BY <1>1, <1>2, <2>2 DEF PInv, PublishedAt
    <3>2. l \notin Entries(p)
      BY <1>2, <2>2
    <3> QED
      BY <2>1, <3>1, <3>2
  <2>3. CASE i = Top + 1
    <3>1. l \in Entries(p)
      BY <1>1, <1>2, <2>3, EntriesFacts, StackFacts DEF Owner, PInv
    <3> QED
      BY <2>1, <2>3, <3>1
  <2>4. i \in 1 .. Top \/ i = Top + 1
    BY <1>1
  <2> QED
    BY <2>2, <2>3, <2>4
<1>5. ASSUME NEW i \in 1 .. Top + 1 PROVE OwnLabel(stack[i].rec)'
  <2>1. PICK r : r = stack'[i].rec
    OBVIOUS
  <2>2. (r = NoRecord \/ r.buf \in 1 .. Top) /\ OwnLabel(r)
    <3>1. CASE i \in 1 .. Top
      <4>1. LiveAt(stack, i) /\ OwnLabel(stack[i].rec)
        BY <1>1, <3>1 DEF PInv, IInv, BuffersAreLive
      <4> QED
        BY <1>1, <1>2, <2>1, <3>1, <4>1 DEF LiveAt
    <3>2. CASE i = Top + 1
      BY <1>1, <1>2, <2>1, <3>2
    <3> QED
      BY <1>1, <3>1, <3>2
  <2>3. OwnLabel(r)'
    BY <1>1, <1>2, <2>2, OwnLabelKept
  <2> QED
    BY <2>1, <2>3 DEF OwnLabel
<1> QED
  BY <1>1, <1>2, <1>3, <1>4, <1>5 DEF PInv

LEMMA CallPInv ==
    ASSUME PInv, NEW p \in Inner, NEW rec \in PlainActuals, MayReenter(p), Call(p, rec),
           UNCHANGED recursive
    PROVE  PInv'
<1>1. rec \in Actuals /\ OwnLabel(rec) /\ (rec = NoRecord \/ rec.buf \in 1 .. Top)
  BY PlainActualsFacts, ActualsAreLive DEF PInv
<1>2. IInv'
  BY <1>1, CallIInv DEF PInv
<1>3. PICK d \in Enclosing(Top) :
         stack[d].body = nest[p] /\ stack' = Append(stack, [body |-> p, env |-> d, rec |-> rec])
  BY DEF Call
<1>4. d \in 1 .. Top
  BY EnclosingBelow DEF PInv
<1>5. p \notin Main /\ p \in Body
  BY DEF Call, Main, Inner, Body
<1>6. \A i \in 1 .. Top, l \in Entries(p) : ~ Owner(labels, recursive, stack[i].body, l)
  <2> SUFFICES ASSUME NEW i \in 1 .. Top, NEW l \in Entries(p),
                      Owner(labels, recursive, stack[i].body, l)
               PROVE  FALSE
    OBVIOUS
  <2>1. l \in labels[p]
    BY <1>5, EntriesFacts, StackFacts DEF PInv
  <2>2. stack[i].body = p /\ p \notin recursive
    BY <1>5, <2>1 DEF Owner
  <2> QED
    BY <2>2 DEF MayReenter
<1>7. /\ nlbuf' = Published(p, Top + 1)
      /\ UNCHANGED <<nest, blocks, labels, status, recursive>>
  BY DEF Call, Fixed
<1> QED
  BY <1>1, <1>2, <1>3, <1>4, <1>5, <1>6, <1>7, PushPInv

LEMMA EnterPInv ==
    ASSUME PInv, NEW b \in Inner, Enter(b), UNCHANGED recursive
    PROVE  PInv'
<1>1. IInv'
  BY EnterIInv DEF PInv
<1>2. b \in blocks /\ b \in Body /\ b \in Nat /\ Now = nest[b] /\ Top \in 1 .. Top
  BY StackFacts DEF Enter, PInv, Inner, Body
<1>3. Now \in Main /\ Now < b
  BY <1>2, TextFacts, StackFacts DEF PInv
<1>4. \A j \in 1 .. Top : stack[j].body < b
  <2> TAKE j \in 1 .. Top
  <2>1. NestedAt(stack, nest, blocks, Top)
    BY StackFacts DEF PInv
  <2>2. stack[j].body \in Nat /\ Now \in Nat /\ Top \in Nat
    BY StackFacts DEF Body, PInv
  <2>3. j = Top \/ stack[j].body < Now
    BY <1>3, <2>1, <2>2 DEF NestedAt, Main, Now
  <2> QED
    BY <1>2, <1>3, <2>2, <2>3 DEF Now
<1>5. \A i \in 1 .. Top, l \in Entries(b) : ~ Owner(labels, recursive, stack[i].body, l)
  <2> SUFFICES ASSUME NEW i \in 1 .. Top, NEW l \in Entries(b),
                      Owner(labels, recursive, stack[i].body, l)
               PROVE  FALSE
    OBVIOUS
  <2>1. PICK f \in Body : f = stack[i].body
    BY StackFacts DEF PInv
  <2>2. f < b
    BY <1>4, <2>1
  <2>3. PICK c \in Body : b \in Around(nest, c) /\ l \in labels[c]
    <3>1. CASE l \in labels[b]
      BY <1>2, <3>1, AroundFacts, StackFacts DEF PInv
    <3>2. CASE \E c \in blocks : b \in Around(nest, c) /\ l \in labels[c]
      BY <3>2, TextFacts, StackFacts DEF PInv, Main
    <3> QED
      BY <1>2, <3>1, <3>2, EntriesFacts, StackFacts DEF PInv
  <2>4. c = f
    BY <2>1, <2>3 DEF Owner
  <2>5. b <= c
    BY <2>3, AroundFacts, StackFacts DEF PInv
  <2> QED
    BY <1>2, <2>2, <2>4, <2>5 DEF Body
<1>6. OwnLabel(NoRecord) /\ stack[Top].body = nest[b]
  BY <1>2 DEF OwnLabel, Now
<1>7. /\ stack' = Append(stack, [body |-> b, env |-> Top, rec |-> NoRecord])
      /\ nlbuf' = Published(b, Top + 1)
      /\ UNCHANGED <<nest, blocks, labels, status, recursive>>
  BY DEF Enter, Fixed
<1> QED
  BY <1>1, <1>2, <1>4, <1>5, <1>6, <1>7, PushPInv

\* A jump to a label of a body that is active.
LEMMA LongJumpPInv ==
    ASSUME PInv, NEW buf \in 1 .. Top, NEW id \in Nat \ {0}, LongJump(buf, id),
           Dispatched(stack[buf].body, id) \in labels[stack[buf].body], UNCHANGED recursive
    PROVE  PInv'
<1>1. PICK l \in labels[stack[buf].body] : l = Dispatched(stack[buf].body, id)
  OBVIOUS
<1>2. l \in Label
  BY StackFacts, TextFacts DEF PInv
<1>3. /\ stack' = SubSeq(stack, 1, buf) /\ nlbuf' = Outlived(buf) /\ at' = l
      /\ UNCHANGED status /\ Fixed
  BY <1>1 DEF LongJump
<1> QED
  BY <1>2, <1>3, CutPInv DEF Fixed

\* What a direct jump and the jump of a parameter hand to longjmp.
LEMMA OuterTarget ==
    ASSUME PInv, NEW l \in Label, Visible(Now, l), Plain(l), GotoOuter(l)
    PROVE  \E e \in Enclosing(Top), id \in Nat \ {0} :
              /\ LongJump(e, id) /\ l \in labels[stack[e].body]
              /\ Dispatched(stack[e].body, id) = l
              /\ \A d \in Enclosing(Top) : l \in labels[stack[d].body] => d = e
<1>1. PICK f \in 0 .. Now :
            /\ Owner(labels, recursive, f, l) /\ f \in Around(nest, Now)
            /\ nlbuf[l] \in Enclosing(Top) /\ stack[nlbuf[l]].body = f
  BY GlobalOfVisible
<1>2. PICK e \in Enclosing(Top) : e = nlbuf[l]
  BY <1>1
<1>3. Enclosing(Top) \subseteq 1 .. Top /\ TextOK /\ Now \in Body /\ f \in Body
      /\ Now \in Nat /\ f \in Nat
  BY <1>1, EnclosingBelow, StackFacts DEF PInv, Body
<1>4. l \in labels[f] /\ l \in Entries(f)
  BY <1>1, <1>3, EntriesFacts DEF Owner
<1>5. f < Now
  <2>1. f # Now
    <3>1. Now \in Main \/ Now \notin Main
      OBVIOUS
    <3>2. Top \in InFunction
      BY EnclosingBelow DEF InFunction, PInv
    <3>3. l \notin labels[stack[Top].body]
      BY <3>2 DEF GotoOuter, Known
    <3> QED
      BY <1>4, <3>3 DEF Now
  <2> QED
    BY <1>3, <2>1
<1>6. Compiled(Now, l) = f
  <2> DEFINE S == {g \in Body : l \in Entries(g) /\ (g < Now \/ Now \in Around(nest, g))}
  <2>1. f \in S
    BY <1>3, <1>4, <1>5
  <2>2. \A g \in S : g <= f
    <3> TAKE g \in S
    <3>1. CASE l \in labels[g]
      BY <1>1, <1>3, <3>1 DEF Owner
    <3>2. CASE \E c \in blocks : g \in Around(nest, c) /\ l \in labels[c]
      <4>1. PICK c \in blocks : g \in Around(nest, c) /\ l \in labels[c]
        BY <3>2
      <4>2. c \in Body /\ c = f
        BY <1>1, <1>3, <4>1, TextFacts DEF Owner, Main
      <4> QED
        BY <1>3, <4>1, <4>2, AroundFacts
    <3> QED
      BY <1>3, <3>1, <3>2, EntriesFacts
  <2>3. S \subseteq Nat
    BY DEF Body
  <2>4. Compiled(Now, l) = CHOOSE x \in S : \A y \in S : x >= y
    BY DEF Compiled, Max
  <2> HIDE DEF S
  <2>5. \A x \in S : (\A y \in S : x >= y) <=> x = f
    BY <1>3, <2>1, <2>2, <2>3
  <2> QED
    BY <2>1, <2>4, <2>5
<1>7. PICK id \in Nat \ {0} : id = IdOf(f, l)
  BY <1>3, <1>4, IdPositive
<1>8. Dispatched(f, id) = l
  BY <1>3, <1>4, <1>7, DispatchedIs
<1>9. \A d \in Enclosing(Top) : l \in labels[stack[d].body] => d = e
  <2> SUFFICES ASSUME NEW d \in Enclosing(Top), l \in labels[stack[d].body]
               PROVE  d = e
    OBVIOUS
  <2>1. d \in 1 .. Top /\ stack[d].body \in Body
    BY <1>3, StackFacts DEF PInv
  <2>2. stack[d].body = f
    BY <1>1, <2>1 DEF Owner
  <2> QED
    BY <1>1, <1>2, <2>1, <2>2 DEF PInv, PublishedAt, Top
<1>10. LongJump(e, id)
  BY <1>2, <1>6, <1>7 DEF GotoOuter
<1> QED
  BY <1>1, <1>2, <1>4, <1>8, <1>9, <1>10

LEMMA ParameterTarget ==
    ASSUME PInv, GotoParameter
    PROVE  \E e \in 1 .. Top, id \in Nat \ {0} :
              /\ stack[Top].rec.buf = e /\ stack[Top].rec.id = id
              /\ LongJump(e, id)
              /\ Dispatched(stack[e].body, id) \in labels[stack[e].body]
<1>1. PICK rec : rec = stack[Top].rec /\ rec # NoRecord /\ LongJump(rec.buf, rec.id)
  BY DEF GotoParameter
<1>2. Top \in 1 .. Len(stack) /\ stack[Top] \in Activation
  BY StackFacts DEF PInv
<1>3. LiveAt(stack, Top) /\ OwnLabel(rec)
  BY <1>1, <1>2 DEF PInv, IInv, BuffersAreLive, Top
<1>4. rec \in Record
  BY <1>1, <1>2 DEF Activation
<1>5. rec.buf \in 1 .. Top /\ rec.id \in Nat \ {0}
  BY <1>1, <1>2, <1>3, <1>4 DEF LiveAt, Record
<1> QED
  BY <1>1, <1>3, <1>5 DEF OwnLabel

LEMMA StepPInv ==
    ASSUME PInv, [PlainNext /\ UNCHANGED recursive]_<<vars, recursive>>
    PROVE  PInv'
<1>1. ASSUME NEW p \in Inner, NEW rec \in PlainActuals, MayReenter(p), Call(p, rec),
             UNCHANGED recursive
      PROVE  PInv'
  BY <1>1, CallPInv
<1>2. ASSUME NEW b \in Inner, Enter(b), UNCHANGED recursive PROVE PInv'
  BY <1>2, EnterPInv
<1>3. CASE Return /\ UNCHANGED recursive
  <2>1. Top - 1 \in 1 .. Top
    BY <1>3, StackFacts DEF Return, PInv
  <2> QED
    BY <1>3, <2>1, CutPInv DEF Return, Fixed
<1>4. ASSUME NEW l \in Label, GotoLocal(l), UNCHANGED recursive PROVE PInv'
  <2>1. Home(l) \in 1 .. Top
    BY <1>4, KnownFacts DEF GotoLocal, PInv
  <2> QED
    BY <1>4, <2>1, CutPInv DEF GotoLocal, Fixed
<1>5. ASSUME NEW l \in Label, Visible(Now, l), Plain(l), GotoOuter(l), UNCHANGED recursive
      PROVE  PInv'
  <2>1. PICK e \in Enclosing(Top), id \in Nat \ {0} :
           /\ LongJump(e, id) /\ l \in labels[stack[e].body]
           /\ Dispatched(stack[e].body, id) = l
    BY <1>5, OuterTarget
  <2>2. e \in 1 .. Top
    BY EnclosingBelow DEF PInv
  <2> QED
    BY <1>5, <2>1, <2>2, LongJumpPInv
<1>6. CASE GotoParameter /\ UNCHANGED recursive
  <2>1. PICK e \in 1 .. Top, id \in Nat \ {0} :
           /\ LongJump(e, id)
           /\ Dispatched(stack[e].body, id) \in labels[stack[e].body]
    BY <1>6, ParameterTarget
  <2> QED
    BY <1>6, <2>1, LongJumpPInv
<1>7. CASE UNCHANGED <<vars, recursive>>
  <2>1. IInv'
    BY <1>7, StepIInv DEF PInv
  <2>2. UNCHANGED <<stack, nest, blocks, labels>>
    BY <1>7 DEF vars
  <2>3. ASSUME NEW i \in 1 .. Len(stack) PROVE OwnLabel(stack[i].rec)'
    <3>1. Top = Len(stack) /\ Top \in Nat
      BY StackFacts DEF PInv
    <3>2. LiveAt(stack, i) /\ OwnLabel(stack[i].rec)
      BY <3>1 DEF PInv, IInv, BuffersAreLive
    <3>3. PICK r : r = stack[i].rec /\ r = stack'[i].rec
      BY <2>2
    <3>4. r = NoRecord \/ r.buf \in 1 .. Top
      BY <3>1, <3>2, <3>3 DEF LiveAt
    <3>5. OwnLabel(r)'
      BY <2>2, <3>1, <3>2, <3>3, <3>4, OwnLabelKept
    <3> QED
      BY <3>3, <3>5 DEF OwnLabel
  <2> QED
    BY <1>7, <2>1, <2>3 DEF vars, PInv
<1> QED
  BY <1>1, <1>2, <1>3, <1>4, <1>5, <1>6, <1>7 DEF PlainNext

LEMMA PlainInvariance == PlainSpec => []PInv
<1>1. PInv /\ [PlainNext /\ UNCHANGED recursive]_<<vars, recursive>> => PInv'
  BY StepPInv
<1> QED
  BY <1>1, InitPInv, PTL DEF PlainSpec

\* In a plain program no GOTO out of a procedure, by name or by LABEL
\* parameter, longjmps into the frame of a procedure that has returned, into
\* a block that has ended or past the entry of a block.
THEOREM JumpsAreLive == PlainSpec => []NoStaleJump
<1>1. PInv => NoStaleJump
  BY DEF PInv, NoStaleJump
<1> QED
  BY <1>1, PlainInvariance, PTL

\* In a plain program every LABEL parameter, however often it is passed on,
\* names a label of its own of an activation that is still below its holder.
THEOREM LabelParametersLive == PlainSpec => []RecordsAreLive
<1>1. PInv => RecordsAreLive
  BY DEF PInv, IInv, BuffersAreLive, LiveAt, OwnLabel, RecordsAreLive, Top
<1> QED
  BY <1>1, PlainInvariance, PTL

-----------------------------------------------------------------------------
(* Plain programs do what nested activations demand.                       *)

LEMMA MeaningFacts ==
    ASSUME IInv
    PROVE  /\ Act!Newest = Top /\ Top \in Nat /\ Top \in 1 .. Top
           /\ \A i \in 1 .. Top : /\ Meaning[i].body = stack[i].body
                                  /\ Meaning[i].env = stack[i].env
                                  /\ Meaning[i].par = TargetOf(stack[i].rec)
           /\ Act!Enclosing(Top) = Enclosing(Top)
<1>1. Top \in Nat /\ Top \in 1 .. Top
  BY StackFacts
<1>2. Act!Newest = Top
  BY <1>1 DEF Act!Newest, Meaning
<1>3. \A i \in 1 .. Top : /\ Meaning[i].body = stack[i].body
                          /\ Meaning[i].env = stack[i].env
                          /\ Meaning[i].par = TargetOf(stack[i].rec)
  BY DEF Meaning
<1>4. [i \in 1 .. Act!Newest |-> Meaning[i].env] = [i \in 1 .. Top |-> stack[i].env]
  BY <1>2, <1>3
<1>5. Act!Enclosing(Top) = Enclosing(Top)
  BY <1>4 DEF Act!Enclosing, Enclosing, Act!Static!Chain, Static!Chain,
       Act!Static!Closed, Static!Closed
<1> QED
  BY <1>1, <1>2, <1>3, <1>5

\* The label that the abstract specification finds is the one at Home.
LEMMA HomeMeaning ==
    ASSUME IInv, NEW l, NEW e \in Enclosing(Top), l \in labels[stack[e].body]
    PROVE  Act!Visible(l) /\ Act!Home(l) = Home(l)
<1>1. /\ Home(l) \in Enclosing(Top) /\ Home(l) \in 1 .. Top
      /\ l \in labels[stack[Home(l)].body]
      /\ \A d \in Enclosing(Top) : l \in labels[stack[d].body] => d <= Home(l)
  BY HomeFacts
<1>2. Enclosing(Top) \subseteq 1 .. Top /\ Top \in Nat
  BY EnclosingBelow, StackFacts
<1> DEFINE homes == {d \in Act!Enclosing(Act!Newest) : l \in labels[Meaning[d].body]}
<1>3. homes = {d \in Enclosing(Top) : l \in labels[stack[d].body]}
  BY <1>2, MeaningFacts
<1>4. PICK H : H = homes
  OBVIOUS
<1>5. Home(l) \in H /\ H \subseteq Nat /\ \A d \in H : d <= Home(l)
  BY <1>1, <1>2, <1>3, <1>4
<1>6. Act!Home(l) = CHOOSE d : d \in homes /\ \A x \in homes : x <= d
  BY DEF Act!Home
<1>7. Act!Visible(l)
  BY <1>4, <1>5 DEF Act!Visible
<1> HIDE DEF homes
<1>8. PICK h \in H : h = Home(l) /\ H \subseteq Nat /\ \A d \in H : d <= h
  BY <1>5
<1>9. \A d \in H : (\A x \in H : x <= d) <=> d = h
  <2> TAKE d \in H
  <2>1. d \in Nat /\ h \in Nat /\ d <= h
    BY <1>8
  <2>2. ASSUME \A x \in H : x <= d PROVE d = h
    BY <2>1, <2>2
  <2> QED
    BY <1>8, <2>2
<1>10. (CHOOSE d : d \in H /\ \A x \in H : x <= d) = h
  BY <1>5, <1>8, <1>9
<1> QED
  BY <1>4, <1>6, <1>7, <1>8, <1>10

\* A record means the same label as long as its activation is there.
LEMMA TargetKept ==
    ASSUME NEW r, NEW n \in Nat, Top \in Nat, Top' \in Nat, n <= Top, n <= Top',
           \A i \in 1 .. n : stack'[i] = stack[i],
           UNCHANGED <<nest, blocks, labels>>,
           r.buf \in 1 .. n \/ r.buf = 0
    PROVE  TargetOf(r)' = TargetOf(r)
<1>1. \A f, id : Dispatched(f, id)' = Dispatched(f, id)
  BY TextKept
<1>2. CASE r.buf \in 1 .. n
  <2>1. /\ r.buf \in 1 .. Top /\ r.buf \in 1 .. Top'
        /\ stack'[r.buf] = stack[r.buf]
    BY <1>2
  <2> QED
    BY <1>1, <2>1 DEF TargetOf
<1>3. CASE r.buf = 0
  <2>1. ~ r.buf \in 1 .. Top /\ ~ r.buf \in 1 .. Top'
    BY <1>3
  <2> QED
    BY <2>1 DEF TargetOf
<1> QED
  BY <1>2, <1>3

\* The records of the activations up to depth n name activations below n.
LEMMA RecordBelow ==
    ASSUME IInv, NEW i \in 1 .. Top
    PROVE  stack[i].rec = NoRecord \/ stack[i].rec.buf \in 1 .. i - 1
BY DEF IInv, BuffersAreLive, LiveAt

LEMMA CutMeaning ==
    ASSUME IInv, NEW d \in 1 .. Top, stack' = SubSeq(stack, 1, d),
           UNCHANGED <<nest, blocks, labels>>
    PROVE  Meaning' = SubSeq(Meaning, 1, d)
<1>1. /\ Top' = d /\ Top \in Nat /\ d \in Nat /\ d <= Top
      /\ \A i \in 1 .. d : stack'[i] = stack[i]
  BY StackFacts DEF Top
<1>2. ASSUME NEW i \in 1 .. d
      PROVE  TargetOf(stack[i].rec)' = TargetOf(stack[i].rec)
  <2>1. PICK r : r = stack[i].rec /\ r = stack'[i].rec
    BY <1>1
  <2>2. r.buf \in 1 .. d \/ r.buf = 0
    BY <1>1, <2>1, RecordBelow DEF NoRecord, Null
  <2>3. TargetOf(r)' = TargetOf(r)
    BY <1>1, <2>2, TargetKept
  <2> QED
    BY <2>1, <2>3 DEF TargetOf
<1>3. SubSeq(Meaning, 1, d) = [i \in 1 .. d |-> Meaning[i]]
  BY <1>1 DEF Meaning
<1> QED
  BY <1>1, <1>2, <1>3 DEF Meaning

\* A new activation appears with the label its parameter stands for.
LEMMA PushMeaning ==
    ASSUME IInv, NEW p, NEW d, NEW rec, rec.buf \in 1 .. Top \/ rec.buf = 0,
           stack' = Append(stack, [body |-> p, env |-> d, rec |-> rec]),
           UNCHANGED <<nest, blocks, labels>>
    PROVE  Meaning' = Append(Meaning, [body |-> p, env |-> d, par |-> TargetOf(rec)])
<1>1. Top = Len(stack) /\ Top \in Nat
  BY StackFacts
<1>2. /\ Top' = Top + 1
      /\ \A i \in 1 .. Top : stack'[i] = stack[i]
      /\ stack'[Top + 1] = [body |-> p, env |-> d, rec |-> rec]
  BY <1>1, StackFacts DEF Top
<1>3. \A r : r.buf \in 1 .. Top \/ r.buf = 0 => TargetOf(r)' = TargetOf(r)
  <2> TAKE r
  <2> HAVE r.buf \in 1 .. Top \/ r.buf = 0
  <2>1. Top' \in Nat /\ Top <= Top'
    BY <1>1, <1>2
  <2> QED
    BY <1>1, <1>2, <2>1, TargetKept
<1>4. \A i \in 1 .. Top : stack[i].rec.buf \in 1 .. Top \/ stack[i].rec.buf = 0
  BY <1>1, RecordBelow DEF NoRecord, Null
<1> DEFINE Below == [i \in 1 .. Top |->
                       [body |-> stack[i].body, env |-> stack[i].env,
                        par |-> TargetOf(stack[i].rec)]]
           Entered == [body |-> p, env |-> d, par |-> TargetOf(rec)]
<1>5. ASSUME NEW i \in 1 .. Top
      PROVE  Meaning'[i] = Below[i]
  <2>1. PICK r : r = stack[i].rec /\ r = stack'[i].rec
    BY <1>2
  <2>2. TargetOf(r)' = TargetOf(r)
    BY <1>3, <1>4, <2>1
  <2> QED
    BY <1>1, <1>2, <2>1, <2>2 DEF Meaning
<1>6. Meaning'[Top + 1] = Entered
  <2>1. TargetOf(rec)' = TargetOf(rec)
    BY <1>3
  <2> QED
    BY <1>1, <1>2, <2>1 DEF Meaning
<1>7. DOMAIN Meaning' = 1 .. Top + 1 /\ Meaning' = [i \in 1 .. Top + 1 |-> Meaning'[i]]
  BY <1>2 DEF Meaning
<1>8. Append(Below, Entered) = [i \in 1 .. Top + 1 |-> IF i = Top + 1 THEN Entered ELSE Below[i]]
  <2> HIDE DEF Entered
  <2>1. Len(Below) = Top
    BY <1>1
  <2> QED
    BY <1>1, <2>1
<1>9. Meaning = Below
  BY DEF Meaning
<1> HIDE DEF Below, Entered
<1>10. \A i \in 1 .. Top + 1 :
         Meaning'[i] = IF i = Top + 1 THEN Entered ELSE Below[i]
  BY <1>1, <1>5, <1>6
<1>11. Meaning' = Append(Below, Entered)
  BY <1>7, <1>8, <1>10
<1> QED
  BY <1>9, <1>11 DEF Entered

\* The labels passed are labels the caller can name, or its own parameter.
LEMMA ActualMeaning ==
    ASSUME PInv, NEW rec \in PlainActuals
    PROVE  TargetOf(rec) \in Act!Actuals
<1>1. CASE rec = NoRecord
  BY <1>1 DEF Act!Actuals, TargetOf, NoRecord, Null
<1>2. CASE rec = stack[Top].rec
  BY <1>2, MeaningFacts DEF Act!Actuals, PInv
<1>3. ASSUME NEW l \in Passable, rec = RecordOf(l)
      PROVE  TargetOf(rec) \in Act!Actuals
  <2>1. PICK h : h = Home(l)
    OBVIOUS
  <2>2. /\ l \in Known /\ h \in 1 .. Top
        /\ rec = [buf |-> h, id |-> IdOf(stack[h].body, l)]
        /\ Dispatched(stack[h].body, IdOf(stack[h].body, l)) = l
    BY <1>3, <2>1, PassedRecord DEF PInv
  <2>3. TargetOf(rec) = <<h, l>>
    BY <2>2 DEF TargetOf
  <2>4. PICK e \in InFunction : l \in labels[stack[e].body]
    BY <2>2, KnownFacts DEF PInv
  <2>5. Act!Visible(l) /\ Act!Home(l) = h
    BY <2>1, <2>4, EnclosingBelow, HomeMeaning DEF PInv
  <2>6. l \in Label
    BY <2>2, KnownFacts DEF PInv
  <2> QED
    BY <2>3, <2>5, <2>6 DEF Act!Actuals
<1> QED
  BY <1>1, <1>2, <1>3 DEF PlainActuals

LEMMA CallMeaning ==
    ASSUME PInv, NEW p \in Inner, NEW rec \in PlainActuals, Call(p, rec)
    PROVE  Act!Invoke(p)
<1>1. PICK d \in Enclosing(Top) :
         stack[d].body = nest[p] /\ stack' = Append(stack, [body |-> p, env |-> d, rec |-> rec])
  BY DEF Call
<1>2. at' = Start /\ p \notin blocks /\ UNCHANGED <<nest, blocks, labels>>
  BY DEF Call, Fixed
<1>3. rec.buf \in 1 .. Top \/ rec.buf = 0
  BY PlainActualsFacts, ActualsAreLive DEF PInv, NoRecord, Null
<1>4. Meaning' = Append(Meaning, [body |-> p, env |-> d, par |-> TargetOf(rec)])
  BY <1>1, <1>2, <1>3, PushMeaning DEF PInv
<1>5. TargetOf(rec) \in Act!Actuals
  BY ActualMeaning
<1>6. d \in Act!Enclosing(Act!Newest) /\ Meaning[d].body = nest[p]
  BY <1>1, MeaningFacts, EnclosingBelow DEF PInv
<1> QED
  BY <1>2, <1>4, <1>5, <1>6 DEF Act!Invoke, Act!Fixed

LEMMA EnterMeaning ==
    ASSUME PInv, NEW b \in Inner, Enter(b)
    PROVE  Act!Begin(b)
<1>1. /\ stack' = Append(stack, [body |-> b, env |-> Top, rec |-> NoRecord])
      /\ at' = Start /\ b \in blocks /\ nest[b] = Now
      /\ UNCHANGED <<nest, blocks, labels>>
  BY DEF Enter, Fixed
<1>2. NoRecord.buf = 0
  BY DEF NoRecord, Null
<1>3. Meaning' = Append(Meaning, [body |-> b, env |-> Top, par |-> TargetOf(NoRecord)])
  BY <1>1, <1>2, PushMeaning DEF PInv
<1>4. TargetOf(NoRecord) = <<0, 0>>
  BY <1>2 DEF TargetOf
<1>5. Act!Newest = Top /\ Meaning[Top].body = nest[b]
  BY <1>1, MeaningFacts DEF PInv, Now
<1> QED
  BY <1>1, <1>3, <1>4, <1>5 DEF Act!Begin, Act!Fixed

\* A jump to the innermost label of the name.
LEMMA GotoMeaning ==
    ASSUME PInv, NEW l \in Label, NEW e \in Enclosing(Top), l \in labels[stack[e].body],
           stack' = SubSeq(stack, 1, Home(l)), at' = l, UNCHANGED <<nest, blocks, labels>>
    PROVE  Act!GoTo(l)
<1>1. Home(l) \in 1 .. Top
  BY HomeFacts DEF PInv
<1>2. Meaning' = SubSeq(Meaning, 1, Home(l))
  BY <1>1, CutMeaning DEF PInv
<1>3. Act!Visible(l) /\ Act!Home(l) = Home(l)
  BY HomeMeaning DEF PInv
<1> QED
  BY <1>2, <1>3 DEF Act!GoTo, Act!JumpTo, Act!Fixed

LEMMA StepMeaning ==
    ASSUME PInv, [PlainNext /\ UNCHANGED recursive]_<<vars, recursive>>
    PROVE  [Act!ActivationsNext]_(Act!actVars)
<1>1. ASSUME NEW p \in Inner, NEW rec \in PlainActuals, Call(p, rec) PROVE Act!Invoke(p)
  BY <1>1, CallMeaning
<1>2. ASSUME NEW b \in Inner, Enter(b) PROVE Act!Begin(b)
  BY <1>2, EnterMeaning
<1>3. CASE Return
  <2>1. Top > 1 /\ Top - 1 \in 1 .. Top
    BY <1>3, StackFacts DEF Return, PInv
  <2>2. Meaning' = SubSeq(Meaning, 1, Top - 1)
    BY <1>3, <2>1, CutMeaning DEF Return, Fixed, PInv
  <2>3. Act!Leave
    BY <1>3, <2>1, <2>2, MeaningFacts DEF Return, Fixed, Act!Leave, Act!Fixed, PInv
  <2> QED
    BY <2>3 DEF Act!ActivationsNext
<1>4. ASSUME NEW l \in Label, GotoLocal(l) PROVE Act!GoTo(l)
  <2>1. PICK e \in InFunction : l \in labels[stack[e].body]
    BY <1>4, KnownFacts DEF GotoLocal, PInv
  <2>2. e \in Enclosing(Top)
    BY EnclosingBelow DEF PInv
  <2> QED
    BY <1>4, <2>1, <2>2, GotoMeaning DEF GotoLocal, Fixed
<1>5. ASSUME NEW l \in Label, Visible(Now, l), Plain(l), GotoOuter(l)
      PROVE  Act!GoTo(l)
  <2>1. PICK e \in Enclosing(Top), id \in Nat \ {0} :
           /\ LongJump(e, id) /\ l \in labels[stack[e].body]
           /\ Dispatched(stack[e].body, id) = l
           /\ \A d \in Enclosing(Top) : l \in labels[stack[d].body] => d = e
    BY <1>5, OuterTarget
  <2>2. e \in 1 .. Top
    BY EnclosingBelow DEF PInv
  <2>3. Home(l) = e
    BY <2>1, HomeFacts DEF PInv
  <2>4. stack' = SubSeq(stack, 1, e) /\ at' = l /\ UNCHANGED <<nest, blocks, labels>>
    BY <2>1, <2>2 DEF LongJump, Fixed
  <2> QED
    BY <2>1, <2>3, <2>4, GotoMeaning
<1>6. CASE GotoParameter
  <2>1. PICK e \in 1 .. Top, id \in Nat \ {0} :
           /\ stack[Top].rec.buf = e /\ stack[Top].rec.id = id
           /\ LongJump(e, id)
           /\ Dispatched(stack[e].body, id) \in labels[stack[e].body]
    BY <1>6, ParameterTarget
  <2>2. PICK l : l = Dispatched(stack[e].body, id) /\ l \in labels[stack[e].body]
    BY <2>1
  <2>3. stack' = SubSeq(stack, 1, e) /\ at' = l /\ UNCHANGED <<nest, blocks, labels>>
    BY <2>1, <2>2 DEF LongJump, Fixed
  <2>4. Meaning' = SubSeq(Meaning, 1, e)
    BY <2>3, CutMeaning DEF PInv
  <2>5. Meaning[Top].par = <<e, l>> /\ e # 0
    <3>1. PICK r : r = stack[Top].rec
      OBVIOUS
    <3>2. TargetOf(r) = <<e, l>>
      BY <2>1, <2>2, <3>1 DEF TargetOf
    <3>3. Meaning[Top].par = TargetOf(r)
      BY <3>1, MeaningFacts DEF PInv
    <3> QED
      BY <2>1, <3>2, <3>3
  <2>6. Act!GoToParameter
    BY <2>3, <2>4, <2>5, MeaningFacts DEF Act!GoToParameter, Act!JumpTo, Act!Fixed, PInv
  <2> QED
    BY <2>6 DEF Act!ActivationsNext
<1>7. CASE UNCHANGED <<vars, recursive>>
  <2>1. Top' = Top /\ \A f, id : Dispatched(f, id)' = Dispatched(f, id)
    BY <1>7, TextKept DEF vars, Top
  <2>2. \A r : TargetOf(r)' = TargetOf(r)
    BY <1>7, <2>1 DEF vars, TargetOf
  <2>3. \A i \in 1 .. Top : TargetOf(stack[i].rec)' = TargetOf(stack[i].rec)
    BY <1>7, <2>2 DEF vars, TargetOf
  <2>4. Meaning' = Meaning
    BY <1>7, <2>1, <2>3 DEF vars, Meaning
  <2> QED
    BY <1>7, <2>4 DEF vars, Act!actVars
<1> QED
  BY <1>1, <1>2, <1>3, <1>4, <1>5, <1>6, <1>7 DEF PlainNext, Act!ActivationsNext

\* In plain programs setjmp, longjmp, the globals and the records do what
\* Simula says of GOTO, with any nesting of procedures and blocks, any
\* recursion and any passing of labels.
THEOREM PlainGotos == PlainSpec => ImplementsActivations
<1>1. PlainInit => Act!ActivationsInit
  <2> SUFFICES ASSUME PlainInit PROVE Act!ActivationsInit
    OBVIOUS
  <2>1. Top = 1 /\ stack[1] = [body |-> 0, env |-> 0, rec |-> NoRecord] /\ at = Start
    BY DEF PlainInit, Init, Top
  <2>2. TargetOf(NoRecord) = <<0, 0>>
    BY <2>1 DEF TargetOf, NoRecord, Null
  <2>3. Meaning = [i \in 1 .. 1 |-> [body |-> 0, env |-> 0, par |-> <<0, 0>>]]
    BY <2>1, <2>2 DEF Meaning
  <2> QED
    BY <2>1, <2>3 DEF Act!ActivationsInit
<1>2. PInv /\ [PlainNext /\ UNCHANGED recursive]_<<vars, recursive>>
         => [Act!ActivationsNext]_(Act!actVars)
  BY StepMeaning
<1> QED
  BY <1>1, <1>2, PlainInvariance, PTL
     DEF PlainSpec, ImplementsActivations, Act!ActivationsSpec
=============================================================================
