---------------------------- MODULE ClassesProofs ----------------------------
(***************************************************************************)
(* Classes, for every number of classes and methods and any programs:      *)
(* tables, layouts and bodies are what Simula's prefixing means.           *)
(*                                                                         *)
(* The inductive invariant IInv has four parts.  Types adds to TypeOK that *)
(* every table of numbers is consistent in itself.  NumbersInv says which  *)
(* numbers no pass changes, how far the passes have made the numbers of a  *)
(* class and its prefix agree, and that calls generated on the way have    *)
(* numbers of the former kind.  LayoutsInv says that layouts begin with    *)
(* that of the prefix.  ObjectRight says how the last object was made.     *)
(*                                                                         *)
(* What the model defines along the prefix chain is a recursive function   *)
(* on classes.  A least class in the text, LeastClass, takes the place of  *)
(* induction.                                                              *)
(***************************************************************************)
EXTENDS Classes, SequenceTheorems, FiniteSetTheorems, FunctionTheorems,
        WellFoundedInduction, TLAPS

-----------------------------------------------------------------------------
(* Induction along the text.                                               *)

LEMMA ClassFacts == NClass \in Nat /\ NMethod \in Nat /\ NClass >= 1 /\ 0 \notin Class
BY SizesAssumption DEF Class

LEMMA InClass ==
    /\ \A c \in Class : c \in Nat /\ c \in 0..NClass /\ c # 0
    /\ \A c \in 0..NClass : c # 0 => c \in Class
    /\ \A i \in Class : \A j \in 1..i : j \in Class
BY SizesAssumption DEF Class

LEMMA InText ==
    ASSUME NEW p, InOrder(p)
    PROVE  /\ \A i \in Class : p.text[i] \in Class
           /\ \A c \in Class : p.parent[c] \in 0..NClass
           /\ \A c \in Class : \E i \in Class : p.text[i] = c
BY DEF InOrder

\* Every non-empty set of natural numbers has a least element.
LEMMA LeastNat ==
    ASSUME NEW S \in SUBSET Nat, S # {}
    PROVE  \E m \in S : \A n \in S : m <= n
<1>1. PICK m \in S : \A n \in S : ~ (<<n, m>> \in OpToRel(<, Nat))
  BY NatLessThanWellFounded, WFMin, Zenon
<1>2. ASSUME NEW n \in S, n < m
      PROVE  FALSE
  <2>1. <<n, m>> \in {r \in Nat \X Nat : r[1] < r[2]}
    BY <1>2
  <2> QED
    BY <1>1, <2>1, Zenon DEF OpToRel
<1> QED
  BY <1>2

\* Some class of a set has no prefix in it: the induction along the prefixes.
LEMMA LeastClass ==
    ASSUME NEW p, InOrder(p), NEW S \in SUBSET Class, S # {}
    PROVE  \E c \in S : p.parent[c] \in 0..NClass /\ p.parent[c] \notin S
<1> DEFINE places == {i \in Class : p.text[i] \in S}
<1>1. places \in SUBSET Nat /\ places # {}
  BY InClass, InText
<1>2. PICK i \in places : \A j \in places : i <= j
  BY <1>1, LeastNat
<1>3. \A j \in 1..(i - 1) : j \in Class /\ p.text[j] \notin S
  BY <1>2, ClassFacts DEF Class
<1>4. p.text[i] \in S /\ i \in Class
  BY <1>2
<1>5. p.parent[p.text[i]] \in 0..NClass
  BY <1>4, InText
<1>6. p.parent[p.text[i]] \notin S
  <2>1. CASE p.parent[p.text[i]] = 0
    <3>1. 0 \notin S
      BY InClass
    <3> QED
      BY <2>1, <3>1
  <2>2. CASE \E j \in 1..(i - 1) : p.parent[p.text[i]] = p.text[j]
    BY <1>3, <2>2, Zenon
  <2> QED
    BY <1>4, <2>1, <2>2, Zenon DEF InOrder
<1> QED
  BY <1>4, <1>5, <1>6

\* f is b at the root, and G of the class and its prefix's value at a class.
Obeys(f, p, b, G) ==
    f[0] = b /\ \A a \in Class : f[a] = G[<<a, f[p.parent[a]]>>]

\* What is defined for a class from what it is for its prefix is defined for
\* all classes.
LEMMA Recursion ==
    ASSUME NEW p, InOrder(p), NEW V, NEW b \in V, NEW G \in [Class \X V -> V]
    PROVE  \E f \in [0..NClass -> V] : Obeys(f, p, b, G)
<1> DEFINE Up(f, i) == f[p.text[i]] = G[<<p.text[i], f[p.parent[p.text[i]]]>>]
           Done(n)  == \E f \in [0..NClass -> V] :
                          f[0] = b /\ \A i \in 1..n : Up(f, i)
           bad      == {n \in 0..NClass : ~ Done(n)}
<1>1. Done(0)
  <2>1. PICK f \in [0..NClass -> V] : f = [a \in 0..NClass |-> b]
    OBVIOUS
  <2>2. f[0] = b
    BY <2>1, ClassFacts
  <2>3. \A i \in 1..0 : Up(f, i)
    OBVIOUS
  <2> HIDE DEF Up
  <2> QED
    BY <2>2, <2>3
<1>2. ASSUME NEW n \in 1..NClass, Done(n - 1)
      PROVE  Done(n)
  <2>1. PICK f \in [0..NClass -> V] : f[0] = b /\ \A i \in 1..(n - 1) : Up(f, i)
    BY <1>2
  <2>2. PICK c \in Class : c = p.text[n]
    BY DEF InOrder, Class
  <2>3. p.parent[c] \in 0..NClass /\ f[p.parent[c]] \in V
    BY DEF InOrder
  <2>4. PICK v \in V : v = G[<<c, f[p.parent[c]]>>]
    BY <2>3
  <2> DEFINE g == [f EXCEPT ![c] = v]
  <2>5. g \in [0..NClass -> V] /\ g[c] = v /\ \A a \in 0..NClass : a # c => g[a] = f[a]
    BY ClassFacts DEF Class
  <2> HIDE DEF g
  <2>6. c # 0 /\ g[0] = b
    BY <2>1, <2>5, ClassFacts
  <2>7. \A i \in 1..n : p.text[i] = c => i = n
    BY <2>2, ClassFacts DEF InOrder, Class
  <2>8. \A i \in 1..n : p.parent[p.text[i]] # c
    <3> SUFFICES ASSUME NEW i \in 1..n, p.parent[p.text[i]] = c
                 PROVE  FALSE
      OBVIOUS
    <3>1. i \in Class
      BY ClassFacts DEF Class
    <3>2. PICK j \in 1..(i - 1) : p.parent[p.text[i]] = p.text[j]
      BY <2>6, <3>1 DEF InOrder
    <3> QED
      BY <2>7, <3>2, ClassFacts
  <2>9. \A i \in 1..n : Up(g, i)
    <3> SUFFICES ASSUME NEW i \in 1..n
                 PROVE  Up(g, i)
      OBVIOUS
    <3>1. i \in Class /\ p.text[i] \in 0..NClass /\ p.parent[p.text[i]] \in 0..NClass
      BY ClassFacts, InClass, InText DEF Class
    <3>2. g[p.parent[p.text[i]]] = f[p.parent[p.text[i]]]
      BY <2>5, <2>8, <3>1
    <3>3. CASE i = n
      BY <2>2, <2>4, <2>5, <3>2, <3>3
    <3>4. CASE i # n
      <4>1. i \in 1..(n - 1) /\ p.text[i] # c
        BY <2>7, <3>4
      <4> QED
        BY <2>1, <2>5, <3>1, <3>2, <4>1
    <3> QED
      BY <3>3, <3>4
  <2> QED
    BY <2>5, <2>6, <2>9
<1> HIDE DEF Done
<1>3. bad = {}
  <2> SUFFICES ASSUME bad # {}
               PROVE  FALSE
    OBVIOUS
  <2>1. PICK n \in bad : \A k \in bad : n <= k
    <3>1. bad \in SUBSET Nat
      BY ClassFacts
    <3> QED
      BY <3>1, LeastNat
  <2>2. n # 0
    BY <1>1, <2>1
  <2>3. n \in 1..NClass /\ n - 1 \in 0..NClass /\ n - 1 \notin bad
    BY <2>1, <2>2, ClassFacts
  <2> QED
    BY <1>2, <2>1, <2>3
<1>4. Done(NClass)
  BY <1>3, ClassFacts
<1>5. PICK f \in [0..NClass -> V] : f[0] = b /\ \A i \in 1..NClass : Up(f, i)
  BY <1>4 DEF Done
<1>6. \A a \in Class : f[a] = G[<<a, f[p.parent[a]]>>]
  <2> SUFFICES ASSUME NEW a \in Class
               PROVE  f[a] = G[<<a, f[p.parent[a]]>>]
    OBVIOUS
  <2>1. PICK i \in Class : p.text[i] = a
    BY InText
  <2>2. Up(f, i)
    BY <1>5 DEF Class
  <2> QED
    BY <2>1, <2>2
<1> QED
  BY <1>5, <1>6 DEF Obeys


Alike(f, g, p) ==
    \A a \in Class : f[p.parent[a]] = g[p.parent[a]] => f[a] = g[a]

\* A function that is defined along the prefixes is the only one.
LEMMA Determined ==
    ASSUME NEW p, InOrder(p),
           NEW f, NEW g, DOMAIN f = 0..NClass, DOMAIN g = 0..NClass,
           f = [a \in 0..NClass |-> f[a]], g = [a \in 0..NClass |-> g[a]],
           f[0] = g[0], Alike(f, g, p)
    PROVE  f = g
<1>1. \A a \in Class : f[a] = g[a]
  <2> DEFINE bad == {a \in Class : f[a] # g[a]}
  <2> SUFFICES ASSUME bad # {}
               PROVE  FALSE
    OBVIOUS
  <2>1. PICK c \in bad : p.parent[c] \in 0..NClass /\ p.parent[c] \notin bad
    <3> HIDE DEF bad
    <3>1. bad \in SUBSET Class
      BY DEF bad
    <3> QED
      BY <3>1, LeastClass
  <2>2. f[p.parent[c]] = g[p.parent[c]]
    BY <2>1, InClass
  <2> QED
    BY <2>1, <2>2 DEF Alike
<1>2. \A a \in 0..NClass : f[a] = g[a]
  BY <1>1, InClass
<1> QED
  BY <1>2, Zenon


-----------------------------------------------------------------------------
(* What the functions along the prefixes are.                              *)

LEMMA FieldsOfProperties ==
    ASSUME NEW c \in Class, NEW n \in Nat
    PROVE  /\ FieldsOf(c, n) \in Seq(Class \X Nat) /\ Len(FieldsOf(c, n)) = n
           /\ \A k \in 1..n : FieldsOf(c, n)[k] = <<c, k>>
BY DEF FieldsOf

Part == Class \X {"before", "after"}
Body == [before : Seq(Part), after : Seq(Part)]

LEMMA BehindType ==
    ASSUME NEW p, NEW a \in Class
    PROVE  Behind(p, a) \in Seq(Part)
<1>1. <<a, "after">> \in Part
  BY DEF Part
<1> QED
  BY <1>1 DEF Behind

LEMMA AroundType ==
    ASSUME NEW p, NEW a \in Class, NEW up \in Body
    PROVE  Around(p, a, up) \in Body
<1>1. up.before \in Seq(Part) /\ up.after \in Seq(Part) /\ <<a, "before">> \in Part
  BY DEF Body, Part
<1>2. Append(up.before, <<a, "before">>) \in Seq(Part)
  BY <1>1
<1>3. Behind(p, a) \o up.after \in Seq(Part)
  BY <1>1, BehindType
<1> QED
  BY <1>2, <1>3 DEF Around, Body

\* The chain of a class is that of its prefix and the class.
LEMMA ChainEquation ==
    ASSUME NEW p, InOrder(p)
    PROVE  /\ ChainIn(p.parent) \in [0..NClass -> Seq(Class)]
           /\ ChainIn(p.parent)[0] = <<>>
           /\ \A a \in Class :
                 ChainIn(p.parent)[a] = Append(ChainIn(p.parent)[p.parent[a]], a)
<1> DEFINE F(f) == [a \in 0..NClass |-> IF a = 0 THEN <<>> ELSE Append(f[p.parent[a]], a)]
<1>a. InOrder(p)
  OBVIOUS
<1>1. PICK G \in [Class \X (Seq(Class)) -> Seq(Class)] :
         \A a \in Class, v \in Seq(Class) : G[<<a, v>>] = Append(v, a)
  <2>1. \A a \in Class, v \in Seq(Class) : Append(v, a) \in Seq(Class)
    OBVIOUS
  <2>2. [x \in Class \X (Seq(Class)) |-> Append(x[2], x[1])] \in [Class \X (Seq(Class)) -> Seq(Class)]
    BY <2>1
  <2> QED
    BY <2>2
<1>2. PICK f \in [0..NClass -> Seq(Class)] : f[0] = <<>> /\ \A a \in Class : f[a] = G[<<a, f[p.parent[a]]>>]
  <2>1. PICK V : V = Seq(Class)
    OBVIOUS
  <2>2. PICK b : b = <<>> /\ b \in V
    <3>1. <<>> \in Seq(Class)
      OBVIOUS
    <3> QED
      BY <2>1, <3>1, Zenon
  <2>3. G \in [Class \X V -> V]
    BY <2>1
  <2>4. \E f \in [0..NClass -> V] : Obeys(f, p, b, G)
    BY <1>a, <2>2, <2>3, Recursion, Zenon
  <2> QED
    BY <2>1, <2>2, <2>4 DEF Obeys
<1>3. \A a \in Class : f[a] = Append(f[p.parent[a]], a)
  BY <1>a, <1>1, <1>2, InText
<1>4. f = F(f)
  BY <1>2, <1>3, InClass
<1>5. PICK h : h = F(h) /\ h = ChainIn(p.parent)
  BY <1>4 DEF ChainIn
<1>6. h[0] = <<>> /\ \A a \in Class : h[a] = Append(h[p.parent[a]], a)
  <2>1. \A a \in 0..NClass : h[a] = IF a = 0 THEN <<>> ELSE Append(h[p.parent[a]], a)
    BY <1>5, Zenon
  <2>2. 0 \in 0..NClass /\ \A a \in Class : a \in 0..NClass /\ a # 0
    BY InClass, ClassFacts
  <2> QED
    BY <2>1, <2>2, Zenon
<1>7. h = f
  <2>1. DOMAIN h = 0..NClass /\ h = [a \in 0..NClass |-> h[a]]
    BY <1>5
  <2>2. DOMAIN f = 0..NClass /\ f = [a \in 0..NClass |-> f[a]]
    BY <1>2
  <2>3. Alike(h, f, p)
    BY <1>3, <1>6 DEF Alike
  <2>4. h[0] = f[0]
    BY <1>2, <1>6
  <2> QED
    BY <1>a, <2>1, <2>2, <2>3, <2>4, Determined, Zenon
<1> QED
  BY <1>2, <1>3, <1>5, <1>7

\* What the search up the chain finds.
LEMMA NearestEquation ==
    ASSUME NEW p, InOrder(p), NEW entry \in [Class -> 0..NClass]
    PROVE  /\ NearestIn(p.parent, entry) \in [0..NClass -> 0..NClass]
           /\ NearestIn(p.parent, entry)[0] = 0
           /\ \A a \in Class :
                 NearestIn(p.parent, entry)[a] = IF entry[a] # 0 THEN entry[a] ELSE NearestIn(p.parent, entry)[p.parent[a]]
<1> DEFINE F(f) == [a \in 0..NClass |-> IF a = 0 THEN 0 ELSE IF entry[a] # 0 THEN entry[a] ELSE f[p.parent[a]]]
<1>a. InOrder(p)
  OBVIOUS
<1>1. PICK G \in [Class \X (0..NClass) -> 0..NClass] :
         \A a \in Class, v \in 0..NClass : G[<<a, v>>] = IF entry[a] # 0 THEN entry[a] ELSE v
  <2>1. \A a \in Class, v \in 0..NClass : (IF entry[a] # 0 THEN entry[a] ELSE v) \in 0..NClass
    OBVIOUS
  <2>2. [x \in Class \X (0..NClass) |-> IF entry[x[1]] # 0 THEN entry[x[1]] ELSE x[2]] \in [Class \X (0..NClass) -> 0..NClass]
    BY <2>1
  <2> QED
    BY <2>2
<1>2. PICK f \in [0..NClass -> 0..NClass] : f[0] = 0 /\ \A a \in Class : f[a] = G[<<a, f[p.parent[a]]>>]
  <2>1. PICK V : V = 0..NClass
    OBVIOUS
  <2>2. PICK b : b = 0 /\ b \in V
    <3>1. 0 \in 0..NClass
      BY ClassFacts
    <3> QED
      BY <2>1, <3>1, Zenon
  <2>3. G \in [Class \X V -> V]
    BY <2>1
  <2>4. \E f \in [0..NClass -> V] : Obeys(f, p, b, G)
    BY <1>a, <2>2, <2>3, Recursion, Zenon
  <2> QED
    BY <2>1, <2>2, <2>4 DEF Obeys
<1>3. \A a \in Class : f[a] = IF entry[a] # 0 THEN entry[a] ELSE f[p.parent[a]]
  <2> SUFFICES ASSUME NEW a \in Class
               PROVE  f[a] = IF entry[a] # 0 THEN entry[a] ELSE f[p.parent[a]]
    OBVIOUS
  <2>1. p.parent[a] \in 0..NClass
    BY <1>a, InText, Zenon
  <2>2. PICK v \in 0..NClass : v = f[p.parent[a]]
    BY <2>1
  <2>3. f[a] = G[<<a, v>>]
    BY <1>2, <2>2, Zenon
  <2>4. G[<<a, v>>] = IF entry[a] # 0 THEN entry[a] ELSE v
    BY <1>1, Zenon
  <2> QED
    BY <2>2, <2>3, <2>4, Zenon
<1>4. f = F(f)
  BY <1>2, <1>3, InClass
<1>5. PICK h : h = F(h) /\ h = NearestIn(p.parent, entry)
  BY <1>4 DEF NearestIn
<1>6. h[0] = 0 /\ \A a \in Class : h[a] = IF entry[a] # 0 THEN entry[a] ELSE h[p.parent[a]]
  <2>1. \A a \in 0..NClass : h[a] = IF a = 0 THEN 0 ELSE IF entry[a] # 0 THEN entry[a] ELSE h[p.parent[a]]
    BY <1>5, Zenon
  <2>2. 0 \in 0..NClass /\ \A a \in Class : a \in 0..NClass /\ a # 0
    BY InClass, ClassFacts
  <2> QED
    BY <2>1, <2>2, Zenon
<1>7. h = f
  <2>1. DOMAIN h = 0..NClass /\ h = [a \in 0..NClass |-> h[a]]
    BY <1>5
  <2>2. DOMAIN f = 0..NClass /\ f = [a \in 0..NClass |-> f[a]]
    BY <1>2
  <2>3. Alike(h, f, p)
    BY <1>3, <1>6 DEF Alike
  <2>4. h[0] = f[0]
    BY <1>2, <1>6
  <2> QED
    BY <1>a, <2>1, <2>2, <2>3, <2>4, Determined, Zenon
<1> QED
  BY <1>2, <1>3, <1>5, <1>7

\* Parameters of the prefix come first.
LEMMA ParamNamesEquation ==
    ASSUME NEW p, IsProgram(p)
    PROVE  /\ ParamNamesIn(p) \in [0..NClass -> Seq(Class \X Nat)]
           /\ ParamNamesIn(p)[0] = <<>>
           /\ \A a \in Class :
                 ParamNamesIn(p)[a] = ParamNamesIn(p)[p.parent[a]] \o FieldsOf(a, p.params[a])
<1> DEFINE F(f) == [a \in 0..NClass |-> IF a = 0 THEN <<>> ELSE f[p.parent[a]] \o FieldsOf(a, p.params[a])]
<1>a. InOrder(p)
  BY DEF IsProgram
<1>1. PICK G \in [Class \X (Seq(Class \X Nat)) -> Seq(Class \X Nat)] :
         \A a \in Class, v \in Seq(Class \X Nat) : G[<<a, v>>] = v \o FieldsOf(a, p.params[a])
  <2>1. \A a \in Class, v \in Seq(Class \X Nat) : v \o FieldsOf(a, p.params[a]) \in Seq(Class \X Nat)
    <3>1. \A a \in Class : FieldsOf(a, p.params[a]) \in Seq(Class \X Nat)
      BY FieldsOfProperties DEF IsProgram
    <3> QED
      BY <3>1
  <2>2. [x \in Class \X (Seq(Class \X Nat)) |-> x[2] \o FieldsOf(x[1], p.params[x[1]])] \in [Class \X (Seq(Class \X Nat)) -> Seq(Class \X Nat)]
    BY <2>1
  <2> QED
    BY <2>2
<1>2. PICK f \in [0..NClass -> Seq(Class \X Nat)] : f[0] = <<>> /\ \A a \in Class : f[a] = G[<<a, f[p.parent[a]]>>]
  <2>1. PICK V : V = Seq(Class \X Nat)
    OBVIOUS
  <2>2. PICK b : b = <<>> /\ b \in V
    <3>1. <<>> \in Seq(Class \X Nat)
      OBVIOUS
    <3> QED
      BY <2>1, <3>1, Zenon
  <2>3. G \in [Class \X V -> V]
    BY <2>1
  <2>4. \E f \in [0..NClass -> V] : Obeys(f, p, b, G)
    BY <1>a, <2>2, <2>3, Recursion, Zenon
  <2> QED
    BY <2>1, <2>2, <2>4 DEF Obeys
<1>3. \A a \in Class : f[a] = f[p.parent[a]] \o FieldsOf(a, p.params[a])
  BY <1>a, <1>1, <1>2, InText
<1>4. f = F(f)
  BY <1>2, <1>3, InClass
<1>5. PICK h : h = F(h) /\ h = ParamNamesIn(p)
  BY <1>4 DEF ParamNamesIn
<1>6. h[0] = <<>> /\ \A a \in Class : h[a] = h[p.parent[a]] \o FieldsOf(a, p.params[a])
  <2>1. \A a \in 0..NClass : h[a] = IF a = 0 THEN <<>> ELSE h[p.parent[a]] \o FieldsOf(a, p.params[a])
    BY <1>5, Zenon
  <2>2. 0 \in 0..NClass /\ \A a \in Class : a \in 0..NClass /\ a # 0
    BY InClass, ClassFacts
  <2> QED
    BY <2>1, <2>2, Zenon
<1>7. h = f
  <2>1. DOMAIN h = 0..NClass /\ h = [a \in 0..NClass |-> h[a]]
    BY <1>5
  <2>2. DOMAIN f = 0..NClass /\ f = [a \in 0..NClass |-> f[a]]
    BY <1>2
  <2>3. Alike(h, f, p)
    BY <1>3, <1>6 DEF Alike
  <2>4. h[0] = f[0]
    BY <1>2, <1>6
  <2> QED
    BY <1>a, <2>1, <2>2, <2>3, <2>4, Determined, Zenon
<1> QED
  BY <1>2, <1>3, <1>5, <1>7

\* Actuals of the prefix come first.
LEMMA ActualsEquation ==
    ASSUME NEW p, IsProgram(p)
    PROVE  /\ ActualsIn(p) \in [0..NClass -> Nat]
           /\ ActualsIn(p)[0] = 0
           /\ \A a \in Class :
                 ActualsIn(p)[a] = p.params[a] + ActualsIn(p)[p.parent[a]]
<1> DEFINE F(f) == [a \in 0..NClass |-> IF a = 0 THEN 0 ELSE p.params[a] + f[p.parent[a]]]
<1>a. InOrder(p)
  BY DEF IsProgram
<1>1. PICK G \in [Class \X (Nat) -> Nat] :
         \A a \in Class, v \in Nat : G[<<a, v>>] = p.params[a] + v
  <2>1. \A a \in Class, v \in Nat : p.params[a] + v \in Nat
    BY DEF IsProgram
  <2>2. [x \in Class \X (Nat) |-> p.params[x[1]] + x[2]] \in [Class \X (Nat) -> Nat]
    BY <2>1
  <2> QED
    BY <2>2
<1>2. PICK f \in [0..NClass -> Nat] : f[0] = 0 /\ \A a \in Class : f[a] = G[<<a, f[p.parent[a]]>>]
  <2>1. PICK V : V = Nat
    OBVIOUS
  <2>2. PICK b : b = 0 /\ b \in V
    <3>1. 0 \in Nat
      OBVIOUS
    <3> QED
      BY <2>1, <3>1, Zenon
  <2>3. G \in [Class \X V -> V]
    BY <2>1
  <2>4. \E f \in [0..NClass -> V] : Obeys(f, p, b, G)
    BY <1>a, <2>2, <2>3, Recursion, Zenon
  <2> QED
    BY <2>1, <2>2, <2>4 DEF Obeys
<1>3. \A a \in Class : f[a] = p.params[a] + f[p.parent[a]]
  BY <1>a, <1>1, <1>2, InText
<1>4. f = F(f)
  BY <1>2, <1>3, InClass
<1>5. PICK h : h = F(h) /\ h = ActualsIn(p)
  BY <1>4 DEF ActualsIn
<1>6. h[0] = 0 /\ \A a \in Class : h[a] = p.params[a] + h[p.parent[a]]
  <2>1. \A a \in 0..NClass : h[a] = IF a = 0 THEN 0 ELSE p.params[a] + h[p.parent[a]]
    BY <1>5, Zenon
  <2>2. 0 \in 0..NClass /\ \A a \in Class : a \in 0..NClass /\ a # 0
    BY InClass, ClassFacts
  <2> QED
    BY <2>1, <2>2, Zenon
<1>7. h = f
  <2>1. DOMAIN h = 0..NClass /\ h = [a \in 0..NClass |-> h[a]]
    BY <1>5
  <2>2. DOMAIN f = 0..NClass /\ f = [a \in 0..NClass |-> f[a]]
    BY <1>2
  <2>3. Alike(h, f, p)
    BY <1>3, <1>6 DEF Alike
  <2>4. h[0] = f[0]
    BY <1>2, <1>6
  <2> QED
    BY <1>a, <2>1, <2>2, <2>3, <2>4, Determined, Zenon
<1> QED
  BY <1>2, <1>3, <1>5, <1>7

\* The parts of a body around those of its prefix.
LEMMA PartsEquation ==
    ASSUME NEW p, IsProgram(p)
    PROVE  /\ PartsIn(p) \in [0..NClass -> Body]
           /\ PartsIn(p)[0] = NoParts
           /\ \A a \in Class :
                 PartsIn(p)[a] = Around(p, a, PartsIn(p)[p.parent[a]])
<1> DEFINE F(f) == [a \in 0..NClass |-> IF a = 0 THEN NoParts ELSE Around(p, a, f[p.parent[a]])]
<1>a. InOrder(p)
  BY DEF IsProgram
<1>1. PICK G \in [Class \X (Body) -> Body] :
         \A a \in Class, v \in Body : G[<<a, v>>] = Around(p, a, v)
  <2>1. \A a \in Class, v \in Body : Around(p, a, v) \in Body
    BY AroundType
  <2>2. [x \in Class \X (Body) |-> Around(p, x[1], x[2])] \in [Class \X (Body) -> Body]
    BY <2>1
  <2> QED
    BY <2>2
<1>2. PICK f \in [0..NClass -> Body] : f[0] = NoParts /\ \A a \in Class : f[a] = G[<<a, f[p.parent[a]]>>]
  <2>1. PICK V : V = Body
    OBVIOUS
  <2>2. PICK b : b = NoParts /\ b \in V
    <3>1. NoParts \in Body
      BY DEF NoParts, Body
    <3> QED
      BY <2>1, <3>1, Zenon
  <2>3. G \in [Class \X V -> V]
    BY <2>1
  <2>4. \E f \in [0..NClass -> V] : Obeys(f, p, b, G)
    BY <1>a, <2>2, <2>3, Recursion, Zenon
  <2> QED
    BY <2>1, <2>2, <2>4 DEF Obeys
<1>3. \A a \in Class : f[a] = Around(p, a, f[p.parent[a]])
  BY <1>a, <1>1, <1>2, InText
<1>4. f = F(f)
  BY <1>2, <1>3, InClass
<1>5. PICK h : h = F(h) /\ h = PartsIn(p)
  BY <1>4 DEF PartsIn
<1>6. h[0] = NoParts /\ \A a \in Class : h[a] = Around(p, a, h[p.parent[a]])
  <2>1. \A a \in 0..NClass : h[a] = IF a = 0 THEN NoParts ELSE Around(p, a, h[p.parent[a]])
    BY <1>5, Zenon
  <2>2. 0 \in 0..NClass /\ \A a \in Class : a \in 0..NClass /\ a # 0
    BY InClass, ClassFacts
  <2> QED
    BY <2>1, <2>2, Zenon
<1>7. h = f
  <2>1. DOMAIN h = 0..NClass /\ h = [a \in 0..NClass |-> h[a]]
    BY <1>5
  <2>2. DOMAIN f = 0..NClass /\ f = [a \in 0..NClass |-> f[a]]
    BY <1>2
  <2>3. Alike(h, f, p)
    BY <1>3, <1>6 DEF Alike
  <2>4. h[0] = f[0]
    BY <1>2, <1>6
  <2> QED
    BY <1>a, <2>1, <2>2, <2>3, <2>4, Determined, Zenon
<1> QED
  BY <1>2, <1>3, <1>5, <1>7


-----------------------------------------------------------------------------
(* Prefixes.                                                                 *)

PrefixesIn(p, c) == ToSet(ChainIn(p.parent)[c])
RootIn(p, c)     == ChainIn(p.parent)[c][1]

\* A set of classes that has the prefixes of its classes.
Closed(p, D) ==
    D \subseteq Class /\ \A c \in D : p.parent[c] # 0 => p.parent[c] \in D

LEMMA ChainOfPrefix ==
    ASSUME NEW p, InOrder(p), NEW c \in Class,
           NEW up, up = ChainIn(p.parent)[p.parent[c]]
    PROVE  /\ up \in Seq(Class)
           /\ ChainIn(p.parent)[c] \in Seq(Class)
           /\ Len(ChainIn(p.parent)[c]) = Len(up) + 1
           /\ ChainIn(p.parent)[c][Len(up) + 1] = c
           /\ \A i \in 1..Len(up) : ChainIn(p.parent)[c][i] = up[i]
           /\ p.parent[c] = 0 => Len(up) = 0
<1>1. up \in Seq(Class) /\ p.parent[c] \in 0..NClass
  BY ChainEquation, InText
<1>2. ChainIn(p.parent)[c] = Append(up, c)
  BY ChainEquation
<1>3. p.parent[c] = 0 => Len(up) = 0
  BY ChainEquation
<1> QED
  BY <1>1, <1>2, <1>3, AppendProperties

LEMMA PrefixStep ==
    ASSUME NEW p, InOrder(p), NEW c \in Class
    PROVE  PrefixesIn(p, c) = {c} \cup (IF p.parent[c] = 0 THEN {}
                                        ELSE PrefixesIn(p, p.parent[c]))
<1>1. PICK up : up = ChainIn(p.parent)[p.parent[c]]
  OBVIOUS
<1>2. PICK ch : ch = ChainIn(p.parent)[c]
  OBVIOUS
<1>3. /\ up \in Seq(Class) /\ ch \in Seq(Class)
      /\ Len(ch) = Len(up) + 1 /\ ch[Len(up) + 1] = c
      /\ \A i \in 1..Len(up) : ch[i] = up[i]
      /\ p.parent[c] = 0 => Len(up) = 0
  BY <1>1, <1>2, ChainOfPrefix
<1>4. ToSet(ch) = {c} \cup ToSet(up)
  <2>1. \A x \in ToSet(ch) : x = c \/ x \in ToSet(up)
    BY <1>3 DEF ToSet
  <2>2. c \in ToSet(ch)
    BY <1>3 DEF ToSet
  <2>3. \A x \in ToSet(up) : x \in ToSet(ch)
    BY <1>3 DEF ToSet
  <2> QED
    BY <2>1, <2>2, <2>3
<1>5. p.parent[c] = 0 => ToSet(up) = {}
  BY <1>3 DEF ToSet
<1> QED
  BY <1>1, <1>2, <1>4, <1>5 DEF PrefixesIn

LEMMA Root ==
    ASSUME NEW p, InOrder(p), NEW c \in Class
    PROVE  /\ p.parent[c] = 0 => RootIn(p, c) = c
           /\ p.parent[c] # 0 => RootIn(p, c) = RootIn(p, p.parent[c])
<1>1. PICK up : up = ChainIn(p.parent)[p.parent[c]]
  OBVIOUS
<1>2. PICK ch : ch = ChainIn(p.parent)[c]
  OBVIOUS
<1>3. /\ up \in Seq(Class) /\ ch \in Seq(Class)
      /\ Len(ch) = Len(up) + 1 /\ ch[Len(up) + 1] = c
      /\ \A i \in 1..Len(up) : ch[i] = up[i]
      /\ p.parent[c] = 0 => Len(up) = 0
  BY <1>1, <1>2, ChainOfPrefix
<1>4. p.parent[c] # 0 => Len(up) > 0
  <2> SUFFICES ASSUME p.parent[c] # 0
               PROVE  Len(up) > 0
    OBVIOUS
  <2>1. p.parent[c] \in Class
    BY InText, InClass
  <2> QED
    BY <1>1, <2>1, ChainOfPrefix
<1>5. p.parent[c] = 0 => ch[1] = c
  BY <1>3
<1>6. p.parent[c] # 0 => ch[1] = up[1]
  BY <1>3, <1>4
<1> QED
  BY <1>1, <1>2, <1>5, <1>6 DEF RootIn

\* The prefixes of a prefix are prefixes, with the same root.
LEMMA PrefixOfPrefix ==
    ASSUME NEW p, InOrder(p)
    PROVE  \A c \in Class : \A a \in PrefixesIn(p, c) :
              /\ a \in Class
              /\ RootIn(p, a) = RootIn(p, c)
              /\ PrefixesIn(p, a) \subseteq PrefixesIn(p, c)
<1> DEFINE Good(c) == \A a \in PrefixesIn(p, c) :
                         /\ a \in Class
                         /\ RootIn(p, a) = RootIn(p, c)
                         /\ PrefixesIn(p, a) \subseteq PrefixesIn(p, c)
           bad == {c \in Class : ~ Good(c)}
<1>1. ASSUME bad # {}
      PROVE  FALSE
  <2>1. PICK c \in bad : p.parent[c] \in 0..NClass /\ p.parent[c] \notin bad
    <3> HIDE DEF bad
    <3>1. bad \in SUBSET Class
      BY DEF bad
    <3> QED
      BY <1>1, <3>1, LeastClass
  <2>2. c \in Class /\ ~ Good(c) /\ (p.parent[c] # 0 => p.parent[c] \in Class /\ Good(p.parent[c]))
    <3> HIDE DEF Good
    <3> QED
      BY <2>1, InClass
  <2>3. PICK a \in PrefixesIn(p, c) :
           ~ (/\ a \in Class
              /\ RootIn(p, a) = RootIn(p, c)
              /\ PrefixesIn(p, a) \subseteq PrefixesIn(p, c))
    BY <2>2
  <2>4. a # c
    BY <2>2, <2>3
  <2>5. p.parent[c] # 0 /\ a \in PrefixesIn(p, p.parent[c])
    BY <2>2, <2>3, <2>4, PrefixStep
  <2>6. RootIn(p, c) = RootIn(p, p.parent[c])
    BY <2>2, <2>5, Root
  <2>7. PrefixesIn(p, p.parent[c]) \subseteq PrefixesIn(p, c)
    BY <2>2, <2>5, PrefixStep
  <2> QED
    BY <2>2, <2>3, <2>5, <2>6, <2>7
<1>2. \A c \in Class : Good(c)
  BY <1>1
<1> QED
  BY <1>2

LEMMA OwnPrefix ==
    ASSUME NEW p, InOrder(p), NEW c \in Class
    PROVE  /\ c \in PrefixesIn(p, c)
           /\ p.parent[c] # 0 => /\ p.parent[c] \in Class
                                 /\ p.parent[c] \in PrefixesIn(p, c)
<1>1. p.parent[c] # 0 => p.parent[c] \in Class
  BY InText, InClass
<1>2. p.parent[c] # 0 => p.parent[c] \in PrefixesIn(p, p.parent[c])
  BY <1>1, PrefixStep
<1> QED
  BY <1>1, <1>2, PrefixStep

LEMMA ClosedPrefixes ==
    ASSUME NEW p, InOrder(p), NEW D, Closed(p, D)
    PROVE  \A c \in D : PrefixesIn(p, c) \subseteq D
<1> DEFINE bad == {c \in D : ~ PrefixesIn(p, c) \subseteq D}
<1>1. ASSUME bad # {}
      PROVE  FALSE
  <2>1. PICK c \in bad : p.parent[c] \in 0..NClass /\ p.parent[c] \notin bad
    <3> HIDE DEF bad
    <3>1. bad \in SUBSET Class
      BY DEF bad, Closed
    <3> QED
      BY <1>1, <3>1, LeastClass
  <2>2. c \in Class /\ (p.parent[c] # 0 => p.parent[c] \in D)
    BY <2>1 DEF Closed
  <2> QED
    BY <2>1, <2>2, PrefixStep
<1> QED
  BY <1>1

\* A search for what the nearest class has finds what the search for what the
\* classes declare finds.
LEMMA SearchOfNearest ==
    ASSUME NEW p, InOrder(p), NEW D, Closed(p, D),
           NEW own \in [Class -> 0..NClass], NEW has \in [Class -> 0..NClass],
           \A c \in D : has[c] = NearestIn(p.parent, own)[c]
    PROVE  \A c \in D : NearestIn(p.parent, has)[c] = NearestIn(p.parent, own)[c]
<1> DEFINE bad == {c \in D : NearestIn(p.parent, has)[c] # NearestIn(p.parent, own)[c]}
<1>1. ASSUME bad # {}
      PROVE  FALSE
  <2>1. PICK c \in bad : p.parent[c] \in 0..NClass /\ p.parent[c] \notin bad
    <3> HIDE DEF bad
    <3>1. bad \in SUBSET Class
      BY DEF bad, Closed
    <3> QED
      BY <1>1, <3>1, LeastClass
  <2>2. PICK N1 : N1 = NearestIn(p.parent, has)
    OBVIOUS
  <2>3. PICK N2 : N2 = NearestIn(p.parent, own)
    OBVIOUS
  <2>4. c \in Class /\ c \in D /\ N1[c] # N2[c] /\ has[c] = N2[c]
    BY <2>1, <2>2, <2>3 DEF Closed
  <2>5. N1[c] = IF has[c] # 0 THEN has[c] ELSE N1[p.parent[c]]
    BY <2>2, <2>4, NearestEquation
  <2>6. N2[c] = IF own[c] # 0 THEN own[c] ELSE N2[p.parent[c]]
    BY <2>3, <2>4, NearestEquation
  <2>7. N1[p.parent[c]] = N2[p.parent[c]]
    <3>1. CASE p.parent[c] = 0
      BY <2>2, <2>3, <3>1, NearestEquation
    <3>2. CASE p.parent[c] # 0
      BY <2>1, <2>2, <2>3, <2>4, <3>2 DEF Closed
    <3> QED
      BY <3>1, <3>2
  <2> QED
    BY <2>4, <2>5, <2>6, <2>7
<1> QED
  BY <1>1


-----------------------------------------------------------------------------
(* Method tables.                                                          *)

Increasing(s, n) == \A i, j \in 1..n : i < j => s[i] < s[j]

LEMMA FiniteBelow ==
    ASSUME NEW n \in Nat, NEW S \in SUBSET (1..n)
    PROVE  IsFiniteSet(S) /\ Cardinality(S) \in Nat
<1>1. IsFiniteSet(1..n)
  BY FS_Interval
<1>2. IsFiniteSet(S)
  BY <1>1, FS_Subset
<1> QED
  BY <1>2, FS_CardinalityType

\* The numbers of a finite set can be put in order.
LEMMA OrderExists ==
    ASSUME NEW n \in Nat
    PROVE  \A S \in SUBSET (1..n) :
              \E s \in [1..Cardinality(S) -> S] : Increasing(s, Cardinality(S))
<1> DEFINE Has(k) == \A S \in SUBSET (1..k) :
                        \E s \in [1..Cardinality(S) -> S] : Increasing(s, Cardinality(S))
           bad == {k \in Nat : ~ Has(k)}
<1>1. Has(0)
  <2> SUFFICES ASSUME NEW S \in SUBSET (1..0)
               PROVE  \E s \in [1..Cardinality(S) -> S] : Increasing(s, Cardinality(S))
    OBVIOUS
  <2>1. S = {} /\ Cardinality(S) = 0
    <3>1. S = {}
      OBVIOUS
    <3> QED
      BY <3>1, FS_EmptySet
  <2>2. <<>> \in [1..0 -> S]
    BY <2>1
  <2>3. Increasing(<<>>, 0)
    BY DEF Increasing
  <2> QED
    BY <2>1, <2>2, <2>3
<1>2. ASSUME NEW k \in Nat, k # 0, Has(k - 1)
      PROVE  Has(k)
  <2> SUFFICES ASSUME NEW S \in SUBSET (1..k)
               PROVE  \E s \in [1..Cardinality(S) -> S] : Increasing(s, Cardinality(S))
    OBVIOUS
  <2>1. PICK T \in SUBSET (1..(k - 1)) : T = S \ {k}
    <3>1. \A i \in S : i # k => i \in 1..(k - 1)
      BY <1>2
    <3> QED
      BY <3>1
  <2>2. PICK N \in Nat : N = Cardinality(T)
    <3>1. k - 1 \in Nat
      BY <1>2
    <3> QED
      BY <3>1, FiniteBelow
  <2>3. PICK s \in [1..N -> T] : Increasing(s, N)
    BY <1>2, <2>2
  <2>4. CASE k \notin S
    <3>1. S = T
      BY <2>1, <2>4
    <3> QED
      BY <2>2, <2>3, <3>1
  <2>5. CASE k \in S
    <3>1. IsFiniteSet(T) /\ S = T \cup {k} /\ k \notin T
      <4>1. k - 1 \in Nat /\ k \notin 1..(k - 1)
        BY <1>2
      <4> QED
        BY <2>1, <2>5, <4>1, FiniteBelow
    <3>2. Cardinality(S) = N + 1
      BY <2>2, <3>1, FS_AddElement
    <3> DEFINE z == [i \in 1..(N + 1) |-> IF i <= N THEN s[i] ELSE k]
    <3>3. z \in [1..(N + 1) -> S]
      BY <2>1, <2>3, <2>5
    <3>4. Increasing(z, N + 1)
      <4> SUFFICES ASSUME NEW i \in 1..(N + 1), NEW j \in 1..(N + 1), i < j
                   PROVE  z[i] < z[j]
        BY DEF Increasing
      <4>1. i <= N /\ i \in 1..N /\ s[i] \in T /\ z[i] = s[i] /\ s[i] < k
        <5>1. i <= N /\ i \in 1..N
          OBVIOUS
        <5>2. s[i] \in T /\ z[i] = s[i]
          BY <5>1
        <5>3. s[i] \in 1..(k - 1)
          BY <5>2
        <5> QED
          BY <5>1, <5>2, <5>3
      <4>2. CASE j <= N
        BY <2>3, <4>1, <4>2 DEF Increasing
      <4>3. CASE ~ (j <= N)
        BY <4>1, <4>3
      <4> QED
        BY <4>2, <4>3
    <3> QED
      BY <3>2, <3>3, <3>4
  <2> QED
    BY <2>4, <2>5
<1> HIDE DEF Has
<1>3. bad = {}
  <2> SUFFICES ASSUME bad # {}
               PROVE  FALSE
    OBVIOUS
  <2>1. PICK k \in bad : \A j \in bad : k <= j
    BY LeastNat
  <2>2. k # 0
    BY <1>1, <2>1
  <2>3. k - 1 \in Nat /\ k - 1 \notin bad
    BY <2>1, <2>2
  <2> QED
    BY <1>2, <2>1, <2>2, <2>3
<1>4. Has(n)
  BY <1>3
<1> QED
  BY <1>4 DEF Has

\* A sequence without repetition of the elements of S.
Lists(s, S) ==
    /\ s \in Seq(S)
    /\ \A i, j \in 1..Len(s) : s[i] = s[j] => i = j
    /\ \A x \in S : \E i \in 1..Len(s) : s[i] = x

LEMMA SortedLists ==
    ASSUME NEW n \in Nat, NEW S \in SUBSET (1..n)
    PROVE  Lists(Sorted(S), S)
<1>1. PICK N \in Nat : N = Cardinality(S)
  BY FiniteBelow
<1>2. IsFiniteSet(S)
  BY FiniteBelow
<1>3. PICK s \in [1..N -> S] : s = Sorted(S) /\ Increasing(s, N)
  <2>1. \E s \in [1..N -> S] : Increasing(s, N)
    BY <1>1, OrderExists
  <2> QED
    BY <1>1, <2>1 DEF Sorted, Increasing
<1>4. s \in Seq(S) /\ Len(s) = N
  BY <1>3
<1>5. \A i, j \in 1..N : s[i] = s[j] => i = j
  <2> SUFFICES ASSUME NEW i \in 1..N, NEW j \in 1..N, s[i] = s[j], i # j
               PROVE  FALSE
    OBVIOUS
  <2>1. s[i] \in 1..n /\ s[j] \in 1..n
    BY <1>3
  <2>2. i < j \/ j < i
    OBVIOUS
  <2> QED
    BY <1>3, <2>1, <2>2 DEF Increasing
<1>6. s \in Injection(1..N, S)
  BY <1>5 DEF Injection, IsInjective
<1>7. Cardinality(1..N) = N
  BY FS_Interval
<1>8. s \in Surjection(1..N, S)
  BY <1>1, <1>2, <1>6, <1>7, FS_Injection
<1>9. \A x \in S : \E i \in 1..N : s[i] = x
  BY <1>8 DEF Surjection
<1> QED
  BY <1>3, <1>4, <1>5, <1>9 DEF Lists

LEMMA SortedNothing == Sorted({}) = <<>>
<1>1. Lists(Sorted({}), {})
  <2>1. {} \in SUBSET (1..0)
    OBVIOUS
  <2> QED
    BY <2>1, SortedLists
<1>2. Sorted({}) \in Seq({})
  BY <1>1 DEF Lists
<1> QED
  BY <1>2

\* The number of a name is its place in the order, and each has one place.
TableOK(t) ==
    /\ t \in [order : Seq(Method), index : [Method -> Nat]]
    /\ \A m \in Method : t.index[m] # 0 =>
          t.index[m] \in 1..Len(t.order) /\ t.order[t.index[m]] = m
    /\ \A i \in 1..Len(t.order) : t.index[t.order[i]] = i

\* Names keep their numbers, and those of names are added.
Extends(e, t, names) ==
    /\ \A m \in Method : t.index[m] # 0 => e.index[m] = t.index[m]
    /\ NamesIn(e) = NamesIn(t) \cup names
    /\ names \subseteq NamesIn(t) => e = t

LEMMA ExtendTable ==
    ASSUME NEW t, TableOK(t), NEW names \in SUBSET Method
    PROVE  TableOK(Extend(t, names)) /\ Extends(Extend(t, names), t, names)
<1>1. PICK order \in Seq(Method), index \in [Method -> Nat] : t = [order |-> order, index |-> index]
  BY DEF TableOK
<1>2. /\ \A m \in Method : index[m] # 0 => index[m] \in 1..Len(order) /\ order[index[m]] = m
      /\ \A i \in 1..Len(order) : index[order[i]] = i
  BY <1>1 DEF TableOK
<1>3. PICK add : add = {m \in names : index[m] = 0}
  OBVIOUS
<1>4. PICK new : new = Sorted(add)
  OBVIOUS
<1>5. /\ new \in Seq(Method)
      /\ \A i \in 1..Len(new) : new[i] \in names /\ new[i] \in Method /\ index[new[i]] = 0
      /\ \A i, j \in 1..Len(new) : new[i] = new[j] => i = j
      /\ \A m \in names : index[m] = 0 => \E i \in 1..Len(new) : new[i] = m
  <2>1. NMethod \in Nat /\ add \in SUBSET (1..NMethod)
    BY <1>3, SizesAssumption DEF Method
  <2>2. Lists(new, add)
    BY <1>4, <2>1, SortedLists
  <2> QED
    BY <1>3, <2>2 DEF Lists
<1>6. PICK L \in Nat : L = Len(order)
  OBVIOUS
<1>7. PICK N \in Nat : N = Len(new) /\ DOMAIN new = 1..N
  BY <1>5
<1>8. PICK o : o = order \o new
  OBVIOUS
<1>9. /\ o \in Seq(Method) /\ Len(o) = L + N
      /\ \A i \in 1..(L + N) : o[i] = IF i <= L THEN order[i] ELSE new[i - L]
  BY <1>5, <1>6, <1>7, <1>8, ConcatProperties
<1>10. PICK x : x = [m \in Method |-> IF \E i \in DOMAIN new : new[i] = m
                                      THEN L + CHOOSE i \in DOMAIN new : new[i] = m
                                      ELSE index[m]]
  OBVIOUS
<1>11. Extend(t, names) = [order |-> o, index |-> x]
  BY <1>1, <1>3, <1>4, <1>6, <1>8, <1>10 DEF Extend
<1>12. \A m \in Method, i \in 1..N : new[i] = m => x[m] = L + i
  <2> SUFFICES ASSUME NEW m \in Method, NEW i \in 1..N, new[i] = m
               PROVE  x[m] = L + i
    OBVIOUS
  <2>1. PICK j \in 1..N : j = (CHOOSE k \in DOMAIN new : new[k] = m) /\ new[j] = m
    BY <1>7
  <2>2. j = i
    BY <1>5, <1>7, <2>1
  <2> QED
    BY <1>7, <1>10, <2>1, <2>2
<1>13. \A m \in Method : (\A i \in 1..N : new[i] # m) => x[m] = index[m]
  BY <1>7, <1>10
<1>14. \A m \in Method : index[m] # 0 => x[m] = index[m]
  BY <1>5, <1>7, <1>13
<1>15. x \in [Method -> Nat]
  <2>1. \A m \in Method : x[m] \in Nat
    <3> SUFFICES ASSUME NEW m \in Method
                 PROVE  x[m] \in Nat
      OBVIOUS
    <3>1. CASE \E i \in 1..N : new[i] = m
      BY <1>12, <3>1
    <3>2. CASE ~ \E i \in 1..N : new[i] = m
      BY <1>13, <3>2
    <3> QED
      BY <3>1, <3>2
  <2> QED
    BY <1>10, <2>1
<1>16. \A i \in 1..(L + N) : x[o[i]] = i
  <2> SUFFICES ASSUME NEW i \in 1..(L + N)
               PROVE  x[o[i]] = i
    OBVIOUS
  <2>1. CASE i <= L
    <3>1. i \in 1..L /\ o[i] = order[i] /\ order[i] \in Method /\ index[order[i]] = i
      BY <1>2, <1>6, <1>9, <2>1
    <3> QED
      BY <1>14, <3>1
  <2>2. CASE ~ (i <= L)
    <3>1. i - L \in 1..N /\ o[i] = new[i - L] /\ new[i - L] \in Method
      BY <1>5, <1>7, <1>9, <2>2
    <3> QED
      BY <1>12, <3>1
  <2> QED
    BY <2>1, <2>2
<1>17. \A m \in Method : x[m] # 0 => x[m] \in 1..(L + N) /\ o[x[m]] = m
  <2> SUFFICES ASSUME NEW m \in Method, x[m] # 0
               PROVE  x[m] \in 1..(L + N) /\ o[x[m]] = m
    OBVIOUS
  <2>1. CASE \E i \in 1..N : new[i] = m
    <3>1. PICK i \in 1..N : new[i] = m
      BY <2>1
    <3>2. x[m] = L + i
      BY <1>12, <3>1
    <3> QED
      BY <1>9, <3>1, <3>2
  <2>2. CASE ~ \E i \in 1..N : new[i] = m
    <3>1. x[m] = index[m] /\ x[m] \in 1..L /\ order[x[m]] = m
      BY <1>2, <1>6, <1>13, <2>2
    <3> QED
      BY <1>9, <3>1
  <2> QED
    BY <2>1, <2>2
<1>18. TableOK(Extend(t, names))
  BY <1>9, <1>11, <1>15, <1>16, <1>17 DEF TableOK
<1>19. \A m \in Method : x[m] # 0 <=> index[m] # 0 \/ m \in names
  <2> SUFFICES ASSUME NEW m \in Method
               PROVE  x[m] # 0 <=> index[m] # 0 \/ m \in names
    OBVIOUS
  <2>1. CASE \E i \in 1..N : new[i] = m
    <3>1. PICK i \in 1..N : new[i] = m
      BY <2>1
    <3> QED
      BY <1>5, <1>7, <1>12, <3>1
  <2>2. CASE ~ \E i \in 1..N : new[i] = m
    BY <1>5, <1>7, <1>13, <2>2
  <2> QED
    BY <2>1, <2>2
<1>20. NamesIn(Extend(t, names)) = NamesIn(t) \cup names
  BY <1>1, <1>11, <1>19 DEF NamesIn
<1>21. ASSUME names \subseteq NamesIn(t)
       PROVE  Extend(t, names) = t
  <2>1. add = {}
    BY <1>1, <1>3, <1>21 DEF NamesIn
  <2>2. new = <<>>
    BY <1>4, <2>1, SortedNothing
  <2>3. o = order
    BY <1>8, <2>2
  <2>4. N = 0
    BY <1>7, <2>2
  <2>5. x = index
    BY <1>10, <1>13, <1>15, <2>4
  <2> QED
    BY <1>1, <1>11, <2>3, <2>5
<1>22. \A m \in Method : t.index[m] # 0 => Extend(t, names).index[m] = t.index[m]
  BY <1>1, <1>11, <1>14
<1> QED
  BY <1>18, <1>20, <1>21, <1>22 DEF Extends


-----------------------------------------------------------------------------
(* The inductive invariant.                                                *)

\* The classes met, the procedures a class declares, those it has, and what
\* Simula means by a call.
Known(p, st, n) == IF st = "blocks" THEN {p.text[i] : i \in 1..n} ELSE Class
Declares(p, m)  == [a \in Class |-> IF m \in p.own[a] THEN a ELSE 0]
Meant(p, c, m)  == NearestIn(p.parent, Declares(p, m))[c]
Virtuals(p, c)  == {m \in Method : \E a \in PrefixesIn(p, c) : m \in p.virt[a]}
Having(ms, c)   == {m \in Method : ms[c][m] # 0}

Numbers == {t \in [order : Seq(Method), index : [Method -> Nat]] : TableOK(t)}
Layouts == [fields : Seq(Class \X Nat), captured : Seq(Var)]

Types ==
    /\ prog \in Program
    /\ stage \in Stage /\ at \in 0..NClass /\ changed \in BOOLEAN
    /\ stage # "blocks" => at \in Class
    /\ vt \in [Class -> Numbers]
    /\ methods \in [Class -> [Method -> 0..NClass]]
    /\ layout \in [Class -> Layouts]
    /\ tables \in [Class -> Seq(0..NClass)]
    /\ code.blocks \subseteq Block

\* A class met has the procedures of its prefix, and may redefine them.
MethodsRight(p, D, ms) == \A c \in D : \A m \in Method : ms[c][m] = Meant(p, c, m)

\* The names the root specifies as virtual have one number in all its classes.
RootNumbers(p, D, v) ==
    \A c \in D : \A m \in p.virt[RootIn(p, c)] :
        /\ v[c].index[m] # 0
        /\ \A a \in PrefixesIn(p, c) : v[a].index[m] = v[c].index[m]

\* A call by number has the number its class has now, if the root specifies the
\* name; a name that is not virtual is called by its function.
CallRight(p, D, v, call) ==
    /\ call.qual \in D /\ call.method \in Method
    /\ call.method \in p.virt[RootIn(p, call.qual)] =>
          call.index = v[call.qual].index[call.method]
    /\ call.method \notin Virtuals(p, call.qual) =>
          /\ call.index = 0
          /\ Meant(p, call.qual, call.method) # 0 =>
                call.target = Meant(p, call.qual, call.method)

TestRight(p, test) ==
    /\ test.class \in Class
    /\ \A d \in test.ids : d \in Class /\ test.class \in PrefixesIn(p, d)

\* What the passes of buildAllVtables have reached: a class has its procedures'
\* names, and after the second pass a prefix has the names of its classes.
HasNames(c, v, ms) == Having(ms, c) \subseteq NamesIn(v[c])
GoUp(c, p, v)      == p.parent[c] # 0 => NamesIn(v[c]) \subseteq NamesIn(v[p.parent[c]])

Passed(st, n, ch, p, v, ms) ==
    /\ st = "inherit" => \A c \in 1..(n - 1) : HasNames(c, v, ms)
    /\ st \in {"propagate", "adopt", "build", "run"} => \A c \in Class : HasNames(c, v, ms)
    /\ st = "propagate" /\ ~ ch => \A c \in 1..(n - 1) : GoUp(c, p, v)
    /\ st \in {"adopt", "build", "run"} => \A c \in Class : GoUp(c, p, v)

TableRight(p, v, ms, t, d) ==
    /\ DOMAIN t = 1..Len(v[d].order)
    /\ \A i \in 1..Len(v[d].order) :
          t[i] = NearestIn(p.parent, [a \in Class |-> ms[a][v[d].order[i]]])[d]

NumbersInv ==
    /\ MethodsRight(prog, Known(prog, stage, at), methods)
    /\ RootNumbers(prog, Known(prog, stage, at), vt)
    /\ \A call \in code.calls : CallRight(prog, Known(prog, stage, at), vt, call)
    /\ \A test \in code.tests : TestRight(prog, test)
    /\ Passed(stage, at, changed, prog, vt, methods)
    /\ stage = "run" => \A d \in Class : TableRight(prog, vt, methods, tables[d], d)

-----------------------------------------------------------------------------
(* Classes met.                                                            *)

LEMMA ProgramFacts ==
    ASSUME NEW p \in Program
    PROVE  IsProgram(p) /\ InOrder(p)
BY ProgramAssumption DEF IsProgram

LEMMA AllClosed ==
    ASSUME NEW p, InOrder(p)
    PROVE  Closed(p, Class)
BY InText, InClass DEF Closed

LEMMA KnownFacts ==
    ASSUME NEW p, InOrder(p), NEW n \in 0..NClass, NEW D, D = Known(p, "blocks", n)
    PROVE  /\ Closed(p, D)
           /\ n = 0 => D = {}
           /\ n = NClass => D = Class
           /\ n < NClass =>
                /\ p.text[n + 1] \in Class /\ p.text[n + 1] \notin D
                /\ p.parent[p.text[n + 1]] = 0 \/ p.parent[p.text[n + 1]] \in D
                /\ Known(p, "blocks", n + 1) = D \cup {p.text[n + 1]}
<1>1. D = {p.text[i] : i \in 1..n}
  BY DEF Known
<1>2. \A i \in 1..n : i \in Class /\ p.text[i] \in Class
  BY ClassFacts, InText DEF Class
<1>3. Closed(p, D)
  <2>1. D \subseteq Class
    BY <1>1, <1>2
  <2>2. ASSUME NEW c \in D, p.parent[c] # 0
        PROVE  p.parent[c] \in D
    <3>1. PICK i \in 1..n : c = p.text[i]
      BY <1>1
    <3>2. PICK j \in 1..(i - 1) : p.parent[c] = p.text[j]
      BY <1>2, <2>2, <3>1 DEF InOrder
    <3>3. j \in 1..n
      BY <3>1, <3>2
    <3> QED
      BY <1>1, <3>2, <3>3
  <2> QED
    BY <2>1, <2>2 DEF Closed
<1>4. n = 0 => D = {}
  BY <1>1
<1>5. ASSUME n = NClass
      PROVE  D = Class
  <2>1. \A c \in Class : c \in D
    BY <1>1, <1>5, InText DEF Class
  <2> QED
    BY <1>3, <2>1 DEF Closed
<1>6. ASSUME n < NClass
      PROVE  /\ p.text[n + 1] \in Class /\ p.text[n + 1] \notin D
             /\ p.parent[p.text[n + 1]] = 0 \/ p.parent[p.text[n + 1]] \in D
             /\ Known(p, "blocks", n + 1) = D \cup {p.text[n + 1]}
  <2>1. n + 1 \in Class
    BY <1>6, ClassFacts DEF Class
  <2>2. p.text[n + 1] \in Class
    BY <2>1, InText
  <2>3. p.text[n + 1] \notin D
    <3> SUFFICES ASSUME NEW i \in 1..n, p.text[i] = p.text[n + 1]
                 PROVE  FALSE
      BY <1>1
    <3>1. i = n + 1
      BY <1>2, <2>1 DEF InOrder
    <3> QED
      BY <3>1
  <2>4. p.parent[p.text[n + 1]] = 0 \/ p.parent[p.text[n + 1]] \in D
    <3>1. \A j \in 1..((n + 1) - 1) : j \in 1..n
      OBVIOUS
    <3> QED
      BY <1>1, <2>1, <3>1 DEF InOrder
  <2>5. Known(p, "blocks", n + 1) = {p.text[i] : i \in 1..(n + 1)}
    BY DEF Known
  <2>6. {p.text[i] : i \in 1..(n + 1)} = D \cup {p.text[n + 1]}
    <3>1. \A i \in 1..(n + 1) : i = n + 1 \/ i \in 1..n
      OBVIOUS
    <3>2. \A i \in 1..n : i \in 1..(n + 1)
      OBVIOUS
    <3>3. n + 1 \in 1..(n + 1)
      OBVIOUS
    <3> QED
      BY <1>1, <3>1, <3>2, <3>3
  <2> QED
    BY <2>2, <2>3, <2>4, <2>5, <2>6
<1> QED
  BY <1>3, <1>4, <1>5, <1>6

\* What is known is closed, whatever the stage.
LEMMA KnownClosed ==
    ASSUME NEW p, InOrder(p), NEW st, NEW n \in 0..NClass
    PROVE  Closed(p, Known(p, st, n))
<1>1. CASE st = "blocks"
  BY <1>1, KnownFacts
<1>2. CASE st # "blocks"
  BY <1>2, AllClosed DEF Known
<1> QED
  BY <1>1, <1>2

LEMMA NumbersOK ==
    ASSUME NEW t \in Numbers
    PROVE  TableOK(t)
BY DEF Numbers

LEMMA OKNumbers ==
    ASSUME NEW t, TableOK(t)
    PROVE  t \in Numbers
BY DEF Numbers, TableOK

-----------------------------------------------------------------------------
(* Numbers that stay.                                                      *)

\* Every class met keeps the numbers of the names its root specifies.
Steady(p, D, v, w) ==
    \A c \in D : \A m \in p.virt[RootIn(p, c)] : w[c].index[m] = v[c].index[m]

LEMMA SteadyNumbers ==
    ASSUME NEW p, InOrder(p), NEW D, Closed(p, D), NEW v, NEW w,
           Steady(p, D, v, w), RootNumbers(p, D, v)
    PROVE  RootNumbers(p, D, w)
<1> SUFFICES ASSUME NEW c \in D, NEW m \in p.virt[RootIn(p, c)]
             PROVE  /\ w[c].index[m] # 0
                    /\ \A a \in PrefixesIn(p, c) : w[a].index[m] = w[c].index[m]
  BY DEF RootNumbers
<1>1. w[c].index[m] = v[c].index[m] /\ v[c].index[m] # 0
  BY DEF Steady, RootNumbers
<1>2. \A a \in PrefixesIn(p, c) : a \in D /\ RootIn(p, a) = RootIn(p, c)
  BY ClosedPrefixes, PrefixOfPrefix DEF Closed
<1>3. \A a \in PrefixesIn(p, c) : w[a].index[m] = v[a].index[m]
  BY <1>2 DEF Steady
<1> QED
  BY <1>1, <1>3 DEF RootNumbers

LEMMA SteadyCalls ==
    ASSUME NEW p, NEW D, NEW E, D \subseteq E, NEW v, NEW w, NEW call,
           Steady(p, D, v, w), CallRight(p, D, v, call)
    PROVE  CallRight(p, E, w, call)
BY DEF Steady, CallRight


\* The root of a class is a class.
LEMMA RootType ==
    ASSUME NEW p, InOrder(p), NEW c \in Class
    PROVE  RootIn(p, c) \in Class
<1>1. PICK ch \in Seq(Class) : ch = ChainIn(p.parent)[c] /\ Len(ch) >= 1
  BY ChainOfPrefix
<1> QED
  BY <1>1 DEF RootIn

\* What Simula means, class by class.
LEMMA MeantStep ==
    ASSUME NEW p, IsProgram(p), NEW c \in Class, NEW m \in Method
    PROVE  /\ Meant(p, c, m) = IF m \in p.own[c] THEN c
                               ELSE IF p.parent[c] = 0 THEN 0
                               ELSE Meant(p, p.parent[c], m)
           /\ Meant(p, c, m) \in 0..NClass
<1>1. PICK d \in [Class -> 0..NClass] :
         /\ d = Declares(p, m)
         /\ \A a \in Class : /\ m \in p.own[a] => d[a] = a
                             /\ m \notin p.own[a] => d[a] = 0
  <2>1. \A a \in Class : (IF m \in p.own[a] THEN a ELSE 0) \in 0..NClass
    BY InClass, ClassFacts
  <2>2. Declares(p, m) \in [Class -> 0..NClass]
    BY <2>1, Zenon DEF Declares
  <2>3. \A a \in Class : Declares(p, m)[a] = IF m \in p.own[a] THEN a ELSE 0
    BY Zenon DEF Declares
  <2> QED
    BY <2>2, <2>3
<1>2. InOrder(p)
  BY DEF IsProgram
<1>3. PICK N \in [0..NClass -> 0..NClass] :
         /\ N = NearestIn(p.parent, d) /\ N[0] = 0
         /\ \A a \in Class : N[a] = IF d[a] # 0 THEN d[a] ELSE N[p.parent[a]]
  BY <1>2, NearestEquation
<1>4. \A a : Meant(p, a, m) = N[a]
  BY <1>1, <1>3 DEF Meant
<1>5. c # 0 /\ p.parent[c] \in 0..NClass
  BY <1>2, InClass, InText
<1>6. N[c] = IF m \in p.own[c] THEN c ELSE IF p.parent[c] = 0 THEN 0 ELSE N[p.parent[c]]
  <2>1. N[c] = IF d[c] # 0 THEN d[c] ELSE N[p.parent[c]]
    BY <1>3
  <2>2. p.parent[c] = 0 => N[p.parent[c]] = 0
    BY <1>3
  <2>3. CASE m \in p.own[c]
    <3>1. d[c] = c
      BY <1>1, <2>3
    <3>2. N[c] = c
      BY <1>5, <2>1, <3>1
    <3> QED
      BY <2>3, <3>2
  <2>4. CASE m \notin p.own[c]
    BY <1>1, <2>1, <2>2, <2>4
  <2> QED
    BY <2>3, <2>4
<1>7. Meant(p, c, m) = N[c] /\ Meant(p, p.parent[c], m) = N[p.parent[c]]
  BY <1>4
<1> QED
  BY <1>3, <1>6, <1>7, InClass

\* A new class takes the numbers of its prefix, and no class loses one.
LEMMA NumberingFacts ==
    ASSUME IsProgram(prog), vt \in [Class -> Numbers],
           NEW c \in Class, prog.parent[c] = 0 \/ prog.parent[c] \in Class,
           prog.parent[c] # c, NEW names \in SUBSET Method,
           NEW w, w = Numbering(c, names)
    PROVE  /\ w \in [Class -> Numbers]
           /\ \A a \in Class, m \in Method :
                 a # c /\ vt[a].index[m] # 0 => w[a].index[m] = vt[a].index[m]
           /\ prog.parent[c] # 0 => \A m \in Method :
                 vt[prog.parent[c]].index[m] # 0 =>
                     w[c].index[m] = vt[prog.parent[c]].index[m]
           /\ prog.parent[c] = 0 => \A m \in prog.virt[c] : w[c].index[m] # 0
<1>1. PICK p : p = prog.parent[c]
  OBVIOUS
<1>2. prog.virt[c] \in SUBSET Method
  BY DEF IsProgram
<1>3. CASE p = 0
  <2>1. TableOK(NoNames)
    BY DEF TableOK, NoNames
  <2>2. PICK e : e = Extend(NoNames, names) /\ TableOK(e)
    BY <2>1, ExtendTable
  <2>3. PICK own : own = Extend(e, prog.virt[c]) /\ TableOK(own)
    BY <1>2, <2>2, ExtendTable
  <2>4. w = [vt EXCEPT ![c] = own]
    BY <1>1, <1>3, <2>2, <2>3 DEF Numbering
  <2>5. own \in Numbers
    BY <2>3, OKNumbers
  <2>6. \A m \in prog.virt[c] : own.index[m] # 0
    <3>1. NamesIn(own) = NamesIn(e) \cup prog.virt[c]
      BY <1>2, <2>2, <2>3, ExtendTable DEF Extends
    <3> QED
      BY <3>1 DEF NamesIn
  <2>7. w[c] = own /\ \A a \in Class : a # c => w[a] = vt[a]
    BY <2>4
  <2>8. w \in [Class -> Numbers]
    BY <2>4, <2>5
  <2> QED
    BY <1>1, <1>3, <2>6, <2>7, <2>8
<1>4. CASE p # 0
  <2>1. p \in Class /\ p # c
    BY <1>1, <1>4
  <2>2. PICK t : t = vt[p] /\ TableOK(t)
    BY <2>1, NumbersOK
  <2>3. PICK e : e = Extend(t, names) /\ TableOK(e)
    BY <2>2, ExtendTable
  <2>4. PICK own : own = Extend(e, prog.virt[c])
    OBVIOUS
  <2>5. PICK up : up = Extend(t, NamesIn(own))
    OBVIOUS
  <2>6. TableOK(up) /\ \A m \in Method : t.index[m] # 0 => up.index[m] = t.index[m]
    <3>1. NamesIn(own) \in SUBSET Method
      BY DEF NamesIn
    <3> QED
      BY <2>2, <2>5, <3>1, ExtendTable DEF Extends
  <2>7. PICK new : new = Extend(up, names)
    OBVIOUS
  <2>8. TableOK(new) /\ \A m \in Method : up.index[m] # 0 => new.index[m] = up.index[m]
    BY <2>6, <2>7, ExtendTable DEF Extends
  <2>9. w = [vt EXCEPT ![p] = up, ![c] = new]
    BY <1>1, <1>4, <2>2, <2>3, <2>4, <2>5, <2>7 DEF Numbering
  <2>10. up \in Numbers /\ new \in Numbers
    BY <2>6, <2>8, OKNumbers
  <2>11. w \in [Class -> Numbers]
    BY <2>9, <2>10
  <2>12. w[c] = new /\ w[p] = up /\ \A a \in Class : a # c /\ a # p => w[a] = vt[a]
    BY <2>1, <2>9
  <2>13. \A a \in Class, m \in Method :
            a # c /\ vt[a].index[m] # 0 => w[a].index[m] = vt[a].index[m]
    BY <2>2, <2>6, <2>12
  <2>14. \A m \in Method : t.index[m] # 0 => w[c].index[m] = t.index[m]
    BY <2>6, <2>8, <2>12
  <2> QED
    BY <1>1, <1>4, <2>2, <2>11, <2>13, <2>14
<1> QED
  BY <1>3, <1>4

\* The state of affairs when a skeleton is declared.
LEMMA DeclareFacts ==
    ASSUME Types, DeclareSkeleton,
           NEW D, D = Known(prog, stage, at), NEW c, c = prog.text[at + 1]
    PROVE  /\ IsProgram(prog) /\ InOrder(prog) /\ Closed(prog, D)
           /\ c \in Class /\ c \notin D
           /\ prog.parent[c] = 0 \/ prog.parent[c] \in D
           /\ prog.parent[c] = 0 \/ prog.parent[c] \in Class
           /\ prog.parent[c] # c
           /\ Known(prog', stage', at') = D \cup {c}
<1>1. IsProgram(prog) /\ InOrder(prog)
  BY ProgramFacts DEF Types
<1>2. stage = "blocks" /\ at \in 0..NClass /\ at < NClass
  BY DEF Types, DeclareSkeleton
<1>3. prog' = prog /\ stage' = stage /\ at' = at + 1
  BY DEF DeclareSkeleton
<1>4. Closed(prog, D)
  BY <1>1, <1>2, KnownClosed
<1>5. /\ c \in Class /\ c \notin D
      /\ prog.parent[c] = 0 \/ prog.parent[c] \in D
      /\ Known(prog, "blocks", at + 1) = D \cup {c}
  BY <1>1, <1>2, KnownFacts
<1>6. prog.parent[c] \in D => prog.parent[c] \in Class
  BY <1>4 DEF Closed
<1>7. prog.parent[c] # c
  BY <1>5, InClass
<1> QED
  BY <1>1, <1>2, <1>3, <1>4, <1>5, <1>6, <1>7

\* The methods of the new class.
NewMethods(c) ==
    [m \in Method |-> IF m \in prog.own[c] THEN c
                      ELSE IF prog.parent[c] = 0 THEN 0 ELSE methods[prog.parent[c]][m]]

LEMMA DeclareMethods ==
    ASSUME Types, NumbersInv, DeclareSkeleton
    PROVE  /\ methods' \in [Class -> [Method -> 0..NClass]]
           /\ MethodsRight(prog', Known(prog', stage', at'), methods')
<1>1. PICK D : D = Known(prog, stage, at)
  OBVIOUS
<1>2. PICK c : c = prog.text[at + 1]
  OBVIOUS
<1>3. /\ IsProgram(prog) /\ InOrder(prog) /\ Closed(prog, D)
      /\ c \in Class /\ c \notin D
      /\ prog.parent[c] = 0 \/ prog.parent[c] \in D
      /\ prog.parent[c] = 0 \/ prog.parent[c] \in Class
      /\ Known(prog', stage', at') = D \cup {c}
  BY <1>1, <1>2, DeclareFacts
<1>4. PICK new : new = NewMethods(c)
  OBVIOUS
<1>5. methods' = [methods EXCEPT ![c] = new] /\ prog' = prog
  BY <1>2, <1>4 DEF DeclareSkeleton, NewMethods
<1>6. methods \in [Class -> [Method -> 0..NClass]]
  BY DEF Types
<1>7. new \in [Method -> 0..NClass]
  BY <1>3, <1>4, <1>6, InClass, ClassFacts DEF NewMethods
<1>8. methods' \in [Class -> [Method -> 0..NClass]]
  BY <1>5, <1>6, <1>7
<1>9. methods'[c] = new /\ \A a \in Class : a # c => methods'[a] = methods[a]
  BY <1>3, <1>5, <1>6
<1>10. \A m \in Method : new[m] = Meant(prog, c, m)
  <2> SUFFICES ASSUME NEW m \in Method
               PROVE  new[m] = Meant(prog, c, m)
    OBVIOUS
  <2>1. new[m] = IF m \in prog.own[c] THEN c
                 ELSE IF prog.parent[c] = 0 THEN 0 ELSE methods[prog.parent[c]][m]
    BY <1>4 DEF NewMethods
  <2>2. prog.parent[c] # 0 => methods[prog.parent[c]][m] = Meant(prog, prog.parent[c], m)
    BY <1>1, <1>3 DEF NumbersInv, MethodsRight
  <2> QED
    BY <1>3, <2>1, <2>2, MeantStep
<1>11. MethodsRight(prog, D \cup {c}, methods')
  BY <1>1, <1>3, <1>9, <1>10 DEF NumbersInv, MethodsRight, Closed
<1> QED
  BY <1>3, <1>5, <1>8, <1>11

LEMMA DeclareNumbers ==
    ASSUME Types, NumbersInv, DeclareSkeleton
    PROVE  /\ vt' \in [Class -> Numbers]
           /\ Steady(prog, Known(prog, stage, at), vt, vt')
           /\ RootNumbers(prog', Known(prog', stage', at'), vt')
<1>1. PICK D : D = Known(prog, stage, at)
  OBVIOUS
<1>2. PICK c : c = prog.text[at + 1]
  OBVIOUS
<1>3. /\ IsProgram(prog) /\ InOrder(prog) /\ Closed(prog, D)
      /\ c \in Class /\ c \notin D
      /\ prog.parent[c] = 0 \/ prog.parent[c] \in D
      /\ prog.parent[c] = 0 \/ prog.parent[c] \in Class
      /\ prog.parent[c] # c
      /\ Known(prog', stage', at') = D \cup {c}
  BY <1>1, <1>2, DeclareFacts
<1>4. PICK new : new = NewMethods(c)
  OBVIOUS
<1>5. vt' = Numbering(c, {m \in Method : new[m] # 0}) /\ prog' = prog
  BY <1>2, <1>4 DEF DeclareSkeleton, NewMethods
<1>6. vt \in [Class -> Numbers]
  BY DEF Types
<1>7. /\ vt' \in [Class -> Numbers]
      /\ \A a \in Class, m \in Method :
            a # c /\ vt[a].index[m] # 0 => vt'[a].index[m] = vt[a].index[m]
      /\ prog.parent[c] # 0 => \A m \in Method :
            vt[prog.parent[c]].index[m] # 0 =>
                vt'[c].index[m] = vt[prog.parent[c]].index[m]
      /\ prog.parent[c] = 0 => \A m \in prog.virt[c] : vt'[c].index[m] # 0
  <2>1. {m \in Method : new[m] # 0} \in SUBSET Method
    OBVIOUS
  <2> QED
    BY <1>3, <1>5, <1>6, <2>1, NumberingFacts
<1>8. RootNumbers(prog, D, vt)
  BY <1>1 DEF NumbersInv
<1>9. \A a \in D : a \in Class /\ a # c /\ RootIn(prog, a) \in Class
  BY <1>3, RootType DEF Closed
<1>10. \A a \in Class : \A m \in prog.virt[a] : m \in Method
  BY <1>3 DEF IsProgram
<1>11. Steady(prog, D, vt, vt')
  BY <1>7, <1>8, <1>9, <1>10 DEF Steady, RootNumbers
<1>12. RootNumbers(prog, D, vt')
  BY <1>3, <1>8, <1>11, SteadyNumbers
<1>13. ASSUME NEW m \in prog.virt[RootIn(prog, c)]
       PROVE  /\ vt'[c].index[m] # 0
              /\ \A a \in PrefixesIn(prog, c) : vt'[a].index[m] = vt'[c].index[m]
  <2>1. CASE prog.parent[c] = 0
    BY <1>3, <1>7, <1>13, <2>1, Root, PrefixStep
  <2>2. CASE prog.parent[c] # 0
    <3>1. PICK p \in D : p = prog.parent[c] /\ p \in Class
      BY <1>3, <2>2
    <3>2. m \in prog.virt[RootIn(prog, p)] /\ m \in Method
      BY <1>3, <1>9, <1>10, <1>13, <2>2, <3>1, Root
    <3>3. vt[p].index[m] # 0 /\ vt'[c].index[m] = vt[p].index[m]
      BY <1>7, <1>8, <2>2, <3>1, <3>2 DEF RootNumbers
    <3>4. vt'[p].index[m] = vt[p].index[m]
      BY <1>11, <3>2 DEF Steady
    <3>5. \A a \in PrefixesIn(prog, p) : vt'[a].index[m] = vt'[p].index[m]
      BY <1>12, <3>2 DEF RootNumbers
    <3>6. PrefixesIn(prog, c) = {c} \cup PrefixesIn(prog, p)
      BY <1>3, <2>2, <3>1, PrefixStep
    <3> QED
      BY <3>3, <3>4, <3>5, <3>6
  <2> QED
    BY <2>1, <2>2
<1>14. RootNumbers(prog, D \cup {c}, vt')
  BY <1>12, <1>13 DEF RootNumbers
<1> QED
  BY <1>1, <1>3, <1>5, <1>7, <1>11, <1>14


\* A search up the chain finds what Simula means.
LEMMA SearchIsMeant ==
    ASSUME NEW p, IsProgram(p), NEW D, Closed(p, D),
           NEW ms \in [Class -> [Method -> 0..NClass]], MethodsRight(p, D, ms),
           NEW m \in Method
    PROVE  \A c \in D : NearestIn(p.parent, [a \in Class |-> ms[a][m]])[c] = Meant(p, c, m)
<1>1. PICK has \in [Class -> 0..NClass] :
         has = [a \in Class |-> ms[a][m]] /\ \A a \in Class : has[a] = ms[a][m]
  <2>1. \A a \in Class : ms[a][m] \in 0..NClass
    OBVIOUS
  <2>2. [a \in Class |-> ms[a][m]] \in [Class -> 0..NClass]
    BY <2>1, Zenon
  <2> QED
    BY <2>2
<1>2. Declares(p, m) \in [Class -> 0..NClass]
  <2>1. \A a \in Class : (IF m \in p.own[a] THEN a ELSE 0) \in 0..NClass
    BY InClass, ClassFacts
  <2> QED
    BY <2>1, Zenon DEF Declares
<1>3. \A c \in D : has[c] = NearestIn(p.parent, Declares(p, m))[c]
  BY <1>1 DEF MethodsRight, Meant, Closed
<1>4. InOrder(p)
  BY DEF IsProgram
<1>5. PICK own \in [Class -> 0..NClass] : own = Declares(p, m)
  BY <1>2
<1>6. \A c \in D : NearestIn(p.parent, has)[c] = NearestIn(p.parent, own)[c]
  BY <1>3, <1>4, <1>5, SearchOfNearest
<1> QED
  BY <1>1, <1>5, <1>6 DEF Meant

LEMMA RootIsPrefix ==
    ASSUME NEW p, InOrder(p), NEW c \in Class
    PROVE  RootIn(p, c) \in PrefixesIn(p, c)
<1>1. PICK ch \in Seq(Class) : ch = ChainIn(p.parent)[c] /\ Len(ch) >= 1
  BY ChainOfPrefix
<1> QED
  BY <1>1 DEF RootIn, PrefixesIn, ToSet

\* The calls that are generated are right at the time.
LEMMA VirtualCallRight ==
    ASSUME NEW D, NEW c \in D, NEW m \in Method, IsVirtualCall(c, m)
    PROVE  CallRight(prog, D, vt, VirtualCall(c, m))
<1>1. m \in Virtuals(prog, c)
  BY DEF IsVirtualCall, IsVirtualMethod, Virtuals, PrefixSet, Chain, PrefixesIn
<1> QED
  BY <1>1 DEF VirtualCall, CallRight

LEMMA StaticCallRight ==
    ASSUME IsProgram(prog), NEW D, Closed(prog, D), RootNumbers(prog, D, vt),
           NEW c \in D, NEW m \in Method, ~ IsVirtualCall(c, m), NEW f,
           Meant(prog, c, m) # 0 => f = Meant(prog, c, m)
    PROVE  CallRight(prog, D, vt, StaticCall(c, m, f))
<1>1. c \in Class /\ InOrder(prog)
  BY DEF Closed, IsProgram
<1>2. m \notin prog.virt[RootIn(prog, c)]
  <2> SUFFICES ASSUME m \in prog.virt[RootIn(prog, c)]
               PROVE  FALSE
    OBVIOUS
  <2>1. vt[c].index[m] # 0
    BY DEF RootNumbers
  <2>2. IsVirtualMethod(c, m)
    BY <1>1, RootIsPrefix DEF IsVirtualMethod, PrefixSet, Chain, PrefixesIn
  <2> QED
    BY <2>1, <2>2 DEF IsVirtualCall
<1> QED
  BY <1>2 DEF StaticCall, CallRight

LEMMA GeneratedCalls ==
    ASSUME Types, NumbersInv, NEW D, D = Known(prog, stage, at),
           NEW c \in D, NEW m \in Method
    PROVE  /\ CallRight(prog, D, vt, BareName(c, m))
           /\ CallRight(prog, D, vt, BareCall(c, m))
           /\ CallRight(prog, D, vt, RemoteName(c, m))
           /\ CallRight(prog, D, vt, RemoteCall(c, m))
<1>1. IsProgram(prog) /\ InOrder(prog) /\ at \in 0..NClass
  BY ProgramFacts DEF Types
<1>2. Closed(prog, D) /\ RootNumbers(prog, D, vt) /\ MethodsRight(prog, D, methods)
  BY <1>1, KnownClosed DEF NumbersInv
<1>3. methods[c][m] = Meant(prog, c, m)
  BY <1>2 DEF MethodsRight
<1>4. Search(c, m) = Meant(prog, c, m)
  <2>1. methods \in [Class -> [Method -> 0..NClass]]
    BY DEF Types
  <2> QED
    BY <1>1, <1>2, <2>1, SearchIsMeant DEF Search
<1>5. CASE IsVirtualCall(c, m)
  <2>1. CallRight(prog, D, vt, VirtualCall(c, m))
    BY <1>5, VirtualCallRight
  <2> QED
    BY <1>5, <2>1 DEF BareName, BareCall, RemoteName, RemoteCall
<1>6. CASE ~ IsVirtualCall(c, m)
  <2>1. CallRight(prog, D, vt, StaticCall(c, m, methods[c][m]))
    BY <1>1, <1>2, <1>3, <1>6, StaticCallRight
  <2>2. CallRight(prog, D, vt, StaticCall(c, m, Search(c, m)))
    BY <1>1, <1>2, <1>4, <1>6, StaticCallRight
  <2>3. CallRight(prog, D, vt, BareCall(c, m))
    <3>1. PICK having : having = {d \in Declared : methods[d][m] # 0}
      OBVIOUS
    <3>2. CASE methods[c][m] # 0 \/ having = {}
      BY <1>6, <2>1, <3>1, <3>2 DEF BareCall
    <3>3. CASE ~ (methods[c][m] # 0 \/ having = {})
      <4>1. Meant(prog, c, m) = 0
        BY <1>3, <3>3
      <4>2. CallRight(prog, D, vt, StaticCall(c, m, methods[Min(having)][m]))
        BY <1>1, <1>2, <1>6, <4>1, StaticCallRight
      <4> QED
        BY <1>6, <3>1, <3>3, <4>2 DEF BareCall
    <3> QED
      BY <3>2, <3>3
  <2> QED
    BY <1>6, <2>1, <2>2, <2>3 DEF BareName, RemoteName, RemoteCall
<1> QED
  BY <1>5, <1>6

LEMMA GeneratedTests ==
    ASSUME Types, NEW c \in Class
    PROVE  TestRight(prog, IsTest(c)) /\ TestRight(prog, InTest(c))
<1>1. InOrder(prog) /\ at \in 0..NClass
  BY ProgramFacts DEF Types
<1>2. c \in PrefixesIn(prog, c)
  BY <1>1, OwnPrefix
<1>3. Declared \subseteq Class
  <2>1. Declared = Known(prog, stage, at)
    BY DEF Declared, Known
  <2> QED
    BY <1>1, <2>1, KnownClosed DEF Closed
<1>4. TestRight(prog, IsTest(c))
  BY <1>2 DEF TestRight, IsTest
<1>5. TestRight(prog, InTest(c))
  BY <1>3 DEF TestRight, InTest, DescendantIdSet, PrefixSet, Chain, PrefixesIn
<1> QED
  BY <1>4, <1>5

-----------------------------------------------------------------------------
(* The passes of buildAllVtables.                                          *)

\* A prefix that has the names of a class gives it all its numbers.
LEMMA AdoptTable ==
    ASSUME NEW t, TableOK(t), NEW u, TableOK(u), NamesIn(t) \subseteq NamesIn(u),
           NEW names \in SUBSET Method, names \subseteq NamesIn(t)
    PROVE  Extend(Adopt(t, u), names) = u
<1>1. PICK x \in [Method -> Nat] : x = u.index /\ u = [order |-> u.order, index |-> x]
  BY DEF TableOK
<1>2. \A m \in Method : u.index[m] = 0 => t.index[m] = 0
  BY DEF NamesIn
<1>3. [m \in Method |-> IF u.index[m] # 0 THEN u.index[m] ELSE t.index[m]] = x
  BY <1>1, <1>2
<1>4. Adopt(t, u) = u
  BY <1>1, <1>3 DEF Adopt
<1> QED
  BY <1>4, ExtendTable DEF Extends

\* A number of the root's is that of the prefix.
LEMMA NumberOfPrefix ==
    ASSUME NEW p, InOrder(p), NEW v, RootNumbers(p, Class, v),
           NEW c \in Class, p.parent[c] # 0, NEW m \in p.virt[RootIn(p, c)]
    PROVE  /\ p.parent[c] \in Class
           /\ v[c].index[m] # 0 /\ v[p.parent[c]].index[m] = v[c].index[m]
BY OwnPrefix DEF RootNumbers


\* What a pass does to the numbers of one class.
Renumbered(p, v, w) ==
    /\ w \in [Class -> Numbers]
    /\ Steady(p, Class, v, w)

LEMMA RenumberedNumbers ==
    ASSUME NEW p, InOrder(p), NEW v, NEW w, Renumbered(p, v, w),
           RootNumbers(p, Class, v)
    PROVE  /\ RootNumbers(p, Class, w)
           /\ \A call : CallRight(p, Class, v, call) => CallRight(p, Class, w, call)
<1>1. Closed(p, Class)
  BY AllClosed
<1> QED
  BY <1>1, SteadyNumbers, SteadyCalls DEF Renumbered

LEMMA PassFacts ==
    ASSUME Types, NumbersInv, stage # "blocks"
    PROVE  /\ IsProgram(prog) /\ InOrder(prog)
           /\ at \in Class /\ vt[at] \in Numbers /\ TableOK(vt[at])
           /\ vt \in [Class -> Numbers]
           /\ RootNumbers(prog, Class, vt)
           /\ MethodsRight(prog, Class, methods)
           /\ \A call \in code.calls : CallRight(prog, Class, vt, call)
           /\ \A c \in Class : \A m \in prog.virt[RootIn(prog, c)] : m \in Method
           /\ prog.parent[at] # 0 =>
                 /\ prog.parent[at] \in Class
                 /\ TableOK(vt[prog.parent[at]])
           /\ \A c \in Class : Having(methods, c) = MethodsOf(c) /\ MethodsOf(c) \in SUBSET Method
<1>1. IsProgram(prog) /\ InOrder(prog)
  BY ProgramFacts DEF Types
<1>2. Known(prog, stage, at) = Class
  BY DEF Known
<1>3. at \in Class /\ vt \in [Class -> Numbers] /\ vt[at] \in Numbers
  BY DEF Types
<1>4. prog.parent[at] # 0 => prog.parent[at] \in Class
  BY <1>1, <1>3, OwnPrefix
<1>5. \A c \in Class : TableOK(vt[c])
  BY <1>3, NumbersOK
<1>6. \A c \in Class : \A m \in prog.virt[RootIn(prog, c)] : m \in Method
  BY <1>1, RootType DEF IsProgram
<1>7. \A c \in Class : Having(methods, c) = MethodsOf(c) /\ MethodsOf(c) \in SUBSET Method
  BY DEF Having, MethodsOf
<1> QED
  BY <1>1, <1>2, <1>3, <1>4, <1>5, <1>6, <1>7 DEF NumbersInv

LEMMA InheritRenumbers ==
    ASSUME Types, NumbersInv, InheritNames
    PROVE  /\ Renumbered(prog, vt, vt')
           /\ HasNames(at, vt', methods)
           /\ \A c \in Class : c # at => vt'[c] = vt[c]
<1>1. PICK p : p = prog.parent[at]
  OBVIOUS
<1>2. /\ InOrder(prog) /\ at \in Class /\ TableOK(vt[at])
      /\ vt \in [Class -> Numbers] /\ RootNumbers(prog, Class, vt)
      /\ \A c \in Class : \A m \in prog.virt[RootIn(prog, c)] : m \in Method
      /\ p # 0 => p \in Class /\ TableOK(vt[p])
      /\ Having(methods, at) = MethodsOf(at) /\ MethodsOf(at) \in SUBSET Method
  BY <1>1, PassFacts DEF InheritNames
<1>3. PICK t : t = (IF p = 0 THEN vt[at] ELSE vt[p]) /\ TableOK(t)
  BY <1>2
<1>4. PICK e : e = Extend(t, MethodsOf(at)) /\ TableOK(e) /\ Extends(e, t, MethodsOf(at))
  BY <1>2, <1>3, ExtendTable
<1>5. vt' = [vt EXCEPT ![at] = e]
  BY <1>1, <1>3, <1>4 DEF InheritNames
<1>6. e \in Numbers
  BY <1>4, OKNumbers
<1>7. vt' \in [Class -> Numbers] /\ vt'[at] = e /\ \A c \in Class : c # at => vt'[c] = vt[c]
  BY <1>2, <1>5, <1>6
<1>8. \A m \in prog.virt[RootIn(prog, at)] : e.index[m] = vt[at].index[m]
  <2> SUFFICES ASSUME NEW m \in prog.virt[RootIn(prog, at)]
               PROVE  e.index[m] = vt[at].index[m]
    OBVIOUS
  <2>1. t.index[m] # 0 /\ t.index[m] = vt[at].index[m]
    <3>1. CASE p = 0
      BY <1>2, <1>3, <3>1 DEF RootNumbers
    <3>2. CASE p # 0
      BY <1>1, <1>2, <1>3, <3>2, NumberOfPrefix
    <3> QED
      BY <3>1, <3>2
  <2> QED
    BY <1>2, <1>4, <2>1 DEF Extends
<1>9. Steady(prog, Class, vt, vt')
  BY <1>7, <1>8 DEF Steady
<1>10. HasNames(at, vt', methods)
  BY <1>2, <1>4, <1>7 DEF HasNames, Extends
<1> QED
  BY <1>7, <1>9, <1>10 DEF Renumbered

LEMMA PropagateRenumbers ==
    ASSUME Types, NumbersInv, PropagateNames
    PROVE  /\ Renumbered(prog, vt, vt')
           /\ \A c \in Class : NamesIn(vt[c]) \subseteq NamesIn(vt'[c])
           /\ changed' = FALSE /\ at < NClass => vt' = vt /\ GoUp(at, prog, vt)
           /\ stage' = "adopt" => ~ changed /\ vt' = vt /\ GoUp(at, prog, vt)
<1>1. PICK p : p = prog.parent[at]
  OBVIOUS
<1>2. /\ InOrder(prog) /\ at \in Class /\ TableOK(vt[at])
      /\ vt \in [Class -> Numbers] /\ RootNumbers(prog, Class, vt)
      /\ \A c \in Class : \A m \in prog.virt[RootIn(prog, c)] : m \in Method
      /\ p # 0 => p \in Class /\ TableOK(vt[p])
  BY <1>1, PassFacts DEF PropagateNames
<1>3. NamesIn(vt[at]) \in SUBSET Method
  BY DEF NamesIn
<1>4. PICK grows \in BOOLEAN :
         /\ grows = (p # 0 /\ Propagated # vt[p])
         /\ vt' = IF grows THEN [vt EXCEPT ![p] = Propagated] ELSE vt
         /\ changed' = ((changed \/ grows) /\ at < NClass)
         /\ Advance(IF changed \/ grows THEN "propagate" ELSE "adopt")
  BY <1>1 DEF PropagateNames
<1>5. Propagated = Extend(vt[p], NamesIn(vt[at]))
  BY <1>1 DEF Propagated
<1>6. p # 0 => TableOK(Propagated) /\ Extends(Propagated, vt[p], NamesIn(vt[at]))
  BY <1>2, <1>3, <1>5, ExtendTable
<1>7. ~ grows => vt' = vt /\ GoUp(at, prog, vt)
  <2> SUFFICES ASSUME ~ grows
               PROVE  vt' = vt /\ GoUp(at, prog, vt)
    OBVIOUS
  <2>1. vt' = vt
    BY <1>4
  <2>2. p # 0 => Propagated = vt[p]
    BY <1>4
  <2> QED
    BY <1>1, <1>6, <2>1, <2>2 DEF GoUp, Extends
<1>8. grows => /\ p \in Class /\ Propagated \in Numbers
               /\ vt' = [vt EXCEPT ![p] = Propagated]
               /\ vt'[p] = Propagated
               /\ \A c \in Class : c # p => vt'[c] = vt[c]
  BY <1>2, <1>4, <1>6, OKNumbers
<1>9. vt' \in [Class -> Numbers]
  BY <1>2, <1>7, <1>8
<1>10. Steady(prog, Class, vt, vt')
  <2> SUFFICES ASSUME NEW c \in Class, NEW m \in prog.virt[RootIn(prog, c)]
               PROVE  vt'[c].index[m] = vt[c].index[m]
    BY DEF Steady
  <2>1. m \in Method /\ vt[c].index[m] # 0
    BY <1>2 DEF RootNumbers
  <2> QED
    BY <1>4, <1>6, <1>7, <1>8, <2>1 DEF Extends
<1>11. \A c \in Class : NamesIn(vt[c]) \subseteq NamesIn(vt'[c])
  BY <1>4, <1>6, <1>7, <1>8 DEF Extends
<1>12. changed' = FALSE /\ at < NClass => vt' = vt /\ GoUp(at, prog, vt)
  BY <1>4, <1>7
<1>13. stage' = "adopt" => ~ changed /\ ~ grows
  <2>1. stage = "propagate"
    BY DEF PropagateNames
  <2> QED
    BY <1>4, <2>1 DEF Advance
<1> QED
  BY <1>7, <1>9, <1>10, <1>11, <1>12, <1>13 DEF Renumbered

LEMMA AdoptRenumbers ==
    ASSUME Types, NumbersInv, AdoptNames
    PROVE  /\ Renumbered(prog, vt, vt')
           /\ \A c \in Class : HasNames(c, vt', methods) /\ GoUp(c, prog, vt')
<1>1. PICK p : p = prog.parent[at]
  OBVIOUS
<1>2. /\ InOrder(prog) /\ at \in Class /\ TableOK(vt[at])
      /\ vt \in [Class -> Numbers] /\ RootNumbers(prog, Class, vt)
      /\ \A c \in Class : \A m \in prog.virt[RootIn(prog, c)] : m \in Method
      /\ p # 0 => p \in Class /\ TableOK(vt[p])
      /\ Having(methods, at) = MethodsOf(at) /\ MethodsOf(at) \in SUBSET Method
  BY <1>1, PassFacts DEF AdoptNames
<1>3. \A c \in Class : HasNames(c, vt, methods) /\ GoUp(c, prog, vt)
  BY DEF NumbersInv, Passed, AdoptNames
<1>4. CASE p = 0
  <2>1. vt' = vt
    BY <1>1, <1>4 DEF AdoptNames
  <2> QED
    BY <1>2, <1>3, <2>1 DEF Renumbered, Steady
<1>5. CASE p # 0
  <2>1. NamesIn(vt[at]) \subseteq NamesIn(vt[p]) /\ MethodsOf(at) \subseteq NamesIn(vt[at])
    BY <1>1, <1>2, <1>3, <1>5 DEF HasNames, GoUp
  <2>2. Extend(Adopt(vt[at], vt[p]), MethodsOf(at)) = vt[p]
    BY <1>2, <1>5, <2>1, AdoptTable
  <2>3. vt' = [vt EXCEPT ![at] = vt[p]]
    BY <1>1, <1>5, <2>2 DEF AdoptNames
  <2>4. /\ vt' \in [Class -> Numbers] /\ vt'[at] = vt[p]
        /\ \A c \in Class : c # at => vt'[c] = vt[c]
    BY <1>2, <1>5, <2>3
  <2>5. \A m \in prog.virt[RootIn(prog, at)] : vt[p].index[m] = vt[at].index[m]
    BY <1>1, <1>2, <1>5, NumberOfPrefix
  <2>6. Steady(prog, Class, vt, vt')
    BY <2>4, <2>5 DEF Steady
  <2>7. \A c \in Class : NamesIn(vt[c]) \subseteq NamesIn(vt'[c])
    BY <2>1, <2>4
  <2>8. \A c \in Class : HasNames(c, vt', methods)
    BY <1>3, <2>7 DEF HasNames
  <2>9. \A c \in Class : GoUp(c, prog, vt')
    <3> SUFFICES ASSUME NEW c \in Class, prog.parent[c] # 0
                 PROVE  NamesIn(vt'[c]) \subseteq NamesIn(vt'[prog.parent[c]])
      BY DEF GoUp
    <3>1. prog.parent[c] \in Class /\ NamesIn(vt[c]) \subseteq NamesIn(vt[prog.parent[c]])
      BY <1>2, <1>3, OwnPrefix DEF GoUp
    <3>2. CASE c = at
      <4>1. NamesIn(vt[p]) \subseteq NamesIn(vt'[p])
        BY <1>2, <1>5, <2>7
      <4> QED
        BY <1>1, <2>4, <3>2, <4>1
    <3>3. CASE c # at
      BY <2>4, <2>7, <3>1, <3>3
    <3> QED
      BY <3>2, <3>3
  <2> QED
    BY <2>4, <2>6, <2>8, <2>9 DEF Renumbered
<1> QED
  BY <1>4, <1>5


-----------------------------------------------------------------------------
(* Layouts.                                                                *)

Injects(s) == \A i, j \in 1..Len(s) : s[i] = s[j] => i = j
Starts(s, t) == Len(s) <= Len(t) /\ \A i \in 1..Len(s) : t[i] = s[i]

LEMMA StartsOfStart ==
    ASSUME NEW V, NEW r \in Seq(V), NEW s \in Seq(V), NEW t \in Seq(V), Starts(r, s), Starts(s, t)
    PROVE  Starts(r, t)
<1>1. PICK L \in Nat : L = Len(r)
  OBVIOUS
<1>2. PICK M \in Nat : M = Len(s)
  OBVIOUS
<1>3. PICK N \in Nat : N = Len(t)
  OBVIOUS
<1>4. L <= M /\ \A i \in 1..L : s[i] = r[i]
  BY <1>1, <1>2 DEF Starts
<1>5. M <= N /\ \A i \in 1..M : t[i] = s[i]
  BY <1>2, <1>3 DEF Starts
<1>6. L <= N
  BY <1>4, <1>5
<1>7. \A i \in 1..L : i \in 1..M
  BY <1>4
<1>8. \A i \in 1..L : t[i] = r[i]
  BY <1>4, <1>5, <1>7, Zenon
<1> QED
  BY <1>1, <1>3, <1>6, <1>8, Zenon DEF Starts

\* A class does not prefix itself.
LEMMA NotAbove ==
    ASSUME NEW p, InOrder(p), NEW c \in Class, p.parent[c] # 0
    PROVE  c \notin PrefixesIn(p, p.parent[c])
<1>1. PICK i \in Class : p.text[i] = c
  BY InText
<1>2. PICK n \in 0..NClass : n + 1 = i /\ n < NClass
  BY <1>1, ClassFacts DEF Class
<1>3. PICK D : D = Known(p, "blocks", n)
  OBVIOUS
<1>4. Closed(p, D) /\ c \notin D /\ p.parent[c] \in D
  BY <1>1, <1>2, <1>3, KnownFacts
<1> QED
  BY <1>4, ClosedPrefixes

\* Sequences that add something of the class to those of the prefix.
Family(p, S, V, own) ==
    /\ S \in [0..NClass -> Seq(V)] /\ own \in [Class -> Seq(V)]
    /\ S[0] = <<>>
    /\ \A c \in Class : S[c] = S[p.parent[c]] \o own[c]

LEMMA FamilyStep ==
    ASSUME NEW p, InOrder(p), NEW S, NEW V, NEW own, Family(p, S, V, own), NEW c \in Class
    PROVE  /\ p.parent[c] \in 0..NClass
           /\ S[p.parent[c]] \in Seq(V) /\ own[c] \in Seq(V) /\ S[c] \in Seq(V)
           /\ S[c] = S[p.parent[c]] \o own[c]
<1>1. p.parent[c] \in 0..NClass /\ c \in 0..NClass
  BY InText, InClass
<1> QED
  BY <1>1 DEF Family

LEMMA FamilyStarts ==
    ASSUME NEW p, InOrder(p), NEW S, NEW V, NEW own, Family(p, S, V, own)
    PROVE  \A c \in Class : \A a \in PrefixesIn(p, c) : Starts(S[a], S[c])
<1> DEFINE Good(c) == \A a \in PrefixesIn(p, c) : Starts(S[a], S[c])
           bad == {c \in Class : ~ Good(c)}
<1>1. ASSUME bad # {}
      PROVE  FALSE
  <2>1. PICK c \in bad : p.parent[c] \in 0..NClass /\ p.parent[c] \notin bad
    <3> HIDE DEF bad
    <3>1. bad \in SUBSET Class
      BY DEF bad
    <3> QED
      BY <1>1, <3>1, LeastClass
  <2>2. c \in Class /\ ~ Good(c) /\ (p.parent[c] # 0 => p.parent[c] \in Class /\ Good(p.parent[c]))
    <3> HIDE DEF Good
    <3> QED
      BY <2>1, InClass
  <2>3. PICK a \in PrefixesIn(p, c) : ~ Starts(S[a], S[c])
    BY <2>2
  <2>4. PICK s \in Seq(V) : s = S[p.parent[c]]
    BY <2>2, FamilyStep
  <2>5. PICK t \in Seq(V) : t = S[c] /\ Len(t) >= Len(s) /\ \A i \in 1..Len(s) : t[i] = s[i]
    <3>1. PICK o \in Seq(V) : o = own[c]
      BY <2>2, FamilyStep
    <3>2. PICK t : t = S[c] /\ t = s \o o
      <4>1. S[c] = S[p.parent[c]] \o own[c]
        BY <2>2 DEF Family
      <4>2. S[c] = s \o o
        BY <2>4, <3>1, <4>1, Zenon
      <4> QED
        BY <4>2
    <3>3. /\ t \in Seq(V) /\ Len(t) = Len(s) + Len(o)
          /\ \A i \in 1 .. Len(s) + Len(o) : t[i] = IF i <= Len(s) THEN s[i] ELSE o[i - Len(s)]
      BY <3>2, ConcatProperties
    <3>4. Len(t) >= Len(s) /\ \A i \in 1..Len(s) : t[i] = s[i]
      BY <3>3
    <3> QED
      BY <3>2, <3>3, <3>4, Zenon
  <2>6. a # c
    BY <2>3, <2>5 DEF Starts
  <2>7. p.parent[c] # 0 /\ a \in PrefixesIn(p, p.parent[c])
    BY <2>2, <2>3, <2>6, PrefixStep
  <2>8. PICK r \in Seq(V) : r = S[a]
    <3>1. a \in Class
      BY <2>2, <2>7, PrefixOfPrefix
    <3> QED
      BY <3>1, FamilyStep
  <2>9. Starts(r, s)
    BY <2>2, <2>4, <2>7, <2>8
  <2>10. Starts(r, t)
    <3>1. Starts(s, t)
      BY <2>5 DEF Starts
    <3> QED
      BY <2>9, <3>1, StartsOfStart
  <2> QED
    BY <2>3, <2>5, <2>8, <2>10
<1> QED
  BY <1>1

\* What the classes add is theirs: n[c] fields of class c.
Tagged(p, S, n) ==
    /\ n \in [Class -> Nat]
    /\ Family(p, S, Class \X Nat, [c \in Class |-> FieldsOf(c, n[c])])

\* The entries of such a sequence are those of the prefixes, once each.
TaggedEntries(p, S, n, c) ==
    /\ S[c] \in Seq(Class \X Nat)
    /\ \A i \in 1..Len(S[c]) : \E a \in PrefixesIn(p, c) : \E k \in 1..n[a] : S[c][i] = <<a, k>>
    /\ Injects(S[c])

LEMMA TaggedStep ==
    ASSUME NEW p, InOrder(p), NEW S, NEW n, Tagged(p, S, n), NEW c \in Class
    PROVE  /\ p.parent[c] \in 0..NClass /\ n[c] \in Nat
           /\ S[p.parent[c]] \in Seq(Class \X Nat) /\ S[c] \in Seq(Class \X Nat)
           /\ Len(S[c]) = Len(S[p.parent[c]]) + n[c]
           /\ \A i \in 1..Len(S[p.parent[c]]) : S[c][i] = S[p.parent[c]][i]
           /\ \A k \in 1..n[c] : S[c][Len(S[p.parent[c]]) + k] = <<c, k>>
<1>1. p.parent[c] \in 0..NClass /\ n[c] \in Nat
  BY InText DEF Tagged
<1>2. PICK s \in Seq(Class \X Nat) : s = S[p.parent[c]]
  BY <1>1 DEF Tagged, Family
<1>3. PICK t \in Seq(Class \X Nat) : /\ t = FieldsOf(c, n[c]) /\ Len(t) = n[c]
                                     /\ \A k \in 1..n[c] : t[k] = <<c, k>>
  BY <1>1, FieldsOfProperties
<1>4. S[c] = s \o t
  BY <1>2, <1>3 DEF Tagged, Family
<1>5. /\ s \o t \in Seq(Class \X Nat) /\ Len(s \o t) = Len(s) + Len(t)
      /\ \A i \in 1 .. Len(s) + Len(t) : (s \o t)[i] =
                     IF i <= Len(s) THEN s[i] ELSE t[i - Len(s)]
  BY ConcatProperties
<1>6. PICK z : z = s \o t
  OBVIOUS
<1>7. \A k \in 1..n[c] : z[Len(s) + k] = <<c, k>>
  <2> SUFFICES ASSUME NEW k \in 1..n[c]
               PROVE  z[Len(s) + k] = <<c, k>>
    OBVIOUS
  <2>1. PICK L \in Nat : L = Len(s)
    OBVIOUS
  <2>2. L + k \in 1..(L + n[c]) /\ ~ (L + k <= L) /\ L + k - L = k
    BY <1>1, <2>1
  <2>3. z[L + k] = t[k]
    BY <1>3, <1>5, <1>6, <2>1, <2>2
  <2> QED
    BY <1>3, <2>1, <2>3
<1>8. \A i \in 1..Len(s) : z[i] = s[i]
  BY <1>3, <1>5, <1>6
<1> QED
  BY <1>1, <1>2, <1>3, <1>4, <1>5, <1>6, <1>7, <1>8

LEMMA TaggedFacts ==
    ASSUME NEW p, InOrder(p), NEW S, NEW n, Tagged(p, S, n)
    PROVE  \A c \in Class : TaggedEntries(p, S, n, c)
<1> DEFINE bad == {c \in Class : ~ TaggedEntries(p, S, n, c)}
<1>1. ASSUME bad # {}
      PROVE  FALSE
  <2>1. PICK c \in bad : p.parent[c] \in 0..NClass /\ p.parent[c] \notin bad
    <3> HIDE DEF bad
    <3>1. bad \in SUBSET Class
      BY DEF bad
    <3> QED
      BY <1>1, <3>1, LeastClass
  <2>2. c \in Class /\ ~ TaggedEntries(p, S, n, c)
    BY <2>1
  <2>3. PICK q \in 0..NClass : q = p.parent[c] /\ (q # 0 => q \in Class /\ TaggedEntries(p, S, n, q))
    BY <2>1, InClass
  <2>4. PICK s \in Seq(Class \X Nat) : s = S[q]
    BY <2>2, <2>3, TaggedStep
  <2>5. PICK t \in Seq(Class \X Nat) : t = S[c]
    BY <2>2, TaggedStep
  <2>6. PICK N \in Nat : N = n[c]
    BY <2>2, TaggedStep
  <2>7. PICK L \in Nat : L = Len(s)
    OBVIOUS
  <2>8. /\ Len(t) = L + N
        /\ \A i \in 1..L : t[i] = s[i]
        /\ \A k \in 1..N : t[L + k] = <<c, k>>
    BY <2>2, <2>3, <2>4, <2>5, <2>6, <2>7, TaggedStep
  <2>9. c \in PrefixesIn(p, c) /\ (q # 0 => PrefixesIn(p, q) \subseteq PrefixesIn(p, c))
    BY <2>2, <2>3, PrefixStep
  <2>10. \A i \in 1..L : \E a \in PrefixesIn(p, c) \ {c} : \E k \in 1..n[a] : s[i] = <<a, k>>
    <3>1. CASE q = 0
      <4>1. s = <<>>
        BY <2>4, <3>1 DEF Tagged, Family
      <4> QED
        BY <2>7, <4>1
    <3>2. CASE q # 0
      <4>1. c \notin PrefixesIn(p, q)
        BY <2>2, <2>3, <3>2, NotAbove
      <4>2. \A i \in 1..L : \E a \in PrefixesIn(p, q) : \E k \in 1..n[a] : s[i] = <<a, k>>
        BY <2>3, <2>4, <2>7, <3>2 DEF TaggedEntries
      <4>3. PrefixesIn(p, q) \subseteq PrefixesIn(p, c) \ {c}
        BY <2>3, <2>9, <3>2, <4>1
      <4> QED
        BY <4>2, <4>3, Zenon
    <3> QED
      BY <3>1, <3>2
  <2>11. \A i \in 1..(L + N) : i \in 1..L \/ \E k \in 1..N : i = L + k
    <3> SUFFICES ASSUME NEW i \in 1..(L + N), i \notin 1..L
                 PROVE  \E k \in 1..N : i = L + k
      OBVIOUS
    <3>1. i - L \in 1..N /\ i = L + (i - L)
      OBVIOUS
    <3> QED
      BY <3>1
  <2>12. \A i \in 1..Len(t) : \E a \in PrefixesIn(p, c) : \E k \in 1..n[a] : t[i] = <<a, k>>
    <3> SUFFICES ASSUME NEW i \in 1..(L + N)
                 PROVE  \E a \in PrefixesIn(p, c) : \E k \in 1..n[a] : t[i] = <<a, k>>
      BY <2>8
    <3>1. CASE i \in 1..L
      BY <2>8, <2>10, <3>1
    <3>2. CASE i \notin 1..L
      <4>1. PICK k \in 1..N : i = L + k
        BY <2>11, <3>2
      <4> QED
        BY <2>6, <2>8, <2>9, <4>1
    <3> QED
      BY <3>1, <3>2
  <2>13. \A i, j \in 1..L : s[i] = s[j] => i = j
    <3>1. CASE q = 0
      <4>1. s = <<>>
        BY <2>4, <3>1 DEF Tagged, Family
      <4> QED
        BY <2>7, <4>1
    <3>2. CASE q # 0
      BY <2>3, <2>4, <2>7, <3>2 DEF TaggedEntries, Injects
    <3> QED
      BY <3>1, <3>2
  <2>14. ASSUME NEW i \in 1..L, NEW k \in 1..N, t[i] = t[L + k]
         PROVE  FALSE
    <3>1. PICK a \in PrefixesIn(p, c) \ {c} : \E j \in 1..n[a] : s[i] = <<a, j>>
      BY <2>10
    <3>2. PICK j \in 1..n[a] : s[i] = <<a, j>>
      BY <3>1
    <3>3. <<a, j>> = <<c, k>>
      BY <2>8, <2>14, <3>2
    <3> QED
      BY <3>1, <3>3
  <2>15. \A i, j \in 1..Len(t) : t[i] = t[j] => i = j
    <3> SUFFICES ASSUME NEW i \in 1..(L + N), NEW j \in 1..(L + N), t[i] = t[j]
                 PROVE  i = j
      BY <2>8
    <3>1. CASE i \in 1..L /\ j \in 1..L
      BY <2>8, <2>13, <3>1
    <3>2. CASE i \in 1..L /\ j \notin 1..L
      BY <2>11, <2>14, <3>2
    <3>3. CASE i \notin 1..L /\ j \in 1..L
      BY <2>11, <2>14, <3>3
    <3>4. CASE i \notin 1..L /\ j \notin 1..L
      <4>1. PICK k \in 1..N : i = L + k
        BY <2>11, <3>4
      <4>2. PICK l \in 1..N : j = L + l
        BY <2>11, <3>4
      <4>3. <<c, k>> = <<c, l>>
        BY <2>8, <4>1, <4>2
      <4> QED
        BY <4>1, <4>2, <4>3
    <3> QED
      BY <3>1, <3>2, <3>3, <3>4
  <2> QED
    BY <2>2, <2>5, <2>12, <2>15 DEF TaggedEntries, Injects
<1> QED
  BY <1>1


\* What starts a sequence has its places there.
LEMMA PositionOf ==
    ASSUME NEW V, NEW s \in Seq(V), Injects(s), NEW i \in 1..Len(s)
    PROVE  Position(s, s[i]) = i
<1>1. i \in DOMAIN s
  OBVIOUS
<1>2. PICK j \in DOMAIN s : j = Position(s, s[i]) /\ s[j] = s[i]
  BY <1>1 DEF Position
<1> QED
  BY <1>2 DEF Injects

LEMMA PositionOfStart ==
    ASSUME NEW V, NEW s \in Seq(V), NEW t \in Seq(V), Injects(s), Injects(t),
           Starts(s, t), NEW i \in 1..Len(s)
    PROVE  i \in 1..Len(t) /\ Position(s, s[i]) = i /\ Position(t, s[i]) = i
<1>1. i \in 1..Len(t) /\ t[i] = s[i]
  BY DEF Starts
<1>2. Position(s, s[i]) = i
  BY PositionOf
<1>3. Position(t, t[i]) = i
  BY <1>1, PositionOf
<1> QED
  BY <1>1, <1>2, <1>3

\* A class has the fields of its prefix and then its own, and captures what its
\* prefix captures in the same order.
LaysOut(p, lay, c) ==
    /\ lay[c].fields = (IF p.parent[c] = 0 THEN <<>> ELSE lay[p.parent[c]].fields)
                          \o FieldsOf(c, p.fields[c])
    /\ Injects(lay[c].captured)
    /\ p.parent[c] # 0 => Starts(lay[p.parent[c]].captured, lay[c].captured)
LayoutsRight(p, D, lay) == \A c \in D : LaysOut(p, lay, c)

FieldsAll(lay) == [a \in 0..NClass |-> IF a = 0 THEN <<>> ELSE lay[a].fields]

LEMMA FieldsTagged ==
    ASSUME NEW p, IsProgram(p), NEW lay \in [Class -> Layouts], LayoutsRight(p, Class, lay)
    PROVE  Tagged(p, FieldsAll(lay), p.fields)
<1>1. \A a \in Class : lay[a].fields \in Seq(Class \X Nat) /\ a # 0 /\ a \in 0..NClass
  BY InClass DEF Layouts
<1>2. FieldsAll(lay)[0] = <<>> /\ \A a \in Class : FieldsAll(lay)[a] = lay[a].fields
  BY <1>1, ClassFacts DEF FieldsAll
<1>3. FieldsAll(lay) \in [0..NClass -> Seq(Class \X Nat)]
  <2>1. \A a \in 0..NClass : (IF a = 0 THEN <<>> ELSE lay[a].fields) \in Seq(Class \X Nat)
    BY <1>1, InClass
  <2> QED
    BY <2>1, Zenon DEF FieldsAll
<1>4. p.fields \in [Class -> Nat]
  BY DEF IsProgram
<1>5. [c \in Class |-> FieldsOf(c, p.fields[c])] \in [Class -> Seq(Class \X Nat)]
  BY <1>4, FieldsOfProperties
<1>6. ASSUME NEW c \in Class
      PROVE  FieldsAll(lay)[c] = FieldsAll(lay)[p.parent[c]] \o FieldsOf(c, p.fields[c])
  <2>1. p.parent[c] = 0 \/ p.parent[c] \in Class
    BY InText, InClass DEF IsProgram
  <2>2. FieldsAll(lay)[p.parent[c]] = IF p.parent[c] = 0 THEN <<>> ELSE lay[p.parent[c]].fields
    BY <1>1, <1>2, <2>1
  <2> QED
    BY <1>2, <2>2 DEF LayoutsRight, LaysOut
<1> QED
  BY <1>2, <1>3, <1>4, <1>5, <1>6 DEF Tagged, Family

LEMMA ParamsTagged ==
    ASSUME NEW p, IsProgram(p)
    PROVE  Tagged(p, ParamNamesIn(p), p.params)
<1>1. p.params \in [Class -> Nat]
  BY DEF IsProgram
<1>2. [c \in Class |-> FieldsOf(c, p.params[c])] \in [Class -> Seq(Class \X Nat)]
  BY <1>1, FieldsOfProperties
<1> QED
  BY <1>1, <1>2, ParamNamesEquation DEF Tagged, Family

\* So many actuals belong to the prefixes as these have parameters.
LEMMA CountOfActuals ==
    ASSUME NEW p, IsProgram(p), NEW q \in 0..NClass
    PROVE  Len(ParamNamesIn(p)[q]) = ActualsIn(p)[q]
<1> DEFINE bad == {c \in Class : Len(ParamNamesIn(p)[c]) # ActualsIn(p)[c]}
<1>1. ActualsIn(p)[0] = 0 /\ Len(ParamNamesIn(p)[0]) = 0
  <2>1. ActualsIn(p)[0] = 0
    BY ActualsEquation
  <2>2. ParamNamesIn(p)[0] = <<>>
    BY ParamNamesEquation
  <2> QED
    BY <2>1, <2>2
<1>2. ASSUME bad # {}
      PROVE  FALSE
  <2>1. PICK c \in bad : p.parent[c] \in 0..NClass /\ p.parent[c] \notin bad
    <3> HIDE DEF bad
    <3>1. bad \in SUBSET Class
      BY DEF bad
    <3> QED
      BY <1>2, <3>1, LeastClass DEF IsProgram
  <2>2. c \in Class /\ Len(ParamNamesIn(p)[p.parent[c]]) = ActualsIn(p)[p.parent[c]]
    BY <1>1, <2>1, InClass
  <2>3. Len(ParamNamesIn(p)[c]) = Len(ParamNamesIn(p)[p.parent[c]]) + p.params[c]
    BY <2>2, ParamsTagged, TaggedStep DEF IsProgram
  <2>4. ActualsIn(p)[c] = p.params[c] + ActualsIn(p)[p.parent[c]]
    BY <2>2, ActualsEquation
  <2>5. p.params[c] \in Nat /\ ActualsIn(p)[p.parent[c]] \in Nat
    BY <2>1, <2>2, ActualsEquation DEF IsProgram
  <2> QED
    BY <2>1, <2>2, <2>3, <2>4, <2>5
<1> QED
  BY <1>1, <1>2, InClass

LEMMA CapturesStart ==
    ASSUME NEW p, IsProgram(p), NEW lay \in [Class -> Layouts], LayoutsRight(p, Class, lay)
    PROVE  \A c \in Class : \A a \in PrefixesIn(p, c) : Starts(lay[a].captured, lay[c].captured)
<1> DEFINE Good(c) == \A a \in PrefixesIn(p, c) : Starts(lay[a].captured, lay[c].captured)
           bad == {c \in Class : ~ Good(c)}
<1>0. InOrder(p)
  BY DEF IsProgram
<1>1. ASSUME bad # {}
      PROVE  FALSE
  <2>1. PICK c \in bad : p.parent[c] \in 0..NClass /\ p.parent[c] \notin bad
    <3> HIDE DEF bad
    <3>1. bad \in SUBSET Class
      BY DEF bad
    <3> QED
      BY <1>0, <1>1, <3>1, LeastClass
  <2>2. c \in Class /\ ~ Good(c) /\ (p.parent[c] # 0 => p.parent[c] \in Class /\ Good(p.parent[c]))
    <3> HIDE DEF Good
    <3> QED
      BY <2>1, InClass
  <2>3. PICK a \in PrefixesIn(p, c) : ~ Starts(lay[a].captured, lay[c].captured)
    BY <2>2
  <2>4. PICK t \in Seq(Var) : t = lay[c].captured
    BY <2>2 DEF Layouts
  <2>5. a # c
    <3>1. Starts(t, t)
      BY DEF Starts
    <3> QED
      BY <2>3, <2>4, <3>1
  <2>6. p.parent[c] \in Class /\ a \in PrefixesIn(p, p.parent[c]) /\ p.parent[c] # 0
    BY <1>0, <2>2, <2>3, <2>5, PrefixStep
  <2>7. PICK s \in Seq(Var) : s = lay[p.parent[c]].captured
    BY <2>6 DEF Layouts
  <2>8. PICK r \in Seq(Var) : r = lay[a].captured
    <3>1. a \in Class
      BY <1>0, <2>6, PrefixOfPrefix
    <3> QED
      BY <3>1 DEF Layouts
  <2>9. Starts(r, s)
    BY <2>2, <2>6, <2>7, <2>8
  <2>10. Starts(s, t)
    BY <2>2, <2>4, <2>6, <2>7 DEF LayoutsRight, LaysOut
  <2>11. Starts(r, t)
    BY <2>9, <2>10, StartsOfStart
  <2> QED
    BY <2>3, <2>4, <2>8, <2>11
<1> QED
  BY <1>1


\* The captures of a class: those of its prefix, then others.
LEMMA CapturesRight ==
    ASSUME NEW pre \in Seq(Var), Injects(pre), NEW add \in SUBSET Var,
           add \cap ToSet(pre) = {}, NEW s, s = pre \o Sorted(add)
    PROVE  s \in Seq(Var) /\ Injects(s) /\ Starts(pre, s)
<1>1. PICK new \in Seq(add) :
         /\ new = Sorted(add)
         /\ \A i, j \in 1..Len(new) : new[i] = new[j] => i = j
  <2>1. add \in SUBSET (1..2) /\ 2 \in Nat
    BY DEF Var
  <2>2. Lists(Sorted(add), add)
    BY <2>1, SortedLists
  <2> QED
    BY <2>2 DEF Lists
<1>2. new \in Seq(Var)
  BY <1>1
<1>3. PICK z : z = s /\ z = pre \o new
  BY <1>1
<1>4. /\ z \in Seq(Var) /\ Len(z) = Len(pre) + Len(new)
      /\ \A i \in 1 .. Len(pre) + Len(new) : z[i] =
                     IF i <= Len(pre) THEN pre[i] ELSE new[i - Len(pre)]
  BY <1>2, <1>3, ConcatProperties
<1>5. PICK L \in Nat : L = Len(pre)
  OBVIOUS
<1>6. PICK N \in Nat : N = Len(new)
  BY <1>2
<1>7. /\ \A i \in 1..L : z[i] = pre[i] /\ pre[i] \in ToSet(pre)
      /\ \A i \in 1..(L + N) : ~ (i <= L) =>
            i - L \in 1..N /\ z[i] = new[i - L] /\ new[i - L] \in add
  <2>1. \A i \in 1..L : z[i] = pre[i] /\ pre[i] \in ToSet(pre)
    <3>1. DOMAIN pre = 1..L
      BY <1>5
    <3>2. \A i \in 1..L : pre[i] \in ToSet(pre)
      BY <3>1 DEF ToSet
    <3>3. \A i \in 1..L : i \in 1..(Len(pre) + Len(new)) /\ i <= Len(pre)
      BY <1>5, <1>6
    <3> QED
      BY <1>4, <3>2, <3>3
  <2>2. \A i \in 1..(L + N) : ~ (i <= L) => i - L \in 1..N
    OBVIOUS
  <2>3. \A i \in 1..N : new[i] \in add
    BY <1>1, <1>6
  <2> QED
    BY <1>4, <1>5, <1>6, <2>1, <2>2, <2>3
<1>8. \A i, j \in 1..(L + N) : z[i] = z[j] => i = j
  <2> SUFFICES ASSUME NEW i \in 1..(L + N), NEW j \in 1..(L + N), z[i] = z[j]
               PROVE  i = j
    OBVIOUS
  <2>1. CASE i <= L /\ j <= L
    BY <1>5, <1>7, <2>1 DEF Injects
  <2>2. CASE i <= L /\ ~ (j <= L)
    <3>1. z[i] \in ToSet(pre) /\ z[j] \in add
      BY <1>7, <2>2
    <3> QED
      BY <3>1
  <2>3. CASE ~ (i <= L) /\ j <= L
    <3>1. z[i] \in add /\ z[j] \in ToSet(pre)
      BY <1>7, <2>3
    <3> QED
      BY <3>1
  <2>4. CASE ~ (i <= L) /\ ~ (j <= L)
    <3>1. i - L \in 1..N /\ j - L \in 1..N /\ new[i - L] = new[j - L]
      BY <1>7, <2>4
    <3>2. i - L = j - L
      BY <1>1, <1>6, <3>1
    <3> QED
      BY <3>2
  <2> QED
    BY <2>1, <2>2, <2>3, <2>4
<1>9. Starts(pre, z) /\ Injects(z)
  BY <1>4, <1>5, <1>6, <1>7, <1>8 DEF Starts, Injects
<1> QED
  BY <1>3, <1>4, <1>9

LEMMA DeclareLayout ==
    ASSUME Types, LayoutsRight(prog, Known(prog, stage, at), layout), DeclareSkeleton
    PROVE  /\ layout' \in [Class -> Layouts]
           /\ LayoutsRight(prog', Known(prog', stage', at'), layout')
<1>1. PICK D : D = Known(prog, stage, at)
  OBVIOUS
<1>2. PICK c : c = prog.text[at + 1]
  OBVIOUS
<1>3. /\ IsProgram(prog) /\ InOrder(prog) /\ Closed(prog, D)
      /\ c \in Class /\ c \notin D
      /\ prog.parent[c] = 0 \/ prog.parent[c] \in D
      /\ prog.parent[c] = 0 \/ prog.parent[c] \in Class
      /\ Known(prog', stage', at') = D \cup {c}
  BY <1>1, <1>2, DeclareFacts
<1>4. layout' = [layout EXCEPT ![c] = Layout(c)] /\ prog' = prog
  BY <1>2 DEF DeclareSkeleton
<1>5. layout \in [Class -> Layouts]
  BY DEF Types
<1>6. PICK up : up = LayoutOfPrefix(c)
  OBVIOUS
<1>7. /\ up.fields \in Seq(Class \X Nat) /\ up.captured \in Seq(Var) /\ Injects(up.captured)
      /\ prog.parent[c] = 0 => up.fields = <<>>
      /\ prog.parent[c] # 0 => up = layout[prog.parent[c]]
  <2>1. CASE prog.parent[c] = 0
    BY <1>6, <2>1 DEF LayoutOfPrefix, NoPrefix, Injects
  <2>2. CASE prog.parent[c] # 0
    <3>1. up = layout[prog.parent[c]] /\ up \in Layouts
      BY <1>3, <1>5, <1>6, <2>2 DEF LayoutOfPrefix
    <3>2. Injects(up.captured)
      BY <1>1, <1>3, <2>2, <3>1 DEF LayoutsRight, LaysOut
    <3> QED
      BY <2>2, <3>1, <3>2 DEF Layouts
  <2> QED
    BY <2>1, <2>2
<1>8. PICK add \in SUBSET Var : /\ add \cap ToSet(up.captured) = {}
                                /\ Captures(c) = up.captured \o Sorted(add)
  <2>1. (IF c \in prog.inner THEN prog.locals \ ToSet(up.captured) ELSE {}) \in SUBSET Var
    BY <1>3 DEF IsProgram
  <2> QED
    BY <1>6, <2>1 DEF Captures
<1>9. Captures(c) \in Seq(Var) /\ Injects(Captures(c)) /\ Starts(up.captured, Captures(c))
  BY <1>7, <1>8, CapturesRight
<1>10. PICK own \in Seq(Class \X Nat) : own = FieldsOf(c, prog.fields[c])
  BY <1>3, FieldsOfProperties DEF IsProgram
<1>11. PICK new : new = Layout(c)
  OBVIOUS
<1>12. new = [fields |-> up.fields \o own, captured |-> Captures(c)]
  BY <1>6, <1>10, <1>11 DEF Layout, OwnFields
<1>13. up.fields \o own \in Seq(Class \X Nat)
  BY <1>7
<1>14. new \in Layouts
  BY <1>9, <1>12, <1>13 DEF Layouts
<1>15. /\ layout' \in [Class -> Layouts] /\ layout'[c] = new
       /\ \A a \in Class : a # c => layout'[a] = layout[a]
  BY <1>3, <1>4, <1>5, <1>11, <1>14
<1>16. prog.parent[c] # 0 => layout'[prog.parent[c]] = up
  BY <1>3, <1>7, <1>15
<1>17. LaysOut(prog, layout', c)
  <2>1. /\ layout'[c].fields = up.fields \o own
        /\ layout'[c].captured = Captures(c)
    BY <1>12, <1>15
  <2>2. (IF prog.parent[c] = 0 THEN <<>> ELSE layout'[prog.parent[c]].fields) = up.fields
    BY <1>7, <1>16
  <2> QED
    BY <1>9, <1>10, <1>16, <2>1, <2>2 DEF LaysOut
<1>18. ASSUME NEW a \in D
       PROVE  LaysOut(prog, layout', a)
  <2>1. layout'[a] = layout[a] /\ prog.parent[a] # 0 => layout'[prog.parent[a]] = layout[prog.parent[a]]
    BY <1>3, <1>15, <1>18 DEF Closed
  <2>2. layout'[a] = layout[a]
    BY <1>3, <1>15, <1>18 DEF Closed
  <2>3. LaysOut(prog, layout, a)
    BY <1>1, <1>18 DEF LayoutsRight
  <2> QED
    BY <2>1, <2>2, <2>3 DEF LaysOut
<1> QED
  BY <1>3, <1>4, <1>15, <1>17, <1>18 DEF LayoutsRight

\* Every slot of an object holds what its class and its prefixes look for there.
SlotsGood(p, lay, d, slots) ==
    \A a \in PrefixesIn(p, d) :
        /\ \A k \in 1..p.params[a] :
              slots[1 + Position(lay[a].fields, <<a, k>>)]
                  = <<"actual", ActualsIn(p)[p.parent[a]] + k>>
        /\ lay[a].fields = lay[d].fields =>
              \A v \in ToSet(lay[a].captured) :
                  slots[1 + Len(lay[a].fields) + Position(lay[a].captured, v)]
                      = <<"address", v>>

\* The fields of a class and its parameters, seen from a class it prefixes.
FieldAt(p, S, d, a, k) ==
    \E j \in 1..Len(S[d]) :
        /\ j = Len(S[p.parent[a]]) + k /\ S[d][j] = <<a, k>>
        /\ Position(S[a], <<a, k>>) = j /\ Position(S[d], <<a, k>>) = j

LEMMA FieldOf ==
    ASSUME NEW p, InOrder(p), NEW S, NEW n, Tagged(p, S, n), NEW d \in Class
    PROVE  \A a \in PrefixesIn(p, d) : \A k \in 1..n[a] : FieldAt(p, S, d, a, k)
<1> SUFFICES ASSUME NEW a \in PrefixesIn(p, d), NEW k \in 1..n[a]
             PROVE  FieldAt(p, S, d, a, k)
  OBVIOUS
<1>1. a \in Class
  BY PrefixOfPrefix
<1>2. PICK s \in Seq(Class \X Nat) : s = S[a]
  BY <1>1, TaggedStep
<1>3. PICK t \in Seq(Class \X Nat) : t = S[d]
  BY TaggedStep
<1>4. PICK L \in Nat : L = Len(S[p.parent[a]])
  <2>1. PICK u \in Seq(Class \X Nat) : u = S[p.parent[a]]
    BY <1>1, TaggedStep
  <2>2. Len(u) \in Nat
    OBVIOUS
  <2> QED
    BY <2>1, <2>2, Zenon
<1>5. n[a] \in Nat /\ Len(s) = L + n[a] /\ s[L + k] = <<a, k>>
  <2>1. /\ n[a] \in Nat /\ Len(S[a]) = Len(S[p.parent[a]]) + n[a]
        /\ \A l \in 1..n[a] : S[a][Len(S[p.parent[a]]) + l] = <<a, l>>
    BY <1>1, TaggedStep, SMTT(30)
  <2> QED
    BY <1>2, <1>4, <2>1, Zenon
<1>6. Injects(s) /\ Injects(t)
  BY <1>1, <1>2, <1>3, TaggedFacts DEF TaggedEntries
<1>7. Starts(s, t)
  <2>1. PICK V : V = Class \X Nat
    OBVIOUS
  <2>2. PICK own : own = [c \in Class |-> FieldsOf(c, n[c])]
    OBVIOUS
  <2>3. Family(p, S, V, own)
    BY <2>1, <2>2 DEF Tagged
  <2>4. Starts(S[a], S[d])
    BY <2>3, FamilyStarts, Zenon
  <2> QED
    BY <1>2, <1>3, <2>4
<1>8. PICK j \in 1..Len(s) : j = L + k
  BY <1>5
<1>9. j \in 1..Len(t) /\ Position(s, s[j]) = j /\ Position(t, s[j]) = j
  BY <1>6, <1>7, PositionOfStart
<1>10. t[j] = s[j]
  BY <1>7 DEF Starts
<1> QED
  BY <1>2, <1>3, <1>4, <1>5, <1>8, <1>9, <1>10 DEF FieldAt

LEMMA ParameterSlots ==
    ASSUME IsProgram(prog), layout \in [Class -> Layouts],
           LayoutsRight(prog, Class, layout), NEW d \in Class,
           NEW a \in PrefixesIn(prog, d), NEW k \in 1..prog.params[a]
    PROVE  Slots(d)[1 + Position(layout[a].fields, <<a, k>>)]
              = <<"actual", ActualsIn(prog)[prog.parent[a]] + k>>
<1>1. PICK S : S = FieldsAll(layout)
  OBVIOUS
<1>2. InOrder(prog) /\ Tagged(prog, S, prog.fields)
  BY <1>1, FieldsTagged DEF IsProgram
<1>3. \A c \in Class : S[c] = layout[c].fields
  BY <1>1, InClass DEF FieldsAll
<1>4. a \in Class
  BY <1>2, PrefixOfPrefix
<1>5. PICK par \in Seq(Class \X Nat) : par = ParamNames(d)
  BY ParamNamesEquation, InClass DEF ParamNames
<1>6. PICK F \in Seq(Class \X Nat) : F = layout[d].fields
  BY DEF Layouts
<1>7. PICK cap \in Seq(Var) : cap = layout[d].captured
  BY DEF Layouts
<1>8. \A c \in Class : prog.params[c] <= prog.fields[c] /\ prog.params[c] \in Nat /\ prog.fields[c] \in Nat
  BY DEF IsProgram
<1>9. \A c \in Class : \A l \in 1..prog.params[c] : l \in 1..prog.fields[c]
  BY <1>8
<1>10. k \in 1..prog.fields[a]
  BY <1>4, <1>9
<1>f. \A b \in PrefixesIn(prog, d) : \A m \in 1..prog.fields[b] : FieldAt(prog, S, d, b, m)
  BY <1>2, FieldOf
<1>11. PICK j \in 1..Len(F) : /\ F[j] = <<a, k>>
                              /\ Position(layout[a].fields, <<a, k>>) = j
                              /\ Position(F, <<a, k>>) = j
  <2>1. FieldAt(prog, S, d, a, k)
    BY <1>f, <1>10
  <2> QED
    BY <1>3, <1>4, <1>6, <2>1 DEF FieldAt
<1>12. PICK i \in 1..Len(par) : i = ActualsIn(prog)[prog.parent[a]] + k /\ par[i] = <<a, k>>
  <2>1. prog.parent[a] \in 0..NClass
    BY <1>2, <1>4, InText
  <2>2. Len(ParamNamesIn(prog)[prog.parent[a]]) = ActualsIn(prog)[prog.parent[a]]
    BY <2>1, CountOfActuals
  <2>3. Tagged(prog, ParamNamesIn(prog), prog.params)
    BY ParamsTagged
  <2>4. FieldAt(prog, ParamNamesIn(prog), d, a, k)
    BY <1>2, <2>3, FieldOf
  <2>5. ParamNamesIn(prog)[d] = par
    BY <1>5 DEF ParamNames
  <2> QED
    BY <2>2, <2>4, <2>5 DEF FieldAt
<1>13. \A l \in 1..Len(par) : \E b \in PrefixesIn(prog, d) : \E m \in 1..prog.params[b] : par[l] = <<b, m>>
  <2>1. TaggedEntries(prog, ParamNamesIn(prog), prog.params, d)
    BY <1>2, ParamsTagged, TaggedFacts
  <2> QED
    BY <1>5, <2>1 DEF TaggedEntries, ParamNames
<1>14. Injects(par)
  BY <1>2, <1>5, ParamsTagged, TaggedFacts DEF TaggedEntries, ParamNames
<1>15. \A l \in 1..Len(par) : FieldSlot(d, par[l]) = 1 + j => l = i
  <2> SUFFICES ASSUME NEW l \in 1..Len(par), FieldSlot(d, par[l]) = 1 + j
               PROVE  l = i
    OBVIOUS
  <2>1. PICK b \in PrefixesIn(prog, d) : \E m \in 1..prog.params[b] : par[l] = <<b, m>>
    BY <1>13
  <2>2. PICK m \in 1..prog.params[b] : par[l] = <<b, m>>
    BY <2>1
  <2>3. b \in Class /\ m \in 1..prog.fields[b]
    BY <1>2, <1>9, PrefixOfPrefix
  <2>4. PICK h \in 1..Len(F) : F[h] = <<b, m>> /\ Position(F, <<b, m>>) = h
    <3>1. FieldAt(prog, S, d, b, m)
      BY <1>f, <2>3
    <3>2. S[d] = F
      BY <1>3, <1>6
    <3> QED
      BY <3>1, <3>2 DEF FieldAt
  <2>5. FieldSlot(d, par[l]) = 1 + h
    BY <1>6, <2>2, <2>4 DEF FieldSlot
  <2>6. h = j
    BY <2>5
  <2>7. par[l] = par[i]
    BY <1>11, <1>12, <2>2, <2>4, <2>6
  <2> QED
    BY <1>14, <2>7 DEF Injects
<1>16. FieldSlot(d, par[i]) = 1 + j
  BY <1>6, <1>11, <1>12 DEF FieldSlot
<1>17. DOMAIN par = 1..Len(par)
  OBVIOUS
<1>18. (CHOOSE l \in DOMAIN par : FieldSlot(d, par[l]) = 1 + j) = i
  BY <1>15, <1>16, <1>17
<1>19. 1 + j \in 2..(1 + Len(F) + Len(cap))
  OBVIOUS
<1>20. Slots(d)[1 + j] = <<"actual", i>>
  BY <1>5, <1>6, <1>7, <1>16, <1>17, <1>18, <1>19 DEF Slots
<1> QED
  BY <1>11, <1>12, <1>20


LEMMA CaptureSlots ==
    ASSUME IsProgram(prog), layout \in [Class -> Layouts],
           LayoutsRight(prog, Class, layout), NEW d \in Class,
           NEW a \in PrefixesIn(prog, d), layout[a].fields = layout[d].fields,
           NEW v \in ToSet(layout[a].captured)
    PROVE  Slots(d)[1 + Len(layout[a].fields) + Position(layout[a].captured, v)]
              = <<"address", v>>
<1>1. InOrder(prog)
  BY DEF IsProgram
<1>2. a \in Class
  BY <1>1, PrefixOfPrefix
<1>3. PICK par \in Seq(Class \X Nat) : par = ParamNames(d)
  BY ParamNamesEquation, InClass DEF ParamNames
<1>4. PICK F \in Seq(Class \X Nat) : F = layout[d].fields
  BY DEF Layouts
<1>5. PICK cap \in Seq(Var) : cap = layout[d].captured
  BY DEF Layouts
<1>6. PICK pre \in Seq(Var) : pre = layout[a].captured
  BY <1>2 DEF Layouts
<1>7. Injects(pre) /\ Injects(cap)
  BY <1>2, <1>5, <1>6 DEF LayoutsRight, LaysOut
<1>8. Starts(pre, cap)
  BY <1>5, <1>6, CapturesStart
<1>9. PICK i \in 1..Len(pre) : v = pre[i]
  <2>1. DOMAIN pre = 1..Len(pre) /\ v \in ToSet(pre)
    BY <1>6
  <2> QED
    BY <2>1 DEF ToSet
<1>10. i \in 1..Len(cap) /\ Position(pre, v) = i /\ cap[i] = v
  <2>1. i \in 1..Len(cap) /\ Position(pre, pre[i]) = i
    BY <1>7, <1>8, PositionOfStart
  <2>2. cap[i] = pre[i]
    BY <1>8 DEF Starts
  <2> QED
    BY <1>9, <2>1, <2>2
<1>11. PICK L \in Nat : L = Len(F)
  OBVIOUS
<1>12. PICK s : s = 1 + L + i
  OBVIOUS
<1>13. s \in 2..(1 + L + Len(cap)) /\ s > 1 + L /\ s - 1 - L = i
  BY <1>10, <1>12
<1>14. \A l \in DOMAIN par : FieldSlot(d, par[l]) # s
  <2> SUFFICES ASSUME NEW l \in 1..Len(par), FieldSlot(d, par[l]) = s
               PROVE  FALSE
    <3>1. DOMAIN par = 1..Len(par)
      OBVIOUS
    <3> QED
      BY <3>1, Zenon
  <2>1. TaggedEntries(prog, ParamNamesIn(prog), prog.params, d)
    BY <1>1, ParamsTagged, TaggedFacts
  <2>2. PICK b \in PrefixesIn(prog, d) : \E m \in 1..prog.params[b] : par[l] = <<b, m>>
    BY <1>3, <2>1 DEF TaggedEntries, ParamNames
  <2>3. PICK m \in 1..prog.params[b] : par[l] = <<b, m>>
    BY <2>2
  <2>4. b \in Class /\ prog.params[b] <= prog.fields[b] /\ prog.params[b] \in Nat /\ prog.fields[b] \in Nat
    BY <1>1, <2>2, PrefixOfPrefix DEF IsProgram
  <2>5. m \in 1..prog.fields[b]
    <3>1. PICK u \in Nat : u = prog.params[b]
      BY <2>4
    <3>2. PICK w \in Nat : w = prog.fields[b]
      BY <2>4
    <3>3. m \in 1..u /\ u <= w
      BY <2>3, <2>4, <3>1, <3>2, Zenon
    <3> QED
      BY <3>2, <3>3
  <2>6. FieldAt(prog, FieldsAll(layout), d, b, m)
    BY <1>1, <2>5, FieldsTagged, FieldOf
  <2>7. FieldsAll(layout)[d] = F
    BY <1>4, InClass DEF FieldsAll
  <2>8. Position(F, <<b, m>>) \in 1..L
    BY <1>11, <2>6, <2>7 DEF FieldAt
  <2>9. s = 1 + Position(F, <<b, m>>)
    BY <1>4, <2>3 DEF FieldSlot
  <2> QED
    BY <1>13, <2>8, <2>9
<1>15. Slots(d)[s] = <<"address", cap[s - 1 - L]>>
  <2>1. Slots(d) = [x \in 2..(1 + L + Len(cap)) |->
             IF \E l \in DOMAIN par : FieldSlot(d, par[l]) = x
             THEN <<"actual", CHOOSE l \in DOMAIN par : FieldSlot(d, par[l]) = x>>
             ELSE IF x > 1 + L THEN <<"address", cap[x - 1 - L]>>
             ELSE <<"initial", 0>>]
    BY <1>3, <1>4, <1>5, <1>11 DEF Slots
  <2> QED
    BY <1>13, <1>14, <2>1
<1> QED
  BY <1>4, <1>6, <1>10, <1>11, <1>12, <1>13, <1>15

LEMMA SlotsRight ==
    ASSUME IsProgram(prog), layout \in [Class -> Layouts],
           LayoutsRight(prog, Class, layout), NEW d \in Class
    PROVE  SlotsGood(prog, layout, d, Slots(d))
BY ParameterSlots, CaptureSlots DEF SlotsGood

-----------------------------------------------------------------------------
(* Bodies.                                                                 *)

\* The parts of a class around what its subclasses put in place of INNER.
Wrapped(p, a, in) == <<<<a, "before">>>> \o in \o Behind(p, a)

Nests(p, ch, f) ==
    f[Len(ch) + 1] = <<>> /\ \A i \in 1..Len(ch) : f[i] = Wrapped(p, ch[i], f[i + 1])

LEMMA WrappedType ==
    ASSUME NEW p, NEW a \in Class, NEW in \in Seq(Part)
    PROVE  Wrapped(p, a, in) \in Seq(Part)
<1>1. <<a, "before">> \in Part
  BY DEF Part
<1>2. <<<<a, "before">>>> \in Seq(Part)
  BY <1>1
<1>3. Behind(p, a) \in Seq(Part)
  BY BehindType
<1> QED
  BY <1>2, <1>3 DEF Wrapped

\* From the last class of the chain backwards.
LEMMA NestingExists ==
    ASSUME NEW p, NEW ch \in Seq(Class)
    PROVE  \E f \in [1..(Len(ch) + 1) -> Seq(Part)] : Nests(p, ch, f)
<1>1. PICK n \in Nat : n = Len(ch)
  OBVIOUS
<1> DEFINE Up(f, i) == f[i] = Wrapped(p, ch[i], f[i + 1])
           Done(k) == \E f \in [1..(n + 1) -> Seq(Part)] :
                         f[n + 1] = <<>> /\ \A i \in 1..n : i > n - k => Up(f, i)
           bad == {k \in 0..n : ~ Done(k)}
<1>2. Done(0)
  <2>1. PICK f \in [1..(n + 1) -> Seq(Part)] : f = [i \in 1..(n + 1) |-> <<>>]
    <3>0. <<>> \in Seq(Part)
      OBVIOUS
    <3>1. PICK none \in Seq(Part) : none = <<>>
      BY <3>0, Zenon
    <3>2. [i \in 1..(n + 1) |-> none] \in [1..(n + 1) -> Seq(Part)]
      OBVIOUS
    <3> QED
      BY <3>1, <3>2
  <2>2. f[n + 1] = <<>>
    BY <2>1
  <2>3. \A i \in 1..n : i > n - 0 => Up(f, i)
    OBVIOUS
  <2> HIDE DEF Up
  <2> QED
    BY <2>2, <2>3
<1>3. ASSUME NEW k \in 1..n, Done(k - 1)
      PROVE  Done(k)
  <2>1. PICK f \in [1..(n + 1) -> Seq(Part)] :
           f[n + 1] = <<>> /\ \A i \in 1..n : i > n - (k - 1) => Up(f, i)
    BY <1>3
  <2>2. PICK h \in 1..n : h = n + 1 - k
    OBVIOUS
  <2>3. f[h + 1] \in Seq(Part) /\ ch[h] \in Class
    BY <1>1
  <2>4. PICK v \in Seq(Part) : v = Wrapped(p, ch[h], f[h + 1])
    BY <2>3, WrappedType
  <2> DEFINE g == [f EXCEPT ![h] = v]
  <2>5. g \in [1..(n + 1) -> Seq(Part)] /\ g[h] = v /\ \A i \in 1..(n + 1) : i # h => g[i] = f[i]
    OBVIOUS
  <2> HIDE DEF g
  <2>6. g[n + 1] = <<>>
    BY <2>1, <2>2, <2>5
  <2>7. ASSUME NEW i \in 1..n, i > n - k
        PROVE  Up(g, i)
    <3>1. i + 1 \in 1..(n + 1) /\ i + 1 # h /\ i \in 1..(n + 1)
      BY <2>2, <2>7
    <3>2. g[i + 1] = f[i + 1]
      BY <2>5, <3>1
    <3>3. CASE i = h
      BY <2>4, <2>5, <3>2, <3>3
    <3>4. CASE i # h
      <4>1. i > n - (k - 1)
        BY <2>2, <2>7, <3>4
      <4>2. g[i] = f[i]
        BY <2>5, <3>1, <3>4
      <4> QED
        BY <2>1, <3>2, <4>1, <4>2
    <3> QED
      BY <3>3, <3>4
  <2> QED
    BY <2>5, <2>6, <2>7
<1> HIDE DEF Done
<1>4. bad = {}
  <2> SUFFICES ASSUME bad # {}
               PROVE  FALSE
    OBVIOUS
  <2>1. PICK k \in bad : \A j \in bad : k <= j
    <3>1. bad \in SUBSET Nat
      OBVIOUS
    <3> QED
      BY <3>1, LeastNat
  <2>2. k # 0
    BY <1>2, <2>1
  <2>3. k \in 1..n /\ k - 1 \in 0..n /\ k - 1 \notin bad
    BY <2>1, <2>2
  <2> QED
    BY <1>3, <2>1, <2>3
<1>5. Done(n)
  BY <1>4
<1>6. PICK f \in [1..(n + 1) -> Seq(Part)] : f[n + 1] = <<>> /\ \A i \in 1..n : i > n - n => Up(f, i)
  BY <1>5 DEF Done
<1>7. \A i \in 1..n : Up(f, i)
  BY <1>6
<1> QED
  BY <1>1, <1>6, <1>7 DEF Nests

LEMMA NestingEquation ==
    ASSUME NEW p, NEW ch \in Seq(Class)
    PROVE  Nests(p, ch, NestingIn(p, ch))
<1>1. PICK n \in Nat : n = Len(ch)
  OBVIOUS
<1> DEFINE F(f) == [i \in 1..(n + 1) |->
                      IF i > n THEN <<>> ELSE <<<<ch[i], "before">>>> \o f[i + 1] \o Behind(p, ch[i])]
<1>2. PICK f \in [1..(n + 1) -> Seq(Part)] : Nests(p, ch, f)
  BY <1>1, NestingExists
<1>3. \A i \in 1..(n + 1) : f[i] = IF i > n THEN <<>> ELSE <<<<ch[i], "before">>>> \o f[i + 1] \o Behind(p, ch[i])
  <2> SUFFICES ASSUME NEW i \in 1..(n + 1)
               PROVE  f[i] = IF i > n THEN <<>> ELSE <<<<ch[i], "before">>>> \o f[i + 1] \o Behind(p, ch[i])
    OBVIOUS
  <2>1. CASE i > n
    <3>1. i = n + 1
      BY <2>1
    <3> QED
      BY <1>1, <1>2, <2>1, <3>1 DEF Nests
  <2>2. CASE ~ (i > n)
    <3>1. i \in 1..n
      BY <2>2
    <3> QED
      BY <1>1, <1>2, <2>2, <3>1 DEF Nests, Wrapped
  <2> QED
    BY <2>1, <2>2
<1>4. f = F(f)
  BY <1>3
<1>5. PICK h : h = F(h) /\ h = NestingIn(p, ch)
  BY <1>1, <1>4 DEF NestingIn
<1>6. \A i \in 1..(n + 1) : h[i] = IF i > n THEN <<>> ELSE <<<<ch[i], "before">>>> \o h[i + 1] \o Behind(p, ch[i])
  BY <1>5, Zenon
<1>7. n + 1 \in 1..(n + 1) /\ n + 1 > n /\ \A i \in 1..n : i \in 1..(n + 1) /\ ~ (i > n)
  OBVIOUS
<1>8. h[n + 1] = <<>> /\ \A i \in 1..n : h[i] = <<<<ch[i], "before">>>> \o h[i + 1] \o Behind(p, ch[i])
  BY <1>6, <1>7, Zenon
<1> QED
  BY <1>1, <1>5, <1>8 DEF Nests, Wrapped


\* The chain of a class is linked by the prefixes.
ChainLinks(p, c) ==
    \E ch \in Seq(Class) :
        /\ ch = ChainIn(p.parent)[c]
        /\ Len(ch) >= 1 /\ ch[Len(ch)] = c /\ p.parent[ch[1]] = 0
        /\ \A i \in 1..(Len(ch) - 1) : p.parent[ch[i + 1]] = ch[i]

LEMMA Linked ==
    ASSUME NEW p, InOrder(p)
    PROVE  \A c \in Class : ChainLinks(p, c)
<1> DEFINE bad == {c \in Class : ~ ChainLinks(p, c)}
<1>1. ASSUME bad # {}
      PROVE  FALSE
  <2>1. PICK c \in bad : p.parent[c] \in 0..NClass /\ p.parent[c] \notin bad
    <3> HIDE DEF bad
    <3>1. bad \in SUBSET Class
      BY DEF bad
    <3> QED
      BY <1>1, <3>1, LeastClass
  <2>2. c \in Class /\ ~ ChainLinks(p, c)
    BY <2>1
  <2>3. PICK q \in 0..NClass : q = p.parent[c] /\ (q # 0 => q \in Class /\ ChainLinks(p, q))
    BY <2>1, InClass
  <2>4. PICK up : up = ChainIn(p.parent)[p.parent[c]]
    OBVIOUS
  <2>5. PICK ch : ch = ChainIn(p.parent)[c]
    OBVIOUS
  <2>6. /\ up \in Seq(Class) /\ ch \in Seq(Class)
        /\ Len(ch) = Len(up) + 1 /\ ch[Len(up) + 1] = c
        /\ \A i \in 1..Len(up) : ch[i] = up[i]
        /\ q = 0 => Len(up) = 0
    BY <2>2, <2>3, <2>4, <2>5, ChainOfPrefix
  <2>7. CASE q = 0
    <3>1. Len(ch) = 1 /\ ch[1] = c
      BY <2>6, <2>7
    <3>2. \A i \in 1..(Len(ch) - 1) : p.parent[ch[i + 1]] = ch[i]
      BY <3>1
    <3>3. p.parent[ch[1]] = 0
      BY <2>3, <2>7, <3>1, Zenon
    <3>4. Len(ch) >= 1 /\ ch[Len(ch)] = c
      BY <3>1
    <3> QED
      BY <2>2, <2>5, <2>6, <3>2, <3>3, <3>4 DEF ChainLinks
  <2>8. CASE q # 0
    <3>1. /\ Len(up) >= 1 /\ up[Len(up)] = q /\ p.parent[up[1]] = 0
          /\ \A i \in 1..(Len(up) - 1) : p.parent[up[i + 1]] = up[i]
      BY <2>3, <2>4, <2>8 DEF ChainLinks
    <3>2. PICK n \in Nat : n = Len(up) /\ n >= 1
      BY <2>6, <3>1
    <3>3. ch[1] = up[1]
      BY <2>6, <3>2
    <3>4. ASSUME NEW i \in 1..n
          PROVE  p.parent[ch[i + 1]] = ch[i]
      <4>1. CASE i = n
        BY <2>3, <2>6, <3>1, <3>2, <4>1
      <4>2. CASE i # n
        <5>1. i \in 1..(n - 1) /\ i + 1 \in 1..n
          BY <4>2
        <5> QED
          BY <2>6, <3>1, <3>2, <5>1
      <4> QED
        BY <4>1, <4>2
    <3>5. Len(ch) - 1 = n /\ Len(ch) >= 1 /\ ch[Len(ch)] = c
      BY <2>6, <3>2
    <3> QED
      BY <2>2, <2>5, <2>6, <3>1, <3>3, <3>4, <3>5 DEF ChainLinks
  <2> QED
    BY <2>7, <2>8
<1> QED
  BY <1>1

Same(s, t) == s = t

LEMMA Associative ==
    ASSUME NEW V, NEW s \in Seq(V), NEW t \in Seq(V), NEW u \in Seq(V)
    PROVE  Same((s \o t) \o u, s \o (t \o u))
BY ConcatAssociative DEF Same

LEMMA Regroup ==
    ASSUME NEW V, NEW b \in Seq(V), NEW e \in V, NEW x \in Seq(V),
           NEW h \in Seq(V), NEW a \in Seq(V)
    PROVE  Same(b \o (<<e>> \o x \o h) \o a, Append(b, e) \o x \o (h \o a))
<1>1. <<e>> \in Seq(V)
  OBVIOUS
<1>2. PICK s \in Seq(V) : s = <<e>>
  BY <1>1, Zenon
<1>3. Append(b, e) = b \o s
  BY <1>2, AppendIsConcat
<1>4. s \o x \in Seq(V) /\ b \o s \in Seq(V) /\ b \o (s \o x) \in Seq(V)
  OBVIOUS
<1>5. Same((b \o s) \o x, b \o (s \o x))
  BY Associative, Zenon
<1>6. Same((b \o (s \o x)) \o h, b \o ((s \o x) \o h))
  BY <1>4, Associative, Zenon
<1>7. Same(((b \o (s \o x)) \o h) \o a, (b \o (s \o x)) \o (h \o a))
  BY <1>4, Associative, Zenon
<1> QED
  BY <1>2, <1>3, <1>5, <1>6, <1>7, Zenon DEF Same

\* What nests in the prefixes runs between what stands before and behind.
LEMMA BodiesRight ==
    ASSUME NEW p, IsProgram(p), NEW c \in Class
    PROVE  NestingIn(p, ChainIn(p.parent)[c])[1] = PartsIn(p)[c].before \o PartsIn(p)[c].after
<1>1. PICK ch \in Seq(Class) :
        /\ ch = ChainIn(p.parent)[c]
        /\ Len(ch) >= 1 /\ ch[Len(ch)] = c /\ p.parent[ch[1]] = 0
        /\ \A i \in 1..(Len(ch) - 1) : p.parent[ch[i + 1]] = ch[i]
  BY Linked DEF IsProgram, ChainLinks
<1>2. PICK n \in Nat : n = Len(ch) /\ n >= 1
  BY <1>1
<1>3. PICK P \in [0..NClass -> Body] :
         /\ P = PartsIn(p) /\ P[0] = NoParts
         /\ \A a \in Class : P[a] = Around(p, a, P[p.parent[a]])
  BY PartsEquation
<1>4. PICK f : f = NestingIn(p, ch)
  OBVIOUS
<1>5. f[n + 1] = <<>> /\ \A i \in 1..n : f[i] = Wrapped(p, ch[i], f[i + 1])
  BY <1>2, <1>4, NestingEquation DEF Nests
<1>6. \A i \in 1..(n + 1) : f[i] \in Seq(Part)
  <2> DEFINE Typed(k) == f[n + 1 - k] \in Seq(Part)
             bad == {k \in 0..n : ~ Typed(k)}
  <2> HIDE DEF Typed
  <2>1. ASSUME bad # {}
        PROVE  FALSE
    <3>1. PICK k \in bad : \A j \in bad : k <= j
      <4>1. bad \in SUBSET Nat
        OBVIOUS
      <4> QED
        BY <2>1, <4>1, LeastNat
    <3>2. k # 0
      <4>1. f[n + 1] \in Seq(Part) /\ n + 1 - 0 = n + 1
        BY <1>5
      <4>2. Typed(0)
        BY <4>1 DEF Typed
      <4> QED
        BY <3>1, <4>2
    <3>3. PICK i \in 1..n : i = n + 1 - k /\ n + 1 - (k - 1) = i + 1
      BY <3>1, <3>2
    <3>4. f[i + 1] \in Seq(Part)
      <4>1. k - 1 \in 0..n /\ k - 1 \notin bad
        BY <3>1, <3>2
      <4>2. Typed(k - 1)
        BY <4>1
      <4> QED
        BY <3>3, <4>2 DEF Typed
    <3>5. ch[i] \in Class
      BY <1>2
    <3>6. f[i] \in Seq(Part)
      BY <1>5, <3>4, <3>5, WrappedType
    <3>7. Typed(k)
      BY <3>3, <3>6 DEF Typed
    <3> QED
      BY <3>1, <3>7
  <2> SUFFICES ASSUME NEW i \in 1..(n + 1)
               PROVE  f[i] \in Seq(Part)
    OBVIOUS
  <2>2. n + 1 - i \in 0..n /\ n + 1 - (n + 1 - i) = i
    OBVIOUS
  <2>3. Typed(n + 1 - i)
    BY <2>1, <2>2
  <2> QED
    BY <2>2, <2>3 DEF Typed
<1> DEFINE Above(j) == IF j = 0 THEN 0 ELSE ch[j]
           Split(j) == f[1] = P[Above(j)].before \o f[j + 1] \o P[Above(j)].after
           bad == {j \in 0..n : ~ Split(j)}
<1>7. Split(0)
  <2>1. P[Above(0)].before = <<>> /\ P[Above(0)].after = <<>>
    BY <1>3 DEF NoParts
  <2>2. f[1] \in Seq(Part)
    BY <1>6
  <2>3. <<>> \o f[1] \o <<>> = f[1]
    BY <2>2, ConcatEmptySeq
  <2> QED
    BY <2>1, <2>3
<1>8. ASSUME NEW j \in 1..n, Split(j - 1)
      PROVE  Split(j)
  <2>1. PICK a \in Class : a = ch[j]
    BY <1>2
  <2>2. p.parent[a] = Above(j - 1)
    <3>1. CASE j = 1
      BY <1>1, <2>1, <3>1
    <3>2. CASE j # 1
      <4>1. j - 1 \in 1..(n - 1) /\ j - 1 + 1 = j /\ j - 1 # 0
        BY <3>2
      <4> QED
        BY <1>1, <1>2, <2>1, <4>1
    <3> QED
      BY <3>1, <3>2
  <2>3. PICK up \in Body : up = P[Above(j - 1)] /\ P[a] = Around(p, a, up)
    <3>1. p.parent[a] \in 0..NClass
      BY InText DEF IsProgram
    <3> QED
      BY <1>3, <2>2, <3>1
  <2>4. f[1] = up.before \o f[j] \o up.after
    <3>1. (j - 1) + 1 = j
      OBVIOUS
    <3>2. f[1] = P[Above(j - 1)].before \o f[(j - 1) + 1] \o P[Above(j - 1)].after
      BY <1>8, Zenon
    <3> HIDE DEF Above
    <3> QED
      BY <2>3, <3>1, <3>2
  <2>5. f[j] = <<<<a, "before">>>> \o f[j + 1] \o Behind(p, a)
    BY <1>5, <2>1 DEF Wrapped
  <2>6. /\ up.before \in Seq(Part) /\ up.after \in Seq(Part) /\ f[j + 1] \in Seq(Part)
        /\ Behind(p, a) \in Seq(Part) /\ <<a, "before">> \in Part
    BY <1>6, BehindType DEF Body, Part
  <2>7. f[1] = Append(up.before, <<a, "before">>) \o f[j + 1] \o (Behind(p, a) \o up.after)
    <3>1. PICK e \in Part : e = <<a, "before">>
      BY <2>6
    <3>2. PICK b \in Seq(Part) : b = up.before
      BY <2>6
    <3>3. PICK z \in Seq(Part) : z = up.after
      BY <2>6
    <3>4. PICK x \in Seq(Part) : x = f[j + 1]
      BY <2>6
    <3>5. PICK h \in Seq(Part) : h = Behind(p, a)
      BY <2>6
    <3>6. PICK V : V = Part
      OBVIOUS
    <3>7. Same(b \o (<<e>> \o x \o h) \o z, Append(b, e) \o x \o (h \o z))
      <4>1. e \in V /\ b \in Seq(V) /\ x \in Seq(V) /\ h \in Seq(V) /\ z \in Seq(V)
        BY <3>6
      <4> QED
        BY <4>1, Regroup, Zenon
    <3>8. f[1] = b \o (<<e>> \o x \o h) \o z
      BY <2>4, <2>5, <3>1, <3>2, <3>3, <3>4, <3>5, Zenon
    <3> QED
      BY <3>1, <3>2, <3>3, <3>4, <3>5, <3>7, <3>8, Zenon DEF Same
  <2>8. /\ P[Above(j)].before = Append(up.before, <<a, "before">>)
        /\ P[Above(j)].after = Behind(p, a) \o up.after
    <3>1. Above(j) = a
      BY <2>1
    <3>2. P[a] = [before |-> Append(up.before, <<a, "before">>), after |-> Behind(p, a) \o up.after]
      BY <2>3 DEF Around
    <3> HIDE DEF Above
    <3> QED
      BY <3>1, <3>2
  <2> QED
    BY <2>7, <2>8
<1> HIDE DEF Split
<1>9. bad = {}
  <2> SUFFICES ASSUME bad # {}
               PROVE  FALSE
    OBVIOUS
  <2>1. PICK j \in bad : \A k \in bad : j <= k
    <3>1. bad \in SUBSET Nat
      OBVIOUS
    <3> QED
      BY <3>1, LeastNat
  <2>2. j # 0
    BY <1>7, <2>1
  <2>3. j \in 1..n /\ j - 1 \in 0..n /\ j - 1 \notin bad
    BY <2>1, <2>2
  <2> QED
    BY <1>8, <2>1, <2>3
<1>10. Split(n)
  BY <1>9
<1>11. f[1] = P[c].before \o <<>> \o P[c].after
  <2>1. Above(n) = c
    BY <1>1, <1>2
  <2>2. f[1] = P[Above(n)].before \o f[n + 1] \o P[Above(n)].after
    BY <1>10 DEF Split
  <2> HIDE DEF Above
  <2> QED
    BY <1>5, <2>1, <2>2
<1>12. P[c].before \in Seq(Part)
  BY <1>3, InClass DEF Body
<1>13. P[c].before \o <<>> = P[c].before
  BY <1>12, ConcatEmptySeq
<1> QED
  BY <1>1, <1>3, <1>4, <1>11, <1>13


-----------------------------------------------------------------------------
(* The invariant and its steps.                                            *)

\* An object exists when the program runs: its slots and its body are right.
ObjectRight ==
    /\ obj.class \in 0..NClass
    /\ obj.class # 0 =>
          /\ stage = "run"
          /\ SlotsGood(prog, layout, obj.class, obj.slots)
          /\ obj.trace = PartsIn(prog)[obj.class].before \o PartsIn(prog)[obj.class].after

LayoutsInv == LayoutsRight(prog, Known(prog, stage, at), layout)

IInv == Types /\ NumbersInv /\ LayoutsInv /\ ObjectRight

LEMMA InitIInv == Init => IInv
<1> SUFFICES ASSUME Init
             PROVE  IInv
  OBVIOUS
<1>1. IsProgram(prog) /\ InOrder(prog) /\ stage = "blocks" /\ at = 0 /\ prog \in Program
  BY ProgramFacts DEF Init
<1>2. 0 \in 0..NClass
  BY ClassFacts
<1>3. Known(prog, stage, at) = {}
  BY <1>1, <1>2, KnownFacts
<1>4. NoNames \in Numbers
  <2>1. TableOK(NoNames)
    BY DEF NoNames, TableOK
  <2> QED
    BY <2>1, OKNumbers
<1>5. NoPrefix \in Layouts
  BY DEF NoPrefix, Layouts
<1>6. Types
  <2>1. vt \in [Class -> Numbers]
    BY <1>4, Zenon DEF Init
  <2>2. methods \in [Class -> [Method -> 0..NClass]]
    BY <1>2, Zenon DEF Init
  <2>3. layout \in [Class -> Layouts]
    BY <1>5, Zenon DEF Init
  <2>4. tables \in [Class -> Seq(0..NClass)]
    <3>1. <<>> \in Seq(0..NClass)
      OBVIOUS
    <3> QED
      BY <3>1, Zenon DEF Init
  <2>5. changed \in BOOLEAN /\ code.blocks \subseteq Block /\ stage \in Stage
    BY <1>1 DEF Init, Stage
  <2> QED
    BY <1>1, <1>2, <2>1, <2>2, <2>3, <2>4, <2>5 DEF Types
<1>7. NumbersInv
  <2>1. code.calls = {} /\ code.tests = {}
    BY DEF Init
  <2>2. MethodsRight(prog, {}, methods) /\ RootNumbers(prog, {}, vt)
    BY DEF MethodsRight, RootNumbers
  <2>3. Passed(stage, at, changed, prog, vt, methods) /\ stage # "run"
    BY <1>1 DEF Passed
  <2> QED
    BY <1>3, <2>1, <2>2, <2>3 DEF NumbersInv
<1>8. LayoutsInv
  BY <1>3 DEF LayoutsInv, LayoutsRight
<1>9. ObjectRight
  BY <1>2 DEF Init, NoObject, ObjectRight
<1> QED
  BY <1>6, <1>7, <1>8, <1>9 DEF IInv

\* While there is no object there is nothing to be right about it.
LEMMA NoObjectYet ==
    ASSUME IInv, stage # "run", obj' = obj
    PROVE  ObjectRight'
BY DEF IInv, ObjectRight

\* Passes leave layouts as they are.
LEMMA LayoutsStay ==
    ASSUME IInv, stage # "blocks", stage' # "blocks", prog' = prog, layout' = layout
    PROVE  LayoutsInv'
BY DEF IInv, LayoutsInv, Known

LEMMA DeclareStep ==
    ASSUME IInv, DeclareSkeleton
    PROVE  IInv'
<1>1. PICK D : D = Known(prog, stage, at)
  OBVIOUS
<1>2. PICK E : E = Known(prog', stage', at')
  OBVIOUS
<1>3. /\ stage = "blocks" /\ stage' = "blocks" /\ prog' = prog /\ changed' = changed
      /\ code' = code /\ tables' = tables /\ obj' = obj /\ at' \in 0..NClass
  <2>1. /\ stage = "blocks" /\ at < NClass /\ at' = at + 1
        /\ UNCHANGED <<prog, stage, changed, code, tables, obj>>
    BY DEF DeclareSkeleton
  <2>2. at \in 0..NClass
    BY DEF IInv, Types
  <2>3. at' \in 0..NClass
    BY <2>1, <2>2, ClassFacts
  <2> QED
    BY <2>1, <2>3
<1>4. D \subseteq E
  BY <1>1, <1>2, DeclareFacts DEF IInv
<1>5. /\ vt' \in [Class -> Numbers] /\ Steady(prog, D, vt, vt') /\ RootNumbers(prog', E, vt')
      /\ methods' \in [Class -> [Method -> 0..NClass]] /\ MethodsRight(prog', E, methods')
      /\ layout' \in [Class -> Layouts] /\ LayoutsRight(prog', E, layout')
  BY <1>1, <1>2, DeclareNumbers, DeclareMethods, DeclareLayout DEF IInv, LayoutsInv
<1>6. Types'
  BY <1>3, <1>5 DEF IInv, Types
<1>7. \A call \in code'.calls : CallRight(prog', E, vt', call)
  BY <1>1, <1>3, <1>4, <1>5, SteadyCalls DEF IInv, NumbersInv
<1>8. \A test \in code'.tests : TestRight(prog', test)
  BY <1>3 DEF IInv, NumbersInv
<1>9. Passed(stage', at', changed', prog', vt', methods') /\ stage' # "run"
  BY <1>3 DEF Passed
<1>10. NumbersInv'
  BY <1>2, <1>5, <1>7, <1>8, <1>9 DEF NumbersInv
<1>11. LayoutsInv'
  BY <1>2, <1>5 DEF LayoutsInv
<1>12. ObjectRight'
  BY <1>3, NoObjectYet
<1> QED
  BY <1>6, <1>10, <1>11, <1>12 DEF IInv

LEMMA GenerateStep ==
    ASSUME IInv, NEW b \in Block, GenerateBodies(b)
    PROVE  IInv'
<1>1. PICK D : D = Known(prog, stage, at)
  OBVIOUS
<1>2. /\ stage = "blocks" /\ stage' = stage /\ prog' = prog /\ at' = at
      /\ changed' = changed /\ vt' = vt /\ methods' = methods /\ layout' = layout
      /\ tables' = tables /\ obj' = obj
  BY DEF GenerateBodies
<1>3. PICK known : /\ known = (IF b = "outer" THEN Outer ELSE Class) /\ known \subseteq D
  <2>1. IsProgram(prog) /\ InOrder(prog) /\ at \in 0..NClass
    BY ProgramFacts DEF IInv, Types
  <2>2. D = Declared
    BY <1>1 DEF Known, Declared
  <2>3. b = "outer" => Outer \subseteq D
    BY <2>2 DEF GenerateBodies
  <2>4. b # "outer" => D = Class
    BY <1>1, <1>2, <2>1, KnownFacts DEF GenerateBodies
  <2> QED
    BY <2>3, <2>4
<1>4. code' = [blocks |-> code.blocks \cup {b},
               calls  |-> code.calls \cup UNION
                   {{BareName(c, m), BareCall(c, m), RemoteName(c, m),
                     RemoteCall(c, m)} : c \in known, m \in Method},
               tests  |-> code.tests \cup UNION
                   {{IsTest(c), InTest(c)} : c \in known}]
  BY <1>3 DEF GenerateBodies
<1>5. D \subseteq Class
  <2>1. InOrder(prog) /\ at \in 0..NClass
    BY ProgramFacts DEF IInv, Types
  <2> QED
    BY <1>1, <2>1, KnownClosed DEF Closed
<1>6. \A call \in code'.calls : CallRight(prog, D, vt, call)
  <2>1. \A c \in known, m \in Method :
           /\ CallRight(prog, D, vt, BareName(c, m))
           /\ CallRight(prog, D, vt, BareCall(c, m))
           /\ CallRight(prog, D, vt, RemoteName(c, m))
           /\ CallRight(prog, D, vt, RemoteCall(c, m))
    BY <1>1, <1>3, GeneratedCalls DEF IInv
  <2>2. \A call \in code.calls : CallRight(prog, D, vt, call)
    BY <1>1 DEF IInv, NumbersInv
  <2>3. \A call \in code'.calls : call \in code.calls \/
           \E c \in known, m \in Method :
              call \in {BareName(c, m), BareCall(c, m), RemoteName(c, m), RemoteCall(c, m)}
    BY <1>4
  <2> QED
    BY <2>1, <2>2, <2>3
<1>7. \A test \in code'.tests : TestRight(prog, test)
  <2>1. \A c \in known : TestRight(prog, IsTest(c)) /\ TestRight(prog, InTest(c))
    BY <1>3, <1>5, GeneratedTests DEF IInv
  <2>2. \A test \in code.tests : TestRight(prog, test)
    BY DEF IInv, NumbersInv
  <2>3. \A test \in code'.tests : test \in code.tests \/
           \E c \in known : test \in {IsTest(c), InTest(c)}
    BY <1>4
  <2> QED
    BY <2>1, <2>2, <2>3
<1>8. code'.blocks \subseteq Block
  <2>1. code'.blocks = code.blocks \cup {b}
    BY <1>4
  <2> QED
    BY <2>1 DEF IInv, Types
<1>9. Types'
  BY <1>2, <1>8 DEF IInv, Types
<1>10. NumbersInv'
  <2>1. /\ MethodsRight(prog, D, methods) /\ RootNumbers(prog, D, vt)
        /\ Passed(stage, at, changed, prog, vt, methods)
    BY <1>1 DEF IInv, NumbersInv
  <2> QED
    BY <1>1, <1>2, <1>6, <1>7, <2>1 DEF NumbersInv
<1>11. LayoutsInv'
  BY <1>2 DEF IInv, LayoutsInv
<1>12. ObjectRight'
  BY <1>2, NoObjectYet
<1> QED
  BY <1>9, <1>10, <1>11, <1>12 DEF IInv

LEMMA BeginStep ==
    ASSUME IInv, BeginTables
    PROVE  IInv'
<1>1. /\ stage = "blocks" /\ at = NClass /\ stage' = "inherit" /\ at' = 1
      /\ prog' = prog /\ changed' = changed /\ vt' = vt /\ methods' = methods
      /\ layout' = layout /\ code' = code /\ tables' = tables /\ obj' = obj
  BY DEF BeginTables
<1>2. Known(prog, stage, at) = Class
  <2>1. InOrder(prog) /\ at \in 0..NClass
    BY ProgramFacts DEF IInv, Types
  <2> QED
    BY <1>1, <2>1, KnownFacts
<1>3. Known(prog', stage', at') = Class
  BY <1>1 DEF Known
<1>4. at' \in Class /\ at' \in 0..NClass
  BY <1>1, ClassFacts DEF Class
<1>5. Types'
  BY <1>1, <1>4 DEF IInv, Types, Stage
<1>6. Passed(stage', at', changed', prog', vt', methods') /\ stage' # "run"
  BY <1>1 DEF Passed
<1>7. NumbersInv'
  BY <1>1, <1>2, <1>3, <1>6 DEF IInv, NumbersInv
<1>8. LayoutsInv'
  BY <1>1, <1>2, <1>3 DEF IInv, LayoutsInv
<1>9. ObjectRight'
  BY <1>1, NoObjectYet
<1> QED
  BY <1>5, <1>7, <1>8, <1>9 DEF IInv


LEMMA AdvanceType ==
    ASSUME NEW next, at \in Class, Advance(next)
    PROVE  at' \in Class /\ at' \in 0..NClass /\ (stage' = stage \/ stage' = next)
<1>1. CASE at < NClass
  BY <1>1, ClassFacts DEF Advance, Class
<1>2. CASE ~ (at < NClass)
  BY <1>2, ClassFacts DEF Advance, Class
<1> QED
  BY <1>1, <1>2

\* What a pass leaves of the invariant to prove.
LEMMA PassStep ==
    ASSUME IInv, stage # "blocks", stage' # "blocks", stage # "run", stage' # "run",
           stage' \in Stage, at' \in Class, at' \in 0..NClass, changed' \in BOOLEAN,
           Renumbered(prog, vt, vt'),
           UNCHANGED <<prog, methods, layout, code, tables, obj>>,
           Passed(stage', at', changed', prog', vt', methods')
    PROVE  IInv'
<1>1. InOrder(prog)
  BY ProgramFacts DEF IInv, Types
<1>2. Known(prog, stage, at) = Class /\ Known(prog', stage', at') = Class
  BY DEF Known
<1>3. /\ RootNumbers(prog, Class, vt) /\ MethodsRight(prog, Class, methods)
      /\ \A call \in code.calls : CallRight(prog, Class, vt, call)
      /\ \A test \in code.tests : TestRight(prog, test)
  BY <1>2 DEF IInv, NumbersInv
<1>4. /\ RootNumbers(prog, Class, vt')
      /\ \A call \in code.calls : CallRight(prog, Class, vt', call)
  <2>1. PICK w : w = vt'
    OBVIOUS
  <2>2. Renumbered(prog, vt, w)
    BY <2>1
  <2>3. /\ RootNumbers(prog, Class, w)
        /\ \A call : CallRight(prog, Class, vt, call) => CallRight(prog, Class, w, call)
    BY <1>1, <1>3, <2>2, RenumberedNumbers
  <2> QED
    BY <1>3, <2>1, <2>3
<1>5. NumbersInv'
  BY <1>2, <1>3, <1>4 DEF NumbersInv
<1>6. Types'
  BY DEF IInv, Types, Renumbered
<1>7. LayoutsInv'
  BY LayoutsStay
<1>8. ObjectRight'
  BY NoObjectYet
<1> QED
  BY <1>5, <1>6, <1>7, <1>8 DEF IInv

LEMMA InheritStep ==
    ASSUME IInv, InheritNames
    PROVE  IInv'
<1>1. /\ stage = "inherit" /\ Advance("propagate")
      /\ UNCHANGED <<prog, changed, methods, layout, code, tables, obj>>
  BY DEF InheritNames
<1>2. at \in Class /\ at \in Nat /\ changed \in BOOLEAN
  BY <1>1, InClass DEF IInv, Types
<1>3. /\ at' \in Class /\ at' \in 0..NClass
      /\ stage' = "inherit" \/ stage' = "propagate"
  BY <1>1, <1>2, AdvanceType
<1>4. /\ Renumbered(prog, vt, vt') /\ HasNames(at, vt', methods)
      /\ \A c \in Class : c # at => vt'[c] = vt[c]
  BY InheritRenumbers DEF IInv
<1>5. \A c \in 1..(at - 1) : c \in Class /\ HasNames(c, vt, methods)
  <2>1. \A c \in 1..(at - 1) : HasNames(c, vt, methods)
    BY <1>1 DEF IInv, NumbersInv, Passed
  <2> QED
    BY <1>2, <2>1, ClassFacts DEF Class
<1>6. \A c \in 1..at : HasNames(c, vt', methods)
  <2> SUFFICES ASSUME NEW c \in 1..at, c # at
               PROVE  HasNames(c, vt', methods)
    BY <1>4
  <2>1. c \in 1..(at - 1)
    BY <1>2
  <2> QED
    BY <1>4, <1>5, <2>1 DEF HasNames
<1>7. Passed(stage', at', changed', prog', vt', methods')
  <2>1. CASE at < NClass
    <3>1. stage' = "inherit" /\ at' - 1 = at
      BY <1>1, <1>2, <2>1 DEF Advance
    <3> QED
      BY <1>1, <1>6, <3>1 DEF Passed
  <2>2. CASE ~ (at < NClass)
    <3>1. stage' = "propagate" /\ at' = 1 /\ at = NClass
      BY <1>1, <1>2, <2>2, ClassFacts DEF Advance, Class
    <3>2. \A c \in Class : HasNames(c, vt', methods)
      BY <1>6, <3>1 DEF Class
    <3>3. \A c \in 1..(1 - 1) : FALSE
      OBVIOUS
    <3> QED
      BY <1>1, <3>1, <3>2, <3>3 DEF Passed
  <2> QED
    BY <2>1, <2>2
<1>8. /\ stage # "blocks" /\ stage' # "blocks" /\ stage # "run" /\ stage' # "run"
      /\ stage' \in Stage /\ changed' \in BOOLEAN
  BY <1>1, <1>2, <1>3 DEF Stage
<1>9. UNCHANGED <<prog, methods, layout, code, tables, obj>>
  BY <1>1
<1> QED
  BY <1>3, <1>4, <1>7, <1>8, <1>9, PassStep

LEMMA PropagateStep ==
    ASSUME IInv, PropagateNames
    PROVE  IInv'
<1>1. PICK grows \in BOOLEAN :
         /\ stage = "propagate"
         /\ changed' = ((changed \/ grows) /\ at < NClass)
         /\ Advance(IF changed \/ grows THEN "propagate" ELSE "adopt")
         /\ UNCHANGED <<prog, methods, layout, code, tables, obj>>
  BY DEF PropagateNames
<1>2. at \in Class /\ at \in Nat /\ changed \in BOOLEAN
  BY <1>1, InClass DEF IInv, Types
<1>3. /\ at' \in Class /\ at' \in 0..NClass
      /\ stage' = "propagate" \/ stage' = "adopt"
  BY <1>1, <1>2, AdvanceType
<1>4. /\ Renumbered(prog, vt, vt')
      /\ \A c \in Class : NamesIn(vt[c]) \subseteq NamesIn(vt'[c])
      /\ changed' = FALSE /\ at < NClass => vt' = vt /\ GoUp(at, prog, vt)
      /\ stage' = "adopt" => ~ changed /\ vt' = vt /\ GoUp(at, prog, vt)
  BY PropagateRenumbers DEF IInv
<1>5. \A c \in Class : HasNames(c, vt', methods)
  <2>1. \A c \in Class : HasNames(c, vt, methods)
    BY <1>1 DEF IInv, NumbersInv, Passed
  <2> QED
    BY <1>4, <2>1 DEF HasNames
<1>6. ASSUME ~ changed, vt' = vt, GoUp(at, prog, vt)
      PROVE  \A c \in 1..at : GoUp(c, prog, vt')
  <2>1. \A c \in 1..(at - 1) : GoUp(c, prog, vt)
    BY <1>1, <1>6 DEF IInv, NumbersInv, Passed
  <2>2. \A c \in 1..at : c = at \/ c \in 1..(at - 1)
    BY <1>2
  <2> QED
    BY <1>6, <2>1, <2>2
<1>7. Passed(stage', at', changed', prog', vt', methods')
  <2>1. CASE stage' = "propagate"
    <3>1. ASSUME ~ changed', at < NClass
          PROVE  \A c \in 1..(at' - 1) : GoUp(c, prog, vt')
      <4>1. at' - 1 = at /\ ~ changed /\ changed' = FALSE
        BY <1>1, <1>2, <3>1 DEF Advance
      <4> QED
        BY <1>4, <1>6, <3>1, <4>1
    <3>2. ASSUME ~ (at < NClass)
          PROVE  \A c \in 1..(at' - 1) : GoUp(c, prog, vt')
      <4>1. at' - 1 = 0
        BY <1>1, <3>2 DEF Advance
      <4> QED
        BY <4>1
    <3> QED
      BY <1>1, <1>5, <2>1, <3>1, <3>2 DEF Passed
  <2>2. CASE stage' = "adopt"
    <3>1. at = NClass
      <4>1. ~ (at < NClass)
        BY <1>1, <2>2 DEF Advance
      <4> QED
        BY <1>2, <4>1, ClassFacts DEF Class
    <3>2. \A c \in Class : GoUp(c, prog, vt')
      BY <1>4, <1>6, <2>2, <3>1 DEF Class
    <3> QED
      BY <1>1, <1>5, <2>2, <3>2 DEF Passed
  <2> QED
    BY <1>3, <2>1, <2>2
<1>8. /\ stage # "blocks" /\ stage' # "blocks" /\ stage # "run" /\ stage' # "run"
      /\ stage' \in Stage /\ changed' \in BOOLEAN
  BY <1>1, <1>2, <1>3 DEF Stage
<1>9. UNCHANGED <<prog, methods, layout, code, tables, obj>>
  BY <1>1
<1> QED
  BY <1>3, <1>4, <1>7, <1>8, <1>9, PassStep

LEMMA AdoptStep ==
    ASSUME IInv, AdoptNames
    PROVE  IInv'
<1>1. /\ stage = "adopt" /\ Advance("build")
      /\ UNCHANGED <<prog, changed, methods, layout, code, tables, obj>>
  BY DEF AdoptNames
<1>2. at \in Class /\ changed \in BOOLEAN
  BY <1>1 DEF IInv, Types
<1>3. at' \in Class /\ at' \in 0..NClass /\ (stage' = "adopt" \/ stage' = "build")
  BY <1>1, <1>2, AdvanceType
<1>4. /\ Renumbered(prog, vt, vt')
      /\ \A c \in Class : HasNames(c, vt', methods) /\ GoUp(c, prog, vt')
  BY AdoptRenumbers DEF IInv
<1>5. Passed(stage', at', changed', prog', vt', methods')
  BY <1>1, <1>3, <1>4 DEF Passed
<1>6. /\ stage # "blocks" /\ stage' # "blocks" /\ stage # "run" /\ stage' # "run"
      /\ stage' \in Stage /\ changed' \in BOOLEAN
  BY <1>1, <1>2, <1>3 DEF Stage
<1>7. UNCHANGED <<prog, methods, layout, code, tables, obj>>
  BY <1>1
<1> QED
  BY <1>3, <1>4, <1>5, <1>6, <1>7, PassStep


\* The table of a class has a function of the nearest class with one.
LEMMA TableFacts ==
    ASSUME Types, NEW d \in Class
    PROVE  TableOf(d) \in Seq(0..NClass) /\ TableRight(prog, vt, methods, TableOf(d), d)
<1>1. InOrder(prog) /\ IsProgram(prog)
  BY ProgramFacts DEF Types
<1>2. PICK order \in Seq(Method) : order = vt[d].order
  <2>1. vt[d] \in Numbers
    BY DEF Types
  <2> QED
    BY <2>1 DEF Numbers
<1>3. \A m \in Method : Search(d, m) \in 0..NClass
  <2> SUFFICES ASSUME NEW m \in Method
               PROVE  Search(d, m) \in 0..NClass
    OBVIOUS
  <2>1. [a \in Class |-> methods[a][m]] \in [Class -> 0..NClass]
    <3>1. \A a \in Class : methods[a][m] \in 0..NClass
      BY DEF Types
    <3> QED
      BY <3>1, Zenon
  <2>2. PICK has \in [Class -> 0..NClass] : has = [a \in Class |-> methods[a][m]]
    BY <2>1
  <2>3. NearestIn(prog.parent, has) \in [0..NClass -> 0..NClass]
    BY <1>1, NearestEquation
  <2>4. d \in 0..NClass
    BY InClass
  <2> QED
    BY <2>2, <2>3, <2>4 DEF Search
<1>4. PICK n \in Nat : n = Len(order) /\ DOMAIN order = 1..n
  OBVIOUS
<1>5. TableOf(d) = [i \in 1..n |-> Search(d, order[i])]
  BY <1>2, <1>4 DEF TableOf
<1>6. \A i \in 1..n : Search(d, order[i]) \in 0..NClass
  BY <1>3, <1>4
<1>7. TableOf(d) \in Seq(0..NClass)
  <2>1. [i \in 1..n |-> Search(d, order[i])] \in [1..n -> 0..NClass]
    BY <1>6, Zenon
  <2> QED
    BY <1>5, <2>1
<1>8. \A i \in 1..n : TableOf(d)[i] = Search(d, order[i])
  BY <1>5
<1>9. DOMAIN TableOf(d) = 1..n
  BY <1>5
<1> QED
  BY <1>2, <1>4, <1>7, <1>8, <1>9 DEF TableRight, Search

LEMMA BuildStep ==
    ASSUME IInv, BuildTables
    PROVE  IInv'
<1>1. /\ stage = "build" /\ stage' = "run" /\ tables' = [c \in Class |-> TableOf(c)]
      /\ prog' = prog /\ at' = at /\ changed' = changed /\ vt' = vt
      /\ methods' = methods /\ layout' = layout /\ code' = code /\ obj' = obj
  BY DEF BuildTables
<1>2. \A d \in Class : /\ TableOf(d) \in Seq(0..NClass)
                       /\ TableRight(prog, vt, methods, TableOf(d), d)
  BY TableFacts DEF IInv
<1>3. tables' \in [Class -> Seq(0..NClass)]
  BY <1>1, <1>2, Zenon
<1>4. Types'
  BY <1>1, <1>3 DEF IInv, Types, Stage
<1>5. Known(prog, stage, at) = Class /\ Known(prog', stage', at') = Class
  BY <1>1 DEF Known
<1>6. \A d \in Class : TableRight(prog', vt', methods', tables'[d], d)
  BY <1>1, <1>2
<1>7. Passed(stage', at', changed', prog', vt', methods')
  BY <1>1 DEF IInv, NumbersInv, Passed
<1>8. NumbersInv'
  BY <1>1, <1>5, <1>6, <1>7 DEF IInv, NumbersInv
<1>9. LayoutsInv'
  BY <1>1, <1>5 DEF IInv, LayoutsInv
<1>10. ObjectRight'
  BY <1>1, NoObjectYet
<1> QED
  BY <1>4, <1>8, <1>9, <1>10 DEF IInv

LEMMA NewStep ==
    ASSUME IInv, NEW c \in Class, New(c)
    PROVE  IInv'
<1>1. /\ stage = "run" /\ stage' = stage
      /\ obj' = [class |-> c, slots |-> Slots(c), trace |-> BodyOf(c)]
      /\ prog' = prog /\ at' = at /\ changed' = changed /\ vt' = vt /\ tables' = tables
      /\ methods' = methods /\ layout' = layout /\ code' = code
  BY DEF New
<1>2. IsProgram(prog) /\ layout \in [Class -> Layouts]
  BY ProgramFacts DEF IInv, Types
<1>3. LayoutsRight(prog, Class, layout)
  BY <1>1 DEF IInv, LayoutsInv, Known
<1>4. SlotsGood(prog, layout, c, Slots(c))
  BY <1>2, <1>3, SlotsRight
<1>5. obj'.class = c /\ obj'.slots = Slots(c) /\ obj'.trace = BodyOf(c)
  BY <1>1
<1>6. ObjectRight'
  <2>1. c \in 0..NClass
    BY InClass
  <2>2. SlotsGood(prog', layout', obj'.class, obj'.slots)
    BY <1>1, <1>4, <1>5
  <2>3. obj'.trace = PartsIn(prog')[obj'.class].before \o PartsIn(prog')[obj'.class].after
    BY <1>1, <1>5 DEF BodyOf
  <2> QED
    BY <1>1, <1>5, <2>1, <2>2, <2>3 DEF ObjectRight
<1>7. Types'
  BY <1>1 DEF IInv, Types
<1>8. NumbersInv'
  BY <1>1 DEF IInv, NumbersInv
<1>9. LayoutsInv'
  BY <1>1 DEF IInv, LayoutsInv
<1> QED
  BY <1>6, <1>7, <1>8, <1>9 DEF IInv

LEMMA StepIInv ==
    ASSUME IInv, [Next]_vars
    PROVE  IInv'
<1>1. CASE DeclareSkeleton
  BY <1>1, DeclareStep
<1>2. CASE \E b \in Block : GenerateBodies(b)
  BY <1>2, GenerateStep
<1>3. CASE BeginTables
  BY <1>3, BeginStep
<1>4. CASE InheritNames
  BY <1>4, InheritStep
<1>5. CASE PropagateNames
  BY <1>5, PropagateStep
<1>6. CASE AdoptNames
  BY <1>6, AdoptStep
<1>7. CASE BuildTables
  BY <1>7, BuildStep
<1>8. CASE \E c \in Class : New(c)
  BY <1>8, NewStep
<1>9. CASE UNCHANGED vars
  BY <1>9 DEF vars, IInv, Types, NumbersInv, LayoutsInv, ObjectRight
<1> QED
  BY <1>1, <1>2, <1>3, <1>4, <1>5, <1>6, <1>7, <1>8, <1>9 DEF Next

\* What the compiler has recorded, emitted and laid out is right at every step
\* of a compilation, and so is every object of the compiled program.
THEOREM Invariant == Spec => []IInv
<1>1. Init => IInv
  BY InitIInv
<1>2. IInv /\ [Next]_vars => IInv'
  BY StepIInv
<1> QED
  BY <1>1, <1>2, PTL DEF Spec

-----------------------------------------------------------------------------
(* What it implies.                                                        *)

\* No more numbers than names, however often the tables are extended.
LEMMA NumbersBound ==
    ASSUME NEW t \in Numbers
    PROVE  /\ ToSet(t.order) \subseteq Method
           /\ t.index \in [Method -> 0..NMethod]
           /\ \A m \in Method : {i \in DOMAIN t.order : t.order[i] = m}
                                   = (IF t.index[m] = 0 THEN {} ELSE {t.index[m]})
<1>1. TableOK(t)
  BY NumbersOK
<1>2. PICK order \in Seq(Method), index \in [Method -> Nat] :
        t.order = order /\ t.index = index
  BY <1>1 DEF TableOK
<1>3. PICK n \in Nat : n = Len(order) /\ DOMAIN order = 1..n
  OBVIOUS
<1>4. /\ \A m \in Method : index[m] # 0 => index[m] \in 1..n /\ order[index[m]] = m
      /\ \A i \in 1..n : index[order[i]] = i /\ order[i] \in Method
  BY <1>1, <1>2, <1>3 DEF TableOK
<1>5. n <= NMethod
  <2>1. order \in [1..n -> Method]
    BY <1>3, <1>4
  <2>2. \A i, j \in 1..n : order[i] = order[j] => i = j
    BY <1>4
  <2>3. order \in Injection(1..n, Method)
    BY <2>1, <2>2 DEF Injection, IsInjective
  <2>4. IsFiniteSet(Method) /\ Cardinality(Method) = NMethod
    BY ClassFacts, FS_Interval DEF Method
  <2>5. Cardinality(1..n) = n
    BY FS_Interval
  <2> QED
    BY <2>3, <2>4, <2>5, FS_Injection
<1>6. index \in [Method -> 0..NMethod]
  <2>1. \A m \in Method : index[m] \in 0..NMethod
    BY <1>4, <1>5, ClassFacts
  <2> QED
    BY <2>1
<1>7. \A m \in Method : {i \in 1..n : order[i] = m} = (IF index[m] = 0 THEN {} ELSE {index[m]})
  <2> SUFFICES ASSUME NEW m \in Method
               PROVE  \A i \in 1..n : order[i] = m <=> index[m] # 0 /\ i = index[m]
    BY <1>4
  <2> QED
    BY <1>4
<1>8. ToSet(order) \subseteq Method
  BY <1>3, <1>4 DEF ToSet
<1> QED
  BY <1>2, <1>3, <1>6, <1>7, <1>8

LEMMA SetOfSeq ==
    ASSUME NEW S, NEW t \in Seq(S)
    PROVE  ToSet(t) \subseteq S
<1>1. DOMAIN t = 1..Len(t) /\ \A i \in 1..Len(t) : t[i] \in S
  OBVIOUS
<1> QED
  BY <1>1 DEF ToSet

\* Orders hold names, numbers are at most as many as there are names, and table
\* entries are functions of classes or null.
THEOREM Typing == Spec => []TypeOK
<1>1. IInv => TypeOK
  <2> SUFFICES ASSUME IInv
               PROVE  TypeOK
    OBVIOUS
  <2>1. \A c \in Class : ToSet(vt[c].order) \subseteq Method /\ vt[c].index \in [Method -> 0..NMethod]
    BY NumbersBound DEF IInv, Types
  <2>2. \A c \in Class : ToSet(tables[c]) \subseteq 0..NClass
    <3>1. \A c \in Class : tables[c] \in Seq(0..NClass)
      BY DEF IInv, Types
    <3> QED
      BY <3>1, SetOfSeq, Zenon
  <2> QED
    BY <2>1, <2>2 DEF IInv, Types, ObjectRight, TypeOK
<1> QED
  BY <1>1, Invariant, PTL

\* buildAllVtables fills entry i of a table with the name at place i of the
\* order, and calls use the index of the name: the two never diverge, and no
\* name has two entries, however often and in whatever order the tables of a
\* hierarchy are extended, propagated and adopted.
THEOREM NumbersAreUnique == Spec => []IndexIsPosition
<1>1. IInv => IndexIsPosition
  <2> SUFFICES ASSUME IInv
               PROVE  IndexIsPosition
    OBVIOUS
  <2>1. \A c \in Class : vt[c] \in Numbers
    BY DEF IInv, Types
  <2> QED
    BY <2>1, NumbersBound DEF IndexIsPosition
<1> QED
  BY <1>1, Invariant, PTL


\* Calls of a procedure that is not virtual, and of one that the outermost
\* prefix specifies as virtual, reach the declaration that Simula means in every
\* object the qualification admits: the number in the code and the table, which
\* are made at different times, agree, and so do the searches up the chain.
THEOREM CallsReach == Spec => []RootVirtualsReachOverride
<1>1. IInv => RootVirtualsReachOverride
  <2> SUFFICES ASSUME IInv, stage = "run", NEW call \in code.calls,
                      \/ VirtualAtRoot(call.qual, call.method)
                      \/ ~ IsVirtualMethod(call.qual, call.method),
                      NEW d \in Class, call.qual \in PrefixSet(d), Intended(call, d) # 0
               PROVE  Reached(call, d) = Intended(call, d)
    BY DEF RootVirtualsReachOverride, CallReaches
  <2>1. PICK q : q = call.qual
    OBVIOUS
  <2>2. PICK m : m = call.method
    OBVIOUS
  <2>3. IsProgram(prog) /\ InOrder(prog) /\ Known(prog, stage, at) = Class
    BY ProgramFacts DEF IInv, Types, Known
  <2>4. /\ q \in Class /\ m \in Method
        /\ m \in prog.virt[RootIn(prog, q)] => call.index = vt[q].index[m]
        /\ m \notin Virtuals(prog, q) =>
              call.index = 0 /\ (Meant(prog, q, m) # 0 => call.target = Meant(prog, q, m))
    BY <2>1, <2>2, <2>3 DEF IInv, NumbersInv, CallRight
  <2>5. q \in PrefixesIn(prog, d)
    BY <2>1 DEF PrefixSet, Chain, PrefixesIn
  <2>6. IsVirtualMethod(q, m) <=> m \in Virtuals(prog, q)
    BY <2>4 DEF IsVirtualMethod, Virtuals, PrefixSet, Chain, PrefixesIn
  <2>7. Intended(call, d) = Meant(prog, IF IsVirtualMethod(q, m) THEN d ELSE q, m)
    BY <2>1, <2>2 DEF Intended, Nearest, Meant, Declares
  <2>8. CASE m \in prog.virt[RootIn(prog, q)]
    <3>1. Intended(call, d) = Meant(prog, d, m)
      <4>1. IsVirtualMethod(q, m)
        BY <2>3, <2>4, <2>6, <2>8, RootIsPrefix DEF Virtuals
      <4> QED
        BY <2>7, <4>1
    <3>2. RootIn(prog, q) = RootIn(prog, d)
      BY <2>3, <2>5, PrefixOfPrefix
    <3>3. vt[d].index[m] # 0 /\ vt[q].index[m] = vt[d].index[m]
      BY <2>3, <2>5, <2>8, <3>2 DEF IInv, NumbersInv, RootNumbers
    <3>4. PICK n : n = vt[d].index[m] /\ call.index = n /\ n # 0
      BY <2>4, <2>8, <3>3
    <3>5. n \in 1..Len(vt[d].order) /\ vt[d].order[n] = m
      <4>1. TableOK(vt[d])
        BY NumbersOK DEF IInv, Types
      <4> QED
        BY <2>4, <3>4, <4>1 DEF TableOK
    <3>6. TableRight(prog, vt, methods, tables[d], d)
      BY DEF IInv, NumbersInv
    <3>7. n \in DOMAIN tables[d]
      BY <3>5, <3>6 DEF TableRight
    <3>8. tables[d][n] = NearestIn(prog.parent, [a \in Class |-> methods[a][m]])[d]
      BY <3>5, <3>6 DEF TableRight
    <3>9. tables[d][n] = Meant(prog, d, m)
      <4>1. Closed(prog, Class) /\ MethodsRight(prog, Class, methods)
        BY <2>3, AllClosed DEF IInv, NumbersInv
      <4>2. methods \in [Class -> [Method -> 0..NClass]]
        BY DEF IInv, Types
      <4> QED
        BY <2>3, <2>4, <3>8, <4>1, <4>2, SearchIsMeant
    <3> QED
      BY <3>1, <3>4, <3>7, <3>9 DEF Reached
  <2>9. CASE m \notin prog.virt[RootIn(prog, q)]
    <3>1. ~ IsVirtualMethod(q, m)
      BY <2>1, <2>2, <2>9 DEF VirtualAtRoot, RootIn, Chain
    <3>2. Intended(call, d) = Meant(prog, q, m)
      BY <2>7, <3>1
    <3>3. call.index = 0 /\ call.target = Meant(prog, q, m)
      BY <2>4, <2>6, <3>1, <3>2
    <3> QED
      BY <3>2, <3>3 DEF Reached
  <2> QED
    BY <2>8, <2>9
<1> QED
  BY <1>1, Invariant, PTL

\* A class that IS, IN or QUA admits finds, at the offsets of its own struct,
\* the actuals that were meant for its parameters and the addresses it captured,
\* in an object of any class it prefixes.
THEOREM SlotsStay == Spec => []SlotsInPlace
<1>1. IInv => SlotsInPlace
  <2> SUFFICES ASSUME IInv, NEW test \in code.tests, obj.class \in test.ids
               PROVE  LET a == test.class IN
                      /\ \A k \in 1..prog.params[a] :
                           obj.slots[FieldSlot(a, <<a, k>>)] = <<"actual", ActualsAbove(a) + k>>
                      /\ layout[a].fields = layout[obj.class].fields =>
                           \A v \in ToSet(layout[a].captured) :
                               obj.slots[CapturedSlot(a, v)] = <<"address", v>>
    BY DEF SlotsInPlace
  <2>1. obj.class \in Class /\ test.class \in PrefixesIn(prog, obj.class)
    BY DEF IInv, NumbersInv, TestRight
  <2>2. SlotsGood(prog, layout, obj.class, obj.slots)
    BY <2>1, InClass DEF IInv, ObjectRight
  <2> QED
    BY <2>1, <2>2 DEF SlotsGood, FieldSlot, CapturedSlot, ActualsAbove
<1> QED
  BY <1>1, Invariant, PTL

\* The body of a class is that of its prefix with its own statements in place of
\* INNER, through any number of prefixes and wherever INNER is missing.
THEOREM Nesting == Spec => []BodiesNest
<1>1. IInv => BodiesNest
  <2> SUFFICES ASSUME IInv, obj.class # 0
               PROVE  obj.trace = NestingIn(prog, Chain(obj.class))[1]
    BY DEF BodiesNest
  <2>1. obj.class \in Class /\ IsProgram(prog)
    BY ProgramFacts, InClass DEF IInv, Types, ObjectRight
  <2> QED
    BY <2>1, BodiesRight DEF IInv, ObjectRight, Chain
<1> QED
  BY <1>1, Invariant, PTL

=============================================================================
