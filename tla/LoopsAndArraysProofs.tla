------------------------ MODULE LoopsAndArraysProofs ------------------------
(***************************************************************************)
(* Proofs about two pieces of generated code that have no state in common. *)
(*                                                                         *)
(* Loops: the code of a FOR statement implements the expansion of the      *)
(* Simula definition, for every statement of the class AsExpanded, any     *)
(* bounds on numbers and any length of the list.  The two copies of a NAME *)
(* parameter are the difficulty: the loop tests and increases the slot,    *)
(* the program reads the actual parameter.  They differ before the first   *)
(* assignment only.                                                        *)
(*                                                                         *)
(* Arrays: along every supported way of an array the code of an index      *)
(* addresses the element that was declared, for any bounds, any number of  *)
(* dimensions and any number of steps.  ArrayInv says what the compiler    *)
(* must know for that, and where it may stand: in ArrayInfo or in a slot.  *)
(***************************************************************************)
EXTENDS Loops, Arrays, WellFoundedInduction, TLAPS

-----------------------------------------------------------------------------
(***************************************************************************)
(* Loops: the invariant.                                                   *)
(***************************************************************************)

AllAsExpanded == \A p \in Program : AsExpanded(p)

IInv ==
    /\ program \in Program
    /\ at \in {"element", "test", "body", "increase", "done"}
    /\ el \in Nat
    /\ at # "done" => el \in DOMAIN program.elements
    /\ at = "test" => Element.kind \in {"while", "step"}
    /\ at = "increase" => Element.kind = "step"
    /\ slot \in Number(program.type)
    /\ program.byName => actual \in Number(program.type)
    /\ program.byName /\ at \in {"test", "body", "increase"} => slot = actual
    /\ other \in Others
    /\ stepRaw \in Int

-----------------------------------------------------------------------------
(* Numbers.                                                                *)

LEMMA Bounds == MaxInt \in Nat /\ MaxReal \in Nat /\ MaxOther \in 0..MaxInt
BY BoundsAssumption

LEMMA ModDef ==
    ASSUME NEW a \in Int, NEW d \in Nat, d > 0
    PROVE  a % d \in 0..d - 1 /\ a \div d \in Int /\ a % d = a - d * (a \div d)
OBVIOUS

LEMMA ModSmall ==
    ASSUME NEW d \in Nat, d > 0, NEW a \in 0..2 * d - 1
    PROVE  a % d = IF a < d THEN a ELSE a - d
<1>1. CASE a < d
  BY <1>1
<1>2. CASE a >= d
  <2>1. a % d \in 0..d - 1 /\ a \div d \in Int /\ a % d = a - d * (a \div d)
    BY ModDef
  <2>2. a \div d > 0
    BY <1>2, <2>1
  <2>3. a \div d < 2
    BY <2>1
  <2>4. a \div d = 1
    BY <2>1, <2>2, <2>3
  <2> QED
    BY <1>2, <2>1, <2>4
<1> QED
  BY <1>1, <1>2

\* 64 bit addition keeps what is in range, gives an INTEGER in any case, and
\* zero for nothing that is at most twice the largest number.
LEMMA WrapProperties ==
    ASSUME NEW k \in Int
    PROVE  /\ Wrap(2 * k) \in Whole
           /\ k \in -(MaxInt + 1)..MaxInt => Wrap(2 * k) = 2 * k
           /\ k \in 1..2 * MaxInt => Wrap(2 * k) # 0
<1>1. PICK m \in Nat : m = MaxInt + 1 /\ m > 0
  BY Bounds
<1>2. PICK d \in Nat : d = 4 * m /\ d > 0
  BY <1>1
<1>3. PICK h \in Int : h = 2 * k + 2 * m
  BY <1>1
<1>4. Wrap(2 * k) = (h % d) - 2 * m
  BY <1>1, <1>2, <1>3, Bounds DEF Wrap
<1>5. Wrap(2 * k) \in Whole
  <2>1. /\ h % d \in 0..d - 1
        /\ h % d = h - d * (h \div d)
        /\ h \div d \in Int
    BY <1>2, <1>3, ModDef
  <2>2. PICK q \in Int : q = m * (h \div d)
    BY <1>1, <2>1
  <2>3. d * (h \div d) = 4 * q
    BY <1>1, <1>2, <2>1, <2>2
  <2>4. h % d = 2 * (k + m - 2 * q)
    BY <1>1, <1>3, <2>1, <2>3
  <2>5. k - 2 * q \in -m..m - 1
    BY <1>1, <1>2, <2>1, <2>4
  <2>6. Wrap(2 * k) = 2 * (k - 2 * q)
    BY <1>1, <1>4, <2>4
  <2>7. k - 2 * q \in -(MaxInt + 1)..MaxInt
    BY <1>1, <2>5, Bounds
  <2> HIDE DEF Wrap
  <2> QED
    BY <2>6, <2>7 DEF Whole
<1>6. ASSUME k \in -m..m - 1 PROVE Wrap(2 * k) = 2 * k
  <2>1. h \in 0..d - 1
    BY <1>1, <1>2, <1>3, <1>6
  <2>2. h % d = h
    BY <1>2, <2>1
  <2> QED
    BY <1>1, <1>3, <1>4, <2>2
<1>7. ASSUME k \in 1..2 * m - 1 PROVE Wrap(2 * k) # 0
  <2>1. h \in 0..2 * d - 1
    BY <1>1, <1>2, <1>3, <1>7
  <2>2. h % d = IF h < d THEN h ELSE h - d
    BY <1>2, <2>1, ModSmall
  <2> QED
    BY <1>1, <1>2, <1>3, <1>4, <1>7, <2>2
<1> QED
  BY <1>1, <1>5, <1>6, <1>7, Bounds

LEMMA NumberIsInt ==
    /\ Whole \subseteq Int
    /\ Others \subseteq Whole
    /\ \A type \in Type : Number(type) \subseteq Int
    /\ Number("INTEGER") = Whole
BY Bounds DEF Whole, Others, Type, Number

\* An assignment converts to the type of the variable, and does nothing to a
\* number of that type.
LEMMA ConvertProperties ==
    ASSUME NEW type \in Type, NEW h \in Int
    PROVE  /\ Convert(h, type) \in Int
           /\ type = "REAL" => Convert(h, type) = h
           /\ type = "INTEGER" => \E j \in Int : Convert(h, type) = 2 * j
           /\ h \in Whole => Convert(h, type) = h
           /\ h \in Number(type) => Convert(h, type) = h
<1>1. ASSUME h \in Whole PROVE Round(h) = h
  <2>1. PICK k \in Int : h = 2 * k
    BY <1>1, Bounds DEF Whole
  <2> QED
    BY <2>1 DEF Round
<1>2. (h + 1) \div 2 \in Int
  OBVIOUS
<1>3. Round(h) = 2 * ((h + 1) \div 2)
  BY DEF Round
<1>4. CASE type = "REAL"
  BY <1>4 DEF Convert
<1>5. CASE type = "INTEGER"
  <2>1. Convert(h, type) = Round(h)
    BY <1>5 DEF Convert
  <2> QED
    BY <1>1, <1>2, <1>3, <1>5, <2>1, NumberIsInt
<1> QED
  BY <1>4, <1>5 DEF Type

\* Expressions of type INTEGER have INTEGER values.
LEMMA ValueType ==
    ASSUME NEW p \in Statement, NEW e \in Expression,
           NEW control \in Number(p.type), NEW o \in Others
    PROVE  /\ ValueOf(p, e, control, o) \in Int
           /\ TypeOf(p, e) = "INTEGER" => ValueOf(p, e, control, o) \in Whole
           /\ TypeOf(p, e) \in Type
<1> DEFINE base == CASE e.reads = "control" -> control [] e.reads = "other" -> o [] OTHER -> 0
<1>1. p.type \in Type /\ e.plus \in Int /\ e.reads \in {"none", "control", "other"}
  BY DEF Statement, Expression
<1>2. base \in Int
  BY <1>1, NumberIsInt
<1>3. ValueOf(p, e, control, o) = Plus(TypeOf(p, e), base, e.plus)
  BY DEF ValueOf
<1>4. TypeOf(p, e) \in Type
  BY DEF TypeOf, Type
<1>5. CASE TypeOf(p, e) = "REAL"
  <2> HIDE DEF base
  <2>1. ValueOf(p, e, control, o) = base + e.plus
    BY <1>3, <1>5 DEF Plus
  <2> QED
    BY <1>1, <1>2, <1>5, <2>1 DEF Type
<1>6. CASE TypeOf(p, e) = "INTEGER"
  <2>1. ~e.real /\ (e.reads = "control" => p.type = "INTEGER")
    BY <1>1, <1>6 DEF TypeOf, Type
  <2>2. e.plus \in Whole
    BY <2>1 DEF Expression
  <2>3. base \in Whole \cup {0}
    BY <1>1, <2>1, NumberIsInt
  <2>4. PICK j \in Int : e.plus = 2 * j
    BY <2>2, Bounds DEF Whole
  <2>5. PICK k \in Int : base = 2 * k
    BY <2>3, Bounds DEF Whole
  <2> HIDE DEF base
  <2>6. base + e.plus = 2 * (k + j) /\ k + j \in Int
    BY <2>4, <2>5
  <2>7. ValueOf(p, e, control, o) = Wrap(2 * (k + j))
    BY <1>3, <1>6, <2>6 DEF Plus
  <2> QED
    BY <1>6, <2>6, <2>7, WrapProperties, NumberIsInt DEF Type
<1> QED
  BY <1>4, <1>5, <1>6 DEF Type

-----------------------------------------------------------------------------
(* The states of the code.                                                 *)

LEMMA Typed ==
    ASSUME AllAsExpanded, IInv
    PROVE  /\ program \in Statement
           /\ program.type \in Type
           /\ AsExpanded(program)
           /\ program.byName => program.actualType = program.type
           /\ program.byName => program.body.target # "actual"
           /\ Control \in Number(program.type)
           /\ at \in {"test", "body", "increase"} => slot = Control
           /\ at # "done" => Element \in ForElement
           /\ program.body.assign \in Expression
<1>1. program \in Program /\ program \in Statement /\ AsExpanded(program)
  BY BoundsAssumption DEF IInv, AllAsExpanded
<1>2. /\ program.type \in Type /\ program.body.assign \in Expression
      /\ program.elements \in Seq(ForElement)
  BY <1>1 DEF Statement
<1>3. at # "done" => Element \in ForElement
  BY <1>2 DEF IInv, Element
<1>4. program.byName => program.actualType = program.type /\ program.body.target # "actual"
  BY <1>1 DEF AsExpanded, NameIsKept
<1>5. program.byName => Control = actual
  BY <1>2, ConvertProperties, NumberIsInt DEF Control, IInv
<1> QED
  BY <1>1, <1>2, <1>3, <1>4, <1>5 DEF Control, IInv

LEMMA Values ==
    ASSUME AllAsExpanded, IInv, NEW e \in Expression
    PROVE  /\ Value(e) \in Int
           /\ TypeOf(program, e) = "INTEGER" => Value(e) \in Whole
           /\ TypeOf(program, e) \in Type
           /\ Expansion!Value(e) = Value(e)
<1>1. Expansion!Value(e) = Value(e)
  BY DEF Value, Expansion!Value, ValueOf, Expansion!ValueOf, Plus, Expansion!Plus,
         TypeOf, Expansion!TypeOf, Wrap, Expansion!Wrap
<1> QED
  BY <1>1, Typed, ValueType DEF Value, IInv

\* Assigning to the controlled variable tells the actual parameter.
LEMMA StoreProperties ==
    ASSUME AllAsExpanded, IInv, UNCHANGED program,
           NEW n \in Number(program.type), Store(n)
    PROVE  Control' = n /\ slot' = n /\ (program.byName => actual' = n)
<1>1. Convert(n, program.type) = n
  BY Typed, ConvertProperties, NumberIsInt
<1> QED
  BY <1>1, Typed DEF Store, Control

\* Evaluating expressions leaves the controlled variable alone.
LEMMA RefreshedProperties ==
    ASSUME AllAsExpanded, IInv, UNCHANGED <<program, actual>>, NEW es,
           slot' = Refreshed(es), at \in {"test", "body"}
    PROVE  slot' = slot /\ Control' = Control
BY Typed DEF Refreshed, Control

\* Where control goes next.
LEMMA Successor ==
    ASSUME AllAsExpanded, IInv, at # "done", el' = el + 1, at' = After(program, el),
           UNCHANGED program
    PROVE  /\ at' \in {"element", "done"} /\ el' \in Nat
           /\ at' # "done" => el' \in DOMAIN program'.elements
<1>1. /\ program.elements \in Seq(ForElement) /\ el \in 1..Len(program.elements)
      /\ DOMAIN program.elements = 1..Len(program.elements)
  BY Typed DEF Statement, IInv
<1> QED
  BY <1>1 DEF After, Last

-----------------------------------------------------------------------------
(* Each step of the code is a step of the expansion.                       *)

LEMMA InitRefines ==
    ASSUME AllAsExpanded, Init
    PROVE  IInv /\ Expansion!Init
<1>1. program \in Statement /\ AsExpanded(program)
  BY BoundsAssumption DEF Init, AllAsExpanded
<1>2. program.elements \in Seq(ForElement) \ {<<>>} /\ program.type \in Type
  BY <1>1 DEF Statement
<1>3. 1 \in DOMAIN program.elements
  BY <1>2
<1>4. program.byName => actual \in Before \cap Number(program.type)
  BY <1>1 DEF Init, AsExpanded, NameIsKept
<1>5. IInv
  BY <1>3, <1>4 DEF Init, IInv
<1>6. Control \in Before \cap Number(program.type)
  BY <1>2, <1>4, ConvertProperties, NumberIsInt DEF Init, Control
<1> QED
  BY <1>5, <1>6 DEF Init, Expansion!Init, Others, Expansion!Others, Number,
     Expansion!Number, Whole, Expansion!Whole

LEMMA AssignRefines ==
    ASSUME AllAsExpanded, IInv, Assign
    PROVE  IInv' /\ Expansion!Assign
<1> DEFINE e == Element.value
<1>1. /\ Element \in ForElement /\ e \in Expression /\ el \in DOMAIN program.elements
      /\ at = "element"
  BY Typed DEF Assign, ForElement, IInv
<1>2. PICK n \in Stored(e) : n \in Number(program.type) /\ Store(n)
  BY DEF Assign
<1>3. Control' = n /\ slot' = n /\ (program.byName => actual' = n)
  BY <1>2, StoreProperties DEF Assign
<1>4. n = Convert(Value(e), program.type)
  <2>1. CASE Lowering(program) # "ForListStatement"
    BY <1>2, <2>1 DEF Stored, Coerce
  <2>2. CASE Lowering(program) = "ForListStatement"
    <3>1. TypeOf(program, e) = program.type
      BY <1>1, <2>2, Typed DEF AsExpanded, ListedAsIs, Element
    <3>2. n = Value(e)
      BY <1>2, <2>2, <3>1 DEF Stored
    <3>3. Convert(Value(e), program.type) = Value(e)
      BY <1>1, <3>1, Typed, Values, ConvertProperties DEF Type
    <3> QED
      BY <3>2, <3>3
  <2> QED
    BY <2>1, <2>2
<1>5. Expansion!Assign
  BY <1>1, <1>3, <1>4, Values DEF Assign, Expansion!Assign, Expansion!Convert, Convert,
     Expansion!Round, Round, Expansion!Element, Element
<1>6. IInv'
  <2>1. at' \in {"body", "test"} /\ (at' = "test" => Element'.kind \in {"while", "step"})
    BY <1>1 DEF Assign, ForElement, Element
  <2> QED
    BY <1>1, <1>2, <1>3, <2>1 DEF Assign, IInv
<1> QED
  BY <1>5, <1>6

LEMMA TestWhileRefines ==
    ASSUME AllAsExpanded, IInv, TestWhile
    PROVE  IInv' /\ Expansion!Test
<1>1. Element \in ForElement /\ Element.limit \in Expression /\ at = "test"
  BY Typed DEF TestWhile, ForElement
<1>2. slot' = slot /\ Control' = Control
  BY <1>1, RefreshedProperties DEF TestWhile
<1>3. \/ at' = "body" /\ UNCHANGED el
      \/ at' = After(program, el) /\ el' = el + 1
  BY DEF TestWhile, Branch
<1>4. Expansion!Test
  BY <1>1, <1>2, Values DEF TestWhile, Branch, Expansion!Test, Expansion!Goto,
     Expansion!Element, Element, Expansion!After, After, Expansion!Last, Last
<1>5. IInv'
  BY <1>1, <1>2, <1>3, Successor DEF TestWhile, IInv
<1> QED
  BY <1>4, <1>5

\* The sign of the step decides which way the limit is compared.
LEMMA SignProperties ==
    ASSUME NEW n \in Int, NEW limit \in Int, NEW step \in Int, step # 0
    PROVE  Continues(n, limit, step) <=> (n - limit) * Expansion!Sign(step) <= 0
BY DEF Continues, Expansion!Sign

LEMMA StepNotZero ==
    ASSUME AllAsExpanded, IInv, at = "test", Element.kind = "step"
    PROVE  Value(Element.step) # 0
<1> DEFINE s == Element.step
<1>1. /\ s \in Expression /\ s.plus \in Int /\ s.reads \in {"none", "other"}
      /\ 0 \notin IF s.reads = "other" THEN {s.plus + o : o \in Others} ELSE {s.plus}
  BY Typed DEF AsExpanded, StepIsNotZero, ForElement, Expression, IInv, Element
<1>2. PICK base \in Others : /\ base + s.plus # 0
                             /\ Value(s) = Plus(TypeOf(program, s), base, s.plus)
  <2>1. CASE s.reads = "other"
    BY <1>1, <2>1, NumberIsInt DEF Value, ValueOf, IInv
  <2>2. CASE s.reads = "none"
    <3>1. 0 \in Others
      BY Bounds DEF Others
    <3> QED
      BY <1>1, <2>2, <3>1 DEF Value, ValueOf
  <2> QED
    BY <1>1, <2>1, <2>2
<1>3. CASE TypeOf(program, s) = "REAL"
  BY <1>1, <1>2, <1>3, NumberIsInt DEF Plus
<1>4. CASE TypeOf(program, s) = "INTEGER"
  <2>1. s.plus \in Whole
    BY <1>1, <1>4 DEF TypeOf, Expression
  <2>2. PICK j \in -(MaxInt + 1)..MaxInt : s.plus = 2 * j
    BY <2>1 DEF Whole
  <2>3. PICK k \in 0..MaxOther : base = 2 * k
    BY DEF Others
  <2>4. base + s.plus = 2 * (k + j) /\ k + j \in Int /\ k + j # 0
    BY <1>2, <2>2, <2>3, Bounds
  <2>5. Value(s) = Wrap(2 * (k + j))
    BY <1>2, <1>4, <2>4 DEF Plus
  <2>6. CASE k + j \in -(MaxInt + 1)..MaxInt
    BY <2>4, <2>5, <2>6, WrapProperties
  <2>7. CASE k + j \in 1..2 * MaxInt
    BY <2>4, <2>5, <2>7, WrapProperties
  <2>8. k + j \in -(MaxInt + 1)..MaxInt \/ k + j \in 1..2 * MaxInt
    BY <2>2, <2>3, Bounds
  <2> QED
    BY <2>6, <2>7, <2>8
<1> QED
  BY <1>1, <1>3, <1>4, Values DEF Type

\* The conversion of step and limit in lists of ranges changes nothing.
LEMMA RangeAsTested ==
    ASSUME AllAsExpanded, IInv, at = "test", Element.kind = "step",
           Lowering(program) = "ForMultiRangeStatement",
           NEW e \in {Element.step, Element.limit}
    PROVE  Coerce(Value(e)) = Value(e)
<1>1. e \in Expression
  BY Typed DEF ForElement
<1>2. CASE program.type = "REAL"
  BY <1>1, <1>2, Values, ConvertProperties DEF Coerce, Type
<1>3. CASE program.type = "INTEGER"
  <2>1. ~e.real
    BY <1>3, Typed DEF AsExpanded, RangesAsTyped, IInv, Element
  <2>2. TypeOf(program, e) = "INTEGER"
    BY <1>3, <2>1 DEF TypeOf
  <2> QED
    BY <1>1, <1>3, <2>2, Values, ConvertProperties DEF Coerce, Type
<1> QED
  BY <1>2, <1>3, Typed DEF Type

LEMMA TestStepRefines ==
    ASSUME AllAsExpanded, IInv, TestStep
    PROVE  IInv' /\ Expansion!Test
<1> DEFINE step  == Value(Element.step)
           limit == Value(Element.limit)
<1>1. /\ Element \in ForElement /\ Element.limit \in Expression /\ Element.step \in Expression
      /\ at = "test" /\ Element.kind = "step"
  BY Typed DEF TestStep, ForElement
<1>2. /\ stepRaw' = step /\ Branch(Continues(slot, limit, step))
      /\ slot' = Refreshed({Element.step, Element.limit})
      /\ UNCHANGED <<program, actual, other>>
  BY <1>1, RangeAsTested DEF TestStep
<1>3. step \in Int /\ limit \in Int /\ step # 0
  BY <1>1, Values, StepNotZero
<1>4. slot' = slot /\ Control' = Control /\ slot = Control /\ Control \in Int
  BY <1>1, <1>2, RefreshedProperties, Typed, NumberIsInt
<1>5. Continues(slot, limit, step) <=> (Control - limit) * Expansion!Sign(step) <= 0
  BY <1>3, <1>4, SignProperties
<1>6. \/ at' = "body" /\ UNCHANGED el
      \/ at' = After(program, el) /\ el' = el + 1
  BY <1>2 DEF Branch
<1>7. IInv'
  BY <1>1, <1>2, <1>3, <1>4, <1>6, Successor DEF IInv
<1>8. Expansion!Element = Element
  BY DEF Expansion!Element, Element
<1>9. Expansion!Value(Element.step) = step /\ Expansion!Value(Element.limit) = limit
  BY <1>1, Values
<1> HIDE DEF step, limit
<1>10. Expansion!Goto("body", (Control - limit) * Expansion!Sign(stepRaw') <= 0)
  BY <1>2, <1>5 DEF Branch, Expansion!Goto, Expansion!After, After, Expansion!Last, Last
<1>11. Expansion!Test
  BY <1>1, <1>2, <1>4, <1>8, <1>9, <1>10 DEF Expansion!Test
<1> QED
  BY <1>7, <1>11

LEMMA BodyRefines ==
    ASSUME AllAsExpanded, IInv, Body
    PROVE  IInv' /\ Expansion!Body
<1> DEFINE n == Value(program.body.assign)
           target == program.body.target
<1>1. /\ Element \in ForElement /\ at = "body" /\ n \in Int /\ UNCHANGED <<program, stepRaw>>
      /\ target \in {"none", "control", "actual", "other"}
      /\ program.type \in Type
      /\ Expansion!Value(program.body.assign) = n
  BY Typed, Values DEF Body, Statement
<1>2. /\ at' = Back(program, el)
      /\ el' = IF Element.kind = "value" THEN el + 1 ELSE el
  BY DEF Body
<1>3. /\ at' \in {"element", "increase", "done"} /\ el' \in Nat
      /\ at' # "done" => el' \in DOMAIN program'.elements
      /\ at' = "increase" => Element'.kind = "step"
  <2>1. CASE Element.kind = "value"
    <3>1. at' = After(program, el)
      BY <1>2, <2>1 DEF Back, Element
    <3> QED
      BY <1>1, <1>2, <2>1, <3>1, Successor
  <2>2. CASE Element.kind \in {"while", "step"}
    <3>1. at' = IF Element.kind = "while" THEN "element" ELSE "increase"
      BY <1>2, <2>2 DEF Back, Element
    <3>2. el' = el /\ Element' = Element
      BY <1>1, <1>2, <2>2 DEF Element
    <3> QED
      BY <1>1, <2>2, <3>1, <3>2 DEF IInv
  <2> QED
    BY <1>1, <2>1, <2>2 DEF ForElement
<1>4. CASE target = "control"
  <2>1. Coerce(n) \in Number(program.type) /\ Store(Coerce(n)) /\ UNCHANGED other
    BY <1>4 DEF Body
  <2>2. /\ Control' = Coerce(n) /\ slot' = Coerce(n)
        /\ program.byName => actual' = Coerce(n)
    BY <1>1, <2>1, StoreProperties
  <2>3. IInv'
    BY <1>1, <1>3, <2>1, <2>2 DEF IInv
  <2>4. Expansion!Body
    BY <1>1, <1>2, <1>4, <2>1, <2>2 DEF Expansion!Body, Expansion!Back, Back,
       Expansion!After, After, Expansion!Last, Last, Expansion!Element, Element,
       Coerce, Expansion!Convert, Convert, Expansion!Round, Round
  <2> QED
    BY <2>3, <2>4
<1>5. CASE target = "actual"
  <2>1. ~program.byName
    BY <1>5, Typed
  <2>2. slot' = slot /\ UNCHANGED other
    BY <1>5, <2>1 DEF Body, Refreshed, Control
  <2>3. Control' = Control
    BY <1>1, <2>1, <2>2 DEF Control
  <2>4. IInv'
    BY <1>1, <1>3, <2>1, <2>2 DEF IInv
  <2>5. Expansion!Body
    BY <1>1, <1>2, <1>5, <2>2, <2>3 DEF Expansion!Body, Expansion!Back, Back,
       Expansion!After, After, Expansion!Last, Last, Expansion!Element, Element
  <2> QED
    BY <2>4, <2>5
<1>6. CASE target = "other"
  <2>1. /\ other' = Assigned(other, n) /\ UNCHANGED actual
        /\ slot' = Refreshed({program.body.assign})
    BY <1>6 DEF Body
  <2>2. slot' = slot /\ Control' = Control
    BY <1>1, <2>1, RefreshedProperties
  <2>3. other' \in Others
    BY <2>1 DEF Assigned, IInv
  <2>4. IInv'
    BY <1>1, <1>3, <2>1, <2>2, <2>3 DEF IInv
  <2>5. Expansion!Body
    BY <1>1, <1>2, <1>6, <2>1, <2>2 DEF Expansion!Body, Expansion!Back, Back,
       Expansion!After, After, Expansion!Last, Last, Expansion!Element, Element,
       Assigned, Expansion!Assigned, Expansion!Others, Others, Expansion!Round, Round
  <2> QED
    BY <2>4, <2>5
<1>7. CASE target = "none"
  <2>1. UNCHANGED <<slot, actual, other>>
    BY <1>7 DEF Body
  <2>2. Control' = Control
    BY <1>1, <2>1 DEF Control
  <2>3. IInv'
    BY <1>1, <1>3, <2>1 DEF IInv
  <2>4. Expansion!Body
    BY <1>1, <1>2, <1>7, <2>1, <2>2 DEF Expansion!Body, Expansion!Back, Back,
       Expansion!After, After, Expansion!Last, Last, Expansion!Element, Element
  <2> QED
    BY <2>3, <2>4
<1> QED
  BY <1>1, <1>4, <1>5, <1>6, <1>7

\* An increment that wraps around gives some INTEGER, which is all the expansion
\* says of it.
LEMMA IncreaseRefines ==
    ASSUME AllAsExpanded, IInv, Increase
    PROVE  IInv' /\ Expansion!Increase
<1> DEFINE next == Plus(program.type, slot, Coerce(stepRaw))
           sum  == Convert(Control + stepRaw, program.type)
<1>1. /\ at = "increase" /\ next \in Number(program.type) /\ Store(next) /\ at' = "test"
      /\ UNCHANGED <<program, el, other, stepRaw>>
      /\ Element.kind = "step"
  BY DEF Increase, IInv
<1>2. Control' = next /\ slot' = next /\ (program.byName => actual' = next)
  BY <1>1, StoreProperties
<1>3. IInv'
  BY <1>1, <1>2 DEF IInv, Element
<1>4. slot = Control /\ Control \in Number(program.type) /\ stepRaw \in Int
  BY <1>1, Typed DEF IInv
<1>5. IF program.type = "INTEGER" /\ sum \notin Whole THEN next \in Whole ELSE next = sum
  <2>1. CASE program.type = "REAL"
    BY <1>4, <2>1 DEF Plus, Coerce, Convert
  <2>2. CASE program.type = "INTEGER"
    <3>1. PICK k \in Int : slot = 2 * k
      BY <1>4, <2>2, Bounds DEF Number, Whole
    <3>2. PICK j \in Int : j = (stepRaw + 1) \div 2
      BY <1>4
    <3>3. (2 * k + stepRaw + 1) \div 2 = k + j
      BY <1>4, <3>1, <3>2
    <3>4. sum = 2 * (k + j)
      BY <1>4, <2>2, <3>1, <3>3 DEF Convert, Round
    <3>5. next = Wrap(2 * (k + j))
      BY <2>2, <3>1, <3>2 DEF Plus, Coerce, Convert, Round
    <3> HIDE DEF sum, next
    <3>6. next \in Whole
      <4>1. PICK i \in Int : i = k + j
        OBVIOUS
      <4> QED
        BY <3>5, <4>1, WrapProperties
    <3>7. ASSUME sum \in Whole PROVE next = sum
      <4>1. PICK i \in -(MaxInt + 1)..MaxInt : sum = 2 * i
        BY <3>7 DEF Whole
      <4>2. k + j = i
        BY <3>4, <4>1, Bounds
      <4> QED
        BY <3>4, <3>5, <4>2, WrapProperties, Bounds
    <3> QED
      BY <2>2, <3>6, <3>7
  <2> QED
    BY <2>1, <2>2, Typed DEF Type
<1>6. /\ Expansion!Convert(Control + stepRaw, program.type) = sum
      /\ Expansion!Whole = Whole
  BY DEF Expansion!Convert, Convert, Expansion!Round, Round, Expansion!Whole, Whole
<1> HIDE DEF next, sum
<1>7. Expansion!Increase
  BY <1>1, <1>2, <1>5, <1>6 DEF Expansion!Increase
<1> QED
  BY <1>3, <1>7

-----------------------------------------------------------------------------

LEMMA StepRefines ==
    ASSUME AllAsExpanded, IInv, [Next]_vars
    PROVE  IInv' /\ [Expansion!Next]_(Expansion!expansion)
<1>1. CASE UNCHANGED vars
  BY <1>1 DEF vars, IInv, Element, Expansion!expansion, Control
<1> QED
  BY <1>1, AssignRefines, TestWhileRefines, TestStepRefines, BodyRefines, IncreaseRefines
     DEF Next, Expansion!Next

\* The code of a FOR statement does what the statement stands for, whatever the
\* list, the body and the bounds, if the statement is one of AsExpanded.
THEOREM FollowsExpansion ==
    ASSUME AllAsExpanded
    PROVE  Spec => ImplementsExpansion
<1>1. Init => IInv /\ Expansion!Init
  BY InitRefines
<1>2. IInv /\ [Next]_vars => IInv' /\ [Expansion!Next]_(Expansion!expansion)
  BY StepRefines
<1> QED
  BY <1>1, <1>2, PTL DEF Spec, ImplementsExpansion, Expansion!Spec

-----------------------------------------------------------------------------
(***************************************************************************)
(* Arrays: the invariant.                                                  *)
(***************************************************************************)

Info == [ lower : [1..3 -> Int], stride : [2..3 -> Nat], size : Nat,
          dyn : SUBSET (2..3), extra : Nat, global : BOOLEAN ]

Full(dims) == \A k \in 1..Len(dims) : dims[k].n > 0

\* The element count of dimension one that info leaves.
Count(i) ==
    LET over(a, k) == IF i.stride[k] > 0 THEN a \div i.stride[k] ELSE a
    IN over(over(i.size, 2), 3)

\* Lower bounds: in a slot, or in info.
LowersRight(dims, i, t) ==
    /\ \A k \in 1..Len(dims) : IF Lo(k) \in DOMAIN t THEN t[Lo(k)] = dims[k].lo
                               ELSE k <= 3 /\ i.lower[k] = dims[k].lo
    /\ Lo(1) \in DOMAIN t => i.lower[1] = 0

\* The size of dimension one; that of an array that came through a field may be
\* unknown.
FirstRight(dims, i, t, field) ==
    /\ i.size > 0 => Count(i) = AtLeastOne(dims[1].n)
    /\ N(1) \in DOMAIN t /\ Full(dims) =>
          t[N(1)] = dims[1].n \/ (field /\ t[N(1)] = 0)
    /\ Hi \in DOMAIN t => /\ Lo(1) \in DOMAIN t /\ N(1) \in DOMAIN t
                          /\ t[Hi] = t[Lo(1)] + t[N(1)] - 1
    /\ field \/ i.size > 0 \/ N(1) \in DOMAIN t

\* The sizes of the others.
LatersRight(dims, i, t) ==
    /\ \A k \in 2..Len(dims) :
          /\ k > 3 => Lo(k) \in DOMAIN t /\ N(k) \in DOMAIN t /\ k - 3 <= i.extra
          /\ k <= 3 => IF k \in i.dyn THEN Lo(k) \in DOMAIN t /\ N(k) \in DOMAIN t
                       ELSE /\ Lo(k) \notin DOMAIN t /\ N(k) \notin DOMAIN t
                            /\ i.stride[k] = AtLeastOne(dims[k].n)
          /\ N(k) \in DOMAIN t /\ Full(dims) => t[N(k)] = dims[k].n
    /\ \A k \in 2..3 : k > Len(dims) => i.stride[k] = 0
    /\ Len(dims) = 1 /\ 2 \in i.dyn =>
          Lo(2) \in DOMAIN t /\ N(2) \in DOMAIN t /\ t[N(2)] = 1

Knows(dims, i, t, st, field) ==
    /\ i \in Info
    /\ \A s \in DOMAIN t : t[s] \in Int
    /\ LowersRight(dims, i, t)
    /\ FirstRight(dims, i, t, field)
    /\ LatersRight(dims, i, t)
    /\ Full(dims) => st = Product(Sizes(dims))

Ways == {"redeclare", "pass", "value", "capture", "method", "remote"}

Lost == Went("method") \/ Went("remote")

ArrayInv ==
    /\ IsShape(arr.dims) /\ arr.place \in Places /\ arr.const \in Constness
    /\ arr = Declaration(arr.dims, arr.const, arr.place)
    /\ route \in Seq(Ways)
    /\ Outside => DOMAIN slots = {}
    /\ Supported => /\ Knows(arr.dims, info, slots, alloc, Lost)
                    /\ FullyConst(arr.dims, arr.const) => 3 \notin info.dyn

-----------------------------------------------------------------------------
(* Induction over 0..n, and functions defined by it.                       *)

\* What holds for 0 and passes from k - 1 to k holds up to n.
LEMMA UpTo ==
    ASSUME NEW n \in Nat, NEW S, 0 \in S, \A k \in 1..n : k - 1 \in S => k \in S
    PROVE  \A k \in 0..n : k \in S
<1> DEFINE bad == {k \in 0..n : k \notin S}
<1> SUFFICES ASSUME bad # {}
             PROVE  FALSE
  OBVIOUS
<1>0. bad \in SUBSET Nat /\ 0 \notin bad
  OBVIOUS
<1> HIDE DEF bad
<1>1. PICK m \in bad : \A k \in bad : ~ (<<k, m>> \in OpToRel(<, Nat))
  BY <1>0, NatLessThanWellFounded, WFMin, Zenon
<1>2. m \in 1..n /\ m \notin S
  BY <1>0 DEF bad
<1>3. m - 1 \in bad
  BY <1>2 DEF bad
<1>4. <<m - 1, m>> \in {r \in Nat \X Nat : r[1] < r[2]}
  BY <1>2
<1> QED
  BY <1>1, <1>3, <1>4, Zenon DEF OpToRel

\* f is b at 0, and G of k and the value at k - 1 at k.
Obeys(f, n, b, G) == f[0] = b /\ \A k \in 1..n : f[k] = G[<<k, f[k - 1]>>]

\* There is such a function.
LEMMA Iteration ==
    ASSUME NEW n \in Nat, NEW V, NEW b \in V, NEW G \in [(1..n) \X V -> V]
    PROVE  \E f \in [0..n -> V] : Obeys(f, n, b, G)
<1> DEFINE Done(m) == \E f \in [0..n -> V] : Obeys(f, m, b, G)
           done    == {m \in 0..n : Done(m)}
<1>1. 0 \in done
  <2>1. PICK f \in [0..n -> V] : f = [k \in 0..n |-> b]
    OBVIOUS
  <2>2. f[0] = b
    BY <2>1
  <2>3. \A k \in 1..0 : f[k] = G[<<k, f[k - 1]>>]
    OBVIOUS
  <2> QED
    BY <2>2, <2>3 DEF Obeys
<1>2. ASSUME NEW m \in 1..n, m - 1 \in done
      PROVE  m \in done
  <2>1. PICK f \in [0..n -> V] : Obeys(f, m - 1, b, G)
    BY <1>2
  <2>2. PICK v \in V : v = G[<<m, f[m - 1]>>]
    <3>1. m - 1 \in 0..n
      OBVIOUS
    <3>2. f[m - 1] \in V
      BY <3>1
    <3> QED
      BY <3>2
  <2>3. PICK g \in [0..n -> V] : g = [f EXCEPT ![m] = v]
    OBVIOUS
  <2>4. g[m] = v /\ \A k \in 0..n : k # m => g[k] = f[k]
    BY <2>3
  <2>5. g[0] = b
    BY <2>1, <2>4 DEF Obeys
  <2>6. \A k \in 1..m : g[k] = G[<<k, g[k - 1]>>]
    <3> SUFFICES ASSUME NEW k \in 1..m
                 PROVE  g[k] = G[<<k, g[k - 1]>>]
      OBVIOUS
    <3>1. k - 1 \in 0..n /\ k - 1 # m /\ k \in 0..n
      OBVIOUS
    <3>2. g[k - 1] = f[k - 1]
      BY <2>4, <3>1
    <3>3. CASE k = m
      BY <2>2, <2>4, <3>2, <3>3
    <3>4. CASE k # m
      <4>1. k \in 1..(m - 1)
        BY <3>4
      <4> QED
        BY <2>1, <2>4, <3>1, <3>2, <3>4, <4>1 DEF Obeys
    <3> QED
      BY <3>3, <3>4
  <2> QED
    BY <2>5, <2>6 DEF Obeys
<1> HIDE DEF done
<1>3. n \in done
  BY <1>1, <1>2, UpTo
<1> QED
  BY <1>3 DEF done

\* The products of the first numbers.
Multiplies(f, n, s) == f[0] = 1 /\ \A k \in 1..n : f[k] = f[k - 1] * s[k]

LEMMA ProductsProperties ==
    ASSUME NEW n \in Nat, NEW s, \A k \in 1..n : s[k] \in Int
    PROVE  /\ Products(n, s) \in [0..n -> Int]
           /\ Multiplies(Products(n, s), n, s)
<1> DEFINE F(f) == [k \in 0..n |-> IF k = 0 THEN 1 ELSE f[k - 1] * s[k]]
<1>1. PICK G \in [(1..n) \X Int -> Int] : \A k \in 1..n, v \in Int : G[<<k, v>>] = v * s[k]
  <2>1. [x \in (1..n) \X Int |-> x[2] * s[x[1]]] \in [(1..n) \X Int -> Int]
    OBVIOUS
  <2> QED
    BY <2>1
<1>2. PICK f \in [0..n -> Int] : Obeys(f, n, 1, G)
  <2>1. PICK V : V = Int
    OBVIOUS
  <2>2. PICK b : b = 1
    OBVIOUS
  <2>3. b \in V /\ G \in [(1..n) \X V -> V]
    BY <2>1, <2>2
  <2>4. \E f \in [0..n -> V] : Obeys(f, n, b, G)
    BY <2>3, Iteration, Zenon
  <2> QED
    BY <2>1, <2>2, <2>4, Zenon
<1>3. \A k \in 1..n : f[k] = f[k - 1] * s[k]
  <2> SUFFICES ASSUME NEW k \in 1..n
               PROVE  f[k] = f[k - 1] * s[k]
    OBVIOUS
  <2>1. PICK v \in Int : v = f[k - 1]
    <3>1. k - 1 \in 0..n
      OBVIOUS
    <3> QED
      BY <3>1
  <2> QED
    BY <1>1, <1>2, <2>1 DEF Obeys
<1>4. f = F(f)
  <2>1. \A k \in 0..n : f[k] = IF k = 0 THEN 1 ELSE f[k - 1] * s[k]
    BY <1>2, <1>3 DEF Obeys
  <2>2. f = [k \in 0..n |-> f[k]]
    OBVIOUS
  <2> QED
    BY <2>1, <2>2, Zenon
<1>5. PICK h : h = F(h) /\ h = Products(n, s)
  BY <1>4 DEF Products
<1> HIDE DEF F
<1>6. \A k \in 0..n : h[k] = IF k = 0 THEN 1 ELSE h[k - 1] * s[k]
  BY <1>5, Zenon DEF F
<1>7. h \in [0..n -> Int]
  <2> DEFINE typed == {k \in 0..n : h[k] \in Int}
  <2>1. 0 \in typed
    BY <1>6
  <2>2. ASSUME NEW k \in 1..n, k - 1 \in typed
        PROVE  k \in typed
    <3>1. PICK v \in Int : v = h[k - 1]
      BY <2>2
    <3>2. PICK x \in Int : x = s[k]
      OBVIOUS
    <3>3. k \in 0..n /\ k # 0
      OBVIOUS
    <3>4. h[k] = v * x
      BY <1>6, <3>1, <3>2, <3>3, Zenon
    <3>5. v * x \in Int
      OBVIOUS
    <3> QED
      BY <3>3, <3>4, <3>5
  <2> HIDE DEF typed
  <2>3. \A k \in 0..n : k \in typed
    BY <2>1, <2>2, UpTo
  <2>4. DOMAIN h = 0..n /\ h = [k \in 0..n |-> h[k]]
    BY <1>5, Zenon DEF F
  <2> QED
    BY <2>3, <2>4 DEF typed
<1>8. Multiplies(h, n, s)
  BY <1>6 DEF Multiplies
<1> QED
  BY <1>5, <1>7, <1>8

LEMMA ShapeFacts ==
    ASSUME NEW dims, IsShape(dims)
    PROVE  /\ Len(dims) \in Nat /\ Len(dims) >= 1
           /\ \A k \in 1..Len(dims) : dims[k].n \in Int /\ dims[k].lo \in Int
<1>1. PICK R : R = [lo : Int, n : Int]
  OBVIOUS
<1>2. PICK s \in Seq(R) : s = dims /\ s # <<>>
  BY <1>1 DEF IsShape
<1>3. Len(s) \in Nat /\ Len(s) >= 1 /\ \A k \in 1..Len(s) : s[k] \in R
  BY <1>2
<1> QED
  BY <1>1, <1>2, <1>3

LEMMA ShortShape ==
    ASSUME NEW dims, IsShape(dims), Len(dims) <= 3
    PROVE  Len(dims) \in 1..3
<1>1. PICK n \in Nat : n = Len(dims) /\ n >= 1
  BY ShapeFacts
<1>2. n <= 3
  BY <1>1
<1>3. n \in 1..3
  BY <1>1, <1>2
<1> QED
  BY <1>1, <1>3

\* Offsets in row-major order.
Offsets(f, dims, idx) ==
    /\ f[0] = 0
    /\ \A k \in 1..Len(dims) : f[k] = f[k - 1] * dims[k].n + idx[k] - dims[k].lo

LEMMA RowMajorsProperties ==
    ASSUME NEW dims, IsShape(dims), NEW idx, \A k \in 1..Len(dims) : idx[k] \in Int
    PROVE  /\ RowMajors(dims, idx) \in [0..Len(dims) -> Int]
           /\ Offsets(RowMajors(dims, idx), dims, idx)
<1> DEFINE n    == Len(dims)
           F(f) == [k \in 0..n |-> IF k = 0 THEN 0
                                   ELSE f[k - 1] * dims[k].n + idx[k] - dims[k].lo]
<1>0. n \in Nat /\ \A k \in 1..n : dims[k].n \in Int /\ dims[k].lo \in Int
  BY ShapeFacts
<1> HIDE DEF n
<1>1. PICK G \in [(1..n) \X Int -> Int] :
         \A k \in 1..n, v \in Int : G[<<k, v>>] = v * dims[k].n + idx[k] - dims[k].lo
  <2>1. \A k \in 1..n, v \in Int : v * dims[k].n + idx[k] - dims[k].lo \in Int
    BY <1>0 DEF n
  <2>2. [x \in (1..n) \X Int |-> x[2] * dims[x[1]].n + idx[x[1]] - dims[x[1]].lo]
           \in [(1..n) \X Int -> Int]
    BY <2>1
  <2> QED
    BY <2>2
<1>2. PICK f \in [0..n -> Int] : Obeys(f, n, 0, G)
  <2>1. PICK V : V = Int
    OBVIOUS
  <2>2. PICK b : b = 0
    OBVIOUS
  <2>3. b \in V /\ G \in [(1..n) \X V -> V]
    BY <2>1, <2>2
  <2>4. \E f \in [0..n -> V] : Obeys(f, n, b, G)
    BY <1>0, <2>3, Iteration, Zenon
  <2> QED
    BY <2>1, <2>2, <2>4, Zenon
<1>3. \A k \in 1..n : f[k] = f[k - 1] * dims[k].n + idx[k] - dims[k].lo
  <2> SUFFICES ASSUME NEW k \in 1..n
               PROVE  f[k] = f[k - 1] * dims[k].n + idx[k] - dims[k].lo
    OBVIOUS
  <2>1. PICK v \in Int : v = f[k - 1]
    <3>1. k - 1 \in 0..n
      BY <1>0
    <3> QED
      BY <3>1
  <2> QED
    BY <1>1, <1>2, <2>1, Zenon DEF Obeys
<1>4. f = F(f)
  <2>1. \A k \in 0..n : f[k] = IF k = 0 THEN 0
                               ELSE f[k - 1] * dims[k].n + idx[k] - dims[k].lo
    BY <1>0, <1>2, <1>3 DEF Obeys
  <2>2. f = [k \in 0..n |-> f[k]]
    OBVIOUS
  <2> QED
    BY <2>1, <2>2, Zenon
<1>5. PICK h : h = F(h) /\ h = RowMajors(dims, idx)
  BY <1>4 DEF RowMajors, n
<1> HIDE DEF F
<1>6. \A k \in 0..n : h[k] = IF k = 0 THEN 0
                             ELSE h[k - 1] * dims[k].n + idx[k] - dims[k].lo
  BY <1>5, Zenon DEF F
<1>7. h \in [0..n -> Int]
  <2> DEFINE typed == {k \in 0..n : h[k] \in Int}
  <2>1. 0 \in typed
    BY <1>0, <1>6
  <2>2. ASSUME NEW k \in 1..n, k - 1 \in typed
        PROVE  k \in typed
    <3>1. PICK x \in Int : x = idx[k]
      BY DEF n
    <3>2. PICK v \in Int : v = h[k - 1]
      BY <2>2
    <3>3. h[k] = v * dims[k].n + x - dims[k].lo
      <4>1. k \in 0..n /\ k # 0
        BY <1>0
      <4>2. h[k] = h[k - 1] * dims[k].n + idx[k] - dims[k].lo
        BY <1>6, <4>1, Zenon
      <4> QED
        BY <3>1, <3>2, <4>2, Zenon
    <3>4. v * dims[k].n + x - dims[k].lo \in Int
      BY <1>0
    <3> QED
      BY <1>0, <3>3, <3>4
  <2> HIDE DEF typed
  <2>3. \A k \in 0..n : k \in typed
    BY <1>0, <2>1, <2>2, UpTo
  <2>4. DOMAIN h = 0..n /\ h = [k \in 0..n |-> h[k]]
    BY <1>5, Zenon DEF F
  <2> QED
    BY <2>3, <2>4 DEF typed
<1>8. Offsets(h, dims, idx)
  <2>1. h[0] = 0
    BY <1>0, <1>6
  <2>2. \A k \in 1..n : h[k] = h[k - 1] * dims[k].n + idx[k] - dims[k].lo
    BY <1>0, <1>6
  <2> QED
    BY <2>1, <2>2 DEF Offsets, n
<1> QED
  BY <1>5, <1>7, <1>8 DEF n

\* What the code of the indexes of an array does, one dimension after another.
Place == [trap : BOOLEAN, off : Int]

After1(p, x, lo, size) ==
    [trap |-> p.trap \/ DimCheck(x, lo, size), off |-> p.off * size + x - lo]

Folds(f, idx) ==
    /\ f[0] = [trap |-> FALSE, off |-> 0]
    /\ \A k \in 1..Dims : f[k] = After1(f[k - 1], idx[k], LowerOf(k), SizeOf(k))

LEMMA FoldingProperties ==
    ASSUME Dims \in Nat, NEW idx,
           \A k \in 1..Dims : Folded(k) /\ LowerOf(k) \in Int /\ SizeOf(k) \in Int /\ idx[k] \in Int
    PROVE  /\ Folding(idx) \in [0..Dims -> Place]
           /\ Folds(Folding(idx), idx)
<1> DEFINE E(k, p) == IF Folded(k)
                      THEN [ trap |-> \/ p.trap
                                      \/ DimCheck(idx[k], LowerOf(k), SizeOf(k)),
                             off  |-> p.off * SizeOf(k) + idx[k] - LowerOf(k) ]
                      ELSE p
           F(f) == [k \in 0..Dims |-> IF k = 0 THEN [trap |-> FALSE, off |-> 0]
                                      ELSE E(k, f[k - 1])]
           zero == [trap |-> FALSE, off |-> 0]
<1>1. \A k \in 1..Dims, p \in Place :
         E(k, p) \in Place /\ E(k, p) = After1(p, idx[k], LowerOf(k), SizeOf(k))
  <2> SUFFICES ASSUME NEW k \in 1..Dims, NEW p \in Place
               PROVE  E(k, p) \in Place /\ E(k, p) = After1(p, idx[k], LowerOf(k), SizeOf(k))
    OBVIOUS
  <2>1. E(k, p) = After1(p, idx[k], LowerOf(k), SizeOf(k))
    BY Zenon DEF After1
  <2>2. p.trap \in BOOLEAN /\ p.off \in Int
    BY DEF Place
  <2>3. DimCheck(idx[k], LowerOf(k), SizeOf(k)) \in BOOLEAN
    BY Zenon DEF DimCheck
  <2>4. (p.trap \/ DimCheck(idx[k], LowerOf(k), SizeOf(k))) \in BOOLEAN
    BY Zenon
  <2>5. p.off * SizeOf(k) + idx[k] - LowerOf(k) \in Int
    <3>1. PICK s \in Int : s = SizeOf(k)
      OBVIOUS
    <3>2. PICK l \in Int : l = LowerOf(k)
      OBVIOUS
    <3> QED
      BY <2>2, <3>1, <3>2
  <2> QED
    BY <2>1, <2>4, <2>5, Zenon DEF After1, Place
<1> HIDE DEF E
<1>2. zero \in Place /\ zero = [trap |-> FALSE, off |-> 0]
  BY DEF Place
<1> HIDE DEF zero
<1>3. PICK G \in [(1..Dims) \X Place -> Place] :
         \A k \in 1..Dims, p \in Place : G[<<k, p>>] = E(k, p)
  <2>1. [x \in (1..Dims) \X Place |-> E(x[1], x[2])] \in [(1..Dims) \X Place -> Place]
    BY <1>1
  <2> QED
    BY <2>1
<1>4. PICK f \in [0..Dims -> Place] : Obeys(f, Dims, zero, G)
  BY <1>2, Iteration, Zenon
<1>5. \A k \in 1..Dims : f[k] = E(k, f[k - 1])
  <2> SUFFICES ASSUME NEW k \in 1..Dims
               PROVE  f[k] = E(k, f[k - 1])
    OBVIOUS
  <2>1. PICK p \in Place : p = f[k - 1]
    <3>1. k - 1 \in 0..Dims
      OBVIOUS
    <3> QED
      BY <3>1
  <2> QED
    BY <1>3, <1>4, <2>1, Zenon DEF Obeys
<1>6. f = F(f)
  <2>1. \A k \in 0..Dims : f[k] = IF k = 0 THEN [trap |-> FALSE, off |-> 0]
                                  ELSE E(k, f[k - 1])
    BY <1>2, <1>4, <1>5 DEF Obeys
  <2>2. f = [k \in 0..Dims |-> f[k]]
    OBVIOUS
  <2> QED
    BY <2>1, <2>2, Zenon
<1>7. PICK h : h = F(h) /\ h = Folding(idx)
  BY <1>6 DEF Folding, E
<1> HIDE DEF F
<1>8. \A k \in 0..Dims : h[k] = IF k = 0 THEN [trap |-> FALSE, off |-> 0]
                                ELSE E(k, h[k - 1])
  BY <1>7, Zenon DEF F
<1>9. h[0] = zero /\ \A k \in 1..Dims : h[k] = E(k, h[k - 1])
  <2>1. 0 \in 0..Dims /\ \A k \in 1..Dims : k \in 0..Dims /\ k # 0
    OBVIOUS
  <2> QED
    BY <1>2, <1>8, <2>1, Zenon
<1>10. \A k \in 0..Dims : h[k] \in Place
  <2> DEFINE typed == {k \in 0..Dims : h[k] \in Place}
  <2>1. 0 \in typed
    BY <1>2, <1>9
  <2>2. ASSUME NEW k \in 1..Dims, k - 1 \in typed
        PROVE  k \in typed
    BY <1>1, <1>9, <2>2
  <2> HIDE DEF typed
  <2>3. \A k \in 0..Dims : k \in typed
    BY <2>1, <2>2, UpTo
  <2> QED
    BY <2>3 DEF typed
<1>11. h \in [0..Dims -> Place]
  <2>1. DOMAIN h = 0..Dims /\ h = [k \in 0..Dims |-> h[k]]
    BY <1>7, Zenon DEF F
  <2> QED
    BY <1>10, <2>1
<1>12. Folds(h, idx)
  <2>1. ASSUME NEW k \in 1..Dims
        PROVE  h[k] = After1(h[k - 1], idx[k], LowerOf(k), SizeOf(k))
    <3>1. k - 1 \in 0..Dims
      OBVIOUS
    <3>2. h[k - 1] \in Place
      BY <1>10, <3>1
    <3> QED
      BY <1>1, <1>9, <3>2, Zenon
  <2> QED
    BY <1>2, <1>9, <2>1, Zenon DEF Folds
<1> QED
  BY <1>7, <1>11, <1>12

-----------------------------------------------------------------------------
(* What the compiler knows is enough for the code of an index.             *)

LEMMA InfoFacts ==
    ASSUME NEW i \in Info
    PROVE  /\ \A k \in 1..3 : i.lower[k] \in Int
           /\ \A k \in 2..3 : i.stride[k] \in Nat
           /\ i.size \in Nat /\ i.dyn \subseteq 2..3 /\ i.extra \in Nat /\ i.global \in BOOLEAN
BY DEF Info

LEMMA CountType ==
    ASSUME NEW i \in Info
    PROVE  Count(i) \in Int
<1>1. PICK x \in Nat : x = i.size
  BY InfoFacts
<1>2. PICK a \in Nat : a = i.stride[2]
  BY InfoFacts
<1>3. PICK b \in Nat : b = i.stride[3]
  BY InfoFacts
<1>4. \A y \in Int : (IF a > 0 THEN y \div a ELSE y) \in Int
  OBVIOUS
<1>5. \A y \in Int : (IF b > 0 THEN y \div b ELSE y) \in Int
  OBVIOUS
<1>6. (IF a > 0 THEN x \div a ELSE x) \in Int
  BY <1>4
<1> QED
  BY <1>1, <1>2, <1>3, <1>5, <1>6 DEF Count

\* What the code computes with is what was declared.
Sees(k) ==
    /\ Folded(k) /\ LowerOf(k) = arr.dims[k].lo /\ SizeOf(k) \in Int
    /\ Full(arr.dims) =>
          SizeOf(k) = arr.dims[k].n \/ (k = 1 /\ Lost /\ SizeOf(k) = 0)

LEMMA SeesFirst ==
    ASSUME IsShape(arr.dims), Knows(arr.dims, info, slots, alloc, Lost)
    PROVE  Sees(1)
<1>1. info \in Info /\ \A s \in DOMAIN slots : slots[s] \in Int
  BY DEF Knows
<1>2. Dims \in Nat /\ Dims >= 1 /\ arr.dims[1].n \in Int /\ arr.dims[1].lo \in Int
  BY ShapeFacts DEF Dims
<1>3. FirstLower = arr.dims[1].lo
  BY <1>2 DEF Knows, LowersRight, FirstLower, Has, Dims
<1>4. StaticCount = Count(info)
  BY DEF StaticCount, Count
<1>5. FirstDimSize \in Int
  <2>1. Count(info) \in Int
    BY <1>1, CountType
  <2> QED
    BY <1>1, <1>4, <2>1 DEF FirstDimSize, Has
<1>6. Full(arr.dims) => FirstDimSize = arr.dims[1].n \/ (Lost /\ FirstDimSize = 0)
  <2> SUFFICES ASSUME Full(arr.dims)
               PROVE  FirstDimSize = arr.dims[1].n \/ (Lost /\ FirstDimSize = 0)
    OBVIOUS
  <2>0. arr.dims[1].n > 0
    BY <1>2 DEF Full, Dims
  <2>1. CASE info.size > 0
    BY <1>2, <1>4, <2>0, <2>1 DEF Knows, FirstRight, FirstDimSize, AtLeastOne
  <2>2. CASE ~(info.size > 0) /\ N(1) \in DOMAIN slots
    BY <2>2 DEF Knows, FirstRight, FirstDimSize, Has
  <2>3. CASE ~(info.size > 0) /\ N(1) \notin DOMAIN slots
    BY <2>3 DEF Knows, FirstRight, FirstDimSize, Has
  <2> QED
    BY <2>1, <2>2, <2>3
<1>7. Folded(1)
  BY DEF Folded
<1> QED
  BY <1>3, <1>5, <1>6, <1>7 DEF Sees, LowerOf, SizeOf

\* The dimensions after the first.
LEMMA SeesLater ==
    ASSUME IsShape(arr.dims), Knows(arr.dims, info, slots, alloc, Lost), NEW k \in 2..Dims
    PROVE  Sees(k)
<1> DEFINE dims == arr.dims
<1>1. info \in Info /\ \A s \in DOMAIN slots : slots[s] \in Int
  BY DEF Knows
<1>2. Dims \in Nat /\ \A j \in 1..Dims : dims[j].n \in Int /\ dims[j].lo \in Int
  BY ShapeFacts DEF Dims
<1>3. \A j \in 2..Dims :
         /\ j > 3 => Has(Lo(j)) /\ Has(N(j)) /\ j - 3 <= info.extra
         /\ j <= 3 => IF j \in info.dyn THEN Has(Lo(j)) /\ Has(N(j))
                      ELSE ~Has(Lo(j)) /\ info.stride[j] = AtLeastOne(dims[j].n)
         /\ Has(N(j)) /\ Full(dims) => slots[N(j)] = dims[j].n
  BY DEF Knows, LatersRight, Has, Dims
<1>4. \A j \in 1..Dims : IF Has(Lo(j)) THEN slots[Lo(j)] = dims[j].lo
                         ELSE j <= 3 /\ info.lower[j] = dims[j].lo
  BY DEF Knows, LowersRight, Has, Dims
<1>5. \A n \in Int : AtLeastOne(n) \in Nat /\ AtLeastOne(n) > 0 /\ (n > 0 => AtLeastOne(n) = n)
  BY DEF AtLeastOne
<1>6. info.stride[2] # 0 \/ 2 \in info.dyn
  <2>1. 2 \in 2..Dims /\ dims[2].n \in Int
    BY <1>2
  <2> QED
    BY <1>3, <1>5, <2>1
<1> HIDE DEF dims
<1>7. k \in Nat /\ k # 1 /\ k > 1 /\ dims[k].n \in Int /\ dims[k].lo \in Int
  BY <1>2
<1>8. Folded(k)
  <2>1. CASE k = 2
    BY <1>6, <2>1 DEF Folded
  <2>2. CASE k = 3
    <3>1. info.stride[3] # 0 \/ 3 \in info.dyn
      BY <1>3, <1>5, <1>7, <2>2
    <3> QED
      BY <1>6, <2>2, <3>1 DEF Folded
  <2>3. CASE k > 3
    <3>1. \A j \in 4..k : Has(Lo(j)) /\ Has(N(j))
      <4> SUFFICES ASSUME NEW j \in 4..k
                   PROVE  Has(Lo(j)) /\ Has(N(j))
        OBVIOUS
      <4>1. j \in 2..Dims /\ j > 3
        BY <1>2
      <4> QED
        BY <1>3, <4>1, Zenon
    <3>2. k - 3 <= info.extra
      BY <1>3, <2>3
    <3>3. k # 1 /\ k # 2 /\ k # 3
      BY <2>3
    <3> QED
      BY <1>6, <2>3, <3>1, <3>2, <3>3 DEF Folded
  <2> QED
    BY <1>7, <2>1, <2>2, <2>3
<1>9. LowerOf(k) = dims[k].lo
  <2>1. InSlots(k) <=> Has(Lo(k))
    BY <1>3, <1>7 DEF InSlots, dims
  <2> QED
    BY <1>4, <1>7, <2>1 DEF LowerOf
<1>10. SizeOf(k) \in Int /\ (Full(dims) => SizeOf(k) = dims[k].n)
  <2>1. CASE InSlots(k)
    <3>1. Has(N(k))
      BY <1>3, <1>7, <2>1 DEF InSlots
    <3>2. SizeOf(k) = slots[N(k)]
      BY <1>7, <2>1 DEF SizeOf
    <3> QED
      BY <1>1, <1>3, <3>1, <3>2 DEF Has
  <2>2. CASE ~InSlots(k)
    <3>1. SizeOf(k) = info.stride[k] /\ k <= 3 /\ k \notin info.dyn
      BY <1>7, <2>2 DEF SizeOf, InSlots
    <3>2. SizeOf(k) = AtLeastOne(dims[k].n)
      BY <1>3, <3>1
    <3>3. Full(dims) => dims[k].n > 0
      BY <1>7 DEF Full, Dims, dims
    <3> QED
      BY <1>5, <1>7, <3>2, <3>3
  <2> QED
    BY <2>1, <2>2
<1> QED
  BY <1>8, <1>9, <1>10 DEF Sees, dims

LEMMA SeesAll ==
    ASSUME IsShape(arr.dims), Knows(arr.dims, info, slots, alloc, Lost)
    PROVE  /\ \A k \in 1..Dims : Sees(k)
           /\ ~Uncompilable
<1>1. \A k \in 1..Dims : Sees(k)
  <2> SUFFICES ASSUME NEW k \in 1..Dims
               PROVE  Sees(k)
    OBVIOUS
  <2>1. CASE k = 1
    BY <2>1, SeesFirst
  <2>2. CASE k # 1
    <3>1. k \in 2..Dims
      BY <2>2, ShapeFacts DEF Dims
    <3> QED
      BY <3>1, SeesLater
  <2> QED
    BY <2>1, <2>2
<1>2. ~Uncompilable
  BY ShapeFacts DEF Uncompilable, Knows, LatersRight, Has, Dims
<1> QED
  BY <1>1, <1>2

-----------------------------------------------------------------------------
(* Indexes.                                                                *)

LEMMA DimCheckInside ==
    ASSUME NEW x \in Int, NEW lo \in Int, NEW n \in Int, NEW size \in Int,
           x \in lo..(lo + n - 1), size = n \/ size = 0
    PROVE  ~DimCheck(x, lo, size)
BY DEF DimCheck

LEMMA DimCheckOutside ==
    ASSUME NEW x \in Int, NEW lo \in Int, NEW n \in Int, n > 0, x \notin lo..(lo + n - 1)
    PROVE  DimCheck(x, lo, n)
BY DEF DimCheck

\* An index in the bounds is not refused, and the offset is the row-major one.
LEMMA Inside ==
    ASSUME IsShape(arr.dims), Knows(arr.dims, info, slots, alloc, Lost),
           NEW idx, \A k \in 1..Dims : idx[k] \in Int, InRange(idx)
    PROVE  \A k \in 0..Dims :
              Folding(idx)[k] = [trap |-> FALSE, off |-> RowMajors(arr.dims, idx)[k]]
<1>1. Dims \in Nat /\ Dims >= 1 /\ \A k \in 1..Dims : arr.dims[k].n \in Int /\ arr.dims[k].lo \in Int
  BY ShapeFacts DEF Dims
<1>2. \A k \in 1..Dims : Sees(k)
  BY SeesAll
<1>3. Full(arr.dims)
  <2> SUFFICES ASSUME NEW k \in 1..Dims
               PROVE  arr.dims[k].n > 0
    BY DEF Full, Dims
  <2>1. arr.dims[k].n \in Int /\ arr.dims[k].lo \in Int
    BY <1>1
  <2>2. idx[k] \in arr.dims[k].lo..(arr.dims[k].lo + arr.dims[k].n - 1)
    BY DEF InRange
  <2> QED
    BY <2>1, <2>2
<1>4. PICK f : f = Folding(idx) /\ f \in [0..Dims -> Place] /\ Folds(f, idx)
  <2>1. \A k \in 1..Dims : Folded(k) /\ LowerOf(k) \in Int /\ SizeOf(k) \in Int /\ idx[k] \in Int
    BY <1>1, <1>2 DEF Sees
  <2> QED
    BY <1>1, <2>1, FoldingProperties
<1>5. PICK row : /\ row = RowMajors(arr.dims, idx) /\ row \in [0..Dims -> Int]
                /\ Offsets(row, arr.dims, idx)
  BY RowMajorsProperties DEF Dims
<1> DEFINE good == {k \in 0..Dims : f[k] = [trap |-> FALSE, off |-> row[k]]}
<1>6. 0 \in good
  BY <1>1, <1>4, <1>5 DEF Folds, Offsets
<1>7. ASSUME NEW k \in 1..Dims, k - 1 \in good
      PROVE  k \in good
  <2>1. PICK p \in Int : p = row[k - 1]
    <3>1. k - 1 \in 0..Dims
      BY <1>1
    <3> QED
      BY <1>5, <3>1
  <2>2. PICK n \in Int : n = arr.dims[k].n
    BY <1>1
  <2>3. PICK lo \in Int : lo = arr.dims[k].lo
    BY <1>1
  <2>4. PICK x \in Int : x = idx[k]
    OBVIOUS
  <2>5. PICK size \in Int : size = SizeOf(k)
    BY <1>2 DEF Sees
  <2>6. LowerOf(k) = lo /\ (size = n \/ (k = 1 /\ size = 0))
    BY <1>2, <1>3, <2>2, <2>3, <2>5 DEF Sees
  <2>7. f[k] = After1([trap |-> FALSE, off |-> p], x, lo, size)
    BY <1>4, <1>7, <2>1, <2>4, <2>5, <2>6 DEF Folds
  <2>8. ~DimCheck(x, lo, size)
    <3>1. x \in lo..(lo + n - 1)
      BY <2>2, <2>3, <2>4 DEF InRange
    <3> QED
      BY <2>6, <3>1, DimCheckInside
  <2>9. f[k] = [trap |-> FALSE, off |-> p * size + x - lo]
    BY <2>7, <2>8 DEF After1
  <2>10. p * size = p * n
    <3>1. CASE k = 1
      <4>1. p = 0
        BY <1>5, <2>1, <3>1 DEF Offsets
      <4> QED
        BY <4>1
    <3>2. CASE k # 1
      BY <2>6, <3>2
    <3> QED
      BY <3>1, <3>2
  <2>11. row[k] = p * n + x - lo
    BY <1>5, <2>1, <2>2, <2>3, <2>4, Zenon DEF Offsets, Dims
  <2>12. p * size + x - lo = row[k]
    BY <2>10, <2>11, Zenon
  <2>13. f[k] = [trap |-> FALSE, off |-> row[k]]
    BY <2>9, <2>12, Zenon
  <2>14. k \in 0..Dims
    BY <1>1
  <2> QED
    BY <2>13, <2>14, Zenon
<1> HIDE DEF good
<1>8. \A k \in 0..Dims : k \in good
  BY <1>1, <1>6, <1>7, UpTo
<1> QED
  BY <1>4, <1>5, <1>8 DEF good

\* Row-major offsets of indexes in the bounds are below the number of elements.
LEMMA WithinProduct ==
    ASSUME NEW p \in Nat, NEW q \in Nat, p < q, NEW n \in Nat, NEW i \in Nat, i < n
    PROVE  p * n + i \in Nat /\ p * n + i < q * n
<1>1. p + 1 <= q
  OBVIOUS
<1>2. PICK d \in Nat : q = p + 1 + d
  <2>1. q - (p + 1) \in Nat /\ q = p + 1 + (q - (p + 1))
    BY <1>1
  <2> QED
    BY <2>1
<1>3. q * n = p * n + n + d * n
  BY <1>2
<1>4. PICK a \in Nat : a = p * n
  OBVIOUS
<1>5. PICK b \in Nat : b = d * n
  OBVIOUS
<1> QED
  BY <1>3, <1>4, <1>5

LEMMA InStorage ==
    ASSUME IsShape(arr.dims), NEW idx, \A k \in 1..Dims : idx[k] \in Int, InRange(idx)
    PROVE  /\ RowMajors(arr.dims, idx)[Dims] \in 0..(Product(Sizes(arr.dims)) - 1)
           /\ Full(arr.dims)
<1>1. Dims \in Nat /\ Dims >= 1 /\ \A k \in 1..Dims : arr.dims[k].n \in Int /\ arr.dims[k].lo \in Int
  BY ShapeFacts DEF Dims
<1>2. PICK row : /\ row = RowMajors(arr.dims, idx) /\ row \in [0..Dims -> Int]
                /\ Offsets(row, arr.dims, idx)
  BY RowMajorsProperties DEF Dims
<1>3. PICK s : s = Sizes(arr.dims) /\ \A k \in 1..Dims : s[k] = arr.dims[k].n
  <2>1. \A k \in 1..Dims : Sizes(arr.dims)[k] = arr.dims[k].n
    BY DEF Sizes, Dims
  <2> QED
    BY <2>1, Zenon
<1>4. Len(s) = Dims
  BY <1>1, <1>3 DEF Sizes, Dims
<1>5. PICK m : m = Products(Dims, s) /\ m \in [0..Dims -> Int] /\ Multiplies(m, Dims, s)
  BY <1>1, <1>3, ProductsProperties
<1> DEFINE good == {k \in 0..Dims : row[k] \in Nat /\ m[k] \in Nat /\ row[k] < m[k]}
<1>6. 0 \in good
  BY <1>1, <1>2, <1>5 DEF Offsets, Multiplies
<1>7. \A k \in 1..Dims : /\ arr.dims[k].n \in Nat /\ arr.dims[k].n > 0
                         /\ idx[k] - arr.dims[k].lo \in 0..(arr.dims[k].n - 1)
  <2> SUFFICES ASSUME NEW k \in 1..Dims
               PROVE  /\ arr.dims[k].n \in Nat /\ arr.dims[k].n > 0
                      /\ idx[k] - arr.dims[k].lo \in 0..(arr.dims[k].n - 1)
    OBVIOUS
  <2>1. PICK n \in Int : n = arr.dims[k].n
    BY <1>1
  <2>2. PICK lo \in Int : lo = arr.dims[k].lo
    BY <1>1
  <2>3. PICK x \in Int : x = idx[k]
    OBVIOUS
  <2>4. x \in lo..(lo + n - 1)
    BY <2>1, <2>2, <2>3 DEF InRange
  <2> QED
    BY <2>1, <2>2, <2>3, <2>4
<1>8. ASSUME NEW k \in 1..Dims, k - 1 \in good
      PROVE  k \in good
  <2>1. PICK p \in Nat : p = row[k - 1]
    BY <1>8
  <2>2. PICK q \in Nat : q = m[k - 1] /\ p < q
    BY <1>8, <2>1
  <2>3. PICK n \in Nat : n = arr.dims[k].n
    BY <1>7
  <2>4. PICK i \in Nat : i = idx[k] - arr.dims[k].lo /\ i < n
    BY <1>7, <2>3
  <2>5. p * n + i \in Nat /\ p * n + i < q * n
    BY <2>2, <2>4, WithinProduct
  <2>6. row[k] = p * n + idx[k] - arr.dims[k].lo
    BY <1>2, <2>1, <2>3, Zenon DEF Offsets, Dims
  <2>7. row[k] = p * n + i
    <3>1. PICK a \in Nat : a = p * n
      OBVIOUS
    <3>2. idx[k] \in Int /\ arr.dims[k].lo \in Int
      BY <1>1
    <3> QED
      BY <2>4, <2>6, <3>1, <3>2
  <2>8. m[k] = q * n
    BY <1>3, <1>5, <2>2, <2>3, Zenon DEF Multiplies
  <2>9. q * n \in Nat
    OBVIOUS
  <2> QED
    BY <2>5, <2>7, <2>8, <2>9
<1> HIDE DEF good
<1>9. \A k \in 0..Dims : k \in good
  BY <1>1, <1>6, <1>8, UpTo
<1>10. row[Dims] \in Nat /\ m[Dims] \in Nat /\ row[Dims] < m[Dims]
  BY <1>1, <1>9 DEF good
<1>11. Product(s) = m[Dims]
  BY <1>4, <1>5 DEF Product
<1>12. Full(arr.dims)
  BY <1>7 DEF Full, Dims
<1> QED
  BY <1>2, <1>3, <1>10, <1>11, <1>12

LEMMA TrapAfter ==
    ASSUME NEW p, NEW x, NEW lo, NEW size, p.trap \/ DimCheck(x, lo, size)
    PROVE  After1(p, x, lo, size).trap
<1>1. (p.trap \/ DimCheck(x, lo, size)) = TRUE
  OBVIOUS
<1>2. After1(p, x, lo, size) = [trap |-> TRUE, off |-> p.off * size + x - lo]
  BY <1>1, Zenon DEF After1
<1> QED
  BY <1>2

\* An index that is out of the bounds of some dimension stops the program.
LEMMA OutsideStops ==
    ASSUME IsShape(arr.dims), Knows(arr.dims, info, slots, alloc, Lost), ~Lost, Full(arr.dims),
           NEW idx, \A k \in 1..Dims : idx[k] \in Int, ~InRange(idx)
    PROVE  ElementAt(idx).trap
<1>1. Dims \in Nat /\ Dims >= 1 /\ \A k \in 1..Dims : arr.dims[k].n \in Int /\ arr.dims[k].lo \in Int
  BY ShapeFacts DEF Dims
<1>2. \A k \in 1..Dims : Sees(k)
  BY SeesAll
<1>3. PICK f : f = Folding(idx) /\ f \in [0..Dims -> Place] /\ Folds(f, idx)
  <2>1. \A k \in 1..Dims : Folded(k) /\ LowerOf(k) \in Int /\ SizeOf(k) \in Int /\ idx[k] \in Int
    BY <1>1, <1>2 DEF Sees
  <2> QED
    BY <1>1, <2>1, FoldingProperties
<1>4. PICK j \in 1..Dims : idx[j] \notin arr.dims[j].lo..(arr.dims[j].lo + arr.dims[j].n - 1)
  BY DEF InRange
<1>5. f[j].trap
  <2>1. PICK n \in Int : n = arr.dims[j].n /\ n > 0
    BY <1>1 DEF Full, Dims
  <2>2. PICK lo \in Int : lo = arr.dims[j].lo
    BY <1>1
  <2>3. PICK x \in Int : x = idx[j]
    OBVIOUS
  <2>4. LowerOf(j) = lo /\ SizeOf(j) = n
    BY <1>2, <2>1, <2>2 DEF Sees
  <2>5. DimCheck(x, lo, n)
    BY <1>4, <2>1, <2>2, <2>3, DimCheckOutside
  <2>6. f[j] = After1(f[j - 1], x, lo, n)
    BY <1>3, <2>3, <2>4, Zenon DEF Folds
  <2> QED
    BY <2>5, <2>6, TrapAfter, Zenon
<1> DEFINE stopped == {k \in 0..Dims : k >= j => f[k].trap}
<1>6. 0 \in stopped
  BY <1>1
<1>7. ASSUME NEW k \in 1..Dims, k - 1 \in stopped
      PROVE  k \in stopped
  <2>1. CASE k < j
    BY <2>1
  <2>2. CASE k = j
    BY <1>5, <2>2
  <2>3. CASE k > j
    <3>1. f[k - 1].trap
      BY <1>7, <2>3
    <3>2. f[k] = After1(f[k - 1], idx[k], LowerOf(k), SizeOf(k))
      BY <1>3, Zenon DEF Folds
    <3>3. f[k].trap
      BY <3>1, <3>2, TrapAfter, Zenon
    <3>4. k \in 0..Dims
      OBVIOUS
    <3> QED
      BY <3>3, <3>4
  <2> QED
    BY <2>1, <2>2, <2>3
<1> HIDE DEF stopped
<1>8. \A k \in 0..Dims : k \in stopped
  BY <1>1, <1>6, <1>7, UpTo
<1>9. f[Dims].trap
  BY <1>1, <1>8 DEF stopped
<1> QED
  BY <1>3, <1>9 DEF ElementAt

\* LOWERBOUND and UPPERBOUND answer with the bounds that were declared.
LEMMA InquiriesRight ==
    ASSUME IsShape(arr.dims), Knows(arr.dims, info, slots, alloc, Lost), ~Lost, Full(arr.dims),
           NEW k \in 1..Dims
    PROVE  /\ LowerBound(k) = arr.dims[k].lo
           /\ UpperBound(k) = arr.dims[k].lo + arr.dims[k].n - 1
<1>1. /\ Dims \in Nat /\ arr.dims[k].n \in Int /\ arr.dims[k].n > 0 /\ arr.dims[k].lo \in Int
  BY ShapeFacts DEF Dims, Full
<1>2. LowerBound(k) = arr.dims[k].lo
  BY <1>1 DEF LowerBound, Knows, LowersRight, Has, Dims
<1> DEFINE extent ==
            CASE k = 1 /\ FirstDimKnown      -> FirstDimSize
              [] k > 1 /\ Has(N(k))          -> slots[N(k)]
              [] k \in 2..3 /\ ~Has(N(k))    -> AtLeastOne(info.stride[k])
              [] OTHER                       -> 1
<1>3. extent = arr.dims[k].n
  <2>1. CASE k = 1
    <3>1. FirstDimKnown
      BY DEF FirstDimKnown, Knows, FirstRight, Has
    <3>2. FirstDimSize = arr.dims[1].n
      <4>1. SizeOf(1) = arr.dims[1].n
        BY SeesFirst DEF Sees
      <4> QED
        BY <4>1 DEF SizeOf
    <3>3. extent = FirstDimSize
      BY <2>1, <3>1
    <3> QED
      BY <2>1, <3>2, <3>3
  <2>2. CASE k > 1 /\ Has(N(k))
    <3>1. slots[N(k)] = arr.dims[k].n
      BY <1>1, <2>2 DEF Knows, LatersRight, Has, Dims
    <3>2. extent = slots[N(k)]
      BY <2>2
    <3> QED
      BY <3>1, <3>2
  <2>3. CASE k > 1 /\ ~Has(N(k))
    <3>1. k \in 2..3 /\ info.stride[k] = AtLeastOne(arr.dims[k].n)
      BY <1>1, <2>3 DEF Knows, LatersRight, Has, Dims
    <3>2. extent = AtLeastOne(info.stride[k])
      BY <2>3, <3>1
    <3> QED
      BY <1>1, <3>1, <3>2 DEF AtLeastOne
  <2> QED
    BY <2>1, <2>2, <2>3
<1> HIDE DEF extent
<1>4. UpperBound(k) = LowerBound(k) + extent - 1
  BY DEF UpperBound, extent
<1> QED
  BY <1>1, <1>2, <1>3, <1>4

-----------------------------------------------------------------------------
(* The properties follow from the invariant.                               *)

LEMMA BoxFacts ==
    ASSUME IsShape(arr.dims), NEW idx \in Box(arr.dims)
    PROVE  \A k \in 1..Dims : idx[k] \in Int
<1> SUFFICES ASSUME NEW k \in 1..Dims
             PROVE  idx[k] \in Int
  OBVIOUS
<1>1. idx[k] \in Around(arr.dims[k])
  BY DEF Box, Dims
<1> QED
  BY <1>1 DEF Around

LEMMA ElemAddrRight ==
    ASSUME IsShape(arr.dims), Knows(arr.dims, info, slots, alloc, Lost), Dims <= 2,
           NEW idx, \A k \in 1..Dims : idx[k] \in Int, Full(arr.dims)
    PROVE  ElemAddr(idx) = RowMajor(idx)
<1>1. Dims \in Nat /\ Dims >= 1 /\ \A k \in 1..Dims : arr.dims[k].n \in Int /\ arr.dims[k].lo \in Int
  BY ShapeFacts DEF Dims
<1>2. \A k \in 1..Dims : Sees(k)
  BY SeesAll
<1>3. PICK row : /\ row = RowMajors(arr.dims, idx) /\ row \in [0..Dims -> Int]
                /\ Offsets(row, arr.dims, idx)
  BY RowMajorsProperties DEF Dims
<1>4. FirstLower = arr.dims[1].lo
  BY <1>1, <1>2 DEF Sees, LowerOf
<1>5. row[1] = idx[1] - arr.dims[1].lo
  <2>1. row[1] = row[0] * arr.dims[1].n + idx[1] - arr.dims[1].lo /\ row[0] = 0
    BY <1>1, <1>3 DEF Offsets, Dims
  <2> QED
    BY <1>1, <2>1
<1>6. CASE Dims = 1
  BY <1>3, <1>4, <1>5, <1>6 DEF ElemAddr, RowMajor
<1>7. CASE Dims = 2
  <2>1. /\ Folded(2) /\ LowerOf(2) = arr.dims[2].lo /\ SizeOf(2) = arr.dims[2].n
    BY <1>2, <1>7 DEF Sees
  <2>2. row[2] = row[1] * arr.dims[2].n + idx[2] - arr.dims[2].lo
    BY <1>3, <1>7 DEF Offsets, Dims
  <2>3. ElemAddr(idx) = (idx[1] - FirstLower) * SizeOf(2) + idx[2] - LowerOf(2)
    BY <1>7, <2>1 DEF ElemAddr
  <2> QED
    BY <1>3, <1>4, <1>5, <1>7, <2>1, <2>2, <2>3, Zenon DEF RowMajor
<1> QED
  BY <1>1, <1>6, <1>7

LEMMA ArrayInvRightElement == ArrayInv => RightElement
<1> SUFFICES ASSUME ArrayInv, Supported
             PROVE  /\ ~Uncompilable
                    /\ \A idx \in Box(arr.dims) :
                          InRange(idx) =>
                             /\ RowMajor(idx) \in 0..(alloc - 1)
                             /\ ElementAt(idx) = [trap |-> FALSE, off |-> RowMajor(idx)]
                             /\ Dims <= 2 => ElemAddr(idx) = RowMajor(idx)
                             /\ Outside => MemberElement(idx) = RowMajor(idx)
  BY DEF RightElement
<1>1. IsShape(arr.dims) /\ Knows(arr.dims, info, slots, alloc, Lost)
  BY DEF ArrayInv
<1>2. ~Uncompilable
  BY <1>1, SeesAll
<1>3. ASSUME NEW idx \in Box(arr.dims), InRange(idx)
      PROVE  /\ RowMajor(idx) \in 0..(alloc - 1)
             /\ ElementAt(idx) = [trap |-> FALSE, off |-> RowMajor(idx)]
             /\ Dims <= 2 => ElemAddr(idx) = RowMajor(idx)
             /\ Outside => MemberElement(idx) = RowMajor(idx)
  <2>1. \A k \in 1..Dims : idx[k] \in Int
    BY <1>1, BoxFacts
  <2>2. Dims \in Nat /\ Dims >= 1
    BY <1>1, ShapeFacts DEF Dims
  <2>3. RowMajor(idx) \in 0..(Product(Sizes(arr.dims)) - 1) /\ Full(arr.dims)
    BY <1>1, <1>3, <2>1, InStorage DEF RowMajor
  <2>4. alloc = Product(Sizes(arr.dims))
    BY <1>1, <2>3 DEF Knows
  <2>5. ElementAt(idx) = [trap |-> FALSE, off |-> RowMajor(idx)]
    BY <1>1, <1>3, <2>1, <2>2, Inside DEF ElementAt, RowMajor
  <2>6. Dims <= 2 => ElemAddr(idx) = RowMajor(idx)
    BY <1>1, <2>1, <2>3, ElemAddrRight
  <2>7. ASSUME Outside
        PROVE  MemberElement(idx) = RowMajor(idx)
    <3>1. Went("remote")
      BY <2>7 DEF Outside, Went, AtHome, ArrayInv
    <3>2. Dims = 1
      BY <3>1 DEF Supported
    <3>3. DOMAIN slots = {}
      BY <2>7 DEF ArrayInv
    <3>4. info.lower[1] = arr.dims[1].lo /\ ~Has(Lo(1))
      BY <1>1, <3>2, <3>3 DEF Knows, LowersRight, Has, Dims
    <3>5. ~(Dims >= 2)
      BY <3>2
    <3>6. ElemAddr(idx) = idx[1] - info.lower[1]
      BY <3>4, <3>5, Zenon DEF ElemAddr, FirstLower
    <3> QED
      BY <2>6, <3>2, <3>6 DEF MemberElement
  <2> QED
    BY <2>3, <2>4, <2>5, <2>6, <2>7
<1> QED
  BY <1>2, <1>3

LEMMA ArrayInvBoundsSurvive == ArrayInv => BoundsSurvive
<1> SUFFICES ASSUME ArrayInv, Supported, NonEmpty, ~Went("method"), ~Went("remote")
             PROVE  /\ \A idx \in Box(arr.dims) : ~InRange(idx) => ElementAt(idx).trap
                    /\ \A k \in 1..Dims :
                          /\ LowerBound(k) = arr.dims[k].lo
                          /\ UpperBound(k) = arr.dims[k].lo + arr.dims[k].n - 1
  BY DEF BoundsSurvive
<1>1. IsShape(arr.dims) /\ Knows(arr.dims, info, slots, alloc, Lost) /\ ~Lost /\ Full(arr.dims)
  BY DEF ArrayInv, Lost, Full, NonEmpty, Dims
<1>2. \A idx \in Box(arr.dims) : \A k \in 1..Dims : idx[k] \in Int
  BY <1>1, BoxFacts
<1>3. \A idx \in Box(arr.dims) : ~InRange(idx) => ElementAt(idx).trap
  BY <1>1, <1>2, OutsideStops
<1> QED
  BY <1>1, <1>3, InquiriesRight

-----------------------------------------------------------------------------
(* Declarations.                                                           *)

LEMMA DivExact ==
    ASSUME NEW a \in Int, NEW b \in Nat, b > 0
    PROVE  (a * b) \div b = a
<1>1. PICK q \in Int : q = (a * b) \div b
  OBVIOUS
<1>2. b * q <= a * b /\ a * b < b * q + b
  BY <1>1
<1>3. CASE q > a
  <2>1. PICK d \in Nat : q = a + 1 + d
    <3>1. q - a - 1 \in Nat /\ q = a + 1 + (q - a - 1)
      BY <1>3
    <3> QED
      BY <3>1
  <2>2. b * q = a * b + b + b * d /\ b * d \in Nat
    BY <2>1
  <2>3. PICK x \in Int : x = a * b
    OBVIOUS
  <2>4. PICK y \in Nat : y = b * d
    BY <2>2
  <2> QED
    BY <1>2, <2>2, <2>3, <2>4
<1>4. CASE q < a
  <2>1. PICK d \in Nat : a = q + 1 + d
    <3>1. a - q - 1 \in Nat /\ a = q + 1 + (a - q - 1)
      BY <1>4
    <3> QED
      BY <3>1
  <2>2. a * b = b * q + b + b * d /\ b * d \in Nat
    BY <2>1
  <2>3. PICK x \in Int : x = b * q
    OBVIOUS
  <2>4. PICK y \in Nat : y = b * d
    BY <2>2
  <2> QED
    BY <1>2, <2>2, <2>3, <2>4
<1> QED
  BY <1>1, <1>3, <1>4

\* The product of one, two and three numbers.
Spelled(s, n) ==
    /\ n = 1 => Product(s) = s[1]
    /\ n = 2 => Product(s) = s[1] * s[2]
    /\ n = 3 => Product(s) = s[1] * s[2] * s[3]

LEMMA ShortProducts ==
    ASSUME NEW n \in 1..3, NEW s, Len(s) = n, \A k \in 1..n : s[k] \in Int
    PROVE  Spelled(s, n)
<1>1. PICK m : m = Products(n, s) /\ m \in [0..n -> Int] /\ Multiplies(m, n, s)
  BY ProductsProperties
<1>2. Product(s) = m[n]
  BY <1>1 DEF Product
<1>3. m[0] = 1 /\ \A k \in 1..n : m[k] = m[k - 1] * s[k]
  BY <1>1 DEF Multiplies
<1>4. m[1] = s[1]
  <2>1. PICK x \in Int : x = s[1]
    OBVIOUS
  <2>2. m[1] = m[0] * s[1]
    BY <1>3
  <2> QED
    BY <1>3, <2>1, <2>2
<1>5. n >= 2 => m[2] = s[1] * s[2]
  <2>1. n >= 2 => m[2] = m[1] * s[2]
    BY <1>3
  <2> QED
    BY <1>4, <2>1
<1>6. n >= 3 => m[3] = s[1] * s[2] * s[3]
  <2>1. n >= 3 => m[3] = m[2] * s[3]
    BY <1>3
  <2> QED
    BY <1>5, <2>1
<1>7. 2 >= 2 /\ 3 >= 3
  OBVIOUS
<1> QED
  BY <1>2, <1>4, <1>5, <1>6, <1>7, Zenon DEF Spelled

LEMMA SizesFacts ==
    ASSUME NEW dims, IsShape(dims)
    PROVE  /\ Len(Sizes(dims)) = Len(dims)
           /\ \A k \in 1..Len(dims) : Sizes(dims)[k] = dims[k].n
<1>1. Len(dims) \in Nat
  BY ShapeFacts
<1> QED
  BY <1>1 DEF Sizes

\* The sizes that are recorded of constant bounds.
SizesCounted(dims) == [k \in 1..Len(dims) |-> AtLeastOne(dims[k].n)]

LEMMA AtLeastOneFacts ==
    \A n \in Int : /\ AtLeastOne(n) \in Nat /\ AtLeastOne(n) > 0
                   /\ n > 0 => AtLeastOne(n) = n
                   /\ AtLeastOne(AtLeastOne(n)) = AtLeastOne(n)
BY DEF AtLeastOne

LEMMA SizesCountedFacts ==
    ASSUME NEW dims, IsShape(dims)
    PROVE  /\ Len(SizesCounted(dims)) = Len(dims)
           /\ \A k \in 1..Len(dims) : /\ SizesCounted(dims)[k] = AtLeastOne(dims[k].n)
                                      /\ SizesCounted(dims)[k] \in Nat /\ SizesCounted(dims)[k] > 0
           /\ Full(dims) => SizesCounted(dims) = Sizes(dims)
<1>1. Len(dims) \in Nat /\ \A k \in 1..Len(dims) : dims[k].n \in Int
  BY ShapeFacts
<1>2. \A k \in 1..Len(dims) : /\ SizesCounted(dims)[k] = AtLeastOne(dims[k].n)
                              /\ AtLeastOne(dims[k].n) \in Nat /\ AtLeastOne(dims[k].n) > 0
  BY <1>1, AtLeastOneFacts DEF SizesCounted
<1>3. Len(SizesCounted(dims)) = Len(dims)
  BY <1>1 DEF SizesCounted
<1>4. Full(dims) => SizesCounted(dims) = Sizes(dims)
  <2> SUFFICES ASSUME Full(dims)
               PROVE  SizesCounted(dims) = Sizes(dims)
    OBVIOUS
  <2>1. \A k \in 1..Len(dims) : AtLeastOne(dims[k].n) = dims[k].n
    BY <1>1, AtLeastOneFacts DEF Full
  <2> QED
    BY <2>1, Zenon DEF SizesCounted, Sizes
<1> QED
  BY <1>2, <1>3, <1>4

\* What ArrayInfo has of constant bounds.
Recorded(i, dims) ==
    /\ i \in Info
    /\ \A k \in 1..3 : i.lower[k] = IF k <= Len(dims) THEN dims[k].lo ELSE 0
    /\ \A k \in 2..3 : i.stride[k] = IF k <= Len(dims) THEN AtLeastOne(dims[k].n) ELSE 0
    /\ i.size = Product(SizesCounted(dims)) /\ i.size > 0
    /\ i.dyn = {} /\ i.extra = 0

LEMMA ConstantRecorded ==
    ASSUME NEW dims, IsShape(dims), Len(dims) <= 3, NEW place
    PROVE  Recorded(ConstantInfo(dims, place), dims)
<1> DEFINE i == ConstantInfo(dims, place)
           size(k) == IF k <= Len(dims) THEN AtLeastOne(dims[k].n) ELSE 0
           lo(k)   == IF k <= Len(dims) THEN dims[k].lo ELSE 0
<1>1. Len(dims) \in 1..3 /\ \A k \in 1..Len(dims) : dims[k].n \in Int /\ dims[k].lo \in Int
  BY ShapeFacts, ShortShape
<1>2. \A k \in 2..3 : size(k) \in Nat
  BY <1>1, AtLeastOneFacts
<1>3. \A k \in 1..3 : lo(k) \in Int
  BY <1>1
<1>4. PICK x : x = Product(SizesCounted(dims))
  OBVIOUS
<1>5. x \in Nat /\ x > 0
  <2>1. PICK n \in 1..3 : n = Len(dims)
    BY <1>1
  <2>2. PICK s : s = SizesCounted(dims)
    OBVIOUS
  <2>3. Len(s) = n /\ \A k \in 1..n : s[k] \in Nat /\ s[k] > 0
    BY <2>1, <2>2, SizesCountedFacts
  <2>4. Spelled(s, n)
    <3>1. \A k \in 1..n : s[k] \in Int
      BY <2>3
    <3> QED
      BY <2>3, <3>1, ShortProducts, Zenon
  <2>5. \A a, b \in Nat : a > 0 /\ b > 0 => a * b \in Nat /\ a * b > 0
    OBVIOUS
  <2>6. CASE n = 1
    BY <1>4, <2>2, <2>3, <2>4, <2>6 DEF Spelled
  <2>7. CASE n = 2
    BY <1>4, <2>2, <2>3, <2>4, <2>5, <2>7 DEF Spelled
  <2>8. CASE n = 3
    <3>1. s[1] * s[2] \in Nat /\ s[1] * s[2] > 0
      BY <2>3, <2>5, <2>8
    <3>2. s[1] * s[2] * s[3] \in Nat /\ s[1] * s[2] * s[3] > 0
      BY <2>3, <2>5, <2>8, <3>1
    <3> QED
      BY <1>4, <2>2, <2>4, <2>8, <3>2 DEF Spelled
  <2> QED
    BY <2>6, <2>7, <2>8
<1>6. [k \in 1..Len(dims) |-> size(k)] = SizesCounted(dims)
  BY <1>1 DEF SizesCounted
<1>7. i = [ lower |-> [k \in 1..3 |-> lo(k)], stride |-> [k \in 2..3 |-> size(k)],
            size |-> x, dyn |-> {}, extra |-> 0, global |-> place = "main" ]
  BY <1>4, <1>6, Zenon DEF ConstantInfo
<1>8. (place = "main") \in BOOLEAN
  OBVIOUS
<1> HIDE DEF i, size, lo
<1>9. /\ i.size = x /\ i.dyn = {} /\ i.extra = 0
      /\ i.lower = [k \in 1..3 |-> lo(k)] /\ i.stride = [k \in 2..3 |-> size(k)]
  BY <1>7
<1>10. i \in Info
  <2>1. [k \in 1..3 |-> lo(k)] \in [1..3 -> Int] /\ [k \in 2..3 |-> size(k)] \in [2..3 -> Nat]
    BY <1>2, <1>3
  <2> QED
    BY <1>5, <1>7, <1>8, <2>1 DEF Info
<1>11. Recorded(i, dims)
  BY <1>4, <1>5, <1>9, <1>10 DEF Recorded, size, lo
<1> QED
  BY <1>11 DEF i

LEMMA RecordedCount ==
    ASSUME NEW dims, IsShape(dims), Len(dims) <= 3, NEW i, Recorded(i, dims)
    PROVE  Count(i) = AtLeastOne(dims[1].n)
<1>1. PICK n \in 1..3 : n = Len(dims)
  BY ShortShape
<1>2. PICK s : s = SizesCounted(dims)
  OBVIOUS
<1>3. Len(s) = n /\ \A k \in 1..n : s[k] \in Nat /\ s[k] > 0 /\ s[k] = AtLeastOne(dims[k].n)
  BY <1>1, <1>2, SizesCountedFacts
<1>4. i.size = Product(s) /\ Spelled(s, n)
  <2>1. \A k \in 1..n : s[k] \in Int
    BY <1>3
  <2>2. Spelled(s, n)
    BY <1>3, <2>1, ShortProducts, Zenon
  <2> QED
    BY <1>2, <2>2 DEF Recorded
<1>5. \A k \in 2..3 : i.stride[k] = IF k <= n THEN s[k] ELSE 0
  BY <1>1, <1>3 DEF Recorded
<1>6. PICK a \in Nat : a = s[1]
  BY <1>3
<1>7. Count(i) = a
  <2>1. CASE n = 1
    <3>1. i.stride[2] = 0 /\ i.stride[3] = 0 /\ i.size = a
      BY <1>4, <1>5, <1>6, <2>1 DEF Spelled
    <3> QED
      BY <3>1 DEF Count
  <2>2. CASE n = 2
    <3>1. PICK b \in Nat : b = s[2] /\ b > 0
      BY <1>3, <2>2
    <3>2. i.stride[2] = b /\ i.stride[3] = 0 /\ i.size = a * b
      BY <1>4, <1>5, <1>6, <2>2, <3>1 DEF Spelled
    <3>3. (a * b) \div b = a
      BY <3>1, DivExact
    <3> QED
      BY <3>1, <3>2, <3>3 DEF Count
  <2>3. CASE n = 3
    <3>1. PICK b \in Nat : b = s[2] /\ b > 0
      BY <1>3, <2>3
    <3>2. PICK c \in Nat : c = s[3] /\ c > 0
      BY <1>3, <2>3
    <3>3. i.stride[2] = b /\ i.stride[3] = c /\ i.size = a * b * c
      BY <1>4, <1>5, <1>6, <2>3, <3>1, <3>2 DEF Spelled
    <3>4. PICK y \in Int : y = a * c
      OBVIOUS
    <3>5. a * b * c = y * b
      BY <3>4
    <3>6. (y * b) \div b = y /\ (a * c) \div c = a
      <4>1. (y * b) \div b = y
        BY <3>1, DivExact, Zenon
      <4>2. a \in Int
        OBVIOUS
      <4> QED
        BY <3>2, <4>1, <4>2, DivExact, Zenon
    <3>7. i.size \div b = y /\ y \div c = a
      BY <3>3, <3>4, <3>5, <3>6, Zenon
    <3> QED
      BY <3>1, <3>2, <3>3, <3>7 DEF Count
  <2> QED
    BY <2>1, <2>2, <2>3
<1>8. 1 \in 1..n
  OBVIOUS
<1> QED
  BY <1>3, <1>6, <1>7, <1>8

LEMMA KnowsConstant ==
    ASSUME NEW dims, IsShape(dims), Len(dims) <= 3, NEW i, Recorded(i, dims), NEW field
    PROVE  Knows(dims, i, NoSlots, i.size, field)
<1>1. Len(dims) \in 1..3 /\ \A k \in 1..Len(dims) : dims[k].n \in Int /\ dims[k].lo \in Int
  BY ShapeFacts, ShortShape
<1>2. DOMAIN NoSlots = {}
  BY DEF NoSlots
<1>3. Count(i) = AtLeastOne(dims[1].n)
  BY RecordedCount
<1>4. LowersRight(dims, i, NoSlots)
  BY <1>1, <1>2 DEF LowersRight, Recorded
<1>5. FirstRight(dims, i, NoSlots, field)
  BY <1>2, <1>3 DEF FirstRight, Recorded
<1>6. LatersRight(dims, i, NoSlots)
  BY <1>1, <1>2 DEF LatersRight, Recorded
<1>7. Full(dims) => i.size = Product(Sizes(dims))
  BY SizesCountedFacts DEF Recorded
<1> QED
  BY <1>2, <1>4, <1>5, <1>6, <1>7 DEF Knows, Recorded

\* The slots of a declaration with bounds that are not constants.
LEMMA DynamicSlotsFacts ==
    ASSUME NEW dims, IsShape(dims), NEW const,
           NEW t, t = DynamicSlots(dims, const)
    PROVE  /\ \A s \in DOMAIN t : t[s] \in Int
           /\ \A k \in 1..Len(dims) : N(k) \in DOMAIN t /\ t[N(k)] = dims[k].n
           /\ \A k \in 1..Len(dims) : Lo(k) \in DOMAIN t => t[Lo(k)] = dims[k].lo
           /\ \A k \in 2..Len(dims) : Lo(k) \in DOMAIN t
           /\ Lo(1) \in DOMAIN t <=> const \notin {"all", "first"}
           /\ Hi \notin DOMAIN t
<1> DEFINE low == IF const \in {"all", "first"} THEN 2..Len(dims) ELSE 1..Len(dims)
           dom == {Lo(k) : k \in low} \cup {N(k) : k \in 1..Len(dims)}
<1>1. /\ Len(dims) \in Nat /\ Len(dims) >= 1
      /\ \A k \in 1..Len(dims) : dims[k].n \in Int /\ dims[k].lo \in Int
  BY ShapeFacts
<1>2. t = [s \in dom |-> IF s[1] = "lo" THEN dims[s[2]].lo ELSE dims[s[2]].n]
  BY Zenon DEF DynamicSlots
<1>3. low \subseteq 1..Len(dims) /\ 2..Len(dims) \subseteq low
      /\ (1 \in low <=> const \notin {"all", "first"})
  BY <1>1
<1> HIDE DEF low
<1>4. \A k \in low : Lo(k) \in dom
  OBVIOUS
<1>5. \A k \in 1..Len(dims) : N(k) \in dom
  OBVIOUS
<1>6. \A s \in dom : \/ \E k \in low : s = Lo(k)
                     \/ \E k \in 1..Len(dims) : s = N(k)
  OBVIOUS
<1>7. Hi \notin dom
  BY <1>1, <1>3, <1>6 DEF Lo, N, Hi
<1>8. Lo(1) \in dom <=> 1 \in low
  BY <1>1, <1>3, <1>4, <1>6 DEF Lo, N
<1> HIDE DEF dom
<1>9. DOMAIN t = dom /\ \A s \in dom : t[s] = IF s[1] = "lo" THEN dims[s[2]].lo ELSE dims[s[2]].n
  BY <1>2
<1>10. \A k \in 1..Len(dims) : t[N(k)] = dims[k].n
  BY <1>5, <1>9 DEF N
<1>11. \A k \in 1..Len(dims) : Lo(k) \in dom => t[Lo(k)] = dims[k].lo
  BY <1>9 DEF Lo
<1>12. \A s \in dom : t[s] \in Int
  <2> SUFFICES ASSUME NEW s \in dom
               PROVE  t[s] \in Int
    OBVIOUS
  <2>1. CASE \E k \in low : s = Lo(k)
    BY <1>1, <1>3, <1>11, <2>1
  <2>2. CASE \E k \in 1..Len(dims) : s = N(k)
    BY <1>1, <1>10, <2>2
  <2> QED
    BY <1>6, <2>1, <2>2
<1> QED
  BY <1>3, <1>4, <1>5, <1>7, <1>8, <1>9, <1>10, <1>11, <1>12

LEMMA KnowsDynamic ==
    ASSUME NEW dims, IsShape(dims), NEW const, NEW field
    PROVE  Knows(dims, DynamicInfo(dims, const), DynamicSlots(dims, const),
                 Product(Sizes(dims)), field)
<1>1. PICK i : i = DynamicInfo(dims, const)
  OBVIOUS
<1>2. PICK t : t = DynamicSlots(dims, const)
  OBVIOUS
<1>3. /\ Len(dims) \in Nat /\ Len(dims) >= 1
      /\ \A k \in 1..Len(dims) : dims[k].n \in Int /\ dims[k].lo \in Int
  BY ShapeFacts
<1>4. /\ \A s \in DOMAIN t : t[s] \in Int
      /\ \A k \in 1..Len(dims) : N(k) \in DOMAIN t /\ t[N(k)] = dims[k].n
      /\ \A k \in 1..Len(dims) : Lo(k) \in DOMAIN t => t[Lo(k)] = dims[k].lo
      /\ \A k \in 2..Len(dims) : Lo(k) \in DOMAIN t
      /\ Lo(1) \in DOMAIN t <=> const \notin {"all", "first"}
      /\ Hi \notin DOMAIN t
  BY <1>2, DynamicSlotsFacts
<1>5. /\ i.lower = [k \in 1..3 |->
                      IF k = 1 /\ const \in {"all", "first"} THEN dims[1].lo ELSE 0]
      /\ i.stride = [k \in 2..3 |-> 0]
      /\ i.size = 0 /\ i.dyn = (2..3) \cap (1..Len(dims))
      /\ i.extra = IF Len(dims) > 3 THEN Len(dims) - 3 ELSE 0
  BY <1>1 DEF DynamicInfo
<1>6. i \in Info
  <2>1. i.lower \in [1..3 -> Int]
    BY <1>3, <1>5
  <2>2. i.stride \in [2..3 -> Nat] /\ i.dyn \subseteq 2..3
    BY <1>5
  <2>3. i.extra \in Nat
    BY <1>3, <1>5
  <2> QED
    BY <1>1, <1>5, <2>1, <2>2, <2>3 DEF Info, DynamicInfo
<1>7. LowersRight(dims, i, t)
  <2>1. ASSUME NEW k \in 1..Len(dims), Lo(k) \notin DOMAIN t
        PROVE  k <= 3 /\ i.lower[k] = dims[k].lo
    <3>1. k = 1 /\ const \in {"all", "first"}
      BY <1>3, <1>4, <2>1
    <3> QED
      BY <1>5, <3>1
  <2>2. Lo(1) \in DOMAIN t => i.lower[1] = 0
    BY <1>4, <1>5
  <2> QED
    BY <1>4, <2>1, <2>2 DEF LowersRight
<1>8. FirstRight(dims, i, t, field)
  BY <1>3, <1>4, <1>5 DEF FirstRight
<1>9. LatersRight(dims, i, t)
  <2>1. \A k \in 2..Len(dims) : k \in 1..Len(dims) /\ (k <= 3 => k \in i.dyn)
                                /\ (k > 3 => k - 3 <= i.extra)
    BY <1>3, <1>5
  <2>2. \A k \in 2..3 : i.stride[k] = 0
    BY <1>5
  <2>3. ~(Len(dims) = 1 /\ 2 \in i.dyn)
    <3>1. 2 \in i.dyn => 2 \in 1..Len(dims)
      BY <1>5
    <3>2. 2 \notin 1..1
      OBVIOUS
    <3> QED
      BY <3>1, <3>2, Zenon
  <2> QED
    BY <1>4, <2>1, <2>2, <2>3 DEF LatersRight
<1> QED
  BY <1>1, <1>2, <1>4, <1>6, <1>7, <1>8, <1>9 DEF Knows

LEMMA DeclareArrayInv == Declare => ArrayInv
<1> SUFFICES ASSUME NEW dims \in Shapes, NEW const \in Constness, NEW place \in Places,
                    arr = Declaration(dims, const, place), route = <<>>,
                    IF FullyConst(dims, const)
                    THEN /\ info  = ConstantInfo(dims, place)
                         /\ slots = NoSlots
                         /\ alloc = info.size
                    ELSE /\ info  = DynamicInfo(dims, const)
                         /\ slots = DynamicSlots(dims, const)
                         /\ alloc = Product(Sizes(dims))
             PROVE  ArrayInv
  BY DEF Declare
<1>1. IsShape(dims)
  BY ShapesAssumption
<1>2. arr.dims = dims /\ arr.const = const /\ arr.place = place
  BY DEF Declaration
<1>3. route \in Seq(Ways) /\ ~Outside
  BY DEF Outside, AtHome
<1>4. CASE FullyConst(dims, const)
  <2>1. Len(dims) <= 3 /\ Recorded(info, dims)
    BY <1>1, <1>4, ConstantRecorded DEF FullyConst
  <2>2. Knows(dims, info, slots, alloc, Lost) /\ info.dyn = {}
    BY <1>1, <1>4, <2>1, KnowsConstant DEF Recorded
  <2> QED
    BY <1>1, <1>2, <1>3, <2>2 DEF ArrayInv
<1>5. CASE ~FullyConst(dims, const)
  <2>1. Knows(dims, info, slots, alloc, Lost)
    BY <1>1, <1>5, KnowsDynamic
  <2> QED
    BY <1>1, <1>2, <1>3, <1>5, <2>1 DEF ArrayInv
<1> QED
  BY <1>4, <1>5

-----------------------------------------------------------------------------
(* The array moves on.                                                     *)

LEMMA AppendedFacts ==
    ASSUME NEW S, NEW r \in Seq(S), NEW w \in S
    PROVE  /\ Append(r, w) \in Seq(S)
           /\ Len(r) \in Nat /\ Len(Append(r, w)) = Len(r) + 1
           /\ Append(r, w)[Len(r) + 1] = w
           /\ \A i \in 1..Len(r) : Append(r, w)[i] = r[i]
OBVIOUS

\* What changes with the route when the array takes a way; the declaration stays.
LEMMA OneWayFurther ==
    ASSUME ArrayInv, NEW w \in Ways, route' = Append(route, w), arr' = arr
    PROVE  /\ route' \in Seq(Ways)
           /\ Outside' <=> w = "remote"
           /\ \A way : Went(way)' <=> Went(way) \/ way = w
           /\ Supported' => Supported
           /\ Lost' <=> Lost \/ w \in {"method", "remote"}
<1>1. /\ route' \in Seq(Ways) /\ Len(route) \in Nat
      /\ Len(route') = Len(route) + 1 /\ route'[Len(route) + 1] = w
      /\ \A i \in 1..Len(route) : route'[i] = route[i]
  BY AppendedFacts DEF ArrayInv
<1>2. \A way : Went(way)' <=> Went(way) \/ way = w
  <2> SUFFICES ASSUME NEW way
               PROVE  Went(way)' <=> Went(way) \/ way = w
    OBVIOUS
  <2>1. 1..Len(route') = 1..Len(route) \cup {Len(route) + 1}
    BY <1>1
  <2> QED
    BY <1>1, <2>1 DEF Went
<1>3. Outside' <=> w = "remote"
  <2>1. Outside' => w = "remote"
    BY <1>1 DEF Outside
  <2>2. ASSUME w = "remote"
        PROVE  Outside'
    <3>1. Len(route) + 1 \in 1..Len(route')
      BY <1>1
    <3>2. route'[Len(route) + 1] # "redeclare"
      BY <1>1, <2>2
    <3> QED
      BY <1>1, <2>2, <3>1, <3>2 DEF Outside, AtHome
  <2> QED
    BY <2>1, <2>2
<1>4. Supported' => Supported
  BY <1>2 DEF Supported, Dims, FullyConst, StaticLower
<1>5. Lost' <=> Lost \/ w \in {"method", "remote"}
  BY <1>2 DEF Lost
<1> QED
  BY <1>1, <1>2, <1>3, <1>4, <1>5

\* What a procedure makes of its five arguments.
LEMMA FormalKnows ==
    ASSUME IsShape(arr.dims), Knows(arr.dims, info, slots, alloc, Lost), Dims <= 2
    PROVE  Knows(arr.dims, FormalInfo, FormalSlots, alloc, Lost)
<1> DEFINE dims == arr.dims
           lo   == FirstLower
           hi   == CASE Has(Hi) -> slots[Hi]
                     [] ~Has(Hi) /\ FirstDimKnown -> lo + FirstDimSize - 1
                     [] OTHER -> lo - 1
           lo2  == IF 2 \in info.dyn /\ Has(Lo(2)) THEN slots[Lo(2)] ELSE info.lower[2]
           n2   == IF 2 \in info.dyn /\ Has(N(2)) THEN slots[N(2)]
                   ELSE AtLeastOne(info.stride[2])
<1>1. /\ Dims \in 1..2 /\ Dims = Len(dims)
      /\ \A k \in 1..Dims : dims[k].n \in Int /\ dims[k].lo \in Int
  <2>1. PICK n \in Nat : n = Len(dims) /\ n >= 1 /\ n = Dims
    BY ShapeFacts DEF Dims
  <2>2. n \in 1..2
    BY <2>1
  <2> QED
    BY <2>1, <2>2, ShapeFacts DEF Dims
<1>2. /\ info \in Info /\ \A s \in DOMAIN slots : slots[s] \in Int
      /\ \A k \in 1..3 : info.lower[k] \in Int
      /\ \A k \in 2..3 : info.stride[k] \in Nat
  BY InfoFacts DEF Knows
<1>3. Sees(1) /\ (Dims = 2 => Sees(2))
  <2>1. PICK n \in 1..2 : n = Dims
    BY <1>1
  <2>2. 1 \in 1..n /\ (n = 2 => 2 \in 1..n)
    OBVIOUS
  <2> QED
    BY <2>1, <2>2, SeesAll
<1>4. lo = dims[1].lo /\ lo \in Int
  BY <1>1, <1>3 DEF Sees, LowerOf
<1>5. SizeOf(1) = FirstDimSize /\ FirstDimSize \in Int
  BY <1>3 DEF Sees, SizeOf
<1>6. /\ hi \in Int
      /\ Full(dims) => hi - lo + 1 = dims[1].n \/ (Lost /\ hi - lo + 1 = 0)
  <2> HIDE DEF lo
  <2>1. CASE Has(Hi)
    <3>1. hi = slots[Hi]
      BY <2>1
    <3>2. /\ Has(Lo(1)) /\ Has(N(1)) /\ slots[Hi] = slots[Lo(1)] + slots[N(1)] - 1
          /\ Full(dims) => slots[N(1)] = dims[1].n \/ (Lost /\ slots[N(1)] = 0)
      BY <2>1 DEF Knows, FirstRight, Has
    <3>3. lo = slots[Lo(1)]
      BY <3>2 DEF FirstLower, lo
    <3>4. slots[N(1)] \in Int /\ slots[Hi] \in Int
      BY <1>2, <2>1, <3>2 DEF Has
    <3>5. hi - lo + 1 = slots[N(1)]
      BY <1>4, <3>1, <3>2, <3>3, <3>4
    <3> QED
      BY <3>1, <3>2, <3>4, <3>5
  <2>2. CASE ~Has(Hi) /\ FirstDimKnown
    <3>1. hi = lo + FirstDimSize - 1
      BY <2>2
    <3>2. hi \in Int /\ hi - lo + 1 = FirstDimSize
      BY <1>4, <1>5, <3>1
    <3> QED
      BY <1>3, <1>5, <3>2 DEF Sees
  <2>3. CASE ~Has(Hi) /\ ~FirstDimKnown
    <3>1. hi = lo - 1
      BY <2>3
    <3>2. Lost
      BY <2>3 DEF Knows, FirstRight, FirstDimKnown, Has
    <3> QED
      BY <1>4, <3>1, <3>2
  <2> QED
    BY <2>1, <2>2, <2>3
<1>7. lo2 \in Int /\ n2 \in Int
  BY <1>2, AtLeastOneFacts DEF Has
<1>8. Dims = 2 => lo2 = dims[2].lo /\ (Full(dims) => n2 = dims[2].n)
  <2> SUFFICES ASSUME Dims = 2
               PROVE  lo2 = dims[2].lo /\ (Full(dims) => n2 = dims[2].n)
    OBVIOUS
  <2>1. 2 \in 2..Len(dims) /\ 2 \in 1..Len(dims)
    BY <1>1
  <2>2. IF Has(Lo(2)) THEN slots[Lo(2)] = dims[2].lo ELSE info.lower[2] = dims[2].lo
    BY <2>1 DEF Knows, LowersRight, Has
  <2>3. /\ IF 2 \in info.dyn THEN Has(Lo(2)) /\ Has(N(2))
           ELSE ~Has(Lo(2)) /\ ~Has(N(2)) /\ info.stride[2] = AtLeastOne(dims[2].n)
        /\ Has(N(2)) /\ Full(dims) => slots[N(2)] = dims[2].n
    BY <2>1 DEF Knows, LatersRight, Has
  <2>4. Full(dims) => AtLeastOne(AtLeastOne(dims[2].n)) = dims[2].n
    BY <1>1, <2>1, AtLeastOneFacts DEF Full
  <2> QED
    BY <2>2, <2>3, <2>4
<1>9. Dims = 1 => n2 = 1
  <2>1. Dims = 1 /\ 2 \in info.dyn => Has(N(2)) /\ slots[N(2)] = 1
    BY <1>1 DEF Knows, LatersRight, Has
  <2>2. Dims = 1 => info.stride[2] = 0
    BY <1>1 DEF Knows, LatersRight
  <2>3. AtLeastOne(0) = 1
    BY DEF AtLeastOne
  <2> QED
    BY <2>1, <2>2, <2>3
<1>10. PICK t : t = FormalSlots
  OBVIOUS
<1>11. /\ DOMAIN t = {Lo(1), Hi, N(1), Lo(2), N(2)}
       /\ t[Lo(1)] = lo /\ t[Hi] = hi /\ t[N(1)] = hi - lo + 1
       /\ t[Lo(2)] = lo2 /\ t[N(2)] = n2
  <2>1. t = [ s \in {Lo(1), Hi, N(1), Lo(2), N(2)} |->
                 CASE s = Lo(1) -> lo
                   [] s = Hi    -> hi
                   [] s = N(1)  -> hi - lo + 1
                   [] s = Lo(2) -> lo2
                   [] s = N(2)  -> n2 ]
    BY <1>10, Zenon DEF FormalSlots
  <2> HIDE DEF lo, hi, lo2, n2
  <2>2. /\ Lo(1) # Hi /\ Lo(1) # N(1) /\ Lo(1) # Lo(2) /\ Lo(1) # N(2)
        /\ Hi # N(1) /\ Hi # Lo(2) /\ Hi # N(2) /\ N(1) # Lo(2) /\ N(1) # N(2)
        /\ Lo(2) # N(2)
    BY DEF Lo, N, Hi
  <2> QED
    BY <2>1, <2>2
<1> HIDE DEF lo, hi, lo2, n2
<1>12. PICK i : i = FormalInfo
  OBVIOUS
<1>13. /\ i \in Info /\ i.lower[1] = 0 /\ i.size = 0 /\ i.dyn = {2}
       /\ i.stride[2] = 0 /\ i.stride[3] = 0
  BY <1>12 DEF FormalInfo, Info
<1>14. Hi # Lo(2) /\ Hi # N(2) /\ N(2) # Lo(2)
  BY DEF Lo, N, Hi
<1>15. \A s \in DOMAIN t : t[s] \in Int
  BY <1>4, <1>6, <1>7, <1>11
<1>16. LowersRight(dims, i, t)
  <2>1. ASSUME NEW k \in 1..Len(dims)
        PROVE  Lo(k) \in DOMAIN t /\ t[Lo(k)] = dims[k].lo
    <3>1. k = 1 \/ (k = 2 /\ Dims = 2)
      <4>1. k \in 1..Dims
        BY <1>1
      <4> QED
        BY <1>1, <4>1
    <3> QED
      BY <1>4, <1>8, <1>11, <3>1
  <2> QED
    BY <1>13, <2>1 DEF LowersRight
<1>17. FirstRight(dims, i, t, Lost)
  <2>1. hi = lo + (hi - lo + 1) - 1
    BY <1>4, <1>6
  <2> QED
    BY <1>6, <1>11, <1>13, <2>1 DEF FirstRight
<1>18. LatersRight(dims, i, t)
  <2>1. \A k \in 2..Len(dims) : k = 2 /\ Dims = 2
    <3>1. \A k \in 2..Dims : k = 2 /\ Dims = 2
      BY <1>1
    <3> QED
      BY <1>1, <3>1
  <2>2. \A k \in 2..3 : i.stride[k] = 0
    BY <1>13
  <2>3. Lo(2) \in DOMAIN t /\ N(2) \in DOMAIN t /\ 2 \in i.dyn
    BY <1>11, <1>13
  <2> QED
    BY <1>1, <1>8, <1>9, <1>11, <2>1, <2>2, <2>3 DEF LatersRight
<1>19. Full(dims) => alloc = Product(Sizes(dims))
  BY DEF Knows
<1> QED
  BY <1>10, <1>12, <1>13, <1>15, <1>16, <1>17, <1>18, <1>19 DEF Knows

\* A VALUE parameter: the copy has as many elements as the array.
LEMMA CopyIsWhole ==
    ASSUME NEW dims, IsShape(dims), Len(dims) <= 2, NEW i, NEW t, NEW st,
           Knows(dims, i, t, st, FALSE), i.size = 0, i.dyn = {2}, Full(dims)
    PROVE  t[N(1)] * t[N(2)] = Product(Sizes(dims))
<1>1. Len(dims) <= 3
  <2>1. PICK n \in Nat : n = Len(dims)
    BY ShapeFacts
  <2> QED
    BY <2>1
<1>2. PICK n \in 1..3 : n = Len(dims) /\ n <= 2
  BY <1>1, ShortShape
<1>3. PICK s : s = Sizes(dims)
  OBVIOUS
<1>4. Len(s) = n /\ \A k \in 1..n : s[k] = dims[k].n /\ dims[k].n \in Int
  BY <1>2, <1>3, SizesFacts, ShapeFacts
<1>5. Spelled(s, n)
  <2>1. \A k \in 1..n : s[k] \in Int
    BY <1>4
  <2> QED
    BY <1>4, <2>1, ShortProducts, Zenon
<1>6. t[N(1)] = s[1]
  <2>1. N(1) \in DOMAIN t
    BY DEF Knows, FirstRight
  <2> QED
    BY <1>2, <1>4, <2>1 DEF Knows, FirstRight
<1>7. s[1] \in Int
  BY <1>2, <1>4
<1>8. CASE n = 1
  <2>1. t[N(2)] = 1
    BY <1>2, <1>8 DEF Knows, LatersRight
  <2>2. Product(s) = s[1]
    BY <1>5, <1>8 DEF Spelled
  <2> QED
    BY <1>3, <1>6, <1>7, <2>1, <2>2
<1>9. CASE n = 2
  <2>1. 2 \in 2..Len(dims) /\ 2 <= 3
    BY <1>2, <1>9
  <2>2. t[N(2)] = s[2]
    BY <1>4, <1>9, <2>1 DEF Knows, LatersRight
  <2>3. Product(s) = s[1] * s[2]
    BY <1>5, <1>9 DEF Spelled
  <2> QED
    BY <1>3, <1>6, <2>2, <2>3
<1> QED
  BY <1>2, <1>8, <1>9

LEMMA StepPass == ASSUME ArrayInv, DoPass PROVE ArrayInv'
<1>1. /\ arr' = arr /\ alloc' = alloc /\ slots' = FormalSlots /\ info' = FormalInfo
      /\ route' = Append(route, "pass")
  BY DEF DoPass, Step, Pass
<1>2. /\ route' \in Seq(Ways) /\ ~Outside' /\ (Supported' => Supported) /\ Lost' = Lost
      /\ Went("pass")'
  <2>0. "pass" \in Ways
    BY DEF Ways
  <2>1. /\ route' \in Seq(Ways) /\ (Outside' <=> "pass" = "remote")
        /\ \A way : Went(way)' <=> Went(way) \/ way = "pass"
        /\ Supported' => Supported
        /\ Lost' <=> Lost \/ "pass" \in {"method", "remote"}
    BY <1>1, <2>0, OneWayFurther, Zenon
  <2>2. "pass" # "remote" /\ "pass" \notin {"method", "remote"}
    OBVIOUS
  <2>3. Lost' <=> Lost
    BY <2>1, <2>2, Zenon
  <2>4. Lost' = Lost
    BY <2>3, Zenon DEF Lost
  <2> QED
    BY <2>1, <2>2, <2>4, Zenon DEF Lost
<1>3. ASSUME Supported'
      PROVE  /\ Knows(arr.dims, info', slots', alloc', Lost')
             /\ 3 \notin info'.dyn
  <2>1. Knows(arr.dims, info, slots, alloc, Lost) /\ IsShape(arr.dims)
    BY <1>2, <1>3 DEF ArrayInv
  <2>2. Dims <= 2
    <3>1. ~(Dims >= 3)
      BY <1>1, <1>2, <1>3 DEF Supported, Dims
    <3>2. Dims \in Nat
      BY <2>1, ShapeFacts DEF Dims
    <3> QED
      BY <3>1, <3>2
  <2>3. Knows(arr.dims, FormalInfo, FormalSlots, alloc, Lost)
    BY <2>1, <2>2, FormalKnows
  <2> QED
    BY <1>1, <1>2, <2>3 DEF FormalInfo
<1> QED
  BY <1>1, <1>2, <1>3 DEF ArrayInv

LEMMA StepPassValue == ASSUME ArrayInv, DoPassValue PROVE ArrayInv'
<1>1. /\ arr' = arr /\ slots' = FormalSlots /\ info' = FormalInfo
      /\ alloc' = FormalSlots[N(1)] * FormalSlots[N(2)]
      /\ route' = Append(route, "value")
  BY DEF DoPassValue, Step, PassValue
<1>2. /\ route' \in Seq(Ways) /\ ~Outside' /\ (Supported' => Supported) /\ Lost' = Lost
      /\ Went("value")' /\ (Lost => Went("method")' \/ Went("remote")')
  <2>0. "value" \in Ways
    BY DEF Ways
  <2>1. /\ route' \in Seq(Ways) /\ (Outside' <=> "value" = "remote")
        /\ \A way : Went(way)' <=> Went(way) \/ way = "value"
        /\ Supported' => Supported
        /\ Lost' <=> Lost \/ "value" \in {"method", "remote"}
    BY <1>1, <2>0, OneWayFurther, Zenon
  <2>2. "value" # "remote" /\ "value" \notin {"method", "remote"}
    OBVIOUS
  <2>3. Lost' <=> Lost
    BY <2>1, <2>2, Zenon
  <2>4. Lost' = Lost
    BY <2>3, Zenon DEF Lost
  <2> QED
    BY <2>1, <2>2, <2>4, Zenon DEF Lost
<1>3. ASSUME Supported'
      PROVE  /\ Knows(arr.dims, info', slots', alloc', Lost')
             /\ 3 \notin info'.dyn
  <2>1. Knows(arr.dims, info, slots, alloc, Lost) /\ IsShape(arr.dims)
    BY <1>2, <1>3 DEF ArrayInv
  <2>2. Dims <= 2
    <3>1. ~(Dims >= 3)
      BY <1>1, <1>2, <1>3 DEF Supported, Dims
    <3>2. Dims \in Nat
      BY <2>1, ShapeFacts DEF Dims
    <3> QED
      BY <3>1, <3>2
  <2>3. Knows(arr.dims, FormalInfo, FormalSlots, alloc, Lost)
    BY <2>1, <2>2, FormalKnows
  <2>4. Lost = FALSE
    <3>1. ~Lost
      BY <1>2, <1>3 DEF Supported
    <3> QED
      BY <3>1 DEF Lost, Went
  <2>5. FormalInfo.size = 0 /\ FormalInfo.dyn = {2}
    BY DEF FormalInfo
  <2>6. Full(arr.dims) => alloc' = Product(Sizes(arr.dims))
    BY <1>1, <2>1, <2>2, <2>3, <2>4, <2>5, CopyIsWhole DEF Dims
  <2>7. Knows(arr.dims, FormalInfo, FormalSlots, alloc', Lost)
    BY <2>3, <2>6 DEF Knows
  <2> QED
    BY <1>1, <1>2, <2>5, <2>7
<1> QED
  BY <1>1, <1>2, <1>3 DEF ArrayInv

LEMMA StepRedeclare == ASSUME ArrayInv, DoRedeclare PROVE ArrayInv'
<1>1. PICK dims \in Later, const \in Constness :
         /\ arr' = Declaration(dims, const, arr.place) /\ slots' = NoSlots
         /\ route' = Append(route, "redeclare")
  BY DEF DoRedeclare, Step, Redeclare
<1>2. IsShape(dims)
  BY ShapesAssumption
<1>3. arr'.dims = dims /\ arr'.const = const /\ arr'.place = arr.place
  BY <1>1 DEF Declaration
<1>4. /\ route' \in Seq(Ways) /\ Len(route) \in Nat
      /\ Len(route') = Len(route) + 1 /\ route'[Len(route) + 1] = "redeclare"
  <2>1. route \in Seq(Ways)
    BY DEF ArrayInv
  <2>2. "redeclare" \in Ways
    BY DEF Ways
  <2> QED
    BY <1>1, <2>1, <2>2, AppendedFacts, Zenon
<1>5. ~Supported'
  <2>1. Len(route) + 1 \in 1..Len(route')
    BY <1>4
  <2> QED
    BY <1>4, <2>1 DEF Supported, Went
<1>6. ~Outside'
  BY <1>4 DEF Outside
<1>7. const \in Constness /\ arr.place \in Places
  BY DEF ArrayInv
<1> QED
  BY <1>1, <1>2, <1>3, <1>4, <1>5, <1>6, <1>7 DEF ArrayInv

\* What a nested procedure gets of an array of up to three dimensions; the
\* third dimension, if there is one, has constant bounds.
LEMMA CapturedKnows ==
    ASSUME IsShape(arr.dims), Knows(arr.dims, info, slots, alloc, Lost),
           Dims >= 3 => 3 \notin info.dyn, Capture
    PROVE  Knows(arr.dims, info', slots', alloc', Lost) /\ (3 \in info'.dyn => 3 \in info.dyn)
<1> DEFINE dims == arr.dims
           two  == \/ info.stride[2] > 0
                   \/ 2 \in info.dyn /\ (Has(Lo(2)) \/ Has(N(2)) \/ info.lower[2] # 0)
           kept == {s \in {Lo(1), N(1)} : Has(s) /\ (s = Lo(1) => info.lower[1] = 0)}
           down == IF two THEN {Lo(2), N(2)} ELSE {}
<1>1. /\ info.extra = 0 /\ arr' = arr /\ alloc' = alloc
      /\ slots' = [ s \in kept \cup down |->
                       IF Has(s) THEN slots[s]
                       ELSE IF s = Lo(2) THEN info.lower[2]
                       ELSE AtLeastOne(info.stride[2]) ]
      /\ info' = [info EXCEPT !.dyn = IF two THEN @ \cup {2} ELSE @]
  BY DEF Capture
<1>2. /\ info \in Info /\ \A s \in DOMAIN slots : slots[s] \in Int
      /\ \A k \in 1..3 : info.lower[k] \in Int
      /\ \A k \in 2..3 : info.stride[k] \in Nat
      /\ info.dyn \subseteq 2..3
  BY InfoFacts DEF Knows
<1>3. PICK n \in Nat : n = Len(dims) /\ n = Dims /\ n >= 1
  BY ShapeFacts DEF Dims
<1>4. n \in 1..3
  <2>1. ASSUME n > 3
        PROVE  FALSE
    <3>1. 4 \in 2..Len(dims) /\ 4 > 3
      BY <1>3, <2>1
    <3>2. 4 - 3 <= info.extra
      BY <3>1 DEF Knows, LatersRight
    <3> QED
      BY <1>1, <3>2
  <2> QED
    BY <1>3, <2>1
<1>5. \A k \in 1..n : dims[k].n \in Int /\ dims[k].lo \in Int
  BY <1>3, ShapeFacts
<1>6. Has(Lo(1)) => info.lower[1] = 0
  BY DEF Knows, LowersRight, Has
<1>7. kept = {s \in {Lo(1), N(1)} : Has(s)}
  BY <1>6
<1>8. ASSUME n >= 2
      PROVE  /\ two
             /\ Has(Lo(2)) => slots[Lo(2)] = dims[2].lo
             /\ ~Has(Lo(2)) => info.lower[2] = dims[2].lo
             /\ Has(N(2)) /\ Full(dims) => slots[N(2)] = dims[2].n
             /\ ~Has(N(2)) => info.stride[2] = AtLeastOne(dims[2].n)
  <2>1. 2 \in 2..Len(dims) /\ 2 \in 1..Len(dims) /\ 2 <= 3
    BY <1>3, <1>8
  <2>2. IF Has(Lo(2)) THEN slots[Lo(2)] = dims[2].lo ELSE info.lower[2] = dims[2].lo
    BY <2>1 DEF Knows, LowersRight, Has
  <2>3. /\ IF 2 \in info.dyn THEN Has(Lo(2)) /\ Has(N(2))
           ELSE ~Has(Lo(2)) /\ ~Has(N(2)) /\ info.stride[2] = AtLeastOne(dims[2].n)
        /\ Has(N(2)) /\ Full(dims) => slots[N(2)] = dims[2].n
    BY <2>1 DEF Knows, LatersRight, Has
  <2>4. AtLeastOne(dims[2].n) > 0
    BY <1>3, <1>5, <2>1, AtLeastOneFacts
  <2> QED
    BY <2>2, <2>3, <2>4
<1>9. ASSUME n = 1, 2 \in info.dyn \/ two
      PROVE  two /\ Has(Lo(2)) /\ Has(N(2)) /\ slots[N(2)] = 1
  <2>1. info.stride[2] = 0
    BY <1>3, <1>9 DEF Knows, LatersRight
  <2>2. 2 \in info.dyn
    BY <1>9, <2>1
  <2> QED
    BY <1>3, <1>9, <2>2 DEF Knows, LatersRight, Has
<1> HIDE DEF two
<1>10. ASSUME n = 3
       PROVE  3 \notin info.dyn /\ ~Has(Lo(3)) /\ ~Has(N(3))
              /\ info.lower[3] = dims[3].lo /\ info.stride[3] = AtLeastOne(dims[3].n)
  <2>1. 3 \in 2..Len(dims) /\ 3 \in 1..Len(dims) /\ 3 <= 3
    BY <1>3, <1>10
  <2>2. 3 \notin info.dyn
    BY <1>3, <1>10
  <2>3. ~Has(Lo(3)) /\ ~Has(N(3)) /\ info.stride[3] = AtLeastOne(dims[3].n)
    BY <2>1, <2>2 DEF Knows, LatersRight, Has
  <2> QED
    BY <2>1, <2>2, <2>3 DEF Knows, LowersRight, Has
<1> HIDE DEF kept
<1>11. PICK t : t = slots'
  OBVIOUS
<1>12. PICK i : i = info'
  OBVIOUS
<1>13. /\ DOMAIN t = kept \cup down
       /\ \A s \in kept \cup down :
             t[s] = IF Has(s) THEN slots[s]
                    ELSE IF s = Lo(2) THEN info.lower[2] ELSE AtLeastOne(info.stride[2])
  BY <1>1, <1>11
<1>14. /\ i.lower = info.lower /\ i.stride = info.stride /\ i.size = info.size
       /\ i.extra = info.extra /\ i.dyn = IF two THEN info.dyn \cup {2} ELSE info.dyn
       /\ i \in Info
  <2>1. i = [info EXCEPT !.dyn = IF two THEN @ \cup {2} ELSE @]
    BY <1>1, <1>12
  <2>2. (IF two THEN info.dyn \cup {2} ELSE info.dyn) \in SUBSET (2..3)
    BY <1>2
  <2> QED
    BY <1>2, <2>1, <2>2 DEF Info
<1>15. /\ Lo(1) \in DOMAIN t <=> Has(Lo(1))
       /\ N(1) \in DOMAIN t <=> Has(N(1))
       /\ Lo(2) \in DOMAIN t <=> two
       /\ N(2) \in DOMAIN t <=> two
       /\ Lo(3) \notin DOMAIN t /\ N(3) \notin DOMAIN t /\ Hi \notin DOMAIN t
  <2>1. kept \subseteq {Lo(1), N(1)} /\ (Lo(1) \in kept <=> Has(Lo(1)))
        /\ (N(1) \in kept <=> Has(N(1)))
    BY <1>7
  <2> QED
    BY <1>13, <2>1 DEF Lo, N, Hi
<1>16. /\ Has(Lo(1)) => t[Lo(1)] = slots[Lo(1)]
       /\ Has(N(1)) => t[N(1)] = slots[N(1)]
       /\ two => t[Lo(2)] = IF Has(Lo(2)) THEN slots[Lo(2)] ELSE info.lower[2]
       /\ two => t[N(2)] = IF Has(N(2)) THEN slots[N(2)] ELSE AtLeastOne(info.stride[2])
  <2>1. N(2) # Lo(2)
    BY DEF N, Lo
  <2> QED
    BY <1>13, <1>15, <2>1
<1> HIDE DEF down
<1>17. \A s \in DOMAIN t : t[s] \in Int
  <2> SUFFICES ASSUME NEW s \in kept \cup down
               PROVE  t[s] \in Int
    BY <1>13
  <2>1. info.lower[2] \in Int /\ AtLeastOne(info.stride[2]) \in Int
    BY <1>2, AtLeastOneFacts
  <2>2. Has(s) => slots[s] \in Int
    BY <1>2 DEF Has
  <2> QED
    BY <1>13, <2>1, <2>2
<1>18. LowersRight(dims, i, t)
  <2>1. IF Has(Lo(1)) THEN slots[Lo(1)] = dims[1].lo ELSE info.lower[1] = dims[1].lo
    BY <1>3 DEF Knows, LowersRight, Has
  <2>2. ASSUME NEW k \in 1..n
        PROVE  IF Lo(k) \in DOMAIN t THEN t[Lo(k)] = dims[k].lo
               ELSE k <= 3 /\ i.lower[k] = dims[k].lo
    <3>1. CASE k = 1
      BY <1>14, <1>15, <1>16, <2>1, <3>1
    <3>2. CASE k = 2
      <4>1. n >= 2
        BY <1>4, <3>2
      <4> QED
        BY <1>8, <1>15, <1>16, <3>2, <4>1
    <3>3. CASE k = 3
      <4>1. n = 3
        BY <1>4, <3>3
      <4> QED
        BY <1>10, <1>14, <1>15, <3>3, <4>1
    <3> QED
      BY <1>4, <3>1, <3>2, <3>3
  <2> QED
    BY <1>3, <1>6, <1>14, <1>15, <2>2 DEF LowersRight
<1>19. FirstRight(dims, i, t, Lost)
  <2>1. Count(i) = Count(info)
    BY <1>14 DEF Count
  <2>2. FirstRight(dims, info, slots, Lost)
    BY DEF Knows
  <2> QED
    BY <1>14, <1>15, <1>16, <2>1, <2>2 DEF FirstRight, Has
<1>20. LatersRight(dims, i, t)
  <2>1. ASSUME NEW k \in 2..n
        PROVE  /\ k <= 3
               /\ IF k \in i.dyn THEN Lo(k) \in DOMAIN t /\ N(k) \in DOMAIN t
                  ELSE /\ Lo(k) \notin DOMAIN t /\ N(k) \notin DOMAIN t
                       /\ i.stride[k] = AtLeastOne(dims[k].n)
               /\ N(k) \in DOMAIN t /\ Full(dims) => t[N(k)] = dims[k].n
    <3>1. CASE k = 2
      <4>1. n >= 2
        BY <1>4, <3>1
      <4>2. two /\ 2 \in i.dyn /\ Lo(2) \in DOMAIN t /\ N(2) \in DOMAIN t
        BY <1>8, <1>14, <1>15, <4>1
      <4>3. Full(dims) => AtLeastOne(AtLeastOne(dims[2].n)) = dims[2].n
        BY <1>3, <1>4, <1>5, <4>1, AtLeastOneFacts DEF Full
      <4>4. Full(dims) => t[N(2)] = dims[2].n
        BY <1>8, <1>16, <4>1, <4>2, <4>3
      <4> QED
        BY <3>1, <4>2, <4>4
    <3>2. CASE k = 3
      <4>1. n = 3
        BY <1>4, <3>2
      <4>2. 3 \notin i.dyn
        BY <1>10, <1>14, <4>1
      <4> QED
        BY <1>10, <1>14, <1>15, <3>2, <4>1, <4>2
    <3> QED
      BY <1>4, <3>1, <3>2
  <2>2. \A k \in 2..3 : k > Len(dims) => i.stride[k] = 0
    BY <1>14 DEF Knows, LatersRight
  <2>3. ASSUME n = 1, 2 \in i.dyn
        PROVE  Lo(2) \in DOMAIN t /\ N(2) \in DOMAIN t /\ t[N(2)] = 1
    <3>1. 2 \in info.dyn \/ two
      BY <1>14, <2>3
    <3>2. two /\ Has(N(2)) /\ slots[N(2)] = 1
      BY <1>9, <2>3, <3>1
    <3> QED
      BY <1>15, <1>16, <3>2
  <2>4. \A k \in 2..n : ~(k > 3)
    BY <1>4
  <2> QED
    BY <1>3, <2>1, <2>2, <2>3, <2>4 DEF LatersRight
<1>21. Full(dims) => alloc' = Product(Sizes(dims))
  BY <1>1 DEF Knows
<1> QED
  BY <1>11, <1>12, <1>14, <1>17, <1>18, <1>19, <1>20, <1>21 DEF Knows

LEMMA StepCapture == ASSUME ArrayInv, DoCapture PROVE ArrayInv'
<1>1. Capture /\ arr' = arr /\ route' = Append(route, "capture")
  BY DEF DoCapture, Step, Capture
<1>2. /\ route' \in Seq(Ways) /\ ~Outside' /\ (Supported' => Supported) /\ Lost' = Lost
      /\ Went("capture")'
  <2>0. "capture" \in Ways
    BY DEF Ways
  <2>1. /\ route' \in Seq(Ways) /\ (Outside' <=> "capture" = "remote")
        /\ \A way : Went(way)' <=> Went(way) \/ way = "capture"
        /\ Supported' => Supported
        /\ Lost' <=> Lost \/ "capture" \in {"method", "remote"}
    BY <1>1, <2>0, OneWayFurther, Zenon
  <2>2. "capture" # "remote" /\ "capture" \notin {"method", "remote"}
    OBVIOUS
  <2>3. Lost' <=> Lost
    BY <2>1, <2>2, Zenon
  <2>4. Lost' = Lost
    BY <2>3, Zenon DEF Lost
  <2> QED
    BY <2>1, <2>2, <2>4, Zenon
<1>3. ASSUME Supported'
      PROVE  /\ Knows(arr.dims, info', slots', alloc', Lost')
             /\ FullyConst(arr.dims, arr.const) => 3 \notin info'.dyn
  <2>1. /\ Knows(arr.dims, info, slots, alloc, Lost) /\ IsShape(arr.dims)
        /\ FullyConst(arr.dims, arr.const) => 3 \notin info.dyn
    BY <1>2, <1>3 DEF ArrayInv
  <2>2. Dims >= 3 => FullyConst(arr.dims, arr.const)
    BY <1>1, <1>2, <1>3 DEF Supported, Dims
  <2>3. Knows(arr.dims, info', slots', alloc', Lost) /\ (3 \in info'.dyn => 3 \in info.dyn)
    BY <1>1, <2>1, <2>2, CapturedKnows
  <2> QED
    BY <1>2, <2>1, <2>3
<1> QED
  BY <1>1, <1>2, <1>3 DEF ArrayInv

\* A method, or code outside the object: nothing is in slots, and the size may
\* be unknown.
LEMMA FieldKnows ==
    ASSUME IsShape(arr.dims), Knows(arr.dims, info, slots, alloc, Lost),
           Dims = 1, StaticLower = arr.dims[1].lo, NEW compiled \in BOOLEAN, Field(compiled)
    PROVE  Knows(arr.dims, info', slots', alloc', TRUE) /\ info'.dyn = {}
<1>1. /\ alloc' = alloc /\ slots' = NoSlots
      /\ info' = [ FormalInfo EXCEPT !.lower[1] = StaticLower,
                                     !.size     = IF compiled THEN info.size ELSE 0,
                                     !.dyn      = {} ]
  BY DEF Field
<1>2. info \in Info /\ info.size \in Nat
  BY InfoFacts DEF Knows
<1>3. Len(arr.dims) = 1 /\ arr.dims[1].lo \in Int
  BY ShapeFacts DEF Dims
<1>4. PICK i : i = info'
  OBVIOUS
<1>5. PICK x \in Nat : x = IF compiled THEN info.size ELSE 0
  BY <1>2
<1>6. /\ i.lower = [k \in 1..3 |-> IF k = 1 THEN arr.dims[1].lo ELSE 0]
      /\ i.stride = [k \in 2..3 |-> 0] /\ i.size = x /\ i.dyn = {} /\ i.extra = 0
      /\ i = [ lower |-> i.lower, stride |-> i.stride, size |-> x, dyn |-> {},
               extra |-> 0, global |-> FALSE ]
  BY <1>1, <1>4, <1>5 DEF FormalInfo
<1>7. i \in Info
  <2>1. i.lower \in [1..3 -> Int] /\ i.stride \in [2..3 -> Nat]
    BY <1>3, <1>6
  <2>2. PICK l \in [1..3 -> Int] : l = i.lower
    BY <2>1
  <2>3. PICK s \in [2..3 -> Nat] : s = i.stride
    BY <2>1
  <2>4. i = [ lower |-> l, stride |-> s, size |-> x, dyn |-> {}, extra |-> 0, global |-> FALSE ]
    BY <1>6, <2>2, <2>3, Zenon
  <2> QED
    BY <2>4 DEF Info
<1>8. DOMAIN slots' = {}
  BY <1>1 DEF NoSlots
<1>9. i.size > 0 => Count(i) = AtLeastOne(arr.dims[1].n)
  <2> SUFFICES ASSUME i.size > 0
               PROVE  Count(i) = AtLeastOne(arr.dims[1].n)
    OBVIOUS
  <2>1. x = info.size /\ info.size > 0
    BY <1>5, <1>6
  <2>2. info.stride[2] = 0 /\ info.stride[3] = 0
    BY <1>3 DEF Knows, LatersRight
  <2>3. Count(info) = info.size
    BY <2>2 DEF Count
  <2>4. i.stride[2] = 0 /\ i.stride[3] = 0
    BY <1>6
  <2>5. Count(i) = x
    BY <1>6, <2>4 DEF Count
  <2>6. Count(info) = AtLeastOne(arr.dims[1].n)
    BY <2>1 DEF Knows, FirstRight
  <2> QED
    BY <2>1, <2>3, <2>5, <2>6
<1>10. LowersRight(arr.dims, i, slots')
  BY <1>3, <1>6, <1>8 DEF LowersRight
<1>11. FirstRight(arr.dims, i, slots', TRUE)
  BY <1>8, <1>9 DEF FirstRight
<1>12. LatersRight(arr.dims, i, slots')
  BY <1>3, <1>6, <1>8 DEF LatersRight
<1>13. Full(arr.dims) => alloc' = Product(Sizes(arr.dims))
  BY <1>1 DEF Knows
<1> QED
  BY <1>4, <1>6, <1>7, <1>8, <1>10, <1>11, <1>12, <1>13 DEF Knows

LEMMA StepField ==
    ASSUME ArrayInv, AtHome, NEW w \in {"method", "remote"}, NEW compiled \in BOOLEAN,
           Step(w, Field(compiled))
    PROVE  ArrayInv'
<1>1. /\ Field(compiled) /\ arr' = arr /\ slots' = NoSlots /\ route' = Append(route, w)
  BY DEF Step, Field
<1>2. /\ route' \in Seq(Ways) /\ (Supported' => Supported) /\ Lost' = TRUE /\ Lost'
      /\ Went("method")' \/ Went("remote")'
  <2>0. w \in Ways
    BY DEF Ways
  <2>1. /\ route' \in Seq(Ways)
        /\ \A way : Went(way)' <=> Went(way) \/ way = w
        /\ Supported' => Supported
        /\ Lost' <=> Lost \/ w \in {"method", "remote"}
    BY <1>1, <2>0, OneWayFurther, Zenon
  <2>2. Lost'
    BY <2>1, Zenon
  <2>3. Lost' = TRUE
    BY <2>2, Zenon DEF Lost
  <2> QED
    BY <2>1, <2>2, <2>3, Zenon DEF Lost
<1>3. ASSUME Supported'
      PROVE  /\ Knows(arr.dims, info', slots', alloc', Lost')
             /\ 3 \notin info'.dyn
  <2>1. Knows(arr.dims, info, slots, alloc, Lost) /\ IsShape(arr.dims)
    BY <1>2, <1>3 DEF ArrayInv
  <2>2. Dims = 1 /\ StaticLower = arr.dims[1].lo
    BY <1>1, <1>2, <1>3 DEF Supported, Dims, StaticLower
  <2>3. Knows(arr.dims, info', slots', alloc', TRUE) /\ info'.dyn = {}
    BY <1>1, <2>1, <2>2, FieldKnows
  <2> QED
    BY <1>2, <2>3
<1>4. DOMAIN slots' = {}
  BY <1>1 DEF NoSlots
<1> QED
  BY <1>1, <1>2, <1>3, <1>4 DEF ArrayInv

LEMMA Stutter == ASSUME ArrayInv, UNCHANGED journey PROVE ArrayInv'
<1>1. /\ arr' = arr /\ info' = info /\ slots' = slots /\ alloc' = alloc /\ route' = route
  BY DEF journey
<1>2. /\ Outside' = Outside /\ Lost' = Lost /\ Supported' = Supported
  BY <1>1, Zenon DEF Outside, AtHome, Lost, Went, Supported, Dims, FullyConst, StaticLower
<1> QED
  BY <1>1, <1>2 DEF ArrayInv

-----------------------------------------------------------------------------
(* The theorems.                                                           *)

\* Whatever shapes there are and however far an array travels, what the compiler
\* has of its bounds describes the array: the lower bounds, the sizes, and the
\* storage, in ArrayInfo or in the slots that ArrayDeclaration, the five
\* arguments of a parameter, a nested procedure or a field left.
THEOREM ArrayInvariant == ArraySpec => []ArrayInv
<1>1. Declare => ArrayInv
  BY DeclareArrayInv
<1>2. ArrayInv /\ [Travel]_journey => ArrayInv'
  <2> SUFFICES ASSUME ArrayInv, [Travel]_journey
               PROVE  ArrayInv'
    OBVIOUS
  <2>1. CASE DoRedeclare
    BY <2>1, StepRedeclare
  <2>2. CASE DoPass
    BY <2>2, StepPass
  <2>3. CASE DoPassValue
    BY <2>3, StepPassValue
  <2>4. CASE DoCapture
    BY <2>4, StepCapture
  <2>5. CASE DoMethod
    <3>1. AtHome /\ \E compiled \in BOOLEAN : Step("method", Field(compiled))
      BY <2>5 DEF DoMethod
    <3> QED
      BY <3>1, StepField
  <2>6. CASE DoRemote
    <3>1. AtHome /\ Step("remote", Field(FALSE))
      BY <2>6 DEF DoRemote
    <3> QED
      BY <3>1, StepField
  <2>7. CASE UNCHANGED journey
    BY <2>7, Stutter
  <2> QED
    BY <2>1, <2>2, <2>3, <2>4, <2>5, <2>6, <2>7 DEF Travel
<1> QED
  BY <1>1, <1>2, PTL DEF ArraySpec

\* Along every supported way an index in the bounds reaches its own element,
\* inside the storage, and is never refused: ArrayAssignment::codegen and the
\* array part of ProcedureCall::codegen agree with the declaration, for every
\* number of dimensions and all bounds.
THEOREM ElementsRight == ArraySpec => []RightElement
BY ArrayInvariant, ArrayInvRightElement, PTL

\* Along every supported way that does not lead through a field of a class, an
\* index outside the bounds of a non-empty array stops the program, and
\* LOWERBOUND and UPPERBOUND answer with the declared bounds.
THEOREM BoundsKept == ArraySpec => []BoundsSurvive
BY ArrayInvariant, ArrayInvBoundsSurvive, PTL

=============================================================================
