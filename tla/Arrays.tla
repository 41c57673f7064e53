-------------------------------- MODULE Arrays --------------------------------
(***************************************************************************)
(* What the compiler (src/codegen.cpp) knows of an array where it is used. *)
(* An array is declared in the main block, in a procedure or in a class;   *)
(* the code that indexes it stands there, in a procedure it was passed to, *)
(* in a nested procedure, in a method of the class, or outside the object. *)
(* At each of these steps the compiler makes a new ArrayInfo and new       *)
(* hidden variables for the bounds.  They must still describe the array:   *)
(* an index is checked against them, and the element's address is computed *)
(* from them.                                                              *)
(***************************************************************************)
EXTENDS Integers, Sequences

CONSTANTS
    Shapes,     \* the bound pairs tried, as sequences of [lo, n]: n elements
    Later,      \* those of a second declaration of the same name
    MaxSteps    \* how far the array may travel

\* At least one dimension; n is the upper bound minus the lower one plus one.
IsShape(dims) == dims \in Seq([lo : Int, n : Int]) /\ dims # <<>>

ASSUME StepsAssumption  == MaxSteps \in Nat
ASSUME ShapesAssumption == \A dims \in Shapes \cup Later : IsShape(dims)

Places == {"main", "procedure", "class"}
\* Which bounds are constants: all of them, both of dimension one, the lower
\* one of dimension one, or none.
Constness == {"all", "first", "lower", "none"}

VARIABLES
    arr,        \* the declaration: its dims, constness and place
    info,       \* ArrayInfo: what the compiler knows statically
    slots,      \* the companions a__lo, a__n1, a__hi, ... in scope, with values
    alloc,      \* the elements of the storage that basePtr points to
    route       \* how the array came here

journey == <<arr, info, slots, alloc, route>>

AtLeastOne(n) == IF n <= 0 THEN 1 ELSE n
Dims          == Len(arr.dims)

\* The product of the first k of n numbers, for each k.
Products(n, s) ==
    LET product[k \in 0..n] == IF k = 0 THEN 1 ELSE product[k - 1] * s[k]
    IN product

Product(s)  == Products(Len(s), s)[Len(s)]
Sizes(dims) == [k \in 1..Len(dims) |-> dims[k].n]

\* The slots of dimension k: a__lo and a__n1, a__lo2 and a__stride, a__lo3 and
\* a__stride2, a__lo4 and a__n4 and so on.  Parameters have a__hi as well.
Lo(k) == <<"lo", k>>
N(k)  == <<"n", k>>
Hi    == <<"hi", 1>>
Has(s) == s \in DOMAIN slots

NoSlots == [s \in {} |-> 0]

-----------------------------------------------------------------------------
(* ArrayDeclaration::codegen                                               *)

\* All bounds are constants: they go into ArrayInfo, and no slot is needed.
\* A dimension of size zero or less is taken to have one element.
ConstantInfo(dims, place) ==
    LET size(k) == IF k <= Len(dims) THEN AtLeastOne(dims[k].n) ELSE 0
        lo(k)   == IF k <= Len(dims) THEN dims[k].lo ELSE 0
    IN [ lower  |-> [k \in 1..3 |-> lo(k)],
         stride |-> [k \in 2..3 |-> size(k)],
         size   |-> Product([k \in 1..Len(dims) |-> size(k)]),
         dyn    |-> {},
         extra  |-> 0,
         global |-> place = "main" ]

\* Otherwise the array is on the heap and the bounds are in slots, save a
\* constant lower bound of dimension one.
DynamicInfo(dims, const) ==
    [ lower  |-> [k \in 1..3 |->
                    IF k = 1 /\ const \in {"all", "first"} THEN dims[1].lo ELSE 0],
      stride |-> [k \in 2..3 |-> 0],
      size   |-> 0,
      dyn    |-> (2..3) \cap (1..Len(dims)),
      extra  |-> IF Len(dims) > 3 THEN Len(dims) - 3 ELSE 0,
      global |-> FALSE ]

DynamicSlots(dims, const) ==
    LET low == IF const \in {"all", "first"} THEN 2..Len(dims) ELSE 1..Len(dims)
    IN [ s \in {Lo(k) : k \in low} \cup {N(k) : k \in 1..Len(dims)} |->
           IF s[1] = "lo" THEN dims[s[2]].lo ELSE dims[s[2]].n ]

FullyConst(dims, const) == const = "all" /\ Len(dims) <= 3

Declaration(dims, const, place) ==
    [dims |-> dims, const |-> const, place |-> place]

Declare ==
    \E dims \in Shapes, const \in Constness, place \in Places :
        /\ arr   = Declaration(dims, const, place)
        /\ route = <<>>
        /\ IF FullyConst(dims, const)
           THEN /\ info  = ConstantInfo(dims, place)
                /\ slots = NoSlots
                /\ alloc = info.size
           ELSE /\ info  = DynamicInfo(dims, const)
                /\ slots = DynamicSlots(dims, const)
                /\ alloc = Product(Sizes(dims))

\* A block ends and a later one declares an array of the same name.  The slots
\* are locals and go with the first block; ctx.arrays keeps the entry, and the
\* second declaration returns early when it finds it.
Redeclare(dims, const) ==
    /\ arr'   = Declaration(dims, const, arr.place)
    /\ slots' = NoSlots
    /\ UNCHANGED <<info, alloc>>

-----------------------------------------------------------------------------
(* Indexing.                                                               *)

\* The size of dimension one is the total size with the others divided out.
\* Faulty variant: it is taken for the total size.
StaticCountFlat == info.size

StaticCount ==
    LET over(a, k) == IF info.stride[k] > 0 THEN a \div info.stride[k] ELSE a
    IN over(over(info.size, 2), 3)

\* arrayFirstDimSize; 0 stands for the null pointer, for both mean no check.
FirstDimSize ==
    IF info.size > 0 THEN StaticCount
    ELSE IF Has(N(1)) THEN slots[N(1)]
    ELSE IF Has(Hi) /\ Has(Lo(1)) THEN slots[Hi] - slots[Lo(1)] + 1
    ELSE 0

\* Is the size more than the null pointer?
FirstDimKnown == info.size > 0 \/ Has(N(1)) \/ (Has(Hi) /\ Has(Lo(1)))

\* emitDimCheck: does the check stop the program?
DimCheck(idx, lo, size) == size > 0 /\ (idx < lo \/ idx > lo + size - 1)

FirstLower == IF Has(Lo(1)) THEN slots[Lo(1)] ELSE info.lower[1]

\* Does the code for an index of dimension k get generated?  The third and
\* later dimensions are nested in the code of the second; a missing slot ends
\* the dimensions from the fourth on.
Folded(k) ==
    LET second == info.stride[2] # 0 \/ 2 \in info.dyn
    IN CASE k = 1 -> TRUE
         [] k = 2 -> second
         [] k = 3 -> second /\ (info.stride[3] # 0 \/ 3 \in info.dyn)
         [] k > 3 -> /\ second
                     /\ k - 3 <= info.extra
                     /\ \A j \in 4..k : Has(Lo(j)) /\ Has(N(j))

InSlots(k) == k > 3 \/ k \in info.dyn

LowerOf(k) == IF k = 1 THEN FirstLower
              ELSE IF InSlots(k) THEN slots[Lo(k)] ELSE info.lower[k]
SizeOf(k)  == IF k = 1 THEN FirstDimSize
              ELSE IF InSlots(k) THEN slots[N(k)] ELSE info.stride[k]

\* The compiler loads from a slot that it does not have: it cannot compile
\* this use of the array.
Uncompilable ==
    \E k \in 2..3 :
        k <= Dims /\ Folded(k) /\ k \in info.dyn /\ ~(Has(Lo(k)) /\ Has(N(k)))

\* The first k indexes: do they stop the program, and where do they lead?
Folding(idx) ==
    LET fold[k \in 0..Dims] ==
            IF k = 0 THEN [trap |-> FALSE, off |-> 0]
            ELSE IF Folded(k)
            THEN [ trap |-> \/ fold[k - 1].trap
                            \/ DimCheck(idx[k], LowerOf(k), SizeOf(k)),
                   off  |-> fold[k - 1].off * SizeOf(k) + idx[k] - LowerOf(k) ]
            ELSE fold[k - 1]
    IN fold

\* ArrayAssignment::codegen and the array part of ProcedureCall::codegen: is
\* the program stopped, and which element of the storage is addressed?
ElementAt(idx) == Folding(idx)[Dims]

\* emitArrayElemAddr: the address of an element assigned through a NAME
\* parameter; two dimensions, and no check.
ElemAddr(idx) ==
    IF Dims >= 2 /\ Folded(2)
    THEN (idx[1] - FirstLower) * SizeOf(2) + idx[2] - LowerOf(2)
    ELSE idx[1] - FirstLower

\* OBJ.A(i) and OBJ.A(i) := v outside the class; no check.
MemberElement(idx) == idx[1] - info.lower[1]

\* LOWERBOUND and UPPERBOUND of dimension k.
LowerBound(k) ==
    CASE Has(Lo(k))             -> slots[Lo(k)]
      [] ~Has(Lo(k)) /\ k <= 3  -> info.lower[k]
      [] OTHER                  -> 0

UpperBound(k) ==
    LET extent ==
            CASE k = 1 /\ FirstDimKnown      -> FirstDimSize
              [] k > 1 /\ Has(N(k))          -> slots[N(k)]
              [] k \in 2..3 /\ ~Has(N(k))    -> AtLeastOne(info.stride[k])
              [] OTHER                       -> 1
    IN LowerBound(k) + extent - 1

-----------------------------------------------------------------------------
(* The ways of an array.                                                   *)

\* The five arguments of an actual array, and what the procedure makes of
\* them: base, lo, hi, lo2, stride.  An unknown size is passed as hi = lo - 1.
FormalSlots ==
    LET lo == FirstLower
        hi == CASE Has(Hi) -> slots[Hi]
                [] ~Has(Hi) /\ FirstDimKnown -> lo + FirstDimSize - 1
                [] OTHER -> lo - 1
    IN [ s \in {Lo(1), Hi, N(1), Lo(2), N(2)} |->
           CASE s = Lo(1) -> lo
             [] s = Hi    -> hi
             [] s = N(1)  -> hi - lo + 1
             [] s = Lo(2) -> IF 2 \in info.dyn /\ Has(Lo(2)) THEN slots[Lo(2)]
                             ELSE info.lower[2]
             [] s = N(2)  -> IF 2 \in info.dyn /\ Has(N(2)) THEN slots[N(2)]
                             ELSE AtLeastOne(info.stride[2]) ]

FormalInfo ==
    [ lower |-> [k \in 1..3 |-> 0], stride |-> [k \in 2..3 |-> 0], size |-> 0,
      dyn |-> {2}, extra |-> 0, global |-> FALSE ]

Pass ==
    /\ slots' = FormalSlots
    /\ info'  = FormalInfo
    /\ UNCHANGED <<arr, alloc>>

\* A VALUE array: the procedure copies as many elements as it knows of.
PassValue ==
    /\ slots' = FormalSlots
    /\ info'  = FormalInfo
    /\ alloc' = FormalSlots[N(1)] * FormalSlots[N(2)]
    /\ UNCHANGED arr

\* A nested procedure gets the base pointer and some of the slots; a global
\* array it simply uses, and one of four dimensions it does not get at all.
Capture ==
    LET two  == \/ info.stride[2] > 0
                \/ 2 \in info.dyn /\ (Has(Lo(2)) \/ Has(N(2)) \/ info.lower[2] # 0)
        kept == {s \in {Lo(1), N(1)} : Has(s) /\ (s = Lo(1) => info.lower[1] = 0)}
        down == IF two THEN {Lo(2), N(2)} ELSE {}
    IN /\ ~info.global /\ info.extra = 0
       /\ slots' = [ s \in kept \cup down |->
                       IF Has(s) THEN slots[s]
                       ELSE IF s = Lo(2) THEN info.lower[2]
                       ELSE AtLeastOne(info.stride[2]) ]
       /\ info'  = [info EXCEPT !.dyn = IF two THEN @ \cup {2} ELSE @]
       /\ UNCHANGED <<arr, alloc>>

\* A method, or code outside the object, knows an array field by arrayMeta:
\* its lower bound if that was written as a number, and otherwise 1; and its
\* size only where the class body has been compiled before, which holds for
\* the methods of subclasses declared further in.
StaticLower ==
    LET first == arr.dims[1].lo
    IN IF arr.const # "none" /\ first >= 0 THEN first ELSE 1

\* Faulty variant: the lower bound of ArrayInfo, which is 0 for a dynamic
\* array, is what is kept.
FieldZero(compiled) ==
    /\ arr.place = "class"
    /\ info'  = [ FormalInfo EXCEPT
                    !.lower[1] = IF arr.const = "all" THEN arr.dims[1].lo ELSE 0,
                    !.size     = IF compiled THEN info.size ELSE 0,
                    !.dyn      = {} ]
    /\ slots' = NoSlots
    /\ UNCHANGED <<arr, alloc>>

Field(compiled) ==
    /\ arr.place = "class"
    /\ info'  = [ FormalInfo EXCEPT
                    !.lower[1] = StaticLower,
                    !.size     = IF compiled THEN info.size ELSE 0,
                    !.dyn      = {} ]
    /\ slots' = NoSlots
    /\ UNCHANGED <<arr, alloc>>

-----------------------------------------------------------------------------

Went(way) == \E i \in 1..Len(route) : route[i] = way
AtHome    == \A i \in 1..Len(route) : route[i] = "redeclare"

Step(name, A) == Len(route) < MaxSteps /\ route' = Append(route, name) /\ A

DoRedeclare ==
    /\ AtHome /\ arr.place # "class"
    /\ \E dims \in Later, const \in Constness :
          Step("redeclare", Redeclare(dims, const))

Outside == ~AtHome /\ route[Len(route)] = "remote"

DoPass      == ~Outside /\ Step("pass", Pass)
DoPassValue == ~Outside /\ Step("value", PassValue)
DoCapture   == /\ ~Outside /\ ~(AtHome /\ arr.place = "class")
               /\ Step("capture", Capture)
DoMethod    == AtHome /\ \E compiled \in BOOLEAN : Step("method", Field(compiled))
DoRemote    == AtHome /\ Step("remote", Field(FALSE))

Travel == \/ DoRedeclare \/ DoPass \/ DoPassValue \/ DoCapture
          \/ DoMethod \/ DoRemote

ArraySpec == Declare /\ [][Travel]_journey

-----------------------------------------------------------------------------
(* Properties.                                                             *)

\* The elements are in row-major order from the lower bounds.
RowMajors(dims, idx) ==
    LET at[k \in 0..Len(dims)] ==
            IF k = 0 THEN 0 ELSE at[k - 1] * dims[k].n + idx[k] - dims[k].lo
    IN at

RowMajor(idx) == RowMajors(arr.dims, idx)[Dims]

\* The indexes tried: each may be one too low or one too high.
Around(dim) == (dim.lo - 1)..(dim.lo + dim.n)

Box(dims) ==
    { idx \in [1..Len(dims) -> UNION {Around(dims[k]) : k \in 1..Len(dims)}] :
        \A k \in 1..Len(dims) : idx[k] \in Around(dims[k]) }

InRange(idx) ==
    \A k \in 1..Dims : idx[k] \in arr.dims[k].lo..(arr.dims[k].lo + arr.dims[k].n - 1)

NonEmpty == \A k \in 1..Dims : arr.dims[k].n > 0

\* What the compiler supports: the name is declared in one block only; arrays
\* of three or more dimensions are not passed on, and into nested procedures
\* only with constant bounds; arrays of a class, where a method or the outside
\* uses them, have one dimension whose lower bound is written as a number, or
\* is 1, and are then not passed by value.
Supported ==
    /\ ~Went("redeclare")
    /\ Dims >= 3 => /\ ~Went("pass") /\ ~Went("value")
                    /\ Went("capture") => FullyConst(arr.dims, arr.const)
    /\ Went("method") \/ Went("remote") =>
          Dims = 1 /\ StaticLower = arr.dims[1].lo /\ ~Went("value")

\* Along every supported way an index in the bounds reaches its own element,
\* inside the storage, whether it is read, assigned, or assigned through a NAME
\* parameter, and is never refused.
RightElement ==
    Supported =>
        /\ ~Uncompilable
        /\ \A idx \in Box(arr.dims) :
              InRange(idx) =>
                 LET off == RowMajor(idx)
                 IN /\ off \in 0..(alloc - 1)
                    /\ ElementAt(idx) = [trap |-> FALSE, off |-> off]
                    /\ Dims <= 2 => ElemAddr(idx) = off
                    /\ Outside => MemberElement(idx) = off

\* Along every supported way that does not lead through a field of a class, and
\* for arrays without an empty dimension, the bounds stay what was declared: any
\* index outside stops the program, and the bounds inquiries answer right.
BoundsSurvive ==
    Supported /\ NonEmpty /\ ~Went("method") /\ ~Went("remote") =>
        /\ \A idx \in Box(arr.dims) : ~InRange(idx) => ElementAt(idx).trap
        /\ \A k \in 1..Dims :
              /\ LowerBound(k) = arr.dims[k].lo
              /\ UpperBound(k) = arr.dims[k].lo + arr.dims[k].n - 1

\* README.md:241 of the repository: bounds checking "covers constant-bound
\* arrays, dynamically-bound *local* arrays, and array *parameters*, checked per
\* dimension.  The one uncovered case is a dynamic class array *field* passed as
\* an argument".  It does not hold: outside the object no index is checked, and no
\* run lists it.
CheckedButOneCase ==
    /\ Dims <= 2 /\ NonEmpty /\ ~Went("redeclare")
    /\ ~(arr.place = "class" /\ arr.const # "all" /\ Went("pass"))
    => \A idx \in Box(arr.dims) : ~InRange(idx) => ~Outside /\ ElementAt(idx).trap

=============================================================================
