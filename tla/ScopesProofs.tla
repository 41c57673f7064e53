---------------------------- MODULE ScopesProofs ----------------------------
(***************************************************************************)
(* Proofs about Scopes, for any names, classes and attributes, and for     *)
(* programs of any length and depth.                                       *)
(*                                                                         *)
(* The tables of CodeGenContext only ever describe the construct that was  *)
(* opened last; those of the constructs around it are what was saved.  The *)
(* inductive invariant IInv says of every open construct that the context  *)
(* that belongs to it fits the constructs up to it: which of their         *)
(* declarations each table holds.  A construct that ends then puts back a  *)
(* context that fits.                                                      *)
(***************************************************************************)
EXTENDS Scopes, SequencesExt, SequenceTheorems, WellFoundedInduction, TLAPS

-----------------------------------------------------------------------------
(* The least element of a set of numbers.                                  *)

\* Every non-empty set of natural numbers has a least element, and Min is it.
LEMMA MinNat ==
    ASSUME NEW S \in SUBSET Nat, S # {}
    PROVE  /\ Min(S) \in S
           /\ \A n \in S : Min(S) <= n
<1>1. PICK m \in S : \A n \in S : ~ (<<n, m>> \in OpToRel(<, Nat))
  BY NatLessThanWellFounded, WFMin, Zenon
<1>2. ASSUME NEW n \in S, n < m
      PROVE  FALSE
  <2>1. <<n, m>> \in {r \in Nat \X Nat : r[1] < r[2]}
    BY <1>2
  <2> QED
    BY <1>1, <2>1, Zenon DEF OpToRel
<1>3. \A n \in S : m <= n
  BY <1>2
<1> QED
  BY <1>3 DEF Min

-----------------------------------------------------------------------------
(* Types.                                                                  *)

Sort == {"local", "global", "name", "field"}
Var  == [id : Nat, name : Name, sort : Sort, fn : Nat]
Obj  == [sort : {"object"}, id : Nat, class : Class, fn : Nat]

\* The tables: partial functions from names to variables.
Table == UNION {[D -> Var] : D \in SUBSET Name}

FunctionKind == {"procedure", "method", "classbody"}
ObjectKind   == {"inspect", "method", "classbody"}
Kind         == {"block"} \cup FunctionKind \cup ObjectKind

CodeGenContext ==
    [ fn : Nat, nameParams : Table, locals : Table, globals : Table,
      this : Obj \cup {NoObject}, methodThis : Obj \cup {NoObject},
      insideMethod : BOOLEAN, inspectStack : Seq(Obj),
      declared : SUBSET Name, inMainBlock : BOOLEAN ]

Frame == [ id : Nat, kind : Kind, names : Table,
           phase : {"declarations", "statements"}, saved : CodeGenContext ]

TypeOK ==
    /\ ctx \in CodeGenContext
    /\ frames \in Seq(Frame) /\ frames # << >>
    /\ opened \in Nat
    /\ clobbered \subseteq Name

-----------------------------------------------------------------------------
(* The constructs, as a sequence fr of frames.                             *)

SortsIn(kind) ==
    CASE kind = "block"     -> {"local", "global"}
      [] kind = "procedure" -> {"local", "name"}
      [] kind = "method"    -> {"local", "name", "field"}
      [] OTHER              -> {"field"}

\* No function begins between the frames j and k.
SameFunction(fr, j, k) == \A i \in (j + 1)..k : fr[i].kind \notin FunctionKind
FunctionFrame(fr, k, h) ==
    h \in 1..k /\ fr[h].kind \in FunctionKind /\ SameFunction(fr, h, k)
InMain(fr, k) == SameFunction(fr, 0, k)

Declares(fr, j, n, sort) ==
    n \in DOMAIN fr[j].names /\ fr[j].names[n].sort = sort

\* The frames that declare n as a local of the function that frame k is in.
Locals(fr, k, n) ==
    {j \in 1..k : SameFunction(fr, j, k) /\ Declares(fr, j, n, "local")}

\* The frames up to k that have an object, and the methods among them.
Objects(fr, k) == {j \in 1..k : fr[j].kind \in ObjectKind}
Methods(fr, k) == {j \in 1..k : fr[j].kind = "method"}

Innermost(S, j) == j \in S /\ \A i \in S : i <= j

-----------------------------------------------------------------------------
(* What each table holds of the frames fr up to k, for a context c.        *)

LocalsFit(fr, c, k) ==
    \A n \in Name :
        /\ n \in DOMAIN c.locals <=> Locals(fr, k, n) # {}
        /\ \A j : Innermost(Locals(fr, k, n), j) => c.locals[n] = fr[j].names[n]
        /\ n \in DOMAIN c.locals => c.locals[n].fn = c.fn

\* The function frame h captures n from what surrounds it.
Captures(fr, h, n) == fr[h].kind = "procedure" /\ Locals(fr, h - 1, n) # {}

IsNameParam(fr, h, n) == Declares(fr, h, n, "name") \/ Captures(fr, h, n)

\* The entry for n in the function of frame h: what it captures comes first.
EntryFits(fr, c, h, n) ==
    IF Captures(fr, h, n)
    THEN \A j : Innermost(Locals(fr, h - 1, n), j)
                   => Same(c.nameParams[n], fr[j].names[n])
    ELSE Declares(fr, h, n, "name") => c.nameParams[n] = fr[h].names[n]

NameParamsFit(fr, c, k) ==
    \A n \in Name :
        /\ n \in DOMAIN c.nameParams <=>
             \E h : FunctionFrame(fr, k, h) /\ IsNameParam(fr, h, n)
        /\ \A h : FunctionFrame(fr, k, h) => EntryFits(fr, c, h, n)
        /\ n \in DOMAIN c.nameParams =>
             c.nameParams[n].fn = c.fn /\ c.nameParams[n].sort \in {"local", "name"}

\* The object of a frame: its attributes are names of the frame, save those
\* that a parameter of a method hides.
ObjectOf(obj, frame) ==
    /\ obj \in Obj /\ obj.id = frame.id
    /\ Fields[obj.class] \subseteq DOMAIN frame.names
    /\ \A n \in DOMAIN frame.names :
          frame.names[n].sort = "field" => n \in Fields[obj.class]

ThisFits(fr, c, k) ==
    /\ Objects(fr, k) = {} => c.this = NoObject
    /\ \A j : Innermost(Objects(fr, k), j) =>
          /\ ObjectOf(c.this, fr[j]) /\ c.this.fn = c.fn
          /\ fr[j].kind = "method" => c.this.class = c.methodThis.class

MethodThisFits(fr, c, k) ==
    /\ Methods(fr, k) = {} => c.methodThis = NoObject /\ ~ c.insideMethod
    /\ \A j \in Methods(fr, k) :
          ObjectOf(c.methodThis, fr[j]) /\ c.methodThis.fn = fr[j].id /\ c.insideMethod

\* The objects but for the innermost are on the stack, in their order.
StackFits(fr, c, k) ==
    LET stack == c.inspectStack IN
    /\ \A i \in DOMAIN stack :
          /\ stack[i].fn = c.fn
          /\ \E j \in Objects(fr, k) :
                ~ Innermost(Objects(fr, k), j) /\ ObjectOf(stack[i], fr[j])
    /\ \A i1, i2 \in DOMAIN stack : i1 < i2 => stack[i1].id < stack[i2].id
    /\ \A j \in Objects(fr, k) :
          ~ Innermost(Objects(fr, k), j) => \E i \in DOMAIN stack : stack[i].id = fr[j].id

FunctionFits(fr, c, k) ==
    /\ \A h : FunctionFrame(fr, k, h) => c.fn = fr[h].id
    /\ InMain(fr, k) => c.fn = 0
    /\ c.inMainBlock <=> \A j \in 1..k : fr[j].kind \notin {"procedure", "method"}

Fits(fr, c, k) ==
    /\ FunctionFits(fr, c, k)
    /\ LocalsFit(fr, c, k)
    /\ NameParamsFit(fr, c, k)
    /\ ThisFits(fr, c, k)
    /\ MethodThisFits(fr, c, k)
    /\ StackFits(fr, c, k)

\* What a construct of this kind leaves alone of the context around it, so that
\* its end need not put it back.
Leaves(kind, around, c) ==
    /\ kind \in {"block", "classbody", "inspect"} =>
          /\ c.nameParams = around.nameParams /\ c.methodThis = around.methodThis
          /\ c.insideMethod = around.insideMethod
          /\ c.inMainBlock = around.inMainBlock
    /\ kind \in {"block", "inspect"} => c.fn = around.fn
    /\ kind = "inspect" => c.locals = around.locals
    /\ kind = "block"   => c.this = around.this
    /\ kind \in {"block", "classbody"} => c.inspectStack = around.inspectStack
    /\ kind = "inspect" =>
          c.inspectStack = IF around.this = NoObject THEN around.inspectStack
                           ELSE Append(around.inspectStack, around.this)

-----------------------------------------------------------------------------
(* The invariant.                                                          *)

\* The context of frame k: the present one, or what the next frame saved.
Context(fr, c, k) == IF k = Len(fr) THEN c ELSE fr[k + 1].saved

FramesInv ==
    /\ \A k \in DOMAIN frames :
         /\ frames[k].id < opened
         /\ \A n \in DOMAIN frames[k].names :
               /\ frames[k].names[n].id = frames[k].id /\ frames[k].names[n].name = n
               /\ frames[k].names[n].sort \in SortsIn(frames[k].kind)
    /\ \A j, k \in DOMAIN frames : j < k => frames[j].id < frames[k].id
    /\ frames[1].kind = "block"

\* Methods and class bodies stand in the main block, and no procedure stands in
\* a connection or a class body.
NestingInv ==
    \A k \in DOMAIN frames :
        /\ frames[k].kind \in {"method", "classbody"} => k = 2
        /\ frames[k].kind = "procedure" =>
              \A j \in 1..k : frames[j].kind \notin {"inspect", "classbody"}

\* A global that no other declaration has displaced.
GlobalsInv ==
    /\ \A n \in DOMAIN ctx.globals : ctx.globals[n].sort = "global"
    /\ \A k \in DOMAIN frames, n \in Name :
         Declares(frames, k, n, "global") =>
           /\ \A j \in 1..k : frames[j].kind = "block"
           /\ n \notin clobbered =>
                /\ n \in DOMAIN ctx.globals /\ ctx.globals[n] = frames[k].names[n]
                /\ \A j \in 1..(k - 1) : ~ Declares(frames, j, n, "local")

ContextsInv ==
    /\ \A k \in DOMAIN frames : Fits(frames, Context(frames, ctx, k), k)
    /\ \A k \in DOMAIN frames \ {1} :
          Leaves(frames[k].kind, frames[k].saved, Context(frames, ctx, k))

IInv ==
    /\ TypeOK
    /\ FramesInv
    /\ NestingInv
    /\ GlobalsInv
    /\ ContextsInv

-----------------------------------------------------------------------------
(* Tables, and sets of frames.                                             *)

LEMMA TableFacts ==
    /\ \A t \in Table :
         /\ DOMAIN t \subseteq Name /\ \A n \in DOMAIN t : t[n] \in Var
         /\ t = [n \in DOMAIN t |-> t[n]]
    /\ \A D \in SUBSET Name : \A t \in [D -> Var] : t \in Table
  BY DEF Table

Bound(f, n, v, t) ==
    /\ t \in Table
    /\ DOMAIN t = DOMAIN f \cup {n}
    /\ t[n] = v
    /\ \A m \in DOMAIN f : m # n => t[m] = f[m]

LEMMA BindFacts ==
    ASSUME NEW f \in Table, NEW n \in Name, NEW v \in Var
    PROVE  Bound(f, n, v, Bind(f, n, v))
<1>1. DOMAIN f \cup {n} \in SUBSET Name /\ \A m \in DOMAIN f : f[m] \in Var
  BY TableFacts
<1>2. Bind(f, n, v) \in [DOMAIN f \cup {n} -> Var]
  BY <1>1 DEF Bind
<1> QED
  BY <1>1, <1>2, TableFacts DEF Bind, Bound

Laid(f, g, t) ==
    /\ t \in Table
    /\ DOMAIN t = DOMAIN f \cup DOMAIN g
    /\ \A n \in DOMAIN f : t[n] = f[n]
    /\ \A n \in DOMAIN g : n \notin DOMAIN f => t[n] = g[n]

LEMMA OverFacts ==
    ASSUME NEW f \in Table, NEW g \in Table
    PROVE  Laid(f, g, Over(f, g))
<1>1. /\ DOMAIN f \cup DOMAIN g \in SUBSET Name
      /\ \A m \in DOMAIN f : f[m] \in Var
      /\ \A m \in DOMAIN g : g[m] \in Var
  BY TableFacts
<1>2. Over(f, g) \in [DOMAIN f \cup DOMAIN g -> Var]
  BY <1>1 DEF Over
<1> QED
  BY <1>1, <1>2, TableFacts DEF Over, Laid

LEMMA EmptyFacts == Empty \in Table /\ DOMAIN Empty = {}
<1>1. {} \in SUBSET Name /\ Empty \in [{} -> Var] /\ DOMAIN Empty = {}
  BY DEF Empty
<1> QED
  BY <1>1, TableFacts

LEMMA VariableFacts ==
    \A id, n, sort, fn :
        /\ Variable(id, n, sort, fn).id = id /\ Variable(id, n, sort, fn).name = n
        /\ Variable(id, n, sort, fn).sort = sort /\ Variable(id, n, sort, fn).fn = fn
  BY DEF Variable

LEMMA ParametersFacts ==
    ASSUME opened \in Nat, NEW names \in SUBSET Name, NEW sort \in Sort
    PROVE  /\ Parameters(names, sort) \in Table
           /\ DOMAIN Parameters(names, sort) = names
           /\ \A n \in names :
                Parameters(names, sort)[n] = Variable(opened, n, sort, opened)
<1>1. Parameters(names, sort) \in [names -> Var]
  BY DEF Parameters, Variable, Var
<1> QED
  BY <1>1, TableFacts DEF Parameters

\* Among finitely many frames one is the innermost.
LEMMA InnermostExists ==
    ASSUME NEW k \in Nat, NEW S \in SUBSET (1..k), S # {}
    PROVE  \E j \in 1..k : Innermost(S, j)
<1> DEFINE B == {b \in Nat : \A i \in S : i <= b}
<1>1. B \in SUBSET Nat /\ k \in B
  OBVIOUS
<1>2. Min(B) \in B /\ \A b \in B : Min(B) <= b
  <2> HIDE DEF B
  <2> QED
    BY <1>1, MinNat
<1>3. PICK m \in Nat : m = Min(B)
  BY <1>2
<1>4. m \in Nat /\ (\A i \in S : i <= m) /\ \A b \in B : m <= b
  BY <1>2, <1>3
<1>5. PICK s \in S : TRUE
  OBVIOUS
<1>6. m >= 1
  BY <1>4, <1>5
<1>7. m \in S
  <2> SUFFICES ASSUME m \notin S PROVE FALSE
    OBVIOUS
  <2>1. \A i \in S : i <= m - 1
    BY <1>4
  <2>2. m - 1 \in B
    BY <1>6, <2>1
  <2> QED
    BY <1>4, <2>2
<1> QED
  BY <1>4, <1>7 DEF Innermost

\* It is the greatest of them.
LEMMA InnermostIsMax ==
    ASSUME NEW k \in Nat, NEW S \in SUBSET (1..k), NEW j \in S, Innermost(S, j)
    PROVE  Max(S) = j
<1>1. \A y \in S : j >= y
  BY DEF Innermost
<1>2. \A x \in S : (\A y \in S : x >= y) => x = j
  BY <1>1
<1> QED
  BY <1>1, <1>2 DEF Max

\* What of the frames up to k the tables depend on.
Agree(fr1, fr2, k) ==
    \A j \in 1..k : /\ fr1[j].kind = fr2[j].kind
                    /\ fr1[j].id = fr2[j].id
                    /\ fr1[j].names = fr2[j].names

SameTables(c, d) ==
    /\ c.fn = d.fn /\ c.nameParams = d.nameParams /\ c.locals = d.locals
    /\ c.this = d.this /\ c.methodThis = d.methodThis
    /\ c.insideMethod = d.insideMethod /\ c.inspectStack = d.inspectStack
    /\ c.inMainBlock = d.inMainBlock

LEMMA AgreeSets ==
    ASSUME NEW k \in Nat, NEW fr1, NEW fr2, Agree(fr1, fr2, k)
    PROVE  /\ \A j, i \in 0..k : SameFunction(fr1, j, i) <=> SameFunction(fr2, j, i)
           /\ \A i \in 0..k : \A n : Locals(fr1, i, n) = Locals(fr2, i, n)
           /\ \A i \in 0..k : Objects(fr1, i) = Objects(fr2, i) /\ Methods(fr1, i) = Methods(fr2, i)
           /\ \A h : FunctionFrame(fr1, k, h) <=> FunctionFrame(fr2, k, h)
           /\ InMain(fr1, k) <=> InMain(fr2, k)
           /\ \A j \in 1..k, n \in Name : Captures(fr1, j, n) <=> Captures(fr2, j, n)
<1>1. \A j, i \in 0..k : SameFunction(fr1, j, i) <=> SameFunction(fr2, j, i)
  BY DEF Agree, SameFunction
<1>2. \A i \in 0..k : \A n : Locals(fr1, i, n) = Locals(fr2, i, n)
  <2> TAKE i \in 0..k
  <2> TAKE n
  <2>1. \A j \in 1..i : SameFunction(fr1, j, i) /\ Declares(fr1, j, n, "local")
                   <=> SameFunction(fr2, j, i) /\ Declares(fr2, j, n, "local")
    BY <1>1 DEF Agree, Declares
  <2> QED
    BY <2>1 DEF Locals
<1>3. \A i \in 0..k : Objects(fr1, i) = Objects(fr2, i) /\ Methods(fr1, i) = Methods(fr2, i)
  BY DEF Agree, Objects, Methods
<1>4. \A h : FunctionFrame(fr1, k, h) <=> FunctionFrame(fr2, k, h)
  BY <1>1 DEF Agree, FunctionFrame
<1>5. InMain(fr1, k) <=> InMain(fr2, k)
  BY <1>1 DEF InMain
<1>6. \A j \in 1..k, n \in Name : Captures(fr1, j, n) <=> Captures(fr2, j, n)
  BY <1>2 DEF Agree, Captures
<1> QED
  BY <1>1, <1>2, <1>3, <1>4, <1>5, <1>6

\* A context fits as well in place of another with the same tables, and after
\* frames that do not differ in what the tables depend on.
LEMMA FitsCarries ==
    ASSUME NEW k \in Nat, NEW fr1, NEW fr2, Agree(fr1, fr2, k),
           NEW c, NEW d, SameTables(c, d), Fits(fr1, c, k)
    PROVE  Fits(fr2, d, k)
<1>1. FunctionFits(fr2, d, k)
  BY AgreeSets DEF Fits, FunctionFits, Agree, SameTables, FunctionFrame
<1>2. LocalsFit(fr2, d, k)
  <2>1. \A n \in Name : Locals(fr1, k, n) = Locals(fr2, k, n)
    BY AgreeSets
  <2>2. \A n \in Name : \A j : Innermost(Locals(fr1, k, n), j) => j \in 1..k
    BY DEF Innermost, Locals
  <2> QED
    BY <2>1, <2>2 DEF Fits, LocalsFit, Agree, SameTables
<1>3. NameParamsFit(fr2, d, k)
  <2>1. \A h : FunctionFrame(fr1, k, h) <=> FunctionFrame(fr2, k, h)
    BY AgreeSets
  <2>2. \A h : FunctionFrame(fr1, k, h) => h \in 1..k /\ h - 1 \in 0..k
    BY DEF FunctionFrame
  <2>3. \A h \in 1..k, n \in Name :
          /\ Locals(fr1, h - 1, n) = Locals(fr2, h - 1, n)
          /\ Captures(fr1, h, n) <=> Captures(fr2, h, n)
          /\ Declares(fr1, h, n, "name") <=> Declares(fr2, h, n, "name")
          /\ fr1[h].names = fr2[h].names
    <3> TAKE h \in 1..k, n \in Name
    <3>1. h - 1 \in 0..k
      OBVIOUS
    <3> QED
      BY <3>1, AgreeSets DEF Agree, Declares
  <2>4. \A h \in 1..k, n \in Name : \A j : Innermost(Locals(fr1, h - 1, n), j) => j \in 1..k
    BY DEF Innermost, Locals
  <2>5. NameParamsFit(fr1, d, k)
    BY DEF Fits, NameParamsFit, EntryFits, SameTables
  <2>6. \A h \in 1..k, n \in Name : IsNameParam(fr1, h, n) <=> IsNameParam(fr2, h, n)
    BY <2>3 DEF IsNameParam
  <2>7. \A h \in 1..k, n \in Name : EntryFits(fr1, d, h, n) => EntryFits(fr2, d, h, n)
    <3> TAKE h \in 1..k, n \in Name
    <3>1. \A j \in 1..k : fr1[j].names[n] = fr2[j].names[n]
      BY <2>3
    <3> QED
      BY <2>3, <2>4, <3>1 DEF EntryFits
  <2>8. \A h : FunctionFrame(fr1, k, h) => h \in 1..k
    BY <2>2
  <2> QED
    BY <2>1, <2>5, <2>6, <2>7, <2>8 DEF NameParamsFit
<1>4. /\ Objects(fr1, k) = Objects(fr2, k) /\ Methods(fr1, k) = Methods(fr2, k)
      /\ \A j \in Objects(fr1, k) \cup Methods(fr1, k) : j \in 1..k
      /\ \A j : Innermost(Objects(fr1, k), j) => j \in Objects(fr1, k)
      /\ \A j \in 1..k : /\ fr1[j].kind = fr2[j].kind /\ fr1[j].id = fr2[j].id
                         /\ \A obj : ObjectOf(obj, fr1[j]) <=> ObjectOf(obj, fr2[j])
  <2>1. Objects(fr1, k) = Objects(fr2, k) /\ Methods(fr1, k) = Methods(fr2, k)
    BY AgreeSets
  <2> QED
    BY <2>1 DEF Objects, Methods, Agree, ObjectOf, Innermost
<1>5. ThisFits(fr2, d, k)
  BY <1>4 DEF Fits, ThisFits, SameTables
<1>6. MethodThisFits(fr2, d, k)
  BY <1>4 DEF Fits, MethodThisFits, SameTables
<1>7. StackFits(fr2, d, k)
  <2>1. StackFits(fr1, d, k)
    BY DEF Fits, StackFits, SameTables
  <2>2. \A j \in Objects(fr1, k) :
          /\ fr1[j].id = fr2[j].id
          /\ \A obj : ObjectOf(obj, fr1[j]) <=> ObjectOf(obj, fr2[j])
    BY <1>4
  <2>3. Objects(fr1, k) = Objects(fr2, k)
    BY <1>4
  <2> QED
    BY <2>1, <2>2, <2>3 DEF StackFits
<1> QED
  BY <1>1, <1>2, <1>3, <1>5, <1>6, <1>7 DEF Fits

-----------------------------------------------------------------------------
(* A frame more.                                                           *)

LEMMA SetsInFunction ==
    ASSUME NEW k \in Nat, NEW fr, fr[k + 1].kind \notin FunctionKind
    PROVE  /\ \A h : FunctionFrame(fr, k + 1, h) <=> FunctionFrame(fr, k, h)
           /\ InMain(fr, k + 1) <=> InMain(fr, k)
           /\ \A n : ~ Declares(fr, k + 1, n, "local")
                        => Locals(fr, k + 1, n) = Locals(fr, k, n)
           /\ \A n : Declares(fr, k + 1, n, "local")
                        => Locals(fr, k + 1, n) = Locals(fr, k, n) \cup {k + 1}
<1>1. \A j \in 0..k : SameFunction(fr, j, k + 1) <=> SameFunction(fr, j, k)
  <2> TAKE j \in 0..k
  <2>1. (j + 1)..(k + 1) = ((j + 1)..k) \cup {k + 1}
    OBVIOUS
  <2> QED
    BY <2>1 DEF SameFunction
<1>2. SameFunction(fr, k + 1, k + 1)
  BY DEF SameFunction
<1>3. 1..(k + 1) = 1..k \cup {k + 1} /\ \A j \in 1..k : j \in 0..k
  OBVIOUS
<1> QED
  BY <1>1, <1>2, <1>3 DEF FunctionFrame, InMain, Locals

LEMMA SetsOfFunction ==
    ASSUME NEW k \in Nat, NEW fr, fr[k + 1].kind \in FunctionKind
    PROVE  /\ \A h : FunctionFrame(fr, k + 1, h) <=> h = k + 1
           /\ ~ InMain(fr, k + 1)
           /\ \A n : Locals(fr, k + 1, n)
                       = IF Declares(fr, k + 1, n, "local") THEN {k + 1} ELSE {}
<1>1. \A j \in 0..k : ~ SameFunction(fr, j, k + 1)
  BY DEF SameFunction
<1>2. SameFunction(fr, k + 1, k + 1)
  BY DEF SameFunction
<1>3. 1..(k + 1) = 1..k \cup {k + 1} /\ \A j \in 1..k : j \in 0..k
  OBVIOUS
<1> QED
  BY <1>1, <1>2, <1>3 DEF FunctionFrame, InMain, Locals

LEMMA SetsOfObjects ==
    ASSUME NEW k \in Nat, NEW fr
    PROVE  /\ Objects(fr, k + 1) = IF fr[k + 1].kind \in ObjectKind
                                   THEN Objects(fr, k) \cup {k + 1} ELSE Objects(fr, k)
           /\ Methods(fr, k + 1) = IF fr[k + 1].kind = "method"
                                   THEN Methods(fr, k) \cup {k + 1} ELSE Methods(fr, k)
           /\ fr[k + 1].kind \in ObjectKind =>
                \A j : Innermost(Objects(fr, k + 1), j) <=> j = k + 1
<1>1. 1..(k + 1) = 1..k \cup {k + 1}
  OBVIOUS
<1>2. Objects(fr, k) \subseteq 1..k
  BY DEF Objects
<1> QED
  BY <1>1, <1>2 DEF Objects, Methods, Innermost

LEMMA PushBlock ==
    ASSUME NEW k \in Nat, NEW fr, NEW c, NEW d, Fits(fr, c, k), SameTables(c, d),
           fr[k + 1].kind = "block", DOMAIN fr[k + 1].names = {}
    PROVE  Fits(fr, d, k + 1)
<1>1. /\ fr[k + 1].kind \notin FunctionKind /\ fr[k + 1].kind \notin ObjectKind
      /\ fr[k + 1].kind # "method" /\ fr[k + 1].kind # "procedure"
      /\ \A n : ~ Declares(fr, k + 1, n, "local")
  BY DEF FunctionKind, ObjectKind, Declares
<1>2. /\ \A h : FunctionFrame(fr, k + 1, h) <=> FunctionFrame(fr, k, h)
      /\ InMain(fr, k + 1) <=> InMain(fr, k)
      /\ \A n : Locals(fr, k + 1, n) = Locals(fr, k, n)
      /\ Objects(fr, k + 1) = Objects(fr, k) /\ Methods(fr, k + 1) = Methods(fr, k)
  BY <1>1, SetsInFunction, SetsOfObjects
<1>3. 1..(k + 1) = 1..k \cup {k + 1}
  OBVIOUS
<1>4. Fits(fr, d, k)
  BY FitsCarries DEF Agree
<1>5. FunctionFits(fr, d, k + 1)
  BY <1>1, <1>2, <1>3, <1>4 DEF Fits, FunctionFits
<1>6. LocalsFit(fr, d, k + 1)
  BY <1>2, <1>4 DEF Fits, LocalsFit
<1>7. NameParamsFit(fr, d, k + 1)
  BY <1>2, <1>4 DEF Fits, NameParamsFit
<1>8. ThisFits(fr, d, k + 1) /\ MethodThisFits(fr, d, k + 1) /\ StackFits(fr, d, k + 1)
  BY <1>2, <1>4 DEF Fits, ThisFits, MethodThisFits, StackFits
<1> QED
  BY <1>5, <1>6, <1>7, <1>8 DEF Fits

\* Connecting an object.
LEMMA PushInspect ==
    ASSUME NEW k \in Nat, NEW fr, NEW c \in CodeGenContext, NEW d, Fits(fr, c, k),
           fr[k + 1].kind = "inspect",
           \A n \in DOMAIN fr[k + 1].names : fr[k + 1].names[n].sort = "field",
           \A i, j \in 1..(k + 1) : i < j => fr[i].id < fr[j].id,
           \A j \in 1..(k + 1) : fr[j].id \in Nat,
           d.fn = c.fn, d.locals = c.locals, d.nameParams = c.nameParams,
           d.methodThis = c.methodThis, d.insideMethod = c.insideMethod,
           d.inMainBlock = c.inMainBlock,
           ObjectOf(d.this, fr[k + 1]), d.this.fn = c.fn,
           d.inspectStack = IF c.this = NoObject THEN c.inspectStack
                            ELSE Append(c.inspectStack, c.this)
    PROVE  Fits(fr, d, k + 1)
<1>1. /\ fr[k + 1].kind \notin FunctionKind /\ fr[k + 1].kind \in ObjectKind
      /\ fr[k + 1].kind # "method" /\ fr[k + 1].kind # "procedure"
      /\ \A n : ~ Declares(fr, k + 1, n, "local")
  BY DEF FunctionKind, ObjectKind, Declares
<1>2. /\ \A h : FunctionFrame(fr, k + 1, h) <=> FunctionFrame(fr, k, h)
      /\ InMain(fr, k + 1) <=> InMain(fr, k)
      /\ \A n : Locals(fr, k + 1, n) = Locals(fr, k, n)
      /\ Methods(fr, k + 1) = Methods(fr, k)
  BY <1>1, SetsInFunction, SetsOfObjects
<1>3. 1..(k + 1) = 1..k \cup {k + 1}
  OBVIOUS
<1>4. /\ Objects(fr, k + 1) = Objects(fr, k) \cup {k + 1} /\ Objects(fr, k) \subseteq 1..k
      /\ \A j : Innermost(Objects(fr, k + 1), j) <=> j = k + 1
  BY <1>1, SetsOfObjects DEF Objects
<1>5. FunctionFits(fr, d, k + 1)
  BY <1>1, <1>2, <1>3 DEF Fits, FunctionFits
<1>6. LocalsFit(fr, d, k + 1)
  BY <1>2 DEF Fits, LocalsFit
<1>7. NameParamsFit(fr, d, k + 1)
  BY <1>2 DEF Fits, NameParamsFit, EntryFits
<1>8. ThisFits(fr, d, k + 1) /\ MethodThisFits(fr, d, k + 1)
  BY <1>1, <1>2, <1>4 DEF Fits, ThisFits, MethodThisFits
<1>9. StackFits(fr, d, k + 1)
  <2> DEFINE stack == c.inspectStack
  <2>1. stack \in Seq(Obj) /\ c.this \in Obj \cup {NoObject} /\ StackFits(fr, c, k)
    BY DEF Fits, CodeGenContext
  <2>2. CASE Objects(fr, k) = {}
    <3>1. c.this = NoObject
      BY <2>2 DEF Fits, ThisFits
    <3>2. d.inspectStack = stack /\ DOMAIN stack = {}
      BY <2>1, <2>2, <3>1 DEF StackFits
    <3> QED
      BY <1>4, <2>2, <3>2 DEF StackFits
  <2>3. CASE Objects(fr, k) # {}
    <3>1. Objects(fr, k) \in SUBSET (1..k)
      BY <1>4
    <3>2. PICK t \in 1..k : Innermost(Objects(fr, k), t)
      BY <2>3, <3>1, InnermostExists
    <3>3. ObjectOf(c.this, fr[t]) /\ c.this.fn = c.fn /\ c.this \in Obj
      BY <3>2 DEF Fits, ThisFits, ObjectOf
    <3>4. c.this # NoObject
      BY <3>3 DEF Obj, NoObject
    <3>5. PICK s : s = Append(stack, c.this)
      OBVIOUS
    <3>6. PICK L \in Nat : L = Len(stack)
      BY <2>1
    <3>7. /\ d.inspectStack = s /\ s \in Seq(Obj) /\ DOMAIN s = 1..(L + 1)
          /\ \A i \in 1..L : s[i] = stack[i]
          /\ s[L + 1] = c.this /\ DOMAIN stack = 1..L
      BY <2>1, <3>3, <3>4, <3>5, <3>6, AppendProperties
    <3>8. /\ t \in Objects(fr, k) /\ t # k + 1 /\ c.this.id = fr[t].id
          /\ \A j \in Objects(fr, k) : Innermost(Objects(fr, k), j) <=> j = t
      BY <1>4, <3>2, <3>3 DEF Innermost, ObjectOf
    <3> HIDE DEF stack
    <3>9. \A i \in 1..L :
            /\ stack[i].fn = c.fn
            /\ \E j \in Objects(fr, k) : j # t /\ ObjectOf(stack[i], fr[j])
      BY <2>1, <3>7, <3>8 DEF StackFits, stack
    <3>10. \A i \in 1..(L + 1) :
             /\ s[i].fn = d.fn
             /\ \E j \in Objects(fr, k + 1) :
                   ~ Innermost(Objects(fr, k + 1), j) /\ ObjectOf(s[i], fr[j])
      <4> TAKE i \in 1..(L + 1)
      <4>1. CASE i = L + 1
        BY <1>4, <3>3, <3>7, <3>8, <4>1
      <4>2. CASE i \in 1..L
        <5>1. PICK j \in Objects(fr, k) : j # t /\ ObjectOf(stack[i], fr[j])
          BY <3>9, <4>2
        <5>2. j \in Objects(fr, k + 1) /\ j # k + 1
          BY <1>4
        <5> QED
          BY <1>4, <3>7, <3>9, <4>2, <5>1, <5>2
      <4> QED
        BY <4>1, <4>2
    <3>11. \A i \in 1..L : stack[i].id < c.this.id
      <4> TAKE i \in 1..L
      <4>1. PICK j \in Objects(fr, k) : j # t /\ ObjectOf(stack[i], fr[j])
        BY <3>9
      <4>2. j < t /\ j \in 1..(k + 1) /\ t \in 1..(k + 1)
        BY <1>4, <3>2, <4>1 DEF Innermost
      <4> QED
        BY <3>8, <4>1, <4>2 DEF ObjectOf
    <3>12. \A i1, i2 \in 1..(L + 1) : i1 < i2 => s[i1].id < s[i2].id
      <4> TAKE i1, i2 \in 1..(L + 1)
      <4> SUFFICES ASSUME i1 < i2 PROVE s[i1].id < s[i2].id
        OBVIOUS
      <4>1. i1 \in 1..L
        OBVIOUS
      <4>2. CASE i2 = L + 1
        BY <3>7, <3>11, <4>1, <4>2
      <4>3. CASE i2 \in 1..L
        <5>1. \A a, b \in 1..L : a < b => stack[a].id < stack[b].id
          BY <2>1, <3>7 DEF StackFits, stack
        <5> QED
          BY <3>7, <4>1, <4>3, <5>1
      <4> QED
        BY <4>2, <4>3
    <3>13. \A j \in Objects(fr, k) : \E i \in 1..(L + 1) : s[i].id = fr[j].id
      <4> TAKE j \in Objects(fr, k)
      <4>1. CASE j = t
        BY <3>7, <3>8, <4>1
      <4>2. CASE j # t
        <5>1. \E i \in 1..L : stack[i].id = fr[j].id
          BY <2>1, <3>7, <3>8, <4>2 DEF StackFits, stack
        <5> QED
          BY <3>7, <5>1
      <4> QED
        BY <4>1, <4>2
    <3> QED
      BY <1>4, <3>7, <3>10, <3>12, <3>13 DEF StackFits
  <2> QED
    BY <2>2, <2>3
<1> QED
  BY <1>5, <1>6, <1>7, <1>8, <1>9 DEF Fits

\* What a table t, of a function that has just begun, holds: the names that its
\* frame declares with the sort.
Enters(fr, k, t, sort, fn) ==
    /\ \A n \in Name : n \in DOMAIN t <=> Declares(fr, k, n, sort)
    /\ \A n \in DOMAIN t : t[n] = fr[k].names[n] /\ t[n].fn = fn

LEMMA EntersLocals ==
    ASSUME NEW k \in Nat, NEW fr, NEW d, fr[k + 1].kind \in FunctionKind,
           Enters(fr, k + 1, d.locals, "local", d.fn)
    PROVE  LocalsFit(fr, d, k + 1)
<1>1. \A n \in Name : Locals(fr, k + 1, n) = IF n \in DOMAIN d.locals THEN {k + 1} ELSE {}
  BY SetsOfFunction DEF Enters
<1> QED
  BY <1>1 DEF LocalsFit, Enters, Innermost

LEMMA EntersNameParams ==
    ASSUME NEW k \in Nat, NEW fr, NEW d,
           fr[k + 1].kind \in FunctionKind, fr[k + 1].kind # "procedure",
           Enters(fr, k + 1, d.nameParams, "name", d.fn)
    PROVE  NameParamsFit(fr, d, k + 1)
<1>1. /\ \A h : FunctionFrame(fr, k + 1, h) <=> h = k + 1
      /\ \A n : ~ Captures(fr, k + 1, n)
  BY SetsOfFunction DEF Captures
<1>2. \A n \in DOMAIN d.nameParams \cap Name : d.nameParams[n].sort = "name"
  BY DEF Enters, Declares
<1> QED
  BY <1>1, <1>2 DEF NameParamsFit, EntryFits, IsNameParam, Enters

\* At most one object stands in the frames up to k.
LEMMA OneObject ==
    ASSUME NEW k \in Nat, NEW fr, NEW c, NEW d,
           StackFits(fr, c, k), d.inspectStack = c.inspectStack,
           \A i, j \in Objects(fr, k) : i = j
    PROVE  StackFits(fr, d, k)
<1>1. \A j \in Objects(fr, k) : Innermost(Objects(fr, k), j)
  BY DEF Innermost, Objects
<1>2. DOMAIN c.inspectStack = {}
  BY <1>1 DEF StackFits
<1> QED
  BY <1>1, <1>2 DEF StackFits

LEMMA PushProcedure ==
    ASSUME NEW k \in Nat, NEW fr, NEW c \in CodeGenContext, NEW d, Fits(fr, c, k),
           fr[k + 1].kind = "procedure",
           \A j \in 1..k : /\ fr[j].kind \notin {"inspect", "classbody"}
                           /\ fr[j].kind = "method" => j = 2,
           d.fn = fr[k + 1].id, d.fn \in Nat,
           Enters(fr, k + 1, d.locals, "local", d.fn),
           \A n \in Name :
              n \in DOMAIN d.nameParams <=>
                n \in DOMAIN c.locals \/ Declares(fr, k + 1, n, "name"),
           \A n \in DOMAIN c.locals : d.nameParams[n] = [c.locals[n] EXCEPT !.fn = d.fn],
           \A n \in Name : Declares(fr, k + 1, n, "name") /\ n \notin DOMAIN c.locals
              => d.nameParams[n] = fr[k + 1].names[n] /\ fr[k + 1].names[n].fn = d.fn,
           d.this = IF c.this = NoObject THEN c.this ELSE [c.this EXCEPT !.fn = d.fn],
           d.methodThis = c.methodThis, d.insideMethod = c.insideMethod,
           d.inspectStack = c.inspectStack, ~ d.inMainBlock
    PROVE  Fits(fr, d, k + 1)
<1>1. fr[k + 1].kind \in FunctionKind /\ fr[k + 1].kind \notin ObjectKind /\ fr[k + 1].kind # "method"
  BY DEF FunctionKind, ObjectKind
<1>2. /\ \A h : FunctionFrame(fr, k + 1, h) <=> h = k + 1
      /\ ~ InMain(fr, k + 1)
      /\ Objects(fr, k + 1) = Objects(fr, k) /\ Methods(fr, k + 1) = Methods(fr, k)
  BY <1>1, SetsOfFunction, SetsOfObjects
<1>3. FunctionFits(fr, d, k + 1)
  BY <1>2 DEF FunctionFits
<1>4. LocalsFit(fr, d, k + 1)
  BY <1>1, EntersLocals
<1>5. NameParamsFit(fr, d, k + 1)
  <2>1. ASSUME NEW n \in Name
        PROVE  /\ Captures(fr, k + 1, n) <=> n \in DOMAIN c.locals
               /\ EntryFits(fr, d, k + 1, n)
               /\ n \in DOMAIN d.nameParams <=> IsNameParam(fr, k + 1, n)
               /\ n \in DOMAIN d.nameParams =>
                    d.nameParams[n].fn = d.fn /\ d.nameParams[n].sort \in {"local", "name"}
    <3>1. k + 1 - 1 = k
      OBVIOUS
    <3>2. Captures(fr, k + 1, n) <=> n \in DOMAIN c.locals
      BY <3>1 DEF Captures, Fits, LocalsFit
    <3>3. n \in DOMAIN d.nameParams <=> IsNameParam(fr, k + 1, n)
      BY <3>2 DEF IsNameParam
    <3>4. CASE n \in DOMAIN c.locals
      <4>1. Locals(fr, k, n) # {} /\ Locals(fr, k, n) \in SUBSET (1..k)
        BY <3>4 DEF Fits, LocalsFit, Locals
      <4>2. PICK j \in 1..k : Innermost(Locals(fr, k, n), j)
        BY <4>1, InnermostExists
      <4>3. /\ c.locals[n] = fr[j].names[n] /\ fr[j].names[n].sort = "local"
            /\ \A i : Innermost(Locals(fr, k, n), i) => c.locals[n] = fr[i].names[n]
        BY <4>2 DEF Fits, LocalsFit, Locals, Declares, Innermost
      <4>4. c.locals[n] \in Var
        BY <3>4, TableFacts DEF CodeGenContext
      <4>5. PICK v \in Var : v = c.locals[n]
        BY <4>4
      <4>6. d.nameParams[n] = [v EXCEPT !.fn = d.fn]
        BY <3>4, <4>5
      <4>7. /\ d.nameParams[n].fn = d.fn /\ d.nameParams[n].sort = "local"
            /\ Same(d.nameParams[n], v)
        BY <4>3, <4>5, <4>6 DEF Var, Same
      <4>8. EntryFits(fr, d, k + 1, n)
        BY <3>1, <3>2, <3>4, <4>3, <4>5, <4>7 DEF EntryFits
      <4> QED
        BY <3>2, <3>3, <4>7, <4>8
    <3>5. CASE n \notin DOMAIN c.locals
      <4>1. EntryFits(fr, d, k + 1, n)
        BY <3>2, <3>5 DEF EntryFits
      <4>2. n \in DOMAIN d.nameParams =>
              d.nameParams[n].fn = d.fn /\ d.nameParams[n].sort = "name"
        BY <3>5 DEF Declares
      <4> QED
        BY <3>2, <3>3, <4>1, <4>2
    <3> QED
      BY <3>4, <3>5
  <2> QED
    BY <1>2, <2>1 DEF NameParamsFit
<1>6. \A j \in Objects(fr, k) : j = 2 /\ j \in Methods(fr, k)
  BY DEF Objects, Methods, ObjectKind
<1>7. ThisFits(fr, d, k + 1)
  <2>1. Objects(fr, k) = {} => d.this = NoObject
    BY DEF Fits, ThisFits
  <2>2. ASSUME NEW j, Innermost(Objects(fr, k), j)
        PROVE  /\ ObjectOf(d.this, fr[j]) /\ d.this.fn = d.fn
               /\ d.this.class = d.methodThis.class
    <3>1. ObjectOf(c.this, fr[j]) /\ c.this \in Obj /\ c.this.class = c.methodThis.class
      BY <1>6, <2>2 DEF Fits, ThisFits, ObjectOf, Innermost, Methods
    <3>2. PICK o \in Obj : o = c.this
      BY <3>1
    <3>3. o # NoObject
      BY DEF Obj, NoObject
    <3>4. d.this = [o EXCEPT !.fn = d.fn]
      BY <3>2, <3>3
    <3>5. d.this \in Obj /\ d.this.fn = d.fn /\ d.this.id = o.id /\ d.this.class = o.class
      BY <3>4 DEF Obj
    <3> QED
      BY <3>1, <3>2, <3>5 DEF ObjectOf
  <2> QED
    BY <1>2, <2>1, <2>2 DEF ThisFits
<1>8. MethodThisFits(fr, d, k + 1)
  BY <1>2 DEF Fits, MethodThisFits
<1>9. StackFits(fr, d, k + 1)
  <2>1. StackFits(fr, d, k)
    BY <1>6, OneObject DEF Fits
  <2> QED
    BY <1>2, <2>1 DEF StackFits
<1> QED
  BY <1>3, <1>4, <1>5, <1>7, <1>8, <1>9 DEF Fits

LEMMA PushMethod ==
    ASSUME NEW fr, NEW c, NEW d, Fits(fr, c, 1),
           fr[1].kind = "block", fr[2].kind = "method",
           d.fn = fr[2].id,
           Enters(fr, 2, d.locals, "local", d.fn),
           Enters(fr, 2, d.nameParams, "name", d.fn),
           d.methodThis = d.this, ObjectOf(d.this, fr[2]), d.this.fn = d.fn,
           d.insideMethod, d.inspectStack = c.inspectStack, ~ d.inMainBlock
    PROVE  Fits(fr, d, 2)
<1>1. 1 \in Nat /\ 1 + 1 = 2 /\ fr[2].kind \in FunctionKind /\ fr[2].kind # "procedure"
      /\ fr[2].kind \in ObjectKind
  BY DEF FunctionKind, ObjectKind
<1>2. /\ \A h : FunctionFrame(fr, 2, h) <=> h = 2
      /\ ~ InMain(fr, 2)
  BY <1>1, SetsOfFunction
<1>3. Objects(fr, 2) = {2} /\ Methods(fr, 2) = {2} /\ Objects(fr, 1) = {}
  BY DEF Objects, Methods, ObjectKind
<1>4. FunctionFits(fr, d, 2)
  BY <1>2 DEF FunctionFits
<1>5. LocalsFit(fr, d, 2)
  BY <1>1, EntersLocals
<1>6. NameParamsFit(fr, d, 2)
  BY <1>1, EntersNameParams
<1>7. ThisFits(fr, d, 2) /\ MethodThisFits(fr, d, 2)
  BY <1>3 DEF ThisFits, MethodThisFits, Innermost
<1>8. StackFits(fr, d, 2)
  <2>1. DOMAIN d.inspectStack = {}
    BY <1>3 DEF Fits, StackFits
  <2> QED
    BY <1>3, <2>1 DEF StackFits, Innermost
<1> QED
  BY <1>4, <1>5, <1>6, <1>7, <1>8 DEF Fits

LEMMA PushClassBody ==
    ASSUME NEW fr, NEW c, NEW d, Fits(fr, c, 1),
           fr[1].kind = "block", fr[2].kind = "classbody",
           \A n \in DOMAIN fr[2].names : fr[2].names[n].sort = "field",
           d.fn = fr[2].id, d.locals = Empty, d.nameParams = c.nameParams,
           ObjectOf(d.this, fr[2]), d.this.fn = d.fn,
           d.methodThis = c.methodThis, d.insideMethod = c.insideMethod,
           d.inspectStack = c.inspectStack, d.inMainBlock = c.inMainBlock
    PROVE  Fits(fr, d, 2)
<1>1. 1 \in Nat /\ 1 + 1 = 2 /\ fr[2].kind \in FunctionKind /\ fr[2].kind # "procedure"
      /\ fr[2].kind \in ObjectKind /\ fr[2].kind # "method"
  BY DEF FunctionKind, ObjectKind
<1>2. /\ \A h : FunctionFrame(fr, 2, h) <=> h = 2
      /\ ~ InMain(fr, 2)
      /\ \A h : ~ FunctionFrame(fr, 1, h)
  <2>1. (\A h : FunctionFrame(fr, 2, h) <=> h = 2) /\ ~ InMain(fr, 2)
    BY <1>1, SetsOfFunction
  <2>2. \A h : ~ FunctionFrame(fr, 1, h)
    BY DEF FunctionFrame, FunctionKind
  <2> QED
    BY <2>1, <2>2
<1>3. Objects(fr, 2) = {2} /\ Methods(fr, 2) = {} /\ Objects(fr, 1) = {} /\ Methods(fr, 1) = {}
  BY DEF Objects, Methods, ObjectKind
<1>4. FunctionFits(fr, d, 2)
  BY <1>2 DEF FunctionFits, Fits
<1>5. \A n : ~ Declares(fr, 2, n, "local") /\ ~ Declares(fr, 2, n, "name")
  BY DEF Declares
<1>6. LocalsFit(fr, d, 2)
  BY <1>1, <1>5, EntersLocals, EmptyFacts DEF Enters
<1>7. NameParamsFit(fr, d, 2)
  <2>1. \A n \in Name : n \notin DOMAIN d.nameParams
    BY <1>2 DEF Fits, NameParamsFit
  <2>2. \A n \in Name : ~ Captures(fr, 2, n) /\ ~ IsNameParam(fr, 2, n)
    BY <1>5 DEF Captures, IsNameParam
  <2> QED
    BY <1>2, <1>5, <2>1, <2>2 DEF NameParamsFit, EntryFits
<1>8. ThisFits(fr, d, 2) /\ MethodThisFits(fr, d, 2)
  BY <1>3 DEF ThisFits, MethodThisFits, Innermost, Fits
<1>9. StackFits(fr, d, 2)
  <2>1. DOMAIN d.inspectStack = {}
    BY <1>3 DEF Fits, StackFits
  <2> QED
    BY <1>3, <2>1 DEF StackFits, Innermost
<1> QED
  BY <1>4, <1>6, <1>7, <1>8, <1>9 DEF Fits

-----------------------------------------------------------------------------
(* A declaration in the block of frame k.                                  *)

LEMMA DeclareFits ==
    ASSUME NEW k \in Nat \ {0}, NEW fr1, NEW fr2, NEW n \in Name, NEW v \in Var,
           NEW c \in CodeGenContext, NEW d, Fits(fr1, c, k),
           \A j \in 1..k : fr1[j].kind = fr2[j].kind /\ fr1[j].id = fr2[j].id,
           \A j \in 1..k : j # k => fr1[j].names = fr2[j].names,
           fr1[k].kind = "block",
           fr1[k].names \in Table, n \notin DOMAIN fr1[k].names,
           fr2[k].names = Bind(fr1[k].names, n, v),
           v.sort \in {"local", "global"}, v.fn = c.fn,
           d.fn = c.fn, d.nameParams = c.nameParams, d.this = c.this,
           d.methodThis = c.methodThis, d.insideMethod = c.insideMethod,
           d.inspectStack = c.inspectStack, d.inMainBlock = c.inMainBlock,
           d.locals = IF v.sort = "local" THEN Bind(c.locals, n, v) ELSE c.locals
    PROVE  Fits(fr2, d, k)
<1>1. /\ \A j \in 1..k : fr1[j].kind = fr2[j].kind /\ fr1[j].id = fr2[j].id
      /\ fr1[k].kind \notin FunctionKind /\ fr1[k].kind \notin ObjectKind
      /\ fr1[k].kind # "method" /\ k \in 1..k /\ k - 1 \in Nat
  BY DEF FunctionKind, ObjectKind
<1>2. \A i, j \in 0..k : SameFunction(fr1, i, j) <=> SameFunction(fr2, i, j)
  BY <1>1 DEF SameFunction
<1>3. \A h : FunctionFrame(fr1, k, h) <=> FunctionFrame(fr2, k, h)
  BY <1>1, <1>2 DEF FunctionFrame
<1>4. InMain(fr1, k) <=> InMain(fr2, k)
  BY <1>2 DEF InMain
<1>5. \A h : FunctionFrame(fr1, k, h) => h \in 1..(k - 1)
  BY <1>1 DEF FunctionFrame
<1>6. /\ DOMAIN fr2[k].names = DOMAIN fr1[k].names \cup {n}
      /\ fr2[k].names[n] = v
      /\ \A m \in DOMAIN fr1[k].names : m # n /\ fr2[k].names[m] = fr1[k].names[m]
  <2>1. Bound(fr1[k].names, n, v, fr2[k].names)
    BY BindFacts
  <2> QED
    BY <2>1 DEF Bound
<1>7. Agree(fr1, fr2, k - 1)
  BY <1>1 DEF Agree
<1>8. \A j \in 1..k : \A m, sort :
        Declares(fr2, j, m, sort)
          <=> Declares(fr1, j, m, sort) \/ (j = k /\ m = n /\ v.sort = sort)
  BY <1>6 DEF Declares
<1>9. FunctionFits(fr2, d, k)
  BY <1>1, <1>3, <1>4 DEF Fits, FunctionFits, FunctionFrame
<1>10. LocalsFit(fr2, d, k)
  <2>1. SameFunction(fr1, k, k)
    BY DEF SameFunction
  <2>2. \A m \in Name : Locals(fr2, k, m) =
          IF m = n /\ v.sort = "local" THEN Locals(fr1, k, m) \cup {k} ELSE Locals(fr1, k, m)
    <3> TAKE m \in Name
    <3>1. \A j \in 1..k : j \in 0..k /\ k \in 0..k
      OBVIOUS
    <3> QED
      BY <1>1, <1>2, <1>8, <2>1, <3>1 DEF Locals
  <2>3. \A m \in Name : Locals(fr1, k, m) \subseteq 1..k
    BY DEF Locals
  <2>4. v.sort = "local" => Bound(c.locals, n, v, d.locals)
    <3>1. c.locals \in Table
      BY DEF CodeGenContext
    <3> QED
      BY <3>1, BindFacts
  <2>5. ASSUME NEW m \in Name
        PROVE  /\ m \in DOMAIN d.locals <=> Locals(fr2, k, m) # {}
               /\ \A j : Innermost(Locals(fr2, k, m), j) => d.locals[m] = fr2[j].names[m]
               /\ m \in DOMAIN d.locals => d.locals[m].fn = d.fn
    <3>1. CASE m = n /\ v.sort = "local"
      <4>1. DOMAIN d.locals = DOMAIN c.locals \cup {n} /\ d.locals[m] = v
        BY <2>4, <3>1 DEF Bound
      <4>2. \A j : Innermost(Locals(fr2, k, m), j) => j = k
        BY <2>2, <2>3, <3>1 DEF Innermost
      <4> QED
        BY <1>6, <2>2, <3>1, <4>1, <4>2
    <3>2. CASE ~ (m = n /\ v.sort = "local")
      <4>1. /\ m \in DOMAIN d.locals <=> m \in DOMAIN c.locals
            /\ m \in DOMAIN c.locals => d.locals[m] = c.locals[m]
        BY <2>4, <3>2 DEF Bound
      <4>2. Locals(fr2, k, m) = Locals(fr1, k, m)
        BY <2>2, <3>2
      <4>3. \A j \in Locals(fr1, k, m) : fr2[j].names[m] = fr1[j].names[m]
        BY <1>6, <2>3 DEF Locals, Declares
      <4>4. \A j : Innermost(Locals(fr1, k, m), j) => j \in Locals(fr1, k, m)
        BY DEF Innermost
      <4>5. /\ m \in DOMAIN c.locals <=> Locals(fr1, k, m) # {}
            /\ \A j : Innermost(Locals(fr1, k, m), j) => c.locals[m] = fr1[j].names[m]
            /\ m \in DOMAIN c.locals => c.locals[m].fn = c.fn
        BY DEF Fits, LocalsFit
      <4> QED
        BY <4>1, <4>2, <4>3, <4>4, <4>5
    <3> QED
      BY <3>1, <3>2
  <2> QED
    BY <2>5 DEF LocalsFit
<1>11. NameParamsFit(fr2, d, k)
  <2>1. \A h \in 1..(k - 1), m \in Name :
          /\ Locals(fr1, h - 1, m) = Locals(fr2, h - 1, m)
          /\ Captures(fr1, h, m) <=> Captures(fr2, h, m)
          /\ Declares(fr1, h, m, "name") <=> Declares(fr2, h, m, "name")
          /\ fr1[h].names = fr2[h].names
    <3> TAKE h \in 1..(k - 1), m \in Name
    <3>1. h - 1 \in 0..(k - 1) /\ fr1[h].names = fr2[h].names
      OBVIOUS
    <3>2. Locals(fr1, h - 1, m) = Locals(fr2, h - 1, m)
      BY <1>1, <1>7, <3>1, AgreeSets
    <3>3. Captures(fr1, h, m) <=> Captures(fr2, h, m)
      BY <1>1, <1>7, AgreeSets
    <3> QED
      BY <3>1, <3>2, <3>3 DEF Declares
  <2>2. \A h \in 1..(k - 1), m \in Name : \A j : Innermost(Locals(fr1, h - 1, m), j) => j \in 1..(k - 1)
    BY DEF Innermost, Locals
  <2>3. NameParamsFit(fr1, d, k)
    BY DEF Fits, NameParamsFit, EntryFits
  <2>4. \A h \in 1..(k - 1), m \in Name : IsNameParam(fr1, h, m) <=> IsNameParam(fr2, h, m)
    BY <2>1 DEF IsNameParam
  <2>5. \A h \in 1..(k - 1), m \in Name : EntryFits(fr1, d, h, m) => EntryFits(fr2, d, h, m)
    <3> TAKE h \in 1..(k - 1), m \in Name
    <3>1. \A j \in 1..(k - 1) : fr1[j].names[m] = fr2[j].names[m]
      BY <2>1
    <3> QED
      BY <2>1, <2>2, <3>1 DEF EntryFits
  <2> QED
    BY <1>3, <1>5, <2>3, <2>4, <2>5 DEF NameParamsFit
<1>12. /\ Objects(fr1, k) = Objects(fr2, k) /\ Methods(fr1, k) = Methods(fr2, k)
       /\ \A j : Innermost(Objects(fr1, k), j) => j \in Objects(fr1, k)
       /\ \A j \in Objects(fr1, k) \cup Methods(fr1, k) :
             /\ fr1[j].kind = fr2[j].kind /\ fr1[j].id = fr2[j].id
             /\ \A obj : ObjectOf(obj, fr1[j]) <=> ObjectOf(obj, fr2[j])
  <2>1. Objects(fr1, k) = Objects(fr2, k) /\ Methods(fr1, k) = Methods(fr2, k)
    BY <1>1 DEF Objects, Methods
  <2>2. \A j \in Objects(fr1, k) \cup Methods(fr1, k) : j \in 1..k /\ j # k
    BY <1>1 DEF Objects, Methods
  <2> QED
    BY <2>1, <2>2, <1>1 DEF ObjectOf, Innermost
<1>13. ThisFits(fr2, d, k)
  BY <1>12 DEF Fits, ThisFits
<1>14. MethodThisFits(fr2, d, k)
  BY <1>12 DEF Fits, MethodThisFits
<1>15. StackFits(fr2, d, k)
  <2>1. StackFits(fr1, d, k)
    BY DEF Fits, StackFits
  <2> QED
    BY <1>12, <2>1 DEF StackFits
<1> QED
  BY <1>9, <1>10, <1>11, <1>13, <1>14, <1>15 DEF Fits

-----------------------------------------------------------------------------
(* How the steps change the frames.                                        *)

Pushed(fr1, fr2, frame, L) ==
    /\ fr2 \in Seq(Frame) /\ Len(fr2) = L + 1 /\ fr2[L + 1] = frame
    /\ \A j \in 1..L : fr2[j].saved = fr1[j].saved
    /\ Agree(fr1, fr2, L)

LEMMA PushFacts ==
    ASSUME TypeOK, NEW frame \in Frame, Push(frame)
    PROVE  /\ Len(frames) \in Nat \ {0}
           /\ Pushed(frames, frames', frame, Len(frames))
<1>1. PICK L \in Nat : L = Len(frames)
  BY DEF TypeOK
<1>2. L \in 1..L /\ frames \in Seq(Frame) /\ frames[L] \in Frame /\ L # 0
  BY <1>1 DEF TypeOK
<1>3. PICK f \in Frame : f = frames[L]
  BY <1>2
<1>4. PICK g : g = [f EXCEPT !.phase = "statements"]
  OBVIOUS
<1>5. g \in Frame /\ g.kind = f.kind /\ g.id = f.id /\ g.names = f.names /\ g.saved = f.saved
  BY <1>4 DEF Frame
<1>6. PICK s : s = [frames EXCEPT ![L] = g]
  OBVIOUS
<1>7. /\ s \in Seq(Frame) /\ Len(s) = L
      /\ \A j \in 1..L : s[j] = IF j = L THEN g ELSE frames[j]
  BY <1>1, <1>2, <1>5, <1>6, ExceptSeq
<1>8. frames' = Append(s, frame)
  BY <1>1, <1>3, <1>4, <1>6 DEF Push
<1>9. /\ frames' \in Seq(Frame) /\ Len(frames') = L + 1 /\ frames'[L + 1] = frame
      /\ \A j \in 1..L : frames'[j] = s[j]
  BY <1>7, <1>8, AppendProperties
<1>10. \A j \in 1..L :
         /\ frames'[j].kind = frames[j].kind /\ frames'[j].id = frames[j].id
         /\ frames'[j].names = frames[j].names /\ frames'[j].saved = frames[j].saved
  BY <1>3, <1>5, <1>7, <1>9
<1> QED
  BY <1>1, <1>2, <1>9, <1>10 DEF Pushed, Agree

Popped(fr1, fr2, L) ==
    /\ fr2 \in Seq(Frame) /\ Len(fr2) = L - 1
    /\ \A j \in 1..(L - 1) : fr2[j] = fr1[j]

LEMMA PopFacts ==
    ASSUME TypeOK, NEW context, Pop(context)
    PROVE  /\ Len(frames) \in Nat \ {0, 1}
           /\ Popped(frames, frames', Len(frames))
<1>1. PICK L \in Nat : L = Len(frames)
  BY DEF TypeOK
<1>2. /\ L > 1 /\ frames \in Seq(Frame) /\ frames' = SubSeq(frames, 1, L - 1)
      /\ 1 \in Int /\ L - 1 \in Int /\ \A i \in 1..(L - 1) : frames[i] \in Frame
  BY <1>1 DEF TypeOK, Pop, Front
<1>3. /\ SubSeq(frames, 1, L - 1) \in Seq(Frame)
      /\ Len(SubSeq(frames, 1, L - 1)) = L - 1
      /\ \A i \in 1..(L - 1) : SubSeq(frames, 1, L - 1)[i] = frames[i]
  BY <1>2, SubSeqProperties
<1> QED
  BY <1>1, <1>2, <1>3 DEF Popped

Declared(fr1, fr2, L, n, v) ==
    /\ fr2 \in Seq(Frame) /\ Len(fr2) = L
    /\ \A j \in 1..L : j # L => fr2[j].names = fr1[j].names
    /\ \A j \in 1..L : /\ fr2[j].kind = fr1[j].kind /\ fr2[j].id = fr1[j].id
                       /\ fr2[j].saved = fr1[j].saved
    /\ fr2[L].names = Bind(fr1[L].names, n, v)

LEMMA DeclareFacts ==
    ASSUME TypeOK, NEW n \in Name, NEW v \in Var, Declare(n, v)
    PROVE  /\ Len(frames) \in Nat \ {0}
           /\ Declared(frames, frames', Len(frames), n, v)
<1>1. PICK L \in Nat : L = Len(frames)
  BY DEF TypeOK
<1>2. L \in 1..L /\ frames \in Seq(Frame) /\ frames[L] \in Frame /\ L # 0
  BY <1>1 DEF TypeOK
<1>3. PICK f \in Frame : f = frames[L]
  BY <1>2
<1>4. f.names \in Table
  BY DEF Frame
<1>5. PICK t \in Table : t = Bind(f.names, n, v)
  BY <1>4, BindFacts DEF Bound
<1>6. PICK g : g = [f EXCEPT !.names = t]
  OBVIOUS
<1>7. g \in Frame /\ g.kind = f.kind /\ g.id = f.id /\ g.names = t /\ g.saved = f.saved
  BY <1>6 DEF Frame
<1>8. frames' = [frames EXCEPT ![L] = g]
  BY <1>1, <1>3, <1>5, <1>6 DEF Declare
<1>9. /\ frames' \in Seq(Frame) /\ Len(frames') = L
      /\ \A j \in 1..L : frames'[j] = IF j = L THEN g ELSE frames[j]
  BY <1>1, <1>2, <1>7, <1>8, ExceptSeq
<1>10. \A j \in 1..L :
         /\ frames'[j].kind = frames[j].kind /\ frames'[j].id = frames[j].id
         /\ frames'[j].saved = frames[j].saved
         /\ j # L => frames'[j].names = frames[j].names
  BY <1>3, <1>7, <1>9
<1>11. frames'[L].names = Bind(frames[L].names, n, v)
  BY <1>2, <1>3, <1>5, <1>7, <1>9
<1> QED
  BY <1>1, <1>2, <1>9, <1>10, <1>11 DEF Declared

\* A new frame whose declarations are those of its kind, and none a global.
NewFrame(frame) ==
    /\ frame \in Frame /\ frame.id = opened /\ frame.saved = ctx
    /\ \A n \in DOMAIN frame.names :
          /\ frame.names[n].id = opened /\ frame.names[n].name = n
          /\ frame.names[n].sort \in SortsIn(frame.kind) \ {"global"}
    /\ frame.kind \in {"method", "classbody"} => Len(frames) = 1
    /\ frame.kind = "procedure" =>
          \A j \in 1..Len(frames) : frames[j].kind \notin {"inspect", "classbody"}

LEMMA PushInv ==
    ASSUME IInv, NEW frame, NewFrame(frame), Push(frame),
           ctx' \in CodeGenContext, ctx'.globals = ctx.globals,
           Fits(frames', ctx', Len(frames) + 1), Leaves(frame.kind, ctx, ctx')
    PROVE  IInv'
<1>0. PICK L \in Nat : L = Len(frames)
  BY DEF IInv, TypeOK
<1>1. /\ L \in Nat \ {0} /\ Pushed(frames, frames', frame, L)
      /\ opened' = opened + 1 /\ clobbered' = clobbered
      /\ DOMAIN frames = 1..L /\ opened \in Nat
      /\ \A k \in 1..L : frames[k] \in Frame
  <2>1. TypeOK /\ frame \in Frame
    BY DEF IInv, NewFrame
  <2>2. Len(frames) \in Nat \ {0} /\ Pushed(frames, frames', frame, Len(frames))
    BY <2>1, PushFacts
  <2> QED
    BY <1>0, <2>1, <2>2 DEF TypeOK, Push
<1>2. /\ frames' \in Seq(Frame) /\ Len(frames') = L + 1 /\ frames'[L + 1] = frame
      /\ Agree(frames, frames', L)
      /\ \A j \in 1..L : /\ frames'[j].kind = frames[j].kind
                         /\ frames'[j].id = frames[j].id
                         /\ frames'[j].names = frames[j].names
                         /\ frames'[j].saved = frames[j].saved
  BY <1>1 DEF Pushed, Agree
<1>3. /\ DOMAIN frames' = 1..(L + 1) /\ 1..(L + 1) = 1..L \cup {L + 1}
      /\ L + 1 \notin 1..L
  BY <1>1, <1>2
<1>4. TypeOK'
  BY <1>1, <1>2 DEF IInv, TypeOK
<1>5. FramesInv'
  <2>1. \A k \in 1..(L + 1) :
          /\ frames'[k].id < opened + 1
          /\ \A n \in DOMAIN frames'[k].names :
               /\ frames'[k].names[n].id = frames'[k].id /\ frames'[k].names[n].name = n
               /\ frames'[k].names[n].sort \in SortsIn(frames'[k].kind)
    <3>1. \A k \in 1..L : frames[k].id \in Nat
      BY <1>1 DEF Frame
    <3>2. \A k \in 1..L :
            /\ frames[k].id < opened
            /\ \A n \in DOMAIN frames[k].names :
                 /\ frames[k].names[n].id = frames[k].id /\ frames[k].names[n].name = n
                 /\ frames[k].names[n].sort \in SortsIn(frames[k].kind)
      BY <1>1 DEF IInv, FramesInv
    <3>3. /\ frame.id = opened
          /\ \A n \in DOMAIN frame.names :
               /\ frame.names[n].id = frame.id /\ frame.names[n].name = n
               /\ frame.names[n].sort \in SortsIn(frame.kind)
      BY DEF NewFrame
    <3>4. \A k \in 1..L : frames[k].id < opened + 1
      BY <1>1, <3>1, <3>2
    <3>5. opened < opened + 1
      BY <1>1
    <3> QED
      BY <1>2, <1>3, <3>2, <3>3, <3>4, <3>5
  <2>2. \A j, k \in 1..(L + 1) : j < k => frames'[j].id < frames'[k].id
    <3>1. \A j, k \in 1..L : j < k => frames[j].id < frames[k].id
      BY <1>1 DEF IInv, FramesInv
    <3>2. \A j \in 1..L : frames[j].id < opened
      BY <1>1 DEF IInv, FramesInv
    <3>3. frame.id = opened
      BY DEF NewFrame
    <3> QED
      BY <1>1, <1>2, <1>3, <3>1, <3>2, <3>3
  <2>3. frames'[1].kind = "block"
    BY <1>1, <1>2 DEF IInv, FramesInv
  <2> QED
    BY <1>1, <1>3, <2>1, <2>2, <2>3 DEF FramesInv
<1>6. NestingInv'
  <2>1. \A k \in 1..L :
          /\ frames'[k].kind \in {"method", "classbody"} => k = 2
          /\ frames'[k].kind = "procedure" =>
               \A j \in 1..k : frames'[j].kind \notin {"inspect", "classbody"}
    BY <1>1, <1>2 DEF IInv, NestingInv
  <2>2. frame.kind \in {"method", "classbody"} => L + 1 = 2
    BY <1>0 DEF NewFrame
  <2>3. frame.kind = "procedure" =>
          \A j \in 1..(L + 1) : frames'[j].kind \notin {"inspect", "classbody"}
    BY <1>0, <1>2, <1>3 DEF NewFrame
  <2> QED
    BY <1>2, <1>3, <2>1, <2>2, <2>3 DEF NestingInv
<1>7. GlobalsInv'
  <2>1. \A n : ~ Declares(frames', L + 1, n, "global")
    BY <1>2 DEF NewFrame, Declares
  <2>2. \A k \in 1..L : \A n, sort : Declares(frames', k, n, sort) <=> Declares(frames, k, n, sort)
    BY <1>2 DEF Declares
  <2>3. \A n \in DOMAIN ctx'.globals : ctx'.globals[n].sort = "global"
    BY DEF IInv, GlobalsInv
  <2>4. ASSUME NEW k \in 1..L, NEW n \in Name, Declares(frames', k, n, "global")
        PROVE  /\ \A j \in 1..k : frames'[j].kind = "block"
               /\ n \notin clobbered =>
                    /\ n \in DOMAIN ctx'.globals /\ ctx'.globals[n] = frames'[k].names[n]
                    /\ \A j \in 1..(k - 1) : ~ Declares(frames', j, n, "local")
    <3>1. Declares(frames, k, n, "global")
      BY <2>2, <2>4
    <3>2. /\ \A j \in 1..k : frames[j].kind = "block"
          /\ n \notin clobbered =>
               /\ n \in DOMAIN ctx.globals /\ ctx.globals[n] = frames[k].names[n]
               /\ \A j \in 1..(k - 1) : ~ Declares(frames, j, n, "local")
      BY <1>1, <3>1 DEF IInv, GlobalsInv
    <3>3. \A j \in 1..k : j \in 1..L
      BY <1>1
    <3> QED
      BY <1>1, <1>2, <2>2, <3>2, <3>3
  <2> QED
    BY <1>1, <1>3, <2>1, <2>3, <2>4 DEF GlobalsInv
<1>8. ContextsInv'
  <2>1. /\ \A k \in 1..L : Context(frames', ctx', k) = Context(frames, ctx, k)
        /\ Context(frames', ctx', L + 1) = ctx'
    <3>1. frame.saved = ctx
      BY DEF NewFrame
    <3>2. \A k \in 1..L : k # L + 1 /\ (k = L \/ k + 1 \in 1..L)
      BY <1>1
    <3> QED
      BY <1>0, <1>2, <3>1, <3>2 DEF Context
  <2>2. \A k \in 1..L : Fits(frames', Context(frames, ctx, k), k)
    <3> TAKE k \in 1..L
    <3>1. k \in Nat /\ Agree(frames, frames', k) /\ Fits(frames, Context(frames, ctx, k), k)
      BY <1>1, <1>2 DEF IInv, ContextsInv, Agree
    <3>2. SameTables(Context(frames, ctx, k), Context(frames, ctx, k))
      BY DEF SameTables
    <3> QED
      BY <3>1, <3>2, FitsCarries
  <2>3. Fits(frames', ctx', L + 1)
    BY <1>0
  <2>4. \A k \in 1..L \ {1} :
          Leaves(frames'[k].kind, frames'[k].saved, Context(frames, ctx, k))
    BY <1>1, <1>2 DEF IInv, ContextsInv
  <2>5. Leaves(frames'[L + 1].kind, frames'[L + 1].saved, ctx')
    BY <1>2 DEF NewFrame
  <2>6. \A k \in 1..(L + 1) : Fits(frames', Context(frames', ctx', k), k)
    BY <1>3, <2>1, <2>2, <2>3
  <2>7. \A k \in 1..(L + 1) \ {1} :
          Leaves(frames'[k].kind, frames'[k].saved, Context(frames', ctx', k))
    BY <1>3, <2>1, <2>4, <2>5
  <2> QED
    BY <1>3, <2>6, <2>7 DEF ContextsInv
<1> QED
  BY <1>4, <1>5, <1>6, <1>7, <1>8 DEF IInv

LEMMA PopInv ==
    ASSUME IInv, NEW context \in CodeGenContext, Pop(context),
           SameTables(Top.saved, context), context.globals = ctx.globals
    PROVE  IInv'
<1>0. PICK L \in Nat : L = Len(frames)
  BY DEF IInv, TypeOK
<1>1. /\ L \in Nat \ {0, 1} /\ Popped(frames, frames', L)
      /\ opened' = opened /\ clobbered' = clobbered /\ ctx' = context
      /\ DOMAIN frames = 1..L /\ frames \in Seq(Frame)
  <2>1. TypeOK
    BY DEF IInv
  <2> QED
    BY <1>0, <2>1, PopFacts DEF TypeOK, Pop
<1>2. PICK M \in Nat \ {0} : L = M + 1
  <2>1. L - 1 \in Nat \ {0} /\ L = (L - 1) + 1
    BY <1>1
  <2> QED
    BY <2>1
<1>3. /\ frames' \in Seq(Frame) /\ Len(frames') = M /\ DOMAIN frames' = 1..M
      /\ \A j \in 1..M : frames'[j] = frames[j] /\ j \in 1..L /\ j # L
      /\ M \in 1..M /\ L - 1 = M
  BY <1>1, <1>2 DEF Popped
<1>4. TypeOK'
  BY <1>1, <1>3 DEF IInv, TypeOK
<1>5. FramesInv'
  BY <1>1, <1>3 DEF IInv, FramesInv
<1>6. NestingInv'
  <2>1. \A k \in 1..M : \A j \in 1..k : j \in 1..M
    OBVIOUS
  <2> QED
    BY <1>1, <1>3, <2>1 DEF IInv, NestingInv
<1>7. GlobalsInv'
  <2>1. \A k \in 1..M : \A n, sort : Declares(frames', k, n, sort) <=> Declares(frames, k, n, sort)
    BY <1>3 DEF Declares
  <2>2. \A n \in DOMAIN ctx'.globals : ctx'.globals[n].sort = "global"
    BY <1>1 DEF IInv, GlobalsInv
  <2>3. ASSUME NEW k \in 1..M, NEW n \in Name, Declares(frames', k, n, "global")
        PROVE  /\ \A j \in 1..k : frames'[j].kind = "block"
               /\ n \notin clobbered =>
                    /\ n \in DOMAIN ctx'.globals /\ ctx'.globals[n] = frames'[k].names[n]
                    /\ \A j \in 1..(k - 1) : ~ Declares(frames', j, n, "local")
    <3>1. k \in 1..L /\ Declares(frames, k, n, "global")
      BY <1>3, <2>1, <2>3
    <3>2. /\ \A j \in 1..k : frames[j].kind = "block"
          /\ n \notin clobbered =>
               /\ n \in DOMAIN ctx.globals /\ ctx.globals[n] = frames[k].names[n]
               /\ \A j \in 1..(k - 1) : ~ Declares(frames, j, n, "local")
      BY <1>1, <3>1 DEF IInv, GlobalsInv
    <3>3. \A j \in 1..k : j \in 1..M
      OBVIOUS
    <3>4. \A j \in 1..(k - 1) : j \in 1..k
      OBVIOUS
    <3> QED
      BY <1>1, <1>3, <2>1, <3>2, <3>3, <3>4
  <2> QED
    BY <1>1, <1>3, <2>2, <2>3 DEF GlobalsInv
<1>8. ContextsInv'
  <2>1. \A k \in 1..M : k # M => Context(frames', ctx', k) = Context(frames, ctx, k)
    <3>1. \A k \in 1..M : k # M => k + 1 \in 1..M
      OBVIOUS
    <3> QED
      BY <1>0, <1>3, <3>1 DEF Context
  <2>2. Context(frames', ctx', M) = context /\ Context(frames, ctx, M) = Top.saved
    BY <1>0, <1>1, <1>2, <1>3 DEF Context, Top
  <2>3. \A k \in 1..M : SameTables(Context(frames, ctx, k), Context(frames', ctx', k))
    <3>1. \A c : SameTables(c, c)
      BY DEF SameTables
    <3> QED
      BY <2>1, <2>2, <3>1
  <2>4. \A k \in 1..M : Fits(frames', Context(frames', ctx', k), k)
    <3> TAKE k \in 1..M
    <3>1. k \in Nat /\ Agree(frames, frames', k)
      BY <1>3 DEF Agree
    <3>2. Fits(frames, Context(frames, ctx, k), k)
      BY <1>1, <1>3 DEF IInv, ContextsInv
    <3> QED
      BY <2>3, <3>1, <3>2, FitsCarries
  <2>5. \A k \in 1..M \ {1} :
          Leaves(frames[k].kind, frames[k].saved, Context(frames, ctx, k))
    BY <1>1, <1>3 DEF IInv, ContextsInv
  <2>6. \A kind, around, c, d : SameTables(c, d) /\ Leaves(kind, around, c)
                                  => Leaves(kind, around, d)
    BY DEF SameTables, Leaves
  <2>7. \A k \in 1..M \ {1} :
          Leaves(frames'[k].kind, frames'[k].saved, Context(frames', ctx', k))
    BY <1>3, <2>3, <2>5, <2>6
  <2> QED
    BY <1>3, <2>4, <2>7 DEF ContextsInv
<1> QED
  BY <1>4, <1>5, <1>6, <1>7, <1>8 DEF IInv

\* A context in the main block, with no object, stands in blocks only.
LEMMA MainIsBlocks ==
    ASSUME NEW k \in Nat, NEW fr, NEW c, Fits(fr, c, k), c.inMainBlock,
           c.this = NoObject, \A j \in 1..k : fr[j].kind \in Kind
    PROVE  \A j \in 1..k : fr[j].kind = "block"
<1>1. Objects(fr, k) = {}
  <2> SUFFICES ASSUME Objects(fr, k) # {} PROVE FALSE
    OBVIOUS
  <2>1. Objects(fr, k) \in SUBSET (1..k)
    BY DEF Objects
  <2>2. PICK j \in 1..k : Innermost(Objects(fr, k), j)
    BY <2>1, InnermostExists
  <2>3. c.this \in Obj
    BY <2>2 DEF Fits, ThisFits, ObjectOf
  <2> QED
    BY <2>3 DEF Obj, NoObject
<1>2. \A j \in 1..k : fr[j].kind \notin {"procedure", "method"}
  BY DEF Fits, FunctionFits
<1> QED
  BY <1>1, <1>2 DEF Objects, Kind, FunctionKind, ObjectKind

\* What a declaration of n changes: the names of the block, and one table.
DeclaresHere(n, v) ==
    /\ Top.kind = "block" /\ n \notin DOMAIN Top.names
    /\ Declare(n, v) /\ opened' = opened
    /\ v = Variable(Top.id, n, v.sort, ctx.fn) /\ v.sort \in {"local", "global"}
    /\ ctx' \in CodeGenContext
    /\ ctx'.fn = ctx.fn /\ ctx'.nameParams = ctx.nameParams /\ ctx'.this = ctx.this
    /\ ctx'.methodThis = ctx.methodThis /\ ctx'.insideMethod = ctx.insideMethod
    /\ ctx'.inspectStack = ctx.inspectStack /\ ctx'.inMainBlock = ctx.inMainBlock
    /\ ctx'.locals = IF v.sort = "local" THEN Bind(ctx.locals, n, v) ELSE ctx.locals
    /\ ctx'.globals = IF v.sort = "local" THEN ctx.globals ELSE Bind(ctx.globals, n, v)
    /\ clobbered \subseteq clobbered' /\ clobbered' \subseteq Name
    /\ v.sort = "global" =>
         /\ ctx.inMainBlock /\ ctx.this = NoObject
         /\ n \notin clobbered' => n \notin DOMAIN ctx.locals \cup DOMAIN ctx.globals

LEMMA DeclareInv ==
    ASSUME IInv, NEW n \in Name, NEW v \in Var, DeclaresHere(n, v)
    PROVE  IInv'
<1>0. PICK L \in Nat : L = Len(frames)
  BY DEF IInv, TypeOK
<1>1. /\ L \in Nat \ {0} /\ L \in 1..L /\ Declared(frames, frames', L, n, v)
      /\ DOMAIN frames = 1..L /\ frames \in Seq(Frame)
      /\ \A k \in 1..L : frames[k] \in Frame
  <2>1. TypeOK /\ Declare(n, v)
    BY DEF IInv, DeclaresHere
  <2> QED
    BY <1>0, <2>1, DeclareFacts DEF TypeOK
<1>2. /\ frames' \in Seq(Frame) /\ Len(frames') = L /\ DOMAIN frames' = 1..L
      /\ \A j \in 1..L : j # L => frames'[j].names = frames[j].names
      /\ \A j \in 1..L : /\ frames'[j].kind = frames[j].kind
                         /\ frames'[j].id = frames[j].id
                         /\ frames'[j].saved = frames[j].saved
  BY <1>1 DEF Declared
<1>3. /\ frames[L].kind = "block" /\ frames[L].names \in Table
      /\ n \notin DOMAIN frames[L].names
      /\ frames'[L].names = Bind(frames[L].names, n, v)
      /\ v.id = frames[L].id /\ v.name = n /\ v.fn = ctx.fn /\ v.sort \in {"local", "global"}
  BY <1>0, <1>1 DEF DeclaresHere, Top, Declared, Variable, Frame
<1>4. /\ DOMAIN frames'[L].names = DOMAIN frames[L].names \cup {n}
      /\ frames'[L].names[n] = v
      /\ \A m \in DOMAIN frames[L].names :
            m # n /\ frames'[L].names[m] = frames[L].names[m]
  <2>1. Bound(frames[L].names, n, v, frames'[L].names)
    BY <1>3, BindFacts
  <2> QED
    BY <1>3, <2>1 DEF Bound
<1>5. \A j \in 1..L : \A m, sort :
        Declares(frames', j, m, sort)
          <=> Declares(frames, j, m, sort) \/ (j = L /\ m = n /\ v.sort = sort)
  BY <1>2, <1>4 DEF Declares
<1>6. TypeOK'
  BY <1>1, <1>2 DEF IInv, TypeOK, DeclaresHere
<1>7. FramesInv'
  <2>1. "local" \in SortsIn("block") /\ "global" \in SortsIn("block")
    BY DEF SortsIn
  <2>2. \A k \in 1..L :
          /\ frames[k].id < opened
          /\ \A m \in DOMAIN frames[k].names :
               /\ frames[k].names[m].id = frames[k].id /\ frames[k].names[m].name = m
               /\ frames[k].names[m].sort \in SortsIn(frames[k].kind)
    BY <1>1 DEF IInv, FramesInv
  <2>3. \A k \in 1..L :
          \A m \in DOMAIN frames'[k].names :
               /\ frames'[k].names[m].id = frames'[k].id /\ frames'[k].names[m].name = m
               /\ frames'[k].names[m].sort \in SortsIn(frames'[k].kind)
    <3> TAKE k \in 1..L
    <3>1. CASE k = L
      BY <1>2, <1>3, <1>4, <2>1, <2>2, <3>1
    <3>2. CASE k # L
      BY <1>2, <2>2, <3>2
    <3> QED
      BY <3>1, <3>2
  <2>4. opened' = opened
    BY DEF DeclaresHere
  <2> QED
    BY <1>1, <1>2, <2>2, <2>3, <2>4 DEF IInv, FramesInv
<1>8. NestingInv'
  <2>1. \A k \in 1..L : \A j \in 1..k : j \in 1..L
    OBVIOUS
  <2> QED
    BY <1>1, <1>2, <2>1 DEF IInv, NestingInv
<1>9. Fits(frames, ctx, L)
  BY <1>0, <1>1 DEF IInv, ContextsInv, Context
<1>10. GlobalsInv'
  <2>1. ctx.globals \in Table /\ \A m \in DOMAIN ctx.globals : ctx.globals[m].sort = "global"
    BY DEF IInv, GlobalsInv, TypeOK, CodeGenContext
  <2>2. \/ v.sort = "local" /\ ctx'.globals = ctx.globals
        \/ v.sort = "global" /\ Bound(ctx.globals, n, v, ctx'.globals)
    <3>1. Bound(ctx.globals, n, v, Bind(ctx.globals, n, v))
      BY <2>1, BindFacts
    <3> QED
      BY <1>3, <3>1 DEF DeclaresHere
  <2>3. \A m \in DOMAIN ctx'.globals : ctx'.globals[m].sort = "global"
    BY <2>1, <2>2 DEF Bound
  <2>4. \A k \in 1..L, m \in Name :
          Declares(frames, k, m, "global") =>
            /\ \A j \in 1..k : frames[j].kind = "block"
            /\ m \notin clobbered =>
                 /\ m \in DOMAIN ctx.globals /\ ctx.globals[m] = frames[k].names[m]
                 /\ \A j \in 1..(k - 1) : ~ Declares(frames, j, m, "local")
    BY <1>1 DEF IInv, GlobalsInv
  <2>5. clobbered \subseteq clobbered'
    BY DEF DeclaresHere
  <2>6. ASSUME NEW k \in 1..L, NEW m \in Name, Declares(frames', k, m, "global"),
               ~ (k = L /\ m = n)
        PROVE  /\ \A j \in 1..k : frames'[j].kind = "block"
               /\ m \notin clobbered' =>
                    /\ m \in DOMAIN ctx'.globals /\ ctx'.globals[m] = frames'[k].names[m]
                    /\ \A j \in 1..(k - 1) : ~ Declares(frames', j, m, "local")
    <3>1. Declares(frames, k, m, "global") /\ frames'[k].names[m] = frames[k].names[m]
      BY <1>2, <1>4, <1>5, <2>6 DEF Declares
    <3>2. \A j \in 1..k : j \in 1..L
      OBVIOUS
    <3>3. \A j \in 1..(k - 1) : j \in 1..L /\ j # L
      OBVIOUS
    <3>4. \A j \in 1..(k - 1) : Declares(frames', j, m, "local") <=> Declares(frames, j, m, "local")
      BY <1>5, <3>3
    <3>5. ASSUME m \notin clobbered'
          PROVE  m \in DOMAIN ctx'.globals /\ ctx'.globals[m] = ctx.globals[m]
      <4>1. m \in DOMAIN ctx.globals
        BY <2>4, <2>5, <3>1, <3>5
      <4>2. CASE v.sort = "local"
        BY <2>2, <4>1, <4>2
      <4>3. CASE v.sort = "global" /\ m # n
        BY <2>2, <4>1, <4>3 DEF Bound
      <4>4. CASE v.sort = "global" /\ m = n
        BY <3>5, <4>1, <4>4 DEF DeclaresHere
      <4> QED
        BY <1>3, <4>2, <4>3, <4>4
    <3>6. m \notin clobbered' => m \notin clobbered
      BY <2>5
    <3> QED
      BY <1>2, <2>4, <3>1, <3>2, <3>4, <3>5, <3>6
  <2>7. ASSUME Declares(frames', L, n, "global")
        PROVE  /\ \A j \in 1..L : frames'[j].kind = "block"
               /\ n \notin clobbered' =>
                    /\ n \in DOMAIN ctx'.globals /\ ctx'.globals[n] = frames'[L].names[n]
                    /\ \A j \in 1..(L - 1) : ~ Declares(frames', j, n, "local")
    <3>1. v.sort = "global"
      BY <1>4, <2>7 DEF Declares
    <3>2. ctx.inMainBlock /\ ctx.this = NoObject
      BY <3>1 DEF DeclaresHere
    <3>3. \A j \in 1..L : frames[j].kind \in Kind
      BY <1>1 DEF Frame
    <3>4. \A j \in 1..L : frames[j].kind = "block"
      BY <1>9, <3>2, <3>3, MainIsBlocks
    <3>5. Bound(ctx.globals, n, v, ctx'.globals)
      BY <2>2, <3>1
    <3>6. ASSUME n \notin clobbered', NEW j \in 1..(L - 1)
          PROVE  ~ Declares(frames', j, n, "local")
      <4>1. n \notin DOMAIN ctx.locals
        BY <3>1, <3>6 DEF DeclaresHere
      <4>2. Locals(frames, L, n) = {}
        BY <1>9, <4>1 DEF Fits, LocalsFit
      <4>3. j \in 1..L /\ j # L /\ \A i \in (j + 1)..L : i \in 1..L
        OBVIOUS
      <4>4. SameFunction(frames, j, L)
        BY <3>4, <4>3 DEF SameFunction, FunctionKind
      <4>5. ~ Declares(frames, j, n, "local")
        BY <4>2, <4>3, <4>4 DEF Locals
      <4> QED
        BY <1>5, <4>3, <4>5
    <3> QED
      BY <1>2, <1>4, <3>4, <3>5, <3>6 DEF Bound
  <2> QED
    BY <1>2, <2>3, <2>6, <2>7 DEF GlobalsInv
<1>11. ContextsInv'
  <2>1. /\ \A k \in 1..L : k # L => Context(frames', ctx', k) = Context(frames, ctx, k)
        /\ Context(frames', ctx', L) = ctx' /\ Context(frames, ctx, L) = ctx
    <3>1. \A k \in 1..L : k # L => k + 1 \in 1..L
      OBVIOUS
    <3> QED
      BY <1>0, <1>2, <3>1 DEF Context
  <2>2. \A k \in 1..L : k # L => Fits(frames', Context(frames', ctx', k), k)
    <3> TAKE k \in 1..L
    <3> SUFFICES ASSUME k # L PROVE Fits(frames', Context(frames', ctx', k), k)
      OBVIOUS
    <3>1. \A j \in 1..k : j \in 1..L /\ j # L
      OBVIOUS
    <3>2. k \in Nat /\ Agree(frames, frames', k)
      BY <1>2, <3>1 DEF Agree
    <3>3. Fits(frames, Context(frames, ctx, k), k)
      BY <1>1 DEF IInv, ContextsInv
    <3>4. \A c : SameTables(c, c)
      BY DEF SameTables
    <3> QED
      BY <2>1, <3>2, <3>3, <3>4, FitsCarries
  <2>3. Fits(frames', ctx', L)
    <3>1. ctx \in CodeGenContext
      BY DEF IInv, TypeOK
    <3>2. /\ ctx'.fn = ctx.fn /\ ctx'.nameParams = ctx.nameParams /\ ctx'.this = ctx.this
          /\ ctx'.methodThis = ctx.methodThis /\ ctx'.insideMethod = ctx.insideMethod
          /\ ctx'.inspectStack = ctx.inspectStack /\ ctx'.inMainBlock = ctx.inMainBlock
          /\ ctx'.locals = IF v.sort = "local" THEN Bind(ctx.locals, n, v) ELSE ctx.locals
      BY DEF DeclaresHere
    <3> QED
      BY <1>1, <1>2, <1>3, <1>9, <3>1, <3>2, DeclareFits
  <2>4. \A k \in 1..L \ {1} :
          Leaves(frames[k].kind, frames[k].saved, Context(frames, ctx, k))
    BY <1>1 DEF IInv, ContextsInv
  <2>5. \A around : Leaves("block", around, ctx) => Leaves("block", around, ctx')
    BY DEF Leaves, DeclaresHere
  <2>6. \A k \in 1..L \ {1} :
          Leaves(frames'[k].kind, frames'[k].saved, Context(frames', ctx', k))
    BY <1>2, <1>3, <2>1, <2>4, <2>5
  <2> QED
    BY <1>2, <2>1, <2>2, <2>3, <2>6 DEF ContextsInv
<1> QED
  BY <1>6, <1>7, <1>8, <1>10, <1>11 DEF IInv

-----------------------------------------------------------------------------
(* Each step keeps the invariant.                                          *)

LEMMA TopFacts ==
    ASSUME IInv
    PROVE  /\ Len(frames) \in Nat \ {0} /\ Top \in Frame /\ Top.saved \in CodeGenContext
           /\ ctx \in CodeGenContext
           /\ Fits(frames, ctx, Len(frames))
           /\ Len(frames) > 1 => Leaves(Top.kind, Top.saved, ctx)
<1>0. PICK L \in Nat : L = Len(frames)
  BY DEF IInv, TypeOK
<1>1. L # 0 /\ L \in DOMAIN frames /\ frames[L] \in Frame /\ Top = frames[L]
  BY <1>0 DEF IInv, TypeOK, Top
<1>2. Top.saved \in CodeGenContext /\ ctx \in CodeGenContext
  BY <1>1 DEF Frame, IInv, TypeOK
<1>3. Context(frames, ctx, L) = ctx
  BY <1>0 DEF Context
<1> QED
  BY <1>0, <1>1, <1>2, <1>3 DEF IInv, ContextsInv

LEMMA VarDeclarationInv ==
    ASSUME IInv, NEW n \in Name, VarDeclaration(n)
    PROVE  IInv'
<1>1. PICK global \in BOOLEAN :
        /\ global <=> /\ ctx.inMainBlock /\ ctx.this = NoObject
                      /\ n \notin DOMAIN ctx.locals \cup DOMAIN ctx.globals
        /\ Top.kind = "block" /\ n \notin DOMAIN Top.names
        /\ Declare(n, Variable(Top.id, n, IF global THEN "global" ELSE "local", ctx.fn))
        /\ ctx' = IF global
                  THEN [ctx EXCEPT !.declared = @ \cup {n},
                          !.globals = Bind(@, n, Variable(Top.id, n, "global", ctx.fn))]
                  ELSE [ctx EXCEPT !.declared = @ \cup {n},
                          !.locals = Bind(@, n, Variable(Top.id, n, "local", ctx.fn))]
        /\ opened' = opened /\ clobbered' = clobbered
  BY DEF VarDeclaration, InDeclarations
<1>2. PICK v : v = Variable(Top.id, n, IF global THEN "global" ELSE "local", ctx.fn)
  OBVIOUS
<1>3. /\ v \in Var /\ v.sort = (IF global THEN "global" ELSE "local")
      /\ v = Variable(Top.id, n, v.sort, ctx.fn)
  BY <1>2, TopFacts DEF Variable, Var, Sort, Frame, CodeGenContext
<1>4. PICK c \in CodeGenContext : c = ctx
  BY TopFacts
<1>5. Bind(c.globals, n, v) \in Table /\ Bind(c.locals, n, v) \in Table
  BY <1>3, BindFacts DEF CodeGenContext, Bound
<1>6. ctx' = IF global THEN [c EXCEPT !.declared = @ \cup {n}, !.globals = Bind(c.globals, n, v)]
                       ELSE [c EXCEPT !.declared = @ \cup {n}, !.locals = Bind(c.locals, n, v)]
  BY <1>1, <1>2, <1>4
<1>7. DeclaresHere(n, v)
  <2>1. /\ ctx' \in CodeGenContext
        /\ ctx'.fn = c.fn /\ ctx'.nameParams = c.nameParams /\ ctx'.this = c.this
        /\ ctx'.methodThis = c.methodThis /\ ctx'.insideMethod = c.insideMethod
        /\ ctx'.inspectStack = c.inspectStack /\ ctx'.inMainBlock = c.inMainBlock
        /\ ctx'.locals = IF v.sort = "local" THEN Bind(c.locals, n, v) ELSE c.locals
        /\ ctx'.globals = IF v.sort = "local" THEN c.globals ELSE Bind(c.globals, n, v)
    BY <1>3, <1>5, <1>6 DEF CodeGenContext
  <2>2. v.sort = "global" => global
    BY <1>3
  <2>3. clobbered \subseteq Name
    BY DEF IInv, TypeOK
  <2> QED
    BY <1>1, <1>2, <1>3, <1>4, <2>1, <2>2, <2>3 DEF DeclaresHere
<1> QED
  BY <1>3, <1>7, DeclareInv

LEMMA RefDeclarationInv ==
    ASSUME IInv, NEW n \in Name, RefDeclaration(n)
    PROVE  IInv'
<1>1. PICK global \in BOOLEAN :
        /\ global <=> ctx.inMainBlock /\ ctx.this = NoObject
        /\ Top.kind = "block" /\ n \notin DOMAIN Top.names
        /\ Declare(n, Variable(Top.id, n, IF global THEN "global" ELSE "local", ctx.fn))
        /\ ctx' = IF global
                  THEN [ctx EXCEPT !.globals =
                          Bind(@, n, Variable(Top.id, n, "global", ctx.fn))]
                  ELSE [ctx EXCEPT !.locals =
                          Bind(@, n, Variable(Top.id, n, "local", ctx.fn))]
        /\ clobbered' = IF global /\ n \in DOMAIN ctx.locals \cup DOMAIN ctx.globals
                        THEN clobbered \cup {n} ELSE clobbered
        /\ opened' = opened
  BY DEF RefDeclaration, InDeclarations
<1>2. PICK v : v = Variable(Top.id, n, IF global THEN "global" ELSE "local", ctx.fn)
  OBVIOUS
<1>3. /\ v \in Var /\ v.sort = (IF global THEN "global" ELSE "local")
      /\ v = Variable(Top.id, n, v.sort, ctx.fn)
  BY <1>2, TopFacts DEF Variable, Var, Sort, Frame, CodeGenContext
<1>4. PICK c \in CodeGenContext : c = ctx
  BY TopFacts
<1>5. Bind(c.globals, n, v) \in Table /\ Bind(c.locals, n, v) \in Table
  BY <1>3, BindFacts DEF CodeGenContext, Bound
<1>6. ctx' = IF global THEN [c EXCEPT !.globals = Bind(c.globals, n, v)]
                       ELSE [c EXCEPT !.locals = Bind(c.locals, n, v)]
  BY <1>1, <1>2, <1>4
<1>7. DeclaresHere(n, v)
  <2>1. /\ ctx' \in CodeGenContext
        /\ ctx'.fn = c.fn /\ ctx'.nameParams = c.nameParams /\ ctx'.this = c.this
        /\ ctx'.methodThis = c.methodThis /\ ctx'.insideMethod = c.insideMethod
        /\ ctx'.inspectStack = c.inspectStack /\ ctx'.inMainBlock = c.inMainBlock
        /\ ctx'.locals = IF v.sort = "local" THEN Bind(c.locals, n, v) ELSE c.locals
        /\ ctx'.globals = IF v.sort = "local" THEN c.globals ELSE Bind(c.globals, n, v)
    BY <1>3, <1>5, <1>6 DEF CodeGenContext
  <2>2. v.sort = "global" => global
    BY <1>3
  <2>3. /\ clobbered' \subseteq Name /\ clobbered \subseteq clobbered'
        /\ v.sort = "global" /\ n \notin clobbered'
             => n \notin DOMAIN ctx.locals \cup DOMAIN ctx.globals
    BY <1>1, <2>2 DEF IInv, TypeOK
  <2> QED
    BY <1>1, <1>2, <1>3, <1>4, <2>1, <2>2, <2>3 DEF DeclaresHere
<1> QED
  BY <1>3, <1>7, DeclareInv

\* What a construct opens with.
LEMMA OpenFacts ==
    ASSUME IInv, NEW kind \in Kind, NEW names \in Table,
           NEW phase \in {"declarations", "statements"}
    PROVE  /\ Open(kind, names, phase) \in Frame
           /\ Open(kind, names, phase).id = opened
           /\ Open(kind, names, phase).kind = kind
           /\ Open(kind, names, phase).names = names
           /\ Open(kind, names, phase).saved = ctx
  BY DEF Open, Frame, IInv, TypeOK

LEMMA BeginBlockInv ==
    ASSUME IInv, BeginBlock
    PROVE  IInv'
<1>1. PICK L \in Nat \ {0} : L = Len(frames)
  BY TopFacts
<1>2. PICK frame : frame = Open("block", Empty, "declarations")
  OBVIOUS
<1>3. /\ frame \in Frame /\ frame.id = opened /\ frame.kind = "block"
      /\ frame.names = Empty /\ frame.saved = ctx
  BY <1>2, OpenFacts, EmptyFacts DEF Kind
<1>4. NewFrame(frame)
  BY <1>3, EmptyFacts DEF NewFrame
<1>5. Push(frame) /\ Pushed(frames, frames', frame, L)
  BY <1>1, <1>2, <1>3, PushFacts DEF BeginBlock, IInv
<1>6. PICK c \in CodeGenContext : c = ctx
  BY TopFacts
<1>7. ctx' = [c EXCEPT !.declared = {}]
  BY <1>6 DEF BeginBlock
<1>8. ctx' \in CodeGenContext /\ SameTables(ctx, ctx') /\ ctx'.globals = ctx.globals
  BY <1>6, <1>7 DEF CodeGenContext, SameTables
<1>9. Fits(frames', ctx, L)
  <2>1. Fits(frames, ctx, L) /\ Agree(frames, frames', L) /\ SameTables(ctx, ctx)
    BY <1>1, <1>5, TopFacts DEF Pushed, SameTables
  <2> QED
    BY <2>1, FitsCarries
<1>10. Fits(frames', ctx', L + 1)
  BY <1>3, <1>5, <1>8, <1>9, PushBlock, EmptyFacts DEF Pushed
<1>11. Leaves("block", ctx, ctx')
  BY <1>8 DEF Leaves, SameTables
<1> QED
  BY <1>1, <1>3, <1>4, <1>5, <1>8, <1>10, <1>11, PushInv

LEMMA CapturedFacts ==
    ASSUME IInv
    PROVE  /\ Captured \in Table /\ DOMAIN Captured = DOMAIN ctx.locals
           /\ \A n \in DOMAIN ctx.locals :
                Captured[n] = [ctx.locals[n] EXCEPT !.fn = opened]
<1>1. ctx.locals \in Table /\ opened \in Nat
  BY DEF IInv, TypeOK, CodeGenContext
<1>2. DOMAIN ctx.locals \in SUBSET Name /\ \A n \in DOMAIN ctx.locals : ctx.locals[n] \in Var
  BY <1>1, TableFacts
<1>3. ASSUME NEW v \in Var PROVE [v EXCEPT !.fn = opened] \in Var
  BY <1>1 DEF Var
<1>4. Captured \in [DOMAIN ctx.locals -> Var]
  BY <1>2, <1>3 DEF Captured
<1> QED
  BY <1>2, <1>4, TableFacts DEF Captured

\* Where a procedure may be declared, no object but that of a method is about.
LEMMA ProcedurePlace ==
    ASSUME IInv, ~ InConnection, ctx.this = NoObject \/ ctx.insideMethod
    PROVE  \A j \in 1..Len(frames) :
             /\ frames[j].kind \notin {"inspect", "classbody"}
             /\ frames[j].kind = "method" => j = 2
<1>1. PICK L \in Nat \ {0} : L = Len(frames)
  BY TopFacts
<1>2. DOMAIN frames = 1..L
  BY <1>1 DEF IInv, TypeOK
<1>3. Fits(frames, ctx, L)
  BY <1>1, TopFacts
<1>4. \A j \in 1..L : frames[j].kind \in {"method", "classbody"} => j = 2
  BY <1>2 DEF IInv, NestingInv
<1>5. \A j \in 1..L : frames[j].kind # "inspect"
  BY <1>2 DEF InConnection
<1>6. ASSUME NEW j \in 1..L, frames[j].kind = "classbody" PROVE FALSE
  <2>1. Methods(frames, L) = {}
    BY <1>4, <1>6 DEF Methods
  <2>2. ctx.this = NoObject
    BY <1>3, <2>1 DEF Fits, MethodThisFits
  <2>3. Objects(frames, L) # {} /\ Objects(frames, L) \in SUBSET (1..L)
    BY <1>6 DEF Objects, ObjectKind
  <2>4. PICK t \in 1..L : Innermost(Objects(frames, L), t)
    BY <2>3, InnermostExists
  <2>5. ctx.this \in Obj
    BY <1>3, <2>4 DEF Fits, ThisFits, ObjectOf
  <2> QED
    BY <2>2, <2>5 DEF Obj, NoObject
<1> QED
  BY <1>1, <1>4, <1>5, <1>6

\* The names of a procedure: its parameters by value and by name.
FormalNames(t, byValue, byName) ==
    /\ t \in Table
    /\ DOMAIN t = byValue \cup byName
    /\ \A n \in byValue : t[n] = Variable(opened, n, "local", opened)
    /\ \A n \in byName  : t[n] = Variable(opened, n, "name", opened)

LEMMA FormalsFacts ==
    ASSUME IInv, NEW byValue \in SUBSET Name, NEW byName \in SUBSET Name,
           byValue \cap byName = {}
    PROVE  FormalNames(Over(Parameters(byValue, "local"), Parameters(byName, "name")),
                       byValue, byName)
<1>1. opened \in Nat /\ "local" \in Sort /\ "name" \in Sort
  BY DEF IInv, TypeOK, Sort
<1>2. /\ Parameters(byValue, "local") \in Table
      /\ DOMAIN Parameters(byValue, "local") = byValue
      /\ \A n \in byValue :
            Parameters(byValue, "local")[n] = Variable(opened, n, "local", opened)
  BY <1>1, ParametersFacts
<1>3. /\ Parameters(byName, "name") \in Table
      /\ DOMAIN Parameters(byName, "name") = byName
      /\ \A n \in byName :
            Parameters(byName, "name")[n] = Variable(opened, n, "name", opened)
  BY <1>1, ParametersFacts
<1>4. Laid(Parameters(byValue, "local"), Parameters(byName, "name"),
           Over(Parameters(byValue, "local"), Parameters(byName, "name")))
  BY <1>2, <1>3, OverFacts
<1> QED
  BY <1>2, <1>3, <1>4 DEF FormalNames, Laid

LEMMA BeginProcedureInv ==
    ASSUME IInv, NEW byValue \in SUBSET Name, NEW byName \in SUBSET Name,
           byValue \cap byName = {}, BeginProcedure(byValue, byName)
    PROVE  IInv'
<1>1. PICK L \in Nat \ {0} : L = Len(frames)
  BY TopFacts
<1>2. PICK values, slots : /\ values = Parameters(byValue, "local")
                           /\ slots = Parameters(byName, "name")
  OBVIOUS
<1>3. PICK names : names = Over(values, slots)
  OBVIOUS
<1>4. /\ opened \in Nat
      /\ values \in Table /\ DOMAIN values = byValue
      /\ \A n \in byValue : values[n] = Variable(opened, n, "local", opened)
      /\ slots \in Table /\ DOMAIN slots = byName
      /\ \A n \in byName : slots[n] = Variable(opened, n, "name", opened)
  BY <1>2, ParametersFacts DEF IInv, TypeOK, Sort
<1>5. /\ names \in Table
      /\ DOMAIN names = byValue \cup byName
      /\ \A n \in byValue : names[n] = Variable(opened, n, "local", opened)
      /\ \A n \in byName  : names[n] = Variable(opened, n, "name", opened)
  BY <1>2, <1>3, FormalsFacts DEF FormalNames
<1>6. PICK frame : frame = Open("procedure", names, "statements")
  OBVIOUS
<1>7. /\ frame \in Frame /\ frame.id = opened /\ frame.kind = "procedure"
      /\ frame.names = names /\ frame.saved = ctx
  BY <1>5, <1>6, OpenFacts DEF Kind, FunctionKind
<1>8. \A j \in 1..L : /\ frames[j].kind \notin {"inspect", "classbody"}
                      /\ frames[j].kind = "method" => j = 2
  BY <1>1, ProcedurePlace DEF BeginProcedure
<1>9. NewFrame(frame)
  <2>1. \A n \in DOMAIN names :
          /\ names[n].id = opened /\ names[n].name = n
          /\ names[n].sort \in SortsIn("procedure") \ {"global"}
    BY <1>5 DEF Variable, SortsIn
  <2> QED
    BY <1>1, <1>7, <1>8, <2>1 DEF NewFrame
<1>10. Push(frame) /\ Pushed(frames, frames', frame, L)
  BY <1>1, <1>2, <1>3, <1>6, <1>7, PushFacts DEF BeginProcedure, IInv
<1>11. PICK c \in CodeGenContext : c = ctx
  BY TopFacts
<1>12. PICK np : np = Over(Captured, slots)
  OBVIOUS
<1>13. /\ np \in Table /\ DOMAIN np = DOMAIN c.locals \cup byName
       /\ \A n \in DOMAIN c.locals : np[n] = [c.locals[n] EXCEPT !.fn = opened]
       /\ \A n \in byName : n \notin DOMAIN c.locals => np[n] = slots[n]
  <2>1. PICK captured : captured = Captured
    OBVIOUS
  <2>2. /\ captured \in Table /\ DOMAIN captured = DOMAIN c.locals
        /\ \A n \in DOMAIN c.locals : captured[n] = [c.locals[n] EXCEPT !.fn = opened]
    BY <1>11, <2>1, CapturedFacts
  <2>3. np = Over(captured, slots)
    BY <1>12, <2>1
  <2>4. slots \in Table /\ captured \in Table
    BY <1>4, <2>2
  <2>5. Laid(captured, slots, np)
    BY <2>3, <2>4, OverFacts
  <2> QED
    BY <1>4, <2>2, <2>5 DEF Laid
<1>14. PICK this : this = IF c.this = NoObject THEN c.this
                          ELSE [c.this EXCEPT !.fn = opened]
  OBVIOUS
<1>15. this \in Obj \cup {NoObject}
  <2>1. \A o \in Obj : [o EXCEPT !.fn = opened] \in Obj
    BY <1>4 DEF Obj
  <2>2. c.this \in Obj \cup {NoObject}
    BY DEF CodeGenContext
  <2> QED
    BY <1>14, <2>1, <2>2
<1>16. ctx' = [c EXCEPT !.fn = opened, !.locals = values, !.nameParams = np,
                        !.this = this, !.inMainBlock = FALSE]
  BY <1>2, <1>11, <1>12, <1>14 DEF BeginProcedure
<1>17. /\ ctx' \in CodeGenContext /\ ctx'.globals = c.globals
       /\ ctx'.fn = opened /\ ctx'.locals = values /\ ctx'.nameParams = np
       /\ ctx'.this = this /\ ~ ctx'.inMainBlock
       /\ ctx'.methodThis = c.methodThis /\ ctx'.insideMethod = c.insideMethod
       /\ ctx'.inspectStack = c.inspectStack
  BY <1>4, <1>13, <1>15, <1>16 DEF CodeGenContext
<1>18. Fits(frames', c, L)
  <2>1. Fits(frames, c, L) /\ Agree(frames, frames', L) /\ SameTables(c, c)
    BY <1>1, <1>10, <1>11, TopFacts DEF Pushed, SameTables
  <2> QED
    BY <2>1, FitsCarries
<1>19. /\ frames'[L + 1] = frame
       /\ \A j \in 1..L : /\ frames'[j].kind \notin {"inspect", "classbody"}
                          /\ frames'[j].kind = "method" => j = 2
  BY <1>8, <1>10 DEF Pushed, Agree
<1>20. \A n, sort : Declares(frames', L + 1, n, sort)
                      <=> \/ n \in byValue /\ sort = "local"
                          \/ n \in byName /\ sort = "name"
  BY <1>5, <1>7, <1>19 DEF Declares, Variable
<1>21. Enters(frames', L + 1, values, "local", opened)
  BY <1>4, <1>5, <1>7, <1>19, <1>20 DEF Enters, Variable
<1>22. \A n \in Name : Declares(frames', L + 1, n, "name") /\ n \notin DOMAIN c.locals
          => np[n] = frame.names[n] /\ frame.names[n].fn = opened
  BY <1>4, <1>5, <1>7, <1>13, <1>20 DEF Variable
<1>23. Fits(frames', ctx', L + 1)
  <2>1. PICK d : d = ctx'
    OBVIOUS
  <2>2. /\ frames'[L + 1].kind = "procedure" /\ frames'[L + 1].id = opened
        /\ d.fn = frames'[L + 1].id /\ d.fn \in Nat
        /\ frames'[L + 1].names = frame.names
    BY <1>4, <1>7, <1>17, <1>19, <2>1
  <2>3. Enters(frames', L + 1, d.locals, "local", d.fn)
    BY <1>17, <1>21, <2>1
  <2>4. \A n \in Name :
          n \in DOMAIN d.nameParams <=>
            n \in DOMAIN c.locals \/ Declares(frames', L + 1, n, "name")
    BY <1>13, <1>17, <1>20, <2>1
  <2>5. \A n \in DOMAIN c.locals : d.nameParams[n] = [c.locals[n] EXCEPT !.fn = d.fn]
    BY <1>13, <1>17, <2>1
  <2>6. \A n \in Name : Declares(frames', L + 1, n, "name") /\ n \notin DOMAIN c.locals
          => d.nameParams[n] = frames'[L + 1].names[n] /\ frames'[L + 1].names[n].fn = d.fn
    BY <1>17, <1>22, <2>1, <2>2
  <2>7. /\ d.this = IF c.this = NoObject THEN c.this ELSE [c.this EXCEPT !.fn = d.fn]
        /\ d.methodThis = c.methodThis /\ d.insideMethod = c.insideMethod
        /\ d.inspectStack = c.inspectStack /\ ~ d.inMainBlock
    BY <1>14, <1>17, <2>1
  <2>8. Fits(frames', d, L + 1)
    BY <1>18, <1>19, <2>2, <2>3, <2>4, <2>5, <2>6, <2>7, PushProcedure
  <2> QED
    BY <2>1, <2>8
<1>24. Leaves("procedure", ctx, ctx')
  BY DEF Leaves
<1> QED
  BY <1>1, <1>7, <1>9, <1>10, <1>11, <1>17, <1>23, <1>24, PushInv

LEMMA BeginMethodInv ==
    ASSUME IInv, NEW cl \in Class, NEW byValue \in SUBSET Name, NEW byName \in SUBSET Name,
           byValue \cap byName = {}, BeginMethod(cl, byValue, byName)
    PROVE  IInv'
<1>1. Len(frames) = 1 /\ frames[1].kind = "block" /\ 1 \in Nat \ {0}
  BY DEF BeginMethod, IInv, FramesInv
<1>2. PICK values, slots, fields : /\ values = Parameters(byValue, "local")
                                   /\ slots = Parameters(byName, "name")
                                   /\ fields = Parameters(Fields[cl], "field")
  OBVIOUS
<1>3. PICK inner : inner = Over(slots, fields)
  OBVIOUS
<1>4. PICK names : names = Over(values, inner)
  OBVIOUS
<1>5. Fields[cl] \in SUBSET Name /\ opened \in Nat
  BY FieldsAssumption DEF IInv, TypeOK
<1>6. /\ values \in Table /\ DOMAIN values = byValue
      /\ \A n \in byValue : values[n] = Variable(opened, n, "local", opened)
      /\ slots \in Table /\ DOMAIN slots = byName
      /\ \A n \in byName : slots[n] = Variable(opened, n, "name", opened)
      /\ fields \in Table /\ DOMAIN fields = Fields[cl]
      /\ \A n \in Fields[cl] : fields[n] = Variable(opened, n, "field", opened)
  BY <1>2, <1>5, ParametersFacts DEF Sort
<1>7. Laid(slots, fields, inner)
  BY <1>3, <1>6, OverFacts
<1>8. inner \in Table
  BY <1>7 DEF Laid
<1>9. Laid(values, inner, names)
  BY <1>4, <1>6, <1>8, OverFacts
<1>10. /\ names \in Table
       /\ DOMAIN names = byValue \cup byName \cup Fields[cl]
       /\ \A n \in byValue : names[n] = Variable(opened, n, "local", opened)
       /\ \A n \in byName  : names[n] = Variable(opened, n, "name", opened)
       /\ \A n \in Fields[cl] : n \notin byValue \cup byName
             => names[n] = Variable(opened, n, "field", opened)
  BY <1>6, <1>7, <1>9 DEF Laid
<1>11. PICK frame : frame = Open("method", names, "statements")
  OBVIOUS
<1>12. /\ frame \in Frame /\ frame.id = opened /\ frame.kind = "method"
       /\ frame.names = names /\ frame.saved = ctx
  BY <1>10, <1>11, OpenFacts DEF Kind, FunctionKind
<1>13. NewFrame(frame)
  <2>1. \A n \in DOMAIN names :
          /\ names[n].id = opened /\ names[n].name = n
          /\ names[n].sort \in SortsIn("method") \ {"global"}
    <3>1. SortsIn("method") = {"local", "name", "field"}
      BY DEF SortsIn
    <3>2. \A n \in DOMAIN names :
            /\ names[n].id = opened /\ names[n].name = n
            /\ names[n].sort = IF n \in byValue THEN "local"
                               ELSE IF n \in byName THEN "name" ELSE "field"
      BY <1>10, VariableFacts
    <3> QED
      BY <3>1, <3>2
  <2> QED
    BY <1>1, <1>12, <2>1 DEF NewFrame
<1>14. Push(frame) /\ Pushed(frames, frames', frame, 1)
  BY <1>1, <1>2, <1>3, <1>4, <1>11, <1>12, PushFacts DEF BeginMethod, IInv
<1>15. PICK c \in CodeGenContext : c = ctx
  BY TopFacts
<1>16. PICK obj : obj = Object(opened, cl, opened)
  OBVIOUS
<1>17. obj \in Obj /\ obj.id = opened /\ obj.class = cl /\ obj.fn = opened
  BY <1>5, <1>16 DEF Object, Obj
<1>18. ctx' = [c EXCEPT !.fn = opened, !.locals = values, !.nameParams = slots,
                        !.this = obj, !.methodThis = obj,
                        !.insideMethod = TRUE, !.inMainBlock = FALSE]
  BY <1>2, <1>15, <1>16 DEF BeginMethod
<1>19. /\ ctx' \in CodeGenContext /\ ctx'.globals = c.globals
       /\ ctx'.fn = opened /\ ctx'.locals = values /\ ctx'.nameParams = slots
       /\ ctx'.this = obj /\ ctx'.methodThis = obj
       /\ ctx'.insideMethod /\ ~ ctx'.inMainBlock
       /\ ctx'.inspectStack = c.inspectStack
  BY <1>5, <1>6, <1>17, <1>18 DEF CodeGenContext
<1>20. Fits(frames', c, 1)
  <2>1. Fits(frames, c, 1) /\ Agree(frames, frames', 1) /\ SameTables(c, c)
    BY <1>1, <1>14, <1>15, TopFacts DEF Pushed, SameTables
  <2> QED
    BY <2>1, FitsCarries
<1>21. frames'[2] = frame /\ frames'[1].kind = "block"
  BY <1>1, <1>14 DEF Pushed, Agree
<1>22. \A n, sort : Declares(frames', 2, n, sort)
                      <=> \/ n \in byValue /\ sort = "local"
                          \/ n \in byName /\ sort = "name"
                          \/ n \in Fields[cl] \ (byValue \cup byName) /\ sort = "field"
  <2>1. \A n \in DOMAIN names :
          names[n].sort = IF n \in byValue THEN "local"
                          ELSE IF n \in byName THEN "name" ELSE "field"
    BY <1>10, VariableFacts
  <2>2. \A n, sort : Declares(frames', 2, n, sort)
                       <=> n \in DOMAIN names /\ names[n].sort = sort
    BY <1>12, <1>21 DEF Declares
  <2> QED
    BY <1>10, <2>1, <2>2
<1>23. /\ Enters(frames', 2, values, "local", opened)
       /\ Enters(frames', 2, slots, "name", opened)
  BY <1>6, <1>10, <1>12, <1>21, <1>22 DEF Enters, Variable
<1>24. ObjectOf(obj, frame)
  <2>1. \A n \in DOMAIN names : names[n].sort = "field" => n \in Fields[cl]
    BY <1>10 DEF Variable
  <2> QED
    BY <1>10, <1>12, <1>17, <2>1 DEF ObjectOf
<1>25. Fits(frames', ctx', 2)
  BY <1>12, <1>17, <1>19, <1>20, <1>21, <1>23, <1>24, PushMethod
<1>26. Leaves("method", ctx, ctx')
  BY DEF Leaves
<1>27. Len(frames) + 1 = 2
  BY <1>1
<1> QED
  BY <1>12, <1>13, <1>14, <1>15, <1>19, <1>25, <1>26, <1>27, PushInv

\* The names of a class body, and of a connection: the attributes.
LEMMA AttributesFacts ==
    ASSUME IInv, NEW cl \in Class, NEW kind \in {"classbody", "inspect"},
           kind = "classbody" => Len(frames) = 1,
           NEW fn \in Nat
    PROVE  LET frame == Open(kind, Parameters(Fields[cl], "field"), "statements")
               obj   == Object(opened, cl, fn)
           IN /\ NewFrame(frame) /\ frame \in Frame /\ frame.kind = kind
              /\ frame.id = opened
              /\ \A n \in DOMAIN frame.names : frame.names[n].sort = "field"
              /\ obj \in Obj /\ ObjectOf(obj, frame) /\ obj.fn = fn
<1>1. Fields[cl] \in SUBSET Name /\ opened \in Nat
  BY FieldsAssumption DEF IInv, TypeOK
<1>2. PICK names : names = Parameters(Fields[cl], "field")
  OBVIOUS
<1>3. /\ names \in Table /\ DOMAIN names = Fields[cl]
      /\ \A n \in Fields[cl] : names[n] = Variable(opened, n, "field", opened)
  BY <1>1, <1>2, ParametersFacts DEF Sort
<1>4. PICK frame : frame = Open(kind, names, "statements")
  OBVIOUS
<1>5. /\ frame \in Frame /\ frame.id = opened /\ frame.kind = kind
      /\ frame.names = names /\ frame.saved = ctx
  BY <1>3, <1>4, OpenFacts DEF Kind, FunctionKind, ObjectKind
<1>6. \A n \in DOMAIN names :
        /\ names[n].id = opened /\ names[n].name = n /\ names[n].sort = "field"
        /\ names[n].sort \in SortsIn(kind) \ {"global"}
  <2>1. "field" \in SortsIn(kind) \ {"global"}
    BY DEF SortsIn
  <2>2. \A n \in DOMAIN names :
          names[n].id = opened /\ names[n].name = n /\ names[n].sort = "field"
    BY <1>3, VariableFacts
  <2> QED
    BY <2>1, <2>2
<1>7. NewFrame(frame)
  BY <1>5, <1>6 DEF NewFrame
<1>8. PICK obj : obj = Object(opened, cl, fn)
  OBVIOUS
<1>9. obj \in Obj /\ obj.id = opened /\ obj.class = cl /\ obj.fn = fn
  BY <1>1, <1>8 DEF Object, Obj
<1>10. ObjectOf(obj, frame)
  BY <1>3, <1>5, <1>9 DEF ObjectOf
<1> QED
  BY <1>2, <1>4, <1>5, <1>6, <1>7, <1>8, <1>9, <1>10

LEMMA BeginClassBodyInv ==
    ASSUME IInv, NEW cl \in Class, BeginClassBody(cl)
    PROVE  IInv'
<1>1. /\ Len(frames) = 1 /\ frames[1].kind = "block" /\ 1 \in Nat \ {0}
      /\ Len(frames) + 1 = 2 /\ opened \in Nat
  BY DEF BeginClassBody, IInv, FramesInv, TypeOK
<1>2. PICK frame, obj :
        /\ frame = Open("classbody", Parameters(Fields[cl], "field"), "statements")
        /\ obj = Object(opened, cl, opened)
  OBVIOUS
<1>3. /\ NewFrame(frame) /\ frame \in Frame /\ frame.kind = "classbody"
      /\ frame.id = opened
      /\ \A n \in DOMAIN frame.names : frame.names[n].sort = "field"
      /\ obj \in Obj /\ ObjectOf(obj, frame) /\ obj.fn = opened
  BY <1>1, <1>2, AttributesFacts
<1>4. Push(frame) /\ Pushed(frames, frames', frame, 1)
  BY <1>1, <1>2, <1>3, PushFacts DEF BeginClassBody, IInv
<1>5. PICK c \in CodeGenContext : c = ctx
  BY TopFacts
<1>6. ctx' = [c EXCEPT !.fn = opened, !.locals = Empty, !.this = obj]
  BY <1>2, <1>5 DEF BeginClassBody
<1>7. /\ ctx' \in CodeGenContext /\ ctx'.globals = c.globals
      /\ ctx'.fn = opened /\ ctx'.locals = Empty /\ ctx'.nameParams = c.nameParams
      /\ ctx'.this = obj /\ ctx'.methodThis = c.methodThis
      /\ ctx'.insideMethod = c.insideMethod /\ ctx'.inMainBlock = c.inMainBlock
      /\ ctx'.inspectStack = c.inspectStack
  BY <1>1, <1>3, <1>6, EmptyFacts DEF CodeGenContext
<1>8. Fits(frames', c, 1)
  <2>1. Fits(frames, c, 1) /\ Agree(frames, frames', 1) /\ SameTables(c, c)
    BY <1>1, <1>4, <1>5, TopFacts DEF Pushed, SameTables
  <2> QED
    BY <2>1, FitsCarries
<1>9. frames'[2] = frame /\ frames'[1].kind = "block"
  BY <1>1, <1>4 DEF Pushed, Agree
<1>10. Fits(frames', ctx', 2)
  BY <1>3, <1>7, <1>8, <1>9, PushClassBody
<1>11. Leaves("classbody", ctx, ctx')
  BY <1>5, <1>7 DEF Leaves
<1> QED
  BY <1>1, <1>3, <1>4, <1>5, <1>7, <1>10, <1>11, PushInv

LEMMA ConnectInv ==
    ASSUME IInv, NEW cl \in Class, Connect(cl)
    PROVE  IInv'
<1>1. PICK L \in Nat \ {0} : L = Len(frames)
  BY TopFacts
<1>2. ctx.fn \in Nat /\ opened \in Nat
  BY TopFacts DEF CodeGenContext, IInv, TypeOK
<1>3. PICK frame, obj :
        /\ frame = Open("inspect", Parameters(Fields[cl], "field"), "statements")
        /\ obj = Object(opened, cl, ctx.fn)
  OBVIOUS
<1>4. /\ NewFrame(frame) /\ frame \in Frame /\ frame.kind = "inspect"
      /\ frame.id = opened
      /\ \A n \in DOMAIN frame.names : frame.names[n].sort = "field"
      /\ obj \in Obj /\ ObjectOf(obj, frame) /\ obj.fn = ctx.fn
  BY <1>2, <1>3, AttributesFacts
<1>5. Push(frame) /\ Pushed(frames, frames', frame, L)
  BY <1>1, <1>3, <1>4, PushFacts DEF Connect, IInv
<1>6. PICK c \in CodeGenContext : c = ctx
  BY TopFacts
<1>7. PICK stack : stack = IF c.this = NoObject THEN c.inspectStack
                           ELSE Append(c.inspectStack, c.this)
  OBVIOUS
<1>8. stack \in Seq(Obj)
  <2>1. c.inspectStack \in Seq(Obj) /\ c.this \in Obj \cup {NoObject}
    BY DEF CodeGenContext
  <2> QED
    BY <1>7, <2>1, AppendProperties
<1>9. ctx' = [c EXCEPT !.this = obj, !.inspectStack = stack]
  BY <1>3, <1>6, <1>7 DEF Connect
<1>10. /\ ctx' \in CodeGenContext /\ ctx'.globals = c.globals
       /\ ctx'.fn = c.fn /\ ctx'.locals = c.locals /\ ctx'.nameParams = c.nameParams
       /\ ctx'.this = obj /\ ctx'.methodThis = c.methodThis
       /\ ctx'.insideMethod = c.insideMethod /\ ctx'.inMainBlock = c.inMainBlock
       /\ ctx'.inspectStack = stack
  BY <1>4, <1>8, <1>9 DEF CodeGenContext
<1>11. Fits(frames', c, L)
  <2>1. Fits(frames, c, L) /\ Agree(frames, frames', L) /\ SameTables(c, c)
    BY <1>1, <1>5, <1>6, TopFacts DEF Pushed, SameTables
  <2> QED
    BY <2>1, FitsCarries
<1>12. Fits(frames', ctx', L + 1)
  <2>1. PICK d : d = ctx'
    OBVIOUS
  <2>2. /\ frames'[L + 1] = frame
        /\ \A j \in 1..L : frames'[j].id = frames[j].id
    BY <1>5 DEF Pushed, Agree
  <2>3. \A j \in 1..L : frames[j].id < opened /\ frames[j].id \in Nat
    <3>1. \A j \in 1..L : frames[j] \in Frame /\ j \in DOMAIN frames
      BY <1>1 DEF IInv, TypeOK
    <3>2. \A j \in 1..L : frames[j].id \in Nat
      BY <3>1 DEF Frame
    <3>3. \A j \in 1..L : frames[j].id < opened
      BY <3>1 DEF IInv, FramesInv
    <3> QED
      BY <3>2, <3>3
  <2>4. \A i, j \in 1..L : i < j => frames[i].id < frames[j].id
    BY <1>1 DEF IInv, FramesInv, TypeOK
  <2>5. 1..(L + 1) = 1..L \cup {L + 1} /\ \A j \in 1..L : j < L + 1 /\ ~ (L + 1 < j)
    OBVIOUS
  <2>6. /\ \A i, j \in 1..(L + 1) : i < j => frames'[i].id < frames'[j].id
        /\ \A j \in 1..(L + 1) : frames'[j].id \in Nat
    BY <1>2, <1>4, <2>2, <2>3, <2>4, <2>5
  <2>7. Fits(frames', d, L + 1)
    BY <1>4, <1>6, <1>7, <1>10, <1>11, <2>1, <2>2, <2>6, PushInspect
  <2> QED
    BY <2>1, <2>7
<1>13. Leaves("inspect", ctx, ctx')
  BY <1>6, <1>7, <1>10 DEF Leaves
<1> QED
  BY <1>1, <1>4, <1>5, <1>6, <1>10, <1>12, <1>13, PushInv

LEMMA EndBlockInv ==
    ASSUME IInv, EndBlock
    PROVE  IInv'
<1>1. PICK c, a \in CodeGenContext : c = ctx /\ a = Top.saved
  BY TopFacts
<1>2. PICK d : d = [c EXCEPT !.declared = a.declared, !.locals = a.locals]
  OBVIOUS
<1>3. /\ d \in CodeGenContext /\ d.globals = c.globals /\ d.locals = a.locals
      /\ d.fn = c.fn /\ d.nameParams = c.nameParams /\ d.this = c.this
      /\ d.methodThis = c.methodThis /\ d.insideMethod = c.insideMethod
      /\ d.inspectStack = c.inspectStack /\ d.inMainBlock = c.inMainBlock
  BY <1>2 DEF CodeGenContext
<1>4. Pop(d) /\ Len(frames) > 1 /\ Top.kind = "block"
  BY <1>1, <1>2 DEF EndBlock, Pop
<1>5. Leaves("block", a, c)
  BY <1>1, <1>4, TopFacts
<1>6. SameTables(a, d)
  BY <1>3, <1>5 DEF SameTables, Leaves
<1> QED
  BY <1>1, <1>3, <1>4, <1>6, PopInv

LEMMA EndProcedureInv ==
    ASSUME IInv, EndProcedure
    PROVE  IInv'
<1>1. PICK c, a \in CodeGenContext : c = ctx /\ a = Top.saved
  BY TopFacts
<1>2. PICK d : d = [a EXCEPT !.globals = c.globals, !.declared = c.declared]
  OBVIOUS
<1>3. d \in CodeGenContext /\ d.globals = c.globals /\ SameTables(a, d)
  BY <1>2 DEF CodeGenContext, SameTables
<1>4. Pop(d)
  BY <1>1, <1>2 DEF EndProcedure
<1> QED
  BY <1>1, <1>3, <1>4, PopInv

LEMMA EndClassBodyInv ==
    ASSUME IInv, EndClassBody
    PROVE  IInv'
<1>1. PICK c, a \in CodeGenContext : c = ctx /\ a = Top.saved
  BY TopFacts
<1>2. PICK d : d = [c EXCEPT !.fn = a.fn, !.locals = a.locals, !.this = a.this]
  OBVIOUS
<1>3. /\ d \in CodeGenContext /\ d.globals = c.globals
      /\ d.fn = a.fn /\ d.locals = a.locals /\ d.this = a.this
      /\ d.nameParams = c.nameParams
      /\ d.methodThis = c.methodThis /\ d.insideMethod = c.insideMethod
      /\ d.inspectStack = c.inspectStack /\ d.inMainBlock = c.inMainBlock
  BY <1>2 DEF CodeGenContext
<1>4. Pop(d) /\ Len(frames) > 1 /\ Top.kind = "classbody"
  BY <1>1, <1>2 DEF EndClassBody, Pop
<1>5. Leaves("classbody", a, c)
  BY <1>1, <1>4, TopFacts
<1>6. SameTables(a, d)
  BY <1>3, <1>5 DEF SameTables, Leaves
<1> QED
  BY <1>1, <1>3, <1>4, <1>6, PopInv

LEMMA FrontOfAppend ==
    ASSUME NEW S, NEW s \in Seq(S), NEW e \in S
    PROVE  Front(Append(s, e)) = s
<1>1. PICK t : t = Append(s, e)
  OBVIOUS
<1>2. PICK n \in Nat : n = Len(s)
  OBVIOUS
<1>3. t \in Seq(S) /\ Len(t) = n + 1 /\ \A i \in 1..n : t[i] = s[i]
  BY <1>1, <1>2, AppendProperties
<1>4. Front(t) = SubSeq(t, 1, n)
  BY <1>2, <1>3 DEF Front
<1>5. PICK u : u = SubSeq(t, 1, n)
  OBVIOUS
<1>6. u \in Seq(S) /\ Len(u) = n /\ \A i \in 1..n : u[i] = t[i]
  <2>1. \A i \in 1..n : t[i] \in S
    BY <1>3
  <2>2. 1 \in Int /\ n \in Int
    OBVIOUS
  <2> QED
    BY <1>3, <1>5, <2>1, <2>2, SubSeqProperties
<1>7. u = s
  BY <1>2, <1>3, <1>6, SeqEqual
<1> QED
  BY <1>1, <1>4, <1>5, <1>7

LEMMA DisconnectInv ==
    ASSUME IInv, Disconnect
    PROVE  IInv'
<1>1. PICK c, a \in CodeGenContext : c = ctx /\ a = Top.saved
  BY TopFacts
<1>2. PICK stack : stack = IF a.this = NoObject THEN c.inspectStack
                           ELSE Front(c.inspectStack)
  OBVIOUS
<1>3. Len(frames) > 1 /\ Top.kind = "inspect"
  BY DEF Disconnect, Pop
<1>4. Leaves("inspect", a, c)
  BY <1>1, <1>3, TopFacts
<1>5. stack = a.inspectStack
  <2>1. a.this \in Obj \cup {NoObject} /\ a.inspectStack \in Seq(Obj)
    BY DEF CodeGenContext
  <2>2. CASE a.this = NoObject
    BY <1>2, <1>4, <2>2 DEF Leaves
  <2>3. CASE a.this # NoObject
    <3>1. c.inspectStack = Append(a.inspectStack, a.this) /\ a.this \in Obj
      BY <1>4, <2>1, <2>3 DEF Leaves
    <3> QED
      BY <1>2, <2>1, <2>3, <3>1, FrontOfAppend
  <2> QED
    BY <2>2, <2>3
<1>6. PICK d : d = [c EXCEPT !.this = a.this, !.inspectStack = stack]
  OBVIOUS
<1>7. /\ d \in CodeGenContext /\ d.globals = c.globals
      /\ d.this = a.this /\ d.inspectStack = a.inspectStack
      /\ d.fn = c.fn /\ d.locals = c.locals /\ d.nameParams = c.nameParams
      /\ d.methodThis = c.methodThis /\ d.insideMethod = c.insideMethod
      /\ d.inMainBlock = c.inMainBlock
  BY <1>5, <1>6 DEF CodeGenContext
<1>8. Pop(d)
  BY <1>1, <1>2, <1>6 DEF Disconnect
<1>9. SameTables(a, d)
  BY <1>4, <1>7 DEF SameTables, Leaves
<1> QED
  BY <1>1, <1>7, <1>8, <1>9, PopInv

LEMMA InitInv ==
    ASSUME Init
    PROVE  IInv
<1>1. /\ ctx \in CodeGenContext
      /\ ctx.fn = 0 /\ ctx.nameParams = Empty /\ ctx.locals = Empty /\ ctx.globals = Empty
      /\ ctx.this = NoObject /\ ctx.methodThis = NoObject
      /\ ~ ctx.insideMethod /\ ctx.inspectStack = << >> /\ ctx.inMainBlock
  BY EmptyFacts DEF Init, CodeGenContext
<1>2. PICK frame : frame = [id |-> 0, kind |-> "block", names |-> Empty,
                            phase |-> "declarations", saved |-> ctx]
  OBVIOUS
<1>3. frame \in Frame /\ frame.id = 0 /\ frame.kind = "block" /\ frame.names = Empty
  BY <1>1, <1>2, EmptyFacts DEF Frame, Kind
<1>4. /\ frames = <<frame>> /\ frames \in Seq(Frame) /\ Len(frames) = 1
      /\ DOMAIN frames = {1} /\ frames[1] = frame /\ opened = 1 /\ clobbered = {}
  BY <1>2, <1>3 DEF Init
<1>5. TypeOK
  BY <1>1, <1>4 DEF TypeOK
<1>6. FramesInv /\ NestingInv
  BY <1>3, <1>4, EmptyFacts DEF FramesInv, NestingInv
<1>7. GlobalsInv
  BY <1>1, <1>3, <1>4, EmptyFacts DEF GlobalsInv, Declares
<1>8. /\ 1 \in Nat /\ frames[1].kind \notin FunctionKind /\ frames[1].kind \notin ObjectKind
      /\ frames[1].kind = "block" /\ \A n, sort : ~ Declares(frames, 1, n, sort)
      /\ 1..1 = {1}
  BY <1>3, <1>4, EmptyFacts DEF FunctionKind, ObjectKind, Declares
<1>9. /\ \A h : ~ FunctionFrame(frames, 1, h)
      /\ \A n : Locals(frames, 1, n) = {}
      /\ Objects(frames, 1) = {} /\ Methods(frames, 1) = {}
  BY <1>8 DEF FunctionFrame, Locals, Objects, Methods
<1>10. Fits(frames, ctx, 1)
  <2>1. FunctionFits(frames, ctx, 1)
    BY <1>1, <1>8, <1>9 DEF FunctionFits
  <2>2. LocalsFit(frames, ctx, 1) /\ NameParamsFit(frames, ctx, 1)
    BY <1>1, <1>9, EmptyFacts DEF LocalsFit, NameParamsFit, Innermost
  <2>3. ThisFits(frames, ctx, 1) /\ MethodThisFits(frames, ctx, 1)
    BY <1>1, <1>9 DEF ThisFits, MethodThisFits, Innermost
  <2>4. StackFits(frames, ctx, 1)
    BY <1>1, <1>9 DEF StackFits
  <2> QED
    BY <2>1, <2>2, <2>3, <2>4 DEF Fits
<1>11. ContextsInv
  BY <1>4, <1>10 DEF ContextsInv, Context
<1> QED
  BY <1>5, <1>6, <1>7, <1>11 DEF IInv

LEMMA NextInv ==
    ASSUME IInv, [Next]_vars
    PROVE  IInv'
<1>1. ASSUME NEW n \in Name, VarDeclaration(n) \/ RefDeclaration(n) PROVE IInv'
  BY <1>1, VarDeclarationInv, RefDeclarationInv
<1>2. CASE BeginBlock \/ EndBlock
  BY <1>2, BeginBlockInv, EndBlockInv
<1>3. ASSUME NEW byValue \in SUBSET Name, NEW byName \in SUBSET Name,
             byValue \cap byName = {}, BeginProcedure(byValue, byName)
      PROVE  IInv'
  BY <1>3, BeginProcedureInv
<1>4. ASSUME NEW byValue \in SUBSET Name, NEW byName \in SUBSET Name,
             byValue \cap byName = {}, NEW cl \in Class, BeginMethod(cl, byValue, byName)
      PROVE  IInv'
  BY <1>4, BeginMethodInv
<1>5. CASE EndProcedure
  BY <1>5, EndProcedureInv
<1>6. ASSUME NEW cl \in Class, BeginClassBody(cl) \/ Connect(cl) PROVE IInv'
  BY <1>6, BeginClassBodyInv, ConnectInv
<1>7. CASE EndClassBody \/ Disconnect
  BY <1>7, EndClassBodyInv, DisconnectInv
<1>8. CASE UNCHANGED vars
  BY <1>8 DEF vars, IInv, TypeOK, FramesInv, NestingInv, GlobalsInv, ContextsInv, Context
<1> QED
  BY <1>1, <1>2, <1>3, <1>4, <1>5, <1>6, <1>7, <1>8 DEF Next

\* At every point of every program the tables of CodeGenContext fit the constructs
\* that are open, those that will be put back fit the constructs around them, and
\* each construct leaves alone what its end does not put back.
THEOREM Invariant == Spec => []IInv
<1>1. Init => IInv
  BY InitInv
<1>2. IInv /\ [Next]_vars => IInv'
  BY NextInv
<1> QED
  BY <1>1, <1>2, PTL DEF Spec

-----------------------------------------------------------------------------
(* The function a frame is in.                                             *)

LEMMA FunctionAtFacts ==
    ASSUME NEW k \in Nat
    PROVE  /\ FunctionAt(k) \in 0..k
           /\ \A j \in 1..k : frames[j].kind \in FunctionKind => j <= FunctionAt(k)
           /\ FunctionAt(k) = 0 <=> InMain(frames, k)
           /\ \A h : FunctionFrame(frames, k, h) <=> h = FunctionAt(k) /\ h # 0
<1> DEFINE S == {j \in 1..k : frames[j].kind \in FunctionKind}
<1>1. FunctionAt(k) = Max({0} \cup S)
  BY DEF FunctionAt, FunctionKind
<1>2. CASE S = {}
  <2>1. Max({0} \cup S) = 0
    BY <1>2 DEF Max
  <2>2. InMain(frames, k) /\ \A h : ~ FunctionFrame(frames, k, h)
    BY <1>2 DEF InMain, SameFunction, FunctionFrame
  <2> QED
    BY <1>1, <1>2, <2>1, <2>2
<1>3. CASE S # {}
  <2>1. S \in SUBSET (1..k)
    OBVIOUS
  <2>2. PICK h \in 1..k : Innermost(S, h)
    BY <1>3, <2>1, InnermostExists
  <2>3. h \in S /\ \A j \in S : j <= h
    BY <2>2 DEF Innermost
  <2>4. Max({0} \cup S) = h
    <3>1. h \in {0} \cup S /\ \A y \in {0} \cup S : h >= y
      BY <2>3
    <3>2. \A x \in {0} \cup S : (\A y \in {0} \cup S : x >= y) => x = h
      BY <2>3, <3>1
    <3> HIDE DEF S
    <3> QED
      BY <3>1, <3>2 DEF Max
  <2>5. ~ InMain(frames, k)
    BY <2>3 DEF InMain, SameFunction
  <2>6. FunctionFrame(frames, k, h)
    BY <2>3 DEF FunctionFrame, SameFunction
  <2>7. ASSUME NEW g, FunctionFrame(frames, k, g) PROVE g = h
    <3>1. g \in S /\ g \in 1..k
      BY <2>7 DEF FunctionFrame
    <3>2. ~ (g < h)
      BY <2>3, <2>7, <3>1 DEF FunctionFrame, SameFunction
    <3> QED
      BY <2>3, <3>1, <3>2
  <2> QED
    BY <1>1, <2>3, <2>4, <2>5, <2>6, <2>7
<1> QED
  BY <1>2, <1>3

LEMMA FunctionAtSame ==
    ASSUME NEW k \in Nat, NEW j \in 0..k
    PROVE  FunctionAt(j) = FunctionAt(k) <=> SameFunction(frames, j, k)
<1>1. j \in Nat /\ FunctionAt(j) \in 0..j /\ FunctionAt(k) \in 0..k
  BY FunctionAtFacts
<1>2. ASSUME FunctionAt(j) = FunctionAt(k), NEW i \in (j + 1)..k
      PROVE  frames[i].kind \notin FunctionKind
  <2>1. i \in 1..k /\ ~ (i <= FunctionAt(j))
    BY <1>1
  <2> QED
    BY <1>2, <2>1, FunctionAtFacts
<1>3. ASSUME SameFunction(frames, j, k) PROVE FunctionAt(j) = FunctionAt(k)
  <2>1. CASE FunctionAt(j) = 0
    <3>1. InMain(frames, j)
      BY <1>1, <2>1, FunctionAtFacts
    <3>2. InMain(frames, k)
      BY <1>3, <3>1 DEF InMain, SameFunction
    <3> QED
      BY <2>1, <3>2, FunctionAtFacts
  <2>2. CASE FunctionAt(j) # 0
    <3>1. FunctionFrame(frames, j, FunctionAt(j))
      BY <1>1, <2>2, FunctionAtFacts
    <3>2. FunctionFrame(frames, k, FunctionAt(j))
      BY <1>1, <1>3, <3>1 DEF FunctionFrame, SameFunction
    <3> QED
      BY <3>2, FunctionAtFacts
  <2> QED
    BY <2>1, <2>2
<1> QED
  BY <1>2, <1>3 DEF SameFunction

-----------------------------------------------------------------------------
(* Where the entries of the tables come from.                              *)

LEMMA LocalsCome ==
    ASSUME IInv, NEW n \in Name, n \in DOMAIN ctx.locals
    PROVE  \E j \in 1..Len(frames) : Declares(frames, j, n, "local") /\ FunctionAt(j) = Here
<1>1. PICK L \in Nat \ {0} : L = Len(frames)
  BY TopFacts
<1>2. Locals(frames, L, n) # {}
  BY <1>1, TopFacts DEF Fits, LocalsFit
<1>3. PICK j \in 1..L : SameFunction(frames, j, L) /\ Declares(frames, j, n, "local")
  BY <1>2 DEF Locals
<1>4. FunctionAt(j) = FunctionAt(L)
  BY <1>3, FunctionAtSame
<1> QED
  BY <1>1, <1>3, <1>4 DEF Here

LEMMA CapturesCome ==
    ASSUME NEW h \in Nat \ {0}, NEW n, Captures(frames, h, n), Here = h
    PROVE  \E j \in 1..(h - 1) : Declares(frames, j, n, "local") /\ FunctionAt(j) = Outer
<1>1. PICK j \in 1..(h - 1) : /\ SameFunction(frames, j, h - 1)
                              /\ Declares(frames, j, n, "local")
  BY DEF Captures, Locals
<1>2. h - 1 \in Nat /\ j \in 0..(h - 1)
  OBVIOUS
<1>3. FunctionAt(j) = FunctionAt(h - 1)
  BY <1>1, <1>2, FunctionAtSame
<1>4. Outer = FunctionAt(h - 1)
  BY DEF Outer, Captures
<1> QED
  BY <1>1, <1>3, <1>4

LEMMA NameParamsCome ==
    ASSUME IInv, NEW n \in Name, n \in DOMAIN ctx.nameParams
    PROVE  /\ Here \in 1..Len(frames) /\ FunctionFrame(frames, Len(frames), Here)
           /\ \/ Declares(frames, Here, n, "name")
              \/ /\ frames[Here].kind = "procedure"
                 /\ \E j \in 1..(Here - 1) :
                      Declares(frames, j, n, "local") /\ FunctionAt(j) = Outer
<1>1. PICK L \in Nat \ {0} : L = Len(frames)
  BY TopFacts
<1>2. PICK h : FunctionFrame(frames, L, h) /\ IsNameParam(frames, h, n)
  BY <1>1, TopFacts DEF Fits, NameParamsFit
<1>3. h = Here /\ h \in 1..L /\ h \in Nat \ {0}
  BY <1>1, <1>2, FunctionAtFacts DEF Here, FunctionFrame
<1> QED
  BY <1>1, <1>2, <1>3, CapturesCome DEF IsNameParam, Captures

\* The frame of an object whose attribute is found.
LEMMA FieldFacts ==
    ASSUME NEW obj, NEW frame, ObjectOf(obj, frame), NEW n
    PROVE  /\ FieldOf(obj, n) # None <=> n \in Fields[obj.class]
           /\ n \in Fields[obj.class] =>
                /\ n \in DOMAIN frame.names
                /\ FieldOf(obj, n) = Variable(frame.id, n, "field", obj.fn)
<1>1. obj # NoObject /\ obj.id = frame.id /\ Fields[obj.class] \subseteq DOMAIN frame.names
  BY DEF ObjectOf, Obj, NoObject
<1>2. \A id, fn : Variable(id, n, "field", fn) # None
  BY DEF Variable, None
<1> QED
  BY <1>1, <1>2 DEF FieldOf

LEMMA ThisComes ==
    ASSUME IInv, ctx.this # NoObject
    PROVE  \E t \in 1..Len(frames) :
             /\ Innermost(Objects(frames, Len(frames)), t)
             /\ ObjectOf(ctx.this, frames[t]) /\ ctx.this.fn = ctx.fn
             /\ frames[t].kind = "method" => ctx.this.class = ctx.methodThis.class
<1>1. PICK L \in Nat \ {0} : L = Len(frames)
  BY TopFacts
<1>2. ThisFits(frames, ctx, L)
  BY <1>1, TopFacts DEF Fits
<1>3. Objects(frames, L) # {} /\ Objects(frames, L) \in SUBSET (1..L)
  BY <1>2 DEF ThisFits, Objects
<1>4. PICK t \in 1..L : Innermost(Objects(frames, L), t)
  BY <1>3, InnermostExists
<1> QED
  BY <1>1, <1>2, <1>4 DEF ThisFits

LEMMA MethodThisComes ==
    ASSUME IInv, ctx.methodThis # NoObject
    PROVE  /\ Len(frames) >= 2 /\ frames[2].kind = "method"
           /\ ObjectOf(ctx.methodThis, frames[2]) /\ ctx.methodThis.fn = frames[2].id
<1>1. PICK L \in Nat \ {0} : L = Len(frames)
  BY TopFacts
<1>2. MethodThisFits(frames, ctx, L)
  BY <1>1, TopFacts DEF Fits
<1>3. PICK j \in 1..L : j \in Methods(frames, L) /\ frames[j].kind = "method"
  BY <1>2 DEF MethodThisFits, Methods
<1>4. j = 2
  BY <1>1, <1>3 DEF IInv, TypeOK, NestingInv
<1> QED
  BY <1>1, <1>2, <1>3, <1>4 DEF MethodThisFits

LEMMA StackComes ==
    ASSUME IInv, NEW i \in DOMAIN ctx.inspectStack
    PROVE  /\ ctx.inspectStack[i].fn = ctx.fn
           /\ \E j \in 1..Len(frames) :
                ObjectOf(ctx.inspectStack[i], frames[j]) /\ frames[j].kind \in ObjectKind
  BY TopFacts DEF Fits, StackFits, Objects

\* The innermost of the connected objects that have an attribute.
LEMMA OnStackFacts ==
    ASSUME IInv, NEW n, InspectStackHas(n) # {}
    PROVE  /\ \E i \in InspectStackHas(n) :
                OnInspectStack(n) = ctx.inspectStack[i] /\ Innermost(InspectStackHas(n), i)
<1>1. PICK K \in Nat : K = Len(ctx.inspectStack) /\ DOMAIN ctx.inspectStack = 1..K
  BY TopFacts DEF CodeGenContext
<1>2. InspectStackHas(n) \in SUBSET (1..K)
  BY <1>1 DEF InspectStackHas
<1>3. PICK i \in 1..K : Innermost(InspectStackHas(n), i)
  BY <1>2, InnermostExists
<1>4. i \in InspectStackHas(n)
  BY <1>3 DEF Innermost
<1>5. Max(InspectStackHas(n)) = i
  BY <1>2, <1>3, <1>4, InnermostIsMax
<1> QED
  BY <1>3, <1>4, <1>5 DEF OnInspectStack

-----------------------------------------------------------------------------
(* The properties.                                                         *)

LEMMA OwnPointer ==
    ASSUME IInv, NEW n \in Name, NEW v, v = GetVarPtr(n)
    PROVE  \/ v.sort \in {"none", "global"}
           \/ v.fn = ctx.fn
           \/ InConnection /\ Outer > 0 /\ FieldOf(ctx.methodThis, n) = v
<1>1. PICK L \in Nat \ {0} : L = Len(frames) /\ DOMAIN frames = 1..L
  BY TopFacts DEF IInv, TypeOK
<1>2. CASE n \in DOMAIN ctx.nameParams
  BY <1>2, TopFacts DEF GetVarPtr, Fits, NameParamsFit
<1>3. CASE n \notin DOMAIN ctx.nameParams /\ n \in DOMAIN ctx.locals
  BY <1>3, TopFacts DEF GetVarPtr, Fits, LocalsFit
<1>4. CASE FieldOf(ctx.this, n) # None /\ v = FieldOf(ctx.this, n)
  <2>1. ctx.this # NoObject
    BY <1>4 DEF FieldOf
  <2>2. PICK t : ObjectOf(ctx.this, frames[t]) /\ ctx.this.fn = ctx.fn
    BY <2>1, ThisComes
  <2> QED
    BY <1>4, <2>2, FieldFacts, VariableFacts
<1>5. CASE /\ FieldOf(ctx.this, n) = None
           /\ FieldOf(ctx.methodThis, n) # None /\ v = FieldOf(ctx.methodThis, n)
  <2>1. ctx.methodThis # NoObject
    BY <1>5 DEF FieldOf
  <2>2. /\ L >= 2 /\ frames[2].kind = "method"
        /\ ObjectOf(ctx.methodThis, frames[2]) /\ ctx.methodThis.fn = frames[2].id
    BY <1>1, <2>1, MethodThisComes
  <2>3. n \in Fields[ctx.methodThis.class] /\ v.fn = frames[2].id
    BY <1>5, <2>2, FieldFacts, VariableFacts
  <2>4. InConnection
    <3> SUFFICES ASSUME ~ InConnection PROVE FALSE
      OBVIOUS
    <3>1. 2 \in Objects(frames, L)
      BY <2>2 DEF Objects, ObjectKind
    <3>2. ctx.this # NoObject
      <4>1. Objects(frames, L) \in SUBSET (1..L)
        BY DEF Objects
      <4>2. PICK t \in 1..L : Innermost(Objects(frames, L), t)
        BY <3>1, <4>1, InnermostExists
      <4>3. ctx.this \in Obj
        BY <1>1, <4>2, TopFacts DEF Fits, ThisFits, ObjectOf
      <4> QED
        BY <4>3 DEF Obj, NoObject
    <3>3. PICK t \in 1..L :
            /\ Innermost(Objects(frames, L), t)
            /\ ObjectOf(ctx.this, frames[t])
            /\ frames[t].kind = "method" => ctx.this.class = ctx.methodThis.class
      BY <1>1, <3>2, ThisComes
    <3>4. frames[t].kind \in {"method", "classbody"}
      BY <1>1, <3>3 DEF Innermost, Objects, ObjectKind, InConnection
    <3>5. t = 2
      BY <1>1, <3>4 DEF IInv, NestingInv
    <3> QED
      BY <1>5, <2>2, <2>3, <3>3, <3>5, FieldFacts
  <2>5. CASE FunctionFrame(frames, L, 2)
    <3>1. ctx.fn = frames[2].id
      BY <1>1, <2>5, TopFacts DEF Fits, FunctionFits
    <3> QED
      BY <2>3, <3>1
  <2>6. CASE ~ FunctionFrame(frames, L, 2)
    <3>1. 2 <= Here /\ Here \in 0..L
      BY <1>1, <2>2, FunctionAtFacts DEF Here, FunctionKind
    <3>2. FunctionFrame(frames, L, Here) /\ Here # 2 /\ Here > 2
      BY <1>1, <2>6, <3>1, FunctionAtFacts DEF Here
    <3>3. frames[Here].kind = "procedure"
      BY <1>1, <3>1, <3>2 DEF FunctionFrame, FunctionKind, IInv, NestingInv
    <3>4. Outer = FunctionAt(Here - 1)
      BY <3>2, <3>3 DEF Outer
    <3>5. Here - 1 \in Nat /\ 2 \in 1..(Here - 1)
      BY <3>1, <3>2
    <3>6. 2 <= FunctionAt(Here - 1) /\ FunctionAt(Here - 1) \in 0..(Here - 1)
      BY <2>2, <3>5, FunctionAtFacts DEF FunctionKind
    <3>7. Outer > 0
      BY <3>4, <3>6
    <3> QED
      BY <1>5, <2>4, <3>7
  <2> QED
    BY <2>5, <2>6
<1>6. CASE InspectStackHas(n) # {} /\ v = FieldOf(OnInspectStack(n), n)
  <2>1. PICK i \in InspectStackHas(n) : OnInspectStack(n) = ctx.inspectStack[i]
    BY <1>6, OnStackFacts
  <2>2. i \in DOMAIN ctx.inspectStack /\ n \in Fields[ctx.inspectStack[i].class]
    BY DEF InspectStackHas
  <2>3. PICK j : ObjectOf(ctx.inspectStack[i], frames[j])
    BY <2>2, StackComes
  <2>4. v = Variable(frames[j].id, n, "field", ctx.inspectStack[i].fn)
    BY <1>6, <2>1, <2>2, <2>3, FieldFacts
  <2> QED
    BY <2>2, <2>4, StackComes, VariableFacts
<1>7. CASE n \in DOMAIN ctx.globals /\ v = ctx.globals[n]
  BY <1>7 DEF IInv, GlobalsInv
<1>8. CASE v = None
  BY <1>8 DEF None
<1> QED
  BY <1>2, <1>3, <1>4, <1>5, <1>6, <1>7, <1>8 DEF GetVarPtr

\* The code of a procedure, method or class body only uses pointers that are its
\* own, or globals: CodeGenContext::getVarPtr never hands out an alloca or an
\* argument of another function, except inside a connection in a procedure
\* nested in a method, for the attributes of the method's object.
THEOREM AlwaysOwn == Spec => []PointersAreOwn
<1>1. IInv => PointersAreOwn
  <2> SUFFICES ASSUME IInv, NEW n \in Name
               PROVE  LET v == GetVarPtr(n)
                      IN \/ v.sort \in {"none", "global"}
                         \/ v.fn = ctx.fn
                         \/ InConnection /\ Outer > 0 /\ FieldOf(ctx.methodThis, n) = v
    BY DEF PointersAreOwn
  <2> QED
    BY OwnPointer
<1> QED
  BY <1>1, Invariant, PTL

\* What is said of the innermost declaration of n.
LEMMA DeclaredAtFacts ==
    ASSUME IInv, NEW n \in Name, Declaring(n) # {}
    PROVE  /\ DOMAIN frames = 1..Len(frames)
           /\ DeclaredAt(n) \in 1..Len(frames)
           /\ Declares(frames, DeclaredAt(n), n, Meant(n).sort)
           /\ \A j \in 1..Len(frames) : n \in DOMAIN frames[j].names => j <= DeclaredAt(n)
           /\ Meant(n) = frames[DeclaredAt(n)].names[n]
           /\ Meant(n).id = frames[DeclaredAt(n)].id /\ Meant(n).name = n
           /\ Meant(n).sort \in SortsIn(frames[DeclaredAt(n)].kind)
           /\ frames[DeclaredAt(n)].kind \in Kind
<1>1. PICK L \in Nat \ {0} : L = Len(frames) /\ DOMAIN frames = 1..L
  BY TopFacts DEF IInv, TypeOK
<1>2. Declaring(n) \in SUBSET (1..L)
  BY <1>1 DEF Declaring
<1>3. PICK d \in 1..L : Innermost(Declaring(n), d)
  BY <1>2, InnermostExists
<1>4. d \in Declaring(n)
  BY <1>3 DEF Innermost
<1>5. DeclaredAt(n) = d
  BY <1>2, <1>3, <1>4, InnermostIsMax DEF DeclaredAt
<1>6. n \in DOMAIN frames[d].names /\ \A j \in 1..L : n \in DOMAIN frames[j].names => j <= d
  BY <1>1, <1>3 DEF Innermost, Declaring
<1>7. Meant(n) = frames[d].names[n]
  BY <1>5 DEF Meant
<1>8. /\ Meant(n).id = frames[d].id /\ Meant(n).name = n
      /\ Meant(n).sort \in SortsIn(frames[d].kind)
  BY <1>1, <1>6, <1>7 DEF IInv, FramesInv
<1>9. frames[d].kind \in Kind
  <2>1. frames[d] \in Frame
    BY <1>1 DEF IInv, TypeOK
  <2> QED
    BY <2>1 DEF Frame
<1> QED
  BY <1>1, <1>5, <1>6, <1>7, <1>8, <1>9 DEF Declares

\* A declaration further out than the innermost, as the exceptions name it.
LEMMA DeclaredFurtherOut ==
    ASSUME IInv, NEW n \in Name, NEW j \in 1..Len(frames), NEW sort,
           Declares(frames, j, n, sort), Meant(n).sort # sort
    PROVE  /\ Declaring(n) # {} /\ j < DeclaredAt(n)
           /\ DeclaredAs(n, sort, FunctionAt(j), DeclaredAt(n))
<1>1. DOMAIN frames = 1..Len(frames) /\ Len(frames) \in Nat
  BY DEF IInv, TypeOK
<1>2. j \in Declaring(n) /\ n \in DOMAIN frames[j].names
  BY <1>1 DEF Declaring, Declares
<1>3. j <= DeclaredAt(n) /\ DeclaredAt(n) \in 1..Len(frames)
  BY <1>2, DeclaredAtFacts
<1>4. j # DeclaredAt(n)
  BY DEF Meant, Declares
<1>5. j < DeclaredAt(n)
  BY <1>1, <1>3, <1>4
<1> QED
  BY <1>2, <1>5 DEF DeclaredAs, Declares

Visible(n) ==
    /\ Declaring(n) # {} /\ n \notin clobbered
    /\ ~ TooDeep(n) /\ ~ HiddenByNameParam(n) /\ ~ HiddenByLocal(n) /\ ~ HiddenByMethod(n)

LEMMA LocalResolves ==
    ASSUME IInv, NEW n \in Name, Visible(n), Meant(n).sort = "local"
    PROVE  Same(GetVarPtr(n), Meant(n))
<1>1. PICK L \in Nat \ {0} : L = Len(frames)
  BY TopFacts
<1>2. PICK D \in 1..L : D = DeclaredAt(n)
  BY <1>1, DeclaredAtFacts DEF Visible
<1>3. /\ Declares(frames, D, n, "local") /\ Meant(n) = frames[D].names[n]
      /\ \A j \in 1..L : n \in DOMAIN frames[j].names => j <= D
      /\ Meant(n).name = n
  BY <1>1, <1>2, DeclaredAtFacts DEF Visible
<1>4. FunctionAt(D) \in {Here, Outer}
  BY <1>2 DEF Visible, TooDeep
<1>5. CASE FunctionAt(D) = Here
  <2>1. SameFunction(frames, D, L)
    BY <1>1, <1>5, FunctionAtSame DEF Here
  <2>2. Innermost(Locals(frames, L, n), D)
    BY <1>3, <2>1 DEF Innermost, Locals, Declares
  <2>3. n \in DOMAIN ctx.locals /\ ctx.locals[n] = Meant(n)
    <3>1. Locals(frames, L, n) # {}
      BY <2>2 DEF Innermost
    <3> QED
      BY <1>1, <1>3, <2>2, <3>1, TopFacts DEF Fits, LocalsFit
  <2>4. n \notin DOMAIN ctx.nameParams
    <3> SUFFICES ASSUME n \in DOMAIN ctx.nameParams PROVE FALSE
      OBVIOUS
    <3>1. Here \in 1..L
      BY <1>1, NameParamsCome
    <3>2. CASE Declares(frames, Here, n, "name")
      <4>1. DeclaredAs(n, "name", FunctionAt(Here), D)
        BY <1>1, <1>2, <3>1, <3>2, DeclaredFurtherOut
      <4>2. FunctionAt(Here) = Here
        <5>1. FunctionFrame(frames, Here, Here)
          BY <1>1, <3>1, NameParamsCome DEF FunctionFrame, SameFunction
        <5> QED
          BY <3>1, <5>1, FunctionAtFacts
      <4> QED
        BY <1>2, <1>5, <4>1, <4>2 DEF Visible, HiddenByNameParam
    <3>3. CASE \E j \in 1..(Here - 1) :
                  Declares(frames, j, n, "local") /\ FunctionAt(j) = Outer
      <4>1. PICK j \in 1..(Here - 1) :
                  Declares(frames, j, n, "local") /\ FunctionAt(j) = Outer
        BY <3>3
      <4>2. Here <= D
        BY <1>5, FunctionAtFacts
      <4>3. j \in 1..L /\ j < D
        BY <3>1, <4>2
      <4>4. j \in Declaring(n)
        BY <1>1, <4>1, <4>3 DEF Declaring, Declares, IInv, TypeOK
      <4>5. DeclaredAs(n, "local", Outer, D)
        BY <4>1, <4>3, <4>4 DEF DeclaredAs, Declares
      <4> QED
        BY <1>2, <1>5, <4>5 DEF Visible, HiddenByNameParam
    <3> QED
      BY <3>2, <3>3, NameParamsCome
  <2>5. GetVarPtr(n) = Meant(n)
    BY <2>3, <2>4 DEF GetVarPtr
  <2> QED
    BY <2>5 DEF Same
<1>6. CASE FunctionAt(D) # Here
  <2>1. FunctionAt(D) = Outer /\ Outer # -1
    BY <1>4, <1>6, FunctionAtFacts
  <2>2. Here # 0 /\ frames[Here].kind = "procedure" /\ Outer = FunctionAt(Here - 1)
    BY <2>1 DEF Outer
  <2>3. Here \in 1..L /\ Here - 1 \in Nat /\ FunctionFrame(frames, L, Here)
    <3>1. Here \in 0..L
      BY <1>1, FunctionAtFacts DEF Here
    <3>2. Here \in 1..L /\ Here - 1 \in Nat
      BY <2>2, <3>1
    <3> QED
      BY <1>1, <2>2, <3>2, FunctionAtFacts DEF Here
  <2>4. D <= Here - 1
    <3> SUFFICES ASSUME ~ (D <= Here - 1) PROVE FALSE
      OBVIOUS
    <3>1. Here \in 1..D /\ D \in Nat
      BY <2>3
    <3>2. Here <= FunctionAt(D)
      BY <2>2, <3>1, FunctionAtFacts DEF FunctionKind
    <3>3. FunctionAt(Here - 1) \in 0..(Here - 1)
      BY <2>3, FunctionAtFacts
    <3> QED
      BY <2>1, <2>2, <2>3, <3>2, <3>3
  <2>5. SameFunction(frames, D, Here - 1)
    BY <2>1, <2>2, <2>3, <2>4, FunctionAtSame
  <2>6. Innermost(Locals(frames, Here - 1, n), D)
    <3>1. \A j \in 1..(Here - 1) : j \in 1..L
      BY <2>3
    <3>2. D \in 1..(Here - 1)
      BY <2>4
    <3> QED
      BY <1>3, <2>5, <3>1, <3>2 DEF Innermost, Locals, Declares
  <2>7. Captures(frames, Here, n)
    BY <2>2, <2>6 DEF Captures, Innermost
  <2>8. n \in DOMAIN ctx.nameParams /\ EntryFits(frames, ctx, Here, n)
    BY <1>1, <2>3, <2>7, TopFacts DEF Fits, NameParamsFit, IsNameParam
  <2>9. Same(ctx.nameParams[n], Meant(n))
    BY <1>3, <2>6, <2>7, <2>8 DEF EntryFits
  <2> QED
    BY <2>8, <2>9 DEF GetVarPtr
<1> QED
  BY <1>5, <1>6

LEMMA NameResolves ==
    ASSUME IInv, NEW n \in Name, Visible(n), Meant(n).sort = "name"
    PROVE  Same(GetVarPtr(n), Meant(n))
<1>1. PICK L \in Nat \ {0} : L = Len(frames)
  BY TopFacts
<1>2. PICK D \in 1..L : D = DeclaredAt(n)
  BY <1>1, DeclaredAtFacts DEF Visible
<1>3. /\ Declares(frames, D, n, "name") /\ Meant(n) = frames[D].names[n]
      /\ Meant(n).name = n /\ "name" \in SortsIn(frames[D].kind)
  BY <1>1, <1>2, DeclaredAtFacts DEF Visible
<1>4. FunctionAt(D) = Here
  BY <1>2 DEF Visible, TooDeep
<1>5. frames[D].kind \in FunctionKind
  BY <1>3 DEF SortsIn, FunctionKind
<1>6. D = Here
  <2>1. FunctionFrame(frames, D, D)
    BY <1>5 DEF FunctionFrame, SameFunction
  <2> QED
    BY <1>4, <2>1, FunctionAtFacts
<1>7. FunctionFrame(frames, L, D)
  BY <1>1, <1>6, FunctionAtFacts DEF Here
<1>8. ~ Captures(frames, D, n)
  <2> SUFFICES ASSUME Captures(frames, D, n) PROVE FALSE
    OBVIOUS
  <2>1. PICK j \in 1..(D - 1) : Declares(frames, j, n, "local") /\ FunctionAt(j) = Outer
    BY <1>6, CapturesCome
  <2>2. j \in 1..L
    OBVIOUS
  <2>3. DeclaredAs(n, "local", Outer, D)
    BY <1>1, <1>2, <2>1, <2>2, DeclaredFurtherOut
  <2> QED
    BY <1>2, <1>4, <2>3 DEF Visible, HiddenByNameParam
<1>9. n \in DOMAIN ctx.nameParams /\ ctx.nameParams[n] = Meant(n)
  BY <1>1, <1>3, <1>7, <1>8, TopFacts DEF Fits, NameParamsFit, EntryFits, IsNameParam
<1> QED
  BY <1>9 DEF GetVarPtr, Same

LEMMA GlobalResolves ==
    ASSUME IInv, NEW n \in Name, Visible(n), Meant(n).sort = "global"
    PROVE  Same(GetVarPtr(n), Meant(n))
<1>1. PICK L \in Nat \ {0} : L = Len(frames) /\ DOMAIN frames = 1..L
  BY TopFacts DEF IInv, TypeOK
<1>2. PICK D \in 1..L : D = DeclaredAt(n)
  BY <1>1, DeclaredAtFacts DEF Visible
<1>3. /\ Declares(frames, D, n, "global") /\ Meant(n) = frames[D].names[n]
      /\ \A j \in 1..L : n \in DOMAIN frames[j].names => j <= D
      /\ Meant(n).name = n
  BY <1>1, <1>2, DeclaredAtFacts DEF Visible
<1>4. /\ \A j \in 1..D : frames[j].kind = "block"
      /\ n \in DOMAIN ctx.globals /\ ctx.globals[n] = Meant(n)
      /\ \A j \in 1..(D - 1) : ~ Declares(frames, j, n, "local")
  BY <1>1, <1>3 DEF IInv, GlobalsInv, Visible
<1>5. \A j \in 1..L : n \in DOMAIN frames[j].names => frames[j].kind = "block"
  BY <1>3, <1>4
<1>6. \A j \in 1..L : ~ Declares(frames, j, n, "local")
  <2> TAKE j \in 1..L
  <2>1. CASE j = D
    BY <1>3, <2>1 DEF Declares
  <2>2. CASE j # D
    <3>1. n \in DOMAIN frames[j].names => j \in 1..(D - 1)
      BY <1>3, <2>2
    <3> QED
      BY <1>4, <3>1 DEF Declares
  <2> QED
    BY <2>1, <2>2
<1>7. n \notin DOMAIN ctx.locals
  BY <1>1, <1>6, LocalsCome
<1>8. n \notin DOMAIN ctx.nameParams
  <2> SUFFICES ASSUME n \in DOMAIN ctx.nameParams PROVE FALSE
    OBVIOUS
  <2>1. Here \in 1..L /\ frames[Here].kind \in FunctionKind
    BY <1>1, NameParamsCome DEF FunctionFrame
  <2>2. ~ Declares(frames, Here, n, "name")
    BY <1>5, <2>1 DEF Declares, FunctionKind
  <2>3. PICK j \in 1..(Here - 1) : Declares(frames, j, n, "local")
    BY <2>2, NameParamsCome
  <2> QED
    BY <1>6, <2>1, <2>3
<1>9. \A obj, j : ObjectOf(obj, frames[j]) /\ j \in 1..L /\ frames[j].kind # "block"
                    => n \notin Fields[obj.class]
  BY <1>5, FieldFacts
<1>10. FieldOf(ctx.this, n) = None
  <2>1. CASE ctx.this = NoObject
    BY <2>1 DEF FieldOf
  <2>2. CASE ctx.this # NoObject
    <3>1. PICK t \in 1..L : Innermost(Objects(frames, L), t) /\ ObjectOf(ctx.this, frames[t])
      BY <1>1, <2>2, ThisComes
    <3>2. frames[t].kind # "block"
      BY <3>1 DEF Innermost, Objects, ObjectKind
    <3> QED
      BY <1>9, <3>1, <3>2, FieldFacts
  <2> QED
    BY <2>1, <2>2
<1>11. FieldOf(ctx.methodThis, n) = None
  <2>1. CASE ctx.methodThis = NoObject
    BY <2>1 DEF FieldOf
  <2>2. CASE ctx.methodThis # NoObject
    <3>1. 2 \in 1..L /\ frames[2].kind = "method" /\ ObjectOf(ctx.methodThis, frames[2])
      BY <1>1, <2>2, MethodThisComes
    <3> QED
      BY <1>9, <3>1, FieldFacts
  <2> QED
    BY <2>1, <2>2
<1>12. InspectStackHas(n) = {}
  <2> SUFFICES ASSUME NEW i \in InspectStackHas(n) PROVE FALSE
    OBVIOUS
  <2>1. i \in DOMAIN ctx.inspectStack /\ n \in Fields[ctx.inspectStack[i].class]
    BY DEF InspectStackHas
  <2>2. PICK j \in 1..L : ObjectOf(ctx.inspectStack[i], frames[j]) /\ frames[j].kind \in ObjectKind
    BY <1>1, <2>1, StackComes
  <2> QED
    BY <1>9, <2>1, <2>2 DEF ObjectKind
<1>13. GetVarPtr(n) = Meant(n)
  BY <1>4, <1>7, <1>8, <1>10, <1>11, <1>12 DEF GetVarPtr
<1> QED
  BY <1>13 DEF Same

LEMMA FieldResolves ==
    ASSUME IInv, NEW n \in Name, Visible(n), Meant(n).sort = "field"
    PROVE  Same(GetVarPtr(n), Meant(n))
<1>1. PICK L \in Nat \ {0} : L = Len(frames) /\ DOMAIN frames = 1..L
  BY TopFacts DEF IInv, TypeOK
<1>2. PICK D \in 1..L : D = DeclaredAt(n)
  BY <1>1, DeclaredAtFacts DEF Visible
<1>3. /\ Declares(frames, D, n, "field") /\ Meant(n) = frames[D].names[n]
      /\ \A j \in 1..L : n \in DOMAIN frames[j].names => j <= D
      /\ Meant(n).name = n /\ Meant(n).id = frames[D].id
      /\ "field" \in SortsIn(frames[D].kind) /\ frames[D].kind \in Kind
  BY <1>1, <1>2, DeclaredAtFacts DEF Visible
<1>4. frames[D].kind \in ObjectKind /\ frames[D].kind \notin {"block", "procedure"}
  BY <1>3 DEF SortsIn, Kind, FunctionKind, ObjectKind
<1>5. D \in Objects(frames, L) /\ D >= 2
  <2>1. frames[1].kind = "block"
    BY DEF IInv, FramesInv
  <2> QED
    BY <1>4, <2>1 DEF Objects
<1>6. n \notin DOMAIN ctx.locals
  <2> SUFFICES ASSUME n \in DOMAIN ctx.locals PROVE FALSE
    OBVIOUS
  <2>1. PICK j \in 1..L : Declares(frames, j, n, "local") /\ FunctionAt(j) = Here
    BY <1>1, LocalsCome
  <2>2. DeclaredAs(n, "local", Here, D)
    BY <1>1, <1>2, <2>1, DeclaredFurtherOut
  <2> QED
    BY <1>2, <2>2 DEF Visible, HiddenByLocal
<1>7. n \notin DOMAIN ctx.nameParams
  <2> SUFFICES ASSUME n \in DOMAIN ctx.nameParams PROVE FALSE
    OBVIOUS
  <2>1. Here \in 1..L /\ FunctionFrame(frames, L, Here) /\ Here \in Nat
    BY <1>1, NameParamsCome
  <2>2. FunctionAt(Here) = Here
    <3>1. FunctionFrame(frames, Here, Here)
      BY <2>1 DEF FunctionFrame, SameFunction
    <3> QED
      BY <2>1, <3>1, FunctionAtFacts
  <2>3. ASSUME Here <= D PROVE FunctionAt(D) = Here
    <3>1. SameFunction(frames, Here, D)
      BY <2>1 DEF FunctionFrame, SameFunction
    <3>2. Here \in 0..D
      BY <2>1, <2>3
    <3> QED
      BY <2>2, <3>1, <3>2, FunctionAtSame
  <2>4. CASE Declares(frames, Here, n, "name")
    <3>1. DeclaredAs(n, "name", FunctionAt(Here), D)
      BY <1>1, <1>2, <2>1, <2>4, DeclaredFurtherOut
    <3>2. Here <= D
      BY <1>3, <2>1, <2>4 DEF Declares
    <3> QED
      BY <1>2, <2>2, <2>3, <3>1, <3>2 DEF Visible, HiddenByNameParam
  <2>5. CASE /\ frames[Here].kind = "procedure"
             /\ \E j \in 1..(Here - 1) :
                  Declares(frames, j, n, "local") /\ FunctionAt(j) = Outer
    <3>1. PICK j \in 1..(Here - 1) :
            Declares(frames, j, n, "local") /\ FunctionAt(j) = Outer
      BY <2>5
    <3>2. j \in 1..L
      BY <2>1
    <3>3. j < D /\ DeclaredAs(n, "local", Outer, D)
      BY <1>1, <1>2, <3>1, <3>2, DeclaredFurtherOut
    <3>4. Here <= D
      <4> SUFFICES ASSUME D < Here PROVE FALSE
        BY <2>1
      <4>1. \A i \in 1..Here : frames[i].kind \notin {"inspect", "classbody"}
        BY <1>1, <2>1, <2>5 DEF IInv, NestingInv
      <4>2. frames[D].kind = "method" /\ D = 2
        <5>1. D \in 1..Here
          BY <2>1
        <5>2. frames[D].kind = "method"
          BY <1>4, <4>1, <5>1 DEF ObjectKind
        <5> QED
          BY <1>1, <5>2 DEF IInv, NestingInv
      <4>3. FunctionAt(Here - 1) = Outer /\ Here - 1 \in Nat /\ D \in 1..(Here - 1)
        BY <2>1, <2>5 DEF Outer
      <4>4. D <= Outer
        BY <4>2, <4>3, FunctionAtFacts DEF FunctionKind
      <4>5. FunctionAt(j) \in 0..j
        BY FunctionAtFacts
      <4> QED
        BY <3>1, <3>3, <4>2, <4>4, <4>5
    <3> QED
      BY <1>2, <2>3, <3>3, <3>4 DEF Visible, HiddenByNameParam
  <2> QED
    BY <2>4, <2>5, NameParamsCome
<1>8. \A obj, j : ObjectOf(obj, frames[j]) /\ j \in 1..L /\ n \in Fields[obj.class] => j <= D
  BY <1>3, FieldFacts
<1>9. \A obj : ObjectOf(obj, frames[D])
                 => /\ n \in Fields[obj.class] /\ FieldOf(obj, n) # None
                    /\ FieldOf(obj, n) = Variable(frames[D].id, n, "field", obj.fn)
  <2> TAKE obj
  <2> SUFFICES ASSUME ObjectOf(obj, frames[D])
               PROVE  /\ n \in Fields[obj.class] /\ FieldOf(obj, n) # None
                      /\ FieldOf(obj, n) = Variable(frames[D].id, n, "field", obj.fn)
    OBVIOUS
  <2>1. n \in Fields[obj.class]
    BY <1>3 DEF ObjectOf, Declares
  <2> QED
    BY <2>1, FieldFacts
<1>10. \A fn : Same(Variable(frames[D].id, n, "field", fn), Meant(n))
  BY <1>3, VariableFacts DEF Same
<1>11. ctx.this # NoObject
  <2>1. Objects(frames, L) \in SUBSET (1..L)
    BY DEF Objects
  <2>2. PICK t \in 1..L : Innermost(Objects(frames, L), t)
    BY <1>5, <2>1, InnermostExists
  <2>3. ctx.this \in Obj
    BY <1>1, <2>2, TopFacts DEF Fits, ThisFits, ObjectOf
  <2> QED
    BY <2>3 DEF Obj, NoObject
<1>12. PICK t \in 1..L : Innermost(Objects(frames, L), t) /\ ObjectOf(ctx.this, frames[t])
  BY <1>1, <1>11, ThisComes
<1>13. CASE t = D
  <2>1. FieldOf(ctx.this, n) # None /\ Same(FieldOf(ctx.this, n), Meant(n))
    BY <1>9, <1>10, <1>12, <1>13
  <2> QED
    BY <1>6, <1>7, <2>1 DEF GetVarPtr
<1>14. CASE t # D
  <2>1. t > D /\ t \in Objects(frames, L)
    BY <1>5, <1>12, <1>14 DEF Innermost
  <2>2. FieldOf(ctx.this, n) = None
    <3>1. ObjectOf(ctx.this, frames[t]) /\ ~ (t <= D)
      BY <1>12, <2>1
    <3>2. n \notin Fields[ctx.this.class]
      BY <1>8, <3>1
    <3> QED
      BY <3>1, <3>2, FieldFacts
  <2>3. frames[t].kind = "inspect"
    <3>1. t # 2
      BY <1>5, <2>1
    <3> QED
      BY <1>1, <2>1, <3>1 DEF Objects, ObjectKind, IInv, NestingInv
  <2>4. CASE FieldOf(ctx.methodThis, n) # None
    <3>1. ctx.methodThis # NoObject
      BY <2>4 DEF FieldOf
    <3>2. /\ 2 \in 1..L /\ frames[2].kind = "method" /\ ObjectOf(ctx.methodThis, frames[2])
      BY <1>1, <3>1, MethodThisComes
    <3>3. n \in Fields[ctx.methodThis.class]
      BY <2>4, <3>2, FieldFacts
    <3>4. frames[D].kind # "inspect"
      BY <1>1, <1>2, <2>1, <2>3, <2>4 DEF Visible, HiddenByMethod
    <3>5. D = 2
      BY <1>1, <1>4, <3>4 DEF ObjectKind, IInv, NestingInv
    <3>6. Same(FieldOf(ctx.methodThis, n), Meant(n))
      BY <1>9, <1>10, <3>2, <3>5
    <3> QED
      BY <1>6, <1>7, <2>2, <2>4, <3>6 DEF GetVarPtr
  <2>5. CASE FieldOf(ctx.methodThis, n) = None
    <3>1. ~ Innermost(Objects(frames, L), D)
      BY <2>1 DEF Innermost
    <3>2. StackFits(frames, ctx, L)
      BY <1>1, TopFacts DEF Fits
    <3>3. PICK i \in DOMAIN ctx.inspectStack : ctx.inspectStack[i].id = frames[D].id
      BY <1>5, <3>1, <3>2 DEF StackFits
    <3>4. \A j, k \in 1..L : /\ j < k => frames[j].id < frames[k].id
                             /\ frames[j].id \in Nat
      <4>1. \A j \in 1..L : frames[j] \in Frame
        BY <1>1 DEF IInv, TypeOK
      <4> QED
        BY <1>1, <4>1 DEF IInv, FramesInv, Frame
    <3>5. ObjectOf(ctx.inspectStack[i], frames[D])
      <4>1. PICK j \in 1..L : ObjectOf(ctx.inspectStack[i], frames[j])
        BY <1>1, StackComes
      <4>2. frames[j].id = frames[D].id
        BY <3>3, <4>1 DEF ObjectOf
      <4>3. j = D
        BY <3>4, <4>2
      <4> QED
        BY <4>1, <4>3
    <3>6. ctx.inspectStack[i] # ctx.this
      <4>1. ctx.this.id = frames[t].id
        BY <1>12 DEF ObjectOf
      <4> QED
        BY <2>1, <3>3, <3>4, <4>1
    <3>7. i \in InspectStackHas(n)
      BY <1>9, <3>5, <3>6 DEF InspectStackHas
    <3>8. PICK m \in InspectStackHas(n) :
            OnInspectStack(n) = ctx.inspectStack[m] /\ Innermost(InspectStackHas(n), m)
      BY <3>7, OnStackFacts
    <3>9. m = i
      <4>1. m \in DOMAIN ctx.inspectStack /\ n \in Fields[ctx.inspectStack[m].class]
        BY DEF InspectStackHas
      <4>2. PICK j \in 1..L : ObjectOf(ctx.inspectStack[m], frames[j])
        BY <1>1, <4>1, StackComes
      <4>3. j <= D /\ ctx.inspectStack[m].id = frames[j].id
        BY <1>8, <4>1, <4>2 DEF ObjectOf
      <4>4. ~ (frames[D].id < frames[j].id)
        BY <3>4, <4>3
      <4>5. ~ (i < m)
        BY <3>2, <3>3, <4>1, <4>3, <4>4 DEF StackFits
      <4>6. i <= m
        BY <3>7, <3>8 DEF Innermost
      <4>7. i \in Nat /\ m \in Nat
        BY <3>3, <4>1, TopFacts DEF CodeGenContext
      <4> QED
        BY <4>5, <4>6, <4>7
    <3>10. Same(FieldOf(OnInspectStack(n), n), Meant(n))
      BY <1>9, <1>10, <3>5, <3>8, <3>9
    <3> QED
      BY <1>6, <1>7, <2>2, <2>5, <3>7, <3>10 DEF GetVarPtr
  <2> QED
    BY <2>4, <2>5
<1> QED
  BY <1>13, <1>14

\* A name means what it means in Simula: CodeGenContext::getVarPtr finds the
\* variable of the innermost construct that declares the name, for programs of
\* any length and depth, except in the cases that the property lists.
THEOREM AlwaysResolved == Spec => []NamesResolve
<1>1. IInv => NamesResolve
  <2> SUFFICES ASSUME IInv, NEW n \in Name, Visible(n)
               PROVE  Same(GetVarPtr(n), Meant(n))
    BY DEF NamesResolve, Visible
  <2>1. Meant(n).sort \in {"local", "global", "name", "field"}
    <3>1. /\ Meant(n).sort \in SortsIn(frames[DeclaredAt(n)].kind)
          /\ frames[DeclaredAt(n)].kind \in Kind
      BY DeclaredAtFacts DEF Visible
    <3> QED
      BY <3>1 DEF SortsIn, Kind, FunctionKind, ObjectKind
  <2> QED
    BY <2>1, LocalResolves, GlobalResolves, NameResolves, FieldResolves
<1> QED
  BY <1>1, Invariant, PTL

=============================================================================
