------------------------------- MODULE Classes -------------------------------
(***************************************************************************)
(* How the compiler lays out classes (src/codegen.cpp): what               *)
(* ClassDecl::declareSkeleton records of each class, the calls and class   *)
(* tests it emits while it generates bodies, the virtual tables it builds  *)
(* at the very end (buildAllVtables), and the objects the program makes    *)
(* with what was emitted.                                                  *)
(*                                                                         *)
(* A class is the number of its name in alphabetical order, which is the   *)
(* order of the std::map the compiler keeps its classes in; so is a        *)
(* method.  A program is a record:                                         *)
(*   parent    the prefix of each class, or 0                              *)
(*   text      the classes in textual order, a prefix before its classes   *)
(*   inner     the classes declared in a procedure, after the outer ones   *)
(*   locals    the variables of that procedure, which its classes capture  *)
(*   own       the procedures each class declares                          *)
(*   virt      the names each class specifies as VIRTUAL                   *)
(*   fields    how many fields each class adds; the first `params` of them *)
(*   params    are its parameters                                          *)
(*   split     whether the body of the class has an INNER                  *)
(***************************************************************************)
EXTENDS Integers, FiniteSets, SequencesExt

CONSTANTS NClass, NMethod, Program

Class  == 1..NClass
Method == 1..NMethod
Var    == 1..2              \* the variables of the procedure

\* Each class stands once in the text, its prefix before it: the skeleton of a
\* class copies what the skeleton of its prefix recorded.
InOrder(p) ==
    /\ p.text \in [Class -> Class] /\ p.parent \in [Class -> 0..NClass]
    /\ \A c \in Class : \E i \in Class : p.text[i] = c
    /\ \A i, j \in Class : p.text[i] = p.text[j] => i = j
    /\ \A i \in Class : \/ p.parent[p.text[i]] = 0
                        \/ \E j \in 1..(i - 1) : p.parent[p.text[i]] = p.text[j]

\* Parameters are fields.
IsProgram(p) ==
    /\ InOrder(p)
    /\ p.inner \subseteq Class /\ p.locals \subseteq Var
    /\ p.own \in [Class -> SUBSET Method] /\ p.virt \in [Class -> SUBSET Method]
    /\ p.fields \in [Class -> Nat] /\ p.params \in [Class -> Nat]
    /\ \A c \in Class : p.params[c] <= p.fields[c]
    /\ p.split \in [Class -> BOOLEAN]

ASSUME SizesAssumption   == NClass \in Nat \ {0} /\ NMethod \in Nat \ {0}
ASSUME ProgramAssumption == \A p \in Program : IsProgram(p)

VARIABLES
    prog,       \* the program
    stage,      \* what the compiler is doing: see Stage
    at,         \* skeletons declared so far, or the next class of a pass
    changed,    \* the flag of the second pass of buildAllVtables
    vt,         \* vtableMethodOrder and vtableIndex of each class
    methods,    \* the class whose function ci.methods[m] is, or 0
    layout,     \* the slots of each class after the two of the runtime
    code,       \* the calls and class tests generated so far, and by whom
    tables,     \* the tables buildAllVtables makes
    obj         \* the object the program made last

vars == <<prog, stage, at, changed, vt, methods, layout, code, tables, obj>>

Stage == {"blocks", "inherit", "propagate", "adopt", "build", "run"}
Block == {"outer", "inner"}

-----------------------------------------------------------------------------
(* The prefix chain.                                                       *)

\* The class and its prefixes, root first.
ChainIn(parent) ==
    LET chain[a \in 0..NClass] ==
            IF a = 0 THEN <<>> ELSE Append(chain[parent[a]], a)
    IN chain

Chain(c) == ChainIn(prog.parent)[c]

\* The entry of the nearest class of the chain that has one, or 0.
NearestIn(parent, entry) ==
    LET near[a \in 0..NClass] ==
            IF a = 0 THEN 0
            ELSE IF entry[a] # 0 THEN entry[a] ELSE near[parent[a]]
    IN near

PrefixSet(c) == ToSet(Chain(c))

\* The classes the compiler has met.
Declared == IF stage = "blocks" THEN {prog.text[i] : i \in 1..at} ELSE Class

\* The classes a test for c accepts: those whose chain reaches c, among the
\* classes the compiler has met so far.
DescendantIdSet(c) == {d \in Declared : c \in PrefixSet(d)}

IsVirtualMethod(c, m) == \E a \in PrefixSet(c) : m \in prog.virt[a]

-----------------------------------------------------------------------------
(* Method tables, as the compiler numbers them.                            *)

NoNames == [order |-> <<>>, index |-> [m \in Method |-> 0]]

\* The names in alphabetical order.
Sorted(names) ==
    CHOOSE s \in [1..Cardinality(names) -> names] :
        \A i, j \in 1..Cardinality(names) : i < j => s[i] < s[j]

\* Faulty variants: a name is added again; the class keeps its own numbers.
ExtendAlways(t, names) ==
    [order |-> t.order \o Sorted(names),
     index |-> [m \in Method |->
                  IF m \in names
                  THEN Len(t.order) + CHOOSE i \in DOMAIN Sorted(names) :
                                               Sorted(names)[i] = m
                  ELSE t.index[m]]]
AdoptOrder(t, p) == [order |-> p.order, index |-> t.index]

\* Names that are missing are added at the end, in alphabetical order.
Extend(t, names) ==
    LET new == Sorted({m \in names : t.index[m] = 0})
    IN [order |-> t.order \o new,
        index |-> [m \in Method |->
                     IF \E i \in DOMAIN new : new[i] = m
                     THEN Len(t.order) + CHOOSE i \in DOMAIN new : new[i] = m
                     ELSE t.index[m]]]

\* The parent's numbers and order replace those of the class.
Adopt(t, p) ==
    [order |-> p.order,
     index |-> [m \in Method |->
                  IF p.index[m] # 0 THEN p.index[m] ELSE t.index[m]]]

NamesIn(t) == {m \in Method : t.index[m] # 0}
MethodsOf(c) == {m \in Method : methods[c][m] # 0}

-----------------------------------------------------------------------------
(* Skeletons.                                                              *)

NoPrefix == [fields |-> <<>>, captured |-> <<>>]

LayoutOfPrefix(c) == IF prog.parent[c] = 0 THEN NoPrefix ELSE layout[prog.parent[c]]

\* A class in the procedure has the captures of its prefix and, behind them,
\* the procedure's variables that are not among these.
Captures(c) ==
    LET pre == LayoutOfPrefix(c).captured
    IN pre \o Sorted(IF c \in prog.inner THEN prog.locals \ ToSet(pre) ELSE {})

\* The first n fields that class c adds.
FieldsOf(c, n) == [k \in 1..n |-> <<c, k>>]
OwnFields(c)   == FieldsOf(c, prog.fields[c])

\* Faulty variant: the class's own fields come before the prefix's.
LayoutOwnFirst(c) ==
    [fields   |-> OwnFields(c) \o LayoutOfPrefix(c).fields,
     captured |-> Captures(c)]

\* Fields come first, the prefix's before the class's own; then the captures.
Layout(c) ==
    [fields   |-> LayoutOfPrefix(c).fields \o OwnFields(c),
     captured |-> Captures(c)]

\* Faulty variant: a class numbers its names without looking at its prefix.
NumberingAfresh(c, meths) ==
    [vt EXCEPT ![c] = Extend(Extend(NoNames, prog.virt[c]), meths)]

\* The numbers of a class's methods and virtual names: those of its prefix,
\* then its own.  Its new names go up to the prefix, one level only, and the
\* class takes over the prefix's numbers.
Numbering(c, meths) ==
    LET p   == prog.parent[c]
        own == Extend(Extend(IF p = 0 THEN NoNames ELSE vt[p], meths), prog.virt[c])
        up  == Extend(vt[p], NamesIn(own))
    IN IF p = 0 THEN [vt EXCEPT ![c] = own]
       ELSE [vt EXCEPT ![p] = up, ![c] = Extend(up, meths)]

\* Methods are inherited when the skeleton is made, and may be redefined.
DeclareSkeleton ==
    /\ stage = "blocks" /\ at < NClass
    /\ LET c == prog.text[at + 1]
           p == prog.parent[c]
           meths == [m \in Method |-> IF m \in prog.own[c] THEN c
                                      ELSE IF p = 0 THEN 0 ELSE methods[p][m]]
       IN /\ layout'  = [layout EXCEPT ![c] = Layout(c)]
          /\ methods' = [methods EXCEPT ![c] = meths]
          /\ vt'      = Numbering(c, {m \in Method : meths[m] # 0})
    /\ at' = at + 1
    /\ UNCHANGED <<prog, stage, changed, code, tables, obj>>

-----------------------------------------------------------------------------
(* Bodies.                                                                 *)

\* The function for m of the first class of the prefix chain with one.
Search(c, m) == NearestIn(prog.parent, [a \in Class |-> methods[a][m]])[c]

\* A call is looked up in the table of the object, by the number the name has
\* now in the class that qualifies the call, or it is bound to a function.
VirtualCall(c, m) ==
    [qual |-> c, method |-> m, index |-> vt[c].index[m], target |-> 0]
StaticCall(c, m, function) ==
    [qual |-> c, method |-> m, index |-> 0, target |-> function]

IsVirtualCall(c, m) == IsVirtualMethod(c, m) /\ vt[c].index[m] # 0

\* A bare name in the body of class c, without arguments.  Procedures of the
\* program are looked up before (codegen.cpp:1082-1168); these programs have
\* none with the name of a method.
BareName(c, m) ==
    IF IsVirtualCall(c, m) THEN VirtualCall(c, m)
    ELSE StaticCall(c, m, methods[c][m])

\* With arguments, a name the class does not have may be any class's, although
\* a procedure of the program has that name.
BareCall(c, m) ==
    LET having == {d \in Declared : methods[d][m] # 0}
    IN IF IsVirtualCall(c, m) THEN VirtualCall(c, m)
       ELSE IF methods[c][m] # 0 \/ having = {}
       THEN StaticCall(c, m, methods[c][m])
       ELSE StaticCall(c, m, methods[Min(having)][m])

\* Faulty variant: the qualification decides, for virtual names too.
RemoteCallStatic(c, m) == StaticCall(c, m, Search(c, m))

\* X.m with arguments, and X.m without, for X qualified by c.
RemoteCall(c, m) ==
    IF IsVirtualCall(c, m) THEN VirtualCall(c, m)
    ELSE StaticCall(c, m, Search(c, m))
RemoteName(c, m) == RemoteCall(c, m)

\* The class numbers X IS c and X IN c look for; QUA and WHEN do as IN.
IsTest(c) == [class |-> c, ids |-> {c}]
InTest(c) == [class |-> c, ids |-> DescendantIdSet(c)]

Outer == Class \ prog.inner

\* The bodies of a block are generated when all its skeletons are there; those
\* of the outer block stand before or after the procedure.
GenerateBodies(b) ==
    /\ stage = "blocks" /\ b \notin code.blocks
    /\ IF b = "outer" THEN Outer \subseteq Declared
       ELSE at = NClass /\ prog.inner # {}
    /\ LET known == IF b = "outer" THEN Outer ELSE Class
       IN code' = [blocks |-> code.blocks \cup {b},
                   calls  |-> code.calls \cup UNION
                       {{BareName(c, m), BareCall(c, m), RemoteName(c, m),
                         RemoteCall(c, m)} : c \in known, m \in Method},
                   tests  |-> code.tests \cup UNION
                       {{IsTest(c), InTest(c)} : c \in known}]
    /\ UNCHANGED <<prog, stage, at, changed, vt, methods, layout, tables, obj>>

-----------------------------------------------------------------------------
(* buildAllVtables, a pass over the classes in alphabetical order after    *)
(* another.                                                                *)

BeginTables ==
    /\ stage = "blocks" /\ at = NClass
    /\ code.blocks = (IF prog.inner = {} THEN {"outer"} ELSE Block)
    /\ stage' = "inherit" /\ at' = 1
    /\ UNCHANGED <<prog, changed, vt, methods, layout, code, tables, obj>>

\* On to the next class of the pass, or to the first class of what follows.
Advance(next) ==
    IF at < NClass THEN at' = at + 1 /\ stage' = stage
    ELSE at' = 1 /\ stage' = next

\* First pass: a class starts from its prefix's numbers again and adds its
\* methods, but not its virtual names.
InheritNames ==
    /\ stage = "inherit"
    /\ LET p == prog.parent[at]
       IN vt' = [vt EXCEPT ![at] =
                   Extend(IF p = 0 THEN vt[at] ELSE vt[p], MethodsOf(at))]
    /\ Advance("propagate")
    /\ UNCHANGED <<prog, changed, methods, layout, code, tables, obj>>

\* The table with the names of the class at hand, for its prefix.
Propagated == Extend(vt[prog.parent[at]], NamesIn(vt[at]))

\* Second pass, repeated until nothing changes: names go up.
PropagateNames ==
    /\ stage = "propagate"
    /\ LET p == prog.parent[at]
           grows == p # 0 /\ Propagated # vt[p]
       IN /\ vt' = IF grows THEN [vt EXCEPT ![p] = Propagated] ELSE vt
          /\ changed' = ((changed \/ grows) /\ at < NClass)
          /\ Advance(IF changed \/ grows THEN "propagate" ELSE "adopt")
    /\ UNCHANGED <<prog, methods, layout, code, tables, obj>>

\* Third pass: a class takes over the numbers of its prefix.
AdoptNames ==
    /\ stage = "adopt"
    /\ LET p == prog.parent[at]
       IN vt' = IF p = 0 THEN vt
                ELSE [vt EXCEPT ![at] = Extend(Adopt(vt[at], vt[p]), MethodsOf(at))]
    /\ Advance("build")
    /\ UNCHANGED <<prog, changed, methods, layout, code, tables, obj>>

\* Faulty variant: the search for an entry does not go up the chain.
TableOfOwn(c) ==
    [i \in DOMAIN vt[c].order |->
        IF methods[c][vt[c].order[i]] = c THEN c ELSE 0]

\* One entry for each name: the function of the nearest class of the chain
\* that has one, or 0 for the null pointer.
TableOf(c) == [i \in DOMAIN vt[c].order |-> Search(c, vt[c].order[i])]

BuildTables ==
    /\ stage = "build"
    /\ tables' = [c \in Class |-> TableOf(c)]
    /\ stage' = "run"
    /\ UNCHANGED <<prog, at, changed, vt, methods, layout, code, obj>>

-----------------------------------------------------------------------------
(* Objects.  A slot is an index of the object's struct.                    *)

Position(s, e) == CHOOSE i \in DOMAIN s : s[i] = e
FieldSlot(c, f) == 1 + Position(layout[c].fields, f)
CapturedSlot(c, v) ==
    1 + Len(layout[c].fields) + Position(layout[c].captured, v)

\* The parameters of the class, the root's first.
ParamNamesIn(p) ==
    LET names[a \in 0..NClass] ==
            IF a = 0 THEN <<>>
            ELSE names[p.parent[a]] \o FieldsOf(a, p.params[a])
    IN names

ParamNames(c) == ParamNamesIn(prog)[c]

\* NewExpression: actual i goes to the field of parameter i, the address of
\* each captured variable to its slot.
Slots(c) ==
    LET par == ParamNames(c)
        cap == layout[c].captured
    IN [s \in 2..(1 + Len(layout[c].fields) + Len(cap)) |->
          IF \E i \in DOMAIN par : FieldSlot(c, par[i]) = s
          THEN <<"actual", CHOOSE i \in DOMAIN par : FieldSlot(c, par[i]) = s>>
          ELSE IF s > 1 + Len(layout[c].fields)
          THEN <<"address", cap[s - 1 - Len(layout[c].fields)]>>
          ELSE <<"initial", 0>>]

NoParts   == [before |-> <<>>, after |-> <<>>]
Behind(p, a) == IF p.split[a] THEN <<<<a, "after">>>> ELSE <<>>

\* Faulty variant: what stands behind INNER runs root first as well.
AroundForward(p, a, up) == [before |-> Append(up.before, <<a, "before">>),
                            after  |-> up.after \o Behind(p, a)]

\* What stands before the INNER of a class follows what stands before the INNER
\* of its prefix; what stands behind it comes first.  Without INNER everything
\* stands before it.
Around(p, a, up) == [before |-> Append(up.before, <<a, "before">>),
                     after  |-> Behind(p, a) \o up.after]

PartsIn(p) ==
    LET parts[a \in 0..NClass] ==
            IF a = 0 THEN NoParts ELSE Around(p, a, parts[p.parent[a]])
    IN parts

\* ClassDecl::codegen: the parts of the whole chain.
BodyOf(c) == PartsIn(prog)[c].before \o PartsIn(prog)[c].after

New(c) ==
    /\ stage = "run"
    /\ obj' = [class |-> c, slots |-> Slots(c), trace |-> BodyOf(c)]
    /\ UNCHANGED <<prog, stage, at, changed, vt, methods, layout, code, tables>>

\* The function a call reaches in an object of class d; 0 is the null pointer,
\* which simula_virtual_missing reports.
Beyond == NClass + 1        \* whatever is behind the end of the table
Reached(call, d) ==
    IF call.index = 0 THEN call.target
    ELSE IF call.index \in DOMAIN tables[d] THEN tables[d][call.index] ELSE Beyond

-----------------------------------------------------------------------------
NoObject == [class |-> 0, slots |-> <<>>, trace |-> <<>>]

Init ==
    /\ prog \in Program
    /\ stage = "blocks" /\ at = 0 /\ changed = FALSE
    /\ vt = [c \in Class |-> NoNames]
    /\ methods = [c \in Class |-> [m \in Method |-> 0]]
    /\ layout = [c \in Class |-> NoPrefix]
    /\ code = [blocks |-> {}, calls |-> {}, tests |-> {}]
    /\ tables = [c \in Class |-> <<>>]
    /\ obj = NoObject

Next ==
    \/ DeclareSkeleton
    \/ \E b \in Block : GenerateBodies(b)
    \/ BeginTables
    \/ InheritNames
    \/ PropagateNames
    \/ AdoptNames
    \/ BuildTables
    \/ \E c \in Class : New(c)

Spec == Init /\ [][Next]_vars

-----------------------------------------------------------------------------
TypeOK ==
    /\ stage \in Stage /\ at \in 0..NClass /\ changed \in BOOLEAN
    /\ \A c \in Class :
         /\ ToSet(vt[c].order) \subseteq Method
         /\ vt[c].index \in [Method -> 0..NMethod]
    /\ methods \in [Class -> [Method -> 0..NClass]]
    /\ \A c \in Class : ToSet(tables[c]) \subseteq 0..NClass
    /\ code.blocks \subseteq Block
    /\ obj.class \in 0..NClass

\* The number a class keeps for a name is the position of the name in its
\* order, by which the table is filled, and no name has two entries.
IndexIsPosition ==
    \A c \in Class, m \in Method :
        LET places == {i \in DOMAIN vt[c].order : vt[c].order[i] = m}
        IN places = (IF vt[c].index[m] = 0 THEN {} ELSE {vt[c].index[m]})

\* What Simula means by a call of m in an object of class d: the declaration
\* of m nearest to d, or 0.
Nearest(d, m) ==
    NearestIn(prog.parent, [a \in Class |-> IF m \in prog.own[a] THEN a ELSE 0])[d]

Intended(call, d) ==
    Nearest(IF IsVirtualMethod(call.qual, call.method) THEN d ELSE call.qual,
            call.method)

\* A call of an attribute of its qualification reaches the function Simula
\* means, in an object of any class that the qualification admits and in which
\* there is such a function.
CallReaches(call) ==
    \A d \in Class :
        call.qual \in PrefixSet(d) /\ Intended(call, d) # 0
            => Reached(call, d) = Intended(call, d)

\* The outermost prefix of c specifies m as virtual.
VirtualAtRoot(c, m) == m \in prog.virt[Chain(c)[1]]

\* Calls of procedures that are not virtual, and of those the outermost prefix
\* specifies as virtual, reach the function Simula means, although the tables
\* are renumbered after the calls were generated.
RootVirtualsReachOverride ==
    stage = "run" =>
        \A call \in code.calls :
            VirtualAtRoot(call.qual, call.method)
              \/ ~ IsVirtualMethod(call.qual, call.method)
            => CallReaches(call)

\* codegen.cpp:1172-1174: "A VIRTUAL method always dispatches dynamically ...
\* so an override in the runtime subclass is reached".
VirtualsReachOverride ==
    stage = "run" => \A call \in code.calls : CallReaches(call)

\* How many actuals belong to proper prefixes of a.
ActualsIn(p) ==
    LET sum[b \in 0..NClass] ==
            IF b = 0 THEN 0 ELSE p.params[b] + sum[p.parent[b]]
    IN sum

ActualsAbove(a) == ActualsIn(prog)[prog.parent[a]]

\* A class that a test admits finds its attributes where its own code looks for
\* them, in an object of any class: its parameters hold the actuals that were
\* meant for them, and a captured variable is the procedure's, as long as no
\* class between the two adds fields.
SlotsInPlace ==
    \A test \in code.tests : obj.class \in test.ids =>
        LET a == test.class IN
        /\ \A k \in 1..prog.params[a] :
             obj.slots[FieldSlot(a, <<a, k>>)] = <<"actual", ActualsAbove(a) + k>>
        /\ layout[a].fields = layout[obj.class].fields =>
             \A v \in ToSet(layout[a].captured) :
                 obj.slots[CapturedSlot(a, v)] = <<"address", v>>

\* codegen.cpp:6767: "Inherit the prefix's captures so the subclass struct
\* layout matches."  It does not where the subclass has fields of its own: TLC
\* refutes this with Classes.cfg, and no run lists it.
CapturesMatch ==
    obj.class # 0 =>
        \A a \in PrefixSet(obj.class) : \A v \in ToSet(layout[a].captured) :
            obj.slots[CapturedSlot(a, v)] = <<"address", v>>

\* The statements of the chain from its class i on, if those of each class run
\* in place of the INNER of its prefix.
NestingIn(p, ch) ==
    LET inner[i \in 1..(Len(ch) + 1)] ==
            IF i > Len(ch) THEN <<>>
            ELSE <<<<ch[i], "before">>>> \o inner[i + 1] \o Behind(p, ch[i])
    IN inner

\* The statements of an object's class run in place of the INNER of its prefix.
BodiesNest == obj.class # 0 => obj.trace = NestingIn(prog, Chain(obj.class))[1]
=============================================================================
