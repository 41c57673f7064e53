-------------------------------- MODULE Scopes --------------------------------
(***************************************************************************)
(* Which variable a name means: the tables of CodeGenContext while the     *)
(* compiler walks over a program (src/codegen.cpp), and the nesting of the *)
(* program itself.  The program is written as it is compiled: each step    *)
(* opens or closes a block, procedure, method, class body or connection    *)
(* (INSPECT), or declares a name in the block that was opened last.        *)
(* A name may be looked up after every step.                               *)
(*                                                                         *)
(* Left out: procedures declared within a connection or in a block of a    *)
(* class body, which become methods of that class; classes declared in a   *)
(* procedure (see Classes); arrays (see Arrays).                           *)
(***************************************************************************)
EXTENDS Integers, SequencesExt

CONSTANTS
    Name,       \* the names in question
    Class,      \* the classes of the main block
    Fields,     \* the attributes of each class
    MaxOpened,  \* constructs in the program
    MaxDepth    \* constructs within each other

ASSUME FieldsAssumption == Fields \in [Class -> SUBSET Name]

VARIABLES
    ctx,        \* the CodeGenContext
    frames,     \* the constructs that are open, outermost first
    opened,     \* constructs opened so far
    clobbered   \* names for which a REF declaration hit an outer variable

vars == <<ctx, frames, opened, clobbered>>

None     == [sort |-> "none"]
NoObject == [sort |-> "none"]
Empty    == [n \in {} |-> None]

\* A variable: the construct it belongs to, its name, whether it is a global, a
\* local of its function, the slot of a NAME parameter, or a field; and the
\* function whose code may use this pointer to it (0 is main).
Variable(id, n, sort, fn) == [id |-> id, name |-> n, sort |-> sort, fn |-> fn]
Object(id, c, fn)         == [sort |-> "object", id |-> id, class |-> c, fn |-> fn]

\* A table with one more entry, and a table over another one.
Bind(f, n, v) == [m \in DOMAIN f \cup {n} |-> IF m = n THEN v ELSE f[m]]
Over(f, g)    == [m \in DOMAIN f \cup DOMAIN g |-> IF m \in DOMAIN f THEN f[m] ELSE g[m]]

Top == frames[Len(frames)]

-----------------------------------------------------------------------------
(* CodeGenContext::getVarPtr, and the same order in Identifier::codegen.   *)

FieldOf(obj, n) ==
    IF obj # NoObject /\ n \in Fields[obj.class]
    THEN Variable(obj.id, n, "field", obj.fn) ELSE None

\* The places of the connected objects that have the attribute; the innermost
\* of them is the last.
InspectStackHas(n) ==
    {i \in DOMAIN ctx.inspectStack :
        /\ ctx.inspectStack[i] # ctx.this
        /\ n \in Fields[ctx.inspectStack[i].class]}

OnInspectStack(n) == ctx.inspectStack[Max(InspectStackHas(n))]

\* Faulty variant: globals are looked up before the attributes.
GetVarPtrGlobalsFirst(n) ==
    CASE n \in DOMAIN ctx.nameParams       -> ctx.nameParams[n]
      [] n \in DOMAIN ctx.locals           -> ctx.locals[n]
      [] n \in DOMAIN ctx.globals          -> ctx.globals[n]
      [] FieldOf(ctx.this, n) # None       -> FieldOf(ctx.this, n)
      [] FieldOf(ctx.methodThis, n) # None -> FieldOf(ctx.methodThis, n)
      [] OTHER                             -> None

GetVarPtr(n) ==
    IF n \in DOMAIN ctx.nameParams THEN ctx.nameParams[n]
    ELSE IF n \in DOMAIN ctx.locals THEN ctx.locals[n]
    ELSE IF FieldOf(ctx.this, n) # None THEN FieldOf(ctx.this, n)
    ELSE IF FieldOf(ctx.methodThis, n) # None THEN FieldOf(ctx.methodThis, n)
    ELSE IF InspectStackHas(n) # {} THEN FieldOf(OnInspectStack(n), n)
    ELSE IF n \in DOMAIN ctx.globals THEN ctx.globals[n]
    ELSE None

-----------------------------------------------------------------------------
(* Declarations, in a block before its procedures and statements.          *)

Open(kind, names, phase) ==
    [id |-> opened, kind |-> kind, names |-> names, phase |-> phase, saved |-> ctx]

Init ==
    /\ ctx = [ fn |-> 0, nameParams |-> Empty, locals |-> Empty, globals |-> Empty,
               this |-> NoObject, methodThis |-> NoObject,
               insideMethod |-> FALSE, inspectStack |-> <<>>,
               declared |-> {}, inMainBlock |-> TRUE ]
    /\ frames    = <<[id |-> 0, kind |-> "block", names |-> Empty,
                      phase |-> "declarations", saved |-> ctx]>>
    /\ opened    = 1
    /\ clobbered = {}

Declare(n, v) ==
    frames' = [frames EXCEPT ![Len(frames)].names = Bind(@, n, v)]

InDeclarations(n) ==
    /\ Top.kind = "block" /\ Top.phase = "declarations"
    /\ n \notin DOMAIN Top.names

\* VarDeclaration::codegen.  A first declaration in the main block is a global
\* and stays in ctx.globals when the block is left.
VarDeclaration(n) ==
    LET shadowsOuter  == n \in DOMAIN ctx.locals \cup DOMAIN ctx.globals
        atGlobalScope == ctx.inMainBlock /\ ctx.this = NoObject /\ ~shadowsOuter
        sort          == IF atGlobalScope THEN "global" ELSE "local"
        v             == Variable(Top.id, n, sort, ctx.fn)
    IN /\ InDeclarations(n) /\ n \notin ctx.declared
       /\ Declare(n, v)
       /\ ctx' = IF atGlobalScope
                 THEN [ctx EXCEPT !.declared = @ \cup {n}, !.globals = Bind(@, n, v)]
                 ELSE [ctx EXCEPT !.declared = @ \cup {n}, !.locals  = Bind(@, n, v)]
       /\ UNCHANGED <<opened, clobbered>>

\* RefDeclaration::codegen.  In the main block it is always a new global.
RefDeclaration(n) ==
    LET global == ctx.inMainBlock /\ ctx.this = NoObject
        v      == Variable(Top.id, n, IF global THEN "global" ELSE "local", ctx.fn)
        outer  == n \in DOMAIN ctx.locals \cup DOMAIN ctx.globals
    IN /\ InDeclarations(n)
       /\ Declare(n, v)
       /\ ctx' = IF global THEN [ctx EXCEPT !.globals = Bind(@, n, v)]
                           ELSE [ctx EXCEPT !.locals  = Bind(@, n, v)]
       /\ clobbered' = IF global /\ outer THEN clobbered \cup {n} ELSE clobbered
       /\ UNCHANGED opened

-----------------------------------------------------------------------------
(* Constructs.  Each saves what it changes, and puts it back at its end.    *)

\* The construct on top of which another is opened has no more declarations.
Push(frame) ==
    /\ Len(frames) < MaxDepth /\ opened < MaxOpened
    /\ opened' = opened + 1
    /\ frames' = Append([frames EXCEPT ![Len(frames)].phase = "statements"], frame)
    /\ UNCHANGED clobbered

Pop(context) ==
    /\ Len(frames) > 1
    /\ frames' = Front(frames)
    /\ ctx'    = context
    /\ UNCHANGED <<opened, clobbered>>

\* Block::codegen saves the locals and the names declared in the block.
BeginBlock ==
    /\ Push(Open("block", Empty, "declarations"))
    /\ ctx' = [ctx EXCEPT !.declared = {}]

\* Faulty variant: the locals are not restored.
EndBlockKeepsLocals ==
    /\ Top.kind = "block"
    /\ Pop([ctx EXCEPT !.declared = Top.saved.declared])

EndBlock ==
    /\ Top.kind = "block"
    /\ Pop([ctx EXCEPT !.declared = Top.saved.declared, !.locals = Top.saved.locals])

\* ProcedureDecl::codegen of a procedure that is no method.  The locals of the
\* enclosing procedure become extra parameters, which are entered in nameParams
\* after the NAME parameters; nameParams themselves are not handed on.
Parameters(names, sort) == [n \in names |-> Variable(opened, n, sort, opened)]

\* Faulty variant: the enclosing procedure's variables are used as they are.
CapturedAsTheyAre == ctx.locals

Captured == [n \in DOMAIN ctx.locals |-> [ctx.locals[n] EXCEPT !.fn = opened]]

InConnection == \E k \in DOMAIN frames : frames[k].kind = "inspect"

BeginProcedure(byValue, byName) ==
    LET values == Parameters(byValue, "local")
        slots  == Parameters(byName, "name")
    IN /\ Top.kind = "block" /\ ~InConnection
       /\ ctx.this = NoObject \/ ctx.insideMethod
       /\ Push(Open("procedure", Over(values, slots), "statements"))
       /\ ctx' = [ctx EXCEPT !.fn = opened, !.locals = values,
                             !.nameParams  = Over(Captured, slots),
                             !.this = IF @ = NoObject THEN @ ELSE [@ EXCEPT !.fn = opened],
                             !.inMainBlock = FALSE]

EndProcedure ==
    /\ Top.kind \in {"procedure", "method"}
    /\ Pop([Top.saved EXCEPT !.globals = ctx.globals, !.declared = ctx.declared])

\* A method, or the body, of a class of the outermost block.
BeginMethod(c, byValue, byName) ==
    LET obj    == Object(opened, c, opened)
        values == Parameters(byValue, "local")
        slots  == Parameters(byName, "name")
        fields == Parameters(Fields[c], "field")
    IN /\ Len(frames) = 1
       /\ Push(Open("method", Over(values, Over(slots, fields)), "statements"))
       /\ ctx' = [ctx EXCEPT !.fn = opened, !.locals = values, !.nameParams = slots,
                             !.this = obj, !.methodThis = obj,
                             !.insideMethod = TRUE, !.inMainBlock = FALSE]

BeginClassBody(c) ==
    /\ Len(frames) = 1
    /\ Push(Open("classbody", Parameters(Fields[c], "field"), "statements"))
    /\ ctx' = [ctx EXCEPT !.fn = opened, !.locals = Empty,
                          !.this = Object(opened, c, opened)]

EndClassBody ==
    /\ Top.kind = "classbody"
    /\ Pop([ctx EXCEPT !.fn = Top.saved.fn, !.locals = Top.saved.locals,
                       !.this = Top.saved.this])

\* InspectStatement::codegen, for DO and for WHEN: connect and disconnect.
Connect(c) ==
    /\ Push(Open("inspect", Parameters(Fields[c], "field"), "statements"))
    /\ ctx' = [ctx EXCEPT !.this = Object(opened, c, ctx.fn),
                          !.inspectStack = IF ctx.this = NoObject THEN @
                                           ELSE Append(@, ctx.this)]

Disconnect ==
    /\ Top.kind = "inspect"
    /\ Pop([ctx EXCEPT !.this = Top.saved.this,
                       !.inspectStack = IF Top.saved.this = NoObject THEN @
                                        ELSE Front(@)])

Next ==
    \/ \E n \in Name : VarDeclaration(n) \/ RefDeclaration(n)
    \/ BeginBlock \/ EndBlock
    \/ \E byValue, byName \in SUBSET Name :
          /\ byValue \cap byName = {}
          /\ \/ BeginProcedure(byValue, byName)
             \/ \E c \in Class : BeginMethod(c, byValue, byName)
    \/ EndProcedure
    \/ \E c \in Class : BeginClassBody(c) \/ Connect(c)
    \/ EndClassBody \/ Disconnect

Spec == Init /\ [][Next]_vars

-----------------------------------------------------------------------------
(* What a name means in Simula: the innermost construct that declares it.  *)

Declaring(n)  == {k \in DOMAIN frames : n \in DOMAIN frames[k].names}
DeclaredAt(n) == Max(Declaring(n))
Meant(n)      == frames[DeclaredAt(n)].names[n]

Same(v, w) == v.sort # "none" /\ v.id = w.id /\ v.name = w.name /\ v.sort = w.sort

\* The frame of the function that frame k is in, or 0 for main.
FunctionAt(k) ==
    Max({0} \cup {j \in 1..k : frames[j].kind \in {"procedure", "method", "classbody"}})
Here  == FunctionAt(Len(frames))
Outer == IF Here = 0 \/ frames[Here].kind # "procedure" THEN -1 ELSE FunctionAt(Here - 1)

DeclaredAs(n, sort, fn, limit) ==
    \E k \in Declaring(n) :
        k < limit /\ FunctionAt(k) = fn /\ frames[k].names[n].sort = sort

(* Where the tables give another variable, or none.                        *)

\* A local of a procedure further out than the next, or a NAME parameter of
\* another procedure.
TooDeep(n) ==
    LET fn == FunctionAt(DeclaredAt(n))
    IN \/ Meant(n).sort = "local" /\ fn \notin {Here, Outer}
       \/ Meant(n).sort = "name"  /\ fn # Here

\* The procedure has captured a variable, or has a NAME parameter, of the same
\* name: nameParams are consulted first.
HiddenByNameParam(n) ==
    /\ FunctionAt(DeclaredAt(n)) = Here
    /\ \/ DeclaredAs(n, "local", Outer, DeclaredAt(n))
       \/ DeclaredAs(n, "name", Here, DeclaredAt(n))

\* An attribute of a connected object, and a local declared outside INSPECT.
HiddenByLocal(n) ==
    Meant(n).sort = "field" /\ DeclaredAs(n, "local", Here, DeclaredAt(n))

\* Two connections in a method: the outer object has the attribute, and so has
\* the class of the method.
HiddenByMethod(n) ==
    /\ frames[DeclaredAt(n)].kind = "inspect"
    /\ \E k \in DOMAIN frames : k > DeclaredAt(n) /\ frames[k].kind = "inspect"
    /\ FieldOf(ctx.methodThis, n) # None

\* Each name that is visible means what it means in Simula, except in these
\* cases.
NamesResolve ==
    \A n \in Name :
        \/ Declaring(n) = {}
        \/ n \in clobbered
        \/ TooDeep(n) \/ HiddenByNameParam(n) \/ HiddenByLocal(n) \/ HiddenByMethod(n)
        \/ Same(GetVarPtr(n), Meant(n))

\* A pointer that is looked up belongs to the function whose code is being
\* generated, or to a global; except for the attributes of a method's object
\* inside a connection in a procedure nested in the method.
PointersAreOwn ==
    \A n \in Name :
        LET v == GetVarPtr(n)
        IN \/ v.sort \in {"none", "global"}
           \/ v.fn = ctx.fn
           \/ InConnection /\ Outer > 0 /\ FieldOf(ctx.methodThis, n) = v

\* codegen.cpp:4646-4648: "A same-named variable in an ENCLOSING scope is
\* shadowed with fresh storage, not aliased".  It is aliased where a nested
\* procedure declares a name it has captured: TLC refutes this within the bounds
\* of Scopes.cfg, and no run lists it.
ShadowedNotAliased ==
    \A n \in DOMAIN Top.names :
        Top.kind = "block" /\ n \notin clobbered => Same(GetVarPtr(n), Meant(n))

=============================================================================
