---------------------------- MODULE NonLocalGoto ----------------------------
(***************************************************************************)
(* GOTO out of a procedure, as src/codegen.cpp compiles it.                *)
(*                                                                         *)
(* Each procedure is a C function, and the program is the function main.   *)
(* One whose labels are jumped to from elsewhere calls setjmp at its       *)
(* entry, stores the address of its jmp_buf in a global variable per label *)
(* name, and numbers these labels.  A GOTO in a nested procedure loads the *)
(* global and calls longjmp with the number the compiler has recorded for  *)
(* that name last.  A label that is passed as a parameter is a record of   *)
(* the jmp_buf and the number.                                             *)
(*                                                                         *)
(* A block inside the program does at its entry what a procedure does: a   *)
(* jmp_buf of its own in the frame of main, and numbers from 1.  The       *)
(* program's setup has already gone through its statements, so its labels  *)
(* have entries there too.  A block inside a procedure has nothing of its  *)
(* own: its labels are the procedure's.                                    *)
(*                                                                         *)
(* The behaviours begin with the choice of a program: how procedures and   *)
(* blocks are nested, and the labels each body has a dispatch entry for.   *)
(***************************************************************************)
EXTENDS Integers, Sequences, FiniteSetsExt

CONSTANTS
    Last,     \* the bodies inside the program are 1 .. Last in textual order
    Label,    \* the label names, as numbers in alphabetical order
    MaxDepth  \* bound: no more activations at a time

ASSUME NonLocalGotoAssumption ==
    /\ Last \in Nat
    /\ Label \subseteq Nat \ {0} /\ IsFiniteSet(Label)
    /\ MaxDepth \in Nat \ {0}

VARIABLES
    nest,   \* the body in which each procedure is declared or each block stands
    blocks, \* the bodies that are blocks of the program, not procedures
    labels, \* the labels of each body that get a dispatch entry
    stack,  \* the activations of procedures and blocks
    nlbuf,  \* the global __nlbuf_l of each label
    at,     \* where the newest activation goes on
    status  \* "running", or what has gone wrong in a jump

vars == <<nest, blocks, labels, stack, nlbuf, at, status>>

Inner    == 1 .. Last
Body     == 0 .. Last    \* 0 is the program
Main     == {0} \cup blocks  \* the bodies compiled into the function main

\* Pointers to a jmp_buf: the depth of the activation that holds it.
Null     == 0
Dead     == -1  \* of an activation that has ended
Buffer   == 1 .. MaxDepth

\* Where an activation goes on: at a label, or here.
Start    == 0   \* the block body_start
Returned == -1  \* behind its last call

\* The LABEL parameter of an activation.
NoRecord == [buf |-> Null, id |-> 0]
Record   == [buf : Buffer, id : Nat \ {0}]

\* env is the activation of the enclosing function, which the code does not
\* keep: it serves to say what a GOTO means.
Activation == [body : Body, env : 0 .. MaxDepth, rec : Record \cup {NoRecord}]

-----------------------------------------------------------------------------
(* The text of the program.                                                *)

Static == INSTANCE Chains

\* f and the functions around it, when they are nested as in n.
Around(n, f) == Static!Chain(f, [g \in Body |-> IF g = 0 THEN -1 ELSE n[g]])

\* In textual order, the next body stands in the one before it or in one
\* around that.
Nestings ==
    {n \in [Inner -> Body] :
        /\ \A p \in Inner : n[p] < p
        /\ \A p \in Inner : n[p] \in Around(n, p - 1)}

\* Blocks stand in the program or in its blocks, behind the declarations of
\* procedures.
Blocks(n) ==
    {B \in SUBSET Inner : \A b \in B :
        /\ n[b] \in {0} \cup B
        /\ \A p \in Inner \ B : n[p] = n[b] => p < b}

\* main has one basic block for each label name.
Labellings(B) ==
    {L \in [Body -> SUBSET Label] :
        \A f, g \in {0} \cup B : f # g => L[f] \cap L[g] = {}}

\* emitNonLocalGotoSetup goes through the statements of body f, those of the
\* blocks in it included.
Entries(f) == UNION {labels[b] : b \in {f} \cup {c \in blocks : f \in Around(nest, c)}}

Visible(f, l) == \E g \in Around(nest, f) : l \in labels[g]

-----------------------------------------------------------------------------
(* Faulty variants of definitions below: with one of them in the place of  *)
(* the right one, a property of this module fails.                         *)

\* The first label numbered 0, the value setjmp itself returns.
IdFromZero(f, l) == Cardinality({k \in Entries(f) : k < l})

\* The global stored only once.
PublishedOnce(f, d) ==
    [l \in Label |-> IF l \in Entries(f) /\ nlbuf[l] = Null THEN d ELSE nlbuf[l]]

\* A record made from the global.
RecordOfGlobal(l) ==
    [buf |-> nlbuf[l], id |-> Cardinality({k \in Entries(stack[Len(stack)].body) : k <= l})]

-----------------------------------------------------------------------------
(* What the compiler knows.                                                *)

\* nonLocalLabelIds as the setup of body f fills it: the labels numbered from
\* 1 in the order of their names.
IdOf(f, l) == Cardinality({k \in Entries(f) : k <= l})

\* Some label has the number id in the setup of body f.
Numbered(f, id) == \E l \in Entries(f) : IdOf(f, l) = id

\* The switch on setjmp's result at the entry of body f.
Dispatched(f, id) ==
    IF Numbered(f, id)
      THEN CHOOSE l \in Entries(f) : IdOf(f, l) = id
      ELSE Start

\* The body whose entry outerNlLabels[l] holds while the statements of f are
\* compiled: the last one set up so far.  That is one before f in the text,
\* or a procedure declared in f, for declarations precede statements.
Compiled(f, l) ==
    Max({g \in Body : l \in Entries(g) /\ (g < f \/ f \in Around(nest, g))})

-----------------------------------------------------------------------------
(* Activations.                                                            *)

Top == Len(stack)
Now == stack[Top].body

\* The activations that lexically enclose the one at depth d, itself included.
Enclosing(d) == Static!Chain(d, [i \in 1 .. Top |-> stack[i].env])

\* Those of them that run in the same C function.
InFunction == IF Now \in Main THEN Enclosing(Top) ELSE {Top}

\* The depth of the activation in which l is declared, seen from the running
\* one.
Home(l) == Max({d \in Enclosing(Top) : l \in labels[stack[d].body]})

\* The globals after the entry of body f at depth d.
Published(f, d) == [l \in Label |-> IF l \in Entries(f) THEN d ELSE nlbuf[l]]

\* The globals when only the activations up to depth d are left.
Outlived(d) == [l \in Label |-> IF nlbuf[l] > d THEN Dead ELSE nlbuf[l]]

\* The labels that the running function knows by name.
Known == UNION {labels[stack[d].body] : d \in InFunction}

\* currentJmpBuf: that of the newest setup in the function.
CurrentBuffer == Max({d \in InFunction : Entries(stack[d].body) # {}})

\* nonLocalLabelIds[l]: a block adds its entries to those of the blocks around.
NumberOf(l) ==
    IdOf(stack[Max({d \in InFunction : l \in Entries(stack[d].body)})].body, l)

\* makeLabelArg: the record for a label that the running function knows.
RecordOf(l) == [buf |-> CurrentBuffer, id |-> NumberOf(l)]

\* What the running function may pass for a LABEL parameter: nothing, its own
\* parameter, or one of its labels.
Actuals == {NoRecord, stack[Top].rec} \cup {RecordOf(l) : l \in Known}

Init ==
    /\ nest \in Nestings
    /\ blocks \in Blocks(nest)
    /\ labels \in Labellings(blocks)
    /\ stack = <<[body |-> 0, env |-> 0, rec |-> NoRecord]>>
    /\ nlbuf = [l \in Label |-> IF l \in Entries(0) THEN 1 ELSE Null]
    /\ at = Start
    /\ status = "running"

Running == status = "running"

Fixed == UNCHANGED <<nest, blocks, labels>>

\* A call, and the entry code of the procedure called.
Call(p, rec) ==
    /\ Running
    /\ Top < MaxDepth
    /\ p \notin blocks
    /\ rec \in Actuals
    /\ \E d \in Enclosing(Top) :
        /\ stack[d].body = nest[p]
        /\ stack' = Append(stack, [body |-> p, env |-> d, rec |-> rec])
    /\ nlbuf' = Published(p, Top + 1)
    /\ at' = Start
    /\ UNCHANGED status /\ Fixed

\* Control comes to a block inside the program.
Enter(b) ==
    /\ Running
    /\ Top < MaxDepth
    /\ b \in blocks
    /\ nest[b] = Now
    /\ stack' = Append(stack, [body |-> b, env |-> Top, rec |-> NoRecord])
    /\ nlbuf' = Published(b, Top + 1)
    /\ at' = Start
    /\ UNCHANGED status /\ Fixed

\* The end of a procedure or a block.
Return ==
    /\ Running
    /\ Top > 1
    /\ stack' = SubSeq(stack, 1, Top - 1)
    /\ nlbuf' = Outlived(Top - 1)
    /\ at' = Returned
    /\ UNCHANGED status /\ Fixed

Fails(what) ==
    /\ status' = what
    /\ UNCHANGED <<stack, nlbuf, at>> /\ Fixed

\* longjmp(buf, id), and the dispatch in the body it arrives in; setjmp
\* returns 1 when longjmp passes 0.  The dispatch of a body can jump past the
\* entry of a block inside, where the model stops.
LongJump(buf, id) ==
    IF buf \notin 1 .. Top THEN Fails("stale jump")
    ELSE LET f == stack[buf].body
             l == Dispatched(f, IF id = 0 THEN 1 ELSE id)
         IN  IF l \notin labels[f] \cup {Start} THEN Fails("past an entry")
             ELSE /\ stack' = SubSeq(stack, 1, buf)
                  /\ nlbuf' = Outlived(buf)
                  /\ at' = l
                  /\ UNCHANGED status /\ Fixed

\* GOTO l where l is a label of the function itself: a branch, which may leave
\* blocks.
GotoLocal(l) ==
    /\ Running
    /\ l \in Known
    /\ stack' = SubSeq(stack, 1, Home(l))
    /\ nlbuf' = Outlived(Home(l))
    /\ at' = l
    /\ UNCHANGED status /\ Fixed

\* GOTO l where l is a label of a function around it.
GotoOuter(l) ==
    /\ Running
    /\ l \notin Known /\ Visible(Now, l)
    /\ LongJump(nlbuf[l], IdOf(Compiled(Now, l), l))

\* GOTO of a LABEL parameter.
GotoParameter ==
    /\ Running
    /\ stack[Top].rec # NoRecord
    /\ LongJump(stack[Top].rec.buf, stack[Top].rec.id)

Next ==
    \/ \E p \in Inner : Enter(p) \/ \E rec \in Actuals : Call(p, rec)
    \/ Return
    \/ \E l \in Label : GotoLocal(l) \/ GotoOuter(l)
    \/ GotoParameter

Spec == Init /\ [][Next]_vars

-----------------------------------------------------------------------------
(* Properties.                                                             *)

TypeOK ==
    /\ nest \in Nestings
    /\ blocks \in Blocks(nest)
    /\ labels \in Labellings(blocks)
    /\ stack \in Seq(Activation) /\ Top \in Buffer
    /\ nlbuf \in [Label -> Buffer \cup {Null, Dead}]
    /\ at \in Label \cup {Start, Returned}
    /\ status \in {"running", "stale jump", "past an entry"}

\* No GOTO jumps into the frame of a procedure that has returned, into a block
\* that has ended, or past the entry of a block.
NoStaleJump == status = "running"

\* Static scoping: the owner of a label is active whenever the nested
\* procedure runs, so the global is valid at jump time (codegen.h:147-150).
GlobalIsValid ==
    \A l \in Label : Visible(Now, l) /\ l \notin Known => nlbuf[l] = Home(l)

\* A LABEL parameter names a label of its own of an activation that is still
\* there, below the one that has the parameter, also where procedures recurse
\* and pass it on.
RecordsAreLive ==
    \A i \in 1 .. Top : stack[i].rec # NoRecord =>
        /\ stack[i].rec.buf \in 1 .. i - 1
        /\ LET f == stack[stack[i].rec.buf].body
           IN  Dispatched(f, stack[i].rec.id) \in labels[f]

\* The label a record stands for.
TargetOf(rec) ==
    IF rec.buf \notin 1 .. Top THEN <<0, 0>>
    ELSE <<rec.buf, Dispatched(stack[rec.buf].body, rec.id)>>

\* The activations, and the labels their parameters stand for.
Meaning ==
    [i \in 1 .. Top |->
        [body |-> stack[i].body, env |-> stack[i].env, par |-> TargetOf(stack[i].rec)]]

Act == INSTANCE Activations
         WITH NoTarget <- <<0, 0>>, standsIn <- nest, chain <- Meaning

\* setjmp, longjmp and the globals do what nested activations demand: every
\* GOTO goes on at the label it names, in the activation it means.
ImplementsActivations == Act!ActivationsSpec
=============================================================================
