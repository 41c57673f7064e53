# Verification of esimc

esimc compiles Simula to native code through LLVM and links the result with a
runtime written in C. This directory holds TLA+ models of the parts of it that
are hard to test, TLC configurations that check them on small instances, and
TLAPS proofs of the main properties for every instance.

Source references name files below the repository root: `runtime/simula_rt.c`,
`src/codegen.cpp`, `src/main.cpp` and so on.

## 1. Inventory

| Part | State it keeps | Operations | Hard about it | Modules |
|---|---|---|---|---|
| Coroutines, POSIX (`simula_rt.c` 149-312) | per object: stack, two saved contexts, `state`, `via_resume`; `_coro_current`, `_main_react`, `_chain_head` | NEW, DETACH, RESUME, CALL, end of a body | which context is saved where; stale and overwritten contexts; globals put back from locals of suspended frames | `Coroutines`, `Components`, `Chains`, `CoroutinePrograms`, proofs |
| Coroutines, Windows Fibers (`simula_rt.c` 19-147) | fibers, no `_chain_head` | the same | differs from the POSIX version | not modelled |
| SIMULATION (`simula_rt.c` 1255-1499, `codegen.cpp` 2884-2930, 5516-5564) | sequencing set, clock, operating process, terminated processes | ACTIVATE and REACTIVATE in all forms, HOLD, PASSIVATE, CANCEL, end of a process, main loop | order of events under a mixture of four ways to insert; control that returns to the main loop only; stale notices | `Simulation`, `DiscreteEvents`, `SimulationFifo`, proofs |
| SIMSET (`main.cpp` 520-594, Simula source) | `suc_`, `pred_` of all links and heads | OUT, FOLLOW, PRECEDE, INTO, CLEAR, FIRST, LAST, SUC, PRED, EMPTY, CARDINAL | pointer assignments with aliased operands; loops that rely on the ring | `Simset`, `Lists`, proofs |
| Non-local GOTO (`codegen.cpp` 59-226, 5566-5711) | jmp_bufs in frames, one global per label name, LABEL records | entry code, GOTO, LABEL parameters, SWITCH | recursion and equal label names; jumps into dead frames | `NonLocalGoto`, `Activations`, `GotoPrograms`, proofs |
| TEXT (`simula_rt.c` 430-625, 704-990) | frames, windows on them, positions | SUB, STRIP, assignment, GETCHAR, PUTCHAR, editing | aliasing of windows, overlapping copies | `Texts`, `TextItems`, `SharedTexts`, proofs |
| Class layout, vtables, INNER (`codegen.cpp` 228-352, 545-584, 6621-7114; calls at 1170, 2980, 3797, 4096; NEW at 3523) | `classes`: fields, captures, methods, method numbers of each class | skeletons, bodies, three passes over the method numbers, tables, NEW | overriding across several levels; numbers used before they are final; layouts that subclasses extend | `Classes`, proofs |
| Names: blocks, procedures, methods, INSPECT (`codegen.cpp` 381-435, 1011-1081, 4537-4744, 6047-6617, 7119-7291) | `locals`, `globals`, `nameParams`, `currentThis`, `methodThis`, `inspectStack` | declaration, begin and end of each construct, lookup | which of the tables comes first; what is saved and restored; captured variables | `Scopes`, proofs |
| NAME thunks (`codegen.cpp` 1365-1652) | thunks, shadow slots | read and write of a NAME parameter | re-evaluation, two copies of a value | `Loops`, for a controlled variable |
| Arrays (`codegen.cpp` 858-909, 1461-1494, 2035-2124, 2626-2693, 3342-3403, 4746-5100, 5304-5410, 6096-6130, 6314-6375) | `ArrayInfo` and hidden variables for the bounds | declaration, indexing, bounds inquiries, parameters, capture, fields | the bounds are copied at each step and in part | `Arrays`, proofs |
| Control statements (`codegen.cpp` 5715-6043, `parser.y` 835-900) | controlled variable, step | four translations of FOR; WHILE, IF | REAL and negative steps, overflow, NAME parameters as controlled variable | `Loops`, `ForExpansion`, `ForStatements`, proofs |
| Semantic analysis (`sema.cpp`) | scope stack, class table | declarations, uses, arity | cyclic prefixes, order of declaration | planned |
| Driver (`main.cpp`) | source text, loaded classes | EXTERNAL loading, prelude injection, pipeline | detection of preludes by words in the text | planned |
| INFILE, OUTFILE (`main.cpp` 243-503, `simula_rt.c`) | image, position, end of file | INIMAGE, LASTITEM, ... | end of file in the middle of an item | planned |
| Lexer, parser, expression code generation, drawing library | | | | not planned: grammar tables, one case per operator, floating point |

How they interact. Generated code calls the runtime and is called back by it
through coroutine switches: NEW starts the object's body on a stack of its own,
DETACH, RESUME and CALL switch between these stacks. SIMULATION stands on two
of the other parts. A process is a SIMSET link with a body that begins with
DETACH; the main loop gives it control by RESUME, and every scheduling statement
by which a process loses control ends in a detach that lands in the main loop.
GOTO out of a procedure works within one stack.

There is no preemption. What makes the code hard is that any runtime call may
come from any object in any order, that state is saved before a switch and
used after it, and that the parts share globals.

## 2. The models

### Simulation

One actor has control: a process, or the main program. `Control(c)` says so, and
every statement that is legal there may come next, with any process as its
operand and any time up to `MaxTime` (also times in the past). One action per
runtime function:

| action | code |
|---|---|
| `Activate` | `simula_sim_activate`: AT, DELAY, PRIOR |
| `ActivateNextTo`, `ActivateNextToIdle` | `simula_sim_activate_rel`: BEFORE, AFTER |
| `ActivateNow` | `simula_sim_activate_now` |
| `Hold`, `Passivate`, `Cancel`, `Terminate` | the functions of these names |
| `Dispatch`, `LeaveLoop` | a turn of `sim_main_loop`, its end and what its caller does then |
| `EvtimeOfIdle`, `EndProgram` | the ways to stop |
| `NewProcess` | NEW of a process, up to the DETACH of the prelude |

`sqs`, `time` and `current` are the C globals. `coro` abstracts the coroutine
layer to new, detached and running: `Dispatch` is refused if the coroutine is
not detached, as RESUME refuses it. The list operations are operators on
sequences (`Insert`, `Without`, `PlaceOf`), so that lemmas can be proved about
them. Calls that return early change nothing and are stuttering steps. The field
`seq` of a notice is written and never read, and is left out. The body of a
process uses the scheduling statements only; explicit DETACH, RESUME and CALL of
a process go past `sim_current_obj` and are not part of this model.

`DiscreteEvents` is the abstract scheduler: a function from processes to due
times, no list. `ImplementsEvents` maps the notices to it.

`SimulationFifo` is the class of programs that the liveness property is about.

### Coroutines

Each object has a C stack and two slots for a saved context; the main program has
`_main_resume_ctx`. `saved[s]` is the slot in which the suspended stack `s` was
saved last, `Lost` once another stack was saved there. Switching to a slot that
no stack can go on from is undefined behaviour in C; the model ends in the
status `"stale jump"`. A suspended stack keeps the locals `prev` and `prev_head`
in `frame[s]` and assigns them to the globals when it goes on, which is where
they can be out of date.

`Components` is what Simula promises: components with heads, attached objects
and reactivation points. `ImplementsComponents` derives who is attached to whom
from the saved contexts: `AttachedTo` says whose switch left the context a stack
returns to, and `GoesOnAt` which stack goes on when a component is resumed.
`Chains` follows such links to their end; `NonLocalGoto` uses it for static and
dynamic links as well.

`CoroutinePrograms` divides programs into classes. Plain programs detach the
object whose body runs and CALL only objects that suspended themselves by
DETACH. For these everything holds; section 5 says what happens beyond. (`CallingSpec`
and `Spec` are the programs to reproduce it with.)

### Simset

The procedures are Simula source inside the compiler. Each is composed of its
assignments in their order, on the pair of functions `suc_` and `pred_`, so that
aliasing has its effect (`PutBehind(r, l, x)` when `x` is already the neighbour
of `l`). CLEAR takes its loop one turn at a time under weak fairness: the program
that called it executes nothing else. No other fairness is assumed.

`Lists` is the abstract specification: the heads that have been made, and a
sequence for each, and one action for each procedure, which says on which side
of the other linkage a link ends up. `ListOf` finds the list of a head by walking
along `suc_`, and a head is made once its `suc_` is not NONE. `ImplementsLists` says
two things: every step is a step of `Lists`, and (`EachAsMeant`) it is the action of
the same name with the same arguments; a turn of CLEAR takes out the first link.

### NonLocalGoto

A behaviour begins with the choice of a program: which bodies there are inside
the program (`Inner`), whether each is a procedure or a block of the program
(`blocks`), how they are nested, and which labels have a dispatch entry. A block
inside the program is compiled into `main` and yet sets up non-local GOTO again
(`codegen.cpp` 4570-4572, 4615): a jmp_buf of its own and numbers from 1, while the
labels around it keep theirs in `nonLocalLabelIds`. So `Enter` is to a block what
`Call` is to a procedure, and `CurrentBuffer` and `NumberOf` are looked up
separately, as `currentJmpBuf` and `nonLocalLabelIds` are. The setup of a body goes
through its statements and those of the blocks in it (`Entries`). A block inside a
procedure has no setup and needs no model: its labels are the procedure's.

Activations, of procedures and of such blocks, form a stack; a jmp_buf is
the depth of its activation, `Dead` once that has ended. `Published` is the entry
code that stores the jmp_buf in the global of each label name. `Compiled` is the
compile-time side: the number of a label as `outerNlLabels` has it when a GOTO is
compiled. `env`, the lexically enclosing activation, is not in the code. It says
what a GOTO means. `Activations` is the abstract specification; `Meaning` is the
refinement mapping, which keeps of an activation its body, its environment
and the label its parameter means.

`GotoPrograms` restricts direct jumps to labels with a unique name in procedures
that do not recurse, and what is passed for a LABEL parameter to labels whose own
body set up the buffer in use (`Passable`; anything else goes wrong, section 5). All
other recursion and passing on is free.

### Texts

A variable (also a field, an array element, a parameter) holds NOTEXT or the
address of a descriptor, and a descriptor the address of a frame. Each runtime
function is an operator from the storage to the storage it leaves and its
result; an action is a whole statement: the expression evaluated, the result
bound by `:-` or copied by `:=`. `text_assign` has more than one result where
memcpy works on overlapping ranges, which C leaves undefined. GETINT, GETFRAC
and GETREAL scan with the operators of `TextItems`; the number they compute is
left out, where they stop and whether they find an item is not. Two letters with
their capitals stand for the alphabet, and the items that PUTINT and its kin
write come from a small set. Storage is never freed in the code; the model
forgets what no variable reaches, so that a few addresses are enough; a new one is
the first number that is free. `MaxLive` and `MaxKinds` bound what is in use at
once, and the proofs hold for any value of them. A nested expression is several
statements of the model.

`SharedTexts` is what this amounts to without descriptors and cursors: windows on
text objects, of which a statement moves one or rewrites the inside of one.

### Classes

The compiler's own run is the behaviour: skeletons in textual order
(`DeclareSkeleton`), the bodies of the main block and of a procedure with classes
of its own (`GenerateBodies`, which emits every kind of call and class test of
every method), then `buildAllVtables` one class per step in the order of the
`std::map` (`InheritNames`, `PropagateNames` until nothing changes, `AdoptNames`,
`BuildTables`), then NEW. `vt` is `vtableMethodOrder` with `vtableIndex`, `layout`
the struct of a class, `code` the numbers and functions that ended up in the
emitted calls. What a call means in Simula, `Intended`, is defined on the
program's text alone.

### Scopes

Each step opens or closes a construct of the program or declares a name, and `ctx`
changes as `CodeGenContext` does. `frames` is the nesting of the text. The reference
definition is one line: the innermost construct that declares the name (`Meant`).
After each step every name is looked up. `NamesResolve` says that the lookup finds
what is meant except in the named cases of section 5; each case is a condition on
the nesting, stated without looking at the tables.

### Arrays

One array on its way through a program: declared in one of three places with each
mixture of constant and computed bounds, then passed, passed by VALUE, captured by
a nested procedure, used in a method or through a reference, in any order that
makes sense. `info` is `ArrayInfo`, `slots` the hidden variables `a__lo`, `a__n1`
and so on with their values. `ElementAt` is the code of an index: does it stop the
program, and what is the offset; it takes one dimension after another (`Folding`).
The array's declared bounds are in `arr` and
are the reference: row-major order, and a check per dimension. `Supported` says
which ways the compiler offers; a way it rejects at compile time is not an
error here, a wrong element is.

### Loops

The state is where control is in the code of a FOR statement and the values of the
controlled variable, of the actual parameter if it is a NAME parameter, and of one
other variable that bounds and steps may mention. A behaviour begins with a
statement of one or two elements; `Lowering` picks the translation the parser
picks. Numbers are counted in halves, so that REAL and INTEGER, rounding and the
comparison with an unrounded limit have different results; INTEGER addition wraps.
`ForExpansion` is the expansion of the Simula definition, with one controlled
variable. `ImplementsExpansion` maps the value that the NAME thunk delivers to it.
`Statement` says which FOR statements a program may have: elements whose
expressions mention constants and the other variable; `Program`, a parameter, is
a subset of them, and `Before` the values the variables may have before the loop.

## 3. What TLC checks

| run | instance | shows |
|---|---|---|
| `simulation` | 3 processes, times up to 3 | type, `OneNotice`, `Ordered`, `Consistent`, `ResumesOnlyDetached`, `HoldIsExact`, `ImplementsEvents` |
| `simulation_fifo` | 3 processes, times up to 2 | `DueProcessRuns` (liveness) |
| `coroutines` | 4 objects, plain programs | type, `NoStaleJump`, `NothingLost`, `ChainHeadIsHead`, `DetachedIsResumable`, `ImplementsComponents` |
| `simset` | 2 heads, 4 links | type, `TwoWay`, `HasHead`, `FunctionsAgree`, `ImplementsLists`, `ClearIsDone` |
| `nonlocal_goto` | 2 procedures or blocks, 2 labels, 4 activations, all programs of the class | type, `NoStaleJump`, `RecordsAreLive`, `ImplementsActivations` |
| `nonlocal_goto_any` | 2 procedures or blocks, 1 label | violation, section 5 |
| `texts` | 2 variables, frames of 3 characters in all, 5 characters | type, `WindowsInside`, `AssignCopies`, `PutReadsBack`, `ImplementsSharedTexts` |
| `classes` | 4 classes in all trees and all orders of names, 3 methods | type, `IndexIsPosition`, `RootVirtualsReachOverride`, `SlotsInPlace`, `BodiesNest` |
| `classes_virtual` | the same | violation, section 5 |
| `arrays` | up to 4 dimensions, 3 steps | `RightElement`, `BoundsSurvive` |
| `scopes` | 1 name, 2 classes, 6 constructs | `NamesResolve`, `PointersAreOwn` |
| `loops` | 1 or 2 elements, INTEGERs from -4 to 3, REALs to 5 | `ImplementsExpansion`, `Ends` (liveness) |

Why these bounds. Three processes give the scheduler an operating one, one to
schedule and one next to which it is scheduled, and lists with a place in the
middle; four times give past, present and two futures that differ. Four objects
give the coroutine layer a resumed head with an attached object that resumes or
calls another component, with one to spare. Two heads and four links give a list
of three with a middle and a second list to move to. Two bodies inside the
program are enough for nested and sibling procedures, a procedure in a block and
a block in a block, four activations for recursion with a nested procedure on
top. Three characters give windows that overlap without being equal, a window
inside a window, and a text of two beside one of one, so that assignment cuts
and fills; a frame holds at most two kinds of characters.

Four classes give a chain of four, siblings, and a class between two others, in
every alphabetical order, which is the order in which the tables are built; two
virtual names compete for numbers and one method is not virtual. Arrays have
lower bounds below, at and above zero, no to three elements in a dimension, and
one to four dimensions, where the code has a limit at three; three steps allow a
capture of a parameter of a parameter. Names are looked up independently of each
other, so one name is enough; six nested constructs hold a procedure in a method
in a block with two connections. Loops count in halves, so that rounding shows,
and INTEGERs end at -4 and 3, so that increments wrap; two elements give the
passage from one to the next. Before the loop the variables hold -2, 0 or 3
halves, where the type admits that: below, at and above the bounds.

Processes and objects are interchangeable, so the safety runs use symmetry; the
liveness run does not. The runs of `Texts` take states that differ in addresses
or in the names of the two variables for one (`UpToNames`). `CHECK_DEADLOCK FALSE`
stands where a program ends, or a bound on its length has been reached.

Fairness. `DueProcessRuns` needs that the main loop keeps turning (it is plain C
code that does not wait) and that a process which has control reaches some
statement that gives it up; a body that computes for ever blocks every other
process in this runtime, by design. `ClearIsDone` needs that CLEAR goes on, and
`Ends` that the one thread that runs the loop does; `Ends` speaks of loops with
constant bounds and a body that leaves the controlled variable alone.

For each property a faulty variant of a definition is defined beside the right
one (`RankLast`, `ExitToCaller`, `PutOnWrongSide`, ...). With it in place the property
fails, which shows that the property depends on that code.

## 4. What is proved

All for any set of processes, objects, heads, links, labels, shapes and programs,
without bounds other than the assumptions of the modules.

- `SimulationProofs`: the inductive invariant `IInv`, and from it type
  correctness, `OneNotice`, `Ordered`, `Consistent`, `ResumesOnlyDetached` and the
  action property `HoldIsExact`. The safety properties are not inductive one by
  one: the order of the set needs that event times are not in the past, which
  needs that the clock moves only in the loop, which needs that a process
  operates only while the loop is active. So one invariant states them together,
  and the proof goes action by action. Statements of a running process share the
  lemma `StatementIInv`.
  `Simulation` implements `DiscreteEvents`: a dispatch is the start of the earliest
  event, the end of a timed loop lets time pass, and every other step plans.
- `CoroutinesProofs`, for plain programs (`PlainSpec`): type correctness,
  `NoStaleJump`, `NothingLost`, `ChainHeadIsHead`, `DetachedIsResumable` and
  `ImplementsComponents`. None of them is inductive: whether a switch finds a
  live context depends on who saved what in a slot several switches ago. The
  invariant says that there are two functions on stacks, `head` (the component a
  stack belongs to) and `depth` (how far it is from that head), such that every
  suspended stack returns to one of its own component that is one nearer to the
  head, that the slot it returns to holds the context of exactly that stack, and
  that the locals in suspended frames name the component they will find. The
  theorem hides the two functions behind an existential quantifier; each action
  gives new ones: NEW and CALL add an object to a component, DETACH and the end
  of a body make one the head of its own, RESUME changes neither. From `depth`
  it follows that the walks of `Chains` end at the head, without induction, from
  a least counterexample.
- `SimsetProofs`: type correctness, `TwoWay`, `HasHead`, `FunctionsAgree` and
  `ImplementsLists`, thus all but the end of CLEAR. `TwoWay` is inductive: OUT
  closes the ring around a link, and FOLLOW and PRECEDE open it between two nodes,
  whatever nodes coincide. The lists need more: that there is a function from
  heads to sequences that the ring shows (`Shows`), no link in two of them
  or twice in one. Every action keeps that there is one (`HasLists`), and changes it
  as the action of `Lists` of its name does (`StepAsMeant`): `FollowStep` and
  `PrecedeStep` find the place of the other linkage in the sequences that OUT has
  left, or that it has none (`AstrayStep`). The
  sequence that the walk `ListOf` finds is that one, because a first place at which
  they differ would have a predecessor.
- `NonLocalGotoProofs`: for all programs, type correctness, and that the jmp_buf in
  a LABEL parameter is always that of an activation below its holder
  (`LabelBuffersLive`): records go down the stack only. For programs of the class in
  `GotoPrograms` also `RecordsAreLive`, `NoStaleJump` and `ImplementsActivations`: the
  invariant `PInv` says that activations are nested as their bodies are, that those
  of the program and its blocks stand in textual order, that where a body
  that does not recurse is active and is the only one with a label of some name, the
  global of that name holds this activation, and that the number in each record is
  one of its buffer, of a label of that body itself. `MaxDepth` is any natural number.
- `LoopsAndArraysProofs`, about `Loops`: `ImplementsExpansion` for every program
  of the class and all bounds of INTEGER and REAL. The invariant says that the
  slot of a NAME parameter holds the actual parameter's value whenever the code
  reads it, and that the controlled variable holds a number of its type from the
  first assignment on; each of the four translations then takes the steps of the
  expansion or stutters.
- `LoopsAndArraysProofs`, about `Arrays`: `RightElement` and `BoundsSurvive` for any
  shapes, thus any lower bounds, sizes and number of dimensions, and ways of any
  length. Neither is inductive: a step hands on bounds, not elements, and leaves
  some of them behind. The invariant `ArrayInv` says what must be known at each
  place (`Knows`): the lower bound of a dimension in its slot if there is one and
  otherwise in `ArrayInfo`, where it is zero if the slot is used; the size of
  dimension one in whichever of three places is asked first; the others in slots
  exactly where `dyn` says so; and that the storage holds the product of the sizes.
  A parameter, a capture and a field each keep it in a different combination. The
  third dimension of an array that is captured must have constant bounds, which is
  what `Supported` asks and why `ArrayInv` speaks of `dyn` once more. What is computed
  one dimension after another (products, row-major offsets, the code of the indexes)
  is a recursive function on the dimensions: that it exists (`Iteration`) and what
  it returns follows from a least dimension where it fails (`UpTo`). An offset stays
  below the product of the sizes by `WithinProduct`, and the size of dimension one
  comes back from the total by division (`DivExact`).
- `ScopesProofs`, for any names, classes and attributes, and programs of any length
  and depth: `NamesResolve` and `PointersAreOwn`. The tables describe the construct
  that was opened last; what belongs to the constructs around it is in what they
  saved. So the invariant `IInv` speaks of every open construct and of the context
  that belongs to it, the present one or a saved one, and says which declarations
  each table of it holds (`Fits`): locals those of the function, NAME parameters
  first what the function captured, `inspectStack` all connected objects but the
  innermost. A construct that ends puts back a context that fits, because of what
  it left alone (`Leaves`). The rest is a case for each kind of declaration: the
  listed exceptions are exactly what stands in the way of finding it.
- `ClassesProofs`, for any number of classes and methods and any programs: type
  correctness, `IndexIsPosition`, `RootVirtualsReachOverride`, `SlotsInPlace` and
  `BodiesNest`. The second relates code that was emitted early to tables that are
  made at the very end, after three passes have renumbered everything. The
  invariant (`NumbersInv`) says what no pass changes: a name that the root
  specifies as virtual has the same number in all classes of the root, from its
  first skeleton on, and a call that was emitted has that number (`RootNumbers`,
  `CallRight`); and what the passes are for: behind the class at hand, numbers of
  a class and its prefix agree as far as the pass has come (`Passed`).
  `LayoutsInv` says that the layout of a class begins with that of its prefix, that
  entries stand once, and whose they are, and `ObjectRight` that the last object
  was made from them. What is defined from the prefix upwards (chains, nearest
  declarations, parameters, bodies) is a recursive function on classes; that these
  exist (`Recursion`), and what they return, follows from a least class in the
  text where it fails (`LeastClass`), as prefixes stand before their classes.
- `TextsProofs`, for any variables, characters, constants and frames: type
  correctness, `WindowsInside`, `AssignCopies`, `PutReadsBack` and
  `ImplementsSharedTexts`. The invariant adds to the first two that the model
  remembers exactly what some variable reaches (`Tidy`), from which memory is
  finite and a new address can be found. Each function of the runtime gets a lemma
  on what it does to any sound storage; with them a statement is one of three
  kinds (`StepKinds`): it stops the program, gives a variable a part of an old text
  or a new one, or rewrites characters in one window. Invariance and refinement go
  by these three kinds. For `AssignCopies` the point is that two windows that are
  the same or apart never lie in the way that makes `memcpy` undefined
  (`NoNearOverlap`); for `PutReadsBack`, where the scan of GETINT stops.

Each proof assumes what its module assumes: `NULL` and `NONE` are no objects,
links are finitely many, labels are positive numbers, the bounds of numbers are
in order, programs of `Loops` are `Statement`s, and the letter case tables and
the items of `Texts` stay within its characters; attributes in `Scopes` are
names; a shape of `Arrays` has at least one dimension with integer bounds
(`ShapesAssumption`). The programs of `Classes` have each class once in their
text, behind its prefix (`ProgramAssumption`): `declareSkeleton` copies what it
has recorded of the prefix by then, so this is what decides whether there is
anything to copy. The classes of programs are preconditions, and section 5 says
what happens outside of them; TLC runs the same specifications.

Only model-checked, and why: the liveness properties `DueProcessRuns`,
`ClearIsDone` and `Ends`, which are out of the prover's reach.

## 5. Where code and comments disagree

Two runs show a violation each, `nonlocal_goto_any` and `classes_virtual`. The
other entries name the property, and the configuration to which it can be added,
with which TLC shows them. `(C)` marks what a comment or the repository's README
says otherwise; the rest are deviations from Simula, which the code's comments do
not speak about.

Run time:

- REACTIVATE X BEFORE or AFTER CURRENT makes X passive. The comment at
  `simula_rt.c` 1392-1393 allows that only when the other process is idle, which
  the operating one is not: `simula_sim_idle` (1329-1333) says so, and the comment
  at 1351 gives it a notice "conceptually" (C).
- CALL of an object suspended by RESUME leaves `_chain_head` at the wrong
  component (`simula_rt.c` 282): `ChainHeadIsHead` under `CallingSpec`, 3 objects.
- DETACH of an object that does not operate, by a call of a procedure of it that
  detaches, jumps into a spent context (`simula_rt.c` 231): `NoStaleJump` under
  `Spec`, 2 objects.
- GETREAL accepts a text that has an exponent mark and no digit, such as "Euro":
  it returns 1 and leaves POS at 1, where the comment at `simula_rt.c` 708-711
  wants a run-time error (C): `RealHasDigit`, `Texts.cfg`.
- The comment at `simula_rt.c` 1258-1261 says scheduling statements only edit the
  sequencing set; direct activation and REACTIVATE of the operating process
  yield, as the comments at those functions say (C).

Classes and procedures:

- The global of a label name is not always that of the activation that owns the
  label (`codegen.cpp` 172-180; comment in `codegen.h` 147-150) (C): run
  `nonlocal_goto_any`.
- A block inside the program that has dispatch entries makes a jmp_buf of its own
  and numbers from 1 (`codegen.cpp` 4570-4572, 4615), where the comment at 4609-4611
  speaks of the outermost block (C). A label from around the block, passed from it
  as a LABEL parameter, becomes a record of the block's jmp_buf and the label's old
  number (215-223), and GOTO of the parameter goes to a label of the block or to its
  start. With `Known` for `Passable` in `GotoPrograms`, `RecordsAreLive` and
  `ImplementsActivations` fail under `NonLocalGoto.cfg`: label 2 in the program, label
  1 in a block, and a procedure with a LABEL parameter for which the block passes 2.
- A virtual call goes to whatever has the number that the method had when the
  call was compiled; the tables are numbered again afterwards (`codegen.cpp`
  1176, 232-291; comment at 1172-1174) (C): run `classes_virtual`. It is right
  in hierarchies where the root class specifies all virtual names:
  `RootVirtualsReachOverride`.
- Captured variables lie behind the fields, so they move when a subclass adds
  fields, and the prefix's methods find others in their place (`codegen.cpp`
  6767): `CapturesMatch`, `Classes.cfg`.

Arrays:

- Indexes from outside the object (`r.a(i)`) are not checked, although the
  repository's README.md, line 241, names one uncovered case only (C):
  `CheckedButOneCase`, `Arrays.cfg`. In a method, and outside the object, a lower
  bound that is no plain number is taken for 1 (`StaticLower`).
- An array whose name was that of an array in an earlier sibling block keeps the
  earlier bounds (`codegen.cpp` 4748): `Redeclare` is the action.

Names:

- A nested procedure that declares a variable of the same name as one it has
  captured works on the captured one (`codegen.cpp` 4646-4648 says a shadow gets
  storage of its own) (C): `ShadowedNotAliased`, `Scopes.cfg`.
- The exceptions of `NamesResolve`: locals of a procedure two or more levels
  further out (`TooDeep`), local declarations and attributes hidden by captured
  variables, NAME parameters and locals (`HiddenByNameParam`, `HiddenByLocal`), an
  outer connection that is hidden by the attributes of the method's own class
  (`HiddenByMethod`), and a REF variable in an inner block of the main program,
  which replaces the global of that name for good (5102-5117; `clobbered`).
- In a connection in a procedure nested in a method, the method's attributes are
  addressed with a pointer of the method's function (404).

FOR, with `Any = TRUE` in `Loops.cfg`:

- A list of values stores without converting (5869): `ListedAsIs`.
- A list with several ranges rounds a REAL limit and step to the type of an
  INTEGER variable (5899-5907), so `0 STEP 1 UNTIL 4.6` runs to 5, where the
  comment at 5808-5815 says 4 (C): `RoundsWithinLimit`.
- With a step of zero the code stops beyond the limit, where the expansion of the
  Simula definition never ends: `StepIsNotZero`.
- A NAME parameter as the controlled variable: the loop continues with the slot
  when the body has assigned to the actual parameter by its own name, and with
  the unrounded value when the formal parameter is REAL and the actual one INTEGER
  (5842): `NameIsKept`.
- Conversion of REAL to INTEGER rounds ties up (1339-1355); the comment at
  1395-1396 says away from zero (C). No property: -0.5 is the shortest example.
- The repository's README.md, line 238, says NAME parameters are not evaluated
  again at each access. They are, by thunks (1365-1652) (C).

## 6. Left out

Event times are integers, so rounding and NaN are not covered. Stack overflow of
the 32 KB coroutine stacks and memory that is never freed are below the models.
A nested procedure that is passed as a formal procedure is not part of
`NonLocalGoto`, nor is a GOTO out of a class body, which crosses coroutine
stacks. Labels that have no dispatch entry are local and left out. The labels of
the program and of its blocks have different names, for `main` has one basic
block per name. In the model every label with an entry in a block has one in the
setups around it. In the code the scan of a surrounding body may also find more
names jumped to than that of the block, or fewer, as it does not go into the
bodies of FOR lists (`codegen.cpp` 95-148); that changes which numbers labels
get, nothing else. A jump to the buffer of a block that has ended ends the model
as `"stale jump"`, and one through the dispatch of a surrounding body into a
block ends it as `"past an entry"`; the code, being one C function, goes on
there.

`Classes` has no HIDDEN and PROTECTED, no procedure of the program with the name
of a method, which a bare name in a class body would find first (`codegen.cpp`
1082-1168), and no program in which a class stands before its prefix: the
compiler accepts it (comment at `codegen.cpp` 4556-4560), but copies nothing
from a prefix that has no skeleton yet (6641-6653). `Scopes` leaves out classes
that are declared in a procedure, procedures declared within a connection, and
formal procedures. `Arrays` is about where an element is and whether an index is
refused, not about what an element holds. `Loops` leaves out NAME parameters
whose actual parameter is an expression or an array element, and the WHILE and
IF statements, which have no state of their own.

Not modelled: the grammar, the code of expressions with one case per operator,
input and output, drawing, and numeric functions: tables and calls of
libraries, without steps of more than one actor. The Windows version of the
coroutines and the semantic analysis are planned.

## 7. Plan

Done in this order: Simulation with its abstract scheduler and proofs;
Coroutines; Simset with proofs; NonLocalGoto with the first proofs; Texts;
Classes; Arrays; Scopes; Loops against the expansion of FOR; the proofs about
Coroutines, Loops, direct GOTOs, the lists of Simset, TEXT, Scopes, Classes and
Arrays.

Next:

1. Classes that stand before their prefix.
2. Composition of Simulation, Coroutines and Simset: WAIT, the main program as
   a resumer, process bodies that also use DETACH and GOTO.
3. The Windows version of the coroutines against `Components`.
4. SWITCH; integer power with wraparound; NAME parameters whose actual parameter is
   an expression.
5. Scopes of the semantic analysis; the EXTERNAL loader; INFILE.
