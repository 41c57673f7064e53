--------------------------------- MODULE Loops ---------------------------------
(***************************************************************************)
(* The code the compiler makes of a FOR statement (src/codegen.cpp,        *)
(* ForStatement to ForGeneralStatement).  The controlled variable may be a *)
(* NAME parameter: then the code works on a slot of the procedure and      *)
(* hands each value on to the actual parameter through a thunk.            *)
(*                                                                         *)
(* Left out: NAME parameters whose actual parameter is an expression or an *)
(* array element, and TEXT.                                                *)
(***************************************************************************)
EXTENDS ForStatements

VARIABLES
    program,    \* the FOR statement
    el,         \* element of the list, from 1
    at,         \* place in the code of that element
    slot,       \* the variable getVarPtr finds
    actual,     \* the actual parameter of a NAME parameter, otherwise as slot
    other,      \* the other variable
    stepRaw     \* value of the step in the condition block

vars == <<program, el, at, slot, actual, other, stepRaw>>

Element == program.elements[el]

-----------------------------------------------------------------------------
(* The statements of the parser: pure lists have code of their own.        *)

Kinds(p) == {p.elements[k].kind : k \in DOMAIN p.elements}

Lowering(p) ==
    CASE Kinds(p) = {"step"} /\ Len(p.elements) = 1 -> "ForStatement"
      [] Kinds(p) = {"value"}                       -> "ForListStatement"
      [] Kinds(p) = {"step"} /\ Len(p.elements) > 1 -> "ForMultiRangeStatement"
      [] OTHER                                      -> "ForGeneralStatement"

-----------------------------------------------------------------------------
(* The controlled variable.                                                *)

\* The get thunk of a NAME parameter reads the actual parameter.
Control == IF program.byName THEN Convert(actual, program.type) ELSE slot

\* Identifier::codegen puts what the thunk returns into the slot.
Mentions(es)  == \E e \in es : e.reads = "control"
Refreshed(es) == IF Mentions(es) THEN Control ELSE slot

\* Faulty variant: the actual parameter is not told.
StoreInSlot(n) ==
    /\ slot'   = n
    /\ actual' = IF program.byName THEN actual ELSE n

\* CreateStore and emitNameThunkSet, which converts to the actual's type.
Store(n) ==
    /\ slot'   = n
    /\ actual' = IF program.byName THEN Convert(n, program.actualType) ELSE n

Value(e)  == ValueOf(program, e, Control, other)
Coerce(n) == Convert(n, program.type)

\* ForListStatement stores what it has, without coercion: the bits of a REAL in
\* an INTEGER variable, or of an INTEGER in a REAL one, are some other number.
Stored(e) ==
    IF Lowering(program) # "ForListStatement"     THEN {Coerce(Value(e))}
    ELSE IF TypeOf(program, e) = program.type THEN {Value(e)}
    ELSE Number(program.type)

-----------------------------------------------------------------------------
Init ==
    /\ program \in Program
    /\ el = 1 /\ at = "element" /\ stepRaw = 0
    /\ other \in Others
    /\ slot \in Before \cap Number(program.type)
    /\ actual \in IF program.byName THEN Before \cap Number(program.actualType) ELSE {slot}

\* The value, the start of a range, or the value before WHILE.
Assign ==
    /\ at = "element"
    /\ \E n \in Stored(Element.value) : n \in Number(program.type) /\ Store(n)
    /\ at' = IF Element.kind = "value" THEN "body" ELSE "test"
    /\ UNCHANGED <<program, el, other, stepRaw>>

Branch(test) ==
    IF test THEN at' = "body" /\ UNCHANGED el
            ELSE at' = After(program, el) /\ el' = el + 1

TestWhile ==
    /\ at = "test" /\ Element.kind = "while"
    /\ Branch(other <= Value(Element.limit))
    /\ slot' = Refreshed({Element.limit})
    /\ UNCHANGED <<program, actual, other, stepRaw>>

\* Faulty variant: a loop downwards is tested like a loop upwards.
ContinuesUpwards(n, limit, step) == n <= limit
\* Faulty variant: the loop ends when the variable has reached the limit.
ContinuesUntilEqual(n, limit, step) == n # limit

Continues(n, limit, step) == IF step >= 0 THEN n <= limit ELSE n >= limit

\* ForMultiRangeStatement coerces step and limit before it compares.
TestStep ==
    LET asTested(n) == IF Lowering(program) = "ForMultiRangeStatement" THEN Coerce(n) ELSE n
        step  == asTested(Value(Element.step))
        limit == asTested(Value(Element.limit))
    IN /\ at = "test" /\ Element.kind = "step"
       /\ stepRaw' = step
       /\ Branch(Continues(slot, limit, step))
       /\ slot' = Refreshed({Element.step, Element.limit})
       /\ UNCHANGED <<program, actual, other>>

\* The body: one assignment, or something else.  The actual parameter can be
\* assigned to by its own name.
Body ==
    LET n == Value(program.body.assign)
    IN /\ at = "body"
       /\ at' = Back(program, el)
       /\ el' = IF Element.kind = "value" THEN el + 1 ELSE el
       /\ CASE program.body.target = "control" ->
                 Coerce(n) \in Number(program.type) /\ Store(Coerce(n)) /\ UNCHANGED other
            [] program.body.target = "actual" ->
                 /\ actual' = Convert(n, program.actualType)
                 /\ actual' \in Number(program.actualType)
                 /\ slot' = Refreshed({program.body.assign})
                 /\ UNCHANGED other
            [] program.body.target = "other" ->
                 /\ other' = Assigned(other, n)
                 /\ slot' = Refreshed({program.body.assign})
                 /\ UNCHANGED actual
            [] OTHER -> UNCHANGED <<slot, actual, other>>
       /\ UNCHANGED <<program, stepRaw>>

Increase ==
    LET next == Plus(program.type, slot, Coerce(stepRaw))
    IN /\ at = "increase"
       /\ next \in Number(program.type)
       /\ Store(next)
       /\ at' = "test"
       /\ UNCHANGED <<program, el, other, stepRaw>>

Next == Assign \/ TestWhile \/ TestStep \/ Body \/ Increase

\* One thread runs, and runs on.
Spec == Init /\ [][Next]_vars /\ WF_vars(Next)

-----------------------------------------------------------------------------
(* What the FOR statement stands for.                                      *)

Expansion == INSTANCE ForExpansion WITH v <- Control, delta <- stepRaw

\* The code does what the expansion does, with the actual parameter of a NAME
\* parameter as the controlled variable.
ImplementsExpansion == Expansion!Spec

\* The programs of which that is so.
ListedAsIs(p) ==
    Lowering(p) = "ForListStatement" =>
        \A k \in DOMAIN p.elements : TypeOf(p, p.elements[k].value) = p.type
RangesAsTyped(p) ==
    Lowering(p) = "ForMultiRangeStatement" /\ p.type = "INTEGER" =>
        \A k \in DOMAIN p.elements :
            ~p.elements[k].step.real /\ ~p.elements[k].limit.real
\* A zero step: the expansion never ends, the code stops beyond the limit.
StepIsNotZero(p) ==
    \A k \in DOMAIN p.elements :
        LET step == p.elements[k].step
        IN p.elements[k].kind = "step" =>
              /\ step.reads # "control"
              /\ 0 \notin IF step.reads = "other" THEN {step.plus + o : o \in Others}
                                                  ELSE {step.plus}
NameIsKept(p) == p.byName => p.type = p.actualType /\ p.body.target # "actual"

AsExpanded(p) == ListedAsIs(p) /\ RangesAsTyped(p) /\ StepIsNotZero(p) /\ NameIsKept(p)

\* Constant bounds, a body that leaves the variable alone, and a limit that is
\* a step away from the largest and smallest numbers.
Counted(p) ==
    /\ p.body.target \in {"none", "other"}
    /\ \A k \in DOMAIN p.elements :
          LET e == p.elements[k]
          IN \/ e.kind = "value"
             \/ /\ e.kind = "step" /\ e.step.reads = "none" /\ e.limit.reads = "none"
                /\ Convert(e.step.plus, p.type) # 0
                /\ e.limit.plus + Round(e.step.plus) \in -2 * MaxInt..2 * MaxInt

\* Such a loop ends.
Ends == Counted(program) => <>(at = "done")

\* codegen.cpp:5808-5812: the continuation is "(V - C)*sign(B) <= 0", "compare in
\* REAL against the un-rounded limit even when V is INTEGER", "UNTIL 4.6 must stop
\* at 4, not 5".  Not so for lists of several ranges: TLC refutes this with
\* Any = TRUE in Loops.cfg, and no run lists it.
RoundsWithinLimit ==
    at = "body" /\ Element.kind = "step" =>
        IF stepRaw >= 0 THEN slot <= Value(Element.limit) ELSE slot >= Value(Element.limit)

=============================================================================
