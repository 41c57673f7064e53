----------------------------- MODULE ForExpansion -----------------------------
(* What a FOR statement stands for in Simula: one controlled variable, to     *)
(* which all is assigned with conversion; the step is evaluated once per      *)
(* round, before the test (V - C) * sign(B) <= 0 with the limit as it is.     *)
(* A sum that is no INTEGER is undefined.                                     *)
EXTENDS ForStatements

VARIABLES program, el, at, v, other, delta

expansion == <<program, el, at, v, other, delta>>

Element  == program.elements[el]
Value(e) == ValueOf(program, e, v, other)
Sign(h)  == IF h > 0 THEN 1 ELSE IF h < 0 THEN -1 ELSE 0

Init ==
    /\ program \in Program
    /\ el = 1 /\ at = "element" /\ delta = 0 /\ other \in Others
    /\ v \in Before \cap Number(program.type)

Goto(place, test) ==
    IF test THEN at' = place /\ UNCHANGED el
            ELSE at' = After(program, el) /\ el' = el + 1

Assign ==
    /\ at = "element"
    /\ v' = Convert(Value(Element.value), program.type)
    /\ at' = IF Element.kind = "value" THEN "body" ELSE "test"
    /\ UNCHANGED <<program, el, other, delta>>

Test ==
    /\ at = "test"
    /\ CASE Element.kind = "while" ->
              /\ Goto("body", other <= Value(Element.limit))
              /\ UNCHANGED delta
         [] Element.kind = "step" ->
              /\ delta' = Value(Element.step)
              /\ Goto("body", (v - Value(Element.limit)) * Sign(delta') <= 0)
    /\ UNCHANGED <<program, v, other>>

Body ==
    /\ at = "body"
    /\ at' = Back(program, el)
    /\ el' = IF Element.kind = "value" THEN el + 1 ELSE el
    /\ CASE program.body.target = "control" ->
              v' = Convert(Value(program.body.assign), program.type) /\ UNCHANGED other
         [] program.body.target = "other" ->
              other' = Assigned(other, Value(program.body.assign)) /\ UNCHANGED v
         [] OTHER -> UNCHANGED <<v, other>>
    /\ UNCHANGED <<program, delta>>

Increase ==
    /\ at = "increase"
    /\ LET sum == Convert(v + delta, program.type)
       IN IF program.type = "INTEGER" /\ sum \notin Whole
          THEN v' \in Whole ELSE v' = sum
    /\ at' = "test"
    /\ UNCHANGED <<program, el, other, delta>>

Next == Assign \/ Test \/ Body \/ Increase

Spec == Init /\ [][Next]_expansion

=============================================================================
