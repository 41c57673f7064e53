----------------------------- MODULE ForStatements -----------------------------
(***************************************************************************)
(* FOR statements (src/parser.y, ForGeneralStatement of src/ast.h): the    *)
(* elements of the list, the expressions in them and the effect of the     *)
(* body, as far as the controlled variable and one INTEGER variable that   *)
(* expressions may mention are concerned.                                  *)
(*                                                                         *)
(* Numbers are counted in halves: 3 is the REAL 1.5, INTEGERs are even.    *)
(***************************************************************************)
EXTENDS Integers, Sequences

CONSTANTS
    Program,    \* the FOR statements in question
    MaxInt,     \* the largest INTEGER
    MaxReal,    \* bound on REALs, in halves
    MaxOther,   \* bound on the other variable
    Before      \* what the controlled variable may be before

Type   == {"INTEGER", "REAL"}
Whole  == {2 * k : k \in -(MaxInt + 1)..MaxInt}
Others == {2 * k : k \in 0..MaxOther}
Number(type) == IF type = "INTEGER" THEN Whole ELSE -MaxReal..MaxReal

\* simulaRealToInt; its range check cannot fail within the bounds.
Round(h)         == 2 * ((h + 1) \div 2)
Convert(h, type) == IF type = "INTEGER" THEN Round(h) ELSE h

\* 64 bit addition, with MaxInt in the place of 2^63 - 1.
Wrap(h) == ((h + 2 * (MaxInt + 1)) % (4 * (MaxInt + 1))) - 2 * (MaxInt + 1)
Plus(type, g, h) == IF type = "INTEGER" THEN Wrap(g + h) ELSE g + h

\* An expression is a constant, added to the controlled variable, to the other
\* variable or to nothing.
Expression ==
    { e \in [reads : {"none", "control", "other"}, plus : Int, real : BOOLEAN] :
        e.real \/ e.plus \in Whole }

\* A value alone has no step and limit, and a WHILE no step: what stands there is
\* not looked at.
ForElement ==
    [kind : {"value", "while", "step"}, value : Expression, step : Expression,
     limit : Expression]

Statement ==
    [type : Type, byName : BOOLEAN, actualType : Type,
     body : [target : {"none", "control", "actual", "other"}, assign : Expression],
     elements : Seq(ForElement) \ {<<>>}]

ASSUME BoundsAssumption ==
    /\ MaxInt \in Nat /\ MaxReal \in Nat /\ MaxOther \in 0..MaxInt
    /\ Program \subseteq Statement

TypeOf(p, e) ==
    IF e.real \/ (e.reads = "control" /\ p.type = "REAL") THEN "REAL" ELSE "INTEGER"

ValueOf(p, e, control, o) ==
    Plus(TypeOf(p, e),
         CASE e.reads = "control" -> control [] e.reads = "other" -> o [] OTHER -> 0,
         e.plus)

\* The other variable is assigned to if it stays within its bound.
Assigned(o, h) == IF Round(h) \in Others THEN Round(h) ELSE o

\* Where control goes: after an element comes the next one.
Last(p, el) == el = Len(p.elements)
After(p, el) == IF Last(p, el) THEN "done" ELSE "element"

\* From the end of the body.
Back(p, el) ==
    CASE p.elements[el].kind = "value" -> After(p, el)
      [] p.elements[el].kind = "while" -> "element"
      [] p.elements[el].kind = "step"  -> "increase"

=============================================================================
