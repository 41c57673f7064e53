-------------------------------- MODULE MCLoops --------------------------------
(* Instances of Loops: lists of one or two elements.                          *)
EXTENDS Loops

CONSTANTS Any

MCBefore == {0, -2, 3}

Ex(reads, halves) == [reads |-> reads, plus |-> halves, real |-> halves % 2 # 0]
Zero == Ex("none", 0)

Item(kind, value, step, limit) ==
    [kind |-> kind, value |-> value, step |-> step, limit |-> limit]

Values == {Item("value", e, Zero, Zero) : e \in {Ex("none", 2), Ex("none", 3), Ex("control", 2)}}
Whiles == {Item("while", e, Zero, c) : e \in {Ex("other", 1), Ex("control", 2)},
                                       c \in {Ex("none", 2), Ex("control", 0)}}
Ranges == {Item("step", e, s, c) :
             e \in {Ex("none", 0), Ex("other", 2)},
             s \in {Ex("none", n) : n \in {-2, 2, 3, 4}} \cup {Ex("other", 2), Ex("none", 0)},
             c \in {Ex("none", 3), Ex("none", 6), Ex("none", -4), Ex("other", 0), Ex("control", -2)}}
Second == {i \in Values \cup Whiles \cup Ranges :
             /\ i.value # Ex("other", 2) /\ i.step \in {Zero, Ex("none", -2), Ex("none", 2)}
             /\ i.limit # Ex("control", -2)}

Bodies == [target : {"none"}, assign : {Zero}] \cup
          [target : {"control"}, assign : {Ex("control", 2), Ex("other", 1)}] \cup
          [target : {"actual"}, assign : {Ex("none", 2)}] \cup
          [target : {"other"}, assign : {Ex("other", 2), Ex("other", -2), Ex("control", 0)}]

Programs ==
    [type : Type, byName : BOOLEAN, actualType : Type, body : Bodies,
     elements : {<<e>> : e \in Values \cup Whiles \cup Ranges} \cup
                ((Values \cup Whiles \cup Ranges) \X Second)]

MCProgram ==
    {p \in Programs :
        /\ ~p.byName => p.actualType = p.type /\ p.body.target # "actual"
        /\ Any \/ AsExpanded(p)}

=============================================================================
