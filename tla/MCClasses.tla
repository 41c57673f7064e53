----------------------------- MODULE MCClasses -----------------------------
(* Classes for TLC: hierarchies of up to four classes under one root, in   *)
(* every alphabetical order.                                               *)
EXTENDS Classes, TLC

\* Names in textual order: every alphabetical order of the four classes.
Texts == {p \in [1..NClass -> 1..NClass] : ToSet(p) = 1..NClass}

\* Trees over textual positions: parents stand first.
Trees == {t \in [1..NClass -> 0..NClass] :
             t[1] = 0 /\ \A i \in 2..NClass : t[i] \in 1..(i - 1)}

Above(t) ==
    [i \in 1..NClass |->
        LET up[j \in 0..NClass] == IF j = 0 THEN {} ELSE {j} \cup up[t[j]]
        IN up[i]]

\* v: where methods 1 and 2 become virtual.  Either the specifying class has a
\* body of its own and the last class inherits one, or the other way round.
\* Method 3 is not virtual.
ProgramOf(text, t, v, bodied, in) ==
    LET pos == [c \in 1..NClass |-> CHOOSE i \in 1..NClass : text[i] = c]
        imp(i) == {m \in 1..2 : v[m] \in Above(t)[i] /\ (IF bodied THEN i # NClass ELSE i # v[m])}
    IN [parent |-> [c \in 1..NClass |->
                      IF t[pos[c]] = 0 THEN 0 ELSE text[t[pos[c]]]],
        text   |-> text,
        inner  |-> {text[i] : i \in in},
        locals |-> {1, 2},
        own    |-> [c \in 1..NClass |->
                      imp(pos[c]) \cup (IF pos[c] \in {1, 3} THEN {3} ELSE {})],
        virt   |-> [c \in 1..NClass |-> {m \in 1..2 : v[m] = pos[c]}],
        fields |-> [c \in 1..NClass |-> IF c % 2 = 1 THEN 2 ELSE 0],
        params |-> [c \in 1..NClass |-> c % 2],
        split  |-> [c \in 1..NClass |-> pos[c] # 2]]

MCProgram ==
    {ProgramOf(text, t, v, bodied, in) :
        text \in Texts, t \in Trees, v \in [1..2 -> 1..NClass],
        bodied \in BOOLEAN, in \in {{}, {3, 4}}}
=============================================================================
