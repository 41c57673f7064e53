----------------------------- MODULE SharedTexts -----------------------------
(***************************************************************************)
(* What TEXT variables are to a Simula program: each is NOTEXT or sees a   *)
(* window of a text object, several may see the same characters, and a     *)
(* statement either makes one variable see something else or rewrites      *)
(* characters that one variable sees.  Objects nobody sees are gone.       *)
(***************************************************************************)
EXTENDS Naturals, Sequences, Functions

CONSTANTS Var,      \* the TEXT variables of the program
          NOTEXT

VARIABLES content,  \* the characters of each object that is seen
          window,   \* what each variable sees
          running

Seen(w) == {w[x].object : x \in {y \in Var : w[y] # NOTEXT}}

Within(w, v) == /\ w.object = v.object
                /\ v.start <= w.start
                /\ w.start + w.length <= v.start + v.length
Whole(o, c)  == [object |-> o, start |-> 0, length |-> Len(c)]
Holds(w, o, i) == w.object = o /\ i \in w.start + 1 .. w.start + w.length

Init == content = <<>> /\ window = [x \in Var |-> NOTEXT] /\ running = TRUE

\* A variable sees nothing, part of what one saw before, or a whole object.
Narrow(x) ==
    /\ \/ window'[x] = NOTEXT
       \/ \E y \in Var :
             /\ window[y] # NOTEXT /\ window'[x] # NOTEXT
             /\ \/ Within(window'[x], window[y])
                \/ window'[x] = Whole(window[y].object, content[window[y].object])
    /\ content' = Restrict(content, Seen(window'))

\* A variable sees an object that nobody saw before.
Create(x) ==
    \E o \in DOMAIN content' \ DOMAIN content :
        /\ window'[x] = Whole(o, content'[o])
        /\ Restrict(content', DOMAIN content' \ {o})
              = Restrict(content, Seen(window') \ {o})

Bind(x) == /\ window' = [window EXCEPT ![x] = window'[x]]
           /\ Narrow(x) \/ Create(x)
           /\ UNCHANGED running

\* Characters change inside one variable's window and nowhere else.
Write(x) ==
    /\ window[x] # NOTEXT
    /\ DOMAIN content' = DOMAIN content
    /\ \A o \in DOMAIN content :
          /\ Len(content'[o]) = Len(content[o])
          /\ \A i \in DOMAIN content[o] :
                Holds(window[x], o, i) \/ content'[o][i] = content[o][i]
    /\ UNCHANGED <<window, running>>

\* A run-time error ends the program.
Fail == /\ running' = FALSE
        /\ content' = <<>> /\ window' = [x \in Var |-> NOTEXT]

Next == \/ \E x \in Var : running /\ (Bind(x) \/ Write(x))
        \/ running /\ Fail
vars == <<content, window, running>>
Spec == Init /\ [][Next]_vars
=============================================================================
