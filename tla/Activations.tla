---------------------------- MODULE Activations ----------------------------
(***************************************************************************)
(* What GOTO promises in a language with nested procedures and blocks: a   *)
(* label means the one in the activation that lexically encloses the GOTO, *)
(* however many other activations of the same procedure there are; a label *)
(* that is passed as a parameter means the one that the caller means by    *)
(* it.  A jump ends every procedure and block entered since.               *)
(***************************************************************************)
EXTENDS Integers, Sequences

CONSTANTS Inner, Label, Start, Returned, NoTarget

VARIABLES
    standsIn, \* the body in which each procedure or block stands
    blocks,   \* the bodies that are blocks of the program
    labels,   \* the labels of each body
    chain,    \* the activations: body, enclosing activation, parameter
    at        \* where the newest activation goes on

actVars == <<standsIn, blocks, labels, chain, at>>

Newest == Len(chain)

Static == INSTANCE Chains

\* The activation d and those that enclose it lexically.
Enclosing(d) == Static!Chain(d, [i \in 1 .. Newest |-> chain[i].env])

\* The innermost of them that has the label l.
Home(l) ==
    LET homes == {d \in Enclosing(Newest) : l \in labels[chain[d].body]}
    IN  CHOOSE d \in homes : \A e \in homes : e <= d

Visible(l) == \E d \in Enclosing(Newest) : l \in labels[chain[d].body]

\* The actual label parameters: a label the caller can name, or its parameter.
Actuals ==
    {NoTarget, chain[Newest].par} \cup {<<Home(l), l>> : l \in {k \in Label : Visible(k)}}

Fixed == UNCHANGED <<standsIn, blocks, labels>>

\* A procedure is called where it is visible.
Invoke(p) ==
    /\ p \notin blocks
    /\ \E d \in Enclosing(Newest), par \in Actuals :
        /\ chain[d].body = standsIn[p]
        /\ chain' = Append(chain, [body |-> p, env |-> d, par |-> par])
    /\ at' = Start
    /\ Fixed

\* A block is entered where it stands.
Begin(b) ==
    /\ b \in blocks
    /\ chain[Newest].body = standsIn[b]
    /\ chain' = Append(chain, [body |-> b, env |-> Newest, par |-> NoTarget])
    /\ at' = Start
    /\ Fixed

Leave ==
    /\ Newest > 1
    /\ chain' = SubSeq(chain, 1, Newest - 1)
    /\ at' = Returned
    /\ Fixed

JumpTo(d, l) ==
    /\ chain' = SubSeq(chain, 1, d)
    /\ at' = l
    /\ Fixed

GoTo(l) == Visible(l) /\ JumpTo(Home(l), l)

GoToParameter ==
    /\ chain[Newest].par # NoTarget
    /\ JumpTo(chain[Newest].par[1], chain[Newest].par[2])

ActivationsNext ==
    \/ \E p \in Inner : Invoke(p) \/ Begin(p)
    \/ Leave
    \/ \E l \in Label : GoTo(l)
    \/ GoToParameter

ActivationsInit ==
    /\ chain = <<[body |-> 0, env |-> 0, par |-> NoTarget]>>
    /\ at = Start

ActivationsSpec == ActivationsInit /\ [][ActivationsNext]_actVars
=============================================================================
