---------------------------- MODULE GotoPrograms ----------------------------
(***************************************************************************)
(* Programs whose GOTOs out of procedures the compiler gets right.         *)
(*                                                                         *)
(* There is one global per label name, for all activations of all bodies   *)
(* that have a label of that name.  So direct jumps go to labels whose     *)
(* name is unique in the program and whose procedure does not recurse.     *)
(* Other procedures recurse freely, and labels of any procedure are passed *)
(* as parameters.                                                          *)
(*                                                                         *)
(* A block of the program that has labels with dispatch entries passes     *)
(* these and no labels from around it: the record would pair the buffer of *)
(* the block with a number of the body that the label belongs to.          *)
(***************************************************************************)
EXTENDS NonLocalGoto

VARIABLE recursive \* the procedures the program calls recursively

Unique(l) == \A f, g \in Body : l \in labels[f] \cap labels[g] => f = g

MayReenter(p) == p \in recursive \/ \A i \in 1 .. Top : stack[i].body # p

Plain(l) == Unique(l) /\ \A f \in recursive : l \notin labels[f]

\* The labels whose records have the buffer of the body they belong to.
Passable == {l \in Known : l \in labels[stack[CurrentBuffer].body]}

PlainActuals == {NoRecord, stack[Top].rec} \cup {RecordOf(l) : l \in Passable}

PlainNext ==
    \/ \E p \in Inner : MayReenter(p) /\ \E rec \in PlainActuals : Call(p, rec)
    \/ \E b \in Inner : Enter(b)
    \/ Return
    \/ \E l \in Label : GotoLocal(l) \/ (Visible(Now, l) /\ Plain(l) /\ GotoOuter(l))
    \/ GotoParameter

PlainInit == Init /\ recursive \in SUBSET (Inner \ blocks)

PlainSpec == PlainInit /\ [][PlainNext /\ UNCHANGED recursive]_<<vars, recursive>>
=============================================================================
