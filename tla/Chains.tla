------------------------------- MODULE Chains -------------------------------
(***************************************************************************)
(* Chains of links, such as those of attached objects or of enclosing      *)
(* procedures.  The function up takes each member of its domain to the     *)
(* next one on its chain, or out of the domain at the head of the chain.   *)
(***************************************************************************)

Closed(S, up) == \A y \in S : up[y] \in DOMAIN up => up[y] \in S

\* x and everything further on its chain: the smallest closed set with x.
Chain(x, up) ==
    {y \in DOMAIN up : \A S \in SUBSET DOMAIN up : x \in S /\ Closed(S, up) => y \in S}

Head(x, up) == CHOOSE h \in Chain(x, up) : up[h] \notin DOMAIN up
=============================================================================
