------------------------------- MODULE MCScopes -------------------------------
(* Instance of Scopes: one name, which is an attribute of one class and not   *)
(* of the other.  Names are looked up independently of each other.            *)
EXTENDS Scopes

CONSTANTS x, Plain, Having

MCFields == (Plain :> {}) @@ (Having :> {x})

=============================================================================
