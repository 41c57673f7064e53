---------------------------- MODULE MCCoroutines ----------------------------
(* Small instances of the coroutine layer. *)
EXTENDS CoroutinePrograms, TLC

Symmetric == Permutations(Coro)
=============================================================================
