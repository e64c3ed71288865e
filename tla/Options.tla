------------------------------ MODULE Options ------------------------------
(***************************************************************************)
(* Rust's Option<T>, as the modules of the client write it: a value of the  *)
(* type or None.                                                            *)
(***************************************************************************)
EXTENDS Integers

CONSTANT None   \* a model value, different from every value of the models

\* Some(x) is never None, for the Booleans and numbers the models have options of.
ASSUME NoneAssumption == None \notin BOOLEAN /\ None \notin Int

Opt(S) == S \cup {None}

\* Option::or: the first of two that is there.
Or(a, b) == IF a = None THEN b ELSE a
=============================================================================
