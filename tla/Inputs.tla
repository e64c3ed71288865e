-------------------------------- MODULE Inputs --------------------------------
(***************************************************************************)
(* The input a pure function of the crate is applied to.  A module of such  *)
(* functions says which inputs it is checked on, as records whose field     *)
(* `of` names the function, and states its properties of `input`.           *)
(***************************************************************************)
VARIABLE input

Given(name) == input.of = name
===============================================================================
