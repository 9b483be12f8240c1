----------------------------- MODULE WebClient -----------------------------
(* What the models of the web client share.  A request is a record that is  *)
(* sent, served in one transaction and answered, or fails, served or not;   *)
(* requests overlap and their answers come in any order (lib/api.ts opens   *)
(* a connection for each).                                                  *)
EXTENDS Naturals, FiniteSets, Functions

CONSTANT Null   \* JavaScript's null

\* Functions on part of D: a JavaScript Map, a table by primary key.
PartialFcns(D, R) == UNION {[S -> R] : S \in SUBSET D}

With(f, x, v) == [y \in DOMAIN f \union {x} |-> IF y = x THEN v ELSE f[y]]

Without(f, x) == Restrict(f, DOMAIN f \ {x})
=============================================================================
