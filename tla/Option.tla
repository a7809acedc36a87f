------------------------------- MODULE Option -------------------------------
(* Option<T> of the source. *)
EXTENDS Integers

CONSTANT None \* Option::None

Opt(S) == S \cup {None}

\* The entry of a map, if there is one.
Get(f, k) == IF k \in DOMAIN f THEN f[k] ELSE None

\* The first of several Options that is Some.
FirstOf(options) ==
  LET some == {i \in DOMAIN options : options[i] # None}
  IN IF some = {} THEN None ELSE options[CHOOSE i \in some : \A j \in some : i <= j]
=============================================================================
