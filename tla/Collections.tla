----------------------------- MODULE Collections -----------------------------
(***************************************************************************)
(* Dictionaries and lists, as functions and sequences.  These few are      *)
(* written out, where the library has operators for them, so that the      *)
(* provers can look into them: of :>, @@, SelectSeq and SortSeq they know  *)
(* nothing.                                                                *)
(***************************************************************************)
EXTENDS Naturals, Sequences, FiniteSets

\* d[key] = value.
Put(d, key, value) ==
    [x \in DOMAIN d \cup {key} |-> IF x = key THEN value ELSE d[x]]

\* The elements of s at the places, each after those whose places come before its
\* place; before is a set of pairs, an order of the places.
Arranged(s, places, before) ==
    LET rank(i) == Cardinality({j \in places : <<j, i>> \in before})
    IN  [n \in 1 .. Cardinality(places) |-> s[CHOOSE i \in places : rank(i) = n - 1]]

\* [x for x in s if ...], where the places are those of the x that are taken.
Picked(s, places) ==
    Arranged(s, places, {p \in places \X places : p[1] < p[2]})
=============================================================================
