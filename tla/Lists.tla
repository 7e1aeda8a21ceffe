-------------------------------- MODULE Lists --------------------------------
(***************************************************************************)
(* What JavaScript's find, filter and sort make of a list, for the       *)
(* modules whose lists are proved about: each is said in closed form, by   *)
(* counting the elements that come before another.                         *)
(***************************************************************************)
EXTENDS Naturals, Sequences, FiniteSets

(* The elements of the finite set S in the order of their keys, which differ. *)
InOrder(S, key) ==
  [k \in 1..Cardinality(S) |->
     CHOOSE x \in S : Cardinality({y \in S : key[y] <= key[x]}) = k]

Places(s, T) == {i \in DOMAIN s : s[i] \in T}

(* The first place of the sequence s that holds an element of T; 0 if none does. *)
FirstPlace(s, T) ==
  IF Places(s, T) = {} THEN 0
  ELSE CHOOSE i \in Places(s, T) : \A j \in Places(s, T) : i <= j

(* The elements of s that are in T, or not in D, in their order. *)
Only(s, T) ==
  LET places == InOrder(Places(s, T), [i \in DOMAIN s |-> i])
  IN [k \in DOMAIN places |-> s[places[k]]]

Dropping(s, D) == Only(s, {s[i] : i \in DOMAIN s} \ D)
=============================================================================
