-------------------------- MODULE MCObjectPassing --------------------------
(* Owners and symmetry of the objects for the runs of ObjectPassing.       *)
EXTENDS ObjectPassing, TLC

CONSTANTS a, b, a1, a2, b1

MCOwnerOf ==
  [o \in Objects |-> CASE o \in {a1, a2} -> a [] o = b1 -> b [] OTHER -> Manager]

(* The two objects of a are alike.                                         *)
Alike == Permutations({a1, a2})
=============================================================================
