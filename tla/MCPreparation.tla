---------------------------- MODULE MCPreparation ----------------------------
(* One task whose manifest names one context file that it may write and one *)
(* file that it may not.                                                     *)
EXTENDS Preparation, TLC

CONSTANTS src, doc, m1, m2

\* The two manifests of the key are interchangeable.
MCSymmetry == Permutations(Manifests)
=============================================================================
