----------------------------- MODULE MCScaffold -----------------------------
(***************************************************************************)
(* An instance of Scaffold for TLC.                                        *)
(***************************************************************************)
EXTENDS Scaffold, TLC

\* Calls and manifests are interchangeable; every property of the run is a
\* safety property.
Symmetry == Permutations(Calls) \cup Permutations(Manifests)
=============================================================================
