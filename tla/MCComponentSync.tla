-------------------------- MODULE MCComponentSync --------------------------
(* Small instances of ComponentSync. Names, versions and archives are only  *)
(* ever compared, so permuting them changes nothing.                        *)
EXTENDS ComponentSync, TLC

Symmetry ==
  Permutations(Names) \cup Permutations(Versions) \cup Permutations(Archives)
=============================================================================
