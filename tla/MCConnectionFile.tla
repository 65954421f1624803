-------------------------- MODULE MCConnectionFile --------------------------
(***************************************************************************)
(* Two pids and a small connections.toml for TLC.                          *)
(***************************************************************************)
EXTENDS ConnectionFile, TLC

CONSTANTS p1, p2, a, b, v1, v2

\* Processes, names and values are only compared for equality.
Symmetry == Permutations({p1, p2}) \cup Permutations({a, b}) \cup Permutations({v1, v2})
=============================================================================
