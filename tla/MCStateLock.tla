---------------------------- MODULE MCStateLock ----------------------------
(* Instances of StateLock for TLC. *)
EXTENDS StateLock, TLC

CONSTANTS o1, o2

\* The whole file, its first three bytes and the second: locks that split
\* others, cut them at either end and reach the end of the file.
MCRanges == {<<0, 0>>, <<0, 3>>, <<1, 1>>}
Symmetry == Permutations(Owners)
============================================================================
