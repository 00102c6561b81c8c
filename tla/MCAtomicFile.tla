----------------------------- MODULE MCAtomicFile -----------------------------
(* Downloads to one or two destinations, with bodies of two or three chunks. *)
EXTENDS AtomicFile, TLC

\* Only what write_file_atomic notices may fail, or everything may.
SeenOrAll == {FaultKinds \ {"flush", "remove"}, FaultKinds}

Symmetry == Permutations(Downloads) \cup Permutations(Dests)

=============================================================================
