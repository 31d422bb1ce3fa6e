---------------------------- MODULE MCScullPipe -----------------------------
(* Small instances of ScullPipe: a buffer of three bytes, shared by three  *)
(* processes that read, write or poll.                                     *)
EXTENDS ScullPipe, TLC

CONSTANTS x, y

Mode(r, w, n) == [read |-> r, write |-> w, nonblock |-> n]

(* A reader and a writer, that wait.                                       *)
MCModes == {Mode(TRUE, FALSE, FALSE), Mode(FALSE, TRUE, FALSE)}

MCWrites == {<<x, y>>}

Symmetry == Permutations(Procs)
=============================================================================
