---------------------------- MODULE MCShortprint ----------------------------
(* Small instances of Shortprint: a page of three bytes; two processes with  *)
(* writes of two, which fill it.                                             *)
EXTENDS Shortprint

CONSTANTS x, y, p1, p2

MCWrites == {<<x, y>>}
=============================================================================
