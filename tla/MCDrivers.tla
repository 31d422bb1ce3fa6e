----------------------------- MODULE MCDrivers -----------------------------
(***************************************************************************)
(* Small instances of Drivers.  Scull has a file of three bytes in quanta  *)
(* of one or two, and so have scullc, sculld, scullp and scullv, with      *)
(* objects of two bytes and pages of one.                                  *)
(***************************************************************************)
EXTENDS Drivers, TLC

CONSTANTS x, y

MCWrites == {<<x>>, <<y, x>>}
MCOffsets == {-1, 0, 1}
MCCopyWrites == {<<y, x>>}

(* NAPI and a close; lost interrupts and a time-out; the handler without   *)
(* NAPI, pools of two and a close.                                         *)
MCSnullParameters ==
  {[use_napi |-> TRUE, lockup |-> FALSE, pool_size |-> 1,
    MaxTimeouts |-> 0, MaxCloses |-> 1],
   [use_napi |-> FALSE, lockup |-> TRUE, pool_size |-> 1,
    MaxTimeouts |-> 1, MaxCloses |-> 0],
   [use_napi |-> FALSE, lockup |-> FALSE, pool_size |-> 2,
    MaxTimeouts |-> 0, MaxCloses |-> 1]}

MCRequests == {<<1>>, <<1, 1>>, <<2, 1>>}
=============================================================================
