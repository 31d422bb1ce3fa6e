------------------------------ MODULE BytePipe ------------------------------
(***************************************************************************)
(* What a scullpipe device promises to the processes that use it, and      *)
(* shortprint to its writers and the printer: a queue of bytes. A write    *)
(* puts some of its bytes at the end, a read takes some from the front,    *)
(* each at one instant; opening the device discards what is in it. reply   *)
(* is what a process whose call has taken effect will be answered.         *)
(***************************************************************************)
EXTENDS Sequences, Naturals

CONSTANTS
  Procs,      (* the processes that use the device  *)
  Chunks      (* what one call may transfer         *)

VARIABLES queue, reply
vars == <<queue, reply>>

Init == queue = <<>> /\ reply = [p \in Procs |-> <<>>]

Answer(p, r) == reply' = [reply EXCEPT ![p] = r]

Write(p, d) == Answer(p, <<"write", d>>) /\ queue' = queue \o d
Read(p, d) == Answer(p, <<"read", d>>) /\ queue = d \o queue'
Return(p) == reply[p] # <<>> /\ Answer(p, <<>>) /\ UNCHANGED queue
Discard == queue' = <<>> /\ UNCHANGED reply

Next ==
  \/ \E p \in Procs : \/ \E d \in Chunks : Write(p, d) \/ Read(p, d)
                      \/ Return(p)
  \/ Discard

Spec == Init /\ [][Next]_vars
=============================================================================
