----------------------------- MODULE SparseFile -----------------------------
(***************************************************************************)
(* What a scull device promises: a file in memory.  A read delivers what   *)
(* was last written at each position since the file was emptied, a write   *)
(* changes the positions it is about and no other.  A call may transfer    *)
(* fewer bytes than it was asked to, and a write that fails may have       *)
(* stored some of them.  What is read at a position nothing was written to *)
(* is left open, and a read may end there.                                 *)
(***************************************************************************)
EXTENDS Integers, Sequences

CONSTANTS
  Procs,        (* the processes that use the file                         *)
  Positions,    (* the positions it may have                               *)
  Chunks,       (* what one call may transfer                              *)
  Hole          (* a position nothing was written to                       *)

VARIABLES content, size, reply
vars == <<content, size, reply>>

Init ==
  /\ content = [i \in Positions |-> Hole]
  /\ size = 0
  /\ reply = [p \in Procs |-> <<>>]

Answer(p, r) == reply' = [reply EXCEPT ![p] = r]

Put(pos, d) ==
  content' = [i \in Positions |->
                IF i \in pos .. pos + Len(d) - 1 THEN d[i - pos + 1]
                                                 ELSE content[i]]

Write(p, pos, d) ==
  /\ Answer(p, <<"write", d>>)
  /\ Put(pos, d)
  /\ size' = IF size < pos + Len(d) THEN pos + Len(d) ELSE size

FailedWrite(p, pos, d) ==
  Answer(p, <<"error">>) /\ Put(pos, d) /\ UNCHANGED size

Read(p, pos, d) ==
  /\ Answer(p, <<"read", d>>)
  /\ pos + Len(d) <= size
  /\ \A i \in DOMAIN d : content[pos + i - 1] \in {Hole, d[i]}
  /\ UNCHANGED <<content, size>>

ReadEnd(p, pos) ==
  /\ Answer(p, <<"read", <<>>>>)
  /\ pos < size => content[pos] = Hole
  /\ UNCHANGED <<content, size>>

Fail(p) == Answer(p, <<"error">>) /\ UNCHANGED <<content, size>>
Return(p) == Answer(p, <<>>) /\ UNCHANGED <<content, size>>

Truncate ==
  content' = [i \in Positions |-> Hole] /\ size' = 0 /\ UNCHANGED reply

Next ==
  \/ Truncate
  \/ \E p \in Procs :
       \/ Fail(p) \/ Return(p)
       \/ \E pos \in Positions :
            \/ ReadEnd(p, pos)
            \/ \E d \in Chunks :
                 Write(p, pos, d) \/ FailedWrite(p, pos, d) \/ Read(p, pos, d)

Spec == Init /\ [][Next]_vars
=============================================================================
