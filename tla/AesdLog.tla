------------------------------ MODULE AesdLog -------------------------------
(***************************************************************************)
(* What the aesdchar device promises to the processes that use it: a log   *)
(* of the N most recent complete commands, a command being what was        *)
(* written up to and including the write that holds a newline, and an      *)
(* unfinished command that no read sees.  Every call takes effect at one   *)
(* instant between its start and its return; reply is what a process whose *)
(* call has taken effect will be answered.                                 *)
(***************************************************************************)
EXTENDS Integers, Sequences, SequencesExt

CONSTANTS
  N,          (* the number of commands the log keeps         *)
  Newline,    (* the byte that ends a command                 *)
  Procs,      (* the processes that use the device            *)
  Payloads,   (* the byte sequences a process may write       *)
  Counts,     (* the numbers of bytes a read may ask for      *)
  Positions   (* the file positions a call may start or end at *)

VARIABLES log, pending, reply
vars == <<log, pending, reply>>

Init == log = <<>> /\ pending = <<>> /\ reply = [p \in Procs |-> <<>>]

(* The stream a reader sees: the commands of the log, end to end. *)
Stream == FlattenSeq(log)

Answer(p, r) == reply' = [reply EXCEPT ![p] = r]

Complete(d) == \E i \in DOMAIN d : d[i] = Newline

LastN(s) == IF Len(s) > N THEN SubSeq(s, Len(s) - N + 1, Len(s)) ELSE s

(* A write appends all of its bytes, once. *)
Write(p, d) ==
  /\ IF Complete(d)
       THEN log' = LastN(Append(log, pending \o d)) /\ pending' = <<>>
       ELSE log' = log /\ pending' = pending \o d
  /\ Answer(p, <<"write", Len(d)>>)

(* A read delivers the bytes from its position on: as many as were asked   *)
(* for, or all there are.                                                  *)
Read(p, pos, count) ==
  LET end == IF pos + count < Len(Stream) THEN pos + count ELSE Len(Stream)
  IN  /\ Answer(p, <<"read", pos, SubSeq(Stream, pos + 1, end)>>)
      /\ UNCHANGED <<log, pending>>

(* A call that fails changes nothing. *)
Fail(p) == Answer(p, <<"error">>) /\ UNCHANGED <<log, pending>>

(* llseek: the new position is inside the stream or at its end. *)
Llseek(p, newpos) ==
  /\ newpos <= Len(Stream)
  /\ Answer(p, <<"llseek", newpos>>)
  /\ UNCHANGED <<log, pending>>

(* The seek ioctl changes only a position; which one is stated on the      *)
(* driver's model, where the arguments of the call are.                    *)
SeekTo(p, newpos) ==
  Answer(p, <<"seekto", newpos>>) /\ UNCHANGED <<log, pending>>

Return(p) == Answer(p, <<>>) /\ UNCHANGED <<log, pending>>

(* Loading the module anew starts an empty log. *)
Reset == log' = <<>> /\ pending' = <<>> /\ UNCHANGED reply

Next ==
  \/ \E p \in Procs :
       \/ \E d \in Payloads : Write(p, d)
       \/ \E pos \in Positions, count \in Counts : Read(p, pos, count)
       \/ Fail(p) \/ Return(p)
       \/ \E newpos \in Positions : Llseek(p, newpos) \/ SeekTo(p, newpos)
  \/ Reset

Spec == Init /\ [][Next]_vars
=============================================================================
