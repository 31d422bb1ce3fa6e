----------------------------- MODULE MCAesdChar -----------------------------
(* Small instances of AesdChar: two processes that share one file, a ring  *)
(* of two commands of at most three bytes.                                 *)
EXTENDS AesdChar, TLC

CONSTANTS nl, a

MCBytes == {nl, a}

Write1(d) == [op |-> "write", data |-> d]
SeekTo(c, o) == [op |-> "seekto", write_cmd |-> c, write_cmd_offset |-> o]
Llseek(o, w) == [op |-> "llseek", offset |-> o, whence |-> w]

(* Writes that complete a command and that do not, reads across commands,  *)
(* seeks that are in range or not according to what has been written.      *)
MCRequests ==
  {Write1(<<a>>), Write1(<<nl>>), [op |-> "read", count |-> 3],
   SeekTo(0, 1), SeekTo(1, 0), Llseek(1, "SEEK_CUR"), Llseek(-1, "SEEK_END")}

(* Positions: every whence; commands and offsets in range, at the edge and *)
(* beyond it.                                                              *)
MCSeekRequests ==
  {Write1(<<a>>), Write1(<<a, nl>>), [op |-> "read", count |-> 1],
   [op |-> "ioctl"]}
    \cup {SeekTo(c, o) : c \in 0 .. 2, o \in 0 .. 2}
    \cup {Llseek(0, "SEEK_END"), Llseek(-1, "SEEK_CUR"), Llseek(9, "SEEK_SET"),
          Llseek(0, "other")}

Symmetry == Permutations(Blocks) \cup Permutations(Procs)
=============================================================================
