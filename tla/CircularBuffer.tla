--------------------------- MODULE CircularBuffer ---------------------------
(***************************************************************************)
(* The circular buffer of the aesdchar driver, aesd-circular-buffer.c: the *)
(* N most recent write commands, each a heap block and the bytes in it.    *)
(* The C functions work on a struct passed by pointer and do no locking of *)
(* their own, so they are operators here: each maps a buffer to its result *)
(* or to the buffer it leaves.  The size member of an entry is Len(data).  *)
(***************************************************************************)
EXTENDS Integers, Sequences

CONSTANTS
  N,       (* AESDCHAR_MAX_WRITE_OPERATIONS_SUPPORTED, 10 in the code *)
  Bytes,   (* the byte values a command is made of                    *)
  Blocks,  (* the addresses kmalloc can return                        *)
  NULL     (* the null pointer                                        *)

ASSUME NAssumption == N \in Nat \ {0}
ASSUME BlocksAssumption == NULL \notin Blocks

Slots == 0 .. N-1

(* struct aesd_buffer_entry and struct aesd_circular_buffer *)
BufferEntry == [buffptr : Blocks \cup {NULL}, data : Seq(Bytes)]
EmptyEntry == [buffptr |-> NULL, data |-> <<>>]
CircularBuffers ==
  [entry : [Slots -> BufferEntry], in_offs : Slots, out_offs : Slots,
   full : BOOLEAN]

(* Faulty: the index does not wrap. *)
AdvanceUnwrapped(i) == i + 1

(* The successor of an index, (i + 1) % N. *)
Advance(i) == IF i = N-1 THEN 0 ELSE i + 1

(* RunningSum(g)[k] is the sum of the first k values of g: what a variable *)
(* has accumulated after k turns of a loop over the slots.                 *)
RunningSum(g) ==
  LET sum[k \in 0 .. N] == IF k = 0 THEN 0 ELSE sum[k-1] + g[k-1]
  IN  sum

(* aesd_circular_buffer_init: the memset to zero *)
aesd_circular_buffer_init ==
  [entry |-> [i \in Slots |-> EmptyEntry], in_offs |-> 0, out_offs |-> 0,
   full |-> FALSE]

(* Faulty: a full ring overwrites its oldest entry and keeps out_offs, or  *)
(* does not return the pointer it overwrites.                              *)
AddKeepsOut(b, e) ==
  [b EXCEPT !.entry[b.in_offs] = e, !.in_offs = Advance(@),
            !.full = @ \/ Advance(b.in_offs) = b.out_offs]
ReplacedLost(b) == NULL

(***************************************************************************)
(* aesd_circular_buffer_add_entry: the pointer it returns, which the       *)
(* caller has to free, and the buffer it leaves.  full is never reset.     *)
(***************************************************************************)
ReplacedPtr(b) == IF b.full THEN b.entry[b.out_offs].buffptr ELSE NULL

aesd_circular_buffer_add_entry(b, e) ==
  LET in  == Advance(b.in_offs)
      out == IF b.full THEN Advance(b.out_offs) ELSE b.out_offs
  IN  [entry    |-> [b.entry EXCEPT ![b.in_offs] = e],
       in_offs  |-> in,
       out_offs |-> out,
       full     |-> b.full \/ in = out]

(***************************************************************************)
(* aesd_circular_buffer_find_entry_offset_for_fpos: the entry and the      *)
(* offset in it of a stream position.  The loop subtracts the sizes of the *)
(* entries it passes, from out_offs on; SizeBefore(b)[k] is what it has    *)
(* subtracted after k of them.                                             *)
(***************************************************************************)
ValidEntries(b) ==
  IF b.full THEN N ELSE (b.in_offs + N - b.out_offs) % N

SlotAt(b, k) == (b.out_offs + k) % N

SizeBefore(b) == RunningSum([k \in Slots |-> Len(b.entry[SlotAt(b, k)].data)])

Found(b, pos, k) ==
  k < ValidEntries(b) /\ SizeBefore(b)[k] <= pos /\ pos < SizeBefore(b)[k+1]

NotFound == [found |-> FALSE, idx |-> 0, offset |-> 0]

(* Faulty: the search starts at slot 0. *)
FindFromSlot0(b, pos) ==
  IF \E k \in Slots : Found(b, pos, k)
    THEN LET k == CHOOSE k \in Slots : Found(b, pos, k)
         IN  [found |-> TRUE, idx |-> k, offset |-> pos - SizeBefore(b)[k]]
    ELSE NotFound

aesd_circular_buffer_find_entry_offset_for_fpos(b, pos) ==
  IF \E k \in Slots : Found(b, pos, k)
    THEN LET k == CHOOSE k \in Slots : Found(b, pos, k)
         IN  [found |-> TRUE, idx |-> SlotAt(b, k),
              offset |-> pos - SizeBefore(b)[k]]
    ELSE NotFound

(***************************************************************************)
(* What the ring stands for: its commands, oldest first.                   *)
(***************************************************************************)
Commands(b) == [k \in 1 .. ValidEntries(b) |-> b.entry[SlotAt(b, k-1)].data]

(***************************************************************************)
(* The slots that hold a command are those before in_offs, from out_offs   *)
(* = 0 on, until the ring is full, and all of them from then on.           *)
(***************************************************************************)
HoldsCommand(b, i) == b.full \/ i < b.in_offs

WellFormed(b) ==
  /\ IF b.full THEN b.in_offs = b.out_offs ELSE b.out_offs = 0
  /\ \A i \in Slots :
       IF HoldsCommand(b, i) THEN b.entry[i].buffptr # NULL
                             ELSE b.entry[i] = EmptyEntry
=============================================================================
