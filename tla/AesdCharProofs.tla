--------------------------- MODULE AesdCharProofs ---------------------------
(***************************************************************************)
(* Proofs about the aesdchar driver for every number of slots, processes,  *)
(* files and requests: types, the shape of the ring, mutual exclusion, the *)
(* ownership of memory; that the driver implements the log of commands,    *)
(* and that its seek ioctl lands where it should.                          *)
(***************************************************************************)
EXTENDS AesdChar, StreamLemmas

-----------------------------------------------------------------------------
(***************************************************************************)
(* The recursive definition of RunningSum has a solution, whose values are *)
(* numbers: by induction on the length of the part that is defined.        *)
(***************************************************************************)
IsSum(f, g, k) ==
  /\ f \in [0 .. k -> Nat]
  /\ f = [i \in 0 .. k |-> IF i = 0 THEN 0 ELSE f[i-1] + g[i-1]]

(* The recursive definition of RunningSum has a solution. *)
LEMMA SumExists ==
  ASSUME NEW g \in [Slots -> Nat]
  PROVE  \A k \in 0 .. N : \E f : IsSum(f, g, k)
<1> DEFINE T == {k \in 0 .. N : \E f : IsSum(f, g, k)}
<1>1. 0 \in T
  <2>1. IsSum([i \in 0 .. 0 |-> 0], g, 0)
    BY DEF IsSum
  <2> QED BY <2>1, NAssumption
<1>2. ASSUME NEW k \in 0 .. N, k # N, k \in T PROVE k + 1 \in T
  <2>1. PICK f : IsSum(f, g, k)
    BY <1>2
  <2> DEFINE h == [i \in 0 .. k+1 |-> IF i = k+1 THEN f[k] + g[k] ELSE f[i]]
  <2>2. k \in Nat /\ k \in Slots /\ k + 1 \in 0 .. N
    BY <1>2, NAssumption DEF Slots
  <2>3. h \in [0 .. k+1 -> Nat]
    BY <2>1, <2>2 DEF IsSum
  <2>4. ASSUME NEW i \in 0 .. k+1
        PROVE h[i] = IF i = 0 THEN 0 ELSE h[i-1] + g[i-1]
    <3>1. CASE i = k + 1
      BY <3>1, <2>2
    <3>2. CASE i # k + 1
      <4>1. i \in 0 .. k /\ h[i] = f[i] /\ (i # 0 => h[i-1] = f[i-1])
        BY <3>2, <2>2
      <4>2. f[i] = IF i = 0 THEN 0 ELSE f[i-1] + g[i-1]
        BY <2>1, <4>1 DEF IsSum
      <4> QED BY <4>1, <4>2
    <3> QED BY <3>1, <3>2
  <2>5. IsSum(h, g, k+1)
    BY <2>3, <2>4 DEF IsSum
  <2> QED BY <2>2, <2>5
<1> HIDE DEF T
<1>3. \A k \in 0 .. N : k \in T
  BY <1>1, <1>2, IntervalInduction, NAssumption
<1> QED BY <1>3 DEF T

(* RunningSum satisfies its definition. *)
LEMMA RunningSumDef ==
  ASSUME NEW g \in [Slots -> Nat]
  PROVE  RunningSum(g)
           = [k \in 0 .. N |-> IF k = 0 THEN 0
                               ELSE RunningSum(g)[k-1] + g[k-1]]
<1>1. PICK f : IsSum(f, g, N)
  BY SumExists, NAssumption
<1>2. f = [k \in 0 .. N |-> IF k = 0 THEN 0 ELSE f[k-1] + g[k-1]]
  BY <1>1 DEF IsSum
<1> QED BY <1>2 DEF RunningSum

(* A running sum of sizes is a number. *)
LEMMA RunningSumType ==
  ASSUME NEW g \in [Slots -> Nat]
  PROVE  RunningSum(g) \in [0 .. N -> Nat]
<1> DEFINE s == RunningSum(g)
           T == {k \in 0 .. N : s[k] \in Nat}
<1>1. /\ s[0] = 0
      /\ \A k \in 0 .. N : k # 0 => s[k] = s[k-1] + g[k-1]
      /\ DOMAIN s = 0 .. N
  BY RunningSumDef, NAssumption
<1>2. 0 \in T
  BY <1>1, NAssumption
<1>3. ASSUME NEW k \in 0 .. N, k # N, k \in T PROVE k + 1 \in T
  <2>1. k + 1 \in 0 .. N /\ k + 1 # 0 /\ k \in Slots /\ (k + 1) - 1 = k
    BY <1>3, NAssumption DEF Slots
  <2>2. s[k+1] = s[k] + g[k]
    BY <1>1, <2>1
  <2> QED BY <1>3, <2>1, <2>2
<1>4. \A k \in 0 .. N : k \in T
  <2> HIDE DEF T
  <2> QED BY <1>2, <1>3, IntervalInduction, NAssumption
<1>5. s = [k \in 0 .. N |-> s[k]]
  BY RunningSumDef
<1> QED BY <1>4, <1>5

-----------------------------------------------------------------------------
(* The ring. *)

(* The next slot is a slot. *)
LEMMA AdvanceInSlots ==
  ASSUME NEW i \in Slots PROVE Advance(i) \in Slots
BY NAssumption DEF Slots, Advance

(* An empty ring is well formed. *)
LEMMA InitWellFormed ==
  /\ aesd_circular_buffer_init \in CircularBuffers
  /\ WellFormed(aesd_circular_buffer_init)
  /\ \A i \in Slots : aesd_circular_buffer_init.entry[i] = EmptyEntry
BY NAssumption DEF aesd_circular_buffer_init, CircularBuffers, WellFormed,
   BufferEntry, EmptyEntry, Slots, HoldsCommand

(* Adding an entry keeps the ring's type. *)
LEMMA AddEntryType ==
  ASSUME NEW b \in CircularBuffers, NEW e \in BufferEntry
  PROVE  aesd_circular_buffer_add_entry(b, e) \in CircularBuffers
BY AdvanceInSlots DEF aesd_circular_buffer_add_entry, CircularBuffers

(* Adding an entry keeps slots, indices and full flag in agreement. *)
LEMMA AddEntryWellFormed ==
  ASSUME NEW b \in CircularBuffers, WellFormed(b),
         NEW e \in BufferEntry, e.buffptr # NULL
  PROVE  WellFormed(aesd_circular_buffer_add_entry(b, e))
<1> DEFINE r == aesd_circular_buffer_add_entry(b, e)
<1>1. /\ r.entry = [b.entry EXCEPT ![b.in_offs] = e]
      /\ r.in_offs = Advance(b.in_offs)
      /\ r.out_offs = IF b.full THEN Advance(b.out_offs) ELSE b.out_offs
      /\ r.full <=> b.full \/ r.in_offs = r.out_offs
  BY DEF aesd_circular_buffer_add_entry
<1>2. b.in_offs \in Slots /\ b.out_offs \in Slots /\ b.full \in BOOLEAN
      /\ b.entry \in [Slots -> BufferEntry]
  BY DEF CircularBuffers
<1>3. IF r.full THEN r.in_offs = r.out_offs ELSE r.out_offs = 0
  BY <1>1, <1>2 DEF WellFormed
<1>4. ASSUME NEW i \in Slots
      PROVE IF HoldsCommand(r, i) THEN r.entry[i].buffptr # NULL
                                  ELSE r.entry[i] = EmptyEntry
  <2>1. CASE i = b.in_offs
    <3>1. r.entry[i] = e
      BY <1>1, <1>2, <2>1
    <3>2. HoldsCommand(r, i)
      BY <1>1, <1>2, <2>1, NAssumption
      DEF HoldsCommand, WellFormed, Advance, Slots
    <3> QED BY <3>1, <3>2
  <2>2. CASE i # b.in_offs
    <3>1. r.entry[i] = b.entry[i]
      BY <1>1, <1>2, <2>2
    <3>2. HoldsCommand(r, i) <=> HoldsCommand(b, i)
      BY <1>1, <1>2, <2>2, NAssumption
      DEF HoldsCommand, WellFormed, Advance, Slots
    <3> QED BY <3>1, <3>2 DEF WellFormed
  <2> QED BY <2>1, <2>2
<1> QED BY <1>3, <1>4 DEF WellFormed

(* The k-th slot from out_offs is a slot. *)
LEMMA SlotAtType ==
  ASSUME NEW b \in CircularBuffers, NEW k \in Nat PROVE SlotAt(b, k) \in Slots
<1>1. b.out_offs + k \in Int /\ N \in Nat /\ N > 0
  BY NAssumption DEF CircularBuffers, Slots
<1> QED BY <1>1 DEF SlotAt, Slots

(* The size of the first entries is a number. *)
LEMMA SizeBeforeType ==
  ASSUME NEW b \in CircularBuffers
  PROVE  /\ SizeBefore(b) \in [0 .. N -> Nat]
         /\ \A k \in Slots :
              SizeBefore(b)[k+1] =
                SizeBefore(b)[k] + Len(b.entry[SlotAt(b, k)].data)
<1> DEFINE g == [k \in Slots |-> Len(b.entry[SlotAt(b, k)].data)]
<1>1. g \in [Slots -> Nat]
  BY SlotAtType DEF CircularBuffers, BufferEntry, Slots
<1>2. SizeBefore(b) = RunningSum(g)
  BY DEF SizeBefore
<1>3. SizeBefore(b) \in [0 .. N -> Nat]
  BY <1>1, <1>2, RunningSumType
<1>4. ASSUME NEW k \in Slots
      PROVE SizeBefore(b)[k+1] = SizeBefore(b)[k] + g[k]
  <2>1. k + 1 \in 0 .. N /\ k + 1 # 0 /\ (k + 1) - 1 = k
    BY NAssumption DEF Slots
  <2>2. RunningSum(g)[k+1] = RunningSum(g)[(k+1)-1] + g[(k+1)-1]
    <3> HIDE DEF g
    <3> QED BY <1>1, <2>1, RunningSumDef
  <2> QED BY <1>2, <2>1, <2>2
<1> QED BY <1>3, <1>4

(* Before the first entry there is nothing. *)
LEMMA SizeBeforeZero ==
  ASSUME NEW b \in CircularBuffers
  PROVE  SizeBefore(b)[0] = 0
<1> DEFINE g == [k \in Slots |-> Len(b.entry[SlotAt(b, k)].data)]
<1>1. g \in [Slots -> Nat]
  BY SlotAtType DEF CircularBuffers, BufferEntry, Slots
<1> HIDE DEF g
<1>2. RunningSum(g)[0] = 0
  BY <1>1, RunningSumDef, NAssumption
<1> QED BY <1>2 DEF SizeBefore, g

(***************************************************************************)
(* What find_entry_offset_for_fpos returns is an offset inside the entry   *)
(* it returns: aesd_read copies at least one byte in each turn, and none   *)
(* beyond the end of the entry.                                            *)
(***************************************************************************)
LEMMA FindInEntry ==
  ASSUME NEW b \in CircularBuffers, NEW pos \in Nat,
         NEW e, e = aesd_circular_buffer_find_entry_offset_for_fpos(b, pos),
         e.found
  PROVE  /\ e.idx \in Slots
         /\ e.offset \in Nat
         /\ e.offset < Len(b.entry[e.idx].data)
<1>1. CASE \E k \in Slots : Found(b, pos, k)
  <2> DEFINE k == CHOOSE k \in Slots : Found(b, pos, k)
  <2>1. k \in Slots /\ Found(b, pos, k)
    BY <1>1
  <2>2. e = [found |-> TRUE, idx |-> SlotAt(b, k),
             offset |-> pos - SizeBefore(b)[k]]
    BY <1>1 DEF aesd_circular_buffer_find_entry_offset_for_fpos
  <2> HIDE DEF k
  <2>3. e.idx = SlotAt(b, k) /\ e.offset = pos - SizeBefore(b)[k]
    BY <2>2
  <2>4. k \in Nat /\ k \in 0 .. N
    BY <2>1, NAssumption DEF Slots
  <2>5. e.idx \in Slots
    BY <2>3, <2>4, SlotAtType
  <2>6. SizeBefore(b)[k] \in Nat
    BY <2>4, SizeBeforeType
  <2>7. Len(b.entry[e.idx].data) \in Nat
    BY <2>5 DEF CircularBuffers, BufferEntry
  <2>8. SizeBefore(b)[k] <= pos /\ pos < SizeBefore(b)[k] + Len(b.entry[e.idx].data)
    BY <2>1, <2>3, SizeBeforeType DEF Found
  <2> QED BY <2>3, <2>5, <2>6, <2>7, <2>8
<1>2. CASE ~ \E k \in Slots : Found(b, pos, k)
  BY <1>2 DEF aesd_circular_buffer_find_entry_offset_for_fpos, NotFound
<1> QED BY <1>1, <1>2

(* The size of everything recorded is a number. *)
LEMMA TotalSizeType ==
  ASSUME buffer \in CircularBuffers PROVE TotalSize \in Nat
<1> DEFINE g == [i \in Slots |-> IF buffer.entry[i].buffptr # NULL
                                   THEN Len(buffer.entry[i].data) ELSE 0]
<1>1. g \in [Slots -> Nat]
  BY DEF CircularBuffers, BufferEntry
<1>2. N \in 0 .. N
  BY NAssumption
<1> HIDE DEF g
<1>3. RunningSum(g)[N] \in Nat
  BY <1>1, <1>2, RunningSumType
<1> QED BY <1>3 DEF TotalSize, g

-----------------------------------------------------------------------------
(***************************************************************************)
(* Types.                                                                  *)
(***************************************************************************)

(* The end of a handler keeps the types when its answer has one. *)
LEMMA UnlockType ==
  ASSUME TypeOK, NEW p \in Procs, call[p] \in Active,
         NEW r \in Answers, NEW pos \in Nat, Unlock(p, r, pos)
  PROVE  /\ lock' \in Procs \cup {NoProc}
         /\ call' \in [Procs -> {Idle} \cup Active]
         /\ reply' \in [Procs -> Answers]
<1> DEFINE c == [pc |-> "return", file |-> call[p].file, req |-> call[p].req,
                 pos |-> pos, done |-> <<>>, kbuf |-> NULL]
<1>1. c \in Active
  BY DEF Active
<1>2. call' = [call EXCEPT ![p] = c]
  BY DEF Unlock
<1> HIDE DEF c
<1>3. call' \in [Procs -> {Idle} \cup Active]
  BY <1>1, <1>2 DEF TypeOK
<1> QED BY <1>3 DEF Unlock, TypeOK

(* A process in a call has a request and an open file. *)
LEMMA ActiveCall ==
  ASSUME TypeOK, NEW p \in Procs, call[p].pc # "idle"
  PROVE  call[p] \in Active
BY DEF TypeOK, Idle

(* A call that is at a place of a handler has the handler's request. *)
LEMMA HandlerCall ==
  ASSUME TypeOK, NEW p \in Procs, NEW op, NEW pc, pc # "idle",
         InHandler(p, op, pc)
  PROVE  /\ call[p] \in Active
         /\ call[p].pos \in Nat /\ call[p].req \in Requests
         /\ call[p].req.op = op /\ call[p].file \in Files
         /\ call[p].done \in Seq(Bytes)
BY ActiveCall DEF InHandler, Active

(* The arguments of a request. *)
LEMMA RequestTypes ==
  ASSUME NEW r \in Requests
  PROVE  /\ r.op = "read" => r.count \in Nat
         /\ r.op = "write" => r.data \in Seq(Bytes)
         /\ r.op = "llseek" => r.offset \in Int
         /\ r.op = "seekto" => r.write_cmd \in Nat /\ r.write_cmd_offset \in Nat
BY RequestsAssumption DEF ReadRequests, WriteRequests, LlseekRequests,
   SeekToRequests, OtherIoctls

(* What a turn of the read loop copies is at most what is left. *)
LEMMA CopySize ==
  ASSUME NEW count \in Nat, NEW done \in Nat, done < count,
         NEW size \in Nat, NEW offset \in Nat, offset < size
  PROVE  /\ Smaller(count - done, size - offset) \in Nat
         /\ offset + Smaller(count - done, size - offset) <= size
BY DEF Smaller

(* An error is an answer. *)
LEMMA ErrorAnswer == <<"error">> \in Answers
BY DEF Answers

(* Each step keeps the types. *)
LEMMA TypeStep == TypeOK /\ [Next]_vars => TypeOK'
<1> SUFFICES ASSUME TypeOK, [Next]_vars PROVE TypeOK'
  OBVIOUS
<1>1. CASE Module
  <2>1. CASE AddDevice
    BY <2>1, InitWellFormed DEF AddDevice, TypeOK, EmptyEntry, BufferEntry
  <2>2. CASE InitMutex
    BY <2>2 DEF InitMutex, TypeOK
  <2>3. CASE InitBuffer
    BY <2>3, InitWellFormed DEF InitBuffer, TypeOK
  <2>4. CASE aesd_cleanup_module
    BY <2>4 DEF aesd_cleanup_module, TypeOK
  <2> QED BY <1>1, <2>1, <2>2, <2>3, <2>4 DEF Module
<1>2. ASSUME NEW f \in Files, Open(f) \/ Close(f) PROVE TypeOK'
  <2>1. PICK v \in [open : BOOLEAN, pos : Nat] : file' = [file EXCEPT ![f] = v]
    BY <1>2 DEF Open, OpenFile, Close, Closed
  <2>2. UNCHANGED <<dev, lock, call, reply>>
    BY <1>2 DEF Open, OpenFile, Close
  <2> QED BY <2>1, <2>2 DEF dev, TypeOK
<1>3. ASSUME NEW p \in Procs, NEW f \in Files, NEW r \in Requests,
             Syscall(p, f, r)
      PROVE TypeOK'
  <2>1. [pc |-> "start", file |-> f, req |-> r, pos |-> file[f].pos,
         done |-> <<>>, kbuf |-> NULL] \in Active
    BY DEF TypeOK, Active
  <2> QED BY <1>3, <2>1 DEF Syscall, dev, TypeOK
<1>4. ASSUME NEW p \in Procs, IoctlRefused(p) PROVE TypeOK'
  <2>1. [call[p] EXCEPT !.pc = "return"] \in Active
    BY <1>4, ActiveCall DEF IoctlRefused, Active
  <2> QED BY <1>4, <2>1, ErrorAnswer DEF IoctlRefused, dev, TypeOK
<1>5. ASSUME NEW p \in Procs, Lock(p) PROVE TypeOK'
  <2>1. [call[p] EXCEPT !.pc = "locked"] \in Active
    BY <1>5, ActiveCall DEF Lock, Active
  <2> QED BY <1>5, <2>1 DEF Lock, dev, TypeOK
<1>6. ASSUME NEW p \in Procs, Return(p) PROVE TypeOK'
  <2>1. call[p].file \in Files /\ call[p].pos \in Nat
    BY <1>6, ActiveCall DEF Return, Active
  <2>2. <<>> \in Answers
    BY DEF Answers
  <2> QED BY <1>6, <2>1, <2>2 DEF Return, dev, TypeOK
<1>7. ASSUME NEW p \in Procs, aesd_read_copy(p) PROVE TypeOK'
  <2> DEFINE c == call[p]
             e == aesd_circular_buffer_find_entry_offset_for_fpos(buffer, c.pos)
             data == buffer.entry[e.idx].data
             n == Smaller(c.req.count - Len(c.done), Len(data) - e.offset)
             copied == SubSeq(data, e.offset + 1, e.offset + n)
  <2>1. /\ c \in Active /\ c.pos \in Nat /\ c.done \in Seq(Bytes)
        /\ c.req.count \in Nat
    BY <1>7, HandlerCall, RequestTypes DEF aesd_read_copy
  <2>2. buffer \in CircularBuffers
    BY DEF TypeOK
  <2>3. e.found /\ Len(c.done) < c.req.count
    BY <1>7 DEF aesd_read_copy
  <2>4. e.idx \in Slots /\ e.offset \in Nat /\ e.offset < Len(data)
    BY <2>1, <2>2, <2>3, FindInEntry
  <2>5. data \in Seq(Bytes)
    BY <2>2, <2>4 DEF CircularBuffers, BufferEntry
  <2> HIDE DEF e, data
  <2>6. n \in Nat /\ e.offset + n <= Len(data)
    <3>1. Len(c.done) \in Nat /\ Len(data) \in Nat
      BY <2>1, <2>5
    <3> QED BY <2>1, <2>3, <2>4, <3>1, CopySize
  <2>7. call' = [call EXCEPT ![p].done = @ \o copied, ![p].pos = @ + n]
    BY <1>7 DEF aesd_read_copy, e, data
  <2> HIDE DEF n
  <2>8. \A i \in e.offset + 1 .. e.offset + n : data[i] \in Bytes
    BY <2>4, <2>5, <2>6
  <2>9. copied \in Seq(Bytes)
    BY <2>4, <2>6, <2>8, SubSeqProperties
  <2>10. c.done \o copied \in Seq(Bytes) /\ c.pos + n \in Nat
    BY <2>1, <2>6, <2>9
  <2> HIDE DEF copied
  <2>11. [c EXCEPT !.done = c.done \o copied, !.pos = c.pos + n] \in Active
    BY <2>1, <2>10 DEF Active
  <2>12. call' = [call EXCEPT ![p] = [c EXCEPT !.done = c.done \o copied,
                                               !.pos = c.pos + n]]
    BY <2>7
  <2> HIDE DEF c
  <2>13. call' \in [Procs -> {Idle} \cup Active]
    BY <2>11, <2>12 DEF TypeOK
  <2> QED BY <1>7, <2>13 DEF aesd_read_copy, dev, TypeOK
<1>8. ASSUME NEW p \in Procs, aesd_read_fault(p) PROVE TypeOK'
  BY <1>8, HandlerCall, UnlockType, ErrorAnswer
  DEF aesd_read_fault, dev, TypeOK
<1>9. ASSUME NEW p \in Procs, aesd_read_done(p) PROVE TypeOK'
  <2>1. call[p] \in Active /\ call[p].pos \in Nat /\ call[p].done \in Seq(Bytes)
    BY <1>9, HandlerCall DEF aesd_read_done
  <2>2. <<"read", call[p].pos - Len(call[p].done), call[p].done>> \in Answers
    BY <2>1 DEF Answers
  <2> QED BY <1>9, <2>1, <2>2, UnlockType DEF aesd_read_done, dev, TypeOK
<1>10. ASSUME NEW p \in Procs, aesd_write_copy(p) PROVE TypeOK'
  <2>1. PICK kbuf \in Blocks \ heap :
          /\ heap' = heap \cup {kbuf}
          /\ call' = [call EXCEPT ![p].pc = "append", ![p].kbuf = kbuf]
    BY <1>10 DEF aesd_write_copy
  <2> DEFINE c == [call[p] EXCEPT !.pc = "append", !.kbuf = kbuf]
  <2>2. c \in Active
    <3>1. call[p] \in Active
      BY <1>10, HandlerCall DEF aesd_write_copy
    <3> QED BY <3>1 DEF Active
  <2>3. call' = [call EXCEPT ![p] = c]
    BY <2>1
  <2>4. heap' \subseteq Blocks
    BY <2>1 DEF TypeOK
  <2> HIDE DEF c
  <2>5. call' \in [Procs -> {Idle} \cup Active]
    BY <2>2, <2>3 DEF TypeOK
  <2> QED BY <1>10, <2>4, <2>5 DEF aesd_write_copy, TypeOK
<1>11. ASSUME NEW p \in Procs, aesd_write_refused(p) PROVE TypeOK'
  BY <1>11, HandlerCall, UnlockType, ErrorAnswer
  DEF aesd_write_refused, dev, TypeOK
<1>12. ASSUME NEW p \in Procs, aesd_write_append(p) PROVE TypeOK'
  <2> DEFINE c == call[p]
             d == c.req.data
  <2>1. c \in Active /\ c.pos \in Nat /\ d \in Seq(Bytes)
    BY <1>12, HandlerCall, RequestTypes DEF aesd_write_append
  <2>2. PICK newbuf \in Blocks \ heap :
          LET e == [buffptr |-> newbuf, data |-> partial.data \o d]
              kept == (heap \cup {newbuf}) \ {partial.buffptr, c.kbuf}
          IN  IF Complete(d)
                THEN /\ buffer' = aesd_circular_buffer_add_entry(buffer, e)
                     /\ heap' = kept \ {ReplacedPtr(buffer)}
                     /\ partial' = EmptyEntry
                ELSE /\ partial' = e
                     /\ heap' = kept
                     /\ UNCHANGED buffer
    BY <1>12 DEF aesd_write_append
  <2> DEFINE e == [buffptr |-> newbuf, data |-> partial.data \o d]
  <2>3. e \in BufferEntry /\ EmptyEntry \in BufferEntry
    BY <2>1 DEF TypeOK, BufferEntry, EmptyEntry
  <2>4. /\ buffer' \in CircularBuffers
        /\ partial' \in BufferEntry
        /\ heap' \subseteq Blocks
    <3>1. /\ heap \cup {newbuf} \subseteq Blocks
          /\ heap' \subseteq heap \cup {newbuf}
      BY <2>2 DEF TypeOK
    <3>2. aesd_circular_buffer_add_entry(buffer, e) \in CircularBuffers
      BY <2>3, AddEntryType DEF TypeOK
    <3>3. /\ buffer' = aesd_circular_buffer_add_entry(buffer, e)
             \/ buffer' = buffer
          /\ partial' = EmptyEntry \/ partial' = e
      BY <2>2
    <3> QED BY <2>3, <3>1, <3>2, <3>3 DEF TypeOK
  <2>5. <<"write", Len(d)>> \in Answers /\ c.pos + Len(d) \in Nat
    BY <2>1 DEF Answers
  <2>6. Unlock(p, <<"write", Len(d)>>, c.pos + Len(d))
    BY <1>12 DEF aesd_write_append
  <2>7. /\ lock' \in Procs \cup {NoProc}
        /\ call' \in [Procs -> {Idle} \cup Active]
        /\ reply' \in [Procs -> Answers]
    BY <2>1, <2>5, <2>6, UnlockType
  <2> QED BY <1>12, <2>4, <2>7 DEF aesd_write_append, TypeOK
<1>13. ASSUME NEW p \in Procs, aesd_write_nomem(p) PROVE TypeOK'
  <2>1. /\ call[p] \in Active /\ call[p].pos \in Nat
        /\ Unlock(p, <<"error">>, call[p].pos)
    BY <1>13, HandlerCall DEF aesd_write_nomem
  <2>2. /\ lock' \in Procs \cup {NoProc}
        /\ call' \in [Procs -> {Idle} \cup Active]
        /\ reply' \in [Procs -> Answers]
    BY <2>1, UnlockType, ErrorAnswer
  <2> QED BY <1>13, <2>2 DEF aesd_write_nomem, TypeOK
<1>14. ASSUME NEW p \in Procs, aesd_llseek(p) PROVE TypeOK'
  <2> DEFINE newpos == Smaller(SeekTarget(p), TotalSize)
  <2>1. /\ call[p] \in Active /\ call[p].pos \in Nat /\ call[p].file \in Files
        /\ call[p].req \in LlseekRequests
    BY <1>14, HandlerCall, RequestsAssumption
    DEF aesd_llseek, ReadRequests, WriteRequests, SeekToRequests, OtherIoctls
  <2>2. TotalSize \in Nat
    BY TotalSizeType DEF TypeOK
  <2>3. SeekTarget(p) \in Int
    BY <2>1, <2>2 DEF SeekTarget, LlseekRequests, TypeOK
  <2>4. newpos \in Int
    BY <2>2, <2>3 DEF Smaller
  <2> HIDE DEF newpos
  <2>5. CASE newpos < 0
    <3>1. Unlock(p, <<"error">>, call[p].pos) /\ UNCHANGED <<file, dev>>
      BY <1>14, <2>5 DEF aesd_llseek, newpos
    <3> QED BY <2>1, <3>1, UnlockType, ErrorAnswer DEF dev, TypeOK
  <2>6. CASE ~ (newpos < 0)
    <3>1. /\ Unlock(p, <<"llseek", newpos>>, call[p].pos)
          /\ file' = [file EXCEPT ![call[p].file].pos = newpos]
          /\ UNCHANGED dev
      BY <1>14, <2>6 DEF aesd_llseek, newpos
    <3>2. newpos \in Nat
      BY <2>4, <2>6
    <3>3. <<"llseek", newpos>> \in Answers
      BY <3>2 DEF Answers
    <3>4. file' \in [Files -> [open : BOOLEAN, pos : Nat]]
      BY <2>1, <3>1, <3>2 DEF TypeOK
    <3> QED BY <2>1, <3>1, <3>3, <3>4, UnlockType DEF dev, TypeOK
  <2> QED BY <2>5, <2>6
<1>15. ASSUME NEW p \in Procs, aesd_unlocked_ioctl(p) PROVE TypeOK'
  <2> DEFINE r == call[p].req
             k == Passed(r.write_cmd)
             newpos == SizeBefore(buffer)[k] + r.write_cmd_offset
             entry == buffer.entry[SlotAt(buffer, IF k = N THEN N-1 ELSE k)]
             refused == entry.buffptr = NULL \/ r.write_cmd_offset >= Len(entry.data)
  <2>1. /\ call[p] \in Active /\ call[p].pos \in Nat /\ call[p].file \in Files
        /\ r.write_cmd_offset \in Nat
    BY <1>15, HandlerCall, RequestTypes DEF aesd_unlocked_ioctl
  <2>2. k \in 0 .. N
    BY NAssumption DEF Passed, Slots
  <2>3. SizeBefore(buffer)[k] \in Nat
    BY <2>2, SizeBeforeType DEF TypeOK
  <2>4. newpos \in Nat
    BY <2>1, <2>3
  <2>5. IF refused
          THEN Unlock(p, <<"error">>, call[p].pos) /\ UNCHANGED file
          ELSE /\ Unlock(p, <<"seekto", newpos>>, call[p].pos)
               /\ file' = [file EXCEPT ![call[p].file].pos = newpos]
    BY <1>15 DEF aesd_unlocked_ioctl
  <2>6. UNCHANGED dev
    BY <1>15 DEF aesd_unlocked_ioctl
  <2> HIDE DEF newpos, refused
  <2>7. <<"seekto", newpos>> \in Answers
    BY <2>4 DEF Answers
  <2>8. CASE refused
    BY <2>1, <2>5, <2>6, <2>8, UnlockType, ErrorAnswer DEF dev, TypeOK
  <2>9. CASE ~ refused
    <3>1. file' \in [Files -> [open : BOOLEAN, pos : Nat]]
      BY <2>1, <2>4, <2>5, <2>9 DEF TypeOK
    <3> QED BY <2>1, <2>5, <2>6, <2>7, <2>9, <3>1, UnlockType DEF dev, TypeOK
  <2> QED BY <2>8, <2>9
<1>16. CASE UNCHANGED vars
  BY <1>16 DEF vars, TypeOK
<1> QED
  BY <1>1, <1>2, <1>3, <1>4, <1>5, <1>6, <1>7, <1>8, <1>9, <1>10, <1>11,
     <1>12, <1>13, <1>14, <1>15, <1>16
  DEF Next, Handler, Read, Write

(* Every variable keeps its type, whatever the calls and their interleaving. *)
THEOREM TypeCorrect == Spec => []TypeOK
<1>1. Init => TypeOK
  BY InitWellFormed DEF Init, TypeOK, EmptyEntry, BufferEntry, Closed, Answers
<1> QED BY <1>1, TypeStep, PTL DEF Spec

-----------------------------------------------------------------------------
(***************************************************************************)
(* The module's life, and the mutex.                                       *)
(***************************************************************************)
InCall(p) == IoctlRefused(p) \/ Lock(p) \/ Handler(p)

(* The steps that stay in the critical section. *)
LEMMA CopyStep ==
  ASSUME TypeOK, NEW p \in Procs, call[p] \in Active,
         aesd_read_copy(p) \/ aesd_write_copy(p)
  PROVE  /\ \E c : /\ call' = [call EXCEPT ![p] = c]
                  /\ c.file = call[p].file /\ c.pc \in {"locked", "append"}
         /\ call[p].pc = "locked"
         /\ UNCHANGED lock
<1>1. CASE aesd_read_copy(p)
  <2>1. PICK x, n : call' = [call EXCEPT ![p].done = x, ![p].pos = n]
    BY <1>1 DEF aesd_read_copy
  <2> DEFINE c == [call[p] EXCEPT !.done = x, !.pos = n]
  <2>2. call' = [call EXCEPT ![p] = c]
    BY <2>1
  <2>3. c.file = call[p].file /\ c.pc = call[p].pc
    BY DEF Active
  <2> QED BY <1>1, <2>2, <2>3 DEF aesd_read_copy, InHandler
<1>2. CASE aesd_write_copy(p)
  <2>1. PICK x : call' = [call EXCEPT ![p].pc = "append", ![p].kbuf = x]
    BY <1>2 DEF aesd_write_copy
  <2> DEFINE c == [call[p] EXCEPT !.pc = "append", !.kbuf = x]
  <2>2. call' = [call EXCEPT ![p] = c]
    BY <2>1
  <2>3. c.file = call[p].file /\ c.pc = "append"
    BY DEF Active
  <2> QED BY <1>2, <2>2, <2>3 DEF aesd_write_copy, InHandler
<1> QED BY <1>1, <1>2

(* A step inside a call is of that call only, and opens or closes no file. *)
LEMMA CallStep ==
  ASSUME TypeOK, NEW p \in Procs, InCall(p)
  PROVE  /\ call[p] \in Active
         /\ call' \in [Procs -> {Idle} \cup Active]
         /\ call'[p] \in Active /\ call'[p].file = call[p].file
         /\ \A q \in Procs : q # p => call'[q] = call[q]
         /\ \A f \in Files : file'[f].open = file[f].open
         /\ boot' = boot
<1>1. call[p] \in Active
  BY ActiveCall, HandlerCall
  DEF InCall, IoctlRefused, Lock, Handler, Read, Write, InHandler, Active,
      aesd_read_copy, aesd_read_fault, aesd_read_done, aesd_write_copy,
      aesd_write_refused, aesd_write_append, aesd_write_nomem, aesd_llseek,
      aesd_unlocked_ioctl
<1>2. call' \in [Procs -> {Idle} \cup Active]
  <2>1. TypeOK'
    BY TypeStep DEF Next, InCall
  <2> QED BY <2>1 DEF TypeOK
<1>3. /\ \A q \in Procs : q # p => call'[q] = call[q]
      /\ call'[p].file = call[p].file /\ call'[p].pc # "idle"
  <2>1. CASE IoctlRefused(p) \/ Lock(p)
    BY <1>1, <2>1 DEF IoctlRefused, Lock, TypeOK, Active
  <2>2. CASE aesd_read_copy(p) \/ aesd_write_copy(p)
    <3>1. PICK c : /\ call' = [call EXCEPT ![p] = c]
                   /\ c.file = call[p].file /\ c.pc \in {"locked", "append"}
      BY <1>1, <2>2, CopyStep
    <3>2. call'[p] = c /\ \A q \in Procs : q # p => call'[q] = call[q]
      BY <3>1 DEF TypeOK
    <3> QED BY <3>1, <3>2
  <2>3. ASSUME NEW r, NEW pos, Unlock(p, r, pos)
        PROVE /\ \A q \in Procs : q # p => call'[q] = call[q]
              /\ call'[p].file = call[p].file /\ call'[p].pc # "idle"
    BY <1>1, <2>3 DEF Unlock, TypeOK, Active
  <2>4. CASE aesd_read_fault(p) \/ aesd_read_done(p)
    BY <2>3, <2>4 DEF aesd_read_fault, aesd_read_done
  <2>5. CASE \/ aesd_write_refused(p) \/ aesd_write_append(p)
             \/ aesd_write_nomem(p)
    BY <2>3, <2>5 DEF aesd_write_refused, aesd_write_append, aesd_write_nomem
  <2>6. CASE aesd_llseek(p) \/ aesd_unlocked_ioctl(p)
    BY <2>3, <2>6 DEF aesd_llseek, aesd_unlocked_ioctl
  <2> QED BY <2>1, <2>2, <2>4, <2>5, <2>6 DEF InCall, Handler, Read, Write
<1>4. (\A f \in Files : file'[f].open = file[f].open) /\ boot' = boot
  <2>1. ASSUME NEW g \in Files, NEW v, file' = [file EXCEPT ![g].pos = v]
        PROVE \A f \in Files : file'[f].open = file[f].open
    BY <2>1 DEF TypeOK
  <2>2. call[p].file \in Files
    BY <1>1 DEF Active
  <2>3. CASE aesd_llseek(p) \/ aesd_unlocked_ioctl(p)
    BY <2>1, <2>2, <2>3 DEF aesd_llseek, aesd_unlocked_ioctl, dev
  <2>4. CASE ~ (aesd_llseek(p) \/ aesd_unlocked_ioctl(p))
    BY <2>4 DEF InCall, IoctlRefused, Lock, Handler, Read, Write, dev,
      aesd_read_copy, aesd_read_fault, aesd_read_done, aesd_write_copy,
      aesd_write_refused, aesd_write_append, aesd_write_nomem
  <2> QED BY <2>3, <2>4
<1>5. call'[p] \in Active
  BY <1>2, <1>3 DEF Idle
<1> QED BY <1>1, <1>2, <1>3, <1>4, <1>5

(* While the module is not loaded no process is in a call.                 *)
LEMMA IdleUnlessLoaded ==
  ASSUME TypeOK, BootOK, boot # "loaded"
  PROVE  \A p \in Procs : call[p].pc = "idle"
BY ActiveCall DEF BootOK, Active

(* While the module is not loaded no file is open and nobody is in a call. *)
LEMMA BootStep == TypeOK /\ BootOK /\ [Next]_vars => BootOK'
<1> SUFFICES ASSUME TypeOK, BootOK, [Next]_vars PROVE BootOK'
  OBVIOUS
<1>1. CASE Module
  <2>1. UNCHANGED <<file, call>>
    BY <1>1 DEF Module, AddDevice, InitMutex, InitBuffer, aesd_cleanup_module
  <2>2. boot' # "loaded" => \A f \in Files : ~ file[f].open
    BY <1>1 DEF Module, AddDevice, InitMutex, InitBuffer, aesd_cleanup_module,
                BootOK
  <2>3. boot' \in {"cdev_added", "mutex_ready"} =>
          buffer' = aesd_circular_buffer_init /\ partial' = EmptyEntry
    BY <1>1 DEF Module, AddDevice, InitMutex, InitBuffer, aesd_cleanup_module,
                BootOK
  <2> QED BY <2>1, <2>2, <2>3 DEF BootOK
<1>2. ASSUME NEW f \in Files, Open(f) PROVE BootOK'
  <2>1. /\ \A g \in Files : file[g].open => file'[g].open
        /\ boot = "loaded" /\ UNCHANGED <<dev, call>>
    BY <1>2 DEF Open, OpenFile, TypeOK
  <2> QED BY <2>1, ActiveCall DEF BootOK, dev, Active
<1>3. ASSUME NEW f \in Files, Close(f) PROVE BootOK'
  <2>1. /\ UNCHANGED <<dev, call>>
        /\ \A g \in Files : g # f => file'[g] = file[g]
        /\ ~ file'[f].open
        /\ \A p \in Procs : call[p].pc = "idle" \/ call[p].file # f
    BY <1>3 DEF Close, Closed, Using, TypeOK
  <2> QED BY <2>1, ActiveCall DEF BootOK, dev, Active
<1>4. ASSUME NEW p \in Procs, NEW f \in Files, NEW r \in Requests,
             Syscall(p, f, r)
      PROVE BootOK'
  BY <1>4 DEF Syscall, BootOK, dev, TypeOK
<1>5. ASSUME NEW p \in Procs, Return(p) PROVE BootOK'
  <2>1. call[p].file \in Files
    BY <1>5, ActiveCall DEF Return, Active
  <2>2. /\ \A g \in Files : file'[g].open = file[g].open
        /\ call' = [call EXCEPT ![p] = Idle] /\ UNCHANGED dev
    BY <1>5, <2>1 DEF Return, TypeOK
  <2> QED BY <2>2, ActiveCall DEF BootOK, dev, Active, Idle, TypeOK
<1>6. ASSUME NEW p \in Procs, InCall(p) PROVE BootOK'
  <2>1. /\ call[p] \in Active /\ call'[p].file = call[p].file
        /\ \A q \in Procs : q # p => call'[q] = call[q]
        /\ \A f \in Files : file'[f].open = file[f].open
        /\ boot' = boot
    BY <1>6, CallStep
  <2>2. call[p].pc # "idle" /\ call[p].file \in Files
    BY <2>1 DEF Active
  <2>3. boot = "loaded"
    BY <2>2, IdleUnlessLoaded
  <2>4. \A q \in Procs : call'[q].pc # "idle" => file'[call'[q].file].open
    BY <2>1, <2>2, ActiveCall DEF BootOK, Active
  <2> QED BY <2>1, <2>3, <2>4 DEF BootOK
<1>7. CASE UNCHANGED vars
  BY <1>7 DEF vars, BootOK
<1> QED BY <1>1, <1>2, <1>3, <1>4, <1>5, <1>6, <1>7 DEF Next, InCall

(* Each step keeps the mutex with whom is in its section. *)
LEMMA LockStep == TypeOK /\ BootOK /\ LockOK /\ [Next]_vars => LockOK'
<1> SUFFICES ASSUME TypeOK, BootOK, LockOK, [Next]_vars PROVE LockOK'
  OBVIOUS
<1>1. CASE AddDevice \/ InitMutex
  <2>1. \A p \in Procs : call[p].pc = "idle"
    BY <1>1, IdleUnlessLoaded DEF AddDevice, InitMutex
  <2> QED BY <1>1, <2>1, NoProcAssumption
          DEF AddDevice, InitMutex, LockOK, InSection
<1>2. CASE \/ InitBuffer \/ aesd_cleanup_module
           \/ \E f \in Files : Open(f) \/ Close(f)
  BY <1>2 DEF InitBuffer, aesd_cleanup_module, Open, OpenFile, Close, LockOK,
              InSection
<1>3. ASSUME NEW p \in Procs, UNCHANGED lock,
             \A q \in Procs : q # p => call'[q] = call[q],
             InSection(p) <=> InSection(p)'
      PROVE LockOK'
  BY <1>3 DEF LockOK, InSection
<1>4. ASSUME NEW p \in Procs, InSection(p), ~ InSection(p)', lock' = NoProc,
             \A q \in Procs : q # p => call'[q] = call[q]
      PROVE LockOK'
  BY <1>4, NoProcAssumption DEF LockOK, InSection
<1>5. ASSUME NEW p \in Procs, NEW f \in Files, NEW r \in Requests,
             Syscall(p, f, r)
      PROVE LockOK'
  BY <1>3, <1>5 DEF Syscall, InSection, TypeOK
<1>6. ASSUME NEW p \in Procs, IoctlRefused(p) PROVE LockOK'
  <2>1. call[p] \in Active
    BY <1>6, CallStep DEF InCall
  <2> QED BY <1>3, <1>6, <2>1 DEF IoctlRefused, InSection, TypeOK, Active
<1>7. ASSUME NEW p \in Procs, Lock(p) PROVE LockOK'
  <2>1. call[p] \in Active
    BY <1>7, CallStep DEF InCall
  <2>2. /\ lock = NoProc /\ lock' = p /\ call'[p].pc = "locked"
        /\ \A q \in Procs : q # p => call'[q] = call[q]
    BY <1>7, <2>1 DEF Lock, TypeOK, Active
  <2> QED BY <2>2, NoProcAssumption DEF LockOK, InSection
<1>8. ASSUME NEW p \in Procs, Return(p) PROVE LockOK'
  BY <1>3, <1>8 DEF Return, InSection, TypeOK, Idle
<1>9. ASSUME NEW p \in Procs, aesd_read_copy(p) \/ aesd_write_copy(p)
      PROVE LockOK'
  <2>1. call[p] \in Active
    BY <1>9, CallStep DEF InCall, Handler, Read, Write
  <2>2. /\ InSection(p) /\ call'[p].pc \in {"locked", "append"}
        /\ \A q \in Procs : q # p => call'[q] = call[q]
        /\ UNCHANGED lock
    BY <1>9, <2>1, CopyStep DEF InSection, TypeOK
  <2> QED BY <1>3, <2>2 DEF InSection
<1>10. ASSUME NEW p \in Procs, NEW r, NEW pos, Unlock(p, r, pos), InSection(p)
       PROVE LockOK'
  <2>1. call'[p].pc = "return" /\ \A q \in Procs : q # p => call'[q] = call[q]
    BY <1>10 DEF Unlock, TypeOK
  <2> QED BY <1>4, <1>10, <2>1 DEF Unlock, InSection
<1>11. ASSUME NEW p \in Procs,
              \/ aesd_read_fault(p) \/ aesd_read_done(p)
              \/ aesd_write_refused(p) \/ aesd_write_append(p)
              \/ aesd_write_nomem(p)
       PROVE LockOK'
  BY <1>10, <1>11
  DEF aesd_read_fault, aesd_read_done, aesd_write_refused, aesd_write_append,
      aesd_write_nomem, InHandler, InSection
<1>12. ASSUME NEW p \in Procs, aesd_llseek(p) \/ aesd_unlocked_ioctl(p)
       PROVE LockOK'
  BY <1>10, <1>12 DEF aesd_llseek, aesd_unlocked_ioctl, InHandler, InSection
<1>13. CASE UNCHANGED vars
  BY <1>13 DEF vars, LockOK, InSection
<1> QED
  BY <1>1, <1>2, <1>5, <1>6, <1>7, <1>8, <1>9, <1>11, <1>12, <1>13
  DEF Next, Module, Handler, Read, Write

-----------------------------------------------------------------------------
(***************************************************************************)
(* The ring and the memory.  Outside of aesd_write and the module's life   *)
(* cycle nothing that RingOK and HeapOK speak of changes.                  *)
(***************************************************************************)
Quiet ==
  /\ UNCHANGED dev
  /\ \A p \in Procs : InWrite(p)' => InWrite(p) /\ call'[p].kbuf = call[p].kbuf
  /\ \A p \in Procs : InWrite(p) => InWrite(p)'

(* A step that touches neither ring nor heap keeps both. *)
LEMMA QuietKeeps ==
  ASSUME RingOK, HeapOK, Quiet PROVE RingOK' /\ HeapOK'
<1>1. RingOK'
  BY DEF RingOK, Quiet, dev, WellFormed, HoldsCommand
<1>2. Owned' = Owned
  BY DEF Owned, Quiet, dev
<1>3. NoAliases => NoAliases'
  BY DEF NoAliases, Quiet, dev
<1> QED BY <1>1, <1>2, <1>3 DEF HeapOK, Quiet, dev

(* A step that moves p alone, from outside the append of a write to        *)
(* outside it. *)
LEMMA QuietCall ==
  ASSUME NEW p \in Procs, ~ InWrite(p), ~ InWrite(p)', UNCHANGED dev,
         \A q \in Procs : q # p => call'[q] = call[q]
  PROVE  Quiet
BY DEF Quiet, InWrite

(* Giving the mutex back ends the critical section, and no more. *)
LEMMA UnlockEffect ==
  ASSUME TypeOK, NEW p \in Procs, NEW r, NEW pos, Unlock(p, r, pos)
  PROVE  ~ InWrite(p)' /\ \A q \in Procs : q # p => call'[q] = call[q]
BY DEF Unlock, TypeOK, InWrite

(* The steps of a process that touch neither ring nor heap. *)
LEMMA QuietStep ==
  ASSUME TypeOK, NEW p \in Procs,
         \/ \E f \in Files, r \in Requests : Syscall(p, f, r)
         \/ IoctlRefused(p) \/ Lock(p) \/ Return(p) \/ Read(p)
         \/ aesd_write_refused(p) \/ aesd_llseek(p) \/ aesd_unlocked_ioctl(p)
  PROVE  Quiet
<1>1. CASE \E f \in Files, r \in Requests : Syscall(p, f, r)
  BY <1>1, QuietCall DEF Syscall, TypeOK, InWrite
<1>2. CASE IoctlRefused(p) \/ Lock(p)
  <2>1. call[p] \in Active
    BY <1>2, CallStep DEF InCall
  <2> QED BY <1>2, <2>1, QuietCall DEF IoctlRefused, Lock, TypeOK, InWrite, Active
<1>3. CASE Return(p)
  BY <1>3, QuietCall DEF Return, TypeOK, InWrite, Idle
<1>4. CASE aesd_read_copy(p)
  <2>1. PICK x, n : call' = [call EXCEPT ![p].done = x, ![p].pos = n]
    BY <1>4 DEF aesd_read_copy
  <2>2. call[p] \in Active /\ call[p].pc = "locked"
    BY <1>4, HandlerCall DEF aesd_read_copy, InHandler
  <2>3. call'[p].pc = "locked" /\ \A q \in Procs : q # p => call'[q] = call[q]
    BY <2>1, <2>2 DEF TypeOK, Active
  <2> QED BY <1>4, <2>2, <2>3, QuietCall DEF InWrite, aesd_read_copy
<1>5. CASE aesd_read_fault(p) \/ aesd_read_done(p) \/ aesd_write_refused(p)
  BY <1>5, UnlockEffect, QuietCall
  DEF aesd_read_fault, aesd_read_done, aesd_write_refused, InHandler, InWrite
<1>6. CASE aesd_llseek(p) \/ aesd_unlocked_ioctl(p)
  <2>1. ~ InWrite(p) /\ UNCHANGED dev
    BY <1>6 DEF aesd_llseek, aesd_unlocked_ioctl, InHandler, InWrite
  <2>2. ~ InWrite(p)' /\ \A q \in Procs : q # p => call'[q] = call[q]
    BY <1>6, UnlockEffect DEF aesd_llseek, aesd_unlocked_ioctl
  <2> QED BY <2>1, <2>2, QuietCall
<1> QED BY <1>1, <1>2, <1>3, <1>4, <1>5, <1>6 DEF Read

(* Loading and unloading: the ring is emptied and everything is freed. *)
LEMMA ModuleStep ==
  ASSUME TypeOK, BootOK, RingOK, HeapOK, Module
  PROVE  RingOK' /\ HeapOK'
<1>1. CASE AddDevice
  <2>1. \A p \in Procs : call'[p].pc = "idle"
    BY <1>1, IdleUnlessLoaded DEF AddDevice
  <2>2. /\ buffer' = aesd_circular_buffer_init
        /\ \A i \in Slots : buffer'.entry[i].buffptr = NULL
        /\ partial'.buffptr = NULL
    BY <1>1, InitWellFormed DEF AddDevice, EmptyEntry
  <2>3. RingOK'
    BY <2>2, InitWellFormed DEF RingOK, WellFormed, HoldsCommand
  <2>4. Owned' = {} /\ NoAliases'
    BY <2>1, <2>2 DEF Owned, NoAliases, InWrite
  <2>5. heap' = {} /\ boot' # "unloaded"
    BY <1>1 DEF AddDevice, HeapOK
  <2> QED BY <2>3, <2>4, <2>5 DEF HeapOK
<1>2. CASE InitMutex
  <2>1. RingOK' /\ Owned' = Owned /\ (NoAliases => NoAliases')
    BY <1>2 DEF InitMutex, RingOK, WellFormed, HoldsCommand, Owned, NoAliases,
                InWrite
  <2> QED BY <1>2, <2>1 DEF InitMutex, HeapOK
<1>3. CASE InitBuffer
  <2>1. buffer' = buffer /\ partial' = partial /\ heap' = heap /\ call' = call
        /\ boot = "mutex_ready" /\ boot' = "loaded"
    BY <1>3 DEF InitBuffer, BootOK
  <2>2. RingOK' /\ Owned' = Owned /\ (NoAliases => NoAliases')
    BY <2>1 DEF RingOK, WellFormed, HoldsCommand, Owned, NoAliases, InWrite
  <2> QED BY <2>1, <2>2 DEF HeapOK
<1>4. CASE aesd_cleanup_module
  <2>1. \A p \in Procs : ~ InWrite(p)
    BY <1>4, ActiveCall DEF aesd_cleanup_module, BootOK, InWrite, Active
  <2>2. Owned \subseteq {partial.buffptr} \cup {buffer.entry[i].buffptr : i \in Slots}
    BY <2>1 DEF Owned
  <2>3. heap' = {} /\ boot' = "unloaded" /\ buffer' = buffer
    BY <1>4, <2>2 DEF aesd_cleanup_module, HeapOK
  <2> QED BY <2>3 DEF RingOK, WellFormed, HoldsCommand, HeapOK
<1> QED BY <1>1, <1>2, <1>3, <1>4 DEF Module

(* The entry add_entry overwrites is the one whose pointer it returns. *)
LEMMA ReplacedIsOverwritten ==
  ASSUME NEW b \in CircularBuffers, WellFormed(b)
  PROVE  ReplacedPtr(b) = b.entry[b.in_offs].buffptr
BY DEF CircularBuffers, WellFormed, ReplacedPtr, HoldsCommand, EmptyEntry, Slots

(* A call in a write's critical section is the only one there, and the     *)
(* module is loaded. *)
LEMMA WriteAlone ==
  ASSUME TypeOK, BootOK, LockOK, HeapOK, NEW p \in Procs, InSection(p)
  PROVE  /\ \A q \in Procs : InWrite(q) => q = p
         /\ boot = "loaded" /\ heap = Owned /\ NoAliases
<1>1. boot = "loaded"
  BY IdleUnlessLoaded DEF InSection
<1> QED BY <1>1 DEF LockOK, InSection, InWrite, HeapOK

(* A write that gets its buffer owns it, or frees it if the copy fails. *)
LEMMA WriteCopyHeap ==
  ASSUME TypeOK, BootOK, RingOK, LockOK, HeapOK, NEW p \in Procs,
         aesd_write_copy(p)
  PROVE  RingOK' /\ HeapOK'
<1>1. /\ call[p] \in Active /\ call[p].pc = "locked"
      /\ InSection(p) /\ ~ InWrite(p)
  BY HandlerCall DEF aesd_write_copy, InHandler, InSection, InWrite
<1>2. PICK k \in Blocks \ heap :
        heap' = heap \cup {k} /\ call' = [call EXCEPT ![p].pc = "append",
                                                      ![p].kbuf = k]
  BY DEF aesd_write_copy
<1>3. /\ call'[p].pc = "append" /\ call'[p].kbuf = k
      /\ \A q \in Procs : q # p => call'[q] = call[q]
  BY <1>1, <1>2 DEF TypeOK, Active
<1>4. UNCHANGED <<boot, buffer, partial>>
  BY DEF aesd_write_copy
<1>5. /\ \A q \in Procs : ~ InWrite(q)
      /\ boot = "loaded" /\ heap = Owned /\ NoAliases
  BY <1>1, WriteAlone
<1>6. \A q \in Procs : InWrite(q)' <=> q = p
  BY <1>3, <1>5 DEF InWrite
<1>7. k # NULL /\ k \notin Owned
  BY <1>2, <1>5, BlocksAssumption
<1>8. Owned' = Owned \cup {k}
  <2>1. Owned = ({partial.buffptr}
                   \cup {buffer.entry[i].buffptr : i \in Slots}) \ {NULL}
    BY <1>5 DEF Owned
  <2>2. Owned' = ({partial.buffptr}
                    \cup {buffer.entry[i].buffptr : i \in Slots} \cup {k}) \ {NULL}
    BY <1>3, <1>4, <1>6 DEF Owned
  <2> QED BY <1>7, <2>1, <2>2
<1>9. NoAliases'
  <2>1. k # partial.buffptr /\ \A i \in Slots : k # buffer.entry[i].buffptr
    BY <1>7 DEF Owned
  <2>2. ASSUME NEW q \in Procs, InWrite(q)'
        PROVE /\ call'[q].kbuf \in heap' /\ call'[q].kbuf # partial'.buffptr
              /\ \A i \in Slots : call'[q].kbuf # buffer'.entry[i].buffptr
    <3>1. q = p
      BY <1>6, <2>2
    <3>2. call'[q].kbuf = k
      BY <1>3, <3>1
    <3>3. k \in heap'
      BY <1>2
    <3> QED BY <1>4, <2>1, <3>2, <3>3
  <2> QED BY <1>4, <1>5, <2>2 DEF NoAliases
<1>10. RingOK'
  BY <1>4 DEF RingOK, WellFormed, HoldsCommand
<1> QED BY <1>2, <1>4, <1>5, <1>8, <1>9, <1>10 DEF HeapOK

(* A write whose second allocation fails frees the first. *)
LEMMA WriteNomemHeap ==
  ASSUME TypeOK, BootOK, RingOK, LockOK, HeapOK, NEW p \in Procs,
         aesd_write_nomem(p)
  PROVE  RingOK' /\ HeapOK'
<1>1. InSection(p) /\ InWrite(p)
  BY DEF aesd_write_nomem, InHandler, InSection, InWrite
<1>2. /\ \A q \in Procs : InWrite(q) => q = p
      /\ boot = "loaded" /\ heap = Owned /\ NoAliases
  BY <1>1, WriteAlone
<1>3. /\ heap' = heap \ {call[p].kbuf}
      /\ UNCHANGED <<boot, buffer, partial>>
  BY DEF aesd_write_nomem
<1>4. \A q \in Procs : ~ InWrite(q)'
  <2>1. ~ InWrite(p)' /\ \A q \in Procs : q # p => call'[q] = call[q]
    BY UnlockEffect DEF aesd_write_nomem
  <2> QED BY <1>2, <2>1 DEF InWrite
<1>5. Owned' = Owned \ {call[p].kbuf}
  <2>1. Owned = ({partial.buffptr} \cup {buffer.entry[i].buffptr : i \in Slots}
                   \cup {call[p].kbuf}) \ {NULL}
    BY <1>1, <1>2 DEF Owned
  <2>2. Owned' = ({partial.buffptr}
                    \cup {buffer.entry[i].buffptr : i \in Slots}) \ {NULL}
    BY <1>3, <1>4 DEF Owned
  <2>3. /\ call[p].kbuf # partial.buffptr
        /\ \A i \in Slots : call[p].kbuf # buffer.entry[i].buffptr
    BY <1>1, <1>2 DEF NoAliases
  <2> QED BY <2>1, <2>2, <2>3
<1>6. NoAliases'
  BY <1>2, <1>3, <1>4 DEF NoAliases
<1>7. RingOK'
  BY <1>3 DEF RingOK, WellFormed, HoldsCommand
<1> QED BY <1>2, <1>3, <1>5, <1>6, <1>7 DEF HeapOK

(* An entry that is replaced is freed, one that is added has one owner. *)
LEMMA WriteAppendHeap ==
  ASSUME TypeOK, BootOK, RingOK, LockOK, HeapOK, NEW p \in Procs,
         aesd_write_append(p)
  PROVE  RingOK' /\ HeapOK'
<1> DEFINE k == call[p].kbuf
           d == call[p].req.data
<1>1. /\ InSection(p) /\ InWrite(p)
      /\ d \in Seq(Bytes)
  BY HandlerCall, RequestTypes
  DEF aesd_write_append, InHandler, InSection, InWrite
<1>2. /\ \A q \in Procs : InWrite(q) => q = p
      /\ boot = "loaded" /\ heap = Owned /\ NoAliases
  BY <1>1, WriteAlone
<1>3. UNCHANGED boot
  BY DEF aesd_write_append
<1>4. \A q \in Procs : ~ InWrite(q)'
  <2>1. ~ InWrite(p)' /\ \A q \in Procs : q # p => call'[q] = call[q]
    BY UnlockEffect DEF aesd_write_append
  <2> QED BY <1>2, <2>1 DEF InWrite
<1>5. PICK newbuf \in Blocks \ heap :
        LET e == [buffptr |-> newbuf, data |-> partial.data \o d]
            kept == (heap \cup {newbuf}) \ {partial.buffptr, k}
        IN  IF Complete(d)
              THEN /\ buffer' = aesd_circular_buffer_add_entry(buffer, e)
                   /\ heap' = kept \ {ReplacedPtr(buffer)}
                   /\ partial' = EmptyEntry
              ELSE /\ partial' = e
                   /\ heap' = kept
                   /\ UNCHANGED buffer
  BY DEF aesd_write_append
<1> DEFINE e == [buffptr |-> newbuf, data |-> partial.data \o d]
           kept == (heap \cup {newbuf}) \ {partial.buffptr, k}
<1>6. e \in BufferEntry /\ e.buffptr = newbuf /\ newbuf # NULL
  BY <1>1, <1>5, BlocksAssumption DEF TypeOK, BufferEntry
<1> DEFINE Ptr(i) == buffer.entry[i].buffptr
<1>7. heap = ({partial.buffptr} \cup {Ptr(i) : i \in Slots} \cup {k}) \ {NULL}
  BY <1>1, <1>2 DEF Owned
<1>8. /\ newbuf # partial.buffptr /\ newbuf # k
      /\ \A i \in Slots : newbuf # Ptr(i)
  BY <1>5, <1>6, <1>7
<1>9. /\ \A i \in Slots : k # Ptr(i)
      /\ \A i \in Slots : Ptr(i) # NULL => Ptr(i) # partial.buffptr
      /\ \A i, j \in Slots : i # j /\ Ptr(i) # NULL => Ptr(i) # Ptr(j)
  BY <1>1, <1>2 DEF NoAliases
<1>10. Owned' = ({partial'.buffptr}
                   \cup {buffer'.entry[i].buffptr : i \in Slots}) \ {NULL}
  BY <1>4 DEF Owned
<1> HIDE DEF k, d, e
<1>11. CASE Complete(d)
  <2> DEFINE in == buffer.in_offs
  <2>1. /\ buffer' = aesd_circular_buffer_add_entry(buffer, e)
        /\ heap' = kept \ {ReplacedPtr(buffer)}
        /\ partial' = EmptyEntry
    BY <1>5, <1>11 DEF e
  <2>2. RingOK'
    BY <1>6, <2>1, AddEntryWellFormed DEF RingOK, TypeOK
  <2>3. /\ in \in Slots
        /\ buffer'.entry = [buffer.entry EXCEPT ![in] = e]
        /\ buffer.entry \in [Slots -> BufferEntry]
    BY <2>1 DEF aesd_circular_buffer_add_entry, TypeOK, CircularBuffers
  <2>4. \A i \in Slots :
          buffer'.entry[i].buffptr = IF i = in THEN newbuf ELSE Ptr(i)
    BY <1>6, <2>3
  <2>5. ReplacedPtr(buffer) = Ptr(in)
    BY ReplacedIsOverwritten DEF RingOK, TypeOK
  <2>6. partial'.buffptr = NULL
    BY <2>1 DEF EmptyEntry
  <2> HIDE DEF in, Ptr
  <2>7. heap' = Owned'
    <3>1. ASSUME NEW x \in heap' PROVE x \in Owned'
      <4>1. /\ x = newbuf \/ x \in heap
            /\ x # partial.buffptr /\ x # k /\ x # Ptr(in)
        BY <2>1, <2>5, <3>1
      <4>2. CASE x = newbuf
        BY <1>6, <1>10, <2>3, <2>4, <4>2
      <4>3. CASE x # newbuf
        <5>1. PICK i \in Slots : x = Ptr(i)
          BY <1>7, <4>1, <4>3
        <5>2. buffer'.entry[i].buffptr = x /\ x # NULL
          BY <1>7, <2>4, <4>1, <4>3, <5>1
        <5> QED BY <1>10, <5>2
      <4> QED BY <4>2, <4>3
    <3>2. ASSUME NEW x \in Owned' PROVE x \in heap'
      <4>1. PICK i \in Slots : x = buffer'.entry[i].buffptr
        BY <1>10, <2>6, <3>2
      <4>2. x # NULL
        BY <1>10, <3>2
      <4>3. CASE i = in
        BY <1>8, <2>1, <2>3, <2>4, <2>5, <4>1, <4>3
      <4>4. CASE i # in
        <5>1. x = Ptr(i) /\ x \in heap
          BY <1>7, <2>4, <4>1, <4>2, <4>4
        <5>2. x # partial.buffptr /\ x # k /\ x # Ptr(in)
          BY <1>9, <2>3, <4>2, <4>4, <5>1
        <5> QED BY <2>1, <2>5, <5>1, <5>2
      <4> QED BY <4>3, <4>4
    <3> QED BY <3>1, <3>2
  <2>8. NoAliases'
    <3>1. ASSUME NEW i \in Slots, NEW j \in Slots, i # j,
                 buffer'.entry[i].buffptr # NULL
          PROVE buffer'.entry[i].buffptr # buffer'.entry[j].buffptr
      BY <1>8, <1>9, <2>4, <3>1
    <3> QED BY <1>4, <2>6, <3>1 DEF NoAliases
  <2> QED BY <1>2, <1>3, <2>2, <2>7, <2>8 DEF HeapOK
<1>12. CASE ~ Complete(d)
  <2>1. partial' = e /\ heap' = kept /\ UNCHANGED buffer
    BY <1>5, <1>12 DEF e
  <2>2. RingOK'
    BY <2>1 DEF RingOK, WellFormed, HoldsCommand
  <2>3. heap' = Owned'
    <3>1. Owned' = ({newbuf} \cup {Ptr(i) : i \in Slots}) \ {NULL}
      BY <1>6, <1>10, <2>1
    <3> HIDE DEF Ptr
    <3>2. kept = ({newbuf} \cup {Ptr(i) : i \in Slots}) \ {NULL}
      BY <1>6, <1>7, <1>8, <1>9
    <3> QED BY <2>1, <3>1, <3>2
  <2>4. NoAliases'
    BY <1>4, <1>6, <1>8, <1>9, <2>1 DEF NoAliases
  <2> QED BY <1>2, <1>3, <2>2, <2>3, <2>4 DEF HeapOK
<1> QED BY <1>11, <1>12

(* Each step keeps the ring and the ownership of the blocks. *)
LEMMA RingHeapStep ==
  TypeOK /\ BootOK /\ RingOK /\ LockOK /\ HeapOK /\ [Next]_vars
    => RingOK' /\ HeapOK'
<1> SUFFICES ASSUME TypeOK, BootOK, RingOK, LockOK, HeapOK, [Next]_vars
             PROVE RingOK' /\ HeapOK'
  OBVIOUS
<1>1. CASE Module
  BY <1>1, ModuleStep
<1>2. CASE \/ \E f \in Files : Open(f) \/ Close(f)
           \/ UNCHANGED vars
  <2>1. UNCHANGED <<dev, call>>
    BY <1>2 DEF Open, OpenFile, Close, vars, dev
  <2>2. Quiet
    BY <2>1 DEF Quiet, InWrite
  <2> QED BY <2>2, QuietKeeps
<1>3. ASSUME NEW p \in Procs,
             \/ \E f \in Files, r \in Requests : Syscall(p, f, r)
             \/ IoctlRefused(p) \/ Lock(p) \/ Handler(p) \/ Return(p)
      PROVE RingOK' /\ HeapOK'
  <2>1. CASE aesd_write_copy(p)
    BY <2>1, WriteCopyHeap
  <2>2. CASE aesd_write_append(p)
    BY <2>2, WriteAppendHeap
  <2>3. CASE aesd_write_nomem(p)
    BY <2>3, WriteNomemHeap
  <2> QED BY <1>3, <2>1, <2>2, <2>3, QuietStep, QuietKeeps DEF Handler, Write
<1> QED BY <1>1, <1>2, <1>3 DEF Next

-----------------------------------------------------------------------------
(* The invariant, from the lemmas above. *)
LEMMA InductiveInvariant == Spec => []IInv
<1>1. Init => IInv
  <2> SUFFICES ASSUME Init PROVE IInv
    OBVIOUS
  <2>1. TypeOK
    BY InitWellFormed DEF Init, TypeOK, EmptyEntry, BufferEntry, Closed, Answers
  <2> QED BY <2>1, InitWellFormed, NoProcAssumption
          DEF IInv, Init, BootOK, RingOK, LockOK, HeapOK, Idle, InSection, Closed
<1>2. IInv /\ [Next]_vars => IInv'
  BY TypeStep, BootStep, LockStep, RingHeapStep DEF IInv
<1> QED BY <1>1, <1>2, PTL DEF Spec

(* The slots of the ring and its indices agree after any sequence of calls. *)
THEOREM RingCorrect == Spec => []RingOK
BY InductiveInvariant, PTL DEF IInv

(* Only the holder of dev->lock is inside a critical section, loading and   *)
(* unloading included, as long as nobody opens the device while it loads.  *)
THEOREM MutualExclusion == Spec => []LockOK
BY InductiveInvariant, PTL DEF IInv

(* No path of aesd_write or of cleanup leaks a block, frees one twice or    *)
(* keeps a pointer to a freed one; after cleanup nothing is allocated.     *)
THEOREM MemorySafe == Spec => []HeapOK
BY InductiveInvariant, PTL DEF IInv

-----------------------------------------------------------------------------
(***************************************************************************)
(* Commands are complete.                                                  *)
(***************************************************************************)
LEMMA CompleteConcat ==
  ASSUME NEW s \in Seq(Bytes), NEW d \in Seq(Bytes)
  PROVE  Complete(s \o d) <=> Complete(s) \/ Complete(d)
<1>1. /\ Len(s \o d) = Len(s) + Len(d) /\ s \o d \in Seq(Bytes)
      /\ \A i \in 1 .. Len(s) + Len(d) :
           (s \o d)[i] = IF i <= Len(s) THEN s[i] ELSE d[i - Len(s)]
      /\ Len(s) \in Nat /\ Len(d) \in Nat
  BY ConcatProperties
<1>2. /\ DOMAIN s = 1 .. Len(s) /\ DOMAIN d = 1 .. Len(d)
      /\ DOMAIN (s \o d) = 1 .. Len(s) + Len(d)
  BY <1>1
<1>3. ASSUME NEW i \in 1 .. Len(s) PROVE (s \o d)[i] = s[i]
  BY <1>1
<1>4. ASSUME NEW i \in 1 .. Len(d) PROVE (s \o d)[Len(s) + i] = d[i]
  BY <1>1
<1>5. ASSUME Complete(s \o d) PROVE Complete(s) \/ Complete(d)
  <2>1. PICK i \in 1 .. Len(s) + Len(d) : (s \o d)[i] = Newline
    BY <1>2, <1>5 DEF Complete
  <2>2. CASE i <= Len(s)
    BY <1>1, <1>2, <2>1, <2>2 DEF Complete
  <2>3. CASE ~ (i <= Len(s))
    <3>1. i - Len(s) \in 1 .. Len(d) /\ d[i - Len(s)] = Newline
      BY <1>1, <2>1, <2>3
    <3> QED BY <1>2, <3>1 DEF Complete
  <2> QED BY <2>2, <2>3
<1>6. ASSUME Complete(s) PROVE Complete(s \o d)
  <2>1. PICK i \in 1 .. Len(s) : s[i] = Newline
    BY <1>2, <1>6 DEF Complete
  <2>2. i \in 1 .. Len(s) + Len(d)
    BY <1>1
  <2> QED BY <1>2, <1>3, <2>1, <2>2 DEF Complete
<1>7. ASSUME Complete(d) PROVE Complete(s \o d)
  <2>1. PICK i \in 1 .. Len(d) : d[i] = Newline
    BY <1>2, <1>7 DEF Complete
  <2>2. Len(s) + i \in 1 .. Len(s) + Len(d)
    BY <1>1
  <2> QED BY <1>2, <1>4, <2>1, <2>2 DEF Complete
<1> QED BY <1>5, <1>6, <1>7

(* Only a partial command that got its newline becomes an entry. *)
LEMMA EntriesStep ==
  TypeOK /\ RingOK /\ EntriesComplete /\ [Next]_vars => EntriesComplete'
<1> SUFFICES ASSUME TypeOK, RingOK, EntriesComplete, [Next]_vars
             PROVE EntriesComplete'
  OBVIOUS
<1>1. ASSUME NEW p \in Procs, aesd_write_append(p) PROVE EntriesComplete'
  <2> DEFINE d == call[p].req.data
  <2>1. d \in Seq(Bytes)
    BY <1>1, HandlerCall, RequestTypes DEF aesd_write_append
  <2>2. PICK newbuf \in Blocks \ heap :
          LET e == [buffptr |-> newbuf, data |-> partial.data \o d]
          IN  IF Complete(d)
                THEN /\ buffer' = aesd_circular_buffer_add_entry(buffer, e)
                     /\ partial' = EmptyEntry
                ELSE partial' = e /\ UNCHANGED buffer
    BY <1>1 DEF aesd_write_append
  <2> DEFINE e == [buffptr |-> newbuf, data |-> partial.data \o d]
  <2>3. Complete(e.data) <=> Complete(d)
    BY <2>1, CompleteConcat DEF TypeOK, BufferEntry, EntriesComplete
  <2> HIDE DEF d, e
  <2>4. CASE Complete(d)
    <3>1. buffer' = aesd_circular_buffer_add_entry(buffer, e) /\ partial' = EmptyEntry
      BY <2>2, <2>4 DEF e
    <3>2. \A i \in Slots :
            buffer'.entry[i] = IF i = buffer.in_offs THEN e ELSE buffer.entry[i]
      BY <3>1 DEF aesd_circular_buffer_add_entry, TypeOK, CircularBuffers
    <3>3. ~ Complete(partial'.data)
      BY <3>1 DEF EmptyEntry, Complete
    <3> QED BY <2>3, <2>4, <3>2, <3>3 DEF EntriesComplete
  <2>5. CASE ~ Complete(d)
    BY <2>2, <2>3, <2>5 DEF EntriesComplete, e
  <2> QED BY <2>4, <2>5
<1>2. CASE AddDevice \/ InitBuffer
  <2>1. buffer' = aesd_circular_buffer_init
        /\ (partial' = EmptyEntry \/ partial' = partial)
    BY <1>2 DEF AddDevice, InitBuffer
  <2>2. \A i \in Slots : buffer'.entry[i].buffptr = NULL
    BY <2>1, InitWellFormed DEF EmptyEntry
  <2>3. ~ Complete(partial'.data)
    BY <2>1 DEF EmptyEntry, Complete, EntriesComplete
  <2> QED BY <2>2, <2>3 DEF EntriesComplete
<1>3. ASSUME UNCHANGED <<buffer, partial>> PROVE EntriesComplete'
  BY <1>3 DEF EntriesComplete
<1>4. CASE \/ InitMutex \/ aesd_cleanup_module \/ UNCHANGED vars
           \/ \E f \in Files : Open(f) \/ Close(f)
  BY <1>3, <1>4 DEF InitMutex, aesd_cleanup_module, vars, Open, OpenFile, Close,
                    dev
<1>5. ASSUME NEW p \in Procs,
             \/ \E f \in Files, r \in Requests : Syscall(p, f, r)
             \/ IoctlRefused(p) \/ Lock(p) \/ Return(p) \/ Read(p)
             \/ aesd_write_copy(p) \/ aesd_write_refused(p)
             \/ aesd_write_nomem(p) \/ aesd_llseek(p) \/ aesd_unlocked_ioctl(p)
      PROVE EntriesComplete'
  BY <1>3, <1>5
  DEF dev, Syscall, IoctlRefused, Lock, Return, Read, aesd_read_copy,
      aesd_read_fault, aesd_read_done, aesd_write_copy, aesd_write_refused,
      aesd_write_nomem, aesd_llseek, aesd_unlocked_ioctl
<1> QED BY <1>1, <1>2, <1>4, <1>5 DEF Next, Module, Handler, Write

(* A read never sees an unfinished command, and a finished one is never     *)
(* held back in the partial buffer.                                        *)
THEOREM CommandsComplete == Spec => []EntriesComplete
<1>1. Init => EntriesComplete
  BY InitWellFormed DEF Init, EntriesComplete, EmptyEntry, Complete
<1>2. Spec => [](TypeOK /\ RingOK)
  BY InductiveInvariant, PTL DEF IInv
<1> QED BY <1>1, <1>2, EntriesStep, PTL DEF Spec

-----------------------------------------------------------------------------
(* Streams. *)

(* The bytes of each command are in the stream, from where the commands    *)
(* before it end.                                                          *)
LEMMA FlattenAt ==
  ASSUME NEW S, NEW cmds \in Seq(Seq(S)), NEW n \in 1 .. Len(cmds),
         NEW i \in 1 .. Len(cmds[n])
  PROVE  FlattenSeq(cmds)[Len(FlattenSeq(SubSeq(cmds, 1, n-1))) + i] = cmds[n][i]
<1> DEFINE pre(k) == FlattenSeq(SubSeq(cmds, 1, k))
<1>1. PICK m \in Nat : m = Len(cmds) /\ n \in Nat /\ 1 <= n /\ n <= m
  OBVIOUS
<1>2. ASSUME NEW k \in 0 .. m
      PROVE  pre(k) \in Seq(S)
  <2>1. SubSeq(cmds, 1, k) \in Seq(Seq(S))
    BY <1>1
  <2> QED BY <2>1, FlattenType
<1>3. ASSUME NEW k \in 1 .. m
      PROVE  pre(k) = pre(k-1) \o cmds[k] /\ cmds[k] \in Seq(S)
  <2>1. k \in 1 .. Len(cmds)
    BY <1>1
  <2>2. cmds[k] \in Seq(S)
    BY <2>1
  <2>3. FlattenSeq(SubSeq(cmds, 1, k)) = FlattenSeq(SubSeq(cmds, 1, k-1)) \o cmds[k]
    BY <2>1, FlattenStep
  <2> QED BY <2>2, <2>3
<1> HIDE DEF pre
<1>4. PICK a \in Nat : a = Len(pre(n-1))
  <2>1. n - 1 \in 0 .. m
    BY <1>1
  <2> QED BY <1>2, <2>1
<1> DEFINE T == {d \in 0 .. m - n : /\ a + i <= Len(pre(n + d))
                                    /\ pre(n + d)[a + i] = cmds[n][i]}
<1>5. 0 \in T
  <2>1. /\ n \in 1 .. m /\ n - 1 \in 0 .. m /\ n + 0 = n /\ m - n \in Nat
    BY <1>1
  <2>2. pre(n) = pre(n-1) \o cmds[n] /\ cmds[n] \in Seq(S) /\ pre(n-1) \in Seq(S)
    BY <1>2, <1>3, <2>1
  <2>3. PICK l \in Nat : l = Len(cmds[n])
    BY <2>2
  <2>4. i \in 1 .. l /\ a + i \in 1 .. a + l /\ ~ (a + i <= a) /\ (a + i) - a = i
    BY <2>3
  <2>5. Len(pre(n)) = a + l /\ pre(n)[a + i] = cmds[n][i]
    BY <1>4, <2>2, <2>3, <2>4, ConcatProperties
  <2> QED BY <2>1, <2>4, <2>5
<1>6. ASSUME NEW d \in 0 .. m - n, d # m - n, d \in T
      PROVE  d + 1 \in T
  <2>1. /\ n + (d + 1) \in 1 .. m /\ (n + (d + 1)) - 1 = n + d
        /\ d + 1 \in 0 .. m - n /\ n + d \in 0 .. m
    BY <1>1, <1>6
  <2>2. /\ pre(n + (d+1)) = pre(n + d) \o cmds[n + (d+1)]
        /\ cmds[n + (d+1)] \in Seq(S) /\ pre(n + d) \in Seq(S)
    BY <1>2, <1>3, <2>1
  <2>3. PICK l \in Nat, k \in Nat : l = Len(pre(n + d)) /\ k = Len(cmds[n + (d+1)])
    BY <2>2
  <2>4. a + i <= l /\ pre(n + d)[a + i] = cmds[n][i]
    BY <1>6, <2>3
  <2>5. a + i \in 1 .. l + k /\ a + i <= l + k
    BY <1>1, <2>4
  <2>6. Len(pre(n + (d+1))) = l + k /\ pre(n + (d+1))[a + i] = pre(n + d)[a + i]
    BY <2>2, <2>3, <2>4, <2>5, ConcatProperties, ZenonT(60)
  <2> QED BY <2>1, <2>4, <2>5, <2>6
<1> HIDE DEF T
<1>7. m - n \in T
  <2>1. m - n \in Nat /\ m - n \in 0 .. m - n
    BY <1>1
  <2> QED BY <1>5, <1>6, <2>1, IntervalInduction
<1>8. pre(m)[a + i] = cmds[n][i]
  <2>1. n + (m - n) = m
    BY <1>1
  <2> QED BY <1>7, <2>1 DEF T
<1>9. SubSeq(cmds, 1, m) = cmds
  BY <1>1
<1> QED BY <1>4, <1>8, <1>9 DEF pre

-----------------------------------------------------------------------------
(* The ring stands for a sequence of commands. *)

(* A slot number below twice N wraps once at most. *)
LEMMA WrapsOnce ==
  ASSUME NEW i \in Nat, i < 2 * N
  PROVE  i % N = IF i < N THEN i ELSE i - N
BY NAssumption

(* The k-th slot from out_offs, and in_offs behind the last. *)
LEMMA RingSlots ==
  ASSUME NEW b \in CircularBuffers, WellFormed(b)
  PROVE  /\ ValidEntries(b) = IF b.full THEN N ELSE b.in_offs
         /\ ValidEntries(b) \in 0 .. N
         /\ \A k \in Slots :
              /\ SlotAt(b, k) = IF b.out_offs + k < N THEN b.out_offs + k
                                                     ELSE b.out_offs + k - N
              /\ k < ValidEntries(b) <=> HoldsCommand(b, SlotAt(b, k))
<1>1. /\ N \in Nat /\ N > 0 /\ b.full \in BOOLEAN
      /\ b.in_offs \in 0 .. N-1 /\ b.out_offs \in 0 .. N-1
  BY NAssumption DEF CircularBuffers, Slots
<1>2. IF b.full THEN b.in_offs = b.out_offs ELSE b.out_offs = 0
  BY DEF WellFormed
<1>3. ValidEntries(b) = IF b.full THEN N ELSE b.in_offs
  <2>1. CASE ~ b.full
    <3>1. b.in_offs + N - b.out_offs = b.in_offs + N /\ b.in_offs + N \in Nat
          /\ b.in_offs + N < 2 * N /\ ~ (b.in_offs + N < N)
      BY <1>1, <1>2, <2>1
    <3>2. (b.in_offs + N) % N = b.in_offs
      BY <1>1, <3>1, WrapsOnce
    <3> QED BY <2>1, <3>1, <3>2 DEF ValidEntries
  <2> QED BY <2>1 DEF ValidEntries
<1>4. ASSUME NEW k \in Slots
      PROVE  SlotAt(b, k) = IF b.out_offs + k < N THEN b.out_offs + k
                                                  ELSE b.out_offs + k - N
  <2>1. PICK i \in Nat : i = b.out_offs + k /\ i < 2 * N
    BY <1>1 DEF Slots
  <2>2. i % N = IF i < N THEN i ELSE i - N
    BY <2>1, WrapsOnce
  <2>3. SlotAt(b, k) = i % N
    BY <2>1 DEF SlotAt
  <2>4. SlotAt(b, k) = IF i < N THEN i ELSE i - N
    BY <2>2, <2>3, Zenon
  <2> QED BY <1>1, <2>1, <2>4 DEF Slots
<1> QED BY <1>1, <1>2, <1>3, <1>4, SMTT(30) DEF HoldsCommand, Slots

(* The commands of the ring are a sequence of entries' data. *)
LEMMA CommandsType ==
  ASSUME NEW b \in CircularBuffers, WellFormed(b)
  PROVE  /\ Commands(b) \in Seq(Seq(Bytes))
         /\ Len(Commands(b)) = ValidEntries(b)
         /\ \A k \in Slots : k < ValidEntries(b) =>
              Commands(b)[k+1] = b.entry[SlotAt(b, k)].data
<1>1. PICK n \in 0 .. N : n = ValidEntries(b)
  BY RingSlots
<1>2. n \in Nat /\ N \in Nat
  BY NAssumption
<1>3. ASSUME NEW k \in 1 .. n
      PROVE  b.entry[SlotAt(b, k-1)].data \in Seq(Bytes)
  <2>1. k - 1 \in Nat
    BY <1>2
  <2>2. SlotAt(b, k-1) \in Slots
    BY <2>1, SlotAtType
  <2> QED BY <2>2 DEF CircularBuffers, BufferEntry
<1>4. Commands(b) = [k \in 1 .. n |-> b.entry[SlotAt(b, k-1)].data]
  BY <1>1 DEF Commands
<1>5. Commands(b) \in [1 .. n -> Seq(Bytes)]
  BY <1>3, <1>4
<1>6. Commands(b) \in Seq(Seq(Bytes)) /\ Len(Commands(b)) = n
  BY <1>2, <1>5
<1>7. ASSUME NEW k \in Slots, k < n
      PROVE  Commands(b)[k+1] = b.entry[SlotAt(b, k)].data
  <2>1. k + 1 \in 1 .. n /\ (k + 1) - 1 = k
    BY <1>2, <1>7 DEF Slots
  <2> QED BY <1>4, <2>1
<1> QED BY <1>1, <1>6, <1>7

(* What the loop that looks for a position has passed after k slots: the   *)
(* commands among the first k, end to end.                                 *)
LEMMA SizeIs ==
  ASSUME NEW b \in CircularBuffers, WellFormed(b), NEW k \in 0 .. N
  PROVE  SizeBefore(b)[k]
           = IF k < ValidEntries(b) THEN Len(FlattenSeq(SubSeq(Commands(b), 1, k)))
                                    ELSE Len(FlattenSeq(Commands(b)))
<1> DEFINE c == Commands(b)
           s == SizeBefore(b)
<1>1. PICK n \in 0 .. N : n = ValidEntries(b)
  BY RingSlots
<1>2. c \in Seq(Seq(Bytes)) /\ Len(c) = n /\ n \in Nat /\ N \in Nat
  BY <1>1, CommandsType, NAssumption
<1>3. SubSeq(c, 1, n) = c /\ SubSeq(c, 1, 0) = <<>>
  BY <1>2
<1>4. FlattenSeq(<<>>) = <<>> /\ Len(<<>>) = 0
  BY DEF FlattenSeq
<1> DEFINE upto(i) == Len(FlattenSeq(SubSeq(c, 1, i)))
           T == {i \in 0 .. N : s[i] = upto(IF i < n THEN i ELSE n)}
<1>5. s[0] = 0 /\ s \in [0 .. N -> Nat]
  BY SizeBeforeZero, SizeBeforeType
<1>6. ASSUME NEW i \in Slots
      PROVE  s[i+1] = s[i] + Len(b.entry[SlotAt(b, i)].data)
  BY SizeBeforeType
<1>7. ASSUME NEW i \in Slots, i < n
      PROVE  upto(i+1) = upto(i) + Len(b.entry[SlotAt(b, i)].data)
  <2>1. i + 1 \in 1 .. Len(c) /\ (i + 1) - 1 = i
    BY <1>2, <1>7 DEF Slots
  <2>2. FlattenSeq(SubSeq(c, 1, i+1)) = FlattenSeq(SubSeq(c, 1, i)) \o c[i+1]
    BY <1>2, <2>1, FlattenStep
  <2>3. SubSeq(c, 1, i) \in Seq(Seq(Bytes)) /\ c[i+1] \in Seq(Bytes)
    BY <1>2, <2>1
  <2>4. FlattenSeq(SubSeq(c, 1, i)) \in Seq(Bytes)
    BY <2>3, FlattenType
  <2>5. c[i+1] = b.entry[SlotAt(b, i)].data
    BY <1>1, <1>7, CommandsType
  <2>6. Len(FlattenSeq(SubSeq(c, 1, i+1)))
          = Len(FlattenSeq(SubSeq(c, 1, i))) + Len(c[i+1])
    BY <2>2, <2>3, <2>4, ConcatProperties
  <2> QED BY <2>5, <2>6
<1>8. ASSUME NEW i \in Slots, ~ (i < n)
      PROVE  Len(b.entry[SlotAt(b, i)].data) = 0
  <2>1. SlotAt(b, i) \in Slots /\ ~ HoldsCommand(b, SlotAt(b, i))
    BY <1>1, <1>8, RingSlots, SlotAtType, NAssumption DEF Slots
  <2> QED BY <2>1 DEF WellFormed, EmptyEntry
<1> HIDE DEF c, s
<1>9. 0 \in T
  <2>1. upto(0) = 0
    BY <1>3, <1>4
  <2>2. s[0] = 0
    BY <1>5
  <2>3. 0 \in 0 .. N /\ (0 < n \/ n = 0)
    BY <1>2
  <2> HIDE DEF upto
  <2> QED BY <2>1, <2>2, <2>3
<1>10. ASSUME NEW i \in 0 .. N, i # N, i \in T
       PROVE  i + 1 \in T
  <2>1. i \in Slots /\ i + 1 \in 0 .. N /\ i \in Nat
    BY <1>2, <1>10 DEF Slots
  <2> DEFINE l == Len(b.entry[SlotAt(b, i)].data)
  <2>2. s[i+1] = s[i] + l /\ s[i] \in Nat
    BY <1>5, <1>6, <2>1
  <2>3. CASE i < n
    <3>1. upto(i+1) = upto(i) + l /\ s[i] = upto(i)
      BY <1>7, <1>10, <2>1, <2>3
    <3>2. (IF i + 1 < n THEN i + 1 ELSE n) = i + 1
      BY <1>2, <2>1, <2>3
    <3> HIDE DEF upto, l
    <3> QED BY <2>1, <2>2, <3>1, <3>2
  <2>4. CASE ~ (i < n)
    <3>1. l = 0 /\ s[i] = upto(n)
      BY <1>8, <1>10, <2>1, <2>4
    <3>2. (IF i + 1 < n THEN i + 1 ELSE n) = n
      BY <1>2, <2>1, <2>4
    <3> HIDE DEF upto, l
    <3> QED BY <2>1, <2>2, <3>1, <3>2
  <2> QED BY <2>3, <2>4
<1> HIDE DEF T
<1>11. k \in T
  BY <1>2, <1>9, <1>10, IntervalInduction
<1> QED BY <1>1, <1>3, <1>11 DEF T, c, s

(* The loop over all slots in their order in memory finds the same size as *)
(* the stream: a sum does not depend on where around the ring it starts.   *)
LEMMA RotatedSum ==
  ASSUME NEW g \in [Slots -> Nat], NEW o \in Slots, NEW h \in [Slots -> Nat],
         \A k \in Slots : h[k] = g[IF o + k < N THEN o + k ELSE o + k - N]
  PROVE  RunningSum(h)[N] = RunningSum(g)[N]
<1> DEFINE s == RunningSum(g)
           r == RunningSum(h)
<1>1. /\ s \in [0 .. N -> Nat] /\ r \in [0 .. N -> Nat]
      /\ s[0] = 0 /\ r[0] = 0
  BY RunningSumType, RunningSumDef, NAssumption
<1>2. ASSUME NEW k \in Slots
      PROVE  s[k+1] = s[k] + g[k] /\ r[k+1] = r[k] + h[k]
  <2>1. k + 1 \in 0 .. N /\ k + 1 # 0 /\ (k + 1) - 1 = k
    BY NAssumption DEF Slots
  <2>2. s[k+1] = s[(k+1)-1] + g[(k+1)-1]
    BY <2>1, RunningSumDef
  <2>3. r[k+1] = r[(k+1)-1] + h[(k+1)-1]
    BY <2>1, RunningSumDef
  <2> QED BY <2>1, <2>2, <2>3
<1>3. PICK n \in Nat, a \in Nat : n = N /\ a = o /\ a < n
  BY NAssumption DEF Slots
<1> DEFINE T == {k \in 0 .. N :
                   r[k] = IF a + k <= n THEN s[a + k] - s[a]
                          ELSE s[n] - s[a] + s[a + k - n]}
<1> HIDE DEF s, r
<1>4. 0 \in T
  <2>1. a \in 0 .. N /\ a + 0 = a /\ a <= n /\ 0 \in 0 .. N
    BY <1>3
  <2>2. s[a] \in Nat
    BY <1>1, <2>1
  <2> QED BY <1>1, <2>1, <2>2
<1>5. ASSUME NEW k \in 0 .. N, k # N, k \in T PROVE k + 1 \in T
  <2>1. k \in Slots /\ k + 1 \in 0 .. N /\ k \in Nat
    BY <1>3, <1>5 DEF Slots
  <2>2. r[k+1] = r[k] + h[k]
    BY <1>2, <2>1
  <2>3. CASE a + k < n
    <3>1. a + k \in Slots /\ (a + k) + 1 = a + (k + 1) /\ a + (k + 1) <= n
          /\ a + k <= n /\ a + k \in 0 .. N /\ a + (k + 1) \in 0 .. N /\ a \in 0 .. N
      BY <1>3, <2>1, <2>3 DEF Slots
    <3>2. s[a + (k+1)] = s[a + k] + g[a + k] /\ h[k] = g[a + k]
      BY <1>2, <1>3, <2>1, <2>3, <3>1
    <3>3. /\ s[a + k] \in Nat /\ s[a] \in Nat /\ g[a + k] \in Nat
      BY <1>1, <3>1
    <3>4. r[k] = s[a + k] - s[a]
      BY <1>5, <3>1
    <3>5. r[k+1] = s[a + (k+1)] - s[a]
      BY <2>2, <3>2, <3>3, <3>4
    <3> QED BY <2>1, <3>1, <3>5
  <2>4. CASE ~ (a + k < n)
    <3>1. PICK j \in Nat : j = a + k - n
      BY <1>3, <2>1, <2>4
    <3>2. /\ j \in Slots /\ j + 1 = a + (k + 1) - n /\ ~ (a + (k + 1) <= n)
          /\ j \in 0 .. N /\ j + 1 \in 0 .. N /\ a \in 0 .. N /\ n \in 0 .. N
      BY <1>3, <1>5, <2>1, <2>4, <3>1 DEF Slots
    <3>3. s[j + 1] = s[j] + g[j] /\ h[k] = g[j]
      BY <1>2, <1>3, <2>1, <2>4, <3>1, <3>2
    <3>4. s[j] \in Nat /\ s[a] \in Nat /\ s[n] \in Nat /\ g[j] \in Nat
      BY <1>1, <3>2
    <3>5. r[k] = s[n] - s[a] + s[j]
      <4>1. CASE a + k <= n
        <5>1. a + k = n /\ j = 0
          BY <1>3, <2>1, <2>4, <3>1, <4>1
        <5>2. r[k] = s[n] - s[a] /\ s[j] = 0
          BY <1>1, <1>5, <4>1, <5>1
        <5> QED BY <3>4, <5>2
      <4>2. CASE ~ (a + k <= n)
        BY <1>5, <3>1, <4>2
      <4> QED BY <4>1, <4>2
    <3>6. r[k+1] = s[n] - s[a] + s[j + 1]
      BY <2>2, <3>3, <3>4, <3>5
    <3> QED BY <2>1, <3>2, <3>6
  <2> QED BY <2>3, <2>4
<1> HIDE DEF T
<1>6. N \in T
  <2>1. N \in Nat /\ N \in 0 .. N
    BY NAssumption
  <2> QED BY <1>4, <1>5, <2>1, IntervalInduction
<1>7. r[n] = s[n]
  <2>1. a \in 0 .. N /\ n \in 0 .. N
    BY <1>3
  <2>2. s[a] \in Nat /\ s[n] \in Nat
    BY <1>1, <2>1
  <2>3. CASE a = 0
    BY <1>1, <1>3, <1>6, <2>2, <2>3 DEF T
  <2>4. CASE a # 0
    <3>1. ~ (a + n <= n) /\ a + n - n = a
      BY <1>3, <2>4
    <3>2. r[n] = s[n] - s[a] + s[a]
      BY <1>3, <1>6, <3>1 DEF T
    <3> QED BY <2>2, <3>2
  <2> QED BY <2>3, <2>4
<1> QED BY <1>3, <1>7 DEF s, r

(* The size of everything recorded is that before the last slot. *)
LEMMA TotalIs ==
  ASSUME buffer \in CircularBuffers, WellFormed(buffer)
  PROVE  TotalSize = Len(FlattenSeq(Commands(buffer)))
<1> DEFINE g == [i \in Slots |-> IF buffer.entry[i].buffptr # NULL
                                   THEN Len(buffer.entry[i].data) ELSE 0]
           h == [k \in Slots |-> Len(buffer.entry[SlotAt(buffer, k)].data)]
<1>1. \A i \in Slots : buffer.entry[i].data \in Seq(Bytes)
  BY DEF CircularBuffers, BufferEntry
<1>2. ASSUME NEW i \in Slots
      PROVE  g[i] = Len(buffer.entry[i].data)
  <2>1. CASE buffer.entry[i].buffptr = NULL
    <3>1. buffer.entry[i].data = <<>>
      BY <2>1 DEF WellFormed, EmptyEntry
    <3> QED BY <2>1, <3>1
  <2> QED BY <2>1
<1>3. \A k \in Slots : k \in Nat /\ SlotAt(buffer, k) \in Slots
  BY SlotAtType, NAssumption DEF Slots
<1>4. g \in [Slots -> Nat] /\ h \in [Slots -> Nat]
  BY <1>1, <1>3, SMTT(30)
<1>5. buffer.out_offs \in Slots
  BY DEF CircularBuffers
<1>6. ASSUME NEW k \in Slots
      PROVE  h[k] = g[IF buffer.out_offs + k < N THEN buffer.out_offs + k
                                                 ELSE buffer.out_offs + k - N]
  <2>1. SlotAt(buffer, k) = IF buffer.out_offs + k < N THEN buffer.out_offs + k
                                                 ELSE buffer.out_offs + k - N
    BY RingSlots
  <2>2. h[k] = g[SlotAt(buffer, k)]
    BY <1>2, <1>3
  <2> QED BY <2>1, <2>2
<1>7. TotalSize = RunningSum(g)[N] /\ SizeBefore(buffer)[N] = RunningSum(h)[N]
  BY DEF TotalSize, SizeBefore
<1> HIDE DEF g, h
<1>8. TotalSize = SizeBefore(buffer)[N]
  BY <1>4, <1>5, <1>6, <1>7, RotatedSum
<1>9. N \in 0 .. N /\ ~ (N < ValidEntries(buffer))
  BY RingSlots, NAssumption
<1> QED BY <1>8, <1>9, SizeIs

(* Adding an entry adds its command at the end, and drops the oldest one   *)
(* once there are N.                                                       *)
LEMMA AddCommands ==
  ASSUME NEW b \in CircularBuffers, WellFormed(b),
         NEW e \in BufferEntry, e.buffptr # NULL
  PROVE  Commands(aesd_circular_buffer_add_entry(b, e))
           = AbstractLog!LastN(Append(Commands(b), e.data))
<1> DEFINE r == aesd_circular_buffer_add_entry(b, e)
           c == Commands(b)
           d == Commands(r)
           s == Append(c, e.data)
<1>1. /\ r.entry = [b.entry EXCEPT ![b.in_offs] = e]
      /\ r.in_offs = Advance(b.in_offs)
      /\ r.out_offs = IF b.full THEN Advance(b.out_offs) ELSE b.out_offs
      /\ r.full <=> b.full \/ r.in_offs = r.out_offs
  BY DEF aesd_circular_buffer_add_entry
<1>2. r \in CircularBuffers /\ WellFormed(r)
  BY AddEntryType, AddEntryWellFormed
<1> HIDE DEF r
<1>3. /\ N \in Nat /\ N > 0 /\ b.full \in BOOLEAN
      /\ b.in_offs \in 0 .. N-1 /\ b.out_offs \in 0 .. N-1
      /\ DOMAIN b.entry = 0 .. N-1 /\ e.data \in Seq(Bytes)
  BY NAssumption DEF CircularBuffers, BufferEntry, Slots
<1>4. IF b.full THEN b.in_offs = b.out_offs ELSE b.out_offs = 0
  BY DEF WellFormed
<1>5. \A i \in Slots :
        r.entry[i].data = IF i = b.in_offs THEN e.data ELSE b.entry[i].data
  BY <1>1, <1>3 DEF Slots
<1>6. PICK n \in 0 .. N, m \in 0 .. N :
        /\ n = IF b.full THEN N ELSE b.in_offs
        /\ m = IF r.full THEN N ELSE r.in_offs
        /\ c \in Seq(Seq(Bytes)) /\ Len(c) = n
        /\ d \in Seq(Seq(Bytes)) /\ Len(d) = m
        /\ \A k \in Slots : k < n => c[k+1] = b.entry[SlotAt(b, k)].data
        /\ \A k \in Slots : k < m => d[k+1] = r.entry[SlotAt(r, k)].data
  <2>1. c \in Seq(Seq(Bytes)) /\ Len(c) = ValidEntries(b)
        /\ \A k \in Slots : k < ValidEntries(b) =>
             c[k+1] = b.entry[SlotAt(b, k)].data
    BY CommandsType
  <2>2. d \in Seq(Seq(Bytes)) /\ Len(d) = ValidEntries(r)
        /\ \A k \in Slots : k < ValidEntries(r) =>
             d[k+1] = r.entry[SlotAt(r, k)].data
    BY <1>2, CommandsType
  <2>3. /\ ValidEntries(b) = IF b.full THEN N ELSE b.in_offs
        /\ ValidEntries(b) \in 0 .. N
    BY RingSlots
  <2>4. /\ ValidEntries(r) = IF r.full THEN N ELSE r.in_offs
        /\ ValidEntries(r) \in 0 .. N
    BY <1>2, RingSlots
  <2> HIDE DEF c, d
  <2> QED BY <2>1, <2>2, <2>3, <2>4
<1>7. ASSUME NEW k \in Slots
      PROVE  /\ SlotAt(b, k) = IF b.out_offs + k < N THEN b.out_offs + k
                                                     ELSE b.out_offs + k - N
             /\ SlotAt(r, k) = IF r.out_offs + k < N THEN r.out_offs + k
                                                     ELSE r.out_offs + k - N
             /\ SlotAt(b, k) \in Slots /\ SlotAt(r, k) \in Slots /\ k \in Nat
  BY <1>2, RingSlots, SlotAtType DEF Slots
<1> HIDE DEF c, d
<1>8. /\ s \in Seq(Seq(Bytes)) /\ Len(s) = n + 1
      /\ \A i \in 1 .. n : s[i] = c[i]
      /\ s[n + 1] = e.data
  BY <1>3, <1>6, SMTT(30)
<1>9. n \in Nat /\ m \in Nat
  BY <1>3
<1> HIDE DEF s
<1>10. CASE b.full
  <2>1. /\ n = N /\ m = N /\ r.full
        /\ r.out_offs = IF b.out_offs = N-1 THEN 0 ELSE b.out_offs + 1
    BY <1>1, <1>6, <1>10 DEF Advance
  <2> DEFINE t == SubSeq(s, 2, n + 1)
  <2>2. t \in Seq(Seq(Bytes)) /\ Len(t) = n /\ \A i \in 1 .. n : t[i] = s[i + 1]
    BY <1>8, <1>9
  <2> HIDE DEF t
  <2>3. ASSUME NEW i \in 1 .. n PROVE d[i] = t[i]
    <3>1. i - 1 \in Slots /\ i - 1 < m /\ (i - 1) + 1 = i
      BY <1>3, <2>1 DEF Slots
    <3>2. d[i] = r.entry[SlotAt(r, i - 1)].data
      BY <1>6, <3>1
    <3>3. CASE i = n
      <4>1. SlotAt(r, i - 1) = b.out_offs
        BY <1>3, <1>7, <2>1, <3>1, <3>3
      <4>2. d[i] = e.data
        BY <1>4, <1>5, <1>7, <1>10, <3>1, <3>2, <4>1
      <4> QED BY <1>8, <2>2, <3>3, <4>2
    <3>4. CASE i # n
      <4>1. i \in Slots /\ i < n /\ i + 1 \in 1 .. n
        BY <1>3, <2>1, <3>4 DEF Slots
      <4>2. SlotAt(r, i - 1) = SlotAt(b, i) /\ SlotAt(b, i) # b.out_offs
        <5>1. PICK o \in Nat : o = b.out_offs /\ o < N
          BY <1>3
        <5>2. SlotAt(b, i) = IF o + i < N THEN o + i ELSE o + i - N
          BY <1>7, <4>1, <5>1
        <5>3. PICK q \in Nat : q = r.out_offs /\ q = IF o = N-1 THEN 0 ELSE o + 1
          BY <1>3, <2>1, <5>1
        <5>4. SlotAt(r, i - 1) = IF q + (i - 1) < N THEN q + (i - 1)
                                                   ELSE q + (i - 1) - N
          BY <1>7, <3>1, <5>3
        <5> QED BY <1>3, <2>1, <4>1, <5>1, <5>2, <5>3, <5>4, SMTT(30)
      <4>3. d[i] = b.entry[SlotAt(b, i)].data
        BY <1>4, <1>5, <1>7, <1>10, <3>1, <3>2, <4>2
      <4>4. c[i+1] = b.entry[SlotAt(b, i)].data
        BY <1>6, <4>1
      <4> QED BY <1>8, <2>2, <4>1, <4>3, <4>4
    <3> QED BY <3>3, <3>4
  <2>4. d = t
    <3>1. Len(d) = Len(t) /\ \A i \in 1 .. Len(d) : d[i] = t[i]
      BY <1>6, <2>1, <2>2, <2>3
    <3> QED BY <1>6, <2>2, <3>1, SeqEqual
  <2>5. AbstractLog!LastN(s) = t
    BY <1>3, <1>8, <2>1, SMTT(30) DEF AbstractLog!LastN, t
  <2> QED BY <2>4, <2>5 DEF r, c, d, s
<1>11. CASE ~ b.full
  <2>1. /\ n = b.in_offs /\ m = n + 1 /\ b.out_offs = 0 /\ r.out_offs = 0
        /\ m <= N
    BY <1>1, <1>3, <1>4, <1>6, <1>11 DEF Advance
  <2>2. ASSUME NEW i \in 1 .. m PROVE d[i] = s[i]
    <3>1. i - 1 \in Slots /\ i - 1 < m /\ (i - 1) + 1 = i
      BY <1>3, <2>1 DEF Slots
    <3>2. SlotAt(r, i - 1) = i - 1 /\ SlotAt(b, i - 1) = i - 1
      BY <1>3, <1>7, <2>1, <3>1 DEF Slots
    <3>3. d[i] = r.entry[i - 1].data
      BY <1>6, <3>1, <3>2
    <3>4. CASE i = m
      BY <1>5, <1>8, <1>9, <2>1, <3>1, <3>3, <3>4
    <3>5. CASE i # m
      <4>1. i - 1 < n /\ i \in 1 .. n /\ i - 1 # b.in_offs
        BY <1>9, <2>1, <3>5
      <4>2. c[i] = b.entry[i - 1].data
        BY <1>6, <3>1, <3>2, <4>1
      <4> QED BY <1>5, <1>8, <3>1, <3>3, <4>1, <4>2
    <3> QED BY <3>4, <3>5
  <2>3. d = s
    BY <1>6, <1>8, <2>1, <2>2, SeqEqual
  <2>4. AbstractLog!LastN(s) = s
    BY <1>3, <1>8, <2>1 DEF AbstractLog!LastN
  <2> QED BY <2>3, <2>4 DEF r, c, d, s
<1> QED BY <1>10, <1>11

(* What is found at a position is what the stream has there; and where     *)
(* nothing is found the stream has ended.                                  *)
LEMMA FindInStream ==
  ASSUME NEW b \in CircularBuffers, WellFormed(b), NEW pos \in Nat,
         NEW e, e = aesd_circular_buffer_find_entry_offset_for_fpos(b, pos)
  PROVE  /\ FlattenSeq(Commands(b)) \in Seq(Bytes)
         /\ e.found =>
              LET data == b.entry[e.idx].data
                  s == FlattenSeq(Commands(b))
              IN  /\ pos + (Len(data) - e.offset) <= Len(s)
                  /\ \A i \in 1 .. Len(data) - e.offset :
                       s[pos + i] = data[e.offset + i]
         /\ ~ e.found => Len(FlattenSeq(Commands(b))) <= pos
<1> DEFINE c == Commands(b)
           s == FlattenSeq(c)
<1>1. PICK n \in 0 .. N : n = ValidEntries(b)
  BY RingSlots
<1>2. /\ c \in Seq(Seq(Bytes)) /\ Len(c) = n /\ n \in Nat /\ N \in Nat
      /\ \A k \in Slots : k < n => c[k+1] = b.entry[SlotAt(b, k)].data
  BY <1>1, CommandsType, NAssumption
<1> HIDE DEF c
<1>3. s \in Seq(Bytes)
  BY <1>2, FlattenType
<1>4. PICK l \in Nat : l = Len(s)
  BY <1>3
<1>5. SizeBefore(b) \in [0 .. N -> Nat]
  BY SizeBeforeType
<1>6. CASE \E k \in Slots : Found(b, pos, k)
  <2> DEFINE k == CHOOSE k \in Slots : Found(b, pos, k)
  <2>1. k \in Slots /\ Found(b, pos, k)
    BY <1>6
  <2>2. e = [found |-> TRUE, idx |-> SlotAt(b, k),
             offset |-> pos - SizeBefore(b)[k]]
    BY <1>6 DEF aesd_circular_buffer_find_entry_offset_for_fpos
  <2> HIDE DEF k
  <2>3. k \in Nat /\ k < n /\ k \in 0 .. N
    BY <1>1, <1>2, <2>1 DEF Found, Slots
  <2>4. PICK a \in Nat : a = SizeBefore(b)[k] /\ a <= pos
    BY <1>5, <2>1, <2>3 DEF Found
  <2>5. a = Len(FlattenSeq(SubSeq(c, 1, k)))
    BY <1>1, <2>3, <2>4, SizeIs DEF c
  <2> DEFINE data == b.entry[e.idx].data
  <2>6. data = c[k+1] /\ e.found /\ e.offset = pos - a
    BY <1>2, <2>1, <2>2, <2>3, <2>4
  <2>7. k + 1 \in 1 .. Len(c) /\ (k + 1) - 1 = k
    BY <1>2, <2>3
  <2>8. PICK m \in Nat : m = Len(data)
    BY <1>2, <2>6, <2>7
  <2>9. a + m <= l
    BY <1>2, <1>4, <2>5, <2>6, <2>7, <2>8, FlattenBound
  <2> HIDE DEF data
  <2>10. PICK o \in Nat : o = e.offset /\ o = pos - a
    BY <2>4, <2>6
  <2>11. ASSUME NEW i \in 1 .. m - o
         PROVE  s[pos + i] = data[o + i]
    <3>1. o + i \in 1 .. m /\ a + (o + i) = pos + i
      <4>1. i \in Nat /\ 1 <= i /\ i <= m - o
        OBVIOUS
      <4>2. pos = a + o
        BY <2>10
      <4> QED BY <4>1, <4>2
    <3>2. o + i \in 1 .. Len(c[k+1])
      BY <2>6, <2>8, <3>1
    <3>3. FlattenSeq(c)[Len(FlattenSeq(SubSeq(c, 1, (k+1) - 1))) + (o + i)]
            = c[k+1][o + i]
      BY <1>2, <2>7, <3>2, FlattenAt
    <3>4. s[a + (o + i)] = c[k+1][o + i]
      BY <2>5, <2>7, <3>3
    <3> HIDE DEF s
    <3> QED BY <2>6, <3>1, <3>4
  <2>12. pos + (m - o) <= l
    BY <2>4, <2>8, <2>9, <2>10
  <2> HIDE DEF s
  <2>13. e.found /\ pos + (Len(data) - e.offset) <= Len(s)
         /\ \A i \in 1 .. Len(data) - e.offset : s[pos + i] = data[e.offset + i]
    BY <1>4, <2>6, <2>8, <2>10, <2>11, <2>12
  <2> QED BY <1>3, <2>13 DEF data, s, c
<1>7. CASE ~ \E k \in Slots : Found(b, pos, k)
  <2>1. ~ e.found
    BY <1>7 DEF aesd_circular_buffer_find_entry_offset_for_fpos, NotFound
  <2> DEFINE T == {k \in 0 .. N : k <= n => SizeBefore(b)[k] <= pos}
  <2>2. 0 \in T
    BY <1>2, SizeBeforeZero
  <2>3. ASSUME NEW k \in 0 .. N, k # N, k \in T PROVE k + 1 \in T
    <3>1. k \in Slots /\ k + 1 \in 0 .. N /\ k \in Nat
      BY <1>2, <2>3 DEF Slots
    <3>2. SizeBefore(b)[k] \in Nat /\ SizeBefore(b)[k+1] \in Nat
      BY <1>5, <3>1
    <3>3. CASE k + 1 <= n
      <4>1. k < n /\ SizeBefore(b)[k] <= pos
        BY <1>2, <2>3, <3>1, <3>3
      <4>2. ~ (pos < SizeBefore(b)[k+1])
        BY <1>1, <1>7, <3>1, <4>1 DEF Found
      <4> QED BY <3>1, <3>2, <4>2
    <3>4. CASE ~ (k + 1 <= n)
      BY <3>1, <3>4
    <3> QED BY <3>3, <3>4
  <2> HIDE DEF T
  <2>4. n \in T
    BY <1>2, <2>2, <2>3, IntervalInduction
  <2>5. SizeBefore(b)[n] <= pos /\ ~ (n < n)
    BY <1>2, <2>4 DEF T
  <2>6. SizeBefore(b)[n] = Len(s)
    BY <1>1, <2>5, SizeIs DEF c
  <2>7. Len(s) <= pos
    BY <2>5, <2>6
  <2> QED BY <1>3, <2>1, <2>7 DEF s, c
<1> QED BY <1>6, <1>7

(* A piece of a sequence, index by index. *)
LEMMA Piece ==
  ASSUME NEW S, NEW s \in Seq(S), NEW pos \in Nat, NEW fin \in Nat,
         pos <= fin, fin <= Len(s)
  PROVE  /\ SubSeq(s, pos+1, fin) \in Seq(S)
         /\ Len(SubSeq(s, pos+1, fin)) = fin - pos
         /\ \A i \in 1 .. fin - pos : SubSeq(s, pos+1, fin)[i] = s[pos + i]
<1>1. PICK l \in Nat, n \in Nat : l = Len(s) /\ n = fin - pos
  OBVIOUS
<1>2. /\ pos + 1 \in Int
      /\ \A i \in pos + 1 .. fin : s[i] \in S
      /\ fin - (pos + 1) + 1 = n
      /\ \A i \in 1 .. n : (pos + 1) + i - 1 = pos + i
      /\ IF pos + 1 <= fin THEN TRUE ELSE n = 0
  BY <1>1
<1> QED BY <1>1, <1>2, SubSeqProperties

-----------------------------------------------------------------------------
(* The steps of a system call.                                             *)
StepOf(p) ==
  \/ \E f \in Files, r \in Requests : Syscall(p, f, r)
  \/ IoctlRefused(p) \/ Lock(p) \/ Handler(p) \/ Return(p)

(* Only a write that completes changes the ring. *)
LEMMA StepKeepsRing ==
  ASSUME NEW p \in Procs, StepOf(p), ~ aesd_write_append(p)
  PROVE  UNCHANGED <<boot, buffer, partial>>
BY DEF StepOf, dev, Syscall, IoctlRefused, Lock, Return, Handler, Read, Write,
       aesd_read_copy, aesd_read_fault, aesd_read_done, aesd_write_copy,
       aesd_write_refused, aesd_write_nomem, aesd_llseek, aesd_unlocked_ioctl

(* A step of a process leaves the others' calls alone. *)
LEMMA StepKeepsOthers ==
  ASSUME TypeOK, NEW p \in Procs, StepOf(p)
  PROVE  \A q \in Procs : q # p => call'[q] = call[q]
<1>1. CASE \E f \in Files, r \in Requests : Syscall(p, f, r)
  BY <1>1 DEF Syscall, TypeOK
<1>2. CASE IoctlRefused(p) \/ Lock(p) \/ Handler(p)
  BY <1>2, CallStep DEF InCall
<1>3. CASE Return(p)
  BY <1>3 DEF Return, TypeOK
<1> QED BY <1>1, <1>2, <1>3 DEF StepOf

-----------------------------------------------------------------------------
(* The inductive invariant.                                                *)

(* No command is larger than what kmalloc serves.                          *)
SizesOK ==
  /\ Len(partial.data) <= MaxAlloc
  /\ \A i \in Slots : Len(buffer.entry[i].data) <= MaxAlloc

(* A read has copied what the stream holds from where it started up to     *)
(* where it is.                                                            *)
Copied(c, s) ==
  LET start == c.pos - Len(c.done)
  IN  /\ start \in 0 .. MaxPos /\ Len(c.done) <= c.req.count
      /\ c.done = SubSeq(s, start + 1, c.pos)
      /\ c.done # <<>> => c.pos <= Len(s)

ReadOf(p) ==
  /\ call[p].pc = "start" =>
       call[p].done = <<>> /\ (call[p].req.op = "read" => call[p].pos <= MaxPos)
  /\ InHandler(p, "read", "locked") =>
       Copied(call[p], FlattenSeq(Commands(buffer)))

ReadOK == \A p \in Procs : ReadOf(p)

(* Each step keeps the sizes of the entries within those of writes. *)
LEMMA SizesStep == TypeOK /\ SizesOK /\ [Next]_vars => SizesOK'
<1> SUFFICES ASSUME TypeOK, SizesOK, [Next]_vars PROVE SizesOK'
  OBVIOUS
<1>1. ASSUME NEW p \in Procs, aesd_write_append(p) PROVE SizesOK'
  <2> DEFINE d == call[p].req.data
  <2>1. d \in Seq(Bytes) /\ partial.data \in Seq(Bytes)
    BY <1>1, HandlerCall, RequestTypes DEF aesd_write_append, TypeOK, BufferEntry
  <2>2. PICK newbuf \in Blocks \ heap :
          LET e == [buffptr |-> newbuf, data |-> partial.data \o d]
          IN  IF Complete(d)
                THEN /\ buffer' = aesd_circular_buffer_add_entry(buffer, e)
                     /\ partial' = EmptyEntry
                ELSE partial' = e /\ UNCHANGED buffer
    BY <1>1 DEF aesd_write_append
  <2> DEFINE e == [buffptr |-> newbuf, data |-> partial.data \o d]
  <2>3. Len(partial.data \o d) <= MaxAlloc
    <3>1. Len(partial.data) + Len(d) <= MaxAlloc
      BY <1>1 DEF aesd_write_append
    <3> QED BY <2>1, <3>1, ConcatProperties
  <2>4. e.data = partial.data \o d
    OBVIOUS
  <2> HIDE DEF d, e
  <2>5. CASE Complete(d)
    <3>1. buffer' = aesd_circular_buffer_add_entry(buffer, e) /\ partial' = EmptyEntry
      BY <2>2, <2>5 DEF e
    <3>2. \A i \in Slots :
            buffer'.entry[i] = IF i = buffer.in_offs THEN e ELSE buffer.entry[i]
      BY <3>1 DEF aesd_circular_buffer_add_entry, TypeOK, CircularBuffers
    <3>3. Len(partial'.data) <= MaxAlloc
      BY <3>1, BoundsAssumption DEF EmptyEntry
    <3> QED BY <2>3, <2>4, <3>2, <3>3 DEF SizesOK
  <2>6. CASE ~ Complete(d)
    <3>1. partial' = e /\ buffer' = buffer
      BY <2>2, <2>6 DEF e
    <3> QED BY <2>3, <2>4, <3>1 DEF SizesOK
  <2> QED BY <2>5, <2>6
<1>2. CASE AddDevice \/ InitBuffer
  <2>1. buffer' = aesd_circular_buffer_init
        /\ (partial' = EmptyEntry \/ partial' = partial)
    BY <1>2 DEF AddDevice, InitBuffer
  <2>2. \A i \in Slots : Len(buffer'.entry[i].data) <= MaxAlloc
    BY <2>1, InitWellFormed, BoundsAssumption DEF EmptyEntry
  <2>3. Len(partial'.data) <= MaxAlloc
    BY <2>1, BoundsAssumption DEF EmptyEntry, SizesOK
  <2> QED BY <2>2, <2>3 DEF SizesOK
<1>3. ASSUME UNCHANGED <<buffer, partial>> PROVE SizesOK'
  BY <1>3 DEF SizesOK
<1>4. CASE \/ InitMutex \/ aesd_cleanup_module \/ UNCHANGED vars
           \/ \E f \in Files : Open(f) \/ Close(f)
  BY <1>3, <1>4 DEF InitMutex, aesd_cleanup_module, vars, Open, OpenFile, Close,
                    dev
<1>5. ASSUME NEW p \in Procs, StepOf(p), ~ aesd_write_append(p)
      PROVE SizesOK'
  BY <1>3, <1>5, StepKeepsRing
<1> QED BY <1>1, <1>2, <1>4, <1>5 DEF Next, Module, StepOf

(* A read that is not stepped, on a ring that keeps its commands.          *)
LEMMA ReadKept ==
  ASSUME NEW q \in Procs, ReadOf(q), call'[q] = call[q],
         InHandler(q, "read", "locked") => buffer' = buffer
  PROVE  ReadOf(q)'
<1>1. CASE InHandler(q, "read", "locked")
  <2>1. buffer' = buffer /\ call'[q] = call[q]
    BY <1>1
  <2> QED BY <2>1 DEF ReadOf, InHandler, Copied
<1>2. CASE ~ InHandler(q, "read", "locked")
  BY <1>2 DEF ReadOf, InHandler
<1> QED BY <1>1, <1>2

(* A handler that has returned is no longer a read in progress.            *)
LEMMA ReadEnded ==
  ASSUME NEW p \in Procs, call'[p].pc \notin {"start", "locked"}
  PROVE  ReadOf(p)'
BY DEF ReadOf, InHandler

(* A read that starts has copied nothing.                                 *)
LEMMA ReadLock ==
  ASSUME TypeOK, RingOK, NEW p \in Procs, ReadOf(p), Lock(p)
  PROVE  ReadOf(p)'
<1> DEFINE s == FlattenSeq(Commands(buffer))
<1>1. /\ call[p] \in Active /\ call[p].pc = "start" /\ buffer' = buffer
      /\ call' = [call EXCEPT ![p].pc = "locked"]
  BY ActiveCall DEF Lock, dev
<1>2. /\ call'[p].pc = "locked" /\ call'[p].req = call[p].req
      /\ call'[p].pos = call[p].pos /\ call'[p].done = call[p].done
  BY <1>1 DEF TypeOK, Active
<1>3. CASE call[p].req.op = "read"
  <2>1. /\ call[p].done = <<>> /\ call[p].pos <= MaxPos
        /\ call[p].pos \in Nat /\ call[p].req \in Requests
    BY <1>1, <1>3 DEF ReadOf, Active
  <2>2. call[p].req.count \in Nat
    BY <1>3, <2>1, RequestTypes
  <2>3. s \in Seq(Bytes)
    BY CommandsType, FlattenType DEF TypeOK, RingOK
  <2> HIDE DEF s
  <2>4. SubSeq(s, call[p].pos + 1, call[p].pos) = <<>>
    BY <2>1, SubSeqEmpty
  <2>5. PICK pos \in Nat : pos = call[p].pos
    BY <2>1
  <2>6. /\ call'[p].pos = pos /\ call'[p].done = <<>>
        /\ call'[p].req.count \in Nat
        /\ pos - 0 = pos /\ pos \in 0 .. MaxPos /\ Len(<<>>) = 0
        /\ SubSeq(s, pos + 1, pos) = <<>>
    BY <1>2, <2>1, <2>2, <2>4, <2>5, BoundsAssumption
  <2>7. Copied(call'[p], s)
    BY <2>6 DEF Copied
  <2>8. s = FlattenSeq(Commands(buffer'))
    BY <1>1 DEF s
  <2> QED BY <1>2, <2>7, <2>8 DEF ReadOf, InHandler
<1>4. CASE call[p].req.op # "read"
  BY <1>2, <1>4 DEF ReadOf, InHandler
<1> QED BY <1>3, <1>4

(* Each turn of the loop copies the next bytes of the stream.              *)
LEMMA ReadCopy ==
  ASSUME TypeOK, RingOK, NEW p \in Procs, ReadOf(p), aesd_read_copy(p)
  PROVE  ReadOf(p)'
<1> DEFINE s == FlattenSeq(Commands(buffer))
           c == call[p]
           e == aesd_circular_buffer_find_entry_offset_for_fpos(buffer, c.pos)
           data == buffer.entry[e.idx].data
           n == Smaller(c.req.count - Len(c.done), Len(data) - e.offset)
           copied == SubSeq(data, e.offset + 1, e.offset + n)
<1>1. /\ c \in Active /\ c.pos \in Nat /\ c.done \in Seq(Bytes)
      /\ c.req.count \in Nat /\ c.req.op = "read" /\ c.pc = "locked"
  BY HandlerCall, RequestTypes DEF aesd_read_copy, InHandler
<1>2. buffer \in CircularBuffers /\ WellFormed(buffer)
  BY DEF TypeOK, RingOK
<1>3. /\ InHandler(p, "read", "locked")
      /\ e.found /\ Len(c.done) < c.req.count /\ buffer' = buffer
      /\ call' = [call EXCEPT ![p].done = @ \o copied, ![p].pos = @ + n]
  BY DEF aesd_read_copy, dev
<1>4. Copied(c, s)
  BY <1>3 DEF ReadOf
<1>5. e.idx \in Slots /\ e.offset \in Nat /\ e.offset < Len(data)
  BY <1>1, <1>2, <1>3, FindInEntry
<1>6. data \in Seq(Bytes)
  BY <1>2, <1>5 DEF CircularBuffers, BufferEntry
<1>7. /\ s \in Seq(Bytes) /\ c.pos + (Len(data) - e.offset) <= Len(s)
      /\ \A i \in 1 .. Len(data) - e.offset : s[c.pos + i] = data[e.offset + i]
  BY <1>1, <1>2, <1>3, FindInStream
<1> HIDE DEF e, data, s
<1>8. PICK l \in Nat, m \in Nat : l = Len(s) /\ m = Len(data)
  BY <1>6, <1>7
<1>9. PICK k \in Nat, o \in Nat : k = Len(c.done) /\ o = e.offset
  BY <1>1, <1>5
<1>10. PICK count \in Nat, pos \in Nat : count = c.req.count /\ pos = c.pos
  BY <1>1
<1>11. PICK j \in Nat : j = n /\ o + j <= m /\ j <= count - k
  <2>1. k < count /\ o < m
    BY <1>3, <1>5, <1>8, <1>9, <1>10
  <2>2. n = Smaller(count - k, m - o)
    BY <1>8, <1>9, <1>10
  <2> HIDE DEF n
  <2>3. n \in Nat /\ o + n <= m
    BY <2>1, <2>2, CopySize
  <2> QED BY <2>1, <2>2, <2>3 DEF Smaller
<1> HIDE DEF n
<1>12. PICK start \in Nat : start = pos - k /\ start <= MaxPos
  BY <1>4, <1>8, <1>9, <1>10, BoundsAssumption DEF Copied
<1>13. /\ pos + (m - o) <= l
       /\ \A i \in 1 .. m - o : s[pos + i] = data[o + i]
  BY <1>7, <1>8, <1>9, <1>10
<1>14. start <= pos /\ pos + j <= l /\ k + j <= count /\ (pos + j) - (k + j) = start
  BY <1>11, <1>12, <1>13
<1>15. copied \in Seq(Bytes) /\ Len(copied) = j
  <2>1. /\ o + 1 \in Int /\ o + j \in Int
        /\ \A i \in o + 1 .. o + j : data[i] \in Bytes
        /\ (o + j) - (o + 1) + 1 = j
        /\ IF o + 1 <= o + j THEN TRUE ELSE j = 0
    <3>1. \A i \in 1 .. m : data[i] \in Bytes
      BY <1>6, <1>8
    <3>2. \A i \in o + 1 .. o + j : i \in 1 .. m
      BY <1>11
    <3> QED BY <3>1, <3>2
  <2>2. copied = SubSeq(data, o + 1, o + j)
    BY <1>9, <1>11
  <2> HIDE DEF copied
  <2> QED BY <2>1, <2>2, SubSeqProperties
<1>16. c.done \o copied = SubSeq(s, start + 1, pos + j)
  <2>1. c.done = SubSeq(s, start + 1, pos)
    BY <1>4, <1>8, <1>9, <1>10, <1>12 DEF Copied
  <2>2. \A i \in 1 .. j : s[pos + i] = data[o + i]
    BY <1>11, <1>13
  <2>3. pos + j <= Len(s) /\ o + j <= Len(data)
    BY <1>8, <1>9, <1>10, <1>11, <1>14
  <2>4. copied = SubSeq(data, o + 1, o + j)
    BY <1>9, <1>11
  <2> HIDE DEF copied
  <2>5. SubSeq(s, start+1, pos) \o SubSeq(data, o+1, o+j)
          = SubSeq(s, start+1, pos+j)
    <3>1. s \in Seq(Bytes) /\ data \in Seq(Bytes) /\ start <= pos
      BY <1>6, <1>7, <1>14
    <3>2. PICK fin \in Nat, stop \in Nat : fin = pos + j /\ stop = o + j
      OBVIOUS
    <3>3. /\ pos <= fin /\ fin <= Len(s) /\ fin - pos = j
          /\ o <= stop /\ stop <= Len(data) /\ stop - o = j
      BY <2>3, <3>2
    <3> DEFINE x == SubSeq(s, pos+1, fin)
               y == SubSeq(data, o+1, stop)
    <3>4. x \in Seq(Bytes) /\ Len(x) = j /\ \A i \in 1 .. j : x[i] = s[pos + i]
      BY <3>1, <3>3, Piece
    <3>5. y \in Seq(Bytes) /\ Len(y) = j /\ \A i \in 1 .. j : y[i] = data[o + i]
      BY <3>1, <3>3, Piece
    <3> HIDE DEF x, y
    <3>6. Len(x) = Len(y) /\ \A i \in 1 .. Len(x) : x[i] = y[i]
      BY <2>2, <3>4, <3>5
    <3>7. x = y
      BY <3>4, <3>5, <3>6, SeqEqual
    <3>8. SubSeq(s, start+1, pos) \o x = SubSeq(s, start+1, fin)
      BY <3>1, <3>3, SubSeqJoin DEF x
    <3> QED BY <3>2, <3>7, <3>8 DEF y
  <2> QED BY <2>1, <2>4, <2>5
<1> HIDE DEF copied
<1>17. Len(c.done \o copied) = k + j
  BY <1>1, <1>8, <1>9, <1>10, <1>15, ConcatProperties
<1>18. /\ call'[p].done = c.done \o copied /\ call'[p].pos = pos + j
       /\ call'[p].req = c.req /\ call'[p].pc = "locked"
  <2>1. call' = [call EXCEPT ![p] = [c EXCEPT !.done = c.done \o copied,
                                              !.pos = c.pos + j]]
    BY <1>3, <1>11
  <2>2. call'[p] = [c EXCEPT !.done = c.done \o copied, !.pos = c.pos + j]
    BY <2>1 DEF TypeOK
  <2> QED BY <1>1, <1>8, <1>9, <1>10, <2>2 DEF Active
<1>19. Copied(call'[p], s)
  <2>1. call'[p].pos - Len(call'[p].done) = start
    BY <1>14, <1>17, <1>18
  <2>2. start \in 0 .. MaxPos /\ Len(call'[p].done) <= call'[p].req.count
    BY <1>8, <1>9, <1>10, <1>12, <1>14, <1>17, <1>18, BoundsAssumption
  <2>3. call'[p].done = SubSeq(s, start + 1, call'[p].pos)
    BY <1>16, <1>18
  <2>4. call'[p].pos <= Len(s)
    BY <1>8, <1>9, <1>10, <1>14, <1>18
  <2> QED BY <2>1, <2>2, <2>3, <2>4 DEF Copied
<1>20. s = FlattenSeq(Commands(buffer'))
  BY <1>3 DEF s
<1> QED BY <1>18, <1>19, <1>20 DEF ReadOf, InHandler

(* A step that leaves the ring alone leaves the reads of others alone. *)
LEMMA StepKeepsReads ==
  ASSUME TypeOK, BootOK, RingOK, LockOK, ReadOK, NEW p \in Procs, StepOf(p)
  PROVE  ReadOK'
<1>1. ASSUME NEW q \in Procs, q # p PROVE ReadOf(q)'
  <2>1. call'[q] = call[q]
    BY <1>1, StepKeepsOthers
  <2>2. ASSUME aesd_write_append(p) PROVE ~ InHandler(q, "read", "locked")
    BY <1>1, <2>2 DEF aesd_write_append, LockOK, InSection, InHandler
  <2>3. InHandler(q, "read", "locked") => buffer' = buffer
    BY <2>2, StepKeepsRing
  <2>4. ReadOf(q)
    BY DEF ReadOK
  <2> QED BY <2>1, <2>3, <2>4, ReadKept
<1>2. ReadOf(p)
  BY DEF ReadOK
<1>3. ASSUME NEW f \in Files, NEW r \in Requests, Syscall(p, f, r)
      PROVE ReadOf(p)'
  <2>1. call'[p] = [pc |-> "start", file |-> f, req |-> r, pos |-> file[f].pos,
                    done |-> <<>>, kbuf |-> NULL]
    BY <1>3 DEF Syscall, TypeOK
  <2>2. r.op = "read" => file[f].pos <= MaxPos
    BY <1>3 DEF Syscall
  <2> QED BY <2>1, <2>2 DEF ReadOf, InHandler
<1>4. ASSUME NEW r, NEW pos, Unlock(p, r, pos) PROVE ReadOf(p)'
  <2>1. call'[p].pc = "return"
    BY <1>4 DEF Unlock, TypeOK
  <2> QED BY <2>1, ReadEnded
<1>5. ASSUME IoctlRefused(p)
      PROVE ReadOf(p)'
  <2>1. call[p] \in Active
    BY <1>5, CallStep DEF InCall
  <2>2. call'[p].pc = "return"
    BY <1>5, <2>1 DEF IoctlRefused, TypeOK, Active
  <2> QED BY <2>2, ReadEnded
<1>6. ASSUME Return(p)
      PROVE ReadOf(p)'
  <2>1. call'[p].pc = "idle"
    BY <1>6 DEF Return, TypeOK, Idle
  <2> QED BY <2>1, ReadEnded
<1>7. ASSUME aesd_write_copy(p)
      PROVE ReadOf(p)'
  <2>1. call[p] \in Active
    BY <1>7, CallStep DEF InCall, Handler, Write
  <2>2. PICK k : call' = [call EXCEPT ![p].pc = "append", ![p].kbuf = k]
    BY <1>7 DEF aesd_write_copy
  <2>3. call'[p].pc = "append"
    BY <2>1, <2>2 DEF TypeOK, Active
  <2> QED BY <2>3, ReadEnded
<1>8. ASSUME aesd_read_fault(p) \/ aesd_read_done(p)
      PROVE ReadOf(p)'
  BY <1>4, <1>8 DEF aesd_read_fault, aesd_read_done
<1>9. ASSUME aesd_write_refused(p) \/ aesd_write_append(p) \/ aesd_write_nomem(p)
      PROVE ReadOf(p)'
  BY <1>4, <1>9 DEF aesd_write_refused, aesd_write_append, aesd_write_nomem
<1>10. ASSUME aesd_llseek(p) \/ aesd_unlocked_ioctl(p)
      PROVE ReadOf(p)'
  BY <1>4, <1>10 DEF aesd_llseek, aesd_unlocked_ioctl
<1>11. ReadOf(p)'
  BY <1>2, <1>3, <1>5, <1>6, <1>7, <1>8, <1>9, <1>10, ReadLock, ReadCopy
  DEF StepOf, Handler, Read, Write
<1> QED BY <1>1, <1>11 DEF ReadOK

(* Each step keeps what the reads have copied. *)
LEMMA ReadStep ==
  TypeOK /\ BootOK /\ RingOK /\ LockOK /\ ReadOK /\ [Next]_vars => ReadOK'
<1> SUFFICES ASSUME TypeOK, BootOK, RingOK, LockOK, ReadOK, [Next]_vars
             PROVE ReadOK'
  OBVIOUS
<1>1. CASE Module
  <2>1. call' = call
    BY <1>1 DEF Module, AddDevice, InitMutex, InitBuffer, aesd_cleanup_module
  <2>2. \A p \in Procs : ReadOf(p)
    BY DEF ReadOK
  <2>3. ASSUME boot # "loaded" PROVE \A p \in Procs : call[p].pc = "idle"
    BY <2>3, IdleUnlessLoaded
  <2>4. boot = "loaded" => buffer' = buffer
    BY <1>1 DEF Module, AddDevice, InitMutex, InitBuffer, aesd_cleanup_module
  <2> QED BY <2>1, <2>2, <2>3, <2>4, ReadKept DEF ReadOK, InHandler
<1>2. CASE UNCHANGED vars \/ \E f \in Files : Open(f) \/ Close(f)
  <2>1. call' = call /\ buffer' = buffer
    BY <1>2 DEF vars, Open, OpenFile, Close, dev
  <2> QED BY <2>1, ReadKept DEF ReadOK
<1>3. ASSUME NEW p \in Procs, StepOf(p) PROVE ReadOK'
  BY <1>3, StepKeepsReads
<1> QED BY <1>1, <1>2, <1>3 DEF Next, StepOf

(* The commands keep their sizes, and the reads what they have copied.     *)
LEMMA LogInvariant == Spec => [](IInv /\ SizesOK /\ ReadOK)
<1>1. Init => SizesOK
  <2>1. ASSUME Init PROVE \A i \in Slots : buffer.entry[i] = EmptyEntry
    BY <2>1, InitWellFormed DEF Init
  <2> QED BY <2>1, BoundsAssumption DEF Init, SizesOK, EmptyEntry
<1>2. Init => ReadOK
  BY DEF Init, ReadOK, ReadOf, InHandler, Idle
<1>3. Spec => []IInv
  BY InductiveInvariant
<1>4. IInv => TypeOK /\ BootOK /\ RingOK /\ LockOK
  BY DEF IInv
<1> QED BY <1>1, <1>2, <1>3, <1>4, SizesStep, ReadStep, PTL DEF Spec

-----------------------------------------------------------------------------
(* The log's stream is flattened as here.                                  *)
LEMMA StreamIs == AbstractLog!Stream = FlattenSeq(Commands(buffer))
BY DEF AbstractLog!Stream, AbstractLog!FlattenSeq, FlattenSeq

(* Both modules mean the same by a complete command. *)
LEMMA CompleteIs == \A d : AbstractLog!Complete(d) <=> Complete(d)
BY DEF AbstractLog!Complete, Complete
(* The positions that the driver answers are among those of the log.       *)
LEMMA PositionsBound ==
  ASSUME NEW x \in Nat, x <= MaxPos \/ x <= (N + 1) * MaxAlloc
  PROVE  x \in 0 .. MaxPos + 2 * (N + 1) * MaxAlloc
<1>1. PICK m \in Nat : m = (N + 1) * MaxAlloc
  BY NAssumption, BoundsAssumption
<1>2. 2 * (N + 1) * MaxAlloc = m + m
  BY <1>1, NAssumption, BoundsAssumption
<1> QED BY <1>1, <1>2, BoundsAssumption

(* The size of the first k + 1 entries. *)
LEMMA SizeBeforeDef ==
  ASSUME NEW b \in CircularBuffers, NEW k \in Slots
  PROVE  SizeBefore(b)[k+1] = SizeBefore(b)[k] + Len(b.entry[SlotAt(b, k)].data)
<1> DEFINE g == [i \in Slots |-> Len(b.entry[SlotAt(b, i)].data)]
<1>1. \A i \in Slots : SlotAt(b, i) \in Slots
  BY SlotAtType, NAssumption DEF Slots
<1>2. g \in [Slots -> Nat]
  BY <1>1 DEF CircularBuffers, BufferEntry
<1>3. SizeBefore(b) = RunningSum(g)
  BY DEF SizeBefore
<1>4. g[k] = Len(b.entry[SlotAt(b, k)].data)
  OBVIOUS
<1> HIDE DEF g
<1>5. RunningSum(g)[k+1] = RunningSum(g)[k] + g[k]
  <2>1. k + 1 \in 0 .. N /\ k + 1 # 0 /\ (k + 1) - 1 = k
    BY NAssumption DEF Slots
  <2> QED BY <1>2, <2>1, RunningSumDef
<1> QED BY <1>3, <1>4, <1>5

(* The size of everything recorded is bounded. *)
LEMMA SizeBound ==
  ASSUME TypeOK, SizesOK
  PROVE  \A k \in 0 .. N : SizeBefore(buffer)[k] <= N * MaxAlloc
<1> DEFINE s == SizeBefore(buffer)
           T == {k \in 0 .. N : s[k] <= k * MaxAlloc}
<1>1. s \in [0 .. N -> Nat] /\ s[0] = 0
  BY SizeBeforeType, SizeBeforeZero DEF TypeOK
<1>2. 0 \in T
  BY <1>1, NAssumption, BoundsAssumption
<1>3. ASSUME NEW k \in 0 .. N, k # N, k \in T PROVE k + 1 \in T
  <2>1. k \in Slots /\ k \in Nat /\ k + 1 \in 0 .. N
    BY <1>3, NAssumption DEF Slots
  <2>2. SlotAt(buffer, k) \in Slots
    BY <2>1, SlotAtType DEF TypeOK
  <2>3. PICK l \in Nat : l = Len(buffer.entry[SlotAt(buffer, k)].data)
                         /\ l <= MaxAlloc
    BY <2>2 DEF TypeOK, SizesOK, CircularBuffers, BufferEntry
  <2>4. s[k+1] = s[k] + l
    BY <2>1, <2>3, SizeBeforeDef DEF TypeOK
  <2>5. s[k] <= k * MaxAlloc
    BY <1>3
  <2>6. (k + 1) * MaxAlloc = k * MaxAlloc + MaxAlloc
    BY <2>1, BoundsAssumption
  <2> HIDE DEF s
  <2>7. PICK a \in Nat, c \in Nat : a = s[k] /\ c = k * MaxAlloc
    BY <1>1, <2>1, BoundsAssumption
  <2>8. s[k+1] <= (k + 1) * MaxAlloc
    BY <2>3, <2>4, <2>5, <2>6, <2>7, BoundsAssumption
  <2> QED BY <2>1, <2>8
<1> HIDE DEF T
<1>4. ASSUME NEW k \in 0 .. N PROVE s[k] <= N * MaxAlloc
  <2>1. k \in T
    BY <1>2, <1>3, NAssumption, IntervalInduction
  <2>2. s[k] <= k * MaxAlloc
    BY <2>1 DEF T
  <2>3. k * MaxAlloc <= N * MaxAlloc
    BY NAssumption, BoundsAssumption
  <2>4. s[k] \in Nat /\ k * MaxAlloc \in Nat /\ N * MaxAlloc \in Nat
    BY <1>1, NAssumption, BoundsAssumption
  <2> QED BY <2>2, <2>3, <2>4
<1> QED BY <1>4 DEF s
-----------------------------------------------------------------------------
(***************************************************************************)
(* The steps of the driver are those of the log.  LogStep is a step of the *)
(* log or one that it does not see.                                        *)
(***************************************************************************)
LogStep == AbstractLog!Next \/ UNCHANGED AbstractLog!vars

(* A step that the log does not see. *)
LEMMA Unseen ==
  ASSUME UNCHANGED <<buffer, partial, reply>> PROVE LogStep
BY DEF LogStep, AbstractLog!vars

(* A call that fails. *)
LEMMA Failed ==
  ASSUME NEW p \in Procs, reply' = [reply EXCEPT ![p] = <<"error">>],
         UNCHANGED <<buffer, partial>>
  PROVE  LogStep
<1>1. AbstractLog!Fail(p)
  BY DEF AbstractLog!Fail, AbstractLog!Answer
<1> QED BY <1>1 DEF LogStep, AbstractLog!Next

(* A call that returns. *)
LEMMA Returned ==
  ASSUME NEW p \in Procs, Return(p) PROVE LogStep
<1>1. AbstractLog!Return(p)
  BY DEF Return, dev, AbstractLog!Return, AbstractLog!Answer
<1> QED BY <1>1 DEF LogStep, AbstractLog!Next

(* An empty ring holds no commands. *)
LEMMA InitialCommands == Commands(aesd_circular_buffer_init) = <<>>
<1> DEFINE b == aesd_circular_buffer_init
<1>1. b \in CircularBuffers /\ WellFormed(b) /\ b.in_offs = 0 /\ ~ b.full
  BY InitWellFormed DEF aesd_circular_buffer_init
<1> HIDE DEF b
<1>2. Commands(b) \in Seq(Seq(Bytes)) /\ Len(Commands(b)) = 0
  BY <1>1, CommandsType, RingSlots
<1>3. Commands(b) = <<>>
  BY <1>2
<1> QED BY <1>3 DEF b

(* Loading and unloading empty the log or are not seen. *)
LEMMA ModuleLog ==
  ASSUME BootOK, Module PROVE LogStep
<1>1. CASE AddDevice
  <2>1. /\ buffer' = aesd_circular_buffer_init /\ partial'.data = <<>>
        /\ reply' = reply
    BY <1>1 DEF AddDevice, EmptyEntry
  <2>2. Commands(buffer') = <<>>
    BY <2>1, InitialCommands
  <2>3. AbstractLog!Reset
    BY <2>1, <2>2 DEF AbstractLog!Reset
  <2> QED BY <2>3 DEF LogStep, AbstractLog!Next
<1>2. CASE InitBuffer
  <2>1. buffer' = buffer /\ partial' = partial /\ reply' = reply
    BY <1>2 DEF InitBuffer, BootOK
  <2> QED BY <2>1, Unseen
<1>3. CASE InitMutex \/ aesd_cleanup_module
  BY <1>3, Unseen DEF InitMutex, aesd_cleanup_module
<1> QED BY <1>1, <1>2, <1>3 DEF Module

(* A write appends its bytes once. *)
LEMMA WriteLog ==
  ASSUME TypeOK, RingOK, NEW p \in Procs, aesd_write_append(p)
  PROVE  LogStep
<1> DEFINE d == call[p].req.data
           Payloads == {r.data : r \in {q \in Requests : q.op = "write"}}
<1>1. call[p].req \in Requests /\ call[p].req.op = "write"
  BY HandlerCall DEF aesd_write_append
<1>2. d \in Payloads /\ d \in Seq(Bytes) /\ partial.data \in Seq(Bytes)
  BY <1>1, RequestTypes DEF TypeOK, BufferEntry
<1>3. PICK newbuf \in Blocks \ heap :
        LET e == [buffptr |-> newbuf, data |-> partial.data \o d]
        IN  IF Complete(d)
              THEN /\ buffer' = aesd_circular_buffer_add_entry(buffer, e)
                   /\ partial' = EmptyEntry
              ELSE partial' = e /\ UNCHANGED buffer
  BY DEF aesd_write_append
<1> DEFINE e == [buffptr |-> newbuf, data |-> partial.data \o d]
<1>4. e \in BufferEntry /\ e.buffptr # NULL /\ e.data = partial.data \o d
  <2>1. newbuf \in Blocks /\ newbuf # NULL
    BY BlocksAssumption
  <2> HIDE DEF d
  <2>2. partial.data \o d \in Seq(Bytes)
    BY <1>2
  <2> QED BY <2>1, <2>2 DEF BufferEntry
<1>5. reply' = [reply EXCEPT ![p] = <<"write", Len(d)>>]
  BY DEF aesd_write_append, Unlock
<1> HIDE DEF d, e, Payloads
<1>6. CASE Complete(d)
  <2>1. buffer' = aesd_circular_buffer_add_entry(buffer, e) /\ partial'.data = <<>>
    BY <1>3, <1>6 DEF e, EmptyEntry
  <2>2. Commands(buffer') = AbstractLog!LastN(Append(Commands(buffer), e.data))
    BY <1>4, <2>1, AddCommands DEF TypeOK, RingOK
  <2>3. AbstractLog!Write(p, d)
    BY <1>4, <1>5, <1>6, <2>1, <2>2, CompleteIs
    DEF AbstractLog!Write, AbstractLog!Answer
  <2> QED BY <1>2, <2>3 DEF LogStep, AbstractLog!Next, Payloads
<1>7. CASE ~ Complete(d)
  <2>1. partial'.data = partial.data \o d /\ buffer' = buffer
    BY <1>3, <1>4, <1>7 DEF e
  <2>2. AbstractLog!Write(p, d)
    BY <1>5, <1>7, <2>1, CompleteIs DEF AbstractLog!Write, AbstractLog!Answer
  <2> QED BY <1>2, <2>2 DEF LogStep, AbstractLog!Next, Payloads
<1> QED BY <1>6, <1>7
(* What a read has copied when it ends is what the log delivers.           *)
LEMMA WholePiece ==
  ASSUME NEW S, NEW s \in Seq(S), NEW done \in Seq(S),
         NEW start \in Nat, NEW pos \in Nat, NEW count \in Nat,
         pos - Len(done) = start, Len(done) <= count,
         done = SubSeq(s, start+1, pos),
         done # <<>> => pos <= Len(s),
         Len(done) >= count \/ Len(s) <= pos
  PROVE  done = SubSeq(s, start+1, IF start + count < Len(s)
                                     THEN start + count ELSE Len(s))
<1>1. PICK l \in Nat, k \in Nat : l = Len(s) /\ k = Len(done)
  <2>1. Len(s) \in Nat /\ Len(done) \in Nat
    OBVIOUS
  <2> QED BY <2>1
<1> DEFINE fin == IF start + count < l THEN start + count ELSE l
<1>2. /\ pos - k = start /\ k <= count /\ (k # 0 => pos <= l)
      /\ k >= count \/ l <= pos
  <2>1. k # 0 => done # <<>>
    BY <1>1, EmptySeq
  <2> QED BY <1>1, <2>1
<1>3. CASE k # 0
  <2>1. fin = pos
    BY <1>2, <1>3
  <2> QED BY <1>1, <2>1
<1>4. CASE k = 0
  <2>1. fin \in Int /\ start + 1 \in Int /\ fin < start + 1
    BY <1>2, <1>4
  <2>2. SubSeq(s, start+1, fin) = <<>>
    BY <2>1, SubSeqEmpty
  <2>3. done = <<>>
    BY <1>1, <1>4
  <2> QED BY <1>1, <2>2, <2>3
<1> QED BY <1>3, <1>4

(* A read delivers one piece of the stream, from where it started. *)
LEMMA ReadLog ==
  ASSUME TypeOK, RingOK, ReadOK, NEW p \in Procs, aesd_read_done(p)
  PROVE  LogStep
<1> DEFINE s == FlattenSeq(Commands(buffer))
           c == call[p]
           Counts == {r.count : r \in {q \in Requests : q.op = "read"}}
<1>1. /\ c.pos \in Nat /\ c.done \in Seq(Bytes) /\ c.req \in Requests
      /\ c.req.op = "read" /\ InHandler(p, "read", "locked")
  BY HandlerCall DEF aesd_read_done
<1>2. c.req.count \in Counts /\ c.req.count \in Nat
  BY <1>1, RequestTypes
<1>3. Copied(c, s)
  BY <1>1 DEF ReadOK, ReadOf
<1>4. /\ reply' = [reply EXCEPT ![p] = <<"read", c.pos - Len(c.done), c.done>>]
      /\ buffer' = buffer /\ partial' = partial
  BY DEF aesd_read_done, Unlock, dev
<1>5. s \in Seq(Bytes) /\ (Len(c.done) >= c.req.count \/ Len(s) <= c.pos)
  BY <1>1, FindInStream DEF aesd_read_done, TypeOK, RingOK
<1>6. PICK start \in Nat, pos \in Nat, count \in Nat, done \in Seq(Bytes) :
        /\ start = c.pos - Len(c.done) /\ start <= MaxPos
        /\ pos = c.pos /\ count = c.req.count /\ done = c.done
  BY <1>1, <1>2, <1>3, BoundsAssumption DEF Copied
<1> HIDE DEF s, Counts
<1>7. /\ pos - Len(done) = start /\ Len(done) <= count
      /\ done = SubSeq(s, start+1, pos)
      /\ done # <<>> => pos <= Len(s)
      /\ Len(done) >= count \/ Len(s) <= pos
  BY <1>3, <1>5, <1>6 DEF Copied
<1>8. done = SubSeq(s, start+1, IF start + count < Len(s)
                                  THEN start + count ELSE Len(s))
  BY <1>5, <1>7, WholePiece
<1>9. AbstractLog!Read(p, start, count)
  BY <1>4, <1>6, <1>8, StreamIs DEF AbstractLog!Read, AbstractLog!Answer, s
<1>10. start \in 0 .. MaxPos + 2 * (N + 1) * MaxAlloc
  BY <1>6, PositionsBound
<1>11. count \in Counts
  BY <1>2, <1>6
<1> QED BY <1>9, <1>10, <1>11 DEF LogStep, AbstractLog!Next, Counts
(* A seek changes no command: it goes to a position of the stream.         *)
LEMMA LlseekLog ==
  ASSUME TypeOK, RingOK, SizesOK, NEW p \in Procs, aesd_llseek(p)
  PROVE  LogStep
<1> DEFINE newpos == Smaller(SeekTarget(p), TotalSize)
<1>1. /\ call[p].file \in Files /\ call[p].req \in LlseekRequests
      /\ buffer' = buffer /\ partial' = partial
  BY HandlerCall, RequestsAssumption
  DEF aesd_llseek, dev, ReadRequests, WriteRequests, SeekToRequests, OtherIoctls
<1>2. TotalSize \in Nat
  BY TotalSizeType DEF TypeOK
<1>3. SeekTarget(p) \in Int
  BY <1>1, <1>2 DEF SeekTarget, LlseekRequests, TypeOK
<1>4. newpos \in Int /\ newpos <= TotalSize
  BY <1>2, <1>3 DEF Smaller
<1>5. IF newpos < 0 THEN reply' = [reply EXCEPT ![p] = <<"error">>]
                    ELSE reply' = [reply EXCEPT ![p] = <<"llseek", newpos>>]
  BY DEF aesd_llseek, Unlock
<1> HIDE DEF newpos
<1>6. CASE newpos < 0
  BY <1>1, <1>5, <1>6, Failed
<1>7. CASE ~ (newpos < 0)
  <2>1. TotalSize = Len(FlattenSeq(Commands(buffer)))
    BY TotalIs DEF TypeOK, RingOK
  <2>2. AbstractLog!Llseek(p, newpos)
    BY <1>1, <1>4, <1>5, <1>7, <2>1, StreamIs
    DEF AbstractLog!Llseek, AbstractLog!Answer
  <2>3. TotalSize <= N * MaxAlloc
    <3>1. SizeBefore(buffer)[N] <= N * MaxAlloc /\ N \in 0 .. N
      BY SizeBound, NAssumption
    <3>2. SizeBefore(buffer)[N] = TotalSize
      BY <2>1, <3>1, SizeIs, RingSlots DEF TypeOK, RingOK
    <3> QED BY <3>1, <3>2
  <2>4. newpos \in Nat /\ newpos <= (N + 1) * MaxAlloc
    <3>1. PICK a \in Nat : a = N * MaxAlloc
      BY NAssumption, BoundsAssumption
    <3>2. (N + 1) * MaxAlloc = a + MaxAlloc
      BY <3>1, NAssumption, BoundsAssumption
    <3> QED BY <1>2, <1>4, <1>7, <2>3, <3>1, <3>2, BoundsAssumption
  <2>5. newpos \in 0 .. MaxPos + 2 * (N + 1) * MaxAlloc
    BY <2>4, PositionsBound
  <2> QED BY <2>2, <2>5 DEF LogStep, AbstractLog!Next
<1> QED BY <1>6, <1>7

(* The seek ioctl goes where the log's seek goes, or fails. *)
LEMMA SeekToLog ==
  ASSUME TypeOK, RingOK, SizesOK, NEW p \in Procs, aesd_unlocked_ioctl(p)
  PROVE  LogStep
<1> DEFINE r == call[p].req
           k == Passed(r.write_cmd)
           slot == SlotAt(buffer, IF k = N THEN N-1 ELSE k)
           entry == buffer.entry[slot]
           newpos == SizeBefore(buffer)[k] + r.write_cmd_offset
           refused == entry.buffptr = NULL \/ r.write_cmd_offset >= Len(entry.data)
<1>1. /\ r.write_cmd_offset \in Nat /\ buffer' = buffer /\ partial' = partial
  BY HandlerCall, RequestTypes DEF aesd_unlocked_ioctl, dev
<1>2. k \in 0 .. N /\ (IF k = N THEN N-1 ELSE k) \in Slots
  BY NAssumption DEF Passed, Slots
<1>3. IF refused THEN reply' = [reply EXCEPT ![p] = <<"error">>]
                 ELSE reply' = [reply EXCEPT ![p] = <<"seekto", newpos>>]
  BY DEF aesd_unlocked_ioctl, Unlock
<1> HIDE DEF k
<1>4. slot \in Slots
  BY <1>2, SlotAtType, NAssumption DEF TypeOK, Slots
<1> HIDE DEF slot
<1>5. Len(entry.data) \in Nat /\ Len(entry.data) <= MaxAlloc
  BY <1>4 DEF TypeOK, SizesOK, CircularBuffers, BufferEntry
<1>6. SizeBefore(buffer)[k] \in Nat /\ SizeBefore(buffer)[k] <= N * MaxAlloc
  BY <1>2, SizeBound, SizeBeforeType DEF TypeOK
<1> HIDE DEF r, entry
<1>7. CASE refused
  BY <1>1, <1>3, <1>7, Failed
<1>8. CASE ~ refused
  <2>1. newpos \in Nat /\ newpos <= (N + 1) * MaxAlloc
    <3>1. PICK a \in Nat : a = N * MaxAlloc
      BY NAssumption, BoundsAssumption
    <3>2. (N + 1) * MaxAlloc = a + MaxAlloc
      BY <3>1, NAssumption, BoundsAssumption
    <3>3. PICK b \in Nat, o \in Nat, l \in Nat :
            /\ b = SizeBefore(buffer)[k] /\ o = r.write_cmd_offset
            /\ l = Len(entry.data)
      BY <1>1, <1>5, <1>6
    <3>4. o < l
      BY <1>8, <3>3
    <3> QED BY <1>5, <1>6, <3>1, <3>2, <3>3, <3>4, BoundsAssumption
  <2> HIDE DEF newpos, refused
  <2>2. AbstractLog!SeekTo(p, newpos)
    BY <1>1, <1>3, <1>8 DEF AbstractLog!SeekTo, AbstractLog!Answer
  <2>3. newpos \in 0 .. MaxPos + 2 * (N + 1) * MaxAlloc
    BY <2>1, PositionsBound
  <2> QED BY <2>2, <2>3 DEF LogStep, AbstractLog!Next
<1> QED BY <1>7, <1>8

(* The other steps of a call are not seen, or fail. *)
LEMMA CallLog ==
  ASSUME NEW p \in Procs,
         \/ \E f \in Files, r \in Requests : Syscall(p, f, r)
         \/ IoctlRefused(p) \/ Lock(p) \/ aesd_read_copy(p) \/ aesd_read_fault(p)
         \/ aesd_write_copy(p) \/ aesd_write_refused(p) \/ aesd_write_nomem(p)
  PROVE  LogStep
<1>1. CASE \/ \E f \in Files, r \in Requests : Syscall(p, f, r)
           \/ Lock(p) \/ aesd_read_copy(p) \/ aesd_write_copy(p)
  <2>1. UNCHANGED <<buffer, partial, reply>>
    BY <1>1 DEF Syscall, Lock, aesd_read_copy, aesd_write_copy, dev
  <2> QED BY <2>1, Unseen
<1>2. CASE \/ IoctlRefused(p) \/ aesd_read_fault(p)
           \/ aesd_write_refused(p) \/ aesd_write_nomem(p)
  <2>1. /\ reply' = [reply EXCEPT ![p] = <<"error">>]
        /\ UNCHANGED <<buffer, partial>>
    BY <1>2 DEF IoctlRefused, aesd_read_fault, aesd_write_refused,
                aesd_write_nomem, Unlock, dev
  <2> QED BY <2>1, Failed
<1> QED BY <1>1, <1>2

(* The driver keeps what the device promises: each write appends once or    *)
(* not at all, and a read that runs through several entries, in several    *)
(* steps, delivers one contiguous piece of the stream.                     *)
THEOREM LogCorrect == Spec => ImplementsLog
<1>1. Init => AbstractLog!Init
  BY InitialCommands DEF Init, AbstractLog!Init, EmptyEntry
<1>2. IInv /\ SizesOK /\ ReadOK /\ [Next]_vars
        => [AbstractLog!Next]_(AbstractLog!vars)
  <2> SUFFICES ASSUME IInv, SizesOK, ReadOK, [Next]_vars PROVE LogStep
    BY DEF LogStep
  <2> USE DEF IInv
  <2>1. CASE Module
    BY <2>1, ModuleLog
  <2>2. CASE UNCHANGED vars \/ \E f \in Files : Open(f) \/ Close(f)
    BY <2>2, Unseen DEF vars, Open, OpenFile, Close, dev
  <2>3. ASSUME NEW p \in Procs, StepOf(p) PROVE LogStep
    BY <2>3, CallLog, ReadLog, WriteLog, LlseekLog, SeekToLog, Returned
    DEF StepOf, Handler, Read, Write
  <2> QED BY <2>1, <2>2, <2>3 DEF Next, StepOf
<1> QED BY <1>1, <1>2, LogInvariant, PTL DEF Spec, ImplementsLog, AbstractLog!Spec
-----------------------------------------------------------------------------
(***************************************************************************)
(* The seek ioctl.                                                         *)
(***************************************************************************)
(* The slots in use are those that hold the commands, oldest first.        *)
LEMMA InUseIs ==
  ASSUME TypeOK, RingOK, NEW k \in Slots
  PROVE  InUse(k) <=> k < ValidEntries(buffer)
<1>1. SlotAt(buffer, k) \in Slots
  BY SlotAtType, NAssumption DEF TypeOK, Slots
<1>2. k < ValidEntries(buffer) <=> HoldsCommand(buffer, SlotAt(buffer, k))
  BY RingSlots DEF TypeOK, RingOK
<1> QED BY <1>1, <1>2 DEF InUse, RingOK, WellFormed, EmptyEntry

(* The loop of the ioctl counts them. *)
LEMMA CommandsBeforeIs ==
  ASSUME TypeOK, RingOK
  PROVE  \A k \in 0 .. N :
           CommandsBefore[k] = IF k < ValidEntries(buffer)
                                 THEN k ELSE ValidEntries(buffer)
<1> DEFINE g == [i \in Slots |-> IF InUse(i) THEN 1 ELSE 0]
           s == CommandsBefore
<1>1. g \in [Slots -> Nat] /\ s = RunningSum(g)
  BY DEF CommandsBefore
<1>2. PICK n \in 0 .. N : n = ValidEntries(buffer)
  BY RingSlots DEF TypeOK, RingOK
<1>3. \A i \in Slots : g[i] = IF i < n THEN 1 ELSE 0
  BY <1>2, InUseIs
<1> HIDE DEF g, s
<1>4. s = [k \in 0 .. N |-> IF k = 0 THEN 0 ELSE s[k-1] + g[k-1]]
  BY <1>1, RunningSumDef
<1> DEFINE T == {k \in 0 .. N : s[k] = IF k < n THEN k ELSE n}
<1>5. 0 \in T
  BY <1>2, <1>4, NAssumption
<1>6. ASSUME NEW k \in 0 .. N, k # N, k \in T PROVE k + 1 \in T
  <2>1. k \in Slots /\ k \in Nat /\ k + 1 \in 0 .. N /\ (k + 1) - 1 = k
    BY <1>6, NAssumption DEF Slots
  <2>2. s[k+1] = s[k] + g[k]
    BY <1>4, <2>1
  <2> QED BY <1>2, <1>3, <1>6, <2>1, <2>2
<1> HIDE DEF T
<1>7. \A k \in 0 .. N : k \in T
  BY <1>5, <1>6, NAssumption, IntervalInduction
<1> QED BY <1>2, <1>7 DEF T, s

(* It stops at the command asked for, or runs past the last slot.          *)
LEMMA PassedIs ==
  ASSUME TypeOK, RingOK, NEW cmd \in Nat
  PROVE  Passed(cmd) = IF cmd < ValidEntries(buffer) THEN cmd ELSE N
<1>1. PICK n \in 0 .. N : n = ValidEntries(buffer)
  BY RingSlots DEF TypeOK, RingOK
<1>2. ASSUME NEW k \in Slots PROVE StopsAt(k, cmd) <=> k < n /\ k = cmd
  <2>1. k \in 0 .. N /\ k \in Nat
    BY NAssumption DEF Slots
  <2>2. InUse(k) <=> k < n
    BY <1>1, InUseIs
  <2>3. CommandsBefore[k] = IF k < n THEN k ELSE n
    BY <1>1, <2>1, CommandsBeforeIs
  <2> QED BY <2>2, <2>3 DEF StopsAt
<1>3. cmd < n => cmd \in Slots
  BY NAssumption DEF Slots
<1> QED BY <1>1, <1>2, <1>3 DEF Passed

(* A seek to a command that exists lands in it. *)
LEMMA SeekStep ==
  ASSUME TypeOK, RingOK, NEW p \in Procs, aesd_unlocked_ioctl(p),
         ~ buffer.full \/ call[p].req.write_cmd < N
  PROVE  SeekExact(p)
<1> DEFINE r == call[p].req
           commands == Commands(buffer)
           k == Passed(r.write_cmd)
           entry == buffer.entry[SlotAt(buffer, IF k = N THEN N-1 ELSE k)]
           newpos == SizeBefore(buffer)[k] + r.write_cmd_offset
           refused == entry.buffptr = NULL \/ r.write_cmd_offset >= Len(entry.data)
<1>1. PICK cmd \in Nat, offset \in Nat :
        cmd = r.write_cmd /\ offset = r.write_cmd_offset
  BY HandlerCall, RequestTypes DEF aesd_unlocked_ioctl
<1>2. PICK n \in 0 .. N :
        /\ n = ValidEntries(buffer) /\ n = Len(commands)
        /\ n = IF buffer.full THEN N ELSE buffer.in_offs
        /\ \A i \in Slots : i < n =>
             commands[i+1] = buffer.entry[SlotAt(buffer, i)].data
  BY RingSlots, CommandsType DEF TypeOK, RingOK
<1>3. IF refused THEN reply'[p] = <<"error">>
                 ELSE reply'[p] = <<"seekto", newpos>>
  BY DEF aesd_unlocked_ioctl, Unlock, TypeOK
<1>4. k = IF cmd < n THEN cmd ELSE N
  BY <1>1, <1>2, PassedIs
<1>5. n \in Nat /\ N \in Nat /\ N # 0
  BY <1>2, NAssumption
<1>6. CASE cmd < n
  <2>1. cmd \in Slots /\ cmd # N /\ k = cmd /\ cmd \in 0 .. N
    BY <1>4, <1>5, <1>6 DEF Slots
  <2>2. entry = buffer.entry[SlotAt(buffer, cmd)]
    BY <2>1
  <2>3. entry.buffptr # NULL /\ entry.data = commands[cmd+1]
    BY <1>2, <1>6, <2>1, <2>2, InUseIs DEF InUse
  <2>4. newpos = Len(FlattenSeq(SubSeq(commands, 1, cmd))) + offset
    BY <1>1, <1>2, <1>6, <2>1, SizeIs DEF TypeOK, RingOK
  <2>5. SeekPosition(r) = newpos
    BY <1>1, <2>4 DEF SeekPosition, AbstractLog!FlattenSeq, FlattenSeq
  <2>6. SeekPossible(r) <=> offset < Len(entry.data)
    BY <1>1, <1>2, <1>6, <2>3 DEF SeekPossible
  <2>7. Len(entry.data) \in Nat
    <3>1. SlotAt(buffer, cmd) \in Slots
      BY SlotAtType DEF TypeOK
    <3> QED BY <2>2, <3>1 DEF TypeOK, CircularBuffers, BufferEntry
  <2> HIDE DEF k, entry, newpos
  <2>8. refused <=> ~ SeekPossible(r)
    BY <1>1, <2>3, <2>6, <2>7
  <2> QED BY <1>3, <2>5, <2>8 DEF SeekExact
<1>7. CASE ~ (cmd < n)
  <2>1. ~ buffer.full /\ k = N
    BY <1>1, <1>2, <1>4, <1>5, <1>7
  <2>2. N-1 \in Slots /\ ~ (N-1 < n)
    BY <1>2, <1>5, <2>1 DEF Slots, TypeOK, CircularBuffers
  <2>3. entry.buffptr = NULL
    BY <1>2, <2>1, <2>2, InUseIs DEF InUse
  <2>4. ~ SeekPossible(r)
    BY <1>1, <1>2, <1>7 DEF SeekPossible
  <2> QED BY <1>3, <2>3, <2>4 DEF SeekExact
<1> QED BY <1>6, <1>7

(* Only the ioctl's own step ends it. *)
LEMMA SeeksIs ==
  ASSUME TypeOK, [Next]_vars, NEW p \in Procs, Seeks(p)
  PROVE  aesd_unlocked_ioctl(p)
<1>1. /\ call[p].pc = "locked" /\ call[p].req.op = "seekto"
      /\ call'[p].pc = "return"
  BY DEF Seeks, InHandler
<1>2. ~ (Module \/ UNCHANGED vars \/ \E f \in Files : Open(f) \/ Close(f))
  BY <1>1 DEF Module, AddDevice, InitMutex, InitBuffer, aesd_cleanup_module,
              vars, Open, OpenFile, Close
<1>3. PICK q \in Procs : StepOf(q)
  BY <1>2 DEF Next, StepOf
<1>4. q = p
  BY <1>1, <1>3, StepKeepsOthers
<1>5. ~ (Read(p) \/ Write(p) \/ aesd_llseek(p))
  BY <1>1 DEF Read, Write, aesd_read_copy, aesd_read_fault, aesd_read_done,
      aesd_write_copy, aesd_write_refused, aesd_write_append, aesd_write_nomem,
      aesd_llseek, InHandler
<1>6. ~ ((\E f \in Files, r \in Requests : Syscall(p, f, r))
          \/ IoctlRefused(p) \/ Lock(p) \/ Return(p))
  BY <1>1 DEF Syscall, IoctlRefused, Lock, Return
<1> QED BY <1>3, <1>4, <1>5, <1>6 DEF StepOf, Handler

(* A seek lands at the offset asked for within the command asked for, until *)
(* the ring fills, and for a command that exists also then; and one that   *)
(* fails had no such place to go.                                          *)
THEOREM SeekCorrect == Spec => SeekExactInRange
<1>1. IInv /\ [Next]_vars
        => [\A p \in Procs :
              /\ Seeks(p)
              /\ ~ buffer.full \/ call[p].req.write_cmd < N
              => SeekExact(p)]_vars
  BY SeeksIs, SeekStep DEF IInv
<1> QED BY <1>1, InductiveInvariant, PTL DEF Spec, SeekExactInRange

=============================================================================
