------------------------------- MODULE Scull --------------------------------
(***************************************************************************)
(* The bare scull device: a file kept in a list of quantum sets, each an   *)
(* array of qset pointers to quanta of quantum bytes.  Opening it          *)
(* write-only empties it and makes the driver's parameters its own; the    *)
(* ioctl changes the parameters.                                           *)
(*                                                                         *)
(* read and write take the device's quantum and qset before they take its  *)
(* semaphore; what they do under it is one step.  Every process has a file *)
(* of its own.                                                             *)
(***************************************************************************)
EXTENDS QuantumSets

CONSTANTS
  Procs,            (* the processes                                       *)
  SCULL_QUANTUM, SCULL_QSET,    (* the parameters at load time             *)
  Quanta, Qsets,    (* what the ioctl may set them to                      *)
  Writes,           (* the byte sequences a write may be given             *)
  Counts,           (* the numbers of bytes a read may ask for             *)
  Offsets,          (* the offsets of a seek                               *)
  MaxPos,           (* bound: the positions considered                     *)
  Garbage           (* a byte nothing was written to                       *)

ASSUME ParametersAssumption ==
  /\ SCULL_QUANTUM \in Nat \ {0} /\ SCULL_QSET \in Nat \ {0}
  /\ Quanta \subseteq Nat /\ Qsets \subseteq Nat
  /\ MaxPos \in Nat /\ Counts \subseteq Nat
  /\ \A d \in Writes : d \in Seq({d[i] : i \in DOMAIN d})

VARIABLES
  scull_quantum, scull_qset,    (* the driver's parameters                 *)
  dev,              (* struct scull_dev: quantum, qset, size, and its list *)
                    (* as a sequence of arrays of quanta                   *)
  file,             (* "closed" or the mode, and f_pos, of each process    *)
  call              (* the call each process is in: its arguments, the     *)
                    (* geometry it has read, its result                    *)

vars == <<scull_quantum, scull_qset, dev, file, call>>

Closed == [mode |-> "closed", f_pos |-> 0]
NoCall == [op |-> "none"]

Trimmed(quantum, qset) ==
  [quantum |-> quantum, qset |-> qset, size |-> 0, data |-> <<>>]

Init ==
  /\ scull_quantum = SCULL_QUANTUM /\ scull_qset = SCULL_QSET
  /\ dev = Trimmed(SCULL_QUANTUM, SCULL_QSET)
  /\ file = [p \in Procs |-> Closed]
  /\ call = [p \in Procs |-> NoCall]

-----------------------------------------------------------------------------
UserAt(p) == call[p] = NoCall /\ file[p].mode # "closed"
Finish(p, result) ==
  call' = [call EXCEPT ![p] = [op |-> "done", result |-> result]]
ParametersUnchanged == UNCHANGED <<scull_quantum, scull_qset>>

scull_open(p, mode) ==
  /\ call[p] = NoCall /\ file[p] = Closed
  /\ file' = [file EXCEPT ![p] = [mode |-> mode, f_pos |-> 0]]
  /\ dev' = IF mode = "w" THEN Trimmed(scull_quantum, scull_qset) ELSE dev
  /\ UNCHANGED call /\ ParametersUnchanged

scull_release(p) ==
  /\ UserAt(p)
  /\ file' = [file EXCEPT ![p] = Closed]
  /\ UNCHANGED <<dev, call>> /\ ParametersUnchanged

(* The call starts: quantum and qset are read, without the semaphore.      *)
Enter(p, op, arg) ==
  /\ UserAt(p)
  /\ call' = [call EXCEPT ![p] = [op |-> op, arg |-> arg,
                                  quantum |-> dev.quantum, qset |-> dev.qset]]
  /\ UNCHANGED <<dev, file>> /\ ParametersUnchanged

(* Interrupted while it waits for the semaphore.                           *)
Interrupted(p) ==
  /\ call[p].op \in {"read", "write"}
  /\ Finish(p, <<"error">>)
  /\ UNCHANGED <<dev, file>> /\ ParametersUnchanged

(* A read ends at the size of the file and at the end of the quantum, and  *)
(* "don't fill holes".  The copy may fail.                                 *)
scull_read(p) ==
  LET c == call[p]
      pos == file[p].f_pos
      at == Place(pos, c.quantum, c.qset)
      data == scull_follow(dev.data, at.item)
      quantum == QuantumAt(data, at)
      count == Smaller(Smaller(c.arg, dev.size - pos), c.quantum - at.q_pos)
      bytes == [i \in 1 .. count |->
                  IF at.q_pos + i - 1 \in DOMAIN quantum
                    THEN quantum[at.q_pos + i - 1] ELSE Garbage]
  IN  /\ c.op = "read" /\ c.quantum * c.qset > 0
      /\ IF pos >= dev.size
           THEN Finish(p, <<"read", <<>>>>) /\ UNCHANGED <<dev, file>>
           ELSE /\ dev' = [dev EXCEPT !.data = data]
                /\ IF quantum = NULL
                     THEN Finish(p, <<"read", <<>>>>) /\ UNCHANGED file
                     ELSE \/ /\ Finish(p, <<"read", bytes>>)
                             /\ file' = [file EXCEPT ![p].f_pos = @ + count]
                          \/ Finish(p, <<"error">>) /\ UNCHANGED file
      /\ ParametersUnchanged

FreshQuantum(n) == [i \in 0 .. n - 1 |-> Garbage]

(* A write ends at the end of the quantum.  A copy that fails, which may   *)
(* be after some of the bytes, leaves position and size.                   *)
scull_write(p) ==
  LET c == call[p]
      pos == file[p].f_pos
      at == Place(pos, c.quantum, c.qset)
      data == WithQuantum(dev.data, at, c.qset, FreshQuantum(c.quantum))
      count == Smaller(Len(c.arg), c.quantum - at.q_pos)
      First(n) == SubSeq(c.arg, 1, n)
  IN  /\ c.op = "write" /\ c.quantum * c.qset > 0
      /\ \/ /\ dev' = [dev EXCEPT !.data = Written(data, at, First(count)),
                                   !.size = IF @ < pos + count THEN pos + count ELSE @]
            /\ file' = [file EXCEPT ![p].f_pos = pos + count]
            /\ Finish(p, <<"write", First(count)>>)
         \/ /\ \E n \in 0 .. count - 1 :
                 dev' = [dev EXCEPT !.data = Written(data, at, First(n))]
            /\ UNCHANGED file
            /\ Finish(p, <<"error">>)
      /\ ParametersUnchanged

(* kmalloc fails: of a list item, of its array, or of the quantum.         *)
NoMemory(p) ==
  LET c == call[p]
      at == Place(file[p].f_pos, c.quantum, c.qset)
      list == scull_follow(dev.data, at.item)
      array == WithArray(dev.data, at, c.qset)
  IN  /\ c.op \in {"read", "write"} /\ c.quantum * c.qset > 0
      /\ c.op = "read" => file[p].f_pos < dev.size
      /\ \E data \in FailedFollows(dev.data, at.item)
                       \cup IF c.op = "write" /\ QuantumAt(list, at) = NULL
                              THEN {array} \cup IF array # list THEN {list} ELSE {}
                              ELSE {} :
           dev' = [dev EXCEPT !.data = data]
      /\ Finish(p, IF c.op = "read" THEN <<"read", <<>>>> ELSE <<"error">>)
      /\ UNCHANGED file /\ ParametersUnchanged

Return(p) ==
  /\ call[p].op = "done"
  /\ call' = [call EXCEPT ![p] = NoCall]
  /\ UNCHANGED <<dev, file>> /\ ParametersUnchanged

(* Faulty: a position before the start is not refused. *)
SeekAnywhere(p, off, whence) ==
  /\ UserAt(p)
  /\ file[p].f_pos + off <= MaxPos
  /\ file' = [file EXCEPT ![p].f_pos = @ + off]
  /\ UNCHANGED <<dev, call>> /\ ParametersUnchanged

(* The size is read without the semaphore.                                 *)
scull_llseek(p, off, whence) ==
  LET newpos == off + (CASE whence = "SEEK_SET" -> 0
                         [] whence = "SEEK_CUR" -> file[p].f_pos
                         [] whence = "SEEK_END" -> dev.size)
  IN  /\ UserAt(p)
      /\ newpos \in 0 .. MaxPos
      /\ file' = [file EXCEPT ![p].f_pos = newpos]
      /\ UNCHANGED <<dev, call>> /\ ParametersUnchanged

(* Set, Tell, eXchange and sHift all store the argument, unchecked; Get    *)
(* and Query store nothing.                                                *)
scull_ioctl ==
  /\ \/ scull_quantum' = SCULL_QUANTUM /\ scull_qset' = SCULL_QSET
     \/ scull_quantum' \in Quanta /\ UNCHANGED scull_qset
     \/ scull_qset' \in Qsets /\ UNCHANGED scull_quantum
  /\ UNCHANGED <<dev, file, call>>

Next ==
  \/ scull_ioctl
  \/ \E p \in Procs :
       \/ \E mode \in {"r", "w", "rw"} : scull_open(p, mode)
       \/ scull_release(p)
       \/ file[p].mode # "w" /\ \E n \in Counts : Enter(p, "read", n)
       \/ /\ file[p].mode # "r"
          /\ \E d \in Writes :
               file[p].f_pos + Len(d) <= MaxPos /\ Enter(p, "write", d)
       \/ scull_read(p) \/ scull_write(p) \/ NoMemory(p) \/ Interrupted(p)
       \/ Return(p)
       \/ \E off \in Offsets, whence \in {"SEEK_SET", "SEEK_CUR", "SEEK_END"} :
            scull_llseek(p, off, whence)

Spec == Init /\ [][Next]_vars

-----------------------------------------------------------------------------
(* Every variable has its type; a call has its arguments.                  *)
TypeOK ==
  /\ scull_quantum \in Quanta \cup {SCULL_QUANTUM}
  /\ scull_qset \in Qsets \cup {SCULL_QSET}
  /\ dev.size \in 0 .. MaxPos
  /\ \A p \in Procs :
       /\ file[p].f_pos \in 0 .. MaxPos
       /\ call[p].op \in {"none", "read", "write", "done"}

(* "the current quantum size", "the current array size": every array and   *)
(* every quantum of the device has the size that dev says, which is the    *)
(* one scull_trim frees it with and every position is computed with.  So   *)
(* for one process; not so for two, when one trims the device between the  *)
(* other's reading of quantum and qset and its getting the semaphore.      *)
GeometryCurrent ==
  \A k \in DOMAIN dev.data :
    dev.data[k] # NULL =>
      /\ DOMAIN dev.data[k] = 0 .. dev.qset - 1
      /\ \A i \in DOMAIN dev.data[k] :
           dev.data[k][i] # NULL => DOMAIN dev.data[k][i] = 0 .. dev.quantum - 1

(* The device is a file in memory, however its bytes are laid out.         *)
ByteAt(pos) ==
  LET at == Place(pos, dev.quantum, dev.qset)
      quantum == QuantumAt(dev.data, at)
  IN  IF at.q_pos \in DOMAIN quantum THEN quantum[at.q_pos] ELSE Garbage

BytesOf(s) == {s[i] : i \in DOMAIN s}

File == INSTANCE SparseFile WITH
  Positions <- 0 .. MaxPos,
  Hole <- Garbage,
  Chunks <- UNION {[1 .. n -> {Garbage} \cup UNION {BytesOf(d) : d \in Writes}] :
                     n \in Quanta \cup {SCULL_QUANTUM}},
  content <- [pos \in 0 .. MaxPos |-> ByteAt(pos)],
  size <- dev.size,
  reply <- [p \in Procs |->
              IF call[p].op = "done" THEN call[p].result ELSE <<>>]

ImplementsFile == File!Spec
=============================================================================
