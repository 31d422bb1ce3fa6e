------------------------------- MODULE ScullC -------------------------------
(***************************************************************************)
(* The scullc device: a scull device whose quanta are objects of a slab    *)
(* cache.  The cache is made when the module is loaded, for objects of the *)
(* size scullc_quantum then has; the ioctl changes scullc_quantum, a trim  *)
(* makes it the device's quantum, and an object is cleared up to it.       *)
(*                                                                         *)
(* read and write take the device's quantum and qset before its mutex;     *)
(* what they do under it is one step.  Every process has a file of its     *)
(* own.  Loading and unloading, the proc file and deferred calls are left  *)
(* out; the mappings of mmap.c are not among the file operations.          *)
(***************************************************************************)
EXTENDS QuantumSets

CONSTANTS
  Procs,            (* the processes                                       *)
  SCULLC_QUANTUM, SCULLC_QSET,  (* the parameters at load time             *)
  Quanta, Qsets,    (* what the ioctl may set them to                      *)
  Writes,           (* the byte sequences a write may be given             *)
  Counts,           (* the numbers of bytes a read may ask for             *)
  Offsets,          (* the offsets of a seek                               *)
  MaxPos,           (* bound: the positions considered                     *)
  Fill              (* a byte of an object that nothing was written to     *)

VARIABLES
  scullc_quantum, scullc_qset,  (* the driver's parameters                 *)
  dev,              (* struct scullc_dev: quantum, qset, size, and the     *)
                    (* arrays of its list                                  *)
  lock,             (* free, or lost with a process that died holding it   *)
  file,             (* "closed" or the mode, and f_pos, of each process    *)
  call              (* the call each process is in                         *)

vars == <<scullc_quantum, scullc_qset, dev, lock, file, call>>
parameters == <<scullc_quantum, scullc_qset>>

Closed == [mode |-> "closed", f_pos |-> 0]
NoCall == [op |-> "none"]

Init ==
  /\ scullc_quantum = SCULLC_QUANTUM /\ scullc_qset = SCULLC_QSET
  /\ dev = [quantum |-> SCULLC_QUANTUM, qset |-> SCULLC_QSET, size |-> 0,
            data |-> <<NULL>>]
  /\ lock = "free"
  /\ file = [p \in Procs |-> Closed]
  /\ call = [p \in Procs |-> NoCall]

(* Faulty: the cache would be made anew for the size of now. *)
ObjectOfNow == 0 .. dev.quantum - 1

(* The bytes of an object of scullc_cache.                                 *)
Object == 0 .. SCULLC_QUANTUM - 1

(* kmem_cache_alloc, and the memset of scullc_quantum bytes.               *)
FreshQuantum == [i \in Object \cup 0 .. scullc_quantum - 1 |-> Fill]

-----------------------------------------------------------------------------
UserAt(p) == call[p] = NoCall /\ file[p].mode # "closed"
Finish(p, result) ==
  call' = [call EXCEPT ![p] = [op |-> "done", result |-> result]]

(* Faulty: the quantum is the new one for what was stored with the old. *)
TrimKeepsData(d) ==
  [d EXCEPT !.size = 0, !.quantum = scullc_quantum, !.qset = scullc_qset]

scullc_trim(d) ==
  [d EXCEPT !.size = 0, !.data = <<NULL>>,
            !.quantum = scullc_quantum, !.qset = scullc_qset]

scullc_open(p, mode) ==
  /\ call[p] = NoCall /\ file[p] = Closed
  /\ file' = [file EXCEPT ![p] = [mode |-> mode, f_pos |-> 0]]
  /\ IF mode = "w" THEN lock = "free" /\ dev' = scullc_trim(dev)
                   ELSE UNCHANGED dev
  /\ UNCHANGED <<parameters, lock, call>>

scullc_release(p) ==
  /\ UserAt(p)
  /\ file' = [file EXCEPT ![p] = Closed]
  /\ UNCHANGED <<parameters, dev, lock, call>>

(* The call starts: quantum and qset are read, without the mutex.          *)
Enter(p, op, arg) ==
  /\ UserAt(p)
  /\ call' = [call EXCEPT ![p] = [op |-> op, arg |-> arg,
                                  quantum |-> dev.quantum, qset |-> dev.qset]]
  /\ UNCHANGED <<parameters, dev, lock, file>>

(* Interrupted while it waits for the mutex.                               *)
Interrupted(p) ==
  /\ call[p].op \in {"read", "write"}
  /\ Finish(p, <<"error">>)
  /\ UNCHANGED <<parameters, dev, lock, file>>

(* scullc_follow does not look at what kmalloc returns: without memory for *)
(* an item the process dies, and the mutex is never unlocked.              *)
FollowDies(p) ==
  LET at == Place(file[p].f_pos, call[p].quantum, call[p].qset)
  IN  /\ call[p].op \in {"read", "write"} /\ lock = "free"
      /\ call[p].op = "read" => file[p].f_pos <= dev.size
      /\ \E data \in FailedFollows(dev.data, at.item) :
           dev' = [dev EXCEPT !.data = data]
      /\ lock' = "lost"
      /\ call' = [call EXCEPT ![p] = [op |-> "died"]]
      /\ UNCHANGED <<parameters, file>>

(* Faulty: a call goes on behind the end of its quantum. *)
CountWhole(count, quantum, q_pos) == count

(* "only up to the end of this quantum"                                    *)
InQuantum(count, quantum, q_pos) == Smaller(count, quantum - q_pos)

(* At the end of the file the list is followed, and extended, as well.     *)
scullc_read(p) ==
  LET c == call[p]
      pos == file[p].f_pos
      at == Place(pos, c.quantum, c.qset)
      data == scull_follow(dev.data, at.item)
      quantum == QuantumAt(data, at)
      count == InQuantum(Smaller(c.arg, dev.size - pos), c.quantum, at.q_pos)
      bytes == [i \in 1 .. count |-> quantum[at.q_pos + i - 1]]
  IN  /\ c.op = "read" /\ lock = "free"
      /\ IF pos > dev.size
           THEN Finish(p, <<"read", <<>>>>) /\ UNCHANGED <<dev, file>>
           ELSE /\ dev' = [dev EXCEPT !.data = data]
                /\ IF quantum = NULL \/ count = 0
                     THEN Finish(p, <<"read", <<>>>>) /\ UNCHANGED file
                     ELSE \/ /\ Finish(p, <<"read", bytes>>)
                             /\ file' = [file EXCEPT ![p].f_pos = @ + count]
                          \/ Finish(p, <<"error">>) /\ UNCHANGED file
      /\ UNCHANGED <<parameters, lock>>

(* A copy that fails, which may be after some of the bytes, leaves         *)
(* position and size.                                                      *)
scullc_write(p) ==
  LET c == call[p]
      pos == file[p].f_pos
      at == Place(pos, c.quantum, c.qset)
      data == WithQuantum(dev.data, at, c.qset, FreshQuantum)
      count == InQuantum(Len(c.arg), c.quantum, at.q_pos)
      First(n) == SubSeq(c.arg, 1, n)
  IN  /\ c.op = "write" /\ lock = "free"
      /\ \/ /\ dev' = [dev EXCEPT !.data = Written(data, at, First(count)),
                                  !.size = IF @ < pos + count THEN pos + count
                                                              ELSE @]
            /\ file' = [file EXCEPT ![p].f_pos = pos + count]
            /\ Finish(p, <<"write", First(count)>>)
         \/ /\ \E n \in 0 .. count - 1 :
                 dev' = [dev EXCEPT !.data = Written(data, at, First(n))]
            /\ UNCHANGED file
            /\ Finish(p, <<"error">>)
      /\ UNCHANGED <<parameters, lock>>

(* No memory for the array, or in the cache.                               *)
WriteNoMemory(p) ==
  LET c == call[p]
      at == Place(file[p].f_pos, c.quantum, c.qset)
      list == scull_follow(dev.data, at.item)
      array == WithArray(dev.data, at, c.qset)
  IN  /\ c.op = "write" /\ lock = "free" /\ QuantumAt(list, at) = NULL
      /\ \/ dev' = [dev EXCEPT !.data = array]
         \/ array # list /\ dev' = [dev EXCEPT !.data = list]
      /\ Finish(p, <<"error">>)
      /\ UNCHANGED <<parameters, lock, file>>

Return(p) ==
  /\ call[p].op = "done"
  /\ call' = [call EXCEPT ![p] = NoCall]
  /\ UNCHANGED <<parameters, dev, lock, file>>

(* The size is read without the mutex.                                     *)
scullc_llseek(p, off, whence) ==
  LET newpos == off + (CASE whence = "SEEK_SET" -> 0
                         [] whence = "SEEK_CUR" -> file[p].f_pos
                         [] whence = "SEEK_END" -> dev.size)
  IN  /\ UserAt(p)
      /\ newpos \in 0 .. MaxPos
      /\ file' = [file EXCEPT ![p].f_pos = newpos]
      /\ UNCHANGED <<parameters, dev, lock, call>>

(* Set, Tell, eXchange and sHift all store the argument, unchecked.        *)
scullc_ioctl ==
  /\ \/ scullc_quantum' = SCULLC_QUANTUM /\ scullc_qset' = SCULLC_QSET
     \/ scullc_quantum' \in Quanta /\ UNCHANGED scullc_qset
     \/ scullc_qset' \in Qsets /\ UNCHANGED scullc_quantum
  /\ UNCHANGED <<dev, lock, file, call>>

Next ==
  \/ scullc_ioctl
  \/ \E p \in Procs :
       \/ \E mode \in {"r", "w", "rw"} : scullc_open(p, mode)
       \/ scullc_release(p)
       \/ file[p].mode # "w" /\ \E n \in Counts : Enter(p, "read", n)
       \/ /\ file[p].mode # "r"
          /\ \E d \in Writes :
               file[p].f_pos + Len(d) <= MaxPos /\ Enter(p, "write", d)
       \/ scullc_read(p) \/ scullc_write(p) \/ WriteNoMemory(p) \/ FollowDies(p)
       \/ Interrupted(p) \/ Return(p)
       \/ \E off \in Offsets, whence \in {"SEEK_SET", "SEEK_CUR", "SEEK_END"} :
            scullc_llseek(p, off, whence)

Spec == Init /\ [][Next]_vars

-----------------------------------------------------------------------------
(* No byte is cleared or stored outside an object, though the sizes that   *)
(* the device and the driver believe in change while objects are in use    *)
(* (main.c:245-252, 433, 492).  So for quanta not larger than the one at   *)
(* load time; for larger ones, both the memset and the copy leave it.      *)
ObjectsHold ==
  \A k \in DOMAIN dev.data : \A i \in DOMAIN dev.data[k] :
    dev.data[k][i] # NULL => DOMAIN dev.data[k][i] = Object

(* The device is a file in memory, however its bytes are laid out.         *)
ByteAt(pos) ==
  LET at == Place(pos, dev.quantum, dev.qset)
      quantum == QuantumAt(dev.data, at)
  IN  IF at.q_pos \in DOMAIN quantum THEN quantum[at.q_pos] ELSE Fill

BytesOf(s) == {s[i] : i \in DOMAIN s}

File == INSTANCE SparseFile WITH
  Positions <- 0 .. MaxPos,
  Hole <- Fill,
  Chunks <- UNION {[1 .. n -> {Fill} \cup UNION {BytesOf(d) : d \in Writes}] :
                     n \in Quanta \cup {SCULLC_QUANTUM}},
  content <- [pos \in 0 .. MaxPos |-> ByteAt(pos)],
  size <- dev.size,
  reply <- [p \in Procs |->
              IF call[p].op = "done" THEN call[p].result ELSE <<>>]

ImplementsFile == File!Spec
=============================================================================
