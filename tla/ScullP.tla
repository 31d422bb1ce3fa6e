------------------------------- MODULE ScullP -------------------------------
(***************************************************************************)
(* The scullp device: a scull device whose quanta are 2^order pages, and   *)
(* which can be mapped if order is 0.  While it is mapped it is not        *)
(* trimmed.  The first item of its list is the device itself; the others   *)
(* are allocated as zeroes, so that their own order, which is what their   *)
(* quanta are allocated with, is 0.                                        *)
(*                                                                         *)
(* read and write take the device's order and qset before they take its    *)
(* mutex; what they do under it is one step.  Every process has a file of  *)
(* its own, and an address space.  Loading and unloading, the proc file,   *)
(* calls deferred to a work item, and a read or write whose buffer is a    *)
(* mapping of the device, which needs the mutex it holds, are left out.    *)
(***************************************************************************)
EXTENDS QuantumSets

CONSTANTS
  Procs,            (* the processes                                       *)
  PAGE_SIZE,
  SCULLP_ORDER, SCULLP_QSET,    (* the parameters at load time             *)
  Orders, Qsets,    (* what the ioctl may set them to                      *)
  Writes,           (* the byte sequences a write may be given             *)
  Counts,           (* the numbers of bytes a read may ask for             *)
  Offsets,          (* the offsets of a seek                               *)
  MaxPos,           (* bound: the positions considered                     *)
  MaxVmas,          (* bound: the mappings of a process                    *)
  Zero              (* the byte a page is filled with                      *)

VARIABLES
  scullp_order, scullp_qset,    (* the driver's parameters                 *)
  dev,              (* struct scullp_dev: order, qset, size, vmas and the  *)
                    (* arrays of its list                                  *)
  mutex,            (* free, or lost with a process that died holding it   *)
  file,             (* "closed" or the mode, and f_pos, of each process    *)
  call,             (* the call each process is in                         *)
  maps              (* of each process: the number of its mappings, and    *)
                    (* the pages it has touched in them, with their places *)

vars == <<scullp_order, scullp_qset, dev, mutex, file, call, maps>>
parameters == <<scullp_order, scullp_qset>>

Closed == [mode |-> "closed", f_pos |-> 0]
NoCall == [op |-> "none"]
NoMaps == [vmas |-> 0, touched |-> {}]

Init ==
  /\ scullp_order = SCULLP_ORDER /\ scullp_qset = SCULLP_QSET
  /\ dev = [order |-> SCULLP_ORDER, qset |-> SCULLP_QSET, size |-> 0,
            vmas |-> 0, data |-> <<NULL>>]
  /\ mutex = "free"
  /\ file = [p \in Procs |-> Closed]
  /\ call = [p \in Procs |-> NoCall]
  /\ maps = [p \in Procs |-> NoMaps]

Pages(order) == PAGE_SIZE * 2 ^ order

(* What a quantum of an item is allocated with, filled with zeroes.        *)
ItemOrder(item) == IF item = 0 THEN dev.order ELSE 0
FreshQuantum(item) == [i \in 0 .. Pages(ItemOrder(item)) - 1 |-> Zero]

-----------------------------------------------------------------------------
UserAt(p) == call[p] = NoCall /\ file[p].mode # "closed"
Finish(p, result) ==
  call' = [call EXCEPT ![p] = [op |-> "done", result |-> result]]

(* Faulty: the mappings are not looked at. *)
TrimMapped(d) ==
  [d EXCEPT !.size = 0, !.data = <<NULL>>,
            !.order = scullp_order, !.qset = scullp_qset]

(* Refused while there are mappings; open ignores that.                    *)
scullp_trim(d) ==
  IF d.vmas > 0 THEN d
    ELSE [d EXCEPT !.size = 0, !.data = <<NULL>>,
                   !.order = scullp_order, !.qset = scullp_qset]

scullp_open(p, mode) ==
  /\ call[p] = NoCall /\ file[p] = Closed
  /\ file' = [file EXCEPT ![p] = [mode |-> mode, f_pos |-> 0]]
  /\ IF mode = "w" THEN mutex = "free" /\ dev' = scullp_trim(dev)
                   ELSE UNCHANGED dev
  /\ UNCHANGED <<parameters, mutex, call, maps>>

scullp_release(p) ==
  /\ UserAt(p)
  /\ file' = [file EXCEPT ![p] = Closed]
  /\ UNCHANGED <<parameters, dev, mutex, call, maps>>

(* The call starts: order and qset are read, without the mutex.            *)
Enter(p, op, arg) ==
  /\ UserAt(p)
  /\ call' = [call EXCEPT ![p] = [op |-> op, arg |-> arg,
                                  quantum |-> Pages(dev.order), qset |-> dev.qset]]
  /\ UNCHANGED <<parameters, dev, mutex, file, maps>>

(* Interrupted while it waits for the mutex.                               *)
Interrupted(p) ==
  /\ call[p].op \in {"read", "write"}
  /\ Finish(p, <<"error">>)
  /\ UNCHANGED <<parameters, dev, mutex, file, maps>>

(* scullp_follow does not look at what kmalloc returns: without memory for *)
(* an item the process dies, and the mutex is never unlocked.              *)
FollowDies(p) ==
  LET at == Place(file[p].f_pos, call[p].quantum, call[p].qset)
  IN  /\ call[p].op \in {"read", "write"} /\ mutex = "free"
      /\ call[p].op = "read" => file[p].f_pos <= dev.size
      /\ \E data \in FailedFollows(dev.data, at.item) :
           dev' = [dev EXCEPT !.data = data]
      /\ mutex' = "lost"
      /\ call' = [call EXCEPT ![p] = [op |-> "died"]]
      /\ UNCHANGED <<parameters, file, maps>>

(* At the end of the file the list is followed, and extended, as well.     *)
scullp_read(p) ==
  LET c == call[p]
      pos == file[p].f_pos
      at == Place(pos, c.quantum, c.qset)
      data == scull_follow(dev.data, at.item)
      quantum == QuantumAt(data, at)
      count == Smaller(Smaller(c.arg, dev.size - pos), c.quantum - at.q_pos)
      bytes == [i \in 1 .. count |-> quantum[at.q_pos + i - 1]]
  IN  /\ c.op = "read" /\ mutex = "free"
      /\ IF pos > dev.size
           THEN Finish(p, <<"read", <<>>>>) /\ UNCHANGED <<dev, file>>
           ELSE /\ dev' = [dev EXCEPT !.data = data]
                /\ IF quantum = NULL \/ count = 0
                     THEN Finish(p, <<"read", <<>>>>) /\ UNCHANGED file
                     ELSE \/ /\ Finish(p, <<"read", bytes>>)
                             /\ file' = [file EXCEPT ![p].f_pos = @ + count]
                          \/ Finish(p, <<"error">>) /\ UNCHANGED file
      /\ UNCHANGED <<parameters, mutex, maps>>

(* Faulty: the size is that of the last write. *)
SizeOfLast(size, end) == end

Grown(size, end) == IF size < end THEN end ELSE size

(* A copy that fails, which may be after some of the bytes, leaves         *)
(* position and size.                                                      *)
scullp_write(p) ==
  LET c == call[p]
      pos == file[p].f_pos
      at == Place(pos, c.quantum, c.qset)
      data == WithQuantum(dev.data, at, c.qset, FreshQuantum(at.item))
      count == Smaller(Len(c.arg), c.quantum - at.q_pos)
      First(n) == SubSeq(c.arg, 1, n)
  IN  /\ c.op = "write" /\ mutex = "free"
      /\ \/ /\ dev' = [dev EXCEPT !.data = Written(data, at, First(count)),
                                  !.size = Grown(@, pos + count)]
            /\ file' = [file EXCEPT ![p].f_pos = pos + count]
            /\ Finish(p, <<"write", First(count)>>)
         \/ /\ \E n \in 0 .. count - 1 :
                 dev' = [dev EXCEPT !.data = Written(data, at, First(n))]
            /\ UNCHANGED file
            /\ Finish(p, <<"error">>)
      /\ UNCHANGED <<parameters, mutex, maps>>

(* No memory for the array, or for the quantum.                            *)
WriteNoMemory(p) ==
  LET c == call[p]
      at == Place(file[p].f_pos, c.quantum, c.qset)
      list == scull_follow(dev.data, at.item)
      array == WithArray(dev.data, at, c.qset)
  IN  /\ c.op = "write" /\ mutex = "free" /\ QuantumAt(list, at) = NULL
      /\ \/ dev' = [dev EXCEPT !.data = array]
         \/ array # list /\ dev' = [dev EXCEPT !.data = list]
      /\ Finish(p, <<"error">>)
      /\ UNCHANGED <<parameters, mutex, file, maps>>

Return(p) ==
  /\ call[p].op = "done"
  /\ call' = [call EXCEPT ![p] = NoCall]
  /\ UNCHANGED <<parameters, dev, mutex, file, maps>>

(* The size is read without the mutex.                                     *)
scullp_llseek(p, off, whence) ==
  LET newpos == off + (CASE whence = "SEEK_SET" -> 0
                         [] whence = "SEEK_CUR" -> file[p].f_pos
                         [] whence = "SEEK_END" -> dev.size)
  IN  /\ UserAt(p)
      /\ newpos \in 0 .. MaxPos
      /\ file' = [file EXCEPT ![p].f_pos = newpos]
      /\ UNCHANGED <<parameters, dev, mutex, call, maps>>

(* Set, Tell, eXchange and sHift all store the argument, unchecked.        *)
scullp_ioctl ==
  /\ \/ scullp_order' = SCULLP_ORDER /\ scullp_qset' = SCULLP_QSET
     \/ scullp_order' \in Orders /\ UNCHANGED scullp_qset
     \/ scullp_qset' \in Qsets /\ UNCHANGED scullp_order
  /\ UNCHANGED <<dev, mutex, file, call, maps>>

-----------------------------------------------------------------------------
(* vmas is incremented without the mutex: an increment of one processor    *)
(* may be lost to another's.  Here one process maps at a time.             *)
scullp_vma_open(p) ==
  /\ maps[p].vmas < MaxVmas
  /\ dev' = [dev EXCEPT !.vmas = @ + 1]
  /\ maps' = [maps EXCEPT ![p].vmas = @ + 1]
  /\ UNCHANGED <<parameters, mutex, file>>

(* The order is looked at without the mutex.                               *)
MmapTest(p) ==
  /\ UserAt(p) /\ file[p].mode # "w"
  /\ IF dev.order = 0 THEN call' = [call EXCEPT ![p] = [op |-> "mmap"]]
                      ELSE Finish(p, <<"error">>)
  /\ UNCHANGED <<parameters, dev, mutex, file, maps>>

scullp_mmap(p) ==
  /\ call[p].op = "mmap"
  /\ scullp_vma_open(p)
  /\ call' = [call EXCEPT ![p] = NoCall]

(* The kernel splits a mapping, or copies it.                              *)
VmaCopied(p) ==
  maps[p].vmas > 0 /\ call[p] = NoCall /\ scullp_vma_open(p) /\ UNCHANGED call

(* The mappings of one process are of the same pages.                      *)
scullp_vma_close(p) ==
  /\ call[p] = NoCall /\ maps[p].vmas > 0
  /\ dev' = [dev EXCEPT !.vmas = @ - 1]
  /\ maps' = [maps EXCEPT ![p] =
                IF @.vmas = 1 THEN NoMaps
                              ELSE [vmas |-> @.vmas - 1, touched |-> @.touched]]
  /\ UNCHANGED <<parameters, mutex, file, call>>

(* Faulty: the list is not followed. *)
PageAtFirst(n) == [item |-> 0, s_pos |-> n % dev.qset]

(* "offset is a number of pages": the item and the place in its array.     *)
PageAt(n) == [item |-> n \div dev.qset, s_pos |-> n % dev.qset]

(* The first access to a page.  Of a hole, or past the end, it gets none   *)
(* and is made again.                                                      *)
scullp_vma_nopage(p, n) ==
  /\ call[p] = NoCall /\ maps[p].vmas > 0 /\ mutex = "free"
  /\ n * PAGE_SIZE < dev.size /\ QuantumAt(dev.data, PageAt(n)) # NULL
  /\ maps' = [maps EXCEPT ![p].touched = @ \cup {<<n, PageAt(n)>>}]
  /\ UNCHANGED <<parameters, dev, mutex, file, call>>

Next ==
  \/ scullp_ioctl
  \/ \E p \in Procs :
       \/ \E mode \in {"r", "w", "rw"} : scullp_open(p, mode)
       \/ scullp_release(p)
       \/ file[p].mode # "w" /\ \E n \in Counts : Enter(p, "read", n)
       \/ /\ file[p].mode # "r"
          /\ \E d \in Writes :
               file[p].f_pos + Len(d) <= MaxPos /\ Enter(p, "write", d)
       \/ scullp_read(p) \/ scullp_write(p) \/ WriteNoMemory(p) \/ FollowDies(p)
       \/ Interrupted(p) \/ Return(p)
       \/ \E off \in Offsets, whence \in {"SEEK_SET", "SEEK_CUR", "SEEK_END"} :
            scullp_llseek(p, off, whence)
       \/ MmapTest(p) \/ scullp_mmap(p) \/ VmaCopied(p) \/ scullp_vma_close(p)
       \/ \E n \in 0 .. MaxPos \div PAGE_SIZE : scullp_vma_nopage(p, n)

Spec == Init /\ [][Next]_vars

-----------------------------------------------------------------------------
(* A device that is mapped is not trimmed, and what is seen in a mapping   *)
(* is what read and write find at that offset: each page that was touched  *)
(* is still a quantum of the device, at the place of the page's offset     *)
(* (main.c:419, mmap.c:72-84).                                             *)
MappingShowsFile ==
  \A p \in Procs : \A t \in maps[p].touched :
    LET at == Place(t[1] * PAGE_SIZE, Pages(dev.order), dev.qset)
    IN  /\ [item |-> at.item, s_pos |-> at.s_pos] = t[2] /\ at.q_pos = 0
        /\ DOMAIN QuantumAt(dev.data, at) = 0 .. PAGE_SIZE - 1

(* No byte is stored outside a quantum (main.c:239-248).  So where order   *)
(* is 0, and in the first item; with another order, positions in the other *)
(* items are reckoned with quanta larger than what is allocated for them.  *)
QuantaFit ==
  \A k \in DOMAIN dev.data : \A i \in DOMAIN dev.data[k] :
    dev.data[k][i] # NULL
      => DOMAIN dev.data[k][i] = DOMAIN FreshQuantum(k - 1)

(* The device is a file in memory, however its bytes are laid out.         *)
ByteAt(pos) ==
  LET at == Place(pos, Pages(dev.order), dev.qset)
      quantum == QuantumAt(dev.data, at)
  IN  IF at.q_pos \in DOMAIN quantum THEN quantum[at.q_pos] ELSE Zero

BytesOf(s) == {s[i] : i \in DOMAIN s}

File == INSTANCE SparseFile WITH
  Positions <- 0 .. MaxPos,
  Hole <- Zero,
  Chunks <- UNION {[1 .. n -> {Zero} \cup UNION {BytesOf(d) : d \in Writes}] :
                     n \in {Pages(order) : order \in Orders \cup {SCULLP_ORDER}}},
  content <- [pos \in 0 .. MaxPos |-> ByteAt(pos)],
  size <- dev.size,
  reply <- [p \in Procs |->
              IF call[p].op = "done" THEN call[p].result ELSE <<>>]

ImplementsFile == File!Spec
=============================================================================
