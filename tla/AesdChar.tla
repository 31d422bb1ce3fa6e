------------------------------ MODULE AesdChar ------------------------------
(***************************************************************************)
(* The aesdchar driver, aesd-char-driver/main.c: one device, a circular    *)
(* buffer of complete commands and one partial command behind a mutex,     *)
(* used by processes that may share open files.                            *)
(*                                                                         *)
(* A system call is: the VFS copies the file's position (Syscall), the     *)
(* handler takes the mutex (Lock), runs in one step or a few and releases  *)
(* it, and the VFS stores the position back if the call did not fail       *)
(* (Return).  The position of a character device's file has no lock of its *)
(* own, so the calls of two processes on one file interleave between these *)
(* steps; llseek and the ioctl write the file's position directly.         *)
(***************************************************************************)
EXTENDS CircularBuffer

CONSTANTS
  Procs,      (* the processes that make system calls                      *)
  Files,      (* the open file descriptions they use, shared or not        *)
  NoProc,     (* the value of lock while the mutex is free                 *)
  Newline,    (* '\n'                                                      *)
  Requests,   (* the system calls made, with their arguments               *)
  MaxAlloc,   (* bound: the largest size kmalloc serves                    *)
  MaxPos      (* bound: no read or write starts beyond this file position  *)

ReadRequests == [op : {"read"}, count : Nat]
WriteRequests == [op : {"write"}, data : Seq(Bytes)]
LlseekRequests ==
  [op : {"llseek"}, offset : Int,
   whence : {"SEEK_SET", "SEEK_CUR", "SEEK_END", "other"}]
SeekToRequests == [op : {"seekto"}, write_cmd : Nat, write_cmd_offset : Nat]
OtherIoctls == [op : {"ioctl"}]

ASSUME RequestsAssumption ==
  Requests \subseteq ReadRequests \cup WriteRequests \cup LlseekRequests
                       \cup SeekToRequests \cup OtherIoctls
ASSUME BoundsAssumption == MaxAlloc \in Nat /\ MaxPos \in Nat
ASSUME NoProcAssumption == NoProc \notin Procs
ASSUME NewlineAssumption == Newline \in Bytes

VARIABLES
  boot,     (* how far the module is loaded                                *)
  buffer,   (* dev->buffer                                                 *)
  partial,  (* dev->buffer_partial and dev->size_partial                   *)
  lock,     (* dev->lock: the process that holds it                        *)
  heap,     (* the blocks kmalloc has given out and kfree not taken back   *)
  file,     (* file->f_pos of each open file                               *)
  call,     (* the system call each process is in, and its local variables *)
  reply     (* what the handler of each process's call returned            *)

vars == <<boot, buffer, partial, lock, heap, file, call, reply>>
dev == <<boot, buffer, partial, heap>>

Idle == [pc |-> "idle"]
Closed == [open |-> FALSE, pos |-> 0]

Init ==
  /\ boot = "unloaded"
  /\ buffer = aesd_circular_buffer_init
  /\ partial = EmptyEntry
  /\ lock = NoProc
  /\ heap = {}
  /\ file = [f \in Files |-> Closed]
  /\ call = [p \in Procs |-> Idle]
  /\ reply = [p \in Procs |-> <<>>]

-----------------------------------------------------------------------------
(***************************************************************************)
(* Loading and unloading.  aesd_init_module zeroes the device and adds the *)
(* character device, which is live from then on, before it initialises the *)
(* mutex and the circular buffer.  A load that fails leaves no device.     *)
(***************************************************************************)
AddDevice ==
  /\ boot = "unloaded"
  /\ boot' = "cdev_added"
  /\ buffer' = aesd_circular_buffer_init
  /\ partial' = EmptyEntry
  /\ lock' = NoProc
  /\ UNCHANGED <<heap, file, call, reply>>

InitMutex ==
  /\ boot = "cdev_added"
  /\ boot' = "mutex_ready"
  /\ lock' = NoProc
  /\ UNCHANGED <<buffer, partial, heap, file, call, reply>>

InitBuffer ==
  /\ boot = "mutex_ready"
  /\ boot' = "loaded"
  /\ buffer' = aesd_circular_buffer_init
  /\ UNCHANGED <<partial, lock, heap, file, call, reply>>

(* aesd_cleanup_module: rmmod waits for the last open file to be closed,   *)
(* and no file can be opened once it has begun.                            *)
aesd_cleanup_module ==
  /\ boot = "loaded"
  /\ \A f \in Files : ~ file[f].open
  /\ boot' = "unloaded"
  /\ heap' = heap \ ({partial.buffptr}
                       \cup {buffer.entry[i].buffptr : i \in Slots})
  /\ UNCHANGED <<buffer, partial, lock, file, call, reply>>

-----------------------------------------------------------------------------
(* aesd_open and aesd_release keep no state; the VFS makes the file.       *)
OpenFile(f) ==
  /\ ~ file[f].open
  /\ file' = [file EXCEPT ![f] = [open |-> TRUE, pos |-> 0]]
  /\ UNCHANGED <<dev, lock, call, reply>>

Open(f) == boot = "loaded" /\ OpenFile(f)

(* The device answers an open as soon as it is added.                      *)
OpenEarly(f) == boot \in {"cdev_added", "mutex_ready"} /\ OpenFile(f)

Using(p, f) == call[p].pc # "idle" /\ call[p].file = f

Close(f) ==
  /\ file[f].open
  /\ \A p \in Procs : ~ Using(p, f)
  /\ file' = [file EXCEPT ![f] = Closed]
  /\ UNCHANGED <<dev, lock, call, reply>>

(* The VFS enters a handler with a copy of the file's position.            *)
Syscall(p, f, r) ==
  /\ call[p].pc = "idle"
  /\ file[f].open
  /\ r.op \in {"read", "write"} => file[f].pos <= MaxPos
  /\ call' = [call EXCEPT ![p] =
                [pc |-> "start", file |-> f, req |-> r, pos |-> file[f].pos,
                 done |-> <<>>, kbuf |-> NULL]]
  /\ UNCHANGED <<dev, lock, file, reply>>

(* An ioctl that is refused before the mutex: a number that is not the     *)
(* driver's (ENOTTY), or an argument that cannot be copied in (EFAULT).    *)
IoctlRefused(p) ==
  /\ call[p].pc = "start"
  /\ call[p].req.op \in {"ioctl", "seekto"}
  /\ call' = [call EXCEPT ![p].pc = "return"]
  /\ reply' = [reply EXCEPT ![p] = <<"error">>]
  /\ UNCHANGED <<dev, lock, file>>

(* Faulty: the mutex is not waited for. *)
LockHeld(p) ==
  /\ call[p].pc = "start"
  /\ call[p].req.op # "ioctl"
  /\ lock' = p
  /\ call' = [call EXCEPT ![p].pc = "locked"]
  /\ UNCHANGED <<dev, file, reply>>

(* mutex_lock(&dev->lock) *)
Lock(p) ==
  /\ call[p].pc = "start"
  /\ call[p].req.op # "ioctl"
  /\ lock = NoProc
  /\ lock' = p
  /\ call' = [call EXCEPT ![p].pc = "locked"]
  /\ UNCHANGED <<dev, file, reply>>

(* The VFS stores the position a read or a write left, unless it failed.   *)
Return(p) ==
  /\ call[p].pc = "return"
  /\ file' = IF reply[p][1] \in {"read", "write"}
               THEN [file EXCEPT ![call[p].file].pos = call[p].pos]
               ELSE file
  /\ call' = [call EXCEPT ![p] = Idle]
  /\ reply' = [reply EXCEPT ![p] = <<>>]
  /\ UNCHANGED <<dev, lock>>

-----------------------------------------------------------------------------
InHandler(p, op, pc) == call[p].pc = pc /\ call[p].req.op = op

(* The end of a handler: mutex_unlock and the value returned.              *)
Unlock(p, r, pos) ==
  /\ lock' = NoProc
  /\ reply' = [reply EXCEPT ![p] = r]
  /\ call' = [call EXCEPT ![p] =
                [pc |-> "return", file |-> call[p].file, req |-> call[p].req,
                 pos |-> pos, done |-> <<>>, kbuf |-> NULL]]

(***************************************************************************)
(* aesd_read: each turn of its loop looks the position up again and copies *)
(* what one entry has.  A fault loses the count of what was copied.        *)
(***************************************************************************)
Smaller(a, b) == IF a < b THEN a ELSE b

aesd_read_copy(p) ==
  LET c == call[p]
      e == aesd_circular_buffer_find_entry_offset_for_fpos(buffer, c.pos)
      data == buffer.entry[e.idx].data
      n == Smaller(c.req.count - Len(c.done), Len(data) - e.offset)
  IN  /\ InHandler(p, "read", "locked")
      /\ e.found /\ Len(c.done) < c.req.count
      /\ call' = [call EXCEPT
                    ![p].done = @ \o SubSeq(data, e.offset + 1, e.offset + n),
                    ![p].pos = @ + n]
      /\ UNCHANGED <<dev, lock, file, reply>>

aesd_read_fault(p) ==
  LET c == call[p]
  IN  /\ InHandler(p, "read", "locked")
      /\ aesd_circular_buffer_find_entry_offset_for_fpos(buffer, c.pos).found
      /\ Len(c.done) < c.req.count
      /\ Unlock(p, <<"error">>, c.pos)
      /\ UNCHANGED <<dev, file>>

aesd_read_done(p) ==
  LET c == call[p]
  IN  /\ InHandler(p, "read", "locked")
      /\ \/ Len(c.done) >= c.req.count
         \/ ~ aesd_circular_buffer_find_entry_offset_for_fpos(buffer,
                                                              c.pos).found
      /\ Unlock(p, <<"read", c.pos - Len(c.done), c.done>>, c.pos)
      /\ UNCHANGED <<dev, file>>

(***************************************************************************)
(* aesd_write: the data is copied into kbuf, then appended to the partial  *)
(* command in a newly allocated block.  A newline anywhere in the data     *)
(* completes the command: all of it becomes one entry.                     *)
(***************************************************************************)
aesd_write_copy(p) ==
  /\ InHandler(p, "write", "locked")
  /\ \E kbuf \in Blocks \ heap :
       /\ heap' = heap \cup {kbuf}
       /\ call' = [call EXCEPT ![p].pc = "append", ![p].kbuf = kbuf]
  /\ UNCHANGED <<boot, buffer, partial, lock, file, reply>>

(* kbuf is not allocated (ENOMEM), or freed again since the data could not *)
(* be copied in (EFAULT).                                                  *)
aesd_write_refused(p) ==
  /\ InHandler(p, "write", "locked")
  /\ Unlock(p, <<"error">>, call[p].pos)
  /\ UNCHANGED <<dev, file>>

Complete(d) == \E i \in DOMAIN d : d[i] = Newline

aesd_write_append(p) ==
  LET c == call[p]
      d == c.req.data
  IN  /\ InHandler(p, "write", "append")
      /\ Len(partial.data) + Len(d) <= MaxAlloc
      /\ \E newbuf \in Blocks \ heap :
           LET e == [buffptr |-> newbuf, data |-> partial.data \o d]
               kept == (heap \cup {newbuf}) \ {partial.buffptr, c.kbuf}
           IN  IF Complete(d)
                 THEN /\ buffer' = aesd_circular_buffer_add_entry(buffer, e)
                      /\ heap' = kept \ {ReplacedPtr(buffer)}
                      /\ partial' = EmptyEntry
                 ELSE /\ partial' = e
                      /\ heap' = kept
                      /\ UNCHANGED buffer
      /\ Unlock(p, <<"write", Len(d)>>, c.pos + Len(d))
      /\ UNCHANGED <<boot, file>>

(* Faulty: the size of the partial command grows before the allocation.    *)
NomemGrows(p) ==
  /\ InHandler(p, "write", "append")
  /\ heap' = heap \ {call[p].kbuf}
  /\ partial' = [partial EXCEPT !.data = @ \o call[p].req.data]
  /\ Unlock(p, <<"error">>, call[p].pos)
  /\ UNCHANGED <<boot, buffer, file>>

(* newbuf is not allocated: kbuf is freed, nothing has been appended.      *)
aesd_write_nomem(p) ==
  /\ InHandler(p, "write", "append")
  /\ heap' = heap \ {call[p].kbuf}
  /\ Unlock(p, <<"error">>, call[p].pos)
  /\ UNCHANGED <<boot, buffer, partial, file>>

-----------------------------------------------------------------------------
(***************************************************************************)
(* aesd_llseek: AESD_CIRCULAR_BUFFER_FOREACH visits every slot, in use or  *)
(* not, and adds the sizes of those that hold a command.                   *)
(***************************************************************************)
TotalSize ==
  RunningSum([i \in Slots |->
                IF buffer.entry[i].buffptr # NULL
                  THEN Len(buffer.entry[i].data) ELSE 0])[N]

SeekTarget(p) ==
  LET r == call[p].req
  IN  CASE r.whence = "SEEK_SET" -> r.offset
        [] r.whence = "SEEK_CUR" -> file[call[p].file].pos + r.offset
        [] r.whence = "SEEK_END" -> TotalSize + r.offset
        [] r.whence = "other" -> -1

aesd_llseek(p) ==
  LET newpos == Smaller(SeekTarget(p), TotalSize)
  IN  /\ InHandler(p, "llseek", "locked")
      /\ IF newpos < 0
           THEN Unlock(p, <<"error">>, call[p].pos) /\ UNCHANGED file
           ELSE /\ Unlock(p, <<"llseek", newpos>>, call[p].pos)
                /\ file' = [file EXCEPT ![call[p].file].pos = newpos]
      /\ UNCHANGED dev

(***************************************************************************)
(* AESDCHAR_IOCSEEKTO: the loop visits the slots from out_offs on, passes  *)
(* over empty ones, and stops at the write_cmd-th command; when there is   *)
(* no such command it ends with entry at the last slot visited.  Passed is *)
(* the number of slots the loop has left behind.                           *)
(***************************************************************************)
InUse(k) == buffer.entry[SlotAt(buffer, k)].buffptr # NULL

CommandsBefore == RunningSum([k \in Slots |-> IF InUse(k) THEN 1 ELSE 0])

(* Faulty: the count is advanced before it is compared. *)
StopsAfter(k, cmd) == InUse(k) /\ CommandsBefore[k+1] = cmd
StopsAt(k, cmd) == InUse(k) /\ CommandsBefore[k] = cmd

Passed(cmd) ==
  IF \E k \in Slots : StopsAt(k, cmd)
    THEN CHOOSE k \in Slots : StopsAt(k, cmd)
    ELSE N

aesd_unlocked_ioctl(p) ==
  LET r == call[p].req
      k == Passed(r.write_cmd)
      entry == buffer.entry[SlotAt(buffer, IF k = N THEN N-1 ELSE k)]
      newpos == SizeBefore(buffer)[k] + r.write_cmd_offset
  IN  /\ InHandler(p, "seekto", "locked")
      /\ IF entry.buffptr = NULL \/ r.write_cmd_offset >= Len(entry.data)
           THEN Unlock(p, <<"error">>, call[p].pos) /\ UNCHANGED file
           ELSE /\ Unlock(p, <<"seekto", newpos>>, call[p].pos)
                /\ file' = [file EXCEPT ![call[p].file].pos = newpos]
      /\ UNCHANGED dev

-----------------------------------------------------------------------------
Read(p) == aesd_read_copy(p) \/ aesd_read_fault(p) \/ aesd_read_done(p)
Write(p) ==
  \/ aesd_write_copy(p) \/ aesd_write_refused(p)
  \/ aesd_write_append(p) \/ aesd_write_nomem(p)

Handler(p) == Read(p) \/ Write(p) \/ aesd_llseek(p) \/ aesd_unlocked_ioctl(p)

Module == AddDevice \/ InitMutex \/ InitBuffer \/ aesd_cleanup_module

Next ==
  \/ Module
  \/ \E f \in Files : Open(f) \/ Close(f)
  \/ \E p \in Procs :
       \/ \E f \in Files, r \in Requests : Syscall(p, f, r)
       \/ IoctlRefused(p) \/ Lock(p) \/ Handler(p) \/ Return(p)

Spec == Init /\ [][Next]_vars

(* The same with a process that opens the device while it is being loaded. *)
NextEarly == Next \/ \E f \in Files : OpenEarly(f)
SpecEarly == Init /\ [][NextEarly]_vars

-----------------------------------------------------------------------------
(* Types. *)
Answers ==
  {<<>>, <<"error">>} \cup ({"write", "llseek", "seekto"} \X Nat)
     \cup ({"read"} \X Int \X Seq(Bytes))

Active ==
  [pc : {"start", "locked", "append", "return"}, file : Files, req : Requests,
   pos : Nat, done : Seq(Bytes), kbuf : Blocks \cup {NULL}]

TypeOK ==
  /\ boot \in {"unloaded", "cdev_added", "mutex_ready", "loaded"}
  /\ buffer \in CircularBuffers
  /\ partial \in BufferEntry
  /\ lock \in Procs \cup {NoProc}
  /\ heap \subseteq Blocks
  /\ file \in [Files -> [open : BOOLEAN, pos : Nat]]
  /\ call \in [Procs -> {Idle} \cup Active]
  /\ reply \in [Procs -> Answers]

(***************************************************************************)
(* The indices and the slots of the ring agree after any sequence of       *)
(* writes: the slots that hold a command are those from out_offs up to     *)
(* in_offs, or all of them once full is set, and no other slot holds a     *)
(* pointer that the loops over all N slots (llseek, the ioctl, cleanup)    *)
(* would take for a command.                                               *)
(***************************************************************************)
RingOK == WellFormed(buffer)

(***************************************************************************)
(* Memory: every allocated block has exactly one owner (a slot, the        *)
(* partial command or the kbuf of the write in progress) and every pointer *)
(* held is to an allocated block.  No path of aesd_write or of cleanup     *)
(* leaks a block, frees one twice or keeps a pointer to a freed one.       *)
(***************************************************************************)
InWrite(p) == call[p].pc = "append"

Owned ==
  ({partial.buffptr} \cup {buffer.entry[i].buffptr : i \in Slots}
     \cup {call[p].kbuf : p \in {q \in Procs : InWrite(q)}}) \ {NULL}

NoAliases ==
  /\ \A i, j \in Slots :
       i # j /\ buffer.entry[i].buffptr # NULL
         => buffer.entry[i].buffptr # buffer.entry[j].buffptr
  /\ \A i \in Slots :
       partial.buffptr # NULL => buffer.entry[i].buffptr # partial.buffptr
  /\ \A p \in Procs : InWrite(p) =>
       /\ call[p].kbuf \in heap
       /\ call[p].kbuf # partial.buffptr
       /\ \A i \in Slots : call[p].kbuf # buffer.entry[i].buffptr

HeapOK ==
  IF boot = "unloaded" THEN heap = {} ELSE heap = Owned /\ NoAliases

(***************************************************************************)
(* Only the holder of the mutex is inside a handler's critical section, so *)
(* the steps of a read's loop all see one state of the ring.               *)
(***************************************************************************)
InSection(p) == call[p].pc \in {"locked", "append"}
LockOK == \A p \in Procs : InSection(p) <=> lock = p

(***************************************************************************)
(* A system call holds its file open, so the module is neither loaded nor  *)
(* unloaded under a call, and while it is being loaded the device is empty.*)
(* With the above this is inductive: IInv is what the proofs carry along.  *)
(***************************************************************************)
BootOK ==
  /\ boot # "loaded" => \A f \in Files : ~ file[f].open
  /\ \A p \in Procs : call[p].pc # "idle" => file[call[p].file].open
  /\ boot \in {"cdev_added", "mutex_ready"} =>
       buffer = aesd_circular_buffer_init /\ partial = EmptyEntry

IInv == TypeOK /\ BootOK /\ RingOK /\ LockOK /\ HeapOK

(***************************************************************************)
(* What the ring holds is complete commands and what the partial buffer    *)
(* holds is not one: a read never sees an unfinished command, and a        *)
(* finished one is never held back.                                        *)
(***************************************************************************)
EntriesComplete ==
  /\ \A i \in Slots : buffer.entry[i].buffptr # NULL
                        => Complete(buffer.entry[i].data)
  /\ ~ Complete(partial.data)

(***************************************************************************)
(* The driver implements the abstract log: each write appends once or not  *)
(* at all, and a read that runs through several entries, in several steps, *)
(* delivers one contiguous piece of the stream.                            *)
(***************************************************************************)
AbstractLog ==
  INSTANCE AesdLog WITH
    log <- Commands(buffer),
    pending <- partial.data,
    Payloads <- {r.data : r \in {q \in Requests : q.op = "write"}},
    Counts <- {r.count : r \in {q \in Requests : q.op = "read"}},
    Positions <- 0 .. MaxPos + 2 * (N + 1) * MaxAlloc

ImplementsLog == AbstractLog!Spec

(***************************************************************************)
(* A seek that succeeds lands at the offset asked for, within the command  *)
(* asked for, counted from the oldest command kept (aesd_ioctl.h: "The     *)
(* zero referenced write command to seek into", "The zero referenced       *)
(* offset within the write"), and one that fails had no such place to go.  *)
(***************************************************************************)
Seeks(p) == InHandler(p, "seekto", "locked") /\ call'[p].pc = "return"

SeekPossible(r) ==
  LET commands == Commands(buffer)
  IN  /\ r.write_cmd < Len(commands)
      /\ r.write_cmd_offset < Len(commands[r.write_cmd + 1])

SeekPosition(r) ==
  Len(AbstractLog!FlattenSeq(SubSeq(Commands(buffer), 1, r.write_cmd)))
    + r.write_cmd_offset

SeekExact(p) ==
  LET r == call[p].req
  IN  IF SeekPossible(r) THEN reply'[p] = <<"seekto", SeekPosition(r)>>
                         ELSE reply'[p] = <<"error">>

SeekLandsInCommand == [][\A p \in Procs : Seeks(p) => SeekExact(p)]_vars

(* What the code does keep of it: the seek is exact until the ring fills,  *)
(* and for a command that exists also then.                                *)
SeekExactInRange ==
  [][\A p \in Procs :
       /\ Seeks(p)
       /\ ~ buffer.full \/ call[p].req.write_cmd < N
       => SeekExact(p)]_vars

=============================================================================
