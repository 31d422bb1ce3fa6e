----------------------------- MODULE ScullPipe ------------------------------
(***************************************************************************)
(* The scullpipe device: a circular buffer between readers and writers     *)
(* that sleep while there is nothing to read or no space to write.         *)
(*                                                                         *)
(* Pointers into the buffer are offsets from its start.  A process has one *)
(* file of the device.  A process that sleeps is in the wait queue until   *)
(* it is woken or leaves; between prepare_to_wait and schedule it is in    *)
(* the queue and may be taken out of it, which makes schedule return at    *)
(* once.  The buffer's pointers are read without the mutex where the code  *)
(* does so, and are moved and wrapped in two steps.                        *)
(***************************************************************************)
EXTENDS Integers, Sequences, FiniteSets, Processes

CONSTANTS
  BufferSize,   (* scull_p_buffer when the module is loaded                *)
  Sizes,        (* what the ioctl may set it to                            *)
  Modes,        (* the modes and flags a file may be opened with           *)
  Writes,       (* the byte sequences a write may be given                 *)
  Counts,       (* the numbers of bytes a read may ask for                 *)
  NoByte        (* a byte of the buffer that nothing was written to        *)

ASSUME SizeAssumption == BufferSize \in Nat \ {0} /\ Sizes \subseteq Nat \ {0}

(* A file is opened to read, to write or for both.                         *)
ASSUME ModesAssumption ==
  /\ Modes \subseteq [read : BOOLEAN, write : BOOLEAN, nonblock : BOOLEAN]
  /\ \A m \in Modes : m.read \/ m.write

BytesOf(s) == {s[i] : i \in DOMAIN s}
WrittenBytes == UNION {BytesOf(d) : d \in Writes}

ASSUME CallsAssumption ==
  Counts \subseteq Nat /\ \A d \in Writes : d \in Seq(WrittenBytes)

VARIABLES
  scull_p_buffer,   (* the module parameter                                *)
  dev,              (* struct scull_pipe, without its queues; allocated is *)
                    (* the size its buffer was allocated with, 0 if none   *)
  mem,              (* the bytes of the buffer                             *)
  lock,             (* the process that holds dev->lock                    *)
  inq, outq,        (* the processes in the wait queues                    *)
  file,             (* the file each process has: its mode, or "closed"    *)
  pc, call, buf     (* where each process is; what it asked; what it moved *)

vars == <<scull_p_buffer, dev, mem, lock, inq, outq, file, pc, call, buf>>
queues == <<inq, outq>>

Closed == [read |-> FALSE, write |-> FALSE, nonblock |-> FALSE]
NoCall == <<>>

Init ==
  /\ scull_p_buffer = BufferSize
  /\ dev = [allocated |-> 0, buffersize |-> 0, rp |-> 0, wp |-> 0,
            nreaders |-> 0, nwriters |-> 0]
  /\ mem = [i \in {} |-> NoByte]
  /\ lock = NoProc
  /\ inq = {} /\ outq = {}
  /\ file = [p \in Procs |-> Closed]
  /\ pc = [p \in Procs |-> "user"]
  /\ call = [p \in Procs |-> NoCall]
  /\ buf = [p \in Procs |-> <<>>]

-----------------------------------------------------------------------------
spacefree(d) ==
  IF d.rp = d.wp THEN d.buffersize - 1
                 ELSE ((d.rp + d.buffersize - d.wp) % d.buffersize) - 1

Smaller(x, y) == IF x < y THEN x ELSE y

(* Faulty: what is there is taken to end at end-of-buf; space is taken to  *)
(* be contiguous.                                                          *)
ReadToEnd(d, count) == Smaller(count, d.buffersize - d.rp)
WriteAnySpace(d, count) == Smaller(count, spacefree(d))

(* What a read of count bytes takes, what a write of count bytes accepts.  *)
ReadCount(d, count) ==
  IF d.wp > d.rp THEN Smaller(count, d.wp - d.rp)
                 ELSE Smaller(count, d.buffersize - d.rp)

WriteCount(d, count) ==
  LET n == Smaller(count, spacefree(d))
  IN  IF d.wp >= d.rp THEN Smaller(n, d.buffersize - d.wp)
                      ELSE Smaller(n, d.rp - d.wp - 1)

(* A pointer that has reached the end goes back to the start. *)
Wrapped(d, at) == IF at = d.buffersize THEN 0 ELSE at

IsOpen(p) == file[p] # Closed
Goto(p, l) == pc' = [pc EXCEPT ![p] = l]
Leave(p) ==
  /\ Goto(p, "user")
  /\ call' = [call EXCEPT ![p] = NoCall] /\ buf' = [buf EXCEPT ![p] = <<>>]

(* The process gets the mutex, or is interrupted while it waits for it.    *)
Acquire(p, from, to) ==
  /\ pc[p] = from /\ lock = NoProc
  /\ lock' = p
  /\ Goto(p, to)
  /\ UNCHANGED <<scull_p_buffer, dev, mem, queues, file, call, buf>>

-----------------------------------------------------------------------------
(* Open, in one step while the mutex is free.  Every open starts the       *)
(* pointers anew; only the first one allocates the buffer.                 *)
scull_p_open(p, m) ==
  LET size == IF dev.allocated = 0 THEN scull_p_buffer ELSE dev.allocated
  IN  /\ pc[p] = "user" /\ ~ IsOpen(p) /\ lock = NoProc
      /\ dev' = [allocated |-> size, buffersize |-> scull_p_buffer,
                 rp |-> 0, wp |-> 0,
                 nreaders |-> dev.nreaders + (IF m.read THEN 1 ELSE 0),
                 nwriters |-> dev.nwriters + (IF m.write THEN 1 ELSE 0)]
      /\ mem' = IF dev.allocated = 0
                  THEN [i \in 0 .. size - 1 |-> NoByte] ELSE mem
      /\ file' = [file EXCEPT ![p] = m]
      /\ UNCHANGED <<scull_p_buffer, lock, queues, pc, call, buf>>

(* Faulty: the last reader frees the buffer. *)
ReleasedByReaders(d, m) ==
  LET readers == d.nreaders - (IF m.read THEN 1 ELSE 0)
      writers == d.nwriters - (IF m.write THEN 1 ELSE 0)
  IN  [d EXCEPT !.nreaders = readers, !.nwriters = writers,
                !.allocated = IF readers = 0 THEN 0 ELSE @]

Released(d, m) ==
  LET readers == d.nreaders - (IF m.read THEN 1 ELSE 0)
      writers == d.nwriters - (IF m.write THEN 1 ELSE 0)
  IN  [d EXCEPT !.nreaders = readers, !.nwriters = writers,
                !.allocated = IF readers + writers = 0 THEN 0 ELSE @]

scull_p_release(p) ==
  /\ pc[p] = "user" /\ IsOpen(p) /\ lock = NoProc
  /\ dev' = Released(dev, file[p])
  /\ mem' = IF dev'.allocated = 0 THEN [i \in {} |-> NoByte] ELSE mem
  /\ file' = [file EXCEPT ![p] = Closed]
  /\ UNCHANGED <<scull_p_buffer, lock, inq, outq, pc, call, buf>>

(* SCULL_P_IOCTSIZE, which any scull device takes and no lock protects.    *)
scull_p_iocTsize(n) ==
  /\ scull_p_buffer' = n
  /\ UNCHANGED <<dev, mem, lock, queues, file, pc, call, buf>>

(* The process enters read, write or poll; it polls for what its file may  *)
(* do.                                                                     *)
Enter(p, c, l) ==
  /\ pc[p] = "user" /\ IsOpen(p)
  /\ call' = [call EXCEPT ![p] = c]
  /\ Goto(p, l)
  /\ UNCHANGED <<scull_p_buffer, dev, mem, lock, queues, file, buf>>

EnterRead(p) ==
  file[p].read /\ \E n \in Counts : Enter(p, <<"read", n>>, "read_lock")
EnterWrite(p) ==
  file[p].write /\ \E d \in Writes : Enter(p, <<"write", d>>, "write_lock")
EnterPoll(p) ==
  \E events \in {{"in"}, {"out"}} :
    /\ "in" \in events => file[p].read
    /\ "out" \in events => file[p].write
    /\ Enter(p, <<"poll", events>>, "poll")

-----------------------------------------------------------------------------
(* scull_p_read *)
ReadLock(p) == Acquire(p, "read_lock", "read_check")

ReadEmpty(p) ==
  /\ pc[p] = "read_check" /\ dev.rp = dev.wp
  /\ lock' = NoProc
  /\ IF file[p].nonblock THEN Leave(p)
                         ELSE Goto(p, "read_prepare") /\ UNCHANGED <<call, buf>>
  /\ UNCHANGED <<scull_p_buffer, dev, mem, queues, file>>

ReadCopy(p) ==
  LET n == ReadCount(dev, call[p][2])
  IN  /\ pc[p] = "read_check" /\ dev.rp # dev.wp
      /\ buf' = [buf EXCEPT ![p] = [i \in 1 .. n |-> mem[dev.rp + i - 1]]]
      /\ dev' = [dev EXCEPT !.rp = @ + n]
      /\ Goto(p, "read_wrap")
      /\ UNCHANGED <<scull_p_buffer, mem, lock, queues, file, call>>

(* copy_to_user or copy_from_user fails.                                   *)
Fault(p) ==
  /\ \/ pc[p] = "read_check" /\ dev.rp # dev.wp
     \/ pc[p] = "write_check" /\ spacefree(dev) # 0
  /\ lock' = NoProc
  /\ Leave(p)
  /\ UNCHANGED <<scull_p_buffer, dev, mem, queues, file>>

ReadWrap(p) ==
  /\ pc[p] = "read_wrap"
  /\ dev' = [dev EXCEPT !.rp = Wrapped(dev, @)]
  /\ lock' = NoProc
  /\ Goto(p, "read_wake")
  /\ UNCHANGED <<scull_p_buffer, mem, queues, file, call, buf>>

(* Faulty: no writer is woken. *)
ReadWakesNobody(p) ==
  /\ pc[p] = "read_wake"
  /\ Leave(p)
  /\ UNCHANGED <<scull_p_buffer, dev, mem, lock, inq, outq, file>>

ReadWake(p) ==
  /\ pc[p] = "read_wake"
  /\ outq' = {}
  /\ Leave(p)
  /\ UNCHANGED <<scull_p_buffer, dev, mem, lock, inq, file>>

(* wait_event_interruptible(dev->inq, dev->rp != dev->wp): into the queue, *)
(* look again without the mutex, sleep; when woken do the same again.      *)
ReadPrepare(p) ==
  /\ pc[p] = "read_prepare"
  /\ inq' = inq \cup {p}
  /\ Goto(p, "read_test")
  /\ UNCHANGED <<scull_p_buffer, dev, mem, lock, outq, file, call, buf>>

ReadTest(p) ==
  /\ pc[p] = "read_test"
  /\ IF dev.rp # dev.wp THEN inq' = inq \ {p} /\ Goto(p, "read_lock")
                        ELSE inq' = inq /\ Goto(p, "read_sleep")
  /\ UNCHANGED <<scull_p_buffer, dev, mem, lock, outq, file, call, buf>>

ReadWoken(p) ==
  /\ pc[p] = "read_sleep" /\ p \notin inq
  /\ Goto(p, "read_prepare")
  /\ UNCHANGED <<scull_p_buffer, dev, mem, lock, queues, file, call, buf>>

-----------------------------------------------------------------------------
(* scull_p_write and scull_getwritespace *)
WriteLock(p) == Acquire(p, "write_lock", "write_check")

WriteFull(p) ==
  /\ pc[p] = "write_check" /\ spacefree(dev) = 0
  /\ lock' = NoProc
  /\ IF file[p].nonblock THEN Leave(p)
                         ELSE Goto(p, "write_prepare") /\ UNCHANGED <<call, buf>>
  /\ UNCHANGED <<scull_p_buffer, dev, mem, queues, file>>

WriteCopy(p) ==
  LET data == call[p][2]
      n == WriteCount(dev, Len(data))
  IN  /\ pc[p] = "write_check" /\ spacefree(dev) # 0
      /\ mem' = [i \in DOMAIN mem \cup (dev.wp .. dev.wp + n - 1) |->
                   IF i \in dev.wp .. dev.wp + n - 1
                     THEN data[i - dev.wp + 1] ELSE mem[i]]
      /\ buf' = [buf EXCEPT ![p] = SubSeq(data, 1, n)]
      /\ dev' = [dev EXCEPT !.wp = @ + n]
      /\ Goto(p, "write_wrap")
      /\ UNCHANGED <<scull_p_buffer, lock, queues, file, call>>

WriteWrap(p) ==
  /\ pc[p] = "write_wrap"
  /\ dev' = [dev EXCEPT !.wp = Wrapped(dev, @)]
  /\ lock' = NoProc
  /\ Goto(p, "write_wake")
  /\ UNCHANGED <<scull_p_buffer, mem, queues, file, call, buf>>

(* Faulty: one reader is woken, not all. *)
WriteWakesOne(p) ==
  /\ pc[p] = "write_wake"
  /\ inq' = IF inq = {} THEN {} ELSE inq \ {CHOOSE q \in inq : TRUE}
  /\ Leave(p)
  /\ UNCHANGED <<scull_p_buffer, dev, mem, lock, outq, file>>

WriteWake(p) ==
  /\ pc[p] = "write_wake"
  /\ inq' = {}
  /\ Leave(p)
  /\ UNCHANGED <<scull_p_buffer, dev, mem, lock, outq, file>>

WritePrepare(p) ==
  /\ pc[p] = "write_prepare"
  /\ outq' = outq \cup {p}
  /\ Goto(p, "write_test")
  /\ UNCHANGED <<scull_p_buffer, dev, mem, lock, inq, file, call, buf>>

(* Faulty: a writer that need not sleep stays in the queue. *)
WriteTestStays(p) ==
  /\ pc[p] = "write_test"
  /\ Goto(p, IF spacefree(dev) # 0 THEN "write_lock" ELSE "write_sleep")
  /\ UNCHANGED <<scull_p_buffer, dev, mem, lock, queues, file, call, buf>>

WriteTest(p) ==
  /\ pc[p] = "write_test"
  /\ IF spacefree(dev) # 0 THEN outq' = outq \ {p} /\ Goto(p, "write_lock")
                           ELSE outq' = outq /\ Goto(p, "write_sleep")
  /\ UNCHANGED <<scull_p_buffer, dev, mem, lock, inq, file, call, buf>>

(* Woken, the writer takes the mutex and looks again.                      *)
WriteWoken(p) ==
  /\ pc[p] = "write_sleep" /\ p \notin outq
  /\ Goto(p, "write_lock")
  /\ UNCHANGED <<scull_p_buffer, dev, mem, lock, queues, file, call, buf>>

-----------------------------------------------------------------------------
(* scull_p_poll: the caller waits in both queues if the device is not      *)
(* ready for what it asks, and asks again when woken.                      *)
scull_p_poll(p) ==
  LET ready == \/ "in" \in call[p][2] /\ dev.rp # dev.wp
               \/ "out" \in call[p][2] /\ spacefree(dev) # 0
  IN  /\ pc[p] = "poll" /\ lock = NoProc
      /\ IF ready THEN inq' = inq \ {p} /\ outq' = outq \ {p} /\ Leave(p)
                  ELSE /\ inq' = inq \cup {p} /\ outq' = outq \cup {p}
                       /\ Goto(p, "poll_sleep") /\ UNCHANGED <<call, buf>>
      /\ UNCHANGED <<scull_p_buffer, dev, mem, lock, file>>

PollWoken(p) ==
  /\ pc[p] = "poll_sleep" /\ (p \notin inq \/ p \notin outq)
  /\ Goto(p, "poll")
  /\ UNCHANGED <<scull_p_buffer, dev, mem, lock, queues, file, call, buf>>

(* A signal ends any wait, for the mutex or in a queue; the call returns   *)
(* -ERESTARTSYS.                                                           *)
Interrupted(p) ==
  /\ pc[p] \in {"read_lock", "read_sleep", "write_lock", "write_sleep",
                "poll_sleep"}
  /\ inq' = inq \ {p} /\ outq' = outq \ {p}
  /\ Leave(p)
  /\ UNCHANGED <<scull_p_buffer, dev, mem, lock, file>>

(* The steps of a call that the process takes on its own. *)
CallStep(p) ==
  \/ ReadLock(p) \/ ReadEmpty(p) \/ ReadCopy(p) \/ ReadWrap(p) \/ ReadWake(p)
  \/ ReadPrepare(p) \/ ReadTest(p) \/ ReadWoken(p)
  \/ WriteLock(p) \/ WriteFull(p) \/ WriteCopy(p) \/ WriteWrap(p)
  \/ WriteWake(p) \/ WritePrepare(p) \/ WriteTest(p) \/ WriteWoken(p)
  \/ scull_p_poll(p) \/ PollWoken(p)

Next ==
  \/ \E n \in Sizes : scull_p_iocTsize(n)
  \/ \E p \in Procs :
       \/ \E m \in Modes : scull_p_open(p, m)
       \/ scull_p_release(p)
       \/ EnterRead(p) \/ EnterWrite(p) \/ EnterPoll(p)
       \/ Fault(p) \/ Interrupted(p)
       \/ CallStep(p)

Spec == Init /\ [][Next]_vars

-----------------------------------------------------------------------------
(* What is between rp and wp. *)
Content ==
  LET size == dev.buffersize
      r == Wrapped(dev, dev.rp)
      n == (Wrapped(dev, dev.wp) - r + size) % size
  IN  IF dev.allocated = 0 THEN <<>>
        ELSE [i \in 1 .. n |-> mem[(r + i - 1) % size]]

ReadStates == {"read_lock", "read_check", "read_wrap", "read_wake",
               "read_prepare", "read_test", "read_sleep"}
WriteStates == {"write_lock", "write_check", "write_wrap", "write_wake",
                "write_prepare", "write_test", "write_sleep"}
PollStates == {"poll", "poll_sleep"}
Locked == {"read_check", "read_wrap", "write_check", "write_wrap"}

(* Every variable has its type, a call is made on an open file, and lock   *)
(* is the process that is inside the mutex.                                *)
TypeOK ==
  /\ scull_p_buffer \in Sizes \cup {BufferSize}
  /\ inq \cup outq \subseteq Procs
  /\ \A p \in Procs :
       /\ pc[p] \in {"user"} \cup ReadStates \cup WriteStates \cup PollStates
       /\ pc[p] # "user" => IsOpen(p)
       /\ pc[p] \in Locked <=> lock = p
       /\ p \in inq \cup outq => pc[p] \in
            {"read_test", "read_sleep", "write_test", "write_sleep",
             "poll", "poll_sleep"}

(* The buffer exists exactly while some file is open, and the counts say   *)
(* how many are (pipe.c:75-91, 106-113).                                   *)
BufferWhileOpen ==
  /\ dev.nreaders = Cardinality({p \in Procs : file[p].read})
  /\ dev.nwriters = Cardinality({p \in Procs : file[p].write})
  /\ dev.allocated = 0 <=> \A p \in Procs : ~ IsOpen(p)

(* "begin of buf, end of buf": no write puts a byte outside the allocated  *)
(* buffer (pipe.c:40, 207-220).  So while the parameter only shrinks; not  *)
(* so when it grows while the device is open, because an open takes the    *)
(* new size and keeps the buffer.                                          *)
WritesInBuffer == DOMAIN mem = 0 .. dev.allocated - 1

(* What write stores is in a buffer that exists while some file is open    *)
(* (pipe.c:75-91, 106-113, 207-220).                                       *)
BufferSafe == BufferWhileOpen /\ WritesInBuffer

Asleep(p, event) ==
  \/ pc[p] = IF event = "in" THEN "read_sleep" ELSE "write_sleep"
  \/ pc[p] = "poll_sleep" /\ event \in call[p][2]

(* No lost wakeup: a process that sleeps until there is something to read  *)
(* while there is will be woken by a writer that has not come to its       *)
(* wake_up yet (pipe.c:136, 224).                                          *)
ReadersWoken ==
  Content # <<>> /\ (\E p \in inq : Asleep(p, "in"))
    => \E q \in Procs : pc[q] \in {"write_wrap", "write_wake"}

Stranded(p) ==
  /\ p \in outq /\ Asleep(p, "out")
  /\ Len(Content) < dev.buffersize - 1
  /\ \A q \in Procs : pc[q] \notin {"read_wrap", "read_wake"}

(* "Wait for space for writing": a writer does not sleep on while there is *)
(* space and nobody is about to wake it (pipe.c:162-181).  Only an open    *)
(* brings this about, which empties the buffer and wakes nobody (:85).     *)
OnlyOpenStrands ==
  [][\A p \in Procs : ~ Stranded(p) /\ Stranded(p)'
       => \E q \in Procs : ~ IsOpen(q) /\ IsOpen(q)']_vars

(* The device is a queue of bytes, whatever the interleaving of readers    *)
(* and writers and wherever the pointers wrap.                             *)
Replied(p) ==
  CASE pc[p] \in {"read_wrap", "read_wake"} -> <<"read", buf[p]>>
    [] pc[p] \in {"write_wrap", "write_wake"} -> <<"write", buf[p]>>
    [] OTHER -> <<>>

(* What one call may transfer. *)
Transfers == UNION {[1 .. n -> WrittenBytes] : n \in 0 .. BufferSize - 1}

Queue == INSTANCE BytePipe WITH
  queue <- Content,
  reply <- [p \in Procs |-> Replied(p)],
  Chunks <- Transfers

ImplementsQueue == Queue!Spec
=============================================================================
