--------------------------- MODULE DevicesProofs ---------------------------
(***************************************************************************)
(* Proofs about the systems of Devices, for every value of the constants:  *)
(* each takes only its own steps, so that what is proved about one of them *)
(* holds beside the others.                                                *)
(***************************************************************************)
EXTENDS Devices, StreamLemmas

-----------------------------------------------------------------------------
(***************************************************************************)
(* The scullpipe device: its types and mutex, the life and the bounds of   *)
(* the buffer, the wakeups of readers and writers, and that the device is  *)
(* a queue of bytes.                                                       *)
(***************************************************************************)
(* The inductive invariants.                                               *)

AllStates == {"user"} \cup ReadStates \cup WriteStates \cup PollStates

(* Where a process may be that is in a queue.                              *)
InStates == {"read_test", "read_sleep", "poll", "poll_sleep"}
OutStates == {"write_test", "write_sleep", "poll", "poll_sleep"}

(* What a process that is in a call asked for.                             *)
CallOf(p) ==
  /\ pc[p] \in ReadStates => \E n \in Counts : call[p] = <<"read", n>>
  /\ pc[p] \in WriteStates => \E d \in Writes : call[p] = <<"write", d>>

DevType ==
  [allocated : Nat, buffersize : Nat, rp : Nat, wp : Nat,
   nreaders : Int, nwriters : Int]

(* The types of the variables, and who is in the mutex and in the queues.  *)
TypeInv ==
  /\ scull_p_buffer \in Sizes \cup {BufferSize}
  /\ dev \in DevType
  /\ inq \subseteq Procs /\ outq \subseteq Procs
  /\ file \in [Procs -> Modes \cup {Closed}]
  /\ pc \in [Procs -> AllStates]
  /\ DOMAIN call = Procs /\ DOMAIN buf = Procs
  /\ \A p \in Procs :
       /\ CallOf(p)
       /\ pc[p] # "user" => IsOpen(p)
       /\ pc[p] \in Locked <=> lock = p
       /\ p \in inq => pc[p] \in InStates
       /\ p \in outq => pc[p] \in OutStates

(* The pointers are in the buffer.  Only the process inside the mutex sees *)
(* one that has reached the end and not been wrapped.                      *)
PointersInv ==
  /\ dev.allocated # 0 => dev.buffersize # 0
  /\ \A p \in Procs : IsOpen(p) => dev.buffersize # 0
  /\ dev.buffersize # 0 =>
       /\ dev.rp \in 0 .. dev.buffersize /\ dev.wp \in 0 .. dev.buffersize
       /\ dev.rp = dev.buffersize => lock \in Procs /\ pc[lock] = "read_wrap"
       /\ dev.wp = dev.buffersize => lock \in Procs /\ pc[lock] = "write_wrap"

(* While the parameter only shrinks, the size in use is never more than    *)
(* what was allocated.                                                     *)
RoomInv ==
  /\ WritesInBuffer
  /\ dev.allocated # 0 =>
       scull_p_buffer <= dev.buffersize /\ dev.buffersize <= dev.allocated

-----------------------------------------------------------------------------
(* Types. *)

(* How many bytes a read takes and a write accepts: no more than there is, *)
(* or there is space for, and none beyond the end of the buffer.           *)
LEMMA Counting ==
  ASSUME TypeInv, NEW n \in Nat, dev.buffersize # 0,
         dev.rp \in 0 .. dev.buffersize - 1, dev.wp \in 0 .. dev.buffersize - 1
  PROVE  /\ spacefree(dev) = dev.buffersize - 1 -
              (IF dev.wp >= dev.rp THEN dev.wp - dev.rp
                                   ELSE dev.wp - dev.rp + dev.buffersize)
         /\ spacefree(dev) \in Nat
         /\ ReadCount(dev, n) \in 0 .. n
         /\ dev.rp + ReadCount(dev, n) <= dev.buffersize
         /\ dev.wp > dev.rp => dev.rp + ReadCount(dev, n) <= dev.wp
         /\ WriteCount(dev, n) \in 0 .. n
         /\ dev.wp + WriteCount(dev, n) <= dev.buffersize
         /\ WriteCount(dev, n) <= spacefree(dev)
<1>1. PICK s \in Nat \ {0}, r \in Nat, w \in Nat :
        /\ dev.buffersize = s /\ dev.rp = r /\ dev.wp = w
        /\ r < s /\ w < s
  BY DEF TypeInv, DevType
<1>2. (r + s - w) % s = IF r < w THEN r + s - w ELSE r - w
  BY <1>1
<1>3. PICK f \in Nat : /\ f = s - 1 - (IF w >= r THEN w - r ELSE w - r + s)
                       /\ spacefree(dev) = f
  BY <1>1, <1>2 DEF spacefree
<1>4. ReadCount(dev, n) = IF w > r THEN IF n < w - r THEN n ELSE w - r
                                   ELSE IF n < s - r THEN n ELSE s - r
  BY <1>1 DEF ReadCount, Smaller
<1>5. PICK m \in Nat : m = IF n < f THEN n ELSE f
  OBVIOUS
<1>6. WriteCount(dev, n) = IF w >= r THEN IF m < s - w THEN m ELSE s - w
                                     ELSE IF m < r - w - 1 THEN m ELSE r - w - 1
  BY <1>1, <1>3, <1>5 DEF WriteCount, Smaller
<1> QED BY <1>1, <1>3, <1>4, <1>5, <1>6

(* The pointers of the process inside the mutex, before it moves one.      *)
LEMMA InsidePointers ==
  ASSUME TypeInv, PointersInv, NEW p \in Procs,
         pc[p] \in {"read_check", "write_check"}
  PROVE  /\ dev.buffersize # 0 /\ lock = p
         /\ dev.rp \in 0 .. dev.buffersize - 1
         /\ dev.wp \in 0 .. dev.buffersize - 1
<1>1. lock = p /\ IsOpen(p) /\ p # NoProc
  BY NoProcAssumption DEF TypeInv, Locked
<1>2. dev.buffersize \in Nat \ {0}
  BY <1>1 DEF PointersInv, TypeInv, DevType
<1>3. dev.rp # dev.buffersize /\ dev.wp # dev.buffersize
  BY <1>1, <1>2 DEF PointersInv
<1> QED BY <1>1, <1>2, <1>3 DEF PointersInv

(* While the mutex is free nobody is at a place that holds it. *)
LEMMA Free ==
  ASSUME TypeInv, lock = NoProc
  PROVE  \A p \in Procs : pc[p] \notin Locked
BY NoProcAssumption DEF TypeInv

(* A step in which p goes to l and touches nothing of the others.          *)
LEMMA OneMoves ==
  ASSUME TypeInv, NEW p \in Procs, NEW l \in AllStates, Goto(p, l),
         file' = file, scull_p_buffer' = scull_p_buffer, dev' \in DevType,
         l # "user" => IsOpen(p),
         DOMAIN call' = Procs, DOMAIN buf' = Procs,
         \A q \in Procs \ {p} : call'[q] = call[q], CallOf(p)',
         inq' \subseteq inq \cup {p}, outq' \subseteq outq \cup {p},
         p \in inq' => l \in InStates, p \in outq' => l \in OutStates,
         lock' = p <=> l \in Locked,
         \A q \in Procs \ {p} : lock' = q <=> lock = q
  PROVE  TypeInv'
<1>1. /\ pc' \in [Procs -> AllStates] /\ pc'[p] = l
      /\ \A q \in Procs \ {p} : pc'[q] = pc[q]
  BY DEF TypeInv, Goto
<1>2. ASSUME NEW q \in Procs
      PROVE  /\ CallOf(q)'
             /\ pc'[q] # "user" => IsOpen(q)'
             /\ pc'[q] \in Locked <=> lock' = q
             /\ q \in inq' => pc'[q] \in InStates
             /\ q \in outq' => pc'[q] \in OutStates
  <2>1. CASE q = p
    BY <1>1, <2>1 DEF IsOpen
  <2>2. CASE q # p
    BY <1>1, <2>2 DEF TypeInv, IsOpen, CallOf
  <2> QED BY <2>1, <2>2
<1> QED BY <1>1, <1>2 DEF TypeInv

(* A call of p goes on, or ends, and moves nothing into or out of the      *)
(* mutex.                                                                  *)
LEMMA GoesOn ==
  ASSUME TypeInv, NEW p \in Procs, NEW l \in AllStates, Goto(p, l),
         \/ pc[p] \in ReadStates /\ l \in ReadStates
         \/ pc[p] \in WriteStates /\ l \in WriteStates
         \/ pc[p] \in PollStates /\ l \in PollStates,
         UNCHANGED <<scull_p_buffer, file, call>>,
         dev' \in DevType, DOMAIN buf' = Procs,
         inq' \subseteq inq \cup {p}, outq' \subseteq outq \cup {p},
         p \in inq' => l \in InStates, p \in outq' => l \in OutStates,
         lock' = p <=> l \in Locked,
         \A q \in Procs \ {p} : lock' = q <=> lock = q
  PROVE  TypeInv'
<1>1. /\ \A q \in Procs : CallOf(q) /\ (pc[q] # "user" => IsOpen(q))
      /\ pc'[p] = l
  BY DEF TypeInv, Goto
<1>2. pc[p] # "user"
  BY DEF ReadStates, WriteStates, PollStates
<1>3. CallOf(p)'
  BY <1>1 DEF CallOf, ReadStates, WriteStates, PollStates
<1> QED BY <1>1, <1>2, <1>3, OneMoves DEF TypeInv

(* A call that ends leaves its types. *)
LEMMA CallEnds ==
  ASSUME TypeInv, NEW p \in Procs, Leave(p),
         UNCHANGED <<scull_p_buffer, dev, file>>,
         inq' \subseteq inq \ {p}, outq' \subseteq outq \ {p},
         lock' # p, \A q \in Procs \ {p} : lock' = q <=> lock = q
  PROVE  TypeInv'
<1>1. /\ Goto(p, "user") /\ "user" \in AllStates /\ "user" \notin Locked
      /\ "user" \notin ReadStates /\ "user" \notin WriteStates
  BY DEF Leave, AllStates, Locked, ReadStates, WriteStates
<1>2. pc'[p] = "user"
  BY <1>1 DEF Goto, TypeInv
<1>3. CallOf(p)'
  BY <1>1, <1>2 DEF CallOf
<1>4. /\ DOMAIN call' = Procs /\ DOMAIN buf' = Procs
      /\ \A q \in Procs \ {p} : call'[q] = call[q]
  BY DEF Leave, TypeInv
<1> QED BY <1>1, <1>3, <1>4, OneMoves DEF TypeInv

(* A process outside the mutex and the queues' states is not in a queue.   *)
LEMMA NotQueued ==
  ASSUME TypeInv, NEW p \in Procs
  PROVE  /\ pc[p] \notin InStates => p \notin inq
         /\ pc[p] \notin OutStates => p \notin outq
BY DEF TypeInv

(* Each step keeps the types and the mutex. *)
LEMMA TypesKept ==
  ASSUME TypeInv, PointersInv, [Next]_vars
  PROVE  TypeInv'
<1> USE NoProcAssumption
<1>1. CASE UNCHANGED vars
  BY <1>1 DEF TypeInv, CallOf, IsOpen, vars, queues
<1>2. CASE \E n \in Sizes : scull_p_iocTsize(n)
  BY <1>2 DEF TypeInv, CallOf, IsOpen, scull_p_iocTsize, queues
<1>3. ASSUME NEW p \in Procs, NEW m \in Modes, scull_p_open(p, m)
      PROVE  TypeInv'
  <2>1. m \in Modes \cup {Closed} /\ m # Closed
    BY ModesAssumption DEF Closed
  <2>2. scull_p_buffer \in Nat
    BY SizeAssumption DEF TypeInv
  <2> QED BY <1>3, <2>1, <2>2 DEF TypeInv, DevType, CallOf, IsOpen, scull_p_open,
                                  queues
<1>4. ASSUME NEW p \in Procs, scull_p_release(p)
      PROVE  TypeInv'
  <2>1. dev' \in DevType
    <3> DEFINE r == dev.nreaders - (IF file[p].read THEN 1 ELSE 0)
               w == dev.nwriters - (IF file[p].write THEN 1 ELSE 0)
               a == IF r + w = 0 THEN 0 ELSE dev.allocated
    <3>1. dev \in DevType /\ r \in Int /\ w \in Int /\ a \in Nat
      BY DEF TypeInv, DevType
    <3>2. dev' = [dev EXCEPT !.nreaders = r, !.nwriters = w, !.allocated = a]
      BY <1>4 DEF scull_p_release, Released
    <3> HIDE DEF r, w, a
    <3> QED BY <3>1, <3>2 DEF DevType
  <2> QED BY <1>4, <2>1 DEF TypeInv, CallOf, IsOpen, scull_p_release
<1>5. ASSUME NEW p \in Procs, EnterRead(p) \/ EnterWrite(p) \/ EnterPoll(p)
      PROVE  TypeInv'
  <2>0. PICK l \in {"read_lock", "write_lock", "poll"} :
          \E c : /\ Enter(p, c, l)
                 /\ l = "read_lock" => \E n \in Counts : c = <<"read", n>>
                 /\ l = "write_lock" => \E d \in Writes : c = <<"write", d>>
    <3>1. CASE EnterRead(p)
      BY <3>1, Zenon DEF EnterRead
    <3>2. CASE EnterWrite(p)
      BY <3>2, Zenon DEF EnterWrite
    <3>3. CASE EnterPoll(p)
      BY <3>3, Zenon DEF EnterPoll
    <3> QED BY <1>5, <3>1, <3>2, <3>3, Zenon
  <2>1. PICK c : /\ Enter(p, c, l)
                 /\ l = "read_lock" => \E n \in Counts : c = <<"read", n>>
                 /\ l = "write_lock" => \E d \in Writes : c = <<"write", d>>
    BY <2>0, Zenon
  <2>2. l \in AllStates /\ l \notin Locked
    BY <2>0, <2>1 DEF AllStates, Locked, ReadStates, WriteStates, PollStates
  <2>3. /\ Goto(p, l) /\ IsOpen(p) /\ pc'[p] = l /\ call'[p] = c
        /\ DOMAIN call' = Procs /\ pc[p] = "user" /\ pc[p] \notin Locked
        /\ \A q \in Procs \ {p} : call'[q] = call[q]
    BY <2>0, <2>1 DEF Enter, Goto, TypeInv, Locked
  <2>4. CallOf(p)'
    BY <2>0, <2>1, <2>3 DEF CallOf, ReadStates, WriteStates
  <2>5. p \notin inq /\ p \notin outq
    BY <2>3, NotQueued DEF InStates, OutStates
  <2>6. UNCHANGED <<scull_p_buffer, dev, lock, inq, outq, file, buf>>
    BY <2>1 DEF Enter, queues
  <2> QED BY <2>2, <2>3, <2>4, <2>5, <2>6, OneMoves DEF TypeInv
<1>6. ASSUME NEW p \in Procs, Fault(p)
      PROVE  TypeInv'
  <2>1. pc[p] \in {"read_check", "write_check"}
    BY <1>6 DEF Fault
  <2>2. lock = p /\ p \notin inq /\ p \notin outq
    BY <2>1, InsidePointers, NotQueued DEF InStates, OutStates
  <2> QED BY <1>6, <2>2, CallEnds DEF Fault, queues
<1>7. ASSUME NEW p \in Procs, Interrupted(p)
      PROVE  TypeInv'
  <2>1. lock # p
    BY <1>7 DEF Interrupted, TypeInv, Locked
  <2> QED BY <1>7, <2>1, CallEnds DEF Interrupted
<1>8. ASSUME NEW p \in Procs, ReadLock(p) \/ WriteLock(p)
      PROVE  TypeInv'
  <2>1. PICK from \in {"read_lock", "write_lock"},
             to \in {"read_check", "write_check"} :
          /\ Acquire(p, from, to)
          /\ \/ from = "read_lock" /\ to = "read_check"
             \/ from = "write_lock" /\ to = "write_check"
    BY <1>8 DEF ReadLock, WriteLock
  <2>2. /\ to \in AllStates /\ to \in Locked
        /\ \/ pc[p] \in ReadStates /\ to \in ReadStates
           \/ pc[p] \in WriteStates /\ to \in WriteStates
    BY <2>1 DEF Acquire, AllStates, ReadStates, WriteStates, Locked
  <2>3. p \notin inq /\ p \notin outq
    BY <2>1, NotQueued DEF Acquire, InStates, OutStates
  <2>4. UNCHANGED <<scull_p_buffer, dev, inq, outq, file, call, buf>> /\ lock' = p
    BY <2>1 DEF Acquire, queues
  <2> QED BY <2>1, <2>2, <2>3, <2>4, GoesOn DEF Acquire, TypeInv
<1>9. ASSUME NEW p \in Procs, ReadEmpty(p) \/ WriteFull(p)
      PROVE  TypeInv'
  <2>1. pc[p] \in {"read_check", "write_check"}
    BY <1>9 DEF ReadEmpty, WriteFull
  <2>2. /\ lock = p /\ lock' = NoProc /\ p \notin inq /\ p \notin outq
        /\ UNCHANGED <<scull_p_buffer, dev, inq, outq, file>>
    BY <1>9, <2>1, InsidePointers, NotQueued
       DEF InStates, OutStates, ReadEmpty, WriteFull, queues
  <2>3. CASE Leave(p)
    BY <2>2, <2>3, CallEnds
  <2>4. CASE UNCHANGED <<call, buf>> /\ pc[p] = "read_check" /\ Goto(p, "read_prepare")
    <3>1. /\ "read_prepare" \in AllStates \ Locked
          /\ pc[p] \in ReadStates /\ "read_prepare" \in ReadStates
      BY <2>4 DEF AllStates, ReadStates, Locked
    <3> QED BY <2>2, <2>4, <3>1, GoesOn DEF TypeInv
  <2>5. CASE UNCHANGED <<call, buf>> /\ pc[p] = "write_check" /\ Goto(p, "write_prepare")
    <3>1. /\ "write_prepare" \in AllStates \ Locked
          /\ pc[p] \in WriteStates /\ "write_prepare" \in WriteStates
      BY <2>5 DEF AllStates, WriteStates, Locked
    <3> QED BY <2>2, <2>5, <3>1, GoesOn DEF TypeInv
  <2> QED BY <1>9, <2>3, <2>4, <2>5 DEF ReadEmpty, WriteFull
<1>10. ASSUME NEW p \in Procs, ReadCopy(p)
       PROVE  TypeInv'
  <2>1. PICK n \in Nat : call[p][2] = n
    BY <1>10, CallsAssumption DEF TypeInv, CallOf, ReadCopy, ReadStates
  <2>2. PICK m \in Nat : m = ReadCount(dev, n)
    BY <1>10, InsidePointers, Counting DEF ReadCopy
  <2>3. dev' = [dev EXCEPT !.rp = @ + m]
    BY <1>10, <2>1, <2>2 DEF ReadCopy
  <2>4. dev' \in DevType
    BY <2>3 DEF TypeInv, DevType
  <2>5. /\ "read_wrap" \in AllStates \cap Locked /\ Goto(p, "read_wrap")
        /\ pc[p] \in ReadStates /\ "read_wrap" \in ReadStates
        /\ UNCHANGED <<scull_p_buffer, inq, outq, lock, file, call>>
        /\ p \notin inq /\ p \notin outq /\ lock = p
    BY <1>10, InsidePointers, NotQueued
       DEF ReadCopy, AllStates, ReadStates, Locked, queues, InStates, OutStates
  <2>6. DOMAIN buf' = Procs
    BY <1>10 DEF ReadCopy, TypeInv
  <2> QED BY <2>4, <2>5, <2>6, GoesOn
<1>11. ASSUME NEW p \in Procs, WriteCopy(p)
       PROVE  TypeInv'
  <2>1. PICK n \in Nat : Len(call[p][2]) = n
    BY <1>11, CallsAssumption DEF TypeInv, CallOf, WriteCopy, WriteStates
  <2>2. PICK m \in Nat : m = WriteCount(dev, n)
    BY <1>11, InsidePointers, Counting DEF WriteCopy
  <2>3. dev' = [dev EXCEPT !.wp = @ + m]
    BY <1>11, <2>1, <2>2 DEF WriteCopy
  <2>4. dev' \in DevType
    BY <2>3 DEF TypeInv, DevType
  <2>5. /\ "write_wrap" \in AllStates \cap Locked /\ Goto(p, "write_wrap")
        /\ pc[p] \in WriteStates /\ "write_wrap" \in WriteStates
        /\ UNCHANGED <<scull_p_buffer, inq, outq, lock, file, call>>
        /\ p \notin inq /\ p \notin outq /\ lock = p
    BY <1>11, InsidePointers, NotQueued
       DEF WriteCopy, AllStates, WriteStates, Locked, queues, InStates, OutStates
  <2>6. DOMAIN buf' = Procs
    BY <1>11 DEF WriteCopy, TypeInv
  <2> QED BY <2>4, <2>5, <2>6, GoesOn
<1>12. ASSUME NEW p \in Procs, ReadWrap(p) \/ WriteWrap(p)
       PROVE  TypeInv'
  <2>1. dev' \in DevType
    BY <1>12 DEF TypeInv, DevType, ReadWrap, WriteWrap, Wrapped
  <2>2. /\ lock = p /\ lock' = NoProc /\ p \notin inq /\ p \notin outq
        /\ UNCHANGED <<scull_p_buffer, inq, outq, file, call, buf>>
    BY <1>12, NotQueued
       DEF TypeInv, ReadWrap, WriteWrap, Locked, queues, InStates, OutStates
  <2>3. CASE pc[p] = "read_wrap" /\ Goto(p, "read_wake")
    <3>1. /\ "read_wake" \in AllStates \ Locked
          /\ pc[p] \in ReadStates /\ "read_wake" \in ReadStates
      BY <2>3 DEF AllStates, ReadStates, Locked
    <3> QED BY <2>1, <2>2, <2>3, <3>1, GoesOn DEF TypeInv
  <2>4. CASE pc[p] = "write_wrap" /\ Goto(p, "write_wake")
    <3>1. /\ "write_wake" \in AllStates \ Locked
          /\ pc[p] \in WriteStates /\ "write_wake" \in WriteStates
      BY <2>4 DEF AllStates, WriteStates, Locked
    <3> QED BY <2>1, <2>2, <2>4, <3>1, GoesOn DEF TypeInv
  <2> QED BY <1>12, <2>3, <2>4 DEF ReadWrap, WriteWrap
<1>13. ASSUME NEW p \in Procs, ReadWake(p) \/ WriteWake(p)
       PROVE  TypeInv'
  <2>1. lock # p /\ p \notin inq /\ p \notin outq
    BY <1>13, NotQueued
       DEF TypeInv, ReadWake, WriteWake, Locked, InStates, OutStates
  <2>2. inq' \subseteq inq \ {p} /\ outq' \subseteq outq \ {p}
    BY <1>13, <2>1 DEF ReadWake, WriteWake
  <2> QED BY <1>13, <2>1, <2>2, CallEnds DEF ReadWake, WriteWake
<1>14. ASSUME NEW p \in Procs, ReadPrepare(p) \/ ReadTest(p) \/ ReadWoken(p)
       PROVE  TypeInv'
  <2>1. PICK l \in {"read_prepare", "read_test", "read_sleep", "read_lock"} :
          /\ Goto(p, l)
          /\ l \notin InStates => p \notin inq'
    BY <1>14 DEF ReadPrepare, ReadTest, ReadWoken, InStates, queues
  <2>2. /\ l \in AllStates \ Locked
        /\ pc[p] \in ReadStates /\ l \in ReadStates
        /\ pc[p] \notin OutStates
        /\ lock # p /\ outq' = outq /\ inq' \subseteq inq \cup {p}
        /\ UNCHANGED <<scull_p_buffer, dev, lock, file, call, buf>>
    BY <1>14, <2>1 DEF ReadPrepare, ReadTest, ReadWoken, AllStates, ReadStates,
                       OutStates, Locked, TypeInv, queues
  <2> QED BY <2>1, <2>2, NotQueued, GoesOn DEF TypeInv
<1>15. ASSUME NEW p \in Procs, WritePrepare(p) \/ WriteTest(p) \/ WriteWoken(p)
       PROVE  TypeInv'
  <2>1. PICK l \in {"write_prepare", "write_test", "write_sleep", "write_lock"} :
          /\ Goto(p, l)
          /\ l \notin OutStates => p \notin outq'
    BY <1>15 DEF WritePrepare, WriteTest, WriteWoken, OutStates, queues
  <2>2. /\ l \in AllStates \ Locked
        /\ pc[p] \in WriteStates /\ l \in WriteStates
        /\ pc[p] \notin InStates
        /\ lock # p /\ inq' = inq /\ outq' \subseteq outq \cup {p}
        /\ UNCHANGED <<scull_p_buffer, dev, lock, file, call, buf>>
    BY <1>15, <2>1 DEF WritePrepare, WriteTest, WriteWoken, AllStates,
                       WriteStates, InStates, Locked, TypeInv, queues
  <2> QED BY <2>1, <2>2, NotQueued, GoesOn DEF TypeInv
<1>16. ASSUME NEW p \in Procs, scull_p_poll(p) \/ PollWoken(p)
       PROVE  TypeInv'
  <2>1. pc[p] \in PollStates /\ lock # p /\ lock' = lock
    BY <1>16 DEF scull_p_poll, PollWoken, PollStates, Locked, TypeInv
  <2>2. UNCHANGED <<scull_p_buffer, dev, file>>
    BY <1>16 DEF scull_p_poll, PollWoken, queues
  <2>3. CASE Leave(p) /\ inq' = inq \ {p} /\ outq' = outq \ {p}
    BY <2>1, <2>2, <2>3, CallEnds
  <2>4. CASE /\ Goto(p, "poll") \/ Goto(p, "poll_sleep")
             /\ UNCHANGED <<call, buf>>
             /\ inq' \subseteq inq \cup {p} /\ outq' \subseteq outq \cup {p}
    <3>1. \A l \in {"poll", "poll_sleep"} :
            /\ l \in AllStates \ Locked /\ l \in PollStates
            /\ l \in InStates /\ l \in OutStates
      BY DEF AllStates, PollStates, Locked, InStates, OutStates
    <3> QED BY <2>1, <2>2, <2>4, <3>1, GoesOn DEF TypeInv
  <2> QED BY <1>16, <2>3, <2>4 DEF scull_p_poll, PollWoken, queues
<1> QED BY <1>1, <1>2, <1>3, <1>4, <1>5, <1>6, <1>7, <1>8, <1>9, <1>10, <1>11,
           <1>12, <1>13, <1>14, <1>15, <1>16 DEF Next, CallStep

-----------------------------------------------------------------------------
(* The steps in which a process neither opens or releases the device nor   *)
(* moves a pointer.                                                        *)

Quiet(p) ==
  \/ EnterRead(p) \/ EnterWrite(p) \/ EnterPoll(p)
  \/ Fault(p) \/ Interrupted(p)
  \/ ReadLock(p) \/ ReadEmpty(p) \/ ReadWake(p)
  \/ ReadPrepare(p) \/ ReadTest(p) \/ ReadWoken(p)
  \/ WriteLock(p) \/ WriteFull(p) \/ WriteWake(p)
  \/ WritePrepare(p) \/ WriteTest(p) \/ WriteWoken(p)
  \/ scull_p_poll(p) \/ PollWoken(p)

Wrapping == {"read_wrap", "write_wrap"}
Answering == {"read_wrap", "read_wake", "write_wrap", "write_wake"}

(* The steps of Next, sorted by what they do to the buffer. *)
LEMMA StepCases ==
  ASSUME [Next]_vars
  PROVE  \/ UNCHANGED vars
         \/ \E n \in Sizes : scull_p_iocTsize(n)
         \/ \E p \in Procs, m \in Modes : scull_p_open(p, m)
         \/ \E p \in Procs : scull_p_release(p)
         \/ \E p \in Procs : ReadCopy(p)
         \/ \E p \in Procs : WriteCopy(p)
         \/ \E p \in Procs : ReadWrap(p)
         \/ \E p \in Procs : WriteWrap(p)
         \/ \E p \in Procs : Quiet(p)
BY Zenon DEF Next, CallStep, Quiet

(* A quiet step leaves the device, its bytes and the parameter alone. *)
LEMMA QuietKeeps ==
  ASSUME NEW p \in Procs, Quiet(p)
  PROVE  /\ UNCHANGED <<scull_p_buffer, dev, mem, file>>
         /\ pc[p] \notin Wrapping
<1> USE DEF Wrapping, queues
<1>1. CASE EnterRead(p) \/ EnterWrite(p) \/ EnterPoll(p)
  BY <1>1 DEF EnterRead, EnterWrite, EnterPoll, Enter
<1>2. CASE Fault(p) \/ Interrupted(p) \/ ReadLock(p) \/ WriteLock(p)
  BY <1>2 DEF Fault, Interrupted, ReadLock, WriteLock, Acquire
<1>3. CASE ReadEmpty(p) \/ ReadWake(p) \/ ReadPrepare(p)
  BY <1>3 DEF ReadEmpty, ReadWake, ReadPrepare
<1>4. CASE ReadTest(p) \/ ReadWoken(p) \/ scull_p_poll(p) \/ PollWoken(p)
  BY <1>4 DEF ReadTest, ReadWoken, scull_p_poll, PollWoken
<1>5. CASE WriteFull(p) \/ WriteWake(p) \/ WritePrepare(p)
  BY <1>5 DEF WriteFull, WriteWake, WritePrepare
<1>6. CASE WriteTest(p) \/ WriteWoken(p)
  BY <1>6 DEF WriteTest, WriteWoken
<1> QED BY <1>1, <1>2, <1>3, <1>4, <1>5, <1>6 DEF Quiet

(* They concern nobody else.                                               *)
LEMMA QuietOthers ==
  ASSUME TypeInv, NEW p \in Procs, Quiet(p)
  PROVE  /\ \A q \in Procs \ {p} : UNCHANGED <<pc[q], call[q], buf[q]>>
         /\ pc'[p] \notin Answering
<1>s. DOMAIN pc = Procs /\ DOMAIN call = Procs /\ DOMAIN buf = Procs
  BY DEF TypeInv
<1> USE <1>s DEF queues, Goto, Leave, Answering
<1>1. CASE EnterRead(p) \/ EnterWrite(p) \/ EnterPoll(p)
  BY <1>1 DEF EnterRead, EnterWrite, EnterPoll, Enter
<1>2. CASE Fault(p) \/ Interrupted(p)
  BY <1>2 DEF Fault, Interrupted
<1>3. CASE ReadLock(p) \/ WriteLock(p)
  BY <1>3 DEF ReadLock, WriteLock, Acquire
<1>4. CASE ReadEmpty(p)
  BY <1>4 DEF ReadEmpty
<1>5. CASE ReadWake(p) \/ WriteWake(p)
  BY <1>5 DEF ReadWake, WriteWake
<1>6. CASE ReadPrepare(p) \/ WritePrepare(p)
  BY <1>6 DEF ReadPrepare, WritePrepare
<1>7. CASE ReadTest(p)
  BY <1>7 DEF ReadTest
<1>8. CASE ReadWoken(p)
  BY <1>8 DEF ReadWoken
<1>9. CASE WriteFull(p)
  BY <1>9 DEF WriteFull
<1>10. CASE WriteTest(p)
  BY <1>10 DEF WriteTest
<1>11. CASE WriteWoken(p)
  BY <1>11 DEF WriteWoken
<1>12. CASE scull_p_poll(p)
  BY <1>12 DEF scull_p_poll
<1>13. CASE PollWoken(p)
  BY <1>13 DEF PollWoken
<1> HIDE DEF Goto, Leave, Answering
<1> QED BY <1>1, <1>2, <1>3, <1>4, <1>5, <1>6, <1>7, <1>8,
           <1>9, <1>10, <1>11, <1>12, <1>13 DEF Quiet

-----------------------------------------------------------------------------
(* The pointers.                                                           *)

(* Each step keeps the pointers in the buffer. *)
LEMMA PointersKept ==
  ASSUME TypeInv, PointersInv, [Next]_vars
  PROVE  PointersInv'
<1> USE NoProcAssumption
<1>t. TypeInv'
  BY TypesKept
<1>1. CASE UNCHANGED vars
  BY <1>1 DEF PointersInv, IsOpen, vars, queues
<1>2. CASE \E n \in Sizes : scull_p_iocTsize(n)
  BY <1>2 DEF PointersInv, IsOpen, scull_p_iocTsize, queues
<1>3. ASSUME NEW p \in Procs, NEW m \in Modes, scull_p_open(p, m)
      PROVE  PointersInv'
  <2>1. scull_p_buffer \in Nat \ {0}
    BY SizeAssumption DEF TypeInv
  <2> QED BY <1>3, <2>1 DEF scull_p_open, PointersInv
<1>4. ASSUME NEW p \in Procs, scull_p_release(p)
      PROVE  PointersInv'
  <2>1. /\ UNCHANGED <<lock, pc>> /\ lock = NoProc
        /\ dev'.buffersize = dev.buffersize /\ dev'.rp = dev.rp /\ dev'.wp = dev.wp
        /\ dev'.allocated # 0 => dev.allocated # 0
        /\ \A q \in Procs : IsOpen(q)' => IsOpen(q)
    BY <1>4 DEF scull_p_release, Released, TypeInv, DevType, IsOpen
  <2> QED BY <2>1 DEF PointersInv
<1>5. ASSUME NEW p \in Procs, ReadCopy(p)
      PROVE  PointersInv'
  <2>1. PICK n \in Nat : call[p][2] = n
    BY <1>5, CallsAssumption DEF TypeInv, CallOf, ReadCopy, ReadStates
  <2>2. PICK m \in Nat : m = ReadCount(dev, n) /\ dev.rp + m <= dev.buffersize
    BY <1>5, InsidePointers, Counting DEF ReadCopy
  <2>3. /\ lock' = p /\ pc'[p] = "read_wrap" /\ UNCHANGED file
        /\ dev.wp # dev.buffersize
    BY <1>5, InsidePointers DEF ReadCopy, Goto, TypeInv, DevType
  <2>4. dev' = [dev EXCEPT !.rp = @ + m]
    BY <1>5, <2>1, <2>2 DEF ReadCopy
  <2>5. /\ UNCHANGED <<dev.allocated, dev.buffersize, dev.wp>>
        /\ dev'.rp = dev.rp + m /\ dev'.rp \in 0 .. dev.buffersize
    BY <2>2, <2>4 DEF TypeInv, DevType
  <2> QED BY <2>3, <2>5 DEF PointersInv, IsOpen
<1>6. ASSUME NEW p \in Procs, WriteCopy(p)
      PROVE  PointersInv'
  <2>1. PICK n \in Nat : Len(call[p][2]) = n
    BY <1>6, CallsAssumption DEF TypeInv, CallOf, WriteCopy, WriteStates
  <2>2. PICK m \in Nat : m = WriteCount(dev, n) /\ dev.wp + m <= dev.buffersize
    BY <1>6, InsidePointers, Counting DEF WriteCopy
  <2>3. /\ lock' = p /\ pc'[p] = "write_wrap" /\ UNCHANGED file
        /\ dev.rp # dev.buffersize
    BY <1>6, InsidePointers DEF WriteCopy, Goto, TypeInv, DevType
  <2>4. dev' = [dev EXCEPT !.wp = @ + m]
    BY <1>6, <2>1, <2>2 DEF WriteCopy
  <2>5. /\ UNCHANGED <<dev.allocated, dev.buffersize, dev.rp>>
        /\ dev'.wp = dev.wp + m /\ dev'.wp \in 0 .. dev.buffersize
    BY <2>2, <2>4 DEF TypeInv, DevType
  <2> QED BY <2>3, <2>5 DEF PointersInv, IsOpen
<1>7. ASSUME NEW p \in Procs, ReadWrap(p)
      PROVE  PointersInv'
  <2>1. /\ lock = p
        /\ dev.wp # dev.buffersize \/ dev.buffersize = 0
    BY <1>7 DEF ReadWrap, PointersInv, TypeInv, Locked
  <2>2. /\ UNCHANGED <<dev.allocated, dev.buffersize, dev.wp, file>>
        /\ dev'.rp = IF dev.rp = dev.buffersize THEN 0 ELSE dev.rp
    BY <1>7 DEF ReadWrap, TypeInv, DevType, Wrapped
  <2> QED BY <2>1, <2>2 DEF PointersInv, IsOpen, TypeInv, DevType
<1>8. ASSUME NEW p \in Procs, WriteWrap(p)
      PROVE  PointersInv'
  <2>1. /\ lock = p
        /\ dev.rp # dev.buffersize \/ dev.buffersize = 0
    BY <1>8 DEF WriteWrap, PointersInv, TypeInv, Locked
  <2>2. /\ UNCHANGED <<dev.allocated, dev.buffersize, dev.rp, file>>
        /\ dev'.wp = IF dev.wp = dev.buffersize THEN 0 ELSE dev.wp
    BY <1>8 DEF WriteWrap, TypeInv, DevType, Wrapped
  <2> QED BY <2>1, <2>2 DEF PointersInv, IsOpen, TypeInv, DevType
<1>9. ASSUME NEW p \in Procs, Quiet(p)
      PROVE  PointersInv'
  <2>1. ASSUME NEW q \in Procs, lock = q, pc[q] \in Wrapping
        PROVE  lock' = q /\ pc'[q] = pc[q]
    <3>1. q # p /\ pc'[q] = pc[q]
      BY <1>9, <2>1, QuietKeeps, QuietOthers
    <3>2. pc'[q] \in Locked
      BY <2>1, <3>1 DEF Wrapping, Locked
    <3> QED BY <1>t, <3>1, <3>2 DEF TypeInv
  <2>2. UNCHANGED <<dev, file>>
    BY <1>9, QuietKeeps
  <2> QED BY <2>1, <2>2 DEF PointersInv, IsOpen, Wrapping
<1> QED BY <1>1, <1>2, <1>3, <1>4, <1>5, <1>6, <1>7, <1>8, <1>9, StepCases

-----------------------------------------------------------------------------
(* The life of the buffer.                                                 *)

Readers == {p \in Procs : file[p].read}
Writers == {p \in Procs : file[p].write}

(* Readers and writers are counted by finite sets. *)
LEMMA Counted ==
  /\ IsFiniteSet(Readers) /\ IsFiniteSet(Writers)
  /\ Cardinality(Readers) \in Nat /\ Cardinality(Writers) \in Nat
<1>1. Readers \in SUBSET Procs /\ Writers \in SUBSET Procs
  BY DEF Readers, Writers
<1> QED BY <1>1, ProcsAssumption, FS_Subset, FS_CardinalityType

(* A member more is counted once. *)
LEMMA OneMore ==
  ASSUME NEW S, IsFiniteSet(S), Cardinality(S) \in Nat, NEW x, x \notin S, NEW b,
         NEW T, T = IF b THEN S \cup {x} ELSE S
  PROVE  Cardinality(T) = Cardinality(S) + (IF b THEN 1 ELSE 0)
<1>1. Cardinality(S \cup {x}) = Cardinality(S) + 1
  BY FS_AddElement
<1> QED BY <1>1

(* A member less is counted once. *)
LEMMA OneLess ==
  ASSUME NEW S, IsFiniteSet(S), Cardinality(S) \in Nat, NEW x, NEW b, x \in S <=> b,
         NEW T, T = S \ {x}
  PROVE  Cardinality(T) = Cardinality(S) - (IF b THEN 1 ELSE 0)
<1>1. Cardinality(S \ {x}) = IF x \in S THEN Cardinality(S) - 1 ELSE Cardinality(S)
  BY FS_RemoveElement
<1> QED BY <1>1

(* Who opens and closes nothing is not counted. *)
LEMMA CountsKept ==
  ASSUME TypeInv, BufferWhileOpen, UNCHANGED <<dev, file>>
  PROVE  BufferWhileOpen'
BY DEF BufferWhileOpen, IsOpen

(* Each step keeps the buffer while the device is open. *)
LEMMA BufferKept ==
  ASSUME TypeInv, PointersInv, BufferWhileOpen, [Next]_vars
  PROVE  BufferWhileOpen'
<1>t. TypeInv'
  BY TypesKept
<1>1. CASE UNCHANGED vars
  BY <1>1, CountsKept DEF vars
<1>2. CASE \E n \in Sizes : scull_p_iocTsize(n)
  BY <1>2, CountsKept DEF scull_p_iocTsize
<1>3. ASSUME NEW p \in Procs, NEW m \in Modes, scull_p_open(p, m)
      PROVE  BufferWhileOpen'
  <2>1. /\ m \in [read : BOOLEAN, write : BOOLEAN, nonblock : BOOLEAN]
        /\ file[p] = Closed /\ file' = [file EXCEPT ![p] = m]
        /\ m # Closed
    BY <1>3, ModesAssumption DEF scull_p_open, IsOpen, Closed
  <2>2. /\ p \notin Readers /\ p \notin Writers
        /\ Readers' = IF m.read THEN Readers \cup {p} ELSE Readers
        /\ Writers' = IF m.write THEN Writers \cup {p} ELSE Writers
    BY <2>1 DEF Readers, Writers, Closed, TypeInv
  <2>3. /\ Cardinality(Readers') = Cardinality(Readers) + (IF m.read THEN 1 ELSE 0)
        /\ Cardinality(Writers') = Cardinality(Writers) + (IF m.write THEN 1 ELSE 0)
    BY <2>2, Counted, OneMore
  <2>4. dev'.allocated # 0 /\ IsOpen(p)'
    BY <1>3, <2>1, SizeAssumption DEF scull_p_open, TypeInv, DevType, IsOpen
  <2>5. /\ dev'.nreaders = dev.nreaders + (IF m.read THEN 1 ELSE 0)
        /\ dev'.nwriters = dev.nwriters + (IF m.write THEN 1 ELSE 0)
    BY <1>3 DEF scull_p_open
  <2> QED BY <2>3, <2>4, <2>5 DEF BufferWhileOpen, Readers, Writers
<1>4. ASSUME NEW p \in Procs, scull_p_release(p)
      PROVE  BufferWhileOpen'
  <2>1. /\ file[p] \in Modes /\ file' = [file EXCEPT ![p] = Closed]
        /\ file[p] \in [read : BOOLEAN, write : BOOLEAN, nonblock : BOOLEAN]
    BY <1>4, ModesAssumption DEF scull_p_release, IsOpen, TypeInv
  <2>2. /\ p \in Readers <=> file[p].read
        /\ p \in Writers <=> file[p].write
        /\ Readers' = Readers \ {p} /\ Writers' = Writers \ {p}
    BY <2>1 DEF Readers, Writers, Closed, TypeInv
  <2>3. /\ Cardinality(Readers') = Cardinality(Readers) - (IF file[p].read THEN 1 ELSE 0)
        /\ Cardinality(Writers') = Cardinality(Writers) - (IF file[p].write THEN 1 ELSE 0)
    BY <2>2, Counted, OneLess
  <2> DEFINE r == dev.nreaders - (IF file[p].read THEN 1 ELSE 0)
             w == dev.nwriters - (IF file[p].write THEN 1 ELSE 0)
  <2>4. r = Cardinality(Readers') /\ w = Cardinality(Writers')
    BY <2>3 DEF BufferWhileOpen, Readers, Writers
  <2>5. Cardinality(Readers') \in Nat /\ Cardinality(Writers') \in Nat
    BY <2>2, Counted, FS_RemoveElement, FS_CardinalityType
  <2>6. r + w = 0 <=> Readers' = {} /\ Writers' = {}
    <3>1. /\ Cardinality(Readers') = 0 <=> Readers' = {}
          /\ Cardinality(Writers') = 0 <=> Writers' = {}
      BY <2>2, Counted, FS_RemoveElement, FS_EmptySet
    <3> HIDE DEF r, w
    <3> QED BY <2>4, <2>5, <3>1
  <2>7. Readers' = {} /\ Writers' = {} <=> \A q \in Procs : ~ IsOpen(q)'
    <3>1. \A q \in Procs : IsOpen(q)' <=> q \in (Readers \cup Writers)'
      BY <1>t, ModesAssumption DEF TypeInv, IsOpen, Closed, Readers, Writers
    <3> QED BY <3>1 DEF Readers, Writers
  <2>8. dev.allocated # 0
    BY <1>4 DEF scull_p_release, BufferWhileOpen
  <2>9. /\ dev'.nreaders = r /\ dev'.nwriters = w
        /\ dev'.allocated = IF r + w = 0 THEN 0 ELSE dev.allocated
    BY <1>4 DEF scull_p_release, Released, TypeInv, DevType
  <2> HIDE DEF r, w
  <2> QED BY <2>4, <2>6, <2>7, <2>8, <2>9 DEF BufferWhileOpen, Readers, Writers
<1>5. ASSUME NEW p \in Procs, ReadCopy(p) \/ ReadWrap(p)
      PROVE  BufferWhileOpen'
  <2>1. /\ UNCHANGED <<dev.allocated, dev.nreaders, dev.nwriters, file>>
    BY <1>5 DEF ReadCopy, ReadWrap, TypeInv, DevType
  <2> QED BY <2>1 DEF BufferWhileOpen, IsOpen
<1>6. ASSUME NEW p \in Procs, WriteCopy(p) \/ WriteWrap(p)
      PROVE  BufferWhileOpen'
  <2>1. /\ UNCHANGED <<dev.allocated, dev.nreaders, dev.nwriters, file>>
    BY <1>6 DEF WriteCopy, WriteWrap, TypeInv, DevType
  <2> QED BY <2>1 DEF BufferWhileOpen, IsOpen
<1>7. ASSUME NEW p \in Procs, Quiet(p)
      PROVE  BufferWhileOpen'
  BY <1>7, QuietKeeps, CountsKept
<1> QED BY <1>1, <1>2, <1>3, <1>4, <1>5, <1>6, <1>7, StepCases

-----------------------------------------------------------------------------
(* Where everybody is initially. *)
LEMMA InitStates ==
  ASSUME Init
  PROVE  TypeInv /\ PointersInv /\ BufferWhileOpen
<1>1. TypeInv
  BY NoProcAssumption
     DEF Init, TypeInv, DevType, AllStates, ReadStates, WriteStates, CallOf,
         Locked
<1>2. PointersInv
  BY DEF Init, PointersInv, IsOpen
<1>3. BufferWhileOpen
  <2>1. {p \in Procs : file[p].read} = {} /\ {p \in Procs : file[p].write} = {}
    BY DEF Init, Closed
  <2> QED BY <2>1, FS_EmptySet DEF Init, BufferWhileOpen, IsOpen
<1> QED BY <1>1, <1>2, <1>3

DeviceInv == TypeInv /\ PointersInv /\ BufferWhileOpen

(* The invariant of the device, of every behaviour. *)
THEOREM DeviceInvariant == Spec => []DeviceInv
<1>1. Init => DeviceInv
  BY InitStates DEF DeviceInv
<1>2. DeviceInv /\ [Next]_vars => DeviceInv'
  BY TypesKept, PointersKept, BufferKept DEF DeviceInv
<1> QED BY <1>1, <1>2, PTL DEF Spec

(* In every reachable state each variable has its type, a call is made on  *)
(* an open file, lock is the one process that is inside the mutex, and who *)
(* is in a wait queue is where it can be (pipe.c:120-181).                 *)
THEOREM TypeCorrect == Spec => []TypeOK
<1>1. DeviceInv => TypeOK
  BY DEF DeviceInv, TypeInv, TypeOK, AllStates, InStates, OutStates
<1> QED BY <1>1, DeviceInvariant, PTL

(* The buffer exists exactly while some file is open, and the counts say   *)
(* how many are, for every number of processes (pipe.c:75-91, 106-113).    *)
THEOREM LifeCorrect == Spec => []BufferWhileOpen
<1>1. DeviceInv => BufferWhileOpen
  BY DEF DeviceInv
<1> QED BY <1>1, DeviceInvariant, PTL

-----------------------------------------------------------------------------
(* The bounds of the buffer.                                               *)

OnlyShrinks == [][scull_p_buffer' <= scull_p_buffer]_vars

(* Each step keeps the believed size within the allocated one. *)
LEMMA RoomKept ==
  ASSUME DeviceInv, RoomInv, [Next]_vars,
         scull_p_buffer' <= scull_p_buffer \/ UNCHANGED vars
  PROVE  RoomInv'
<1> USE DEF DeviceInv
<1>1. CASE UNCHANGED vars
  BY <1>1 DEF RoomInv, WritesInBuffer, vars
<1>2. CASE \E n \in Sizes : scull_p_iocTsize(n)
  <2>1. /\ scull_p_buffer' \in Nat /\ scull_p_buffer \in Nat
        /\ scull_p_buffer' <= scull_p_buffer /\ dev.buffersize \in Nat
    BY <1>2, TypesKept, SizeAssumption DEF TypeInv, DevType, scull_p_iocTsize, vars
  <2> QED BY <1>2, <2>1 DEF RoomInv, WritesInBuffer, scull_p_iocTsize
<1>3. ASSUME NEW p \in Procs, NEW m \in Modes, scull_p_open(p, m)
      PROVE  RoomInv'
  <2>1. /\ scull_p_buffer \in Nat \ {0} /\ dev.allocated \in Nat
        /\ dev.buffersize \in Nat
    BY SizeAssumption DEF TypeInv, DevType
  <2>2. /\ dev'.buffersize = scull_p_buffer /\ UNCHANGED scull_p_buffer
        /\ dev'.allocated = IF dev.allocated = 0 THEN scull_p_buffer ELSE dev.allocated
        /\ mem' = IF dev.allocated = 0
                    THEN [i \in 0 .. dev'.allocated - 1 |-> NoByte] ELSE mem
    BY <1>3 DEF scull_p_open
  <2> QED BY <2>1, <2>2 DEF RoomInv, WritesInBuffer
<1>4. ASSUME NEW p \in Procs, scull_p_release(p)
      PROVE  RoomInv'
  <2>1. /\ UNCHANGED <<scull_p_buffer, dev.buffersize>>
        /\ \/ dev'.allocated = 0 /\ mem' = [i \in {} |-> NoByte]
           \/ UNCHANGED <<dev.allocated, mem>>
    BY <1>4 DEF scull_p_release, Released, TypeInv, DevType
  <2>2. dev'.allocated = 0 => 0 .. dev'.allocated - 1 = {}
    OBVIOUS
  <2> QED BY <2>1, <2>2 DEF RoomInv, WritesInBuffer
<1>5. ASSUME NEW p \in Procs, ReadCopy(p) \/ ReadWrap(p)
      PROVE  RoomInv'
  <2>1. /\ UNCHANGED <<dev.allocated, dev.buffersize, mem, scull_p_buffer>>
    BY <1>5 DEF ReadCopy, ReadWrap, TypeInv, DevType
  <2> QED BY <2>1 DEF RoomInv, WritesInBuffer
<1>6. ASSUME NEW p \in Procs, WriteWrap(p)
      PROVE  RoomInv'
  <2>1. /\ UNCHANGED <<dev.allocated, dev.buffersize, mem, scull_p_buffer>>
    BY <1>6 DEF WriteWrap, TypeInv, DevType
  <2> QED BY <2>1 DEF RoomInv, WritesInBuffer
<1>7. ASSUME NEW p \in Procs, WriteCopy(p)
      PROVE  RoomInv'
  <2>1. PICK n \in Nat : Len(call[p][2]) = n
    BY <1>7, CallsAssumption DEF TypeInv, CallOf, WriteCopy, WriteStates
  <2>2. PICK k \in Nat : k = WriteCount(dev, n) /\ dev.wp + k <= dev.buffersize
    BY <1>7, InsidePointers, Counting DEF WriteCopy
  <2>3. /\ UNCHANGED <<dev.allocated, dev.buffersize, scull_p_buffer>>
        /\ DOMAIN mem' = DOMAIN mem \cup (dev.wp .. dev.wp + k - 1)
    BY <1>7, <2>1, <2>2 DEF WriteCopy, TypeInv, DevType
  <2>4. dev.allocated # 0
    BY <1>7, NoProcAssumption DEF WriteCopy, TypeInv, BufferWhileOpen
  <2>5. /\ dev.allocated \in Nat /\ dev.buffersize \in Nat /\ dev.wp \in Nat
        /\ dev.buffersize <= dev.allocated
        /\ DOMAIN mem = 0 .. dev.allocated - 1
    BY <2>4 DEF TypeInv, DevType, RoomInv, WritesInBuffer
  <2>6. DOMAIN mem' = 0 .. dev.allocated - 1
    BY <2>2, <2>3, <2>5
  <2> QED BY <2>3, <2>6 DEF RoomInv, WritesInBuffer
<1>8. ASSUME NEW p \in Procs, Quiet(p)
      PROVE  RoomInv'
  BY <1>8, QuietKeeps DEF RoomInv, WritesInBuffer
<1> QED BY <1>1, <1>2, <1>3, <1>4, <1>5, <1>6, <1>7, <1>8, StepCases

(* The believed size, of every behaviour in which the parameter shrinks. *)
THEOREM RoomInvariant == Spec /\ OnlyShrinks => []RoomInv
<1>1. Init => RoomInv
  BY DEF Init, RoomInv, WritesInBuffer
<1>2. DeviceInv /\ RoomInv /\ [Next]_vars /\ [scull_p_buffer' <= scull_p_buffer]_vars
        => RoomInv'
  BY RoomKept
<1> QED BY <1>1, <1>2, DeviceInvariant, PTL DEF Spec, OnlyShrinks

(* While the parameter only shrinks, whatever the sizes and the processes, *)
(* no write puts a byte outside the buffer that was allocated, and it is   *)
(* allocated exactly while a file is open (pipe.c:40, 75-91, 106-113,      *)
(* 207-220).                                                               *)
THEOREM BufferCorrect == Spec /\ OnlyShrinks => []BufferSafe
<1>1. DeviceInv /\ RoomInv => BufferSafe
  BY DEF DeviceInv, RoomInv, BufferSafe
<1> QED BY <1>1, DeviceInvariant, RoomInvariant, PTL

-----------------------------------------------------------------------------
(* What is in the buffer.                                                  *)

Start(d) == Wrapped(d, d.rp)
Used(d) == LET w == Wrapped(d, d.wp)
           IN  IF w >= Start(d) THEN w - Start(d) ELSE w - Start(d) + d.buffersize
Place(d, i) == IF Start(d) + i - 1 < d.buffersize
                 THEN Start(d) + i - 1 ELSE Start(d) + i - 1 - d.buffersize

(* The remainder of a number below twice the modulus. *)
LEMMA Modulus ==
  ASSUME NEW s \in Nat \ {0}
  PROVE  \A a \in 0 .. 2 * s - 1 : a % s = IF a < s THEN a ELSE a - s
OBVIOUS

(* The bytes of the queue are those from the read pointer on. *)
LEMMA ContentIs ==
  ASSUME TypeInv, PointersInv, dev.allocated # 0
  PROVE  /\ dev.buffersize \in Nat \ {0} /\ Used(dev) \in 0 .. dev.buffersize - 1
         /\ Start(dev) \in 0 .. dev.buffersize - 1
         /\ \A i \in 1 .. Used(dev) : Place(dev, i) \in 0 .. dev.buffersize - 1
         /\ Content = [i \in 1 .. Used(dev) |-> mem[Place(dev, i)]]
         /\ Len(Content) = Used(dev)
         /\ Content = <<>> <=> Wrapped(dev, dev.rp) = Wrapped(dev, dev.wp)
<1>1. PICK s \in Nat \ {0}, r \in Nat, w \in Nat :
        /\ dev.buffersize = s /\ r < s /\ w < s
        /\ Wrapped(dev, dev.rp) = r /\ Wrapped(dev, dev.wp) = w
  BY DEF TypeInv, DevType, PointersInv, Wrapped
<1>2. PICK u \in 0 .. s - 1 : /\ u = IF w >= r THEN w - r ELSE w - r + s
                              /\ u = (w - r + s) % s /\ (u = 0 <=> w = r)
  <2>1. PICK a \in 0 .. 2 * s - 1 : a = w - r + s
    BY <1>1
  <2>2. (w - r + s) % s = IF w - r + s < s THEN w - r + s ELSE w - r + s - s
    <3>1. a % s = IF a < s THEN a ELSE a - s
      BY Modulus
    <3> QED BY <2>1, <3>1
  <2> DEFINE u == IF w >= r THEN w - r ELSE w - r + s
  <2>3. u \in 0 .. s - 1 /\ u = (w - r + s) % s /\ (u = 0 <=> w = r)
    BY <1>1, <2>2
  <2> HIDE DEF u
  <2>4. u = IF w >= r THEN w - r ELSE w - r + s
    BY DEF u
  <2> QED BY <2>3, <2>4
<1>3. \A i \in 1 .. u :
        /\ (r + i - 1) % s = IF r + i - 1 < s THEN r + i - 1 ELSE r + i - 1 - s
        /\ (IF r + i - 1 < s THEN r + i - 1 ELSE r + i - 1 - s) \in 0 .. s - 1
  <2> TAKE i \in 1 .. u
  <2>1. PICK a \in 0 .. 2 * s - 1 : a = r + i - 1
    BY <1>1, <1>2
  <2>2. a % s = IF a < s THEN a ELSE a - s
    BY Modulus
  <2> QED BY <2>1, <2>2
<1>4. /\ Start(dev) = r /\ Used(dev) = u
      /\ \A i : Place(dev, i) = IF r + i - 1 < s THEN r + i - 1 ELSE r + i - 1 - s
  BY <1>1, <1>2 DEF Start, Used, Place
<1>5. Content = [i \in 1 .. u |-> mem[(r + i - 1) % s]]
  BY <1>1, <1>2 DEF Content
<1>6. Content = [i \in 1 .. u |-> mem[Place(dev, i)]]
  BY <1>3, <1>4, <1>5
<1>7. Content = <<>> <=> u = 0
  <2>1. Len(Content) = u
    BY <1>6
  <2>2. CASE u = 0
    BY <1>6, <2>2
  <2> QED BY <2>1, <2>2
<1>8. \A i \in 1 .. Used(dev) : Place(dev, i) \in 0 .. dev.buffersize - 1
  BY <1>1, <1>3, <1>4
<1>9. Len(Content) = Used(dev)
  BY <1>2, <1>4, <1>6
<1>10. Start(dev) \in 0 .. s - 1 /\ Used(dev) \in 0 .. s - 1
  BY <1>1, <1>2, <1>4
<1>11. Content = [i \in 1 .. Used(dev) |-> mem[Place(dev, i)]]
  BY <1>4, <1>6
<1> QED BY <1>1, <1>2, <1>7, <1>8, <1>9, <1>10, <1>11

(* Without a buffer the queue is empty. *)
LEMMA NothingAllocated ==
  ASSUME dev.allocated = 0
  PROVE  Content = <<>>
BY DEF Content

(* What leaves the device and its bytes alone leaves the queue alone. *)
LEMMA ContentKept ==
  ASSUME UNCHANGED <<dev, mem>>
  PROVE  Content' = Content
BY DEF Content

(* A pointer that wraps leaves the queue alone. *)
LEMMA WrapKeepsContent ==
  ASSUME TypeInv, NEW p \in Procs, ReadWrap(p) \/ WriteWrap(p)
  PROVE  Content' = Content
<1>1. /\ UNCHANGED <<dev.allocated, dev.buffersize, mem>>
      /\ Wrapped(dev', dev'.rp) = Wrapped(dev, dev.rp)
      /\ Wrapped(dev', dev'.wp) = Wrapped(dev, dev.wp)
  BY DEF ReadWrap, WriteWrap, TypeInv, DevType, Wrapped
<1> QED BY <1>1 DEF Content

(* A release empties the queue or leaves it alone. *)
LEMMA ReleaseContent ==
  ASSUME TypeInv, NEW p \in Procs, scull_p_release(p)
  PROVE  Content' = Content \/ Content' = <<>>
<1>1. CASE dev'.allocated = 0
  BY <1>1 DEF Content
<1>2. CASE dev'.allocated # 0
  <2>1. dev'.allocated = dev.allocated /\ mem' = mem
    BY <1>2 DEF scull_p_release, Released, TypeInv, DevType
  <2>2. /\ UNCHANGED <<dev.buffersize, dev.rp, dev.wp>>
    BY DEF scull_p_release, Released, TypeInv, DevType
  <2> QED BY <2>1, <2>2 DEF Content, Wrapped
<1> QED BY <1>1, <1>2

(* ContentIs, after a step. *)
LEMMA ContentAfter ==
  (TypeInv /\ PointersInv /\ dev.allocated # 0)'
    => (/\ Content = [i \in 1 .. Used(dev) |-> mem[Place(dev, i)]]
        /\ Len(Content) = Used(dev)
        /\ Content = <<>> <=> Wrapped(dev, dev.rp) = Wrapped(dev, dev.wp))'
<1>1. TypeInv /\ PointersInv /\ dev.allocated # 0
        => /\ Content = [i \in 1 .. Used(dev) |-> mem[Place(dev, i)]]
           /\ Len(Content) = Used(dev)
           /\ Content = <<>> <=> Wrapped(dev, dev.rp) = Wrapped(dev, dev.wp)
  BY ContentIs
<1> QED BY <1>1, PTL

(* An open empties the queue. *)
LEMMA OpenContent ==
  ASSUME TypeInv, PointersInv, NEW p \in Procs, NEW m \in Modes, scull_p_open(p, m),
         TypeInv', PointersInv'
  PROVE  Content' = <<>>
<1>1. Wrapped(dev', dev'.rp) = Wrapped(dev', dev'.wp)
  BY DEF scull_p_open
<1>2. CASE dev'.allocated = 0
  BY <1>2 DEF Content
<1>3. CASE dev'.allocated # 0
  BY <1>1, <1>3, ContentAfter
<1> QED BY <1>2, <1>3

(* What a read and a write move.                                           *)
LEMMA ReadMoves ==
  ASSUME TypeInv, PointersInv, NEW p \in Procs, ReadCopy(p)
  PROVE  \E n \in 0 .. Used(dev) :
           /\ n = ReadCount(dev, call[p][2])
           /\ dev' = [dev EXCEPT !.rp = @ + n]
           /\ dev.rp + n <= dev.buffersize /\ Used(dev) # 0
           /\ Used(dev') = Used(dev) - n
<1>1. PICK c \in Nat : call[p][2] = c
  BY CallsAssumption DEF TypeInv, CallOf, ReadCopy, ReadStates
<1>2. PICK s \in Nat \ {0}, r \in Nat, w \in Nat :
        dev.buffersize = s /\ dev.rp = r /\ dev.wp = w /\ r < s /\ w < s
  BY InsidePointers DEF TypeInv, DevType, ReadCopy
<1>3. PICK n \in Nat : n = ReadCount(dev, c)
  BY <1>2, Counting
<1>4. r + n <= s /\ (w > r => r + n <= w) /\ r # w
  BY <1>2, <1>3, Counting DEF ReadCopy
<1>5. dev' = [dev EXCEPT !.rp = @ + n]
  BY <1>1, <1>3 DEF ReadCopy
<1>6. dev'.buffersize = s /\ dev'.rp = r + n /\ dev'.wp = w
  BY <1>2, <1>5 DEF TypeInv, DevType
<1>7. Used(dev) = IF w >= r THEN w - r ELSE w - r + s
  BY <1>2 DEF Used, Start, Wrapped
<1>8. Used(dev') = LET q == IF r + n = s THEN 0 ELSE r + n
                   IN  IF w >= q THEN w - q ELSE w - q + s
  BY <1>2, <1>6 DEF Used, Start, Wrapped
<1>9. n \in 0 .. Used(dev) /\ Used(dev') = Used(dev) - n /\ Used(dev) # 0
  BY <1>2, <1>3, <1>4, <1>7, <1>8
<1>10. n = ReadCount(dev, call[p][2]) /\ dev.rp + n <= dev.buffersize
  BY <1>1, <1>2, <1>3, <1>4
<1> QED BY <1>5, <1>9, <1>10

(* What a write copies fits between the pointers. *)
LEMMA WriteMoves ==
  ASSUME TypeInv, PointersInv, NEW p \in Procs, WriteCopy(p)
  PROVE  \E n \in 0 .. Len(call[p][2]) :
           /\ n = WriteCount(dev, Len(call[p][2]))
           /\ dev' = [dev EXCEPT !.wp = @ + n]
           /\ dev.wp + n <= dev.buffersize /\ Used(dev) + n < dev.buffersize
           /\ Used(dev') = Used(dev) + n
<1>1. PICK c \in Nat : Len(call[p][2]) = c
  BY CallsAssumption, SMTT(30) DEF TypeInv, CallOf, WriteCopy, WriteStates
<1>2. PICK s \in Nat \ {0}, r \in Nat, w \in Nat :
        dev.buffersize = s /\ dev.rp = r /\ dev.wp = w /\ r < s /\ w < s
  BY InsidePointers DEF TypeInv, DevType, WriteCopy
<1>3. PICK n \in Nat : n = WriteCount(dev, c)
  BY <1>2, Counting
<1>4. /\ w + n <= s /\ n <= c
      /\ n <= s - 1 - (IF w >= r THEN w - r ELSE w - r + s)
  BY <1>2, <1>3, Counting
<1>5. dev' = [dev EXCEPT !.wp = @ + n]
  BY <1>1, <1>3 DEF WriteCopy
<1>6. dev'.buffersize = s /\ dev'.rp = r /\ dev'.wp = w + n
  BY <1>2, <1>5 DEF TypeInv, DevType
<1>7. Used(dev) = IF w >= r THEN w - r ELSE w - r + s
  BY <1>2 DEF Used, Start, Wrapped
<1>8. Used(dev') = LET q == IF w + n = s THEN 0 ELSE w + n
                   IN  IF q >= r THEN q - r ELSE q - r + s
  BY <1>2, <1>6 DEF Used, Start, Wrapped
<1>9. Used(dev) + n < s /\ Used(dev') = Used(dev) + n
  BY <1>2, <1>4, <1>7, <1>8
<1> QED BY <1>1, <1>2, <1>3, <1>4, <1>5, <1>9

-----------------------------------------------------------------------------
(* Wakeups.                                                                *)

(* What a quiet step does to the queue of the readers.                     *)
LEMMA QuietIn ==
  ASSUME NEW p \in Procs, Quiet(p), TypeInv
  PROVE  /\ inq' \subseteq inq \cup {p}
         /\ pc[p] = "write_wake" => inq' = {}
         /\ pc'[p] = "read_sleep" => dev.rp = dev.wp
         /\ pc'[p] = "poll_sleep" /\ "in" \in call'[p][2] => dev.rp = dev.wp
<1>s. DOMAIN pc = Procs
  BY DEF TypeInv
<1> USE <1>s DEF queues, Goto, Leave
<1>1. CASE EnterRead(p) \/ EnterWrite(p) \/ EnterPoll(p)
  BY <1>1 DEF EnterRead, EnterWrite, EnterPoll, Enter
<1>2. CASE Fault(p) \/ Interrupted(p)
  BY <1>2 DEF Fault, Interrupted
<1>3. CASE ReadLock(p) \/ WriteLock(p)
  BY <1>3 DEF ReadLock, WriteLock, Acquire
<1>4. CASE ReadEmpty(p)
  BY <1>4 DEF ReadEmpty
<1>5. CASE ReadWake(p) \/ WriteWake(p)
  BY <1>5 DEF ReadWake, WriteWake
<1>6. CASE ReadPrepare(p) \/ WritePrepare(p)
  BY <1>6 DEF ReadPrepare, WritePrepare
<1>7. CASE ReadTest(p)
  BY <1>7 DEF ReadTest
<1>8. CASE ReadWoken(p)
  BY <1>8 DEF ReadWoken
<1>9. CASE WriteFull(p)
  BY <1>9 DEF WriteFull
<1>10. CASE WriteTest(p)
  BY <1>10 DEF WriteTest
<1>11. CASE WriteWoken(p)
  BY <1>11 DEF WriteWoken
<1>12. CASE scull_p_poll(p)
  BY <1>12 DEF scull_p_poll
<1>13. CASE PollWoken(p)
  BY <1>13 DEF PollWoken
<1> HIDE DEF Goto, Leave
<1> QED BY <1>1, <1>2, <1>3, <1>4, <1>5, <1>6, <1>7, <1>8,
           <1>9, <1>10, <1>11, <1>12, <1>13 DEF Quiet

(* And to that of the writers.                                             *)
LEMMA QuietOut ==
  ASSUME NEW p \in Procs, Quiet(p), TypeInv
  PROVE  /\ outq' \subseteq outq \cup {p}
         /\ pc[p] = "read_wake" => outq' = {}
         /\ pc'[p] = "write_sleep" => spacefree(dev) = 0
         /\ pc'[p] = "poll_sleep" /\ "out" \in call'[p][2] =>
              spacefree(dev) = 0 /\ lock = NoProc
<1>s. DOMAIN pc = Procs
  BY DEF TypeInv
<1> USE <1>s DEF queues, Goto, Leave
<1>1. CASE EnterRead(p) \/ EnterWrite(p) \/ EnterPoll(p)
  BY <1>1 DEF EnterRead, EnterWrite, EnterPoll, Enter
<1>2. CASE Fault(p) \/ Interrupted(p)
  BY <1>2 DEF Fault, Interrupted
<1>3. CASE ReadLock(p) \/ WriteLock(p)
  BY <1>3 DEF ReadLock, WriteLock, Acquire
<1>4. CASE ReadEmpty(p)
  BY <1>4 DEF ReadEmpty
<1>5. CASE ReadWake(p) \/ WriteWake(p)
  BY <1>5 DEF ReadWake, WriteWake
<1>6. CASE ReadPrepare(p) \/ WritePrepare(p)
  BY <1>6 DEF ReadPrepare, WritePrepare
<1>7. CASE ReadTest(p)
  BY <1>7 DEF ReadTest
<1>8. CASE ReadWoken(p)
  BY <1>8 DEF ReadWoken
<1>9. CASE WriteFull(p)
  BY <1>9 DEF WriteFull
<1>10. CASE WriteTest(p)
  BY <1>10 DEF WriteTest
<1>11. CASE WriteWoken(p)
  BY <1>11 DEF WriteWoken
<1>12. CASE scull_p_poll(p)
  BY <1>12 DEF scull_p_poll
<1>13. CASE PollWoken(p)
  BY <1>13 DEF PollWoken
<1> HIDE DEF Goto, Leave
<1> QED BY <1>1, <1>2, <1>3, <1>4, <1>5, <1>6, <1>7, <1>8,
           <1>9, <1>10, <1>11, <1>12, <1>13 DEF Quiet
(* The wakers that a process's own step leaves as they are.                *)
LEMMA OthersStay ==
  ASSUME TypeInv, NEW p \in Procs, NEW l,
         Goto(p, l)
  PROVE  pc'[p] = l /\ \A q \in Procs \ {p} : pc'[q] = pc[q]
BY DEF TypeInv, Goto

(* Each step keeps the readers that sleep with an empty buffer. *)
LEMMA ReadersWokenKept ==
  ASSUME DeviceInv, DeviceInv', ReadersWoken, [Next]_vars
  PROVE  ReadersWoken'
<1> USE DEF DeviceInv
<1> SUFFICES ASSUME Content' # <<>>, NEW p \in inq', Asleep(p, "in")',
                    \A q \in Procs : pc'[q] \notin {"write_wrap", "write_wake"}
             PROVE  FALSE
  BY DEF ReadersWoken
<1>p. p \in Procs
  BY DEF TypeInv
<1>a. \/ pc'[p] = "read_sleep"
      \/ pc'[p] = "poll_sleep" /\ "in" \in call'[p][2]
  BY DEF Asleep
<1>w. ASSUME Content # <<>>, p \in inq, Asleep(p, "in")
      PROVE  \E q \in Procs : pc[q] \in {"write_wrap", "write_wake"}
  BY <1>w DEF ReadersWoken
<1>1. CASE UNCHANGED vars
  <2>1. UNCHANGED <<dev, mem, inq, pc, call>>
    BY <1>1 DEF vars
  <2> QED BY <1>w, <1>a, <2>1, ContentKept DEF Asleep
<1>2. CASE \E n \in Sizes : scull_p_iocTsize(n)
  <2>1. UNCHANGED <<dev, mem, inq, pc, call>>
    BY <1>2 DEF scull_p_iocTsize, queues
  <2> QED BY <1>w, <1>a, <2>1, ContentKept DEF Asleep
<1>3. ASSUME NEW o \in Procs, NEW m \in Modes, scull_p_open(o, m)
      PROVE  FALSE
  BY <1>3, OpenContent
<1>4. ASSUME NEW o \in Procs, scull_p_release(o)
      PROVE  FALSE
  <2>1. UNCHANGED <<inq, pc, call>>
    BY <1>4 DEF scull_p_release
  <2> QED BY <1>w, <1>a, <1>4, <2>1, ReleaseContent DEF Asleep
<1>5. ASSUME NEW o \in Procs, ReadCopy(o)
      PROVE  FALSE
  <2>1. UNCHANGED <<inq, call>> /\ pc[o] = "read_check" /\ Goto(o, "read_wrap")
    BY <1>5 DEF ReadCopy, queues
  <2>2. dev.allocated # 0 /\ Used(dev) # 0
    BY <1>5, <2>1, ReadMoves DEF BufferWhileOpen, TypeInv
  <2>3. Content # <<>>
    <3>1. Len(Content) # 0
      BY <2>2, ContentIs
    <3> QED BY <3>1
  <2>4. p # o /\ pc'[p] = pc[p]
    BY <1>a, <1>p, <2>1, OthersStay
  <2> QED BY <1>w, <1>a, <2>1, <2>3, <2>4, OthersStay DEF Asleep
<1>6. ASSUME NEW o \in Procs, WriteCopy(o) \/ WriteWrap(o)
      PROVE  FALSE
  <2>1. Goto(o, "write_wrap") \/ Goto(o, "write_wake")
    BY <1>6 DEF WriteCopy, WriteWrap
  <2> QED BY <2>1, OthersStay
<1>7. ASSUME NEW o \in Procs, ReadWrap(o)
      PROVE  FALSE
  <2>1. UNCHANGED <<inq, call>> /\ pc[o] = "read_wrap" /\ Goto(o, "read_wake")
    BY <1>7 DEF ReadWrap, queues
  <2>2. p # o /\ pc'[p] = pc[p]
    BY <1>a, <1>p, <2>1, OthersStay
  <2>3. Content # <<>>
    BY <1>7, WrapKeepsContent
  <2> QED BY <1>w, <1>a, <2>1, <2>2, <2>3, OthersStay DEF Asleep
<1>8. ASSUME NEW o \in Procs, Quiet(o)
      PROVE  FALSE
  <2>1. Content' = Content
    BY <1>8, QuietKeeps, ContentKept
  <2>2. CASE p = o
    <3>1. dev.rp = dev.wp
      BY <1>8, <1>a, <2>2, QuietIn
    <3>2. dev.allocated # 0
      BY <2>1, NothingAllocated
    <3> QED BY <2>1, <3>1, <3>2, ContentIs
  <2>3. CASE p # o
    <3>1. pc'[p] = pc[p] /\ call'[p] = call[p]
      BY <1>8, <1>p, <2>3, QuietOthers
    <3>2. p \in inq
      BY <1>8, <2>3, QuietIn
    <3>3. PICK q \in Procs : pc[q] \in {"write_wrap", "write_wake"}
      BY <1>w, <1>a, <2>1, <3>1, <3>2 DEF Asleep
    <3>4. q = o
      BY <1>8, <3>3, QuietOthers
    <3> QED BY <1>8, <3>3, <3>4, QuietIn, QuietKeeps DEF Wrapping
  <2> QED BY <2>2, <2>3
<1> QED BY <1>1, <1>2, <1>3, <1>4, <1>5, <1>6, <1>7, <1>8, StepCases

(* No lost wakeup of a reader, for any number of processes and any buffer: *)
(* who sleeps until there is something to read, while there is, will be    *)
(* woken by a writer that has not come to its wake_up (pipe.c:136, 224).   *)
THEOREM WakeupsCorrect == Spec => []ReadersWoken
<1>1. Init => ReadersWoken
  BY DEF Init, ReadersWoken
<1>2. DeviceInv /\ DeviceInv' /\ ReadersWoken /\ [Next]_vars => ReadersWoken'
  BY ReadersWokenKept
<1> QED BY <1>1, <1>2, DeviceInvariant, PTL DEF Spec

-----------------------------------------------------------------------------
(* A step that leaves a writer asleep with space in the buffer and nobody  *)
(* about to wake it.                                                       *)
Opened == \E q \in Procs : ~ IsOpen(q) /\ IsOpen(q)'

(* A writer that is stranded after a step was stranded before. *)
LEMMA StrandedKept ==
  ASSUME NEW p \in Procs, Stranded(p)', outq' = outq \/ p \in outq,
         Len(Content) <= Len(Content)', dev'.buffersize = dev.buffersize,
         Len(Content) \in Nat, Len(Content)' \in Nat, dev.buffersize \in Nat,
         pc'[p] = pc[p], call'[p] = call[p],
         \A q \in Procs : pc[q] \in {"read_wrap", "read_wake"} =>
                            pc'[q] \in {"read_wrap", "read_wake"}
  PROVE  Stranded(p)
BY DEF Stranded, Asleep

(* The length of the queue is a number. *)
LEMMA ContentTypes ==
  ASSUME DeviceInv
  PROVE  Len(Content) \in Nat /\ dev.buffersize \in Nat
<1>1. CASE dev.allocated = 0
  BY <1>1, NothingAllocated DEF DeviceInv, TypeInv, DevType
<1>2. CASE dev.allocated # 0
  BY <1>2, ContentIs DEF DeviceInv
<1> QED BY <1>1, <1>2

(* The same after a step. *)
LEMMA ContentTypesAfter ==
  DeviceInv' => (Len(Content) \in Nat)'
<1>1. DeviceInv => Len(Content) \in Nat
  BY ContentTypes
<1> QED BY <1>1, PTL

(* A writer that finds no space finds the buffer full, also when it looks  *)
(* without the mutex, unless a read is about to wrap its pointer.          *)
LEMMA FullBuffer ==
  ASSUME TypeInv, PointersInv, dev.allocated # 0, spacefree(dev) = 0,
         dev.rp # dev.buffersize
  PROVE  Len(Content) >= dev.buffersize - 1
<1>1. PICK s \in Nat \ {0}, r \in Nat, w \in Nat :
        dev.buffersize = s /\ dev.rp = r /\ dev.wp = w /\ r < s /\ w <= s
  BY DEF TypeInv, DevType, PointersInv
<1>2. Len(Content) = Used(dev)
  BY ContentIs
<1>3. Used(dev) = LET q == IF w = s THEN 0 ELSE w
                  IN  IF q >= r THEN q - r ELSE q - r + s
  BY <1>1 DEF Used, Start, Wrapped
<1>4. CASE r = w
  BY <1>1, <1>2, <1>3, <1>4 DEF spacefree
<1>5. CASE r # w
  <2>1. PICK a \in 0 .. 2 * s - 1 : a = r + s - w
    BY <1>1
  <2>2. a % s = IF a < s THEN a ELSE a - s
    BY Modulus
  <2>3. a % s = 1
    <3>1. a % s \in Int
      BY <2>1, <2>2
    <3> QED BY <1>1, <1>5, <2>1, <3>1 DEF spacefree
  <2> QED BY <1>1, <1>2, <1>3, <1>5, <2>1, <2>2, <2>3
<1> QED BY <1>4, <1>5

(* A step that strands a writer is an open. *)
LEMMA OpenStrands ==
  ASSUME DeviceInv, DeviceInv', [Next]_vars,
         NEW p \in Procs, ~ Stranded(p), Stranded(p)'
  PROVE  Opened
<1> USE DEF DeviceInv
<1>n. Len(Content) \in Nat /\ Len(Content)' \in Nat /\ dev.buffersize \in Nat
  BY ContentTypes, ContentTypesAfter
<1>a. /\ p \in outq'
      /\ \/ pc'[p] = "write_sleep"
         \/ pc'[p] = "poll_sleep" /\ "out" \in call'[p][2]
      /\ Len(Content)' < dev'.buffersize - 1
      /\ \A q \in Procs : pc'[q] \notin {"read_wrap", "read_wake"}
  BY DEF Stranded, Asleep
<1>1. CASE UNCHANGED vars
  <2>1. UNCHANGED <<dev, mem, outq, pc, call>>
    BY <1>1 DEF vars
  <2> QED BY <2>1, <1>n, ContentKept, StrandedKept
<1>2. CASE \E n \in Sizes : scull_p_iocTsize(n)
  <2>1. UNCHANGED <<dev, mem, outq, pc, call>>
    BY <1>2 DEF scull_p_iocTsize, queues
  <2> QED BY <2>1, <1>n, ContentKept, StrandedKept
<1>3. ASSUME NEW o \in Procs, NEW m \in Modes, scull_p_open(o, m)
      PROVE  Opened
  <2>1. m # Closed /\ file[o] = Closed /\ file' = [file EXCEPT ![o] = m]
    BY <1>3, ModesAssumption DEF scull_p_open, IsOpen, Closed
  <2>2. ~ IsOpen(o) /\ IsOpen(o)'
    BY <2>1 DEF IsOpen, TypeInv
  <2> QED BY <2>2 DEF Opened
<1>4. ASSUME NEW o \in Procs, scull_p_release(o)
      PROVE  Opened
  <2>1. UNCHANGED <<outq, pc, call>> /\ dev'.buffersize = dev.buffersize
    BY <1>4 DEF scull_p_release, Released, TypeInv, DevType
  <2>2. dev'.allocated # 0
    BY <1>a DEF BufferWhileOpen, TypeInv
  <2>3. /\ dev'.allocated = dev.allocated /\ mem' = mem
        /\ dev'.rp = dev.rp /\ dev'.wp = dev.wp
    BY <1>4, <2>2 DEF scull_p_release, Released, TypeInv, DevType
  <2>4. Content' = Content
    BY <2>1, <2>3 DEF Content, Wrapped
  <2> QED BY <1>n, <2>1, <2>4, StrandedKept
<1>5. ASSUME NEW o \in Procs, ReadCopy(o) \/ ReadWrap(o)
      PROVE  FALSE
  <2>1. Goto(o, "read_wrap") \/ Goto(o, "read_wake")
    BY <1>5 DEF ReadCopy, ReadWrap
  <2> QED BY <1>a, <2>1, OthersStay
<1>6. ASSUME NEW o \in Procs, WriteCopy(o)
      PROVE  FALSE
  <2>1. /\ UNCHANGED <<outq, call>> /\ pc[o] = "write_check"
        /\ Goto(o, "write_wrap")
    BY <1>6 DEF WriteCopy, queues
  <2>2. p # o /\ \A q \in Procs \ {o} : pc'[q] = pc[q]
    BY <1>a, <2>1, OthersStay
  <2>3. PICK n \in Nat : /\ dev' = [dev EXCEPT !.wp = @ + n]
                         /\ Used(dev') = Used(dev) + n
    <3>1. Len(call[o][2]) \in Nat
      BY <2>1, CallsAssumption DEF TypeInv, CallOf, WriteStates
    <3>2. PICK n \in 0 .. Len(call[o][2]) : /\ dev' = [dev EXCEPT !.wp = @ + n]
                                            /\ Used(dev') = Used(dev) + n
      BY <1>6, WriteMoves
    <3> QED BY <3>1, <3>2
  <2>4. dev'.buffersize = dev.buffersize /\ dev'.allocated = dev.allocated
    BY <2>3 DEF TypeInv, DevType
  <2>5. dev.allocated # 0
    BY <2>1 DEF BufferWhileOpen, TypeInv
  <2>6. Len(Content) = Used(dev) /\ Len(Content)' = Used(dev')
    BY <2>4, <2>5, ContentIs, ContentAfter
  <2> QED BY <1>n, <2>1, <2>2, <2>3, <2>4, <2>6, StrandedKept
<1>7. ASSUME NEW o \in Procs, WriteWrap(o)
      PROVE  FALSE
  <2>1. /\ UNCHANGED <<outq, call>> /\ pc[o] = "write_wrap"
        /\ Goto(o, "write_wake") /\ dev'.buffersize = dev.buffersize
    BY <1>7 DEF WriteWrap, queues, TypeInv, DevType
  <2>2. p # o /\ \A q \in Procs \ {o} : pc'[q] = pc[q]
    BY <1>a, <2>1, OthersStay
  <2> QED BY <1>7, <1>n, <2>1, <2>2, WrapKeepsContent, StrandedKept
<1>8. ASSUME NEW o \in Procs, Quiet(o)
      PROVE  FALSE
  <2>1. UNCHANGED dev /\ Content' = Content
    BY <1>8, QuietKeeps, ContentKept
  <2>2. \A q \in Procs : pc[q] \notin {"read_wrap", "read_wake"}
    <3>1. pc[o] # "read_wake"
      BY <1>8, <1>a, QuietOut
    <3> QED BY <1>8, <1>a, <3>1, QuietOthers, QuietKeeps DEF Wrapping
  <2>3. CASE p = o
    <3>1. spacefree(dev) = 0
      BY <1>8, <1>a, <2>3, QuietOut
    <3>2. dev.allocated # 0
      BY <1>a, <2>1 DEF BufferWhileOpen, TypeInv
    <3>3. dev.rp # dev.buffersize
      BY <2>2, <3>2 DEF PointersInv
    <3>4. Len(Content) >= dev.buffersize - 1
      BY <3>1, <3>2, <3>3, FullBuffer
    <3> QED BY <1>a, <1>n, <2>1, <3>4
  <2>4. CASE p # o
    <3>1. pc'[p] = pc[p] /\ call'[p] = call[p]
      BY <1>8, <2>4, QuietOthers
    <3>2. p \in outq
      BY <1>8, <1>a, <2>4, QuietOut
    <3> QED BY <1>n, <2>1, <2>2, <3>1, <3>2, StrandedKept
  <2> QED BY <2>3, <2>4
<1> QED BY <1>1, <1>2, <1>3, <1>4, <1>5, <1>6, <1>7, <1>8, StepCases

(* A writer does not sleep on while there is space and nobody is about to  *)
(* wake it, but for what an open does, which empties the buffer and wakes  *)
(* nobody, for any number of processes and any buffer (pipe.c:85, 162-181).*)
THEOREM StrandsCorrect == Spec => OnlyOpenStrands
<1>1. DeviceInv /\ DeviceInv' /\ [Next]_vars
        => [\A p \in Procs : ~ Stranded(p) /\ Stranded(p)'
              => \E q \in Procs : ~ IsOpen(q) /\ IsOpen(q)']_vars
  BY OpenStrands DEF Opened
<1> QED BY <1>1, DeviceInvariant, PTL DEF Spec, OnlyOpenStrands

-----------------------------------------------------------------------------
(* The device is a queue of bytes.                                         *)

(* The bytes in the buffer are bytes that were written, and no size is     *)
(* more than the first.                                                    *)
BytesInv ==
  /\ Content \in Seq(WrittenBytes)
  /\ scull_p_buffer <= BufferSize /\ dev.allocated <= BufferSize

(* A read takes the first bytes of the queue. *)
LEMMA ReadTakes ==
  ASSUME DeviceInv, DeviceInv', BytesInv, NEW p \in Procs, ReadCopy(p)
  PROVE  \E n \in 0 .. dev.buffersize - 1 :
           /\ buf'[p] \in [1 .. n -> WrittenBytes]
           /\ Content' \in Seq(WrittenBytes)
           /\ Content = buf'[p] \o Content'
<1> USE DEF DeviceInv
<1>1. PICK n \in 0 .. Used(dev) :
        /\ n = ReadCount(dev, call[p][2])
        /\ dev' = [dev EXCEPT !.rp = @ + n]
        /\ dev.rp + n <= dev.buffersize
        /\ Used(dev') = Used(dev) - n
  BY ReadMoves
<1>2. PICK s \in Nat \ {0}, r \in Nat :
        /\ dev.buffersize = s /\ dev.rp = r /\ r < s
        /\ dev'.buffersize = s /\ dev'.rp = r + n
        /\ dev'.allocated = dev.allocated
  BY <1>1, InsidePointers DEF TypeInv, DevType, ReadCopy
<1>3. dev.allocated # 0
  BY DEF BufferWhileOpen, TypeInv, ReadCopy
<1>4. /\ Used(dev) \in 0 .. s - 1
      /\ Content = [i \in 1 .. Used(dev) |-> mem[Place(dev, i)]]
  BY <1>2, <1>3, ContentIs
<1>5. PICK u \in 0 .. s - 1 : u = Used(dev) /\ n \in 0 .. u /\ r + n <= s
  BY <1>1, <1>2, <1>4
<1>6. Content' = [i \in 1 .. u - n |-> mem'[Place(dev', i)]]
  BY <1>1, <1>2, <1>3, <1>5, ContentAfter
<1>7. mem' = mem /\ buf'[p] = [i \in 1 .. n |-> mem[r + i - 1]]
  BY <1>1, <1>2 DEF ReadCopy, TypeInv
<1>8. \A i \in 1 .. n : Place(dev, i) = r + i - 1
  BY <1>2, <1>5 DEF Place, Start, Wrapped
<1>9. \A i \in 1 .. u - n : n + i \in 1 .. u /\ Place(dev', i) = Place(dev, n + i)
  BY <1>2, <1>5 DEF Place, Start, Wrapped
<1> DEFINE f == Content
           g == buf'[p]
           h == Content'
<1>10. f \in [1 .. u -> WrittenBytes]
  BY <1>4, <1>5 DEF BytesInv
<1>11. /\ \A i \in 1 .. n : g[i] = f[i]
       /\ \A i \in 1 .. u - n : h[i] = f[n + i]
  BY <1>4, <1>5, <1>6, <1>7, <1>8, <1>9
<1>12. \A i \in 1 .. n : i \in 1 .. u
  BY <1>5
<1>13. g \in [1 .. n -> WrittenBytes] /\ h \in [1 .. u - n -> WrittenBytes]
  <2>1. DOMAIN g = 1 .. n /\ DOMAIN h = 1 .. u - n
    BY <1>6, <1>7
  <2>2. \A i \in 1 .. n : g[i] \in WrittenBytes
    BY <1>10, <1>11, <1>12
  <2>3. \A i \in 1 .. u - n : h[i] \in WrittenBytes
    BY <1>9, <1>10, <1>11
  <2>4. g = [i \in 1 .. n |-> g[i]] /\ h = [i \in 1 .. u - n |-> h[i]]
    BY <1>6, <1>7
  <2> HIDE DEF g, h
  <2> QED BY <2>1, <2>2, <2>3, <2>4
<1>14. PICK k \in Nat : k = u - n /\ u = n + k /\ n \in Nat /\ u \in Nat
  BY <1>5
<1> HIDE DEF f, g, h
<1>15. f = g \o h
  <2>1. h \in [1 .. k -> WrittenBytes] /\ \A i \in 1 .. k : h[i] = f[n + i]
    BY <1>11, <1>13, <1>14
  <2>2. \A i \in 1 .. n : g[i] = f[i]
    BY <1>11
  <2>3. /\ f \in Seq(WrittenBytes) /\ Len(f) = u
        /\ g \in Seq(WrittenBytes) /\ Len(g) = n
        /\ h \in Seq(WrittenBytes) /\ Len(h) = k
    BY <1>10, <1>13, <1>14, <2>1, FunctionIsSeq
  <2>4. /\ Len(f) = Len(g) + Len(h)
        /\ \A i \in 1 .. Len(g) : g[i] = f[i]
        /\ \A i \in 1 .. Len(h) : h[i] = f[Len(g) + i]
    BY <1>14, <2>1, <2>2, <2>3
  <2> QED BY <2>3, <2>4, JoinParts, Zenon
<1>16. h \in Seq(WrittenBytes)
  BY <1>13, <1>14, FunctionIsSeq
<1>17. n \in 0 .. dev.buffersize - 1
  BY <1>2, <1>5
<1> QED BY <1>13, <1>15, <1>16, <1>17 DEF f, g, h

(* A write puts its bytes at the end of the queue. *)
LEMMA WriteAppends ==
  ASSUME DeviceInv, DeviceInv', RoomInv, BytesInv, NEW p \in Procs, WriteCopy(p)
  PROVE  \E n \in 0 .. dev.buffersize - 1 :
           /\ buf'[p] \in [1 .. n -> WrittenBytes]
           /\ Content' \in Seq(WrittenBytes)
           /\ Content' = Content \o buf'[p]
<1> USE DEF DeviceInv
<1>1. PICK d \in Seq(WrittenBytes), c \in Nat : call[p][2] = d /\ Len(d) = c
  <2>1. PICK d \in Writes : call[p] = <<"write", d>>
    BY DEF TypeInv, CallOf, WriteStates, WriteCopy
  <2> QED BY <2>1, CallsAssumption
<1>2. PICK n \in 0 .. c :
        /\ n = WriteCount(dev, c)
        /\ dev' = [dev EXCEPT !.wp = @ + n]
        /\ dev.wp + n <= dev.buffersize /\ Used(dev) + n < dev.buffersize
        /\ Used(dev') = Used(dev) + n
  BY <1>1, WriteMoves
<1>3. PICK s \in Nat \ {0}, r \in Nat, w \in Nat :
        /\ dev.buffersize = s /\ dev.rp = r /\ dev.wp = w /\ r < s /\ w < s
        /\ dev'.buffersize = s /\ dev'.rp = r /\ dev'.wp = w + n
        /\ dev'.allocated = dev.allocated
  BY <1>2, InsidePointers DEF TypeInv, DevType, WriteCopy
<1>4. dev.allocated # 0
  BY DEF BufferWhileOpen, TypeInv, WriteCopy
<1>5. PICK u \in 0 .. s - 1 :
        /\ u = Used(dev) /\ u = IF w >= r THEN w - r ELSE w - r + s
        /\ u + n < s /\ w + n <= s
  BY <1>2, <1>3, <1>4, ContentIs DEF Used, Start, Wrapped
<1>6. /\ Content = [i \in 1 .. u |-> mem[Place(dev, i)]]
      /\ \A i \in 1 .. u : Place(dev, i) \in 0 .. s - 1
  BY <1>3, <1>4, <1>5, ContentIs
<1>7. Content' = [i \in 1 .. u + n |-> mem'[Place(dev', i)]]
  BY <1>2, <1>3, <1>4, <1>5, ContentAfter
<1>8. \A i : Place(dev', i) = Place(dev, i)
  BY <1>3 DEF Place, Start, Wrapped
<1>9. /\ mem' = [i \in DOMAIN mem \cup (w .. w + n - 1) |->
                   IF i \in w .. w + n - 1 THEN d[i - w + 1] ELSE mem[i]]
      /\ buf'[p] = SubSeq(d, 1, n)
  BY <1>1, <1>2, <1>3 DEF WriteCopy, TypeInv
<1>10. 0 .. s - 1 \subseteq DOMAIN mem
  BY <1>3, <1>4 DEF RoomInv, WritesInBuffer, TypeInv, DevType
<1>11. \A i \in 1 .. u : Place(dev, i) \notin w .. w + n - 1
  <2>1. \A i : Place(dev, i) = IF r + i - 1 < s THEN r + i - 1 ELSE r + i - 1 - s
    BY <1>3 DEF Place, Start, Wrapped
  <2>2. CASE w >= r
    <3>1. \A i \in 1 .. u : r + i - 1 < s /\ r + i - 1 < w
      BY <1>3, <1>5, <2>2
    <3> TAKE i \in 1 .. u
    <3>2. Place(dev, i) = r + i - 1 /\ r + i - 1 < w
      BY <2>1, <3>1
    <3> QED BY <1>3, <3>2
  <2>3. CASE ~ (w >= r)
    <3>1. u = w - r + s /\ w + n <= r
      BY <1>3, <1>5, <2>3
    <3>2. \A i \in 1 .. u : r + i - 1 >= s => r + i - 1 - s < w
      BY <1>3, <3>1
    <3> QED BY <1>3, <2>1, <2>3, <3>1, <3>2
  <2> QED BY <2>2, <2>3
<1>12. \A i \in 1 .. n : /\ Place(dev, u + i) = w + i - 1
                         /\ u + i \in 1 .. u + n
                         /\ w + i - 1 \in w .. w + n - 1 /\ w + i - 1 - w + 1 = i
  <2>1. \A k : Place(dev, k) = IF r + k - 1 < s THEN r + k - 1 ELSE r + k - 1 - s
    BY <1>3 DEF Place, Start, Wrapped
  <2> TAKE i \in 1 .. n
  <2>2. u + i \in 1 .. u + n /\ w + i - 1 \in w .. w + n - 1
        /\ w + i - 1 - w + 1 = i
    BY <1>3, <1>5
  <2>3. CASE w >= r
    <3>1. u = w - r /\ r + (u + i) - 1 = w + i - 1 /\ w + i - 1 < s
      BY <1>3, <1>5, <2>3
    <3> QED BY <2>1, <2>2, <3>1
  <2>4. CASE ~ (w >= r)
    <3>1. /\ u = w - r + s
          /\ ~ (r + (u + i) - 1 < s) /\ r + (u + i) - 1 - s = w + i - 1
      BY <1>3, <1>5, <2>4
    <3> QED BY <2>1, <2>2, <3>1
  <2> QED BY <2>3, <2>4
<1> DEFINE f == Content'
           g == Content
           h == buf'[p]
<1>13. g \in [1 .. u -> WrittenBytes]
  BY <1>5, <1>6 DEF BytesInv
<1>14. h \in [1 .. n -> WrittenBytes] /\ \A i \in 1 .. n : h[i] = d[i]
  <2>1. \A i \in 1 .. n : i \in 1 .. c /\ d[i] \in WrittenBytes
    BY <1>1
  <2>2. h = [i \in 1 .. n |-> d[i]]
    BY <1>1, <1>9, <2>1
  <2> HIDE DEF h
  <2> QED BY <2>1, <2>2
<1>15. \A i \in 1 .. u : i \in 1 .. u + n /\ f[i] = g[i]
  <2> TAKE i \in 1 .. u
  <2>1. i \in 1 .. u + n
    BY <1>5
  <2>2. f[i] = mem'[Place(dev, i)]
    BY <1>7, <1>8, <2>1
  <2>3. mem'[Place(dev, i)] = mem[Place(dev, i)]
    BY <1>6, <1>9, <1>10, <1>11
  <2> QED BY <1>6, <2>1, <2>2, <2>3
<1>16. \A i \in 1 .. n : f[u + i] = h[i]
  <2> TAKE i \in 1 .. n
  <2>1. f[u + i] = mem'[w + i - 1]
    BY <1>7, <1>8, <1>12
  <2>2. mem'[w + i - 1] = d[i]
    BY <1>9, <1>12
  <2> QED BY <1>14, <2>1, <2>2
<1> HIDE DEF g, h
<1>17. f \in [1 .. u + n -> WrittenBytes]
  <2>1. \A j \in 1 .. u + n : f[j] \in WrittenBytes
    <3> TAKE j \in 1 .. u + n
    <3>1. CASE j <= u
      <4>1. j \in 1 .. u
        BY <3>1
      <4> QED BY <1>13, <1>15, <4>1
    <3>2. CASE ~ (j <= u)
      <4>1. j - u \in 1 .. n /\ j = u + (j - u)
        BY <1>5, <3>2
      <4>2. f[u + (j - u)] = h[j - u]
        BY <1>16, <4>1
      <4> QED BY <1>14, <4>1, <4>2
    <3> QED BY <3>1, <3>2
  <2>2. f = [j \in 1 .. u + n |-> f[j]]
    BY <1>7
  <2> HIDE DEF f
  <2> QED BY <2>1, <2>2
<1> HIDE DEF f
<1>18. PICK t \in Nat, k \in Nat, l \in Nat : k = u /\ l = n /\ t = k + l
  <2>1. u \in Nat /\ n \in Nat
    OBVIOUS
  <2> QED BY <2>1
<1>19. f = g \o h
  <2>1. /\ f \in [1 .. t -> WrittenBytes] /\ g \in [1 .. k -> WrittenBytes]
        /\ h \in [1 .. l -> WrittenBytes]
    BY <1>13, <1>14, <1>17, <1>18
  <2>2. /\ \A i \in 1 .. k : g[i] = f[i]
        /\ \A i \in 1 .. l : h[i] = f[k + i]
    BY <1>15, <1>16, <1>18
  <2>3. /\ f \in Seq(WrittenBytes) /\ Len(f) = t
        /\ g \in Seq(WrittenBytes) /\ Len(g) = k
        /\ h \in Seq(WrittenBytes) /\ Len(h) = l
    BY <2>1, FunctionIsSeq
  <2>4. /\ Len(f) = Len(g) + Len(h)
        /\ \A i \in 1 .. Len(g) : g[i] = f[i]
        /\ \A i \in 1 .. Len(h) : h[i] = f[Len(g) + i]
    BY <1>18, <2>2, <2>3
  <2> QED BY <2>3, <2>4, JoinParts, Zenon
<1>20. f \in Seq(WrittenBytes)
  BY <1>17, <1>18, FunctionIsSeq
<1>21. n \in 0 .. dev.buffersize - 1
  BY <1>3, <1>5
<1> QED BY <1>14, <1>19, <1>20, <1>21 DEF f, g, h

(* What is moved at once is a transfer. *)
LEMMA Small ==
  ASSUME DeviceInv, RoomInv, BytesInv, dev.allocated # 0,
         NEW n \in 0 .. dev.buffersize - 1, NEW f \in [1 .. n -> WrittenBytes]
  PROVE  f \in Transfers
<1>1. n \in 0 .. BufferSize - 1
  BY SizeAssumption DEF DeviceInv, TypeInv, DevType, RoomInv, BytesInv
<1> QED BY <1>1 DEF Transfers

(* Who is to be told something new. *)
LEMMA Answers ==
  ASSUME NEW p \in Procs, NEW r, Replied(p)' = r,
         \A q \in Procs \ {p} : Replied(q)' = Replied(q)
  PROVE  Queue!Answer(p, r)
BY DEF Queue!Answer

(* Nobody is to be told anything new. *)
LEMMA SameReplies ==
  ASSUME \A q \in Procs : Replied(q)' = Replied(q)
  PROVE  [q \in Procs |-> Replied(q)]' = [q \in Procs |-> Replied(q)]
OBVIOUS

(* Each step of the device is a step of the queue, or none.                *)
LEMMA QueueStep ==
  ASSUME DeviceInv, DeviceInv', RoomInv, RoomInv', BytesInv, [Next]_vars
  PROVE  [Queue!Next]_(Queue!vars) /\ (Content \in Seq(WrittenBytes))'
<1> USE DEF DeviceInv
<1> DEFINE replies == [q \in Procs |-> Replied(q)]
<1>s. ASSUME Content' = Content, \A q \in Procs : Replied(q)' = Replied(q)
      PROVE  [Queue!Next]_(Queue!vars) /\ (Content \in Seq(WrittenBytes))'
  BY <1>s, SameReplies DEF Queue!vars, BytesInv
<1>d. ASSUME Content' = <<>>, \A q \in Procs : Replied(q)' = Replied(q)
      PROVE  [Queue!Next]_(Queue!vars) /\ (Content \in Seq(WrittenBytes))'
  <2>1. replies' = replies
    BY <1>d, SameReplies
  <2>2. Queue!Discard
    BY <1>d, <2>1 DEF Queue!Discard
  <2> QED BY <1>d, <2>2 DEF Queue!Next
<1>k. ASSUME UNCHANGED <<pc, buf>>
      PROVE  \A q \in Procs : Replied(q)' = Replied(q)
  BY <1>k DEF Replied
<1>1. CASE UNCHANGED vars
  BY <1>1, <1>s, <1>k, ContentKept DEF vars
<1>2. CASE \E n \in Sizes : scull_p_iocTsize(n)
  BY <1>2, <1>s, <1>k, ContentKept DEF scull_p_iocTsize
<1>3. ASSUME NEW p \in Procs, NEW m \in Modes, scull_p_open(p, m)
      PROVE  [Queue!Next]_(Queue!vars) /\ (Content \in Seq(WrittenBytes))'
  BY <1>3, <1>d, <1>k, OpenContent DEF scull_p_open
<1>4. ASSUME NEW p \in Procs, scull_p_release(p)
      PROVE  [Queue!Next]_(Queue!vars) /\ (Content \in Seq(WrittenBytes))'
  <2>1. UNCHANGED <<pc, buf>>
    BY <1>4 DEF scull_p_release
  <2> QED BY <1>4, <1>d, <1>k, <1>s, <2>1, ReleaseContent
<1>5. ASSUME NEW p \in Procs, ReadCopy(p)
      PROVE  [Queue!Next]_(Queue!vars) /\ (Content \in Seq(WrittenBytes))'
  <2>1. PICK n \in 0 .. dev.buffersize - 1 :
          /\ buf'[p] \in [1 .. n -> WrittenBytes]
          /\ Content' \in Seq(WrittenBytes)
          /\ Content = buf'[p] \o Content'
    BY <1>5, ReadTakes
  <2>2. /\ pc[p] = "read_check" /\ pc' = [pc EXCEPT ![p] = "read_wrap"]
        /\ \A q \in Procs \ {p} : buf'[q] = buf[q]
    BY <1>5 DEF ReadCopy, Goto, TypeInv
  <2>3. buf'[p] \in Transfers
    BY <2>1, <2>2, Small DEF BufferWhileOpen, TypeInv
  <2>4. /\ Replied(p)' = <<"read", buf'[p]>>
        /\ \A q \in Procs \ {p} : Replied(q)' = Replied(q)
    BY <2>2 DEF TypeInv, Replied
  <2>5. Queue!Read(p, buf'[p])
    BY <2>1, <2>4, Answers DEF Queue!Read
  <2> QED BY <2>1, <2>3, <2>5 DEF Queue!Next
<1>6. ASSUME NEW p \in Procs, WriteCopy(p)
      PROVE  [Queue!Next]_(Queue!vars) /\ (Content \in Seq(WrittenBytes))'
  <2>1. PICK n \in 0 .. dev.buffersize - 1 :
          /\ buf'[p] \in [1 .. n -> WrittenBytes]
          /\ Content' \in Seq(WrittenBytes)
          /\ Content' = Content \o buf'[p]
    BY <1>6, WriteAppends
  <2>2. /\ pc[p] = "write_check" /\ pc' = [pc EXCEPT ![p] = "write_wrap"]
        /\ \A q \in Procs \ {p} : buf'[q] = buf[q]
    BY <1>6 DEF WriteCopy, Goto, TypeInv
  <2>3. buf'[p] \in Transfers
    BY <2>1, <2>2, Small DEF BufferWhileOpen, TypeInv
  <2>4. /\ Replied(p)' = <<"write", buf'[p]>>
        /\ \A q \in Procs \ {p} : Replied(q)' = Replied(q)
    BY <2>2 DEF TypeInv, Replied
  <2>5. Queue!Write(p, buf'[p])
    BY <2>1, <2>4, Answers DEF Queue!Write
  <2> QED BY <2>1, <2>3, <2>5 DEF Queue!Next
<1>7. ASSUME NEW p \in Procs, ReadWrap(p) \/ WriteWrap(p)
      PROVE  [Queue!Next]_(Queue!vars) /\ (Content \in Seq(WrittenBytes))'
  <2>1. /\ buf' = buf
        /\ \/ pc[p] = "read_wrap" /\ pc' = [pc EXCEPT ![p] = "read_wake"]
           \/ pc[p] = "write_wrap" /\ pc' = [pc EXCEPT ![p] = "write_wake"]
    BY <1>7 DEF ReadWrap, WriteWrap, Goto
  <2>2. \A q \in Procs : Replied(q)' = Replied(q)
    BY <2>1 DEF Replied, TypeInv
  <2> QED BY <1>7, <1>s, <2>2, WrapKeepsContent
<1>8. ASSUME NEW p \in Procs, Quiet(p)
      PROVE  [Queue!Next]_(Queue!vars) /\ (Content \in Seq(WrittenBytes))'
  <2>1. Content' = Content
    BY <1>8, QuietKeeps, ContentKept
  <2>2. /\ Replied(p)' = <<>>
        /\ \A q \in Procs \ {p} : Replied(q)' = Replied(q)
    BY <1>8, QuietOthers DEF Replied, Answering
  <2>3. CASE Replied(p) = <<>>
    BY <1>s, <2>1, <2>2, <2>3
  <2>4. CASE Replied(p) # <<>>
    <3>1. replies[p] # <<>>
      BY <2>4
    <3>2. Queue!Answer(p, <<>>)
      BY <2>2, Answers
    <3>3. Queue!Return(p)
      BY <2>1, <3>1, <3>2 DEF Queue!Return
    <3> QED BY <2>1, <3>3 DEF Queue!Next, BytesInv
  <2> QED BY <2>3, <2>4
<1> QED BY <1>1, <1>2, <1>3, <1>4, <1>5, <1>6, <1>7, <1>8, StepCases

(* The buffer is never larger than at first. *)
LEMMA SizesKept ==
  ASSUME DeviceInv, BytesInv, [Next]_vars,
         scull_p_buffer' <= scull_p_buffer \/ UNCHANGED vars
  PROVE  scull_p_buffer' <= BufferSize /\ dev'.allocated <= BufferSize
<1>1. /\ scull_p_buffer \in Nat /\ scull_p_buffer' \in Nat /\ BufferSize \in Nat
      /\ dev.allocated \in Nat
  BY SizeAssumption, TypesKept DEF DeviceInv, TypeInv, DevType
<1>2. scull_p_buffer' <= BufferSize
  BY <1>1 DEF BytesInv, vars
<1>3. \/ dev'.allocated \in {0, dev.allocated}
      \/ dev.allocated = 0 /\ dev'.allocated = scull_p_buffer
  <2> USE DEF DeviceInv, TypeInv, DevType
  <2>1. CASE UNCHANGED vars \/ \E n \in Sizes : scull_p_iocTsize(n)
    BY <2>1 DEF vars, scull_p_iocTsize
  <2>2. ASSUME NEW p \in Procs, NEW m \in Modes, scull_p_open(p, m)
        PROVE  \/ dev'.allocated = dev.allocated
               \/ dev.allocated = 0 /\ dev'.allocated = scull_p_buffer
    BY <2>2 DEF scull_p_open
  <2>3. ASSUME NEW p \in Procs, scull_p_release(p)
        PROVE  dev'.allocated \in {0, dev.allocated}
    BY <2>3 DEF scull_p_release, Released
  <2>4. ASSUME NEW p \in Procs, ReadCopy(p) \/ ReadWrap(p)
        PROVE  dev'.allocated = dev.allocated
    BY <2>4 DEF ReadCopy, ReadWrap
  <2>5. ASSUME NEW p \in Procs, WriteCopy(p) \/ WriteWrap(p)
        PROVE  dev'.allocated = dev.allocated
    BY <2>5 DEF WriteCopy, WriteWrap
  <2>6. ASSUME NEW p \in Procs, Quiet(p)
        PROVE  dev' = dev
    BY <2>6, QuietKeeps
  <2> QED BY <2>1, <2>2, <2>3, <2>4, <2>5, <2>6, StepCases
<1> QED BY <1>1, <1>2, <1>3 DEF BytesInv

(* The queue holds bytes that were written. *)
LEMMA BytesKept ==
  ASSUME DeviceInv, DeviceInv', RoomInv, RoomInv', BytesInv, [Next]_vars,
         [scull_p_buffer' <= scull_p_buffer]_vars
  PROVE  BytesInv'
<1>1. (Content \in Seq(WrittenBytes))'
  BY QueueStep
<1>2. scull_p_buffer' <= BufferSize /\ dev'.allocated <= BufferSize
  BY SizesKept
<1> QED BY <1>1, <1>2 DEF BytesInv

(* While the parameter only shrinks, the device is a queue of bytes: each  *)
(* write puts what it was told it wrote at the end, each read takes what   *)
(* it returns from the front, at one instant, for any number of readers    *)
(* and writers, any buffer and wherever the pointers wrap, and only an     *)
(* open or a release discards what is in it (pipe.c:75-91, 106-113,        *)
(* 120-224).                                                               *)
THEOREM QueueCorrect == Spec /\ OnlyShrinks => ImplementsQueue
<1>1. Init => BytesInv /\ Queue!Init
  <2>1. ASSUME Init PROVE Content = <<>> /\ \A p \in Procs : Replied(p) = <<>>
    BY <2>1, NothingAllocated DEF Init, Replied
  <2> QED BY <2>1, SizeAssumption DEF Init, BytesInv, Queue!Init
<1>2. DeviceInv /\ DeviceInv' /\ RoomInv /\ RoomInv' /\ BytesInv /\ [Next]_vars
      /\ [scull_p_buffer' <= scull_p_buffer]_vars => BytesInv'
  BY BytesKept
<1>3. DeviceInv /\ DeviceInv' /\ RoomInv /\ RoomInv' /\ BytesInv /\ [Next]_vars
        => [Queue!Next]_(Queue!vars)
  BY QueueStep
<1> QED BY <1>1, <1>2, <1>3, DeviceInvariant, RoomInvariant, PTL
        DEF Spec, OnlyShrinks, ImplementsQueue, Queue!Spec

-----------------------------------------------------------------------------
(***************************************************************************)
(* The access-controlled devices.                                          *)
(***************************************************************************)
P == INSTANCE ScullAccessProofs WITH
  Procs <- Callers, scull_s_available <- ac_s_available, scull_u <- ac_u,
  scull_w <- ac_w, scull_w_wait <- ac_w_wait, scull_c_list <- ac_c_list,
  scull_c_lock <- ac_c_lock, lock <- ac_lock, pc <- ac_pc, file <- ac_file

(* Ac and P are the same module.                                           *)
LEMMA AccessSame ==
  /\ Ac!Init <=> P!Init
  /\ Ac!Next <=> P!Next
<1>1. Ac!Init <=> P!Init
  BY DEF Ac!Init, P!Init, Ac!Devs, P!Devs, Ac!NoFile, P!NoFile, Ac!Kinds, P!Kinds
<1>2. Ac!Next <=> P!Next
  BY DEF Ac!Next, P!Next, Ac!Kinds, P!Kinds, Ac!NoFile, P!NoFile, Ac!Goto, P!Goto, 
   Ac!Refused, P!Refused, Ac!Granted, P!Granted, Ac!open, P!open,
   Ac!scull_trim, P!scull_trim, Ac!BeginUse, P!BeginUse, Ac!EndUse, P!EndUse,
   Ac!Closing, P!Closing, Ac!scull_s_open, P!scull_s_open, Ac!scull_s_busy, P!scull_s_busy,
   Ac!scull_s_release, P!scull_s_release, Ac!Allowed, P!Allowed, Ac!Grabbed, P!Grabbed,
   Ac!scull_u_open, P!scull_u_open, Ac!scull_u_release, P!scull_u_release,
   Ac!WaitUnchanged, P!WaitUnchanged, Ac!scull_w_available, P!scull_w_available,
   Ac!scull_w_open, P!scull_w_open, Ac!WaitPrepare, P!WaitPrepare,
   Ac!WaitTest, P!WaitTest, Ac!Woken, P!Woken, Ac!Interrupted, P!Interrupted,
   Ac!scull_w_release, P!scull_w_release, Ac!Wake, P!Wake,
   Ac!CloneUnchanged, P!CloneUnchanged, Ac!HasDevice, P!HasDevice,
   Ac!scull_c_open, P!scull_c_open, Ac!scull_c_lookfor_device, P!scull_c_lookfor_device,
   Ac!scull_c_release, P!scull_c_release, Ac!scull_access_cleanup, P!scull_access_cleanup
<1> QED BY <1>1, <1>2
-----------------------------------------------------------------------------
(* A step of the composition is one of a component, or does not change it. *)
LEMMA StepOfOne ==
  ASSUME [DevicesNext]_<<system, vars, others>>
  PROVE  /\ [Next]_vars
         /\ [Ac!Next]_access_vars
         /\ [Tt!Next]_tty_vars
         /\ [Ex!Next]_exec_vars
         /\ [Jq!Next]_jiq_vars
         /\ [Jt!Next]_jit_vars
BY DEF DevicesNext, OnlyMoves, AccessNext, JiqNext, Stopped, others

(* What the composition does is, for each component, what it does alone.   *)
THEOREM ComponentsAlone ==
  DevicesSpec => Spec /\ Ac!Spec /\ Tt!Spec /\ Ex!Spec /\ Jq!Spec /\ Jt!Spec
<1>1. DevicesInit => Init /\ Ac!Init /\ Tt!Init /\ Ex!Init /\ Jq!Init /\ Jt!Init
  BY DEF DevicesInit
<1>2. [DevicesNext]_<<system, vars, others>> =>
        /\ [Next]_vars
        /\ [Ac!Next]_(Ac!vars)
        /\ [Tt!Next]_(Tt!vars)
        /\ [Ex!Next]_(Ex!vars)
        /\ [Jq!Next]_(Jq!vars)
        /\ [Jt!Next]_(Jt!vars)
  BY StepOfOne
  DEF access_vars, tty_vars, exec_vars, jiq_vars, jit_vars, Ac!vars, Tt!vars, Ex!vars,
      Jq!vars, Jt!vars
<1> QED
  BY <1>1, <1>2, PTL DEF DevicesSpec, Spec, Ac!Spec, Tt!Spec, Ex!Spec, Jq!Spec, Jt!Spec

(* Ac is P.                                                                *)
LEMMA AccessSpecSame == DevicesSpec => P!Spec
<1>1. Ac!Init => P!Init
  BY AccessSame
<1>2. [Ac!Next]_(Ac!vars) => [P!Next]_(P!vars)
  BY AccessSame DEF Ac!vars, P!vars
<1> QED BY <1>1, <1>2, ComponentsAlone, PTL DEF Ac!Spec, P!Spec

(* What ScullAccessProofs assumes of its constants.                        *)
LEMMA AccessConstants == NoProc \notin Callers /\ P!IsFiniteSet(Callers)
BY UsersAssumption DEF IsFiniteSet, P!IsFiniteSet

(* The two instances count alike.                                          *)
LEMMA SameCount == \A S : P!Cardinality(S) = Ac!Cardinality(S)
BY DEF P!Cardinality, Ac!Cardinality

(* TypesOK: the types, who is inside the pipe's mutex (pipe.c:120-224),    *)
(* and the counts of openers (access.c:110, 133).                          *)
THEOREM TypesCorrect == DevicesSpec => []TypesOK
<1>1. P!TypeOK => Ac!TypeOK
  BY SameCount
  DEF P!TypeOK, Ac!TypeOK, P!Openers, Ac!Openers, P!States, Ac!States, P!Kinds,
      Ac!Kinds, P!NoFile, Ac!NoFile, P!Devs, Ac!Devs
<1> QED
  BY <1>1, ComponentsAlone, TypeCorrect, AccessSpecSame, P!TypeCorrect, AccessConstants, PTL DEF TypesOK

(* SingleOpen: scullsingle is open at most once, and can be opened again   *)
(* once all are done with it (access.c:59-73), for every number of         *)
(* callers.                                                                *)
THEOREM SingleOpenCorrect == DevicesSpec => []SingleOpen
<1>1. P!SingleOpen => Ac!SingleOpen
  BY SameCount DEF P!SingleOpen, Ac!SingleOpen, P!Openers, Ac!Openers
<1> QED BY <1>1, AccessSpecSame, P!SingleCorrect, AccessConstants, PTL DEF SingleOpen

(* OneUser: who has sculluid or scullwuid open is root or, by uid or euid, *)
(* the user who opened it when it was free (access.c:94-128, 165-196).     *)
THEOREM OneUserAtATime == DevicesSpec => []OneUser
<1>1. P!OneUser => Ac!OneUser
  BY DEF P!OneUser, Ac!OneUser, P!Openers, Ac!Openers, P!Allowed, Ac!Allowed
<1> QED BY <1>1, AccessSpecSame, P!OneUserCorrect, AccessConstants, PTL DEF OneUser

(* WaitersWoken: whoever sleeps in the open of scullwuid while he might    *)
(* open it will be woken (access.c:182, 207-208).                          *)
THEOREM AllWaitersWoken == DevicesSpec => []WaitersWoken
<1>1. P!WaitersWoken => Ac!WaitersWoken
  BY DEF P!WaitersWoken, Ac!WaitersWoken, P!scull_w_available, Ac!scull_w_available,
         P!Allowed, Ac!Allowed
<1> QED BY <1>1, AccessSpecSame, P!WaitersCorrect, AccessConstants, PTL DEF WaitersWoken

(* OneDevicePerTty: two opens of scullpriv from one terminal find the same *)
(* device, though each may have to allocate it (access.c:250-284).         *)
THEOREM OneDeviceForAll == DevicesSpec => []OneDevicePerTty
<1>1. P!OneDevicePerTty => Ac!OneDevicePerTty
  BY DEF P!OneDevicePerTty, Ac!OneDevicePerTty
<1> QED BY <1>1, AccessSpecSame, P!OneDeviceCorrect, AccessConstants, PTL DEF OneDevicePerTty
-----------------------------------------------------------------------------
(***************************************************************************)
(* jit.                                                                    *)
(***************************************************************************)
JitReading == {"prepare", "test", "sleep", "filled"}

JitTypes ==
  /\ jt_data \in [Blocks -> [there : BOOLEAN, loops : Int, m : Users \cup {NoProc},
                          waits : BOOLEAN]]
  /\ jt_item \in [Blocks -> {"idle", "pending", "wake"}]
  /\ jt_pc \in [Users -> {"closed", "open"} \cup JitReading]
  /\ jt_block \in [Users -> Blocks \cup {NoBlock}]

(* Who reads has a block, his own, that is allocated.                      *)
JitBlocked ==
  \A p \in Users :
    /\ jt_pc[p] \in JitReading <=> jt_block[p] # NoBlock
    /\ jt_block[p] # NoBlock => jt_data[jt_block[p]].there
    /\ \A q \in Users : jt_block[p] = jt_block[q] /\ jt_block[p] # NoBlock => p = q

(* While the item is started there are lines left, and the data is there;  *)
(* afterwards there are none.                                              *)
JitStarted ==
  \A b \in Blocks :
    /\ jt_item[b] = "pending" => jt_data[b].there /\ jt_data[b].loops > 0
    /\ jt_data[b].there /\ jt_item[b] # "pending" => jt_data[b].loops = 0

(* Who has found the lines printed may free the data.                      *)
JitFilled ==
  \A p \in Users : jt_pc[p] = "filled" => jt_data[jt_block[p]].loops = 0

(* Who sleeps and was not woken yet, will be.                              *)
JitWoken ==
  \A p \in Users :
    jt_pc[p] = "sleep" /\ jt_data[jt_block[p]].waits => jt_item[jt_block[p]] # "idle"

JitInv == JitTypes /\ JitBlocked /\ JitStarted /\ JitFilled /\ JitWoken

(* The invariant, initially.                                               *)
LEMMA JitInit == ASSUME Jt!Init PROVE JitInv
BY JitAssumption
DEF Jt!Init, Jt!Free, JitInv, JitTypes, JitBlocked, JitStarted, JitFilled,
    JitWoken, JitReading

(* Changing the data of one block.                                         *)
LEMMA JitDataMoved ==
  ASSUME JitTypes, NEW b \in Blocks, NEW d,
         d \in [there : BOOLEAN, loops : Int, m : Users \cup {NoProc}, waits : BOOLEAN],
         jt_data' = [jt_data EXCEPT ![b] = d]
  PROVE  /\ jt_data' \in [Blocks -> [there : BOOLEAN, loops : Int,
                                  m : Users \cup {NoProc}, waits : BOOLEAN]]
         /\ jt_data'[b] = d
         /\ \A c \in Blocks \ {b} : jt_data'[c] = jt_data[c]
BY DEF JitTypes
(* Each step of a reader keeps the invariant.                              *)
LEMMA JitReaderStep ==
  ASSUME JitInv, NEW p \in Users,
         \/ Jt!open(p) \/ Jt!release(p) \/ \E b \in Blocks : Jt!show(p, b)
         \/ Jt!Prepare(p) \/ Jt!Test(p) \/ Jt!Woken(p) \/ Jt!Interrupted(p) \/ Jt!Returns(p)
  PROVE  JitInv'
<1> USE DEF JitInv, JitReading
<1>1. CASE Jt!open(p)
  BY <1>1 DEF Jt!open, Jt!Goto, JitTypes, JitBlocked, JitStarted, JitFilled, JitWoken
<1>2. CASE Jt!release(p)
  <2>1. /\ jt_pc' = [jt_pc EXCEPT ![p] = "closed"] /\ jt_pc[p] = "open"
        /\ UNCHANGED <<jt_item, jt_oops, jt_block>>
    BY <1>2 DEF Jt!release, Jt!Goto
  <2>2. \A b \in Blocks : /\ jt_data'[b].there = jt_data[b].there
                          /\ jt_data'[b].loops = jt_data[b].loops
                          /\ jt_data'[b].waits = jt_data[b].waits
                          /\ jt_data'[b].m \in Users \cup {NoProc}
    BY <1>2 DEF Jt!release, JitTypes
  <2>3. jt_data' \in [Blocks -> [there : BOOLEAN, loops : Int,
                              m : Users \cup {NoProc}, waits : BOOLEAN]]
    BY <1>2 DEF Jt!release, JitTypes
  <2>4. \A q \in Users : jt_pc'[q] \in JitReading => jt_pc[q] = jt_pc'[q]
    BY <2>1 DEF JitTypes
  <2>5. \A q \in Users : jt_pc'[q] \in JitReading <=> jt_pc[q] \in JitReading
    BY <2>1 DEF JitTypes
  <2>6. JitTypes'
    BY <2>1, <2>3 DEF JitTypes
  <2>7. \A q \in Users : jt_pc[q] \in JitReading => jt_block[q] \in Blocks
    BY DEF JitBlocked, JitTypes
  <2>8. JitBlocked'
    BY <2>1, <2>2, <2>5, <2>7 DEF JitBlocked
  <2>9. JitStarted'
    BY <2>1, <2>2 DEF JitStarted
  <2>10. JitFilled' /\ JitWoken'
    BY <2>1, <2>2, <2>4, <2>7 DEF JitFilled, JitWoken
  <2> QED BY <2>6, <2>8, <2>9, <2>10
<1>3. ASSUME NEW b \in Blocks, Jt!show(p, b) PROVE JitInv'
  <2> DEFINE d == [there |-> TRUE, loops |-> JIT_ASYNC_LOOPS, m |-> p, waits |-> FALSE]
  <2>1. /\ jt_pc[p] = "open" /\ ~ jt_data[b].there /\ jt_item[b] = "idle"
        /\ jt_data' = [jt_data EXCEPT ![b] = d]
        /\ jt_item' = [jt_item EXCEPT ![b] = "pending"]
        /\ jt_block' = [jt_block EXCEPT ![p] = b]
        /\ jt_pc' = [jt_pc EXCEPT ![p] = "prepare"]
    BY <1>3 DEF Jt!show, Jt!Goto, Jt!Filling
  <2>2. d \in [there : BOOLEAN, loops : Int, m : Users \cup {NoProc}, waits : BOOLEAN]
        /\ d.there /\ d.loops > 0
    BY JitAssumption
  <2> HIDE DEF d
  <2>3. /\ jt_data' \in [Blocks -> [there : BOOLEAN, loops : Int,
                                 m : Users \cup {NoProc}, waits : BOOLEAN]]
        /\ jt_data'[b] = d /\ \A c \in Blocks \ {b} : jt_data'[c] = jt_data[c]
    BY <2>1, <2>2, JitDataMoved
  <2>4. \A q \in Users : jt_block[q] # b
    BY <2>1, JitAssumption DEF JitBlocked
  <2>5. JitTypes'
    BY <2>1, <2>3 DEF JitTypes
  <2>6. \A q \in Users \ {p} : jt_pc'[q] = jt_pc[q] /\ jt_block'[q] = jt_block[q]
    BY <2>1 DEF JitTypes
  <2>7. jt_pc'[p] = "prepare" /\ jt_block'[p] = b /\ b # NoBlock
    BY <2>1, JitAssumption DEF JitTypes
  <2>8. \A c \in Blocks \ {b} : jt_item'[c] = jt_item[c]
    BY <2>1 DEF JitTypes
  <2>9. jt_item'[b] = "pending"
    BY <2>1 DEF JitTypes
  <2>10. JitBlocked'
    BY <2>2, <2>3, <2>4, <2>6, <2>7 DEF JitBlocked, JitTypes
  <2>11. JitStarted'
    BY <2>2, <2>3, <2>8, <2>9 DEF JitStarted
  <2>12. JitFilled' /\ JitWoken'
    BY <2>3, <2>4, <2>6, <2>7, <2>8 DEF JitFilled, JitWoken, JitBlocked, JitTypes
  <2> QED BY <2>5, <2>10, <2>11, <2>12
<1>4. CASE Jt!Prepare(p)
  <2> DEFINE b == jt_block[p]
  <2>1. /\ jt_pc[p] = "prepare" /\ b \in Blocks
        /\ jt_data' = [jt_data EXCEPT ![b] = [jt_data[b] EXCEPT !.waits = TRUE]]
        /\ jt_pc' = [jt_pc EXCEPT ![p] = "test"] /\ UNCHANGED <<jt_item, jt_block>>
    BY <1>4 DEF Jt!Prepare, Jt!Goto, JitBlocked, JitTypes
  <2>2. /\ jt_data' \in [Blocks -> [there : BOOLEAN, loops : Int,
                                 m : Users \cup {NoProc}, waits : BOOLEAN]]
        /\ \A c \in Blocks : /\ jt_data'[c].there = jt_data[c].there
                             /\ jt_data'[c].loops = jt_data[c].loops
        /\ \A c \in Blocks \ {b} : jt_data'[c] = jt_data[c]
    BY <2>1 DEF JitTypes
  <2>3. \A q \in Users \ {p} : jt_pc'[q] = jt_pc[q] /\ jt_block[q] # b
    BY <2>1 DEF JitTypes, JitBlocked
  <2>4. jt_pc'[p] = "test" /\ JitTypes'
    BY <2>1, <2>2 DEF JitTypes
  <2>5. \A q \in Users : jt_block[q] # NoBlock => jt_block[q] \in Blocks
    BY DEF JitTypes
  <2>6. JitBlocked' 
    BY <2>1, <2>2, <2>3, <2>4, <2>5 DEF JitBlocked
  <2>7. JitStarted'
    BY <2>1, <2>2 DEF JitStarted
  <2>8. JitFilled' /\ JitWoken'
    BY <2>1, <2>2, <2>3, <2>4, <2>5 DEF JitFilled, JitWoken, JitBlocked
  <2> QED BY <2>4, <2>6, <2>7, <2>8
<1>5. CASE Jt!Test(p)
  <2>1. /\ jt_pc[p] = "test" /\ jt_block[p] \in Blocks /\ UNCHANGED <<jt_data, jt_item, jt_block>>
        /\ jt_pc' = [jt_pc EXCEPT ![p] = IF jt_data[jt_block[p]].loops = 0 THEN "filled"
                                                                   ELSE "sleep"]
    BY <1>5 DEF Jt!Test, Jt!Goto, Jt!Filled, JitBlocked, JitTypes
  <2>2. jt_data[jt_block[p]].loops # 0 => jt_item[jt_block[p]] = "pending"
    BY <2>1 DEF JitStarted, JitBlocked
  <2> QED BY <2>1, <2>2 DEF JitTypes, JitBlocked, JitStarted, JitFilled, JitWoken
<1>6. CASE Jt!Woken(p)
  BY <1>6 DEF Jt!Woken, Jt!Goto, JitTypes, JitBlocked, JitStarted, JitFilled, JitWoken
<1>7. CASE Jt!Interrupted(p)
  <2> DEFINE b == jt_block[p]
  <2>1. /\ jt_pc[p] \in {"sleep", "filled"} /\ b \in Blocks
        /\ jt_data' = [jt_data EXCEPT ![b] = [jt_data[b] EXCEPT !.waits = FALSE]]
        /\ jt_pc' = [jt_pc EXCEPT ![p] = "open"]
        /\ jt_block' = [jt_block EXCEPT ![p] = NoBlock] /\ UNCHANGED jt_item
    BY <1>7 DEF Jt!Interrupted, Jt!Goto, JitBlocked, JitTypes
  <2>2. /\ jt_data' \in [Blocks -> [there : BOOLEAN, loops : Int,
                                 m : Users \cup {NoProc}, waits : BOOLEAN]]
        /\ \A c \in Blocks : /\ jt_data'[c].there = jt_data[c].there
                             /\ jt_data'[c].loops = jt_data[c].loops
        /\ \A c \in Blocks \ {b} : jt_data'[c] = jt_data[c]
    BY <2>1, ZenonT(60) DEF JitTypes
  <2>3. \A q \in Users \ {p} : jt_pc'[q] = jt_pc[q] /\ jt_block'[q] = jt_block[q] /\ jt_block[q] # b
    BY <2>1 DEF JitTypes, JitBlocked
  <2>4. jt_pc'[p] = "open" /\ jt_block'[p] = NoBlock /\ JitTypes'
    BY <2>1, <2>2 DEF JitTypes
  <2>5. \A q \in Users : jt_block[q] # NoBlock => jt_block[q] \in Blocks
    BY DEF JitTypes
  <2>6. JitBlocked'
    BY <2>1, <2>2, <2>3, <2>4, <2>5 DEF JitBlocked
  <2>7. JitStarted'
    BY <2>1, <2>2 DEF JitStarted
  <2>8. JitFilled' /\ JitWoken'
    BY <2>1, <2>2, <2>3, <2>4, <2>5 DEF JitFilled, JitWoken, JitBlocked
  <2> QED BY <2>4, <2>6, <2>7, <2>8
<1>8. CASE Jt!Returns(p)
  <2> DEFINE b == jt_block[p]
  <2>1. /\ jt_pc[p] = "filled" /\ b \in Blocks
        /\ jt_data' = [jt_data EXCEPT ![b] = Jt!Free]
        /\ jt_pc' = [jt_pc EXCEPT ![p] = "open"]
        /\ jt_block' = [jt_block EXCEPT ![p] = NoBlock] /\ UNCHANGED jt_item
    BY <1>8 DEF Jt!Returns, Jt!Goto, JitBlocked, JitTypes
  <2>2. /\ jt_data' \in [Blocks -> [there : BOOLEAN, loops : Int,
                                 m : Users \cup {NoProc}, waits : BOOLEAN]]
        /\ ~ jt_data'[b].there
        /\ \A c \in Blocks \ {b} : jt_data'[c] = jt_data[c]
    BY <2>1 DEF JitTypes, Jt!Free
  <2>3. \A q \in Users \ {p} : jt_pc'[q] = jt_pc[q] /\ jt_block'[q] = jt_block[q] /\ jt_block[q] # b
    BY <2>1 DEF JitTypes, JitBlocked
  <2>4. jt_pc'[p] = "open" /\ jt_block'[p] = NoBlock /\ JitTypes'
    BY <2>1, <2>2 DEF JitTypes
  <2>5. \A q \in Users : jt_block[q] # NoBlock => jt_block[q] \in Blocks
    BY DEF JitTypes
  <2>6. jt_item[b] # "pending"
    BY <2>1 DEF JitFilled, JitStarted
  <2>7. JitBlocked'
    BY <2>1, <2>2, <2>3, <2>4, <2>5 DEF JitBlocked
  <2>8. JitStarted'
    BY <2>1, <2>2, <2>6 DEF JitStarted
  <2>9. JitFilled' /\ JitWoken'
    BY <2>1, <2>2, <2>3, <2>4, <2>5 DEF JitFilled, JitWoken, JitBlocked
  <2> QED BY <2>4, <2>7, <2>8, <2>9
<1> QED BY <1>1, <1>2, <1>3, <1>4, <1>5, <1>6, <1>7, <1>8
(* Each step of an item keeps the invariant.                               *)
LEMMA JitItemStep ==
  ASSUME JitInv, NEW b \in Blocks, Jt!Fn(b) \/ Jt!FnWakes(b)
  PROVE  JitInv'
<1> USE DEF JitInv, JitReading
<1>1. UNCHANGED <<jt_pc, jt_block>>
  BY DEF Jt!Fn, Jt!FnWakes
<1>2. \A q \in Users : jt_block[q] # NoBlock => jt_block[q] \in Blocks
  BY DEF JitTypes
<1>3. CASE Jt!Fn(b)
  <2>1. /\ jt_item[b] = "pending" /\ jt_data[b].there /\ jt_data[b].loops > 0
        /\ jt_data[b].loops \in Int
    BY <1>3 DEF Jt!Fn, JitStarted, JitTypes
  <2> DEFINE d == [jt_data[b] EXCEPT !.loops = jt_data[b].loops - 1]
  <2>2. /\ jt_data' = [jt_data EXCEPT ![b] = d]
        /\ jt_item' = [jt_item EXCEPT ![b] = IF jt_data[b].loops > 1 THEN "pending" ELSE "wake"]
    BY <1>3 DEF Jt!Fn, Jt!Goes, JitTypes
  <2>3. /\ d \in [there : BOOLEAN, loops : Int, m : Users \cup {NoProc}, waits : BOOLEAN]
        /\ d.there /\ d.loops = jt_data[b].loops - 1 /\ d.waits = jt_data[b].waits
    BY <2>1 DEF JitTypes
  <2> HIDE DEF d
  <2>4. /\ jt_data' \in [Blocks -> [there : BOOLEAN, loops : Int,
                                 m : Users \cup {NoProc}, waits : BOOLEAN]]
        /\ jt_data'[b] = d /\ \A c \in Blocks \ {b} : jt_data'[c] = jt_data[c]
    BY <2>2, <2>3, JitDataMoved
  <2>5. /\ jt_item' \in [Blocks -> {"idle", "pending", "wake"}]
        /\ jt_item'[b] = IF jt_data[b].loops > 1 THEN "pending" ELSE "wake"
        /\ \A c \in Blocks \ {b} : jt_item'[c] = jt_item[c]
    BY <2>2 DEF JitTypes
  <2>6. JitTypes'
    BY <1>1, <2>4, <2>5 DEF JitTypes
  <2>7. JitBlocked'
    BY <1>1, <1>2, <2>3, <2>4 DEF JitBlocked
  <2>8. JitStarted'
    <3>1. CASE jt_data[b].loops > 1
      BY <2>1, <2>3, <2>4, <2>5, <3>1 DEF JitStarted
    <3>2. CASE ~ (jt_data[b].loops > 1)
      <4>1. jt_data[b].loops - 1 = 0
        BY <2>1, <3>2
      <4> QED BY <2>3, <2>4, <2>5, <3>2, <4>1 DEF JitStarted
    <3> QED BY <3>1, <3>2
  <2>9. ASSUME NEW q \in Users, jt_pc[q] = "filled" PROVE jt_block[q] # b
    BY <2>1, <2>9 DEF JitFilled
  <2>10. JitFilled'
    BY <1>1, <1>2, <2>4, <2>9 DEF JitFilled, JitBlocked
  <2>11. JitWoken'
    BY <1>1, <1>2, <2>3, <2>4, <2>5 DEF JitWoken, JitBlocked
  <2> QED BY <2>6, <2>7, <2>8, <2>10, <2>11
<1>4. CASE Jt!FnWakes(b)
  <2> DEFINE d == [jt_data[b] EXCEPT !.waits = FALSE]
  <2>1. /\ jt_item[b] = "wake" /\ jt_data' = [jt_data EXCEPT ![b] = d]
        /\ jt_item' = [jt_item EXCEPT ![b] = "idle"]
    BY <1>4 DEF Jt!FnWakes, JitTypes
  <2>2. /\ d \in [there : BOOLEAN, loops : Int, m : Users \cup {NoProc}, waits : BOOLEAN]
        /\ d.there = jt_data[b].there /\ d.loops = jt_data[b].loops /\ ~ d.waits
    BY DEF JitTypes
  <2> HIDE DEF d
  <2>3. /\ jt_data' \in [Blocks -> [there : BOOLEAN, loops : Int,
                                 m : Users \cup {NoProc}, waits : BOOLEAN]]
        /\ jt_data'[b] = d /\ \A c \in Blocks \ {b} : jt_data'[c] = jt_data[c]
    BY <2>1, <2>2, JitDataMoved
  <2>4. /\ jt_item' \in [Blocks -> {"idle", "pending", "wake"}]
        /\ jt_item'[b] = "idle" /\ \A c \in Blocks \ {b} : jt_item'[c] = jt_item[c]
    BY <2>1 DEF JitTypes
  <2>5. JitTypes'
    BY <1>1, <2>3, <2>4 DEF JitTypes
  <2>6. JitBlocked'
    BY <1>1, <1>2, <2>2, <2>3 DEF JitBlocked
  <2>7. JitStarted'
    BY <2>1, <2>2, <2>3, <2>4 DEF JitStarted
  <2>8. JitFilled'
    BY <1>1, <1>2, <2>2, <2>3 DEF JitFilled, JitBlocked
  <2>9. JitWoken'
    BY <1>1, <1>2, <2>2, <2>3, <2>4 DEF JitWoken, JitBlocked
  <2> QED BY <2>5, <2>6, <2>7, <2>8, <2>9
<1> QED BY <1>3, <1>4

(* LinesBeforeFree of jit: who sleeps for the lines will be woken, who     *)
(* returns has all of them, and the data is freed only when no line is     *)
(* left to print (jit.c:191-197, 228-232), for every number of readers,    *)
(* blocks and lines.                                                       *)
THEOREM LinesCorrect == DevicesSpec => []LinesBeforeFree
<1>1. Jt!Init => JitInv
  BY JitInit
<1>2. JitInv /\ [Jt!Next]_jit_vars => JitInv'
  <2>1. CASE Jt!Next
    BY <2>1, JitReaderStep, JitItemStep DEF Jt!Next
  <2>2. CASE UNCHANGED jit_vars
    BY <2>2 DEF jit_vars, JitInv, JitTypes, JitBlocked, JitStarted, JitFilled, JitWoken
  <2> QED BY <2>1, <2>2
<1>3. JitInv => Jt!LinesBeforeFree
  <2> SUFFICES ASSUME JitInv PROVE Jt!LinesBeforeFree
    OBVIOUS
  <2>1. \A p \in Users : jt_pc[p] = "filled" =>
          /\ jt_block[p] \in Blocks
          /\ jt_data[jt_block[p]].loops = 0 /\ jt_item[jt_block[p]] # "pending"
    BY DEF JitInv, JitTypes, JitBlocked, JitFilled, JitStarted, JitReading
  <2> QED BY <2>1 DEF JitInv, JitWoken, JitStarted, Jt!LinesBeforeFree
<1> QED BY <1>1, <1>2, <1>3, ComponentsAlone, PTL DEF Jt!Spec, Jt!vars, jit_vars, LinesBeforeFree

-----------------------------------------------------------------------------
(***************************************************************************)
(* tiny_tty.                                                               *)
(***************************************************************************)
TtyTypes ==
  /\ tt_module \in [loads : Nat, state : {"loaded", "leaving", "gone"}]
  /\ tt_tty_lock \in Users \cup {NoProc}
  /\ tt_driver_data \in BOOLEAN /\ tt_timer \in BOOLEAN
  /\ tt_port \in [there : BOOLEAN, open_count : Nat, mcr : SUBSET Tt!Lines,
                  tty : BOOLEAN]
  /\ tt_handler \in {"idle", "begun", "pushed"}
  /\ tt_mcr \in [Users -> SUBSET Tt!Lines]
  /\ tt_pc \in [Users -> {"closed", "create", "count", "failed", "open", "write",
                          "tiocm"}]

(* Who opens the tty has its lock, until he has counted himself.           *)
Opening == {"create", "count"}
TtyLocked == \A p \in Users : tt_pc[p] \in Opening <=> tt_tty_lock = p

(* No more are counted than have the tty open; they find the port, which   *)
(* is there, unless another is opening it; and a module that is not loaded *)
(* has no files.                                                           *)
TtyCounted ==
  /\ tt_port.open_count <= Cardinality(Tt!Opened)
  /\ Tt!Opened # {} /\ tt_tty_lock = NoProc => tt_driver_data
  /\ Tt!Opened # {} => tt_port.there
  /\ \A p \in Users : tt_pc[p] = "count" => tt_port.there
  /\ ~ tt_port.there => tt_port.open_count = 0
  /\ tt_module.state # "loaded" => Tt!Files = {}

(* While somebody is counted the timer goes on.                            *)
TtyTimed == tt_port.open_count > 0 => tt_timer \/ tt_handler # "idle"

TtyInv == TtyTypes /\ TtyLocked /\ TtyCounted /\ TtyTimed

(* How many have the tty open, with one more or less.                      *)
LEMMA OpenedCount ==
  ASSUME NEW p \in Users
  PROVE  /\ Cardinality(Tt!Opened) \in Nat
         /\ Tt!Opened = {} <=> Cardinality(Tt!Opened) = 0
         /\ p \notin Tt!Opened =>
              Cardinality(Tt!Opened \cup {p}) = Cardinality(Tt!Opened) + 1
         /\ p \in Tt!Opened =>
              Cardinality(Tt!Opened \ {p}) = Cardinality(Tt!Opened) - 1
<1>1. IsFiniteSet(Tt!Opened)
  <2>1. Tt!Opened \subseteq Users
    BY DEF Tt!Opened
  <2> QED BY <2>1, UsersAssumption, FS_Subset
<1> QED BY <1>1, FS_CardinalityType, FS_AddElement, FS_RemoveElement, FS_EmptySet

(* The difference between those that have it open and the port's count.    *)
LEMMA TtyUncounted ==
  /\ Tt!Uncounted = Cardinality(Tt!Opened) - tt_port.open_count
  /\ Tt!Uncounted' = Cardinality(Tt!Opened') - tt_port'.open_count
<1>1. \A S : Tt!Cardinality(S) = Cardinality(S)
  BY DEF Tt!Cardinality, Cardinality
<1> QED BY <1>1 DEF Tt!Uncounted

(* Initially nobody has the tty open.                                      *)
LEMMA TtyInit == Tt!Init => TtyInv
<1> SUFFICES ASSUME Tt!Init PROVE TtyInv
  OBVIOUS
<1>1. TtyTypes
  BY DEF Tt!Init, TtyTypes
<1>2. Tt!Opened = {} /\ Tt!Files = {}
  BY DEF Tt!Init, Tt!Opened, Tt!Files
<1>3. TtyLocked /\ TtyCounted /\ TtyTimed
  BY <1>2, UsersAssumption, FS_EmptySet
  DEF Tt!Init, TtyLocked, TtyCounted, TtyTimed, Opening
<1> QED BY <1>1, <1>3 DEF TtyInv

(* What a step does to the process that takes it, and to nobody else.      *)
LEMMA TtyGoto ==
  ASSUME TtyTypes, NEW p \in Users, NEW l, Tt!Goto(p, l),
         l \in {"closed", "create", "count", "failed", "open", "write", "tiocm"}
  PROVE  /\ tt_pc' \in [Users -> {"closed", "create", "count", "failed", "open",
                                  "write", "tiocm"}]
         /\ tt_pc'[p] = l /\ \A q \in Users \ {p} : tt_pc'[q] = tt_pc[q]
         /\ Tt!Opened' = IF l \in {"open", "write", "tiocm"}
                           THEN Tt!Opened \cup {p} ELSE Tt!Opened \ {p}
         /\ Tt!Files' = IF l = "closed" THEN Tt!Files \ {p} ELSE Tt!Files \cup {p}
<1>1. /\ tt_pc' \in [Users -> {"closed", "create", "count", "failed", "open",
                               "write", "tiocm"}]
      /\ tt_pc'[p] = l /\ \A q \in Users \ {p} : tt_pc'[q] = tt_pc[q]
  BY DEF TtyTypes, Tt!Goto
<1> QED BY <1>1 DEF Tt!Opened, Tt!Files

(* What PortStep says of a step, beside the invariant.                     *)
TtyStep == TtyInv' /\ Tt!OnlyFailedMiscounts /\ Tt!OnlyHandlerRevives

(* Steps of a process that change neither the count, the timer nor who has *)
(* the tty open.                                                           *)
LEMMA TtyQuiet ==
  ASSUME TtyInv, TtyTypes', TtyLocked',
         UNCHANGED <<tt_timer, tt_handler>>,
         tt_port'.open_count = tt_port.open_count,
         tt_port.there => tt_port'.there,
         \A p \in Users : tt_pc'[p] = "count" => tt_port'.there,
         Tt!Opened' = Tt!Opened,
         Tt!Opened # {} /\ tt_tty_lock' = NoProc => tt_driver_data',
         tt_module'.state # "loaded" => Tt!Files' = {}
  PROVE  TtyStep
<1>1. TtyCounted'
  BY DEF TtyInv, TtyCounted, TtyTypes
<1>2. TtyTimed'
  BY DEF TtyInv, TtyTimed
<1>3. Tt!Uncounted' = Tt!Uncounted /\ Tt!Uncounted \in Int
  <2>1. Cardinality(Tt!Opened) \in Nat /\ tt_port.open_count \in Nat
    BY UsersAssumption, FS_Subset, FS_CardinalityType DEF Tt!Opened, TtyInv, TtyTypes
  <2> QED BY <2>1, TtyUncounted
<1>4. Tt!OnlyFailedMiscounts /\ Tt!OnlyHandlerRevives
  BY <1>3 DEF Tt!OnlyFailedMiscounts, Tt!OnlyHandlerRevives, Tt!Unattended
<1> QED BY <1>1, <1>2, <1>4 DEF TtyStep, TtyInv


(* Each step of a process.                                                 *)
LEMMA TtyProcessStep ==
  ASSUME TtyInv, NEW p \in Users,
         \/ Tt!OpenBegin(p) \/ Tt!OpenCreate(p) \/ Tt!OpenNoMemory(p)
         \/ Tt!OpenCount(p) \/ Tt!tiny_close(p)
         \/ Tt!tiny_write(p) \/ Tt!WriteDone(p)
         \/ Tt!TiocmBegin(p) \/ Tt!tiny_tiocmget(p)
         \/ \E set, clear \in SUBSET Tt!Lines : Tt!tiny_tiocmset(p, set, clear)
  PROVE  TtyStep
<1> USE DEF TtyInv, Opening
<1>0. p # NoProc
  BY UsersAssumption
<1>1. CASE Tt!OpenBegin(p)
  <2>1. /\ tt_pc[p] = "closed" /\ tt_module.state = "loaded" /\ tt_tty_lock = NoProc
        /\ tt_tty_lock' = p /\ tt_driver_data' = FALSE /\ Tt!Goto(p, "create")
        /\ UNCHANGED <<tt_module, tt_port, tt_timer, tt_handler, tt_oops, tt_mcr>>
    BY <1>1 DEF Tt!OpenBegin
  <2>2. /\ tt_pc' \in [Users -> {"closed", "create", "count", "failed", "open",
                                 "write", "tiocm"}]
        /\ tt_pc'[p] = "create" /\ \A q \in Users \ {p} : tt_pc'[q] = tt_pc[q]
        /\ Tt!Opened' = Tt!Opened \ {p}
    BY <2>1, TtyGoto
  <2>3. TtyTypes'
    BY <2>1, <2>2 DEF TtyTypes
  <2>4. TtyLocked'
    BY <1>0, <2>1, <2>2, UsersAssumption DEF TtyTypes, TtyLocked
  <2>5. Tt!Opened' = Tt!Opened
    BY <2>1, <2>2 DEF Tt!Opened
  <2>6. \A q \in Users : tt_pc'[q] = "count" => tt_port'.there
    BY <2>1, <2>2 DEF TtyCounted
  <2> QED BY <1>0, <2>1, <2>3, <2>4, <2>5, <2>6, TtyQuiet
<1>2. CASE Tt!OpenCreate(p)
  <2>1. /\ tt_pc[p] = "create" /\ Tt!Goto(p, "count")
        /\ UNCHANGED <<tt_module, tt_tty_lock, tt_driver_data, tt_timer, tt_handler,
                       tt_oops, tt_mcr>>
    BY <1>2 DEF Tt!OpenCreate
  <2>2. /\ tt_pc' \in [Users -> {"closed", "create", "count", "failed", "open",
                                 "write", "tiocm"}]
        /\ tt_pc'[p] = "count" /\ \A q \in Users \ {p} : tt_pc'[q] = tt_pc[q]
        /\ Tt!Opened' = Tt!Opened \ {p} /\ Tt!Files' = Tt!Files \cup {p}
    BY <2>1, TtyGoto
  <2>3. /\ tt_port' \in [there : BOOLEAN, open_count : Nat, mcr : SUBSET Tt!Lines,
                         tty : BOOLEAN]
        /\ tt_port'.there /\ tt_port'.open_count = tt_port.open_count
    <3>1. CASE tt_port.there
      BY <1>2, <3>1 DEF Tt!OpenCreate, TtyTypes
    <3>2. CASE ~ tt_port.there
      <4>1. PICK garbage \in SUBSET Tt!Lines :
              tt_port' = [tt_port EXCEPT !.there = TRUE, !.open_count = 0,
                                         !.mcr = garbage]
        BY <1>2, <3>2 DEF Tt!OpenCreate
      <4>2. tt_port.open_count = 0
        BY <3>2 DEF TtyCounted
      <4> QED BY <4>1, <4>2 DEF TtyTypes
    <3> QED BY <3>1, <3>2
  <2>4. p \in Tt!Files /\ tt_tty_lock = p
    BY <2>1 DEF Tt!Files, TtyLocked
  <2>5. TtyTypes' /\ TtyLocked' /\ Tt!Opened' = Tt!Opened
    BY <2>1, <2>2, <2>3 DEF TtyTypes, TtyLocked, Tt!Opened
  <2>6. tt_module'.state # "loaded" => Tt!Files' = {}
    BY <2>1, <2>2, <2>4 DEF TtyCounted
  <2> QED BY <1>0, <2>1, <2>3, <2>4, <2>5, <2>6, TtyQuiet
<1>3. CASE Tt!OpenNoMemory(p)
  <2>1. /\ tt_pc[p] = "create" /\ ~ tt_port.there /\ Tt!Goto(p, "failed")
        /\ tt_tty_lock' = NoProc
        /\ UNCHANGED <<tt_module, tt_driver_data, tt_port, tt_timer, tt_handler,
                       tt_oops, tt_mcr>>
    BY <1>3 DEF Tt!OpenNoMemory
  <2>2. /\ tt_pc' \in [Users -> {"closed", "create", "count", "failed", "open",
                                 "write", "tiocm"}]
        /\ tt_pc'[p] = "failed" /\ \A q \in Users \ {p} : tt_pc'[q] = tt_pc[q]
        /\ Tt!Opened' = Tt!Opened \ {p} /\ Tt!Files' = Tt!Files \cup {p}
    BY <2>1, TtyGoto
  <2>4. p \in Tt!Files /\ tt_tty_lock = p
    BY <2>1 DEF Tt!Files, TtyLocked
  <2>5. TtyTypes' /\ TtyLocked' /\ Tt!Opened' = Tt!Opened
    BY <1>0, <2>1, <2>2, <2>4, UsersAssumption DEF TtyTypes, TtyLocked, Tt!Opened
  <2>6. tt_module'.state # "loaded" => Tt!Files' = {}
    BY <2>1, <2>2, <2>4 DEF TtyCounted
  <2>7. Tt!Opened = {} /\ \A q \in Users : tt_pc'[q] # "count"
    BY <2>1, <2>2, <2>4, UsersAssumption DEF TtyCounted, TtyLocked
  <2> QED BY <2>1, <2>5, <2>6, <2>7, TtyQuiet
<1>4. CASE Tt!OpenCount(p)
  <2> DEFINE n == tt_port.open_count
  <2>1. /\ tt_pc[p] = "count" /\ Tt!Goto(p, "open")
        /\ tt_driver_data' = TRUE /\ tt_tty_lock' = NoProc
        /\ tt_port' = [tt_port EXCEPT !.open_count = @ + 1, !.tty = TRUE]
        /\ tt_timer' = (tt_timer \/ n = 0)
        /\ UNCHANGED <<tt_module, tt_handler, tt_mcr>>
    BY <1>4 DEF Tt!OpenCount
  <2>10. n \in Nat /\ n + 1 \in Nat
    BY DEF TtyTypes
  <2>11. tt_timer' \in BOOLEAN /\ (tt_timer' <=> (tt_timer \/ n = 0))
    BY <2>1 DEF TtyTypes
  <2>2. /\ tt_pc' \in [Users -> {"closed", "create", "count", "failed", "open",
                                 "write", "tiocm"}]
        /\ tt_pc'[p] = "open" /\ \A q \in Users \ {p} : tt_pc'[q] = tt_pc[q]
        /\ Tt!Opened' = Tt!Opened \cup {p} /\ Tt!Files' = Tt!Files \cup {p}
    BY <2>1, TtyGoto
  <2>3. /\ tt_port' \in [there : BOOLEAN, open_count : Nat, mcr : SUBSET Tt!Lines,
                         tty : BOOLEAN]
        /\ tt_port'.there = tt_port.there /\ tt_port'.open_count = n + 1
    BY <2>1, <2>10 DEF TtyTypes
  <2>4. p \in Tt!Files /\ tt_tty_lock = p /\ tt_port.there /\ p \notin Tt!Opened
    BY <2>1 DEF Tt!Files, TtyLocked, TtyCounted, Tt!Opened
  <2>5. TtyTypes' /\ TtyLocked'
    BY <1>0, <2>1, <2>2, <2>3, <2>4, <2>11, UsersAssumption DEF TtyTypes, TtyLocked
  <2>6. /\ Cardinality(Tt!Opened') = Cardinality(Tt!Opened) + 1
        /\ Cardinality(Tt!Opened) \in Nat
    BY <2>2, <2>4, OpenedCount
  <2>7. TtyCounted'
    BY <2>1, <2>2, <2>3, <2>4, <2>6, <2>10 DEF TtyCounted
  <2>8. TtyTimed'
    BY <2>3, <2>10, <2>11, <2>1 DEF TtyTimed
  <2>9. Tt!OnlyFailedMiscounts /\ Tt!OnlyHandlerRevives
    BY <2>3, <2>6, <2>10, TtyUncounted
    DEF Tt!OnlyFailedMiscounts, Tt!OnlyHandlerRevives, Tt!Unattended
  <2> QED BY <2>5, <2>7, <2>8, <2>9 DEF TtyStep
<1>5. CASE Tt!tiny_close(p)
  <2> DEFINE n == tt_port.open_count
             last == Tt!Files = {p}
             closes == tt_driver_data /\ n > 0
             m == IF closes THEN n - 1 ELSE n
  <2>1. /\ tt_pc[p] \in {"open", "failed"} /\ tt_tty_lock = NoProc
        /\ Tt!Goto(p, "closed")
        /\ tt_port' = [tt_port EXCEPT !.open_count = m, !.tty = @ /\ ~ last]
        /\ tt_timer' = (tt_timer /\ ~ (closes /\ m <= 0))
        /\ tt_driver_data' = (tt_driver_data /\ ~ last)
        /\ UNCHANGED <<tt_module, tt_tty_lock, tt_handler, tt_mcr>>
    BY <1>5 DEF Tt!tiny_close, Tt!Closes, Tt!Stops
  <2>2. /\ tt_pc' \in [Users -> {"closed", "create", "count", "failed", "open",
                                 "write", "tiocm"}]
        /\ tt_pc'[p] = "closed" /\ \A q \in Users \ {p} : tt_pc'[q] = tt_pc[q]
        /\ Tt!Opened' = Tt!Opened \ {p} /\ Tt!Files' = Tt!Files \ {p}
    BY <2>1, TtyGoto
  <2>3. n \in Nat /\ m \in Nat /\ m <= n
    BY DEF TtyTypes
  <2>4. /\ tt_port' \in [there : BOOLEAN, open_count : Nat, mcr : SUBSET Tt!Lines,
                         tty : BOOLEAN]
        /\ tt_port'.there = tt_port.there /\ tt_port'.open_count = m
    BY <2>1, <2>3 DEF TtyTypes
  <2>5. TtyTypes' /\ TtyLocked'
    BY <1>0, <2>1, <2>2, <2>4 DEF TtyTypes, TtyLocked
  <2>6. ASSUME tt_pc[p] = "open"
        PROVE  m <= Cardinality(Tt!Opened') /\ Tt!OnlyFailedMiscounts
    <3>1. p \in Tt!Opened /\ tt_driver_data
      BY <2>1, <2>6 DEF Tt!Opened, TtyCounted
    <3>2. /\ Cardinality(Tt!Opened') = Cardinality(Tt!Opened) - 1
          /\ Cardinality(Tt!Opened) \in Nat /\ Cardinality(Tt!Opened) > 0
          /\ n <= Cardinality(Tt!Opened)
      BY <2>2, <3>1, OpenedCount DEF TtyCounted
    <3>3. m <= Cardinality(Tt!Opened')
      BY <2>3, <3>1, <3>2
    <3>4. Tt!OnlyFailedMiscounts
      BY <2>3, <2>4, <3>1, <3>2, TtyUncounted DEF Tt!OnlyFailedMiscounts
    <3> QED BY <3>3, <3>4
  <2>7. ASSUME tt_pc[p] = "failed"
        PROVE  m <= Cardinality(Tt!Opened') /\ Tt!OnlyFailedMiscounts
    <3>1. Tt!Opened' = Tt!Opened
      BY <2>2, <2>7 DEF Tt!Opened
    <3>2. m <= Cardinality(Tt!Opened')
      <4>1. Cardinality(Tt!Opened') = Cardinality(Tt!Opened)
        BY <3>1
      <4>2. n <= Cardinality(Tt!Opened) /\ Cardinality(Tt!Opened) \in Nat
        BY OpenedCount DEF TtyCounted
      <4> HIDE DEF m
      <4> QED BY <2>3, <4>1, <4>2
    <3>3. Tt!OnlyFailedMiscounts
      BY <2>2, <2>7 DEF Tt!OnlyFailedMiscounts
    <3> QED BY <3>2, <3>3
  <2>8. m <= Cardinality(Tt!Opened') /\ Tt!OnlyFailedMiscounts
    BY <2>1, <2>6, <2>7
  <2>9. Tt!Opened' # {} => ~ last
    BY <2>2 DEF Tt!Opened, Tt!Files
  <2>10. TtyCounted'
    <3>1. Tt!Opened' # {} => tt_driver_data'
      BY <2>1, <2>2, <2>9 DEF TtyCounted
    <3>2. \A q \in Users : tt_pc'[q] = "count" => tt_pc[q] = "count"
      BY <2>2
    <3> HIDE DEF m, closes, last
    <3> QED BY <2>1, <2>2, <2>3, <2>4, <2>8, <3>1, <3>2 DEF TtyCounted
  <2>13. tt_timer' <=> (tt_timer /\ ~ (closes /\ m <= 0))
    BY <2>1 DEF TtyTypes
  <2>11. TtyTimed'
    <3>1. m > 0 => n > 0 /\ ~ (closes /\ m <= 0)
      BY <2>3
    <3>2. tt_port'.open_count > 0 => m > 0
      BY <2>4
    <3>3. tt_handler' = tt_handler
      BY <2>1
    <3> HIDE DEF m, closes
    <3> QED BY <2>13, <3>1, <3>2, <3>3 DEF TtyTimed
  <2>12. Tt!OnlyHandlerRevives
    BY <2>3, <2>4, <2>13 DEF Tt!OnlyHandlerRevives, Tt!Unattended
  <2> QED BY <2>5, <2>8, <2>10, <2>11, <2>12 DEF TtyStep
<1>6. CASE \/ Tt!tiny_write(p) \/ Tt!WriteDone(p) \/ Tt!TiocmBegin(p)
           \/ Tt!tiny_tiocmget(p)
           \/ \E set, clear \in SUBSET Tt!Lines : Tt!tiny_tiocmset(p, set, clear)
  <2>1. /\ tt_pc[p] \in {"open", "write", "tiocm"}
        /\ UNCHANGED <<tt_module, tt_tty_lock, tt_driver_data, tt_timer, tt_handler>>
    BY <1>6
    DEF Tt!tiny_write, Tt!WriteDone, Tt!TiocmBegin, Tt!tiny_tiocmget, Tt!tiny_tiocmset
  <2>2. \/ UNCHANGED tt_pc
        \/ \E l \in {"open", "write", "tiocm"} : Tt!Goto(p, l)
    BY <1>6
    DEF Tt!tiny_write, Tt!WriteDone, Tt!TiocmBegin, Tt!tiny_tiocmget, Tt!tiny_tiocmset
  <2>3. /\ tt_pc' \in [Users -> {"closed", "create", "count", "failed", "open",
                                 "write", "tiocm"}]
        /\ tt_pc'[p] \in {"open", "write", "tiocm"}
        /\ \A q \in Users \ {p} : tt_pc'[q] = tt_pc[q]
    BY <2>1, <2>2, TtyGoto DEF TtyTypes
  <2>4. Tt!Opened' = Tt!Opened /\ Tt!Files' = Tt!Files
    BY <2>1, <2>3 DEF Tt!Opened, Tt!Files
  <2>5. /\ tt_port' \in [there : BOOLEAN, open_count : Nat, mcr : SUBSET Tt!Lines,
                         tty : BOOLEAN]
        /\ tt_port'.there = tt_port.there
        /\ tt_port'.open_count = tt_port.open_count
        /\ tt_mcr' \in [Users -> SUBSET Tt!Lines]
    <3>1. CASE \/ Tt!tiny_write(p) \/ Tt!WriteDone(p) \/ Tt!TiocmBegin(p)
               \/ Tt!tiny_tiocmget(p)
      BY <3>1
      DEF Tt!tiny_write, Tt!WriteDone, Tt!TiocmBegin, Tt!tiny_tiocmget, TtyTypes
    <3>2. CASE \E set, clear \in SUBSET Tt!Lines : Tt!tiny_tiocmset(p, set, clear)
      <4>1. PICK r \in SUBSET Tt!Lines : /\ tt_port' = [tt_port EXCEPT !.mcr = r]
                                         /\ tt_mcr' = [tt_mcr EXCEPT ![p] = {}]
        BY <3>2 DEF Tt!tiny_tiocmset, Tt!Lines, TtyTypes
      <4> QED BY <4>1 DEF TtyTypes
    <3> QED BY <1>6, <3>1, <3>2
  <2>6. TtyTypes' /\ TtyLocked'
    BY <2>1, <2>3, <2>5 DEF TtyTypes, TtyLocked
  <2>7. \A q \in Users : tt_pc'[q] = "count" => tt_port'.there
    BY <2>3, <2>5 DEF TtyCounted
  <2>8. /\ Tt!Opened # {} /\ tt_tty_lock' = NoProc => tt_driver_data'
        /\ tt_module'.state # "loaded" => Tt!Files' = {}
    BY <2>1, <2>4 DEF TtyCounted
  <2> QED BY <2>1, <2>4, <2>5, <2>6, <2>7, <2>8, TtyQuiet
<1> QED BY <1>1, <1>2, <1>3, <1>4, <1>5, <1>6


(* Each step of the timer, and of loading and unloading.                   *)
LEMMA TtyOtherStep ==
  ASSUME TtyInv,
         \/ Tt!TimerExpires \/ Tt!TimerPushes \/ Tt!TimerResubmits
         \/ Tt!ExitDelTimer \/ Tt!ExitFree \/ Tt!tiny_init
  PROVE  TtyStep
<1> USE DEF TtyInv
<1>1. CASE Tt!TimerExpires \/ Tt!TimerPushes \/ Tt!TimerResubmits
  <2>1. /\ tt_handler' \in {"idle", "begun", "pushed"}
        /\ UNCHANGED <<tt_module, tt_tty_lock, tt_driver_data, tt_port, tt_pc, tt_mcr>>
    BY <1>1 DEF Tt!TimerExpires, Tt!TimerPushes, Tt!TimerResubmits
  <2>2. /\ tt_timer' \in BOOLEAN
        /\ tt_timer' \/ tt_handler' # "idle" \/ ~ (tt_timer \/ tt_handler # "idle")
    BY <1>1
    DEF Tt!TimerExpires, Tt!TimerPushes, Tt!TimerResubmits, Tt!Resubmits, TtyTypes
  <2>3. tt_handler = "pushed" \/ (tt_timer' => tt_timer)
    BY <1>1 DEF Tt!TimerExpires, Tt!TimerPushes, Tt!TimerResubmits
  <2>4. Tt!Opened' = Tt!Opened /\ Tt!Files' = Tt!Files
    BY <2>1 DEF Tt!Opened, Tt!Files
  <2>5. TtyTypes' /\ TtyLocked' /\ TtyCounted'
    BY <2>1, <2>2, <2>4 DEF TtyTypes, TtyLocked, TtyCounted
  <2>6. TtyTimed'
    BY <2>1, <2>2 DEF TtyTimed
  <2>7. Tt!Uncounted' = Tt!Uncounted /\ Tt!Uncounted \in Int
    BY <2>1, <2>4, TtyUncounted, OpenedCount, UsersAssumption, FS_Subset,
       FS_CardinalityType
    DEF TtyTypes, Tt!Opened
  <2>8. Tt!OnlyFailedMiscounts /\ Tt!OnlyHandlerRevives
    BY <2>1, <2>3, <2>7
    DEF Tt!OnlyFailedMiscounts, Tt!OnlyHandlerRevives, Tt!Unattended
  <2> QED BY <2>5, <2>6, <2>8 DEF TtyStep
<1>2. CASE Tt!ExitDelTimer
  <2>1. /\ Tt!Files = {} /\ tt_timer' = FALSE
        /\ tt_module' = [tt_module EXCEPT !.state = "leaving"]
        /\ tt_port' = [tt_port EXCEPT !.open_count = 0]
        /\ UNCHANGED <<tt_tty_lock, tt_driver_data, tt_handler, tt_pc, tt_mcr>>
    BY <1>2 DEF Tt!ExitDelTimer
  <2>2. Tt!Opened = {} /\ Tt!Opened' = {} /\ Tt!Files' = {}
    BY <2>1 DEF Tt!Opened, Tt!Files
  <2>3. Cardinality(Tt!Opened) = 0 /\ Cardinality(Tt!Opened') = 0
    BY <2>2, FS_EmptySet
  <2>4. tt_port.open_count = 0
    BY <2>3 DEF TtyCounted, TtyTypes
  <2>5. tt_port' = tt_port
    BY <2>1, <2>4 DEF TtyTypes
  <2>6. tt_module' \in [loads : Nat, state : {"loaded", "leaving", "gone"}]
    BY <1>2 DEF Tt!ExitDelTimer, TtyTypes
  <2>7. TtyTypes' /\ TtyLocked' /\ TtyCounted'
    BY <2>1, <2>2, <2>3, <2>4, <2>5, <2>6 DEF TtyTypes, TtyLocked, TtyCounted
  <2>8. TtyTimed'
    BY <2>4, <2>5 DEF TtyTimed
  <2>9. Tt!OnlyFailedMiscounts /\ Tt!OnlyHandlerRevives
    BY <2>1, <2>3, <2>4, <2>5, TtyUncounted
    DEF Tt!OnlyFailedMiscounts, Tt!OnlyHandlerRevives, Tt!Unattended
  <2> QED BY <2>7, <2>8, <2>9 DEF TtyStep
<1>3. CASE Tt!ExitFree \/ Tt!tiny_init
  <2>1. /\ tt_module.state \in {"leaving", "gone"}
        /\ UNCHANGED <<tt_tty_lock, tt_driver_data, tt_timer, tt_handler, tt_pc, tt_mcr>>
    BY <1>3 DEF Tt!ExitFree, Tt!tiny_init
  <2>2. Tt!Files = {} /\ Tt!Files' = {} /\ Tt!Opened = {} /\ Tt!Opened' = {}
    BY <2>1 DEF TtyCounted, Tt!Opened, Tt!Files
  <2>3. Cardinality(Tt!Opened) = 0 /\ Cardinality(Tt!Opened') = 0
    BY <2>2, FS_EmptySet
  <2>4. tt_port.open_count = 0
    BY <2>3 DEF TtyCounted, TtyTypes
  <2>5. /\ tt_port' \in [there : BOOLEAN, open_count : Nat, mcr : SUBSET Tt!Lines,
                         tty : BOOLEAN]
        /\ tt_port'.open_count = 0
    BY <1>3, <2>4, ZenonT(30) DEF Tt!ExitFree, Tt!tiny_init, TtyTypes
  <2>6. tt_module' \in [loads : Nat, state : {"loaded", "leaving", "gone"}]
    <3>1. CASE Tt!ExitFree
      BY <3>1 DEF Tt!ExitFree, TtyTypes
    <3>2. CASE Tt!tiny_init
      BY <3>2 DEF Tt!tiny_init, TtyTypes
    <3> QED BY <1>3, <3>1, <3>2
  <2>7. \A q \in Users : tt_pc[q] = "closed" /\ tt_pc'[q] = "closed"
    BY <2>2 DEF Tt!Files
  <2>8. TtyTypes' /\ TtyLocked'
    BY <2>1, <2>5, <2>6 DEF TtyTypes, TtyLocked
  <2>9. TtyCounted' /\ TtyTimed'
    BY <2>2, <2>3, <2>5, <2>7 DEF TtyCounted, TtyTimed
  <2>10. Tt!OnlyFailedMiscounts /\ Tt!OnlyHandlerRevives
    BY <2>1, <2>3, <2>4, <2>5, TtyUncounted
    DEF Tt!OnlyFailedMiscounts, Tt!OnlyHandlerRevives, Tt!Unattended
  <2> QED BY <2>8, <2>9, <2>10 DEF TtyStep
<1> QED BY <1>1, <1>2, <1>3

(* TtyPort: while somebody is counted the timer goes on, and who has the   *)
(* tty open finds the port; only the close after an open that failed takes *)
(* off the count what another open added; and only a handler that was      *)
(* running starts the timer again where nobody is counted                  *)
(* (tiny_tty.c:92, 101-132, 143-155, 162-165, 569), for every number of    *)
(* processes, opens and loads.                                             *)
THEOREM TtyPortCorrect == DevicesSpec => TtyPort
<1>1. Tt!Init => TtyInv
  BY TtyInit
<1>2. TtyInv /\ [Tt!Next]_(Tt!vars) => TtyInv'
  <2>1. CASE Tt!Next
    BY <2>1, TtyProcessStep, TtyOtherStep DEF Tt!Next, TtyStep
  <2>2. ASSUME TtyInv, UNCHANGED Tt!vars PROVE TtyInv'
    <3>1. Tt!Opened' = Tt!Opened /\ Tt!Files' = Tt!Files
      BY <2>2 DEF Tt!vars, Tt!Opened, Tt!Files
    <3> QED BY <2>2, <3>1 DEF Tt!vars, TtyInv, TtyTypes, TtyLocked, TtyCounted, TtyTimed
  <2> QED BY <2>1, <2>2
<1>3. TtyInv /\ TtyInv' /\ [Tt!Next]_(Tt!vars) => [Tt!PortStep]_(Tt!vars)
  <2> SUFFICES ASSUME TtyInv, TtyInv', Tt!Next PROVE Tt!PortStep
    OBVIOUS
  <2>1. Tt!OnlyFailedMiscounts /\ Tt!OnlyHandlerRevives
    BY TtyProcessStep, TtyOtherStep DEF Tt!Next, TtyStep
  <2>2. Tt!PortServes'
    <3>1. Tt!Opened' # {} /\ ~ tt_driver_data' => \E p \in Users : tt_pc'[p] \in Opening
      BY DEF TtyInv, TtyCounted, TtyLocked, TtyTypes
    <3> QED BY <3>1 DEF Tt!PortServes, TtyInv, TtyTimed, Opening
  <2>3. Tt!CountsFiles'
    <3>1. /\ Cardinality(Tt!Opened') \in Nat
          /\ Tt!Opened' = {} => Cardinality(Tt!Opened') = 0
      BY UsersAssumption, FS_Subset, FS_CardinalityType, FS_EmptySet DEF Tt!Opened
    <3>2. Tt!Files' = {} => Tt!Opened' = {}
      BY DEF Tt!Files, Tt!Opened
    <3> QED BY <3>1, <3>2, TtyUncounted DEF Tt!CountsFiles, TtyInv, TtyCounted, TtyTypes
  <2> QED BY <2>1, <2>2, <2>3 DEF Tt!PortStep
<1> QED BY <1>1, <1>2, <1>3, ComponentsAlone, PTL DEF Tt!Spec, TtyPort, Tt!vars, tty_vars

-----------------------------------------------------------------------------
(***************************************************************************)
(* The system-call examples.                                               *)
(***************************************************************************)
ExecTypes ==
  /\ ex_pc \in [Pids -> {"none", "program", "called", "waiting", "child", "exec",
                         "command", "zombie", "reaped"}]
  /\ ex_call \in [Pids -> Ex!Functions \cup {"none"}]
  /\ ex_redirected \in [Pids -> BOOLEAN]
  /\ DOMAIN ex_result = Pids /\ ex_result = [p \in Pids |-> ex_result[p]]

(* Only what will be, or was, a command has its output redirected.         *)
OnlyCommandsRedirected ==
  \A p \in Pids :
    ex_redirected[p] => ex_pc[p] \in {"exec", "command", "zombie", "reaped"}

ExecInv == ExecTypes /\ OnlyCommandsRedirected /\ Ex!Told

(* Initially nobody was told anything.                                     *)
LEMMA ExecInit == Ex!Init => ExecInv
BY DEF Ex!Init, ExecInv, ExecTypes, OnlyCommandsRedirected, Ex!Told, Ex!NoResult

(* A step that returns to p, and what it tells.                            *)
LEMMA ExecReturns ==
  ASSUME ExecInv, NEW p \in Pids, NEW value \in BOOLEAN, NEW command,
         Ex!Returns(p, value, command),
         ex_call[p] = "do_exec" => (value <=> command = "zero"),
         command = "zero" => value
  PROVE  /\ Ex!Told'
         /\ DOMAIN ex_result' = Pids /\ ex_result' = [q \in Pids |-> ex_result'[q]]
         /\ ex_pc' = [ex_pc EXCEPT ![p] = "program"]
<1> DEFINE r == [of |-> ex_call[p], value |-> value, command |-> command]
<1>1. ex_result' = [ex_result EXCEPT ![p] = r]
      /\ ex_pc' = [ex_pc EXCEPT ![p] = "program"]
  BY DEF Ex!Returns, Ex!Goto
<1>2. r.of = ex_call[p] /\ r.value = value /\ r.command = command
  OBVIOUS
<1> HIDE DEF r
<1>3. /\ DOMAIN ex_result' = Pids /\ ex_result' = [q \in Pids |-> ex_result'[q]]
      /\ ex_result'[p] = r /\ \A q \in Pids \ {p} : ex_result'[q] = ex_result[q]
  BY <1>1 DEF ExecInv, ExecTypes
<1>4. Ex!Told'
  BY <1>2, <1>3 DEF ExecInv, Ex!Told
<1> QED BY <1>1, <1>3, <1>4

(* Each step keeps the invariant, and makes a copy of the program go on    *)
(* only where it could not be redirected.                                  *)
LEMMA ExecStep ==
  ASSUME ExecInv, Ex!Next
  PROVE  ExecInv' /\ Ex!OnlyRedirectCopies
<1> DEFINE States == {"none", "program", "called", "waiting", "child", "exec",
                      "command", "zombie", "reaped"}
<1> USE DEF ExecInv, Ex!Functions, Ex!Statuses
<1>1. ASSUME NEW p \in Pids, NEW value \in BOOLEAN, NEW command,
             Ex!Returns(p, value, command),
             ex_call[p] = "do_exec" => (value <=> command = "zero"),
             command = "zero" => value,
             UNCHANGED <<ex_call, ex_redirected>>, ~ ex_redirected[p],
             ex_pc[p] \in Ex!Programs \/ ex_call[p] = "do_exec_redirect"
      PROVE  ExecInv' /\ Ex!OnlyRedirectCopies
  <2>1. /\ Ex!Told' /\ ex_pc' = [ex_pc EXCEPT ![p] = "program"]
        /\ DOMAIN ex_result' = Pids /\ ex_result' = [q \in Pids |-> ex_result'[q]]
    BY <1>1, ExecReturns
  <2>2. ExecTypes' /\ OnlyCommandsRedirected'
    BY <1>1, <2>1 DEF ExecTypes, OnlyCommandsRedirected
  <2>3. Ex!OnlyRedirectCopies
    BY <1>1, <2>1 DEF Ex!OnlyRedirectCopies, ExecTypes
  <2> QED BY <2>1, <2>2, <2>3
<1>2. ASSUME NEW p \in Pids, NEW l \in States, Ex!Goto(p, l),
             UNCHANGED <<ex_call, ex_result>>,
             l \in Ex!Programs => ex_pc[p] \in Ex!Programs,
             ex_redirected' \in [Pids -> BOOLEAN],
             \A q \in Pids : ex_redirected'[q] =>
               ex_redirected[q] \/ (q = p /\ l = "exec"),
             ex_redirected[p] => l \in {"exec", "command", "zombie", "reaped"}
      PROVE  ExecInv' /\ Ex!OnlyRedirectCopies
  <2>1. /\ ex_pc' \in [Pids -> States] /\ ex_pc'[p] = l
        /\ \A q \in Pids \ {p} : ex_pc'[q] = ex_pc[q]
    BY <1>2 DEF ExecTypes, Ex!Goto
  <2>2. ExecTypes' /\ Ex!Told'
    BY <1>2, <2>1 DEF ExecTypes, Ex!Told
  <2>3. OnlyCommandsRedirected'
    BY <1>2, <2>1 DEF OnlyCommandsRedirected
  <2>4. Ex!OnlyRedirectCopies
    BY <1>2, <2>1 DEF Ex!OnlyRedirectCopies
  <2> QED BY <2>2, <2>3, <2>4
<1>3. ASSUME NEW p \in Pids, NEW f \in Ex!Functions, Ex!Call(p, f)
      PROVE  ExecInv' /\ Ex!OnlyRedirectCopies
  <2>1. /\ ex_pc[p] = "program" /\ ex_pc' = [ex_pc EXCEPT ![p] = "called"]
        /\ ex_call' = [ex_call EXCEPT ![p] = f]
        /\ ex_result' = [ex_result EXCEPT ![p] = Ex!NoResult]
        /\ UNCHANGED ex_redirected
    BY <1>3 DEF Ex!Call, Ex!Goto
  <2>2. ExecTypes' /\ OnlyCommandsRedirected'
    BY <2>1 DEF ExecTypes, OnlyCommandsRedirected
  <2>3. Ex!Told'
    BY <2>1 DEF ExecTypes, Ex!Told, Ex!NoResult
  <2>4. Ex!OnlyRedirectCopies
    BY <2>1 DEF ExecTypes, Ex!OnlyRedirectCopies, Ex!Programs
  <2> QED BY <2>2, <2>3, <2>4
<1>4. ASSUME NEW p \in Pids, Ex!do_system(p) \/ Ex!ForkFails(p) \/ Ex!WaitFails(p)
      PROVE  ExecInv' /\ Ex!OnlyRedirectCopies
  <2>1. /\ ex_pc[p] \in Ex!Programs /\ ~ ex_redirected[p]
        /\ UNCHANGED <<ex_call, ex_redirected>>
    BY <1>4
    DEF Ex!do_system, Ex!ForkFails, Ex!WaitFails, Ex!Programs, OnlyCommandsRedirected
  <2>2. CASE Ex!do_system(p)
    <3>1. ex_call[p] = "do_system"
      BY <2>2 DEF Ex!do_system
    <3>2. CASE Ex!Returns(p, FALSE, "unknown")
      BY <1>1, <2>1, <3>1, <3>2
    <3>3. ASSUME NEW s \in Ex!Statuses, Ex!Returns(p, TRUE, s)
          PROVE  ExecInv' /\ Ex!OnlyRedirectCopies
      BY <1>1, <2>1, <3>1, <3>3
    <3> QED BY <2>2, <3>2, <3>3 DEF Ex!do_system
  <2>3. CASE Ex!ForkFails(p)
    BY <1>1, <2>1, <2>3 DEF Ex!ForkFails
  <2>4. CASE Ex!WaitFails(p)
    <3> DEFINE v == ex_call[p] = "do_exec_redirect"
    <3>1. Ex!Returns(p, v, "unknown") /\ v \in BOOLEAN
      BY <2>4 DEF Ex!WaitFails
    <3>2. ex_call[p] = "do_exec" => ~ v
      OBVIOUS
    <3> HIDE DEF v
    <3> QED BY <1>1, <2>1, <3>1, <3>2
  <2> QED BY <1>4, <2>2, <2>3, <2>4
<1>5. ASSUME NEW p \in Pids, NEW c \in Pids, Ex!Fork(p, c)
      PROVE  ExecInv' /\ Ex!OnlyRedirectCopies
  <2>1. /\ ex_pc[p] = "called" /\ ex_pc[c] = "none"
        /\ ex_pc' = [ex_pc EXCEPT ![p] = "waiting", ![c] = "child"]
        /\ ex_call' = [ex_call EXCEPT ![c] = ex_call[p]]
        /\ ex_redirected' = [ex_redirected EXCEPT ![c] = ex_redirected[p]]
        /\ UNCHANGED ex_result
    BY <1>5 DEF Ex!Fork
  <2>2. ExecTypes' /\ Ex!Told'
    BY <2>1 DEF ExecTypes, Ex!Told
  <2>3. /\ \A q \in Pids \ {p, c} : ex_pc'[q] = ex_pc[q]
        /\ ex_pc'[p] = "waiting" /\ ex_pc'[c] = "child"
        /\ \A q \in Pids : ex_redirected'[q] => ex_redirected[q] /\ q # c
    BY <2>1 DEF ExecTypes, OnlyCommandsRedirected
  <2>4. OnlyCommandsRedirected'
    BY <2>1, <2>3 DEF OnlyCommandsRedirected
  <2>5. Ex!OnlyRedirectCopies
    BY <2>1, <2>3 DEF Ex!OnlyRedirectCopies, Ex!Programs
  <2> QED BY <2>2, <2>4, <2>5
<1>6. ASSUME NEW p \in Pids, Ex!RedirectFails(p)
      PROVE  ExecInv' /\ Ex!OnlyRedirectCopies
  BY <1>1, <1>6 DEF Ex!RedirectFails, OnlyCommandsRedirected
<1>7. ASSUME NEW p \in Pids, Ex!Redirect(p)
      PROVE  ExecInv' /\ Ex!OnlyRedirectCopies
  <2>1. ex_redirected' \in [Pids -> BOOLEAN]
        /\ \A q \in Pids : ex_redirected'[q] => ex_redirected[q] \/ q = p
    BY <1>7 DEF Ex!Redirect, ExecTypes
  <2>2. Ex!Goto(p, "exec") /\ UNCHANGED <<ex_call, ex_result>>
    BY <1>7 DEF Ex!Redirect
  <2> QED BY <1>2, <2>1, <2>2 DEF Ex!Programs
<1>8. ASSUME NEW p \in Pids, Ex!Exec(p) \/ Ex!Ends(p)
      PROVE  ExecInv' /\ Ex!OnlyRedirectCopies
  <2>1. /\ \E l \in {"command", "zombie"} : Ex!Goto(p, l)
        /\ UNCHANGED <<ex_call, ex_result, ex_redirected>>
    BY <1>8 DEF Ex!Exec, Ex!Ends
  <2> QED BY <1>2, <2>1 DEF Ex!Programs, ExecTypes
<1>9. ASSUME NEW p \in Pids, Ex!Reap(p)
      PROVE  ExecInv' /\ Ex!OnlyRedirectCopies
  <2> DEFINE s == ex_status[ex_child[p]]
             v == ex_call[p] = "do_exec_redirect" \/ s = "zero"
             r == [of |-> ex_call[p], command |-> s, value |-> v]
  <2>1. /\ ex_pc[p] = "waiting" /\ ex_pc[ex_child[p]] = "zombie"
        /\ ex_pc' = [ex_pc EXCEPT ![p] = "program", ![ex_child[p]] = "reaped"]
        /\ ex_result' = [ex_result EXCEPT ![p] = r]
        /\ UNCHANGED <<ex_call, ex_redirected>>
    BY <1>9 DEF Ex!Reap, Ex!Success
  <2>2. /\ r.of = "do_exec" => (r.value <=> r.command = "zero")
        /\ r.command = "zero" => r.value
    OBVIOUS
  <2> HIDE DEF r
  <2>3. DOMAIN ex_result' = Pids /\ ex_result' = [q \in Pids |-> ex_result'[q]]
    BY <2>1 DEF ExecTypes
  <2>4. Ex!Told'
    BY <2>1, <2>2 DEF ExecTypes, Ex!Told
  <2>5. /\ ex_pc' \in [Pids -> States] /\ ex_pc'[p] = "program"
        /\ \A q \in Pids \ {p} :
             \/ ex_pc'[q] = ex_pc[q]
             \/ ex_pc[q] = "zombie" /\ ex_pc'[q] = "reaped"
    <3> DEFINE c == ex_child[p]
    <3>1. c # p /\ (c \in Pids => ex_pc[c] = "zombie")
      BY <2>1
    <3>2. ex_pc' = [ex_pc EXCEPT ![p] = "program", ![c] = "reaped"]
      BY <2>1
    <3> HIDE DEF c
    <3>4. ex_pc'[p] = "program"
      BY <3>1, <3>2 DEF ExecTypes
    <3>5. ASSUME NEW q \in Pids, q # p
          PROVE  \/ ex_pc'[q] = ex_pc[q]
                 \/ ex_pc[q] = "zombie" /\ ex_pc'[q] = "reaped"
      BY <3>1, <3>2, <3>5 DEF ExecTypes
    <3>6. ex_pc' = [q \in Pids |-> ex_pc'[q]]
      BY <3>2 DEF ExecTypes
    <3>7. \A q \in Pids : ex_pc'[q] \in States
      BY <3>4, <3>5 DEF ExecTypes
    <3>8. ex_pc' \in [Pids -> States]
      <4> HIDE DEF States
      <4> QED BY <3>6, <3>7
    <3> QED BY <3>4, <3>5, <3>8
  <2>6. ExecTypes' /\ OnlyCommandsRedirected'
    BY <2>1, <2>3, <2>5 DEF ExecTypes, OnlyCommandsRedirected
  <2>7. Ex!OnlyRedirectCopies
    BY <2>1, <2>5 DEF Ex!OnlyRedirectCopies, Ex!Programs
  <2> QED BY <2>4, <2>6, <2>7
<1> QED BY <1>3, <1>4, <1>5, <1>6, <1>7, <1>8, <1>9 DEF Ex!Next

(* Who waits for whom.  A child is given out to one process, and while     *)
(* that process waits nobody else reaps it; the child of do_exec is one    *)
(* that executes the command.                                              *)
AwaitsChild(p) ==
  /\ ex_child[p] \in Pids
  /\ ex_pc[ex_child[p]] \notin {"none", "reaped"}
  /\ ex_call[p] = "do_exec" =>
       /\ ex_pc[ex_child[p]] \in {"child", "command", "zombie"}
       /\ ex_call[ex_child[p]] = "do_exec"

ExecAwaits ==
  /\ DOMAIN ex_child = Pids /\ ex_child = [p \in Pids |-> ex_child[p]]
  /\ \A p \in Pids : ex_pc[p] = "waiting" => AwaitsChild(p)
  /\ \A p, q \in Pids :
       /\ ex_pc[p] = "waiting" /\ ex_pc[q] = "waiting"
       /\ ex_child[p] = ex_child[q]
       => p = q

(* A step of p that leaves the others and all the children alone, and      *)
(* takes p to l, keeps this, if p is no child of do_exec that becomes      *)
(* anything but a command or a zombie.                                     *)
LEMMA ExecGoes ==
  ASSUME ExecInv, ExecAwaits, NEW p \in Pids,
         NEW l \in {"program", "called", "exec", "command", "zombie"},
         ex_pc' = [ex_pc EXCEPT ![p] = l], UNCHANGED ex_child,
         ex_pc[p] # "none",
         \A q \in Pids \ {p} : ex_call'[q] = ex_call[q],
         ex_pc[p] \in {"child", "command", "zombie"} /\ ex_call[p] = "do_exec"
           => l \in {"command", "zombie"} /\ ex_call'[p] = "do_exec"
  PROVE  ExecAwaits'
<1>1. ex_pc'[p] = l /\ \A q \in Pids \ {p} : ex_pc'[q] = ex_pc[q]
  BY DEF ExecInv, ExecTypes
<1>2. ASSUME NEW q \in Pids, ex_pc'[q] = "waiting"
      PROVE  q # p /\ ex_pc[q] = "waiting" /\ ex_call'[q] = ex_call[q]
  BY <1>1, <1>2
<1>3. ASSUME NEW q \in Pids, ex_pc'[q] = "waiting"
      PROVE  AwaitsChild(q)'
  <2>1. AwaitsChild(q)
    BY <1>2, <1>3 DEF ExecAwaits
  <2>2. CASE ex_child[q] = p
    BY <1>1, <1>2, <1>3, <2>1, <2>2 DEF AwaitsChild
  <2>3. CASE ex_child[q] # p
    BY <1>1, <1>2, <1>3, <2>1, <2>3 DEF AwaitsChild
  <2> QED BY <2>2, <2>3
<1> QED BY <1>2, <1>3 DEF ExecAwaits

LEMMA ExecAwaitsStep ==
  ASSUME ExecInv, ExecAwaits, Ex!Next
  PROVE  ExecAwaits'
<1> USE DEF Ex!Functions
<1>1. ASSUME NEW p \in Pids, NEW f \in Ex!Functions, Ex!Call(p, f)
      PROVE  ExecAwaits'
  <2>1. /\ ex_pc[p] = "program" /\ ex_pc' = [ex_pc EXCEPT ![p] = "called"]
        /\ \A q \in Pids \ {p} : ex_call'[q] = ex_call[q]
        /\ UNCHANGED ex_child
    BY <1>1 DEF Ex!Call, Ex!Goto, ExecInv, ExecTypes
  <2> QED BY <2>1, ExecGoes
<1>2. ASSUME NEW p \in Pids,
             Ex!do_system(p) \/ Ex!ForkFails(p) \/ Ex!WaitFails(p)
               \/ Ex!RedirectFails(p)
      PROVE  ExecAwaits'
  <2>1. /\ ex_pc' = [ex_pc EXCEPT ![p] = "program"]
        /\ UNCHANGED <<ex_child, ex_call>>
        /\ \/ ex_pc[p] \in {"called", "waiting"}
           \/ ex_pc[p] = "child" /\ ex_call[p] = "do_exec_redirect"
    BY <1>2 DEF Ex!do_system, Ex!ForkFails, Ex!WaitFails, Ex!RedirectFails,
                Ex!Returns, Ex!Goto
  <2> QED BY <2>1, ExecGoes
<1>3. ASSUME NEW p \in Pids, NEW c \in Pids, Ex!Fork(p, c)
      PROVE  ExecAwaits'
  <2>1. /\ ex_pc[p] = "called" /\ ex_call[p] # "do_system" /\ ex_pc[c] = "none"
        /\ ex_pc' = [ex_pc EXCEPT ![p] = "waiting", ![c] = "child"]
        /\ ex_call' = [ex_call EXCEPT ![c] = ex_call[p]]
        /\ ex_child' = [ex_child EXCEPT ![p] = c]
    BY <1>3 DEF Ex!Fork
  <2>2. /\ ex_pc'[p] = "waiting" /\ ex_pc'[c] = "child" /\ c # p
        /\ \A q \in Pids \ {p, c} : ex_pc'[q] = ex_pc[q]
        /\ ex_call'[c] = ex_call[p]
        /\ \A q \in Pids \ {c} : ex_call'[q] = ex_call[q]
    BY <2>1 DEF ExecInv, ExecTypes
  <2>3. /\ DOMAIN ex_child' = Pids /\ ex_child' = [q \in Pids |-> ex_child'[q]]
        /\ ex_child'[p] = c
        /\ \A q \in Pids \ {p} : ex_child'[q] = ex_child[q]
    BY <2>1 DEF ExecAwaits
  <2>4. ASSUME NEW q \in Pids, ex_pc'[q] = "waiting", q # p
        PROVE  AwaitsChild(q)' /\ ex_child'[q] # c
    <3>1. ex_pc[q] = "waiting" /\ q # c /\ AwaitsChild(q)
      BY <2>2, <2>4 DEF ExecAwaits
    <3>2. /\ ex_child[q] # c
          /\ ex_child[q] = p => ex_call[q] # "do_exec"
      BY <2>1, <3>1 DEF AwaitsChild
    <3>3. ex_child'[q] = ex_child[q] /\ ex_call'[q] = ex_call[q]
      BY <2>2, <2>3, <2>4, <3>1
    <3>4. CASE ex_child[q] = p
      BY <2>2, <3>1, <3>2, <3>3, <3>4 DEF AwaitsChild
    <3>5. CASE ex_child[q] # p
      <4>1. ex_pc'[ex_child[q]] = ex_pc[ex_child[q]]
            /\ ex_call'[ex_child[q]] = ex_call[ex_child[q]]
        BY <2>2, <3>1, <3>2, <3>5 DEF AwaitsChild
      <4> QED BY <3>1, <3>2, <3>3, <4>1 DEF AwaitsChild
    <3> QED BY <3>4, <3>5
  <2>5. AwaitsChild(p)'
    BY <2>2, <2>3 DEF AwaitsChild
  <2>6. ASSUME NEW q \in Pids, NEW r \in Pids,
               ex_pc'[q] = "waiting", ex_pc'[r] = "waiting",
               ex_child'[q] = ex_child'[r]
        PROVE  q = r
    BY <2>2, <2>3, <2>4, <2>6 DEF ExecAwaits
  <2> QED BY <2>3, <2>4, <2>5, <2>6 DEF ExecAwaits
<1>4. ASSUME NEW p \in Pids, Ex!Redirect(p) \/ Ex!Exec(p) \/ Ex!Ends(p)
      PROVE  ExecAwaits'
  <2>1. PICK l \in {"exec", "command", "zombie"} :
          /\ ex_pc' = [ex_pc EXCEPT ![p] = l]
          /\ l = "exec" => ex_call[p] = "do_exec_redirect"
    BY <1>4 DEF Ex!Redirect, Ex!Exec, Ex!Ends, Ex!Goto
  <2>2. UNCHANGED <<ex_child, ex_call>> /\ ex_pc[p] # "none"
    BY <1>4 DEF Ex!Redirect, Ex!Exec, Ex!Ends
  <2> QED BY <2>1, <2>2, ExecGoes
<1>5. ASSUME NEW p \in Pids, Ex!Reap(p)
      PROVE  ExecAwaits'
  <2>1. /\ ex_pc[p] = "waiting" /\ ex_pc[ex_child[p]] = "zombie"
        /\ ex_pc' = [ex_pc EXCEPT ![p] = "program", ![ex_child[p]] = "reaped"]
        /\ ex_child' = [ex_child EXCEPT ![p] = NoPid]
        /\ UNCHANGED ex_call
    BY <1>5 DEF Ex!Reap
  <2>2. AwaitsChild(p)
    BY <2>1 DEF ExecAwaits
  <2>3. PICK c \in Pids : c = ex_child[p]
    BY <2>2 DEF AwaitsChild
  <2>4. /\ ex_pc'[p] = "program" /\ ex_pc'[c] = "reaped" /\ c # p
        /\ \A q \in Pids \ {p, c} : ex_pc'[q] = ex_pc[q]
    BY <2>1, <2>3 DEF ExecInv, ExecTypes
  <2>5. /\ DOMAIN ex_child' = Pids /\ ex_child' = [q \in Pids |-> ex_child'[q]]
        /\ \A q \in Pids \ {p} : ex_child'[q] = ex_child[q]
    BY <2>1 DEF ExecAwaits
  <2>6. ASSUME NEW q \in Pids, ex_pc'[q] = "waiting"
        PROVE  AwaitsChild(q)'
    <3>1. q # p /\ q # c /\ ex_pc[q] = "waiting" /\ AwaitsChild(q)
      BY <2>4, <2>6 DEF ExecAwaits
    <3>2. /\ ex_child[q] # c
          /\ ex_child[q] = p => ex_call[q] # "do_exec"
      BY <2>1, <2>3, <3>1 DEF AwaitsChild, ExecAwaits
    <3>3. ex_child'[q] = ex_child[q] /\ ex_call'[q] = ex_call[q]
      BY <2>1, <2>5, <3>1
    <3>4. CASE ex_child[q] = p
      BY <2>1, <2>4, <3>1, <3>2, <3>3, <3>4 DEF AwaitsChild
    <3>5. CASE ex_child[q] # p
      <4>1. ex_pc'[ex_child[q]] = ex_pc[ex_child[q]]
            /\ ex_call'[ex_child[q]] = ex_call[ex_child[q]]
        BY <2>1, <2>4, <3>1, <3>2, <3>5 DEF AwaitsChild
      <4> QED BY <3>1, <3>2, <3>3, <4>1 DEF AwaitsChild
    <3> QED BY <3>4, <3>5
  <2>7. ASSUME NEW q \in Pids, NEW r \in Pids,
               ex_pc'[q] = "waiting", ex_pc'[r] = "waiting",
               ex_child'[q] = ex_child'[r]
        PROVE  q = r
    BY <2>4, <2>5, <2>7 DEF ExecAwaits
  <2> QED BY <2>5, <2>6, <2>7 DEF ExecAwaits
<1> QED BY <1>1, <1>2, <1>3, <1>4, <1>5 DEF Ex!Next

(* ExecReports: do_exec returns true exactly if the command it waited for  *)
(* ended with 0, and waits for no copy of the program; no call says false  *)
(* of a command it knows ended with 0; and a copy of the program goes on   *)
(* as the program only where do_exec_redirect could not redirect it.       *)
(* Nothing is said of do_system or do_exec_redirect where they return      *)
(* true: they may of a command that failed (systemcalls.c:20-28, 80-113,   *)
(* 155-188).  For every number of processes and calls.                     *)
THEOREM ExecCorrect == DevicesSpec => ExecReports
<1> DEFINE Inv == ExecInv /\ ExecAwaits
<1>1. Ex!Init => Inv
  <2>1. Ex!Init => ExecAwaits
    BY DEF Ex!Init, ExecAwaits
  <2> QED BY <2>1, ExecInit
<1>2. Inv /\ [Ex!Next]_(Ex!vars) => Inv'
  <2>1. Inv /\ Ex!Next => Inv'
    BY ExecStep, ExecAwaitsStep
  <2>2. Inv /\ UNCHANGED Ex!vars => Inv'
    BY DEF Ex!vars, ExecInv, ExecTypes, OnlyCommandsRedirected, Ex!Told,
           ExecAwaits, AwaitsChild
  <2> QED BY <2>1, <2>2
<1>3. Inv /\ Inv' /\ [Ex!Next]_(Ex!vars)
        => [Ex!Told' /\ Ex!AwaitsCommand' /\ Ex!OnlyRedirectCopies]_(Ex!vars)
  <2> SUFFICES ASSUME Inv, Inv', Ex!Next
               PROVE  Ex!Told' /\ Ex!AwaitsCommand' /\ Ex!OnlyRedirectCopies
    OBVIOUS
  <2>1. Ex!AwaitsCommand'
    BY DEF ExecAwaits, AwaitsChild, Ex!AwaitsCommand
  <2> QED BY <2>1, ExecStep DEF ExecInv
<1> HIDE DEF Inv
<1> QED
  BY <1>1, <1>2, <1>3, ComponentsAlone, PTL DEF Ex!Spec, ExecReports, Ex!vars, exec_vars

-----------------------------------------------------------------------------
(***************************************************************************)
(* jiq.                                                                    *)
(***************************************************************************)
JiqData == [m : Users \cup {NoProc}, len : Nat]

JiqTypes ==
  /\ jq_data \in JiqData
  /\ jq_pending \subseteq Jq!Items
  /\ jq_running \in [Jq!Items -> JiqData]
  /\ jq_wait \subseteq Users
  /\ jq_pc \in [Users -> {"user", "print", "start", "prepared", "wait", "sleep"}]
  /\ jq_file \in [Users -> Jq!Items \cup {"none"}]
  /\ jq_calm \in BOOLEAN

(* Which file who is where reads.                                          *)
JiqPlaces ==
  \A p \in Users :
    /\ jq_pc[p] = "user" <=> jq_file[p] = "none"
    /\ jq_pc[p] = "print" => jq_file[p] = "timer"
    /\ jq_pc[p] = "prepared" => jq_file[p] \in {"wq", "delayed"}
    /\ jq_pc[p] = "wait" => jq_file[p] \in {"tasklet", "timer"}

(* Before the first read there is nothing to run.                          *)
JiqIdle ==
  jq_data.m = NoProc =>
    /\ \A p \in Users : jq_pc[p] = "user"
    /\ \A i \in Jq!Items : ~ Jq!Active(i)

(* The timer is stopped with its read.                                     *)
JiqTimer == Jq!Active("timer") => \E p \in Users : jq_file[p] = "timer"

(* While there is one read at a time, and no signal leaves an item behind, *)
(* an item is started by the read it prints into; it is queued or runs,    *)
(* not both; and the reader of a work queue's file is woken when its item  *)
(* is done.                                                                *)
JiqCalm ==
  jq_calm =>
    /\ \A p, q \in Users : jq_pc[p] # "user" /\ jq_pc[q] # "user" => p = q
    /\ \A p \in Users : jq_pc[p] # "user" => jq_data.m = p
    /\ \A i \in Jq!Items : Jq!Active(i) =>
         \E p \in Users :
           /\ jq_pc[p] \in {"wait", "sleep"} /\ jq_file[p] = i /\ jq_data.m = p
           /\ Jq!Runs(i) => jq_running[i].m = p
    /\ \A i \in Jq!Items : ~ (i \in jq_pending /\ Jq!Runs(i))
    /\ \A p \in Users :
         /\ jq_pc[p] = "prepared" => p \in jq_wait
         /\ jq_pc[p] = "sleep" /\ p \notin jq_wait /\ jq_file[p] \in {"wq", "delayed"}
              => ~ Jq!Active(jq_file[p])

JiqInv == JiqTypes /\ JiqPlaces /\ JiqIdle /\ JiqTimer /\ JiqCalm /\ Jq!ReadersWoken

(* Initially nobody reads, and nothing runs.                               *)
LEMMA JiqInit == Jq!Init => JiqInv
<1> SUFFICES ASSUME Jq!Init PROVE JiqInv
  OBVIOUS
<1>1. JiqTypes
  BY DEF Jq!Init, JiqTypes, JiqData, Jq!NotRunning
<1>2. \A i \in Jq!Items : ~ Jq!Active(i) /\ ~ Jq!Runs(i)
  BY DEF Jq!Init, Jq!Active, Jq!Runs
<1>3. "timer" \in Jq!Items
  BY DEF Jq!Items
<1>4. JiqPlaces /\ JiqIdle /\ Jq!ReadersWoken
  BY <1>2 DEF Jq!Init, JiqPlaces, JiqIdle, Jq!ReadersWoken
<1>5. JiqTimer /\ JiqCalm
  BY <1>2, <1>3 DEF Jq!Init, JiqTimer, JiqCalm
<1> QED BY <1>1, <1>4, <1>5 DEF JiqInv

(* A step of a reader that starts no item and stops none.                  *)
LEMMA JiqQuiet ==
  ASSUME UNCHANGED <<jq_pending, jq_running>>
  PROVE  \A i : (Jq!Active(i)' <=> Jq!Active(i)) /\ (Jq!Runs(i)' <=> Jq!Runs(i))
BY DEF Jq!Active, Jq!Runs

(* A reader's step keeps the invariant.                                    *)
LEMMA JiqReaderStep ==
  ASSUME JiqInv, NEW p \in Users,
         \/ \E i \in Jq!Items : Jq!Show(p, i)
         \/ Jq!PrintFirst(p) \/ Jq!Prepare(p) \/ Jq!Schedule(p) \/ Jq!WaitForever(p)
         \/ Jq!Woken(p) \/ Jq!Interrupted(p)
  PROVE  JiqInv'
<1> USE DEF JiqInv
<1>0. p # NoProc
  BY UsersAssumption
<1>1. ASSUME NEW i \in Jq!Items, Jq!Show(p, i) PROVE JiqInv'
  <2>1. PICK l \in {"print", "start"} :
          /\ jq_pc[p] = "user" /\ jq_pc' = [jq_pc EXCEPT ![p] = l]
          /\ l = "print" <=> i = "timer"
          /\ jq_data' = [m |-> p, len |-> 0]
          /\ jq_file' = [jq_file EXCEPT ![p] = i]
          /\ jq_calm' = (jq_calm /\ Jq!Reading = {})
          /\ UNCHANGED <<jq_pending, jq_running, jq_wait>>
    BY <1>1 DEF Jq!Show, Jq!Goto
  <2>2. \A j : (Jq!Active(j)' <=> Jq!Active(j)) /\ (Jq!Runs(j)' <=> Jq!Runs(j))
    BY <2>1, JiqQuiet
  <2>3. JiqTypes'
    BY <2>1 DEF JiqTypes, JiqData
  <2>4. /\ jq_pc'[p] = l /\ jq_file'[p] = i /\ jq_file[p] = "none" /\ i # "none"
        /\ \A q \in Users \ {p} : jq_pc'[q] = jq_pc[q] /\ jq_file'[q] = jq_file[q]
    BY <2>1 DEF JiqTypes, JiqPlaces, Jq!Items
  <2>5. JiqPlaces' /\ JiqIdle'
    BY <1>0, <2>1, <2>2, <2>4 DEF JiqPlaces, JiqIdle
  <2>6. JiqTimer'
    BY <2>2, <2>4 DEF JiqTimer
  <2>7. jq_calm' => jq_calm /\ \A q \in Users : jq_pc[q] = "user"
    BY <2>1 DEF Jq!Reading
  <2>8. JiqCalm'
    BY <2>1, <2>2, <2>4, <2>7 DEF JiqCalm
  <2>9. Jq!ReadersWoken'
    BY <2>1, <2>2, <2>4 DEF Jq!ReadersWoken, JiqTypes
  <2> QED BY <2>3, <2>5, <2>6, <2>8, <2>9
<1>2. CASE Jq!PrintFirst(p)
  <2>1. /\ jq_pc[p] = "print" /\ jq_pc' = [jq_pc EXCEPT ![p] = "start"]
        /\ jq_wait' \in {jq_wait, {}}
        /\ UNCHANGED <<jq_pending, jq_running, jq_file, jq_calm>>
    BY <1>2 DEF Jq!PrintFirst, Jq!Goto
  <2>2. \A j : (Jq!Active(j)' <=> Jq!Active(j)) /\ (Jq!Runs(j)' <=> Jq!Runs(j))
    BY <2>1, JiqQuiet
  <2>3. jq_data' \in JiqData /\ jq_data'.m = jq_data.m
    BY <1>2 DEF Jq!PrintFirst, Jq!Added, JiqTypes, JiqData
  <2>4. /\ jq_pc'[p] = "start" /\ jq_file[p] = "timer"
        /\ \A q \in Users \ {p} : jq_pc'[q] = jq_pc[q]
    BY <2>1 DEF JiqTypes, JiqPlaces
  <2>5. JiqTypes'
    BY <2>1, <2>3 DEF JiqTypes
  <2>6. JiqPlaces' /\ JiqIdle' /\ JiqTimer'
    BY <2>1, <2>2, <2>3, <2>4 DEF JiqPlaces, JiqIdle, JiqTimer
  <2>7. JiqCalm'
    BY <2>1, <2>2, <2>3, <2>4 DEF JiqCalm
  <2>8. Jq!ReadersWoken'
    BY <2>1, <2>2, <2>4 DEF Jq!ReadersWoken, JiqTypes
  <2> QED BY <2>5, <2>6, <2>7, <2>8
<1>3. CASE Jq!Prepare(p) \/ Jq!WaitForever(p)
  <2>1. PICK l \in {"prepared", "sleep"} :
          /\ jq_pc[p] \in {"start", "wait", "sleep"}
          /\ jq_pc' = [jq_pc EXCEPT ![p] = l]
          /\ l = "prepared" => jq_pc[p] = "start" /\ jq_file[p] \in {"wq", "delayed"}
          /\ l = "sleep" => jq_pc[p] # "start" /\ jq_file[p] \in {"tasklet", "timer"}
          /\ jq_wait' = jq_wait \cup {p}
          /\ UNCHANGED <<jq_data, jq_pending, jq_running, jq_file, jq_calm>>
    BY <1>3 DEF Jq!Prepare, Jq!WaitForever, Jq!Goto, JiqPlaces
  <2>2. \A j : (Jq!Active(j)' <=> Jq!Active(j)) /\ (Jq!Runs(j)' <=> Jq!Runs(j))
    BY <2>1, JiqQuiet
  <2>3. /\ jq_pc'[p] = l
        /\ \A q \in Users \ {p} : jq_pc'[q] = jq_pc[q]
    BY <2>1 DEF JiqTypes
  <2>4. JiqTypes'
    BY <2>1 DEF JiqTypes
  <2>5. JiqPlaces' /\ JiqIdle' /\ JiqTimer'
    BY <2>1, <2>2, <2>3 DEF JiqPlaces, JiqIdle, JiqTimer
  <2>6. JiqCalm'
    BY <2>1, <2>2, <2>3 DEF JiqCalm
  <2>7. Jq!ReadersWoken'
    BY <2>1, <2>2, <2>3 DEF Jq!ReadersWoken, JiqTypes
  <2> QED BY <2>4, <2>5, <2>6, <2>7
<1>4. CASE Jq!Schedule(p)
  <2> DEFINE i == jq_file[p]
  <2>1. PICK l \in {"wait", "sleep"} :
          /\ jq_pc[p] \in {"start", "prepared"}
          /\ jq_pc' = [jq_pc EXCEPT ![p] = l]
          /\ l = "wait" => jq_pc[p] = "start" /\ i \in {"tasklet", "timer"}
          /\ l = "sleep" => jq_pc[p] = "prepared"
          /\ jq_pending' = jq_pending \cup {i}
          /\ UNCHANGED <<jq_data, jq_running, jq_wait, jq_file, jq_calm>>
    BY <1>4 DEF Jq!Schedule, Jq!Goto
  <2>2. /\ i \in Jq!Items
        /\ l = "sleep" => i \in {"wq", "delayed"}
        /\ jq_pc'[p] = l
        /\ \A q \in Users \ {p} : jq_pc'[q] = jq_pc[q]
    BY <2>1 DEF JiqTypes, JiqPlaces
  <2>3. /\ \A j : Jq!Active(j)' <=> Jq!Active(j) \/ j = i
        /\ \A j : Jq!Runs(j)' <=> Jq!Runs(j)
    BY <2>1 DEF Jq!Active, Jq!Runs
  <2>4. JiqTypes'
    <3>1. jq_pending' \subseteq Jq!Items
      BY <2>1, <2>2 DEF JiqTypes
    <3>2. jq_pc' \in [Users -> {"user", "print", "start", "prepared", "wait", "sleep"}]
      BY <2>1 DEF JiqTypes
    <3> QED BY <2>1, <3>1, <3>2 DEF JiqTypes
  <2>5. JiqPlaces' /\ JiqTimer'
    BY <2>1, <2>2, <2>3 DEF JiqPlaces, JiqTimer
  <2>6. jq_data.m # NoProc /\ jq_data.m \in Users
    BY <2>1 DEF JiqIdle, JiqTypes, JiqData
  <2>7. JiqIdle'
    BY <2>1, <2>6 DEF JiqIdle
  <2>8. jq_calm => \A j \in Jq!Items : ~ Jq!Active(j) /\ ~ Jq!Runs(j)
    BY <2>1 DEF JiqCalm, Jq!Active
  <2>9. JiqCalm'
    <3> SUFFICES ASSUME jq_calm' PROVE JiqCalm'
      BY DEF JiqCalm
    <3>1. /\ jq_calm /\ \A q \in Users : jq_pc'[q] # "user" => jq_pc[q] # "user"
          /\ jq_data' = jq_data /\ jq_data.m = p
      BY <2>1, <2>2 DEF JiqCalm
    <3>2. \A q, r \in Users : jq_pc'[q] # "user" /\ jq_pc'[r] # "user" => q = r
      BY <3>1 DEF JiqCalm
    <3>3. \A j \in Jq!Items : Jq!Active(j)' => j = i /\ ~ Jq!Runs(j)'
      BY <2>3, <2>8, <3>1
    <3>4. jq_file' = jq_file /\ jq_pc'[p] \in {"wait", "sleep"}
      BY <2>1, <2>2
    <3>5. \A j \in Jq!Items : ~ (j \in jq_pending' /\ Jq!Runs(j)')
      BY <2>3, <2>8, <3>1
    <3>6. l = "sleep" => p \in jq_wait'
      BY <2>1, <3>1 DEF JiqCalm
    <3>7. \A q \in Users : q # p => jq_pc'[q] = "user"
      BY <2>2, <3>1, <3>2, <3>4
    <3> QED
      BY <2>2, <3>1, <3>2, <3>3, <3>4, <3>5, <3>6, <3>7 DEF JiqCalm
  <2>10. Jq!ReadersWoken'
    BY <2>1, <2>2, <2>3 DEF Jq!ReadersWoken, JiqTypes
  <2> QED BY <2>4, <2>5, <2>7, <2>9, <2>10
<1>5. ASSUME Jq!Woken(p) \/ Jq!Interrupted(p) PROVE JiqInv'
  <2>1. /\ jq_pc[p] = "sleep" /\ jq_pc' = [jq_pc EXCEPT ![p] = "user"]
        /\ jq_file' = [jq_file EXCEPT ![p] = "none"]
        /\ jq_wait' = jq_wait \ {p}
        /\ UNCHANGED <<jq_data, jq_running>>
        /\ jq_pending' \in {jq_pending, jq_pending \ {"timer"}}
        /\ jq_file[p] = "timer" => jq_pending' = jq_pending \ {"timer"} /\ ~ Jq!Runs("timer")
        /\ jq_file[p] # "timer" => jq_pending' = jq_pending
        /\ jq_calm' \in BOOLEAN
        /\ jq_calm' => jq_calm /\ (jq_file[p] = "timer" \/ ~ Jq!Active(jq_file[p]))
    <3>1. CASE Jq!Woken(p)
      BY <3>1 DEF Jq!Woken, Jq!Returns, Jq!Goto, JiqTypes, JiqCalm
    <3>2. CASE Jq!Interrupted(p)
      BY <3>2 DEF Jq!Interrupted, Jq!Returns, Jq!Goto, JiqTypes
    <3> QED BY <1>5, <3>1, <3>2
  <2>2. /\ jq_pc'[p] = "user" /\ jq_file'[p] = "none"
        /\ \A q \in Users \ {p} : jq_pc'[q] = jq_pc[q] /\ jq_file'[q] = jq_file[q]
    BY <2>1 DEF JiqTypes
  <2>3. /\ \A j : (Jq!Runs(j)' <=> Jq!Runs(j)) /\ (Jq!Active(j)' => Jq!Active(j))
        /\ \A j : j # "timer" => (Jq!Active(j)' <=> Jq!Active(j))
        /\ jq_file[p] = "timer" => ~ Jq!Active("timer")'
    BY <2>1 DEF Jq!Active, Jq!Runs
  <2>4. JiqTypes'
    BY <2>1 DEF JiqTypes
  <2>5. JiqPlaces' /\ JiqIdle'
    BY <2>1, <2>2, <2>3 DEF JiqPlaces, JiqIdle
  <2>6. JiqTimer'
    BY <2>2, <2>3 DEF JiqTimer
  <2>7. JiqCalm'
    <3> SUFFICES ASSUME jq_calm' PROVE JiqCalm'
      BY DEF JiqCalm
    <3>1. jq_calm /\ jq_data.m = p /\ \A q \in Users : jq_pc'[q] = "user"
      BY <2>1, <2>2 DEF JiqCalm
    <3>2. \A j : j = jq_file[p] => ~ Jq!Active(j)'
      <4>1. CASE jq_file[p] = "timer"
        BY <2>3, <4>1
      <4>2. CASE jq_file[p] # "timer"
        BY <2>1, <2>3, <4>2
      <4> QED BY <4>1, <4>2
    <3>3. \A j \in Jq!Items : Jq!Active(j) => j = jq_file[p]
      <4> SUFFICES ASSUME NEW j \in Jq!Items, Jq!Active(j) PROVE j = jq_file[p]
        OBVIOUS
      <4>1. PICK q \in Users : jq_pc[q] \in {"wait", "sleep"} /\ jq_file[q] = j /\ jq_data.m = q
        BY <3>1 DEF JiqCalm
      <4> QED BY <3>1, <4>1
    <3>4. \A j \in Jq!Items : ~ Jq!Active(j)' /\ ~ Jq!Runs(j)'
      <4>1. \A j \in Jq!Items : ~ Jq!Active(j)'
        BY <2>3, <3>2, <3>3
      <4> QED BY <2>3, <4>1 DEF Jq!Active
    <3> QED BY <3>1, <3>4 DEF JiqCalm
  <2>8. Jq!ReadersWoken'
    BY <2>1, <2>2, <2>3 DEF Jq!ReadersWoken, JiqTypes
  <2> QED BY <2>4, <2>5, <2>6, <2>7, <2>8
<1> QED BY <1>1, <1>2, <1>3, <1>4, <1>5

(* A step of an item keeps the invariant.                                  *)
LEMMA JiqItemStep ==
  ASSUME JiqInv, NEW i \in Jq!Items, Jq!Run(i) \/ Jq!Ends(i) \/ Jq!Prints(i)
  PROVE  JiqInv'
<1> USE DEF JiqInv
<1>1. /\ UNCHANGED <<jq_pc, jq_file, jq_calm>> /\ Jq!Active(i)
  BY DEF Jq!Run, Jq!Ends, Jq!Prints, Jq!Active
<1>2. jq_data.m \in Users /\ jq_data.m # NoProc
  BY <1>1, UsersAssumption DEF JiqIdle, JiqTypes, JiqData
<1>3. jq_data' \in JiqData /\ jq_data'.m = jq_data.m
  <2>1. CASE Jq!Run(i) \/ Jq!Ends(i)
    BY <2>1 DEF Jq!Run, Jq!Ends, JiqTypes
  <2>2. CASE Jq!Prints(i)
    <3>1. jq_running[i] \in JiqData
      BY DEF JiqTypes
    <3> QED BY <2>2, <3>1 DEF Jq!Prints, Jq!Added, JiqTypes, JiqData
  <2> QED BY <2>1, <2>2
<1>4. /\ jq_running' = [jq_running EXCEPT ![i] = jq_running'[i]]
      /\ jq_running'[i] \in {jq_data, Jq!NotRunning}
      /\ \A j \in Jq!Items \ {i} : jq_running'[j] = jq_running[j]
  <2>1. \E r \in {jq_data, Jq!NotRunning} : jq_running' = [jq_running EXCEPT ![i] = r]
    BY DEF Jq!Run, Jq!Ends, Jq!Prints
  <2> QED BY <2>1 DEF JiqTypes
<1>5. Jq!NotRunning \in JiqData
  BY DEF Jq!NotRunning, JiqData
<1>6. /\ jq_pending' \in {jq_pending \ {i}, jq_pending, jq_pending \cup {i}}
      /\ jq_wait' \in {jq_wait, {}}
  BY DEF Jq!Run, Jq!Ends, Jq!Prints
<1>7. JiqTypes'
  <2>1. jq_running' \in [Jq!Items -> JiqData]
    BY <1>4, <1>5 DEF JiqTypes
  <2> QED BY <1>1, <1>3, <1>6, <2>1 DEF JiqTypes
<1>8. JiqPlaces' /\ JiqIdle'
  BY <1>1, <1>2, <1>3 DEF JiqPlaces, JiqIdle
<1>9. \A j \in Jq!Items \ {i} :
        (Jq!Active(j)' <=> Jq!Active(j)) /\ (Jq!Runs(j)' <=> Jq!Runs(j))
  BY <1>4, <1>6 DEF Jq!Active, Jq!Runs
<1>10. JiqTimer'
  <2>1. Jq!Active("timer")' => Jq!Active("timer")
    BY <1>1, <1>9 DEF Jq!Items
  <2> QED BY <1>1, <2>1 DEF JiqTimer
<1>11. \/ /\ Jq!Run(i) /\ Jq!Active(i)' /\ jq_wait' = jq_wait
          /\ jq_running'[i] = jq_data /\ Jq!Runs(i)' /\ i \notin jq_pending'
       \/ Jq!Ends(i) /\ ~ Jq!Runs(i)' /\ jq_wait' = {} /\ jq_pending' = jq_pending /\ Jq!Runs(i)
       \/ /\ Jq!Prints(i) /\ ~ Jq!Runs(i)' /\ Jq!Runs(i)
          /\ \/ i # "timer" /\ Jq!Active(i)' /\ jq_wait' = jq_wait
             \/ i = "timer" /\ jq_wait' = {} /\ jq_pending' = jq_pending
  <2>1. CASE Jq!Run(i)
    <3>1. jq_running'[i] = jq_data /\ jq_data # Jq!NotRunning /\ jq_wait' = jq_wait
      BY <1>2, <2>1 DEF Jq!Run, Jq!NotRunning, JiqTypes
    <3> QED BY <2>1, <3>1 DEF Jq!Run, Jq!Active, Jq!Runs
  <2>2. CASE Jq!Ends(i)
    BY <2>2 DEF Jq!Ends, Jq!Runs, JiqTypes
  <2>3. CASE Jq!Prints(i)
    BY <2>3 DEF Jq!Prints, Jq!Active, Jq!Runs, JiqTypes
  <2> QED BY <2>1, <2>2, <2>3
<1>12. JiqCalm'
  <2> SUFFICES ASSUME jq_calm' PROVE JiqCalm'
    BY DEF JiqCalm
  <2>0. jq_calm
    BY <1>1
  <2>1. PICK p \in Users :
          /\ jq_pc[p] \in {"wait", "sleep"} /\ jq_file[p] = i /\ jq_data.m = p
          /\ Jq!Runs(i) => jq_running[i].m = p
    BY <1>1, <2>0 DEF JiqCalm
  <2>2. /\ jq_pc'[p] \in {"wait", "sleep"} /\ jq_file'[p] = i /\ jq_data'.m = p
        /\ \A q \in Users \ {p} : jq_pc[q] = "user" /\ jq_pc'[q] = "user"
    BY <1>1, <1>3, <2>0, <2>1 DEF JiqCalm
  <2>3. Jq!Runs(i)' => jq_running'[i].m = p
    BY <1>11, <2>1
  <2>4. \A j \in Jq!Items \ {i} : ~ Jq!Active(j) /\ ~ Jq!Active(j)'
    BY <1>9, <2>0, <2>1, <2>2 DEF JiqCalm
  <2>5. \A j \in Jq!Items : ~ (j \in jq_pending' /\ Jq!Runs(j)')
    BY <1>11, <2>4 DEF Jq!Active
  <2>6. jq_pc'[p] = "sleep" /\ p \notin jq_wait' /\ i \in {"wq", "delayed"}
          => ~ Jq!Active(i)'
    <3> SUFFICES ASSUME jq_pc[p] = "sleep", p \notin jq_wait', i \in {"wq", "delayed"}
                 PROVE  ~ Jq!Active(i)'
      BY <1>1, <2>1
    <3>1. p \in jq_wait
      <4>1. p \notin jq_wait => ~ Jq!Active(i)
        BY <2>0, <2>1 DEF JiqCalm
      <4> QED BY <1>1, <4>1
    <3>2. Jq!Ends(i) /\ ~ Jq!Runs(i)' /\ jq_pending' = jq_pending /\ Jq!Runs(i)
      BY <1>11, <3>1
    <3>3. i \notin jq_pending
      BY <2>0, <3>2 DEF JiqCalm
    <3> QED BY <3>2, <3>3 DEF Jq!Active
  <2>7. \A q, r \in Users : jq_pc'[q] # "user" /\ jq_pc'[r] # "user" => q = r
    BY <2>2
  <2>8. \A j \in Jq!Items : Jq!Active(j)' => j = i
    BY <2>4
  <2>9. \A q \in Users : jq_pc'[q] # "user" => q = p
    BY <2>2
  <2>10. jq_pc'[p] \notin {"user", "prepared"}
    BY <2>2
  <2> QED BY <2>2, <2>3, <2>5, <2>6, <2>7, <2>8, <2>9, <2>10 DEF JiqCalm
<1>13. Jq!ReadersWoken'
  <2> SUFFICES ASSUME NEW p \in jq_wait', jq_pc[p] = "sleep",
                      jq_file[p] \in {"wq", "delayed"}
               PROVE  \A j : j = jq_file[p] => Jq!Active(j)'
    BY <1>1 DEF Jq!ReadersWoken
  <2>1. p \in jq_wait /\ jq_wait' # {} /\ jq_file[p] \in Jq!Items
    BY <1>6 DEF Jq!Items
  <2>2. Jq!Active(jq_file[p])
    BY <2>1 DEF Jq!ReadersWoken
  <2>3. CASE jq_file[p] = i
    BY <1>11, <2>1, <2>3 DEF Jq!Active
  <2>4. CASE jq_file[p] # i
    BY <1>9, <2>1, <2>2, <2>4
  <2> QED BY <2>3, <2>4
<1> QED BY <1>7, <1>8, <1>10, <1>12, <1>13

(* What jiq's readers are promised follows.                                *)
LEMMA JiqPromise == JiqInv => Jq!ReadersWoken /\ Jq!PrintsWhereItShould
<1> SUFFICES ASSUME JiqInv PROVE Jq!PrintsWhereItShould
  BY DEF JiqInv
<1> USE DEF JiqInv
<1>1. Jq!Active("timer") => \E p \in Jq!Reading : jq_file[p] = "timer"
  BY DEF JiqTimer, JiqPlaces, Jq!Reading
<1>2. ASSUME jq_calm, NEW i \in Jq!Items, Jq!Active(i)
      PROVE  \E p \in Jq!Reading :
               /\ jq_file[p] = i /\ jq_data.m = p
               /\ Jq!Runs(i) => jq_running[i].m = p
  BY <1>2 DEF JiqCalm, Jq!Reading
<1> QED BY <1>1, <1>2 DEF Jq!PrintsWhereItShould

(* A reader of one of jiq's work queue files that sleeps is woken by its   *)
(* item.  The timer never outlives its read; and while there is one read   *)
(* at a time, which no signal ends early, what an item prints goes to the  *)
(* read that started it, and the item is done before that read is over.    *)
THEOREM JiqCorrect == DevicesSpec => []JiqPrints
<1>1. Jq!Init => JiqInv
  BY JiqInit
<1>2. JiqInv /\ [Jq!Next]_(Jq!vars) => JiqInv'
  <2>1. CASE Jq!Next
    BY <2>1, JiqReaderStep, JiqItemStep DEF Jq!Next
  <2>2. ASSUME JiqInv, UNCHANGED Jq!vars PROVE JiqInv'
    <3>1. \A i : (Jq!Active(i)' <=> Jq!Active(i)) /\ (Jq!Runs(i)' <=> Jq!Runs(i))
      BY <2>2, JiqQuiet DEF Jq!vars
    <3> QED
      BY <2>2, <3>1
      DEF Jq!vars, JiqInv, JiqTypes, JiqPlaces, JiqIdle, JiqTimer, JiqCalm, Jq!ReadersWoken
  <2> QED BY <2>1, <2>2
<1> QED
  BY <1>1, <1>2, JiqPromise, ComponentsAlone, PTL DEF Jq!Spec, JiqPrints, Jq!vars, jiq_vars
=============================================================================
