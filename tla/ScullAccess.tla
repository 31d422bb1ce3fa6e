---------------------------- MODULE ScullAccess -----------------------------
(***************************************************************************)
(* The access-controlled scull devices: scullsingle (one open at a time),  *)
(* sculluid (one user at a time), scullwuid (one user at a time, others    *)
(* wait) and scullpriv (one device per terminal).  They differ in open and *)
(* release; what is done with the open device is scull's read and write,   *)
(* of which only the device's semaphore matters here.                      *)
(*                                                                         *)
(* A section under one of the spinlocks that does not sleep is one step.   *)
(* The lookup of a scullpriv device allocates memory under its spinlock and *)
(* is two steps, which the lock keeps others out of.  A process has at     *)
(* most one of the devices open.                                           *)
(***************************************************************************)
EXTENDS Integers, Sequences, FiniteSets, Processes

CONSTANTS
  Uid, Euid,    (* of each process                                         *)
  Root,         (* the processes capable(CAP_DAC_OVERRIDE)                 *)
  Ttys,         (* the terminals each process may have, or be without one  *)
  NoTty

VARIABLES
  scull_s_available,          (* the atomic counter                        *)
  scull_u, scull_w,           (* count and owner of the two uid devices    *)
  scull_w_wait,               (* the processes in the wait queue           *)
  scull_c_list, scull_c_lock, (* the terminals with a device, and the lock *)
  lock,                       (* dev->lock of each struct scull_dev        *)
  pc,                         (* where each process is                     *)
  file                        (* the device it opens or has open, how      *)

Kinds == {"single", "uid", "wuid", "priv"}

vars == <<scull_s_available, scull_u, scull_w, scull_w_wait, scull_c_list,
          scull_c_lock, lock, pc, file>>

Devs == (Kinds \ {"priv"}) \cup UNION {Ttys[p] : p \in Procs}
NoFile == [dev |-> "none", kind |-> "none", wronly |-> FALSE, nonblock |-> FALSE]

Init ==
  /\ scull_s_available = 1
  /\ scull_u = [count |-> 0, owner |-> 0]
  /\ scull_w = [count |-> 0, owner |-> 0]
  /\ scull_w_wait = {}
  /\ scull_c_list = <<>> /\ scull_c_lock = NoProc
  /\ lock = [d \in Devs |-> NoProc]
  /\ pc = [p \in Procs |-> "user"]
  /\ file = [p \in Procs |-> NoFile]

Goto(p, l) == pc' = [pc EXCEPT ![p] = l]

(* open returns an error.                                                  *)
Refused(p) == Goto(p, "user") /\ file' = [file EXCEPT ![p] = NoFile]

(* "then, everything else is copied from the bare scull device": a device  *)
(* opened write-only is trimmed, without its semaphore.                    *)
Granted(p) ==
  /\ Goto(p, IF file[p].wronly THEN "trim" ELSE "open")
  /\ file' = [file EXCEPT ![p].wronly = FALSE, ![p].nonblock = FALSE]

(* What open is told, as far as it looks at it: O_NONBLOCK matters to      *)
(* scullwuid and the controlling terminal to scullpriv.                    *)
open(p, kind, wronly, nonblock, tty) ==
  /\ pc[p] = "user" /\ file[p] = NoFile
  /\ nonblock => kind = "wuid"
  /\ file' = [file EXCEPT ![p] =
                [dev |-> IF kind = "priv" THEN tty ELSE kind,
                 kind |-> kind, wronly |-> wronly, nonblock |-> nonblock]]
  /\ Goto(p, kind)
  /\ UNCHANGED <<scull_s_available, scull_u, scull_w, scull_w_wait,
                 scull_c_list, scull_c_lock, lock>>

scull_trim(p) ==
  /\ pc[p] = "trim"
  /\ Goto(p, "open")
  /\ UNCHANGED <<scull_s_available, scull_u, scull_w, scull_w_wait,
                 scull_c_list, scull_c_lock, lock, file>>

(* scull_read or scull_write on the open device, under its semaphore.      *)
BeginUse(p) ==
  /\ pc[p] = "open" /\ lock[file[p].dev] = NoProc
  /\ lock' = [lock EXCEPT ![file[p].dev] = p]
  /\ Goto(p, "use")
  /\ UNCHANGED <<scull_s_available, scull_u, scull_w, scull_w_wait,
                 scull_c_list, scull_c_lock, file>>

EndUse(p) ==
  /\ pc[p] = "use"
  /\ lock' = [lock EXCEPT ![file[p].dev] = NoProc]
  /\ Goto(p, "open")
  /\ UNCHANGED <<scull_s_available, scull_u, scull_w, scull_w_wait,
                 scull_c_list, scull_c_lock, file>>

Closing(p, kind) == pc[p] = "open" /\ file[p].kind = kind

-----------------------------------------------------------------------------
(* Faulty: the counter is compared with less than it should be, or is not  *)
(* put back.                                                               *)
OpenIfNotPositive(p) ==
  /\ pc[p] = "single"
  /\ scull_s_available' = scull_s_available - 1
  /\ Granted(p)
  /\ UNCHANGED <<scull_u, scull_w, scull_w_wait, scull_c_list, scull_c_lock,
                 lock>>

BusyKeeps(p) ==
  /\ pc[p] = "busy"
  /\ Refused(p)
  /\ UNCHANGED <<scull_s_available, scull_u, scull_w, scull_w_wait,
                 scull_c_list, scull_c_lock, lock>>

(* scullsingle: atomic_dec_and_test, and atomic_inc if it was not free.    *)
scull_s_open(p) ==
  /\ pc[p] = "single"
  /\ scull_s_available' = scull_s_available - 1
  /\ IF scull_s_available' = 0 THEN Granted(p)
                               ELSE Goto(p, "busy") /\ UNCHANGED file
  /\ UNCHANGED <<scull_u, scull_w, scull_w_wait, scull_c_list, scull_c_lock,
                 lock>>

scull_s_busy(p) ==
  /\ pc[p] = "busy"
  /\ scull_s_available' = scull_s_available + 1
  /\ Refused(p)
  /\ UNCHANGED <<scull_u, scull_w, scull_w_wait, scull_c_list, scull_c_lock,
                 lock>>

scull_s_release(p) ==
  /\ Closing(p, "single")
  /\ scull_s_available' = scull_s_available + 1
  /\ Refused(p)
  /\ UNCHANGED <<scull_u, scull_w, scull_w_wait, scull_c_list, scull_c_lock,
                 lock>>

-----------------------------------------------------------------------------
(* The owner is whoever found the count at 0.                              *)
Allowed(p, owner) == p \in Root \/ owner \in {Uid[p], Euid[p]}

(* Faulty: an open is not counted, or changes the owner each time. *)
GrabbedUncounted(p, d) == [d EXCEPT !.owner = Uid[p]]
GrabbedByLast(p, d) == [count |-> d.count + 1, owner |-> Uid[p]]

Grabbed(p, d) ==
  [count |-> d.count + 1, owner |-> IF d.count = 0 THEN Uid[p] ELSE d.owner]

scull_u_open(p) ==
  /\ pc[p] = "uid"
  /\ IF scull_u.count # 0 /\ ~ Allowed(p, scull_u.owner)
       THEN Refused(p) /\ UNCHANGED scull_u
       ELSE Granted(p) /\ scull_u' = Grabbed(p, scull_u)
  /\ UNCHANGED <<scull_s_available, scull_w, scull_w_wait, scull_c_list,
                 scull_c_lock, lock>>

scull_u_release(p) ==
  /\ Closing(p, "uid")
  /\ scull_u' = [scull_u EXCEPT !.count = @ - 1]
  /\ Refused(p)
  /\ UNCHANGED <<scull_s_available, scull_w, scull_w_wait, scull_c_list,
                 scull_c_lock, lock>>

-----------------------------------------------------------------------------
WaitUnchanged ==
  UNCHANGED <<scull_s_available, scull_u, scull_c_list, scull_c_lock, lock>>

scull_w_available(p) == scull_w.count = 0 \/ Allowed(p, scull_w.owner)

scull_w_open(p) ==
  /\ pc[p] = "wuid"
  /\ CASE scull_w_available(p) -> Granted(p) /\ scull_w' = Grabbed(p, scull_w)
       [] ~ scull_w_available(p) ->
            /\ UNCHANGED scull_w
            /\ IF file[p].nonblock
                 THEN Refused(p) ELSE Goto(p, "prepare") /\ UNCHANGED file
  /\ UNCHANGED scull_w_wait /\ WaitUnchanged

(* wait_event_interruptible(scull_w_wait, scull_w_available()), without    *)
(* the spinlock: the count is read, then the owner.                        *)
WaitPrepare(p) ==
  /\ pc[p] = "prepare"
  /\ scull_w_wait' = scull_w_wait \cup {p}
  /\ Goto(p, "test_count")
  /\ UNCHANGED <<scull_w, file>> /\ WaitUnchanged

WaitTest(p) ==
  LET available == \/ pc[p] = "test_count" /\ scull_w.count = 0
                   \/ pc[p] = "test_owner" /\ Allowed(p, scull_w.owner)
  IN  /\ pc[p] \in {"test_count", "test_owner"}
      /\ IF available
           THEN scull_w_wait' = scull_w_wait \ {p} /\ Goto(p, "wuid")
           ELSE /\ UNCHANGED scull_w_wait
                /\ Goto(p, IF pc[p] = "test_count" THEN "test_owner" ELSE "sleep")
      /\ UNCHANGED <<scull_w, file>> /\ WaitUnchanged

Woken(p) ==
  /\ pc[p] = "sleep" /\ p \notin scull_w_wait
  /\ Goto(p, "prepare")
  /\ UNCHANGED <<scull_w, scull_w_wait, file>> /\ WaitUnchanged

Interrupted(p) ==
  /\ pc[p] = "sleep"
  /\ scull_w_wait' = scull_w_wait \ {p}
  /\ Refused(p)
  /\ UNCHANGED scull_w /\ WaitUnchanged

scull_w_release(p) ==
  /\ Closing(p, "wuid")
  /\ scull_w' = [scull_w EXCEPT !.count = @ - 1]
  /\ Goto(p, IF scull_w'.count = 0 THEN "wake" ELSE "user")
  /\ file' = [file EXCEPT ![p] = NoFile]
  /\ UNCHANGED scull_w_wait /\ WaitUnchanged

(* Faulty: one waiter is woken, not all. *)
WakeOne(p) ==
  /\ pc[p] = "wake"
  /\ scull_w_wait' = IF scull_w_wait = {} THEN {}
                     ELSE scull_w_wait \ {CHOOSE q \in scull_w_wait : TRUE}
  /\ Goto(p, "user")
  /\ UNCHANGED <<scull_w, file>> /\ WaitUnchanged

Wake(p) ==
  /\ pc[p] = "wake"
  /\ scull_w_wait' = {}
  /\ Goto(p, "user")
  /\ UNCHANGED <<scull_w, file>> /\ WaitUnchanged

-----------------------------------------------------------------------------
CloneUnchanged ==
  UNCHANGED <<scull_s_available, scull_u, scull_w, scull_w_wait, lock>>

HasDevice(key) == \E i \in DOMAIN scull_c_list : scull_c_list[i] = key

(* Faulty: the list is searched without the lock. *)
OpenUnlocked(p) ==
  /\ pc[p] = "priv"
  /\ IF HasDevice(file[p].dev)
       THEN Granted(p) ELSE Goto(p, "alloc") /\ UNCHANGED file
  /\ UNCHANGED <<scull_c_list, scull_c_lock>> /\ CloneUnchanged

(* The list is searched under scull_c_lock; kmalloc, under it too, is a    *)
(* step of its own.                                                        *)
scull_c_open(p) ==
  /\ pc[p] = "priv"
  /\ IF file[p].dev = NoTty
       THEN Refused(p) /\ UNCHANGED scull_c_lock
       ELSE /\ scull_c_lock = NoProc
            /\ IF HasDevice(file[p].dev)
                 THEN Granted(p) /\ UNCHANGED scull_c_lock
                 ELSE scull_c_lock' = p /\ Goto(p, "alloc") /\ UNCHANGED file
  /\ UNCHANGED scull_c_list /\ CloneUnchanged

scull_c_lookfor_device(p) ==
  /\ pc[p] = "alloc"
  /\ scull_c_lock' = NoProc
  /\ \/ scull_c_list' = <<file[p].dev>> \o scull_c_list /\ Granted(p)
     \/ UNCHANGED scull_c_list /\ Refused(p)
  /\ CloneUnchanged

scull_c_release(p) ==
  /\ Closing(p, "priv")
  /\ Refused(p)
  /\ UNCHANGED <<scull_c_list, scull_c_lock>> /\ CloneUnchanged

(* The module is unloaded, which an open file prevents, and loaded again.  *)
scull_access_cleanup ==
  /\ \A p \in Procs : pc[p] = "user"
  /\ scull_s_available' = 1
  /\ scull_u' = [count |-> 0, owner |-> 0] /\ scull_w' = scull_u'
  /\ scull_w_wait' = {}
  /\ scull_c_list' = <<>>
  /\ UNCHANGED <<scull_c_lock, lock, pc, file>>

Next ==
  \/ scull_access_cleanup
  \/ \E p \in Procs :
       \/ \E kind \in Kinds, wronly, nonblock \in BOOLEAN, tty \in Ttys[p] :
            open(p, kind, wronly, nonblock, tty)
       \/ scull_trim(p) \/ BeginUse(p) \/ EndUse(p)
       \/ scull_s_open(p) \/ scull_s_busy(p) \/ scull_s_release(p)
       \/ scull_u_open(p) \/ scull_u_release(p)
       \/ scull_w_open(p) \/ WaitPrepare(p) \/ WaitTest(p) \/ Woken(p)
       \/ Interrupted(p) \/ scull_w_release(p) \/ Wake(p)
       \/ scull_c_open(p) \/ scull_c_lookfor_device(p) \/ scull_c_release(p)

Spec == Init /\ [][Next]_vars

-----------------------------------------------------------------------------
States == {"user", "trim", "open", "use", "busy", "prepare", "test_count",
           "test_owner", "sleep", "wake", "alloc"} \cup Kinds

(* The processes that have a device of a kind open. *)
Openers(kind) ==
  {p \in Procs : file[p].kind = kind /\ pc[p] \in {"trim", "open", "use"}}

(* Every variable has its type, and the counts are the numbers of openers. *)
TypeOK ==
  /\ scull_w_wait \subseteq Procs
  /\ scull_u.count = Cardinality(Openers("uid"))
  /\ scull_w.count = Cardinality(Openers("wuid"))
  /\ \A p \in Procs :
       /\ pc[p] \in States
       /\ pc[p] = "user" => file[p] = NoFile
       /\ pc[p] = "use" <=> \E d \in Devs : lock[d] = p

(* scullsingle is open at most once, though a refused open moves the       *)
(* counter before it puts it back; and once everybody is done the counter  *)
(* is 1 again, so that the device can be opened (access.c:59-62, 73).      *)
(* The trim that open makes without the semaphore, which "must be held",   *)
(* is therefore alone (66).                                                *)
SingleOpen ==
  /\ Cardinality(Openers("single")) <= 1
  /\ scull_s_available = 1 - Cardinality(Openers("single"))
                           - Cardinality({p \in Procs : pc[p] = "busy"})

(* "access is denied to other users if the device is open": who has it     *)
(* open is root or, by uid or euid, the user who opened it when it was     *)
(* free (access.c:94-128, 165-196).                                        *)
OneUser ==
  /\ \A p \in Openers("uid") : Allowed(p, scull_u.owner)
  /\ \A p \in Openers("wuid") : Allowed(p, scull_w.owner)

(* No lost wakeup: whoever sleeps in the open of scullwuid, and might      *)
(* open it, will be woken (access.c:182, 207-208).                         *)
WaitersWoken ==
  \A p \in scull_w_wait :
    pc[p] = "sleep" /\ scull_w_available(p) => \E q \in Procs : pc[q] = "wake"

(* Each terminal has one scullpriv device, so that two opens from it get   *)
(* the same one: "the list of devices, and a lock to protect it".          *)
OneDevicePerTty ==
  \A i, j \in DOMAIN scull_c_list : scull_c_list[i] = scull_c_list[j] => i = j
=============================================================================
