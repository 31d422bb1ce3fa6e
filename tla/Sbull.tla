------------------------------- MODULE Sbull -------------------------------
(***************************************************************************)
(* The sbull block driver: one memory disk whose medium is "removed" by a  *)
(* timer when nobody has had it open for a while.  The first open after    *)
(* that notices and blanks the disk.                                       *)
(*                                                                         *)
(* The kernel calls open and release one at a time: the block device's     *)
(* mutex.  The timer's function and the requests run beside them.  Of the  *)
(* data only matters whether it is of a removed medium.  Modelled as built *)
(* for kernels before 5.9: from there on media_changed is not compiled.    *)
(* Loading and unloading, and the geometry ioctl, are left out.            *)
(***************************************************************************)
EXTENDS Integers, Sequences, FiniteSetsExt

CONSTANTS
  Procs,        (* the processes, each with at most one open               *)
  Sectors,      (* the disk's, in KERNEL_SECTOR_SIZE; a set from 0         *)
  Requests,     (* the lists of segments, as the sectors in each           *)
  NoProc        (* the value of a mutex that is free                       *)

VARIABLES
  users, media_change,  (* of struct sbull_dev                             *)
  timer,        (* off, pending or running, waiting for dev->lock          *)
  stale,        (* the sectors that hold data of a removed medium          *)
  written,      (* the sectors that hold data                              *)
  bd_mutex,     (* held by open and release                                *)
  pc, req       (* where each process is; its request, with the copies     *)
                (* made so far: from which segment, at which offset, where *)

vars == <<users, media_change, timer, stale, written, bd_mutex, pc, req>>
medium == <<media_change, stale, written>>

NoRequest == [write |-> FALSE, sector |-> 0, segs |-> <<>>, next |-> 0,
              pos |-> 0, copied |-> {}]

Init ==
  /\ users = 0 /\ media_change = FALSE
  /\ timer = "off"
  /\ stale = {} /\ written = {}
  /\ bd_mutex = NoProc
  /\ pc = [p \in Procs |-> "closed"]
  /\ req = [p \in Procs |-> NoRequest]

Goto(p, l) == pc' = [pc EXCEPT ![p] = l]

-----------------------------------------------------------------------------
(* sbull_open.  The kernel takes the block device's mutex.                 *)
OpenBegins(p) ==
  /\ pc[p] = "closed" /\ bd_mutex = NoProc
  /\ bd_mutex' = p
  /\ Goto(p, "del_timer")
  /\ UNCHANGED <<users, timer, medium, req>>

(* Faulty: del_timer, which does not wait. *)
DelTimerNoWait(p) ==
  /\ pc[p] = "del_timer"
  /\ timer' = IF timer = "pending" THEN "off" ELSE timer
  /\ Goto(p, "open_locked")
  /\ UNCHANGED <<users, medium, bd_mutex, req>>

(* del_timer_sync: the function does not run any more.                     *)
DelTimer(p) ==
  /\ pc[p] = "del_timer" /\ timer # "running"
  /\ timer' = "off"
  /\ Goto(p, "open_locked")
  /\ UNCHANGED <<users, medium, bd_mutex, req>>

(* Faulty: the flag is taken back, the data stays. *)
RevalidateFlagOnly ==
  /\ media_change' = FALSE
  /\ UNCHANGED <<stale, written>>

(* "WE DO NOT TAKE THE LOCK HERE": open has it.                            *)
sbull_revalidate ==
  /\ media_change' = FALSE
  /\ IF media_change THEN stale' = {} /\ written' = {}
                     ELSE UNCHANGED <<stale, written>>

(* Under dev->lock, which the timer's function needs.                      *)
OpenLocked(p) ==
  /\ pc[p] = "open_locked"
  /\ IF users = 0 /\ media_change THEN sbull_revalidate ELSE UNCHANGED medium
  /\ users' = users + 1
  /\ bd_mutex' = NoProc
  /\ Goto(p, "open")
  /\ UNCHANGED <<timer, req>>

(* Faulty: the timer is set by the first who leaves. *)
LastOfTwo(left) == left = 1

Last(left) == left = 0

(* A pending timer that is added again is one the kernel takes for a bug.  *)
sbull_release(p) ==
  /\ pc[p] = "open" /\ bd_mutex = NoProc
  /\ users' = users - 1
  /\ timer' = IF Last(users')
                THEN IF timer = "off" THEN "pending" ELSE "added twice"
                ELSE timer
  /\ Goto(p, "closed")
  /\ UNCHANGED <<medium, bd_mutex, req>>

TimerExpires ==
  /\ timer = "pending" /\ timer' = "running"
  /\ UNCHANGED <<users, medium, bd_mutex, pc, req>>

(* Under dev->lock.                                                        *)
sbull_invalidate ==
  /\ timer = "running" /\ timer' = "off"
  /\ IF users # 0 THEN UNCHANGED medium
                  ELSE media_change' = TRUE /\ stale' = written /\ UNCHANGED written
  /\ UNCHANGED <<users, bd_mutex, pc, req>>

-----------------------------------------------------------------------------
(* A request of somebody who has the device open (RM_SIMPLE), or one bio,  *)
(* of those of a request (RM_FULL) or without the queue (RM_NOQUEUE): each *)
(* segment is transferred, without a lock.                                 *)
RequestBegins(p) ==
  /\ pc[p] = "open"
  /\ \E write \in BOOLEAN, sector \in Sectors, segs \in Requests :
       req' = [req EXCEPT ![p] =
                 [NoRequest EXCEPT !.write = write, !.sector = sector,
                                   !.pos = sector, !.segs = segs, !.next = 1]]
  /\ Goto(p, "request")
  /\ UNCHANGED <<users, timer, medium, bd_mutex>>

(* "Beyond-end write" is skipped, and the request succeeds all the same.   *)
sbull_transfer(pos, n) == {s \in pos .. pos + n - 1 : pos .. pos + n - 1 \subseteq Sectors}

(* Faulty: the position stays. *)
Stays(pos, n) == pos

Advanced(pos, n) == pos + n

(* blk_rq_cur_sectors and bio_cur_bytes are about the first segment, for   *)
(* each segment.                                                           *)
Transfer(p) ==
  LET r == req[p]
      n == r.segs[1]
      target == sbull_transfer(r.pos, n)
  IN  /\ pc[p] = "request" /\ r.next <= Len(r.segs)
      /\ req' = [req EXCEPT ![p] =
                   [r EXCEPT !.next = @ + 1, !.pos = Advanced(@, n),
                             !.copied = @ \cup {<<r.next, s - r.pos, s>> : s \in target}]]
      /\ IF r.write THEN written' = written \cup target /\ stale' = stale \ target
                    ELSE UNCHANGED <<written, stale>>
      /\ UNCHANGED <<users, media_change, timer, bd_mutex, pc>>

RequestEnds(p) ==
  /\ pc[p] = "request" /\ req[p].next > Len(req[p].segs)
  /\ req' = [req EXCEPT ![p] = NoRequest]
  /\ Goto(p, "open")
  /\ UNCHANGED <<users, timer, medium, bd_mutex>>

Next ==
  \/ \E p \in Procs :
       \/ OpenBegins(p) \/ DelTimer(p) \/ OpenLocked(p) \/ sbull_release(p)
       \/ RequestBegins(p) \/ Transfer(p) \/ RequestEnds(p)
  \/ TimerExpires \/ sbull_invalidate

Spec == Init /\ [][Next]_vars

-----------------------------------------------------------------------------
(* users counts the opens, and the timer is never added while it is        *)
(* pending (sbull.c:298, 308-313).                                         *)
TypeOK ==
  /\ users = Cardinality({p \in Procs : pc[p] \in {"open", "request"}})
  /\ timer \in {"off", "pending", "running"}
  /\ media_change \in BOOLEAN
  /\ stale \subseteq written /\ written \subseteq Sectors

(* "timer sanity check failed" is never said: the medium is not removed    *)
(* from under a user (sbull.c:276, 357).                                   *)
TimerSane == timer # "off" => users = 0

(* Nobody reads what was on a medium that has been removed (sbull.c:279).  *)
NewMediumBlank == users > 0 => stale = {} /\ ~ media_change

(* A device that was used and is not is waiting for its removal, has been  *)
(* told of it, or is being opened (sbull.c:310-313).                       *)
RemovalComes ==
  users = 0 /\ written # {} /\ ~ media_change
    => timer # "off" \/ \E p \in Procs : pc[p] = "open_locked"

(* A request of segments of one size puts each sector of each where it     *)
(* belongs; one of several sizes does not (sbull.c:154-164, 182-192).      *)
Equal(segs) == \A i \in DOMAIN segs : segs[i] = segs[1]
Belongs(r) ==
  {<<i, k, r.sector + (i - 1) * r.segs[1] + k>> :
     i \in 1 .. Len(r.segs), k \in 0 .. r.segs[1] - 1}
Placed ==
  \A p \in Procs :
    LET r == req[p]
    IN  pc[p] = "request" /\ r.next > Len(r.segs) /\ Equal(r.segs)
          /\ {c[3] : c \in Belongs(r)} \subseteq Sectors
        => r.copied = Belongs(r)
=============================================================================
