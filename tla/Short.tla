------------------------------- MODULE Short -------------------------------
(***************************************************************************)
(* The interrupt-driven node of the short driver.  Each interrupt leaves a *)
(* time stamp in a circular text buffer that the device's reader empties.  *)
(* The handler stores it itself, or leaves it in tv_data to a bottom half, *)
(* a work item or a tasklet.                                               *)
(*                                                                         *)
(* Nothing takes a lock: the handler, the bottom half and the reader       *)
(* interleave between any two accesses to what they share.  One reader is  *)
(* modelled; two of them read the same bytes and pass the head.  What a    *)
(* record says is left out, short_wq_count with it, which is only printed, *)
(* and so is the string terminator after the record.  The nodes that       *)
(* transfer bytes to the ports share no state.                             *)
(***************************************************************************)
EXTENDS Integers, FiniteSets

CONSTANTS
  PageSize,     (* of the text buffer                                      *)
  RecordLen,    (* of a record: 16 bytes in the code                       *)
  NR_TIMEVAL,   (* length of the array of time values                      *)
  Counts        (* what a read may ask for                                 *)

VARIABLES
  module,       (* unloaded, loading, loaded, or how far it is unloaded    *)
  param,        (* the handler the load parameters ask for                 *)
  handler,      (* the handler that is installed, or none                  *)
  ring,         (* the text buffer: head, tail, and the bytes stored since *)
                (* they were last read; whether the head passed the tail   *)
                (* in the middle of a read, since it was empty             *)
  tv,           (* tv_head and tv_tail                                     *)
  top, bottom,  (* where the handler is; whether the bottom half is        *)
                (* scheduled, and where it is                              *)
  short_queue,  (* whether the reader is in the wait queue                 *)
  pc, count     (* where the reader is; what it asked for, then may get    *)

vars == <<module, param, handler, ring, tv, top, bottom, short_queue, pc,
          count>>
device == <<ring, tv>>
interrupt == <<top, bottom>>
reader == <<short_queue, pc, count>>

BottomHalves == {"workqueue", "tasklet"}
Handlers == {"plain", "shared"} \cup BottomHalves

EmptyRing == [head |-> 0, tail |-> 0, unread |-> {}, passed |-> FALSE]
Idle == top = "idle" /\ bottom = [scheduled |-> FALSE, pc |-> "idle"]

Init ==
  /\ module = "unloaded" /\ param \in Handlers /\ handler = "none"
  /\ ring = EmptyRing /\ tv = [head |-> 0, tail |-> 0]
  /\ Idle
  /\ short_queue = FALSE /\ pc = "closed" /\ count = 0

-----------------------------------------------------------------------------
(* Faulty: an index at the end of the page is not wrapped. *)
WrappedLate(index, delta) ==
  IF index + delta > PageSize THEN 0 ELSE index + delta

incr_bp(index, delta) ==
  IF index + delta >= PageSize THEN 0 ELSE index + delta

incr_tv(index) == IF index = NR_TIMEVAL - 1 THEN 0 ELSE index + 1

Bytes(from, n) == from .. from + n - 1

(* How much is between tail and head.                                      *)
Unread(r) == (r.head - r.tail + PageSize) % PageSize

(* A record is stored at the head, over what may not have been read yet.   *)
StoreRecord(r) ==
  [r EXCEPT !.head = incr_bp(@, RecordLen),
            !.unread = @ \cup Bytes(r.head, RecordLen),
            !.passed = @ \/ /\ pc \in {"copy", "advance"}
                            /\ PageSize - Unread(r) <= RecordLen]

(* Faulty: the bytes at the start of the page are counted as well. *)
ReadableAcross(r) ==
  IF r.head >= r.tail THEN r.head - r.tail ELSE PageSize - r.tail + r.head

(* The bytes to read, up to the end of the page.                           *)
Readable(r) ==
  IF r.head >= r.tail THEN r.head - r.tail ELSE PageSize - r.tail

-----------------------------------------------------------------------------
(* short_init registers the device, then the plain handler or the shared   *)
(* one.  A line that is not granted leaves the device without.             *)
short_init ==
  /\ module = "unloaded"
  /\ param' \in Handlers
  /\ handler' \in {IF param' = "shared" THEN "shared" ELSE "plain", "none"}
  /\ module' = IF handler' # "none" /\ param' \in BottomHalves
                 THEN "loading" ELSE "loaded"
  /\ ring' = EmptyRing /\ tv' = [head |-> 0, tail |-> 0]
  /\ top' = "idle" /\ bottom' = [scheduled |-> FALSE, pc |-> "idle"]
  /\ UNCHANGED reader

(* "Now change the interrupt handler if using top/bottom halves": free_irq *)
(* waits for the handler.                                                  *)
ChangeHandler ==
  /\ module = "loading" /\ top = "idle"
  /\ handler' \in {param, "none"}
  /\ module' = "loaded"
  /\ UNCHANGED <<param, device, interrupt, reader>>

FreeIrq ==
  /\ module = "loaded" /\ pc = "closed" /\ top = "idle"
  /\ handler' = "none" /\ module' = "irq_freed"
  /\ UNCHANGED <<param, device, interrupt, reader>>

(* tasklet_disable waits for the tasklet that runs, and leaves one that is *)
(* scheduled; flush_scheduled_work waits for both.                         *)
StopBottomHalf ==
  /\ module = "irq_freed" /\ bottom.pc = "idle"
  /\ param = "tasklet" \/ ~ bottom.scheduled
  /\ module' = "unloaded"
  /\ UNCHANGED <<param, handler, device, interrupt, reader>>

-----------------------------------------------------------------------------
(* The handlers.  short_sh_interrupt does what short_interrupt does if the *)
(* interrupt is the port's, and nothing otherwise.                         *)
TopUnchanged == UNCHANGED <<module, param, handler, pc, count>>

StoreStamp ==
  /\ handler \in {"plain", "shared"} /\ top = "idle"
  /\ ring' = StoreRecord(ring)
  /\ top' = "wake"
  /\ UNCHANGED <<tv, bottom, short_queue>> /\ TopUnchanged

WakeReader ==
  /\ top = "wake"
  /\ short_queue' = FALSE
  /\ top' = "idle"
  /\ UNCHANGED <<device, bottom>> /\ TopUnchanged

(* short_wq_interrupt and short_tl_interrupt.                              *)
LeaveStamp ==
  /\ handler \in BottomHalves /\ top = "idle"
  /\ tv' = [tv EXCEPT !.head = incr_tv(@)]
  /\ top' = "schedule"
  /\ UNCHANGED <<ring, bottom, short_queue>> /\ TopUnchanged

Schedule ==
  /\ top = "schedule"
  /\ bottom' = [bottom EXCEPT !.scheduled = TRUE]
  /\ top' = "idle"
  /\ UNCHANGED <<device, short_queue>> /\ TopUnchanged

(* short_do_tasklet first writes a record of the number of interrupts.     *)
BottomUnchanged == UNCHANGED <<module, param, handler, top, pc, count>>

BottomBegins ==
  /\ module # "unloaded" /\ bottom.scheduled /\ bottom.pc = "idle"
  /\ bottom' = [scheduled |-> FALSE, pc |-> "print"]
  /\ ring' = StoreRecord(ring)
  /\ UNCHANGED <<tv, short_queue>> /\ BottomUnchanged

(* Faulty: one stamp is printed each time. *)
BottomPrintsOne ==
  /\ bottom.pc = "print"
  /\ ring' = StoreRecord(ring)
  /\ tv' = [tv EXCEPT !.tail = incr_tv(@)]
  /\ bottom' = [bottom EXCEPT !.pc = "wake"]
  /\ UNCHANGED short_queue /\ BottomUnchanged

(* A stamp is printed before the tail is compared with the head: if the    *)
(* loop of the call before had the last stamp already, all of tv_data is   *)
(* printed again.                                                          *)
BottomPrints ==
  /\ bottom.pc = "print"
  /\ ring' = StoreRecord(ring)
  /\ tv' = [tv EXCEPT !.tail = incr_tv(@)]
  /\ bottom' = [bottom EXCEPT !.pc = IF tv'.tail = tv.head THEN "wake" ELSE @]
  /\ UNCHANGED short_queue /\ BottomUnchanged

BottomWakes ==
  /\ bottom.pc = "wake"
  /\ bottom' = [bottom EXCEPT !.pc = "idle"]
  /\ short_queue' = FALSE
  /\ UNCHANGED device /\ BottomUnchanged

-----------------------------------------------------------------------------
(* The reader: short_i_read.                                               *)
ReadUnchanged == UNCHANGED <<module, param, handler, tv, interrupt>>

short_open ==
  /\ module \in {"loading", "loaded"} /\ pc = "closed"
  /\ pc' = "user"
  /\ UNCHANGED <<ring, short_queue, count>> /\ ReadUnchanged

short_release ==
  /\ pc = "user" /\ pc' = "closed"
  /\ UNCHANGED <<ring, short_queue, count>> /\ ReadUnchanged

ReadBegins ==
  /\ pc = "user"
  /\ count' \in Counts
  /\ pc' = "while"
  /\ UNCHANGED <<ring, short_queue>> /\ ReadUnchanged

ReadWhile ==
  /\ pc = "while"
  /\ pc' = IF ring.head = ring.tail THEN "prepare" ELSE "count"
  /\ UNCHANGED <<ring, short_queue, count>> /\ ReadUnchanged

ReadPrepare ==
  /\ pc = "prepare"
  /\ short_queue' = TRUE /\ pc' = "test"
  /\ UNCHANGED <<ring, count>> /\ ReadUnchanged

(* Faulty: the buffer is not looked at again once in the queue. *)
ReadSleeps ==
  /\ pc = "test"
  /\ pc' = "sleep"
  /\ UNCHANGED <<ring, short_queue, count>> /\ ReadUnchanged

ReadTest ==
  /\ pc = "test"
  /\ pc' = IF ring.head = ring.tail THEN "sleep" ELSE "finish"
  /\ UNCHANGED <<ring, short_queue, count>> /\ ReadUnchanged

ReadWoken ==
  /\ pc = "sleep" /\ ~ short_queue
  /\ pc' = "finish"
  /\ UNCHANGED <<ring, short_queue, count>> /\ ReadUnchanged

(* finish_wait; a signal ends the read, and ends the sleep too.            *)
ReadFinishes ==
  /\ short_queue' = FALSE
  /\ \/ pc = "finish" /\ pc' = "while" /\ UNCHANGED count
     \/ pc \in {"sleep", "finish"} /\ pc' = "user" /\ count' = 0
  /\ UNCHANGED ring /\ ReadUnchanged

ReadCount ==
  /\ pc = "count"
  /\ count' = IF Readable(ring) < count THEN Readable(ring) ELSE count
  /\ pc' = "copy"
  /\ UNCHANGED <<ring, short_queue>> /\ ReadUnchanged

ReadCopy ==
  /\ pc = "copy"
  /\ ring' = [ring EXCEPT !.unread = @ \ Bytes(ring.tail, count)]
  /\ pc' = "advance"
  /\ UNCHANGED <<short_queue, count>> /\ ReadUnchanged

(* A fault while copying leaves the tail where it is; nothing is read.     *)
ReadFaults ==
  /\ pc = "copy"
  /\ pc' = "user" /\ count' = 0
  /\ UNCHANGED <<ring, short_queue>> /\ ReadUnchanged

ReadAdvance ==
  /\ pc = "advance"
  /\ ring' = [ring EXCEPT !.tail = incr_bp(@, count),
                           !.passed = @ /\ ring.head # incr_bp(ring.tail, count)]
  /\ pc' = "user" /\ count' = 0
  /\ UNCHANGED short_queue /\ ReadUnchanged

Next ==
  \/ short_init \/ ChangeHandler \/ FreeIrq \/ StopBottomHalf
  \/ StoreStamp \/ WakeReader \/ LeaveStamp \/ Schedule
  \/ BottomBegins \/ BottomPrints \/ BottomWakes
  \/ short_open \/ short_release
  \/ ReadBegins \/ ReadWhile \/ ReadPrepare \/ ReadTest \/ ReadWoken \/ ReadFinishes
  \/ ReadCount \/ ReadCopy \/ ReadFaults \/ ReadAdvance

Spec == Init /\ [][Next]_vars

-----------------------------------------------------------------------------
(* "Write exactly 16 bytes at a time, so it aligns with PAGE_SIZE": both   *)
(* indices are in the page, the head where a whole record fits             *)
(* (short.c:405-408).                                                      *)
TypeOK ==
  /\ ring.tail \in 0 .. PageSize - 1
  /\ ring.head \in 0 .. PageSize - RecordLen /\ ring.head % RecordLen = 0
  /\ {tv.head, tv.tail} \subseteq 0 .. NR_TIMEVAL - 1
  /\ pc # "closed" => module \in {"loading", "loaded"}

(* However far interrupts overrun the reader between its reads, what is    *)
(* between tail and head, and what a read is about to copy, was stored and *)
(* is not returned twice (short.c:300-308).                                *)
Pending ==
  IF ring.head >= ring.tail THEN ring.tail .. ring.head - 1
                            ELSE 0 .. PageSize - 1 \ ring.head .. ring.tail - 1
Copied == IF pc = "advance" THEN Bytes(ring.tail, count) ELSE {}
ReadsFresh ==
  ~ ring.passed =>
    /\ Pending \ Copied \subseteq ring.unread
    /\ pc = "copy" => Bytes(ring.tail, count) \subseteq ring.unread

(* "Awake any reading process": the reader does not sleep while there is   *)
(* something to read and nobody is about to wake it (short.c:292-296).     *)
ReaderWoken ==
  pc = "sleep" /\ short_queue /\ ring.head # ring.tail
    => top = "wake" \/ bottom.pc \in {"print", "wake"}

(* "Don't worry about multiple enqueueing": a stamp that was left to the   *)
(* bottom half is one it will see, when it was scheduled while it ran, too *)
(* (short.c:416, 428).                                                     *)
StampsPrinted ==
  module \in {"loading", "loaded"} /\ tv.head # tv.tail
    => top = "schedule" \/ bottom.scheduled \/ bottom.pc = "print"
=============================================================================
