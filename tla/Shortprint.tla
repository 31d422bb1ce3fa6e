----------------------------- MODULE Shortprint -----------------------------
(***************************************************************************)
(* The shortprint driver.  Writers fill the output buffer under a mutex; a *)
(* work item prints one byte each time it runs.  It is queued by the       *)
(* printer's interrupt and, in case one is missed, by a timer.  Each time  *)
(* it also leaves a time stamp in an input buffer; that and shortp_read    *)
(* are the same code as in short, and modelled there.                      *)
(*                                                                         *)
(* A section under shortp_out_lock is one step; outside of it the writers, *)
(* the work item, the timer function and the interrupt handler interleave. *)
(* Waiting is prepare, test, sleep, as in ScullPipe.  Loading the module   *)
(* is one step: nobody opens the device before it has finished.            *)
(***************************************************************************)
EXTENDS Integers, Sequences

CONSTANTS
  Procs,        (* the processes that use the device                       *)
  PageSize,     (* of the output buffer                                    *)
  NoProc,       (* the value of the mutex while it is free                 *)
  Writes,       (* the byte sequences a write may be given                 *)
  NoByte        (* a byte of the page that nothing was written to          *)

ASSUME NoProcAssumption == NoProc \notin Procs
ASSUME PrinterAssumption == "printer" \notin Procs
ASSUME PageSizeAssumption == PageSize \in Nat /\ PageSize > 2

BytesOf(s) == {s[i] : i \in DOMAIN s}
WrittenBytes == UNION {BytesOf(d) : d \in Writes}

(* A write of no bytes takes and releases the mutex, and is left out.      *)
ASSUME WritesAssumption == Writes \subseteq Seq(WrittenBytes) \ {<<>>}

VARIABLES
  module,                 (* loaded, or how far it is unloaded             *)
  shortp_out,             (* the output buffer: its page, head and tail    *)
  shortp_out_mutex,
  shortp_output_active,
  shortp_timer, timeout,  (* pending or off; where shortp_timeout is       *)
  shortp_work, strobed,   (* queued; where it is; the byte it printed      *)
  printer,                (* busy; its acknowledge line is pulsed; history:*)
                          (* the interrupt for its last byte was missed    *)
  shortp_out_queue, shortp_empty_queue,
  pc, call                (* where each process is, and its arguments      *)

vars == <<module, shortp_out, shortp_out_mutex, shortp_output_active,
          shortp_timer, timeout, shortp_work, strobed, printer,
          shortp_out_queue, shortp_empty_queue, pc, call>>
output == <<shortp_out, shortp_output_active, shortp_timer, timeout,
            shortp_work, strobed, printer>>
writers == <<shortp_out_mutex, shortp_out_queue>>
procs == <<pc, call>>
queues == <<shortp_out_queue, shortp_empty_queue>>

NoCall == <<>>
EmptyPage ==
  [page |-> [i \in 0 .. PageSize - 1 |-> NoByte], head |-> 0, tail |-> 0]

Init ==
  /\ module = "unloaded"
  /\ shortp_out = EmptyPage
  /\ shortp_out_mutex = NoProc
  /\ shortp_output_active = FALSE
  /\ shortp_timer = "off" /\ timeout = "idle"
  /\ shortp_work = [queued |-> FALSE, pc |-> "idle"] /\ strobed = <<>>
  /\ printer = [busy |-> FALSE, ack |-> FALSE, missed |-> FALSE]
  /\ shortp_out_queue = {} /\ shortp_empty_queue = {}
  /\ pc = [p \in Procs |-> "closed"]
  /\ call = [p \in Procs |-> NoCall]

-----------------------------------------------------------------------------
(* Faulty: the page is filled to its last byte. *)
SpaceToEnd(out) ==
  IF out.head >= out.tail THEN PageSize - out.head
                          ELSE out.tail - out.head - 1

(* The contiguous space: one byte is always left, so that head is tail     *)
(* only when the buffer is empty.                                          *)
shortp_out_space(out) ==
  CASE out.head < out.tail -> out.tail - out.head - 1
    [] out.tail = 0 -> PageSize - out.head - 1
    [] OTHER -> PageSize - out.head

(* Faulty: only an index past the end is wrapped. *)
IncrWrapsLate(bp, n) == IF bp + n > PageSize THEN bp + n - PageSize ELSE bp + n

incr_out_bp(bp, n) == (bp + n) % PageSize

(* "Minimum space before waking up a writer".                              *)
SP_MIN_SPACE == PageSize \div 2
Roomy(out) == (PageSize + out.tail - out.head) % PageSize > SP_MIN_SPACE

Goto(p, l) == pc' = [pc EXCEPT ![p] = l]
Leave(p) == Goto(p, "user") /\ call' = [call EXCEPT ![p] = NoCall]

(* queue_work does nothing to a work item that is queued already.          *)
QueueWork == shortp_work' = [shortp_work EXCEPT !.queued = TRUE]

-----------------------------------------------------------------------------
shortp_init ==
  /\ module = "unloaded"
  /\ module' = "loaded"
  /\ shortp_out' = EmptyPage
  /\ shortp_out_mutex' = NoProc
  /\ shortp_output_active' = FALSE
  /\ shortp_timer' = "off" /\ timeout' = "idle"
  /\ shortp_work' = [queued |-> FALSE, pc |-> "idle"] /\ strobed' = <<>>
  /\ UNCHANGED <<printer, queues, pc, call>>

(* Unloading: the interrupt is freed; the timer deleted if output is       *)
(* active, when its function has ended; the work queue flushed.            *)
FreeIrq ==
  /\ module = "loaded" /\ \A p \in Procs : pc[p] = "closed"
  /\ module' = "irq_freed"
  /\ UNCHANGED <<output, writers, shortp_empty_queue, procs>>

DelTimer ==
  /\ module = "irq_freed"
  /\ IF shortp_output_active
       THEN timeout = "idle" /\ shortp_timer' = "off"
       ELSE UNCHANGED shortp_timer
  /\ module' = "timer_deleted"
  /\ UNCHANGED <<shortp_out, shortp_output_active, timeout,
                 shortp_work, strobed, printer, writers, shortp_empty_queue,
                 procs>>

FlushWork ==
  /\ module = "timer_deleted"
  /\ ~ shortp_work.queued /\ shortp_work.pc = "idle"
  /\ module' = "unloaded"
  /\ UNCHANGED <<output, writers, shortp_empty_queue, procs>>

-----------------------------------------------------------------------------
(* Processes.                                                              *)
shortp_open(p) ==
  /\ module = "loaded" /\ pc[p] = "closed"
  /\ Goto(p, "user")
  /\ UNCHANGED <<module, output, writers, shortp_empty_queue, call>>

(* shortp_release waits until output ends, or for a signal.                *)
ReleasePrepare(p) ==
  /\ pc[p] = "user"
  /\ shortp_empty_queue' = shortp_empty_queue \cup {p}
  /\ Goto(p, "release_test")
  /\ UNCHANGED <<module, output, writers, call>>

ReleaseTest(p) ==
  /\ pc[p] = "release_test"
  /\ IF shortp_output_active
       THEN Goto(p, "release_sleep") /\ UNCHANGED shortp_empty_queue
       ELSE /\ Goto(p, "closed")
            /\ shortp_empty_queue' = shortp_empty_queue \ {p}
  /\ UNCHANGED <<module, output, writers, call>>

ReleaseWakes(p) ==
  /\ pc[p] = "release_sleep"
  /\ \/ /\ p \notin shortp_empty_queue
        /\ shortp_empty_queue' = shortp_empty_queue \cup {p}
        /\ Goto(p, "release_test")
     \/ /\ Goto(p, "closed")
        /\ shortp_empty_queue' = shortp_empty_queue \ {p}
  /\ UNCHANGED <<module, output, writers, call>>

-----------------------------------------------------------------------------
(* shortp_write.  call is what is left to write and the piece that is      *)
(* accepted at a time.                                                     *)
WriteUnchanged == UNCHANGED <<module, shortp_empty_queue>>

WriteLock(p) ==
  /\ pc[p] = "user" /\ shortp_out_mutex = NoProc
  /\ shortp_out_mutex' = p
  /\ \E d \in Writes :
       call' = [call EXCEPT ![p] = [data |-> d, piece |-> <<>>]]
  /\ Goto(p, "write_space")
  /\ UNCHANGED <<output, shortp_out_queue>> /\ WriteUnchanged

Space(p) ==
  LET space == shortp_out_space(shortp_out)
      left == Len(call[p].data)
  IN  IF space < left THEN space ELSE left

(* There is space: it is computed here, and used in WriteCopy, when the    *)
(* tail may have moved on.                                                 *)
WriteFits(p) ==
  /\ pc[p] \in {"write_space", "write_test"} /\ Space(p) > 0
  /\ call' = [call EXCEPT ![p].piece = SubSeq(call[p].data, 1, Space(p))]
  /\ shortp_out_queue' = shortp_out_queue \ {p}
  /\ Goto(p, "write_copy")
  /\ UNCHANGED <<output, shortp_out_mutex>> /\ WriteUnchanged

WriteWaits(p) ==
  /\ pc[p] \in {"write_space", "write_test"} /\ Space(p) = 0
  /\ shortp_out_queue' = shortp_out_queue \cup {p}
  /\ Goto(p, IF pc[p] = "write_space" THEN "write_test" ELSE "write_sleep")
  /\ UNCHANGED <<output, shortp_out_mutex, call>> /\ WriteUnchanged

WriteWoken(p) ==
  /\ pc[p] = "write_sleep" /\ p \notin shortp_out_queue
  /\ shortp_out_queue' = shortp_out_queue \cup {p}
  /\ Goto(p, "write_test")
  /\ UNCHANGED <<output, shortp_out_mutex, call>> /\ WriteUnchanged

WriteCopy(p) ==
  LET piece == call[p].piece
      head == shortp_out.head
  IN  /\ pc[p] = "write_copy"
      /\ shortp_out' =
           [shortp_out EXCEPT
              !.page = [i \in DOMAIN @ \cup head .. head + Len(piece) - 1 |->
                          IF i \in head .. head + Len(piece) - 1
                            THEN piece[i - head + 1] ELSE @[i]],
              !.head = incr_out_bp(@, Len(piece))]
      /\ call' = [call EXCEPT ![p].data = SubSeq(@, Len(piece) + 1, Len(@))]
      /\ Goto(p, "write_start")
      /\ UNCHANGED <<shortp_output_active, shortp_timer, timeout, shortp_work,
                     strobed, printer, writers>>
      /\ WriteUnchanged

(* A signal while it waits for space, or a fault while it copies, ends the *)
(* write; what was accepted before stays.                                  *)
WriteEnds(p) ==
  /\ pc[p] \in {"write_sleep", "write_copy"}
  /\ shortp_out_mutex' = NoProc
  /\ shortp_out_queue' = shortp_out_queue \ {p}
  /\ Leave(p)
  /\ UNCHANGED output /\ WriteUnchanged

(* Faulty: output is started when the write is done. *)
StartsAtEnd(p) == ~ shortp_output_active /\ call[p].data = <<>>
Starts(p) == ~ shortp_output_active

(* shortp_start_output, if no output is active; then the next turn of the  *)
(* loop or the end.  add_timer leaves a timer that is pending as it is.    *)
WriteStart(p) ==
  /\ pc[p] = "write_start"
  /\ IF Starts(p)
       THEN /\ shortp_output_active' = TRUE
            /\ shortp_timer' = "pending"
            /\ QueueWork
       ELSE UNCHANGED <<shortp_output_active, shortp_timer, shortp_work>>
  /\ IF call[p].data = <<>>
       THEN shortp_out_mutex' = NoProc /\ Leave(p)
       ELSE Goto(p, "write_space") /\ UNCHANGED <<shortp_out_mutex, call>>
  /\ UNCHANGED <<shortp_out, timeout, strobed, printer, shortp_out_queue>>
  /\ WriteUnchanged

-----------------------------------------------------------------------------
(* shortp_do_work, on the single thread of the work queue.                 *)
WorkBegin ==
  /\ shortp_work.queued /\ shortp_work.pc = "idle" /\ module # "unloaded"
  /\ shortp_work' = [queued |-> FALSE, pc |-> "wait"]
  /\ UNCHANGED <<module, shortp_out, shortp_output_active,
                 shortp_timer, timeout, strobed, printer, writers,
                 shortp_empty_queue, procs>>

(* shortp_wait has found the printer not busy.  Everything is printed:     *)
(* output ends; there is nobody to wake for space.                         *)
WorkEmpty ==
  /\ shortp_work.pc = "wait" /\ ~ printer.busy
  /\ shortp_out.head = shortp_out.tail
  /\ shortp_output_active' = FALSE
  /\ shortp_empty_queue' = {}
  /\ shortp_timer' = "off"
  /\ shortp_work' = [shortp_work EXCEPT !.pc = "record"]
  /\ UNCHANGED <<module, shortp_out, timeout, strobed, printer,
                 writers, procs>>

(* Faulty: the timer runs on; or writers are left to sleep. *)
KeepTimer == UNCHANGED shortp_timer
WakeNobody == UNCHANGED shortp_out_queue

SetTimer == shortp_timer' = "pending"
WakeWriters ==
  shortp_out_queue' = IF Roomy(shortp_out') THEN {} ELSE shortp_out_queue

(* The byte at the tail is printed.  The model forgets it, so that the     *)
(* states differ in what is still to be printed only.                      *)
Printed(out) == [out EXCEPT !.page[out.tail] = NoByte, !.tail = incr_out_bp(@, 1)]

(* shortp_do_write: one byte is strobed out and the timer set anew; then   *)
(* "if somebody's waiting, maybe wake them up".                            *)
WorkPrints ==
  /\ shortp_work.pc = "wait" /\ ~ printer.busy
  /\ shortp_out.head # shortp_out.tail
  /\ SetTimer
  /\ strobed' = <<shortp_out.page[shortp_out.tail]>>
  /\ shortp_out' = Printed(shortp_out)
  /\ printer' = [printer EXCEPT !.busy = TRUE, !.missed = FALSE]
  /\ WakeWriters
  /\ shortp_work' = [shortp_work EXCEPT !.pc = "record"]
  /\ UNCHANGED <<module, shortp_output_active, timeout,
                 shortp_out_mutex, shortp_empty_queue, procs>>

(* "Handle the read side operation", without the lock: see Short.          *)
WorkRecords ==
  /\ shortp_work.pc = "record"
  /\ shortp_work' = [shortp_work EXCEPT !.pc = "idle"]
  /\ strobed' = <<>>
  /\ UNCHANGED <<module, shortp_out, shortp_output_active, shortp_timer,
                 timeout, printer, writers, shortp_empty_queue, procs>>

-----------------------------------------------------------------------------
(* Faulty: work is queued only if it does not run. *)
InterruptIdle ==
  IF shortp_output_active /\ shortp_work.pc = "idle"
    THEN QueueWork
    ELSE UNCHANGED shortp_work

shortp_interrupt == IF shortp_output_active THEN QueueWork
                                            ELSE UNCHANGED shortp_work

(* The printer takes the byte, is busy no more and pulses its acknowledge  *)
(* line (SP_SR_ACK is clear); the end of the pulse interrupts, unless the  *)
(* interrupt is missed.                                                    *)
PrinterUnchanged ==
  UNCHANGED <<module, shortp_out, shortp_output_active, shortp_timer,
              timeout, strobed, writers, shortp_empty_queue, procs>>

PrinterReady ==
  /\ printer.busy /\ ~ printer.ack
  /\ printer' = [printer EXCEPT !.busy = FALSE, !.ack = TRUE]
  /\ UNCHANGED shortp_work /\ PrinterUnchanged

PrinterInterrupts ==
  /\ printer.ack /\ module = "loaded"
  /\ printer' = [printer EXCEPT !.ack = FALSE]
  /\ shortp_interrupt
  /\ PrinterUnchanged

InterruptMissed ==
  /\ printer.ack
  /\ printer' = [printer EXCEPT !.ack = FALSE, !.missed = ~ printer.busy]
  /\ UNCHANGED shortp_work /\ PrinterUnchanged

Printer == PrinterReady \/ PrinterInterrupts \/ InterruptMissed

(* shortp_timeout.                                                         *)
TimeoutUnchanged ==
  UNCHANGED <<module, shortp_out, shortp_output_active, strobed,
              printer, writers, shortp_empty_queue, procs>>

TimerExpires ==
  /\ shortp_timer = "pending" /\ timeout = "idle" /\ module # "unloaded"
  /\ shortp_timer' = "off" /\ timeout' = "test"
  /\ UNCHANGED shortp_work /\ TimeoutUnchanged

TimeoutTest ==
  /\ timeout = "test"
  /\ timeout' = IF shortp_output_active THEN "lock" ELSE "idle"
  /\ UNCHANGED <<shortp_timer, shortp_work>> /\ TimeoutUnchanged

(* "If the printer is still busy we just reset the timer"; so too if its   *)
(* acknowledge line rests, as it does but for the pulse.                   *)
TimeoutReset ==
  /\ timeout = "lock" /\ (printer.busy \/ ~ printer.ack)
  /\ timeout' = "idle" /\ shortp_timer' = "pending"
  /\ UNCHANGED shortp_work /\ TimeoutUnchanged

(* "Otherwise we must have dropped an interrupt": its handler is called.   *)
TimeoutDropped ==
  /\ timeout = "lock" /\ ~ printer.busy /\ printer.ack
  /\ timeout' = "idle" /\ shortp_interrupt
  /\ UNCHANGED shortp_timer /\ TimeoutUnchanged

Work == WorkBegin \/ WorkEmpty \/ WorkPrints \/ WorkRecords
Timeout == TimerExpires \/ TimeoutTest \/ TimeoutReset \/ TimeoutDropped

WriteStep(p) == WriteFits(p) \/ WriteWaits(p) \/ WriteWoken(p)
                  \/ WriteCopy(p) \/ WriteStart(p)

Next ==
  \/ shortp_init \/ FreeIrq \/ DelTimer \/ FlushWork
  \/ Printer
  \/ module # "unloaded" /\ (Work \/ Timeout)
  \/ \E p \in Procs :
       \/ shortp_open(p)
       \/ ReleasePrepare(p) \/ ReleaseTest(p) \/ ReleaseWakes(p)
       \/ WriteLock(p) \/ WriteEnds(p) \/ WriteStep(p)

Spec == Init /\ [][Next]_vars

(***************************************************************************)
(* The kernel runs queued work and processes, and the printer takes its    *)
(* byte and ends its pulse.  That this interrupts, that the timer expires  *)
(* or that a time-out falls into a pulse is not assumed.                   *)
(***************************************************************************)
FairSpec ==
  /\ Spec
  /\ WF_vars(module # "unloaded" /\ Work) /\ WF_vars(Printer)
  /\ \A p \in Procs : WF_vars(WriteStep(p))

-----------------------------------------------------------------------------
ReleaseStates == {"release_test", "release_sleep"}
WriteStates == {"write_space", "write_test", "write_sleep", "write_copy",
                "write_start"}

(* Every variable has its type; the indices stay in the page, nothing is   *)
(* stored outside it, and who writes holds the mutex.                      *)
TypeOK ==
  /\ {shortp_out.head, shortp_out.tail} \subseteq 0 .. PageSize - 1
  /\ DOMAIN shortp_out.page = 0 .. PageSize - 1
  /\ \A p \in Procs :
       /\ pc[p] \in {"closed", "user"} \cup ReleaseStates \cup WriteStates
       /\ pc[p] \in WriteStates <=> shortp_out_mutex = p
       /\ pc[p] # "closed" => module = "loaded"

(* "When output is active, the timer is too, in case we miss interrupts":  *)
(* while output is active the timer is pending, its function has yet to    *)
(* decide, or work is under way, whatever interrupts are missed            *)
(* (shortprint.c:146-150).                                                 *)
OutputDriven ==
  module = "loaded" /\ shortp_output_active =>
    \/ shortp_timer = "pending" \/ timeout # "idle"
    \/ shortp_work.queued \/ shortp_work.pc = "wait"

(* "If no output is active, make it active": nothing is left in the buffer *)
(* while nobody prints.  The work item that finds the buffer empty and the *)
(* writer that fills it do so without a common lock (shortprint.c:300-307).*)
OutputStarted ==
  shortp_out.head # shortp_out.tail /\ ~ shortp_output_active
    => \E p \in Procs : pc[p] = "write_start"

(* Output goes on: it is active while there are bytes, and driven while it *)
(* is active (shortprint.c:146-150, 300-307).                              *)
OutputGoesOn == OutputDriven /\ OutputStarted

(* Nobody sleeps for what has happened: a writer while half of the buffer  *)
(* is free, a release while no output is active.                           *)
SleepersWoken ==
  /\ \A p \in shortp_out_queue :
       pc[p] = "write_sleep"
         => shortp_output_active /\ ~ Roomy(shortp_out)
            /\ shortp_out.head # shortp_out.tail
  /\ \A p \in shortp_empty_queue :
       pc[p] = "release_sleep" => shortp_output_active

(* The printer prints what the writes accepted, in that order, each byte   *)
(* once, wherever the buffer wraps and whoever waits.                      *)
Content ==
  LET n == (shortp_out.head - shortp_out.tail + PageSize) % PageSize
  IN  [i \in 1 .. n |-> shortp_out.page[(shortp_out.tail + i - 1) % PageSize]]

Replied ==
  [p \in Procs \cup {"printer"} |->
     CASE p = "printer" -> IF strobed = <<>> THEN <<>> ELSE <<"read", strobed>>
       [] p # "printer" ->
            IF pc[p] = "write_start" THEN <<"write", call[p].piece>> ELSE <<>>]

Transfers == UNION {[1 .. n -> WrittenBytes] : n \in 1 .. PageSize - 1}

Queue == INSTANCE BytePipe WITH
  queue <- Content, reply <- Replied, Procs <- Procs \cup {"printer"},
  Chunks <- Transfers

ImplementsQueue == Queue!Spec

(* A writer that waits for space gets it or is interrupted, whatever the   *)
(* interrupt races with and however often the timer is set anew, unless    *)
(* the interrupt for the byte printed last was missed and nothing more is  *)
(* printed: the time-out that is meant for it (shortprint.c:147, 397)      *)
(* takes the acknowledge line that rests for a busy printer and only sets  *)
(* the timer again (shortprint.c:279-291, 345-348, 363-372, 390-395).      *)
WriterGoesOn ==
  \A p \in Procs :
    pc[p] = "write_sleep" ~> pc[p] # "write_sleep" \/ [](printer.missed)

(* "Don't leave any timers floating around": once the module is gone its   *)
(* timer is too.  This does not hold: the work that is flushed after the   *)
(* timer was deleted sets it again (shortprint.c:505-509).                 *)
NoTimerLeft == module = "unloaded" => shortp_timer = "off" /\ timeout = "idle"
=============================================================================
