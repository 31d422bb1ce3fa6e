------------------------------ MODULE TinyTty -------------------------------
(***************************************************************************)
(* The tiny_tty driver: one of its lines, opened and closed by several     *)
(* processes, with its timer, the calls that find the port through         *)
(* driver_data, and unloading.                                             *)
(*                                                                         *)
(* The tty core makes open and close one at a time (tty_lock).  When open  *)
(* fails it calls close, after it gave up that lock; it frees the tty      *)
(* after the last close.  What is done under the port's mutex is one step. *)
(* The line's settings, the statistics of TIOCGICOUNT and TIOCGSERIAL, and *)
(* the wait of TIOCMIWAIT, on a wait queue nobody initialises or wakes,    *)
(* are left out.                                                           *)
(***************************************************************************)
EXTENDS Integers, FiniteSets, Processes

CONSTANTS
  MaxLoads      (* bound: how often the module is loaded                   *)

VARIABLES
  module,       (* how often it was loaded; and whether it is "loaded",    *)
                (* "leaving": between two steps of tiny_exit, or "gone"    *)
  tty_lock,     (* of the tty: the process that opens it                   *)
  driver_data,  (* tty->driver_data: TRUE if it is the port, FALSE if NULL *)
  port,         (* tiny_table[index]: whether it is there, open_count and  *)
                (* mcr, and whether its tty is one there is                *)
  timer,        (* whether port->timer is pending                          *)
  handler,      (* tiny_timer: "idle", "begun" or "pushed"                 *)
  oops,         (* what the kernel dies of, or "none"                      *)
  pc, mcr       (* where each process is, and its copy of the port's mcr   *)

vars == <<module, tty_lock, driver_data, port, timer, handler, oops, pc, mcr>>

Lines == {"DTR", "RTS"}

Init ==
  /\ module = [loads |-> 1, state |-> "loaded"]
  /\ tty_lock = NoProc
  /\ driver_data = FALSE
  /\ port = [there |-> FALSE, open_count |-> 0, mcr |-> {}, tty |-> FALSE]
  /\ timer = FALSE /\ handler = "idle"
  /\ oops = "none"
  /\ pc = [p \in Procs |-> "closed"]
  /\ mcr = [p \in Procs |-> {}]

Goto(p, l) == pc' = [pc EXCEPT ![p] = l]
Oops(what) == oops' = what

(* The processes whose file the tty core counts, and those whose file the  *)
(* driver should.                                                          *)
Files == {p \in Procs : pc[p] # "closed"}
Opened == {p \in Procs : pc[p] \in {"open", "write", "tiocm"}}

-----------------------------------------------------------------------------
(* "initialize the pointer in case something fails"                        *)
OpenBegin(p) ==
  /\ pc[p] = "closed" /\ module.state = "loaded" /\ tty_lock = NoProc
  /\ tty_lock' = p
  /\ driver_data' = FALSE
  /\ Goto(p, "create")
  /\ UNCHANGED <<module, port, timer, handler, oops, mcr>>

(* Nothing but open_count is initialised.                                  *)
OpenCreate(p) ==
  /\ pc[p] = "create"
  /\ IF port.there
       THEN UNCHANGED port
       ELSE \E garbage \in SUBSET Lines :
              port' = [port EXCEPT !.there = TRUE, !.open_count = 0,
                                   !.mcr = garbage]
  /\ Goto(p, "count")
  /\ UNCHANGED <<module, tty_lock, driver_data, timer, handler, oops, mcr>>

OpenNoMemory(p) ==
  /\ pc[p] = "create" /\ ~port.there
  /\ tty_lock' = NoProc
  /\ Goto(p, "failed")
  /\ UNCHANGED <<module, driver_data, port, timer, handler, oops, mcr>>

(* "this is the first time this port is opened": the timer is set up, and  *)
(* added.  Setting up one that is pending breaks the list it is in.        *)
OpenCount(p) ==
  LET first == port.open_count = 0
  IN  /\ pc[p] = "count"
      /\ driver_data' = TRUE
      /\ port' = [port EXCEPT !.open_count = @ + 1, !.tty = TRUE]
      /\ timer' = (timer \/ first)
      /\ IF first /\ timer THEN Oops("timer list") ELSE UNCHANGED oops
      /\ tty_lock' = NoProc
      /\ Goto(p, "open")
      /\ UNCHANGED <<module, handler, mcr>>

(* Faulty: every close stops the timer. *)
StopsAlways(count) == TRUE

(* Faulty: the last close does not. *)
StopsBelow(count) == count < 0

(* "The port is being closed by the last user": del_timer, which does not  *)
(* wait for the handler.                                                   *)
Stops(count) == count <= 0

(* Faulty: a port that was never opened is closed. *)
ClosesAny(count) == driver_data

(* tiny_close does nothing if driver_data is NULL, and do_close if "port   *)
(* was never opened".                                                      *)
Closes(count) == driver_data /\ count > 0

tiny_close(p) ==
  LET last == Files = {p}
      closes == Closes(port.open_count)
      count == IF closes THEN port.open_count - 1 ELSE port.open_count
  IN  /\ pc[p] \in {"open", "failed"} /\ tty_lock = NoProc
      /\ port' = [port EXCEPT !.open_count = count, !.tty = @ /\ ~last]
      /\ timer' = (timer /\ ~(closes /\ Stops(count)))
      /\ driver_data' = (driver_data /\ ~last)
      /\ Goto(p, "closed")
      /\ UNCHANGED <<module, tty_lock, handler, oops, mcr>>

-----------------------------------------------------------------------------
(* write and write_room refuse what finds driver_data NULL, and lock the   *)
(* port.  No write succeeds: retval stays -EINVAL.                         *)
tiny_write(p) ==
  /\ pc[p] = "open" /\ driver_data
  /\ Goto(p, "write")
  /\ UNCHANGED <<module, tty_lock, driver_data, port, timer, handler, oops, mcr>>

WriteDone(p) ==
  /\ pc[p] = "write"
  /\ Goto(p, "open")
  /\ UNCHANGED <<module, tty_lock, driver_data, port, timer, handler, oops, mcr>>

(* tiocmget and tiocmset look at the port without its mutex, and do not    *)
(* expect driver_data to be NULL.                                          *)
TiocmBegin(p) ==
  /\ pc[p] = "open"
  /\ IF driver_data
       THEN /\ mcr' = [mcr EXCEPT ![p] = port.mcr]
            /\ Goto(p, "tiocm") /\ UNCHANGED oops
       ELSE Oops("NULL port") /\ UNCHANGED <<pc, mcr>>
  /\ UNCHANGED <<module, tty_lock, driver_data, port, timer, handler>>

(* DTR is not set: what is asked of it is done to RTS.                     *)
tiny_tiocmset(p, set, clear) ==
  LET raised == mcr[p] \cup (IF set = {} THEN {} ELSE {"RTS"})
  IN  /\ pc[p] = "tiocm"
      /\ port' = [port EXCEPT !.mcr = IF clear = {} THEN raised
                                                    ELSE raised \ {"RTS"}]
      /\ mcr' = [mcr EXCEPT ![p] = {}]
      /\ Goto(p, "open")
      /\ UNCHANGED <<module, tty_lock, driver_data, timer, handler, oops>>

tiny_tiocmget(p) ==
  /\ pc[p] = "tiocm"
  /\ mcr' = [mcr EXCEPT ![p] = {}]
  /\ Goto(p, "open")
  /\ UNCHANGED <<module, tty_lock, driver_data, port, timer, handler, oops>>

-----------------------------------------------------------------------------
TimerExpires ==
  /\ timer /\ handler = "idle"
  /\ timer' = FALSE /\ handler' = "begun"
  /\ UNCHANGED <<module, tty_lock, driver_data, port, oops, pc, mcr>>

(* "send the data to the tty layer": through the port, which the unloading *)
(* frees, and its tty, which the tty core frees after the last close.      *)
TimerPushes ==
  /\ handler = "begun"
  /\ handler' = "pushed"
  /\ IF ~port.there THEN Oops("freed port")
       ELSE IF ~port.tty THEN Oops("freed tty") ELSE UNCHANGED oops
  /\ UNCHANGED <<module, tty_lock, driver_data, port, timer, pc, mcr>>

(* Faulty: the timer is not added. *)
ResubmitsNot == FALSE

(* "resubmit the timer again"                                              *)
Resubmits == TRUE

(* add_timer of a timer that is pending, or of a port that is freed.       *)
TimerResubmits ==
  /\ handler = "pushed"
  /\ handler' = "idle"
  /\ timer' = (timer \/ Resubmits)
  /\ IF ~port.there THEN Oops("freed port")
       ELSE IF timer THEN Oops("timer list") ELSE UNCHANGED oops
  /\ UNCHANGED <<module, tty_lock, driver_data, port, pc, mcr>>

-----------------------------------------------------------------------------
(* Unloading, which no file allows: "shut down all of the timers", with    *)
(* whatever count was left.                                                *)
ExitDelTimer ==
  /\ module.state = "loaded" /\ Files = {}
  /\ module' = [module EXCEPT !.state = "leaving"]
  /\ port' = [port EXCEPT !.open_count = 0]
  /\ timer' = FALSE
  /\ UNCHANGED <<tty_lock, driver_data, handler, oops, pc, mcr>>

(* "and free the memory"                                                   *)
ExitFree ==
  /\ module.state = "leaving"
  /\ module' = [module EXCEPT !.state = "gone"]
  /\ port' = [port EXCEPT !.there = FALSE, !.mcr = {}]
  /\ IF timer THEN Oops("freed port") ELSE UNCHANGED oops
  /\ UNCHANGED <<tty_lock, driver_data, timer, handler, pc, mcr>>

tiny_init ==
  /\ module.state = "gone" /\ module.loads < MaxLoads
  /\ module' = [loads |-> module.loads + 1, state |-> "loaded"]
  /\ UNCHANGED <<tty_lock, driver_data, port, timer, handler, oops, pc, mcr>>

Next ==
  /\ oops = "none"
  /\ \/ \E p \in Procs :
          \/ OpenBegin(p) \/ OpenCreate(p) \/ OpenNoMemory(p) \/ OpenCount(p)
          \/ tiny_close(p)
          \/ tiny_write(p) \/ WriteDone(p)
          \/ TiocmBegin(p) \/ tiny_tiocmget(p)
          \/ \E set, clear \in SUBSET Lines : tiny_tiocmset(p, set, clear)
     \/ TimerExpires \/ TimerPushes \/ TimerResubmits
     \/ ExitDelTimer \/ ExitFree \/ tiny_init

Spec == Init /\ [][Next]_vars

-----------------------------------------------------------------------------
(* As long as the kernel lives: while somebody is counted the timer goes   *)
(* on (tiny_tty.c:92, 125-132, 149-155); and who has the tty open finds    *)
(* the port, unless another is opening it (tiny_tty.c:101, 121).           *)
PortServes ==
  oops = "none" =>
    /\ port.open_count > 0 => timer \/ handler # "idle"
    /\ Opened # {} => driver_data \/ \E p \in Procs : pc[p] \in {"create", "count"}

(* open_count is never more than the files that are open, and 0 when all   *)
(* are closed (tiny_tty.c:124, 143-148).                                   *)
Uncounted == Cardinality(Opened) - port.open_count
CountsFiles == Uncounted >= 0 /\ (Files = {} => port.open_count = 0)

(* It falls behind them only by the close that the tty core makes after an *)
(* open failed, which takes off it what another open, come in between, has *)
(* added (tiny_tty.c:109-124, 143-148, 162-165).                           *)
OnlyFailedMiscounts ==
  Uncounted' > Uncounted => \E p \in Procs : pc[p] = "failed" /\ pc'[p] = "closed"

(* Where nobody is counted the timer is off, until a handler that was      *)
(* running when it was deleted adds it again (tiny_tty.c:92, 154, 569).    *)
Unattended == timer /\ port.open_count = 0
OnlyHandlerRevives == ~Unattended /\ Unattended' => handler = "pushed"

(* In every state a step leads to, and of every step.                      *)
PortStep ==
  PortServes' /\ CountsFiles' /\ OnlyFailedMiscounts /\ OnlyHandlerRevives
=============================================================================
