-------------------------------- MODULE Jit ---------------------------------
(***************************************************************************)
(* The jit module's timer and tasklet files: a read allocates a struct     *)
(* jit_data, has a timer or a tasklet print lines into its seq_file, and   *)
(* waits until it has printed them all.                                    *)
(*                                                                         *)
(* Timer and tasklet differ in nothing that matters here.  The reader      *)
(* looks at loops without a lock, before it sleeps and when it is woken.   *)
(* A file is opened, read, perhaps again, and closed.  The files that only *)
(* delay or tell the time, and (un)loading, are left out.                  *)
(***************************************************************************)
EXTENDS Integers, FiniteSets, Processes

CONSTANTS
  Blocks,           (* bound: the memory for struct jit_data               *)
  NoBlock,
  JIT_ASYNC_LOOPS

VARIABLES
  data,         (* of each block: whether it is allocated, loops, the      *)
                (* process whose seq_file is m, and if it sleeps in wait   *)
  item,         (* of each: "idle", "pending", or "wake": about to wake    *)
  oops,         (* what the item uses that was freed, or "none"            *)
  pc, block     (* where each process is, and the data of its read         *)

vars == <<data, item, oops, pc, block>>

Free == [there |-> FALSE, loops |-> 0, m |-> NoProc, waits |-> FALSE]

Init ==
  /\ data = [b \in Blocks |-> Free]
  /\ item = [b \in Blocks |-> "idle"]
  /\ oops = "none"
  /\ pc = [p \in Procs |-> "closed"]
  /\ block = [p \in Procs |-> NoBlock]

Goto(p, l) == pc' = [pc EXCEPT ![p] = l]

open(p) ==
  /\ pc[p] = "closed"
  /\ Goto(p, "open")
  /\ UNCHANGED <<data, item, oops, block>>

(* The seq_file is freed, whoever has a pointer to it.                     *)
release(p) ==
  /\ pc[p] = "open"
  /\ Goto(p, "closed")
  /\ data' = [b \in Blocks |->
                IF data[b].m = p THEN [data[b] EXCEPT !.m = NoProc] ELSE data[b]]
  /\ UNCHANGED <<item, oops, block>>

(* kmalloc, the first lines, and "fill the data for our timer function"    *)
Filling(p) ==
  [there |-> TRUE, loops |-> JIT_ASYNC_LOOPS, m |-> p, waits |-> FALSE]

(* The data is filled and the item started, or it is -ENOMEM.  Memory      *)
(* that an item will still use, though it was freed, is not given out.     *)
show(p, b) ==
  /\ pc[p] = "open" /\ ~ data[b].there /\ item[b] = "idle"
  /\ data' = [data EXCEPT ![b] = Filling(p)]
  /\ item' = [item EXCEPT ![b] = "pending"]
  /\ block' = [block EXCEPT ![p] = b]
  /\ Goto(p, "prepare")
  /\ UNCHANGED oops

(* wait_event_interruptible(data->wait, !data->loops)                      *)
Prepare(p) ==
  /\ pc[p] = "prepare"
  /\ data' = [data EXCEPT ![block[p]].waits = TRUE]
  /\ Goto(p, "test")
  /\ UNCHANGED <<item, oops, block>>

(* Faulty: the wait ends with a line less. *)
FilledBut(d) == d.loops <= 1

Filled(d) == d.loops = 0

Test(p) ==
  /\ pc[p] = "test"
  /\ Goto(p, IF Filled(data[block[p]]) THEN "filled" ELSE "sleep")
  /\ UNCHANGED <<data, item, oops, block>>

Woken(p) ==
  /\ pc[p] = "sleep" /\ ~ data[block[p]].waits
  /\ Goto(p, "prepare")
  /\ UNCHANGED <<data, item, oops, block>>

(* -ERESTARTSYS, and the data is not freed.  A signal ends the sleep, or   *)
(* is pending when the buffer is full.                                     *)
Interrupted(p) ==
  /\ pc[p] \in {"sleep", "filled"}
  /\ data' = [data EXCEPT ![block[p]].waits = FALSE]
  /\ block' = [block EXCEPT ![p] = NoBlock]
  /\ Goto(p, "open")
  /\ UNCHANGED <<item, oops>>

Returns(p) ==
  /\ pc[p] = "filled"
  /\ data' = [data EXCEPT ![block[p]] = Free]
  /\ block' = [block EXCEPT ![p] = NoBlock]
  /\ Goto(p, "open")
  /\ UNCHANGED <<item, oops>>

-----------------------------------------------------------------------------
(* Faulty: the item is started again after the last line too. *)
GoesOn(d) == TRUE

Goes(d) == d.loops > 1

(* jit_timer_fn, jit_tasklet_fn: a line is printed to m; the item is       *)
(* started again, unless it was the last one.                              *)
Fn(b) ==
  /\ item[b] = "pending"
  /\ oops' = IF ~ data[b].there THEN "data"
             ELSE IF data[b].m = NoProc THEN "seq_file" ELSE "none"
  /\ data' = [data EXCEPT ![b].loops = @ - 1]
  /\ item' = [item EXCEPT ![b] = IF Goes(data[b]) THEN "pending" ELSE "wake"]
  /\ UNCHANGED <<pc, block>>

FnWakes(b) ==
  /\ item[b] = "wake"
  /\ item' = [item EXCEPT ![b] = "idle"]
  /\ oops' = IF data[b].there THEN "none" ELSE "data"
  /\ data' = [data EXCEPT ![b].waits = FALSE]
  /\ UNCHANGED <<pc, block>>

Next ==
  /\ oops = "none"
  /\ \/ \E p \in Procs :
          \/ open(p) \/ release(p) \/ \E b \in Blocks : show(p, b)
          \/ Prepare(p) \/ Test(p) \/ Woken(p) \/ Interrupted(p) \/ Returns(p)
     \/ \E b \in Blocks : Fn(b) \/ FnWakes(b)

Spec == Init /\ [][Next]_vars

-----------------------------------------------------------------------------
(* Whoever sleeps for the lines will be woken, and whoever returns has all *)
(* of them; what the item uses is freed only when it is about to wake,     *)
(* never while it has lines to print: a reader that comes to look only     *)
(* after the last line does not sleep, and frees the wait queue before the *)
(* wake_up (jit.c:191-197, 228-232, 257-264, 300-304).                     *)
LinesBeforeFree ==
  /\ \A p \in Procs :
       LET b == block[p]
       IN  /\ pc[p] = "sleep" /\ data[b].waits => item[b] # "idle"
           /\ pc[p] = "filled" => data[b].loops = 0 /\ item[b] # "pending"
  /\ \A b \in Blocks : ~ data[b].there => item[b] # "pending"
=============================================================================
