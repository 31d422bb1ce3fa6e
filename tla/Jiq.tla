-------------------------------- MODULE Jiq ---------------------------------
(***************************************************************************)
(* The jiq module: a read of one of its files has a work item, a delayed   *)
(* work item, a tasklet or a timer print into it, line after line, and     *)
(* sleeps meanwhile.  All reads share one struct clientdata and one wait   *)
(* queue.                                                                  *)
(*                                                                         *)
(* jiq_print reads len and m, and stores the new len when it has printed:  *)
(* what is stored in between may be lost.  A line is as long as any, and   *)
(* the page holds LIMIT of them.  Loading and unloading are left out.      *)
(***************************************************************************)
EXTENDS Integers, FiniteSets, Processes

CONSTANT LIMIT

VARIABLES
  jiq_data,     (* len, in lines, and m: whose read is printed into        *)
  pending,      (* the items that are queued                               *)
  running,      (* what each item that runs has read of jiq_data           *)
  jiq_wait,     (* the processes in the wait queue                         *)
  oops,         (* the timer was set up while it was pending               *)
  pc, file,     (* where each process is; the file it reads                *)
  calm          (* so far there was one read at a time, and no signal      *)
                (* ended it before its work item or tasklet was done       *)

vars == <<jiq_data, pending, running, jiq_wait, oops, pc, file, calm>>

Items == {"wq", "delayed", "tasklet", "timer"}
NotRunning == [m |-> NoProc, len |-> 0]

Init ==
  /\ jiq_data = [m |-> NoProc, len |-> 0]
  /\ pending = {}
  /\ running = [i \in Items |-> NotRunning]
  /\ jiq_wait = {}
  /\ oops = FALSE
  /\ pc = [p \in Procs |-> "user"]
  /\ file = [p \in Procs |-> "none"]
  /\ calm = TRUE

Goto(p, l) == pc' = [pc EXCEPT ![p] = l]
Runs(i) == running[i] # NotRunning
Active(i) == i \in pending \/ Runs(i)
Reading == {p \in Procs : pc[p] # "user"}

(* What a line printed by who has read len may leave in jiq_data.len,      *)
(* beyond LIMIT all the same.                                              *)
Added(len) == {IF n > LIMIT THEN n ELSE n + 1 : n \in {len, jiq_data.len}}

-----------------------------------------------------------------------------
(* The first lines of each show: len, m.  The timer is set up too.         *)
Show(p, i) ==
  /\ pc[p] = "user"
  /\ jiq_data' = [m |-> p, len |-> 0]
  /\ file' = [file EXCEPT ![p] = i]
  /\ oops' = (i = "timer" /\ "timer" \in pending)
  /\ Goto(p, IF i = "timer" THEN "print" ELSE "start")
  /\ calm' = (calm /\ Reading = {})
  /\ UNCHANGED <<pending, running, jiq_wait>>

(* jiq_read_run_timer_show prints the first line itself.                   *)
PrintFirst(p) ==
  /\ pc[p] = "print"
  /\ IF jiq_data.len > LIMIT
       THEN UNCHANGED jiq_data /\ jiq_wait' = {}
       ELSE /\ \E n \in Added(jiq_data.len) :
                 jiq_data' = [jiq_data EXCEPT !.len = n]
            /\ UNCHANGED jiq_wait
  /\ Goto(p, "start")
  /\ UNCHANGED <<pending, running, oops, file, calm>>

(* The two work queue files are in the wait queue before the item is       *)
(* queued, the others after.                                               *)
Prepare(p) ==
  /\ pc[p] = "start" /\ file[p] \in {"wq", "delayed"}
  /\ jiq_wait' = jiq_wait \cup {p}
  /\ Goto(p, "prepared")
  /\ UNCHANGED <<jiq_data, pending, running, oops, file, calm>>

Schedule(p) ==
  /\ \/ pc[p] = "prepared"
     \/ pc[p] = "start" /\ file[p] \in {"tasklet", "timer"}
  /\ oops' = (file[p] = "timer" /\ "timer" \in pending)
  /\ pending' = pending \cup {file[p]}
  /\ Goto(p, IF pc[p] = "start" THEN "wait" ELSE "sleep")
  /\ UNCHANGED <<jiq_data, running, jiq_wait, file, calm>>

(* wait_event_interruptible(jiq_wait, 0): whoever is woken waits again.    *)
WaitForever(p) ==
  /\ \/ pc[p] = "wait"
     \/ pc[p] = "sleep" /\ p \notin jiq_wait /\ file[p] \in {"tasklet", "timer"}
  /\ jiq_wait' = jiq_wait \cup {p}
  /\ Goto(p, "sleep")
  /\ UNCHANGED <<jiq_data, pending, running, oops, file, calm>>

Returns(p) ==
  /\ Goto(p, "user")
  /\ file' = [file EXCEPT ![p] = "none"]
  /\ jiq_wait' = jiq_wait \ {p}
  /\ UNCHANGED <<jiq_data, running, oops>>

(* schedule() returns, once, whoever called wake_up.                       *)
Woken(p) ==
  /\ pc[p] = "sleep" /\ p \notin jiq_wait /\ file[p] \in {"wq", "delayed"}
  /\ Returns(p)
  /\ UNCHANGED <<pending, calm>>

(* Faulty: the timer goes on after its read. *)
LeavesTimer(p) ==
  /\ pc[p] = "sleep"
  /\ Returns(p)
  /\ calm' = (calm /\ (file[p] = "timer" \/ ~ Active(file[p])))
  /\ UNCHANGED pending

(* A signal ends any read; del_timer_sync takes the timer back and waits   *)
(* for its function, the other items are left alone.                       *)
Interrupted(p) ==
  /\ pc[p] = "sleep"
  /\ file[p] = "timer" => ~ Runs("timer")
  /\ Returns(p)
  /\ pending' = IF file[p] = "timer" THEN pending \ {"timer"} ELSE pending
  /\ calm' = (calm /\ (file[p] = "timer" \/ ~ Active(file[p])))

-----------------------------------------------------------------------------
(* An item's function is called and, in jiq_print, reads jiq_data.         *)
Run(i) ==
  /\ i \in pending /\ ~ Runs(i)
  /\ pending' = pending \ {i}
  /\ running' = [running EXCEPT ![i] = jiq_data]
  /\ UNCHANGED <<jiq_data, jiq_wait, oops, pc, file, calm>>

(* Faulty: who ends the printing wakes nobody. *)
EndsSilently(i) ==
  /\ Runs(i) /\ running[i].len > LIMIT
  /\ running' = [running EXCEPT ![i] = NotRunning]
  /\ UNCHANGED <<jiq_data, pending, jiq_wait, oops, pc, file, calm>>

(* "don't print any more after this size"                                  *)
Ends(i) ==
  /\ Runs(i) /\ running[i].len > LIMIT
  /\ running' = [running EXCEPT ![i] = NotRunning]
  /\ jiq_wait' = {}
  /\ UNCHANGED <<jiq_data, pending, oops, pc, file, calm>>

(* A line is printed into the seq_file that was m, and the item queues     *)
(* itself; the timer's function wakes the process instead.                 *)
Prints(i) ==
  /\ Runs(i) /\ running[i].len <= LIMIT
  /\ \E n \in Added(running[i].len) : jiq_data' = [jiq_data EXCEPT !.len = n]
  /\ running' = [running EXCEPT ![i] = NotRunning]
  /\ pending' = IF i = "timer" THEN pending ELSE pending \cup {i}
  /\ jiq_wait' = IF i = "timer" THEN {} ELSE jiq_wait
  /\ UNCHANGED <<oops, pc, file, calm>>

Next ==
  /\ ~ oops
  /\ \/ \E p \in Procs :
          \/ \E i \in Items : Show(p, i)
          \/ PrintFirst(p) \/ Prepare(p) \/ Schedule(p) \/ WaitForever(p)
          \/ Woken(p) \/ Interrupted(p)
     \/ \E i \in Items : Run(i) \/ Ends(i) \/ Prints(i)

Spec == Init /\ [][Next]_vars

-----------------------------------------------------------------------------
(* A reader of a work queue's file that sleeps will be woken: its item     *)
(* goes on, whoever else resets len meanwhile (jiq.c:82-85, 119, 143).     *)
ReadersWoken ==
  \A p \in jiq_wait :
    pc[p] = "sleep" /\ file[p] \in {"wq", "delayed"} => Active(file[p])

(* The timer is stopped with its read, whoever else reads.  While there is *)
(* one read at a time, and no signal ends it before its work item or its   *)
(* tasklet, an item prints into the read that started it and is done       *)
(* before the read is over (jiq.c:119, 130, 145, 199, 209, 248-249).       *)
PrintsWhereItShould ==
  /\ Active("timer") => \E p \in Reading : file[p] = "timer"
  /\ calm => \A i \in Items : Active(i) =>
       \E p \in Reading :
         file[p] = i /\ jiq_data.m = p /\ (Runs(i) => running[i].m = p)
=============================================================================
