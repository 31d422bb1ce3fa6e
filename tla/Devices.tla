------------------------------- MODULE Devices ------------------------------
(***************************************************************************)
(* Systems that share nothing, side by side: a behaviour chooses one and   *)
(* the others never take a step.  A scullpipe; one of the access-          *)
(* controlled devices; a line of tiny_tty; a program that has commands     *)
(* executed; some of the files of jiq, and those of jit.                   *)
(***************************************************************************)
EXTENDS ScullPipe

CONSTANTS
  Callers, Uid, Euid, Root, Ttys, NoTty,      (* of ScullAccess            *)
  Users,                                    (* the processes of the rest *)
  MaxLoads,                                   (* of TinyTty                *)
  Pids, First, NoPid, MaxCalls,               (* of SystemCalls            *)
  LIMIT,                                      (* of Jiq                    *)
  JiqFiles,     (* by a name: the files of jiq that a behaviour reads      *)
  Blocks, NoBlock, JIT_ASYNC_LOOPS            (* of Jit                    *)

ASSUME UsersAssumption ==
  /\ NoProc \notin Callers \cup Users
  /\ IsFiniteSet(Callers) /\ IsFiniteSet(Users)
ASSUME JitAssumption == NoBlock \notin Blocks /\ JIT_ASYNC_LOOPS \in Nat \ {0}

VARIABLES
  system,               (* the one that was chosen                         *)
  ac_s_available, ac_u, ac_w, ac_w_wait, ac_c_list, ac_c_lock, ac_lock,
  ac_pc, ac_file,
  tt_module, tt_tty_lock, tt_driver_data, tt_port, tt_timer, tt_handler,
  tt_oops, tt_pc, tt_mcr,
  ex_pc, ex_call, ex_child, ex_calls, ex_redirected, ex_status, ex_result,
  jq_data, jq_pending, jq_running, jq_wait, jq_oops, jq_pc, jq_file, jq_calm,
  jt_data, jt_item, jt_oops, jt_pc, jt_block

access_vars == <<ac_s_available, ac_u, ac_w, ac_w_wait, ac_c_list, ac_c_lock,
                 ac_lock, ac_pc, ac_file>>
tty_vars == <<tt_module, tt_tty_lock, tt_driver_data, tt_port, tt_timer,
              tt_handler, tt_oops, tt_pc, tt_mcr>>
exec_vars == <<ex_pc, ex_call, ex_child, ex_calls, ex_redirected, ex_status,
               ex_result>>
jiq_vars == <<jq_data, jq_pending, jq_running, jq_wait, jq_oops, jq_pc,
              jq_file, jq_calm>>
jit_vars == <<jt_data, jt_item, jt_oops, jt_pc, jt_block>>
others == <<access_vars, tty_vars, exec_vars, jiq_vars, jit_vars>>

Ac == INSTANCE ScullAccess WITH
  Procs <- Callers, scull_s_available <- ac_s_available, scull_u <- ac_u,
  scull_w <- ac_w, scull_w_wait <- ac_w_wait, scull_c_list <- ac_c_list,
  scull_c_lock <- ac_c_lock, lock <- ac_lock, pc <- ac_pc, file <- ac_file

Tt == INSTANCE TinyTty WITH
  Procs <- Users, module <- tt_module, tty_lock <- tt_tty_lock,
  driver_data <- tt_driver_data, port <- tt_port, timer <- tt_timer,
  handler <- tt_handler, oops <- tt_oops, pc <- tt_pc, mcr <- tt_mcr

Ex == INSTANCE SystemCalls WITH
  pc <- ex_pc, call <- ex_call, child <- ex_child, calls <- ex_calls,
  redirected <- ex_redirected, status <- ex_status, result <- ex_result

Jq == INSTANCE Jiq WITH
  Procs <- Users, jiq_data <- jq_data, pending <- jq_pending,
  running <- jq_running, jiq_wait <- jq_wait, oops <- jq_oops, pc <- jq_pc,
  file <- jq_file, calm <- jq_calm

Jt == INSTANCE Jit WITH
  Procs <- Users, data <- jt_data, item <- jt_item, oops <- jt_oops,
  pc <- jt_pc, block <- jt_block

DevicesInit ==
  /\ system \in {"pipe", "tty", "exec", "jit"} \cup Ac!Kinds \cup DOMAIN JiqFiles
  /\ Init /\ Ac!Init /\ Tt!Init /\ Ex!Init /\ Jq!Init /\ Jt!Init

(* The systems other than s keep still.                                    *)
OnlyMoves(s) ==
  /\ UNCHANGED system
  /\ s # "pipe" => UNCHANGED vars
  /\ s # "access" => UNCHANGED access_vars
  /\ s # "tty" => UNCHANGED tty_vars
  /\ s # "exec" => UNCHANGED exec_vars
  /\ s # "jiq" => UNCHANGED jiq_vars
  /\ s # "jit" => UNCHANGED jit_vars

(* All callers open the access-controlled device that was chosen.          *)
AccessNext ==
  /\ system \in Ac!Kinds /\ Ac!Next
  /\ \A p \in Callers : ac_file'[p].kind \in {system, "none"}

JiqNext ==
  /\ system \in DOMAIN JiqFiles /\ Jq!Next
  /\ \A p \in Users : jq_file'[p] \in JiqFiles[system] \cup {"none"}

(* A kernel that died stops, a module unloaded for good, and a program     *)
(* that ended.                                                             *)
Stopped ==
  /\ \/ system = "tty" /\ tt_oops # "none"
     \/ jq_oops \/ jt_oops # "none"
     \/ system = "tty" /\ tt_module = [loads |-> MaxLoads, state |-> "gone"]
     \/ /\ system = "exec"
        /\ \A p \in Pids : ex_pc[p] \in {"none", "zombie", "reaped"}
  /\ UNCHANGED <<system, vars, others>>

DevicesNext ==
  \/ system = "pipe" /\ Next /\ OnlyMoves("pipe")
  \/ AccessNext /\ OnlyMoves("access")
  \/ system = "tty" /\ Tt!Next /\ OnlyMoves("tty")
  \/ system = "exec" /\ Ex!Next /\ OnlyMoves("exec")
  \/ JiqNext /\ OnlyMoves("jiq")
  \/ system = "jit" /\ Jt!Next /\ OnlyMoves("jit")
  \/ Stopped

DevicesSpec == DevicesInit /\ [][DevicesNext]_<<system, vars, others>>

-----------------------------------------------------------------------------
(* The types of the pipe's and the access-controlled devices' variables:   *)
(* who is inside the mutex (pipe.c:120-224), and the counts of openers     *)
(* (access.c:110, 133).                                                    *)
TypesOK == TypeOK /\ Ac!TypeOK

(* ScullAccess: scullsingle is open at most once, and can be opened again  *)
(* (access.c:59-73).                                                       *)
SingleOpen == Ac!SingleOpen

(* ScullAccess: sculluid and scullwuid have one user at a time             *)
(* (access.c:94-128, 165-196).                                             *)
OneUser == Ac!OneUser

(* ScullAccess: no wakeup of scullwuid's waiters is lost                   *)
(* (access.c:182, 207-208).                                                *)
WaitersWoken == Ac!WaitersWoken

(* ScullAccess: a terminal has one scullpriv device (access.c:250-284).    *)
OneDevicePerTty == Ac!OneDevicePerTty

(* TinyTty: while somebody is counted the timer goes on, and who has the   *)
(* tty open finds the port; only the close after an open that failed takes *)
(* off the count what another open added; and only a handler that was      *)
(* running starts the timer again where nobody is counted                  *)
(* (tiny_tty.c:92, 101-132, 143-155, 162-165, 569).                        *)
TtyPort == [][Tt!PortStep]_tty_vars

(* SystemCalls: do_exec returns true exactly if the command it waited for  *)
(* ended with 0, and waits for no copy of the program; no call denies a    *)
(* success; and a copy of the program goes on only where the output could  *)
(* not be redirected.  do_system and do_exec_redirect may return true for  *)
(* a command that failed (systemcalls.c:20-28, 80-113, 155-188).           *)
ExecReports ==
  [][Ex!Told' /\ Ex!AwaitsCommand' /\ Ex!OnlyRedirectCopies]_exec_vars

(* Jiq: a sleeping reader is woken; and an item prints where it should,    *)
(* unless reads share jiq_data or a signal leaves it behind                *)
(* (jiq.c:82-85, 119, 130, 143-145, 199, 209, 248-249).                    *)
JiqPrints == Jq!ReadersWoken /\ Jq!PrintsWhereItShould

(* Jit: the data of a read is not freed while there are lines to print     *)
(* (jit.c:191-197, 228-232, 257-264, 300-304).                             *)
LinesBeforeFree == Jt!LinesBeforeFree
=============================================================================
