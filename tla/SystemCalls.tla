---------------------------- MODULE SystemCalls -----------------------------
(***************************************************************************)
(* do_system, do_exec and do_exec_redirect (examples/systemcalls): a       *)
(* program has a command executed and learns whether it succeeded.         *)
(*                                                                         *)
(* A process is a copy of the program, or a command that replaced one.     *)
(* Every call of the library and the kernel may fail.  A command ends as   *)
(* it likes: with 0, with something else, or killed.  The arguments and    *)
(* the output are left out.                                                *)
(***************************************************************************)
EXTENDS Integers, FiniteSets

CONSTANTS
  Pids,         (* the process numbers; bound: each is given out once      *)
  First,        (* the process the program is started as                   *)
  NoPid,
  MaxCalls      (* bound: the calls a process makes                        *)

VARIABLES
  pc,           (* where each process is                                   *)
  call,         (* the function it is in                                   *)
  child,        (* whom it waits for                                       *)
  calls,        (* how many calls it has made                              *)
  redirected,   (* its standard output goes to the file                    *)
  status,       (* how it ended                                            *)
  result        (* what the last call returned to it, and what became of   *)
                (* the command                                             *)

vars == <<pc, call, child, calls, redirected, status, result>>

Functions == {"do_system", "do_exec", "do_exec_redirect"}
Statuses == {"zero", "nonzero", "killed"}
NoResult == [of |-> "none", value |-> FALSE, command |-> "none"]

Init ==
  /\ pc = [p \in Pids |-> IF p = First THEN "program" ELSE "none"]
  /\ call = [p \in Pids |-> "none"]
  /\ child = [p \in Pids |-> NoPid]
  /\ calls = [p \in Pids |-> 0]
  /\ redirected = [p \in Pids |-> FALSE]
  /\ status = [p \in Pids |-> "none"]
  /\ result = [p \in Pids |-> NoResult]

Goto(p, l) == pc' = [pc EXCEPT ![p] = l]

(* The call returns value in process p; command is how the command of the  *)
(* call ended, or why there is none.                                       *)
Returns(p, value, command) ==
  /\ Goto(p, "program")
  /\ result' = [result EXCEPT ![p] =
                  [of |-> call[p], value |-> value, command |-> command]]

Call(p, f) ==
  /\ pc[p] = "program" /\ calls[p] < MaxCalls
  /\ Goto(p, "called")
  /\ call' = [call EXCEPT ![p] = f]
  /\ calls' = [calls EXCEPT ![p] = @ + 1]
  /\ result' = [result EXCEPT ![p] = NoResult]
  /\ UNCHANGED <<child, redirected, status>>

(* system() forks, executes and waits: -1 if it cannot, or the command's   *)
(* status, of which only -1 is negative.                                   *)
do_system(p) ==
  /\ pc[p] = "called" /\ call[p] = "do_system"
  /\ \/ Returns(p, FALSE, "unknown")
     \/ \E s \in Statuses : Returns(p, TRUE, s)
  /\ UNCHANGED <<call, child, calls, redirected, status>>

ForkFails(p) ==
  /\ pc[p] = "called" /\ call[p] # "do_system"
  /\ Returns(p, FALSE, "none")
  /\ UNCHANGED <<call, child, calls, redirected, status>>

(* The child is a copy of the program, in the call.                        *)
Fork(p, c) ==
  /\ pc[p] = "called" /\ call[p] # "do_system" /\ pc[c] = "none"
  /\ pc' = [pc EXCEPT ![p] = "waiting", ![c] = "child"]
  /\ call' = [call EXCEPT ![c] = call[p]]
  /\ child' = [child EXCEPT ![p] = c]
  /\ calls' = [calls EXCEPT ![c] = calls[p]]
  /\ redirected' = [redirected EXCEPT ![c] = redirected[p]]
  /\ UNCHANGED <<status, result>>

-----------------------------------------------------------------------------
(* "redirect standard out to a file": open, then dup2.                     *)
Redirect(c) ==
  /\ pc[c] = "child" /\ call[c] = "do_exec_redirect"
  /\ Goto(c, "exec")
  /\ redirected' = [redirected EXCEPT ![c] = TRUE]
  /\ UNCHANGED <<call, child, calls, status, result>>

(* open or dup2 fails, and the child returns from the call.                *)
RedirectFails(c) ==
  /\ pc[c] = "child" /\ call[c] = "do_exec_redirect"
  /\ Returns(c, FALSE, "none")
  /\ UNCHANGED <<call, child, calls, redirected, status>>

(* Faulty: a child that cannot execute the command returns as well. *)
ExecReturns(c) ==
  /\ pc[c] = IF call[c] = "do_exec" THEN "child" ELSE "exec"
  /\ \/ /\ Goto(c, "command") /\ UNCHANGED result
     \/ Returns(c, FALSE, "none")
  /\ UNCHANGED <<call, child, calls, redirected, status>>

(* execv, and exit(-1) if it returns.                                      *)
Exec(c) ==
  /\ pc[c] = IF call[c] = "do_exec" THEN "child" ELSE "exec"
  /\ \/ /\ Goto(c, "command") /\ UNCHANGED status
     \/ /\ Goto(c, "zombie")
        /\ status' = [status EXCEPT ![c] = "nonzero"]
  /\ UNCHANGED <<call, child, calls, redirected, result>>

(* A command ends; so does the program, where it is not in a call.         *)
Ends(p) ==
  /\ pc[p] \in {"command", "program"}
  /\ Goto(p, "zombie")
  /\ \E s \in Statuses : status' = [status EXCEPT ![p] = s]
  /\ UNCHANGED <<call, child, calls, redirected, result>>

-----------------------------------------------------------------------------
(* Faulty: how the child exited is not looked at. *)
AnyExit(s) == s # "killed"

(* WIFEXITED and WEXITSTATUS of 0.                                         *)
Success(s) == s = "zero"

(* waitpid has the child's status.                                         *)
Reap(p) ==
  /\ pc[p] = "waiting" /\ pc[child[p]] = "zombie"
  /\ pc' = [pc EXCEPT ![p] = "program", ![child[p]] = "reaped"]
  /\ result' = [result EXCEPT ![p] =
                  [of |-> call[p], command |-> status[child[p]],
                   value |-> call[p] = "do_exec_redirect"
                             \/ Success(status[child[p]])]]
  /\ child' = [child EXCEPT ![p] = NoPid]
  /\ UNCHANGED <<call, calls, redirected, status>>

(* waitpid fails, a signal's handler having run: do_exec reports that,     *)
(* do_exec_redirect does not look.                                         *)
WaitFails(p) ==
  /\ pc[p] = "waiting"
  /\ Returns(p, call[p] = "do_exec_redirect", "unknown")
  /\ UNCHANGED <<call, child, calls, redirected, status>>

Next ==
  \E p \in Pids :
    \/ \E f \in Functions : Call(p, f)
    \/ do_system(p) \/ ForkFails(p)
    \/ \E c \in Pids : Fork(p, c)
    \/ Redirect(p) \/ RedirectFails(p) \/ Exec(p) \/ Ends(p)
    \/ Reap(p) \/ WaitFails(p)

Spec == Init /\ [][Next]_vars

-----------------------------------------------------------------------------
(* What a caller is told (systemcalls.c:20-28, 98-113, 180-188): do_exec   *)
(* returns true exactly if its child ended with 0 and it knows; and no     *)
(* call says false of a command that it knows ended with 0.  The other two *)
(* may say true of one that failed: do_system takes all that system()      *)
(* returns but -1 for success (line 25), and do_exec_redirect does not     *)
(* look at the status (188), against the comments (5-8, 39-42, 141).       *)
Told ==
  \A p \in Pids :
    LET r == result[p]
    IN  /\ r.of = "do_exec" => (r.value <=> r.command = "zero")
        /\ r.command = "zero" => r.value

(* do_exec waits for a child that executes the command, or ends because it *)
(* cannot, and never for a copy of the program, whose end it would take    *)
(* for the command's (systemcalls.c:80-98).                                *)
AwaitsCommand ==
  \A p \in Pids :
    pc[p] = "waiting" /\ call[p] = "do_exec"
      => pc[child[p]] \in {"child", "command", "zombie"}

Programs == {"program", "called", "waiting"}

(* A copy of the program goes on as the program, beside the one that made  *)
(* the call, only where do_exec_redirect could not redirect it             *)
(* (systemcalls.c:81-90, 155-176).                                         *)
OnlyRedirectCopies ==
  \A p \in Pids \ {First} :
    pc[p] \notin Programs /\ pc'[p] \in Programs
      => call[p] = "do_exec_redirect" /\ ~redirected[p]

(* Only the process that made a call returns from it: "we shouold not      *)
(* return something here, because the parent process would interprete this *)
(* as success" (systemcalls.c:172-173).                                    *)
OneProgram == \A p \in Pids \ {First} : pc[p] \notin Programs
=============================================================================
