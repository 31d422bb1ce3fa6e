------------------------------- MODULE ScullD -------------------------------
(***************************************************************************)
(* The sculld device: scullp, registered with the ldd bus.  Its calls are  *)
(* scullp's, and named here for what they model.  Its mappings differ in   *)
(* that the fault never sets page: it takes a reference of NULL.           *)
(*                                                                         *)
(* Left out is what is left out of ScullP, and the registration of the     *)
(* driver and its devices.                                                 *)
(***************************************************************************)
EXTENDS QuantumSets

CONSTANTS
  Procs, PAGE_SIZE, SCULLD_ORDER, SCULLD_QSET, Orders, Qsets, Writes, Counts,
  Offsets, MaxPos, MaxVmas, Zero                    (* as in ScullP        *)

VARIABLES sculld_order, sculld_qset, dev, mutex, file, call, maps

vars == <<sculld_order, sculld_qset, dev, mutex, file, call, maps>>

P == INSTANCE ScullP WITH
  SCULLP_ORDER <- SCULLD_ORDER, SCULLP_QSET <- SCULLD_QSET,
  scullp_order <- sculld_order, scullp_qset <- sculld_qset

Init == P!Init

sculld_open(p, mode) == P!scullp_open(p, mode)
sculld_release(p) == P!scullp_release(p)

(* Reading and writing: the call starts, waits, and does its work.         *)
Enter(p, op, arg) == P!Enter(p, op, arg)
Interrupted(p) == P!Interrupted(p)
FollowDies(p) == P!FollowDies(p)
sculld_read(p) == P!scullp_read(p)
sculld_write(p) == P!scullp_write(p)
WriteNoMemory(p) == P!WriteNoMemory(p)
Return(p) == P!Return(p)

sculld_llseek(p, off, whence) == P!scullp_llseek(p, off, whence)
sculld_ioctl == P!scullp_ioctl

MmapTest(p) == P!MmapTest(p)
sculld_mmap(p) == P!scullp_mmap(p)
VmaCopied(p) == P!VmaCopied(p)
sculld_vma_close(p) == P!scullp_vma_close(p)

(* The first access to a page.  Where there is one the process dies, and   *)
(* the mutex is never unlocked; of a hole, or past the end, it gets none.  *)
sculld_vma_nopage(p, n) ==
  /\ call[p] = P!NoCall /\ maps[p].vmas > 0 /\ mutex = "free"
  /\ n * PAGE_SIZE < dev.size /\ QuantumAt(dev.data, P!PageAt(n)) # NULL
  /\ mutex' = "lost"
  /\ call' = [call EXCEPT ![p] = [op |-> "died"]]
  /\ UNCHANGED <<sculld_order, sculld_qset, dev, file, maps>>

Next ==
  \/ sculld_ioctl
  \/ \E p \in Procs :
       \/ \E mode \in {"r", "w", "rw"} : sculld_open(p, mode)
       \/ sculld_release(p)
       \/ file[p].mode # "w" /\ \E n \in Counts : Enter(p, "read", n)
       \/ /\ file[p].mode # "r"
          /\ \E d \in Writes :
               file[p].f_pos + Len(d) <= MaxPos /\ Enter(p, "write", d)
       \/ sculld_read(p) \/ sculld_write(p) \/ WriteNoMemory(p) \/ FollowDies(p)
       \/ Interrupted(p) \/ Return(p)
       \/ \E off \in Offsets, whence \in {"SEEK_SET", "SEEK_CUR", "SEEK_END"} :
            sculld_llseek(p, off, whence)
       \/ MmapTest(p) \/ sculld_mmap(p) \/ VmaCopied(p) \/ sculld_vma_close(p)
       \/ \E n \in 0 .. MaxPos \div PAGE_SIZE : sculld_vma_nopage(p, n)

Spec == Init /\ [][Next]_vars
=============================================================================
