------------------------------- MODULE ScullV -------------------------------
(***************************************************************************)
(* The scullv device: scullp with quanta from vmalloc.  Its calls are      *)
(* scullp's, and named here for what they model; its mappings differ,      *)
(* which are allowed whatever the order is.  A fault still takes the       *)
(* number of the page in the file for the number of a quantum, so that     *)
(* with quanta of several pages a mapping shows the first page of each.    *)
(***************************************************************************)
EXTENDS QuantumSets

CONSTANTS
  Procs, PAGE_SIZE, SCULLV_ORDER, SCULLV_QSET, Orders, Qsets, Writes, Counts,
  Offsets, MaxPos, MaxVmas, Zero                    (* as in ScullP        *)

VARIABLES scullv_order, scullv_qset, dev, mutex, file, call, maps

vars == <<scullv_order, scullv_qset, dev, mutex, file, call, maps>>

P == INSTANCE ScullP WITH
  SCULLP_ORDER <- SCULLV_ORDER, SCULLP_QSET <- SCULLV_QSET,
  scullp_order <- scullv_order, scullp_qset <- scullv_qset

Init == P!Init

scullv_open(p, mode) == P!scullp_open(p, mode)
scullv_release(p) == P!scullp_release(p)

(* Reading and writing: the call starts, waits, and does its work.         *)
Enter(p, op, arg) == P!Enter(p, op, arg)
Interrupted(p) == P!Interrupted(p)
FollowDies(p) == P!FollowDies(p)
scullv_read(p) == P!scullp_read(p)
scullv_write(p) == P!scullp_write(p)
WriteNoMemory(p) == P!WriteNoMemory(p)
Return(p) == P!Return(p)

scullv_llseek(p, off, whence) == P!scullp_llseek(p, off, whence)
scullv_ioctl == P!scullp_ioctl

(* Faulty: the mapping is not counted. *)
MapUncounted(p) ==
  /\ P!UserAt(p) /\ file[p].mode # "w" /\ maps[p].vmas < MaxVmas
  /\ maps' = [maps EXCEPT ![p].vmas = @ + 1]
  /\ UNCHANGED <<scullv_order, scullv_qset, dev, mutex, file, call>>

(* No order is refused.                                                    *)
scullv_mmap(p) ==
  /\ P!UserAt(p) /\ file[p].mode # "w"
  /\ P!scullp_vma_open(p)
  /\ UNCHANGED call

VmaCopied(p) == P!VmaCopied(p)

scullv_vma_close(p) == P!scullp_vma_close(p)

(* vmalloc_to_page of the quantum: its first page.                         *)
scullv_vma_nopage(p, n) == P!scullp_vma_nopage(p, n)

Next ==
  \/ scullv_ioctl
  \/ \E p \in Procs :
       \/ \E mode \in {"r", "w", "rw"} : scullv_open(p, mode)
       \/ scullv_release(p)
       \/ file[p].mode # "w" /\ \E n \in Counts : Enter(p, "read", n)
       \/ /\ file[p].mode # "r"
          /\ \E d \in Writes :
               file[p].f_pos + Len(d) <= MaxPos /\ Enter(p, "write", d)
       \/ scullv_read(p) \/ scullv_write(p) \/ WriteNoMemory(p) \/ FollowDies(p)
       \/ Interrupted(p) \/ Return(p)
       \/ \E off \in Offsets, whence \in {"SEEK_SET", "SEEK_CUR", "SEEK_END"} :
            scullv_llseek(p, off, whence)
       \/ scullv_mmap(p) \/ VmaCopied(p) \/ scullv_vma_close(p)
       \/ \E n \in 0 .. MaxPos \div PAGE_SIZE : scullv_vma_nopage(p, n)

Spec == Init /\ [][Next]_vars

-----------------------------------------------------------------------------
(* Every page that was touched in a mapping is still the first page of a   *)
(* quantum of the device, at the place where the fault found it            *)
(* (main.c:418, mmap.c:72-95).  It is the page that read and write find at *)
(* its offset only if quanta are pages.                                    *)
MappedStays ==
  /\ \A p \in Procs : \A t \in maps[p].touched :
       /\ t[2] = P!PageAt(t[1])
       /\ 0 .. PAGE_SIZE - 1 \subseteq DOMAIN QuantumAt(dev.data, t[2])
  /\ dev.order = 0 => P!MappingShowsFile
=============================================================================
