------------------------------ MODULE UsbSkel ------------------------------
(***************************************************************************)
(* The usb skeleton driver: one interface that is plugged in and out, a    *)
(* struct usb_skel with a reference count for each time it is in, and      *)
(* processes that open, read, write and close the device, and may still    *)
(* have it open when it has gone.                                          *)
(*                                                                         *)
(* From the USB core: an open runs with minor_rwsem held for reading, and  *)
(* usb_deregister_dev takes it for writing; before disconnect is called    *)
(* every transfer has been ended, with its callback, and no other begins.  *)
(* The data, and what a read returns, are left out: two readers of one     *)
(* device share bulk_in_buffer.                                            *)
(***************************************************************************)
EXTENDS Integers, FiniteSets

CONSTANTS
  Procs,        (* the processes, each with at most one file open          *)
  Devs,         (* what kzalloc may return                                 *)
  MaxUrbs,      (* bound: the writes of one device in flight               *)
  NULL

VARIABLES
  interface,    (* out, probed, in, or how far it has gone                 *)
  intfdata,     (* the data pointer of the interface                       *)
  minor,        (* whether it has a minor                                  *)
  leaving,      (* the device that skel_disconnect is about                *)
  kref,         (* of each device; 0 if it is not allocated                *)
  file,         (* the private_data of each process                        *)
  pc,           (* where each process is                                   *)
  urbs          (* the number of writes of each device in flight           *)

vars == <<interface, intfdata, minor, leaving, kref, file, pc, urbs>>

Init ==
  /\ interface = "out" /\ intfdata = NULL /\ minor = FALSE /\ leaving = NULL
  /\ kref = [d \in Devs |-> 0]
  /\ file = [p \in Procs |-> NULL]
  /\ pc = [p \in Procs |-> "closed"]
  /\ urbs = [d \in Devs |-> 0]

Goto(p, l) == pc' = [pc EXCEPT ![p] = l]

(* kref_get and kref_put; skel_delete frees the device with the last.      *)
Get(d) == kref' = [kref EXCEPT ![d] = @ + 1]
Put(d) == kref' = [kref EXCEPT ![d] = @ - 1]

-----------------------------------------------------------------------------
(* skel_probe.  An interface without the endpoints, or without memory, is  *)
(* as it was before.                                                       *)
skel_probe ==
  /\ interface = "out"
  /\ \E d \in Devs : kref[d] = 0 /\ Get(d) /\ intfdata' = d
  /\ interface' = "probed"
  /\ UNCHANGED <<minor, leaving, file, pc, urbs>>

usb_register_dev ==
  /\ interface = "probed"
  /\ minor' = TRUE /\ interface' = "in"
  /\ UNCHANGED <<intfdata, leaving, kref, file, pc, urbs>>

RegisterFails ==
  /\ interface = "probed"
  /\ intfdata' = NULL /\ Put(intfdata)
  /\ interface' = "out"
  /\ UNCHANGED <<minor, leaving, file, pc, urbs>>

(* skel_disconnect.                                                        *)
skel_disconnect ==
  /\ interface = "in" /\ \A d \in Devs : urbs[d] = 0
  /\ leaving' = intfdata /\ intfdata' = NULL
  /\ interface' = "deregister"
  /\ UNCHANGED <<minor, kref, file, pc, urbs>>

(* Faulty: opens are not waited for. *)
DeregisterAtOnce ==
  /\ interface = "deregister"
  /\ minor' = FALSE
  /\ interface' = "put"
  /\ UNCHANGED <<intfdata, leaving, kref, file, pc, urbs>>

(* Waits for whoever is in skel_open.                                      *)
usb_deregister_dev ==
  /\ interface = "deregister" /\ \A p \in Procs : pc[p] \notin {"find", "get"}
  /\ minor' = FALSE
  /\ interface' = "put"
  /\ UNCHANGED <<intfdata, leaving, kref, file, pc, urbs>>

PutDisconnected ==
  /\ interface = "put"
  /\ Put(leaving) /\ leaving' = NULL
  /\ interface' = "out"
  /\ UNCHANGED <<intfdata, minor, file, pc, urbs>>

-----------------------------------------------------------------------------
(* skel_open.  The core has found the minor and holds minor_rwsem.         *)
FileUnchanged == UNCHANGED <<interface, intfdata, minor, leaving, urbs>>

OpenBegins(p) ==
  /\ pc[p] = "closed" /\ minor
  /\ Goto(p, "find")
  /\ UNCHANGED <<kref, file>> /\ FileUnchanged

usb_get_intfdata(p) ==
  /\ pc[p] = "find"
  /\ IF intfdata = NULL THEN Goto(p, "closed") /\ UNCHANGED file
       ELSE Goto(p, "get") /\ file' = [file EXCEPT ![p] = intfdata]
  /\ UNCHANGED kref /\ FileUnchanged

(* Faulty: the reference is not counted. *)
GetNot(p) ==
  /\ pc[p] = "get"
  /\ Goto(p, "open")
  /\ UNCHANGED <<kref, file>> /\ FileUnchanged

kref_get(p) ==
  /\ pc[p] = "get"
  /\ Get(file[p])
  /\ Goto(p, "open")
  /\ UNCHANGED file /\ FileUnchanged

skel_release(p) ==
  /\ pc[p] = "open"
  /\ Put(file[p]) /\ file' = [file EXCEPT ![p] = NULL]
  /\ Goto(p, "closed")
  /\ FileUnchanged

(* usb_bulk_msg waits for ten seconds; without the interface it fails.     *)
skel_read(p) ==
  /\ pc[p] = "open" /\ Goto(p, "read")
  /\ UNCHANGED <<kref, file>> /\ FileUnchanged

ReadEnds(p) ==
  /\ pc[p] = "read" /\ Goto(p, "open")
  /\ UNCHANGED <<kref, file>> /\ FileUnchanged

(* The urb and its buffer are allocated and filled; then it is submitted,  *)
(* or something fails, for want of the interface as well.                  *)
skel_write(p) ==
  /\ pc[p] = "open" /\ Goto(p, "submit")
  /\ UNCHANGED <<kref, file>> /\ FileUnchanged

usb_submit_urb(p) ==
  /\ pc[p] = "submit" /\ Goto(p, "open")
  /\ \/ /\ interface = "in" /\ intfdata = file[p]
        /\ urbs[file[p]] < MaxUrbs
        /\ urbs' = [urbs EXCEPT ![file[p]] = @ + 1]
     \/ UNCHANGED urbs
  /\ UNCHANGED <<interface, intfdata, minor, leaving, kref, file>>

(* The callback uses the device, and frees the buffer.                     *)
skel_write_bulk_callback(d) ==
  /\ urbs[d] > 0
  /\ urbs' = [urbs EXCEPT ![d] = @ - 1]
  /\ UNCHANGED <<interface, intfdata, minor, leaving, kref, file, pc>>

Next ==
  \/ skel_probe \/ usb_register_dev \/ RegisterFails
  \/ skel_disconnect \/ usb_deregister_dev \/ PutDisconnected
  \/ \E p \in Procs :
       \/ OpenBegins(p) \/ usb_get_intfdata(p) \/ kref_get(p) \/ skel_release(p)
       \/ skel_read(p) \/ ReadEnds(p) \/ skel_write(p) \/ usb_submit_urb(p)
  \/ \E d \in Devs : skel_write_bulk_callback(d)

Spec == Init /\ [][Next]_vars

-----------------------------------------------------------------------------
Pointers == {intfdata, leaving} \cup {file[p] : p \in Procs}
              \cup {d \in Devs : urbs[d] > 0}

(* The count of a device is how many hold it, the interface and the files, *)
(* and who has a pointer to one, to open it or as an urb's context as well,*)
(* has one that is not freed: unplugged or not (usb-skeleton.c:81-91, 106, *)
(* 310-316).                                                               *)
RefsCounted ==
  /\ \A d \in Devs :
       kref[d] = Cardinality({p \in Procs : file[p] = d /\ pc[p] # "get"})
                   + (IF d \in {intfdata, leaving} THEN 1 ELSE 0)
  /\ \A d \in Pointers \ {NULL} : kref[d] > 0
=============================================================================
