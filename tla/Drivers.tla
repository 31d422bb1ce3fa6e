------------------------------ MODULE Drivers -------------------------------
(***************************************************************************)
(* Drivers that share nothing, side by side: a behaviour chooses one of    *)
(* them and the others never take a step.  Scullc, sculld, scullp and      *)
(* scullv have scull's processes and are asked for less than scull.        *)
(***************************************************************************)
EXTENDS Scull, FiniteSets

CONSTANTS
  CopyWrites, CopyCounts, CopyOffsets,          (* of scull's four copies  *)
  PAGE_SIZE, SCULLP_QSET, Orders, MaxVmas,      (* of ScullP               *)
  PageSize, RecordLen, NR_TIMEVAL, Lengths,     (* of Short                *)
  SnullParameters, Budget,                      (* of Snull                *)
  Users, Sectors, Requests, NoProc,             (* of Sbull                *)
  Devices, MaxUrbs, NoDevice                    (* of UsbSkel              *)

ASSUME PagesAssumption ==
  /\ PAGE_SIZE \in Nat \ {0} /\ SCULLP_QSET \in Nat \ {0}
  /\ \A order \in Orders : 2 ^ order \in Nat \ {0}
ASSUME CopiesAssumption ==
  CopyCounts \subseteq Nat /\ \A d \in CopyWrites : d \in Seq({d[i] : i \in DOMAIN d})
ASSUME ShortAssumption ==
  /\ RecordLen \in Nat \ {0} /\ NR_TIMEVAL \in Nat \ {0, 1}
  /\ Lengths \subseteq Nat \ {0}
  /\ \E n \in 2 .. PageSize : PageSize = n * RecordLen
ASSUME UsersAssumption == IsFiniteSet(Users) /\ NoProc \notin Users
ASSUME SbullAssumption == Sectors \subseteq Int /\ Requests \subseteq Seq(Nat)
ASSUME SnullAssumption ==
  SnullParameters \subseteq
    [use_napi : BOOLEAN, lockup : BOOLEAN, pool_size : Nat,
     MaxTimeouts : Nat, MaxCloses : Nat]
ASSUME UsbAssumption == NoDevice \notin Devices

VARIABLES
  driver,               (* the one that was chosen                         *)
  sc_quantum, sc_qset, sc_dev, sc_lock, sc_file, sc_call,
  sp_order, sp_qset, sp_dev, sp_mutex, sp_file, sp_call, sp_maps,
  sh_module, sh_param, sh_handler, sh_ring, sh_tv, sh_top, sh_bottom,
  sh_queue, sh_pc, sh_count,
  sn_param, sn_state, sn_ppool, sn_rx_queue, sn_ends, sn_rx_int_enabled,
  sn_status, sn_lock, sn_stopped, sn_napi, sn_sender, sn_poll, sn_timeouts,
  sn_closes, sn_missed,
  sb_users, sb_media_change, sb_timer, sb_stale, sb_written, sb_bd_mutex,
  sb_pc, sb_req,
  us_interface, us_intfdata, us_minor, us_leaving, us_kref, us_file, us_pc,
  us_urbs

scullc_vars == <<sc_quantum, sc_qset, sc_dev, sc_lock, sc_file, sc_call>>
scullp_vars == <<sp_order, sp_qset, sp_dev, sp_mutex, sp_file, sp_call, sp_maps>>
short_vars == <<sh_module, sh_param, sh_handler, sh_ring, sh_tv, sh_top,
                sh_bottom, sh_queue, sh_pc, sh_count>>
snull_vars == <<sn_param, sn_state, sn_ppool, sn_rx_queue, sn_ends,
                sn_rx_int_enabled, sn_status, sn_lock, sn_stopped, sn_napi,
                sn_sender, sn_poll, sn_timeouts, sn_closes, sn_missed>>
sbull_vars == <<sb_users, sb_media_change, sb_timer, sb_stale, sb_written,
                sb_bd_mutex, sb_pc, sb_req>>
usb_vars == <<us_interface, us_intfdata, us_minor, us_leaving, us_kref,
              us_file, us_pc, us_urbs>>

Sc == INSTANCE ScullC WITH
  SCULLC_QUANTUM <- SCULL_QUANTUM, SCULLC_QSET <- SCULL_QSET,
  Writes <- CopyWrites, Counts <- CopyCounts, Offsets <- CopyOffsets, Fill <- Garbage,
  scullc_quantum <- sc_quantum, scullc_qset <- sc_qset, dev <- sc_dev,
  lock <- sc_lock, file <- sc_file, call <- sc_call

(* scullp's file fits the first item of its list when order is not 0.      *)
Sp == INSTANCE ScullP WITH
  SCULLP_ORDER <- 0, Qsets <- {SCULLP_QSET}, Writes <- CopyWrites, Counts <- CopyCounts,
  Offsets <- CopyOffsets, Zero <- Garbage,
  scullp_order <- sp_order, scullp_qset <- sp_qset, dev <- sp_dev,
  mutex <- sp_mutex, file <- sp_file, call <- sp_call, maps <- sp_maps

(* sculld and scullv have scullp's variables.                              *)
Sd == INSTANCE ScullD WITH
  SCULLD_ORDER <- 0, SCULLD_QSET <- SCULLP_QSET,
  Qsets <- {SCULLP_QSET}, Writes <- CopyWrites, Counts <- CopyCounts,
  Offsets <- {0}, Zero <- Garbage,
  sculld_order <- sp_order, sculld_qset <- sp_qset, dev <- sp_dev,
  mutex <- sp_mutex, file <- sp_file, call <- sp_call, maps <- sp_maps

Sv == INSTANCE ScullV WITH
  SCULLV_ORDER <- 1, SCULLV_QSET <- SCULLP_QSET, Orders <- {0},
  Qsets <- {SCULLP_QSET}, Writes <- CopyWrites, Counts <- CopyCounts,
  Offsets <- {0}, Zero <- Garbage,
  scullv_order <- sp_order, scullv_qset <- sp_qset, dev <- sp_dev,
  mutex <- sp_mutex, file <- sp_file, call <- sp_call, maps <- sp_maps

Sh == INSTANCE Short WITH
  Counts <- Lengths, module <- sh_module, param <- sh_param,
  handler <- sh_handler, ring <- sh_ring, tv <- sh_tv, top <- sh_top,
  bottom <- sh_bottom, short_queue <- sh_queue, pc <- sh_pc,
  count <- sh_count

Sn == INSTANCE Snull WITH
  Parameters <- SnullParameters, param <- sn_param, state <- sn_state,
  ppool <- sn_ppool, rx_queue <- sn_rx_queue, ends <- sn_ends,
  rx_int_enabled <- sn_rx_int_enabled, status <- sn_status,
  lock <- sn_lock, stopped <- sn_stopped, napi <- sn_napi,
  sender <- sn_sender, poll <- sn_poll, timeouts <- sn_timeouts,
  closes <- sn_closes, missed <- sn_missed

Sb == INSTANCE Sbull WITH
  Procs <- Users, users <- sb_users, media_change <- sb_media_change,
  timer <- sb_timer, stale <- sb_stale, written <- sb_written,
  bd_mutex <- sb_bd_mutex, pc <- sb_pc, req <- sb_req

Us == INSTANCE UsbSkel WITH
  Procs <- Users, Devs <- Devices, NULL <- NoDevice,
  interface <- us_interface, intfdata <- us_intfdata, minor <- us_minor,
  leaving <- us_leaving, kref <- us_kref, file <- us_file, pc <- us_pc,
  urbs <- us_urbs

DriversInit ==
  /\ driver \in {"scull", "scullc", "sculld", "scullp", "scullv", "short",
                 "snull", "sbull", "usb"}
  /\ IF driver = "scullv" THEN Sv!Init ELSE Sp!Init
  /\ Init /\ Sc!Init /\ Sh!Init /\ Sn!Init /\ Sb!Init /\ Us!Init
  /\ driver # "short" => sh_param = "plain"
  /\ driver # "snull" => sn_param = CHOOSE p \in SnullParameters : TRUE

(* The drivers other than d keep still.                                    *)
OnlyMoves(d) ==
  /\ UNCHANGED driver
  /\ d # "scull" => UNCHANGED vars
  /\ d # "scullc" => UNCHANGED scullc_vars
  /\ d \notin {"sculld", "scullp", "scullv"} => UNCHANGED scullp_vars
  /\ d # "short" => UNCHANGED short_vars
  /\ d # "snull" => UNCHANGED snull_vars
  /\ d # "sbull" => UNCHANGED sbull_vars
  /\ d # "usb" => UNCHANGED usb_vars

DriversNext ==
  \/ driver = "scull" /\ Next /\ OnlyMoves("scull")
  \/ driver = "scullc" /\ Sc!Next /\ OnlyMoves("scullc")
  \/ driver = "scullp" /\ Sp!Next /\ OnlyMoves("scullp")
  \/ driver = "sculld" /\ Sd!Next /\ OnlyMoves("sculld")
  \/ driver = "scullv" /\ Sv!Next /\ OnlyMoves("scullv")
  \/ driver = "short" /\ Sh!Next /\ OnlyMoves("short")
  \/ driver = "snull" /\ Sn!Next /\ OnlyMoves("snull")
  \/ driver = "sbull" /\ Sb!Next /\ OnlyMoves("sbull")
  \/ driver = "usb" /\ Us!Next /\ OnlyMoves("usb")

DriversSpec ==
  DriversInit /\ [][DriversNext]_<<driver, vars, scullc_vars, scullp_vars,
                                   short_vars, snull_vars, sbull_vars,
                                   usb_vars>>

-----------------------------------------------------------------------------
(* The types of scull's, short's and sbull's variables: positions, both    *)
(* indices (short.c:405-408), the count of users (sbull.c:298).            *)
TypesOK == TypeOK /\ Sh!TypeOK /\ Sb!TypeOK

(* Scull's data has the geometry the device says it has; scullp's mappings *)
(* keep showing the file, and scullv's the page they found; and nothing is *)
(* stored outside a quantum or an object (scull/main.c:330-352,            *)
(* scullc/main.c:245-252, scullp/main.c:239-248, 419, scullp/mmap.c:72-84, *)
(* scullv/main.c:418, scullv/mmap.c:72-95).                                *)
ScullMemory ==
  /\ GeometryCurrent
  /\ Sc!ObjectsHold
  /\ Sp!QuantaFit
  /\ IF driver = "scullv" THEN Sv!MappedStays ELSE Sp!MappingShowsFile

(* ImplementsFile of scull and of scullc, sculld, scullp and scullv: each  *)
(* is a file in memory (scull/main.c:295-390, scullc/main.c:168-267,       *)
(* sculld/main.c:171-271, scullp/main.c:164-264, scullv/main.c:164-263).   *)
(* The file depends on dev and call, which are the chosen driver's.        *)
ScullsImplementFile ==
  /\ File!Init /\ Sc!File!Init /\ Sp!File!Init
  /\ [][driver = "scull" /\ (UNCHANGED File!vars \/ File!Next)]_<<dev, call>>
  /\ [][driver = "scullc" /\ (UNCHANGED Sc!File!vars \/ Sc!File!Next)]_<<sc_dev, sc_call>>
  /\ [][/\ driver \in {"sculld", "scullp", "scullv"}
        /\ UNCHANGED Sp!File!vars \/ Sp!File!Next]_<<sp_dev, sp_call>>

(* Short: what a read returns was stored and not returned before, no       *)
(* wakeup of the reader is lost, and every stamp left to a bottom half is  *)
(* printed (short.c:292-308, 416, 428).                                    *)
ShortDelivers == Sh!ReadsFresh /\ Sh!ReaderWoken /\ Sh!StampsPrinted

(* Snull: a packet is in one place (snull.c:118-191).                      *)
SnullPacketsOnce == Sn!PacketsOnce

(* Snull: transmission does not stop while there are packets, and the      *)
(* receive interrupt of a device that is up does not stay disabled without *)
(* a poll that will enable it; a packet may all the same be left in the    *)
(* queue (snull.c:160-165, 332-341, 421-424, 512-515).                     *)
SnullGoesOn == Sn!QueueStarted /\ Sn!NotDeaf

(* Snull: no transmission finds the pool empty (snull.c:141, 164, 557).    *)
SnullPacketForTransmit == Sn!PacketForTransmit

(* Sbull: the medium is removed from under nobody, once nobody uses it;    *)
(* nobody sees what was on it; a request whose segments have one size puts *)
(* each sector where it belongs (sbull.c:154-164, 276-298, 310-313, 357).  *)
SbullDisk ==
  Sb!TimerSane /\ Sb!NewMediumBlank /\ Sb!RemovalComes /\ Sb!Placed

(* UsbSkel: a device lives as long as somebody holds a pointer to it       *)
(* (usb-skeleton.c:81-91, 106, 310-316).                                   *)
UsbRefsCounted == Us!RefsCounted
=============================================================================
