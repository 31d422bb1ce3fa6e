----------------------------- MODULE MCDevices ------------------------------
(***************************************************************************)
(* A small instance of Devices: of the scullpipe of MCScullPipe; of three  *)
(* callers of the access-controlled devices, two on one terminal, one on   *)
(* another or on none: root, a user, and one that did su to that user; and *)
(* of the two of them that use the other systems.                          *)
(***************************************************************************)
EXTENDS Devices, MCScullPipe

CONSTANTS a1, a2, a3, tty1, tty2

MCCallers == {a1, a2, a3}
MCUsers == {a1, a2}
MCRoot == {a1}
MCUid == a1 :> 1 @@ a2 :> 2 @@ a3 :> 3
MCEuid == a1 :> 1 @@ a2 :> 2 @@ a3 :> 2
MCTtys == a1 :> {tty1} @@ a2 :> {tty1} @@ a3 :> {tty2, NoTty}

(* Two files of jiq at a time.                                             *)
MCJiqFiles ==
  "jiq 1" :> {"wq", "tasklet"} @@ "jiq 2" :> {"delayed", "timer"}
  @@ "jiq 3" :> {"tasklet", "timer"}
=============================================================================
