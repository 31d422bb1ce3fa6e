------------------------- MODULE ScullAccessProofs --------------------------
(***************************************************************************)
(* Proofs about the access-controlled scull devices, for every set of      *)
(* processes, users and terminals: the counts and the semaphores, single   *)
(* open, one user at a time, the wakeups of scullwuid, and one device per  *)
(* terminal.                                                               *)
(***************************************************************************)
EXTENDS ScullAccess, FiniteSetTheorems, SequenceTheorems, TLAPS

-----------------------------------------------------------------------------
(***************************************************************************)
(* The inductive invariant.                                                *)
(***************************************************************************)
Owners == {0} \cup {Uid[p] : p \in Procs}
Files == [dev : Devs, kind : Kinds, wronly : BOOLEAN, nonblock : BOOLEAN]

Opened == {"trim", "open", "use"}
Waits == {"prepare", "test_count", "test_owner", "sleep"}

(* The types of the variables.                                             *)
Types ==
  /\ scull_s_available \in Int
  /\ scull_u \in [count : Int, owner : Owners]
  /\ scull_w \in [count : Int, owner : Owners]
  /\ scull_w_wait \subseteq Procs
  /\ scull_c_list \in Seq(Devs)
  /\ scull_c_lock \in Procs \cup {NoProc}
  /\ lock \in [Devs -> Procs \cup {NoProc}]
  /\ pc \in [Procs -> States]
  /\ file \in [Procs -> Files \cup {NoFile}]

(* What a process is opening, or has open, wherever it is.                 *)
Places ==
  \A p \in Procs :
    /\ pc[p] \in {"user", "wake"} <=> file[p] = NoFile
    /\ pc[p] \in Kinds => file[p].kind = pc[p]
    /\ pc[p] = "busy" => file[p].kind = "single"
    /\ pc[p] \in Waits => file[p].kind = "wuid"
    /\ pc[p] = "alloc" => file[p].kind = "priv"

(* Who reads or writes a device has its semaphore, and no other process.   *)
Semaphores ==
  \A p \in Procs, d \in Devs :
    lock[d] = p <=> pc[p] = "use" /\ file[p].dev = d

Busy == {p \in Procs : pc[p] = "busy"}

(* The counts are the numbers of those who were counted.                   *)
Counted ==
  /\ scull_u.count = Cardinality(Openers("uid"))
  /\ scull_w.count = Cardinality(Openers("wuid"))
  /\ SingleOpen

(* A waiter that has seen another's open, or sleeps, is woken when it      *)
(* should look again.                                                      *)
Awaited ==
  \A p \in scull_w_wait :
    \/ pc[p] = "test_owner" /\ scull_w.count = 0
    \/ pc[p] = "sleep" /\ scull_w_available(p)
    => \E q \in Procs : pc[q] = "wake"

(* Whoever allocates a device holds the lock and found none.               *)
Lookups ==
  /\ \A p \in Procs :
       pc[p] = "alloc" => scull_c_lock = p /\ ~ HasDevice(file[p].dev)
  /\ OneDevicePerTty
-----------------------------------------------------------------------------
(* What an open that ends, well or badly, does to its process.             *)
LEMMA GrantedMoves ==
  ASSUME Types, Places, NEW p \in Procs, pc[p] \notin {"user", "wake"},
         Granted(p)
  PROVE  /\ pc' \in [Procs -> States]
         /\ file' \in [Procs -> Files \cup {NoFile}]
         /\ pc'[p] \in {"trim", "open"}
         /\ file'[p] \in Files
         /\ file'[p].kind = file[p].kind /\ file'[p].dev = file[p].dev
         /\ \A q \in Procs \ {p} : pc'[q] = pc[q] /\ file'[q] = file[q]
<1>1. file[p] \in Files
  BY DEF Types, Places
<1>2. /\ pc' \in [Procs -> States] /\ pc'[p] \in {"trim", "open"}
      /\ \A q \in Procs \ {p} : pc'[q] = pc[q]
  BY DEF Granted, Goto, Types, States
<1>3. file' = [file EXCEPT ![p] = [@ EXCEPT !.wronly = FALSE, !.nonblock = FALSE]]
  BY DEF Granted, Types
<1> DEFINE f == [file[p] EXCEPT !.wronly = FALSE, !.nonblock = FALSE]
<1>4. f \in Files /\ f.kind = file[p].kind /\ f.dev = file[p].dev
  BY <1>1 DEF Files
<1>5. file' = [file EXCEPT ![p] = f]
  BY <1>3
<1> HIDE DEF f
<1> QED BY <1>2, <1>4, <1>5 DEF Types

(* A process that is done has no file.                                     *)
LEMMA RefusedMoves ==
  ASSUME Types, NEW p \in Procs, Refused(p)
  PROVE  /\ pc' \in [Procs -> States]
         /\ file' \in [Procs -> Files \cup {NoFile}]
         /\ pc'[p] = "user" /\ file'[p] = NoFile
         /\ \A q \in Procs \ {p} : pc'[q] = pc[q] /\ file'[q] = file[q]
BY DEF Refused, Goto, Types, States

(* A process that goes on keeps its file.                                  *)
LEMMA GotoMoves ==
  ASSUME Types, NEW p \in Procs, NEW l \in States, Goto(p, l), UNCHANGED file
  PROVE  /\ pc' \in [Procs -> States]
         /\ file' \in [Procs -> Files \cup {NoFile}]
         /\ pc'[p] = l /\ file'[p] = file[p]
         /\ \A q \in Procs \ {p} : pc'[q] = pc[q] /\ file'[q] = file[q]
BY DEF Goto, Types

(* The files of processes are of a kind, or none.                          *)
LEMMA FileKinds ==
  ASSUME Types, NEW p \in Procs
  PROVE  file[p].kind \in Kinds <=> file[p] # NoFile
BY DEF Types, Files, NoFile, Kinds

(* No process is the holder of a lock that is free.                        *)
LEMMA Unheld == \A p \in Procs : p # NoProc
BY NoProcAssumption
-----------------------------------------------------------------------------
(* A process that enters one of the four opens.                            *)
LEMMA OpenMoves ==
  ASSUME Types, NEW p \in Procs, NEW kind \in Kinds, NEW wronly \in BOOLEAN,
         NEW nonblock \in BOOLEAN, NEW tty \in Ttys[p],
         open(p, kind, wronly, nonblock, tty)
  PROVE  /\ pc' \in [Procs -> States]
         /\ file' \in [Procs -> Files \cup {NoFile}]
         /\ pc[p] = "user" /\ file[p] = NoFile
         /\ pc'[p] = kind /\ file'[p] \in Files /\ file'[p].kind = kind
         /\ \A q \in Procs \ {p} : pc'[q] = pc[q] /\ file'[q] = file[q]
<1> DEFINE f == [dev |-> IF kind = "priv" THEN tty ELSE kind,
                 kind |-> kind, wronly |-> wronly, nonblock |-> nonblock]
<1>1. f \in Files /\ f.kind = kind
  <2>1. (IF kind = "priv" THEN tty ELSE kind) \in Devs
    BY DEF Devs
  <2> QED BY <2>1 DEF Files
<1>2. file' = [file EXCEPT ![p] = f] /\ pc' = [pc EXCEPT ![p] = kind]
  BY DEF open, Goto
<1>3. pc[p] = "user" /\ file[p] = NoFile
  BY DEF open
<1> HIDE DEF f
<1> QED BY <1>1, <1>2, <1>3 DEF Types, States

(* An open that is counted keeps the type of its counter.                  *)
LEMMA GrabbedType ==
  ASSUME NEW p \in Procs, NEW d \in [count : Int, owner : Owners]
  PROVE  /\ Grabbed(p, d) \in [count : Int, owner : Owners]
         /\ Grabbed(p, d).count = d.count + 1
         /\ Grabbed(p, d).owner = IF d.count = 0 THEN Uid[p] ELSE d.owner
BY DEF Grabbed, Owners

(* A release that is counted does too.                                     *)
LEMMA DroppedType ==
  ASSUME NEW d \in [count : Int, owner : Owners]
  PROVE  /\ [d EXCEPT !.count = @ - 1] \in [count : Int, owner : Owners]
         /\ [d EXCEPT !.count = @ - 1].count = d.count - 1
         /\ [d EXCEPT !.count = @ - 1].owner = d.owner
OBVIOUS

(* The places of one process, so that a step can be looked at alone.       *)
PlacesOf(p) ==
  /\ pc[p] \in {"user", "wake"} <=> file[p] = NoFile
  /\ pc[p] \in Kinds => file[p].kind = pc[p]
  /\ pc[p] = "busy" => file[p].kind = "single"
  /\ pc[p] \in Waits => file[p].kind = "wuid"
  /\ pc[p] = "alloc" => file[p].kind = "priv"

(* What one step of a process does to the others' places.                  *)
LEMMA PlacesMoved ==
  ASSUME Places, NEW p \in Procs, PlacesOf(p)',
         \A q \in Procs \ {p} : pc'[q] = pc[q] /\ file'[q] = file[q]
  PROVE  Places'
BY DEF Places, PlacesOf
-----------------------------------------------------------------------------
(* Initially nobody has, or opens, a device.                               *)
LEMMA TypesInit == Init => Types /\ Places
<1>1. ASSUME Init PROVE Types
  <2>1. <<>> \in Seq(Devs)
    OBVIOUS
  <2>2. NoFile \in Files \cup {NoFile} /\ "user" \in States
    BY DEF States
  <2> QED BY <1>1, <2>1, <2>2 DEF Init, Types, Owners
<1>2. ASSUME Init PROVE Places
  BY <1>2 DEF Init, Places, Kinds, Waits
<1> QED BY <1>1, <1>2

(* Each step keeps the types and the places.                               *)
LEMMA TypesStep ==
  ASSUME Types, Places, Next
  PROVE  Types' /\ Places'
<1> USE DEF Waits
<1>1. CASE scull_access_cleanup
  <2>1. <<>> \in Seq(Devs)
    OBVIOUS
  <2> QED BY <1>1, <2>1 DEF scull_access_cleanup, Types, Places, Owners, Kinds
<1>2. ASSUME NEW p \in Procs, NEW kind \in Kinds, NEW wronly \in BOOLEAN,
             NEW nonblock \in BOOLEAN, NEW tty \in Ttys[p],
             open(p, kind, wronly, nonblock, tty)
      PROVE  Types' /\ Places'
  <2>1. /\ pc' \in [Procs -> States]
        /\ file' \in [Procs -> Files \cup {NoFile}]
        /\ pc[p] = "user" /\ file[p] = NoFile
        /\ pc'[p] = kind /\ file'[p] \in Files /\ file'[p].kind = kind
        /\ \A q \in Procs \ {p} : pc'[q] = pc[q] /\ file'[q] = file[q]
    BY <1>2, OpenMoves
  <2>2. Types'
    BY <1>2, <2>1 DEF open, Types
  <2>3. PlacesOf(p)'
    BY <2>1 DEF PlacesOf, Files, NoFile, Kinds
  <2> QED BY <2>1, <2>2, <2>3, PlacesMoved
<1>3. ASSUME NEW p \in Procs, pc[p] \notin {"user", "wake"}, Granted(p),
             Types'
      PROVE  Types' /\ Places'
  <2>1. /\ pc'[p] \in {"trim", "open"} /\ file'[p] \in Files
        /\ \A q \in Procs \ {p} : pc'[q] = pc[q] /\ file'[q] = file[q]
    BY <1>3, GrantedMoves
  <2>2. PlacesOf(p)'
    BY <2>1 DEF PlacesOf, Files, NoFile, Kinds
  <2> QED BY <1>3, <2>1, <2>2, PlacesMoved
<1>4. ASSUME NEW p \in Procs, Refused(p), Types'
      PROVE  Types' /\ Places'
  <2>1. /\ pc'[p] = "user" /\ file'[p] = NoFile
        /\ \A q \in Procs \ {p} : pc'[q] = pc[q] /\ file'[q] = file[q]
    BY <1>4, RefusedMoves
  <2>2. PlacesOf(p)'
    BY <2>1 DEF PlacesOf, Kinds
  <2> QED BY <1>4, <2>1, <2>2, PlacesMoved
<1>5. ASSUME NEW p \in Procs, NEW l \in States \ {"user", "wake"}, Goto(p, l),
             UNCHANGED file, pc[p] \notin {"user", "wake"}, Types',
             /\ l \in Kinds => file[p].kind = l
             /\ l = "busy" => file[p].kind = "single"
             /\ l \in Waits => file[p].kind = "wuid"
             /\ l = "alloc" => file[p].kind = "priv"
      PROVE  Types' /\ Places'
  <2>1. /\ pc'[p] = l /\ file'[p] = file[p]
        /\ \A q \in Procs \ {p} : pc'[q] = pc[q] /\ file'[q] = file[q]
    BY <1>5, GotoMoves
  <2>2. PlacesOf(p)'
    BY <1>5, <2>1 DEF PlacesOf, Places
  <2> QED BY <1>5, <2>1, <2>2, PlacesMoved
<1>6. ASSUME NEW p \in Procs, scull_trim(p) \/ BeginUse(p) \/ EndUse(p)
      PROVE  Types' /\ Places'
  <2>1. Types'
    BY <1>6, GotoMoves DEF scull_trim, BeginUse, EndUse, Types, States
  <2>2. \E l \in {"open", "use"} : Goto(p, l)
    BY <1>6 DEF scull_trim, BeginUse, EndUse
  <2>3. pc[p] \notin {"user", "wake"} /\ UNCHANGED file
    BY <1>6 DEF scull_trim, BeginUse, EndUse
  <2> QED BY <1>5, <2>1, <2>2, <2>3 DEF States, Kinds
<1>7. ASSUME NEW p \in Procs,
             scull_s_open(p) \/ scull_s_busy(p) \/ scull_s_release(p)
      PROVE  Types' /\ Places'
  <2>1. pc[p] \notin {"user", "wake"}
    BY <1>7 DEF scull_s_open, scull_s_busy, scull_s_release, Closing
  <2>2. scull_s_available' \in Int
    BY <1>7 DEF scull_s_open, scull_s_busy, scull_s_release, Types
  <2>3. \/ Granted(p) \/ Refused(p)
        \/ pc[p] = "single" /\ Goto(p, "busy") /\ UNCHANGED file
    <3>1. CASE scull_s_open(p)
      BY <3>1 DEF scull_s_open
    <3>2. CASE scull_s_busy(p) \/ scull_s_release(p)
      BY <3>2 DEF scull_s_busy, scull_s_release
    <3> QED BY <1>7, <3>1, <3>2
  <2>5. UNCHANGED <<scull_u, scull_w, scull_w_wait, scull_c_list, scull_c_lock,
                    lock>>
    BY <1>7 DEF scull_s_open, scull_s_busy, scull_s_release
  <2>4. Types'
    BY <2>1, <2>2, <2>3, <2>5, GrantedMoves, RefusedMoves, GotoMoves DEF Types, States
  <2> QED BY <1>3, <1>4, <1>5, <2>1, <2>3, <2>4 DEF Places, States, Kinds
<1>8. ASSUME NEW p \in Procs, scull_u_open(p) \/ scull_u_release(p)
      PROVE  Types' /\ Places'
  <2>1. pc[p] \notin {"user", "wake"}
    BY <1>8 DEF scull_u_open, scull_u_release, Closing
  <2>2. scull_u' \in [count : Int, owner : Owners]
    <3>1. scull_u \in [count : Int, owner : Owners]
      BY DEF Types
    <3>2. scull_u' \in {scull_u, Grabbed(p, scull_u), [scull_u EXCEPT !.count = @ - 1]}
      BY <1>8, Zenon DEF scull_u_open, scull_u_release
    <3> QED BY <3>1, <3>2, GrabbedType, DroppedType
  <2>3. /\ Granted(p) \/ Refused(p)
        /\ UNCHANGED <<scull_s_available, scull_w, scull_w_wait, scull_c_list,
                       scull_c_lock, lock>>
    BY <1>8 DEF scull_u_open, scull_u_release
  <2>4. Types'
    BY <2>1, <2>2, <2>3, GrantedMoves, RefusedMoves DEF Types
  <2> QED BY <1>3, <1>4, <2>1, <2>3, <2>4
<1>9. ASSUME NEW p \in Procs, scull_w_open(p)
      PROVE  Types' /\ Places'
  <2>1. pc[p] = "wuid" /\ UNCHANGED scull_w_wait /\ WaitUnchanged
    BY <1>9 DEF scull_w_open
  <2>2. scull_w' \in [count : Int, owner : Owners]
    BY <1>9, GrabbedType DEF scull_w_open, Types
  <2>3. Granted(p) \/ Refused(p) \/ (Goto(p, "prepare") /\ UNCHANGED file)
    BY <1>9 DEF scull_w_open
  <2>4. Types'
    BY <2>1, <2>2, <2>3, GrantedMoves, RefusedMoves, GotoMoves
    DEF Types, WaitUnchanged, States
  <2> QED BY <1>3, <1>4, <1>5, <2>1, <2>3, <2>4 DEF Places, States, Kinds
<1>10. ASSUME NEW p \in Procs,
              WaitPrepare(p) \/ WaitTest(p) \/ Woken(p)
       PROVE  Types' /\ Places'
  <2>1. /\ pc[p] \in Waits /\ UNCHANGED <<scull_w, file>> /\ WaitUnchanged
        /\ scull_w_wait' \subseteq scull_w_wait \cup {p}
    BY <1>10 DEF WaitPrepare, WaitTest, Woken
  <2>2. PICK l \in {"prepare", "test_count", "test_owner", "sleep", "wuid"} : Goto(p, l)
    BY <1>10 DEF WaitPrepare, WaitTest, Woken
  <2>3. Types'
    BY <2>1, <2>2, GotoMoves DEF Types, WaitUnchanged, States, Kinds
  <2> QED BY <1>5, <2>1, <2>2, <2>3 DEF Places, States, Kinds
<1>11. ASSUME NEW p \in Procs, Interrupted(p)
       PROVE  Types' /\ Places'
  <2>1. Refused(p) /\ UNCHANGED scull_w /\ WaitUnchanged
        /\ scull_w_wait' \subseteq scull_w_wait
    BY <1>11 DEF Interrupted
  <2>2. Types'
    BY <2>1, RefusedMoves DEF Types, WaitUnchanged
  <2> QED BY <1>4, <2>1, <2>2
<1>12. ASSUME NEW p \in Procs, scull_w_release(p) \/ Wake(p)
       PROVE  Types' /\ Places'
  <2>1. /\ pc' \in [Procs -> States] /\ file' \in [Procs -> Files \cup {NoFile}]
        /\ pc'[p] \in {"user", "wake"} /\ file'[p] = NoFile
        /\ \A q \in Procs \ {p} : pc'[q] = pc[q] /\ file'[q] = file[q]
    BY <1>12 DEF scull_w_release, Wake, Goto, Types, Places, States
  <2>2. /\ scull_w' \in [count : Int, owner : Owners]
        /\ scull_w_wait' \subseteq scull_w_wait /\ WaitUnchanged
    BY <1>12, DroppedType DEF scull_w_release, Wake, Types
  <2>3. Types'
    BY <2>1, <2>2 DEF Types, WaitUnchanged
  <2>4. PlacesOf(p)'
    BY <2>1 DEF PlacesOf, Kinds
  <2> QED BY <2>1, <2>3, <2>4, PlacesMoved
<1>13. ASSUME NEW p \in Procs,
              scull_c_open(p) \/ scull_c_lookfor_device(p) \/ scull_c_release(p)
       PROVE  Types' /\ Places'
  <2>1. pc[p] \notin {"user", "wake"} /\ CloneUnchanged
    BY <1>13 DEF scull_c_open, scull_c_lookfor_device, scull_c_release, Closing
  <2>2. scull_c_lock' \in Procs \cup {NoProc}
    BY <1>13 DEF scull_c_open, scull_c_lookfor_device, scull_c_release, Types
  <2>3. scull_c_list' \in Seq(Devs)
    <3>1. file[p].dev \in Devs
      BY <2>1 DEF Types, Places, Files
    <3>2. <<file[p].dev>> \o scull_c_list \in Seq(Devs)
      BY <3>1 DEF Types
    <3> QED BY <1>13, <3>2
        DEF scull_c_open, scull_c_lookfor_device, scull_c_release, Types
  <2>4. Granted(p) \/ Refused(p)
        \/ (pc[p] = "priv" /\ Goto(p, "alloc") /\ UNCHANGED file)
    BY <1>13 DEF scull_c_open, scull_c_lookfor_device, scull_c_release
  <2>5. Types'
    BY <2>1, <2>2, <2>3, <2>4, GrantedMoves, RefusedMoves, GotoMoves
    DEF Types, CloneUnchanged, States
  <2> QED BY <1>3, <1>4, <1>5, <2>1, <2>4, <2>5 DEF Places, States, Kinds
<1> QED BY <1>1, <1>2, <1>6, <1>7, <1>8, <1>9, <1>10, <1>11, <1>12, <1>13 DEF Next
-----------------------------------------------------------------------------
(***************************************************************************)
(* A step of a process, for the invariants that look only at where         *)
(* everybody is and what they open.                                        *)
(***************************************************************************)
Moves(p) == \A q \in Procs \ {p} : pc'[q] = pc[q] /\ file'[q] = file[q]

(* What a process does: it begins to open a device, or goes on.             *)
StepOf(p) ==
  \/ /\ pc[p] = "user" /\ pc'[p] \in Kinds
     /\ UNCHANGED <<scull_s_available, scull_u, scull_w, scull_w_wait,
                    scull_c_list, scull_c_lock, lock>>
  \/ scull_trim(p) \/ BeginUse(p) \/ EndUse(p)
  \/ scull_s_open(p) \/ scull_s_busy(p) \/ scull_s_release(p)
  \/ scull_u_open(p) \/ scull_u_release(p)
  \/ scull_w_open(p) \/ WaitPrepare(p) \/ WaitTest(p) \/ Woken(p)
  \/ Interrupted(p) \/ scull_w_release(p) \/ Wake(p)
  \/ scull_c_open(p) \/ scull_c_lookfor_device(p) \/ scull_c_release(p)

(* Each step but the unloading is one of a process.                        *)
LEMMA StepMoves ==
  ASSUME Types, Places, Next, ~ scull_access_cleanup
  PROVE  \E p \in Procs :
           Moves(p) /\ StepOf(p)
<1>1. ASSUME NEW p \in Procs, NEW kind \in Kinds, NEW wronly \in BOOLEAN,
             NEW nonblock \in BOOLEAN, NEW tty \in Ttys[p],
             open(p, kind, wronly, nonblock, tty)
      PROVE  /\ Moves(p)
             /\ pc[p] = "user" /\ pc'[p] \in Kinds
             /\ UNCHANGED <<scull_s_available, scull_u, scull_w, scull_w_wait,
                            scull_c_list, scull_c_lock, lock>>
  BY <1>1, OpenMoves DEF open, Moves
<1>2. ASSUME NEW p \in Procs,
             \/ scull_trim(p) \/ BeginUse(p) \/ EndUse(p)
             \/ WaitPrepare(p) \/ WaitTest(p) \/ Woken(p) \/ Wake(p)
             \/ scull_w_release(p)
      PROVE  Moves(p)
  <2>1. ASSUME NEW l, Goto(p, l), UNCHANGED file
        PROVE  Moves(p)
    BY <2>1 DEF Goto, Moves, Types
  <2>2. CASE scull_trim(p) \/ BeginUse(p) \/ EndUse(p) \/ Woken(p) \/ WaitPrepare(p)
             \/ Wake(p)
    BY <2>1, <2>2 DEF scull_trim, BeginUse, EndUse, Woken, WaitPrepare, Wake
  <2>3. CASE WaitTest(p)
    BY <2>1, <2>3 DEF WaitTest
  <2>4. CASE scull_w_release(p)
    BY <2>4 DEF scull_w_release, Goto, Moves, Types
  <2> QED BY <1>2, <2>2, <2>3, <2>4
<1>3. ASSUME NEW p \in Procs,
             \/ Granted(p) \/ Refused(p) \/ (Goto(p, "busy") /\ UNCHANGED file)
             \/ (Goto(p, "prepare") /\ UNCHANGED file)
             \/ (Goto(p, "alloc") /\ UNCHANGED file)
      PROVE  Moves(p)
  <2>1. CASE Granted(p)
    BY <2>1 DEF Granted, Goto, Moves, Types
  <2>2. CASE ~ Granted(p)
    BY <1>3, <2>2 DEF Refused, Goto, Moves, Types
  <2> QED BY <2>1, <2>2
<1>4. ASSUME NEW p \in Procs,
             \/ scull_s_open(p) \/ scull_s_busy(p) \/ scull_s_release(p)
             \/ scull_u_open(p) \/ scull_u_release(p)
             \/ scull_w_open(p) \/ Interrupted(p)
      PROVE  Moves(p)
  <2>1. CASE scull_s_open(p)
    BY <1>3, <2>1 DEF scull_s_open
  <2>2. CASE scull_s_busy(p) \/ scull_s_release(p) \/ scull_u_release(p) \/ Interrupted(p)
    BY <1>3, <2>2 DEF scull_s_busy, scull_s_release, scull_u_release, Interrupted
  <2>3. CASE scull_u_open(p)
    BY <1>3, <2>3 DEF scull_u_open
  <2>4. CASE scull_w_open(p)
    BY <1>3, <2>4 DEF scull_w_open
  <2> QED BY <1>4, <2>1, <2>2, <2>3, <2>4
<1>5. ASSUME NEW p \in Procs,
             scull_c_open(p) \/ scull_c_lookfor_device(p) \/ scull_c_release(p)
      PROVE  Moves(p)
  BY <1>3, <1>5 DEF scull_c_open, scull_c_lookfor_device, scull_c_release
<1> QED BY <1>1, <1>2, <1>4, <1>5 DEF Next, StepOf

(* Who opens a device of a kind, after a step of p.                        *)
LEMMA OpenersMoved ==
  ASSUME NEW p \in Procs, Moves(p), NEW kind
  PROVE  Openers(kind)' =
           IF file'[p].kind = kind /\ pc'[p] \in Opened
             THEN Openers(kind) \cup {p} ELSE Openers(kind) \ {p}
BY DEF Openers, Moves, Opened

(* There are finitely many of them, and one more or less counts as one.    *)
LEMMA OpenersCount ==
  ASSUME NEW kind, NEW p \in Procs
  PROVE  /\ Cardinality(Openers(kind)) \in Nat
         /\ p \notin Openers(kind)
              => Cardinality(Openers(kind) \cup {p}) = Cardinality(Openers(kind)) + 1
         /\ p \in Openers(kind)
              => Cardinality(Openers(kind) \ {p}) = Cardinality(Openers(kind)) - 1
         /\ Cardinality(Openers(kind)) = 0 <=> Openers(kind) = {}
<1>1. IsFiniteSet(Openers(kind))
  BY ProcsAssumption, FS_Subset DEF Openers
<1> QED BY <1>1, FS_CardinalityType, FS_AddElement, FS_RemoveElement, FS_EmptySet
(* An open that succeeds makes its process one of them.                    *)
LEMMA GrantCounts ==
  ASSUME Types, Places, NEW p \in Procs, Moves(p), Granted(p),
         pc[p] \in Kinds \cup {"alloc"}, NEW kind
  PROVE  /\ p \notin Openers(kind)
         /\ Openers(kind)' = IF kind = file[p].kind THEN Openers(kind) \cup {p}
                                                    ELSE Openers(kind)
<1>1. pc'[p] \in {"trim", "open"} /\ file'[p].kind = file[p].kind
  BY GrantedMoves DEF Kinds
<1>2. p \notin Openers(kind)
  BY DEF Openers, Kinds
<1> QED BY <1>1, <1>2, OpenersMoved DEF Opened

(* A release, or an open that fails, of a process leaves it none of them.  *)
LEMMA CloseCounts ==
  ASSUME Types, Places, NEW p \in Procs, Moves(p), pc[p] = "open",
         pc'[p] \in {"user", "wake"}, NEW kind
  PROVE  /\ p \in Openers(kind) <=> kind = file[p].kind
         /\ Openers(kind)' = Openers(kind) \ {p}
BY OpenersMoved DEF Openers, Opened

(* A process that has a device open, or has not, before and after a step   *)
(* leaves them what they are.                                              *)
LEMMA QuietCounts ==
  ASSUME NEW p \in Procs, Moves(p), NEW kind,
         \/ pc[p] \notin Opened /\ pc'[p] \notin Opened
         \/ pc[p] \in Opened /\ pc'[p] \in Opened /\ UNCHANGED file
  PROVE  Openers(kind)' = Openers(kind)
BY OpenersMoved DEF Openers, Opened

(* Who has been refused scullsingle and puts its counter back.             *)
LEMMA BusyMoved ==
  ASSUME NEW p \in Procs, Moves(p)
  PROVE  /\ Busy' = IF pc'[p] = "busy" THEN Busy \cup {p} ELSE Busy \ {p}
         /\ p \in Busy <=> pc[p] = "busy"
BY DEF Busy, Moves

(* There are finitely many of them, and one more or less counts as one.    *)
LEMMA BusyCount ==
  ASSUME NEW p \in Procs
  PROVE  /\ Cardinality(Busy) \in Nat
         /\ p \notin Busy => Cardinality(Busy \cup {p}) = Cardinality(Busy) + 1
         /\ p \in Busy => Cardinality(Busy \ {p}) = Cardinality(Busy) - 1
<1>1. IsFiniteSet(Busy)
  BY ProcsAssumption, FS_Subset DEF Busy
<1> QED BY <1>1, FS_CardinalityType, FS_AddElement, FS_RemoveElement

-----------------------------------------------------------------------------
(* The semaphores.                                                         *)

(* A step outside of read and write.                                       *)
LEMMA SemaphoresKept ==
  ASSUME Semaphores, NEW p \in Procs, Moves(p), UNCHANGED lock,
         pc[p] # "use", pc'[p] # "use"
  PROVE  Semaphores'
BY DEF Semaphores, Moves

(* Each step keeps the semaphores with who reads or writes.                *)
LEMMA SemaphoresStep ==
  ASSUME Types, Places, Semaphores, Next
  PROVE  Semaphores'
<1>1. CASE scull_access_cleanup
  BY <1>1 DEF scull_access_cleanup, Semaphores
<1>2. CASE ~ scull_access_cleanup
  <2>1. PICK p \in Procs :
           Moves(p) /\ StepOf(p)
    BY <1>2, StepMoves
  <2> DEFINE d == file[p].dev
  <2>2. CASE BeginUse(p)
    <3>1. file[p] \in Files
      BY <2>2 DEF BeginUse, Types, Places
    <3>2. d \in Devs /\ lock[d] = NoProc
      BY <2>2, <3>1 DEF BeginUse, Files
    <3>3. lock' = [lock EXCEPT ![d] = p] /\ pc[p] = "open" /\ pc'[p] = "use" /\ UNCHANGED file
      BY <2>2 DEF BeginUse, Goto, Types
    <3> QED BY <2>1, <3>2, <3>3, Unheld DEF Semaphores, Types, Moves
  <2>3. CASE EndUse(p)
    <3>1. file[p] \in Files
      BY <2>3 DEF EndUse, Types, Places
    <3>2. d \in Devs
      BY <3>1 DEF Files
    <3>3. lock' = [lock EXCEPT ![d] = NoProc] /\ pc[p] = "use" /\ pc'[p] = "open" /\ UNCHANGED file
      BY <2>3 DEF EndUse, Goto, Types
    <3>4. \A q \in Procs : q # NoProc
      BY Unheld
    <3> HIDE DEF d
    <3>5. \A e \in Devs : e # d => lock'[e] = lock[e] 
      BY <3>3 DEF Types
    <3>6. lock'[d] = NoProc /\ lock[d] = p
      BY <3>2, <3>3 DEF Types, Semaphores, d
    <3> QED BY <2>1, <3>2, <3>3, <3>4, <3>5, <3>6 DEF Semaphores, Moves, d
  <2>4. CASE ~ BeginUse(p) /\ ~ EndUse(p)
    <3>1. UNCHANGED lock
      BY <2>1, <2>4
      DEF StepOf, scull_trim, scull_s_open, scull_s_busy, scull_s_release, scull_u_open,
          scull_u_release, scull_w_open, WaitPrepare, WaitTest, Woken, Interrupted,
          scull_w_release, Wake, scull_c_open, scull_c_lookfor_device,
          scull_c_release, WaitUnchanged, CloneUnchanged
    <3>2. pc[p] # "use"
      BY <2>1, <2>4
      DEF StepOf, scull_trim, scull_s_open, scull_s_busy, scull_s_release, scull_u_open,
          scull_u_release, scull_w_open, WaitPrepare, WaitTest, Woken, Interrupted,
          scull_w_release, Wake, scull_c_open, scull_c_lookfor_device,
          scull_c_release, Closing
    <3>3. pc'[p] # "use"
      <4>1. ASSUME NEW l, Goto(p, l), l # "use" PROVE pc'[p] # "use"
        BY <4>1 DEF Goto, Types
      <4>2. Granted(p) \/ Refused(p) => pc'[p] # "use"
        BY <4>1 DEF Granted, Refused
      <4>3. CASE \/ scull_trim(p) \/ WaitPrepare(p) \/ Woken(p) \/ Wake(p)
                 \/ scull_s_busy(p) \/ scull_s_release(p) \/ scull_u_release(p)
                 \/ Interrupted(p) \/ scull_c_release(p)
        BY <4>1, <4>2, <4>3
        DEF scull_trim, WaitPrepare, Woken, Wake, scull_s_busy, scull_s_release,
            scull_u_release, Interrupted, scull_c_release
      <4>4. CASE \/ scull_s_open(p) \/ scull_u_open(p) \/ scull_w_open(p)
                 \/ scull_c_open(p) \/ scull_c_lookfor_device(p)
        BY <4>1, <4>2, <4>4
        DEF scull_s_open, scull_u_open, scull_w_open, scull_c_open,
            scull_c_lookfor_device
      <4>5. CASE WaitTest(p) \/ scull_w_release(p)
        BY <4>1, <4>5 DEF WaitTest, scull_w_release
      <4> QED BY <2>1, <2>4, <4>3, <4>4, <4>5 DEF Kinds, StepOf
    <3> QED BY <2>1, <3>1, <3>2, <3>3, SemaphoresKept
  <2> QED BY <2>2, <2>3, <2>4
<1> QED BY <1>1, <1>2
-----------------------------------------------------------------------------
(* The counts and the owners.                                              *)

(* A step that changes neither counters nor openers.                       *)
LEMMA CountsKept ==
  ASSUME Counted, OneUser,
         UNCHANGED <<scull_s_available, scull_u, scull_w>>, Busy' = Busy,
         \A kind \in Kinds : Openers(kind)' = Openers(kind)
  PROVE  Counted' /\ OneUser'
<1>1. Counted'
  BY DEF Counted, SingleOpen, Kinds, Busy
<1>2. OneUser'
  BY DEF OneUser, Kinds, Allowed
<1> QED BY <1>1, <1>2

(* Of scullsingle's counter only the sum matters.                          *)
LEMMA SingleSum ==
  ASSUME NEW a \in Int, NEW n \in Nat, NEW b \in Nat, a = 1 - n - b, n <= 1
  PROVE  /\ a - 1 = 0 => n = 0 /\ b = 0 /\ a - 1 = 1 - (n + 1) - b
         /\ a - 1 = 1 - n - (b + 1)
         /\ a + 1 = 1 - n - (b - 1)
         /\ a + 1 = 1 - (n - 1) - b
OBVIOUS

(* Opening and releasing scullsingle.                                      *)
LEMMA SingleStep ==
  ASSUME Types, Places, Counted, OneUser, NEW p \in Procs, Moves(p),
         scull_s_open(p) \/ scull_s_busy(p) \/ scull_s_release(p)
  PROVE  Counted' /\ OneUser'
<1> DEFINE n == Cardinality(Openers("single"))
           b == Cardinality(Busy)
<1>1. /\ scull_s_available \in Int /\ n \in Nat /\ b \in Nat
      /\ scull_s_available = 1 - n - b /\ n <= 1
  BY OpenersCount, BusyCount DEF Types, Counted, SingleOpen, Busy
<1>2. /\ p \notin Openers("single") => Cardinality(Openers("single") \cup {p}) = n + 1
      /\ p \in Openers("single") => Cardinality(Openers("single") \ {p}) = n - 1
      /\ p \notin Busy => Cardinality(Busy \cup {p}) = b + 1
      /\ p \in Busy => Cardinality(Busy \ {p}) = b - 1
  BY OpenersCount, BusyCount
<1>3. UNCHANGED <<scull_u, scull_w>>
  BY DEF scull_s_open, scull_s_busy, scull_s_release
<1>4. ASSUME \A kind \in {"uid", "wuid"} : Openers(kind)' = Openers(kind), SingleOpen'
      PROVE  Counted' /\ OneUser'
  BY <1>3, <1>4 DEF Counted, OneUser, Allowed
<1>5. CASE scull_s_open(p) /\ Granted(p)
  <2>1. pc[p] = "single" /\ file[p].kind = "single"
    BY <1>5 DEF scull_s_open, Places, Kinds
  <2>2. scull_s_available' = scull_s_available - 1 /\ scull_s_available - 1 = 0
    <3>1. pc'[p] # "busy"
      BY <1>5, GrantedMoves, <2>1
    <3> QED BY <1>5, <3>1 DEF scull_s_open, Goto, Types
  <2>3. /\ p \notin Openers("single") /\ Openers("single")' = Openers("single") \cup {p}
        /\ \A kind \in {"uid", "wuid"} : Openers(kind)' = Openers(kind)
    BY <1>5, <2>1, GrantCounts DEF Kinds
  <2>4. Busy' = Busy
    BY <1>5, <2>1, GrantedMoves, BusyMoved
  <2>5. n = 0 /\ b = 0 /\ scull_s_available - 1 = 1 - (n + 1) - b
    BY <1>1, <2>2, SingleSum
  <2>6. SingleOpen'
    <3>1. Cardinality(Openers("single"))' = n + 1
      BY <1>2, <2>3
    <3>2. Cardinality(Busy)' = b
      BY <2>4
    <3>3. scull_s_available' = 1 - (n + 1) - b /\ n + 1 <= 1
      BY <2>2, <2>5
    <3> HIDE DEF n, b
    <3> QED BY <3>1, <3>2, <3>3 DEF SingleOpen, Busy
  <2> QED BY <1>4, <2>3, <2>6
<1>6. CASE scull_s_open(p) /\ ~ Granted(p)
  <2>1. pc[p] = "single" /\ scull_s_available' = scull_s_available - 1 /\ pc'[p] = "busy"
    BY <1>6 DEF scull_s_open, Goto, Types
  <2>2. \A kind \in {"single", "uid", "wuid"} : Openers(kind)' = Openers(kind)
    BY <2>1, QuietCounts DEF Opened
  <2>3. p \notin Busy /\ Busy' = Busy \cup {p}
    BY <2>1, BusyMoved
  <2>4. scull_s_available - 1 = 1 - n - (b + 1)
    BY <1>1, SingleSum
  <2>5. SingleOpen'
    BY <1>1, <1>2, <2>1, <2>2, <2>3, <2>4 DEF SingleOpen, Busy
  <2> QED BY <1>4, <2>2, <2>5
<1>7. CASE scull_s_busy(p)
  <2>1. pc[p] = "busy" /\ scull_s_available' = scull_s_available + 1 /\ pc'[p] = "user"
    BY <1>7, RefusedMoves DEF scull_s_busy
  <2>2. \A kind \in {"single", "uid", "wuid"} : Openers(kind)' = Openers(kind)
    BY <2>1, QuietCounts DEF Opened
  <2>3. p \in Busy /\ Busy' = Busy \ {p}
    BY <2>1, BusyMoved
  <2>4. scull_s_available + 1 = 1 - n - (b - 1)
    BY <1>1, SingleSum
  <2>5. SingleOpen'
    BY <1>1, <1>2, <2>1, <2>2, <2>3, <2>4 DEF SingleOpen, Busy
  <2> QED BY <1>4, <2>2, <2>5
<1>8. CASE scull_s_release(p)
  <2>1. /\ pc[p] = "open" /\ file[p].kind = "single" /\ pc'[p] = "user"
        /\ scull_s_available' = scull_s_available + 1
    BY <1>8, RefusedMoves DEF scull_s_release, Closing
  <2>2. /\ p \in Openers("single") /\ Openers("single")' = Openers("single") \ {p}
        /\ \A kind \in {"uid", "wuid"} : Openers(kind)' = Openers(kind)
    <3>1. \A kind : /\ p \in Openers(kind) <=> kind = file[p].kind
                    /\ Openers(kind)' = Openers(kind) \ {p}
      BY <2>1, CloseCounts
    <3>2. \A kind \in {"uid", "wuid"} : p \notin Openers(kind)
      BY <2>1, <3>1
    <3> QED BY <2>1, <3>1, <3>2
  <2>3. Busy' = Busy
    BY <2>1, BusyMoved
  <2>4. scull_s_available + 1 = 1 - (n - 1) - b /\ n - 1 <= 1
    BY <1>1, SingleSum
  <2>5. SingleOpen'
    BY <1>1, <1>2, <2>1, <2>2, <2>3, <2>4 DEF SingleOpen, Busy
  <2> QED BY <1>4, <2>2, <2>5
<1> QED BY <1>5, <1>6, <1>7, <1>8
(* Opening sculluid or scullwuid: the counter counts one more, and whoever *)
(* has the device open may have it open with the opener.                   *)
LEMMA GrabStep ==
  ASSUME Types, Places, NEW p \in Procs, Moves(p), Granted(p),
         NEW kind \in {"uid", "wuid"}, pc[p] = kind,
         NEW d \in [count : Int, owner : Owners],
         d.count = Cardinality(Openers(kind)),
         \A q \in Openers(kind) : Allowed(q, d.owner),
         d.count = 0 \/ Allowed(p, d.owner)
  PROVE  /\ Grabbed(p, d).count = Cardinality(Openers(kind)')
         /\ \A q \in Openers(kind)' : Allowed(q, Grabbed(p, d).owner)
<1>1. file[p].kind = kind
  BY DEF Places, Kinds
<1>2. p \notin Openers(kind) /\ Openers(kind)' = Openers(kind) \cup {p}
  BY <1>1, GrantCounts DEF Kinds
<1>3. Cardinality(Openers(kind)') = Cardinality(Openers(kind)) + 1
  BY <1>2, OpenersCount
<1>4. Grabbed(p, d).count = d.count + 1
  BY GrabbedType
<1>5. CASE d.count = 0
  <2>1. Openers(kind) = {}
    BY <1>5, OpenersCount
  <2>2. Grabbed(p, d).owner = Uid[p]
    BY <1>5, GrabbedType
  <2>3. Allowed(p, Uid[p])
    BY DEF Allowed
  <2> QED BY <1>2, <1>3, <1>4, <2>1, <2>2, <2>3
<1>6. CASE d.count # 0
  <2>1. Grabbed(p, d).owner = d.owner
    BY <1>6, GrabbedType
  <2> QED BY <1>2, <1>3, <1>4, <1>6, <2>1
<1> QED BY <1>5, <1>6

(* Releasing one of them.                                                  *)
LEMMA DropStep ==
  ASSUME Types, Places, NEW p \in Procs, Moves(p), pc[p] = "open",
         pc'[p] \in {"user", "wake"}, NEW kind, file[p].kind = kind,
         NEW d \in [count : Int, owner : Owners],
         d.count = Cardinality(Openers(kind))
  PROVE  /\ [d EXCEPT !.count = @ - 1].count = Cardinality(Openers(kind)')
         /\ Openers(kind)' \subseteq Openers(kind)
         /\ \A k : k # kind => Openers(k)' = Openers(k)
<1>1. \A k : /\ p \in Openers(k) <=> k = kind
             /\ Openers(k)' = Openers(k) \ {p}
  BY CloseCounts
<1>2. Cardinality(Openers(kind)') = Cardinality(Openers(kind)) - 1
  BY <1>1, OpenersCount
<1>3. [d EXCEPT !.count = @ - 1].count = d.count - 1
  OBVIOUS
<1> QED BY <1>1, <1>2, <1>3

(* An open that succeeds leaves the other kinds, and the busy, alone.      *)
LEMMA GrantOthers ==
  ASSUME Types, Places, NEW p \in Procs, Moves(p), Granted(p),
         pc[p] \in Kinds \cup {"alloc"}
  PROVE  /\ \A k : k # file[p].kind => Openers(k)' = Openers(k)
         /\ Busy' = Busy
<1>1. \A k : k # file[p].kind => Openers(k)' = Openers(k)
  BY GrantCounts
<1>2. pc'[p] # "busy" /\ pc[p] # "busy"
  BY GrantedMoves DEF Kinds
<1> QED BY <1>1, <1>2, BusyMoved

(* What is said of each of the two devices, and of scullsingle.            *)
LEMMA CountsParts ==
  ASSUME NEW kind \in {"uid", "wuid"},
         \A k \in {"single", "uid", "wuid"} : k # kind => Openers(k)' = Openers(k),
         Busy' = Busy, UNCHANGED scull_s_available, Counted, OneUser,
         kind = "uid" => /\ UNCHANGED scull_w
                         /\ scull_u'.count = Cardinality(Openers("uid")')
                         /\ \A q \in Openers("uid")' : Allowed(q, scull_u'.owner),
         kind = "wuid" => /\ UNCHANGED scull_u
                          /\ scull_w'.count = Cardinality(Openers("wuid")')
                          /\ \A q \in Openers("wuid")' : Allowed(q, scull_w'.owner)
  PROVE  Counted' /\ OneUser'
<1>1. Counted'
  BY DEF Counted, SingleOpen, Busy
<1>2. OneUser'
  BY DEF OneUser, Allowed
<1> QED BY <1>1, <1>2
(* Opening and releasing sculluid.                                         *)
LEMMA UidStep ==
  ASSUME Types, Places, Counted, OneUser, NEW p \in Procs, Moves(p),
         scull_u_open(p) \/ scull_u_release(p)
  PROVE  Counted' /\ OneUser'
<1>1. /\ scull_u \in [count : Int, owner : Owners]
      /\ scull_u.count = Cardinality(Openers("uid"))
      /\ \A q \in Openers("uid") : Allowed(q, scull_u.owner)
  BY DEF Types, Counted, OneUser
<1>2. UNCHANGED <<scull_s_available, scull_w>>
  BY DEF scull_u_open, scull_u_release
<1>3. CASE scull_u_open(p) /\ Refused(p)
  <2>1. pc[p] = "uid" /\ pc'[p] = "user"
    BY <1>3, RefusedMoves DEF scull_u_open
  <2>2. UNCHANGED scull_u
    BY <1>3, <2>1, GrantedMoves DEF scull_u_open
  <2>3. Busy' = Busy /\ \A k \in Kinds : Openers(k)' = Openers(k)
    BY <2>1, QuietCounts, BusyMoved DEF Opened
  <2> QED BY <1>2, <2>2, <2>3, CountsKept
<1>4. CASE scull_u_open(p) /\ ~ Refused(p)
  <2>1. /\ pc[p] = "uid" /\ Granted(p) /\ scull_u' = Grabbed(p, scull_u)
        /\ scull_u.count = 0 \/ Allowed(p, scull_u.owner)
    BY <1>4 DEF scull_u_open
  <2>2. /\ scull_u'.count = Cardinality(Openers("uid")')
        /\ \A q \in Openers("uid")' : Allowed(q, scull_u'.owner)
    BY <1>1, <2>1, GrabStep
  <2>3. file[p].kind = "uid"
    BY <2>1 DEF Places, Kinds
  <2>4. /\ \A k : k # "uid" => Openers(k)' = Openers(k)
        /\ Busy' = Busy
    BY <2>1, <2>3, GrantOthers DEF Kinds
  <2> QED BY <1>2, <2>2, <2>4, CountsParts
<1>5. CASE scull_u_release(p)
  <2>1. /\ pc[p] = "open" /\ file[p].kind = "uid" /\ pc'[p] = "user"
        /\ scull_u' = [scull_u EXCEPT !.count = @ - 1]
    BY <1>5, RefusedMoves DEF scull_u_release, Closing
  <2>2. /\ scull_u'.count = Cardinality(Openers("uid")')
        /\ Openers("uid")' \subseteq Openers("uid")
        /\ \A k : k # "uid" => Openers(k)' = Openers(k)
    BY <1>1, <2>1, DropStep
  <2>3. scull_u'.owner = scull_u.owner
    BY <1>1, <2>1
  <2>4. Busy' = Busy
    BY <2>1, BusyMoved
  <2> QED BY <1>1, <1>2, <2>2, <2>3, <2>4, CountsParts
<1> QED BY <1>3, <1>4, <1>5

(* Opening and releasing scullwuid.                                        *)
LEMMA WuidStep ==
  ASSUME Types, Places, Counted, OneUser, NEW p \in Procs, Moves(p),
         scull_w_open(p) \/ scull_w_release(p)
  PROVE  Counted' /\ OneUser'
<1>1. /\ scull_w \in [count : Int, owner : Owners]
      /\ scull_w.count = Cardinality(Openers("wuid"))
      /\ \A q \in Openers("wuid") : Allowed(q, scull_w.owner)
  BY DEF Types, Counted, OneUser
<1>2. UNCHANGED <<scull_s_available, scull_u>>
  BY DEF scull_w_open, scull_w_release, WaitUnchanged
<1>3. CASE scull_w_open(p) /\ ~ scull_w_available(p)
  <2>1. /\ pc[p] = "wuid" /\ UNCHANGED scull_w
        /\ Refused(p) \/ (Goto(p, "prepare") /\ UNCHANGED file)
    BY <1>3 DEF scull_w_open
  <2>2. pc'[p] \in {"user", "prepare"}
    BY <2>1, RefusedMoves DEF Goto, Types
  <2>3. Busy' = Busy /\ \A k \in Kinds : Openers(k)' = Openers(k)
    BY <2>1, <2>2, QuietCounts, BusyMoved DEF Opened
  <2> QED BY <1>2, <2>1, <2>3, CountsKept
<1>4. CASE scull_w_open(p) /\ scull_w_available(p)
  <2>1. /\ pc[p] = "wuid" /\ Granted(p) /\ scull_w' = Grabbed(p, scull_w)
        /\ scull_w.count = 0 \/ Allowed(p, scull_w.owner)
    BY <1>4 DEF scull_w_open, scull_w_available
  <2>2. /\ scull_w'.count = Cardinality(Openers("wuid")')
        /\ \A q \in Openers("wuid")' : Allowed(q, scull_w'.owner)
    BY <1>1, <2>1, GrabStep
  <2>3. file[p].kind = "wuid"
    BY <2>1 DEF Places, Kinds
  <2>4. /\ \A k : k # "wuid" => Openers(k)' = Openers(k)
        /\ Busy' = Busy
    BY <2>1, <2>3, GrantOthers DEF Kinds
  <2> QED BY <1>2, <2>2, <2>4, CountsParts
<1>5. CASE scull_w_release(p)
  <2>1. /\ pc[p] = "open" /\ file[p].kind = "wuid" /\ pc'[p] \in {"user", "wake"}
        /\ scull_w' = [scull_w EXCEPT !.count = @ - 1]
    BY <1>5 DEF scull_w_release, Closing, Goto, Types
  <2>2. /\ scull_w'.count = Cardinality(Openers("wuid")')
        /\ Openers("wuid")' \subseteq Openers("wuid")
        /\ \A k : k # "wuid" => Openers(k)' = Openers(k)
    BY <1>1, <2>1, DropStep
  <2>3. scull_w'.owner = scull_w.owner
    BY <1>1, <2>1
  <2>4. Busy' = Busy
    BY <2>1, BusyMoved
  <2> QED BY <1>1, <1>2, <2>2, <2>3, <2>4, CountsParts
<1> QED BY <1>3, <1>4, <1>5

(* Each step keeps the counts and the owners.                              *)
LEMMA CountsStep ==
  ASSUME Types, Places, Counted, OneUser, Next
  PROVE  Counted' /\ OneUser'
<1>1. CASE scull_access_cleanup
  <2>1. \A kind : Openers(kind) = {} /\ Openers(kind)' = {}
    BY <1>1 DEF scull_access_cleanup, Openers
  <2>2. Busy = {} /\ Busy' = {}
    BY <1>1 DEF scull_access_cleanup, Busy
  <2>3. scull_s_available' = 1 /\ scull_u'.count = 0 /\ scull_w'.count = 0
    BY <1>1 DEF scull_access_cleanup
  <2>4. Cardinality({}) = 0
    BY FS_EmptySet
  <2>5. Counted'
    <3>1. \A kind : Cardinality(Openers(kind)') = 0
      BY <2>1, <2>4
    <3>2. Cardinality({p \in Procs : pc'[p] = "busy"}) = 0
      BY <2>2, <2>4 DEF Busy
    <3>3. SingleOpen'
      BY <2>3, <3>1, <3>2 DEF SingleOpen
    <3> QED BY <2>3, <3>1, <3>3 DEF Counted
  <2>6. OneUser'
    BY <2>1 DEF OneUser
  <2> QED BY <2>5, <2>6
<1>2. CASE ~ scull_access_cleanup
  <2>1. PICK p \in Procs : Moves(p) /\ StepOf(p)
    BY <1>2, StepMoves
  <2>2. CASE scull_s_open(p) \/ scull_s_busy(p) \/ scull_s_release(p)
    BY <2>1, <2>2, SingleStep
  <2>3. CASE scull_u_open(p) \/ scull_u_release(p)
    BY <2>1, <2>3, UidStep
  <2>4. CASE scull_w_open(p) \/ scull_w_release(p)
    BY <2>1, <2>4, WuidStep
  <2>5. ASSUME UNCHANGED <<scull_s_available, scull_u, scull_w>>,
               pc[p] # "busy", pc'[p] # "busy",
               \/ pc[p] \notin Opened /\ pc'[p] \notin Opened
               \/ pc[p] \in Opened /\ pc'[p] \in Opened /\ UNCHANGED file
        PROVE  Counted' /\ OneUser'
    <3>1. Busy' = Busy /\ \A k \in Kinds : Openers(k)' = Openers(k)
      BY <2>1, <2>5, QuietCounts, BusyMoved
    <3> QED BY <2>5, <3>1, CountsKept
  <2>6. CASE /\ pc[p] = "user" /\ pc'[p] \in Kinds
             /\ UNCHANGED <<scull_s_available, scull_u, scull_w, scull_w_wait,
                            scull_c_list, scull_c_lock, lock>>
    BY <2>5, <2>6 DEF Opened, Kinds
  <2>7. CASE scull_trim(p) \/ BeginUse(p) \/ EndUse(p)
    <3>1. UNCHANGED <<scull_s_available, scull_u, scull_w>> /\ UNCHANGED file
      BY <2>7 DEF scull_trim, BeginUse, EndUse
    <3>2. pc[p] \in Opened /\ pc'[p] \in Opened
      BY <2>7 DEF scull_trim, BeginUse, EndUse, Goto, Types, Opened
    <3> QED BY <2>5, <3>1, <3>2 DEF Opened
  <2>8. CASE WaitPrepare(p) \/ WaitTest(p) \/ Woken(p) \/ Wake(p)
    <3>1. UNCHANGED <<scull_s_available, scull_u, scull_w>>
      BY <2>8 DEF WaitPrepare, WaitTest, Woken, Wake, WaitUnchanged
    <3>2. pc[p] \in Waits \cup {"wake"} /\ pc'[p] \in Waits \cup {"wuid", "user"}
      BY <2>8 DEF WaitPrepare, WaitTest, Woken, Wake, Goto, Types, Waits
    <3> QED BY <2>5, <3>1, <3>2 DEF Opened, Waits
  <2>9. CASE Interrupted(p)
    BY <2>5, <2>9, RefusedMoves DEF Interrupted, WaitUnchanged, Opened
  <2>10. CASE scull_c_open(p) \/ scull_c_lookfor_device(p) \/ scull_c_release(p)
    <3>1. UNCHANGED <<scull_s_available, scull_u, scull_w>>
      BY <2>10 DEF scull_c_open, scull_c_lookfor_device, scull_c_release, CloneUnchanged
    <3>2. CASE Granted(p)
      <4>1. pc[p] \in {"priv", "alloc"} /\ file[p].kind = "priv"
        BY <2>10, <3>2, GrantedMoves, RefusedMoves
        DEF scull_c_open, scull_c_lookfor_device, scull_c_release, Closing, Places, Kinds
      <4>2. Busy' = Busy /\ \A k : k # "priv" => Openers(k)' = Openers(k)
        BY <2>1, <3>2, <4>1, GrantOthers DEF Kinds
      <4>3. Counted'
        BY <3>1, <4>2 DEF Counted, SingleOpen, Busy
      <4>4. OneUser'
        BY <3>1, <4>2 DEF OneUser, Allowed
      <4> QED BY <4>3, <4>4
    <3>3. CASE scull_c_release(p)
      <4>1. pc[p] = "open" /\ pc'[p] = "user" /\ file[p].kind = "priv"
        BY <3>3, RefusedMoves DEF scull_c_release, Closing
      <4>2. \A k : /\ p \in Openers(k) <=> k = "priv"
                   /\ Openers(k)' = Openers(k) \ {p}
        BY <2>1, <4>1, CloseCounts
      <4>3. Busy' = Busy /\ \A k : k # "priv" => Openers(k)' = Openers(k)
        BY <2>1, <4>1, <4>2, BusyMoved
      <4>4. Counted'
        BY <3>1, <4>3 DEF Counted, SingleOpen, Busy
      <4>5. OneUser'
        BY <3>1, <4>3 DEF OneUser, Allowed
      <4> QED BY <4>4, <4>5
    <3>4. CASE ~ Granted(p) /\ ~ scull_c_release(p)
      <4>1. pc[p] \in {"priv", "alloc"}
        BY <2>10, <3>4 DEF scull_c_open, scull_c_lookfor_device
      <4>2. pc'[p] \in {"user", "alloc"}
        BY <2>10, <3>4, RefusedMoves DEF scull_c_open, scull_c_lookfor_device, Goto, Types
      <4> QED BY <2>5, <3>1, <4>1, <4>2 DEF Opened
    <3> QED BY <3>2, <3>3, <3>4
  <2> QED BY <2>1, <2>2, <2>3, <2>4, <2>6, <2>7, <2>8, <2>9, <2>10 DEF StepOf
<1> QED BY <1>1, <1>2
-----------------------------------------------------------------------------
(* Waiting for scullwuid.                                                  *)

(* A step that leaves the owner and the count alone, and the wakers where  *)
(* they are.                                                               *)
LEMMA AwaitedKept ==
  ASSUME Types, Awaited, NEW p \in Procs, Moves(p), UNCHANGED scull_w,
         scull_w_wait' \subseteq scull_w_wait \cup {p},
         pc[p] # "wake", pc'[p] \notin {"test_owner", "sleep"}
  PROVE  Awaited'
BY DEF Awaited, Moves, Types, scull_w_available, Allowed

(* Each step keeps the waiters who should look again to be woken.          *)
LEMMA AwaitedStep ==
  ASSUME Types, Places, Counted, Awaited, Next
  PROVE  Awaited'
<1>1. CASE scull_access_cleanup
  BY <1>1 DEF scull_access_cleanup, Awaited
<1>2. CASE ~ scull_access_cleanup
  <2>1. PICK p \in Procs : Moves(p) /\ StepOf(p)
    BY <1>2, StepMoves
  <2>2. CASE WaitTest(p)
    <3>1. CASE pc'[p] = "wuid"
      BY <2>1, <2>2, <3>1, AwaitedKept DEF WaitTest
    <3>2. CASE pc'[p] # "wuid"
      <4>1. /\ UNCHANGED <<scull_w, scull_w_wait>>
            /\ \/ pc[p] = "test_count" /\ pc'[p] = "test_owner" /\ scull_w.count # 0
               \/ /\ pc[p] = "test_owner" /\ pc'[p] = "sleep"
                  /\ ~ Allowed(p, scull_w.owner)
        BY <2>2, <3>2 DEF WaitTest, Goto, Types
      <4>2. \A q \in Procs : pc[q] = "wake" => pc'[q] = "wake"
        BY <2>1, <4>1 DEF Moves
      <4>3. ASSUME NEW q \in scull_w_wait', q # p,
                   \/ pc'[q] = "test_owner" /\ scull_w'.count = 0
                   \/ pc'[q] = "sleep" /\ scull_w_available(q)'
            PROVE  \E r \in Procs : pc'[r] = "wake"
        BY <2>1, <4>1, <4>2, <4>3
        DEF Awaited, Moves, Types, scull_w_available, Allowed
      <4>4. ASSUME p \in scull_w_wait',
                   \/ pc'[p] = "test_owner" /\ scull_w'.count = 0
                   \/ pc'[p] = "sleep" /\ scull_w_available(p)'
            PROVE  \E r \in Procs : pc'[r] = "wake"
        BY <4>1, <4>2, <4>4 DEF Awaited, scull_w_available, Allowed
      <4> QED BY <4>3, <4>4 DEF Awaited
    <3> QED BY <3>1, <3>2
  <2>3. CASE Wake(p)
    BY <2>3 DEF Wake, Awaited
  <2>4. CASE scull_w_open(p) /\ scull_w_available(p)
    <3>1. /\ pc[p] = "wuid" /\ pc'[p] \in {"trim", "open"} /\ UNCHANGED scull_w_wait
          /\ scull_w' = Grabbed(p, scull_w)
      BY <2>4, GrantedMoves DEF scull_w_open
    <3>2. \A q \in Procs : pc[q] = "wake" => pc'[q] = "wake"
      BY <2>1, <3>1 DEF Moves
    <3>3. ASSUME NEW q \in scull_w_wait',
                 \/ pc'[q] = "test_owner" /\ scull_w'.count = 0
                 \/ pc'[q] = "sleep" /\ scull_w_available(q)'
          PROVE  \/ pc[q] = "test_owner" /\ scull_w.count = 0
                 \/ pc[q] = "sleep" /\ scull_w_available(q)
      <4>1. q \in Procs /\ pc'[q] = pc[q] /\ q \in scull_w_wait
        BY <2>1, <3>1, <3>3 DEF Moves, Types
      <4>2. CASE scull_w.count = 0
        BY <3>3, <4>1, <4>2 DEF scull_w_available
      <4>3. CASE scull_w.count # 0
        <5>1. scull_w'.owner = scull_w.owner /\ scull_w'.count = scull_w.count + 1
          BY <3>1, <4>3, GrabbedType DEF Types
        <5>2. scull_w.count \in Nat
          BY <2>1, OpenersCount DEF Counted
        <5>3. scull_w'.count # 0
          BY <5>1, <5>2
        <5> QED BY <3>3, <4>1, <5>1, <5>3 DEF scull_w_available, Allowed
      <4> QED BY <4>2, <4>3
    <3> QED BY <2>1, <3>1, <3>2, <3>3 DEF Awaited
  <2>5. CASE scull_w_release(p)
    <3>1. /\ pc[p] = "open" /\ UNCHANGED scull_w_wait
          /\ scull_w' = [scull_w EXCEPT !.count = @ - 1]
          /\ pc'[p] = IF scull_w'.count = 0 THEN "wake" ELSE "user"
      BY <2>5 DEF scull_w_release, Closing, Goto, Types
    <3>2. scull_w'.owner = scull_w.owner
      BY <3>1 DEF Types
    <3>3. CASE scull_w'.count = 0
      BY <3>1, <3>3 DEF Awaited
    <3>4. CASE scull_w'.count # 0
      <4>1. ASSUME NEW q \in scull_w_wait', pc'[q] = "sleep", scull_w_available(q)'
            PROVE  \E r \in Procs : pc'[r] = "wake"
        <5>1. q \in Procs /\ pc[q] = "sleep" /\ q \in scull_w_wait
          BY <2>1, <3>1, <3>4, <4>1 DEF Moves, Types
        <5>2. scull_w_available(q)
          BY <3>2, <3>4, <4>1 DEF scull_w_available, Allowed
        <5>3. PICK r \in Procs : pc[r] = "wake"
          BY <5>1, <5>2 DEF Awaited
        <5> QED BY <2>1, <3>1, <5>3 DEF Moves
      <4> QED BY <3>4, <4>1 DEF Awaited
    <3> QED BY <3>3, <3>4
  <2>6. ASSUME UNCHANGED scull_w, scull_w_wait' \subseteq scull_w_wait \cup {p},
               pc[p] # "wake", pc'[p] \notin {"test_owner", "sleep"}
        PROVE  Awaited'
    BY <2>1, <2>6, AwaitedKept
  <2>7. CASE /\ pc[p] = "user" /\ pc'[p] \in Kinds
             /\ UNCHANGED <<scull_s_available, scull_u, scull_w, scull_w_wait,
                            scull_c_list, scull_c_lock, lock>>
    BY <2>6, <2>7 DEF Kinds
  <2>8. CASE scull_w_open(p) /\ ~ scull_w_available(p)
    <3>1. /\ pc[p] = "wuid" /\ UNCHANGED <<scull_w, scull_w_wait>>
          /\ Refused(p) \/ (Goto(p, "prepare") /\ UNCHANGED file)
      BY <2>8 DEF scull_w_open
    <3>2. pc'[p] \in {"user", "prepare"}
      BY <3>1, RefusedMoves DEF Goto, Types
    <3> QED BY <2>6, <3>1, <3>2
  <2>9. CASE WaitPrepare(p) \/ Woken(p)
    BY <2>6, <2>9 DEF WaitPrepare, Woken, Goto, Types
  <2>10. CASE Interrupted(p)
    BY <2>6, <2>10, RefusedMoves DEF Interrupted
  <2>11. ASSUME UNCHANGED <<scull_w, scull_w_wait>>, pc[p] # "wake",
                pc'[p] \notin {"test_owner", "sleep"}
         PROVE  Awaited'
    BY <2>6, <2>11
  <2>12. CASE scull_trim(p) \/ BeginUse(p) \/ EndUse(p)
    BY <2>11, <2>12 DEF scull_trim, BeginUse, EndUse, Goto, Types
  <2>13. CASE \/ scull_s_open(p) \/ scull_s_busy(p) \/ scull_s_release(p)
              \/ scull_u_open(p) \/ scull_u_release(p)
              \/ scull_c_open(p) \/ scull_c_lookfor_device(p) \/ scull_c_release(p)
    <3>1. UNCHANGED <<scull_w, scull_w_wait>>
      BY <2>13
      DEF scull_s_open, scull_s_busy, scull_s_release, scull_u_open,
          scull_u_release, scull_c_open, scull_c_lookfor_device, scull_c_release,
          CloneUnchanged
    <3>2. pc[p] # "wake"
      BY <2>13
      DEF scull_s_open, scull_s_busy, scull_s_release, scull_u_open,
          scull_u_release, scull_c_open, scull_c_lookfor_device, scull_c_release,
          Closing
    <3>3. \/ Granted(p) \/ Refused(p)
          \/ \E l \in {"busy", "alloc"} : Goto(p, l) /\ UNCHANGED file
      <4>1. CASE scull_s_open(p)
        BY <4>1 DEF scull_s_open
      <4>2. CASE scull_u_open(p)
        BY <4>2 DEF scull_u_open
      <4>3. CASE scull_c_open(p) \/ scull_c_lookfor_device(p)
        BY <4>3 DEF scull_c_open, scull_c_lookfor_device
      <4> QED BY <2>13, <4>1, <4>2, <4>3
          DEF scull_s_busy, scull_s_release, scull_u_release, scull_c_release
    <3>4. pc'[p] \notin {"test_owner", "sleep"}
      BY <3>3, RefusedMoves DEF Granted, Goto, Types
    <3> QED BY <2>11, <3>1, <3>2, <3>4
  <2> QED BY <2>1, <2>2, <2>3, <2>4, <2>5, <2>7, <2>8, <2>9, <2>10, <2>12, <2>13
      DEF StepOf
<1> QED BY <1>1, <1>2
-----------------------------------------------------------------------------
(* The list of scullpriv's devices.                                        *)

(* An item in front of a list that has not got it.                         *)
LEMMA InFront ==
  ASSUME NEW S, NEW s \in Seq(S), NEW x \in S,
         \A i \in DOMAIN s : s[i] # x,
         \A i, j \in DOMAIN s : s[i] = s[j] => i = j
  PROVE  \A i, j \in DOMAIN (<<x>> \o s) :
           (<<x>> \o s)[i] = (<<x>> \o s)[j] => i = j
<1>1. PICK n \in Nat : n = Len(s)
  OBVIOUS
<1> DEFINE t == <<x>> \o s
<1>2. DOMAIN t = 1 .. n + 1 /\ DOMAIN s = 1 .. n
  BY <1>1
<1>3. t[1] = x /\ \A i \in 2 .. n + 1 : i - 1 \in 1 .. n /\ t[i] = s[i - 1]
  BY <1>1
<1> HIDE DEF t
<1>4. ASSUME NEW i \in 1 .. n + 1, NEW j \in 1 .. n + 1, t[i] = t[j]
      PROVE  i = j
  <2>1. CASE i = 1 /\ j # 1
    BY <1>2, <1>3, <1>4, <2>1
  <2>2. CASE i # 1 /\ j = 1
    BY <1>2, <1>3, <1>4, <2>2
  <2>3. CASE i # 1 /\ j # 1
    <3>1. i - 1 \in 1 .. n /\ j - 1 \in 1 .. n /\ s[i-1] = s[j-1]
      BY <1>3, <1>4, <2>3
    <3>2. i - 1 = j - 1
      BY <1>2, <3>1
    <3> QED BY <3>2
  <2> QED BY <2>1, <2>2, <2>3
<1> QED BY <1>2, <1>4 DEF t

(* A step that leaves the list alone, and begins no allocation.            *)
LEMMA LookupsKept ==
  ASSUME Types, Lookups, NEW p \in Procs, Moves(p),
         UNCHANGED <<scull_c_list, scull_c_lock>>, pc'[p] # "alloc"
  PROVE  Lookups'
BY DEF Lookups, Moves, HasDevice, OneDevicePerTty

(* Each step keeps the list without duplicates, and whoever adds to it     *)
(* alone.                                                                  *)
LEMMA LookupsStep ==
  ASSUME Types, Places, Lookups, Next
  PROVE  Lookups'
<1>1. CASE scull_access_cleanup
  BY <1>1 DEF scull_access_cleanup, Lookups, OneDevicePerTty
<1>2. CASE ~ scull_access_cleanup
  <2>1. PICK p \in Procs : Moves(p) /\ StepOf(p)
    BY <1>2, StepMoves
  <2>2. CASE scull_c_open(p) /\ pc'[p] = "alloc"
    <3>1. ~ Granted(p) /\ ~ Refused(p)
      BY <2>2, RefusedMoves DEF Granted, Goto, Types
    <3>2. /\ scull_c_lock = NoProc /\ ~ HasDevice(file[p].dev)
          /\ scull_c_lock' = p /\ UNCHANGED <<scull_c_list, file>>
      BY <2>2, <3>1 DEF scull_c_open
    <3>3. \A q \in Procs : pc[q] # "alloc"
      BY <3>2, Unheld DEF Lookups
    <3>4. \A q \in Procs : pc'[q] = "alloc" => q = p
      BY <2>1, <3>3 DEF Moves
    <3> QED BY <3>2, <3>4 DEF Lookups, HasDevice, OneDevicePerTty
  <2>3. CASE scull_c_open(p) /\ pc'[p] # "alloc"
    <3>1. UNCHANGED <<scull_c_list, scull_c_lock>>
      BY <2>3 DEF scull_c_open, Goto, Types
    <3> QED BY <2>1, <2>3, <3>1, LookupsKept
  <2>4. CASE scull_c_lookfor_device(p)
    <3>1. pc[p] = "alloc" /\ scull_c_lock = p /\ ~ HasDevice(file[p].dev)
      BY <2>4 DEF scull_c_lookfor_device, Lookups
    <3>2. pc'[p] # "alloc"
      BY <2>4, RefusedMoves DEF scull_c_lookfor_device, Granted, Goto, Types
    <3>3. \A q \in Procs : pc'[q] # "alloc"
      BY <2>1, <3>1, <3>2 DEF Lookups, Moves
    <3>4. file[p].dev \in Devs
      BY <3>1 DEF Types, Places, Files
    <3>5. scull_c_list' \in {scull_c_list, <<file[p].dev>> \o scull_c_list}
      BY <2>4 DEF scull_c_lookfor_device
    <3>6. OneDevicePerTty'
      <4>1. CASE scull_c_list' = scull_c_list
        BY <4>1 DEF Lookups, OneDevicePerTty
      <4>2. CASE scull_c_list' = <<file[p].dev>> \o scull_c_list
        <5>1. /\ scull_c_list \in Seq(Devs)
              /\ \A i \in DOMAIN scull_c_list : scull_c_list[i] # file[p].dev
              /\ \A i, j \in DOMAIN scull_c_list :
                   scull_c_list[i] = scull_c_list[j] => i = j
          BY <3>1 DEF Types, HasDevice, Lookups, OneDevicePerTty
        <5>2. \A i, j \in DOMAIN (<<file[p].dev>> \o scull_c_list) :
                (<<file[p].dev>> \o scull_c_list)[i]
                  = (<<file[p].dev>> \o scull_c_list)[j] => i = j
          BY <3>4, <5>1, InFront
        <5> QED BY <4>2, <5>2 DEF OneDevicePerTty
      <4> QED BY <3>5, <4>1, <4>2
    <3> QED BY <3>3, <3>6 DEF Lookups
  <2>5. ASSUME UNCHANGED <<scull_c_list, scull_c_lock>>, pc'[p] # "alloc"
        PROVE  Lookups'
    BY <2>1, <2>5, LookupsKept
  <2>6. CASE /\ pc[p] = "user" /\ pc'[p] \in Kinds
             /\ UNCHANGED <<scull_s_available, scull_u, scull_w, scull_w_wait,
                            scull_c_list, scull_c_lock, lock>>
    BY <2>5, <2>6 DEF Kinds
  <2>7. ASSUME NEW l, Goto(p, l), l # "alloc" PROVE pc'[p] # "alloc"
    BY <2>7 DEF Goto, Types
  <2>8. Granted(p) \/ Refused(p) => pc'[p] # "alloc"
    BY <2>7 DEF Granted, Refused
  <2>9. CASE \/ scull_trim(p) \/ BeginUse(p) \/ EndUse(p)
             \/ WaitPrepare(p) \/ Woken(p) \/ Wake(p)
    BY <2>5, <2>7, <2>9
    DEF scull_trim, BeginUse, EndUse, WaitPrepare, Woken, Wake, WaitUnchanged
  <2>10. CASE WaitTest(p) \/ scull_w_release(p)
    BY <2>5, <2>7, <2>10 DEF WaitTest, scull_w_release, WaitUnchanged
  <2>11. CASE \/ scull_s_busy(p) \/ scull_s_release(p) \/ scull_u_release(p)
              \/ Interrupted(p) \/ scull_c_release(p)
    BY <2>5, <2>8, <2>11
    DEF scull_s_busy, scull_s_release, scull_u_release, Interrupted,
        scull_c_release, WaitUnchanged
  <2>12. CASE scull_s_open(p) \/ scull_u_open(p) \/ scull_w_open(p)
    <3>1. UNCHANGED <<scull_c_list, scull_c_lock>>
      BY <2>12 DEF scull_s_open, scull_u_open, scull_w_open, WaitUnchanged
    <3>2. pc'[p] # "alloc"
      BY <2>7, <2>8, <2>12 DEF scull_s_open, scull_u_open, scull_w_open
    <3> QED BY <2>5, <3>1, <3>2
  <2> QED BY <2>1, <2>2, <2>3, <2>4, <2>6, <2>9, <2>10, <2>11, <2>12 DEF StepOf
<1> QED BY <1>1, <1>2

-----------------------------------------------------------------------------
(***************************************************************************)
(* The theorems.                                                           *)
(***************************************************************************)
AccessInv ==
  Types /\ Places /\ Semaphores /\ Counted /\ OneUser /\ Awaited /\ Lookups

(* The invariant, of every behaviour.                                      *)
LEMMA AccessInvariant == Spec => []AccessInv
<1>1. Init => AccessInv
  <2> SUFFICES ASSUME Init PROVE AccessInv
    OBVIOUS
  <2>1. Types /\ Places
    BY TypesInit
  <2>2. Semaphores
    BY Unheld DEF Init, Semaphores
  <2>3. /\ \A kind : Openers(kind) = {}
        /\ {p \in Procs : pc[p] = "busy"} = {}
    BY DEF Init, Openers
  <2>4. Counted
    <3>1. \A kind : Cardinality(Openers(kind)) = 0
      BY <2>3, FS_EmptySet
    <3>2. Cardinality({p \in Procs : pc[p] = "busy"}) = 0
      BY <2>3, FS_EmptySet
    <3> QED BY <3>1, <3>2 DEF Init, Counted, SingleOpen
  <2>5. OneUser
    BY <2>3 DEF OneUser
  <2>6. Awaited /\ Lookups
    BY DEF Init, Awaited, Lookups, OneDevicePerTty
  <2> QED BY <2>1, <2>2, <2>4, <2>5, <2>6 DEF AccessInv
<1>2. AccessInv /\ [Next]_vars => AccessInv'
  <2>1. CASE Next
    BY <2>1, TypesStep, SemaphoresStep, CountsStep, AwaitedStep, LookupsStep
    DEF AccessInv
  <2>2. CASE UNCHANGED vars
    <3>1. ASSUME AccessInv PROVE Types' /\ Places' /\ Semaphores' /\ OneUser'
      BY <2>2, <3>1
      DEF vars, AccessInv, Types, Places, Semaphores, OneUser, Openers, Allowed
    <3>2. ASSUME AccessInv PROVE Counted' /\ Awaited' /\ Lookups'
      BY <2>2, <3>2
      DEF vars, AccessInv, Counted, SingleOpen, Openers, Awaited,
          scull_w_available, Allowed, Lookups, HasDevice, OneDevicePerTty
    <3> QED BY <3>1, <3>2 DEF AccessInv
  <2> QED BY <2>1, <2>2
<1> QED BY <1>1, <1>2, PTL DEF Spec

(* TypeOK: the counters of sculluid and scullwuid are the numbers of       *)
(* processes that have them open, and a device's semaphore is held by the  *)
(* process that reads or writes it, by nobody else (access.c:94-233).      *)
THEOREM TypeCorrect == Spec => []TypeOK
<1>1. AccessInv => TypeOK
  <2> SUFFICES ASSUME AccessInv PROVE TypeOK
    OBVIOUS
  <2>1. Types /\ Places /\ Semaphores /\ Counted
    BY DEF AccessInv
  <2>2. ASSUME NEW p \in Procs
        PROVE  /\ pc[p] \in States
               /\ pc[p] = "user" => file[p] = NoFile
               /\ pc[p] = "use" <=> \E d \in Devs : lock[d] = p
    <3>1. pc[p] = "use" => file[p].dev \in Devs
      BY <2>1 DEF Types, Places, Files
    <3> QED BY <2>1, <3>1 DEF Types, Places, Semaphores
  <2> QED BY <2>1, <2>2 DEF TypeOK, Types, Counted
<1> QED BY <1>1, AccessInvariant, PTL

(* SingleOpen: scullsingle is open at most once, and its counter returns   *)
(* to 1 when everybody is done, however the refused opens interleave       *)
(* (access.c:57-76).                                                       *)
THEOREM SingleCorrect == Spec => []SingleOpen
<1>1. AccessInv => SingleOpen
  BY DEF AccessInv, Counted
<1> QED BY <1>1, AccessInvariant, PTL

(* OneUser: who has sculluid or scullwuid open is root or, by uid or euid, *)
(* the user who opened it when it was free (access.c:94-128, 165-196).     *)
THEOREM OneUserCorrect == Spec => []OneUser
<1>1. AccessInv => OneUser
  BY DEF AccessInv
<1> QED BY <1>1, AccessInvariant, PTL

(* WaitersWoken: whoever sleeps in the open of scullwuid while he might    *)
(* open it will be woken (access.c:182, 207-208).                          *)
THEOREM WaitersCorrect == Spec => []WaitersWoken
<1>1. AccessInv => WaitersWoken
  BY DEF AccessInv, Awaited, WaitersWoken
<1> QED BY <1>1, AccessInvariant, PTL

(* OneDevicePerTty: two opens of scullpriv from one terminal find the same *)
(* device, though each may have to allocate it (access.c:250-284).         *)
THEOREM OneDeviceCorrect == Spec => []OneDevicePerTty
<1>1. AccessInv => OneDevicePerTty
  BY DEF AccessInv, Lookups
<1> QED BY <1>1, AccessInvariant, PTL
=============================================================================
