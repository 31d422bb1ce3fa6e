--------------------------- MODULE DriversProofs ---------------------------
(***************************************************************************)
(* Proofs about the drivers of Drivers, for every value of the constants:  *)
(* each takes only its own steps, so that what is proved about one of them *)
(* holds beside the others.                                                *)
(***************************************************************************)
EXTENDS Drivers, StreamLemmas

-----------------------------------------------------------------------------
(* A step of the composition is one of a driver, or does not change it.    *)
LEMMA DriverStep ==
  ASSUME [DriversNext]_<<driver, vars, scullc_vars, scullp_vars, short_vars,
                         snull_vars, sbull_vars, usb_vars>>
  PROVE  /\ [Next]_vars
         /\ [Sc!Next]_scullc_vars
         /\ [Sh!Next]_short_vars
         /\ [Sn!Next]_snull_vars
         /\ [Sb!Next]_sbull_vars
         /\ [Us!Next]_usb_vars
         /\ UNCHANGED driver
BY DEF DriversNext, OnlyMoves

(* What the composition does is, for each driver but those that share      *)
(* scullp's variables, what it does alone.                                 *)
THEOREM DriversAlone ==
  DriversSpec => Spec /\ Sc!Spec /\ Sh!Spec /\ Sn!Spec /\ Sb!Spec /\ Us!Spec
<1>1. DriversInit => Init /\ Sc!Init /\ Sh!Init /\ Sn!Init /\ Sb!Init /\ Us!Init
  BY DEF DriversInit
<1>2. [DriversNext]_<<driver, vars, scullc_vars, scullp_vars, short_vars,
                      snull_vars, sbull_vars, usb_vars>> =>
        /\ [Next]_vars
        /\ [Sc!Next]_(Sc!vars)
        /\ [Sh!Next]_(Sh!vars)
        /\ [Sn!Next]_(Sn!vars)
        /\ [Sb!Next]_(Sb!vars)
        /\ [Us!Next]_(Us!vars)
  BY DriverStep
  DEF scullc_vars, short_vars, snull_vars, sbull_vars, usb_vars, Sc!vars, Sh!vars,
      Sn!vars, Sb!vars, Us!vars
<1> QED
  BY <1>1, <1>2, PTL DEF DriversSpec, Spec, Sc!Spec, Sh!Spec, Sn!Spec, Sb!Spec, Us!Spec

-----------------------------------------------------------------------------
(***************************************************************************)
(* usb-skeleton.                                                           *)
(***************************************************************************)
Having == {"get", "open", "read", "submit"}

UsbTypes ==
  /\ us_interface \in {"out", "probed", "in", "deregister", "put"}
  /\ us_intfdata \in Devices \cup {NoDevice} /\ us_leaving \in Devices \cup {NoDevice}
  /\ us_minor \in BOOLEAN
  /\ us_kref \in [Devices -> Int]
  /\ us_file \in [Users -> Devices \cup {NoDevice}]
  /\ us_pc \in [Users -> {"closed", "find"} \cup Having]
  /\ us_urbs \in [Devices -> Int]

(* What there is while the interface is plugged in, and as it goes.        *)
Plugged ==
  /\ us_intfdata # NoDevice <=> us_interface \in {"probed", "in"}
  /\ us_leaving # NoDevice <=> us_interface \in {"deregister", "put"}
  /\ us_minor <=> us_interface \in {"in", "deregister"}

(* An open finds the device under minor_rwsem, which deregistering waits   *)
(* for; a write in flight is to the device that is plugged in.             *)
Held ==
  /\ \A p \in Users :
       /\ us_pc[p] \in Having <=> us_file[p] # NoDevice
       /\ us_pc[p] \in {"find", "get"} => us_minor
       /\ us_pc[p] = "get" => us_file[p] \in {us_intfdata, us_leaving}
  /\ \A d \in Devices : us_urbs[d] > 0 => us_interface = "in" /\ us_intfdata = d

(* The files that count, and the interface's part.                         *)
UsersOf(d) == {p \in Users : us_file[p] = d /\ us_pc[p] # "get"}
Plug(d) == IF d \in {us_intfdata, us_leaving} THEN 1 ELSE 0

References == \A d \in Devices : us_kref[d] = Cardinality(UsersOf(d)) + Plug(d)

UsbInv == UsbTypes /\ Plugged /\ Held /\ References

(* There are finitely many users, and one more or less counts as one.      *)
LEMMA UsersCount ==
  ASSUME NEW d, NEW p \in Users
  PROVE  /\ Cardinality(UsersOf(d)) \in Nat
         /\ p \notin UsersOf(d) => Cardinality(UsersOf(d) \cup {p}) = Cardinality(UsersOf(d)) + 1
         /\ p \in UsersOf(d) => /\ Cardinality(UsersOf(d) \ {p}) = Cardinality(UsersOf(d)) - 1
                              /\ Cardinality(UsersOf(d)) > 0
<1>1. IsFiniteSet(UsersOf(d))
  <2>1. UsersOf(d) \subseteq Users
    BY DEF UsersOf
  <2> QED BY <2>1, UsersAssumption, FS_Subset
<1>2. p \in UsersOf(d) => UsersOf(d) # {}
  OBVIOUS
<1> QED BY <1>1, <1>2, FS_CardinalityType, FS_AddElement, FS_RemoveElement, FS_EmptySet

(* Initially nobody has a device.                                          *)
LEMMA UsbInit == ASSUME Us!Init PROVE UsbInv
<1>1. UsbTypes
  <2>1. us_kref \in [Devices -> Int] /\ us_urbs \in [Devices -> Int]
    BY DEF Us!Init
  <2> QED BY <2>1 DEF Us!Init, UsbTypes
<1>4. Held
  BY DEF Us!Init, Held, Having
<1>3. Plugged
  BY DEF Us!Init, Plugged
<1>2. ASSUME NEW d \in Devices PROVE us_kref[d] = Cardinality(UsersOf(d)) + Plug(d)
  <2>1. UsersOf(d) = {} /\ Plug(d) = 0 /\ us_kref[d] = 0
    BY UsbAssumption DEF Us!Init, UsersOf, Plug
  <2> QED BY <2>1, FS_EmptySet
<1> QED BY <1>1, <1>2, <1>3, <1>4 DEF UsbInv, References

(* A step that changes neither files, nor who is about to count, nor the   *)
(* interface's reference.                                                  *)
LEMMA UsersKept ==
  ASSUME UsbInv, UNCHANGED us_kref,
         \A p \in Users, d \in Devices :
           (us_file'[p] = d /\ us_pc'[p] # "get") <=> (us_file[p] = d /\ us_pc[p] # "get"),
         {us_intfdata', us_leaving'} \cap Devices = {us_intfdata, us_leaving} \cap Devices
  PROVE  References'
<1> SUFFICES ASSUME NEW d \in Devices
             PROVE  us_kref'[d] = Cardinality(UsersOf(d))' + Plug(d)'
  BY DEF References
<1>1. UsersOf(d)' = UsersOf(d)
  BY DEF UsersOf
<1>2. Plug(d)' = Plug(d)
  BY DEF Plug
<1> QED BY <1>1, <1>2 DEF UsbInv, References
(* Plugging in and out.                                                    *)
LEMMA PlugStep ==
  ASSUME UsbInv,
         \/ Us!skel_probe \/ Us!usb_register_dev \/ Us!RegisterFails
         \/ Us!skel_disconnect \/ Us!usb_deregister_dev \/ Us!PutDisconnected
  PROVE  UsbInv'
<1> USE DEF UsbInv, Having
<1>1. UNCHANGED <<us_file, us_pc, us_urbs>>
  BY DEF Us!skel_probe, Us!usb_register_dev, Us!RegisterFails, Us!skel_disconnect,
         Us!usb_deregister_dev, Us!PutDisconnected
<1>2. \A d : UsersOf(d)' = UsersOf(d)
  BY <1>1 DEF UsersOf
<1>3. CASE Us!skel_probe
  <2>1. PICK d \in Devices : /\ us_kref[d] = 0 /\ us_intfdata' = d
                          /\ us_kref' = [us_kref EXCEPT ![d] = us_kref[d] + 1]
    BY <1>3 DEF Us!skel_probe, Us!Get
  <2>2. /\ us_interface = "out" /\ us_interface' = "probed" /\ UNCHANGED <<us_minor, us_leaving>>
        /\ us_intfdata = NoDevice /\ us_leaving = NoDevice
    BY <1>3 DEF Us!skel_probe, Plugged
  <2>3. UsbTypes' /\ Plugged'
    BY <1>1, <2>1, <2>2, UsbAssumption DEF UsbTypes, Plugged
  <2>4. Held'
    BY <1>1, <2>1, <2>2, UsbAssumption DEF Held, Plugged
  <2>5. Plug(d) = 0 /\ Plug(d)' = 1 /\ \A e \in Devices \ {d} : Plug(e)' = Plug(e)
    BY <2>1, <2>2, UsbAssumption DEF Plug
  <2>6. us_kref'[d] = us_kref[d] + 1 /\ \A e \in Devices \ {d} : us_kref'[e] = us_kref[e]
    BY <2>1 DEF UsbTypes
  <2>7. Cardinality(UsersOf(d)) \in Nat
    BY UsersAssumption, FS_CardinalityType, FS_Subset DEF UsersOf
  <2>8. us_kref[d] = Cardinality(UsersOf(d)) + 0
    BY <2>5 DEF References
  <2>9. us_kref'[d] = Cardinality(UsersOf(d)') + Plug(d)'
    BY <1>2, <2>1, <2>5, <2>6, <2>7, <2>8
  <2>10. References'
    BY <1>2, <2>5, <2>6, <2>9 DEF References
  <2> QED BY <2>3, <2>4, <2>10
<1>4. CASE Us!usb_register_dev
  <2>1. UsbTypes' /\ Plugged' /\ Held' /\ UNCHANGED <<us_kref, us_intfdata, us_leaving>>
    BY <1>1, <1>4 DEF Us!usb_register_dev, UsbTypes, Plugged, Held
  <2> QED BY <1>1, <2>1, UsersKept
<1>5. CASE Us!skel_disconnect
  <2>1. /\ us_interface = "in" /\ us_leaving' = us_intfdata /\ us_intfdata' = NoDevice
        /\ us_interface' = "deregister" /\ UNCHANGED <<us_minor, us_kref>>
        /\ \A d \in Devices : us_urbs[d] = 0
    BY <1>5 DEF Us!skel_disconnect
  <2>2. us_leaving = NoDevice /\ us_intfdata # NoDevice /\ us_minor
    BY <2>1 DEF Plugged
  <2>3. UsbTypes' /\ Plugged'
    BY <1>1, <2>1, <2>2 DEF UsbTypes, Plugged
  <2>4. Held'
    BY <1>1, <2>1, <2>2 DEF Held
  <2>5. {us_intfdata', us_leaving'} = {us_intfdata, us_leaving}
    BY <2>1, <2>2
  <2> QED BY <1>1, <2>1, <2>3, <2>4, <2>5, UsersKept
<1>6. CASE Us!usb_deregister_dev
  <2>1. UsbTypes' /\ Plugged' /\ Held' /\ UNCHANGED <<us_kref, us_intfdata, us_leaving>>
    BY <1>1, <1>6 DEF Us!usb_deregister_dev, UsbTypes, Plugged, Held
  <2> QED BY <1>1, <2>1, UsersKept
<1>7. ASSUME NEW d \in Devices, d \in {us_intfdata, us_leaving},
             us_intfdata = NoDevice \/ us_leaving = NoDevice,
             us_intfdata' = NoDevice, us_leaving' = NoDevice,
             us_kref' = [us_kref EXCEPT ![d] = us_kref[d] - 1]
      PROVE  References'
  <2>1. Plug(d) = 1 /\ Plug(d)' = 0 /\ \A e \in Devices \ {d} : Plug(e) = 0 /\ Plug(e)' = 0
    BY <1>7, UsbAssumption DEF Plug
  <2>2. us_kref'[d] = us_kref[d] - 1 /\ \A e \in Devices \ {d} : us_kref'[e] = us_kref[e]
    BY <1>7 DEF UsbTypes
  <2>3. us_kref[d] = Cardinality(UsersOf(d)) + 1 /\ us_kref[d] \in Int
    BY <2>1 DEF References, UsbTypes
  <2>4. us_kref'[d] = Cardinality(UsersOf(d))' + Plug(d)'
    <3>1. PICK n \in Int : n = us_kref[d]
      BY <2>3
    <3>2. Cardinality(UsersOf(d)) \in Nat
      BY UsersCount, UsersAssumption, FS_CardinalityType, FS_Subset DEF UsersOf
    <3> QED BY <1>2, <2>1, <2>2, <2>3, <3>2
  <2> QED BY <1>2, <2>1, <2>2, <2>4 DEF References
<1>8. CASE Us!RegisterFails
  <2>1. /\ us_interface = "probed" /\ us_interface' = "out" /\ us_intfdata' = NoDevice
        /\ us_kref' = [us_kref EXCEPT ![us_intfdata] = us_kref[us_intfdata] - 1]
        /\ UNCHANGED <<us_minor, us_leaving>>
    BY <1>8 DEF Us!RegisterFails, Us!Put
  <2>2. us_intfdata \in Devices /\ us_leaving = NoDevice
    BY <2>1 DEF Plugged, UsbTypes
  <2>3. UsbTypes' /\ Plugged' /\ Held'
    BY <1>1, <2>1, <2>2 DEF UsbTypes, Plugged, Held
  <2> QED BY <1>7, <2>1, <2>2, <2>3
<1>9. CASE Us!PutDisconnected
  <2>1. /\ us_interface = "put" /\ us_interface' = "out" /\ us_leaving' = NoDevice
        /\ us_kref' = [us_kref EXCEPT ![us_leaving] = us_kref[us_leaving] - 1]
        /\ UNCHANGED <<us_minor, us_intfdata>>
    BY <1>9 DEF Us!PutDisconnected, Us!Put
  <2>2. us_leaving \in Devices /\ us_intfdata = NoDevice
    BY <2>1 DEF Plugged, UsbTypes
  <2>3. UsbTypes' /\ Plugged' /\ Held'
    BY <1>1, <2>1, <2>2 DEF UsbTypes, Plugged, Held
  <2> QED BY <1>7, <2>1, <2>2, <2>3
<1> QED BY <1>3, <1>4, <1>5, <1>6, <1>8, <1>9

(* Opening and closing, reading and writing.                               *)
LEMMA UserStep ==
  ASSUME UsbInv, NEW p \in Users,
         \/ Us!OpenBegins(p) \/ Us!usb_get_intfdata(p) \/ Us!kref_get(p)
         \/ Us!skel_release(p) \/ Us!skel_read(p) \/ Us!ReadEnds(p)
         \/ Us!skel_write(p) \/ Us!usb_submit_urb(p)
  PROVE  UsbInv'
<1> USE DEF UsbInv, Having
<1>1. UNCHANGED <<us_interface, us_intfdata, us_minor, us_leaving>>
  BY DEF Us!OpenBegins, Us!usb_get_intfdata, Us!kref_get, Us!skel_release, Us!skel_read,
         Us!ReadEnds, Us!skel_write, Us!usb_submit_urb, Us!FileUnchanged
<1>2. Plugged' /\ \A d : Plug(d)' = Plug(d)
  BY <1>1 DEF Plugged, Plug
<1>3. CASE \/ Us!OpenBegins(p) \/ Us!skel_read(p) \/ Us!ReadEnds(p) \/ Us!skel_write(p)
           \/ Us!usb_submit_urb(p)
  <2>1. UNCHANGED <<us_kref, us_file>>
    BY <1>3 DEF Us!OpenBegins, Us!skel_read, Us!ReadEnds, Us!skel_write, Us!usb_submit_urb
  <2>2. PICK l \in {"find", "read", "open", "submit"} :
          /\ us_pc' = [us_pc EXCEPT ![p] = l]
          /\ IF l = "find" THEN us_pc[p] = "closed" /\ us_minor
                           ELSE us_pc[p] \in {"open", "read", "submit"}
    BY <1>3 DEF Us!OpenBegins, Us!skel_read, Us!ReadEnds, Us!skel_write,
       Us!usb_submit_urb, Us!Goto
  <2>3. /\ us_urbs' \in [Devices -> Int]
        /\ \A d \in Devices : us_urbs'[d] > 0 => us_interface = "in" /\ us_intfdata = d
    <3>1. CASE UNCHANGED us_urbs
      BY <3>1 DEF UsbTypes, Held
    <3>2. CASE /\ us_interface = "in" /\ us_intfdata = us_file[p]
               /\ us_urbs' = [us_urbs EXCEPT ![us_file[p]] = us_urbs[us_file[p]] + 1]
      BY <3>2 DEF UsbTypes, Held, Plugged
    <3> QED BY <1>3, <3>1, <3>2
        DEF Us!OpenBegins, Us!skel_read, Us!ReadEnds, Us!skel_write, Us!usb_submit_urb,
            Us!FileUnchanged
  <2>4. UsbTypes'
    BY <1>1, <2>1, <2>2, <2>3 DEF UsbTypes
  <2>5. Held'
    BY <1>1, <2>1, <2>2, <2>3 DEF Held, UsbTypes
  <2>6. \A q \in Users, d \in Devices :
          (us_file'[q] = d /\ us_pc'[q] # "get") <=> (us_file[q] = d /\ us_pc[q] # "get")
    BY <2>1, <2>2, UsbAssumption DEF Held, UsbTypes
  <2> QED BY <1>1, <1>2, <2>1, <2>4, <2>5, <2>6, UsersKept
<1>4. CASE Us!usb_get_intfdata(p)
  <2>1. /\ us_pc[p] = "find" /\ UNCHANGED <<us_kref, us_urbs>> /\ us_file[p] = NoDevice /\ us_minor
        /\ \/ /\ us_intfdata = NoDevice /\ us_pc' = [us_pc EXCEPT ![p] = "closed"]
              /\ UNCHANGED us_file
           \/ /\ us_intfdata # NoDevice /\ us_pc' = [us_pc EXCEPT ![p] = "get"]
              /\ us_file' = [us_file EXCEPT ![p] = us_intfdata]
    BY <1>4 DEF Us!usb_get_intfdata, Us!Goto, Us!FileUnchanged, Held, UsbTypes
  <2>2. UsbTypes'
    BY <1>1, <2>1 DEF UsbTypes
  <2>3. Held'
    BY <1>1, <2>1 DEF Held, UsbTypes
  <2>4. \A q \in Users, d \in Devices :
          (us_file'[q] = d /\ us_pc'[q] # "get") <=> (us_file[q] = d /\ us_pc[q] # "get")
    BY <2>1, UsbAssumption DEF UsbTypes
  <2> QED BY <1>1, <1>2, <2>1, <2>2, <2>3, <2>4, UsersKept
<1>5. ASSUME NEW d \in Devices, NEW i \in {1, -1},
             us_kref' = [us_kref EXCEPT ![d] = us_kref[d] + i],
             Cardinality(UsersOf(d)') = Cardinality(UsersOf(d)) + i,
             \A e \in Devices \ {d} : UsersOf(e)' = UsersOf(e)
      PROVE  References'
  <2>1. us_kref'[d] = us_kref[d] + i /\ \A e \in Devices \ {d} : us_kref'[e] = us_kref[e]
    BY <1>5 DEF UsbTypes
  <2>2. Cardinality(UsersOf(d)) \in Nat /\ Plug(d) \in Nat
    BY UsersCount DEF Plug
  <2>3. us_kref'[d] = Cardinality(UsersOf(d)') + Plug(d)
    BY <1>5, <2>1, <2>2 DEF References
  <2> QED BY <1>2, <1>5, <2>1, <2>3 DEF References
<1>6. CASE Us!kref_get(p)
  <2>9. PICK d \in Devices : d = us_file[p]
    BY <1>6 DEF Us!kref_get, Held, UsbTypes
  <2>1. /\ us_pc[p] = "get" /\ us_pc' = [us_pc EXCEPT ![p] = "open"]
        /\ us_kref' = [us_kref EXCEPT ![d] = us_kref[d] + 1]
        /\ UNCHANGED <<us_file, us_urbs>>
    BY <1>6, <2>9 DEF Us!kref_get, Us!Get, Us!Goto, Us!FileUnchanged, Held, UsbTypes
  <2>2. UsbTypes'
    BY <1>1, <2>1 DEF UsbTypes
  <2>3. Held'
    BY <1>1, <2>1 DEF Held, UsbTypes
  <2>4. UsersOf(d)' = UsersOf(d) \cup {p} /\ p \notin UsersOf(d)
    BY <2>1, <2>9 DEF UsersOf, UsbTypes
  <2>5. \A e \in Devices \ {d} : UsersOf(e)' = UsersOf(e)
    BY <2>1, <2>9 DEF UsersOf, UsbTypes
  <2>6. Cardinality(UsersOf(d)') = Cardinality(UsersOf(d)) + 1
    BY <2>4, UsersCount
  <2>7. References'
    BY <1>5, <2>1, <2>5, <2>6
  <2> QED BY <1>2, <2>2, <2>3, <2>7
<1>7. CASE Us!skel_release(p)
  <2>9. PICK d \in Devices : d = us_file[p]
    BY <1>7 DEF Us!skel_release, Held, UsbTypes
  <2>1. /\ us_pc[p] = "open" /\ us_pc' = [us_pc EXCEPT ![p] = "closed"]
        /\ us_kref' = [us_kref EXCEPT ![d] = us_kref[d] - 1]
        /\ us_file' = [us_file EXCEPT ![p] = NoDevice]
        /\ UNCHANGED us_urbs
    BY <1>7, <2>9 DEF Us!skel_release, Us!Put, Us!Goto, Us!FileUnchanged, Held, UsbTypes
  <2>2. UsbTypes'
    BY <1>1, <2>1 DEF UsbTypes
  <2>3. Held'
    BY <1>1, <2>1 DEF Held, UsbTypes
  <2>4. UsersOf(d)' = UsersOf(d) \ {p} /\ p \in UsersOf(d)
    BY <2>1, <2>9, UsbAssumption DEF UsersOf, UsbTypes
  <2>5. \A e \in Devices \ {d} : UsersOf(e)' = UsersOf(e)
    BY <2>1, <2>9, UsbAssumption DEF UsersOf, UsbTypes
  <2>6. Cardinality(UsersOf(d)') = Cardinality(UsersOf(d)) - 1
    BY <2>4, UsersCount
  <2>7. us_kref[d] - 1 = us_kref[d] + (-1)
        /\ Cardinality(UsersOf(d)) - 1 = Cardinality(UsersOf(d)) + (-1)
    BY <2>1, UsersCount DEF UsbTypes
  <2>8. References'
    BY <1>5, <2>1, <2>5, <2>6, <2>7
  <2> QED BY <1>2, <2>2, <2>3, <2>8
<1> QED BY <1>3, <1>4, <1>6, <1>7

(* A write ends.                                                           *)
LEMMA CallbackStep ==
  ASSUME UsbInv, NEW d \in Devices, Us!skel_write_bulk_callback(d)
  PROVE  UsbInv'
<1>1. /\ us_urbs' = [us_urbs EXCEPT ![d] = us_urbs[d] - 1] /\ us_urbs[d] > 0
      /\ UNCHANGED <<us_interface, us_intfdata, us_minor, us_leaving, us_kref, us_file, us_pc>>
  BY DEF Us!skel_write_bulk_callback
<1>2. UsbTypes' /\ Plugged' /\ Held'
  BY <1>1 DEF UsbInv, UsbTypes, Plugged, Held, Having
<1>3. References'
  BY <1>1, UsersKept
<1> QED BY <1>2, <1>3 DEF UsbInv

(* RefsCounted of the usb skeleton: the reference count of a device is the *)
(* number of those who hold it, and every pointer to one, an open's that   *)
(* has not counted yet and a write's in flight too, is to one that is not  *)
(* freed (usb-skeleton.c:81-91, 106, 310-316), for every number of         *)
(* processes and however often the device is plugged in and out.           *)
THEOREM RefsCorrect == DriversSpec => []UsbRefsCounted
<1>1. Us!Init => UsbInv
  BY UsbInit
<1>2. UsbInv /\ [Us!Next]_(Us!vars) => UsbInv'
  <2>1. CASE Us!Next
    BY <2>1, PlugStep, UserStep, CallbackStep DEF Us!Next
  <2>2. CASE UNCHANGED Us!vars
    BY <2>2 DEF Us!vars, UsbInv, UsbTypes, Plugged, Held, References, UsersOf, Plug
  <2> QED BY <2>1, <2>2
<1>3. UsbInv => Us!RefsCounted
  <2> SUFFICES ASSUME UsbInv PROVE Us!RefsCounted
    OBVIOUS
  <2>1. ASSUME NEW d \in Devices
        PROVE  us_kref[d] = Cardinality({p \in Users : us_file[p] = d /\ us_pc[p] # "get"})
                           + (IF d \in {us_intfdata, us_leaving} THEN 1 ELSE 0)
    BY DEF UsbInv, References, UsersOf, Plug
  <2>2. ASSUME NEW d \in Devices, d \in {us_intfdata, us_leaving} PROVE us_kref[d] > 0
    <3>1. Plug(d) = 1
      BY <2>2 DEF Plug
    <3>2. Cardinality(UsersOf(d)) \in Nat
      BY UsersAssumption, FS_CardinalityType, FS_Subset DEF UsersOf
    <3> QED BY <3>1, <3>2 DEF UsbInv, References
  <2>3. ASSUME NEW p \in Users, us_file[p] # NoDevice PROVE us_kref[us_file[p]] > 0
    <3>1. us_file[p] \in Devices
      BY <2>3 DEF UsbInv, UsbTypes
    <3>2. CASE us_pc[p] = "get"
      BY <2>2, <3>1, <3>2 DEF UsbInv, Held
    <3>3. CASE us_pc[p] # "get"
      <4>1. p \in UsersOf(us_file[p])
        BY <3>3 DEF UsersOf
      <4>2. /\ Cardinality(UsersOf(us_file[p])) > 0 /\ Cardinality(UsersOf(us_file[p])) \in Nat
            /\ Plug(us_file[p]) \in {0, 1}
        BY <4>1, UsersCount DEF Plug
      <4> QED BY <3>1, <4>2 DEF UsbInv, References
    <3> QED BY <3>2, <3>3
  <2>4. ASSUME NEW d \in Devices, us_urbs[d] > 0 PROVE us_kref[d] > 0
    BY <2>2, <2>4 DEF UsbInv, Held
  <2>5. \A d \in Us!Pointers \ {NoDevice} : us_kref[d] > 0
    <3>1. ASSUME NEW d \in Us!Pointers \ {NoDevice}
          PROVE  \/ d \in Devices /\ d \in {us_intfdata, us_leaving}
                 \/ \E p \in Users : d = us_file[p]
                 \/ d \in Devices /\ us_urbs[d] > 0
      BY <3>1 DEF Us!Pointers, UsbInv, UsbTypes
    <3>2. ASSUME NEW d \in Us!Pointers \ {NoDevice} PROVE us_kref[d] > 0
      <4>1. CASE d \in Devices /\ d \in {us_intfdata, us_leaving}
        BY <2>2, <4>1
      <4>2. CASE \E p \in Users : d = us_file[p]
        BY <2>3, <3>2, <4>2
      <4>3. CASE d \in Devices /\ us_urbs[d] > 0
        BY <2>4, <4>3
      <4> QED BY <3>1, <3>2, <4>1, <4>2, <4>3
    <3> QED BY <3>2
  <2>6. \A S : Us!Cardinality(S) = Cardinality(S)
    BY DEF Us!Cardinality, Cardinality
  <2> QED BY <2>1, <2>5, <2>6 DEF Us!RefsCounted
<1> QED
  BY <1>1, <1>2, <1>3, DriversAlone, PTL DEF Us!Spec, UsbRefsCounted, Us!vars, usb_vars
-----------------------------------------------------------------------------
(***************************************************************************)
(* sbull.                                                                  *)
(***************************************************************************)
Opens == {p \in Users : sb_pc[p] \in {"open", "request"}}

SbullTypes ==
  /\ sb_users = Cardinality(Opens)
  /\ sb_media_change \in BOOLEAN
  /\ sb_timer \in {"off", "pending", "running"}
  /\ sb_stale \subseteq sb_written /\ sb_written \subseteq Sectors
  /\ sb_pc \in [Users -> {"closed", "del_timer", "open_locked", "open", "request"}]

(* An open has the mutex until it is counted, and has stopped the timer    *)
(* when it comes to the device's lock.                                     *)
SbullOpening ==
  \A p \in Users :
    /\ sb_pc[p] \in {"del_timer", "open_locked"} => sb_bd_mutex = p
    /\ sb_pc[p] = "open_locked" => sb_timer = "off"

(* What is stale has been noticed with the timer, and only when nobody has *)
(* the device open.                                                        *)
SbullMedium ==
  /\ sb_timer # "off" => sb_users = 0
  /\ sb_media_change => sb_users = 0
  /\ ~ sb_media_change => sb_stale = {}
  /\ Sb!RemovalComes

(* A request's copies so far: each sector of each segment before the next, *)
(* if the segment is on the disk.                                          *)
SbullRequest ==
  [write : BOOLEAN, sector : Int, segs : Seq(Nat), next : Nat, pos : Int,
   copied : SUBSET (Int \X Int \X Int)]
Start(r, i) == r.sector + (i - 1) * r.segs[1]
OnDisk(r, i) == Start(r, i) .. Start(r, i) + r.segs[1] - 1 \subseteq Sectors
CopiedSoFar(r) ==
  \A c : c \in r.copied <=>
    \E i \in 1 .. r.next - 1 : \E k \in 0 .. r.segs[1] - 1 :
      OnDisk(r, i) /\ c = <<i, k, Start(r, i) + k>>
SbullRequests ==
  /\ sb_req \in [Users -> SbullRequest]
  /\ \A p \in Users : sb_pc[p] = "request" =>
       /\ sb_req[p].next \in 1 .. Len(sb_req[p].segs) + 1
       /\ sb_req[p].segs # <<>> => sb_req[p].pos = Start(sb_req[p], sb_req[p].next)
       /\ CopiedSoFar(sb_req[p])

SbullInv == SbullTypes /\ SbullOpening /\ SbullMedium /\ SbullRequests

(* Initially nobody has the device open.                                   *)
LEMMA SbullInit == ASSUME Sb!Init PROVE SbullInv
<1>1. Opens = {}
  BY DEF Sb!Init, Opens
<1>2. Sb!NoRequest \in SbullRequest
  BY DEF Sb!NoRequest, SbullRequest
<1>3. SbullTypes
  BY <1>1, FS_EmptySet DEF Sb!Init, SbullTypes
<1>4. SbullOpening /\ SbullMedium
  BY DEF Sb!Init, SbullOpening, SbullMedium, Sb!RemovalComes
<1>5. SbullRequests
  BY <1>2 DEF Sb!Init, SbullRequests
<1> QED BY <1>3, <1>4, <1>5 DEF SbullInv

(* One open more or less counts as one.                                    *)
LEMMA OpensCount ==
  ASSUME NEW p \in Users
  PROVE  /\ Cardinality(Opens) \in Nat
         /\ p \notin Opens => Cardinality(Opens \cup {p}) = Cardinality(Opens) + 1
         /\ p \in Opens => /\ Cardinality(Opens \ {p}) = Cardinality(Opens) - 1
                           /\ Cardinality(Opens) > 0
<1>1. IsFiniteSet(Opens)
  <2>1. Opens \subseteq Users
    BY DEF Opens
  <2> QED BY <2>1, UsersAssumption, FS_Subset
<1>2. Cardinality(Opens) \in Nat
  BY <1>1, FS_CardinalityType
<1>3. p \notin Opens => Cardinality(Opens \cup {p}) = Cardinality(Opens) + 1
  BY <1>1, FS_AddElement
<1>4. p \in Opens => Cardinality(Opens \ {p}) = Cardinality(Opens) - 1
  BY <1>1, FS_RemoveElement
<1>5. p \in Opens => Cardinality(Opens) # 0
  BY <1>1, FS_EmptySet
<1> QED BY <1>2, <1>3, <1>4, <1>5

(* Opening, closing, and the timer: requests are left alone.               *)
LEMMA SbullRequestsKept ==
  ASSUME SbullInv, UNCHANGED sb_req,
         \A p \in Users : sb_pc'[p] = "request" => sb_pc[p] = "request"
  PROVE  SbullRequests'
BY DEF SbullInv, SbullRequests, CopiedSoFar, OnDisk, Start

(* Opening and closing.                                                    *)
LEMMA SbullOpenStep ==
  ASSUME SbullInv, NEW p \in Users,
         Sb!OpenBegins(p) \/ Sb!DelTimer(p) \/ Sb!OpenLocked(p) \/ Sb!sbull_release(p)
  PROVE  SbullInv'
<1> USE DEF SbullInv
<1>0. p # NoProc
  BY UsersAssumption
<1>1. CASE Sb!OpenBegins(p) \/ Sb!DelTimer(p)
  <2>1. PICK l \in {"del_timer", "open_locked"} :
          /\ sb_pc[p] = (IF l = "del_timer" THEN "closed" ELSE "del_timer")
          /\ sb_pc' = [sb_pc EXCEPT ![p] = l]
          /\ sb_bd_mutex' = p /\ sb_bd_mutex \in {NoProc, p}
          /\ sb_timer' = IF l = "open_locked" THEN "off" ELSE sb_timer
          /\ UNCHANGED <<sb_users, sb_media_change, sb_stale, sb_written, sb_req>>
    BY <1>1 DEF Sb!OpenBegins, Sb!DelTimer, Sb!Goto, Sb!medium, SbullOpening
  <2>2. sb_pc'[p] = l /\ \A q \in Users \ {p} : sb_pc'[q] = sb_pc[q]
    BY <2>1 DEF SbullTypes
  <2>3. Opens' = Opens
    BY <2>1, <2>2 DEF Opens
  <2>4. SbullTypes'
    BY <2>1, <2>3 DEF SbullTypes
  <2>5. SbullOpening'
    <3> SUFFICES ASSUME NEW q \in Users, q # p PROVE sb_pc'[q] \notin {"del_timer", "open_locked"}
      BY <2>1, <2>2 DEF SbullOpening
    <3> QED BY <1>0, <2>1, <2>2, UsersAssumption DEF SbullOpening
  <2>6. SbullMedium'
    BY <2>1, <2>2 DEF SbullMedium, Sb!RemovalComes
  <2>7. SbullRequests'
    BY <2>1, <2>2, SbullRequestsKept
  <2> QED BY <2>4, <2>5, <2>6, <2>7
<1>2. CASE Sb!OpenLocked(p)
  <2>1. /\ sb_pc[p] = "open_locked" /\ sb_pc' = [sb_pc EXCEPT ![p] = "open"]
        /\ sb_users' = sb_users + 1 /\ sb_bd_mutex' = NoProc
        /\ sb_timer = "off" /\ UNCHANGED <<sb_timer, sb_req>>
        /\ IF sb_users = 0 /\ sb_media_change
             THEN ~ sb_media_change' /\ sb_stale' = {} /\ sb_written' = {}
             ELSE UNCHANGED <<sb_media_change, sb_stale, sb_written>>
    BY <1>2 DEF Sb!OpenLocked, Sb!Goto, Sb!medium, Sb!sbull_revalidate, SbullOpening
  <2>2. sb_pc'[p] = "open" /\ \A q \in Users \ {p} : sb_pc'[q] = sb_pc[q]
    BY <2>1 DEF SbullTypes
  <2>3. Opens' = Opens \cup {p} /\ p \notin Opens
    BY <2>1, <2>2 DEF Opens
  <2>4. sb_users \in Nat /\ sb_users' = Cardinality(Opens')
    BY <2>1, <2>3, OpensCount DEF SbullTypes
  <2>5. /\ sb_media_change' \in BOOLEAN /\ ~ sb_media_change'
        /\ sb_stale' = {} /\ sb_written' \subseteq Sectors
    BY <1>2, <2>1 DEF SbullTypes, SbullMedium, Sb!OpenLocked, Sb!sbull_revalidate, Sb!medium
  <2>6. SbullTypes'
    BY <2>1, <2>4, <2>5 DEF SbullTypes
  <2>7. SbullOpening'
    BY <1>0, <2>1, <2>2 DEF SbullOpening
  <2>8. SbullMedium'
    BY <2>1, <2>4, <2>5 DEF SbullMedium, Sb!RemovalComes
  <2>9. SbullRequests'
    BY <2>1, <2>2, SbullRequestsKept
  <2> QED BY <2>6, <2>7, <2>8, <2>9
<1>3. CASE Sb!sbull_release(p)
  <2>1. /\ sb_pc[p] = "open" /\ sb_pc' = [sb_pc EXCEPT ![p] = "closed"]
        /\ sb_bd_mutex = NoProc /\ sb_users' = sb_users - 1
        /\ sb_timer' = IF sb_users' = 0
                         THEN IF sb_timer = "off" THEN "pending" ELSE "added twice"
                         ELSE sb_timer
        /\ UNCHANGED <<sb_media_change, sb_stale, sb_written, sb_bd_mutex, sb_req>>
    BY <1>3 DEF Sb!sbull_release, Sb!Last, Sb!Goto, Sb!medium
  <2>2. sb_pc'[p] = "closed" /\ \A q \in Users \ {p} : sb_pc'[q] = sb_pc[q]
    BY <2>1 DEF SbullTypes
  <2>3. Opens' = Opens \ {p} /\ p \in Opens
    BY <2>1, <2>2 DEF Opens
  <2>4. /\ sb_users \in Nat /\ sb_users > 0
        /\ sb_users' = Cardinality(Opens')
    BY <2>1, <2>3, OpensCount DEF SbullTypes
  <2>5. sb_timer = "off" /\ sb_timer' = IF sb_users' = 0 THEN "pending" ELSE "off"
    <3>1. sb_users # 0
      BY <2>4
    <3>2. sb_timer = "off"
      BY <3>1 DEF SbullMedium
    <3> QED BY <2>1, <3>2
  <2>6. SbullTypes'
    BY <2>1, <2>4, <2>5 DEF SbullTypes
  <2>7. SbullOpening'
    BY <1>0, <2>1, <2>2, UsersAssumption DEF SbullOpening
  <2>8. SbullMedium'
    BY <2>1, <2>4, <2>5 DEF SbullMedium, Sb!RemovalComes
  <2>9. SbullRequests'
    BY <2>1, <2>2, SbullRequestsKept
  <2> QED BY <2>6, <2>7, <2>8, <2>9
<1> QED BY <1>1, <1>2, <1>3

(* The timer.                                                              *)
LEMMA SbullTimerStep ==
  ASSUME SbullInv, Sb!TimerExpires \/ Sb!sbull_invalidate
  PROVE  SbullInv'
<1> USE DEF SbullInv
<1>1. /\ UNCHANGED <<sb_users, sb_written, sb_bd_mutex, sb_pc, sb_req>>
      /\ sb_timer # "off" /\ sb_timer' \in {"off", "running"}
      /\ sb_timer' = "running" => UNCHANGED <<sb_media_change, sb_stale>>
      /\ sb_timer' = "off" =>
           IF sb_users # 0 THEN UNCHANGED <<sb_media_change, sb_stale>>
                           ELSE sb_media_change' = TRUE /\ sb_stale' = sb_written
  BY DEF Sb!TimerExpires, Sb!sbull_invalidate, Sb!medium
<1>2. sb_users = 0
  BY <1>1 DEF SbullMedium
<1>3. Opens' = Opens
  BY <1>1 DEF Opens
<1>4. SbullTypes'
  BY <1>1, <1>2, <1>3 DEF SbullTypes
<1>5. SbullOpening'
  BY <1>1 DEF SbullOpening
<1>6. SbullMedium'
  BY <1>1, <1>2 DEF SbullMedium, Sb!RemovalComes
<1>7. SbullRequests'
  BY <1>1, SbullRequestsKept
<1> QED BY <1>4, <1>5, <1>6, <1>7

(* A request's segment is copied where it belongs.                         *)
LEMMA CopiedStep ==
  ASSUME NEW r \in SbullRequest, NEW s \in SbullRequest,
         r.next \in 1 .. Len(r.segs), r.pos = Start(r, r.next), CopiedSoFar(r),
         s.sector = r.sector, s.segs = r.segs, s.next = r.next + 1,
         s.pos = r.pos + r.segs[1],
         s.copied = r.copied \cup {<<r.next, t - r.pos, t>> :
                                      t \in Sb!sbull_transfer(r.pos, r.segs[1])}
  PROVE  s.pos = Start(s, s.next) /\ CopiedSoFar(s)
<1> DEFINE n == r.segs[1]
<1>1. n \in Nat /\ r.next \in Nat /\ r.sector \in Int /\ r.pos \in Int
  BY DEF SbullRequest
<1>2. \A i : Start(s, i) = Start(r, i) /\ (OnDisk(s, i) <=> OnDisk(r, i))
  BY DEF Start, OnDisk
<1>3. s.pos = Start(s, s.next)
  <2>1. r.pos = r.sector + (r.next - 1) * n
    BY DEF Start
  <2>2. (r.next - 1) * n + n = r.next * n
    BY <1>1
  <2>3. Start(s, s.next) = r.sector + (r.next + 1 - 1) * n
    BY DEF Start
  <2>4. r.next + 1 - 1 = r.next /\ (r.next - 1) * n \in Int /\ r.next * n \in Int
    BY <1>1
  <2> HIDE DEF n
  <2> QED BY <1>1, <2>1, <2>2, <2>3, <2>4, SMTT(30) DEF n
<1>4. ASSUME NEW c
      PROVE  c \in {<<r.next, t - r.pos, t>> : t \in Sb!sbull_transfer(r.pos, n)} <=>
               \E k \in 0 .. n - 1 : OnDisk(r, r.next) /\ c = <<r.next, k, Start(r, r.next) + k>>
  <2>1. ASSUME NEW t \in Sb!sbull_transfer(r.pos, n)
        PROVE  /\ OnDisk(r, r.next) /\ t - r.pos \in 0 .. n - 1
               /\ t = Start(r, r.next) + (t - r.pos)
    BY <1>1, <2>1 DEF Sb!sbull_transfer, OnDisk
  <2>2. ASSUME NEW k \in 0 .. n - 1, OnDisk(r, r.next)
        PROVE  /\ r.pos + k \in Sb!sbull_transfer(r.pos, n)
               /\ (r.pos + k) - r.pos = k
    BY <1>1, <2>2, SMTT(30) DEF Sb!sbull_transfer, OnDisk
  <2>3. ASSUME NEW t \in Sb!sbull_transfer(r.pos, n), c = <<r.next, t - r.pos, t>>
        PROVE  \E k \in 0 .. n - 1 : OnDisk(r, r.next) /\ c = <<r.next, k, Start(r, r.next) + k>>
    BY <2>1, <2>3
  <2>4. ASSUME NEW k \in 0 .. n - 1, OnDisk(r, r.next), c = <<r.next, k, Start(r, r.next) + k>>
        PROVE  \E t \in Sb!sbull_transfer(r.pos, n) : c = <<r.next, t - r.pos, t>>
    <3>1. r.pos + k \in Sb!sbull_transfer(r.pos, n) /\ (r.pos + k) - r.pos = k
      BY <2>2, <2>4
    <3> QED BY <2>4, <3>1
  <2> QED BY <2>3, <2>4
<1>5. ASSUME NEW c
      PROVE  c \in s.copied <=>
               \E i \in 1 .. s.next - 1 : \E k \in 0 .. n - 1 :
                 OnDisk(s, i) /\ c = <<i, k, Start(s, i) + k>>
  <2>1. c \in s.copied <=>
          \/ \E i \in 1 .. r.next - 1 : \E k \in 0 .. n - 1 :
               OnDisk(r, i) /\ c = <<i, k, Start(r, i) + k>>
          \/ \E k \in 0 .. n - 1 : OnDisk(r, r.next) /\ c = <<r.next, k, Start(r, r.next) + k>>
    BY <1>4 DEF CopiedSoFar
  <2>2. 1 .. s.next - 1 = (1 .. r.next - 1) \cup {r.next}
    BY <1>1
  <2> QED BY <1>2, <2>1, <2>2
<1> QED BY <1>3, <1>5 DEF CopiedSoFar

(* A request.                                                              *)
LEMMA SbullRequestStep ==
  ASSUME SbullInv, NEW p \in Users,
         Sb!RequestBegins(p) \/ Sb!Transfer(p) \/ Sb!RequestEnds(p)
  PROVE  SbullInv'
<1> USE DEF SbullInv
<1>1. /\ UNCHANGED <<sb_users, sb_media_change, sb_timer, sb_bd_mutex>>
      /\ sb_pc[p] \in {"open", "request"}
      /\ \/ UNCHANGED sb_pc
         \/ \E l \in {"open", "request"} : sb_pc' = [sb_pc EXCEPT ![p] = l]
      /\ \/ UNCHANGED <<sb_stale, sb_written>>
         \/ \E t \in SUBSET Sectors : sb_written' = sb_written \cup t /\ sb_stale' = sb_stale \ t
  <2>1. \A r : Sb!sbull_transfer(r.pos, r.segs[1]) \in SUBSET Sectors
    BY DEF Sb!sbull_transfer
  <2> QED BY <2>1 DEF Sb!RequestBegins, Sb!Transfer, Sb!RequestEnds, Sb!Goto, Sb!medium
<1>2. sb_pc'[p] \in {"open", "request"} /\ \A q \in Users \ {p} : sb_pc'[q] = sb_pc[q]
  BY <1>1 DEF SbullTypes
<1>3. Opens' = Opens /\ p \in Opens
  BY <1>1, <1>2 DEF Opens
<1>4. sb_users > 0
  BY <1>3, OpensCount DEF SbullTypes
<1>5. SbullTypes'
  BY <1>1, <1>2, <1>3 DEF SbullTypes
<1>6. SbullOpening'
  BY <1>1, <1>2 DEF SbullOpening
<1>7. SbullMedium'
  BY <1>1, <1>4 DEF SbullMedium, Sb!RemovalComes
<1>8. SbullRequests'
  <2>1. \E r \in SbullRequest :
          /\ sb_req' = [sb_req EXCEPT ![p] = r]
          /\ sb_pc'[p] = "request" =>
               /\ r.next \in 1 .. Len(r.segs) + 1 /\ CopiedSoFar(r)
               /\ r.segs # <<>> => r.pos = Start(r, r.next)
    <3>1. CASE Sb!RequestBegins(p)
      <4>1. PICK write \in BOOLEAN, sector \in Sectors, segs \in Requests :
              sb_req' = [sb_req EXCEPT ![p] =
                           [Sb!NoRequest EXCEPT !.write = write, !.sector = sector,
                                                !.pos = sector, !.segs = segs, !.next = 1]]
        BY <3>1 DEF Sb!RequestBegins
      <4> DEFINE r == [Sb!NoRequest EXCEPT !.write = write, !.sector = sector,
                                           !.pos = sector, !.segs = segs, !.next = 1]
      <4>2. sb_req' = [sb_req EXCEPT ![p] = r]
        BY <4>1
      <4>0. /\ r.segs = segs /\ r.next = 1 /\ r.pos = sector /\ r.sector = sector
            /\ r.copied = {}
        BY DEF Sb!NoRequest
      <4>3. r \in SbullRequest
        <5>1. sector \in Int /\ segs \in Seq(Nat)
          BY SbullAssumption
        <5>2. Sb!NoRequest \in SbullRequest
          BY DEF Sb!NoRequest, SbullRequest
        <5> QED BY <5>1, <5>2 DEF SbullRequest
      <4> HIDE DEF r
      <4>4. ASSUME r.segs # <<>> PROVE r.pos = Start(r, r.next)
        <5>1. segs[1] \in Int /\ sector \in Int
          BY <4>0, <4>4, SbullAssumption
        <5>2. (1 - 1) * segs[1] = 0
          BY <5>1
        <5> QED BY <4>0, <5>1, <5>2 DEF Start
      <4>5. CopiedSoFar(r)
        BY <4>0 DEF CopiedSoFar
      <4>6. r.next \in 1 .. Len(r.segs) + 1
        BY <4>0, SbullAssumption
      <4> QED BY <4>2, <4>3, <4>4, <4>5, <4>6
    <3>2. CASE Sb!Transfer(p)
      <4> DEFINE r == sb_req[p]
                 s == [r EXCEPT !.next = @ + 1, !.pos = @ + r.segs[1],
                                !.copied = @ \cup {<<r.next, t - r.pos, t>> :
                                             t \in Sb!sbull_transfer(r.pos, r.segs[1])}]
      <4>1. /\ sb_pc[p] = "request" /\ r.next <= Len(r.segs)
            /\ sb_req' = [sb_req EXCEPT ![p] = s]
        BY <3>2 DEF Sb!Transfer, Sb!Advanced
      <4>2. /\ r \in SbullRequest /\ r.next \in 1 .. Len(r.segs)
            /\ r.pos = Start(r, r.next) /\ CopiedSoFar(r)
        <5>1. r \in SbullRequest /\ r.next \in 1 .. Len(r.segs)
          BY <4>1 DEF SbullRequests, SbullRequest
        <5>2. r.segs # <<>>
          BY <5>1
        <5> QED BY <4>1, <5>1, <5>2 DEF SbullRequests
      <4>3. s \in SbullRequest
        <5>1. r.segs[1] \in Nat
          BY <4>2 DEF SbullRequest
        <5>2. {<<r.next, t - r.pos, t>> : t \in Sb!sbull_transfer(r.pos, r.segs[1])}
                \in SUBSET (Int \X Int \X Int)
          BY <4>2, <5>1, SMTT(30) DEF SbullRequest, Sb!sbull_transfer
        <5>3. /\ r.next + 1 \in Nat /\ r.pos + r.segs[1] \in Int
              /\ r.copied \in SUBSET (Int \X Int \X Int)
          BY <4>2, <5>1 DEF SbullRequest
        <5> DEFINE C == Int \X Int \X Int
                   New == {<<r.next, t - r.pos, t>> : t \in Sb!sbull_transfer(r.pos, r.segs[1])}
        <5>4. r.copied \cup New \in SUBSET C
          BY <5>2, <5>3
        <5>5. s = [r EXCEPT !.next = r.next + 1, !.pos = r.pos + r.segs[1],
                            !.copied = r.copied \cup New]
          OBVIOUS
        <5> HIDE DEF C, New, s
        <5>6. \A x \in Nat, y \in Int, z \in SUBSET C :
                [r EXCEPT !.next = x, !.pos = y, !.copied = z] \in
                  [write : BOOLEAN, sector : Int, segs : Seq(Nat), next : Nat, pos : Int,
                   copied : SUBSET C]
          BY <4>2 DEF SbullRequest, C
        <5> QED BY <5>3, <5>4, <5>5, <5>6 DEF SbullRequest, C
      <4>4. /\ s.sector = r.sector /\ s.segs = r.segs /\ s.next = r.next + 1
            /\ s.pos = r.pos + r.segs[1]
            /\ s.copied = r.copied \cup {<<r.next, t - r.pos, t>> :
                                           t \in Sb!sbull_transfer(r.pos, r.segs[1])}
        BY <4>2 DEF SbullRequest
      <4>5. s.pos = Start(s, s.next) /\ CopiedSoFar(s)
        BY <4>2, <4>3, <4>4, CopiedStep
      <4>6. s.next \in 1 .. Len(s.segs) + 1
        BY <4>2, <4>4 DEF SbullRequest
      <4> HIDE DEF s
      <4> QED BY <4>1, <4>3, <4>5, <4>6
    <3>3. CASE Sb!RequestEnds(p)
      <4>1. Sb!NoRequest \in SbullRequest
        BY DEF Sb!NoRequest, SbullRequest
      <4>2. sb_pc'[p] = "open" /\ sb_req' = [sb_req EXCEPT ![p] = Sb!NoRequest]
        BY <3>3 DEF Sb!RequestEnds, Sb!Goto, SbullTypes
      <4> QED BY <4>1, <4>2
    <3> QED BY <3>1, <3>2, <3>3
  <2>2. PICK r \in SbullRequest :
          /\ sb_req' = [sb_req EXCEPT ![p] = r]
          /\ sb_pc'[p] = "request" =>
               /\ r.next \in 1 .. Len(r.segs) + 1 /\ CopiedSoFar(r)
               /\ r.segs # <<>> => r.pos = Start(r, r.next)
    BY <2>1
  <2>3. /\ sb_req' \in [Users -> SbullRequest] /\ sb_req'[p] = r
        /\ \A q \in Users \ {p} : sb_req'[q] = sb_req[q]
    BY <2>2 DEF SbullRequests
  <2>4. \A q \in Users : sb_pc'[q] = "request" =>
          /\ sb_req'[q].next \in 1 .. Len(sb_req'[q].segs) + 1
          /\ sb_req'[q].segs # <<>> => sb_req'[q].pos = Start(sb_req'[q], sb_req'[q].next)
          /\ CopiedSoFar(sb_req'[q])
    BY <1>2, <2>2, <2>3 DEF SbullRequests
  <2> QED BY <2>3, <2>4 DEF SbullRequests, CopiedSoFar, OnDisk, Start
<1> QED BY <1>5, <1>6, <1>7, <1>8

(* What was copied, when all was, is where it belongs.                     *)
LEMMA SbullPlaced == SbullInv => Sb!Placed
<1> SUFFICES ASSUME SbullInv, NEW p \in Users, sb_pc[p] = "request",
                    sb_req[p].next > Len(sb_req[p].segs),
                    {c[3] : c \in Sb!Belongs(sb_req[p])} \subseteq Sectors
             PROVE  sb_req[p].copied = Sb!Belongs(sb_req[p])
  BY DEF Sb!Placed
<1> DEFINE r == sb_req[p]
           n == r.segs[1]
<1>1. /\ r \in SbullRequest /\ r.next = Len(r.segs) + 1 /\ CopiedSoFar(r)
      /\ Len(r.segs) \in Nat /\ \A i \in 1 .. Len(r.segs) : n \in Nat
  BY DEF SbullInv, SbullRequests, SbullRequest
<1>2. Sb!Belongs(r) = {<<i, k, Start(r, i) + k>> : i \in 1 .. Len(r.segs), k \in 0 .. n - 1}
  BY DEF Sb!Belongs, Start
<1>3. ASSUME NEW i \in 1 .. Len(r.segs) PROVE OnDisk(r, i)
  <2>1. Start(r, i) \in Int /\ n \in Nat
    BY <1>1 DEF Start, SbullRequest
  <2>2. ASSUME NEW s \in Start(r, i) .. Start(r, i) + n - 1 PROVE s \in Sectors
    <3>1. s - Start(r, i) \in 0 .. n - 1 /\ s = Start(r, i) + (s - Start(r, i))
      BY <2>1
    <3>2. <<i, s - Start(r, i), s>> \in Sb!Belongs(r)
      BY <1>2, <3>1
    <3> QED BY <3>2
  <2> QED BY <2>2 DEF OnDisk
<1>4. r.next - 1 = Len(r.segs)
  BY <1>1
<1> QED BY <1>1, <1>2, <1>3, <1>4 DEF CopiedSoFar

(* SbullDisk: sbull's medium is never removed from under a user, nobody    *)
(* sees what was on a removed one, a disk that was used and left will be   *)
(* blanked, and a request that fits puts each sector where it belongs      *)
(* (sbull.c:154-164, 276-298, 310-313, 357), for every number of processes *)
(* and requests of any number of segments.                                 *)
THEOREM DiskCorrect == DriversSpec => [](Sb!TypeOK /\ SbullDisk)
<1>1. Sb!Init => SbullInv
  BY SbullInit
<1>2. SbullInv /\ [Sb!Next]_(Sb!vars) => SbullInv'
  <2>1. CASE Sb!Next
    BY <2>1, SbullOpenStep, SbullTimerStep, SbullRequestStep DEF Sb!Next
  <2>2. ASSUME SbullInv, UNCHANGED Sb!vars PROVE SbullInv'
    <3>1. Opens' = Opens
      BY <2>2 DEF Sb!vars, Opens
    <3>2. SbullRequests'
      BY <2>2, SbullRequestsKept DEF Sb!vars
    <3> QED BY <2>2, <3>1, <3>2
        DEF Sb!vars, SbullInv, SbullTypes, SbullOpening, SbullMedium, Sb!RemovalComes
  <2> QED BY <2>1, <2>2
<1>3. SbullInv => Sb!TypeOK /\ SbullDisk
  <2> SUFFICES ASSUME SbullInv PROVE Sb!TypeOK /\ SbullDisk
    OBVIOUS
  <2>1. \A S : Sb!Cardinality(S) = Cardinality(S)
    BY DEF Sb!Cardinality, Cardinality
  <2>2. sb_users > 0 => sb_users # 0
    OBVIOUS
  <2> QED BY <2>1, <2>2, SbullPlaced
      DEF SbullInv, SbullTypes, SbullMedium, Opens, Sb!TypeOK, SbullDisk, Sb!TimerSane,
          Sb!NewMediumBlank
<1> QED
  BY <1>1, <1>2, <1>3, DriversAlone, PTL DEF Sb!Spec, Sb!vars, sbull_vars

-----------------------------------------------------------------------------
(***************************************************************************)
(* short.                                                                  *)
(***************************************************************************)
Ring == [head : Nat, tail : Nat, unread : SUBSET Int, passed : BOOLEAN]
ReaderPlaces == {"closed", "user", "while", "prepare", "test", "sleep", "finish",
                 "count", "copy", "advance"}

ShortTypes ==
  /\ sh_ring \in Ring /\ sh_ring.head < PageSize /\ sh_ring.tail < PageSize
  /\ \E k \in Nat : sh_ring.head = k * RecordLen
  /\ sh_tv \in [head : 0 .. NR_TIMEVAL - 1, tail : 0 .. NR_TIMEVAL - 1]
  /\ sh_bottom \in [scheduled : BOOLEAN, pc : {"idle", "print", "wake"}]
  /\ sh_pc \in ReaderPlaces /\ sh_count \in Nat
  /\ sh_pc # "closed" => sh_module \in {"loading", "loaded"}

(* As long as the head has not passed the tail in the middle of a read,    *)
(* what the read is about to skip is there.                                *)
ShortCounted ==
  sh_pc \in {"copy", "advance"} /\ ~ sh_ring.passed => sh_count <= Sh!Readable(sh_ring)

ShortInv ==
  /\ ShortTypes /\ ShortCounted
  /\ Sh!ReadsFresh /\ Sh!ReaderWoken /\ Sh!StampsPrinted

(* A page is a whole number of records, and so is what is before the head: *)
(* a record fits at the head.                                              *)
LEMMA RecordFits ==
  ASSUME NEW k \in Nat, k * RecordLen < PageSize
  PROVE  k * RecordLen + RecordLen <= PageSize /\ k * RecordLen + RecordLen = (k + 1) * RecordLen
<1>1. PICK n \in 2 .. PageSize : PageSize = n * RecordLen
  BY ShortAssumption
<1>2. RecordLen \in Nat \ {0} /\ n \in Nat
  BY <1>1, ShortAssumption
<1>3. k < n
  <2> SUFFICES ASSUME k - n >= 0 PROVE FALSE
    BY <1>2
  <2>1. (k - n) * RecordLen >= 0
    BY <1>2
  <2>2. (k - n) * RecordLen = k * RecordLen - n * RecordLen
    BY <1>2
  <2>3. k * RecordLen \in Int /\ n * RecordLen \in Int
    BY <1>2
  <2> QED BY <1>1, <2>1, <2>2, <2>3
<1>4. (n - k - 1) * RecordLen >= 0
  BY <1>2, <1>3
<1>5. (n - k - 1) * RecordLen = n * RecordLen - k * RecordLen - RecordLen
  BY <1>2
<1>6. k * RecordLen \in Int /\ n * RecordLen \in Int
  BY <1>2
<1>7. (k + 1) * RecordLen = k * RecordLen + RecordLen
  BY <1>2
<1> QED BY <1>1, <1>2, <1>4, <1>5, <1>6, <1>7

(* A page holds two records or more.                                       *)
LEMMA PageLong ==
  PageSize \in Nat /\ PageSize >= 2 * RecordLen /\ RecordLen > 0 /\ RecordLen \in Nat
<1>1. PICK n \in 2 .. PageSize : PageSize = n * RecordLen
  BY ShortAssumption
<1>2. RecordLen \in Nat \ {0} /\ n \in Nat /\ n >= 2
  BY <1>1, ShortAssumption
<1>3. (n - 2) * RecordLen >= 0
  BY <1>2
<1>4. (n - 2) * RecordLen = n * RecordLen - 2 * RecordLen
  BY <1>2
<1>5. n * RecordLen \in Nat
  BY <1>2
<1> QED BY <1>1, <1>2, <1>3, <1>4, <1>5

(* A multiple leaves nothing.                                              *)
LEMMA Multiple == ASSUME NEW k \in Nat, NEW m \in Nat \ {0} PROVE (k * m) % m = 0
OBVIOUS

(* How much is between the indices.                                        *)
LEMMA UnreadMeans ==
  ASSUME NEW r \in Ring, r.head < PageSize, r.tail < PageSize
  PROVE  Sh!Unread(r) = IF r.head >= r.tail THEN r.head - r.tail ELSE r.head - r.tail + PageSize
<1>1. r.head \in Nat /\ r.tail \in Nat /\ PageSize \in Nat \ {0}
  BY PageLong DEF Ring
<1>2. ASSUME NEW a \in 0 .. PageSize - 1
      PROVE  a % PageSize = a /\ (a + PageSize) % PageSize = a
  BY <1>1
<1>3. CASE r.head >= r.tail
  <2>1. r.head - r.tail \in 0 .. PageSize - 1
    BY <1>1, <1>3
  <2> QED BY <1>2, <1>3, <2>1 DEF Sh!Unread
<1>4. CASE r.head < r.tail
  <2>1. r.head - r.tail + PageSize \in 0 .. PageSize - 1
    BY <1>1, <1>4
  <2> QED BY <1>1, <1>2, <1>4, <2>1 DEF Sh!Unread
<1> QED BY <1>1, <1>3, <1>4

(* The bytes that are to be read, between two indices of the page.         *)
Between(h, t) == IF h >= t THEN t .. h - 1 ELSE 0 .. PageSize - 1 \ h .. t - 1

(* A record at the head adds itself to them, or leaves only a part of      *)
(* itself; unless it passes the tail, what can be read does not shrink.    *)
LEMMA StoreMoves ==
  ASSUME NEW h \in Nat, NEW t \in Nat, h + RecordLen <= PageSize, t < PageSize
  PROVE  /\ Between(Sh!incr_bp(h, RecordLen), t) \subseteq Between(h, t) \cup Sh!Bytes(h, RecordLen)
         /\ (IF h >= t THEN h - t ELSE h - t + PageSize) + RecordLen < PageSize =>
              (IF h >= t THEN h - t ELSE PageSize - t)
                <= (IF Sh!incr_bp(h, RecordLen) >= t THEN Sh!incr_bp(h, RecordLen) - t
                                                     ELSE PageSize - t)
<1> USE PageLong
<1>1. CASE h + RecordLen = PageSize
  <2>1. Sh!incr_bp(h, RecordLen) = 0
    BY <1>1 DEF Sh!incr_bp
  <2>2. Between(0, t) \subseteq Between(h, t) \cup h .. PageSize - 1
    BY DEF Between
  <2>3. h .. h + RecordLen - 1 = h .. PageSize - 1
    BY <1>1
  <2> QED BY <1>1, <2>1, <2>2, <2>3 DEF Sh!Bytes
<1>2. CASE h + RecordLen < PageSize
  <2>1. Sh!incr_bp(h, RecordLen) = h + RecordLen
    BY <1>2 DEF Sh!incr_bp
  <2>2. Between(h + RecordLen, t) \subseteq Between(h, t) \cup h .. h + RecordLen - 1
    BY <1>2 DEF Between
  <2> QED BY <1>2, <2>1, <2>2 DEF Sh!Bytes
<1> QED BY <1>1, <1>2

(* What a read skips is taken from them.                                   *)
LEMMA AdvanceMoves ==
  ASSUME NEW h \in Nat, NEW t \in Nat, NEW c \in Nat, h < PageSize, t < PageSize,
         c <= (IF h >= t THEN h - t ELSE PageSize - t)
  PROVE  Between(h, Sh!incr_bp(t, c)) \subseteq Between(h, t) \ Sh!Bytes(t, c)
<1> USE PageLong
<1>1. CASE t + c >= PageSize
  <2>1. t + c = PageSize /\ h < t /\ Sh!incr_bp(t, c) = 0
    BY <1>1 DEF Sh!incr_bp
  <2>2. Between(h, 0) \subseteq Between(h, t) \ t .. PageSize - 1
    BY <2>1 DEF Between
  <2> QED BY <2>1, <2>2 DEF Sh!Bytes
<1>2. CASE t + c < PageSize
  <2>1. Sh!incr_bp(t, c) = t + c
    BY <1>2 DEF Sh!incr_bp
  <2>2. Between(h, t + c) \subseteq Between(h, t) \ t .. t + c - 1
    BY <1>2 DEF Between
  <2> QED BY <2>1, <2>2 DEF Sh!Bytes
<1> QED BY <1>1, <1>2

(* A handler or a bottom half that stores a record keeps the reader's      *)
(* part.                                                                   *)
LEMMA ShortStores ==
  ASSUME ShortInv, sh_ring' = Sh!StoreRecord(sh_ring), UNCHANGED <<sh_pc, sh_count>>
  PROVE  /\ sh_ring' \in Ring /\ sh_ring'.head < PageSize /\ sh_ring'.tail < PageSize
         /\ \E k \in Nat : sh_ring'.head = k * RecordLen
         /\ ShortCounted' /\ Sh!ReadsFresh'
<1> USE DEF ShortInv
<1> DEFINE h == sh_ring.head
           t == sh_ring.tail
<1>1. PICK k \in Nat : h = k * RecordLen
  BY DEF ShortTypes
<1>2. /\ h \in Nat /\ t \in Nat /\ h < PageSize /\ t < PageSize
      /\ sh_ring.unread \in SUBSET Int /\ sh_ring.passed \in BOOLEAN
  BY DEF ShortTypes, Ring
<1>3. h + RecordLen <= PageSize /\ h + RecordLen = (k + 1) * RecordLen
  BY <1>1, <1>2, RecordFits
<1>4. Sh!incr_bp(h, RecordLen) \in Nat /\ Sh!incr_bp(h, RecordLen) < PageSize
  BY <1>2, <1>3, PageLong DEF Sh!incr_bp
<1>5. \E j \in Nat : Sh!incr_bp(h, RecordLen) = j * RecordLen
  <2>1. 0 = 0 * RecordLen /\ k + 1 \in Nat
    BY PageLong
  <2> QED BY <1>3, <2>1 DEF Sh!incr_bp
<1>6. Sh!Bytes(h, RecordLen) \in SUBSET Int
  BY <1>2, PageLong DEF Sh!Bytes
<1>7. /\ sh_ring' \in Ring
      /\ sh_ring'.head = Sh!incr_bp(h, RecordLen) /\ sh_ring'.tail = t
      /\ sh_ring'.unread = sh_ring.unread \cup Sh!Bytes(h, RecordLen)
      /\ sh_ring'.passed = (sh_ring.passed \/ /\ sh_pc \in {"copy", "advance"}
                                              /\ PageSize - Sh!Unread(sh_ring) <= RecordLen)
  <2>1. /\ sh_ring.unread \cup Sh!Bytes(h, RecordLen) \in SUBSET Int
        /\ (sh_ring.passed \/ /\ sh_pc \in {"copy", "advance"}
                              /\ PageSize - Sh!Unread(sh_ring) <= RecordLen) \in BOOLEAN
    BY <1>2, <1>6
  <2>2. sh_ring \in Ring
    BY DEF ShortTypes
  <2> HIDE DEF h, t
  <2> QED BY <1>4, <2>1, <2>2 DEF Sh!StoreRecord, Ring, h, t
<1>8. \E j \in Nat : sh_ring'.head = j * RecordLen
  BY <1>5, <1>7
<1>9. ~ sh_ring'.passed =>
        /\ ~ sh_ring.passed
        /\ sh_pc \in {"copy", "advance"} =>
             (IF h >= t THEN h - t ELSE h - t + PageSize) + RecordLen < PageSize
  <2>1. Sh!Unread(sh_ring) = IF h >= t THEN h - t ELSE h - t + PageSize
    BY <1>2, UnreadMeans DEF ShortTypes
  <2>2. PageSize \in Nat /\ RecordLen \in Nat
    BY PageLong
  <2> HIDE DEF h, t
  <2>3. PageSize - Sh!Unread(sh_ring) <= RecordLen \/
          (IF h >= t THEN h - t ELSE h - t + PageSize) + RecordLen < PageSize
    BY <1>2, <2>1, <2>2
  <2> QED BY <1>2, <1>7, <2>3
<1>10. /\ Between(sh_ring'.head, t) \subseteq Between(h, t) \cup Sh!Bytes(h, RecordLen)
       /\ ~ sh_ring'.passed /\ sh_pc \in {"copy", "advance"} =>
            Sh!Readable(sh_ring) <= Sh!Readable(sh_ring')
  BY <1>2, <1>3, <1>7, <1>9, StoreMoves DEF Sh!Readable
<1>11. ShortCounted'
  <2> SUFFICES ASSUME sh_pc \in {"copy", "advance"}, ~ sh_ring'.passed
               PROVE  sh_count <= Sh!Readable(sh_ring')
    BY DEF ShortCounted, Sh!Readable
  <2>1. sh_count <= Sh!Readable(sh_ring) /\ Sh!Readable(sh_ring) <= Sh!Readable(sh_ring')
    BY <1>9, <1>10 DEF ShortCounted
  <2>2. sh_count \in Int /\ Sh!Readable(sh_ring) \in Int /\ Sh!Readable(sh_ring') \in Int
    BY <1>2, <1>4, <1>7, PageLong DEF ShortTypes, Sh!Readable
  <2> QED BY <2>1, <2>2
<1>12. Sh!ReadsFresh'
  <2> SUFFICES ASSUME ~ sh_ring'.passed
               PROVE  /\ Between(sh_ring'.head, t) \ Sh!Copied \subseteq sh_ring'.unread
                      /\ sh_pc = "copy" => Sh!Bytes(t, sh_count) \subseteq sh_ring'.unread
    BY <1>7 DEF Sh!ReadsFresh, Sh!Pending, Sh!Copied, Between
  <2>1. /\ Between(h, t) \ Sh!Copied \subseteq sh_ring.unread
        /\ sh_pc = "copy" => Sh!Bytes(t, sh_count) \subseteq sh_ring.unread
    BY <1>9 DEF Sh!ReadsFresh, Sh!Pending, Between
  <2> QED BY <1>7, <1>10, <2>1
<1> QED BY <1>4, <1>2, <1>7, <1>8, <1>11, <1>12

(* A step that leaves ring and reader alone.                               *)
LEMMA ShortKept ==
  ASSUME ShortInv, UNCHANGED <<sh_ring, sh_pc, sh_count>>
  PROVE  ShortCounted' /\ Sh!ReadsFresh'
BY DEF ShortInv, ShortCounted, Sh!ReadsFresh, Sh!Pending, Sh!Copied, Sh!Readable, Sh!Bytes

(* Initially the buffer is empty.                                          *)
LEMMA EmptyFresh ==
  ASSUME sh_ring = Sh!EmptyRing, sh_pc = "closed"
  PROVE  /\ sh_ring \in Ring /\ sh_ring.head < PageSize /\ sh_ring.tail < PageSize
         /\ \E k \in Nat : sh_ring.head = k * RecordLen
         /\ ShortCounted /\ Sh!ReadsFresh /\ sh_ring.head = sh_ring.tail
<1>1. /\ sh_ring = [head |-> 0, tail |-> 0, unread |-> {}, passed |-> FALSE]
      /\ 0 < PageSize /\ 0 = 0 * RecordLen
  BY PageLong DEF Sh!EmptyRing
<1>2. Sh!Pending = {}
  BY <1>1 DEF Sh!Pending
<1> QED
  BY <1>1, <1>2 DEF Ring, ShortCounted, Sh!ReadsFresh

(* What an initial state of short is.                                      *)
LEMMA ShortInit == ASSUME Sh!Init PROVE ShortInv
<1>1. /\ sh_ring \in Ring /\ sh_ring.head < PageSize /\ sh_ring.tail < PageSize
      /\ \E k \in Nat : sh_ring.head = k * RecordLen
      /\ ShortCounted /\ Sh!ReadsFresh /\ sh_ring.head = sh_ring.tail
  BY EmptyFresh DEF Sh!Init
<1>2. sh_tv \in [head : 0 .. NR_TIMEVAL - 1, tail : 0 .. NR_TIMEVAL - 1]
  BY ShortAssumption DEF Sh!Init
<1>3. ShortTypes
  BY <1>1, <1>2 DEF Sh!Init, Sh!Idle, ShortTypes, ReaderPlaces
<1>4. Sh!ReaderWoken /\ Sh!StampsPrinted
  BY DEF Sh!Init, Sh!Idle, Sh!ReaderWoken, Sh!StampsPrinted
<1> QED BY <1>1, <1>3, <1>4 DEF ShortInv

(* Loading and unloading.                                                  *)
LEMMA ShortModuleStep ==
  ASSUME ShortInv,
         Sh!short_init \/ Sh!ChangeHandler \/ Sh!FreeIrq \/ Sh!StopBottomHalf
  PROVE  ShortInv'
<1> USE DEF ShortInv
<1>1. CASE Sh!short_init
  <2>1. /\ sh_pc = "closed" /\ UNCHANGED <<sh_pc, sh_count, sh_queue>>
        /\ sh_ring' = Sh!EmptyRing /\ sh_tv' = [head |-> 0, tail |-> 0]
        /\ sh_bottom' = [scheduled |-> FALSE, pc |-> "idle"]
    BY <1>1 DEF Sh!short_init, Sh!reader, ShortTypes
  <2>2. /\ sh_ring' \in Ring /\ sh_ring'.head < PageSize /\ sh_ring'.tail < PageSize
        /\ \E k \in Nat : sh_ring'.head = k * RecordLen
        /\ ShortCounted' /\ Sh!ReadsFresh'
    <3>2. /\ sh_ring' = [head |-> 0, tail |-> 0, unread |-> {}, passed |-> FALSE]
          /\ 0 < PageSize /\ 0 = 0 * RecordLen
      BY <2>1, PageLong DEF Sh!EmptyRing
    <3>3. Sh!Pending' = {}
      BY <3>2 DEF Sh!Pending
    <3> QED
      BY <2>1, <3>2, <3>3 DEF Ring, ShortCounted, Sh!ReadsFresh
  <2>3. sh_tv' \in [head : 0 .. NR_TIMEVAL - 1, tail : 0 .. NR_TIMEVAL - 1]
    BY <2>1, ShortAssumption
  <2>4. ShortTypes'
    BY <2>1, <2>2, <2>3 DEF ShortTypes
  <2>5. Sh!ReaderWoken' /\ Sh!StampsPrinted'
    BY <2>1 DEF Sh!ReaderWoken, Sh!StampsPrinted
  <2> QED BY <2>2, <2>4, <2>5
<1>2. CASE Sh!ChangeHandler \/ Sh!FreeIrq \/ Sh!StopBottomHalf
  <2>1. /\ UNCHANGED <<sh_ring, sh_tv, sh_top, sh_bottom, sh_queue, sh_pc, sh_count>>
        /\ sh_module' \in {"loading", "loaded"} => sh_module \in {"loading", "loaded"}
        /\ sh_module' \in {"loading", "loaded"} \/ sh_pc = "closed"
    BY <1>2 DEF Sh!ChangeHandler, Sh!FreeIrq, Sh!StopBottomHalf, Sh!device, Sh!interrupt,
                Sh!reader, ShortTypes
  <2>2. ShortTypes'
    BY <2>1 DEF ShortTypes
  <2>3. Sh!ReaderWoken' /\ Sh!StampsPrinted'
    BY <2>1 DEF Sh!ReaderWoken, Sh!StampsPrinted
  <2> QED BY <2>1, <2>2, <2>3, ShortKept
<1> QED BY <1>1, <1>2

(* The handlers and the bottom half.                                       *)
LEMMA ShortInterruptStep ==
  ASSUME ShortInv,
         \/ Sh!StoreStamp \/ Sh!WakeReader \/ Sh!LeaveStamp \/ Sh!Schedule
         \/ Sh!BottomBegins \/ Sh!BottomPrints \/ Sh!BottomWakes
  PROVE  ShortInv'
<1> USE DEF ShortInv
<1>1. UNCHANGED <<sh_module, sh_pc, sh_count>>
  BY DEF Sh!StoreStamp, Sh!WakeReader, Sh!LeaveStamp, Sh!Schedule, Sh!BottomBegins,
         Sh!BottomPrints, Sh!BottomWakes, Sh!TopUnchanged, Sh!BottomUnchanged
<1>2. sh_ring' = Sh!StoreRecord(sh_ring) \/ sh_ring' = sh_ring
  BY DEF Sh!StoreStamp, Sh!WakeReader, Sh!LeaveStamp, Sh!Schedule, Sh!BottomBegins,
         Sh!BottomPrints, Sh!BottomWakes, Sh!device
<1>3. /\ sh_ring' \in Ring /\ sh_ring'.head < PageSize /\ sh_ring'.tail < PageSize
      /\ \E k \in Nat : sh_ring'.head = k * RecordLen
      /\ ShortCounted' /\ Sh!ReadsFresh'
  <2>1. CASE sh_ring' = Sh!StoreRecord(sh_ring)
    BY <1>1, <2>1, ShortStores
  <2>2. CASE sh_ring' = sh_ring
    BY <1>1, <2>2, ShortKept DEF ShortTypes
  <2> QED BY <1>2, <2>1, <2>2
<1>4. \A i \in 0 .. NR_TIMEVAL - 1 : Sh!incr_tv(i) \in 0 .. NR_TIMEVAL - 1
  BY ShortAssumption DEF Sh!incr_tv
<1>5. sh_tv' \in [head : 0 .. NR_TIMEVAL - 1, tail : 0 .. NR_TIMEVAL - 1]
  <2> DEFINE I == 0 .. NR_TIMEVAL - 1
  <2>1. sh_tv.head \in I /\ sh_tv.tail \in I
    BY DEF ShortTypes
  <2>2. Sh!incr_tv(sh_tv.head) \in I /\ Sh!incr_tv(sh_tv.tail) \in I
    BY <1>4, <2>1
  <2>3. \/ sh_tv' = sh_tv
        \/ \E i \in I : sh_tv' = [sh_tv EXCEPT !.head = i]
        \/ \E i \in I : sh_tv' = [sh_tv EXCEPT !.tail = i]
    BY <2>2 DEF Sh!StoreStamp, Sh!WakeReader, Sh!LeaveStamp, Sh!Schedule, Sh!BottomBegins,
       Sh!BottomPrints, Sh!BottomWakes, Sh!device
  <2>4. sh_tv \in [head : I, tail : I]
    BY DEF ShortTypes
  <2> HIDE DEF I
  <2>5. sh_tv' \in [head : I, tail : I]
    BY <2>3, <2>4
  <2> QED BY <2>5 DEF I
<1>6. sh_bottom' \in [scheduled : BOOLEAN, pc : {"idle", "print", "wake"}]
  <2>1. \/ UNCHANGED sh_bottom
        \/ sh_bottom' = [scheduled |-> FALSE, pc |-> "print"]
        \/ sh_bottom' = [sh_bottom EXCEPT !.scheduled = TRUE]
        \/ \E l \in {"idle", "print", "wake"} : sh_bottom' = [sh_bottom EXCEPT !.pc = l]
    <3>1. CASE Sh!BottomPrints
      <4>1. sh_bottom.pc = "print"
        BY <3>1 DEF Sh!BottomPrints
      <4> QED BY <3>1, <4>1 DEF Sh!BottomPrints
    <3> QED BY <3>1 DEF Sh!StoreStamp, Sh!WakeReader, Sh!LeaveStamp, Sh!Schedule,
        Sh!BottomBegins, Sh!BottomWakes
  <2>2. sh_bottom \in [scheduled : BOOLEAN, pc : {"idle", "print", "wake"}]
    BY DEF ShortTypes
  <2> HIDE DEF ShortInv
  <2>3. [sh_bottom EXCEPT !.scheduled = TRUE] \in
          [scheduled : BOOLEAN, pc : {"idle", "print", "wake"}]
    BY <2>2
  <2>4. \A l \in {"idle", "print", "wake"} :
          [sh_bottom EXCEPT !.pc = l] \in [scheduled : BOOLEAN, pc : {"idle", "print", "wake"}]
    BY <2>2
  <2>5. [scheduled |-> FALSE, pc |-> "print"] \in
          [scheduled : BOOLEAN, pc : {"idle", "print", "wake"}]
    OBVIOUS
  <2> DEFINE B == [scheduled : BOOLEAN, pc : {"idle", "print", "wake"}]
  <2> HIDE DEF B
  <2>6. sh_bottom' \in B
    BY <2>1, <2>2, <2>3, <2>4, <2>5 DEF B
  <2> QED BY <2>6 DEF B
<1>7. ShortTypes'
  BY <1>1, <1>3, <1>5, <1>6 DEF ShortTypes
<1>8. Sh!ReaderWoken' /\ Sh!StampsPrinted'
  <2>1. CASE Sh!StoreStamp
    BY <1>1, <2>1 DEF Sh!StoreStamp, Sh!ReaderWoken, Sh!StampsPrinted
  <2>2. CASE Sh!WakeReader
    BY <1>1, <2>2 DEF Sh!WakeReader, Sh!device, Sh!ReaderWoken, Sh!StampsPrinted
  <2>3. CASE Sh!LeaveStamp
    BY <1>1, <2>3 DEF Sh!LeaveStamp, Sh!ReaderWoken, Sh!StampsPrinted
  <2>4. CASE Sh!Schedule
    <3>1. /\ sh_top = "schedule" /\ sh_bottom'.scheduled /\ sh_bottom'.pc = sh_bottom.pc
          /\ UNCHANGED <<sh_ring, sh_tv, sh_queue>>
      BY <2>4 DEF Sh!Schedule, Sh!device, ShortTypes
    <3> QED BY <1>1, <3>1 DEF Sh!ReaderWoken, Sh!StampsPrinted
  <2>5. CASE Sh!BottomBegins
    BY <2>5 DEF Sh!BottomBegins, Sh!ReaderWoken, Sh!StampsPrinted
  <2>6. CASE Sh!BottomPrints
    <3>1. /\ sh_bottom.pc = "print" /\ sh_bottom'.scheduled = sh_bottom.scheduled
          /\ sh_bottom'.pc \in {"print", "wake"}
          /\ sh_bottom'.pc = "wake" => sh_tv'.tail = sh_tv.head
          /\ sh_tv'.head = sh_tv.head /\ UNCHANGED <<sh_queue, sh_top>>
      BY <2>6 DEF Sh!BottomPrints, Sh!BottomUnchanged, ShortTypes
    <3> QED BY <1>1, <3>1 DEF Sh!ReaderWoken, Sh!StampsPrinted
  <2>7. CASE Sh!BottomWakes
    <3>1. /\ sh_bottom.pc = "wake" /\ sh_bottom'.scheduled = sh_bottom.scheduled
          /\ ~ sh_queue' /\ UNCHANGED <<sh_tv, sh_top>>
      BY <2>7 DEF Sh!BottomWakes, Sh!BottomUnchanged, Sh!device, ShortTypes
    <3> QED BY <1>1, <3>1 DEF Sh!ReaderWoken, Sh!StampsPrinted
  <2> QED BY <2>1, <2>2, <2>3, <2>4, <2>5, <2>6, <2>7
<1> QED BY <1>3, <1>7, <1>8

(* The reader.                                                             *)
LEMMA ShortReaderStep ==
  ASSUME ShortInv,
         \/ Sh!short_open \/ Sh!short_release \/ Sh!ReadBegins \/ Sh!ReadWhile
         \/ Sh!ReadPrepare \/ Sh!ReadTest \/ Sh!ReadWoken \/ Sh!ReadFinishes
         \/ Sh!ReadCount \/ Sh!ReadCopy \/ Sh!ReadFaults \/ Sh!ReadAdvance
  PROVE  ShortInv'
<1> USE DEF ShortInv
<1> DEFINE h == sh_ring.head
           t == sh_ring.tail
<1>0. /\ UNCHANGED <<sh_module, sh_tv, sh_top, sh_bottom>>
      /\ sh_module \in {"loading", "loaded"}
  BY DEF Sh!short_open, Sh!short_release, Sh!ReadBegins, Sh!ReadWhile, Sh!ReadPrepare,
         Sh!ReadTest, Sh!ReadWoken, Sh!ReadFinishes, Sh!ReadCount, Sh!ReadCopy,
         Sh!ReadFaults, Sh!ReadAdvance, Sh!ReadUnchanged, Sh!interrupt, ShortTypes
<1>1. Sh!StampsPrinted'
  BY <1>0 DEF Sh!StampsPrinted
<1>2. /\ sh_ring \in Ring /\ h \in Nat /\ t \in Nat /\ h < PageSize /\ t < PageSize
      /\ sh_ring.unread \in SUBSET Int /\ sh_ring.passed \in BOOLEAN /\ sh_count \in Nat
  BY DEF ShortTypes, Ring
<1>3. Sh!Readable(sh_ring) \in Nat /\ PageSize \in Nat
  BY <1>2, PageLong DEF Sh!Readable
<1>4. ASSUME UNCHANGED sh_ring, sh_pc' \in ReaderPlaces \ {"copy", "advance"},
             sh_pc # "advance", sh_count' \in Nat,
             sh_pc' = "sleep" /\ sh_queue' => sh_ring.head = sh_ring.tail
      PROVE  ShortInv'
  <2>1. ShortTypes' /\ ShortCounted'
    BY <1>0, <1>4 DEF ShortTypes, ShortCounted, ReaderPlaces
  <2>2. Sh!ReadsFresh'
    BY <1>4 DEF Sh!ReadsFresh, Sh!Pending, Sh!Copied
  <2>3. Sh!ReaderWoken'
    BY <1>4 DEF Sh!ReaderWoken
  <2> QED BY <1>1, <2>1, <2>2, <2>3
<1>5. CASE \/ Sh!short_open \/ Sh!short_release \/ Sh!ReadBegins \/ Sh!ReadWhile
           \/ Sh!ReadPrepare \/ Sh!ReadTest \/ Sh!ReadWoken \/ Sh!ReadFinishes \/ Sh!ReadFaults
  <2>1. \A c \in Lengths : c \in Nat
    BY ShortAssumption
  <2>2. /\ UNCHANGED sh_ring /\ sh_pc' \in ReaderPlaces \ {"copy", "advance"}
        /\ sh_pc # "advance" /\ sh_count' \in Nat
        /\ sh_pc' = "sleep" /\ sh_queue' => sh_ring.head = sh_ring.tail
    BY <1>2, <1>5, <2>1
    DEF Sh!short_open, Sh!short_release, Sh!ReadBegins, Sh!ReadWhile, Sh!ReadPrepare,
        Sh!ReadTest, Sh!ReadWoken, Sh!ReadFinishes, Sh!ReadFaults, ReaderPlaces
  <2> QED BY <1>4, <2>2
<1>6. CASE Sh!ReadCount
  <2>1. /\ sh_pc = "count" /\ sh_pc' = "copy" /\ UNCHANGED sh_ring
        /\ sh_count' \in Nat /\ sh_count' <= Sh!Readable(sh_ring)
    BY <1>2, <1>3, <1>6 DEF Sh!ReadCount
  <2>2. ShortTypes' /\ ShortCounted' /\ Sh!ReaderWoken'
    BY <1>0, <2>1 DEF ShortTypes, ShortCounted, ReaderPlaces, Sh!ReaderWoken, Sh!Readable
  <2>3. Sh!Bytes(t, sh_count') \subseteq Sh!Pending
    <3> HIDE DEF h, t
    <3>1. \A b \in Sh!Bytes(t, sh_count') : b \in Between(h, t)
      BY <1>2, <1>3, <2>1 DEF Sh!Bytes, Sh!Readable, Between, h, t
    <3> QED BY <3>1 DEF Between, Sh!Pending, h, t
  <2>4. Sh!ReadsFresh'
    BY <2>1, <2>3 DEF Sh!ReadsFresh, Sh!Pending, Sh!Copied, Sh!Bytes
  <2> QED BY <1>1, <2>2, <2>4
<1>7. CASE Sh!ReadCopy
  <2>1. /\ sh_pc = "copy" /\ sh_pc' = "advance" /\ UNCHANGED sh_count
        /\ sh_ring' = [sh_ring EXCEPT !.unread = @ \ Sh!Bytes(t, sh_count)]
    BY <1>7 DEF Sh!ReadCopy
  <2>2. /\ sh_ring' \in Ring /\ sh_ring'.head = h /\ sh_ring'.tail = t
        /\ sh_ring'.unread = sh_ring.unread \ Sh!Bytes(t, sh_count)
        /\ sh_ring'.passed = sh_ring.passed
    <3>1. sh_ring.unread \ Sh!Bytes(t, sh_count) \in SUBSET Int
      BY <1>2
    <3> QED BY <1>2, <2>1, <3>1 DEF Ring
  <2>3. ShortTypes' /\ ShortCounted' /\ Sh!ReaderWoken'
    BY <1>0, <1>2, <2>1, <2>2
    DEF ShortTypes, ShortCounted, ReaderPlaces, Sh!ReaderWoken, Sh!Readable
  <2>4. Sh!ReadsFresh'
    BY <2>1, <2>2 DEF Sh!ReadsFresh, Sh!Pending, Sh!Copied, Sh!Bytes
  <2> QED BY <1>1, <2>3, <2>4
<1>8. CASE Sh!ReadAdvance
  <2>1. /\ sh_pc = "advance" /\ sh_pc' = "user" /\ sh_count' = 0
        /\ sh_ring' = [sh_ring EXCEPT !.tail = Sh!incr_bp(t, sh_count),
                                      !.passed = @ /\ h # Sh!incr_bp(t, sh_count)]
    BY <1>8 DEF Sh!ReadAdvance
  <2>2. Sh!incr_bp(t, sh_count) \in Nat /\ Sh!incr_bp(t, sh_count) < PageSize
    BY <1>2, <1>3 DEF Sh!incr_bp
  <2>3. /\ sh_ring' \in Ring /\ sh_ring'.head = h /\ sh_ring'.tail = Sh!incr_bp(t, sh_count)
        /\ sh_ring'.unread = sh_ring.unread
        /\ sh_ring'.passed = (sh_ring.passed /\ h # Sh!incr_bp(t, sh_count))
    <3>1. (sh_ring.passed /\ h # Sh!incr_bp(t, sh_count)) \in BOOLEAN
      BY <1>2
    <3> HIDE DEF h, t
    <3> QED BY <1>2, <2>1, <2>2, <3>1 DEF Ring, h, t
  <2>4. ShortTypes' /\ ShortCounted' /\ Sh!ReaderWoken'
    BY <1>0, <1>2, <2>1, <2>2, <2>3
    DEF ShortTypes, ShortCounted, ReaderPlaces, Sh!ReaderWoken
  <2>5. Sh!ReadsFresh'
    <3> SUFFICES ASSUME ~ sh_ring'.passed
                 PROVE  Between(h, Sh!incr_bp(t, sh_count)) \subseteq sh_ring.unread
      BY <2>1, <2>3 DEF Sh!ReadsFresh, Sh!Pending, Between
    <3>1. CASE h = Sh!incr_bp(t, sh_count)
      <4>1. Between(h, h) = {}
        BY <1>2 DEF Between
      <4> QED BY <3>1, <4>1
    <3>2. CASE ~ sh_ring.passed
      <4>1. Between(h, t) \ Sh!Bytes(t, sh_count) \subseteq sh_ring.unread
        BY <2>1, <3>2 DEF Sh!ReadsFresh, Sh!Pending, Sh!Copied, Between
      <4>2. sh_count <= IF h >= t THEN h - t ELSE PageSize - t
        BY <2>1, <3>2 DEF ShortCounted, Sh!Readable
      <4>3. Between(h, Sh!incr_bp(t, sh_count)) \subseteq Between(h, t) \ Sh!Bytes(t, sh_count)
        BY <1>2, <4>2, AdvanceMoves
      <4> QED BY <4>1, <4>3
    <3> QED BY <2>3, <3>1, <3>2
  <2> QED BY <1>1, <2>4, <2>5
<1> QED BY <1>5, <1>6, <1>7, <1>8

(* ShortDelivers: as long as the interrupts do not overrun a read that is  *)
(* under way, what a read returns was stored and is returned once; a       *)
(* reader that sleeps while there is something to read is about to be      *)
(* woken; and a stamp left to the bottom half is printed (short.c:292-308, *)
(* 416, 428).  And the indices stay in the page, the head where a whole    *)
(* record fits (short.c:405-408), for every page of two records or more.   *)
THEOREM ShortCorrect == DriversSpec => [](Sh!TypeOK /\ ShortDelivers)
<1>1. Sh!Init => ShortInv
  BY ShortInit
<1>2. ShortInv /\ [Sh!Next]_(Sh!vars) => ShortInv'
  <2>1. CASE Sh!Next
    BY <2>1, ShortModuleStep, ShortInterruptStep, ShortReaderStep DEF Sh!Next
  <2>2. ASSUME ShortInv, UNCHANGED Sh!vars PROVE ShortInv'
    <3>1. ShortCounted' /\ Sh!ReadsFresh'
      BY <2>2, ShortKept DEF Sh!vars
    <3> QED BY <2>2, <3>1
        DEF Sh!vars, ShortInv, ShortTypes, Sh!ReaderWoken, Sh!StampsPrinted
  <2> QED BY <2>1, <2>2
<1>3. ShortInv => Sh!TypeOK /\ ShortDelivers
  <2> SUFFICES ASSUME ShortInv PROVE Sh!TypeOK
    BY DEF ShortInv, ShortDelivers
  <2>1. PICK k \in Nat : sh_ring.head = k * RecordLen
    BY DEF ShortInv, ShortTypes
  <2>2. sh_ring.head % RecordLen = 0
    BY <2>1, Multiple, ShortAssumption
  <2>3. sh_ring.head + RecordLen <= PageSize
    BY <2>1, RecordFits DEF ShortInv, ShortTypes
  <2>4. sh_ring.tail \in 0 .. PageSize - 1 /\ sh_ring.head \in 0 .. PageSize - RecordLen
    BY <2>3, PageLong DEF ShortInv, ShortTypes, Ring
  <2> QED BY <2>2, <2>4 DEF ShortInv, ShortTypes, Sh!TypeOK
<1> QED
  BY <1>1, <1>2, <1>3, DriversAlone, PTL DEF Sh!Spec, Sh!vars, short_vars

-----------------------------------------------------------------------------
(***************************************************************************)
(* Snull: where the packets are.                                           *)
(***************************************************************************)
SnPackets == Sn!Packets(0) \cup Sn!Packets(1)
SnKinds == {"pool", "queue", "sender", "poll"}

(* What is in a place.                                                     *)
SnIn(t, d) ==
  IF t = "pool" THEN sn_ppool[d]
  ELSE IF t = "queue" THEN sn_rx_queue[d]
  ELSE IF t = "sender" THEN {Sn!InHand(sn_sender[d])}
  ELSE {Sn!InHand(sn_poll[d])}

SnSenders == [at : {"idle", "tx", "rx", "timeout"},
              pc : {"idle", "get", "enqueue", "enabled?", "load", "store",
                    "interrupt", "release", "wake", "reset"},
              pkt : SnPackets \cup {Sn!NoPacket},
              word : SUBSET {"RX", "TX"}]
SnPolls == [pc : {"idle", "release", "wake", "complete"},
            pkt : SnPackets \cup {Sn!NoPacket}, npackets : Nat]

SnDevices ==
  /\ sn_param \in SnullParameters
  /\ sn_timeouts \in 0 .. sn_param.MaxTimeouts
  /\ sn_missed \subseteq Sn!Devs
  /\ sn_stopped \in [Sn!Devs -> BOOLEAN]
  /\ sn_rx_int_enabled \in [Sn!Devs -> BOOLEAN]
  /\ sn_napi \in [Sn!Devs -> [scheduled : BOOLEAN, again : BOOLEAN]]
  /\ sn_state \in [Sn!Devs -> {"down", "up", "closing"}]
  /\ sn_status \in [Sn!Devs -> SUBSET {"RX", "TX"}]

SnPools ==
  /\ sn_ppool \in [Sn!Devs -> SUBSET SnPackets]
  /\ sn_rx_queue \in [Sn!Devs -> SUBSET SnPackets]
  /\ \A d \in Sn!Devs : sn_ppool[d] \subseteq Sn!Packets(d)

(* Who holds a packet is where one is needed; a time-out goes on until the *)
(* pool is reset.                                                          *)
SnFits(at, pc, pkt) ==
  /\ IF pc \in {"enqueue", "release", "wake"}
       THEN pkt \in SnPackets ELSE pkt = Sn!NoPacket
  /\ pc # "idle" => at # "idle"
  /\ pc \in {"get", "enqueue", "enabled?"} => at = "tx"
  /\ pc = "reset" => at = "timeout"

SnHands ==
  /\ sn_sender \in [Sn!Devs -> SnSenders]
  /\ sn_poll \in [Sn!Devs -> SnPolls]
  /\ \A d \in Sn!Devs :
       /\ SnFits(sn_sender[d].at, sn_sender[d].pc, sn_sender[d].pkt)
       /\ sn_sender[d].at = "timeout" => sn_timeouts # 0
       /\ sn_sender[d].pc = "get" => ~ sn_stopped[d]
       /\ IF sn_poll[d].pc \in {"release", "wake"}
            THEN sn_poll[d].pkt \in SnPackets
            ELSE sn_poll[d].pkt = Sn!NoPacket

SnTypes == SnDevices /\ SnPools /\ SnHands

(* A packet is in one place; and somewhere, while no pool was torn down.   *)
SnAlone ==
  \A pkt \in SnPackets : \A t \in SnKinds, u \in SnKinds :
    \A d \in Sn!Devs, e \in Sn!Devs :
      pkt \in SnIn(t, d) /\ pkt \in SnIn(u, e) => t = u /\ d = e

SnSomewhere ==
  sn_timeouts = 0 =>
    \A d \in Sn!Devs : \A n \in 1 .. sn_param.pool_size :
      \E t \in SnKinds, e \in Sn!Devs : <<d, n>> \in SnIn(t, e)

(* The packets of d that are somewhere: as many as a pool holds, and as    *)
(* many again for each reset; the pool that is about to be reset has not   *)
(* got its new ones yet.                                                   *)
SnKnown(d) ==
  {pkt \in Sn!Packets(d) : \E t \in SnKinds, e \in Sn!Devs : pkt \in SnIn(t, e)}
SnResets(d) ==
  IF sn_sender[d].at = "timeout" THEN sn_timeouts ELSE sn_timeouts + 1
SnKnownFew ==
  \A d \in Sn!Devs :
    Cardinality(SnKnown(d)) <= sn_param.pool_size * SnResets(d)

(* Whoever is to wake the queue still has his packet in the pool, because  *)
(* nobody takes one while it is stopped.                                   *)
SnStarted ==
  sn_timeouts = 0 /\ ~ sn_param.lockup => \A d \in Sn!Devs :
    sn_state[d] = "up" /\ sn_stopped[d] /\ sn_ppool[d] # {}
      => \E pkt \in sn_ppool[d] : pkt \in Sn!Tested /\ pkt \in sn_ends

SnListens ==
  sn_param.use_napi => \A d \in Sn!Devs :
    d \in sn_missed \/ sn_rx_int_enabled[d] \/ sn_napi[d].scheduled

SnullInv ==
  /\ SnTypes /\ SnAlone /\ SnSomewhere /\ SnKnownFew /\ SnStarted /\ SnListens

(* The parameters and the packets.                                         *)
LEMMA SnParameters ==
  ASSUME SnDevices
  PROVE  /\ sn_param.pool_size \in Nat /\ sn_param.MaxTimeouts \in Nat
         /\ sn_param.use_napi \in BOOLEAN /\ sn_param.lockup \in BOOLEAN
         /\ sn_timeouts \in Nat /\ sn_timeouts <= sn_param.MaxTimeouts
<1>1. sn_param \in [use_napi : BOOLEAN, lockup : BOOLEAN, pool_size : Nat,
                    MaxTimeouts : Nat, MaxCloses : Nat]
  BY SnullAssumption DEF SnDevices
<1> QED BY <1>1 DEF SnDevices

(* There are two devices.                                                  *)
LEMMA SnDevs ==
  /\ Sn!Devs = {0, 1}
  /\ \A d \in Sn!Devs : Sn!Twin(d) \in Sn!Devs
BY DEF Sn!Devs, Sn!Twin

(* A packet is of one device.                                              *)
LEMMA SnPacketOf ==
  /\ \A d \in Sn!Devs : Sn!Packets(d) \subseteq SnPackets
  /\ \A pkt \in SnPackets :
       /\ Sn!dev(pkt) \in Sn!Devs
       /\ \A d \in Sn!Devs : pkt \in Sn!Packets(d) <=> Sn!dev(pkt) = d
       /\ pkt # Sn!NoPacket
<1>1. \A d \in Sn!Devs : Sn!Packets(d) \subseteq SnPackets
  BY DEF SnPackets, Sn!Devs
<1>2. ASSUME NEW pkt \in SnPackets
      PROVE  /\ Sn!dev(pkt) \in Sn!Devs
             /\ \A d \in Sn!Devs : pkt \in Sn!Packets(d) <=> Sn!dev(pkt) = d
             /\ pkt # Sn!NoPacket
  <2>1. PICK d \in {0, 1}, n \in 1 .. Sn!pool_size * (sn_param.MaxTimeouts + 1) :
          pkt = <<d, n>>
    BY DEF SnPackets, Sn!Packets
  <2>2. pkt # Sn!NoPacket
    BY <2>1 DEF Sn!NoPacket
  <2>3. pkt[1] = d
    BY <2>1
  <2>4. \A e \in Sn!Devs : pkt \in Sn!Packets(e) <=> pkt[1] = e
    BY <2>1, <2>3 DEF Sn!Packets, Sn!Devs
  <2> QED BY <2>2, <2>3, <2>4 DEF Sn!dev, Sn!Devs
<1> QED BY <1>1, <1>2

(* What a place of the sender and of the poll of d is set to.              *)
SnSends(d, at, pc, pkt) ==
  /\ sn_sender' \in [Sn!Devs -> SnSenders]
  /\ sn_sender'[d].at = at /\ sn_sender'[d].pc = pc /\ sn_sender'[d].pkt = pkt
  /\ \A e \in Sn!Devs : e # d => sn_sender'[e] = sn_sender[e]
SnPollsAt(d, pc, pkt) ==
  /\ sn_poll' \in [Sn!Devs -> SnPolls]
  /\ sn_poll'[d].pc = pc /\ sn_poll'[d].pkt = pkt
  /\ \A e \in Sn!Devs : e # d => sn_poll'[e] = sn_poll[e]

(* A record that fits is set.                                              *)
LEMMA SnSend ==
  ASSUME SnHands, NEW d \in Sn!Devs, NEW s \in SnSenders, Sn!Continue(d, s)
  PROVE  SnSends(d, s.at, s.pc, s.pkt)
BY DEF SnHands, SnSends, Sn!Continue

(* A record of a poll that fits is set.                                    *)
LEMMA SnPollAt ==
  ASSUME SnHands, NEW d \in Sn!Devs, NEW r \in SnPolls, Sn!Polls(d, r)
  PROVE  SnPollsAt(d, r.pc, r.pkt)
BY DEF SnHands, SnPollsAt, Sn!Polls

(* Records that the actions make.                                          *)
LEMMA SnIdle ==
  /\ Sn!IdleSender \in SnSenders
  /\ Sn!IdleSender.at = "idle" /\ Sn!IdleSender.pc = "idle"
  /\ Sn!IdleSender.pkt = Sn!NoPacket /\ Sn!IdleSender.word = {}
  /\ Sn!IdlePoll \in SnPolls
  /\ Sn!IdlePoll.pc = "idle" /\ Sn!IdlePoll.pkt = Sn!NoPacket
BY DEF Sn!IdleSender, Sn!IdlePoll, SnSenders, SnPolls

SnPcs == {"idle", "get", "enqueue", "enabled?", "load", "store", "interrupt",
          "release", "wake", "reset"}
SnAts == {"idle", "tx", "rx", "timeout"}

(* A record of the sender with other fields is one.                        *)
LEMMA SnChanged ==
  ASSUME NEW s \in SnSenders, NEW a \in SnAts, NEW p \in SnPcs,
         NEW k \in SnPackets \cup {Sn!NoPacket}, NEW w \in SUBSET {"RX", "TX"}
  PROVE  /\ [s EXCEPT !.pc = p] \in SnSenders
         /\ [s EXCEPT !.at = a, !.pc = p] \in SnSenders
         /\ [s EXCEPT !.pc = p, !.pkt = k] \in SnSenders
         /\ [s EXCEPT !.word = w, !.pc = p] \in SnSenders
<1> DEFINE K == SnPackets \cup {Sn!NoPacket}
           W == SUBSET {"RX", "TX"}
<1>1. SnSenders = [at : SnAts, pc : SnPcs, pkt : K, word : W]
  BY DEF SnSenders, SnAts, SnPcs
<1>2. k \in K /\ w \in W
  OBVIOUS
<1> HIDE DEF K, W
<1> QED BY <1>1, <1>2

(* And with the word of flags that it loaded.                              *)
LEMMA SnWordChanged ==
  ASSUME NEW s \in SnSenders, NEW p \in SnPcs, NEW w \in SUBSET {"RX", "TX"}
  PROVE  [s EXCEPT !.word = w, !.pc = p] \in SnSenders
<1> DEFINE K == SnPackets \cup {Sn!NoPacket}
           W == SUBSET {"RX", "TX"}
<1>1. SnSenders = [at : SnAts, pc : SnPcs, pkt : K, word : W] /\ w \in W
  BY DEF SnSenders, SnAts, SnPcs
<1> HIDE DEF K, W
<1> QED BY <1>1

(* And a record of a poll.                                                 *)
LEMMA SnPollChanged ==
  ASSUME NEW r \in SnPolls
  PROVE  /\ [r EXCEPT !.pc = "wake"] \in SnPolls
         /\ [r EXCEPT !.pc = "complete"] \in SnPolls
         /\ \A k \in SnPackets, n \in Nat :
              [r EXCEPT !.pc = "release", !.pkt = k, !.npackets = n] \in SnPolls
<1> DEFINE K == SnPackets \cup {Sn!NoPacket}
<1>1. SnPolls = [pc : {"idle", "release", "wake", "complete"}, pkt : K, npackets : Nat]
  BY DEF SnPolls
<1>2. SnPackets \subseteq K
  OBVIOUS
<1> HIDE DEF K
<1> QED BY <1>1, <1>2

(* The record of a poll that goes on.                                      *)
LEMMA SnPollIdle ==
  ASSUME NEW n \in Nat
  PROVE  /\ [Sn!IdlePoll EXCEPT !.npackets = n] \in SnPolls
         /\ [Sn!IdlePoll EXCEPT !.npackets = n].pc = "idle"
         /\ [Sn!IdlePoll EXCEPT !.npackets = n].pkt = Sn!NoPacket
<1> DEFINE K == SnPackets \cup {Sn!NoPacket}
<1>1. SnPolls = [pc : {"idle", "release", "wake", "complete"}, pkt : K, npackets : Nat]
  BY DEF SnPolls
<1>2. Sn!NoPacket \in K
  OBVIOUS
<1>3. Sn!IdlePoll = [pc |-> "idle", pkt |-> Sn!NoPacket, npackets |-> 0]
  BY DEF Sn!IdlePoll
<1> HIDE DEF K
<1> QED BY <1>1, <1>2, <1>3

(* The records that begin a transmission or a time-out, or go on with one. *)
LEMMA SnIdleChanged ==
  ASSUME NEW a \in SnAts, NEW p \in SnPcs
  PROVE  /\ [Sn!IdleSender EXCEPT !.at = a, !.pc = p] \in SnSenders
         /\ [Sn!IdleSender EXCEPT !.at = a, !.pc = p].at = a
         /\ [Sn!IdleSender EXCEPT !.at = a, !.pc = p].pc = p
         /\ [Sn!IdleSender EXCEPT !.at = a, !.pc = p].pkt = Sn!NoPacket
<1>1. [Sn!IdleSender EXCEPT !.at = a, !.pc = p] \in SnSenders
  BY SnIdle, SnChanged
<1>2. Sn!IdleSender = [at |-> "idle", pc |-> "idle", pkt |-> Sn!NoPacket, word |-> {}]
  BY DEF Sn!IdleSender
<1> QED BY <1>1, <1>2

(* The record after a handler.                                             *)
SnNext(at, a, p) ==
  <<at, a, p>> \in {<<"rx", "tx", "load">>, <<"tx", "idle", "idle">>,
                    <<"timeout", "timeout", "reset">>}
(* What follows a handler.                                                 *)
LEMMA SnAfter ==
  ASSUME NEW s \in SnSenders, s.at # "idle"
  PROVE  /\ Sn!After(s) \in SnSenders
         /\ Sn!After(s).pkt = Sn!NoPacket
         /\ SnNext(s.at, Sn!After(s).at, Sn!After(s).pc)
<1>1. s.at \in {"rx", "tx", "timeout"}
  BY DEF SnSenders
<1> DEFINE Begun(a, p) == [Sn!IdleSender EXCEPT !.at = a, !.pc = p]
<1>2. ASSUME NEW a \in SnAts, NEW p \in SnPcs
      PROVE  /\ Begun(a, p) \in SnSenders /\ Begun(a, p).at = a /\ Begun(a, p).pc = p
             /\ Begun(a, p).pkt = Sn!NoPacket
  BY SnIdleChanged, Zenon
<1>3. CASE s.at = "rx"
  <2>1. Sn!After(s) = Begun("tx", "load")
    BY <1>3 DEF Sn!After
  <2>2. "tx" \in SnAts /\ "load" \in SnPcs /\ SnNext(s.at, "tx", "load")
    BY <1>3 DEF SnAts, SnPcs, SnNext
  <2> HIDE DEF Begun
  <2> QED BY <1>2, <2>1, <2>2
<1>4. CASE s.at = "tx"
  BY SnIdle, <1>4 DEF Sn!After, SnNext
<1>5. CASE s.at = "timeout"
  <2>1. Sn!After(s) = Begun("timeout", "reset")
    BY <1>5 DEF Sn!After
  <2>2. "timeout" \in SnAts /\ "reset" \in SnPcs /\ SnNext(s.at, "timeout", "reset")
    BY <1>5 DEF SnAts, SnPcs, SnNext
  <2> HIDE DEF Begun
  <2> QED BY <1>2, <2>1, <2>2
<1> QED BY <1>1, <1>3, <1>4, <1>5

(* A device's packets are as many as its pools would hold.                 *)
LEMMA SnPacketsFinite ==
  ASSUME SnDevices, NEW d \in Sn!Devs
  PROVE  /\ IsFiniteSet(Sn!Packets(d))
         /\ Cardinality(Sn!Packets(d))
              = sn_param.pool_size * (sn_param.MaxTimeouts + 1)
<1> DEFINE K == sn_param.pool_size * (sn_param.MaxTimeouts + 1)
<1>1. K \in Nat
  BY SnParameters
<1>2. IsFiniteSet(1 .. K) /\ Cardinality(1 .. K) = K
  BY <1>1, FS_Interval
<1>3. IsFiniteSet({d}) /\ Cardinality({d}) = 1
  BY FS_Singleton
<1>4. /\ IsFiniteSet({d} \X (1 .. K))
      /\ Cardinality({d} \X (1 .. K)) = Cardinality({d}) * Cardinality(1 .. K)
  BY <1>2, <1>3, FS_Product
<1>5. Cardinality({d} \X (1 .. K)) = K
  BY <1>1, <1>2, <1>3, <1>4
<1> QED BY <1>4, <1>5 DEF Sn!Packets, Sn!pool_size

(* A step that moves no packet, and one that moves one.                    *)
SnStill ==
  \A q \in SnPackets : \A s \in SnKinds, c \in Sn!Devs :
    (q \in SnIn(s, c))' <=> q \in SnIn(s, c)
SnMoves(pkt, t, d, u, e) ==
  /\ pkt \in SnPackets /\ pkt \in SnIn(t, d)
  /\ \A q \in SnPackets : \A s \in SnKinds, c \in Sn!Devs :
       (q \in SnIn(s, c))' <=> IF q = pkt THEN s = u /\ c = e ELSE q \in SnIn(s, c)
SnGoes ==
  \/ SnStill
  \/ \E pkt \in SnPackets : \E t \in SnKinds, u \in SnKinds :
       \E d \in Sn!Devs, e \in Sn!Devs : SnMoves(pkt, t, d, u, e)

(* Either way a packet stays in one place, and somewhere if it was.        *)
LEMMA SnPlaced ==
  ASSUME SnAlone, SnGoes, UNCHANGED sn_param
  PROVE  /\ SnAlone'
         /\ \A q \in SnPackets :
              (\E t \in SnKinds, e \in Sn!Devs : q \in SnIn(t, e))'
                <=> \E t \in SnKinds, e \in Sn!Devs : q \in SnIn(t, e)
<1> DEFINE In(q, s, c) == q \in SnIn(s, c)
<1>1. SnPackets' = SnPackets
  BY DEF SnPackets, Sn!Packets, Sn!pool_size
<1>2. \A q \in SnPackets : \A s \in SnKinds, c \in Sn!Devs, t \in SnKinds, d \in Sn!Devs :
        In(q, s, c) /\ In(q, t, d) => s = t /\ c = d
  BY DEF SnAlone
<1>3. CASE SnStill
  <2>1. \A q \in SnPackets : \A s \in SnKinds, c \in Sn!Devs : In(q, s, c)' <=> In(q, s, c)
    BY <1>3 DEF SnStill
  <2>2. \A q \in SnPackets' : \A s \in SnKinds, c \in Sn!Devs, t \in SnKinds, d \in Sn!Devs :
          In(q, s, c)' /\ In(q, t, d)' => s = t /\ c = d
    <3> HIDE DEF In
    <3> QED BY <1>1, <1>2, <2>1
  <2>3. SnAlone'
    BY <2>2 DEF SnAlone
  <2>4. \A q \in SnPackets :
          (\E t \in SnKinds, e \in Sn!Devs : In(q, t, e)')
             <=> \E t \in SnKinds, e \in Sn!Devs : In(q, t, e)
    <3> HIDE DEF In
    <3> QED BY <2>1
  <2> QED BY <2>3, <2>4
<1>4. CASE ~ SnStill
  <2>1. PICK pkt \in SnPackets, t \in SnKinds, u \in SnKinds, d \in Sn!Devs, e \in Sn!Devs :
          SnMoves(pkt, t, d, u, e)
    BY <1>4 DEF SnGoes
  <2>2. /\ In(pkt, t, d)
        /\ \A q \in SnPackets : \A s \in SnKinds, c \in Sn!Devs :
             In(q, s, c)' <=> IF q = pkt THEN s = u /\ c = e ELSE In(q, s, c)
    BY <2>1 DEF SnMoves
  <2>3. \A q \in SnPackets' : \A s \in SnKinds, c \in Sn!Devs, k \in SnKinds, b \in Sn!Devs :
          In(q, s, c)' /\ In(q, k, b)' => s = k /\ c = b
    <3> HIDE DEF In
    <3> QED BY <1>1, <1>2, <2>2
  <2>4. SnAlone'
    BY <2>3 DEF SnAlone
  <2>5. \A q \in SnPackets :
          (\E k \in SnKinds, b \in Sn!Devs : In(q, k, b)')
             <=> \E k \in SnKinds, b \in Sn!Devs : In(q, k, b)
    <3> HIDE DEF In
    <3> QED BY <2>2
  <2> QED BY <2>4, <2>5
<1> QED BY <1>3, <1>4

(* So the known packets are the same.                                      *)
LEMMA SnKept ==
  ASSUME SnDevices, SnAlone, SnSomewhere, SnKnownFew, SnGoes, UNCHANGED sn_param,
         sn_timeouts' = 0 => sn_timeouts = 0,
         \A d \in Sn!Devs : SnResets(d)' \in Int /\ SnResets(d)' >= SnResets(d)
  PROVE  SnAlone' /\ SnSomewhere' /\ SnKnownFew'
<1>1. \A q \in SnPackets :
        (\E t \in SnKinds, e \in Sn!Devs : q \in SnIn(t, e))'
          <=> \E t \in SnKinds, e \in Sn!Devs : q \in SnIn(t, e)
  BY SnPlaced
<1>2. \A d \in Sn!Devs : Sn!Packets(d)' = Sn!Packets(d)
  BY DEF Sn!Packets, Sn!pool_size
<1>3. SnSomewhere'
  <2> SUFFICES ASSUME sn_timeouts = 0, NEW d \in Sn!Devs, NEW n \in 1 .. sn_param.pool_size
               PROVE  (\E t \in SnKinds, e \in Sn!Devs : <<d, n>> \in SnIn(t, e))'
    BY DEF SnSomewhere
  <2>1. <<d, n>> \in Sn!Packets(d)
    <3>1. sn_param.pool_size \in Nat /\ sn_param.MaxTimeouts + 1 \in Nat \ {0}
      BY SnParameters
    <3>2. sn_param.pool_size <= sn_param.pool_size * (sn_param.MaxTimeouts + 1)
      BY <3>1
    <3> QED BY <3>1, <3>2 DEF Sn!Packets, Sn!pool_size
  <2>2. <<d, n>> \in SnPackets
    BY <2>1, SnPacketOf
  <2> QED BY <1>1, <2>2 DEF SnSomewhere
<1>4. SnKnownFew'
  <2> SUFFICES ASSUME NEW d \in Sn!Devs
               PROVE  (Cardinality(SnKnown(d)) <= sn_param.pool_size * SnResets(d))'
    BY DEF SnKnownFew
  <2>1. SnKnown(d)' = SnKnown(d)
    BY <1>1, <1>2, SnPacketOf DEF SnKnown
  <2>2. Cardinality(SnKnown(d)) <= sn_param.pool_size * SnResets(d)
    BY DEF SnKnownFew
  <2>3. SnResets(d) \in Int
    BY SnParameters DEF SnResets
  <2>4. Cardinality(SnKnown(d)) \in Nat
    <3>1. SnKnown(d) \subseteq Sn!Packets(d) /\ IsFiniteSet(Sn!Packets(d))
      BY SnPacketsFinite DEF SnKnown
    <3> QED BY <3>1, FS_Subset, FS_CardinalityType
  <2>5. sn_param.pool_size * SnResets(d) <= sn_param.pool_size * SnResets(d)'
    BY <2>3, SnParameters
  <2> QED BY <2>1, <2>2, <2>3, <2>4, <2>5, SnParameters
<1> QED BY <1>3, <1>4, SnPlaced

(* The hands after a sender's step.                                        *)
LEMMA SnHandsKept ==
  ASSUME SnHands, NEW d \in Sn!Devs, NEW at, NEW pc, NEW pkt,
         SnSends(d, at, pc, pkt), SnFits(at, pc, pkt),
         UNCHANGED <<sn_param, sn_poll>>,
         at = "timeout" => sn_timeouts' # 0, sn_timeouts # 0 => sn_timeouts' # 0,
         pc = "get" => ~ sn_stopped'[d],
         \A e \in Sn!Devs : e # d /\ sn_sender[e].pc = "get" => ~ sn_stopped'[e]
  PROVE  SnHands'
<1>1. SnPackets' = SnPackets
  BY DEF SnPackets, Sn!Packets, Sn!pool_size
<1>2. SnSenders' = SnSenders /\ SnPolls' = SnPolls
  BY <1>1 DEF SnSenders, SnPolls
<1>3. ASSUME NEW e \in Sn!Devs
      PROVE  /\ SnFits(sn_sender'[e].at, sn_sender'[e].pc, sn_sender'[e].pkt)
             /\ sn_sender'[e].at = "timeout" => sn_timeouts' # 0
             /\ sn_sender'[e].pc = "get" => ~ sn_stopped'[e]
  <2>1. CASE e = d
    BY <2>1 DEF SnSends
  <2>2. CASE e # d
    BY <2>2 DEF SnSends, SnHands
  <2> QED BY <2>1, <2>2
<1>4. \A e \in Sn!Devs : SnFits(sn_sender'[e].at, sn_sender'[e].pc, sn_sender'[e].pkt)
                           <=> SnFits(sn_sender[e].at, sn_sender[e].pc, sn_sender[e].pkt)'
  BY <1>1 DEF SnFits
<1>5. /\ sn_sender' \in [Sn!Devs -> SnSenders'] /\ sn_poll' \in [Sn!Devs -> SnPolls']
  BY <1>2 DEF SnSends, SnHands
<1>6. \A e \in Sn!Devs : IF sn_poll'[e].pc \in {"release", "wake"}
                         THEN sn_poll'[e].pkt \in SnPackets' ELSE sn_poll'[e].pkt = Sn!NoPacket
  BY <1>1 DEF SnHands
<1> QED BY <1>3, <1>4, <1>5, <1>6 DEF SnHands, Sn!NoPacket

(* The hands after a step of a poll.                                       *)
LEMMA SnPollHandsKept ==
  ASSUME SnHands, NEW d \in Sn!Devs, NEW pc, NEW pkt, SnPollsAt(d, pc, pkt),
         IF pc \in {"release", "wake"} THEN pkt \in SnPackets ELSE pkt = Sn!NoPacket,
         UNCHANGED <<sn_param, sn_sender, sn_timeouts>>,
         \A e \in Sn!Devs : sn_sender[e].pc = "get" => ~ sn_stopped'[e]
  PROVE  SnHands'
<1>1. SnPackets' = SnPackets
  BY DEF SnPackets, Sn!Packets, Sn!pool_size
<1>2. SnSenders' = SnSenders /\ SnPolls' = SnPolls
  BY <1>1 DEF SnSenders, SnPolls
<1>3. \A e \in Sn!Devs : IF sn_poll'[e].pc \in {"release", "wake"}
                         THEN sn_poll'[e].pkt \in SnPackets' ELSE sn_poll'[e].pkt = Sn!NoPacket
  BY <1>1 DEF SnHands, SnPollsAt
<1>4. \A e \in Sn!Devs : SnFits(sn_sender[e].at, sn_sender[e].pc, sn_sender[e].pkt)'
  BY <1>1 DEF SnFits, SnHands
<1>5. /\ sn_sender' \in [Sn!Devs -> SnSenders'] /\ sn_poll' \in [Sn!Devs -> SnPolls']
  BY <1>2 DEF SnPollsAt, SnHands
<1> QED BY <1>3, <1>4, <1>5 DEF SnHands, Sn!NoPacket

(* Who is asked to test, after a step that only d's sender takes.          *)
LEMMA SnTested ==
  ASSUME NEW pkt
  PROVE  pkt \in Sn!Tested <=>
           \E e \in Sn!Devs : \/ sn_sender[e].pc = "wake" /\ sn_sender[e].pkt = pkt
                              \/ sn_poll[e].pc = "wake" /\ sn_poll[e].pkt = pkt
BY DEF Sn!Tested

(* A transmission that is not about to move or to test a packet.           *)
SnBusy == {"enqueue", "release", "wake"}
(* It moves no packet, and the same packets are tested.                    *)
LEMMA SnQuiet ==
  ASSUME SnHands, NEW d \in Sn!Devs, NEW at, NEW pc, NEW pkt,
         SnSends(d, at, pc, pkt), SnFits(at, pc, pkt),
         sn_sender[d].pc \notin SnBusy, pc \notin SnBusy,
         UNCHANGED <<sn_ppool, sn_rx_queue, sn_poll>>
  PROVE  SnStill /\ Sn!Tested' = Sn!Tested
<1>1. sn_sender[d].pkt = Sn!NoPacket /\ pkt = Sn!NoPacket
  BY DEF SnHands, SnFits, SnBusy
<1>2. Sn!InHand(sn_sender[d]) = Sn!NoPacket /\ Sn!InHand(sn_sender'[d]) = Sn!NoPacket
  BY <1>1 DEF Sn!InHand, SnSends
<1>3. \A c \in Sn!Devs : Sn!InHand(sn_sender'[c]) = Sn!InHand(sn_sender[c])
  BY <1>2 DEF SnSends
<1>4. \A s \in SnKinds, c \in Sn!Devs : SnIn(s, c)' = SnIn(s, c)
  BY <1>3 DEF SnIn, Sn!InHand
<1>5. SnStill
  BY <1>4 DEF SnStill
<1>6. \A q : q \in Sn!Tested' <=> q \in Sn!Tested
  BY DEF Sn!Tested, SnSends, SnBusy
<1> QED BY <1>5, <1>6

(* Such a step keeps all.                                                  *)
LEMMA SnQuietKept ==
  ASSUME SnullInv, NEW d \in Sn!Devs, NEW at, NEW pc, NEW pkt,
         SnSends(d, at, pc, pkt), SnFits(at, pc, pkt),
         sn_sender[d].pc \notin SnBusy, pc \notin SnBusy,
         at = "timeout" <=> sn_sender[d].at = "timeout",
         pc = "get" => ~ sn_stopped[d],
         sn_status' \in [Sn!Devs -> SUBSET {"RX", "TX"}],
         UNCHANGED <<Sn!pools, sn_rx_queue, Sn!irq>>, Sn!SenderUnchanged
  PROVE  SnullInv'
<1> USE DEF SnullInv, SnTypes
<1>1. UNCHANGED <<sn_param, sn_state, sn_poll, sn_timeouts, sn_ppool, sn_ends, sn_stopped,
                  sn_rx_queue, sn_rx_int_enabled, sn_napi, sn_missed>>
  BY DEF Sn!pools, Sn!irq, Sn!SenderUnchanged
<1>2. SnDevices' /\ SnPools'
  <2>1. SnPackets' = SnPackets /\ \A e \in Sn!Devs : Sn!Packets(e)' = Sn!Packets(e)
    BY <1>1 DEF SnPackets, Sn!Packets, Sn!pool_size
  <2> QED BY <1>1, <2>1 DEF SnDevices, SnPools
<1>3. SnHands'
  BY <1>1, SnHandsKept DEF SnHands
<1>4. SnStill /\ Sn!Tested' = Sn!Tested
  BY <1>1, SnQuiet
<1>5. \A e \in Sn!Devs : SnResets(e)' = SnResets(e)
  BY <1>1 DEF SnResets, SnSends
<1>6. \A e \in Sn!Devs : SnResets(e) \in Int
  BY SnParameters DEF SnResets
<1>7. SnAlone' /\ SnSomewhere' /\ SnKnownFew'
  BY <1>1, <1>4, <1>5, <1>6, SnKept DEF SnGoes
<1>8. SnStarted' /\ SnListens'
  BY <1>1, <1>4 DEF SnStarted, SnListens
<1> QED BY <1>2, <1>3, <1>7, <1>8

(* What a sender's step keeps, when a packet moves.                        *)
LEMMA SnSendKept ==
  ASSUME SnullInv, NEW d \in Sn!Devs, NEW at, NEW pc, NEW pkt,
         SnSends(d, at, pc, pkt), SnFits(at, pc, pkt),
         at = "timeout" <=> sn_sender[d].at = "timeout", pc # "get",
         UNCHANGED <<sn_param, sn_poll, sn_timeouts>>,
         SnDevices', SnPools', SnGoes,
         \A e \in Sn!Devs : e # d /\ sn_sender[e].pc = "get" => ~ sn_stopped'[e]
  PROVE  SnTypes' /\ SnAlone' /\ SnSomewhere' /\ SnKnownFew'
<1> USE DEF SnullInv, SnTypes
<1>1. SnHands'
  BY SnHandsKept DEF SnHands
<1>2. \A e \in Sn!Devs : SnResets(e)' = SnResets(e)
  BY DEF SnResets, SnSends
<1>3. \A e \in Sn!Devs : SnResets(e) \in Int
  BY SnParameters DEF SnResets
<1>4. SnAlone' /\ SnSomewhere' /\ SnKnownFew'
  BY <1>2, <1>3, SnKept
<1> QED BY <1>1, <1>4

(* What a poll's step keeps.                                               *)
LEMMA SnPollKept ==
  ASSUME SnullInv, NEW d \in Sn!Devs, NEW pc, NEW pkt, SnPollsAt(d, pc, pkt),
         IF pc \in {"release", "wake"} THEN pkt \in SnPackets ELSE pkt = Sn!NoPacket,
         UNCHANGED <<sn_param, sn_sender, sn_timeouts>>,
         SnDevices', SnPools', SnGoes,
         \A e \in Sn!Devs : sn_sender[e].pc = "get" => ~ sn_stopped'[e]
  PROVE  SnTypes' /\ SnAlone' /\ SnSomewhere' /\ SnKnownFew'
<1> USE DEF SnullInv, SnTypes
<1>1. SnHands'
  BY SnPollHandsKept
<1>2. \A e \in Sn!Devs : SnResets(e)' = SnResets(e) /\ SnResets(e) \in Int
  BY SnParameters DEF SnResets
<1>3. SnAlone' /\ SnSomewhere' /\ SnKnownFew'
  BY <1>2, SnKept
<1> QED BY <1>1, <1>3

(* Types of the devices, and of the pools, that a step leaves alone.       *)
LEMMA SnSame ==
  ASSUME UNCHANGED sn_param
  PROVE  /\ SnPackets' = SnPackets
         /\ \A e \in Sn!Devs : Sn!Packets(e)' = Sn!Packets(e)
BY DEF SnPackets, Sn!Packets, Sn!pool_size

(* The steps of a transmission that move no packet.                        *)
LEMMA SnTransmitStep ==
  ASSUME SnullInv, NEW d \in Sn!Devs, Sn!Transmit(d)
  PROVE  SnullInv'
<1> DEFINE s == [Sn!IdleSender EXCEPT !.at = "tx", !.pc = "get"]
<1>1. s \in SnSenders /\ s.at = "tx" /\ s.pc = "get" /\ s.pkt = Sn!NoPacket
  BY SnIdleChanged DEF SnAts, SnPcs
<1>2. SnSends(d, s.at, s.pc, s.pkt)
  <2>1. Sn!Continue(d, s)
    BY DEF Sn!Transmit
  <2> HIDE DEF s
  <2> QED BY <1>1, <2>1, SnSend DEF SnullInv, SnTypes
<1>3. SnSends(d, "tx", "get", Sn!NoPacket)
  BY <1>1, <1>2
<1>4. SnFits("tx", "get", Sn!NoPacket)
  BY DEF SnFits
<1>5. sn_sender[d].pc = "idle" /\ sn_sender[d].at = "idle" /\ ~ sn_stopped[d]
  BY SnIdle DEF Sn!Transmit
<1>6. /\ sn_status' \in [Sn!Devs -> SUBSET {"RX", "TX"}]
      /\ UNCHANGED <<Sn!pools, sn_rx_queue, Sn!irq>> /\ Sn!SenderUnchanged
  BY DEF Sn!Transmit, SnullInv, SnTypes, SnDevices
<1> QED BY <1>3, <1>4, <1>5, <1>6, SnQuietKept DEF SnBusy

(* The test of the receiver's interrupt.                                   *)
LEMMA SnEnabledStep ==
  ASSUME SnullInv, NEW d \in Sn!Devs, Sn!TestEnabled(d)
  PROVE  SnullInv'
<1> DEFINE a == IF sn_rx_int_enabled[Sn!Twin(d)] THEN "rx" ELSE "tx"
           s == [sn_sender[d] EXCEPT !.at = a, !.pc = "load"]
<1>1. /\ sn_sender[d] \in SnSenders /\ sn_sender[d].pc = "enabled?"
      /\ sn_sender[d].at = "tx" /\ sn_sender[d].pkt = Sn!NoPacket
  BY DEF Sn!TestEnabled, SnullInv, SnTypes, SnHands, SnFits
<1>2. a \in {"rx", "tx"}
  OBVIOUS
<1>3. s \in SnSenders /\ s.at = a /\ s.pc = "load" /\ s.pkt = Sn!NoPacket
  <2> HIDE DEF a
  <2>1. s \in SnSenders
    <3>1. a \in SnAts /\ "load" \in SnPcs
      BY <1>2 DEF SnAts, SnPcs
    <3> QED BY <1>1, <3>1, SnChanged, Zenon
  <2>2. s.at = a /\ s.pc = "load" /\ s.pkt = Sn!NoPacket
    BY <1>1 DEF SnSenders
  <2> QED BY <2>1, <2>2
<1>4. Sn!Continue(d, s)
  BY DEF Sn!TestEnabled
<1>5. SnSends(d, a, "load", Sn!NoPacket)
  <2> HIDE DEF s, a
  <2>1. SnSends(d, s.at, s.pc, s.pkt)
    BY <1>3, <1>4, SnSend DEF SnullInv, SnTypes
  <2> QED BY <1>3, <2>1
<1>6. SnFits(a, "load", Sn!NoPacket)
  BY <1>2 DEF SnFits
<1>7. /\ sn_status' \in [Sn!Devs -> SUBSET {"RX", "TX"}]
      /\ UNCHANGED <<Sn!pools, sn_rx_queue, Sn!irq>> /\ Sn!SenderUnchanged
  BY DEF Sn!TestEnabled, SnullInv, SnTypes, SnDevices
<1> HIDE DEF a
<1> QED BY <1>1, <1>2, <1>5, <1>6, <1>7, SnQuietKept DEF SnBusy

(* The two halves of status |= ...                                         *)
LEMMA SnStatusStep ==
  ASSUME SnullInv, NEW d \in Sn!Devs, Sn!LoadStatus(d) \/ Sn!StoreStatus(d)
  PROVE  SnullInv'
<1>1. /\ sn_sender[d] \in SnSenders /\ sn_sender[d].pkt = Sn!NoPacket
      /\ sn_sender[d].pc \in {"load", "store"}
      /\ sn_sender[d].at # "idle" /\ sn_sender[d].word \in SUBSET {"RX", "TX"}
      /\ sn_status \in [Sn!Devs -> SUBSET {"RX", "TX"}]
      /\ Sn!Target(d) \in Sn!Devs /\ Sn!Bit(d) \in {"RX", "TX"}
  <2>1. sn_sender[d] \in SnSenders /\ SnFits(sn_sender[d].at, sn_sender[d].pc, sn_sender[d].pkt)
    BY DEF SnullInv, SnTypes, SnHands
  <2>2. sn_sender[d].pc \in {"load", "store"}
    BY DEF Sn!LoadStatus, Sn!StoreStatus
  <2> QED BY <2>1, <2>2, SnDevs
      DEF SnFits, SnullInv, SnTypes, SnDevices, SnSenders, Sn!Target, Sn!Bit
<1>2. PICK p \in {"store", "interrupt"}, w \in SUBSET {"RX", "TX"} :
        Sn!Continue(d, [sn_sender[d] EXCEPT !.word = w, !.pc = p])
  BY <1>1 DEF Sn!LoadStatus, Sn!StoreStatus
<1> DEFINE s == [sn_sender[d] EXCEPT !.word = w, !.pc = p]
<1>3. s \in SnSenders
  <2>1. p \in SnPcs
    BY DEF SnPcs
  <2> QED BY <1>1, <2>1, SnWordChanged
<1>4. s.at = sn_sender[d].at /\ s.pc = p /\ s.pkt = Sn!NoPacket
  BY <1>1 DEF SnSenders
<1>5. SnSends(d, sn_sender[d].at, p, Sn!NoPacket)
  <2>1. Sn!Continue(d, s)
    BY <1>2
  <2> HIDE DEF s
  <2>2. SnSends(d, s.at, s.pc, s.pkt)
    BY <1>3, <2>1, SnSend DEF SnullInv, SnTypes
  <2> QED BY <1>4, <2>2
<1>6. SnFits(sn_sender[d].at, p, Sn!NoPacket)
  BY <1>1 DEF SnFits
<1>7. /\ sn_status' \in [Sn!Devs -> SUBSET {"RX", "TX"}]
      /\ UNCHANGED <<Sn!pools, sn_rx_queue, Sn!irq>> /\ Sn!SenderUnchanged
  BY <1>1 DEF Sn!LoadStatus, Sn!StoreStatus
<1> QED BY <1>1, <1>5, <1>6, <1>7, SnQuietKept DEF SnBusy

(* A packet that is taken out of one place and put into another.           *)
SnTakes(pkt, t, d, u, e) ==
  \A q \in SnPackets : \A s \in SnKinds, c \in Sn!Devs :
    (q \in SnIn(s, c))' <=>
      IF s = t /\ c = d THEN q \in SnIn(s, c) /\ q # pkt
      ELSE IF s = u /\ c = e THEN q \in SnIn(s, c) \/ q = pkt
      ELSE q \in SnIn(s, c)

(* It moves, because it was nowhere else.                                  *)
LEMMA SnMove ==
  ASSUME SnAlone, NEW pkt \in SnPackets, NEW t \in SnKinds, NEW u \in SnKinds,
         NEW d \in Sn!Devs, NEW e \in Sn!Devs, t # u, pkt \in SnIn(t, d),
         SnTakes(pkt, t, d, u, e)
  PROVE  SnGoes
<1> DEFINE In(q, s, c) == q \in SnIn(s, c)
<1>1. \A q \in SnPackets : \A s \in SnKinds, c \in Sn!Devs :
        In(q, s, c)' <=>
          IF s = t /\ c = d THEN In(q, s, c) /\ q # pkt
          ELSE IF s = u /\ c = e THEN In(q, s, c) \/ q = pkt
          ELSE In(q, s, c)
  BY DEF SnTakes
<1>2. \A s \in SnKinds, c \in Sn!Devs : In(pkt, s, c) => s = t /\ c = d
  BY DEF SnAlone
<1>3. \A q \in SnPackets : \A s \in SnKinds, c \in Sn!Devs :
        In(q, s, c)' <=> IF q = pkt THEN s = u /\ c = e ELSE In(q, s, c)
  <2> HIDE DEF In
  <2> QED BY <1>1, <1>2
<1>4. SnMoves(pkt, t, d, u, e)
  BY <1>3 DEF SnMoves
<1> QED BY <1>4 DEF SnGoes

(* What is in the hand of a sender and of a poll.                          *)
LEMMA SnInHand ==
  ASSUME SnHands, NEW c \in Sn!Devs, NEW q \in SnPackets
  PROVE  /\ q \in SnIn("sender", c) <=>
              sn_sender[c].pc \in {"enqueue", "release"} /\ sn_sender[c].pkt = q
         /\ q \in SnIn("poll", c) <=> sn_poll[c].pc = "release" /\ sn_poll[c].pkt = q
         /\ q \in SnIn("pool", c) <=> q \in sn_ppool[c]
         /\ q \in SnIn("queue", c) <=> q \in sn_rx_queue[c]
<1>1. q # Sn!NoPacket
  BY SnPacketOf
<1>2. q \in SnIn("sender", c) <=>
        sn_sender[c].pc \in {"enqueue", "release"} /\ sn_sender[c].pkt = q
  BY <1>1 DEF SnIn, Sn!InHand, SnHands, SnFits
<1>3. q \in SnIn("poll", c) <=> sn_poll[c].pc = "release" /\ sn_poll[c].pkt = q
  BY <1>1 DEF SnIn, Sn!InHand, SnHands
<1> QED BY <1>2, <1>3 DEF SnIn

(* The packet that is taken from the pool; without one the lock is lost.   *)
LEMMA SnGetStep ==
  ASSUME SnullInv, NEW d \in Sn!Devs, Sn!snull_get_tx_buffer(d)
  PROVE  SnullInv'
<1> USE DEF SnullInv, SnTypes
<1>1. /\ sn_sender[d] \in SnSenders /\ sn_sender[d].pc = "get"
      /\ sn_sender[d].at = "tx" /\ sn_sender[d].pkt = Sn!NoPacket /\ ~ sn_stopped[d]
  BY DEF Sn!snull_get_tx_buffer, SnHands, SnFits
<1>2. CASE sn_ppool[d] = {}
  <2>1. SnSends(d, "idle", "idle", Sn!NoPacket)
    <3>1. Sn!Continue(d, Sn!IdleSender)
      BY <1>2 DEF Sn!snull_get_tx_buffer
    <3> QED BY <3>1, SnIdle, SnSend
  <2>2. SnFits("idle", "idle", Sn!NoPacket)
    BY DEF SnFits
  <2>3. /\ sn_status' \in [Sn!Devs -> SUBSET {"RX", "TX"}]
        /\ UNCHANGED <<Sn!pools, sn_rx_queue, Sn!irq>> /\ Sn!SenderUnchanged
    BY <1>2 DEF Sn!snull_get_tx_buffer, SnDevices
  <2> QED BY <1>1, <2>1, <2>2, <2>3, SnQuietKept DEF SnBusy
<1>3. CASE sn_ppool[d] # {}
  <2>1. PICK pkt \in sn_ppool[d] :
          /\ sn_ppool' = [sn_ppool EXCEPT ![d] = @ \ {pkt}]
          /\ sn_stopped' = [sn_stopped EXCEPT ![d] = @ \/ sn_ppool'[d] = {}]
          /\ Sn!Continue(d, [sn_sender[d] EXCEPT !.pc = "enqueue", !.pkt = pkt])
    BY <1>3 DEF Sn!snull_get_tx_buffer, Sn!Stops
  <2>2. UNCHANGED <<sn_param, sn_state, sn_poll, sn_timeouts, sn_ends, sn_status,
                    sn_rx_queue, sn_rx_int_enabled, sn_napi, sn_missed>>
    BY <1>3 DEF Sn!snull_get_tx_buffer, Sn!SenderUnchanged, Sn!irq
  <2>3. pkt \in SnPackets /\ sn_ppool \in [Sn!Devs -> SUBSET SnPackets]
    BY DEF SnPools
  <2> DEFINE s == [sn_sender[d] EXCEPT !.pc = "enqueue", !.pkt = pkt]
  <2>4. s \in SnSenders
    BY <1>1, <2>3, SnChanged DEF SnPcs, SnAts
  <2>5. s.at = "tx" /\ s.pc = "enqueue" /\ s.pkt = pkt
    BY <1>1 DEF SnSenders
  <2>6. SnSends(d, "tx", "enqueue", pkt)
    <3>1. Sn!Continue(d, s)
      BY <2>1
    <3> HIDE DEF s
    <3>2. SnSends(d, s.at, s.pc, s.pkt)
      BY <2>4, <3>1, SnSend
    <3> QED BY <2>5, <3>2
  <2>7. SnFits("tx", "enqueue", pkt)
    BY <2>3 DEF SnFits
  <2>8. /\ sn_ppool'[d] = sn_ppool[d] \ {pkt}
        /\ \A c \in Sn!Devs : c # d => sn_ppool'[c] = sn_ppool[c]
    BY <2>1, <2>3
  <2>9. SnDevices' /\ SnPools'
    BY <2>1, <2>2, <2>3, <2>8, SnSame DEF SnDevices, SnPools
  <2>10. SnGoes
    <3>2. SnTakes(pkt, "pool", d, "sender", d)
      <4> SUFFICES ASSUME NEW q \in SnPackets, NEW k \in SnKinds, NEW c \in Sn!Devs
                   PROVE  (q \in SnIn(k, c))' <=>
                            IF k = "pool" /\ c = d THEN q \in SnIn(k, c) /\ q # pkt
                            ELSE IF k = "sender" /\ c = d THEN q \in SnIn(k, c) \/ q = pkt
                            ELSE q \in SnIn(k, c)
        BY DEF SnTakes
      <4>1. /\ (q \in SnIn("pool", c))' <=>
                   IF c = d THEN q \in SnIn("pool", c) /\ q # pkt ELSE q \in SnIn("pool", c)
            /\ (q \in SnIn("queue", c))' <=> q \in SnIn("queue", c)
            /\ (q \in SnIn("poll", c))' <=> q \in SnIn("poll", c)
        BY <2>2, <2>8 DEF SnIn, Sn!InHand
      <4>2. (q \in SnIn("sender", c))' <=> IF c = d THEN q = pkt ELSE q \in SnIn("sender", c)
        BY <2>6 DEF SnIn, Sn!InHand, SnSends
      <4>3. ~ q \in SnIn("sender", d)
        BY <1>1, SnInHand
      <4> QED BY <4>1, <4>2, <4>3 DEF SnKinds
    <3>3. pkt \in SnIn("pool", d)
      BY DEF SnIn
    <3> HIDE DEF SnTypes, SnullInv
    <3> QED BY <2>3, <3>2, <3>3, SnMove DEF SnKinds, SnullInv
  <2>11. SnTypes' /\ SnAlone' /\ SnSomewhere' /\ SnKnownFew'
    <3>1. \A e \in Sn!Devs : e # d /\ sn_sender[e].pc = "get" => ~ sn_stopped'[e]
      BY <2>1 DEF SnHands, SnDevices
    <3> HIDE DEF SnTypes, SnullInv
    <3> QED BY <1>1, <2>2, <2>6, <2>7, <2>9, <2>10, <3>1, SnSendKept
  <2>12. SnStarted'
    <3>1. Sn!Tested' = Sn!Tested
      <4>1. \A q : q \in Sn!Tested' <=> q \in Sn!Tested
        BY <1>1, <2>2, <2>6 DEF Sn!Tested, SnSends
      <4> QED BY <4>1
    <3>2. sn_stopped'[d] => sn_ppool'[d] = {}
      BY <1>1, <2>1 DEF SnDevices
    <3>3. \A e \in Sn!Devs : e # d => sn_stopped'[e] = sn_stopped[e]
      BY <2>1 DEF SnDevices
    <3> QED BY <2>2, <2>8, <3>1, <3>2, <3>3 DEF SnStarted
  <2>13. SnListens'
    BY <2>2 DEF SnListens
  <2> QED BY <2>11, <2>12, <2>13
<1> QED BY <1>2, <1>3

(* Whoever gives a packet back keeps a witness for a queue that is stopped *)
(* while its pool is not empty: the one there was, or himself.             *)
LEMMA SnGiven ==
  ASSUME SnullInv, NEW pkt \in SnPackets, Sn!GiveBack(pkt),
         \A e \in Sn!Devs : pkt \notin sn_ppool[e],
         pkt \in Sn!Tested', Sn!Tested \subseteq Sn!Tested',
         UNCHANGED <<sn_param, sn_state, sn_timeouts, sn_stopped>>
  PROVE  /\ SnStarted'
         /\ sn_ppool' \in [Sn!Devs -> SUBSET SnPackets]
         /\ \A e \in Sn!Devs : sn_ppool'[e] =
              IF e = Sn!dev(pkt) THEN sn_ppool[e] \cup {pkt} ELSE sn_ppool[e]
         /\ \A e \in Sn!Devs : sn_ppool'[e] \subseteq Sn!Packets(e)
<1> USE DEF SnullInv, SnTypes
<1>1. PICK d \in Sn!Devs : d = Sn!dev(pkt) /\ pkt \in Sn!Packets(d)
  BY SnPacketOf
<1>2. /\ sn_ppool' = [sn_ppool EXCEPT ![d] = @ \cup {pkt}]
      /\ sn_ends' = IF sn_ppool[d] = {} THEN sn_ends \cup {pkt} ELSE sn_ends \ {pkt}
  BY <1>1 DEF Sn!GiveBack, Sn!NextOf
<1>3. /\ sn_ppool' \in [Sn!Devs -> SUBSET SnPackets]
      /\ \A e \in Sn!Devs : sn_ppool'[e] =
           IF e = d THEN sn_ppool[e] \cup {pkt} ELSE sn_ppool[e]
  BY <1>2 DEF SnPools
<1>4. \A e \in Sn!Devs : sn_ppool'[e] \subseteq Sn!Packets(e)
  BY <1>1, <1>3 DEF SnPools
<1>5. SnStarted'
  <2> SUFFICES ASSUME sn_timeouts = 0, ~ sn_param.lockup, NEW e \in Sn!Devs,
                      sn_state[e] = "up", sn_stopped[e], sn_ppool'[e] # {}
               PROVE  \E w \in sn_ppool'[e] : w \in Sn!Tested' /\ w \in sn_ends'
    BY DEF SnStarted
  <2>1. CASE sn_ppool[e] = {}
    <3>1. e = d /\ pkt \in sn_ppool'[e] /\ pkt \in sn_ends'
      BY <1>2, <1>3, <2>1
    <3> QED BY <3>1
  <2>2. CASE sn_ppool[e] # {}
    <3>1. PICK w \in sn_ppool[e] : w \in Sn!Tested /\ w \in sn_ends
      BY <2>2 DEF SnStarted
    <3>2. w \in sn_ppool'[e] /\ w # pkt
      BY <1>3
    <3> QED BY <1>2, <3>1, <3>2
  <2> QED BY <2>1, <2>2
<1> QED BY <1>1, <1>3, <1>4, <1>5

(* Whoever is a witness wakes the queue, the other witnesses stay.         *)
LEMMA SnWoken ==
  ASSUME SnullInv, NEW pkt \in SnPackets, Sn!WakeQueue(pkt),
         \A q \in Sn!Tested : q # pkt => q \in Sn!Tested',
         UNCHANGED <<sn_param, sn_state, sn_timeouts, sn_ppool>>
  PROVE  /\ SnStarted'
         /\ sn_stopped' \in [Sn!Devs -> BOOLEAN]
         /\ \A e \in Sn!Devs : sn_stopped'[e] => sn_stopped[e]
<1> USE DEF SnullInv, SnTypes
<1>1. PICK d \in Sn!Devs : /\ d = Sn!dev(pkt)
                           /\ \A e \in Sn!Devs : pkt \in Sn!Packets(e) <=> e = d
  BY SnPacketOf
<1>2. /\ sn_stopped' = [sn_stopped EXCEPT ![d] = @ /\ ~ (sn_stopped[d] /\ pkt \in sn_ends)]
      /\ sn_ends' = sn_ends \cap Sn!Tested'
  BY <1>1 DEF Sn!WakeQueue, Sn!Wakes
<1>3. /\ sn_stopped' \in [Sn!Devs -> BOOLEAN]
      /\ \A e \in Sn!Devs : sn_stopped'[e] => sn_stopped[e]
      /\ pkt \in sn_ends => ~ sn_stopped'[d]
  BY <1>2 DEF SnDevices
<1>4. SnStarted'
  <2> SUFFICES ASSUME sn_timeouts = 0, ~ sn_param.lockup, NEW e \in Sn!Devs,
                      sn_state[e] = "up", sn_stopped'[e], sn_ppool[e] # {}
               PROVE  \E w \in sn_ppool[e] : w \in Sn!Tested' /\ w \in sn_ends'
    BY DEF SnStarted
  <2>1. PICK w \in sn_ppool[e] : w \in Sn!Tested /\ w \in sn_ends
    BY <1>3 DEF SnStarted
  <2>2. w # pkt
    BY <1>1, <1>3, <2>1 DEF SnPools
  <2> QED BY <1>2, <2>1, <2>2
<1> QED BY <1>3, <1>4

(* A receiver gives the packet back.                                       *)
LEMMA SnReleaseStep ==
  ASSUME SnullInv, NEW d \in Sn!Devs, Sn!ReleaseReceived(d)
  PROVE  SnullInv'
<1> USE DEF SnullInv, SnTypes
<1>1. PICK pkt \in SnPackets :
        /\ sn_sender[d] \in SnSenders /\ sn_sender[d].pc = "release"
        /\ sn_sender[d].at # "idle" /\ sn_sender[d].pkt = pkt
  BY DEF Sn!ReleaseReceived, SnHands, SnFits
<1> DEFINE s == [sn_sender[d] EXCEPT !.pc = "wake"]
<1>2. UNCHANGED <<sn_param, sn_state, sn_poll, sn_timeouts, sn_stopped, sn_status,
                  sn_rx_queue, sn_rx_int_enabled, sn_napi, sn_missed>>
  BY DEF Sn!ReleaseReceived, Sn!SenderUnchanged, Sn!irq
<1>3. s \in SnSenders
  BY <1>1, SnChanged DEF SnPcs, SnAts
<1>4. s.at = sn_sender[d].at /\ s.pc = "wake" /\ s.pkt = pkt
  BY <1>1 DEF SnSenders
<1>5. SnSends(d, sn_sender[d].at, "wake", pkt)
  <2>1. Sn!Continue(d, s)
    BY DEF Sn!ReleaseReceived
  <2> HIDE DEF s
  <2>2. SnSends(d, s.at, s.pc, s.pkt)
    BY <1>3, <2>1, SnSend
  <2> QED BY <1>4, <2>2
<1>6. SnFits(sn_sender[d].at, "wake", pkt)
  BY <1>1 DEF SnFits
<1>7. pkt \in SnIn("sender", d)
  BY <1>1, SnInHand
<1>8. \A e \in Sn!Devs : pkt \notin sn_ppool[e]
  BY <1>1, <1>7 DEF SnAlone, SnIn, SnKinds
<1>9. pkt \in Sn!Tested' /\ Sn!Tested \subseteq Sn!Tested'
  BY <1>1, <1>2, <1>5 DEF Sn!Tested, SnSends
<1>10. Sn!GiveBack(pkt)
  BY <1>1 DEF Sn!ReleaseReceived
<1>11. /\ SnStarted'
       /\ sn_ppool' \in [Sn!Devs -> SUBSET SnPackets]
       /\ \A e \in Sn!Devs : sn_ppool'[e] =
            IF e = Sn!dev(pkt) THEN sn_ppool[e] \cup {pkt} ELSE sn_ppool[e]
       /\ \A e \in Sn!Devs : sn_ppool'[e] \subseteq Sn!Packets(e)
  BY <1>1, <1>2, <1>8, <1>9, <1>10, SnGiven
<1>12. SnDevices' /\ SnPools'
  BY <1>2, <1>11, SnSame DEF SnDevices, SnPools
<1>13. SnGoes
  <2>1. PICK e \in Sn!Devs : e = Sn!dev(pkt)
    BY SnPacketOf
  <2>2. SnTakes(pkt, "sender", d, "pool", e)
    <3> SUFFICES ASSUME NEW q \in SnPackets, NEW k \in SnKinds, NEW c \in Sn!Devs
                 PROVE  (q \in SnIn(k, c))' <=>
                          IF k = "sender" /\ c = d THEN q \in SnIn(k, c) /\ q # pkt
                          ELSE IF k = "pool" /\ c = e THEN q \in SnIn(k, c) \/ q = pkt
                          ELSE q \in SnIn(k, c)
      BY DEF SnTakes
    <3>1. /\ (q \in SnIn("pool", c))' <=>
                 IF c = e THEN q \in SnIn("pool", c) \/ q = pkt ELSE q \in SnIn("pool", c)
          /\ (q \in SnIn("queue", c))' <=> q \in SnIn("queue", c)
          /\ (q \in SnIn("poll", c))' <=> q \in SnIn("poll", c)
      BY <1>2, <1>11, <2>1 DEF SnIn, Sn!InHand
    <3>2. c # d => ((q \in SnIn("sender", c))' <=> q \in SnIn("sender", c))
      BY <1>5 DEF SnIn, Sn!InHand, SnSends
    <3>3. ~ (q \in SnIn("sender", d))'
      <4>1. Sn!InHand(sn_sender'[d]) = Sn!NoPacket
        BY <1>5 DEF SnSends, Sn!InHand
      <4>2. SnIn("sender", d)' = {Sn!InHand(sn_sender'[d])}
        BY DEF SnIn, Sn!InHand
      <4> QED BY <4>1, <4>2, SnPacketOf
    <3>4. q \in SnIn("sender", d) => q = pkt
      BY <1>1, SnInHand
    <3> QED BY <3>1, <3>2, <3>3, <3>4 DEF SnKinds
  <2>3. "sender" \in SnKinds /\ "pool" \in SnKinds /\ "sender" # "pool" /\ SnAlone
    BY DEF SnKinds
  <2> HIDE DEF SnTypes, SnullInv
  <2> QED BY <1>7, <2>2, <2>3, SnMove
<1>14. SnTypes' /\ SnAlone' /\ SnSomewhere' /\ SnKnownFew'
  <2>1. \A e \in Sn!Devs : e # d /\ sn_sender[e].pc = "get" => ~ sn_stopped'[e]
    BY <1>2 DEF SnHands
  <2> HIDE DEF SnTypes, SnullInv
  <2> QED BY <1>1, <1>2, <1>5, <1>6, <1>12, <1>13, <2>1, SnSendKept
<1>15. SnListens'
  BY <1>2 DEF SnListens
<1> QED BY <1>11, <1>14, <1>15

(* What is in the hands after a step.                                      *)
LEMMA SnSenderIn ==
  ASSUME NEW d \in Sn!Devs, NEW at, NEW pc, NEW pkt,
         SnSends(d, at, pc, pkt), SnFits(at, pc, pkt),
         NEW q \in SnPackets, NEW c \in Sn!Devs
  PROVE  (q \in SnIn("sender", c))' <=>
            IF c = d THEN pc \in {"enqueue", "release"} /\ pkt = q
            ELSE q \in SnIn("sender", c)
<1>1. q # Sn!NoPacket
  BY SnPacketOf
<1>2. SnIn("sender", c)' = {Sn!InHand(sn_sender'[c])}
      /\ SnIn("sender", c) = {Sn!InHand(sn_sender[c])}
  BY DEF SnIn, Sn!InHand
<1>3. CASE c = d
  <2>1. Sn!InHand(sn_sender'[d]) = IF pc = "wake" THEN Sn!NoPacket ELSE pkt
    BY DEF SnSends, Sn!InHand
  <2> QED BY <1>1, <1>2, <1>3, <2>1 DEF SnFits
<1>4. CASE c # d
  BY <1>2, <1>4 DEF SnSends
<1> QED BY <1>3, <1>4

(* What is in the hand of a poll after a step of it.                       *)
LEMMA SnPollIn ==
  ASSUME NEW d \in Sn!Devs, NEW pc, NEW pkt, SnPollsAt(d, pc, pkt),
         IF pc \in {"release", "wake"} THEN pkt \in SnPackets ELSE pkt = Sn!NoPacket,
         NEW q \in SnPackets, NEW c \in Sn!Devs
  PROVE  (q \in SnIn("poll", c))' <=>
            IF c = d THEN pc = "release" /\ pkt = q ELSE q \in SnIn("poll", c)
<1>1. q # Sn!NoPacket
  BY SnPacketOf
<1>2. SnIn("poll", c)' = {Sn!InHand(sn_poll'[c])}
      /\ SnIn("poll", c) = {Sn!InHand(sn_poll[c])}
  BY DEF SnIn, Sn!InHand
<1>3. CASE c = d
  <2>1. Sn!InHand(sn_poll'[d]) = IF pc = "wake" THEN Sn!NoPacket ELSE pkt
    BY DEF SnPollsAt, Sn!InHand
  <2> QED BY <1>1, <1>2, <1>3, <2>1
<1>4. CASE c # d
  BY <1>2, <1>4 DEF SnPollsAt
<1> QED BY <1>3, <1>4

(* A sender with no packet in hand before and after moves none.            *)
LEMMA SnEmptyHand ==
  ASSUME SnHands, NEW d \in Sn!Devs, NEW at, NEW pc, NEW pkt,
         SnSends(d, at, pc, pkt), SnFits(at, pc, pkt),
         sn_sender[d].pc \notin {"enqueue", "release"}, pc \notin {"enqueue", "release"},
         UNCHANGED <<sn_ppool, sn_rx_queue, sn_poll>>
  PROVE  SnStill
<1> SUFFICES ASSUME NEW q \in SnPackets, NEW s \in SnKinds, NEW c \in Sn!Devs
             PROVE  (q \in SnIn(s, c))' <=> q \in SnIn(s, c)
  BY DEF SnStill
<1>1. (q \in SnIn("sender", c))' <=> q \in SnIn("sender", c)
  BY SnSenderIn, SnInHand
<1>2. /\ (q \in SnIn("pool", c))' <=> q \in SnIn("pool", c)
      /\ (q \in SnIn("queue", c))' <=> q \in SnIn("queue", c)
      /\ (q \in SnIn("poll", c))' <=> q \in SnIn("poll", c)
  BY DEF SnIn, Sn!InHand
<1> QED BY <1>1, <1>2 DEF SnKinds

(* What follows a handler.                                                 *)
LEMMA SnHandled ==
  ASSUME SnullInv, NEW d \in Sn!Devs, sn_sender[d].at # "idle",
         Sn!Continue(d, Sn!After(sn_sender[d]))
  PROVE  \E a \in SnAts, p \in {"load", "idle", "reset"} :
           /\ SnNext(sn_sender[d].at, a, p)
           /\ SnSends(d, a, p, Sn!NoPacket) /\ SnFits(a, p, Sn!NoPacket)
           /\ a = "timeout" <=> sn_sender[d].at = "timeout"
<1> DEFINE s == Sn!After(sn_sender[d])
<1>1. sn_sender[d] \in SnSenders
  BY DEF SnullInv, SnTypes, SnHands
<1>2. s \in SnSenders /\ s.pkt = Sn!NoPacket /\ SnNext(sn_sender[d].at, s.at, s.pc)
  BY <1>1, SnAfter
<1>3. SnSends(d, s.at, s.pc, Sn!NoPacket)
  <2>1. Sn!Continue(d, s)
    OBVIOUS
  <2> HIDE DEF s
  <2>2. SnSends(d, s.at, s.pc, s.pkt)
    BY <1>2, <2>1, SnSend DEF SnullInv, SnTypes
  <2> QED BY <1>2, <2>2
<1>4. /\ s.at \in SnAts /\ s.pc \in {"load", "idle", "reset"}
      /\ SnFits(s.at, s.pc, Sn!NoPacket)
      /\ s.at = "timeout" <=> sn_sender[d].at = "timeout"
  BY <1>2 DEF SnNext, SnAts, SnFits
<1> HIDE DEF s
<1> QED BY <1>2, <1>3, <1>4

(* The queue is woken, or not.                                             *)
LEMMA SnWakeStep ==
  ASSUME SnullInv, NEW d \in Sn!Devs, Sn!WakeSender(d)
  PROVE  SnullInv'
<1> USE DEF SnullInv, SnTypes
<1>1. PICK pkt \in SnPackets :
        /\ sn_sender[d].pkt = pkt /\ sn_sender[d].pc = "wake" /\ sn_sender[d].at # "idle"
  BY DEF Sn!WakeSender, SnHands, SnFits
<1>2. UNCHANGED <<sn_param, sn_state, sn_poll, sn_timeouts, sn_ppool, sn_status,
                  sn_rx_queue, sn_rx_int_enabled, sn_napi, sn_missed>>
  BY DEF Sn!WakeSender, Sn!SenderUnchanged, Sn!irq
<1>3. PICK a \in SnAts, p \in {"load", "idle", "reset"} :
        /\ SnSends(d, a, p, Sn!NoPacket) /\ SnFits(a, p, Sn!NoPacket)
        /\ a = "timeout" <=> sn_sender[d].at = "timeout"
  <2>1. Sn!Continue(d, Sn!After(sn_sender[d]))
    BY DEF Sn!WakeSender
  <2> HIDE DEF SnullInv, SnTypes
  <2> QED BY <1>1, <2>1, SnHandled
<1>4. \A q \in Sn!Tested : q # pkt => q \in Sn!Tested'
  <2> SUFFICES ASSUME NEW q \in Sn!Tested, q # pkt PROVE q \in Sn!Tested'
    OBVIOUS
  <2>1. PICK e \in Sn!Devs : \/ sn_sender[e].pc = "wake" /\ sn_sender[e].pkt = q
                             \/ sn_poll[e].pc = "wake" /\ sn_poll[e].pkt = q
    BY SnTested
  <2>2. CASE sn_sender[e].pc = "wake" /\ sn_sender[e].pkt = q
    <3>1. e # d
      BY <1>1, <2>2
    <3>2. sn_sender'[e].pc = "wake" /\ sn_sender'[e].pkt = q
      BY <1>3, <2>2, <3>1 DEF SnSends
    <3> QED BY <3>2 DEF Sn!Tested
  <2>3. CASE sn_poll[e].pc = "wake" /\ sn_poll[e].pkt = q
    BY <1>2, <2>3 DEF Sn!Tested
  <2> QED BY <2>1, <2>2, <2>3
<1>5. Sn!WakeQueue(pkt)
  BY <1>1 DEF Sn!WakeSender
<1>6. /\ SnStarted'
      /\ sn_stopped' \in [Sn!Devs -> BOOLEAN]
      /\ \A e \in Sn!Devs : sn_stopped'[e] => sn_stopped[e]
  <2> HIDE DEF SnullInv, SnTypes
  <2> QED BY <1>2, <1>4, <1>5, SnWoken
<1>7. SnDevices' /\ SnPools'
  BY <1>2, <1>6, SnSame DEF SnDevices, SnPools
<1>8. SnGoes
  BY <1>1, <1>2, <1>3, SnEmptyHand DEF SnGoes
<1>9. SnTypes' /\ SnAlone' /\ SnSomewhere' /\ SnKnownFew'
  <2>1. \A e \in Sn!Devs : e # d /\ sn_sender[e].pc = "get" => ~ sn_stopped'[e]
    BY <1>6 DEF SnHands
  <2> HIDE DEF SnTypes, SnullInv
  <2> QED BY <1>2, <1>3, <1>7, <1>8, <2>1, SnSendKept
<1>10. SnListens'
  BY <1>2 DEF SnListens
<1> QED BY <1>6, <1>9, <1>10

(* The dropped interrupt: the queue is stopped.                            *)
LEMMA SnDropStep ==
  ASSUME SnullInv, NEW d \in Sn!Devs, Sn!DropInterrupt(d)
  PROVE  SnullInv'
<1> USE DEF SnullInv, SnTypes
<1>1. sn_sender[d].pc = "interrupt" /\ sn_sender[d].at = "tx" /\ sn_param.lockup
  BY DEF Sn!DropInterrupt, Sn!lockup
<1>2. UNCHANGED <<sn_param, sn_state, sn_poll, sn_timeouts, sn_ppool, sn_status,
                  sn_rx_queue, sn_rx_int_enabled, sn_napi, sn_missed>>
  BY DEF Sn!DropInterrupt, Sn!SenderUnchanged, Sn!irq
<1>3. SnSends(d, "idle", "idle", Sn!NoPacket)
  <2>1. Sn!Continue(d, Sn!IdleSender)
    BY DEF Sn!DropInterrupt
  <2> QED BY <2>1, SnIdle, SnSend
<1>4. SnFits("idle", "idle", Sn!NoPacket)
  BY DEF SnFits
<1>5. /\ sn_stopped' \in [Sn!Devs -> BOOLEAN]
      /\ \A e \in Sn!Devs : e # d => sn_stopped'[e] = sn_stopped[e]
  BY DEF Sn!DropInterrupt, SnDevices
<1>6. SnDevices' /\ SnPools'
  BY <1>2, <1>5, SnSame DEF SnDevices, SnPools
<1>7. SnGoes
  BY <1>1, <1>2, <1>3, <1>4, SnEmptyHand DEF SnGoes
<1>8. SnTypes' /\ SnAlone' /\ SnSomewhere' /\ SnKnownFew'
  <2>1. \A e \in Sn!Devs : e # d /\ sn_sender[e].pc = "get" => ~ sn_stopped'[e]
    BY <1>5 DEF SnHands
  <2> HIDE DEF SnTypes, SnullInv
  <2> QED BY <1>1, <1>2, <1>3, <1>4, <1>6, <1>7, <2>1, SnSendKept
<1>9. SnStarted' /\ SnListens'
  BY <1>1, <1>2 DEF SnStarted, SnListens
<1> QED BY <1>8, <1>9

(* A packet is queued at the other device.                                 *)
LEMMA SnEnqueueStep ==
  ASSUME SnullInv, NEW d \in Sn!Devs, Sn!snull_enqueue_buf(d)
  PROVE  SnullInv'
<1> USE DEF SnullInv, SnTypes
<1>1. PICK pkt \in SnPackets, t \in Sn!Devs :
        /\ sn_sender[d] \in SnSenders /\ sn_sender[d].pkt = pkt
        /\ sn_sender[d].pc = "enqueue" /\ sn_sender[d].at = "tx" /\ t = Sn!Twin(d)
  BY SnDevs DEF Sn!snull_enqueue_buf, SnHands, SnFits
<1>2. UNCHANGED <<sn_param, sn_state, sn_poll, sn_timeouts, sn_ppool, sn_stopped,
                  sn_status, sn_rx_int_enabled, sn_napi, sn_missed>>
  BY DEF Sn!snull_enqueue_buf, Sn!SenderUnchanged, Sn!irq
<1>3. /\ sn_rx_queue' = [sn_rx_queue EXCEPT ![t] = @ \cup {pkt}]
      /\ sn_ends' = (IF sn_rx_queue[t] = {} THEN sn_ends \cup {pkt} ELSE sn_ends \ {pkt})
                       \cap Sn!Tested
  BY <1>1 DEF Sn!snull_enqueue_buf, Sn!NextOf
<1> DEFINE s == [sn_sender[d] EXCEPT !.pc = "enabled?", !.pkt = Sn!NoPacket]
<1>4. s \in SnSenders
  BY <1>1, SnChanged DEF SnPcs, SnAts
<1>5. s.at = "tx" /\ s.pc = "enabled?" /\ s.pkt = Sn!NoPacket
  BY <1>1 DEF SnSenders
<1>6. SnSends(d, "tx", "enabled?", Sn!NoPacket)
  <2>1. Sn!Continue(d, s)
    BY DEF Sn!snull_enqueue_buf
  <2> HIDE DEF s
  <2>2. SnSends(d, s.at, s.pc, s.pkt)
    BY <1>4, <2>1, SnSend
  <2> QED BY <1>5, <2>2
<1>7. SnFits("tx", "enabled?", Sn!NoPacket)
  BY DEF SnFits
<1>8. /\ sn_rx_queue' \in [Sn!Devs -> SUBSET SnPackets]
      /\ \A c \in Sn!Devs : sn_rx_queue'[c] =
           IF c = t THEN sn_rx_queue[c] \cup {pkt} ELSE sn_rx_queue[c]
  BY <1>3 DEF SnPools
<1>9. SnDevices' /\ SnPools'
  BY <1>2, <1>8, SnSame DEF SnDevices, SnPools
<1>10. pkt \in SnIn("sender", d)
  BY <1>1, SnInHand
<1>11. SnGoes
  <2>1. SnTakes(pkt, "sender", d, "queue", t)
    <3> SUFFICES ASSUME NEW q \in SnPackets, NEW k \in SnKinds, NEW c \in Sn!Devs
                 PROVE  (q \in SnIn(k, c))' <=>
                          IF k = "sender" /\ c = d THEN q \in SnIn(k, c) /\ q # pkt
                          ELSE IF k = "queue" /\ c = t THEN q \in SnIn(k, c) \/ q = pkt
                          ELSE q \in SnIn(k, c)
      BY DEF SnTakes
    <3>1. /\ (q \in SnIn("queue", c))' <=>
                 IF c = t THEN q \in SnIn("queue", c) \/ q = pkt ELSE q \in SnIn("queue", c)
          /\ (q \in SnIn("pool", c))' <=> q \in SnIn("pool", c)
          /\ (q \in SnIn("poll", c))' <=> q \in SnIn("poll", c)
      BY <1>2, <1>8 DEF SnIn, Sn!InHand
    <3>2. (q \in SnIn("sender", c))' <=> c # d /\ q \in SnIn("sender", c)
      BY <1>6, <1>7, SnSenderIn
    <3>3. q \in SnIn("sender", d) => q = pkt
      BY <1>1, SnInHand
    <3> QED BY <3>1, <3>2, <3>3 DEF SnKinds
  <2>2. "sender" \in SnKinds /\ "queue" \in SnKinds /\ "sender" # "queue" /\ SnAlone
    BY DEF SnKinds
  <2> HIDE DEF SnTypes, SnullInv
  <2> QED BY <1>10, <2>1, <2>2, SnMove
<1>12. SnTypes' /\ SnAlone' /\ SnSomewhere' /\ SnKnownFew'
  <2>1. \A e \in Sn!Devs : e # d /\ sn_sender[e].pc = "get" => ~ sn_stopped'[e]
    BY <1>2 DEF SnHands
  <2> HIDE DEF SnTypes, SnullInv
  <2> QED BY <1>1, <1>2, <1>6, <1>7, <1>9, <1>11, <2>1, SnSendKept
<1>13. SnStarted'
  <2>1. \A e \in Sn!Devs : pkt \notin sn_ppool[e]
    BY <1>10 DEF SnAlone, SnIn, SnKinds
  <2>2. \A q : q \in Sn!Tested' <=> q \in Sn!Tested
    BY <1>1, <1>2, <1>6 DEF Sn!Tested, SnSends
  <2>3. \A q \in sn_ends : q \in Sn!Tested /\ q # pkt => q \in sn_ends'
    BY <1>3
  <2> QED BY <1>2, <2>1, <2>2, <2>3 DEF SnStarted
<1>14. SnListens'
  BY <1>2 DEF SnListens
<1> QED BY <1>12, <1>13, <1>14

(* A device whose interrupt is disabled is polled, or is not up.           *)
LEMMA SnIrq ==
  ASSUME SnullInv, NEW t \in Sn!Devs, UNCHANGED <<sn_param, sn_state>>,
         \/ /\ sn_rx_int_enabled' = [sn_rx_int_enabled EXCEPT ![t] = FALSE]
            /\ Sn!napi_schedule(t)
         \/ UNCHANGED Sn!irq
  PROVE  /\ SnListens'
         /\ sn_rx_int_enabled' \in [Sn!Devs -> BOOLEAN]
         /\ sn_napi' \in [Sn!Devs -> [scheduled : BOOLEAN, again : BOOLEAN]]
         /\ sn_missed' \subseteq Sn!Devs
<1> USE DEF SnullInv, SnTypes
<1>1. CASE UNCHANGED Sn!irq
  BY <1>1 DEF Sn!irq, SnDevices, SnListens
<1>2. ASSUME sn_rx_int_enabled' = [sn_rx_int_enabled EXCEPT ![t] = FALSE],
             Sn!napi_schedule(t)
      PROVE  /\ SnListens'
             /\ sn_rx_int_enabled' \in [Sn!Devs -> BOOLEAN]
             /\ sn_napi' \in [Sn!Devs -> [scheduled : BOOLEAN, again : BOOLEAN]]
             /\ sn_missed' \subseteq Sn!Devs
  <2>1. /\ sn_rx_int_enabled' \in [Sn!Devs -> BOOLEAN]
        /\ \A e \in Sn!Devs : e # t => sn_rx_int_enabled'[e] = sn_rx_int_enabled[e]
    BY <1>2 DEF SnDevices
  <2>2. CASE sn_state[t] = "up"
    <3>1. /\ sn_napi' = [sn_napi EXCEPT ![t] = [scheduled |-> TRUE,
                                                again |-> sn_napi[t].scheduled]]
          /\ sn_missed' = sn_missed
      BY <1>2, <2>2 DEF Sn!napi_schedule
    <3>2. [scheduled |-> TRUE, again |-> sn_napi[t].scheduled]
             \in [scheduled : BOOLEAN, again : BOOLEAN]
      BY DEF SnDevices
    <3>3. /\ sn_napi' \in [Sn!Devs -> [scheduled : BOOLEAN, again : BOOLEAN]]
          /\ sn_napi'[t].scheduled
          /\ \A e \in Sn!Devs : e # t => sn_napi'[e] = sn_napi[e]
      BY <3>1, <3>2 DEF SnDevices
    <3> QED BY <2>1, <3>1, <3>3 DEF SnListens, SnDevices
  <2>3. CASE sn_state[t] # "up"
    <3>1. sn_napi' = sn_napi /\ sn_missed' = sn_missed \cup {t}
      BY <1>2, <2>3 DEF Sn!napi_schedule
    <3> QED BY <2>1, <3>1 DEF SnListens, SnDevices
  <2> QED BY <2>2, <2>3
<1> QED BY <1>1, <1>2

(* The interrupt of either kind.                                           *)
LEMMA SnInterruptStep ==
  ASSUME SnullInv, NEW d \in Sn!Devs, Sn!Interrupt(d)
  PROVE  SnullInv'
<1> USE DEF SnullInv, SnTypes
<1>1. PICK t \in Sn!Devs : t = Sn!Target(d)
  BY SnDevs DEF Sn!Target
<1>2. /\ sn_sender[d] \in SnSenders /\ sn_sender[d].pc = "interrupt"
      /\ sn_sender[d].at # "idle" /\ sn_sender[d].pkt = Sn!NoPacket
  BY DEF Sn!Interrupt, SnHands, SnFits
<1>3. /\ UNCHANGED <<sn_param, sn_state, sn_poll, sn_timeouts, sn_ppool, sn_ends,
                     sn_stopped>>
      /\ sn_status' \in [Sn!Devs -> SUBSET {"RX", "TX"}]
  BY DEF Sn!Interrupt, Sn!SenderUnchanged, Sn!pools, SnDevices
<1>4. \/ /\ sn_rx_int_enabled' = [sn_rx_int_enabled EXCEPT ![t] = FALSE]
         /\ Sn!napi_schedule(t)
      \/ UNCHANGED Sn!irq
  BY <1>1 DEF Sn!Interrupt
<1>5. /\ SnListens'
      /\ sn_rx_int_enabled' \in [Sn!Devs -> BOOLEAN]
      /\ sn_napi' \in [Sn!Devs -> [scheduled : BOOLEAN, again : BOOLEAN]]
      /\ sn_missed' \subseteq Sn!Devs
  <2> HIDE DEF SnullInv, SnTypes
  <2> QED BY <1>3, <1>4, SnIrq
<1>6. SnDevices'
  BY <1>3, <1>5 DEF SnDevices
<1>7. \A e \in Sn!Devs : e # d /\ sn_sender[e].pc = "get" => ~ sn_stopped'[e]
  BY <1>3 DEF SnHands
<1>8. \/ UNCHANGED sn_rx_queue /\ Sn!Continue(d, Sn!After(sn_sender[d]))
      \/ \E pkt \in sn_rx_queue[t] :
           /\ sn_rx_queue' = [sn_rx_queue EXCEPT ![t] = @ \ {pkt}]
           /\ Sn!Continue(d, [sn_sender[d] EXCEPT !.pc = "release", !.pkt = pkt])
  BY <1>1 DEF Sn!Interrupt
<1>9. \A a, p, k : SnSends(d, a, p, k) /\ p # "wake" => Sn!Tested' = Sn!Tested
  <2> SUFFICES ASSUME NEW a, NEW p, NEW k, SnSends(d, a, p, k), p # "wake"
               PROVE  \A q : q \in Sn!Tested' <=> q \in Sn!Tested
    OBVIOUS
  <2> QED BY <1>2, <1>3 DEF Sn!Tested, SnSends
<1>10. ASSUME UNCHANGED sn_rx_queue, Sn!Continue(d, Sn!After(sn_sender[d]))
       PROVE  SnullInv'
  <2>1. PICK a \in SnAts, p \in {"load", "idle", "reset"} :
          /\ SnSends(d, a, p, Sn!NoPacket) /\ SnFits(a, p, Sn!NoPacket)
          /\ a = "timeout" <=> sn_sender[d].at = "timeout"
    <3> HIDE DEF SnullInv, SnTypes
    <3> QED BY <1>2, <1>10, SnHandled
  <2>2. SnPools'
    BY <1>3, <1>10, SnSame DEF SnPools
  <2>3. SnGoes
    BY <1>2, <1>3, <1>10, <2>1, SnEmptyHand DEF SnGoes
  <2>4. SnTypes' /\ SnAlone' /\ SnSomewhere' /\ SnKnownFew'
    <3> HIDE DEF SnTypes, SnullInv
    <3> QED BY <1>2, <1>3, <1>6, <1>7, <2>1, <2>2, <2>3, SnSendKept
  <2>5. SnStarted'
    BY <1>3, <1>9, <2>1 DEF SnStarted
  <2> QED BY <1>5, <2>4, <2>5
<1>11. ASSUME NEW pkt \in sn_rx_queue[t],
              sn_rx_queue' = [sn_rx_queue EXCEPT ![t] = @ \ {pkt}],
              Sn!Continue(d, [sn_sender[d] EXCEPT !.pc = "release", !.pkt = pkt])
       PROVE  SnullInv'
  <2>1. pkt \in SnPackets
    BY DEF SnPools
  <2> DEFINE s == [sn_sender[d] EXCEPT !.pc = "release", !.pkt = pkt]
  <2>2. s \in SnSenders
    BY <1>2, <2>1, SnChanged DEF SnPcs, SnAts
  <2>3. s.at = sn_sender[d].at /\ s.pc = "release" /\ s.pkt = pkt
    BY <1>2 DEF SnSenders
  <2>4. SnSends(d, sn_sender[d].at, "release", pkt)
    <3>1. Sn!Continue(d, s)
      BY <1>11
    <3> HIDE DEF s
    <3>2. SnSends(d, s.at, s.pc, s.pkt)
      BY <2>2, <3>1, SnSend
    <3> QED BY <2>3, <3>2
  <2>5. SnFits(sn_sender[d].at, "release", pkt)
    BY <1>2, <2>1 DEF SnFits
  <2>6. /\ sn_rx_queue' \in [Sn!Devs -> SUBSET SnPackets]
        /\ \A c \in Sn!Devs : sn_rx_queue'[c] =
             IF c = t THEN sn_rx_queue[c] \ {pkt} ELSE sn_rx_queue[c]
    BY <1>11 DEF SnPools
  <2>7. SnPools'
    BY <1>3, <2>6, SnSame DEF SnPools
  <2>8. SnGoes
    <3>1. SnTakes(pkt, "queue", t, "sender", d)
      <4> SUFFICES ASSUME NEW q \in SnPackets, NEW k \in SnKinds, NEW c \in Sn!Devs
                   PROVE  (q \in SnIn(k, c))' <=>
                            IF k = "queue" /\ c = t THEN q \in SnIn(k, c) /\ q # pkt
                            ELSE IF k = "sender" /\ c = d THEN q \in SnIn(k, c) \/ q = pkt
                            ELSE q \in SnIn(k, c)
        BY DEF SnTakes
      <4>1. /\ (q \in SnIn("queue", c))' <=>
                 IF c = t THEN q \in SnIn("queue", c) /\ q # pkt ELSE q \in SnIn("queue", c)
            /\ (q \in SnIn("pool", c))' <=> q \in SnIn("pool", c)
            /\ (q \in SnIn("poll", c))' <=> q \in SnIn("poll", c)
        BY <1>3, <2>6 DEF SnIn, Sn!InHand
      <4>2. (q \in SnIn("sender", c))' <=>
               IF c = d THEN q = pkt ELSE q \in SnIn("sender", c)
        BY <2>4, <2>5, SnSenderIn
      <4>3. ~ q \in SnIn("sender", d)
        BY <1>2, SnInHand
      <4> QED BY <4>1, <4>2, <4>3 DEF SnKinds
    <3>2. "sender" \in SnKinds /\ "queue" \in SnKinds /\ "sender" # "queue" /\ SnAlone
      BY DEF SnKinds
    <3>3. pkt \in SnIn("queue", t)
      BY DEF SnIn
    <3> HIDE DEF SnTypes, SnullInv
    <3> QED BY <2>1, <3>1, <3>2, <3>3, SnMove
  <2>9. SnTypes' /\ SnAlone' /\ SnSomewhere' /\ SnKnownFew'
    <3> HIDE DEF SnTypes, SnullInv
    <3> QED BY <1>2, <1>3, <1>6, <1>7, <2>4, <2>5, <2>7, <2>8, SnSendKept
  <2>10. SnStarted'
    BY <1>3, <1>9, <2>4 DEF SnStarted
  <2> QED BY <1>5, <2>9, <2>10
<1> QED BY <1>8, <1>10, <1>11

(* A poll with no packet in hand before and after moves none.              *)
LEMMA SnEmptyPoll ==
  ASSUME SnHands, NEW d \in Sn!Devs, NEW pc, NEW pkt, SnPollsAt(d, pc, pkt),
         IF pc \in {"release", "wake"} THEN pkt \in SnPackets ELSE pkt = Sn!NoPacket,
         sn_poll[d].pc # "release", pc # "release",
         UNCHANGED <<sn_ppool, sn_rx_queue, sn_sender>>
  PROVE  SnStill
<1> SUFFICES ASSUME NEW q \in SnPackets, NEW s \in SnKinds, NEW c \in Sn!Devs
             PROVE  (q \in SnIn(s, c))' <=> q \in SnIn(s, c)
  BY DEF SnStill
<1>1. (q \in SnIn("poll", c))' <=> q \in SnIn("poll", c)
  BY SnPollIn, SnInHand
<1>2. /\ (q \in SnIn("pool", c))' <=> q \in SnIn("pool", c)
      /\ (q \in SnIn("queue", c))' <=> q \in SnIn("queue", c)
      /\ (q \in SnIn("sender", c))' <=> q \in SnIn("sender", c)
  BY DEF SnIn, Sn!InHand
<1> QED BY <1>1, <1>2 DEF SnKinds

(* The poll receives a packet.                                             *)
LEMMA SnPollReceives ==
  ASSUME SnullInv, NEW d \in Sn!Devs, Sn!PollReceives(d)
  PROVE  SnullInv'
<1> USE DEF SnullInv, SnTypes
<1>1. PICK n \in Nat :
        /\ sn_poll[d] \in SnPolls /\ sn_poll[d].npackets = n
        /\ sn_poll[d].pc = "idle" /\ sn_poll[d].pkt = Sn!NoPacket
  BY DEF Sn!PollReceives, SnHands, SnPolls
<1>2. UNCHANGED <<sn_param, sn_state, sn_sender, sn_timeouts, sn_ppool, sn_ends, sn_stopped,
                  sn_status, sn_rx_int_enabled, sn_napi, sn_missed>>
  BY DEF Sn!PollReceives, Sn!PollUnchanged, Sn!pools, Sn!history
<1>3. PICK pkt \in sn_rx_queue[d] :
        /\ sn_rx_queue' = [sn_rx_queue EXCEPT ![d] = @ \ {pkt}]
        /\ Sn!Polls(d, [sn_poll[d] EXCEPT !.pc = "release", !.pkt = pkt, !.npackets = n + 1])
  BY <1>1 DEF Sn!PollReceives
<1>4. pkt \in SnPackets
  BY DEF SnPools
<1> DEFINE r == [sn_poll[d] EXCEPT !.pc = "release", !.pkt = pkt, !.npackets = n + 1]
<1>5. r \in SnPolls
  <2>1. n + 1 \in Nat
    OBVIOUS
  <2> QED BY <1>1, <1>4, <2>1, SnPollChanged
<1>6. r.pc = "release" /\ r.pkt = pkt
  BY <1>1 DEF SnPolls
<1>7. SnPollsAt(d, "release", pkt)
  <2>1. Sn!Polls(d, r)
    BY <1>3
  <2> HIDE DEF r
  <2>2. SnPollsAt(d, r.pc, r.pkt)
    BY <1>5, <2>1, SnPollAt
  <2> QED BY <1>6, <2>2
<1>8. /\ sn_rx_queue' \in [Sn!Devs -> SUBSET SnPackets]
      /\ \A c \in Sn!Devs : sn_rx_queue'[c] =
           IF c = d THEN sn_rx_queue[c] \ {pkt} ELSE sn_rx_queue[c]
  BY <1>3 DEF SnPools
<1>9. SnDevices' /\ SnPools'
  BY <1>2, <1>8, SnSame DEF SnDevices, SnPools
<1>10. SnGoes
  <2>1. SnTakes(pkt, "queue", d, "poll", d)
    <3> SUFFICES ASSUME NEW q \in SnPackets, NEW k \in SnKinds, NEW c \in Sn!Devs
                 PROVE  (q \in SnIn(k, c))' <=>
                          IF k = "queue" /\ c = d THEN q \in SnIn(k, c) /\ q # pkt
                          ELSE IF k = "poll" /\ c = d THEN q \in SnIn(k, c) \/ q = pkt
                          ELSE q \in SnIn(k, c)
      BY DEF SnTakes
    <3>1. /\ (q \in SnIn("queue", c))' <=>
               IF c = d THEN q \in SnIn("queue", c) /\ q # pkt ELSE q \in SnIn("queue", c)
          /\ (q \in SnIn("pool", c))' <=> q \in SnIn("pool", c)
          /\ (q \in SnIn("sender", c))' <=> q \in SnIn("sender", c)
      BY <1>2, <1>8 DEF SnIn, Sn!InHand
    <3>2. (q \in SnIn("poll", c))' <=> IF c = d THEN q = pkt ELSE q \in SnIn("poll", c)
      BY <1>4, <1>7, SnPollIn
    <3>3. ~ q \in SnIn("poll", d)
      BY <1>1, SnInHand
    <3> QED BY <3>1, <3>2, <3>3 DEF SnKinds
  <2>2. "poll" \in SnKinds /\ "queue" \in SnKinds /\ "poll" # "queue" /\ SnAlone
    BY DEF SnKinds
  <2>3. pkt \in SnIn("queue", d)
    BY DEF SnIn
  <2> HIDE DEF SnTypes, SnullInv
  <2> QED BY <1>4, <2>1, <2>2, <2>3, SnMove
<1>11. SnTypes' /\ SnAlone' /\ SnSomewhere' /\ SnKnownFew'
  <2>1. \A e \in Sn!Devs : sn_sender[e].pc = "get" => ~ sn_stopped'[e]
    BY <1>2 DEF SnHands
  <2> HIDE DEF SnTypes, SnullInv
  <2> QED BY <1>2, <1>4, <1>7, <1>9, <1>10, <2>1, SnPollKept
<1>12. SnStarted'
  <2>1. \A q : q \in Sn!Tested' <=> q \in Sn!Tested
    BY <1>1, <1>2, <1>7 DEF Sn!Tested, SnPollsAt
  <2> QED BY <1>2, <2>1 DEF SnStarted
<1>13. SnListens'
  BY <1>2 DEF SnListens
<1> QED BY <1>11, <1>12, <1>13

(* The poll gives it back.                                                 *)
LEMMA SnPollReleases ==
  ASSUME SnullInv, NEW d \in Sn!Devs, Sn!PollReleases(d)
  PROVE  SnullInv'
<1> USE DEF SnullInv, SnTypes
<1>1. PICK pkt \in SnPackets :
        /\ sn_poll[d] \in SnPolls /\ sn_poll[d].pc = "release" /\ sn_poll[d].pkt = pkt
  BY DEF Sn!PollReleases, SnHands
<1>2. UNCHANGED <<sn_param, sn_state, sn_sender, sn_timeouts, sn_stopped, sn_status,
                  sn_rx_queue, sn_rx_int_enabled, sn_napi, sn_missed>>
  BY DEF Sn!PollReleases, Sn!PollUnchanged, Sn!history
<1> DEFINE r == [sn_poll[d] EXCEPT !.pc = "wake"]
<1>3. r \in SnPolls
  BY <1>1, SnPollChanged
<1>4. r.pc = "wake" /\ r.pkt = pkt
  BY <1>1 DEF SnPolls
<1>5. SnPollsAt(d, "wake", pkt)
  <2>1. Sn!Polls(d, r)
    BY DEF Sn!PollReleases
  <2> HIDE DEF r
  <2>2. SnPollsAt(d, r.pc, r.pkt)
    BY <1>3, <2>1, SnPollAt
  <2> QED BY <1>4, <2>2
<1>6. pkt \in SnIn("poll", d)
  BY <1>1, SnInHand
<1>7. \A e \in Sn!Devs : pkt \notin sn_ppool[e]
  BY <1>6 DEF SnAlone, SnIn, SnKinds
<1>8. pkt \in Sn!Tested' /\ Sn!Tested \subseteq Sn!Tested'
  BY <1>1, <1>2, <1>5 DEF Sn!Tested, SnPollsAt
<1>9. Sn!GiveBack(pkt)
  BY <1>1 DEF Sn!PollReleases
<1>10. /\ SnStarted'
       /\ sn_ppool' \in [Sn!Devs -> SUBSET SnPackets]
       /\ \A e \in Sn!Devs : sn_ppool'[e] =
            IF e = Sn!dev(pkt) THEN sn_ppool[e] \cup {pkt} ELSE sn_ppool[e]
       /\ \A e \in Sn!Devs : sn_ppool'[e] \subseteq Sn!Packets(e)
  <2> HIDE DEF SnullInv, SnTypes
  <2> QED BY <1>2, <1>7, <1>8, <1>9, SnGiven
<1>11. SnDevices' /\ SnPools'
  BY <1>2, <1>10, SnSame DEF SnDevices, SnPools
<1>12. SnGoes
  <2>1. PICK e \in Sn!Devs : e = Sn!dev(pkt)
    BY SnPacketOf
  <2>2. SnTakes(pkt, "poll", d, "pool", e)
    <3> SUFFICES ASSUME NEW q \in SnPackets, NEW k \in SnKinds, NEW c \in Sn!Devs
                 PROVE  (q \in SnIn(k, c))' <=>
                          IF k = "poll" /\ c = d THEN q \in SnIn(k, c) /\ q # pkt
                          ELSE IF k = "pool" /\ c = e THEN q \in SnIn(k, c) \/ q = pkt
                          ELSE q \in SnIn(k, c)
      BY DEF SnTakes
    <3>1. /\ (q \in SnIn("pool", c))' <=>
                 IF c = e THEN q \in SnIn("pool", c) \/ q = pkt ELSE q \in SnIn("pool", c)
          /\ (q \in SnIn("queue", c))' <=> q \in SnIn("queue", c)
          /\ (q \in SnIn("sender", c))' <=> q \in SnIn("sender", c)
      BY <1>2, <1>10, <2>1 DEF SnIn, Sn!InHand
    <3>2. (q \in SnIn("poll", c))' <=> c # d /\ q \in SnIn("poll", c)
      BY <1>5, SnPollIn
    <3>3. q \in SnIn("poll", d) => q = pkt
      BY <1>1, SnInHand
    <3> QED BY <3>1, <3>2, <3>3 DEF SnKinds
  <2>3. "poll" \in SnKinds /\ "pool" \in SnKinds /\ "poll" # "pool" /\ SnAlone
    BY DEF SnKinds
  <2> HIDE DEF SnTypes, SnullInv
  <2> QED BY <1>6, <2>2, <2>3, SnMove
<1>13. SnTypes' /\ SnAlone' /\ SnSomewhere' /\ SnKnownFew'
  <2>1. \A e \in Sn!Devs : sn_sender[e].pc = "get" => ~ sn_stopped'[e]
    BY <1>2 DEF SnHands
  <2> HIDE DEF SnTypes, SnullInv
  <2> QED BY <1>2, <1>5, <1>11, <1>12, <2>1, SnPollKept
<1>14. SnListens'
  BY <1>2 DEF SnListens
<1> QED BY <1>10, <1>13, <1>14

(* The poll wakes the queue, or not.                                       *)
LEMMA SnPollWakes ==
  ASSUME SnullInv, NEW d \in Sn!Devs, Sn!PollWakes(d)
  PROVE  SnullInv'
<1> USE DEF SnullInv, SnTypes
<1>1. PICK pkt \in SnPackets, n \in Nat :
        /\ sn_poll[d] \in SnPolls /\ sn_poll[d].pc = "wake" /\ sn_poll[d].pkt = pkt
        /\ sn_poll[d].npackets = n
  BY DEF Sn!PollWakes, SnHands, SnPolls
<1>2. UNCHANGED <<sn_param, sn_state, sn_sender, sn_timeouts, sn_ppool, sn_status,
                  sn_rx_queue, sn_rx_int_enabled, sn_napi, sn_missed>>
  BY DEF Sn!PollWakes, Sn!PollUnchanged, Sn!history
<1>3. SnPollsAt(d, "idle", Sn!NoPacket)
  <2> DEFINE r == [Sn!IdlePoll EXCEPT !.npackets = n]
  <2>1. r \in SnPolls /\ r.pc = "idle" /\ r.pkt = Sn!NoPacket
    BY <1>1, SnPollIdle
  <2>2. Sn!Polls(d, r)
    BY <1>1 DEF Sn!PollWakes
  <2> HIDE DEF r
  <2>3. SnPollsAt(d, r.pc, r.pkt)
    BY <2>1, <2>2, SnPollAt
  <2> QED BY <2>1, <2>3
<1>4. \A q \in Sn!Tested : q # pkt => q \in Sn!Tested'
  <2> SUFFICES ASSUME NEW q \in Sn!Tested, q # pkt PROVE q \in Sn!Tested'
    OBVIOUS
  <2>1. PICK e \in Sn!Devs : \/ sn_sender[e].pc = "wake" /\ sn_sender[e].pkt = q
                             \/ sn_poll[e].pc = "wake" /\ sn_poll[e].pkt = q
    BY SnTested
  <2>2. CASE sn_sender[e].pc = "wake" /\ sn_sender[e].pkt = q
    BY <1>2, <2>2 DEF Sn!Tested
  <2>3. CASE sn_poll[e].pc = "wake" /\ sn_poll[e].pkt = q
    <3>1. e # d
      BY <1>1, <2>3
    <3>2. sn_poll'[e].pc = "wake" /\ sn_poll'[e].pkt = q
      BY <1>3, <2>3, <3>1 DEF SnPollsAt
    <3> QED BY <3>2 DEF Sn!Tested
  <2> QED BY <2>1, <2>2, <2>3
<1>5. Sn!WakeQueue(pkt)
  BY <1>1 DEF Sn!PollWakes
<1>6. /\ SnStarted'
      /\ sn_stopped' \in [Sn!Devs -> BOOLEAN]
      /\ \A e \in Sn!Devs : sn_stopped'[e] => sn_stopped[e]
  <2> HIDE DEF SnullInv, SnTypes
  <2> QED BY <1>2, <1>4, <1>5, SnWoken
<1>7. SnDevices' /\ SnPools'
  BY <1>2, <1>6, SnSame DEF SnDevices, SnPools
<1>8. SnGoes
  BY <1>1, <1>2, <1>3, SnEmptyPoll DEF SnGoes
<1>9. SnTypes' /\ SnAlone' /\ SnSomewhere' /\ SnKnownFew'
  <2>1. \A e \in Sn!Devs : sn_sender[e].pc = "get" => ~ sn_stopped'[e]
    BY <1>6 DEF SnHands
  <2> HIDE DEF SnTypes, SnullInv
  <2> QED BY <1>2, <1>3, <1>7, <1>8, <2>1, SnPollKept
<1>10. SnListens'
  BY <1>2 DEF SnListens
<1> QED BY <1>6, <1>9, <1>10

(* A step of the poll that moves no packet keeps all, if it keeps the      *)
(* interrupt of a device that is up enabled or the poll scheduled.         *)
LEMMA SnPollQuiet ==
  ASSUME SnullInv, NEW d \in Sn!Devs, NEW pc \in {"idle", "complete"},
         SnPollsAt(d, pc, Sn!NoPacket), sn_poll[d].pc \in {"idle", "complete"},
         UNCHANGED <<sn_param, sn_state, sn_sender, sn_timeouts, sn_ppool, sn_ends,
                     sn_stopped, sn_status, sn_rx_queue>>,
         sn_rx_int_enabled' \in [Sn!Devs -> BOOLEAN],
         sn_napi' \in [Sn!Devs -> [scheduled : BOOLEAN, again : BOOLEAN]],
         sn_missed' \subseteq Sn!Devs, SnListens'
  PROVE  SnullInv'
<1> USE DEF SnullInv, SnTypes
<1>1. SnDevices' /\ SnPools'
  BY SnSame DEF SnDevices, SnPools
<1>2. SnGoes
  BY SnEmptyPoll DEF SnGoes
<1>3. SnTypes' /\ SnAlone' /\ SnSomewhere' /\ SnKnownFew'
  <2>1. \A e \in Sn!Devs : sn_sender[e].pc = "get" => ~ sn_stopped'[e]
    BY DEF SnHands
  <2> HIDE DEF SnTypes, SnullInv
  <2> QED BY <1>1, <1>2, <2>1, SnPollKept
<1>4. SnStarted'
  <2>1. \A q : q \in Sn!Tested' <=> q \in Sn!Tested
    BY DEF Sn!Tested, SnPollsAt
  <2> QED BY <2>1 DEF SnStarted
<1> QED BY <1>3, <1>4

(* What napi_complete_done does.                                           *)
LEMMA SnNapi ==
  ASSUME SnDevices, NEW d \in Sn!Devs, Sn!napi_complete(d)
  PROVE  /\ sn_napi' \in [Sn!Devs -> [scheduled : BOOLEAN, again : BOOLEAN]]
         /\ sn_napi'[d].scheduled = sn_napi[d].again
         /\ \A e \in Sn!Devs : e # d => sn_napi'[e] = sn_napi[e]
<1>1. sn_napi' = [sn_napi EXCEPT ![d] = [scheduled |-> sn_napi[d].again, again |-> FALSE]]
  BY DEF Sn!napi_complete
<1>2. [scheduled |-> sn_napi[d].again, again |-> FALSE] \in [scheduled : BOOLEAN, again : BOOLEAN]
  BY DEF SnDevices
<1> QED BY <1>1, <1>2 DEF SnDevices

(* Polled again, or ended because the device is being closed.              *)
LEMMA SnPollAgain ==
  ASSUME SnullInv, NEW d \in Sn!Devs, Sn!PollAgain(d)
  PROVE  SnullInv'
<1> USE DEF SnullInv, SnTypes
<1>1. sn_poll[d].pc = "idle"
  BY DEF Sn!PollAgain
<1>2. UNCHANGED <<sn_param, sn_state, sn_sender, sn_timeouts, sn_ppool, sn_ends,
                  sn_stopped, sn_status, sn_rx_queue, sn_rx_int_enabled>>
  BY DEF Sn!PollAgain, Sn!pools
<1>3. SnPollsAt(d, "idle", Sn!NoPacket)
  <2>1. Sn!Polls(d, Sn!IdlePoll)
    BY DEF Sn!PollAgain
  <2> QED BY <2>1, SnIdle, SnPollAt
<1>4. /\ sn_napi' \in [Sn!Devs -> [scheduled : BOOLEAN, again : BOOLEAN]]
      /\ sn_missed' \subseteq Sn!Devs /\ SnListens'
  <2>1. CASE sn_state[d] = "closing"
    <3>1. Sn!napi_complete(d) /\ sn_missed' = sn_missed \cup {d}
      BY <2>1 DEF Sn!PollAgain
    <3> QED BY <1>2, <3>1, SnNapi DEF SnListens, SnDevices
  <2>2. CASE sn_state[d] # "closing"
    <3>1. UNCHANGED <<sn_napi, sn_missed>>
      BY <2>2 DEF Sn!PollAgain
    <3> QED BY <1>2, <3>1 DEF SnListens, SnDevices
  <2> QED BY <2>1, <2>2
<1>5. sn_rx_int_enabled' \in [Sn!Devs -> BOOLEAN]
  BY <1>2 DEF SnDevices
<1> HIDE DEF SnullInv, SnTypes
<1> QED BY <1>1, <1>2, <1>3, <1>4, <1>5, SnPollQuiet

(* Nothing is left to receive.                                             *)
LEMMA SnPollFoundAll ==
  ASSUME SnullInv, NEW d \in Sn!Devs, Sn!PollFoundAll(d)
  PROVE  SnullInv'
<1> USE DEF SnullInv, SnTypes
<1>1. sn_poll[d].pc = "idle" /\ sn_poll[d] \in SnPolls /\ sn_poll[d].pkt = Sn!NoPacket
  BY DEF Sn!PollFoundAll, SnHands
<1>2. UNCHANGED <<sn_param, sn_state, sn_sender, sn_timeouts, sn_ppool, sn_ends, sn_stopped,
                  sn_status, sn_rx_queue, sn_rx_int_enabled, sn_napi, sn_missed>>
  BY DEF Sn!PollFoundAll, Sn!PollUnchanged, Sn!pools, Sn!history
<1> DEFINE r == [sn_poll[d] EXCEPT !.pc = "complete"]
<1>3. r \in SnPolls
  BY <1>1, SnPollChanged
<1>4. r.pc = "complete" /\ r.pkt = Sn!NoPacket
  BY <1>1 DEF SnPolls
<1>5. SnPollsAt(d, "complete", Sn!NoPacket)
  <2>1. Sn!Polls(d, r)
    BY DEF Sn!PollFoundAll
  <2> HIDE DEF r
  <2>2. SnPollsAt(d, r.pc, r.pkt)
    BY <1>3, <2>1, SnPollAt
  <2> QED BY <1>4, <2>2
<1>6. /\ sn_rx_int_enabled' \in [Sn!Devs -> BOOLEAN]
      /\ sn_napi' \in [Sn!Devs -> [scheduled : BOOLEAN, again : BOOLEAN]]
      /\ sn_missed' \subseteq Sn!Devs /\ SnListens'
  BY <1>2 DEF SnDevices, SnListens
<1> HIDE DEF SnullInv, SnTypes
<1> QED BY <1>1, <1>2, <1>5, <1>6, SnPollQuiet

(* The poll ends, and the interrupt is enabled unless it was scheduled.    *)
LEMMA SnPollCompletes ==
  ASSUME SnullInv, NEW d \in Sn!Devs, Sn!PollCompletes(d)
  PROVE  SnullInv'
<1> USE DEF SnullInv, SnTypes
<1>1. sn_poll[d].pc = "complete"
  BY DEF Sn!PollCompletes
<1>2. UNCHANGED <<sn_param, sn_state, sn_sender, sn_timeouts, sn_ppool, sn_ends, sn_stopped,
                  sn_status, sn_rx_queue, sn_missed>>
  BY DEF Sn!PollCompletes, Sn!PollUnchanged, Sn!pools, Sn!history
<1>3. SnPollsAt(d, "idle", Sn!NoPacket)
  <2>1. Sn!Polls(d, Sn!IdlePoll)
    BY DEF Sn!PollCompletes
  <2> QED BY <2>1, SnIdle, SnPollAt
<1>4. /\ sn_napi' \in [Sn!Devs -> [scheduled : BOOLEAN, again : BOOLEAN]]
      /\ sn_napi'[d].scheduled = sn_napi[d].again
      /\ \A e \in Sn!Devs : e # d => sn_napi'[e] = sn_napi[e]
  BY SnNapi DEF Sn!PollCompletes
<1>5. sn_rx_int_enabled' = [sn_rx_int_enabled EXCEPT ![d] =
                              sn_rx_int_enabled[d] \/ ~ sn_napi[d].again]
  BY DEF Sn!PollCompletes, Sn!Enable
<1>6. /\ sn_rx_int_enabled' \in [Sn!Devs -> BOOLEAN]
      /\ sn_rx_int_enabled'[d] <=> sn_rx_int_enabled[d] \/ ~ sn_napi[d].again
      /\ \A e \in Sn!Devs : e # d => sn_rx_int_enabled'[e] = sn_rx_int_enabled[e]
  BY <1>5 DEF SnDevices
<1>7. SnListens'
  BY <1>2, <1>4, <1>6 DEF SnListens
<1>8. sn_missed' \subseteq Sn!Devs
  BY <1>2 DEF SnDevices
<1> HIDE DEF SnullInv, SnTypes
<1> QED BY <1>1, <1>2, <1>3, <1>4, <1>6, <1>7, <1>8, SnPollQuiet

(* A device is opened, closed, and down.                                   *)
LEMMA SnStateStep ==
  ASSUME SnullInv, NEW d \in Sn!Devs,
         Sn!snull_open(d) \/ Sn!snull_release(d) \/ Sn!Disabled(d)
  PROVE  SnullInv'
<1> USE DEF SnullInv, SnTypes
<1>1. UNCHANGED <<sn_param, sn_sender, sn_poll, sn_timeouts, sn_ppool, sn_ends, sn_status,
                  sn_rx_queue, sn_rx_int_enabled, sn_napi, sn_missed>>
  BY DEF Sn!snull_open, Sn!snull_release, Sn!Disabled, Sn!pools, Sn!irq
<1>2. /\ sn_state' \in [Sn!Devs -> {"down", "up", "closing"}]
      /\ \A e \in Sn!Devs : e # d => sn_state'[e] = sn_state[e]
      /\ sn_stopped' \in [Sn!Devs -> BOOLEAN]
      /\ \A e \in Sn!Devs : e # d => sn_stopped'[e] = sn_stopped[e]
      /\ ~ (sn_state'[d] = "up" /\ sn_stopped'[d])
      /\ sn_stopped'[d] => sn_stopped[d] \/ sn_sender[d] = Sn!IdleSender
  BY DEF Sn!snull_open, Sn!snull_release, Sn!Disabled, Sn!pools, SnDevices
<1>3. SnDevices' /\ SnPools'
  BY <1>1, <1>2, SnSame DEF SnDevices, SnPools
<1>4. SnHands'
  <2>1. SnSenders' = SnSenders /\ SnPolls' = SnPolls /\ SnPackets' = SnPackets
    BY <1>1, SnSame DEF SnSenders, SnPolls
  <2>2. \A e \in Sn!Devs : sn_sender[e].pc = "get" => ~ sn_stopped'[e]
    BY <1>2, SnIdle DEF SnHands
  <2> QED BY <1>1, <2>1, <2>2 DEF SnHands, SnFits
<1>5. SnStill
  BY <1>1 DEF SnStill, SnIn, Sn!InHand
<1>6. \A e \in Sn!Devs : SnResets(e)' = SnResets(e) /\ SnResets(e) \in Int
  BY <1>1, SnParameters DEF SnResets
<1>7. SnAlone' /\ SnSomewhere' /\ SnKnownFew'
  BY <1>1, <1>5, <1>6, SnKept DEF SnGoes
<1>8. SnStarted'
  <2>1. \A q : q \in Sn!Tested' <=> q \in Sn!Tested
    BY <1>1 DEF Sn!Tested
  <2> QED BY <1>1, <1>2, <2>1 DEF SnStarted
<1>9. SnListens'
  BY <1>1 DEF SnListens
<1> QED BY <1>3, <1>4, <1>7, <1>8, <1>9

(* A time-out begins.                                                      *)
LEMMA SnTimeoutStep ==
  ASSUME SnullInv, NEW d \in Sn!Devs, Sn!Timeout(d)
  PROVE  SnullInv'
<1> USE DEF SnullInv, SnTypes
<1> DEFINE s == [Sn!IdleSender EXCEPT !.at = "timeout", !.pc = "load"]
<1>1. UNCHANGED <<sn_param, sn_state, sn_poll, sn_ppool, sn_stopped, sn_status,
                  sn_rx_queue, sn_rx_int_enabled, sn_napi, sn_missed>>
  BY DEF Sn!Timeout, Sn!pools, Sn!irq
<1>2. /\ sn_sender[d].at = "idle" /\ sn_sender[d].pc = "idle"
      /\ sn_timeouts \in Nat /\ sn_timeouts' = sn_timeouts + 1
      /\ sn_timeouts' \in 0 .. sn_param.MaxTimeouts /\ sn_timeouts' # 0
  BY SnIdle, SnParameters DEF Sn!Timeout
<1>3. s \in SnSenders /\ s.at = "timeout" /\ s.pc = "load" /\ s.pkt = Sn!NoPacket
  BY SnIdleChanged DEF SnAts, SnPcs
<1>4. SnSends(d, "timeout", "load", Sn!NoPacket)
  <2>1. Sn!Continue(d, s)
    BY DEF Sn!Timeout
  <2> HIDE DEF s
  <2>2. SnSends(d, s.at, s.pc, s.pkt)
    BY <1>3, <2>1, SnSend
  <2> QED BY <1>3, <2>2
<1>5. SnFits("timeout", "load", Sn!NoPacket)
  BY DEF SnFits
<1>6. SnDevices' /\ SnPools'
  BY <1>1, <1>2, SnSame DEF SnDevices, SnPools
<1>7. SnHands'
  <2>1. \A e \in Sn!Devs : e # d /\ sn_sender[e].pc = "get" => ~ sn_stopped'[e]
    BY <1>1 DEF SnHands
  <2> QED BY <1>1, <1>2, <1>4, <1>5, <2>1, SnHandsKept
<1>8. SnGoes
  BY <1>1, <1>2, <1>4, <1>5, SnEmptyHand DEF SnGoes
<1>9. \A e \in Sn!Devs : SnResets(e)' \in Int /\ SnResets(e)' >= SnResets(e)
  BY <1>2, <1>4 DEF SnResets, SnSends
<1>10. SnAlone' /\ SnSomewhere' /\ SnKnownFew'
  BY <1>1, <1>2, <1>8, <1>9, SnKept
<1>11. SnStarted' /\ SnListens'
  BY <1>1, <1>2 DEF SnStarted, SnListens
<1> QED BY <1>6, <1>7, <1>10, <1>11

(* A finite set has subsets of every size up to its own.                   *)
LEMMA SubsetOfSize ==
  ASSUME NEW S, IsFiniteSet(S), NEW n \in 0 .. Cardinality(S)
  PROVE  \E T \in SUBSET S : Cardinality(T) = n
<1> DEFINE k == Cardinality(S)
<1>1. k \in Nat /\ n \in Nat /\ n <= k
  BY FS_CardinalityType
<1>2. PICK f \in Bijection(1 .. k, S) : TRUE
  <2>1. PICK m \in Nat : ExistsBijection(1 .. m, S)
    BY FS_NatBijection
  <2>2. m = k
    BY <2>1, FS_CountingElements
  <2> QED BY <2>1, <2>2 DEF ExistsBijection
<1>3. /\ f \in [1 .. k -> S]
      /\ \A i \in 1 .. k, j \in 1 .. k : f[i] = f[j] => i = j
  BY <1>2 DEF Bijection, Injection, IsInjective
<1> DEFINE T == {f[i] : i \in 1 .. n}
           g == [i \in 1 .. n |-> f[i]]
<1> HIDE DEF k
<1>4. g \in Bijection(1 .. n, T)
  <2>1. g \in [1 .. n -> T]
    OBVIOUS
  <2>2. \A i \in 1 .. n, j \in 1 .. n : g[i] = g[j] => i = j
    BY <1>1, <1>3
  <2>3. \A t \in T : \E i \in 1 .. n : g[i] = t
    OBVIOUS
  <2> HIDE DEF g, T
  <2> QED BY <2>1, <2>2, <2>3 DEF Bijection, Injection, Surjection, IsInjective
<1>5. IsFiniteSet(1 .. n) /\ Cardinality(1 .. n) = n
  BY <1>1, FS_Interval
<1>6. Cardinality(T) = n
  BY <1>4, <1>5, FS_Bijection DEF ExistsBijection
<1>7. T \in SUBSET S
  BY <1>1, <1>3
<1> QED BY <1>6, <1>7
(* Snull's Cardinality, which it has from its own FiniteSets.              *)
LEMMA SnCardinality ==
  ASSUME NEW S
  PROVE  Sn!Cardinality(S) = Cardinality(S)
BY DEF Sn!Cardinality, Cardinality

(* A packet in use is in a queue or in somebody's hand.                    *)
LEMMA SnInUse ==
  ASSUME NEW q
  PROVE  q \in Sn!InUse <=>
           \E s \in {"queue", "sender", "poll"}, c \in Sn!Devs : q \in SnIn(s, c)
<1>1. /\ q \in UNION {sn_rx_queue[e] : e \in Sn!Devs} <=>
           \E c \in Sn!Devs : q \in sn_rx_queue[c]
      /\ q \in {Sn!InHand(sn_sender[e]) : e \in Sn!Devs} <=>
           \E c \in Sn!Devs : q = Sn!InHand(sn_sender[c])
      /\ q \in {Sn!InHand(sn_poll[e]) : e \in Sn!Devs} <=>
           \E c \in Sn!Devs : q = Sn!InHand(sn_poll[c])
  OBVIOUS
<1>2. q \in Sn!InUse <=> \E c \in Sn!Devs : \/ q \in sn_rx_queue[c]
                                            \/ q = Sn!InHand(sn_sender[c])
                                            \/ q = Sn!InHand(sn_poll[c])
  BY <1>1 DEF Sn!InUse
<1>3. ASSUME NEW c \in Sn!Devs
      PROVE  /\ q \in SnIn("queue", c) <=> q \in sn_rx_queue[c]
             /\ q \in SnIn("sender", c) <=> q = Sn!InHand(sn_sender[c])
             /\ q \in SnIn("poll", c) <=> q = Sn!InHand(sn_poll[c])
  BY DEF SnIn
<1> QED BY <1>2, <1>3

(* While a time-out is under way there are packets for a whole new pool.   *)
LEMMA SnPoolEnough ==
  ASSUME SnullInv, NEW d \in Sn!Devs, sn_sender[d].at = "timeout"
  PROVE  /\ IsFiniteSet(Sn!Packets(d) \ Sn!InUse)
         /\ sn_param.pool_size <= Cardinality(Sn!Packets(d) \ Sn!InUse)
<1> USE DEF SnullInv, SnTypes
<1> DEFINE P == Sn!Packets(d)
           p == sn_param.pool_size
<1>1. /\ p \in Nat /\ sn_param.MaxTimeouts \in Nat /\ sn_timeouts \in Nat
      /\ sn_timeouts <= sn_param.MaxTimeouts
  BY SnParameters
<1>2. IsFiniteSet(P) /\ Cardinality(P) = p * (sn_param.MaxTimeouts + 1)
  BY SnPacketsFinite
<1>3. P \cap Sn!InUse \subseteq SnKnown(d)
  BY SnInUse DEF SnKnown, SnKinds
<1>4. Cardinality(SnKnown(d)) <= p * sn_timeouts
  BY DEF SnKnownFew, SnResets
<1>5. IsFiniteSet(SnKnown(d))
  BY <1>2, FS_Subset DEF SnKnown
<1>6. /\ Cardinality(P \cap Sn!InUse) <= Cardinality(SnKnown(d))
      /\ Cardinality(P \cap Sn!InUse) \in Nat /\ Cardinality(SnKnown(d)) \in Nat
  BY <1>3, <1>5, FS_Subset, FS_CardinalityType
<1>7. /\ IsFiniteSet(P \ Sn!InUse)
      /\ Cardinality(P \ Sn!InUse) = Cardinality(P) - Cardinality(P \cap Sn!InUse)
  BY <1>2, FS_Difference
<1>8. p * sn_timeouts + p <= p * (sn_param.MaxTimeouts + 1)
      /\ p * sn_timeouts \in Nat /\ p * (sn_param.MaxTimeouts + 1) \in Nat
  BY <1>1
<1> HIDE DEF P, p
<1>9. p <= Cardinality(P \ Sn!InUse)
  BY <1>1, <1>2, <1>4, <1>6, <1>7, <1>8
<1> QED BY <1>7, <1>9 DEF P, p

(* Where the packets are after a reset.                                    *)
SnNewPool(d, new) ==
  /\ new \subseteq Sn!Packets(d)
  /\ \A q \in SnPackets : \A s \in SnKinds, c \in Sn!Devs :
       (q \in SnIn(s, c))' <=>
         IF s = "pool" /\ c = d THEN q \in new ELSE q \in SnIn(s, c)
  /\ \A q \in new : \A s \in SnKinds \ {"pool"}, c \in Sn!Devs : q \notin SnIn(s, c)

(* A reset makes such a pool, of the size the code asks for or less.       *)
LEMMA SnReset ==
  ASSUME SnullInv, NEW d \in Sn!Devs, Sn!ResetPool(d)
  PROVE  /\ SnSends(d, "idle", "idle", Sn!NoPacket) /\ SnFits("idle", "idle", Sn!NoPacket)
         /\ \E new : /\ SnNewPool(d, new)
                     /\ Cardinality(new) <= sn_param.pool_size
                     /\ sn_ppool' = [sn_ppool EXCEPT ![d] = new]
<1> USE DEF SnullInv, SnTypes
<1> DEFINE Free == Sn!Packets(d) \ Sn!InUse
<1>1. sn_sender[d].pc = "reset" /\ sn_sender[d].at = "timeout"
  BY DEF Sn!ResetPool, SnHands, SnFits
<1>2. SnSends(d, "idle", "idle", Sn!NoPacket)
  <2>1. Sn!Continue(d, Sn!IdleSender)
    BY DEF Sn!ResetPool
  <2> QED BY <2>1, SnIdle, SnSend
<1>3. SnFits("idle", "idle", Sn!NoPacket)
  BY DEF SnFits
<1>4. PICK n \in 0 .. sn_param.pool_size :
        sn_ppool' = [sn_ppool EXCEPT ![d] =
                       CHOOSE new \in SUBSET Free : Sn!Cardinality(new) = n]
  BY Zenon DEF Sn!ResetPool, Sn!pool_size
<1> DEFINE new == CHOOSE x \in SUBSET Free : Sn!Cardinality(x) = n
<1>5. new \in SUBSET Free /\ Cardinality(new) = n
  <2>1. IsFiniteSet(Free) /\ sn_param.pool_size <= Cardinality(Free)
    BY <1>1, SnPoolEnough
  <2>2. n \in 0 .. Cardinality(Free)
    <3>1. Cardinality(Free) \in Nat /\ sn_param.pool_size \in Nat
      BY <2>1, FS_CardinalityType, SnParameters
    <3> QED BY <2>1, <3>1
  <2> HIDE DEF Free
  <2>3. \E x \in SUBSET Free : Sn!Cardinality(x) = n
    BY <2>1, <2>2, SubsetOfSize, SnCardinality
  <2> QED BY <2>3, SnCardinality
<1>6. sn_ppool' = [sn_ppool EXCEPT ![d] = new]
  BY <1>4
<1> HIDE DEF new
<1>7. UNCHANGED <<sn_poll, sn_rx_queue>>
  BY DEF Sn!ResetPool, Sn!SenderUnchanged
<1>8. ASSUME NEW q \in SnPackets, NEW s \in SnKinds, NEW c \in Sn!Devs
      PROVE  (q \in SnIn(s, c))' <=>
               IF s = "pool" /\ c = d THEN q \in new ELSE q \in SnIn(s, c)
  <2>1. (q \in SnIn("sender", c))' <=> q \in SnIn("sender", c)
    BY <1>1, <1>2, <1>3, SnSenderIn, SnInHand
  <2>2. (q \in SnIn("queue", c))' <=> q \in SnIn("queue", c)
    BY <1>7 DEF SnIn
  <2>3. (q \in SnIn("poll", c))' <=> q \in SnIn("poll", c)
    BY <1>7 DEF SnIn, Sn!InHand
  <2>4. (q \in SnIn("pool", c))' <=> IF c = d THEN q \in new ELSE q \in SnIn("pool", c)
    BY <1>6 DEF SnIn, SnPools
  <2> QED BY <2>1, <2>2, <2>3, <2>4 DEF SnKinds
<1>9. \A q \in new : \A s \in SnKinds \ {"pool"}, c \in Sn!Devs : q \notin SnIn(s, c)
  BY <1>5, SnInUse DEF SnKinds
<1>10. SnNewPool(d, new)
  BY <1>5, <1>8, <1>9 DEF SnNewPool
<1>11. Cardinality(new) <= sn_param.pool_size
  BY <1>5, SnParameters
<1> QED BY <1>2, <1>3, <1>6, <1>10, <1>11

(* The new packets are nowhere else.                                       *)
LEMMA SnNewAlone ==
  ASSUME SnullInv, NEW d \in Sn!Devs, NEW new, SnNewPool(d, new), UNCHANGED sn_param
  PROVE  SnAlone'
<1> USE DEF SnullInv, SnTypes
<1> SUFFICES ASSUME NEW q \in SnPackets, NEW s \in SnKinds, NEW c \in Sn!Devs,
                    NEW t \in SnKinds, NEW e \in Sn!Devs,
                    (q \in SnIn(s, c))', (q \in SnIn(t, e))'
             PROVE  s = t /\ c = e
  BY SnSame DEF SnAlone
<1>1. CASE q \in new
  <2>1. Sn!dev(q) = d
    BY <1>1, SnPacketOf DEF SnNewPool
  <2>2. \A b \in Sn!Devs : b # d => q \notin SnIn("pool", b)
    BY <2>1, SnPacketOf DEF SnIn, SnPools
  <2> QED BY <1>1, <2>2 DEF SnNewPool
<1>2. CASE q \notin new
  <2>1. q \in SnIn(s, c) /\ q \in SnIn(t, e)
    BY <1>2 DEF SnNewPool
  <2> QED BY <2>1 DEF SnAlone
<1> QED BY <1>1, <1>2

(* A reset adds at most a pool to the packets of its device.               *)
LEMMA SnNewKnown ==
  ASSUME SnullInv, NEW d \in Sn!Devs, NEW new, SnNewPool(d, new),
         Cardinality(new) <= sn_param.pool_size,
         sn_sender[d].at = "timeout",
         SnSends(d, "idle", "idle", Sn!NoPacket), UNCHANGED <<sn_param, sn_timeouts>>
  PROVE  SnKnownFew'
<1> USE DEF SnullInv, SnTypes
<1> DEFINE p == sn_param.pool_size
           In(q) == \E t \in SnKinds, e \in Sn!Devs : q \in SnIn(t, e)
<1>1. p \in Nat /\ sn_timeouts \in Nat
  BY SnParameters
<1>2. ASSUME NEW c \in Sn!Devs
      PROVE  SnKnown(c)' \subseteq SnKnown(c) \cup (IF c = d THEN new ELSE {})
  <2> SUFFICES ASSUME NEW q \in Sn!Packets(c), In(q)'
               PROVE  q \in SnKnown(c) \cup (IF c = d THEN new ELSE {})
    BY SnSame DEF SnKnown
  <2>1. q \in SnPackets /\ Sn!dev(q) = c
    BY SnPacketOf
  <2>2. q \in new => c = d
    BY <2>1, SnPacketOf DEF SnNewPool
  <2>3. PICK t \in SnKinds, e \in Sn!Devs : (q \in SnIn(t, e))'
    OBVIOUS
  <2>4. q \in new \/ q \in SnIn(t, e)
    BY <2>1, <2>3 DEF SnNewPool
  <2> QED BY <2>2, <2>4 DEF SnKnown
<1>3. ASSUME NEW c \in Sn!Devs
      PROVE  /\ IsFiniteSet(SnKnown(c)) /\ Cardinality(SnKnown(c)) \in Nat
             /\ Cardinality(SnKnown(c)) <= p * SnResets(c)
  <2>1. SnKnown(c) \subseteq Sn!Packets(c) /\ IsFiniteSet(Sn!Packets(c))
    BY SnPacketsFinite DEF SnKnown
  <2> QED BY <2>1, FS_Subset, FS_CardinalityType DEF SnKnownFew
<1> SUFFICES ASSUME NEW c \in Sn!Devs
             PROVE  Cardinality(SnKnown(c)') <= p * SnResets(c)'
  BY DEF SnKnownFew
<1>4. CASE c # d
  <2>1. SnResets(c)' = SnResets(c)
    BY <1>4 DEF SnResets, SnSends
  <2>2. SnKnown(c)' \subseteq SnKnown(c)
    BY <1>2, <1>4
  <2>3. /\ Cardinality(SnKnown(c)') <= Cardinality(SnKnown(c))
        /\ Cardinality(SnKnown(c)') \in Nat
    BY <1>3, <2>2, FS_Subset, FS_CardinalityType
  <2>4. p * SnResets(c) \in Nat
    BY <1>1 DEF SnResets
  <2> HIDE DEF p
  <2> QED BY <1>3, <2>1, <2>3, <2>4
<1>5. CASE c = d
  <2>1. SnResets(c) = sn_timeouts /\ SnResets(c)' = sn_timeouts + 1
    BY <1>5 DEF SnResets, SnSends
  <2>2. IsFiniteSet(new) /\ Cardinality(new) \in Nat
    <3>1. new \subseteq Sn!Packets(d) /\ IsFiniteSet(Sn!Packets(d))
      BY SnPacketsFinite DEF SnNewPool
    <3> QED BY <3>1, FS_Subset, FS_CardinalityType
  <2>3. /\ IsFiniteSet(SnKnown(c) \cup new)
        /\ Cardinality(SnKnown(c) \cup new) <= Cardinality(SnKnown(c)) + Cardinality(new)
        /\ Cardinality(SnKnown(c) \cup new) \in Nat
    <3>1. Cardinality(SnKnown(c) \cap new) \in Nat
      BY <1>3, FS_Subset, FS_CardinalityType
    <3>2. /\ IsFiniteSet(SnKnown(c) \cup new)
          /\ Cardinality(SnKnown(c) \cup new) =
               Cardinality(SnKnown(c)) + Cardinality(new) - Cardinality(SnKnown(c) \cap new)
      BY <1>3, <2>2, FS_Union
    <3> QED BY <1>3, <2>2, <3>1, <3>2, FS_CardinalityType
  <2>4. /\ Cardinality(SnKnown(c)') <= Cardinality(SnKnown(c) \cup new)
        /\ Cardinality(SnKnown(c)') \in Nat
    BY <1>2, <1>5, <2>3, FS_Subset, FS_CardinalityType
  <2>5. p * (sn_timeouts + 1) = p * sn_timeouts + p /\ p * sn_timeouts \in Nat
    BY <1>1
  <2>6. Cardinality(SnKnown(c)) <= p * sn_timeouts /\ Cardinality(new) <= p
    BY <1>3, <2>1
  <2> HIDE DEF p
  <2> QED BY <1>1, <1>3, <2>1, <2>2, <2>3, <2>4, <2>5, <2>6
<1> QED BY <1>4, <1>5

(* The pool of a device that timed out is allocated anew.                  *)
LEMMA SnResetStep ==
  ASSUME SnullInv, NEW d \in Sn!Devs, Sn!ResetPool(d)
  PROVE  SnullInv'
<1> USE DEF SnullInv, SnTypes
<1>1. UNCHANGED <<sn_param, sn_state, sn_poll, sn_timeouts, sn_status, sn_rx_queue,
                  sn_rx_int_enabled, sn_napi, sn_missed>>
  BY DEF Sn!ResetPool, Sn!SenderUnchanged, Sn!irq
<1>2. sn_stopped' = [sn_stopped EXCEPT ![d] = FALSE]
  BY DEF Sn!ResetPool
<1>3. sn_sender[d].at = "timeout" /\ sn_timeouts # 0
  BY DEF Sn!ResetPool, SnHands, SnFits
<1>4. PICK new : /\ SnNewPool(d, new) /\ Cardinality(new) <= sn_param.pool_size
                 /\ sn_ppool' = [sn_ppool EXCEPT ![d] = new]
  BY SnReset
<1>5. SnSends(d, "idle", "idle", Sn!NoPacket) /\ SnFits("idle", "idle", Sn!NoPacket)
  BY SnReset
<1>6. SnDevices'
  BY <1>1, <1>2 DEF SnDevices
<1>7. SnPools'
  <2>1. new \subseteq Sn!Packets(d) /\ new \subseteq SnPackets
    BY <1>4, SnPacketOf DEF SnNewPool
  <2> QED BY <1>1, <1>4, <2>1, SnSame DEF SnPools
<1>8. SnHands'
  <2>1. \A e \in Sn!Devs : e # d /\ sn_sender[e].pc = "get" => ~ sn_stopped'[e]
    BY <1>2 DEF SnHands, SnDevices
  <2> QED BY <1>1, <1>3, <1>5, <2>1, SnHandsKept
<1>9. SnAlone' /\ SnKnownFew'
  BY <1>1, <1>3, <1>4, <1>5, SnNewAlone, SnNewKnown
<1>10. SnSomewhere' /\ SnStarted' /\ SnListens'
  BY <1>1, <1>3 DEF SnSomewhere, SnStarted, SnListens
<1> QED BY <1>6, <1>7, <1>8, <1>9, <1>10
(* A pool fits in the packets of its device.                               *)
LEMMA SnFirstPool ==
  ASSUME SnDevices, NEW d \in Sn!Devs
  PROVE  /\ {d} \X (1 .. sn_param.pool_size) \subseteq Sn!Packets(d)
         /\ IsFiniteSet({d} \X (1 .. sn_param.pool_size))
         /\ Cardinality({d} \X (1 .. sn_param.pool_size)) = sn_param.pool_size
<1> DEFINE p == sn_param.pool_size
<1>1. p \in Nat /\ sn_param.MaxTimeouts \in Nat
  BY SnParameters
<1>2. p <= p * (sn_param.MaxTimeouts + 1) /\ p * (sn_param.MaxTimeouts + 1) \in Nat
  BY <1>1
<1>3. IsFiniteSet(1 .. p) /\ Cardinality(1 .. p) = p
  <2> HIDE DEF p
  <2> QED BY <1>1, FS_Interval
<1>4. IsFiniteSet({d}) /\ Cardinality({d}) = 1
  BY FS_Singleton
<1>5. /\ IsFiniteSet({d} \X (1 .. p))
      /\ Cardinality({d} \X (1 .. p)) = Cardinality({d}) * Cardinality(1 .. p)
  BY <1>3, <1>4, FS_Product
<1>6. Cardinality({d} \X (1 .. p)) = p
  BY <1>1, <1>3, <1>4, <1>5
<1>7. {d} \X (1 .. p) \subseteq Sn!Packets(d)
  BY <1>1, <1>2 DEF Sn!Packets, Sn!pool_size
<1> QED BY <1>5, <1>6, <1>7

(* The initial states.                                                     *)
LEMMA SnInit ==
  ASSUME Sn!Init
  PROVE  SnullInv
<1>1. /\ sn_timeouts = 0
      /\ \A d \in Sn!Devs : /\ sn_sender[d] = Sn!IdleSender /\ sn_poll[d] = Sn!IdlePoll
                            /\ sn_rx_queue[d] = {}
                            /\ sn_ppool[d] = {d} \X (1 .. sn_param.pool_size)
                            /\ sn_state[d] = "down" /\ sn_rx_int_enabled[d]
  BY DEF Sn!Init, Sn!pool_size
<1>2. SnDevices
  <2>1. sn_param.MaxTimeouts \in Nat
    BY SnullAssumption DEF Sn!Init
  <2>2. [scheduled |-> FALSE, again |-> FALSE] \in [scheduled : BOOLEAN, again : BOOLEAN]
    OBVIOUS
  <2>3. sn_napi \in [Sn!Devs -> [scheduled : BOOLEAN, again : BOOLEAN]]
    BY <2>2 DEF Sn!Init
  <2> QED BY <2>1, <2>3 DEF Sn!Init, SnDevices
<1>3. \A d \in Sn!Devs : sn_ppool[d] \subseteq Sn!Packets(d) /\ sn_ppool[d] \subseteq SnPackets
  BY <1>1, <1>2, SnFirstPool, SnPacketOf
<1>4. SnPools
  <2>1. sn_ppool \in [Sn!Devs -> SUBSET SnPackets]
    BY <1>3 DEF Sn!Init
  <2> QED BY <1>3, <2>1 DEF Sn!Init, SnPools
<1>5. SnHands
  <2>1. sn_sender \in [Sn!Devs -> SnSenders] /\ sn_poll \in [Sn!Devs -> SnPolls]
    BY SnIdle DEF Sn!Init
  <2> QED BY <1>1, <2>1, SnIdle DEF SnHands, SnFits
<1>6. \A q \in SnPackets : \A s \in SnKinds, c \in Sn!Devs :
        q \in SnIn(s, c) <=> s = "pool" /\ q \in sn_ppool[c]
  <2> SUFFICES ASSUME NEW q \in SnPackets, NEW c \in Sn!Devs
               PROVE  /\ q \in SnIn("pool", c) <=> q \in sn_ppool[c]
                      /\ q \notin SnIn("queue", c) /\ q \notin SnIn("sender", c)
                      /\ q \notin SnIn("poll", c)
    BY DEF SnKinds
  <2> QED BY <1>1, <1>5, SnIdle, SnInHand
<1>7. SnAlone
  <2> SUFFICES ASSUME NEW q \in SnPackets, NEW d \in Sn!Devs, NEW e \in Sn!Devs,
                      q \in sn_ppool[d], q \in sn_ppool[e]
               PROVE  d = e
    BY <1>6 DEF SnAlone
  <2> QED BY <1>3, SnPacketOf
<1>8. SnSomewhere
  <2> SUFFICES ASSUME NEW d \in Sn!Devs, NEW n \in 1 .. sn_param.pool_size
               PROVE  \E t \in SnKinds, e \in Sn!Devs : <<d, n>> \in SnIn(t, e)
    BY DEF SnSomewhere
  <2>1. <<d, n>> \in sn_ppool[d]
    BY <1>1
  <2> QED BY <2>1 DEF SnIn, SnKinds
<1>9. SnKnownFew
  <2> SUFFICES ASSUME NEW d \in Sn!Devs
               PROVE  Cardinality(SnKnown(d)) <= sn_param.pool_size * SnResets(d)
    BY DEF SnKnownFew
  <2>1. SnKnown(d) \subseteq {d} \X (1 .. sn_param.pool_size)
    <3> SUFFICES ASSUME NEW q \in SnKnown(d) PROVE q \in sn_ppool[d]
      BY <1>1
    <3>1. q \in Sn!Packets(d) /\ q \in SnPackets
      BY SnPacketOf DEF SnKnown
    <3>2. PICK e \in Sn!Devs : q \in sn_ppool[e]
      BY <1>6, <3>1 DEF SnKnown
    <3> QED BY <1>3, <3>1, <3>2, SnPacketOf
  <2>2. Cardinality(SnKnown(d)) <= sn_param.pool_size
    <3> DEFINE first == {d} \X (1 .. sn_param.pool_size)
    <3>1. IsFiniteSet(first) /\ Cardinality(first) = sn_param.pool_size
      BY <1>2, SnFirstPool
    <3> HIDE DEF first
    <3>2. SnKnown(d) \in SUBSET first
      BY <2>1 DEF first
    <3> QED BY <3>1, <3>2, FS_Subset
  <2>3. SnResets(d) = 1
    BY <1>1, SnIdle DEF SnResets
  <2> QED BY <1>2, <2>2, <2>3, SnParameters
<1>10. SnStarted /\ SnListens
  BY <1>1 DEF SnStarted, SnListens
<1> QED BY <1>2, <1>4, <1>5, <1>7, <1>8, <1>9, <1>10 DEF SnullInv, SnTypes

(* A step that changes nothing.                                            *)
LEMMA SnStutter ==
  ASSUME SnullInv, UNCHANGED Sn!vars
  PROVE  SnullInv'
<1>1. UNCHANGED <<sn_param, sn_state, sn_ppool, sn_rx_queue, sn_ends, sn_rx_int_enabled,
                  sn_status, sn_stopped, sn_napi, sn_sender, sn_poll, sn_timeouts, sn_missed>>
  BY DEF Sn!vars
<1>2. SnPackets' = SnPackets /\ SnSenders' = SnSenders /\ SnPolls' = SnPolls
  BY <1>1, SnSame DEF SnSenders, SnPolls
<1>3. SnTypes'
  BY <1>1, <1>2, SnSame DEF SnullInv, SnTypes, SnDevices, SnPools, SnHands, SnFits
<1>4. SnStill
  BY <1>1 DEF SnStill, SnIn, Sn!InHand
<1>5. SnAlone' /\ SnSomewhere' /\ SnKnownFew'
  <2>1. \A e \in Sn!Devs : SnResets(e)' = SnResets(e) /\ SnResets(e) \in Int
    BY <1>1, SnParameters DEF SnResets, SnullInv, SnTypes
  <2> QED BY <1>1, <1>4, <2>1, SnKept DEF SnGoes, SnullInv, SnTypes
<1>6. SnStarted' /\ SnListens'
  <2>1. Sn!Tested' = Sn!Tested
    BY <1>1 DEF Sn!Tested
  <2> QED BY <1>1, <2>1 DEF SnStarted, SnListens, SnullInv
<1> QED BY <1>3, <1>5, <1>6 DEF SnullInv

(* Every step keeps the invariant.                                         *)
LEMMA SnStep ==
  ASSUME SnullInv, [Sn!Next]_(Sn!vars)
  PROVE  SnullInv'
<1>1. CASE Sn!Next
  <2>1. PICK d \in Sn!Devs : \/ Sn!snull_open(d) \/ Sn!snull_release(d) \/ Sn!Disabled(d)
                             \/ Sn!Send(d) \/ Sn!Poll(d)
    BY <1>1 DEF Sn!Next
  <2>2. CASE Sn!Send(d)
    BY <2>2, SnTransmitStep, SnGetStep, SnEnqueueStep, SnEnabledStep, SnStatusStep,
       SnDropStep, SnInterruptStep, SnReleaseStep, SnWakeStep, SnTimeoutStep, SnResetStep
    DEF Sn!Send
  <2>3. CASE Sn!Poll(d)
    BY <2>3, SnPollReceives, SnPollReleases, SnPollWakes, SnPollAgain, SnPollFoundAll,
       SnPollCompletes
    DEF Sn!Poll
  <2> QED BY <2>1, <2>2, <2>3, SnStateStep
<1> QED BY <1>1, SnStutter

(* The places of a packet that Snull counts.                               *)
LEMMA SnOnce ==
  ASSUME SnullInv
  PROVE  SnullPacketsOnce
<1> USE DEF SnullInv, SnTypes
<1>1. \A d \in Sn!Devs : sn_ppool[d] \subseteq Sn!Packets(d)
  BY DEF SnPools
<1> SUFFICES ASSUME NEW d \in Sn!Devs, NEW pkt \in Sn!Packets(d)
             PROVE  /\ Cardinality(Sn!Places(pkt)) <= 1
                    /\ sn_timeouts = 0 /\ pkt[2] <= sn_param.pool_size => Sn!Places(pkt) # {}
  BY <1>1, SnCardinality DEF SnullPacketsOnce, Sn!PacketsOnce, Sn!pool_size
<1>2. pkt \in SnPackets
  BY SnPacketOf
<1>3. \A t \in SnKinds, e \in Sn!Devs : <<t, e>> \in Sn!Places(pkt) <=> pkt \in SnIn(t, e)
  BY DEF Sn!Places, SnKinds, SnIn
<1>4. Sn!Places(pkt) \subseteq SnKinds \X Sn!Devs
  BY DEF Sn!Places, SnKinds
<1>5. Cardinality(Sn!Places(pkt)) <= 1
  <2>1. CASE Sn!Places(pkt) = {}
    BY <2>1, FS_EmptySet
  <2>2. CASE Sn!Places(pkt) # {}
    <3>1. PICK x \in Sn!Places(pkt) : TRUE
      BY <2>2
    <3>2. Sn!Places(pkt) \subseteq {x}
      BY <1>2, <1>3, <1>4 DEF SnAlone
    <3>3. IsFiniteSet({x}) /\ Cardinality({x}) = 1
      BY FS_Singleton
    <3>4. Cardinality(Sn!Places(pkt)) <= Cardinality({x})
      BY <3>2, <3>3, FS_Subset
    <3> QED BY <3>3, <3>4
  <2> QED BY <2>1, <2>2
<1>6. ASSUME sn_timeouts = 0, pkt[2] <= sn_param.pool_size
      PROVE  Sn!Places(pkt) # {}
  <2>1. PICK n \in 1 .. Sn!pool_size * (sn_param.MaxTimeouts + 1) : pkt = <<d, n>>
    BY DEF Sn!Packets
  <2>2. n \in 1 .. sn_param.pool_size
    BY <1>6, <2>1, SnParameters
  <2>3. PICK t \in SnKinds, e \in Sn!Devs : pkt \in SnIn(t, e)
    BY <1>6, <2>1, <2>2 DEF SnSomewhere
  <2> QED BY <1>3, <2>3
<1> QED BY <1>5, <1>6

(* SnullPacketsOnce: a packet is in a pool, a queue or somebody's hand and *)
(* nowhere else, and in no other device's pool; and until a pool is torn   *)
(* down every packet is somewhere (snull.c:118-191).  For every size of    *)
(* the pools and every number of time-outs, with and without NAPI.         *)
THEOREM PacketsCorrect == DriversSpec => []SnullPacketsOnce
BY SnInit, SnStep, SnOnce, DriversAlone, PTL DEF Sn!Spec, Sn!vars, snull_vars

(* SnullGoesOn: a queue that was stopped for want of packets and has one   *)
(* is about to be started; and a device that is up has its interrupt       *)
(* enabled or a poll scheduled, unless an interrupt or the end of a poll   *)
(* found it closing (snull.c:160-165, 332-341, 421-424).  Of a packet that *)
(* was queued meanwhile nothing is said.                                   *)
THEOREM GoesOnCorrect == DriversSpec => []SnullGoesOn
<1>1. SnullInv => SnullGoesOn
  <2> SUFFICES ASSUME SnullInv PROVE Sn!QueueStarted /\ Sn!NotDeaf
    BY DEF SnullGoesOn
  <2>1. Sn!QueueStarted
    <3> SUFFICES ASSUME sn_timeouts = 0, ~ sn_param.lockup, NEW d \in Sn!Devs,
                        sn_state[d] = "up", sn_stopped[d], sn_ppool[d] # {}
                 PROVE  \E pkt \in Sn!Tested \cap sn_ends : Sn!dev(pkt) = d
      BY DEF Sn!QueueStarted, Sn!lockup
    <3>1. PICK pkt \in sn_ppool[d] : pkt \in Sn!Tested /\ pkt \in sn_ends
      BY DEF SnullInv, SnStarted
    <3>2. Sn!dev(pkt) = d
      BY <3>1, SnPacketOf DEF SnullInv, SnTypes, SnPools
    <3> QED BY <3>1, <3>2
  <2>2. Sn!NotDeaf
    BY DEF SnullInv, SnListens, Sn!NotDeaf, Sn!use_napi
  <2> QED BY <2>1, <2>2
<1> QED
  BY <1>1, SnInit, SnStep, DriversAlone, PTL DEF Sn!Spec, Sn!vars, snull_vars
=============================================================================
