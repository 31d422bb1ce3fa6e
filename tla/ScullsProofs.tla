---------------------------- MODULE ScullsProofs ----------------------------
(***************************************************************************)
(* Proofs about scull, scullc, scullp, sculld and scullv, the devices of   *)
(* Drivers that keep a file in memory, for every value of the constants:   *)
(* the geometry of their lists, the objects of their caches, and the       *)
(* memory that a file has and that mappings of it show.                    *)
(***************************************************************************)
EXTENDS DriversProofs

-----------------------------------------------------------------------------
(***************************************************************************)
(* The memory of scull and its copies: lists of arrays of quanta.          *)
(***************************************************************************)
List(f) == f \in Seq({f[i] : i \in DOMAIN f})

(* Every array of the list is indexed by A; every quantum of its k-th item *)
(* has the bytes F[k].                                                     *)
Arrays(data, A) == \A k \in DOMAIN data : data[k] # NULL => DOMAIN data[k] = A
QuantaHold(data, F) ==
  \A k \in DOMAIN data : \A i \in DOMAIN data[k] :
    data[k][i] # NULL => DOMAIN data[k][i] = F[k]

(* NULL is not an array and not a quantum with bytes.                      *)
LEMMA NullEmpty == DOMAIN NULL = {} /\ \A f : DOMAIN f # {} => f # NULL
BY DEF NULL

(* A function on 1 .. n is a list of n members.                            *)
LEMMA ListOf ==
  ASSUME NEW n \in Nat, NEW f, f = [i \in 1 .. n |-> f[i]]
  PROVE  List(f) /\ Len(f) = n /\ DOMAIN f = 1 .. n
<1> DEFINE S == {f[i] : i \in 1 .. n}
<1>1. f \in [1 .. n -> S] /\ DOMAIN f = 1 .. n
  OBVIOUS
<1> HIDE DEF S
<1>2. f \in Seq(S) /\ Len(f) = n
  BY <1>1, FunctionIsSeq
<1> QED BY <1>1, <1>2 DEF List, S

(* What it is to be a list.                                                *)
LEMMA ListIs ==
  ASSUME NEW f, List(f)
  PROVE  Len(f) \in Nat /\ DOMAIN f = 1 .. Len(f) /\ f = [i \in 1 .. Len(f) |-> f[i]]
<1> DEFINE S == {f[i] : i \in DOMAIN f}
<1>1. f \in Seq(S)
  BY DEF List
<1> HIDE DEF S
<1> QED BY <1>1

(* The first n members of a list.                                          *)
LEMMA FirstOf ==
  ASSUME NEW f, List(f), NEW n \in 0 .. Len(f)
  PROVE  Len(SubSeq(f, 1, n)) = n /\ DOMAIN SubSeq(f, 1, n) = 1 .. n
<1> DEFINE S == {f[i] : i \in DOMAIN f}
<1>1. f \in Seq(S)
  BY DEF List
<1> HIDE DEF S
<1> QED BY <1>1

(* Items are added to the end of the list, without arrays.                 *)
LEMMA LongerShape ==
  ASSUME NEW data, List(data), NEW n \in Nat
  PROVE  /\ List(Longer(data, n)) /\ n <= Len(Longer(data, n))
         /\ \A F : QuantaHold(data, F) => QuantaHold(Longer(data, n), F)
         /\ \A A : Arrays(data, A) => Arrays(Longer(data, n), A)
<1> DEFINE m == IF Len(data) < n THEN n ELSE Len(data)
           l == Longer(data, n)
<1>1. Len(data) \in Nat /\ DOMAIN data = 1 .. Len(data)
  BY ListIs
<1>2. m \in Nat /\ n <= m /\ l = [i \in 1 .. m |-> IF i <= Len(data) THEN data[i] ELSE NULL]
  BY <1>1 DEF Longer
<1> HIDE DEF m, l
<1>3. l = [i \in 1 .. m |-> l[i]]
  BY <1>2
<1>4. List(l) /\ Len(l) = m /\ DOMAIN l = 1 .. m
  BY <1>2, <1>3, ListOf
<1>5. \A k \in DOMAIN l : l[k] = NULL \/ (k \in DOMAIN data /\ l[k] = data[k])
  BY <1>1, <1>2, <1>4
<1>6. ASSUME NEW F, QuantaHold(data, F) PROVE QuantaHold(l, F)
  BY <1>5, <1>6, NullEmpty DEF QuantaHold
<1>7. ASSUME NEW A, Arrays(data, A) PROVE Arrays(l, A)
  BY <1>5, <1>7 DEF Arrays
<1> QED BY <1>2, <1>4, <1>6, <1>7 DEF l

(* The list that a write finds or makes on its way to an array.            *)
LEMMA WithArrayShape ==
  ASSUME NEW data, List(data), NEW at, at.item \in Nat, NEW qset \in Nat
  PROVE  /\ List(WithArray(data, at, qset))
         /\ at.item < Len(WithArray(data, at, qset))
         /\ qset > 0 => WithArray(data, at, qset)[at.item + 1] # NULL
         /\ \A F : QuantaHold(data, F) => QuantaHold(WithArray(data, at, qset), F)
         /\ Arrays(data, 0 .. qset - 1) =>
              Arrays(WithArray(data, at, qset), 0 .. qset - 1)
<1> DEFINE l == Longer(data, at.item + 1)
           w == WithArray(data, at, qset)
           new == [i \in 0 .. qset - 1 |-> NULL]
<1>1. /\ List(l) /\ at.item + 1 <= Len(l)
      /\ \A F : QuantaHold(data, F) => QuantaHold(l, F)
      /\ \A A : Arrays(data, A) => Arrays(l, A)
  BY LongerShape
<1>2. w = [l EXCEPT ![at.item + 1] = IF @ = NULL THEN new ELSE @]
  BY DEF WithArray, scull_follow
<1> HIDE DEF l, w
<1>3. Len(l) \in Nat /\ DOMAIN l = 1 .. Len(l) /\ l = [i \in 1 .. Len(l) |-> l[i]]
  BY <1>1, ListIs
<1>4. w = [i \in 1 .. Len(l) |-> IF i = at.item + 1 /\ l[i] = NULL THEN new ELSE l[i]]
  BY <1>2, <1>3
<1> HIDE DEF new
<1>5. List(w) /\ Len(w) = Len(l) /\ DOMAIN w = 1 .. Len(l)
  <2>1. w = [i \in 1 .. Len(l) |-> w[i]]
    BY <1>4
  <2> QED BY <1>3, <2>1, ListOf
<1>6. \A k \in DOMAIN w : (w[k] = new /\ l[k] = NULL) \/ w[k] = l[k]
  BY <1>4, <1>5
<1>7. DOMAIN new = 0 .. qset - 1 /\ \A i \in DOMAIN new : new[i] = NULL
  BY DEF new
<1>8. ASSUME NEW F, QuantaHold(l, F) PROVE QuantaHold(w, F)
  BY <1>3, <1>5, <1>6, <1>7, <1>8 DEF QuantaHold
<1>9. Arrays(l, 0 .. qset - 1) => Arrays(w, 0 .. qset - 1)
  BY <1>3, <1>5, <1>6, <1>7 DEF Arrays
<1>10. qset > 0 => w[at.item + 1] # NULL
  <2>1. at.item + 1 \in 1 .. Len(l)
    BY <1>1, <1>3
  <2>2. qset > 0 => new # NULL
    <3>1. qset > 0 => 0 \in DOMAIN new
      BY <1>7
    <3> QED BY <3>1, NullEmpty
  <2>3. w[at.item + 1] = IF l[at.item + 1] = NULL THEN new ELSE l[at.item + 1]
    BY <1>4, <2>1
  <2> QED BY <2>2, <2>3
<1>11. at.item < Len(w)
  BY <1>1, <1>3, <1>5
<1> QED BY <1>1, <1>5, <1>8, <1>9, <1>10, <1>11 DEF w

(* A quantum is put at a place.                                            *)
LEMMA SetShape ==
  ASSUME NEW data, List(data), NEW at, at.item \in Nat, at.item < Len(data), NEW quantum
  PROVE  /\ List(SetQuantum(data, at, quantum))
         /\ Len(SetQuantum(data, at, quantum)) = Len(data)
         /\ QuantumAt(SetQuantum(data, at, quantum), at) = quantum
         /\ \A F : QuantaHold(data, F) /\ DOMAIN quantum = F[at.item + 1] =>
                     QuantaHold(SetQuantum(data, at, quantum), F)
         /\ \A A : Arrays(data, A) /\ data[at.item + 1] # NULL /\ at.s_pos \in A =>
                     Arrays(SetQuantum(data, at, quantum), A)
<1> DEFINE w == SetQuantum(data, at, quantum)
           k == at.item + 1
           array == [i \in DOMAIN data[k] \cup {at.s_pos} |->
                       IF i = at.s_pos THEN quantum ELSE data[k][i]]
<1>1. /\ Len(data) \in Nat /\ DOMAIN data = 1 .. Len(data)
      /\ data = [i \in 1 .. Len(data) |-> data[i]]
  BY ListIs
<1>2. k \in 1 .. Len(data)
  BY <1>1
<1>3. w = [data EXCEPT ![k] = array]
  BY DEF SetQuantum
<1>4. DOMAIN array = DOMAIN data[k] \cup {at.s_pos}
  OBVIOUS
<1>5. \A i \in DOMAIN array : array[i] = IF i = at.s_pos THEN quantum ELSE data[k][i]
  OBVIOUS
<1> HIDE DEF w, array
<1>6. w = [i \in 1 .. Len(data) |-> IF i = k THEN array ELSE data[i]]
  BY <1>1, <1>3
<1> HIDE DEF k
<1>7. List(w) /\ Len(w) = Len(data) /\ DOMAIN w = 1 .. Len(data)
  <2>1. w = [i \in 1 .. Len(data) |-> w[i]]
    BY <1>6
  <2> QED BY <1>1, <2>1, ListOf
<1>8. w[k] = array /\ \A i \in DOMAIN w : i # k => w[i] = data[i]
  BY <1>2, <1>6, <1>7
<1>9. QuantumAt(w, at) = quantum
  BY <1>4, <1>5, <1>7, <1>8 DEF QuantumAt, At, k
<1>10. ASSUME NEW F, QuantaHold(data, F), DOMAIN quantum = F[k] PROVE QuantaHold(w, F)
  <2> SUFFICES ASSUME NEW j \in DOMAIN w, NEW i \in DOMAIN w[j], w[j][i] # NULL
               PROVE  DOMAIN w[j][i] = F[j]
    BY DEF QuantaHold
  <2>1. CASE j # k
    BY <1>1, <1>7, <1>8, <1>10, <2>1 DEF QuantaHold
  <2>2. CASE j = k
    BY <1>1, <1>2, <1>4, <1>5, <1>8, <1>10, <2>2 DEF QuantaHold
  <2> QED BY <2>1, <2>2
<1>11. ASSUME NEW A, Arrays(data, A), data[k] # NULL, at.s_pos \in A PROVE Arrays(w, A)
  <2>1. DOMAIN data[k] = A
    BY <1>1, <1>2, <1>11 DEF Arrays
  <2>2. DOMAIN array = A
    BY <1>4, <1>11, <2>1
  <2> QED BY <1>1, <1>7, <1>8, <1>11, <2>2 DEF Arrays
<1> QED BY <1>7, <1>9, <1>10, <1>11 DEF w, k

-----------------------------------------------------------------------------
(* Scull: what a call under way has taken along, and what a file and the   *)
(* device are.  A write was let in where its bytes fit.                    *)
Device(quantum, qset, size, data) ==
  [quantum |-> quantum, qset |-> qset, size |-> size, data |-> data]

CallFits(p) ==
  /\ call[p].op \in {"none", "read", "write", "done"}
  /\ call[p].op \in {"read", "write"} =>
       call[p].quantum \in Nat /\ call[p].qset \in Nat
  /\ call[p].op = "read" => call[p].arg \in Nat
  /\ call[p].op = "write" =>
       List(call[p].arg) /\ file[p].f_pos + Len(call[p].arg) <= MaxPos

ScullTypes ==
  /\ scull_quantum \in Quanta \cup {SCULL_QUANTUM}
  /\ scull_qset \in Qsets \cup {SCULL_QSET}
  /\ dev = Device(dev.quantum, dev.qset, dev.size, dev.data)
  /\ dev.quantum \in Nat /\ dev.qset \in Nat /\ dev.size \in 0 .. MaxPos
  /\ file \in [Procs -> [mode : {"closed", "r", "w", "rw"}, f_pos : 0 .. MaxPos]]
  /\ call = [p \in Procs |-> call[p]]
  /\ \A p \in Procs : CallFits(p)

(* The call of p is answered, or p returns.                                *)
LEMMA ScullFinish ==
  ASSUME ScullTypes, NEW p \in Procs,
         (\E result : Finish(p, result)) \/ call' = [call EXCEPT ![p] = NoCall],
         file' \in [Procs -> [mode : {"closed", "r", "w", "rw"}, f_pos : 0 .. MaxPos]],
         \A q \in Procs : q # p => file'[q] = file[q],
         ParametersUnchanged,
         dev' = Device(dev'.quantum, dev'.qset, dev'.size, dev'.data),
         dev'.quantum \in Nat /\ dev'.qset \in Nat /\ dev'.size \in 0 .. MaxPos
  PROVE  ScullTypes'
<1>1. call' = [q \in Procs |-> call'[q]]
  BY DEF ScullTypes, Finish
<1>2. call'[p].op \in {"none", "done"} /\ \A q \in Procs : q # p => call'[q] = call[q]
  <2>1. CASE \E result : Finish(p, result)
    <3>1. PICK result : call' = [call EXCEPT ![p] = [op |-> "done", result |-> result]]
      BY <2>1 DEF Finish
    <3> QED BY <3>1 DEF ScullTypes
  <2>2. CASE call' = [call EXCEPT ![p] = NoCall]
    BY <2>2 DEF NoCall, ScullTypes
  <2> QED BY <2>1, <2>2
<1>3. ASSUME NEW q \in Procs PROVE CallFits(q)'
  <2>1. CASE q = p
    BY <1>2, <2>1 DEF CallFits
  <2>2. CASE q # p
    BY <1>2, <2>2 DEF CallFits, ScullTypes
  <2> QED BY <2>1, <2>2
<1> QED BY <1>1, <1>3 DEF ScullTypes, ParametersUnchanged, Device

(* Where a position is in its quantum.                                     *)
LEMMA PlaceInQuantum ==
  ASSUME NEW pos \in Nat, NEW quantum \in Nat, NEW qset \in Nat, quantum * qset > 0
  PROVE  Place(pos, quantum, qset).q_pos \in 0 .. quantum - 1
<1>1. quantum > 0 /\ quantum * qset \in Nat \ {0}
  BY Z3
<1>2. pos % (quantum * qset) \in Nat
  BY <1>1
<1> DEFINE rest == pos % (quantum * qset)
<1> HIDE DEF rest
<1>3. rest % quantum \in 0 .. quantum - 1
  BY <1>1, <1>2 DEF rest
<1> QED BY <1>3 DEF Place, rest

(* There is a quantum of the bytes D at a place.                           *)
Reaches(data, at, D) == at.item < Len(data) /\ DOMAIN QuantumAt(data, at) = D

(* The list with the quantum that a write finds or makes.                  *)
LEMMA WithQuantumShape ==
  ASSUME NEW data, List(data), NEW at, at.item \in Nat, NEW qset \in Nat,
         NEW fresh, NEW F, QuantaHold(data, F), DOMAIN fresh = F[at.item + 1]
  PROVE  /\ List(WithQuantum(data, at, qset, fresh))
         /\ QuantaHold(WithQuantum(data, at, qset, fresh), F)
         /\ Reaches(WithQuantum(data, at, qset, fresh), at, F[at.item + 1])
         /\ Arrays(data, 0 .. qset - 1) /\ at.s_pos \in 0 .. qset - 1 =>
              Arrays(WithQuantum(data, at, qset, fresh), 0 .. qset - 1)
<1> DEFINE l == WithArray(data, at, qset)
           w == WithQuantum(data, at, qset, fresh)
<1>1. /\ List(l) /\ at.item < Len(l) /\ QuantaHold(l, F)
      /\ qset > 0 => l[at.item + 1] # NULL
      /\ Arrays(data, 0 .. qset - 1) => Arrays(l, 0 .. qset - 1)
  BY WithArrayShape
<1>2. w = IF QuantumAt(l, at) = NULL THEN SetQuantum(l, at, fresh) ELSE l
  BY DEF WithQuantum
<1> HIDE DEF l, w
<1>3. at.s_pos \in 0 .. qset - 1 => qset > 0
  OBVIOUS
<1>4. Len(l) \in Nat /\ DOMAIN l = 1 .. Len(l) /\ at.item + 1 \in DOMAIN l
  BY <1>1, ListIs
<1>5. CASE QuantumAt(l, at) = NULL
  <2> DEFINE s == SetQuantum(l, at, fresh)
  <2>1. /\ List(s) /\ Len(s) = Len(l) /\ QuantumAt(s, at) = fresh /\ QuantaHold(s, F)
        /\ Arrays(l, 0 .. qset - 1) /\ l[at.item + 1] # NULL /\ at.s_pos \in 0 .. qset - 1 =>
             Arrays(s, 0 .. qset - 1)
    BY <1>1, SetShape
  <2>2. w = s
    BY <1>2, <1>5
  <2> HIDE DEF s
  <2>3. Arrays(data, 0 .. qset - 1) /\ at.s_pos \in 0 .. qset - 1 =>
          Arrays(w, 0 .. qset - 1)
    BY <1>1, <1>3, <2>1, <2>2
  <2> QED BY <1>1, <2>1, <2>2, <2>3 DEF w, Reaches
<1>6. CASE QuantumAt(l, at) # NULL
  <2>1. w = l
    BY <1>2, <1>6
  <2>2. DOMAIN QuantumAt(l, at) = F[at.item + 1]
    <3>1. at.s_pos \in DOMAIN l[at.item + 1] /\ QuantumAt(l, at) = l[at.item + 1][at.s_pos]
      BY <1>1, <1>6 DEF QuantumAt, At
    <3> QED BY <1>1, <1>4, <1>6, <3>1 DEF QuantaHold
  <2> QED BY <1>1, <1>3, <2>1, <2>2 DEF w, Reaches
<1> QED BY <1>5, <1>6

(* The list after bytes were put into a quantum that holds them.           *)
LEMMA WrittenShape ==
  ASSUME NEW data, List(data), NEW at, at.item \in Nat, at.q_pos \in Nat,
         NEW F, QuantaHold(data, F), Reaches(data, at, F[at.item + 1]),
         F[at.item + 1] # {}, NEW d, Len(d) \in Nat,
         at.q_pos .. at.q_pos + Len(d) - 1 \subseteq F[at.item + 1]
  PROVE  /\ List(Written(data, at, d)) /\ QuantaHold(Written(data, at, d), F)
         /\ \A A : Arrays(data, A) => Arrays(Written(data, at, d), A)
<1> DEFINE q == Stored(QuantumAt(data, at), at.q_pos, d)
<1>1. DOMAIN q = F[at.item + 1] /\ at.item < Len(data)
  BY DEF Stored, Reaches
<1>2. Written(data, at, d) = SetQuantum(data, at, q)
  BY DEF Written
<1> HIDE DEF q
<1>3. at.s_pos \in DOMAIN data[at.item + 1]
  BY <1>1, NullEmpty DEF Reaches, QuantumAt, At
<1>4. data[at.item + 1] # NULL /\ at.item + 1 \in DOMAIN data
  BY <1>1, <1>3, NullEmpty, ListIs
<1>5. ASSUME NEW A, Arrays(data, A) PROVE at.s_pos \in A
  BY <1>3, <1>4, <1>5 DEF Arrays
<1> QED BY <1>1, <1>2, <1>4, <1>5, SetShape

(* Memory that runs out leaves fewer items, or an array without a quantum. *)
LEMMA FollowFails ==
  ASSUME NEW data, List(data), NEW n \in Nat, NEW l \in FailedFollows(data, n)
  PROVE  /\ List(l)
         /\ \A F : QuantaHold(data, F) => QuantaHold(l, F)
         /\ \A A : Arrays(data, A) => Arrays(l, A)
<1>1. PICK k \in Len(data) .. n : l = Longer(data, k)
  BY DEF FailedFollows
<1>2. k \in Nat
  BY ListIs
<1> QED BY <1>1, <1>2, LongerShape

(* Where a position is in its set of quanta.                               *)
LEMMA PlaceInSet ==
  ASSUME NEW pos \in Nat, NEW quantum \in Nat, NEW qset \in Nat, quantum * qset > 0
  PROVE  /\ Place(pos, quantum, qset).item \in Nat
         /\ Place(pos, quantum, qset).s_pos \in 0 .. qset - 1
         /\ Place(pos, quantum, qset).q_pos \in 0 .. quantum - 1
<1> DEFINE n == quantum * qset
           rest == pos % n
<1>1. n \in Nat \ {0} /\ quantum > 0 /\ qset > 0
  BY Z3
<1> HIDE DEF n
<1>2. pos \div n \in Nat /\ rest \in 0 .. n - 1
  BY <1>1
<1> HIDE DEF rest
<1>3. rest \div quantum \in 0 .. qset - 1
  <2> DEFINE d == rest \div quantum
  <2>1. d \in Nat /\ quantum * d <= rest
    BY <1>1, <1>2, Z3
  <2> HIDE DEF d
  <2>2. ~ (d >= qset)
    <3> SUFFICES ASSUME d >= qset PROVE FALSE
      OBVIOUS
    <3>1. quantum * d >= quantum * qset
      BY <1>1, <2>1, Z3
    <3> QED BY <1>1, <1>2, <2>1, <3>1 DEF n
  <2> QED BY <1>1, <2>1, <2>2 DEF d
<1>4. Place(pos, quantum, qset).item = pos \div n
      /\ Place(pos, quantum, qset).s_pos = rest \div quantum
  BY DEF Place, n, rest
<1> QED BY <1>2, <1>3, <1>4, PlaceInQuantum

(* What a write leaves, if the quantum it reckons with is not larger than  *)
(* those of the item it comes to.                                          *)
LEMMA WriteShape ==
  ASSUME NEW data, List(data), NEW F, QuantaHold(data, F),
         NEW quantum \in Nat, NEW qset \in Nat, NEW at, at.item \in Nat,
         at.s_pos \in 0 .. qset - 1, at.q_pos \in 0 .. quantum - 1,
         NEW fresh, DOMAIN fresh = F[at.item + 1],
         0 .. quantum - 1 \subseteq F[at.item + 1],
         NEW arg, List(arg), NEW n \in 0 .. Len(arg), at.q_pos + n <= quantum
  PROVE  LET w == Written(WithQuantum(data, at, qset, fresh), at, SubSeq(arg, 1, n))
         IN  /\ List(w) /\ QuantaHold(w, F)
             /\ Arrays(data, 0 .. qset - 1) => Arrays(w, 0 .. qset - 1)
<1> DEFINE l == WithQuantum(data, at, qset, fresh)
<1>1. List(l) /\ QuantaHold(l, F) /\ Reaches(l, at, F[at.item + 1])
  BY WithQuantumShape
<1>2. Arrays(data, 0 .. qset - 1) => Arrays(l, 0 .. qset - 1)
  BY WithQuantumShape
<1> DEFINE d == SubSeq(arg, 1, n)
<1>3. Len(d) = n /\ n \in Nat
  BY FirstOf, ListIs
<1> HIDE DEF l, d
<1>4. at.q_pos .. at.q_pos + Len(d) - 1 \subseteq F[at.item + 1]
  <2> DEFINE q == at.q_pos
  <2>1. q \in 0 .. quantum - 1 /\ q + n <= quantum
    OBVIOUS
  <2> HIDE DEF q
  <2>2. q .. q + n - 1 \subseteq 0 .. quantum - 1
    BY <1>3, <2>1
  <2> QED BY <1>3, <2>2 DEF q
<1>5. /\ List(Written(l, at, d)) /\ QuantaHold(Written(l, at, d), F)
      /\ \A A : Arrays(l, A) => Arrays(Written(l, at, d), A)
  BY <1>1, <1>3, <1>4, WrittenShape
<1> QED BY <1>2, <1>5 DEF l, d

(* What a call leaves that looks at the list only, or runs out of memory.  *)
LEMMA OtherShape ==
  ASSUME NEW data, List(data), NEW at, at.item \in Nat, NEW qset \in Nat,
         NEW l \in {scull_follow(data, at.item), WithArray(data, at, qset)}
                     \cup FailedFollows(data, at.item)
  PROVE  /\ List(l)
         /\ \A F : QuantaHold(data, F) => QuantaHold(l, F)
         /\ Arrays(data, 0 .. qset - 1) => Arrays(l, 0 .. qset - 1)
<1>1. CASE l = scull_follow(data, at.item)
  BY <1>1, LongerShape DEF scull_follow
<1>2. CASE l = WithArray(data, at, qset)
  BY <1>2, WithArrayShape
<1>3. CASE l \in FailedFollows(data, at.item)
  BY <1>3, FollowFails
<1> QED BY <1>1, <1>2, <1>3

(* The device is loaded with the geometry of its parameters.               *)
LEMMA ScullInit ==
  ASSUME Init
  PROVE  ScullTypes
<1>1. dev = Device(SCULL_QUANTUM, SCULL_QSET, 0, <<>>)
  BY DEF Init, Trimmed, Device
<1>2. \A p \in Procs : file[p] = Closed /\ call[p] = NoCall
  BY DEF Init
<1> QED BY <1>1, <1>2, ParametersAssumption
    DEF Init, ScullTypes, Device, CallFits, NoCall, Closed

(* Opening, closing and seeking; the file is the caller's.                 *)
LEMMA ScullFileStep ==
  ASSUME ScullTypes, NEW p \in Procs,
         \/ \E mode \in {"r", "w", "rw"} : scull_open(p, mode)
         \/ scull_release(p)
         \/ \E off \in Offsets, whence \in {"SEEK_SET", "SEEK_CUR", "SEEK_END"} :
              scull_llseek(p, off, whence)
  PROVE  ScullTypes'
<1>1. UNCHANGED <<call, scull_quantum, scull_qset>> /\ call[p].op = "none"
  BY DEF scull_open, scull_release, scull_llseek, ParametersUnchanged, UserAt, NoCall
<1>2. /\ file' \in [Procs -> [mode : {"closed", "r", "w", "rw"}, f_pos : 0 .. MaxPos]]
      /\ \A q \in Procs : q # p => file'[q] = file[q]
  <2>1. CASE \E mode \in {"r", "w", "rw"} : scull_open(p, mode)
    <3>1. PICK mode \in {"r", "w", "rw"} :
            file' = [file EXCEPT ![p] = [mode |-> mode, f_pos |-> 0]]
      BY <2>1 DEF scull_open
    <3> QED BY <3>1, ParametersAssumption DEF ScullTypes
  <2>2. CASE scull_release(p)
    BY <2>2, ParametersAssumption DEF scull_release, Closed, ScullTypes
  <2>3. CASE \E off \in Offsets, whence \in {"SEEK_SET", "SEEK_CUR", "SEEK_END"} :
               scull_llseek(p, off, whence)
    <3>1. PICK n \in 0 .. MaxPos : file' = [file EXCEPT ![p].f_pos = n]
      BY <2>3 DEF scull_llseek
    <3> QED BY <3>1 DEF ScullTypes
  <2> QED BY <2>1, <2>2, <2>3
<1>3. /\ dev' = Device(dev'.quantum, dev'.qset, dev'.size, dev'.data)
      /\ dev'.quantum \in Nat /\ dev'.qset \in Nat /\ dev'.size \in 0 .. MaxPos
  <2>1. CASE UNCHANGED dev
    BY <2>1 DEF ScullTypes
  <2>2. CASE dev' = Trimmed(scull_quantum, scull_qset)
    BY <2>2, ParametersAssumption DEF Trimmed, ScullTypes, Device
  <2> QED BY <2>1, <2>2 DEF scull_open, scull_release, scull_llseek
<1>4. \A q \in Procs : CallFits(q)'
  <2> SUFFICES ASSUME NEW q \in Procs PROVE CallFits(q)'
    OBVIOUS
  <2>1. CASE q = p
    BY <1>1, <2>1 DEF CallFits
  <2>2. CASE q # p
    BY <1>1, <1>2, <2>2 DEF CallFits, ScullTypes
  <2> QED BY <2>1, <2>2
<1> QED BY <1>1, <1>2, <1>3, <1>4 DEF ScullTypes

(* A call begins.                                                          *)
LEMMA ScullEnterStep ==
  ASSUME ScullTypes, NEW p \in Procs,
         \/ \E n \in Counts : Enter(p, "read", n)
         \/ \E d \in Writes : file[p].f_pos + Len(d) <= MaxPos /\ Enter(p, "write", d)
  PROVE  ScullTypes'
<1> DEFINE Begun(op, arg) ==
        /\ op \in {"read", "write"}
        /\ call' = [call EXCEPT ![p] = [op |-> op, arg |-> arg,
              quantum |-> dev.quantum, qset |-> dev.qset]]
        /\ op = "read" => arg \in Nat
        /\ op = "write" => List(arg) /\ file[p].f_pos + Len(arg) <= MaxPos
<1>1. PICK op, arg : Begun(op, arg)
  <2>1. ASSUME NEW n \in Counts, Enter(p, "read", n)
        PROVE  Begun("read", n)
    BY <2>1, ParametersAssumption DEF Enter
  <2>2. ASSUME NEW d \in Writes, file[p].f_pos + Len(d) <= MaxPos, Enter(p, "write", d)
        PROVE  Begun("write", d)
    BY <2>2, ParametersAssumption DEF Enter, List
  <2> HIDE DEF Begun
  <2> QED BY <2>1, <2>2, Zenon
<1>2. UNCHANGED <<dev, file, scull_quantum, scull_qset>>
  BY DEF Enter, ParametersUnchanged
<1>3. call' = [q \in Procs |-> call'[q]]
  BY <1>1 DEF ScullTypes
<1>4. /\ call'[p] = [op |-> op, arg |-> arg, quantum |-> dev.quantum, qset |-> dev.qset]
      /\ \A q \in Procs : q # p => call'[q] = call[q]
  BY <1>1 DEF ScullTypes
<1>5. \A q \in Procs : CallFits(q)'
  <2> SUFFICES ASSUME NEW q \in Procs PROVE CallFits(q)'
    OBVIOUS
  <2>1. CASE q = p
    BY <1>1, <1>2, <1>4, <2>1 DEF CallFits, ScullTypes
  <2>2. CASE q # p
    BY <1>2, <1>4, <2>2 DEF CallFits, ScullTypes
  <2> QED BY <2>1, <2>2
<1> QED BY <1>2, <1>3, <1>5 DEF ScullTypes

(* A device whose list or size is set.                                     *)
LEMMA DeviceChanged ==
  ASSUME ScullTypes, NEW data, NEW size \in 0 .. MaxPos,
         \/ dev' = [dev EXCEPT !.data = data]
         \/ dev' = [dev EXCEPT !.data = data, !.size = size]
         \/ dev' = dev
  PROVE  /\ dev' = Device(dev'.quantum, dev'.qset, dev'.size, dev'.data)
         /\ dev'.quantum \in Nat /\ dev'.qset \in Nat /\ dev'.size \in 0 .. MaxPos
BY DEF ScullTypes, Device

(* A read ends before the end of the file.                                 *)
LEMMA ScullReadStep ==
  ASSUME ScullTypes, NEW p \in Procs, scull_read(p)
  PROVE  ScullTypes'
<1> DEFINE c == call[p]
           pos == file[p].f_pos
           at == Place(pos, c.quantum, c.qset)
           count == Smaller(Smaller(c.arg, dev.size - pos), c.quantum - at.q_pos)
<1>1. /\ c.op = "read" /\ c.quantum * c.qset > 0
      /\ c.quantum \in Nat /\ c.qset \in Nat /\ c.arg \in Nat
      /\ pos \in 0 .. MaxPos /\ dev.size \in 0 .. MaxPos /\ MaxPos \in Nat
  BY ParametersAssumption DEF scull_read, ScullTypes, CallFits
<1>2. \E data : dev' = [dev EXCEPT !.data = data] \/ dev' = dev
  BY DEF scull_read
<1>3. \E result : Finish(p, result)
  BY DEF scull_read
<1>4. \/ file' = file
      \/ pos < dev.size /\ file' = [file EXCEPT ![p].f_pos = @ + count]
  <2>1. CASE pos >= dev.size
    BY <2>1 DEF scull_read
  <2>2. CASE ~ (pos >= dev.size)
    <3>1. \/ file' = file
          \/ file' = [file EXCEPT ![p].f_pos = @ + count]
      BY <2>2 DEF scull_read
    <3> HIDE DEF pos, count
    <3> QED BY <1>1, <2>2, <3>1
  <2> QED BY <2>1, <2>2
<1>5. pos < dev.size => pos + count \in 0 .. MaxPos
  <2>1. pos \in Nat
    BY <1>1
  <2> HIDE DEF pos, c
  <2>2. at.q_pos \in 0 .. c.quantum - 1
    BY <1>1, <2>1, PlaceInQuantum
  <2> HIDE DEF at
  <2> QED BY <1>1, <2>2 DEF Smaller
<1> HIDE DEF count
<1>6. /\ file' \in [Procs -> [mode : {"closed", "r", "w", "rw"}, f_pos : 0 .. MaxPos]]
      /\ \A q \in Procs : q # p => file'[q] = file[q]
  BY <1>1, <1>4, <1>5 DEF ScullTypes
<1>7. /\ dev' = Device(dev'.quantum, dev'.qset, dev'.size, dev'.data)
      /\ dev'.quantum \in Nat /\ dev'.qset \in Nat /\ dev'.size \in 0 .. MaxPos
  BY <1>1, <1>2, DeviceChanged
<1>8. ParametersUnchanged
  BY DEF scull_read
<1> QED BY <1>3, <1>6, <1>7, <1>8, ScullFinish

(* A write ends where it was let in to.                                    *)
LEMMA ScullWriteStep ==
  ASSUME ScullTypes, NEW p \in Procs, scull_write(p)
  PROVE  ScullTypes'
<1> DEFINE c == call[p]
           pos == file[p].f_pos
           at == Place(pos, c.quantum, c.qset)
           count == Smaller(Len(c.arg), c.quantum - at.q_pos)
           size == IF dev.size < pos + count THEN pos + count ELSE dev.size
<1>1. /\ c.op = "write" /\ c.quantum * c.qset > 0
      /\ c.quantum \in Nat /\ c.qset \in Nat
      /\ Len(c.arg) \in Nat /\ pos + Len(c.arg) <= MaxPos
      /\ pos \in 0 .. MaxPos /\ dev.size \in 0 .. MaxPos /\ MaxPos \in Nat
  BY ParametersAssumption, ListIs DEF scull_write, ScullTypes, CallFits
<1>2. pos + count \in 0 .. MaxPos
  <2>1. pos \in Nat
    BY <1>1
  <2> HIDE DEF pos, c
  <2>2. at.q_pos \in 0 .. c.quantum - 1
    BY <1>1, <2>1, PlaceInQuantum
  <2> HIDE DEF at
  <2> QED BY <1>1, <2>2 DEF Smaller
<1>3. \E data : \/ dev' = [dev EXCEPT !.data = data]
                \/ dev' = [dev EXCEPT !.data = data, !.size = size]
  <2> HIDE DEF count
  <2>1. \E data : \/ dev' = [dev EXCEPT !.data = data]
                  \/ dev' = [dev EXCEPT !.data = data,
                                        !.size = IF @ < pos + count THEN pos + count ELSE @]
    BY DEF scull_write, count
  <2> QED BY <2>1
<1>4. file' = file \/ file' = [file EXCEPT ![p].f_pos = pos + count]
  BY DEF scull_write
<1>5. \E result : Finish(p, result)
  BY DEF scull_write
<1>6. size \in 0 .. MaxPos
  <2> HIDE DEF count, pos
  <2> QED BY <1>1, <1>2
<1> HIDE DEF count, size
<1>7. /\ file' \in [Procs -> [mode : {"closed", "r", "w", "rw"}, f_pos : 0 .. MaxPos]]
      /\ \A q \in Procs : q # p => file'[q] = file[q]
  BY <1>2, <1>4 DEF ScullTypes
<1>8. /\ dev' = Device(dev'.quantum, dev'.qset, dev'.size, dev'.data)
      /\ dev'.quantum \in Nat /\ dev'.qset \in Nat /\ dev'.size \in 0 .. MaxPos
  BY <1>3, <1>6, DeviceChanged
<1>9. ParametersUnchanged
  BY DEF scull_write
<1> QED BY <1>5, <1>7, <1>8, <1>9, ScullFinish

(* The calls that fail, and the return.                                    *)
LEMMA ScullEndStep ==
  ASSUME ScullTypes, NEW p \in Procs, NoMemory(p) \/ Interrupted(p) \/ Return(p)
  PROVE  ScullTypes'
<1>1. \E data : dev' = [dev EXCEPT !.data = data] \/ dev' = dev
  BY DEF NoMemory, Interrupted, Return
<1>2. /\ dev' = Device(dev'.quantum, dev'.qset, dev'.size, dev'.data)
      /\ dev'.quantum \in Nat /\ dev'.qset \in Nat /\ dev'.size \in 0 .. MaxPos
  BY <1>1, DeviceChanged DEF ScullTypes
<1>3. (\E result : Finish(p, result)) \/ call' = [call EXCEPT ![p] = NoCall]
  BY DEF NoMemory, Interrupted, Return
<1>4. UNCHANGED file /\ ParametersUnchanged
  BY DEF NoMemory, Interrupted, Return
<1>5. file \in [Procs -> [mode : {"closed", "r", "w", "rw"}, f_pos : 0 .. MaxPos]]
  BY DEF ScullTypes
<1> QED BY <1>2, <1>3, <1>4, <1>5, ScullFinish

(* A step of scull keeps the types.                                        *)
LEMMA ScullStep ==
  ASSUME ScullTypes, [Next]_vars
  PROVE  ScullTypes'
<1>1. CASE scull_ioctl
  BY <1>1 DEF scull_ioctl, ScullTypes, CallFits, Device
<1>2. ASSUME NEW p \in Procs,
             \/ \E n \in Counts : Enter(p, "read", n)
             \/ \E d \in Writes :
                  file[p].f_pos + Len(d) <= MaxPos /\ Enter(p, "write", d)
             \/ \E mode \in {"r", "w", "rw"} : scull_open(p, mode)
             \/ scull_release(p)
             \/ scull_read(p) \/ scull_write(p) \/ NoMemory(p) \/ Interrupted(p)
             \/ Return(p)
             \/ \E off \in Offsets, whence \in {"SEEK_SET", "SEEK_CUR", "SEEK_END"} :
                  scull_llseek(p, off, whence)
      PROVE  ScullTypes'
  BY <1>2, ScullFileStep, ScullEnterStep, ScullReadStep, ScullWriteStep, ScullEndStep
<1>3. CASE UNCHANGED vars
  BY <1>3 DEF vars, ScullTypes, CallFits, Device
<1> QED BY <1>1, <1>2, <1>3 DEF Next

(* Scull keeps its types: its parameters are always among those that the   *)
(* ioctl can set, and a position stays within the bound.                   *)
LEMMA ScullCorrect == Spec => []TypeOK
<1>1. ScullTypes => TypeOK
  BY DEF ScullTypes, CallFits, TypeOK
<1> QED BY <1>1, ScullInit, ScullStep, PTL DEF Spec

-----------------------------------------------------------------------------
(* Scull's memory, for one process: what it has taken along when a call    *)
(* starts is the geometry of the device until the call ends.               *)
OfSize(n) == [k \in Nat |-> 0 .. n - 1]

Shaped(d) ==
  /\ List(d.data) /\ QuantaHold(d.data, OfSize(d.quantum))
  /\ Arrays(d.data, 0 .. d.qset - 1)

TakenAlong(p) ==
  call[p].op \in {"read", "write"} =>
    call[p].quantum = dev.quantum /\ call[p].qset = dev.qset

GeometryInv == ScullTypes /\ Shaped(dev) /\ \A p \in Procs : TakenAlong(p)

OneProcess == \A p, q \in Procs : p = q

(* A device without quantum sets has a shape for any geometry.             *)
LEMMA EmptyShaped ==
  ASSUME NEW quantum, NEW qset
  PROVE  Shaped(Trimmed(quantum, qset))
<1>1. List(<<>>) /\ DOMAIN <<>> = {}
  BY DEF List
<1> QED BY <1>1 DEF Shaped, Trimmed, QuantaHold, Arrays

(* Opening, closing, seeking and the start of a call.                      *)
LEMMA GeometryFileStep ==
  ASSUME GeometryInv, OneProcess, NEW p \in Procs,
         \/ \E mode \in {"r", "w", "rw"} : scull_open(p, mode)
         \/ scull_release(p)
         \/ \E off \in Offsets, whence \in {"SEEK_SET", "SEEK_CUR", "SEEK_END"} :
              scull_llseek(p, off, whence)
  PROVE  Shaped(dev)' /\ \A q \in Procs : TakenAlong(q)'
<1>1. UNCHANGED call /\ call[p].op = "none"
  BY DEF scull_open, scull_release, scull_llseek, UserAt, NoCall
<1>2. UNCHANGED dev \/ dev' = Trimmed(scull_quantum, scull_qset)
  BY DEF scull_open, scull_release, scull_llseek
<1>3. Shaped(dev)'
  BY <1>2, EmptyShaped DEF GeometryInv, Shaped
<1> QED BY <1>1, <1>3 DEF TakenAlong, OneProcess

(* A call takes along the geometry that the device has now.                *)
LEMMA GeometryEnterStep ==
  ASSUME GeometryInv, NEW p \in Procs, NEW op, NEW arg, Enter(p, op, arg)
  PROVE  Shaped(dev)' /\ \A q \in Procs : TakenAlong(q)'
<1>1. UNCHANGED dev /\ call = [q \in Procs |-> call[q]]
      /\ call' = [call EXCEPT ![p] = [op |-> op, arg |-> arg,
                                      quantum |-> dev.quantum, qset |-> dev.qset]]
  BY DEF Enter, GeometryInv, ScullTypes
<1>2. \A q \in Procs : TakenAlong(q)'
  BY <1>1 DEF GeometryInv, TakenAlong
<1> QED BY <1>1, <1>2 DEF GeometryInv, Shaped

(* A call that has ended has nothing along.                                *)
LEMMA GeometryEnds ==
  ASSUME GeometryInv, NEW p \in Procs,
         (\E result : Finish(p, result)) \/ call' = [call EXCEPT ![p] = NoCall],
         NEW data, List(data), QuantaHold(data, OfSize(dev.quantum)),
         Arrays(data, 0 .. dev.qset - 1), NEW size,
         \/ dev' = dev
         \/ dev' = [dev EXCEPT !.data = data]
         \/ dev' = [dev EXCEPT !.data = data, !.size = size]
  PROVE  Shaped(dev)' /\ \A q \in Procs : TakenAlong(q)'
<1>1. /\ dev = Device(dev.quantum, dev.qset, dev.size, dev.data)
      /\ call = [q \in Procs |-> call[q]]
  BY DEF GeometryInv, ScullTypes
<1>2. dev'.quantum = dev.quantum /\ dev'.qset = dev.qset /\ dev'.data \in {dev.data, data}
  BY <1>1 DEF Device
<1>3. \A q \in Procs : call'[q] = call[q] \/ call'[q].op \in {"none", "done"}
  BY <1>1 DEF Finish, NoCall
<1> QED BY <1>2, <1>3 DEF GeometryInv, Shaped, TakenAlong

(* A read allocates no quantum: at most the list gets longer.              *)
LEMMA GeometryReadStep ==
  ASSUME GeometryInv, NEW p \in Procs, scull_read(p) \/ NoMemory(p)
  PROVE  Shaped(dev)' /\ \A q \in Procs : TakenAlong(q)'
<1> DEFINE at == Place(file[p].f_pos, call[p].quantum, call[p].qset)
<1>1. /\ call[p].quantum = dev.quantum /\ call[p].qset = dev.qset
      /\ dev.quantum \in Nat /\ dev.qset \in Nat /\ dev.quantum * dev.qset > 0
      /\ file[p].f_pos \in Nat
  BY ParametersAssumption
  DEF scull_read, NoMemory, GeometryInv, TakenAlong, ScullTypes
<1>2. at.item \in Nat
  BY <1>1, PlaceInSet
<1>3. \E data \in {scull_follow(dev.data, at.item), WithArray(dev.data, at, dev.qset)}
                    \cup FailedFollows(dev.data, at.item) :
        dev' = dev \/ dev' = [dev EXCEPT !.data = data]
  <2>1. CASE scull_read(p)
    BY <2>1 DEF scull_read
  <2>2. CASE NoMemory(p)
    BY <1>1, <2>2 DEF NoMemory
  <2> QED BY <2>1, <2>2
<1>4. \E result : Finish(p, result)
  BY DEF scull_read, NoMemory
<1> HIDE DEF at
<1> QED BY <1>1, <1>2, <1>3, <1>4, OtherShape, GeometryEnds DEF GeometryInv, Shaped

(* A write allocates by its own geometry, which is the device's, so what   *)
(* it allocates has the device's shape.                                    *)
LEMMA GeometryWriteStep ==
  ASSUME GeometryInv, NEW p \in Procs, scull_write(p)
  PROVE  Shaped(dev)' /\ \A q \in Procs : TakenAlong(q)'
<1> DEFINE c == call[p]
           pos == file[p].f_pos
           at == Place(pos, c.quantum, c.qset)
           l == WithQuantum(dev.data, at, c.qset, FreshQuantum(c.quantum))
           count == Smaller(Len(c.arg), c.quantum - at.q_pos)
<1>1. /\ c.quantum = dev.quantum /\ c.qset = dev.qset
      /\ dev.quantum \in Nat /\ dev.qset \in Nat /\ c.quantum * c.qset > 0
      /\ pos \in Nat /\ List(c.arg)
  BY ParametersAssumption
  DEF scull_write, GeometryInv, TakenAlong, ScullTypes, CallFits
<1>2. /\ at.item \in Nat /\ at.s_pos \in 0 .. c.qset - 1
      /\ at.q_pos \in 0 .. c.quantum - 1 /\ Len(c.arg) \in Nat
  BY <1>1, PlaceInSet, ListIs
<1>3. \E result : Finish(p, result)
  BY DEF scull_write
<1>4. PICK n, size :
        /\ n = count \/ n \in 0 .. count - 1
        /\ \/ dev' = [dev EXCEPT !.data = Written(l, at, SubSeq(c.arg, 1, n))]
           \/ dev' = [dev EXCEPT !.data = Written(l, at, SubSeq(c.arg, 1, n)), !.size = size]
  BY DEF scull_write
<1> HIDE DEF at
<1>5. count \in 0 .. Len(c.arg) /\ at.q_pos + count <= c.quantum
  BY <1>1, <1>2 DEF Smaller
<1> HIDE DEF count
<1>6. n \in 0 .. count
  BY <1>2, <1>4, <1>5
<1> DEFINE data == Written(l, at, SubSeq(c.arg, 1, n))
           F == OfSize(dev.quantum)
<1>7. /\ F[at.item + 1] = 0 .. c.quantum - 1
      /\ DOMAIN FreshQuantum(c.quantum) = 0 .. c.quantum - 1
  BY <1>1, <1>2 DEF OfSize, FreshQuantum
<1>8. List(data) /\ QuantaHold(data, F) /\ Arrays(data, 0 .. c.qset - 1)
  <2>1. List(dev.data) /\ QuantaHold(dev.data, F) /\ Arrays(dev.data, 0 .. c.qset - 1)
    BY <1>1 DEF GeometryInv, Shaped
  <2>2. n \in 0 .. Len(c.arg) /\ at.q_pos + n <= c.quantum
    BY <1>1, <1>2, <1>5, <1>6
  <2> HIDE DEF F, c
  <2> QED BY <1>1, <1>2, <1>7, <2>1, <2>2, WriteShape
<1> QED BY <1>1, <1>3, <1>4, <1>8, GeometryEnds

(* The device has the geometry it says it has (main.c:330-352), for one    *)
(* process: only its own open can trim the device, and it is in a call.    *)
(* With two, the open of one trims it after the other has read quantum and *)
(* qset and before it has the semaphore (main.c:295-306).                  *)
THEOREM GeometryKept == ASSUME OneProcess PROVE Spec => []GeometryCurrent
<1>1. Init => GeometryInv
  BY ScullInit, EmptyShaped DEF GeometryInv, Init, TakenAlong, NoCall
<1>2. GeometryInv /\ [Next]_vars => GeometryInv'
  <2> SUFFICES ASSUME GeometryInv, [Next]_vars PROVE GeometryInv'
    OBVIOUS
  <2>1. ScullTypes'
    BY ScullStep DEF GeometryInv
  <2>2. Shaped(dev)' /\ \A q \in Procs : TakenAlong(q)'
    <3>1. CASE scull_ioctl \/ UNCHANGED vars
      BY <3>1 DEF scull_ioctl, vars, GeometryInv, Shaped, TakenAlong
    <3>2. ASSUME NEW p \in Procs,
                 \/ \E n \in Counts : Enter(p, "read", n)
                 \/ \E d \in Writes : Enter(p, "write", d)
          PROVE  Shaped(dev)' /\ \A q \in Procs : TakenAlong(q)'
      BY <3>2, GeometryEnterStep
    <3>3. ASSUME NEW p \in Procs, Interrupted(p) \/ Return(p)
          PROVE  Shaped(dev)' /\ \A q \in Procs : TakenAlong(q)'
      <4>1. /\ UNCHANGED dev
            /\ (\E result : Finish(p, result)) \/ call' = [call EXCEPT ![p] = NoCall]
        BY <3>3 DEF Interrupted, Return
      <4> QED BY <4>1, GeometryEnds DEF GeometryInv, Shaped
    <3> QED BY <3>1, <3>2, <3>3, GeometryFileStep, GeometryReadStep, GeometryWriteStep
        DEF Next
  <2> QED BY <2>1, <2>2 DEF GeometryInv
<1>3. GeometryInv => GeometryCurrent
  <2> SUFFICES ASSUME GeometryInv, NEW k \in DOMAIN dev.data, dev.data[k] # NULL
               PROVE  /\ DOMAIN dev.data[k] = 0 .. dev.qset - 1
                      /\ \A i \in DOMAIN dev.data[k] :
                           dev.data[k][i] # NULL =>
                             DOMAIN dev.data[k][i] = 0 .. dev.quantum - 1
    BY DEF GeometryCurrent
  <2>1. k \in Nat
    BY ListIs DEF GeometryInv, Shaped
  <2> QED BY <2>1 DEF GeometryInv, Shaped, Arrays, QuantaHold, OfSize
<1> QED BY <1>1, <1>2, <1>3, PTL DEF Spec

-----------------------------------------------------------------------------
(***************************************************************************)
(* Scullc, for quanta not larger than the objects of its cache: whatever   *)
(* geometry a call has taken along, it stays within an object.             *)
(***************************************************************************)
SmallQuanta == Quanta \subseteq 1 .. SCULL_QUANTUM /\ Qsets \subseteq Nat \ {0}

(* ScullC's instance of the memory is the one of this module.              *)
LEMMA SameMemory ==
  /\ Sc!NULL = NULL
  /\ \A f, n, m : Sc!Place(f, n, m) = Place(f, n, m)
  /\ \A f, n : /\ Sc!scull_follow(f, n) = scull_follow(f, n)
               /\ Sc!FailedFollows(f, n) = FailedFollows(f, n)
  /\ \A f, at, n : Sc!WithArray(f, at, n) = WithArray(f, at, n)
  /\ \A f, at, n, q : Sc!WithQuantum(f, at, n, q) = WithQuantum(f, at, n, q)
  /\ \A f, at, d : Sc!Written(f, at, d) = Written(f, at, d)
  /\ \A a, b : Sc!Smaller(a, b) = Smaller(a, b)
<1>1. Sc!NULL = NULL
  BY DEF Sc!NULL, NULL
<1>2. \A f, n, m : Sc!Place(f, n, m) = Place(f, n, m)
  BY DEF Sc!Place, Place
<1>3. \A f, n : Sc!Longer(f, n) = Longer(f, n)
  BY <1>1 DEF Sc!Longer, Longer
<1>4. \A f, n : /\ Sc!scull_follow(f, n) = scull_follow(f, n)
                /\ Sc!FailedFollows(f, n) = FailedFollows(f, n)
  BY <1>3 DEF Sc!scull_follow, scull_follow, Sc!FailedFollows, FailedFollows
<1>5. \A f, at, n : Sc!WithArray(f, at, n) = WithArray(f, at, n)
  BY <1>1, <1>4 DEF Sc!WithArray, WithArray
<1>6. \A f, at : Sc!QuantumAt(f, at) = QuantumAt(f, at)
  BY <1>1 DEF Sc!QuantumAt, QuantumAt, Sc!At, At
<1>7. \A f, at, q : Sc!SetQuantum(f, at, q) = SetQuantum(f, at, q)
  BY DEF Sc!SetQuantum, SetQuantum
<1>8. \A f, at, n, q : Sc!WithQuantum(f, at, n, q) = WithQuantum(f, at, n, q)
  BY <1>1, <1>5, <1>6, <1>7 DEF Sc!WithQuantum, WithQuantum
<1>9. \A f, n, d : Sc!Stored(f, n, d) = Stored(f, n, d)
  BY DEF Sc!Stored, Stored
<1>10. \A f, at, d : Sc!Written(f, at, d) = Written(f, at, d)
  BY <1>6, <1>7, <1>9 DEF Sc!Written, Written
<1>11. \A a, b : Sc!Smaller(a, b) = Smaller(a, b)
  BY DEF Sc!Smaller, Smaller
<1> QED BY <1>1, <1>2, <1>4, <1>5, <1>8, <1>10, <1>11

ScFits(c) ==
  /\ c.op \in {"read", "write"} =>
       c.quantum \in 1 .. SCULL_QUANTUM /\ c.qset \in Nat \ {0}
  /\ c.op = "read" => c.arg \in Nat
  /\ c.op = "write" => List(c.arg)

ScDevice(d) ==
  /\ d = Device(d.quantum, d.qset, d.size, d.data)
  /\ d.quantum \in 1 .. SCULL_QUANTUM /\ d.qset \in Nat \ {0} /\ d.size \in Nat
  /\ List(d.data) /\ QuantaHold(d.data, OfSize(SCULL_QUANTUM))

Files == [mode : {"closed", "r", "w", "rw"}, f_pos : Nat]

ScInv ==
  /\ sc_quantum \in 1 .. SCULL_QUANTUM /\ sc_qset \in Nat \ {0}
  /\ ScDevice(sc_dev)
  /\ sc_file \in [Procs -> Files]
  /\ sc_call = [p \in Procs |-> sc_call[p]] /\ \A p \in Procs : ScFits(sc_call[p])

(* The device after a trim, and as it is loaded.                           *)
LEMMA ScEmpty ==
  ASSUME NEW quantum \in 1 .. SCULL_QUANTUM, NEW qset \in Nat \ {0}
  PROVE  ScDevice(Device(quantum, qset, 0, <<NULL>>))
<1>1. List(<<NULL>>) /\ DOMAIN <<NULL>> = {1} /\ <<NULL>>[1] = NULL
  BY DEF List
<1>2. QuantaHold(<<NULL>>, OfSize(SCULL_QUANTUM))
  BY <1>1, NullEmpty DEF QuantaHold
<1> QED BY <1>1, <1>2 DEF ScDevice, Device

(* A step of one process that changes the list, and its file's position.   *)
LEMMA ScChanges ==
  ASSUME ScInv, UNCHANGED <<sc_quantum, sc_qset>>, NEW p \in Procs,
         NEW c, sc_call' = [sc_call EXCEPT ![p] = c], ScFits(c),
         NEW f \in Files, sc_file' = [sc_file EXCEPT ![p] = f],
         NEW data, List(data), QuantaHold(data, OfSize(SCULL_QUANTUM)),
         NEW size \in Nat,
         sc_dev' = Device(sc_dev.quantum, sc_dev.qset, size, data)
  PROVE  ScInv'
<1>1. ScDevice(sc_dev)'
  BY DEF ScInv, ScDevice, Device
<1>2. sc_file' \in [Procs -> Files]
  BY DEF ScInv
<1>3. \A q \in Procs : sc_call'[q] = IF q = p THEN c ELSE sc_call[q]
  BY DEF ScInv
<1>4. sc_call' = [q \in Procs |-> sc_call'[q]] /\ \A q \in Procs : ScFits(sc_call'[q])
  BY <1>3 DEF ScInv
<1> QED BY <1>1, <1>2, <1>4 DEF ScInv, ScDevice, Device, ScFits

(* A file whose position is set is still a file.                           *)
LEMMA FileSought ==
  ASSUME NEW f \in Files, NEW n \in Nat
  PROVE  [f EXCEPT !.f_pos = n] \in Files
BY DEF Files

(* The device is loaded, and every file is closed.                         *)
LEMMA ScInit ==
  ASSUME Sc!Init
  PROVE  ScInv
<1>1. sc_dev = Device(SCULL_QUANTUM, SCULL_QSET, 0, <<NULL>>)
  BY SameMemory DEF Sc!Init, Device
<1>2. SCULL_QUANTUM \in 1 .. SCULL_QUANTUM /\ SCULL_QSET \in Nat \ {0}
  BY ParametersAssumption
<1>3. ScDevice(sc_dev)
  BY <1>1, <1>2, ScEmpty
<1>4. /\ sc_file \in [Procs -> Files]
      /\ sc_call = [p \in Procs |-> sc_call[p]] /\ \A p \in Procs : sc_call[p].op = "none"
  BY DEF Sc!Init, Sc!Closed, Sc!NoCall, Files
<1> QED BY <1>2, <1>3, <1>4 DEF ScInv, Sc!Init, ScFits

(* The file is opened, sought in and closed, and a call starts.            *)
LEMMA ScFileStep ==
  ASSUME ScInv, SmallQuanta, NEW p \in Procs,
         \/ \E mode \in {"r", "w", "rw"} : Sc!scullc_open(p, mode)
         \/ Sc!scullc_release(p)
         \/ \E off \in CopyOffsets, whence \in {"SEEK_SET", "SEEK_CUR", "SEEK_END"} :
              Sc!scullc_llseek(p, off, whence)
  PROVE  ScInv'
<1>1. UNCHANGED <<sc_quantum, sc_qset, sc_call>>
  BY DEF Sc!scullc_open, Sc!scullc_release, Sc!scullc_llseek, Sc!parameters
<1>2. PICK f \in Files : sc_file' = [sc_file EXCEPT ![p] = f]
  <2>1. CASE \E mode \in {"r", "w", "rw"} : Sc!scullc_open(p, mode)
    <3>1. PICK mode \in {"r", "w", "rw"} :
            sc_file' = [sc_file EXCEPT ![p] = [mode |-> mode, f_pos |-> 0]]
      BY <2>1 DEF Sc!scullc_open
    <3>2. [mode |-> mode, f_pos |-> 0] \in Files
      BY DEF Files
    <3> QED BY <3>1, <3>2
  <2>2. CASE Sc!scullc_release(p)
    <3>1. [mode |-> "closed", f_pos |-> 0] \in Files
      BY DEF Files
    <3> QED BY <2>2, <3>1 DEF Sc!scullc_release, Sc!Closed
  <2>3. CASE \E off \in CopyOffsets, whence \in {"SEEK_SET", "SEEK_CUR", "SEEK_END"} :
               Sc!scullc_llseek(p, off, whence)
    <3>1. PICK n \in 0 .. MaxPos : sc_file' = [sc_file EXCEPT ![p].f_pos = n]
      BY <2>3 DEF Sc!scullc_llseek
    <3>2. n \in Nat /\ sc_file \in [Procs -> Files]
      BY ParametersAssumption DEF ScInv
    <3>3. sc_file' = [sc_file EXCEPT ![p] = [sc_file[p] EXCEPT !.f_pos = n]]
      BY <3>1
    <3> QED BY <3>2, <3>3, FileSought
  <2> QED BY <2>1, <2>2, <2>3
<1>3. sc_dev' = sc_dev \/ sc_dev' = Device(sc_quantum, sc_qset, 0, <<NULL>>)
  <2>1. sc_dev' = sc_dev \/ sc_dev' = Sc!scullc_trim(sc_dev)
    BY DEF Sc!scullc_open, Sc!scullc_release, Sc!scullc_llseek
  <2> QED BY <2>1, SameMemory DEF Sc!scullc_trim, ScInv, ScDevice, Device
<1>4. ScDevice(sc_dev)'
  BY <1>3, ScEmpty DEF ScInv, ScDevice
<1>5. sc_file' \in [Procs -> Files]
  BY <1>2 DEF ScInv
<1> QED BY <1>1, <1>4, <1>5 DEF ScInv, ScDevice, Device, ScFits

(* A call takes the geometry along that scullc_dev has.                    *)
LEMMA ScEnterStep ==
  ASSUME ScInv, NEW p \in Procs,
         \/ \E n \in CopyCounts : Sc!Enter(p, "read", n)
         \/ \E d \in CopyWrites : Sc!Enter(p, "write", d)
  PROVE  ScInv'
<1> DEFINE Begun(op, arg) ==
        /\ op \in {"read", "write"}
        /\ sc_call' = [sc_call EXCEPT ![p] = [op |-> op, arg |-> arg,
              quantum |-> sc_dev.quantum, qset |-> sc_dev.qset]]
        /\ op = "read" => arg \in Nat
        /\ op = "write" => List(arg)
<1>1. PICK op, arg : Begun(op, arg)
  <2>1. ASSUME NEW n \in CopyCounts, Sc!Enter(p, "read", n)
        PROVE  Begun("read", n)
    BY <2>1, CopiesAssumption DEF Sc!Enter
  <2>2. ASSUME NEW d \in CopyWrites, Sc!Enter(p, "write", d)
        PROVE  Begun("write", d)
    BY <2>2, CopiesAssumption DEF Sc!Enter, List
  <2> HIDE DEF Begun
  <2> QED BY <2>1, <2>2, Zenon
<1> DEFINE c == [op |-> op, arg |-> arg,
                 quantum |-> sc_dev.quantum, qset |-> sc_dev.qset]
<1>2. ScFits(c) /\ sc_call' = [sc_call EXCEPT ![p] = c]
  BY <1>1 DEF ScFits, ScInv, ScDevice
<1> HIDE DEF c
<1>3. UNCHANGED <<sc_quantum, sc_qset, sc_dev, sc_file>>
  BY DEF Sc!Enter, Sc!parameters
<1>4. sc_call' = [q \in Procs |-> sc_call'[q]] /\ \A q \in Procs : ScFits(sc_call'[q])
  BY <1>2 DEF ScInv
<1> QED BY <1>3, <1>4 DEF ScInv, ScDevice, Device, ScFits

(* Where a call under way comes to.                                        *)
LEMMA ScPlaced ==
  ASSUME ScInv, NEW p \in Procs, sc_call[p].op \in {"read", "write"}
  PROVE  LET c == sc_call[p]
             at == Place(sc_file[p].f_pos, c.quantum, c.qset)
         IN  /\ c.quantum \in 1 .. SCULL_QUANTUM /\ c.qset \in Nat
             /\ sc_file[p].f_pos \in Nat /\ at.item \in Nat
             /\ at.s_pos \in 0 .. c.qset - 1 /\ at.q_pos \in 0 .. c.quantum - 1
<1> DEFINE c == sc_call[p]
           pos == sc_file[p].f_pos
<1>1. c.quantum \in Nat \ {0} /\ c.quantum <= SCULL_QUANTUM /\ c.qset \in Nat \ {0}
  BY ParametersAssumption DEF ScInv, ScFits
<1>2. pos \in Nat
  BY DEF ScInv, Files
<1> HIDE DEF c, pos
<1>3. c.quantum * c.qset > 0
  BY <1>1, Z3
<1>4. /\ Place(pos, c.quantum, c.qset).item \in Nat
      /\ Place(pos, c.quantum, c.qset).s_pos \in 0 .. c.qset - 1
      /\ Place(pos, c.quantum, c.qset).q_pos \in 0 .. c.quantum - 1
  BY <1>1, <1>2, <1>3, PlaceInSet
<1> QED BY <1>1, <1>2, <1>4, ParametersAssumption DEF c, pos

(* A call that ends without a change, or with one of the list only.        *)
LEMMA ScLooks ==
  ASSUME ScInv, NEW p \in Procs, sc_call[p].op \in {"read", "write"},
         NEW c, sc_call' = [sc_call EXCEPT ![p] = c], c.op \in {"done", "died"},
         NEW f \in Files, sc_file' = [sc_file EXCEPT ![p] = f],
         UNCHANGED <<sc_quantum, sc_qset>>,
         NEW at, at = Place(sc_file[p].f_pos, sc_call[p].quantum, sc_call[p].qset),
         \/ sc_dev' = sc_dev
         \/ \E l \in {scull_follow(sc_dev.data, at.item),
                      WithArray(sc_dev.data, at, sc_call[p].qset)}
                       \cup FailedFollows(sc_dev.data, at.item) :
              sc_dev' = [sc_dev EXCEPT !.data = l]
  PROVE  ScInv'
<1>1. ScFits(c)
  BY DEF ScFits
<1>2. /\ List(sc_dev.data) /\ QuantaHold(sc_dev.data, OfSize(SCULL_QUANTUM))
      /\ sc_dev = Device(sc_dev.quantum, sc_dev.qset, sc_dev.size, sc_dev.data)
      /\ sc_dev.size \in Nat
  BY DEF ScInv, ScDevice
<1>3. at.item \in Nat /\ sc_call[p].qset \in Nat
  BY ScPlaced
<1>4. PICK l : /\ List(l) /\ QuantaHold(l, OfSize(SCULL_QUANTUM))
               /\ sc_dev' = Device(sc_dev.quantum, sc_dev.qset, sc_dev.size, l)
  <2>1. CASE sc_dev' = sc_dev
    BY <1>2, <2>1
  <2>2. CASE sc_dev' # sc_dev
    <3>1. PICK l \in {scull_follow(sc_dev.data, at.item),
                      WithArray(sc_dev.data, at, sc_call[p].qset)}
                       \cup FailedFollows(sc_dev.data, at.item) :
            sc_dev' = [sc_dev EXCEPT !.data = l]
      BY <2>2
    <3>2. List(l) /\ QuantaHold(l, OfSize(SCULL_QUANTUM))
      BY <1>2, <1>3, <3>1, OtherShape
    <3> QED BY <1>2, <3>1, <3>2 DEF Device
  <2> QED BY <2>1, <2>2
<1> QED BY <1>1, <1>2, <1>4, ScChanges

(* Reads; and the calls that fail.                                         *)
LEMMA ScReadStep ==
  ASSUME ScInv, NEW p \in Procs, Sc!scullc_read(p)
  PROVE  ScInv'
<1> DEFINE c == sc_call[p]
           pos == sc_file[p].f_pos
           at == Place(pos, c.quantum, c.qset)
           count == Smaller(Smaller(c.arg, sc_dev.size - pos), c.quantum - at.q_pos)
<1>1. /\ c.op = "read" /\ c.arg \in Nat /\ sc_dev.size \in Nat /\ sc_file[p] \in Files
      /\ sc_file = [sc_file EXCEPT ![p] = sc_file[p]]
  BY DEF Sc!scullc_read, ScInv, ScFits, ScDevice
<1>2. /\ c.quantum \in Nat /\ pos \in Nat /\ at.item \in Nat
      /\ at.q_pos \in 0 .. c.quantum - 1
  BY <1>1, ScPlaced, ParametersAssumption
<1>3. PICK result : sc_call' = [sc_call EXCEPT ![p] = [op |-> "done", result |-> result]]
  BY DEF Sc!scullc_read, Sc!Finish
<1>4. UNCHANGED <<sc_quantum, sc_qset>>
  BY DEF Sc!scullc_read, Sc!parameters
<1>5. sc_dev' = sc_dev \/ sc_dev' = [sc_dev EXCEPT !.data = scull_follow(sc_dev.data, at.item)]
  BY SameMemory DEF Sc!scullc_read
<1>6. \/ sc_file' = sc_file
      \/ pos <= sc_dev.size /\ sc_file' = [sc_file EXCEPT ![p].f_pos = @ + count]
  <2>1. CASE pos > sc_dev.size
    BY <2>1 DEF Sc!scullc_read
  <2>2. CASE ~ (pos > sc_dev.size)
    <3>1. \/ sc_file' = sc_file
          \/ sc_file' = [sc_file EXCEPT ![p].f_pos = @ + count]
      BY <2>2, SameMemory DEF Sc!scullc_read, Sc!InQuantum
    <3> HIDE DEF pos, count
    <3> QED BY <1>1, <1>2, <2>2, <3>1
  <2> QED BY <2>1, <2>2
<1> HIDE DEF at
<1>7. pos <= sc_dev.size => pos + count \in Nat
  BY <1>1, <1>2 DEF Smaller
<1> HIDE DEF count
<1>8. \E f \in Files : sc_file' = [sc_file EXCEPT ![p] = f]
  <2>1. CASE sc_file' = sc_file
    BY <1>1, <2>1
  <2>2. CASE sc_file' # sc_file
    <3>1. sc_file' = [sc_file EXCEPT ![p] = [sc_file[p] EXCEPT !.f_pos = pos + count]]
      BY <1>6, <2>2
    <3>2. [sc_file[p] EXCEPT !.f_pos = pos + count] \in Files
      BY <1>1, <1>6, <1>7, <2>2, FileSought
    <3> QED BY <3>1, <3>2
  <2> QED BY <2>1, <2>2
<1> QED BY <1>1, <1>3, <1>4, <1>5, <1>8, ScLooks DEF at

(* A call that fails leaves at most a longer list and an array behind.     *)
LEMMA ScFailStep ==
  ASSUME ScInv, NEW p \in Procs,
         \/ Sc!WriteNoMemory(p) \/ Sc!FollowDies(p)
         \/ Sc!Interrupted(p) \/ Sc!Return(p)
  PROVE  ScInv'
<1> DEFINE at == Place(sc_file[p].f_pos, sc_call[p].quantum, sc_call[p].qset)
<1>1. UNCHANGED <<sc_quantum, sc_qset, sc_file>>
  BY DEF Sc!WriteNoMemory, Sc!FollowDies, Sc!Interrupted, Sc!Return, Sc!parameters
<1>2. CASE Sc!Return(p)
  <2>1. UNCHANGED sc_dev /\ sc_call' = [sc_call EXCEPT ![p] = Sc!NoCall]
    BY <1>2 DEF Sc!Return
  <2>2. ScFits(Sc!NoCall)
    BY DEF ScFits, Sc!NoCall
  <2>3. sc_call' = [q \in Procs |-> sc_call'[q]] /\ \A q \in Procs : ScFits(sc_call'[q])
    BY <2>1, <2>2 DEF ScInv
  <2> QED BY <1>1, <2>1, <2>3 DEF ScInv, ScDevice, Device, ScFits
<1>3. CASE Sc!WriteNoMemory(p) \/ Sc!FollowDies(p) \/ Sc!Interrupted(p)
  <2>1. sc_call[p].op \in {"read", "write"}
    BY <1>3 DEF Sc!WriteNoMemory, Sc!FollowDies, Sc!Interrupted
  <2>2. PICK c : sc_call' = [sc_call EXCEPT ![p] = c] /\ c.op \in {"done", "died"}
    <3>1. CASE Sc!FollowDies(p)
      <4> DEFINE r == [op |-> "died"]
      <4>1. sc_call' = [sc_call EXCEPT ![p] = r]
        BY <3>1 DEF Sc!FollowDies
      <4>2. r.op \in {"done", "died"}
        OBVIOUS
      <4> HIDE DEF r
      <4> QED BY <4>1, <4>2
    <3>2. CASE Sc!WriteNoMemory(p) \/ Sc!Interrupted(p)
      <4> DEFINE r == [op |-> "done", result |-> <<"error">>]
      <4>1. sc_call' = [sc_call EXCEPT ![p] = r]
        BY <3>2 DEF Sc!WriteNoMemory, Sc!Interrupted, Sc!Finish
      <4>2. r.op \in {"done", "died"}
        OBVIOUS
      <4> HIDE DEF r
      <4> QED BY <4>1, <4>2
    <3> QED BY <1>3, <3>1, <3>2
  <2>3. \/ sc_dev' = sc_dev
        \/ \E l \in {scull_follow(sc_dev.data, at.item),
                     WithArray(sc_dev.data, at, sc_call[p].qset)}
                      \cup FailedFollows(sc_dev.data, at.item) :
             sc_dev' = [sc_dev EXCEPT !.data = l]
    <3>1. CASE Sc!FollowDies(p)
      BY <3>1, SameMemory DEF Sc!FollowDies
    <3>2. CASE Sc!WriteNoMemory(p)
      BY <3>2, SameMemory DEF Sc!WriteNoMemory
    <3>3. CASE Sc!Interrupted(p)
      BY <3>3 DEF Sc!Interrupted
    <3> QED BY <1>3, <3>1, <3>2, <3>3
  <2>4. sc_file[p] \in Files /\ sc_file' = [sc_file EXCEPT ![p] = sc_file[p]]
    BY <1>1 DEF ScInv
  <2> HIDE DEF at
  <2> QED BY <1>1, <2>1, <2>2, <2>3, <2>4, ScLooks DEF at
<1> QED BY <1>2, <1>3

(* A write stays within the object that its position is in.                *)
LEMMA ScWriteStep ==
  ASSUME ScInv, NEW p \in Procs, Sc!scullc_write(p)
  PROVE  ScInv'
<1> DEFINE c == sc_call[p]
           pos == sc_file[p].f_pos
           at == Place(pos, c.quantum, c.qset)
           fresh == [i \in 0 .. SCULL_QUANTUM - 1 |-> Garbage]
           l == WithQuantum(sc_dev.data, at, c.qset, fresh)
           count == Smaller(Len(c.arg), c.quantum - at.q_pos)
           F == OfSize(SCULL_QUANTUM)
<1>1. /\ c.op = "write" /\ List(c.arg) /\ Len(c.arg) \in Nat /\ sc_file[p] \in Files
      /\ sc_file = [sc_file EXCEPT ![p] = sc_file[p]]
      /\ List(sc_dev.data) /\ QuantaHold(sc_dev.data, F) /\ sc_dev.size \in Nat
      /\ sc_dev = Device(sc_dev.quantum, sc_dev.qset, sc_dev.size, sc_dev.data)
      /\ sc_quantum \in 1 .. SCULL_QUANTUM /\ SCULL_QUANTUM \in Nat
  BY ListIs, ParametersAssumption DEF Sc!scullc_write, ScInv, ScFits, ScDevice
<1>2. /\ c.quantum \in Nat /\ c.quantum <= SCULL_QUANTUM /\ c.qset \in Nat
      /\ pos \in Nat /\ at.item \in Nat /\ at.s_pos \in 0 .. c.qset - 1
      /\ at.q_pos \in 0 .. c.quantum - 1
  BY <1>1, ScPlaced, ParametersAssumption
<1>3. Sc!FreshQuantum = fresh
  <2>1. 0 .. SCULL_QUANTUM - 1 \cup 0 .. sc_quantum - 1 = 0 .. SCULL_QUANTUM - 1
    BY <1>1
  <2> QED BY <2>1 DEF Sc!FreshQuantum, Sc!Object
<1>4. PICK result : sc_call' = [sc_call EXCEPT ![p] = [op |-> "done", result |-> result]]
  BY DEF Sc!scullc_write, Sc!Finish
<1>5. UNCHANGED <<sc_quantum, sc_qset>>
  BY DEF Sc!scullc_write, Sc!parameters
<1> HIDE DEF fresh
<1>6. \/ /\ sc_dev' = [sc_dev EXCEPT !.data = Written(l, at, SubSeq(c.arg, 1, count)),
                                     !.size = IF @ < pos + count THEN pos + count ELSE @]
         /\ sc_file' = [sc_file EXCEPT ![p].f_pos = pos + count]
      \/ /\ \E n \in 0 .. count - 1 :
              sc_dev' = [sc_dev EXCEPT !.data = Written(l, at, SubSeq(c.arg, 1, n))]
         /\ UNCHANGED sc_file
  BY <1>3, SameMemory DEF Sc!scullc_write, Sc!InQuantum
<1> HIDE DEF at, c, pos
<1>7. count \in 0 .. Len(c.arg) /\ at.q_pos + count <= c.quantum
  BY <1>1, <1>2, SMTT(30) DEF Smaller
<1> HIDE DEF count
<1>8. PICK n \in 0 .. count, size \in Nat :
        sc_dev' = Device(sc_dev.quantum, sc_dev.qset, size,
                         Written(l, at, SubSeq(c.arg, 1, n)))
  <2>1. CASE sc_dev' = [sc_dev EXCEPT !.data = Written(l, at, SubSeq(c.arg, 1, count)),
                                !.size = IF @ < pos + count THEN pos + count ELSE @]
    <3> DEFINE size == IF sc_dev.size < pos + count THEN pos + count ELSE sc_dev.size
               data == Written(l, at, SubSeq(c.arg, 1, count))
    <3>1. size \in Nat /\ count \in 0 .. count
      BY <1>1, <1>2, <1>7
    <3>2. sc_dev' = [sc_dev EXCEPT !.data = data, !.size = size]
      BY <2>1
    <3> HIDE DEF size, data
    <3>3. sc_dev' = Device(sc_dev.quantum, sc_dev.qset, size, data)
      BY <1>1, <3>2 DEF Device
    <3> QED BY <3>1, <3>3 DEF data
  <2>2. ASSUME NEW n \in 0 .. count - 1,
               sc_dev' = [sc_dev EXCEPT !.data = Written(l, at, SubSeq(c.arg, 1, n))]
        PROVE  \E k \in 0 .. count, size \in Nat :
                 sc_dev' = Device(sc_dev.quantum, sc_dev.qset, size,
                                  Written(l, at, SubSeq(c.arg, 1, k)))
    <3> DEFINE data == Written(l, at, SubSeq(c.arg, 1, n))
    <3> HIDE DEF data
    <3>1. sc_dev' = [sc_dev EXCEPT !.data = data]
      BY <2>2 DEF data
    <3>2. sc_dev' = Device(sc_dev.quantum, sc_dev.qset, sc_dev.size, data)
      BY <1>1, <3>1 DEF Device
    <3>3. n \in 0 .. count /\ sc_dev.size \in Nat
      BY <1>1, <1>7
    <3> QED BY <3>2, <3>3 DEF data
  <2> QED BY <1>6, <2>1, <2>2
<1>9. \E f \in Files : sc_file' = [sc_file EXCEPT ![p] = f]
  <2>1. CASE sc_file' = sc_file
    BY <1>1, <2>1
  <2>2. CASE sc_file' # sc_file
    <3>1. sc_file' = [sc_file EXCEPT ![p] = [sc_file[p] EXCEPT !.f_pos = pos + count]]
      BY <1>6, <2>2
    <3>2. [sc_file[p] EXCEPT !.f_pos = pos + count] \in Files
      <4>1. pos + count \in Nat
        BY <1>1, <1>2, <1>7
      <4> QED BY <1>1, <4>1, FileSought
    <3> QED BY <3>1, <3>2
  <2> QED BY <2>1, <2>2
<1> DEFINE data == Written(l, at, SubSeq(c.arg, 1, n))
<1>10. List(data) /\ QuantaHold(data, F)
  <2>1. F[at.item + 1] = 0 .. SCULL_QUANTUM - 1
    BY <1>2 DEF OfSize
  <2>2. DOMAIN fresh = F[at.item + 1]
    BY <2>1 DEF fresh
  <2> HIDE DEF F
  <2>3. 0 .. c.quantum - 1 \subseteq F[at.item + 1]
    BY <1>1, <1>2, <2>1
  <2>4. n \in 0 .. Len(c.arg) /\ at.q_pos + n <= c.quantum
    BY <1>1, <1>2, <1>7, <1>8
  <2> QED BY <1>1, <1>2, <2>2, <2>3, <2>4, WriteShape
<1> HIDE DEF l, data
<1>11. ScFits([op |-> "done", result |-> result])
  BY DEF ScFits
<1> QED BY <1>4, <1>5, <1>8, <1>9, <1>10, <1>11, ScChanges DEF data

(* A step of scullc; the ioctl sets only small quanta.                     *)
LEMMA ScStep ==
  ASSUME ScInv, SmallQuanta, [Sc!Next]_(Sc!vars)
  PROVE  ScInv'
<1>1. CASE Sc!scullc_ioctl
  BY <1>1, ParametersAssumption
  DEF Sc!scullc_ioctl, SmallQuanta, ScInv, ScDevice, Device, ScFits
<1>2. CASE UNCHANGED Sc!vars
  BY <1>2 DEF Sc!vars, ScInv, ScDevice, Device, ScFits
<1>3. ASSUME NEW p \in Procs,
             \/ \E mode \in {"r", "w", "rw"} : Sc!scullc_open(p, mode)
             \/ Sc!scullc_release(p)
             \/ \E n \in CopyCounts : Sc!Enter(p, "read", n)
             \/ \E d \in CopyWrites :
                  sc_file[p].f_pos + Len(d) <= MaxPos /\ Sc!Enter(p, "write", d)
             \/ Sc!scullc_read(p) \/ Sc!scullc_write(p)
             \/ Sc!WriteNoMemory(p) \/ Sc!FollowDies(p)
             \/ Sc!Interrupted(p) \/ Sc!Return(p)
             \/ \E off \in CopyOffsets, whence \in {"SEEK_SET", "SEEK_CUR", "SEEK_END"} :
                  Sc!scullc_llseek(p, off, whence)
      PROVE  ScInv'
  BY <1>3, ScFileStep, ScEnterStep, ScReadStep, ScWriteStep, ScFailStep
<1> QED BY <1>1, <1>2, <1>3 DEF Sc!Next

(* Every object of scullc has the bytes it was allocated with, though      *)
(* several processes read and write with the geometry of another time: the *)
(* memset and the copies stay within it (scullc/main.c:245-252), as long   *)
(* as no quantum is set that is larger than the one at load time.          *)
THEOREM ObjectsKept == ASSUME SmallQuanta PROVE DriversSpec => []Sc!ObjectsHold
<1>1. ScInv => Sc!ObjectsHold
  <2> SUFFICES ASSUME ScInv, NEW k \in DOMAIN sc_dev.data,
                      NEW i \in DOMAIN sc_dev.data[k], sc_dev.data[k][i] # NULL
               PROVE  DOMAIN sc_dev.data[k][i] = 0 .. SCULL_QUANTUM - 1
    BY SameMemory DEF Sc!ObjectsHold, Sc!Object
  <2>1. k \in Nat
    BY ListIs DEF ScInv, ScDevice
  <2> QED BY <2>1 DEF ScInv, ScDevice, QuantaHold, OfSize
<1> QED BY <1>1, ScInit, ScStep, DriversAlone, PTL DEF Sc!Spec

-----------------------------------------------------------------------------
(* The quanta of a list are in the other one too.                          *)
Keeps(data, l) ==
  \A b : b.item \in Nat /\ QuantumAt(data, b) # NULL => QuantumAt(l, b) # NULL

(* A longer list has what the list has.                                    *)
LEMMA LongerKeeps ==
  ASSUME NEW data, List(data), NEW n \in Nat
  PROVE  Keeps(data, Longer(data, n))
<1> SUFFICES ASSUME NEW b, b.item \in Nat, QuantumAt(data, b) # NULL
             PROVE  QuantumAt(Longer(data, n), b) # NULL
  BY DEF Keeps
<1> DEFINE m == IF Len(data) < n THEN n ELSE Len(data)
           l == Longer(data, n)
           i == b.item + 1
<1>1. Len(data) \in Nat /\ b.item < Len(data)
  BY ListIs DEF QuantumAt
<1>2. m \in Nat /\ l = [k \in 1 .. m |-> IF k <= Len(data) THEN data[k] ELSE NULL]
  BY <1>1 DEF Longer
<1>3. i \in 1 .. m /\ i <= Len(data) /\ b.item < m
  BY <1>1
<1> HIDE DEF m, l
<1>4. l = [k \in 1 .. m |-> l[k]] /\ l[i] = data[i]
  BY <1>2, <1>3
<1>5. Len(l) = m
  BY <1>2, <1>4, ListOf
<1> QED BY <1>1, <1>3, <1>4, <1>5 DEF QuantumAt, l

(* So has the list with an array more.                                     *)
LEMMA WithArrayKeeps ==
  ASSUME NEW data, List(data), NEW at, at.item \in Nat, NEW qset \in Nat
  PROVE  Keeps(data, WithArray(data, at, qset))
<1> SUFFICES ASSUME NEW b, b.item \in Nat, QuantumAt(data, b) # NULL
             PROVE  QuantumAt(WithArray(data, at, qset), b) # NULL
  BY DEF Keeps
<1> DEFINE l == Longer(data, at.item + 1)
           w == WithArray(data, at, qset)
           new == [i \in 0 .. qset - 1 |-> NULL]
<1>1. List(l) /\ QuantumAt(l, b) # NULL
  <2>1. at.item + 1 \in Nat
    OBVIOUS
  <2>2. List(l) /\ Keeps(data, l)
    BY <2>1, LongerShape, LongerKeeps
  <2> HIDE DEF l
  <2> QED BY <2>2 DEF Keeps
<1>2. w = [l EXCEPT ![at.item + 1] = IF @ = NULL THEN new ELSE @]
  BY DEF WithArray, scull_follow
<1> HIDE DEF l, w, new
<1>3. Len(l) \in Nat /\ DOMAIN l = 1 .. Len(l) /\ l = [i \in 1 .. Len(l) |-> l[i]]
  BY <1>1, ListIs
<1>4. w = [i \in 1 .. Len(l) |-> IF i = at.item + 1 /\ l[i] = NULL THEN new ELSE l[i]]
  BY <1>2, <1>3
<1>5. Len(w) = Len(l)
  <2>1. w = [i \in 1 .. Len(l) |-> w[i]]
    BY <1>4
  <2> QED BY <1>3, <2>1, ListOf
<1>6. b.item + 1 \in 1 .. Len(l) /\ b.item < Len(l)
  BY <1>1, <1>3 DEF QuantumAt
<1>7. l[b.item + 1] # NULL
  BY <1>1, <1>6, NullEmpty DEF QuantumAt, At
<1>8. w[b.item + 1] = l[b.item + 1]
  BY <1>4, <1>6, <1>7
<1> QED BY <1>1, <1>5, <1>6, <1>8 DEF QuantumAt, w

(* And the list with a quantum more, or another one at its place.          *)
LEMMA SetKeeps ==
  ASSUME NEW data, List(data), NEW at, at.item \in Nat, at.item < Len(data),
         NEW quantum, quantum # NULL
  PROVE  Keeps(data, SetQuantum(data, at, quantum))
<1> SUFFICES ASSUME NEW b, b.item \in Nat, QuantumAt(data, b) # NULL
             PROVE  QuantumAt(SetQuantum(data, at, quantum), b) # NULL
  BY DEF Keeps
<1> DEFINE w == SetQuantum(data, at, quantum)
           k == at.item + 1
           array == [i \in DOMAIN data[k] \cup {at.s_pos} |->
                       IF i = at.s_pos THEN quantum ELSE data[k][i]]
<1>1. /\ Len(data) \in Nat /\ DOMAIN data = 1 .. Len(data)
      /\ data = [i \in 1 .. Len(data) |-> data[i]]
  BY ListIs
<1>2. w = [data EXCEPT ![k] = array]
  BY DEF SetQuantum
<1>3. /\ DOMAIN array = DOMAIN data[k] \cup {at.s_pos}
      /\ \A i \in DOMAIN array : array[i] = IF i = at.s_pos THEN quantum ELSE data[k][i]
  OBVIOUS
<1> HIDE DEF w, array
<1>4. w = [i \in 1 .. Len(data) |-> IF i = k THEN array ELSE data[i]]
  BY <1>1, <1>2
<1>5. Len(w) = Len(data)
  BY SetShape DEF w
<1>6. /\ b.item + 1 \in 1 .. Len(data) /\ b.item < Len(data)
      /\ b.s_pos \in DOMAIN data[b.item + 1] /\ data[b.item + 1][b.s_pos] # NULL
  BY <1>1 DEF QuantumAt, At
<1>7. w[b.item + 1] = IF b.item + 1 = k THEN array ELSE data[b.item + 1]
  BY <1>4, <1>6
<1> HIDE DEF k
<1>8. b.s_pos \in DOMAIN w[b.item + 1] /\ w[b.item + 1][b.s_pos] # NULL
  BY <1>3, <1>6, <1>7
<1> QED BY <1>5, <1>6, <1>8 DEF QuantumAt, At, w

(* A write keeps the quanta that there are.                                *)
LEMMA WriteKeeps ==
  ASSUME NEW data, List(data), NEW F, QuantaHold(data, F),
         NEW quantum \in Nat, NEW qset \in Nat, NEW at, at.item \in Nat,
         at.s_pos \in 0 .. qset - 1, at.q_pos \in 0 .. quantum - 1,
         NEW fresh, DOMAIN fresh = F[at.item + 1],
         0 .. quantum - 1 \subseteq F[at.item + 1],
         NEW d
  PROVE  Keeps(data, Written(WithQuantum(data, at, qset, fresh), at, d))
<1> DEFINE a == WithArray(data, at, qset)
           l == WithQuantum(data, at, qset, fresh)
           q == Stored(QuantumAt(l, at), at.q_pos, d)
<1>1. List(a) /\ at.item < Len(a)
  BY WithArrayShape
<1>2. Keeps(data, a)
  BY WithArrayKeeps
<1>3. List(l) /\ Reaches(l, at, F[at.item + 1])
  BY WithQuantumShape
<1>4. l = IF QuantumAt(a, at) = NULL THEN SetQuantum(a, at, fresh) ELSE a
  BY DEF WithQuantum
<1>5. F[at.item + 1] # {}
  <2>1. at.q_pos \in F[at.item + 1]
    OBVIOUS
  <2> QED BY <2>1
<1>6. fresh # NULL
  BY <1>5, NullEmpty
<1> HIDE DEF l, a
<1>7. Keeps(a, l)
  <2>1. CASE QuantumAt(a, at) = NULL
    BY <1>1, <1>4, <1>6, <2>1, SetKeeps
  <2>2. CASE QuantumAt(a, at) # NULL
    BY <1>4, <2>2 DEF Keeps
  <2> QED BY <2>1, <2>2
<1>8. F[at.item + 1] \subseteq DOMAIN q
  BY <1>3 DEF Reaches, Stored
<1>9. Written(l, at, d) = SetQuantum(l, at, q)
  BY DEF Written
<1> HIDE DEF q
<1>10. q # NULL
  BY <1>5, <1>8, NullEmpty
<1>11. Keeps(l, Written(l, at, d))
  BY <1>3, <1>9, <1>10, SetKeeps DEF Reaches
<1> QED BY <1>2, <1>7, <1>11 DEF Keeps, l

(* So do the calls that look at the list only, or run out of memory.       *)
LEMMA OtherKeeps ==
  ASSUME NEW data, List(data), NEW at, at.item \in Nat, NEW qset \in Nat,
         NEW l \in {scull_follow(data, at.item), WithArray(data, at, qset)}
                     \cup FailedFollows(data, at.item)
  PROVE  Keeps(data, l)
<1>1. CASE l = scull_follow(data, at.item)
  BY <1>1, LongerKeeps DEF scull_follow
<1>2. CASE l = WithArray(data, at, qset)
  BY <1>2, WithArrayKeeps
<1>3. CASE l \in FailedFollows(data, at.item)
  <2>1. PICK k \in Len(data) .. at.item : l = Longer(data, k)
    BY <1>3 DEF FailedFollows
  <2>2. k \in Nat
    BY ListIs
  <2> QED BY <2>1, <2>2, LongerKeeps
<1> QED BY <1>1, <1>2, <1>3

(* Where the first byte of a page is, if quanta are pages.                 *)
LEMMA PagePlace ==
  ASSUME NEW n \in Nat, NEW page \in Nat \ {0}, NEW qset \in Nat \ {0}
  PROVE  /\ Place(n * page, page, qset).item = n \div qset
         /\ Place(n * page, page, qset).s_pos = n % qset
         /\ Place(n * page, page, qset).q_pos = 0
<1> DEFINE d == n \div qset
           r == n % qset
           m == page * qset
<1>1. d \in Nat /\ r \in 0 .. qset - 1 /\ n = qset * d + r
  BY Z3
<1> HIDE DEF d, r
<1>2. m \in Nat \ {0}
  BY Z3
<1>3. n * page = m * d + r * page
  BY <1>1, Z3
<1>4. r * page \in 0 .. m - 1
  <2>1. r + 1 <= qset /\ r \in Nat
    BY <1>1
  <2>2. page * (r + 1) <= page * qset
    BY <2>1, Z3
  <2>3. page * (r + 1) = r * page + page /\ r * page \in Nat
    BY <2>1, Z3
  <2> QED BY <1>2, <2>2, <2>3
<1> DEFINE x0 == r * page
           y0 == n * page
<1>5. x0 \in 0 .. m - 1 /\ y0 = m * d + x0
  BY <1>3, <1>4
<1>6. x0 \div page = r /\ x0 % page = 0
  BY <1>1, Z3
<1> HIDE DEF m, x0, y0
<1>7. y0 \div m = d /\ y0 % m = x0
  BY <1>1, <1>2, <1>5, Z3
<1> QED BY <1>6, <1>7 DEF Place, d, r, m, x0, y0

-----------------------------------------------------------------------------
(***************************************************************************)
(* Scullp, sculld and scullv, for one process.                             *)
(***************************************************************************)
SpOrders == Orders \cup {0, 1}

(* The file is in the first item where quanta are of several pages: those  *)
(* of the other items are allocated with one (scullp/main.c:132-140).      *)
InFirstItem ==
  \A order \in SpOrders :
    order = 0 \/ MaxPos < PAGE_SIZE * 2 ^ order * SCULLP_QSET

SpSizes(order) ==
  [k \in Nat |-> 0 .. (IF k = 1 THEN Sp!Pages(order) ELSE PAGE_SIZE) - 1]

SpDevice(d) ==
  /\ d = [order |-> d.order, qset |-> d.qset, size |-> d.size, vmas |-> d.vmas,
          data |-> d.data]
  /\ d.order \in SpOrders /\ d.qset = SCULLP_QSET /\ d.size \in 0 .. MaxPos
  /\ d.vmas \in Nat /\ List(d.data) /\ QuantaHold(d.data, SpSizes(d.order))

SpFiles == [mode : {"closed", "r", "w", "rw"}, f_pos : 0 .. MaxPos]

(* What a call takes along is the device's; a write was let in where its   *)
(* bytes fit.                                                              *)
SpCallFits(p) ==
  /\ sp_call[p].op \in {"read", "write"} =>
       sp_call[p].quantum = Sp!Pages(sp_dev.order) /\ sp_call[p].qset = SCULLP_QSET
  /\ sp_call[p].op = "read" => sp_call[p].arg \in Nat
  /\ sp_call[p].op = "write" =>
       List(sp_call[p].arg) /\ sp_file[p].f_pos + Len(sp_call[p].arg) <= MaxPos

(* Every mapping is counted, and a page that was touched in one is there.  *)
SpMapsFit(p) ==
  /\ sp_maps[p] = [vmas |-> sp_dev.vmas, touched |-> sp_maps[p].touched]
  /\ sp_maps[p].touched # {} => sp_dev.vmas > 0
  /\ \A t \in sp_maps[p].touched :
       /\ t[1] \in Nat /\ t[2] = Sp!PageAt(t[1])
       /\ QuantumAt(sp_dev.data, t[2]) # NULL

SpInv ==
  /\ sp_order \in SpOrders /\ sp_qset = SCULLP_QSET
  /\ SpDevice(sp_dev)
  /\ sp_file \in [Procs -> SpFiles]
  /\ sp_call = [p \in Procs |-> sp_call[p]] /\ \A p \in Procs : SpCallFits(p)
  /\ sp_maps = [p \in Procs |-> sp_maps[p]] /\ \A p \in Procs : SpMapsFit(p)

(* What is mapped has quanta of one page; so in scullp and sculld.         *)
SpMapped(p) == sp_dev.vmas > 0 \/ sp_call[p].op = "mmap"
SpSmall == \A p \in Procs : SpMapped(p) => sp_dev.order = 0

(* Scullp's instance of the memory is the one of this module.              *)
LEMMA SpSameMemory ==
  /\ Sp!NULL = NULL
  /\ \A f, n, m : Sp!Place(f, n, m) = Place(f, n, m)
  /\ \A f, n : /\ Sp!scull_follow(f, n) = scull_follow(f, n)
               /\ Sp!FailedFollows(f, n) = FailedFollows(f, n)
  /\ \A f, at, n : Sp!WithArray(f, at, n) = WithArray(f, at, n)
  /\ \A f, at : Sp!QuantumAt(f, at) = QuantumAt(f, at)
  /\ \A f, at, n, q : Sp!WithQuantum(f, at, n, q) = WithQuantum(f, at, n, q)
  /\ \A f, at, d : Sp!Written(f, at, d) = Written(f, at, d)
  /\ \A a, b : Sp!Smaller(a, b) = Smaller(a, b)
<1>1. Sp!NULL = NULL
  BY DEF Sp!NULL, NULL
<1>2. \A f, n, m : Sp!Place(f, n, m) = Place(f, n, m)
  BY DEF Sp!Place, Place
<1>3. \A f, n : Sp!Longer(f, n) = Longer(f, n)
  BY <1>1 DEF Sp!Longer, Longer
<1>4. \A f, n : /\ Sp!scull_follow(f, n) = scull_follow(f, n)
                /\ Sp!FailedFollows(f, n) = FailedFollows(f, n)
  BY <1>3 DEF Sp!scull_follow, scull_follow, Sp!FailedFollows, FailedFollows
<1>5. \A f, at, n : Sp!WithArray(f, at, n) = WithArray(f, at, n)
  BY <1>1, <1>4 DEF Sp!WithArray, WithArray
<1>6. \A f, at : Sp!QuantumAt(f, at) = QuantumAt(f, at)
  BY <1>1 DEF Sp!QuantumAt, QuantumAt, Sp!At, At
<1>7. \A f, at, q : Sp!SetQuantum(f, at, q) = SetQuantum(f, at, q)
  BY DEF Sp!SetQuantum, SetQuantum
<1>8. \A f, at, n, q : Sp!WithQuantum(f, at, n, q) = WithQuantum(f, at, n, q)
  BY <1>1, <1>5, <1>6, <1>7 DEF Sp!WithQuantum, WithQuantum
<1>9. \A f, n, d : Sp!Stored(f, n, d) = Stored(f, n, d)
  BY DEF Sp!Stored, Stored
<1>10. \A f, at, d : Sp!Written(f, at, d) = Written(f, at, d)
  BY <1>6, <1>7, <1>9 DEF Sp!Written, Written
<1>11. \A a, b : Sp!Smaller(a, b) = Smaller(a, b)
  BY DEF Sp!Smaller, Smaller
<1> QED BY <1>1, <1>2, <1>4, <1>5, <1>6, <1>8, <1>10, <1>11

(* The bytes of a quantum of the first item: some pages.                   *)
LEMMA SpPages ==
  /\ Sp!Pages(0) = PAGE_SIZE
  /\ \A order \in SpOrders : Sp!Pages(order) \in Nat /\ Sp!Pages(order) >= PAGE_SIZE
<1>1. 2 ^ 0 = 1 /\ 2 ^ 1 = 2
  OBVIOUS
<1>2. ASSUME NEW order \in SpOrders
      PROVE  PAGE_SIZE * 2 ^ order \in Nat /\ PAGE_SIZE * 2 ^ order >= PAGE_SIZE
  <2> DEFINE n == 2 ^ order
  <2>1. n \in Nat \ {0}
    <3>1. CASE order \in Orders
      BY <3>1, PagesAssumption
    <3>2. CASE order = 0
      BY <1>1, <3>2
    <3>3. CASE order = 1
      BY <1>1, <3>3
    <3> QED BY <3>1, <3>2, <3>3 DEF SpOrders
  <2> HIDE DEF n
  <2>2. PAGE_SIZE * n \in Nat /\ PAGE_SIZE * n >= PAGE_SIZE
    BY <2>1, PagesAssumption, Z3
  <2> QED BY <2>2 DEF n
<1> QED BY <1>1, <1>2, PagesAssumption DEF Sp!Pages

(* The device after a trim, and as it is loaded.                           *)
LEMMA SpEmpty ==
  ASSUME NEW order \in SpOrders
  PROVE  SpDevice([order |-> order, qset |-> SCULLP_QSET, size |-> 0, vmas |-> 0,
                   data |-> <<NULL>>])
<1>1. List(<<NULL>>) /\ DOMAIN <<NULL>> = {1} /\ <<NULL>>[1] = NULL
  BY DEF List
<1>2. QuantaHold(<<NULL>>, SpSizes(order))
  BY <1>1, NullEmpty DEF QuantaHold
<1>3. 0 \in 0 .. MaxPos
  BY ParametersAssumption
<1> QED BY <1>1, <1>2, <1>3 DEF SpDevice

(* Where a call under way comes to, and what the quanta there hold.        *)
LEMMA SpPlaced ==
  ASSUME SpInv, InFirstItem, NEW p \in Procs, sp_call[p].op \in {"read", "write"}
  PROVE  LET c == sp_call[p]
             at == Place(sp_file[p].f_pos, c.quantum, c.qset)
         IN  /\ c.quantum \in Nat /\ c.qset \in Nat /\ sp_file[p].f_pos \in 0 .. MaxPos
             /\ at.item \in Nat /\ at.s_pos \in 0 .. c.qset - 1
             /\ at.q_pos \in 0 .. c.quantum - 1
             /\ SpSizes(sp_dev.order)[at.item + 1] = 0 .. c.quantum - 1
             /\ DOMAIN Sp!FreshQuantum(at.item) = 0 .. c.quantum - 1
<1> DEFINE c == sp_call[p]
           pos == sp_file[p].f_pos
           at == Place(pos, c.quantum, c.qset)
<1>1. /\ c.quantum = Sp!Pages(sp_dev.order) /\ c.qset = SCULLP_QSET
      /\ sp_dev.order \in SpOrders
  BY DEF SpInv, SpCallFits, SpDevice
<1>2. c.quantum \in Nat \ {0} /\ c.qset \in Nat \ {0}
  BY <1>1, SpPages, PagesAssumption
<1>3. pos \in 0 .. MaxPos /\ pos \in Nat /\ MaxPos \in Nat
  BY ParametersAssumption DEF SpInv, SpFiles
<1> HIDE DEF c, pos
<1>4. c.quantum * c.qset > 0 /\ c.quantum * c.qset \in Nat
  BY <1>2, Z3
<1>5. /\ at.item \in Nat /\ at.s_pos \in 0 .. c.qset - 1
      /\ at.q_pos \in 0 .. c.quantum - 1
  BY <1>2, <1>3, <1>4, PlaceInSet
<1>6. sp_dev.order # 0 => at.item = 0
  <2> SUFFICES ASSUME sp_dev.order # 0 PROVE at.item = 0
    OBVIOUS
  <2>1. pos < c.quantum * c.qset
    BY <1>1, <1>3, <1>4 DEF InFirstItem, Sp!Pages
  <2>2. at.item = pos \div (c.quantum * c.qset)
    BY DEF Place
  <2> DEFINE m == c.quantum * c.qset
  <2>3. m \in Nat \ {0} /\ pos < m
    BY <1>4, <2>1
  <2> HIDE DEF m
  <2>4. pos \div m = 0
    BY <1>3, <2>3
  <2> QED BY <2>2, <2>4 DEF m
<1> HIDE DEF at
<1>7. c.quantum = Sp!Pages(IF at.item = 0 THEN sp_dev.order ELSE 0)
  BY <1>1, <1>6
<1>8. SpSizes(sp_dev.order)[at.item + 1] = 0 .. c.quantum - 1
  BY <1>1, <1>5, <1>6, SpPages DEF SpSizes
<1>9. DOMAIN Sp!FreshQuantum(at.item) = 0 .. c.quantum - 1
  BY <1>7 DEF Sp!FreshQuantum, Sp!ItemOrder
<1> QED BY <1>2, <1>3, <1>5, <1>8, <1>9 DEF c, pos, at

(* A call of p ends, or it starts, and its file or the list are changed.   *)
LEMMA SpChanges ==
  ASSUME SpInv, OneProcess, NEW p \in Procs,
         UNCHANGED <<sp_order, sp_qset, sp_maps>>,
         NEW c, sp_call' = [sp_call EXCEPT ![p] = c], c.op \notin {"read", "write"},
         NEW f \in SpFiles, sp_file' = [sp_file EXCEPT ![p] = f],
         NEW l, List(l), QuantaHold(l, SpSizes(sp_dev.order)), Keeps(sp_dev.data, l),
         NEW size \in 0 .. MaxPos, sp_dev' = [sp_dev EXCEPT !.data = l, !.size = size]
  PROVE  SpInv' /\ sp_dev'.order = sp_dev.order /\ sp_dev'.vmas = sp_dev.vmas
<1>1. /\ sp_dev' = [order |-> sp_dev.order, qset |-> sp_dev.qset, size |-> size,
                    vmas |-> sp_dev.vmas, data |-> l]
      /\ SpDevice(sp_dev)
  BY DEF SpInv, SpDevice
<1>2. SpDevice(sp_dev)' /\ sp_dev'.order = sp_dev.order /\ sp_dev'.vmas = sp_dev.vmas
      /\ sp_dev'.qset = sp_dev.qset /\ sp_dev'.data = l
  BY <1>1 DEF SpDevice
<1>3. sp_file' \in [Procs -> SpFiles]
  BY DEF SpInv
<1>4. sp_call' = [q \in Procs |-> sp_call'[q]] /\ \A q \in Procs : sp_call'[q] = c
  BY DEF SpInv, OneProcess
<1>5. \A q \in Procs : SpCallFits(q)'
  BY <1>4 DEF SpCallFits
<1>6. ASSUME NEW q \in Procs PROVE SpMapsFit(q)'
  <2>1. SpMapsFit(q)
    BY DEF SpInv
  <2>2. ASSUME NEW t \in sp_maps[q].touched PROVE QuantumAt(l, t[2]) # NULL
    <3>1. /\ t[1] \in Nat /\ t[2] = Sp!PageAt(t[1]) /\ sp_dev.qset = SCULLP_QSET
          /\ QuantumAt(sp_dev.data, t[2]) # NULL
      BY <1>1, <2>1 DEF SpMapsFit, SpDevice
    <3>2. t[2].item \in Nat
      BY <3>1, PagesAssumption DEF Sp!PageAt
    <3> QED BY <3>1, <3>2 DEF Keeps
  <2> QED BY <1>2, <2>1, <2>2 DEF SpMapsFit, Sp!PageAt
<1> QED BY <1>2, <1>3, <1>4, <1>5, <1>6 DEF SpInv

(* What a look at the list can make of the device.                         *)
LEMMA SpLooks ==
  ASSUME SpInv, InFirstItem, OneProcess, NEW p \in Procs,
         sp_call[p].op \in {"read", "write"},
         UNCHANGED <<sp_order, sp_qset, sp_maps>>,
         NEW c, sp_call' = [sp_call EXCEPT ![p] = c], c.op \notin {"read", "write"},
         NEW f \in SpFiles, sp_file' = [sp_file EXCEPT ![p] = f],
         NEW at, at = Place(sp_file[p].f_pos, sp_call[p].quantum, sp_call[p].qset),
         \/ sp_dev' = sp_dev
         \/ \E l \in {scull_follow(sp_dev.data, at.item),
                      WithArray(sp_dev.data, at, sp_call[p].qset)}
                       \cup FailedFollows(sp_dev.data, at.item) :
              sp_dev' = [sp_dev EXCEPT !.data = l]
  PROVE  SpInv' /\ sp_dev'.order = sp_dev.order /\ sp_dev'.vmas = sp_dev.vmas
<1>1. /\ List(sp_dev.data) /\ QuantaHold(sp_dev.data, SpSizes(sp_dev.order))
      /\ sp_dev.size \in 0 .. MaxPos /\ Keeps(sp_dev.data, sp_dev.data)
      /\ sp_dev = [order |-> sp_dev.order, qset |-> sp_dev.qset, size |-> sp_dev.size,
                   vmas |-> sp_dev.vmas, data |-> sp_dev.data]
  BY DEF SpInv, SpDevice, Keeps
<1>2. at.item \in Nat /\ sp_call[p].qset \in Nat
  BY SpPlaced
<1>3. PICK l : /\ List(l) /\ QuantaHold(l, SpSizes(sp_dev.order)) /\ Keeps(sp_dev.data, l)
               /\ sp_dev' = [sp_dev EXCEPT !.data = l, !.size = sp_dev.size]
  <2>1. CASE sp_dev' = sp_dev
    <3>1. sp_dev = [sp_dev EXCEPT !.data = sp_dev.data, !.size = sp_dev.size]
      BY <1>1
    <3>2. sp_dev' = [sp_dev EXCEPT !.data = sp_dev.data, !.size = sp_dev.size]
      BY <2>1, <3>1
    <3> QED BY <1>1, <3>2
  <2>2. CASE sp_dev' # sp_dev
    <3>1. PICK l \in {scull_follow(sp_dev.data, at.item),
                      WithArray(sp_dev.data, at, sp_call[p].qset)}
                       \cup FailedFollows(sp_dev.data, at.item) :
            sp_dev' = [sp_dev EXCEPT !.data = l]
      BY <2>2
    <3>2. List(l) /\ QuantaHold(l, SpSizes(sp_dev.order)) /\ Keeps(sp_dev.data, l)
      BY <1>1, <1>2, <3>1, OtherShape, OtherKeeps
    <3>3. sp_dev' = [sp_dev EXCEPT !.data = l, !.size = sp_dev.size]
      BY <1>1, <3>1
    <3> QED BY <1>1, <3>2, <3>3, Zenon
  <2> QED BY <2>1, <2>2
<1> QED BY <1>1, <1>3, SpChanges

(* Reads.                                                                  *)
LEMMA SpReadStep ==
  ASSUME SpInv, InFirstItem, OneProcess, NEW p \in Procs, Sp!scullp_read(p)
  PROVE  /\ SpInv' /\ sp_dev'.order = sp_dev.order /\ sp_dev'.vmas = sp_dev.vmas
         /\ sp_call'[p].op = "done"
<1> DEFINE c == sp_call[p]
           pos == sp_file[p].f_pos
           at == Place(pos, c.quantum, c.qset)
           count == Smaller(Smaller(c.arg, sp_dev.size - pos), c.quantum - at.q_pos)
<1>1. /\ c.op = "read" /\ c.arg \in Nat /\ sp_dev.size \in 0 .. MaxPos /\ MaxPos \in Nat
      /\ sp_file[p] \in SpFiles /\ sp_file = [sp_file EXCEPT ![p] = sp_file[p]]
      /\ sp_call = [q \in Procs |-> sp_call[q]]
  BY ParametersAssumption DEF Sp!scullp_read, SpInv, SpCallFits, SpDevice
<1>2. /\ c.quantum \in Nat /\ pos \in Nat /\ at.item \in Nat
      /\ at.q_pos \in 0 .. c.quantum - 1
  BY <1>1, SpPlaced
<1>3. PICK result : sp_call' = [sp_call EXCEPT ![p] = [op |-> "done", result |-> result]]
  BY DEF Sp!scullp_read, Sp!Finish
<1>4. UNCHANGED <<sp_order, sp_qset, sp_maps>>
  BY DEF Sp!scullp_read, Sp!parameters
<1>5. \/ sp_dev' = sp_dev
      \/ sp_dev' = [sp_dev EXCEPT !.data = scull_follow(sp_dev.data, at.item)]
  BY SpSameMemory DEF Sp!scullp_read
<1>6. \/ sp_file' = sp_file
      \/ pos <= sp_dev.size /\ sp_file' = [sp_file EXCEPT ![p].f_pos = @ + count]
  <2>1. CASE pos > sp_dev.size
    BY <2>1 DEF Sp!scullp_read
  <2>2. CASE ~ (pos > sp_dev.size)
    <3>1. \/ sp_file' = sp_file
          \/ sp_file' = [sp_file EXCEPT ![p].f_pos = @ + count]
      BY <2>2, SpSameMemory DEF Sp!scullp_read
    <3> HIDE DEF pos, count
    <3> QED BY <1>1, <1>2, <2>2, <3>1
  <2> QED BY <2>1, <2>2
<1> HIDE DEF at
<1>7. pos <= sp_dev.size => pos + count \in 0 .. MaxPos
  BY <1>1, <1>2 DEF Smaller
<1> HIDE DEF count
<1>8. \E f \in SpFiles : sp_file' = [sp_file EXCEPT ![p] = f]
  <2>1. CASE sp_file' = sp_file
    BY <1>1, <2>1
  <2>2. CASE sp_file' # sp_file
    <3>1. sp_file' = [sp_file EXCEPT ![p] = [sp_file[p] EXCEPT !.f_pos = pos + count]]
      BY <1>6, <2>2
    <3>2. [sp_file[p] EXCEPT !.f_pos = pos + count] \in SpFiles
      BY <1>1, <1>6, <1>7, <2>2 DEF SpFiles
    <3> QED BY <3>1, <3>2
  <2> QED BY <2>1, <2>2
<1> DEFINE d == [op |-> "done", result |-> result]
<1>9. d.op = "done"
  OBVIOUS
<1>10. sp_call' = [sp_call EXCEPT ![p] = d] /\ sp_call'[p] = d
  BY <1>1, <1>3
<1> HIDE DEF d
<1>11. d.op \notin {"read", "write"}
  BY <1>9
<1>12. SpInv' /\ sp_dev'.order = sp_dev.order /\ sp_dev'.vmas = sp_dev.vmas
  <2>1. \/ sp_dev' = sp_dev
        \/ \E l \in {scull_follow(sp_dev.data, at.item),
                     WithArray(sp_dev.data, at, sp_call[p].qset)}
                      \cup FailedFollows(sp_dev.data, at.item) :
             sp_dev' = [sp_dev EXCEPT !.data = l]
    BY <1>5
  <2>2. sp_call[p].op \in {"read", "write"}
    BY <1>1
  <2>3. at = Place(sp_file[p].f_pos, sp_call[p].quantum, sp_call[p].qset)
    BY DEF at
  <2> HIDE DEF c, pos
  <2> QED BY <1>4, <1>8, <1>10, <1>11, <2>1, <2>2, <2>3, SpLooks
<1> QED BY <1>9, <1>10, <1>12

(* A write stays within the quantum that its position is in.               *)
LEMMA SpWriteStep ==
  ASSUME SpInv, InFirstItem, OneProcess, NEW p \in Procs, Sp!scullp_write(p)
  PROVE  /\ SpInv' /\ sp_dev'.order = sp_dev.order /\ sp_dev'.vmas = sp_dev.vmas
         /\ sp_call'[p].op = "done"
<1> DEFINE c == sp_call[p]
           pos == sp_file[p].f_pos
           at == Place(pos, c.quantum, c.qset)
           fresh == Sp!FreshQuantum(at.item)
           l == WithQuantum(sp_dev.data, at, c.qset, fresh)
           count == Smaller(Len(c.arg), c.quantum - at.q_pos)
           F == SpSizes(sp_dev.order)
<1>1. /\ c.op = "write" /\ List(c.arg) /\ Len(c.arg) \in Nat /\ pos + Len(c.arg) <= MaxPos
      /\ sp_file[p] \in SpFiles /\ sp_file = [sp_file EXCEPT ![p] = sp_file[p]]
      /\ List(sp_dev.data) /\ QuantaHold(sp_dev.data, F)
      /\ sp_dev.size \in 0 .. MaxPos /\ MaxPos \in Nat
      /\ sp_dev = [order |-> sp_dev.order, qset |-> sp_dev.qset, size |-> sp_dev.size,
                   vmas |-> sp_dev.vmas, data |-> sp_dev.data]
      /\ sp_call = [q \in Procs |-> sp_call[q]]
  BY ListIs, ParametersAssumption DEF Sp!scullp_write, SpInv, SpCallFits, SpDevice
<1>2. /\ c.quantum \in Nat /\ c.qset \in Nat /\ pos \in 0 .. MaxPos
      /\ at.item \in Nat /\ at.s_pos \in 0 .. c.qset - 1
      /\ at.q_pos \in 0 .. c.quantum - 1
      /\ F[at.item + 1] = 0 .. c.quantum - 1 /\ DOMAIN fresh = 0 .. c.quantum - 1
  BY <1>1, SpPlaced
<1>3. PICK result : sp_call' = [sp_call EXCEPT ![p] = [op |-> "done", result |-> result]]
  BY DEF Sp!scullp_write, Sp!Finish
<1>4. UNCHANGED <<sp_order, sp_qset, sp_maps>>
  BY DEF Sp!scullp_write, Sp!parameters
<1> HIDE DEF fresh
<1>5. \/ /\ sp_dev' = [sp_dev EXCEPT !.data = Written(l, at, SubSeq(c.arg, 1, count)),
                                     !.size = Sp!Grown(@, pos + count)]
         /\ sp_file' = [sp_file EXCEPT ![p].f_pos = pos + count]
      \/ /\ \E n \in 0 .. count - 1 :
              sp_dev' = [sp_dev EXCEPT !.data = Written(l, at, SubSeq(c.arg, 1, n))]
         /\ UNCHANGED sp_file
  BY SpSameMemory DEF Sp!scullp_write, fresh
<1> HIDE DEF at, c, pos
<1>6. /\ count \in 0 .. Len(c.arg) /\ at.q_pos + count <= c.quantum
      /\ pos + count \in 0 .. MaxPos
  <2> DEFINE a == Len(c.arg)
             q == at.q_pos
             b == c.quantum
  <2>1. a \in Nat /\ b \in Nat /\ q \in 0 .. b - 1 /\ pos \in 0 .. MaxPos
    BY <1>1, <1>2
  <2>2. pos + a <= MaxPos /\ MaxPos \in Nat
    BY <1>1
  <2> HIDE DEF a, b, q
  <2>3. Smaller(a, b - q) \in 0 .. a /\ q + Smaller(a, b - q) <= b
    BY <2>1 DEF Smaller
  <2>4. pos + Smaller(a, b - q) \in 0 .. MaxPos
    BY <2>1, <2>2, <2>3
  <2> QED BY <2>3, <2>4 DEF a, b, q
<1> HIDE DEF count
<1>7. PICK n \in 0 .. count, size \in 0 .. MaxPos :
        sp_dev' = [sp_dev EXCEPT !.data = Written(l, at, SubSeq(c.arg, 1, n)),
                                 !.size = size]
  <2>1. CASE sp_dev' = [sp_dev EXCEPT !.data = Written(l, at, SubSeq(c.arg, 1, count)),
                                      !.size = Sp!Grown(@, pos + count)]
    <3>1. Sp!Grown(sp_dev.size, pos + count) \in 0 .. MaxPos /\ count \in 0 .. count
      BY <1>1, <1>6 DEF Sp!Grown
    <3> QED BY <2>1, <3>1
  <2>2. ASSUME NEW n \in 0 .. count - 1,
               sp_dev' = [sp_dev EXCEPT !.data = Written(l, at, SubSeq(c.arg, 1, n))]
        PROVE  \E k \in 0 .. count, size \in 0 .. MaxPos :
                 sp_dev' = [sp_dev EXCEPT !.data = Written(l, at, SubSeq(c.arg, 1, k)),
                                          !.size = size]
    <3> DEFINE data == Written(l, at, SubSeq(c.arg, 1, n))
    <3> HIDE DEF data
    <3>1. sp_dev' = [sp_dev EXCEPT !.data = data]
      BY <2>2 DEF data
    <3>2. sp_dev' = [sp_dev EXCEPT !.data = data, !.size = sp_dev.size]
      BY <1>1, <3>1
    <3>3. n \in 0 .. count
      BY <1>1, <1>6
    <3> QED BY <1>1, <3>2, <3>3 DEF data
  <2> QED BY <1>5, <2>1, <2>2
<1>8. \E f \in SpFiles : sp_file' = [sp_file EXCEPT ![p] = f]
  <2>1. CASE sp_file' = sp_file
    BY <1>1, <2>1
  <2>2. CASE sp_file' # sp_file
    <3>1. sp_file' = [sp_file EXCEPT ![p] = [sp_file[p] EXCEPT !.f_pos = pos + count]]
      BY <1>5, <2>2
    <3>2. [sp_file[p] EXCEPT !.f_pos = pos + count] \in SpFiles
      BY <1>1, <1>6 DEF SpFiles
    <3> QED BY <3>1, <3>2
  <2> QED BY <2>1, <2>2
<1> DEFINE data == Written(l, at, SubSeq(c.arg, 1, n))
<1>9. List(data) /\ QuantaHold(data, F) /\ Keeps(sp_dev.data, data)
  <2>1. /\ DOMAIN fresh = F[at.item + 1] /\ 0 .. c.quantum - 1 \subseteq F[at.item + 1]
        /\ n \in 0 .. Len(c.arg) /\ at.q_pos + n <= c.quantum
    BY SMTT(30), <1>1, <1>2, <1>6, <1>7
  <2> HIDE DEF F
  <2>2. List(data) /\ QuantaHold(data, F)
    BY <1>1, <1>2, <2>1, WriteShape
  <2>3. Keeps(sp_dev.data, data)
    BY <1>1, <1>2, <2>1, WriteKeeps
  <2> QED BY <2>2, <2>3
<1> DEFINE d == [op |-> "done", result |-> result]
<1>10. d.op = "done"
  OBVIOUS
<1>11. sp_call' = [sp_call EXCEPT ![p] = d] /\ sp_call'[p] = d
  BY <1>1, <1>3
<1> HIDE DEF l, data, d
<1>12. d.op \notin {"read", "write"}
  BY <1>10
<1>13. sp_dev' = [sp_dev EXCEPT !.data = data, !.size = size]
  BY <1>7 DEF data
<1>14. SpInv' /\ sp_dev'.order = sp_dev.order /\ sp_dev'.vmas = sp_dev.vmas
  BY <1>4, <1>7, <1>8, <1>9, <1>11, <1>12, <1>13, SpChanges
<1> QED BY <1>10, <1>11, <1>14

(* A call that fails leaves at most a longer list and an array behind; and *)
(* a call returns.                                                         *)
LEMMA SpFailStep ==
  ASSUME SpInv, InFirstItem, OneProcess, NEW p \in Procs,
         \/ Sp!WriteNoMemory(p) \/ Sp!FollowDies(p)
         \/ Sp!Interrupted(p) \/ Sp!Return(p)
  PROVE  /\ SpInv' /\ sp_dev'.order = sp_dev.order /\ sp_dev'.vmas = sp_dev.vmas
         /\ sp_call'[p].op # "mmap"
<1> DEFINE at == Place(sp_file[p].f_pos, sp_call[p].quantum, sp_call[p].qset)
<1>1. UNCHANGED <<sp_order, sp_qset, sp_file, sp_maps>>
  BY DEF Sp!WriteNoMemory, Sp!FollowDies, Sp!Interrupted, Sp!Return, Sp!parameters
<1>2. /\ sp_file[p] \in SpFiles /\ sp_file' = [sp_file EXCEPT ![p] = sp_file[p]]
      /\ sp_call = [q \in Procs |-> sp_call[q]]
  BY <1>1 DEF SpInv
<1>3. CASE Sp!Return(p)
  <2> DEFINE c == Sp!NoCall
  <2>1. sp_dev' = sp_dev /\ sp_call' = [sp_call EXCEPT ![p] = c] /\ c.op = "none"
    BY <1>3 DEF Sp!Return, Sp!NoCall
  <2> HIDE DEF c
  <2>2. /\ List(sp_dev.data) /\ QuantaHold(sp_dev.data, SpSizes(sp_dev.order))
        /\ Keeps(sp_dev.data, sp_dev.data) /\ sp_dev.size \in 0 .. MaxPos
        /\ sp_dev = [order |-> sp_dev.order, qset |-> sp_dev.qset, size |-> sp_dev.size,
                     vmas |-> sp_dev.vmas, data |-> sp_dev.data]
    BY DEF SpInv, SpDevice, Keeps
  <2>3. sp_dev = [sp_dev EXCEPT !.data = sp_dev.data, !.size = sp_dev.size]
    BY <2>2
  <2>4. c.op \notin {"read", "write"} /\ sp_call'[p].op = "none"
    BY <1>2, <2>1
  <2>5. SpInv' /\ sp_dev'.order = sp_dev.order /\ sp_dev'.vmas = sp_dev.vmas
    BY <1>1, <1>2, <2>1, <2>2, <2>3, <2>4, SpChanges
  <2> QED BY <2>4, <2>5
<1>4. CASE Sp!WriteNoMemory(p) \/ Sp!FollowDies(p) \/ Sp!Interrupted(p)
  <2>1. sp_call[p].op \in {"read", "write"}
    BY <1>4 DEF Sp!WriteNoMemory, Sp!FollowDies, Sp!Interrupted
  <2>2. PICK c : sp_call' = [sp_call EXCEPT ![p] = c] /\ c.op \in {"done", "died"}
    <3>1. CASE Sp!FollowDies(p)
      <4> DEFINE r == [op |-> "died"]
      <4>1. sp_call' = [sp_call EXCEPT ![p] = r]
        BY <3>1 DEF Sp!FollowDies
      <4>2. r.op \in {"done", "died"}
        OBVIOUS
      <4> HIDE DEF r
      <4> QED BY <4>1, <4>2
    <3>2. CASE Sp!WriteNoMemory(p) \/ Sp!Interrupted(p)
      <4> DEFINE r == [op |-> "done", result |-> <<"error">>]
      <4>1. sp_call' = [sp_call EXCEPT ![p] = r]
        BY <3>2 DEF Sp!WriteNoMemory, Sp!Interrupted, Sp!Finish
      <4>2. r.op \in {"done", "died"}
        OBVIOUS
      <4> HIDE DEF r
      <4> QED BY <4>1, <4>2
    <3> QED BY <1>4, <3>1, <3>2
  <2>3. \/ sp_dev' = sp_dev
        \/ \E l \in {scull_follow(sp_dev.data, at.item),
                     WithArray(sp_dev.data, at, sp_call[p].qset)}
                      \cup FailedFollows(sp_dev.data, at.item) :
             sp_dev' = [sp_dev EXCEPT !.data = l]
    <3>1. CASE Sp!FollowDies(p)
      BY <3>1, SpSameMemory DEF Sp!FollowDies
    <3>2. CASE Sp!WriteNoMemory(p)
      BY <3>2, SpSameMemory DEF Sp!WriteNoMemory
    <3>3. CASE Sp!Interrupted(p)
      BY <3>3 DEF Sp!Interrupted
    <3> QED BY <1>4, <3>1, <3>2, <3>3
  <2>4. c.op \notin {"read", "write"} /\ sp_call'[p].op # "mmap"
    BY <1>2, <2>2
  <2> HIDE DEF at
  <2>5. SpInv' /\ sp_dev'.order = sp_dev.order /\ sp_dev'.vmas = sp_dev.vmas
    BY <1>1, <1>2, <2>1, <2>2, <2>3, <2>4, SpLooks DEF at
  <2> QED BY <2>4, <2>5
<1> QED BY <1>3, <1>4

(* Opening, closing and seeking: the device is trimmed only if nothing is  *)
(* mapped.                                                                 *)
LEMMA SpFileStep ==
  ASSUME SpInv, OneProcess, NEW p \in Procs,
         \/ \E mode \in {"r", "w", "rw"} : Sp!scullp_open(p, mode)
         \/ Sp!scullp_release(p)
         \/ \E off, whence : Sp!scullp_llseek(p, off, whence)
  PROVE  /\ SpInv' /\ (sp_dev'.order = sp_dev.order \/ sp_dev'.vmas = 0)
         /\ sp_dev'.vmas = sp_dev.vmas /\ sp_call'[p].op = "none"
<1>1. UNCHANGED <<sp_order, sp_qset, sp_call, sp_maps>> /\ sp_call[p] = Sp!NoCall
  BY DEF Sp!scullp_open, Sp!scullp_release, Sp!scullp_llseek, Sp!parameters, Sp!UserAt
<1>2. sp_call[p].op = "none"
  BY <1>1 DEF Sp!NoCall
<1>3. PICK f \in SpFiles : sp_file' = [sp_file EXCEPT ![p] = f]
  <2>1. CASE \E mode \in {"r", "w", "rw"} : Sp!scullp_open(p, mode)
    <3>1. PICK mode \in {"r", "w", "rw"} :
            sp_file' = [sp_file EXCEPT ![p] = [mode |-> mode, f_pos |-> 0]]
      BY <2>1 DEF Sp!scullp_open
    <3>2. [mode |-> mode, f_pos |-> 0] \in SpFiles
      BY ParametersAssumption DEF SpFiles
    <3> QED BY <3>1, <3>2
  <2>2. CASE Sp!scullp_release(p)
    <3>1. [mode |-> "closed", f_pos |-> 0] \in SpFiles
      BY ParametersAssumption DEF SpFiles
    <3> QED BY <2>2, <3>1 DEF Sp!scullp_release, Sp!Closed
  <2>3. CASE \E off, whence : Sp!scullp_llseek(p, off, whence)
    <3>1. PICK n \in 0 .. MaxPos : sp_file' = [sp_file EXCEPT ![p].f_pos = n]
      BY <2>3 DEF Sp!scullp_llseek
    <3>2. sp_file' = [sp_file EXCEPT ![p] = [sp_file[p] EXCEPT !.f_pos = n]]
      BY <3>1
    <3>3. [sp_file[p] EXCEPT !.f_pos = n] \in SpFiles
      BY DEF SpInv, SpFiles
    <3> QED BY <3>2, <3>3
  <2> QED BY <2>1, <2>2, <2>3
<1>4. sp_file' \in [Procs -> SpFiles]
  BY <1>3 DEF SpInv
<1>5. sp_dev' = sp_dev \/ sp_dev' = Sp!scullp_trim(sp_dev)
  BY DEF Sp!scullp_open, Sp!scullp_release, Sp!scullp_llseek
<1>6. \/ sp_dev' = sp_dev
      \/ /\ sp_dev.vmas = 0
         /\ sp_dev' = [order |-> sp_order, qset |-> SCULLP_QSET, size |-> 0, vmas |-> 0,
                       data |-> <<NULL>>]
  <2>1. /\ sp_dev = [order |-> sp_dev.order, qset |-> sp_dev.qset, size |-> sp_dev.size,
                     vmas |-> sp_dev.vmas, data |-> sp_dev.data]
        /\ sp_dev.vmas \in Nat /\ sp_qset = SCULLP_QSET
    BY DEF SpInv, SpDevice
  <2>2. CASE sp_dev.vmas > 0
    BY <1>5, <2>2 DEF Sp!scullp_trim
  <2>3. CASE sp_dev.vmas = 0
    <3>1. sp_dev' = sp_dev
          \/ sp_dev' = [sp_dev EXCEPT !.size = 0, !.data = <<NULL>>,
                                      !.order = sp_order, !.qset = sp_qset]
      BY <1>5, <2>3, SpSameMemory DEF Sp!scullp_trim
    <3> QED BY <2>1, <2>3, <3>1
  <2> QED BY <2>1, <2>2, <2>3
<1>7. SpDevice(sp_dev)' /\ sp_dev'.vmas = sp_dev.vmas
      /\ (sp_dev'.order = sp_dev.order \/ sp_dev'.vmas = 0)
  BY <1>6, SpEmpty DEF SpInv, SpDevice
<1>8. ASSUME NEW q \in Procs PROVE SpMapsFit(q)'
  <2>1. SpMapsFit(q)
    BY DEF SpInv
  <2>2. CASE sp_dev' = sp_dev
    BY <1>1, <2>1, <2>2 DEF SpMapsFit, Sp!PageAt
  <2>3. CASE sp_dev.vmas = 0
    <3>1. sp_maps[q].touched = {}
      BY <2>1, <2>3 DEF SpMapsFit
    <3> QED BY <1>1, <1>7, <2>1, <3>1 DEF SpMapsFit
  <2> QED BY <1>6, <2>2, <2>3
<1>9. \A q \in Procs : SpCallFits(q)'
  BY <1>1, <1>2 DEF SpCallFits, OneProcess
<1> QED BY <1>1, <1>2, <1>4, <1>7, <1>8, <1>9 DEF SpInv

(* The start of a call.                                                    *)
LEMMA SpEnterStep ==
  ASSUME SpInv, OneProcess, NEW p \in Procs,
         \/ \E n \in CopyCounts : Sp!Enter(p, "read", n)
         \/ \E d \in CopyWrites :
              sp_file[p].f_pos + Len(d) <= MaxPos /\ Sp!Enter(p, "write", d)
  PROVE  SpInv' /\ sp_dev' = sp_dev /\ sp_call'[p].op # "mmap"
<1> DEFINE Begun(op, arg) ==
        /\ op \in {"read", "write"}
        /\ sp_call' = [sp_call EXCEPT ![p] = [op |-> op, arg |-> arg,
              quantum |-> Sp!Pages(sp_dev.order), qset |-> sp_dev.qset]]
        /\ op = "read" => arg \in Nat
        /\ op = "write" => List(arg) /\ sp_file[p].f_pos + Len(arg) <= MaxPos
<1>1. PICK op, arg : Begun(op, arg)
  <2>1. ASSUME NEW n \in CopyCounts, Sp!Enter(p, "read", n)
        PROVE  Begun("read", n)
    BY <2>1, CopiesAssumption DEF Sp!Enter
  <2>2. ASSUME NEW d \in CopyWrites, sp_file[p].f_pos + Len(d) <= MaxPos, Sp!Enter(p, "write", d)
        PROVE  Begun("write", d)
    BY <2>2, CopiesAssumption DEF Sp!Enter, List
  <2> HIDE DEF Begun
  <2> QED BY <2>1, <2>2, Zenon
<1>2. UNCHANGED <<sp_order, sp_qset, sp_dev, sp_file, sp_maps>>
  BY DEF Sp!Enter, Sp!parameters
<1>3. /\ sp_call' = [q \in Procs |-> sp_call'[q]]
      /\ \A q \in Procs : sp_call'[q] = [op |-> op, arg |-> arg,
                        quantum |-> Sp!Pages(sp_dev.order), qset |-> sp_dev.qset]
  BY <1>1 DEF SpInv, OneProcess
<1>4. sp_dev.qset = SCULLP_QSET
  BY DEF SpInv, SpDevice
<1>5. \A q \in Procs : SpCallFits(q)'
  BY <1>1, <1>2, <1>3, <1>4 DEF SpCallFits, OneProcess, Sp!Pages
<1>6. \A q \in Procs : SpMapsFit(q)'
  BY <1>2 DEF SpInv, SpMapsFit, Sp!PageAt
<1>7. SpInv'
  BY <1>2, <1>3, <1>5, <1>6 DEF SpInv, SpDevice
<1>8. sp_call'[p].op # "mmap"
  BY <1>1, <1>3
<1> QED BY <1>2, <1>7, <1>8

(* A mapping is counted, in the device and in the address space.           *)
LEMMA SpMapStep ==
  ASSUME SpInv, OneProcess, NEW p \in Procs, Sp!scullp_vma_open(p),
         \/ sp_call' = sp_call
         \/ sp_call' = [sp_call EXCEPT ![p] = Sp!NoCall]
  PROVE  SpInv' /\ sp_dev'.order = sp_dev.order
<1>1. /\ SpDevice(sp_dev) /\ sp_dev.vmas \in Nat
      /\ sp_dev = [order |-> sp_dev.order, qset |-> sp_dev.qset, size |-> sp_dev.size,
                   vmas |-> sp_dev.vmas, data |-> sp_dev.data]
  BY DEF SpInv, SpDevice
<1>2. UNCHANGED <<sp_order, sp_qset, sp_file>>
      /\ sp_dev' = [sp_dev EXCEPT !.vmas = @ + 1]
      /\ sp_maps' = [sp_maps EXCEPT ![p].vmas = @ + 1]
  BY DEF Sp!scullp_vma_open, Sp!parameters
<1>3. sp_dev' = [order |-> sp_dev.order, qset |-> sp_dev.qset, size |-> sp_dev.size,
                 vmas |-> sp_dev.vmas + 1, data |-> sp_dev.data]
  BY <1>1, <1>2
<1>4. SpDevice(sp_dev)' /\ sp_dev'.order = sp_dev.order
  BY <1>1, <1>3 DEF SpDevice
<1>5. sp_maps' = [q \in Procs |-> sp_maps'[q]]
      /\ \A q \in Procs : sp_maps'[q] = [sp_maps[q] EXCEPT !.vmas = @ + 1]
  BY <1>2 DEF SpInv, OneProcess
<1>6. ASSUME NEW q \in Procs PROVE SpMapsFit(q)'
  <2>1. SpMapsFit(q)
    BY DEF SpInv
  <2>2. sp_maps'[q] = [vmas |-> sp_dev.vmas + 1, touched |-> sp_maps[q].touched]
    BY <1>5, <2>1 DEF SpMapsFit
  <2> QED BY <1>1, <1>3, <2>1, <2>2 DEF SpMapsFit, Sp!PageAt
<1>7. sp_call' = [q \in Procs |-> sp_call'[q]]
      /\ \A q \in Procs : sp_call'[q] = sp_call[q] \/ sp_call'[q] = Sp!NoCall
  BY DEF SpInv, OneProcess
<1>8. \A q \in Procs : SpCallFits(q)'
  BY <1>2, <1>3, <1>7 DEF SpInv, SpCallFits, Sp!NoCall, Sp!Pages
<1> QED BY <1>2, <1>4, <1>5, <1>6, <1>7, <1>8 DEF SpInv

(* A mapping is taken away; with the last one, what was touched.           *)
LEMMA SpUnmapStep ==
  ASSUME SpInv, OneProcess, NEW p \in Procs, Sp!scullp_vma_close(p)
  PROVE  SpInv' /\ sp_dev'.order = sp_dev.order
<1>1. /\ SpDevice(sp_dev) /\ sp_dev.vmas \in Nat
      /\ sp_dev = [order |-> sp_dev.order, qset |-> sp_dev.qset, size |-> sp_dev.size,
                   vmas |-> sp_dev.vmas, data |-> sp_dev.data]
  BY DEF SpInv, SpDevice
<1>2. /\ UNCHANGED <<sp_order, sp_qset, sp_file, sp_call>>
      /\ sp_dev' = [sp_dev EXCEPT !.vmas = @ - 1] /\ sp_maps[p].vmas > 0
      /\ sp_maps' = [sp_maps EXCEPT ![p] =
                       IF @.vmas = 1
                         THEN Sp!NoMaps
                         ELSE [vmas |-> @.vmas - 1, touched |-> @.touched]]
  BY DEF Sp!scullp_vma_close, Sp!parameters
<1>3. sp_dev' = [order |-> sp_dev.order, qset |-> sp_dev.qset, size |-> sp_dev.size,
                 vmas |-> sp_dev.vmas - 1, data |-> sp_dev.data]
  BY <1>1, <1>2
<1>4. /\ sp_maps' = [q \in Procs |-> sp_maps'[q]]
      /\ \A q \in Procs : sp_maps[q].vmas > 0 /\
           sp_maps'[q] = IF sp_maps[q].vmas = 1
                           THEN Sp!NoMaps
                           ELSE [vmas |-> sp_maps[q].vmas - 1, touched |-> sp_maps[q].touched]
  BY <1>2 DEF SpInv, OneProcess
<1>5. sp_dev.vmas > 0
  BY <1>2 DEF SpInv, SpMapsFit
<1>6. SpDevice(sp_dev)' /\ sp_dev'.order = sp_dev.order
  BY <1>1, <1>3, <1>5 DEF SpDevice
<1>7. ASSUME NEW q \in Procs PROVE SpMapsFit(q)'
  <2>1. SpMapsFit(q) /\ sp_maps[q].vmas = sp_dev.vmas
    BY DEF SpInv, SpMapsFit
  <2>2. CASE sp_dev.vmas = 1
    <3>1. sp_maps'[q] = [vmas |-> 0, touched |-> {}]
      BY <1>4, <2>1, <2>2 DEF Sp!NoMaps
    <3> QED BY <1>3, <2>2, <3>1 DEF SpMapsFit
  <2>3. CASE sp_dev.vmas # 1
    <3>1. sp_maps'[q] = [vmas |-> sp_dev.vmas - 1, touched |-> sp_maps[q].touched]
      BY <1>4, <2>1, <2>3 DEF SpMapsFit
    <3>2. sp_dev.vmas - 1 > 0
      BY <1>1, <1>5, <2>3
    <3> QED BY <1>3, <2>1, <3>1, <3>2 DEF SpMapsFit, Sp!PageAt
  <2> QED BY <2>2, <2>3
<1>8. \A q \in Procs : SpCallFits(q)'
  BY <1>2, <1>3 DEF SpInv, SpCallFits, Sp!Pages
<1> QED BY <1>2, <1>4, <1>6, <1>7, <1>8 DEF SpInv

(* A fault finds a page.                                                   *)
LEMMA SpTouchStep ==
  ASSUME SpInv, NEW p \in Procs, NEW n \in Nat, Sp!scullp_vma_nopage(p, n)
  PROVE  SpInv' /\ sp_dev' = sp_dev /\ sp_call' = sp_call
<1>1. /\ UNCHANGED <<sp_order, sp_qset, sp_dev, sp_file, sp_call>> /\ sp_maps[p].vmas > 0
      /\ QuantumAt(sp_dev.data, Sp!PageAt(n)) # NULL
      /\ sp_maps' = [sp_maps EXCEPT ![p].touched = @ \cup {<<n, Sp!PageAt(n)>>}]
  BY SpSameMemory DEF Sp!scullp_vma_nopage, Sp!parameters
<1>2. sp_maps' = [q \in Procs |-> sp_maps'[q]]
      /\ \A q \in Procs : q # p => sp_maps'[q] = sp_maps[q]
  BY <1>1 DEF SpInv
<1>3. sp_dev.vmas > 0
  BY <1>1 DEF SpInv, SpMapsFit
<1>4. Sp!PageAt(n)' = Sp!PageAt(n) /\ \A t : Sp!PageAt(t[1])' = Sp!PageAt(t[1])
  BY <1>1 DEF Sp!PageAt
<1>5. ASSUME NEW q \in Procs PROVE SpMapsFit(q)'
  <2>1. SpMapsFit(q)
    BY DEF SpInv
  <2>2. CASE q # p
    BY <1>1, <1>2, <1>4, <2>1, <2>2 DEF SpMapsFit
  <2>3. CASE q = p
    <3>1. sp_maps'[q] = [vmas |-> sp_dev.vmas,
                         touched |-> sp_maps[q].touched \cup {<<n, Sp!PageAt(n)>>}]
      <4>1. sp_maps'[q] = [sp_maps[q] EXCEPT !.touched = @ \cup {<<n, Sp!PageAt(n)>>}]
        BY <1>1, <2>3 DEF SpInv
      <4> DEFINE more == sp_maps[q].touched \cup {<<n, Sp!PageAt(n)>>}
      <4>2. sp_maps'[q] = [sp_maps[q] EXCEPT !.touched = more]
        BY <4>1
      <4>3. sp_maps[q] = [vmas |-> sp_dev.vmas, touched |-> sp_maps[q].touched]
        BY <2>1 DEF SpMapsFit
      <4> HIDE DEF more
      <4>4. sp_maps'[q] = [vmas |-> sp_dev.vmas, touched |-> more]
        BY <4>2, <4>3
      <4> QED BY <4>4 DEF more
    <3>2. \A t \in sp_maps'[q].touched :
            t \in sp_maps[q].touched \/ t = <<n, Sp!PageAt(n)>>
      BY <3>1
    <3>3. \A t \in sp_maps'[q].touched :
            /\ t[1] \in Nat /\ t[2] = Sp!PageAt(t[1])
            /\ QuantumAt(sp_dev.data, t[2]) # NULL
      BY <1>1, <2>1, <3>2 DEF SpMapsFit
    <3>4. sp_maps'[q] = [vmas |-> sp_dev'.vmas, touched |-> sp_maps'[q].touched]
      BY <1>1, <3>1
    <3>5. \A t \in sp_maps'[q].touched :
            /\ t[1] \in Nat /\ t[2] = Sp!PageAt(t[1])'
            /\ QuantumAt(sp_dev'.data, t[2]) # NULL
      BY <1>1, <1>4, <3>3
    <3> QED BY <1>1, <1>3, <3>4, <3>5 DEF SpMapsFit
  <2> QED BY <2>2, <2>3
<1>6. \A q \in Procs : SpCallFits(q)'
  BY <1>1 DEF SpInv, SpCallFits, Sp!Pages
<1> QED BY <1>1, <1>2, <1>5, <1>6 DEF SpInv, SpDevice

(* The order is tested, a parameter is set, or a fault in a mapping of     *)
(* sculld's kills its process: the device and the mappings stay.           *)
LEMMA SpOtherStep ==
  ASSUME SpInv, sp_order' \in SpOrders, sp_qset' = SCULLP_QSET,
         UNCHANGED <<sp_dev, sp_file, sp_maps>>,
         \/ sp_call' = sp_call
         \/ \E p \in Procs : \E c : c.op \notin {"read", "write"} /\
                                    sp_call' = [sp_call EXCEPT ![p] = c]
  PROVE  SpInv'
<1>1. /\ sp_call' = [q \in Procs |-> sp_call'[q]]
      /\ \A q \in Procs : sp_call'[q] = sp_call[q] \/ sp_call'[q].op \notin {"read", "write"}
  BY DEF SpInv
<1>2. \A q \in Procs : SpCallFits(q)'
  BY <1>1 DEF SpInv, SpCallFits, Sp!Pages
<1>3. \A q \in Procs : SpMapsFit(q)'
  BY DEF SpInv, SpMapsFit, Sp!PageAt
<1> QED BY <1>1, <1>2, <1>3 DEF SpInv, SpDevice

(* The steps that scullp, sculld and scullv have in common.                *)
SpCommon(p) ==
  \/ \E mode \in {"r", "w", "rw"} : Sp!scullp_open(p, mode)
  \/ Sp!scullp_release(p)
  \/ \E n \in CopyCounts : Sp!Enter(p, "read", n)
  \/ \E d \in CopyWrites :
       sp_file[p].f_pos + Len(d) <= MaxPos /\ Sp!Enter(p, "write", d)
  \/ Sp!scullp_read(p) \/ Sp!scullp_write(p) \/ Sp!WriteNoMemory(p) \/ Sp!FollowDies(p)
  \/ Sp!Interrupted(p) \/ Sp!Return(p)
  \/ \E off, whence : Sp!scullp_llseek(p, off, whence)
  \/ Sp!VmaCopied(p) \/ Sp!scullp_vma_close(p)
  \/ \E n \in Nat : Sp!scullp_vma_nopage(p, n)

(* Each of them keeps the invariant.                                       *)
LEMMA SpCommonStep ==
  ASSUME SpInv, InFirstItem, OneProcess, NEW p \in Procs, SpCommon(p)
  PROVE  SpInv' /\ (SpSmall => SpSmall')
<1>1. CASE \/ \E mode \in {"r", "w", "rw"} : Sp!scullp_open(p, mode)
           \/ Sp!scullp_release(p)
           \/ \E off, whence : Sp!scullp_llseek(p, off, whence)
  <2>1. /\ SpInv' /\ (sp_dev'.order = sp_dev.order \/ sp_dev'.vmas = 0)
        /\ sp_dev'.vmas = sp_dev.vmas /\ sp_call'[p].op = "none"
    BY <1>1, SpFileStep
  <2> QED BY <2>1 DEF SpSmall, SpMapped, OneProcess
<1>2. CASE \/ \E n \in CopyCounts : Sp!Enter(p, "read", n)
           \/ \E d \in CopyWrites :
                sp_file[p].f_pos + Len(d) <= MaxPos /\ Sp!Enter(p, "write", d)
  <2>1. SpInv' /\ sp_dev' = sp_dev /\ sp_call'[p].op # "mmap"
    BY <1>2, SpEnterStep
  <2> QED BY <2>1 DEF SpSmall, SpMapped, OneProcess
<1>3. CASE \/ Sp!scullp_read(p) \/ Sp!scullp_write(p) \/ Sp!WriteNoMemory(p)
           \/ Sp!FollowDies(p) \/ Sp!Interrupted(p) \/ Sp!Return(p)
  <2>1. /\ SpInv' /\ sp_dev'.order = sp_dev.order /\ sp_dev'.vmas = sp_dev.vmas
        /\ sp_call'[p].op # "mmap"
    BY <1>3, SpReadStep, SpWriteStep, SpFailStep
  <2> QED BY <2>1 DEF SpSmall, SpMapped, OneProcess
<1>4. CASE Sp!VmaCopied(p) \/ Sp!scullp_vma_close(p)
  <2>1. UNCHANGED sp_call /\ sp_maps[p].vmas > 0
    BY <1>4 DEF Sp!VmaCopied, Sp!scullp_vma_close
  <2>2. SpInv' /\ sp_dev'.order = sp_dev.order
    BY <1>4, <2>1, SpMapStep, SpUnmapStep DEF Sp!VmaCopied
  <2>3. sp_dev.vmas > 0
    BY <2>1 DEF SpInv, SpMapsFit
  <2> QED BY <2>2, <2>3 DEF SpSmall, SpMapped
<1>5. CASE \E n \in Nat : Sp!scullp_vma_nopage(p, n)
  <2>1. SpInv' /\ sp_dev' = sp_dev /\ sp_call' = sp_call
    BY <1>5, SpTouchStep
  <2> QED BY <2>1 DEF SpSmall, SpMapped
<1> QED BY <1>1, <1>2, <1>3, <1>4, <1>5 DEF SpCommon

(* The mapping of scullp, whose order was tested before.                   *)
LEMMA SpMmapStep ==
  ASSUME SpInv, OneProcess, NEW p \in Procs, Sp!MmapTest(p) \/ Sp!scullp_mmap(p)
  PROVE  SpInv' /\ (SpSmall => SpSmall')
<1>1. CASE Sp!MmapTest(p)
  <2>1. UNCHANGED <<sp_order, sp_qset, sp_dev, sp_file, sp_maps>>
    BY <1>1 DEF Sp!MmapTest, Sp!parameters
  <2>2. PICK c : /\ sp_call' = [sp_call EXCEPT ![p] = c] /\ c.op \in {"mmap", "done"}
                 /\ c.op = "mmap" => sp_dev.order = 0
    <3> DEFINE a == [op |-> "mmap"]
               b == [op |-> "done", result |-> <<"error">>]
    <3>1. \/ sp_dev.order = 0 /\ sp_call' = [sp_call EXCEPT ![p] = a]
          \/ sp_call' = [sp_call EXCEPT ![p] = b]
      BY <1>1 DEF Sp!MmapTest, Sp!Finish
    <3>2. a.op = "mmap" /\ b.op = "done"
      OBVIOUS
    <3> HIDE DEF a, b
    <3> QED BY <3>1, <3>2
  <2>3. SpInv'
    BY <2>1, <2>2, SpOtherStep DEF SpInv
  <2>4. sp_call'[p] = c
    BY <2>2 DEF SpInv
  <2> QED BY <2>1, <2>2, <2>3, <2>4 DEF SpSmall, SpMapped, OneProcess
<1>2. CASE Sp!scullp_mmap(p)
  <2>1. SpInv' /\ sp_dev'.order = sp_dev.order
    BY <1>2, SpMapStep DEF Sp!scullp_mmap
  <2>2. sp_call[p].op = "mmap"
    BY <1>2 DEF Sp!scullp_mmap
  <2> QED BY <2>1, <2>2 DEF SpSmall, SpMapped, OneProcess
<1> QED BY <1>1, <1>2

(* A step of each of the three.                                            *)
LEMMA ScullPStep ==
  ASSUME SpInv, InFirstItem, OneProcess, Sp!Next
  PROVE  SpInv' /\ (SpSmall => SpSmall')
<1>1. CASE Sp!scullp_ioctl
  <2>1. /\ sp_order' \in SpOrders /\ sp_qset' = SCULLP_QSET
        /\ UNCHANGED <<sp_dev, sp_file, sp_call, sp_maps>>
    BY <1>1 DEF Sp!scullp_ioctl, SpInv, SpOrders
  <2> QED BY <2>1, SpOtherStep DEF SpSmall, SpMapped
<1>2. ASSUME NEW p \in Procs, SpCommon(p) \/ Sp!MmapTest(p) \/ Sp!scullp_mmap(p)
      PROVE  SpInv' /\ (SpSmall => SpSmall')
  BY <1>2, SpCommonStep, SpMmapStep
<1>3. \A n \in 0 .. MaxPos \div PAGE_SIZE : n \in Nat
  OBVIOUS
<1> QED BY <1>1, <1>2, <1>3 DEF Sp!Next, SpCommon

(* Sculld's memory is scullp's.                                            *)
LEMMA SculldMemory ==
  /\ Sd!P!NULL = Sp!NULL
  /\ \A f, m, n : Sd!P!Place(f, n, m) = Sp!Place(f, n, m)
  /\ \A f, n : /\ Sd!P!scull_follow(f, n) = Sp!scull_follow(f, n)
               /\ Sd!P!FailedFollows(f, n) = Sp!FailedFollows(f, n)
  /\ \A f, at, n : Sd!P!WithArray(f, at, n) = Sp!WithArray(f, at, n)
  /\ \A f, at : Sd!P!QuantumAt(f, at) = Sp!QuantumAt(f, at)
  /\ \A f, at, n, q : Sd!P!WithQuantum(f, at, n, q) = Sp!WithQuantum(f, at, n, q)
  /\ \A f, at, d : Sd!P!Written(f, at, d) = Sp!Written(f, at, d)
  /\ \A a, b : Sd!P!Smaller(a, b) = Sp!Smaller(a, b)
  /\ \A n : Sd!P!PageAt(n) = Sp!PageAt(n) /\ Sd!P!FreshQuantum(n) = Sp!FreshQuantum(n)
BY DEF
    Sd!P!NULL, Sp!NULL, Sd!P!Place, Sp!Place, Sd!P!scull_follow, Sp!scull_follow,
    Sd!P!FailedFollows, Sp!FailedFollows, Sd!P!Longer, Sp!Longer, Sd!P!WithArray,
    Sp!WithArray, Sd!P!QuantumAt, Sp!QuantumAt, Sd!P!At, Sp!At, Sd!P!WithQuantum,
    Sp!WithQuantum, Sd!P!SetQuantum, Sp!SetQuantum, Sd!P!Written, Sp!Written,
    Sd!P!Stored, Sp!Stored, Sd!P!Smaller, Sp!Smaller, Sd!P!PageAt, Sp!PageAt,
    Sd!P!FreshQuantum, Sp!FreshQuantum, Sd!P!ItemOrder, Sp!ItemOrder, Sd!P!Pages,
    Sp!Pages

(* So are its calls.                                                       *)
LEMMA SculldCalls ==
  ASSUME NEW p \in Procs
  PROVE  /\ \A mode : Sd!sculld_open(p, mode) <=> Sp!scullp_open(p, mode)
         /\ Sd!sculld_release(p) <=> Sp!scullp_release(p)
         /\ \A op, arg : Sd!Enter(p, op, arg) <=> Sp!Enter(p, op, arg)
         /\ Sd!sculld_read(p) <=> Sp!scullp_read(p)
         /\ Sd!sculld_write(p) <=> Sp!scullp_write(p)
         /\ Sd!WriteNoMemory(p) <=> Sp!WriteNoMemory(p)
         /\ Sd!FollowDies(p) <=> Sp!FollowDies(p)
         /\ Sd!Interrupted(p) <=> Sp!Interrupted(p)
         /\ Sd!Return(p) <=> Sp!Return(p)
         /\ \A o, w : Sd!sculld_llseek(p, o, w) <=> Sp!scullp_llseek(p, o, w)
         /\ Sd!MmapTest(p) <=> Sp!MmapTest(p)
         /\ Sd!sculld_mmap(p) <=> Sp!scullp_mmap(p)
         /\ Sd!VmaCopied(p) <=> Sp!VmaCopied(p)
         /\ Sd!sculld_vma_close(p) <=> Sp!scullp_vma_close(p)
<1>1. \A mode : Sd!sculld_open(p, mode) <=> Sp!scullp_open(p, mode)
  BY SculldMemory DEF
      Sd!sculld_open, Sd!P!scullp_open, Sp!scullp_open, Sd!P!scullp_trim,
      Sp!scullp_trim, Sd!P!NoCall, Sp!NoCall, Sd!P!Closed, Sp!Closed, Sd!P!parameters,
      Sp!parameters, Sd!P!UserAt, Sp!UserAt, Sd!P!Finish, Sp!Finish
<1>2. Sd!sculld_release(p) <=> Sp!scullp_release(p)
  BY SculldMemory DEF
      Sd!sculld_release, Sd!P!scullp_release, Sp!scullp_release, Sd!P!NoCall, Sp!NoCall,
      Sd!P!Closed, Sp!Closed, Sd!P!parameters, Sp!parameters, Sd!P!UserAt, Sp!UserAt,
      Sd!P!Finish, Sp!Finish
<1>3. \A op, arg : Sd!Enter(p, op, arg) <=> Sp!Enter(p, op, arg)
  BY SculldMemory DEF
      Sd!Enter, Sd!P!Enter, Sp!Enter, Sd!P!Pages, Sp!Pages, Sd!P!NoCall, Sp!NoCall,
      Sd!P!Closed, Sp!Closed, Sd!P!parameters, Sp!parameters, Sd!P!UserAt, Sp!UserAt,
      Sd!P!Finish, Sp!Finish
<1>4. Sd!sculld_read(p) <=> Sp!scullp_read(p)
  BY SculldMemory DEF
      Sd!sculld_read, Sd!P!scullp_read, Sp!scullp_read, Sd!P!NoCall, Sp!NoCall,
      Sd!P!Closed, Sp!Closed, Sd!P!parameters, Sp!parameters, Sd!P!UserAt, Sp!UserAt,
      Sd!P!Finish, Sp!Finish
<1>5. Sd!sculld_write(p) <=> Sp!scullp_write(p)
  BY SculldMemory DEF
      Sd!sculld_write, Sd!P!scullp_write, Sp!scullp_write, Sd!P!Grown, Sp!Grown,
      Sd!P!NoCall, Sp!NoCall, Sd!P!Closed, Sp!Closed, Sd!P!parameters, Sp!parameters,
      Sd!P!UserAt, Sp!UserAt, Sd!P!Finish, Sp!Finish
<1>6. Sd!WriteNoMemory(p) <=> Sp!WriteNoMemory(p)
  BY SculldMemory DEF
      Sd!WriteNoMemory, Sd!P!WriteNoMemory, Sp!WriteNoMemory, Sd!P!NoCall, Sp!NoCall,
      Sd!P!Closed, Sp!Closed, Sd!P!parameters, Sp!parameters, Sd!P!UserAt, Sp!UserAt,
      Sd!P!Finish, Sp!Finish
<1>7. Sd!FollowDies(p) <=> Sp!FollowDies(p)
  BY SculldMemory DEF
      Sd!FollowDies, Sd!P!FollowDies, Sp!FollowDies, Sd!P!NoCall, Sp!NoCall,
      Sd!P!Closed, Sp!Closed, Sd!P!parameters, Sp!parameters, Sd!P!UserAt, Sp!UserAt,
      Sd!P!Finish, Sp!Finish
<1>8. Sd!Interrupted(p) <=> Sp!Interrupted(p)
  BY SculldMemory DEF
      Sd!Interrupted, Sd!P!Interrupted, Sp!Interrupted, Sd!P!NoCall, Sp!NoCall,
      Sd!P!Closed, Sp!Closed, Sd!P!parameters, Sp!parameters, Sd!P!UserAt, Sp!UserAt,
      Sd!P!Finish, Sp!Finish
<1>9. Sd!Return(p) <=> Sp!Return(p)
  BY SculldMemory DEF
      Sd!Return, Sd!P!Return, Sp!Return, Sd!P!NoCall, Sp!NoCall, Sd!P!Closed, Sp!Closed,
      Sd!P!parameters, Sp!parameters, Sd!P!UserAt, Sp!UserAt, Sd!P!Finish, Sp!Finish
<1>10. \A o, w : Sd!sculld_llseek(p, o, w) <=> Sp!scullp_llseek(p, o, w)
  BY SculldMemory DEF
      Sd!sculld_llseek, Sd!P!scullp_llseek, Sp!scullp_llseek, Sd!P!NoCall, Sp!NoCall,
      Sd!P!Closed, Sp!Closed, Sd!P!parameters, Sp!parameters, Sd!P!UserAt, Sp!UserAt,
      Sd!P!Finish, Sp!Finish
<1>11. Sd!MmapTest(p) <=> Sp!MmapTest(p)
  BY SculldMemory DEF
      Sd!MmapTest, Sd!P!MmapTest, Sp!MmapTest, Sd!P!NoCall, Sp!NoCall, Sd!P!Closed,
      Sp!Closed, Sd!P!parameters, Sp!parameters, Sd!P!UserAt, Sp!UserAt, Sd!P!Finish,
      Sp!Finish
<1>12. Sd!sculld_mmap(p) <=> Sp!scullp_mmap(p)
  BY SculldMemory DEF
      Sd!sculld_mmap, Sd!P!scullp_mmap, Sp!scullp_mmap, Sd!P!scullp_vma_open,
      Sp!scullp_vma_open, Sd!P!NoCall, Sp!NoCall, Sd!P!Closed, Sp!Closed,
      Sd!P!parameters, Sp!parameters, Sd!P!UserAt, Sp!UserAt, Sd!P!Finish, Sp!Finish
<1>13. Sd!VmaCopied(p) <=> Sp!VmaCopied(p)
  BY SculldMemory DEF
      Sd!VmaCopied, Sd!P!VmaCopied, Sp!VmaCopied, Sd!P!scullp_vma_open,
      Sp!scullp_vma_open, Sd!P!NoCall, Sp!NoCall, Sd!P!Closed, Sp!Closed,
      Sd!P!parameters, Sp!parameters, Sd!P!UserAt, Sp!UserAt, Sd!P!Finish, Sp!Finish
<1>14. Sd!sculld_vma_close(p) <=> Sp!scullp_vma_close(p)
  BY SculldMemory DEF
      Sd!sculld_vma_close, Sd!P!scullp_vma_close, Sp!scullp_vma_close, Sd!P!NoMaps,
      Sp!NoMaps, Sd!P!NoCall, Sp!NoCall, Sd!P!Closed, Sp!Closed, Sd!P!parameters,
      Sp!parameters, Sd!P!UserAt, Sp!UserAt, Sd!P!Finish, Sp!Finish
<1> QED BY <1>1, <1>2, <1>3, <1>4, <1>5, <1>6, <1>7, <1>8, <1>9, <1>10, <1>11, <1>12,
<1>13, <1>14

(* Scullv's memory is scullp's.                                            *)
LEMMA ScullvMemory ==
  /\ Sv!P!NULL = Sp!NULL
  /\ \A f, m, n : Sv!P!Place(f, n, m) = Sp!Place(f, n, m)
  /\ \A f, n : /\ Sv!P!scull_follow(f, n) = Sp!scull_follow(f, n)
               /\ Sv!P!FailedFollows(f, n) = Sp!FailedFollows(f, n)
  /\ \A f, at, n : Sv!P!WithArray(f, at, n) = Sp!WithArray(f, at, n)
  /\ \A f, at : Sv!P!QuantumAt(f, at) = Sp!QuantumAt(f, at)
  /\ \A f, at, n, q : Sv!P!WithQuantum(f, at, n, q) = Sp!WithQuantum(f, at, n, q)
  /\ \A f, at, d : Sv!P!Written(f, at, d) = Sp!Written(f, at, d)
  /\ \A a, b : Sv!P!Smaller(a, b) = Sp!Smaller(a, b)
  /\ \A n : Sv!P!PageAt(n) = Sp!PageAt(n) /\ Sv!P!FreshQuantum(n) = Sp!FreshQuantum(n)
BY DEF
    Sv!P!NULL, Sp!NULL, Sv!P!Place, Sp!Place, Sv!P!scull_follow, Sp!scull_follow,
    Sv!P!FailedFollows, Sp!FailedFollows, Sv!P!Longer, Sp!Longer, Sv!P!WithArray,
    Sp!WithArray, Sv!P!QuantumAt, Sp!QuantumAt, Sv!P!At, Sp!At, Sv!P!WithQuantum,
    Sp!WithQuantum, Sv!P!SetQuantum, Sp!SetQuantum, Sv!P!Written, Sp!Written,
    Sv!P!Stored, Sp!Stored, Sv!P!Smaller, Sp!Smaller, Sv!P!PageAt, Sp!PageAt,
    Sv!P!FreshQuantum, Sp!FreshQuantum, Sv!P!ItemOrder, Sp!ItemOrder, Sv!P!Pages,
    Sp!Pages

(* So are its calls.                                                       *)
LEMMA ScullvCalls ==
  ASSUME NEW p \in Procs
  PROVE  /\ \A mode : Sv!scullv_open(p, mode) <=> Sp!scullp_open(p, mode)
         /\ Sv!scullv_release(p) <=> Sp!scullp_release(p)
         /\ \A op, arg : Sv!Enter(p, op, arg) <=> Sp!Enter(p, op, arg)
         /\ Sv!scullv_read(p) <=> Sp!scullp_read(p)
         /\ Sv!scullv_write(p) <=> Sp!scullp_write(p)
         /\ Sv!WriteNoMemory(p) <=> Sp!WriteNoMemory(p)
         /\ Sv!FollowDies(p) <=> Sp!FollowDies(p)
         /\ Sv!Interrupted(p) <=> Sp!Interrupted(p)
         /\ Sv!Return(p) <=> Sp!Return(p)
         /\ \A o, w : Sv!scullv_llseek(p, o, w) <=> Sp!scullp_llseek(p, o, w)
         /\ Sv!VmaCopied(p) <=> Sp!VmaCopied(p)
         /\ Sv!scullv_vma_close(p) <=> Sp!scullp_vma_close(p)
         /\ \A m : Sv!scullv_vma_nopage(p, m) <=> Sp!scullp_vma_nopage(p, m)
         /\ Sv!P!scullp_vma_open(p) <=> Sp!scullp_vma_open(p)
<1>1. \A mode : Sv!scullv_open(p, mode) <=> Sp!scullp_open(p, mode)
  BY ScullvMemory DEF
      Sv!scullv_open, Sv!P!scullp_open, Sp!scullp_open, Sv!P!scullp_trim,
      Sp!scullp_trim, Sv!P!NoCall, Sp!NoCall, Sv!P!Closed, Sp!Closed, Sv!P!parameters,
      Sp!parameters, Sv!P!UserAt, Sp!UserAt, Sv!P!Finish, Sp!Finish
<1>2. Sv!scullv_release(p) <=> Sp!scullp_release(p)
  BY ScullvMemory DEF
      Sv!scullv_release, Sv!P!scullp_release, Sp!scullp_release, Sv!P!NoCall, Sp!NoCall,
      Sv!P!Closed, Sp!Closed, Sv!P!parameters, Sp!parameters, Sv!P!UserAt, Sp!UserAt,
      Sv!P!Finish, Sp!Finish
<1>3. \A op, arg : Sv!Enter(p, op, arg) <=> Sp!Enter(p, op, arg)
  BY ScullvMemory DEF
      Sv!Enter, Sv!P!Enter, Sp!Enter, Sv!P!Pages, Sp!Pages, Sv!P!NoCall, Sp!NoCall,
      Sv!P!Closed, Sp!Closed, Sv!P!parameters, Sp!parameters, Sv!P!UserAt, Sp!UserAt,
      Sv!P!Finish, Sp!Finish
<1>4. Sv!scullv_read(p) <=> Sp!scullp_read(p)
  BY ScullvMemory DEF
      Sv!scullv_read, Sv!P!scullp_read, Sp!scullp_read, Sv!P!NoCall, Sp!NoCall,
      Sv!P!Closed, Sp!Closed, Sv!P!parameters, Sp!parameters, Sv!P!UserAt, Sp!UserAt,
      Sv!P!Finish, Sp!Finish
<1>5. Sv!scullv_write(p) <=> Sp!scullp_write(p)
  BY ScullvMemory DEF
      Sv!scullv_write, Sv!P!scullp_write, Sp!scullp_write, Sv!P!Grown, Sp!Grown,
      Sv!P!NoCall, Sp!NoCall, Sv!P!Closed, Sp!Closed, Sv!P!parameters, Sp!parameters,
      Sv!P!UserAt, Sp!UserAt, Sv!P!Finish, Sp!Finish
<1>6. Sv!WriteNoMemory(p) <=> Sp!WriteNoMemory(p)
  BY ScullvMemory DEF
      Sv!WriteNoMemory, Sv!P!WriteNoMemory, Sp!WriteNoMemory, Sv!P!NoCall, Sp!NoCall,
      Sv!P!Closed, Sp!Closed, Sv!P!parameters, Sp!parameters, Sv!P!UserAt, Sp!UserAt,
      Sv!P!Finish, Sp!Finish
<1>7. Sv!FollowDies(p) <=> Sp!FollowDies(p)
  BY ScullvMemory DEF
      Sv!FollowDies, Sv!P!FollowDies, Sp!FollowDies, Sv!P!NoCall, Sp!NoCall,
      Sv!P!Closed, Sp!Closed, Sv!P!parameters, Sp!parameters, Sv!P!UserAt, Sp!UserAt,
      Sv!P!Finish, Sp!Finish
<1>8. Sv!Interrupted(p) <=> Sp!Interrupted(p)
  BY ScullvMemory DEF
      Sv!Interrupted, Sv!P!Interrupted, Sp!Interrupted, Sv!P!NoCall, Sp!NoCall,
      Sv!P!Closed, Sp!Closed, Sv!P!parameters, Sp!parameters, Sv!P!UserAt, Sp!UserAt,
      Sv!P!Finish, Sp!Finish
<1>9. Sv!Return(p) <=> Sp!Return(p)
  BY ScullvMemory DEF
      Sv!Return, Sv!P!Return, Sp!Return, Sv!P!NoCall, Sp!NoCall, Sv!P!Closed, Sp!Closed,
      Sv!P!parameters, Sp!parameters, Sv!P!UserAt, Sp!UserAt, Sv!P!Finish, Sp!Finish
<1>10. \A o, w : Sv!scullv_llseek(p, o, w) <=> Sp!scullp_llseek(p, o, w)
  BY ScullvMemory DEF
      Sv!scullv_llseek, Sv!P!scullp_llseek, Sp!scullp_llseek, Sv!P!NoCall, Sp!NoCall,
      Sv!P!Closed, Sp!Closed, Sv!P!parameters, Sp!parameters, Sv!P!UserAt, Sp!UserAt,
      Sv!P!Finish, Sp!Finish
<1>11. Sv!VmaCopied(p) <=> Sp!VmaCopied(p)
  BY ScullvMemory DEF
      Sv!VmaCopied, Sv!P!VmaCopied, Sp!VmaCopied, Sv!P!scullp_vma_open,
      Sp!scullp_vma_open, Sv!P!NoCall, Sp!NoCall, Sv!P!Closed, Sp!Closed,
      Sv!P!parameters, Sp!parameters, Sv!P!UserAt, Sp!UserAt, Sv!P!Finish, Sp!Finish
<1>12. Sv!scullv_vma_close(p) <=> Sp!scullp_vma_close(p)
  BY ScullvMemory DEF
      Sv!scullv_vma_close, Sv!P!scullp_vma_close, Sp!scullp_vma_close, Sv!P!NoMaps,
      Sp!NoMaps, Sv!P!NoCall, Sp!NoCall, Sv!P!Closed, Sp!Closed, Sv!P!parameters,
      Sp!parameters, Sv!P!UserAt, Sp!UserAt, Sv!P!Finish, Sp!Finish
<1>13. \A m : Sv!scullv_vma_nopage(p, m) <=> Sp!scullp_vma_nopage(p, m)
  BY ScullvMemory DEF
      Sv!scullv_vma_nopage, Sv!P!scullp_vma_nopage, Sp!scullp_vma_nopage, Sv!P!NoCall,
      Sp!NoCall, Sv!P!Closed, Sp!Closed, Sv!P!parameters, Sp!parameters, Sv!P!UserAt,
      Sp!UserAt, Sv!P!Finish, Sp!Finish
<1>14. Sv!P!scullp_vma_open(p) <=> Sp!scullp_vma_open(p)
  BY ScullvMemory DEF
      Sv!P!scullp_vma_open, Sp!scullp_vma_open, Sv!P!NoCall, Sp!NoCall, Sv!P!Closed,
      Sp!Closed, Sv!P!parameters, Sp!parameters, Sv!P!UserAt, Sp!UserAt, Sv!P!Finish,
      Sp!Finish
<1> QED BY <1>1, <1>2, <1>3, <1>4, <1>5, <1>6, <1>7, <1>8, <1>9, <1>10, <1>11, <1>12,
<1>13, <1>14

(* A step of sculld: no page is ever found in a mapping.                   *)
LEMMA ScullDStep ==
  ASSUME SpInv, InFirstItem, OneProcess, Sd!Next
  PROVE  SpInv' /\ (SpSmall => SpSmall')
<1>1. CASE Sd!sculld_ioctl
  <2>1. /\ sp_order' \in SpOrders /\ sp_qset' = SCULLP_QSET
        /\ UNCHANGED <<sp_dev, sp_file, sp_call, sp_maps>>
    BY <1>1 DEF Sd!sculld_ioctl, Sd!P!scullp_ioctl, SpInv, SpOrders
  <2> QED BY <2>1, SpOtherStep DEF SpSmall, SpMapped
<1>2. ASSUME NEW p \in Procs, SpCommon(p) \/ Sp!MmapTest(p) \/ Sp!scullp_mmap(p)
      PROVE  SpInv' /\ (SpSmall => SpSmall')
  BY <1>2, SpCommonStep, SpMmapStep
<1>3. ASSUME NEW p \in Procs, NEW n, Sd!sculld_vma_nopage(p, n)
      PROVE  SpInv' /\ (SpSmall => SpSmall')
  <2> DEFINE c == [op |-> "died"]
  <2>1. /\ UNCHANGED <<sp_order, sp_qset, sp_dev, sp_file, sp_maps>>
        /\ sp_call' = [sp_call EXCEPT ![p] = c]
    BY <1>3 DEF Sd!sculld_vma_nopage
  <2>2. c.op = "died"
    OBVIOUS
  <2> HIDE DEF c
  <2>3. c.op \notin {"read", "write"}
    BY <2>2
  <2>4. SpInv'
    BY <2>1, <2>3, SpOtherStep DEF SpInv
  <2>5. \A q \in Procs : sp_call'[q] = c
    BY <2>1 DEF SpInv, OneProcess
  <2> QED BY <2>1, <2>2, <2>4, <2>5 DEF SpSmall, SpMapped
<1> QED BY <1>1, <1>2, <1>3, SculldCalls DEF Sd!Next, SpCommon

(* A step of scullv, whose mappings do not ask for the order.              *)
LEMMA ScullVStep ==
  ASSUME SpInv, InFirstItem, OneProcess, Sv!Next
  PROVE  SpInv'
<1>1. CASE Sv!scullv_ioctl
  <2>1. /\ sp_order' \in SpOrders /\ sp_qset' = SCULLP_QSET
        /\ UNCHANGED <<sp_dev, sp_file, sp_call, sp_maps>>
    BY <1>1 DEF Sv!scullv_ioctl, Sv!P!scullp_ioctl, SpInv, SpOrders
  <2> QED BY <2>1, SpOtherStep
<1>2. ASSUME NEW p \in Procs, SpCommon(p)
      PROVE  SpInv'
  BY <1>2, SpCommonStep
<1>3. ASSUME NEW p \in Procs, Sv!scullv_mmap(p)
      PROVE  SpInv'
  <2>1. Sp!scullp_vma_open(p) /\ sp_call' = sp_call
    BY <1>3, ScullvCalls DEF Sv!scullv_mmap
  <2> QED BY <2>1, SpMapStep
<1>4. \A n \in 0 .. MaxPos \div PAGE_SIZE : n \in Nat
  OBVIOUS
<1> QED BY <1>1, <1>2, <1>3, <1>4, ScullvCalls DEF Sv!Next, SpCommon

(* The three devices are loaded with nothing in their memory.              *)
LEMMA SpStarts ==
  ASSUME DriversInit
  PROVE  SpInv /\ (driver # "scullv" => SpSmall)
<1>1. PICK order \in {0, 1} :
        /\ sp_order = order /\ sp_qset = SCULLP_QSET
        /\ sp_dev = [order |-> order, qset |-> SCULLP_QSET, size |-> 0, vmas |-> 0,
                     data |-> <<NULL>>]
        /\ sp_file = [p \in Procs |-> [mode |-> "closed", f_pos |-> 0]]
        /\ sp_call = [p \in Procs |-> [op |-> "none"]]
        /\ sp_maps = [p \in Procs |-> [vmas |-> 0, touched |-> {}]]
  <2>1. CASE driver = "scullv"
    BY <2>1, SpSameMemory, ScullvMemory
    DEF DriversInit, Sv!Init, Sv!P!Init, Sv!P!Closed, Sv!P!NoCall, Sv!P!NoMaps
  <2>2. CASE driver # "scullv"
    BY <2>2, SpSameMemory DEF DriversInit, Sp!Init, Sp!Closed, Sp!NoCall, Sp!NoMaps
  <2> QED BY <2>1, <2>2
<1>2. order \in SpOrders
  BY DEF SpOrders
<1>3. SpDevice(sp_dev)
  BY <1>1, <1>2, SpEmpty
<1>4. sp_file \in [Procs -> SpFiles]
  BY <1>1, ParametersAssumption DEF SpFiles
<1>5. \A p \in Procs : SpCallFits(p) /\ SpMapsFit(p)
  BY <1>1 DEF SpCallFits, SpMapsFit
<1>6. SpSmall
  BY <1>1 DEF SpSmall, SpMapped
<1> QED BY <1>1, <1>2, <1>3, <1>4, <1>5, <1>6 DEF SpInv

(* The pages that were touched in a mapping.                               *)
LEMMA SpTouched ==
  ASSUME SpInv, NEW p \in Procs, NEW t \in sp_maps[p].touched
  PROVE  /\ t[1] \in Nat /\ t[2] = Sp!PageAt(t[1])
         /\ 0 .. PAGE_SIZE - 1 \subseteq DOMAIN QuantumAt(sp_dev.data, t[2])
         /\ sp_dev.order = 0 =>
              /\ DOMAIN QuantumAt(sp_dev.data, t[2]) = 0 .. PAGE_SIZE - 1
              /\ LET at == Place(t[1] * PAGE_SIZE, Sp!Pages(0), sp_dev.qset)
                 IN  /\ at.item = t[2].item /\ at.s_pos = t[2].s_pos /\ at.q_pos = 0
                     /\ QuantumAt(sp_dev.data, at) = QuantumAt(sp_dev.data, t[2])
<1> DEFINE n == t[1]
           b == t[2]
           at == Place(n * PAGE_SIZE, Sp!Pages(0), sp_dev.qset)
<1>1. /\ n \in Nat /\ b = Sp!PageAt(n) /\ QuantumAt(sp_dev.data, b) # NULL
      /\ List(sp_dev.data) /\ QuantaHold(sp_dev.data, SpSizes(sp_dev.order))
      /\ sp_dev.qset = SCULLP_QSET /\ sp_dev.order \in SpOrders
  BY DEF SpInv, SpMapsFit, SpDevice
<1>2. /\ b.item = n \div SCULLP_QSET /\ b.s_pos = n % SCULLP_QSET /\ b.item \in Nat
  BY <1>1, PagesAssumption DEF Sp!PageAt
<1>3. /\ b.item + 1 \in DOMAIN sp_dev.data /\ b.item + 1 \in Nat
      /\ b.s_pos \in DOMAIN sp_dev.data[b.item + 1]
      /\ QuantumAt(sp_dev.data, b) = sp_dev.data[b.item + 1][b.s_pos]
  BY <1>1, <1>2, ListIs DEF QuantumAt, At
<1> HIDE DEF n, b
<1>4. DOMAIN QuantumAt(sp_dev.data, b) = SpSizes(sp_dev.order)[b.item + 1]
  BY <1>1, <1>3 DEF QuantaHold
<1>5. \/ DOMAIN QuantumAt(sp_dev.data, b) = 0 .. Sp!Pages(sp_dev.order) - 1
      \/ DOMAIN QuantumAt(sp_dev.data, b) = 0 .. PAGE_SIZE - 1
  BY <1>3, <1>4 DEF SpSizes
<1>6. 0 .. PAGE_SIZE - 1 \subseteq DOMAIN QuantumAt(sp_dev.data, b)
  BY <1>1, <1>5, SpPages, PagesAssumption
<1>7. /\ at.item = b.item /\ at.s_pos = b.s_pos /\ at.q_pos = 0
  BY <1>1, <1>2, SpPages, PagePlace, PagesAssumption
<1> HIDE DEF at
<1>8. QuantumAt(sp_dev.data, at) = QuantumAt(sp_dev.data, b)
  BY <1>7 DEF QuantumAt
<1>9. sp_dev.order = 0 => DOMAIN QuantumAt(sp_dev.data, b) = 0 .. PAGE_SIZE - 1
  BY <1>5, SpPages
<1> QED BY <1>1, <1>6, <1>7, <1>8, <1>9 DEF n, b, at

(* What the memory of the three has to be, from the invariant.             *)
LEMMA SpKeeps ==
  ASSUME SpInv, driver # "scullv" => SpSmall
  PROVE  /\ Sp!QuantaFit
         /\ IF driver = "scullv" THEN Sv!MappedStays ELSE Sp!MappingShowsFile
<1>1. Sp!QuantaFit
  <2> SUFFICES ASSUME NEW k \in DOMAIN sp_dev.data, NEW i \in DOMAIN sp_dev.data[k],
                      sp_dev.data[k][i] # NULL
               PROVE  DOMAIN sp_dev.data[k][i] = DOMAIN Sp!FreshQuantum(k - 1)
    BY SpSameMemory DEF Sp!QuantaFit
  <2>1. k \in Nat /\ DOMAIN sp_dev.data[k][i] = SpSizes(sp_dev.order)[k]
    BY ListIs DEF SpInv, SpDevice, QuantaHold
  <2>2. k - 1 = 0 <=> k = 1
    BY <2>1
  <2>3. DOMAIN Sp!FreshQuantum(k - 1) =
          0 .. (IF k = 1 THEN Sp!Pages(sp_dev.order) ELSE PAGE_SIZE) - 1
    BY <2>2, SpPages DEF Sp!FreshQuantum, Sp!ItemOrder
  <2> QED BY <2>1, <2>3 DEF SpSizes
<1>2. sp_dev.order = 0 => Sp!MappingShowsFile
  <2> SUFFICES ASSUME sp_dev.order = 0, NEW p \in Procs, NEW t \in sp_maps[p].touched
               PROVE  LET at == Place(t[1] * PAGE_SIZE, Sp!Pages(0), sp_dev.qset)
                      IN  /\ [item |-> at.item, s_pos |-> at.s_pos] = t[2] /\ at.q_pos = 0
                          /\ DOMAIN QuantumAt(sp_dev.data, at) = 0 .. PAGE_SIZE - 1
    BY SpSameMemory DEF Sp!MappingShowsFile
  <2>1. t[2] = [item |-> t[2].item, s_pos |-> t[2].s_pos]
    <3>1. t[2] = Sp!PageAt(t[1])
      BY SpTouched
    <3>2. \A n : Sp!PageAt(n) = [item |-> Sp!PageAt(n).item, s_pos |-> Sp!PageAt(n).s_pos]
      BY DEF Sp!PageAt
    <3> QED BY <3>1, <3>2
  <2> QED BY <2>1, SpTouched
<1>3. driver # "scullv" => Sp!MappingShowsFile
  <2>1. CASE \E p \in Procs : sp_maps[p].touched # {}
    BY <1>2, <2>1 DEF SpInv, SpMapsFit, SpSmall, SpMapped
  <2>2. CASE ~ \E p \in Procs : sp_maps[p].touched # {}
    BY <2>2 DEF Sp!MappingShowsFile
  <2> QED BY <2>1, <2>2
<1>4. Sv!MappedStays
  <2>1. Sv!P!MappingShowsFile <=> Sp!MappingShowsFile
    BY ScullvMemory DEF Sv!P!MappingShowsFile, Sp!MappingShowsFile, Sv!P!Pages, Sp!Pages
  <2>2. \A f, at : Sv!QuantumAt(f, at) = QuantumAt(f, at)
    BY DEF Sv!QuantumAt, QuantumAt, Sv!At, At, Sv!NULL, NULL
  <2> QED BY <1>2, <2>1, <2>2, SpTouched, ScullvMemory DEF Sv!MappedStays
<1> QED BY <1>1, <1>3, <1>4

(* Scull's data has the geometry its device says; scullc stores nothing    *)
(* outside its objects; nor do scullp, sculld and scullv outside their     *)
(* quanta, and what was touched in a mapping of theirs stays what the file *)
(* has there, since a mapped device is not trimmed (scullp/main.c:419,     *)
(* scullp/mmap.c:72-84).  For one process, for quanta that fit scullc's    *)
(* objects, and a file within the first item where quanta are of several   *)
(* pages.                                                                  *)
THEOREM MemoryKept ==
  ASSUME OneProcess, SmallQuanta, InFirstItem
  PROVE  DriversSpec => []ScullMemory
<1> DEFINE Inv == SpInv /\ (driver # "scullv" => SpSmall)
<1>1. DriversInit => Inv
  BY SpStarts
<1>2. ASSUME Inv, [DriversNext]_<<driver, vars, scullc_vars, scullp_vars, short_vars,
                                  snull_vars, sbull_vars, usb_vars>>
      PROVE  Inv'
  <2>1. UNCHANGED driver
    BY <1>2, DriverStep
  <2>2. CASE driver = "scullp" /\ Sp!Next
    BY <1>2, <2>1, <2>2, ScullPStep
  <2>3. CASE driver = "sculld" /\ Sd!Next
    BY <1>2, <2>1, <2>3, ScullDStep
  <2>4. CASE driver = "scullv" /\ Sv!Next
    BY <1>2, <2>1, <2>4, ScullVStep
  <2>5. CASE UNCHANGED scullp_vars
    BY <1>2, <2>1, <2>5
    DEF scullp_vars, SpInv, SpDevice, SpCallFits, SpMapsFit, SpSmall, SpMapped, Sp!PageAt,
        Sp!Pages
  <2> QED BY <1>2, <2>2, <2>3, <2>4, <2>5 DEF DriversNext, OnlyMoves
<1>3. Inv => /\ Sp!QuantaFit
             /\ IF driver = "scullv" THEN Sv!MappedStays ELSE Sp!MappingShowsFile
  BY SpKeeps
<1> HIDE DEF Inv
<1>4. DriversSpec => []Inv
  BY <1>1, <1>2, PTL DEF DriversSpec
<1>5. DriversSpec => []GeometryCurrent
  BY GeometryKept, DriversAlone, PTL
<1> QED BY <1>3, <1>4, <1>5, ObjectsKept, PTL DEF ScullMemory

-----------------------------------------------------------------------------
(* Scull, short and sbull keep their types in whatever order the drivers   *)
(* take their steps: scull's files and size stay within MaxPos though a    *)
(* call goes by the geometry it found and the device may be trimmed under  *)
(* it, short's pointers are at whole records of its page, and sbull counts *)
(* those that have it open.                                                *)
THEOREM TypesCorrect == DriversSpec => []TypesOK
BY ScullCorrect, ShortCorrect, DiskCorrect, DriversAlone, PTL DEF TypesOK
=============================================================================
