---------------------------- MODULE QuantumSets ----------------------------
(***************************************************************************)
(* The memory of a scull device: a list of items, each with an array of    *)
(* qset pointers to quanta of quantum bytes.  The list is a sequence of    *)
(* arrays; a pointer is NULL, or what it points to: a function on an       *)
(* interval from 0.                                                        *)
(***************************************************************************)
EXTENDS Integers, Sequences

NULL == [i \in {} |-> 0]

Smaller(a, b) == IF a < b THEN a ELSE b

(* Faulty: the place in the array is not divided by the quantum. *)
PlaceUndivided(pos, quantum, qset) ==
  LET rest == pos % (quantum * qset)
  IN  [item |-> pos \div (quantum * qset), s_pos |-> rest,
       q_pos |-> rest % quantum]

(* The list item, the place in its array and the place in the quantum of a *)
(* position.                                                               *)
Place(pos, quantum, qset) ==
  LET rest == pos % (quantum * qset)
  IN  [item |-> pos \div (quantum * qset),
       s_pos |-> rest \div quantum, q_pos |-> rest % quantum]

At(f, i) == IF i \in DOMAIN f THEN f[i] ELSE NULL

(* The quantum at a place, NULL if some pointer on the way is.             *)
QuantumAt(data, at) ==
  IF at.item < Len(data) THEN At(data[at.item + 1], at.s_pos) ELSE NULL

(* scull_follow: the list with the items up to the n-th, counted from 0,   *)
(* allocated; or with fewer, if memory runs out on the way.                *)
Longer(data, n) ==
  [i \in 1 .. (IF Len(data) < n THEN n ELSE Len(data)) |->
     IF i <= Len(data) THEN data[i] ELSE NULL]

scull_follow(data, n) == Longer(data, n + 1)
FailedFollows(data, n) == {Longer(data, k) : k \in Len(data) .. n}

(* A write allocates the array, and then the quantum, where they miss.     *)
WithArray(data, at, qset) ==
  [scull_follow(data, at.item) EXCEPT ![at.item + 1] =
     IF @ = NULL THEN [i \in 0 .. qset - 1 |-> NULL] ELSE @]

SetQuantum(data, at, quantum) ==
  [data EXCEPT ![at.item + 1] =
     [i \in DOMAIN @ \cup {at.s_pos} |-> IF i = at.s_pos THEN quantum ELSE @[i]]]

WithQuantum(data, at, qset, fresh) ==
  LET list == WithArray(data, at, qset)
  IN  IF QuantumAt(list, at) = NULL THEN SetQuantum(list, at, fresh) ELSE list

(* Faulty: the bytes go to the start of the quantum. *)
StoredAtStart(quantum, q_pos, d) ==
  [i \in DOMAIN quantum |-> IF i < Len(d) THEN d[i+1] ELSE quantum[i]]

(* A quantum after the bytes d were put at q_pos; a byte outside the       *)
(* quantum goes somewhere all the same.                                    *)
Stored(quantum, q_pos, d) ==
  [i \in DOMAIN quantum \cup (q_pos .. q_pos + Len(d) - 1) |->
     IF i \in q_pos .. q_pos + Len(d) - 1 THEN d[i - q_pos + 1] ELSE quantum[i]]

Written(data, at, d) ==
  SetQuantum(data, at, Stored(QuantumAt(data, at), at.q_pos, d))
=============================================================================
