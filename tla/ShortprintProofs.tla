-------------------------- MODULE ShortprintProofs --------------------------
(***************************************************************************)
(* Proofs about the shortprint driver, for every set of processes, every   *)
(* page of more than two bytes and every set of writes: its variables keep *)
(* their types, output goes on while there is something to print, nobody   *)
(* sleeps for what has happened, and the printer prints what was written.  *)
(***************************************************************************)
EXTENDS Shortprint, StreamLemmas

-----------------------------------------------------------------------------
(***************************************************************************)
(* The inductive invariant.                                                *)
(***************************************************************************)
Indices == 0 .. PageSize - 1
Modules == {"unloaded", "loaded", "irq_freed", "timer_deleted"}
Works == {"idle", "wait", "record"}
Places == {"closed", "user"} \cup ReleaseStates \cup WriteStates
Calls == [data : Seq(WrittenBytes), piece : Seq(WrittenBytes)]
Buffers ==
  [page : [Indices -> WrittenBytes \cup {NoByte}], head : Indices,
   tail : Indices]

Types ==
  /\ module \in Modules
  /\ shortp_out \in Buffers
  /\ shortp_out_mutex \in Procs \cup {NoProc}
  /\ shortp_output_active \in BOOLEAN
  /\ shortp_timer \in {"off", "pending"} /\ timeout \in {"idle", "test", "lock"}
  /\ shortp_work \in [queued : BOOLEAN, pc : Works]
  /\ pc \in [Procs -> Places]
  /\ call \in [Procs -> {NoCall} \cup Calls]

(* Who writes holds the mutex, and who has the device open keeps the       *)
(* module loaded.                                                          *)
Holders ==
  \A p \in Procs :
    /\ pc[p] \in WriteStates <=> shortp_out_mutex = p
    /\ pc[p] # "closed" => module = "loaded"

(* A writer has bytes left until it has copied the last, and the piece     *)
(* that it copies fits where it was computed: the tail has only moved on.  *)
PieceOf(p) ==
  /\ pc[p] \in WriteStates => call[p] \in Calls
  /\ pc[p] \in WriteStates \ {"write_start"} => call[p].data # <<>>
  /\ pc[p] = "write_copy" =>
       Len(call[p].piece) \in 1 .. shortp_out_space(shortp_out)
  /\ pc[p] = "write_start" => call[p].piece # <<>>

Pieces == \A p \in Procs : PieceOf(p)

ShortInv == Types /\ Holders /\ Pieces

(* The bytes between tail and head have been written.                      *)
Used(out) == IF out.head >= out.tail THEN out.head - out.tail
                                     ELSE out.head - out.tail + PageSize
Wrap(i) == IF i < PageSize THEN i ELSE i - PageSize

(* What is in the buffer, first byte first. *)
Shown(out) ==
  [i \in 1 .. Used(out) |-> out.page[Wrap(out.tail + i - 1)]]

Stored == Shown(shortp_out) \in [1 .. Used(shortp_out) -> WrittenBytes]

(* A byte is shown by the work item that printed it, until it has recorded *)
(* the time; and nothing works for a module that is not loaded.            *)
Strobes ==
  /\ strobed # <<>> => shortp_work.pc = "record"
  /\ module = "unloaded" => shortp_work.pc = "idle"

(* A writer that sleeps has found the buffer full.                         *)
Asleep ==
  \A p \in shortp_out_queue :
    pc[p] = "write_sleep" => Used(shortp_out) \in
                               PageSize - SP_MIN_SPACE .. PageSize - 1

-----------------------------------------------------------------------------
(***************************************************************************)
(* The arithmetic of the page.                                             *)
(***************************************************************************)
LEMMA WrapIs ==
  ASSUME NEW i \in Nat, i < PageSize + PageSize
  PROVE  i % PageSize = Wrap(i) /\ Wrap(i) \in Indices
BY PageSizeAssumption DEF Wrap, Indices

(* An index that is moved to the end of the page at most wraps there. *)
LEMMA IncrIs ==
  ASSUME NEW i \in Indices, NEW n \in Nat, i + n <= PageSize
  PROVE  incr_out_bp(i, n) = Wrap(i + n) /\ Wrap(i + n) \in Indices
<1>1. i + n \in Nat /\ i + n < PageSize + PageSize
  BY PageSizeAssumption DEF Indices
<1> QED BY <1>1, WrapIs DEF incr_out_bp

(* The space found is contiguous, and not all that is free. *)
LEMMA SpaceIs ==
  ASSUME NEW out \in Buffers
  PROVE  /\ Used(out) \in 0 .. PageSize - 1
         /\ shortp_out_space(out) \in Nat
         /\ out.head + shortp_out_space(out) <= PageSize
         /\ Used(out) + shortp_out_space(out) <= PageSize - 1
         /\ shortp_out_space(out) = 0 => Used(out) = PageSize - 1
         /\ Used(out) = 0 <=> out.head = out.tail
<1>1. PICK h \in Nat, t \in Nat :
        h = out.head /\ t = out.tail /\ h < PageSize /\ t < PageSize
  BY PageSizeAssumption DEF Buffers, Indices
<1>2. Used(out) = IF h >= t THEN h - t ELSE h - t + PageSize
  BY <1>1 DEF Used
<1>3. shortp_out_space(out) = IF h < t THEN t - h - 1
                              ELSE IF t = 0 THEN PageSize - h - 1
                              ELSE PageSize - h
  BY <1>1 DEF shortp_out_space
<1>4. PageSize \in Nat /\ PageSize > 2
  BY PageSizeAssumption
<1> QED BY <1>1, <1>2, <1>3, <1>4

(* Roomy is about the free bytes, of which an empty buffer shows none. *)
LEMMA RoomyIs ==
  ASSUME NEW out \in Buffers
  PROVE  Roomy(out) <=> Used(out) # 0 /\ PageSize - Used(out) > SP_MIN_SPACE
<1>1. /\ out.head \in Nat /\ out.tail \in Nat /\ PageSize \in Nat
      /\ out.head < PageSize /\ out.tail < PageSize
  BY PageSizeAssumption DEF Buffers, Indices
<1>2. PICK f \in Nat :
        f = PageSize + out.tail - out.head /\ f < PageSize + PageSize
  BY <1>1
<1>3. f % PageSize = Wrap(f)
  BY <1>2, WrapIs
<1>4. SP_MIN_SPACE \in Nat
  BY PageSizeAssumption DEF SP_MIN_SPACE
<1>5. Wrap(f) = IF Used(out) = 0 THEN 0 ELSE PageSize - Used(out)
  BY <1>1, <1>2 DEF Wrap, Used
<1>6. PICK u \in Nat, m \in Nat : u = Used(out) /\ m = SP_MIN_SPACE
  BY <1>4, SpaceIs
<1> QED BY <1>2, <1>3, <1>5, <1>6, PageSizeAssumption DEF Roomy

(* Half of the page is at least one byte, and less than what can be used. *)
LEMMA MinSpace ==
  SP_MIN_SPACE \in Nat /\ 1 <= SP_MIN_SPACE /\ SP_MIN_SPACE < PageSize - 1
BY PageSizeAssumption DEF SP_MIN_SPACE

(* A byte printed leaves one less, and never less space.                   *)
LEMMA TailMoves ==
  ASSUME NEW out \in Buffers, out.head # out.tail,
         NEW out2, out2 = Printed(out)
  PROVE  /\ out2 \in Buffers /\ out2.head = out.head
         /\ \A i \in Indices \ {out.tail} : out2.page[i] = out.page[i]
         /\ out2.tail = Wrap(out.tail + 1)
         /\ Used(out2) = Used(out) - 1
         /\ shortp_out_space(out) <= shortp_out_space(out2)
<1>1. incr_out_bp(out.tail, 1) = Wrap(out.tail + 1) /\ Wrap(out.tail + 1) \in Indices
  <2>1. out.tail \in Indices /\ out.tail + 1 <= PageSize
    BY PageSizeAssumption DEF Buffers, Indices
  <2> QED BY <2>1, IncrIs
<1>2. /\ out2 \in Buffers /\ out2.head = out.head
      /\ \A i \in Indices \ {out.tail} : out2.page[i] = out.page[i]
      /\ out2.tail = Wrap(out.tail + 1)
  BY <1>1 DEF Buffers, Printed
<1>3. /\ out.head \in Nat /\ out.tail \in Nat /\ PageSize \in Nat
      /\ out.head < PageSize /\ out.tail < PageSize /\ PageSize > 2
  BY PageSizeAssumption DEF Buffers, Indices
<1> QED BY <1>2, <1>3 DEF Used, Wrap, shortp_out_space

(* What is copied in is used. *)
LEMMA HeadMoves ==
  ASSUME NEW out \in Buffers, NEW n \in 1 .. shortp_out_space(out),
         NEW out2 \in Buffers, out2.tail = out.tail,
         out2.head = incr_out_bp(out.head, n)
  PROVE  /\ out2.head = Wrap(out.head + n) /\ Used(out2) = Used(out) + n
         /\ out2.head # out2.tail
<1>1. /\ out.head \in Indices /\ n \in Nat /\ out.head + n <= PageSize
      /\ n >= 1
  BY SpaceIs, PageSizeAssumption DEF Buffers, Indices
<1>2. out2.head = Wrap(out.head + n)
  BY <1>1, IncrIs
<1>3. /\ out.head \in Nat /\ out.tail \in Nat /\ PageSize \in Nat
      /\ out.head < PageSize /\ out.tail < PageSize
  BY PageSizeAssumption DEF Buffers, Indices
<1>4. n <= shortp_out_space(out)
  BY SpaceIs
<1> QED BY <1>1, <1>2, <1>3, <1>4 DEF Used, Wrap, shortp_out_space

-----------------------------------------------------------------------------
(***************************************************************************)
(* Types.  The steps outside of the processes leave these as they are.     *)
(***************************************************************************)
LEMMA Background ==
  ASSUME ShortInv, UNCHANGED <<shortp_out, shortp_out_mutex, pc, call>>,
         module' \in Modules,
         module' = module \/ \A p \in Procs : pc[p] = "closed",
         shortp_output_active' \in BOOLEAN,
         shortp_timer' \in {"off", "pending"},
         timeout' \in {"idle", "test", "lock"},
         shortp_work' \in [queued : BOOLEAN, pc : Works]
  PROVE  ShortInv'
<1>1. Types' /\ Holders'
  BY DEF ShortInv, Types, Holders
<1>2. Pieces'
  BY DEF ShortInv, Pieces, PieceOf
<1> QED BY <1>1, <1>2 DEF ShortInv

(* A step of p, which goes to l: outside of a write it touches neither the *)
(* buffer nor the mutex. *)
LEMMA OneMoves ==
  ASSUME ShortInv, NEW p \in Procs, NEW l \in Places, Goto(p, l),
         module' = module, l # "closed" => module = "loaded",
         NEW c \in {NoCall} \cup Calls, call' = [call EXCEPT ![p] = c],
         shortp_out' \in Buffers, shortp_out' = shortp_out \/ shortp_out_mutex = p,
         l \in WriteStates => /\ shortp_out_mutex \in {p, NoProc}
                              /\ shortp_out_mutex' = p,
         l \notin WriteStates =>
           shortp_out_mutex' = IF pc[p] \in WriteStates THEN NoProc
                                                        ELSE shortp_out_mutex,
         PieceOf(p)',
         shortp_output_active' \in BOOLEAN,
         shortp_timer' \in {"off", "pending"},
         timeout' \in {"idle", "test", "lock"},
         shortp_work' \in [queued : BOOLEAN, pc : Works]
  PROVE  ShortInv'
<1>1. /\ pc' \in [Procs -> Places] /\ pc'[p] = l
      /\ \A q \in Procs \ {p} : pc'[q] = pc[q] /\ call'[q] = call[q]
  BY DEF ShortInv, Types, Goto
<1>2. Types'
  BY <1>1 DEF ShortInv, Types
<1>3. Holders'
  BY <1>1, NoProcAssumption DEF ShortInv, Types, Holders
<1>4. ASSUME NEW q \in Procs \ {p} PROVE PieceOf(q)'
  <2>1. pc'[q] = pc[q] /\ call'[q] = call[q] /\ PieceOf(q)
    BY <1>1 DEF ShortInv, Pieces
  <2>2. CASE pc[q] \in WriteStates
    <3>1. shortp_out' = shortp_out
      BY <2>2, NoProcAssumption DEF ShortInv, Holders
    <3> QED BY <2>1, <3>1 DEF PieceOf
  <2>3. CASE pc[q] \notin WriteStates
    BY <2>1, <2>3 DEF PieceOf, WriteStates
  <2> QED BY <2>2, <2>3
<1> QED BY <1>2, <1>3, <1>4 DEF ShortInv, Pieces

(* What keeps everything that a writer does not write. *)
LEMMA SameCall ==
  ASSUME ShortInv, NEW p \in Procs, UNCHANGED call
  PROVE  call[p] \in {NoCall} \cup Calls /\ call' = [call EXCEPT ![p] = call[p]]
BY DEF ShortInv, Types

(* Opening and releasing touch neither buffer nor mutex. *)
LEMMA ReleaseKeeps ==
  ASSUME ShortInv, NEW p \in Procs,
         shortp_open(p) \/ ReleasePrepare(p) \/ ReleaseTest(p) \/ ReleaseWakes(p)
  PROVE  ShortInv'
<1>1. PICK l \in Places \ WriteStates :
        Goto(p, l) /\ (l # "closed" => module = "loaded")
  BY DEF shortp_open, ReleasePrepare, ReleaseTest, ReleaseWakes, Places,
         ReleaseStates, WriteStates, ShortInv, Holders
<1>2. UNCHANGED <<module, output, writers, call>> /\ pc[p] \notin WriteStates
  BY DEF shortp_open, ReleasePrepare, ReleaseTest, ReleaseWakes, WriteStates
<1>3. PieceOf(p)'
  <2>1. pc'[p] = l
    BY <1>1 DEF ShortInv, Types, Goto
  <2> QED BY <1>1, <2>1 DEF PieceOf, WriteStates
<1>4. call[p] \in {NoCall} \cup Calls /\ call' = [call EXCEPT ![p] = call[p]]
  BY <1>2, SameCall
<1>5. /\ UNCHANGED <<shortp_out, shortp_out_mutex, shortp_output_active,
                     shortp_timer, timeout, shortp_work>>
      /\ shortp_out \in Buffers /\ shortp_output_active \in BOOLEAN
      /\ shortp_timer \in {"off", "pending"} /\ timeout \in {"idle", "test", "lock"}
      /\ shortp_work \in [queued : BOOLEAN, pc : Works]
  BY <1>2 DEF output, writers, ShortInv, Types
<1> QED BY <1>1, <1>2, <1>3, <1>4, <1>5, OneMoves

-----------------------------------------------------------------------------
(* A step of shortp_write leaves the module loaded; p, with the mutex, is  *)
(* the only writer.                                                        *)
LEMMA WriterIs ==
  ASSUME ShortInv, NEW p \in Procs, pc[p] \in WriteStates
  PROVE  /\ shortp_out_mutex = p /\ module = "loaded" /\ call[p] \in Calls
         /\ pc[p] # "write_start" => call[p].data # <<>>
BY DEF ShortInv, Holders, Pieces, PieceOf, WriteStates

(* What a writer's step leaves alone has its type. *)
LEMMA OutputTyped ==
  ASSUME ShortInv, UNCHANGED <<shortp_output_active, shortp_timer, timeout,
                               shortp_work>>
  PROVE  /\ shortp_output_active' \in BOOLEAN
         /\ shortp_timer' \in {"off", "pending"}
         /\ timeout' \in {"idle", "test", "lock"}
         /\ shortp_work' \in [queued : BOOLEAN, pc : Works]
BY DEF ShortInv, Types

(* A write begins with something to write. *)
LEMMA WriteLockKeeps ==
  ASSUME ShortInv, NEW p \in Procs, WriteLock(p)
  PROVE  ShortInv'
<1>1. /\ pc[p] = "user" /\ shortp_out_mutex = NoProc /\ shortp_out_mutex' = p
      /\ Goto(p, "write_space") /\ UNCHANGED <<output, module>>
  BY DEF WriteLock, WriteUnchanged
<1>2. PICK d \in Writes : call' = [call EXCEPT ![p] = [data |-> d, piece |-> <<>>]]
  BY DEF WriteLock
<1> DEFINE c == [data |-> d, piece |-> <<>>]
<1>3. d \in Seq(WrittenBytes) /\ d # <<>>
  BY WritesAssumption
<1>4. c \in Calls
  BY <1>3 DEF Calls
<1>5. pc'[p] = "write_space" /\ call'[p] = c
  BY <1>1, <1>2 DEF Goto, ShortInv, Types
<1>6. PieceOf(p)'
  BY <1>3, <1>4, <1>5 DEF PieceOf
<1>7. module = "loaded" /\ shortp_out \in Buffers
  BY <1>1 DEF ShortInv, Types, Holders
<1>8. /\ UNCHANGED <<shortp_out, shortp_output_active, shortp_timer, timeout,
                     shortp_work>>
      /\ "write_space" \in WriteStates /\ "write_space" \in Places
  BY <1>1 DEF output, WriteStates, Places
<1>9. call' = [call EXCEPT ![p] = c] /\ c \in {NoCall} \cup Calls
  BY <1>2, <1>4
<1> HIDE DEF c
<1> QED BY <1>1, <1>6, <1>7, <1>8, <1>9, OutputTyped, OneMoves

(* A writer that waits, or is woken, holds the mutex on. *)
LEMMA WriteWaitsKeeps ==
  ASSUME ShortInv, NEW p \in Procs, WriteWaits(p) \/ WriteWoken(p)
  PROVE  ShortInv'
<1>1. PICK l \in {"write_test", "write_sleep"} : Goto(p, l)
  BY DEF WriteWaits, WriteWoken
<1>2. UNCHANGED <<output, module, shortp_out_mutex, call>>
  BY DEF WriteWaits, WriteWoken, WriteUnchanged
<1>3. pc[p] \in WriteStates \ {"write_start"}
  BY DEF WriteWaits, WriteWoken, WriteStates
<1>4. /\ shortp_out_mutex = p /\ module = "loaded" /\ call[p] \in Calls
      /\ call[p].data # <<>>
  BY <1>3, WriterIs
<1>5. pc'[p] = l
  BY <1>1 DEF Goto, ShortInv, Types
<1>6. PieceOf(p)'
  BY <1>2, <1>4, <1>5 DEF PieceOf
<1>7. call[p] \in {NoCall} \cup Calls /\ call' = [call EXCEPT ![p] = call[p]]
  BY <1>2, SameCall
<1>8. /\ UNCHANGED <<shortp_out, shortp_output_active, shortp_timer, timeout,
                     shortp_work>>
      /\ l \in WriteStates /\ l \in Places /\ shortp_out \in Buffers
  BY <1>2 DEF output, WriteStates, Places, ShortInv, Types
<1> QED BY <1>1, <1>2, <1>4, <1>6, <1>7, <1>8, OutputTyped, OneMoves

(* The piece is a part of what is left, and no longer than the space. *)
LEMMA SpaceOf ==
  ASSUME ShortInv, NEW p \in Procs, call[p] \in Calls
  PROVE  /\ Space(p) \in Nat /\ Space(p) <= shortp_out_space(shortp_out)
         /\ Space(p) <= Len(call[p].data)
         /\ Space(p) = 0 => shortp_out_space(shortp_out) = 0
                            \/ Len(call[p].data) = 0
<1>1. shortp_out_space(shortp_out) \in Nat
  BY SpaceIs DEF ShortInv, Types
<1>2. Len(call[p].data) \in Nat
  BY DEF Calls
<1> QED BY <1>1, <1>2 DEF Space

(* The piece fits in the space that was found. *)
LEMMA WriteFitsKeeps ==
  ASSUME ShortInv, NEW p \in Procs, WriteFits(p)
  PROVE  ShortInv'
<1>1. /\ Goto(p, "write_copy") /\ UNCHANGED <<output, module, shortp_out_mutex>>
      /\ Space(p) > 0
      /\ call' = [call EXCEPT ![p].piece = SubSeq(call[p].data, 1, Space(p))]
  BY DEF WriteFits, WriteUnchanged
<1>2. pc[p] \in WriteStates \ {"write_start"}
  BY DEF WriteFits, WriteStates
<1>3. /\ shortp_out_mutex = p /\ module = "loaded" /\ call[p] \in Calls
      /\ call[p].data # <<>>
  BY <1>2, WriterIs
<1> DEFINE d == SubSeq(call[p].data, 1, Space(p))
<1> DEFINE c == [data |-> call[p].data, piece |-> d]
<1>4. PICK n \in Nat : n = Space(p)
  BY <1>3, SpaceOf
<1>5. n > 0 /\ n <= Len(call[p].data) /\ n <= shortp_out_space(shortp_out)
  BY <1>1, <1>3, <1>4, SpaceOf
<1>6. d \in Seq(WrittenBytes) /\ Len(d) = n
  <2>1. call[p].data \in Seq(WrittenBytes)
    BY <1>3 DEF Calls
  <2> QED BY <1>4, <1>5, <2>1, SubSeqProperties
<1>7. call' = [call EXCEPT ![p] = c] /\ c \in Calls
  <2>1. c \in Calls /\ c = [call[p] EXCEPT !.piece = d]
    <3> HIDE DEF d
    <3> QED BY <1>3, <1>6 DEF Calls
  <2>2. call' = [call EXCEPT ![p] = [call[p] EXCEPT !.piece = d]]
    BY <1>1 DEF ShortInv, Types
  <2> QED BY <2>1, <2>2
<1>8. pc'[p] = "write_copy" /\ call'[p] = c
  BY <1>1, <1>7 DEF Goto, ShortInv, Types
<1>9. /\ UNCHANGED <<shortp_out, shortp_output_active, shortp_timer, timeout,
                     shortp_work>>
      /\ "write_copy" \in WriteStates /\ "write_copy" \in Places
      /\ shortp_out \in Buffers /\ c \in {NoCall} \cup Calls
  BY <1>1, <1>7 DEF output, WriteStates, Places, ShortInv, Types
<1>10. shortp_out_space(shortp_out) \in Nat
  BY SpaceIs DEF ShortInv, Types
<1>11. PieceOf(p)'
  <2>1. Len(d) \in 1 .. shortp_out_space(shortp_out)
    BY <1>5, <1>6, <1>10
  <2>2. c.piece = d /\ c.data = call[p].data
    OBVIOUS
  <2>3. shortp_out_space(shortp_out)' = shortp_out_space(shortp_out)
    BY <1>9 DEF shortp_out_space
  <2> HIDE DEF c, d
  <2>4. /\ call'[p] \in Calls /\ call'[p].data # <<>> /\ pc'[p] # "write_start"
        /\ Len(call'[p].piece) \in 1 .. shortp_out_space(shortp_out)'
    BY <1>3, <1>7, <1>8, <2>1, <2>2, <2>3
  <2> QED BY <2>4 DEF PieceOf
<1> HIDE DEF c, d
<1> QED BY <1>1, <1>3, <1>7, <1>9, <1>11, OutputTyped, OneMoves

(* A copy stays inside of the page; it leaves less to write, and no piece  *)
(* of zero bytes is copied.                                                *)
LEMMA CopyIs ==
  ASSUME ShortInv, NEW p \in Procs, WriteCopy(p)
  PROVE  /\ shortp_out' \in Buffers /\ shortp_out'.tail = shortp_out.tail
         /\ Len(call[p].piece) \in 1 .. shortp_out_space(shortp_out)
         /\ shortp_out'.head = incr_out_bp(shortp_out.head, Len(call[p].piece))
         /\ \A i \in Indices :
              shortp_out'.page[i] =
                IF i \in shortp_out.head .. shortp_out.head + Len(call[p].piece) - 1
                  THEN call[p].piece[i - shortp_out.head + 1]
                  ELSE shortp_out.page[i]
<1> DEFINE n == Len(call[p].piece)
<1> DEFINE head == shortp_out.head
<1> DEFINE into == head .. head + n - 1
<1> DEFINE page2 == [i \in DOMAIN shortp_out.page \cup into |->
                       IF i \in into THEN call[p].piece[i - head + 1]
                                     ELSE shortp_out.page[i]]
<1>1. pc[p] = "write_copy" /\ shortp_out \in Buffers
  BY DEF WriteCopy, ShortInv, Types
<1>2. n \in 1 .. shortp_out_space(shortp_out) /\ call[p] \in Calls
  BY <1>1 DEF ShortInv, Pieces, PieceOf, WriteStates
<1>3. call[p].piece \in [1 .. n -> WrittenBytes]
  <2>1. call[p].piece \in Seq(WrittenBytes)
    BY <1>2 DEF Calls
  <2> QED BY <2>1, LenProperties
<1>4. /\ head \in Indices /\ n \in Nat /\ head + n <= PageSize /\ head \in Nat
      /\ PageSize \in Nat
  <2>1. head \in Indices /\ head \in Nat /\ PageSize \in Nat
    BY <1>1, PageSizeAssumption DEF Buffers, Indices
  <2>2. /\ shortp_out_space(shortp_out) \in Nat
        /\ head + shortp_out_space(shortp_out) <= PageSize
    BY <1>1, SpaceIs
  <2> QED BY <1>2, <2>1, <2>2
<1>5. into \subseteq Indices /\ DOMAIN shortp_out.page = Indices
      /\ shortp_out.page \in [Indices -> WrittenBytes \cup {NoByte}]
  BY <1>1, <1>4 DEF Buffers, Indices
<1>6. \A i \in into : i - head + 1 \in 1 .. n
  BY <1>4
<1>7. DOMAIN shortp_out.page \cup into = Indices
  BY <1>5
<1>8. page2 \in [Indices -> WrittenBytes \cup {NoByte}]
  <2>1. \A i \in Indices : (IF i \in into THEN call[p].piece[i - head + 1]
                            ELSE shortp_out.page[i]) \in WrittenBytes \cup {NoByte}
    <3> HIDE DEF n, head, into
    <3> QED BY <1>3, <1>5, <1>6
  <2> QED BY <1>7, <2>1
<1>9. \A i \in Indices : page2[i] = IF i \in into THEN call[p].piece[i - head + 1]
                                                  ELSE shortp_out.page[i]
  BY <1>7
<1>10. incr_out_bp(head, n) \in Indices
  BY <1>4, IncrIs
<1>11. shortp_out' = [shortp_out EXCEPT !.page = page2, !.head = incr_out_bp(head, n)]
  BY DEF WriteCopy
<1> HIDE DEF page2
<1>12. shortp_out' = [page |-> page2, head |-> incr_out_bp(head, n),
                      tail |-> shortp_out.tail]
  BY <1>1, <1>11 DEF Buffers
<1> HIDE DEF n, head, into
<1>13. shortp_out' \in Buffers
  BY <1>1, <1>8, <1>10, <1>12 DEF Buffers
<1>14. /\ shortp_out'.tail = shortp_out.tail /\ shortp_out'.page = page2
       /\ shortp_out'.head = incr_out_bp(head, n)
  BY <1>12
<1> QED BY <1>2, <1>9, <1>13, <1>14 DEF n, head, into

(* A piece that was not empty has been copied. *)
LEMMA WriteCopyKeeps ==
  ASSUME ShortInv, NEW p \in Procs, WriteCopy(p)
  PROVE  ShortInv'
<1> DEFINE d == SubSeq(call[p].data, Len(call[p].piece) + 1, Len(call[p].data))
<1> DEFINE c == [data |-> d, piece |-> call[p].piece]
<1>1. /\ Goto(p, "write_start") /\ UNCHANGED module
      /\ UNCHANGED <<shortp_output_active, shortp_timer, timeout, shortp_work,
                     shortp_out_mutex>>
      /\ call' = [call EXCEPT ![p].data = d]
  BY DEF WriteCopy, WriteUnchanged, writers
<1>2. pc[p] = "write_copy" /\ pc[p] \in WriteStates
  BY DEF WriteCopy, WriteStates
<1>3. shortp_out_mutex = p /\ module = "loaded" /\ call[p] \in Calls
  BY <1>2, WriterIs
<1>4. d \in Seq(WrittenBytes)
  <2>1. call[p].data \in Seq(WrittenBytes) /\ Len(call[p].piece) \in Nat
    BY <1>3 DEF Calls
  <2>2. PICK m \in Nat, k \in Nat :
          m = Len(call[p].piece) + 1 /\ k = Len(call[p].data) /\ m >= 1
    BY <2>1
  <2>3. SubSeq(call[p].data, m, k) \in Seq(WrittenBytes)
    BY <2>1, <2>2, SubSeqProperties
  <2> QED BY <2>2, <2>3
<1>5. c \in Calls /\ call' = [call EXCEPT ![p] = c]
  <2> HIDE DEF d
  <2>1. c \in Calls /\ c = [call[p] EXCEPT !.data = d]
    BY <1>3, <1>4 DEF Calls
  <2>2. call' = [call EXCEPT ![p] = [call[p] EXCEPT !.data = d]]
    BY <1>1 DEF ShortInv, Types
  <2> QED BY <2>1, <2>2
<1>6. shortp_out' \in Buffers /\ Len(call[p].piece) # 0
  <2>1. shortp_out_space(shortp_out) \in Nat
    BY SpaceIs DEF ShortInv, Types
  <2>2. Len(call[p].piece) \in 1 .. shortp_out_space(shortp_out)
    BY CopyIs
  <2> QED BY <2>1, <2>2, CopyIs
<1>7. call[p].piece # <<>>
  BY <1>6, EmptySeq
<1>8. c.piece = call[p].piece
  OBVIOUS
<1> HIDE DEF c, d
<1>9. pc'[p] = "write_start" /\ call'[p] = c
  BY <1>1, <1>5 DEF Goto, ShortInv, Types
<1>10. PieceOf(p)'
  BY <1>5, <1>7, <1>8, <1>9 DEF PieceOf
<1>11. "write_start" \in WriteStates /\ "write_start" \in Places
  BY DEF WriteStates, Places
<1>12. c \in {NoCall} \cup Calls
  BY <1>5
<1> QED BY <1>1, <1>3, <1>5, <1>6, <1>10, <1>11, <1>12, OutputTyped, OneMoves

(* A write that ends early gives the mutex back. *)
LEMMA WriteEndsKeeps ==
  ASSUME ShortInv, NEW p \in Procs, WriteEnds(p)
  PROVE  ShortInv'
<1>1. /\ Goto(p, "user") /\ UNCHANGED <<output, module>>
      /\ shortp_out_mutex' = NoProc /\ call' = [call EXCEPT ![p] = NoCall]
      /\ pc[p] \in WriteStates
  BY DEF WriteEnds, WriteUnchanged, Leave, WriteStates
<1>2. module = "loaded"
  BY <1>1, WriterIs
<1>3. pc'[p] = "user"
  BY <1>1 DEF Goto, ShortInv, Types
<1>4. PieceOf(p)'
  BY <1>3 DEF PieceOf, WriteStates
<1>5. /\ UNCHANGED <<shortp_out, shortp_output_active, shortp_timer, timeout,
                     shortp_work>>
      /\ "user" \notin WriteStates /\ "user" \in Places /\ shortp_out \in Buffers
      /\ NoCall \in {NoCall} \cup Calls
  BY <1>1 DEF output, WriteStates, Places, ShortInv, Types
<1> QED BY <1>1, <1>2, <1>4, <1>5, OutputTyped, OneMoves

(* A write goes on while there are bytes left, and then ends. *)
LEMMA WriteStartKeeps ==
  ASSUME ShortInv, NEW p \in Procs, WriteStart(p)
  PROVE  ShortInv'
<1>1. UNCHANGED <<shortp_out, timeout, module>> /\ pc[p] \in WriteStates
  BY DEF WriteStart, WriteUnchanged, WriteStates
<1>2. shortp_out_mutex = p /\ module = "loaded" /\ call[p] \in Calls
  BY <1>1, WriterIs
<1>3. /\ shortp_output_active' \in BOOLEAN
      /\ shortp_timer' \in {"off", "pending"}
      /\ timeout' \in {"idle", "test", "lock"}
      /\ shortp_work' \in [queued : BOOLEAN, pc : Works]
      /\ shortp_out' \in Buffers
  BY <1>1 DEF WriteStart, QueueWork, ShortInv, Types
<1>4. CASE call[p].data = <<>>
  <2>1. /\ Goto(p, "user") /\ shortp_out_mutex' = NoProc
        /\ call' = [call EXCEPT ![p] = NoCall]
    BY <1>4 DEF WriteStart, Leave
  <2>2. pc'[p] = "user"
    BY <2>1 DEF Goto, ShortInv, Types
  <2>3. PieceOf(p)'
    BY <2>2 DEF PieceOf, WriteStates
  <2>4. "user" \notin WriteStates /\ "user" \in Places /\ NoCall \in {NoCall} \cup Calls
    BY DEF WriteStates, Places
  <2> QED BY <1>1, <1>2, <1>3, <2>1, <2>3, <2>4, OneMoves
<1>5. CASE call[p].data # <<>>
  <2>1. /\ Goto(p, "write_space") /\ UNCHANGED <<shortp_out_mutex, call>>
    BY <1>5 DEF WriteStart
  <2>2. pc'[p] = "write_space"
    BY <2>1 DEF Goto, ShortInv, Types
  <2>3. PieceOf(p)'
    BY <1>2, <1>5, <2>1, <2>2 DEF PieceOf
  <2>4. call[p] \in {NoCall} \cup Calls /\ call' = [call EXCEPT ![p] = call[p]]
    BY <2>1, SameCall
  <2>5. "write_space" \in WriteStates /\ "write_space" \in Places
    BY DEF WriteStates, Places
  <2> QED BY <1>1, <1>2, <1>3, <2>1, <2>3, <2>4, <2>5, OneMoves
<1> QED BY <1>4, <1>5

(* The work item prints: the tail moves away from the piece in hand. *)
LEMMA PrintsKeeps ==
  ASSUME ShortInv, WorkPrints
  PROVE  ShortInv'
<1>1. /\ shortp_out \in Buffers /\ shortp_out.head # shortp_out.tail
      /\ shortp_out' = Printed(shortp_out)
      /\ UNCHANGED <<module, shortp_output_active, timeout, shortp_out_mutex>>
      /\ UNCHANGED <<pc, call>> /\ shortp_timer' = "pending"
      /\ shortp_work' = [shortp_work EXCEPT !.pc = "record"]
  BY DEF WorkPrints, SetTimer, procs, ShortInv, Types
<1>2. /\ shortp_out' \in Buffers
      /\ shortp_out_space(shortp_out) <= shortp_out_space(shortp_out')
  BY <1>1, TailMoves
<1>3. Types'
  BY <1>1, <1>2 DEF ShortInv, Types, Works
<1>4. Holders'
  BY <1>1 DEF ShortInv, Holders
<1>5. ASSUME NEW p \in Procs PROVE PieceOf(p)'
  <2>1. PieceOf(p)
    BY DEF ShortInv, Pieces
  <2>2. CASE pc[p] = "write_copy"
    <3>1. call[p] \in Calls
      BY <2>1, <2>2 DEF PieceOf, WriteStates
    <3>2. PICK a \in Nat, b \in Nat, n \in Nat :
            /\ a = shortp_out_space(shortp_out) /\ b = shortp_out_space(shortp_out')
            /\ n = Len(call[p].piece)
      BY <1>1, <1>2, <3>1, SpaceIs, SMTT(30) DEF Calls
    <3>3. n \in 1 .. a /\ a <= b
      BY <1>2, <2>1, <2>2, <3>2 DEF PieceOf
    <3>4. n \in 1 .. b
      BY <3>3
    <3>5. Len(call'[p].piece) \in 1 .. shortp_out_space(shortp_out')
      BY <1>1, <3>2, <3>4
    <3>6. /\ pc'[p] = pc[p] /\ call'[p] = call[p]
          /\ call[p].data # <<>>
      BY <1>1, <2>1, <2>2 DEF PieceOf, WriteStates
    <3> QED BY <2>2, <3>1, <3>5, <3>6 DEF PieceOf
  <2>3. CASE pc[p] # "write_copy"
    BY <1>1, <2>1, <2>3 DEF PieceOf
  <2> QED BY <2>2, <2>3
<1> QED BY <1>3, <1>4, <1>5 DEF ShortInv, Pieces

(* Loading and unloading: nobody has the device open. *)
LEMMA LoadingKeeps ==
  ASSUME ShortInv, shortp_init
  PROVE  ShortInv'
<1>1. \A p \in Procs : pc[p] = "closed"
  BY DEF ShortInv, Holders, shortp_init
<1>2. UNCHANGED <<pc, call>> /\ module' = "loaded"
  BY DEF shortp_init
<1>3. EmptyPage \in Buffers
  BY PageSizeAssumption DEF EmptyPage, Buffers, Indices
<1>4. Types'
  BY <1>2, <1>3 DEF ShortInv, Types, shortp_init, Modules, Works
<1>5. Holders'
  BY <1>1, <1>2, NoProcAssumption DEF Holders, shortp_init, WriteStates
<1>6. Pieces'
  BY <1>1, <1>2 DEF Pieces, PieceOf, WriteStates
<1> QED BY <1>4, <1>5, <1>6 DEF ShortInv

(* The steps of the module, the work item and the timer. *)
LEMMA BackgroundKeeps ==
  ASSUME ShortInv,
         FreeIrq \/ DelTimer \/ FlushWork \/ Printer \/ WorkBegin
           \/ WorkEmpty \/ WorkRecords \/ Timeout
  PROVE  ShortInv'
<1>1. UNCHANGED <<shortp_out, shortp_out_mutex, pc, call>>
  BY DEF FreeIrq, DelTimer, FlushWork, Printer, PrinterReady, PrinterInterrupts,
         InterruptMissed, PrinterUnchanged, WorkBegin, WorkEmpty,
         WorkRecords, Timeout, TimerExpires, TimeoutTest, TimeoutReset,
         TimeoutDropped, TimeoutUnchanged, output, writers, procs
<1>2. module' \in Modules /\ (module' = module \/ \A p \in Procs : pc[p] = "closed")
  BY DEF FreeIrq, DelTimer, FlushWork, Printer, PrinterReady, PrinterInterrupts,
         InterruptMissed, PrinterUnchanged, WorkBegin, WorkEmpty,
         WorkRecords, Timeout, TimerExpires, TimeoutTest, TimeoutReset,
         TimeoutDropped, TimeoutUnchanged, Modules, ShortInv, Types, Holders
<1>3. /\ shortp_output_active' \in BOOLEAN
      /\ shortp_timer' \in {"off", "pending"}
      /\ timeout' \in {"idle", "test", "lock"}
  BY DEF FreeIrq, DelTimer, FlushWork, Printer, PrinterReady, PrinterInterrupts,
         InterruptMissed, PrinterUnchanged, WorkBegin, WorkEmpty,
         WorkRecords, Timeout, TimerExpires, TimeoutTest, TimeoutReset,
         TimeoutDropped, TimeoutUnchanged, output, ShortInv, Types
<1>4. shortp_work' \in [queued : BOOLEAN, pc : Works]
  <2>1. /\ shortp_work \in [queued : BOOLEAN, pc : Works]
        /\ "idle" \in Works /\ "wait" \in Works /\ "record" \in Works
    BY DEF ShortInv, Types, Works
  <2>2. UNCHANGED shortp_work \/ QueueWork
          \/ shortp_work' = [queued |-> FALSE, pc |-> "wait"]
          \/ \E w \in Works : shortp_work' = [shortp_work EXCEPT !.pc = w]
    BY <2>1 DEF FreeIrq, DelTimer, FlushWork, Printer, PrinterReady, PrinterInterrupts,
         InterruptMissed, PrinterUnchanged, WorkBegin,
         WorkEmpty, WorkRecords, Timeout, TimerExpires, TimeoutTest,
         TimeoutReset, TimeoutDropped, output, shortp_interrupt
  <2>3. CASE QueueWork
    BY <2>1, <2>3 DEF QueueWork
  <2>4. CASE shortp_work' = [queued |-> FALSE, pc |-> "wait"]
    BY <2>1, <2>4
  <2>5. ASSUME NEW w \in Works, shortp_work' = [shortp_work EXCEPT !.pc = w]
        PROVE  shortp_work' \in [queued : BOOLEAN, pc : Works]
    BY <2>1, <2>5
  <2> QED BY <2>1, <2>2, <2>3, <2>4, <2>5
<1> QED BY <1>1, <1>2, <1>3, <1>4, Background

(* Each step keeps the invariant. *)
LEMMA ShortStep == ShortInv /\ [Next]_vars => ShortInv'
<1> SUFFICES ASSUME ShortInv, [Next]_vars PROVE ShortInv'
  OBVIOUS
<1>1. CASE UNCHANGED vars
  BY <1>1 DEF vars, ShortInv, Types, Holders, Pieces, PieceOf
<1>2. CASE shortp_init
  BY <1>2, LoadingKeeps
<1>3. CASE FreeIrq \/ DelTimer \/ FlushWork \/ Printer \/ Work \/ Timeout
  BY <1>3, BackgroundKeeps, PrintsKeeps DEF Work
<1>4. ASSUME NEW p \in Procs,
             shortp_open(p) \/ ReleasePrepare(p) \/ ReleaseTest(p) \/ ReleaseWakes(p)
      PROVE  ShortInv'
  BY <1>4, ReleaseKeeps
<1>5. ASSUME NEW p \in Procs, WriteLock(p) \/ WriteEnds(p) \/ WriteStep(p)
      PROVE  ShortInv'
  BY <1>5, WriteLockKeeps, WriteEndsKeeps, WriteFitsKeeps, WriteWaitsKeeps,
     WriteCopyKeeps, WriteStartKeeps DEF WriteStep
<1> QED BY <1>1, <1>2, <1>3, <1>4, <1>5 DEF Next

(* The invariant, initially. *)
LEMMA ShortInit == Init => ShortInv
<1> SUFFICES ASSUME Init PROVE ShortInv
  OBVIOUS
<1>1. EmptyPage \in Buffers
  BY PageSizeAssumption DEF EmptyPage, Buffers, Indices
<1>2. Types
  BY <1>1 DEF Init, Types, Modules, Works, Places
<1>3. Holders
  BY NoProcAssumption DEF Init, Holders, WriteStates
<1>4. Pieces
  BY DEF Init, Pieces, PieceOf, WriteStates
<1> QED BY <1>2, <1>3, <1>4 DEF ShortInv

(* Every variable of the driver has its type: head and tail stay inside of *)
(* the page, nothing is copied past its end, though the piece is measured  *)
(* before the tail moves on, and one writer holds the mutex                *)
(* (shortp_write, shortp_do_write).                                        *)
THEOREM TypeCorrect == Spec => []TypeOK
<1>1. Spec => []ShortInv
  BY ShortInit, ShortStep, PTL DEF Spec
<1>2. ShortInv => TypeOK
  BY DEF ShortInv, Types, Holders, TypeOK, Buffers, Indices, Places
<1> QED BY <1>1, <1>2, PTL

-----------------------------------------------------------------------------
(***************************************************************************)
(* Output.  Both parts are kept by each step.                              *)
(***************************************************************************)
(* Queueing the work item leaves it where it is. *)
LEMMA QueuedIs ==
  ASSUME ShortInv, QueueWork
  PROVE  shortp_work'.queued /\ shortp_work'.pc = shortp_work.pc
BY DEF ShortInv, Types, QueueWork

(* Whatever is under way is followed by the next. *)
LEMMA DrivenStep ==
  ShortInv /\ OutputDriven /\ [Next]_vars => OutputDriven'
<1> SUFFICES ASSUME ShortInv, OutputDriven, [Next]_vars PROVE OutputDriven'
  OBVIOUS
<1>1. CASE UNCHANGED vars
  BY <1>1 DEF vars, OutputDriven
<1>2. CASE shortp_init \/ FreeIrq \/ DelTimer \/ FlushWork
  BY <1>2 DEF shortp_init, FreeIrq, DelTimer, FlushWork, OutputDriven
<1>3. CASE Printer
  <2>1. UNCHANGED <<module, shortp_output_active, shortp_timer, timeout>>
        /\ (QueueWork \/ UNCHANGED shortp_work)
    BY <1>3 DEF Printer, PrinterReady, PrinterInterrupts,
         InterruptMissed, PrinterUnchanged, shortp_interrupt
  <2>2. \/ shortp_work' = shortp_work
        \/ shortp_work'.queued /\ shortp_work'.pc = shortp_work.pc
    BY <2>1, QueuedIs
  <2> QED BY <2>1, <2>2 DEF OutputDriven
<1>4. CASE Work
  <2>1. CASE WorkBegin
    BY <2>1 DEF WorkBegin, OutputDriven
  <2>2. CASE WorkEmpty \/ WorkPrints
    BY <2>2 DEF WorkEmpty, WorkPrints, SetTimer, OutputDriven
  <2>3. CASE WorkRecords
    <3>1. /\ shortp_work.pc = "record"
          /\ shortp_work' = [shortp_work EXCEPT !.pc = "idle"]
          /\ UNCHANGED <<module, shortp_output_active, shortp_timer, timeout>>
      BY <2>3 DEF WorkRecords
    <3>2. shortp_work'.queued = shortp_work.queued
      BY <3>1 DEF ShortInv, Types
    <3> QED BY <3>1, <3>2 DEF OutputDriven
  <2> QED BY <1>4, <2>1, <2>2, <2>3 DEF Work
<1>5. CASE Timeout
  <2>1. CASE TimerExpires \/ TimeoutTest \/ TimeoutReset
    BY <2>1 DEF TimerExpires, TimeoutTest, TimeoutReset, TimeoutUnchanged,
                OutputDriven
  <2>2. CASE TimeoutDropped
    <3>1. /\ UNCHANGED <<module, shortp_output_active>>
          /\ shortp_output_active => QueueWork
      BY <2>2 DEF TimeoutDropped, TimeoutUnchanged, shortp_interrupt
    <3> QED BY <3>1, QueuedIs DEF OutputDriven
  <2> QED BY <1>5, <2>1, <2>2 DEF Timeout
<1>6. ASSUME NEW p \in Procs, WriteStart(p) PROVE OutputDriven'
  BY <1>6 DEF WriteStart, WriteUnchanged, Starts, OutputDriven
<1>7. ASSUME NEW p \in Procs,
             \/ shortp_open(p)
             \/ ReleasePrepare(p) \/ ReleaseTest(p) \/ ReleaseWakes(p)
             \/ WriteLock(p) \/ WriteEnds(p) \/ WriteFits(p) \/ WriteWaits(p)
             \/ WriteWoken(p) \/ WriteCopy(p)
      PROVE  OutputDriven'
  <2>1. UNCHANGED <<module, shortp_output_active, shortp_timer, timeout,
                    shortp_work>>
    BY <1>7 DEF shortp_open, ReleasePrepare, ReleaseTest, ReleaseWakes,
       WriteLock, WriteEnds, WriteFits, WriteWaits, WriteWoken, WriteCopy,
       WriteUnchanged, output
  <2> QED BY <2>1 DEF OutputDriven
<1> QED BY <1>1, <1>2, <1>3, <1>4, <1>5, <1>6, <1>7 DEF Next, WriteStep

(* Who has filled the buffer is on its way to start output, and only it    *)
(* leaves that place.                                                      *)
LEMMA StartedStep ==
  ShortInv /\ OutputStarted /\ [Next]_vars => OutputStarted'
<1> SUFFICES ASSUME ShortInv, OutputStarted, [Next]_vars PROVE OutputStarted'
  OBVIOUS
<1>1. CASE UNCHANGED vars
  BY <1>1 DEF vars, OutputStarted
<1>2. CASE shortp_init
  BY <1>2 DEF shortp_init, EmptyPage, OutputStarted
<1>3. CASE FreeIrq \/ DelTimer \/ FlushWork \/ Printer \/ Timeout
  <2>1. UNCHANGED <<shortp_out, shortp_output_active, pc>>
    BY <1>3 DEF FreeIrq, DelTimer, FlushWork, Printer, PrinterReady, PrinterInterrupts,
         InterruptMissed, PrinterUnchanged, Timeout,
       TimerExpires, TimeoutTest, TimeoutReset, TimeoutDropped,
       TimeoutUnchanged, output, procs
  <2> QED BY <2>1 DEF OutputStarted
<1>4. CASE Work
  <2>1. CASE WorkBegin \/ WorkEmpty \/ WorkRecords
    BY <2>1 DEF WorkBegin, WorkEmpty, WorkRecords, procs, OutputStarted
  <2>2. CASE WorkPrints
    BY <2>2 DEF WorkPrints, procs, OutputStarted
  <2> QED BY <1>4, <2>1, <2>2 DEF Work
<1>5. ASSUME NEW p \in Procs, WriteStart(p) PROVE OutputStarted'
  BY <1>5 DEF WriteStart, Starts, OutputStarted, ShortInv, Types
<1>6. ASSUME NEW p \in Procs, WriteCopy(p) PROVE OutputStarted'
  BY <1>6 DEF WriteCopy, Goto, OutputStarted, ShortInv, Types
<1>7. ASSUME NEW p \in Procs,
             \/ shortp_open(p)
             \/ ReleasePrepare(p) \/ ReleaseTest(p) \/ ReleaseWakes(p)
             \/ WriteLock(p) \/ WriteEnds(p) \/ WriteFits(p) \/ WriteWaits(p)
             \/ WriteWoken(p)
      PROVE  OutputStarted'
  <2>1. /\ UNCHANGED <<shortp_out, shortp_output_active>>
        /\ pc[p] # "write_start" /\ \E l \in Places : Goto(p, l)
    BY <1>7 DEF shortp_open, ReleasePrepare, ReleaseTest, ReleaseWakes,
       WriteLock, WriteEnds, WriteFits, WriteWaits, WriteWoken, output, Leave,
       Places, ReleaseStates, WriteStates
  <2>2. \A q \in Procs \ {p} : pc'[q] = pc[q]
    BY <2>1 DEF Goto, ShortInv, Types
  <2> QED BY <2>1, <2>2 DEF OutputStarted
<1> QED BY <1>1, <1>2, <1>3, <1>4, <1>5, <1>6, <1>7 DEF Next, WriteStep

(* Both parts, of every behaviour. *)
LEMMA OutputInvariant == Spec => [](ShortInv /\ OutputDriven /\ OutputStarted)
<1>1. Init => OutputDriven /\ OutputStarted
  BY DEF Init, OutputDriven, OutputStarted, EmptyPage
<1> QED BY <1>1, ShortInit, ShortStep, DrivenStep, StartedStep, PTL DEF Spec

(* While there are bytes in the buffer output is active or about to be     *)
(* started, and while it is active the timer is pending, or its function   *)
(* or the work item under way, whatever interrupts are missed              *)
(* (shortp_start_output, shortp_do_work, shortp_timeout); that the timer   *)
(* does more than set itself again is not said.                            *)
THEOREM OutputCorrect == Spec => []OutputGoesOn
BY OutputInvariant, PTL DEF OutputGoesOn

-----------------------------------------------------------------------------
(***************************************************************************)
(* Sleepers.                                                               *)
(***************************************************************************)
Awaited ==
  \A p \in shortp_empty_queue :
    pc[p] = "release_sleep" => shortp_output_active

(* The queues hold processes. *)
Queued == shortp_out_queue \subseteq Procs /\ shortp_empty_queue \subseteq Procs

Sleepers == Queued /\ Asleep /\ Awaited

(* A step of p that does not send it to sleep. *)
LEMMA NobodySleeps ==
  ASSUME ShortInv, Sleepers, NEW p \in Procs, NEW l \in Places, Goto(p, l),
         l \notin {"write_sleep", "release_sleep"},
         shortp_out_queue' \subseteq shortp_out_queue \cup {p},
         shortp_empty_queue' \subseteq shortp_empty_queue \cup {p},
         shortp_out' = shortp_out \/ shortp_out_mutex = p,
         shortp_output_active => shortp_output_active'
  PROVE  Sleepers'
<1>1. /\ pc'[p] = l /\ \A q \in Procs \ {p} : pc'[q] = pc[q]
  BY DEF ShortInv, Types, Goto
<1>2. Queued'
  BY DEF Sleepers, Queued
<1>3. Awaited'
  BY <1>1, <1>2 DEF Sleepers, Awaited, Queued
<1>4. ASSUME NEW q \in shortp_out_queue', pc'[q] = "write_sleep"
      PROVE  Used(shortp_out') \in PageSize - SP_MIN_SPACE .. PageSize - 1
  <2>1. q # p /\ q \in Procs /\ q \in shortp_out_queue /\ pc[q] = "write_sleep"
    BY <1>1, <1>2, <1>4 DEF Queued
  <2>2. shortp_out_mutex # p
    BY <2>1 DEF ShortInv, Holders, WriteStates
  <2>3. Used(shortp_out) \in PageSize - SP_MIN_SPACE .. PageSize - 1
    BY <2>1 DEF Sleepers, Asleep
  <2> QED BY <2>2, <2>3
<1> QED BY <1>2, <1>3, <1>4 DEF Sleepers, Asleep

(* A writer goes to sleep when the buffer is full. *)
LEMMA WaitsAsleep ==
  ASSUME ShortInv, Sleepers, NEW p \in Procs, WriteWaits(p)
  PROVE  Sleepers'
<1>1. /\ shortp_out_queue' = shortp_out_queue \cup {p} /\ Space(p) = 0
      /\ UNCHANGED <<shortp_out, shortp_output_active, shortp_empty_queue>>
      /\ pc[p] \in WriteStates \ {"write_start"}
      /\ \E l \in {"write_test", "write_sleep"} : Goto(p, l)
  BY DEF WriteWaits, WriteUnchanged, output, WriteStates
<1>2. /\ pc'[p] \in {"write_test", "write_sleep"}
      /\ \A q \in Procs \ {p} : pc'[q] = pc[q]
  BY <1>1 DEF ShortInv, Types, Goto
<1>3. call[p] \in Calls /\ call[p].data # <<>>
  BY <1>1, WriterIs
<1>4. shortp_out \in Buffers
  BY DEF ShortInv, Types
<1>5. Used(shortp_out) \in PageSize - SP_MIN_SPACE .. PageSize - 1
  <2>1. Len(call[p].data) # 0
    BY <1>3, EmptySeq DEF Calls
  <2>2. shortp_out_space(shortp_out) = 0
    BY <1>1, <1>3, <2>1, SpaceOf
  <2>3. Used(shortp_out) = PageSize - 1
    BY <1>4, <2>2, SpaceIs
  <2> QED BY <2>3, MinSpace, PageSizeAssumption
<1>6. Queued'
  BY <1>1 DEF Sleepers, Queued
<1>7. Asleep'
  BY <1>1, <1>5 DEF Asleep
<1>8. Awaited'
  BY <1>1, <1>2 DEF Sleepers, Queued, Awaited
<1> QED BY <1>6, <1>7, <1>8 DEF Sleepers

(* A byte printed wakes the writers as soon as more than SP_MIN_SPACE is   *)
(* free; until then the buffer stays so full.                              *)
LEMMA PrintsAsleep ==
  ASSUME ShortInv, Sleepers, WorkPrints
  PROVE  Sleepers'
<1>1. /\ shortp_out \in Buffers /\ shortp_out.head # shortp_out.tail
      /\ shortp_out' = Printed(shortp_out)
      /\ UNCHANGED <<pc, shortp_output_active, shortp_empty_queue>>
      /\ shortp_out_queue' = IF Roomy(shortp_out') THEN {} ELSE shortp_out_queue
  BY DEF WorkPrints, WakeWriters, procs, ShortInv, Types
<1>2. shortp_out' \in Buffers /\ Used(shortp_out') = Used(shortp_out) - 1
  BY <1>1, TailMoves
<1>3. ASSUME NEW q \in shortp_out_queue', pc'[q] = "write_sleep"
      PROVE  Used(shortp_out') \in PageSize - SP_MIN_SPACE .. PageSize - 1
  <2>1. q \in shortp_out_queue /\ pc[q] = "write_sleep" /\ ~ Roomy(shortp_out')
    BY <1>1, <1>3
  <2>2. Used(shortp_out) \in PageSize - SP_MIN_SPACE .. PageSize - 1
    BY <2>1 DEF Sleepers, Asleep
  <2>3. Used(shortp_out') = 0 \/ ~ (PageSize - Used(shortp_out') > SP_MIN_SPACE)
    BY <1>2, <2>1, RoomyIs
  <2>4. PICK m \in Nat : m = SP_MIN_SPACE /\ 1 <= m /\ m < PageSize - 1
    BY MinSpace
  <2>5. PICK u \in Nat, v \in Nat : u = Used(shortp_out) /\ v = Used(shortp_out')
    BY <1>1, <1>2, SpaceIs
  <2> QED BY <1>2, <2>2, <2>3, <2>4, <2>5, PageSizeAssumption
<1>4. Queued' /\ Awaited'
  BY <1>1 DEF Sleepers, Queued, Awaited
<1> QED BY <1>3, <1>4 DEF Sleepers, Asleep

(* Each step keeps the sleepers. *)
LEMMA SleepersStep ==
  ShortInv /\ Sleepers /\ [Next]_vars => Sleepers'
<1> SUFFICES ASSUME ShortInv, Sleepers, [Next]_vars PROVE Sleepers'
  OBVIOUS
<1>1. CASE UNCHANGED vars
  BY <1>1 DEF vars, Sleepers, Queued, Asleep, Awaited
<1>2. CASE shortp_init
  <2>1. \A p \in Procs : pc'[p] = "closed"
    BY <1>2 DEF shortp_init, ShortInv, Holders
  <2>2. Queued'
    BY <1>2 DEF shortp_init, queues, Sleepers, Queued
  <2> QED BY <2>1, <2>2 DEF Sleepers, Queued, Asleep, Awaited
<1>3. CASE FreeIrq \/ DelTimer \/ FlushWork \/ Printer \/ Timeout
             \/ WorkBegin \/ WorkRecords
  <2>1. UNCHANGED <<shortp_out, shortp_output_active, pc, shortp_out_queue,
                    shortp_empty_queue>>
    BY <1>3 DEF FreeIrq, DelTimer, FlushWork, Printer, PrinterReady, PrinterInterrupts,
         InterruptMissed, PrinterUnchanged, Timeout,
       TimerExpires, TimeoutTest, TimeoutReset, TimeoutDropped, WorkBegin,
       WorkRecords, TimeoutUnchanged, output, writers, procs
  <2> QED BY <2>1 DEF Sleepers, Queued, Asleep, Awaited
<1>4. CASE WorkEmpty
  BY <1>4 DEF WorkEmpty, writers, procs, Sleepers, Queued, Asleep, Awaited
<1>5. CASE WorkPrints
  BY <1>5, PrintsAsleep
<1>6. ASSUME NEW p \in Procs, WriteWaits(p) PROVE Sleepers'
  BY <1>6, WaitsAsleep
<1>7. ASSUME NEW p \in Procs, ReleaseTest(p) PROVE Sleepers'
  <2>1. CASE shortp_output_active
    <3>1. /\ UNCHANGED <<shortp_out, shortp_output_active, shortp_out_queue,
                         shortp_empty_queue>>
          /\ Goto(p, "release_sleep")
      BY <1>7, <2>1 DEF ReleaseTest, output, writers
    <3>2. \A q \in Procs : pc'[q] = "write_sleep" => pc[q] = "write_sleep"
      BY <3>1 DEF Goto, ShortInv, Types
    <3>3. Queued' /\ Awaited' /\ Asleep'
      BY <2>1, <3>1, <3>2 DEF Sleepers, Queued, Awaited, Asleep
    <3> QED BY <3>3 DEF Sleepers
  <2>2. CASE ~ shortp_output_active
    <3>1. /\ UNCHANGED <<shortp_out, shortp_output_active, shortp_out_queue>>
          /\ shortp_empty_queue' = shortp_empty_queue \ {p}
          /\ Goto(p, "closed") /\ "closed" \in Places
      BY <1>7, <2>2 DEF ReleaseTest, output, writers, Places
    <3> QED BY <3>1, NobodySleeps
  <2> QED BY <2>1, <2>2
<1>8. ASSUME NEW p \in Procs,
             shortp_open(p) \/ ReleasePrepare(p) \/ ReleaseWakes(p)
      PROVE  Sleepers'
  <2>1. PICK l \in Places \ {"write_sleep", "release_sleep"} : Goto(p, l)
    BY <1>8 DEF shortp_open, ReleasePrepare, ReleaseWakes, Places,
       ReleaseStates, WriteStates
  <2>2. /\ UNCHANGED <<shortp_out, shortp_output_active, shortp_out_queue>>
        /\ shortp_empty_queue' \subseteq shortp_empty_queue \cup {p}
    BY <1>8 DEF shortp_open, ReleasePrepare, ReleaseWakes, output, writers
  <2> QED BY <2>1, <2>2, NobodySleeps
<1>9. ASSUME NEW p \in Procs, WriteCopy(p) PROVE Sleepers'
  <2>1. shortp_out_mutex = p
    BY <1>9, WriterIs DEF WriteCopy, WriteStates
  <2>2. /\ UNCHANGED <<shortp_output_active, shortp_out_queue, shortp_empty_queue>>
        /\ Goto(p, "write_start") /\ "write_start" \in Places
    BY <1>9 DEF WriteCopy, writers, WriteUnchanged, Places, WriteStates
  <2> QED BY <2>1, <2>2, NobodySleeps
<1>10. ASSUME NEW p \in Procs,
              WriteLock(p) \/ WriteEnds(p) \/ WriteFits(p) \/ WriteWoken(p)
       PROVE  Sleepers'
  <2>1. PICK l \in Places \ {"write_sleep", "release_sleep"} : Goto(p, l)
    BY <1>10 DEF WriteLock, WriteEnds, WriteFits, WriteWoken, Leave, Places,
       ReleaseStates, WriteStates
  <2>2. /\ UNCHANGED <<shortp_out, shortp_output_active, shortp_empty_queue>>
        /\ shortp_out_queue' \subseteq shortp_out_queue \cup {p}
    BY <1>10 DEF WriteLock, WriteEnds, WriteFits, WriteWoken, output,
       WriteUnchanged
  <2> QED BY <2>1, <2>2, NobodySleeps
<1>11. ASSUME NEW p \in Procs, WriteStart(p) PROVE Sleepers'
  <2>1. PICK l \in Places \ {"write_sleep", "release_sleep"} : Goto(p, l)
    BY <1>11 DEF WriteStart, Leave, Places, ReleaseStates, WriteStates
  <2>2. /\ UNCHANGED <<shortp_out, shortp_out_queue, shortp_empty_queue>>
        /\ shortp_output_active => shortp_output_active'
    BY <1>11 DEF WriteStart, Starts, WriteUnchanged
  <2> QED BY <2>1, <2>2, NobodySleeps
<1> QED BY <1>1, <1>2, <1>3, <1>4, <1>5, <1>6, <1>7, <1>8, <1>9, <1>10, <1>11
        DEF Next, Work, WriteStep

(* A writer asleep in the queue of shortp_out_queue faces a buffer that is *)
(* more than half full and is printed; a release asleep in that of         *)
(* shortp_empty_queue waits for output that is active: shortp_do_write and *)
(* shortp_do_work wake everybody in time.                                  *)
THEOREM SleepersCorrect == Spec => []SleepersWoken
<1>1. Init => Sleepers
  BY DEF Init, Sleepers, Queued, Asleep, Awaited
<1>2. ShortInv /\ OutputStarted /\ Sleepers => SleepersWoken
  <2> SUFFICES ASSUME ShortInv, OutputStarted, Sleepers PROVE SleepersWoken
    OBVIOUS
  <2>1. ASSUME NEW p \in shortp_out_queue, pc[p] = "write_sleep"
        PROVE  /\ shortp_output_active /\ ~ Roomy(shortp_out)
               /\ shortp_out.head # shortp_out.tail
    <3>1. shortp_out \in Buffers /\ p \in Procs
      BY DEF ShortInv, Types, Sleepers, Queued
    <3>2. PICK u \in Nat, m \in Nat :
            u = Used(shortp_out) /\ m = SP_MIN_SPACE /\ m < PageSize - 1
      BY <3>1, SpaceIs, MinSpace
    <3>3. u >= PageSize - m
      BY <2>1, <3>2, PageSizeAssumption DEF Sleepers, Asleep
    <3>4. u # 0 /\ ~ (PageSize - u > m)
      BY <3>2, <3>3, PageSizeAssumption
    <3>5. ~ Roomy(shortp_out) /\ shortp_out.head # shortp_out.tail
      BY <3>1, <3>2, <3>4, RoomyIs, SpaceIs
    <3>6. \A q \in Procs : pc[q] # "write_start"
      BY <2>1, <3>1 DEF ShortInv, Holders, WriteStates
    <3> QED BY <3>5, <3>6 DEF OutputStarted
  <2> QED BY <2>1 DEF SleepersWoken, Sleepers, Awaited
<1> QED BY <1>1, <1>2, SleepersStep, OutputInvariant, PTL DEF Spec

-----------------------------------------------------------------------------
(***************************************************************************)
(* The queue of bytes.                                                     *)
(***************************************************************************)
LEMMA ShownIs ==
  ASSUME NEW out \in Buffers
  PROVE  LET n == (out.head - out.tail + PageSize) % PageSize
         IN  [i \in 1 .. n |-> out.page[(out.tail + i - 1) % PageSize]]
               = Shown(out)
<1>1. PICK h \in Nat, t \in Nat :
        h = out.head /\ t = out.tail /\ h < PageSize /\ t < PageSize
  BY PageSizeAssumption DEF Buffers, Indices
<1>2. PICK m \in Nat : m = h - t + PageSize /\ m < PageSize + PageSize
  BY <1>1, PageSizeAssumption
<1>3. m % PageSize = Wrap(m)
  BY <1>2, WrapIs
<1>4. Wrap(m) = Used(out)
  BY <1>1, <1>2, PageSizeAssumption DEF Wrap, Used
<1>5. PICK u \in Nat : u = Used(out) /\ u < PageSize
  BY SpaceIs, PageSizeAssumption
<1>6. \A i \in 1 .. u : (t + i - 1) % PageSize = Wrap(t + i - 1)
  <2> TAKE i \in 1 .. u
  <2>1. PICK k \in Nat : k = t + i - 1 /\ k < PageSize + PageSize
    BY <1>1, <1>5, PageSizeAssumption
  <2> QED BY <2>1, WrapIs
<1>7. (out.head - out.tail + PageSize) % PageSize = u
  BY <1>1, <1>2, <1>3, <1>4, <1>5
<1> QED BY <1>1, <1>5, <1>6, <1>7 DEF Shown

(* What the refinement calls the content is what is shown. *)
LEMMA ContentIs ==
  ASSUME shortp_out \in Buffers
  PROVE  Content = Shown(shortp_out)
BY ShownIs DEF Content

(* The same after a step. *)
LEMMA ContentAfter ==
  ASSUME shortp_out' \in Buffers
  PROVE  Content' = Shown(shortp_out')
BY ShownIs DEF Content

(* The places where u bytes are used from t on, and the next n, which are  *)
(* those from h on.                                                        *)
LEMMA CopyPlaces ==
  ASSUME NEW h \in Nat, NEW t \in Nat, NEW u \in Nat, NEW n \in Nat,
         h < PageSize, t < PageSize, n >= 1, u + n <= PageSize - 1,
         h + n <= PageSize, u = IF h >= t THEN h - t ELSE h - t + PageSize,
         NEW i \in 1 .. u + n
  PROVE  /\ Wrap(t + i - 1) \in Indices
         /\ i <= u => Wrap(t + i - 1) \notin h .. h + n - 1
         /\ i > u => /\ Wrap(t + i - 1) \in h .. h + n - 1
                     /\ Wrap(t + i - 1) - h + 1 = i - u
BY PageSizeAssumption DEF Wrap, Indices

(* The n bytes of a piece are copied to the head, the others stay. *)
Copied(out, n, piece, out2) ==
  \A i \in Indices :
    out2.page[i] = IF i \in out.head .. out.head + n - 1
                     THEN piece[i - out.head + 1] ELSE out.page[i]

(* A copy puts the piece at the end. *)
LEMMA CopyAppends ==
  ASSUME NEW out \in Buffers, NEW out2 \in Buffers,
         NEW n \in 1 .. shortp_out_space(out), NEW piece \in [1 .. n -> WrittenBytes],
         Shown(out) \in [1 .. Used(out) -> WrittenBytes],
         out2.tail = out.tail, out2.head = incr_out_bp(out.head, n),
         Copied(out, n, piece, out2)
  PROVE  /\ Shown(out2) \in [1 .. Used(out2) -> WrittenBytes]
         /\ Shown(out2) = Shown(out) \o piece
<1>1. PICK h \in Nat, t \in Nat :
        h = out.head /\ t = out.tail /\ h < PageSize /\ t < PageSize
  BY PageSizeAssumption DEF Buffers, Indices
<1>2. PICK u \in Nat : u = Used(out)
  BY SpaceIs
<1>3. /\ n \in Nat /\ n >= 1 /\ u + n <= PageSize - 1 /\ h + n <= PageSize
      /\ u = IF h >= t THEN h - t ELSE h - t + PageSize
  <2>1. PICK m \in Nat : /\ m = shortp_out_space(out) /\ h + m <= PageSize
                         /\ u + m <= PageSize - 1
    BY <1>1, <1>2, SpaceIs
  <2>2. n \in 1 .. m
    BY <2>1
  <2> QED BY <1>1, <1>2, <2>1, <2>2, PageSizeAssumption, SMTT(30) DEF Used
<1>4. Used(out2) = u + n
  BY <1>2, HeadMoves
<1>5. \A i \in 1 .. u + n :
        /\ Wrap(t + i - 1) \in Indices
        /\ i <= u => Wrap(t + i - 1) \notin h .. h + n - 1
        /\ i > u => /\ Wrap(t + i - 1) \in h .. h + n - 1
                    /\ Wrap(t + i - 1) - h + 1 = i - u
  <2> TAKE i \in 1 .. u + n
  <2> QED BY <1>1, <1>2, <1>3, CopyPlaces, ZenonT(90)
<1> DEFINE f == Shown(out2)
           g == Shown(out)
<1>6. /\ f = [i \in 1 .. u + n |-> out2.page[Wrap(t + i - 1)]]
      /\ g = [i \in 1 .. u |-> out.page[Wrap(t + i - 1)]]
      /\ g \in [1 .. u -> WrittenBytes]
  BY <1>1, <1>2, <1>4 DEF Shown
<1> HIDE DEF f, g
<1>7. \A i \in 1 .. u : i \in 1 .. u + n /\ i <= u
  BY <1>3
<1>8. \A i \in 1 .. u : g[i] = f[i]
  BY <1>1, <1>5, <1>6, <1>7 DEF Copied
<1>9. \A i \in 1 .. n : u + i \in 1 .. u + n /\ u + i > u /\ u + i - u = i
  BY <1>3
<1>10. \A i \in 1 .. n : piece[i] = f[u + i]
  <2> TAKE i \in 1 .. n
  <2>1. PICK k \in 1 .. u + n : k = u + i /\ k > u /\ k - u = i
    BY <1>9
  <2>2. PICK j \in Indices : j = Wrap(t + k - 1) /\ j \in h .. h + n - 1
                             /\ j - h + 1 = i
    BY <1>5, <2>1
  <2>3. out2.page[j] = piece[i]
    BY <1>1, <2>2 DEF Copied
  <2> QED BY <1>6, <2>1, <2>2, <2>3
<1>11. f \in [1 .. u + n -> WrittenBytes]
  <2>1. \A i \in 1 .. u + n : f[i] \in WrittenBytes
    <3> TAKE i \in 1 .. u + n
    <3>1. CASE i <= u
      <4>1. i \in 1 .. u
        BY <1>2, <3>1
      <4> QED BY <1>6, <1>8, <4>1
    <3>2. CASE ~ (i <= u)
      <4>1. i - u \in 1 .. n /\ i = u + (i - u)
        BY <1>2, <1>3, <3>2
      <4> QED BY <1>10, <4>1
    <3> QED BY <3>1, <3>2
  <2> QED BY <1>6, <2>1
<1>12. f = g \o piece
  <2>1. PICK m \in Nat : m = u + n
    BY <1>2, <1>3
  <2>2. f \in [1 .. m -> WrittenBytes] /\ g \in [1 .. u -> WrittenBytes]
    BY <1>6, <1>11, <2>1
  <2>3. /\ f \in Seq(WrittenBytes) /\ Len(f) = m
        /\ g \in Seq(WrittenBytes) /\ Len(g) = u
        /\ piece \in Seq(WrittenBytes) /\ Len(piece) = n
    BY <1>2, <1>3, <2>1, <2>2, FunctionIsSeq
  <2>4. /\ Len(f) = Len(g) + Len(piece)
        /\ \A i \in 1 .. Len(g) : g[i] = f[i]
        /\ \A i \in 1 .. Len(piece) : piece[i] = f[Len(g) + i]
    BY <1>8, <1>10, <2>1, <2>3
  <2> QED BY <2>3, <2>4, JoinParts, Zenon
<1> QED BY <1>4, <1>11, <1>12 DEF f, g

(* Printing takes the first byte away. *)
LEMMA PrintTakes ==
  ASSUME NEW out \in Buffers, out.head # out.tail,
         Shown(out) \in [1 .. Used(out) -> WrittenBytes],
         NEW out2, out2 = Printed(out)
  PROVE  /\ Shown(out2) \in [1 .. Used(out2) -> WrittenBytes]
         /\ out.page[out.tail] \in WrittenBytes
         /\ Shown(out) = <<out.page[out.tail]>> \o Shown(out2)
<1>1. PICK t \in Nat : t = out.tail /\ t < PageSize
  BY PageSizeAssumption DEF Buffers, Indices
<1>2. /\ out2 \in Buffers
      /\ \A i \in Indices \ {t} : out2.page[i] = out.page[i]
      /\ out2.tail = Wrap(t + 1) /\ Used(out2) = Used(out) - 1
  BY <1>1, TailMoves
<1>3. PICK k \in Nat : Used(out2) = k /\ Used(out) = 1 + k /\ k < PageSize - 1
  BY <1>2, SpaceIs, PageSizeAssumption
<1> DEFINE f == Shown(out)
           g == <<out.page[t]>>
           h == Shown(out2)
<1>4. /\ f = [i \in 1 .. 1 + k |-> out.page[Wrap(t + i - 1)]]
      /\ h = [i \in 1 .. k |-> out2.page[Wrap(Wrap(t + 1) + i - 1)]]
      /\ f \in [1 .. 1 + k -> WrittenBytes]
  BY <1>1, <1>2, <1>3 DEF Shown
<1>5. Wrap(t + 1 - 1) = t
  BY <1>1, PageSizeAssumption DEF Wrap
<1>6. \A i \in 1 .. k : /\ 1 + i \in 1 .. 1 + k
                        /\ Wrap(Wrap(t + 1) + i - 1) = Wrap(t + (1 + i) - 1)
                        /\ Wrap(t + (1 + i) - 1) \in Indices \ {t}
  <2> SUFFICES ASSUME NEW i \in 1 .. k
               PROVE  /\ 1 + i \in 1 .. 1 + k
                      /\ Wrap(Wrap(t + 1) + i - 1) = Wrap(t + (1 + i) - 1)
                      /\ Wrap(t + (1 + i) - 1) \in Indices \ {t}
    OBVIOUS
  <2>1. PICK n \in Nat : n = PageSize /\ t < n /\ i < n - 1 /\ 2 < n
    BY <1>1, <1>3, PageSizeAssumption
  <2>2. i \in Nat /\ 1 <= i /\ 1 + i \in 1 .. 1 + k
    BY <1>3
  <2>3. Wrap(t + (1 + i) - 1) = IF t + i < n THEN t + i ELSE t + i - n
    BY <1>1, <2>1, <2>2, SMTT(30) DEF Wrap
  <2>4. Wrap(Wrap(t + 1) + i - 1) = Wrap(t + (1 + i) - 1)
    BY <1>1, <1>3, PageSizeAssumption, SMTT(30) DEF Wrap
  <2>5. Wrap(t + (1 + i) - 1) \in Indices \ {t}
    BY <1>1, <2>1, <2>2, <2>3 DEF Indices
  <2> QED BY <2>2, <2>4, <2>5
<1> HIDE DEF f, h
<1>7. 1 \in 1 .. 1 + k /\ f[1] = out.page[t]
  BY <1>3, <1>4, <1>5
<1>8. g \in [1 .. 1 -> WrittenBytes] /\ \A i \in 1 .. 1 : g[i] = f[i]
  <2>1. out.page[t] \in WrittenBytes
    BY <1>4, <1>7
  <2> QED BY <1>7, <2>1
<1>9. \A i \in 1 .. k : h[i] = f[1 + i]
  BY <1>2, <1>4, <1>6
<1>10. h \in [1 .. k -> WrittenBytes]
  BY <1>4, <1>6, <1>9
<1> HIDE DEF g
<1>11. f = g \o h
  <2>1. PICK m \in Nat, e \in Nat : m = 1 + k /\ e = 1
    BY <1>3
  <2>2. /\ f \in [1 .. m -> WrittenBytes] /\ g \in [1 .. e -> WrittenBytes]
        /\ m = e + k
        /\ \A i \in 1 .. e : g[i] = f[i]
        /\ \A i \in 1 .. k : h[i] = f[e + i]
    BY <1>4, <1>8, <1>9, <2>1
  <2>3. /\ f \in Seq(WrittenBytes) /\ Len(f) = m
        /\ g \in Seq(WrittenBytes) /\ Len(g) = e
        /\ h \in Seq(WrittenBytes) /\ Len(h) = k
    <3>0. /\ m \in Nat /\ f \in [1 .. m -> WrittenBytes]
          /\ e \in Nat /\ g \in [1 .. e -> WrittenBytes]
      BY <2>1, <2>2
    <3>1. f \in Seq(WrittenBytes) /\ Len(f) = m
      BY <3>0, FunctionIsSeq, Zenon
    <3>2. g \in Seq(WrittenBytes) /\ Len(g) = e
      BY <3>0, FunctionIsSeq, Zenon
    <3>3. h \in Seq(WrittenBytes) /\ Len(h) = k
      BY <1>3, <1>10, FunctionIsSeq, Zenon
    <3> QED BY <3>1, <3>2, <3>3
  <2>4. /\ Len(f) = Len(g) + Len(h)
        /\ \A i \in 1 .. Len(g) : g[i] = f[i]
        /\ \A i \in 1 .. Len(h) : h[i] = f[Len(g) + i]
    BY <2>2, <2>3
  <2> QED BY <2>3, <2>4, JoinParts, Zenon
<1>12. out.page[t] \in WrittenBytes
  BY <1>4, <1>7
<1> QED BY <1>1, <1>3, <1>10, <1>11, <1>12 DEF f, g, h

(* The printed byte is shown between the two parts of the work item only.  *)
LEMMA StrobesStep == ShortInv /\ Strobes /\ [Next]_vars => Strobes'
<1> SUFFICES ASSUME ShortInv, Strobes, [Next]_vars PROVE Strobes'
  OBVIOUS
<1>1. CASE UNCHANGED vars
  BY <1>1 DEF vars, Strobes
<1>2. CASE shortp_init \/ FreeIrq \/ DelTimer \/ FlushWork
  BY <1>2 DEF shortp_init, FreeIrq, DelTimer, FlushWork, output, Strobes
<1>3. ASSUME UNCHANGED <<module, strobed>>, QueueWork \/ UNCHANGED shortp_work
      PROVE  Strobes'
  <2>1. shortp_work'.pc = shortp_work.pc
    BY <1>3, QueuedIs
  <2> QED BY <1>3, <2>1 DEF Strobes
<1>4. CASE Printer
  BY <1>3, <1>4 DEF Printer, PrinterReady, PrinterInterrupts,
         InterruptMissed, PrinterUnchanged, shortp_interrupt
<1>5. CASE Timeout
  BY <1>3, <1>5 DEF Timeout, TimerExpires, TimeoutTest, TimeoutReset,
     TimeoutDropped, TimeoutUnchanged, shortp_interrupt
<1>6. CASE module # "unloaded" /\ Work
  BY <1>6 DEF Work, WorkBegin, WorkEmpty, WorkPrints, WorkRecords, Strobes,
     ShortInv, Types
<1>7. ASSUME NEW p \in Procs,
             \/ shortp_open(p)
             \/ ReleasePrepare(p) \/ ReleaseTest(p) \/ ReleaseWakes(p)
             \/ WriteLock(p) \/ WriteEnds(p) \/ WriteStep(p)
      PROVE  Strobes'
  <2>1. UNCHANGED <<module, strobed>> /\ (QueueWork \/ UNCHANGED shortp_work)
    BY <1>7 DEF shortp_open, ReleasePrepare, ReleaseTest, ReleaseWakes,
       WriteLock, WriteEnds, WriteStep, WriteFits, WriteWaits, WriteWoken,
       WriteCopy, WriteStart, WriteUnchanged, output
  <2> QED BY <1>3, <2>1
<1> QED BY <1>1, <1>2, <1>4, <1>5, <1>6, <1>7 DEF Next

(* What one process, or the printer, is to be told. *)
ReplyOf(p) ==
  IF p = "printer" THEN IF strobed = <<>> THEN <<>> ELSE <<"read", strobed>>
  ELSE IF pc[p] = "write_start" THEN <<"write", call[p].piece>> ELSE <<>>

(* What the refinement calls the replies is what each is to be told. *)
LEMMA RepliedIs ==
  /\ Replied = [p \in Procs \cup {"printer"} |-> ReplyOf(p)]
  /\ Replied' = [p \in Procs \cup {"printer"} |-> ReplyOf(p)']
BY DEF Replied, ReplyOf

(* Nobody is to be told anything new. *)
LEMMA SameReplies ==
  ASSUME \A p \in Procs \cup {"printer"} : ReplyOf(p)' = ReplyOf(p)
  PROVE  Replied' = Replied
BY RepliedIs

(* One is to be told something new. *)
LEMMA Answers ==
  ASSUME NEW p \in Procs \cup {"printer"}, NEW r, ReplyOf(p)' = r,
         \A q \in (Procs \cup {"printer"}) \ {p} : ReplyOf(q)' = ReplyOf(q)
  PROVE  Queue!Answer(p, r)
<1>1. [p2 \in Procs \cup {"printer"} |-> ReplyOf(p2)']
        = [[p2 \in Procs \cup {"printer"} |-> ReplyOf(p2)] EXCEPT ![p] = r]
  OBVIOUS
<1> QED BY <1>1, RepliedIs DEF Queue!Answer

(* A step that leaves the buffer alone leaves the queue alone. *)
LEMMA SameContent ==
  ASSUME UNCHANGED shortp_out
  PROVE  Content' = Content
BY DEF Content

(* A page of which all is printed holds nothing. *)
LEMMA NothingShown == EmptyPage \in Buffers /\ Shown(EmptyPage) = <<>>
<1>1. EmptyPage \in Buffers
  BY PageSizeAssumption DEF EmptyPage, Buffers, Indices
<1>2. Used(EmptyPage) = 0
  BY DEF EmptyPage, Used
<1> QED BY <1>1, <1>2 DEF Shown

(* A step of p that neither comes to write_start nor leaves it: nothing is *)
(* to be told that was not before.                                         *)
LEMMA QuietReplies ==
  ASSUME ShortInv, NEW p \in Procs, NEW l \in Places, Goto(p, l),
         pc[p] # "write_start", l # "write_start", UNCHANGED strobed,
         call' = call \/ \E c : call' = [call EXCEPT ![p] = c]
  PROVE  Replied' = Replied
<1>1. /\ pc'[p] = l
      /\ \A q \in Procs \ {p} : pc'[q] = pc[q] /\ call'[q] = call[q]
  BY DEF ShortInv, Types, Goto
<1>2. \A q \in Procs \cup {"printer"} : ReplyOf(q)' = ReplyOf(q)
  BY <1>1, PrinterAssumption DEF ReplyOf
<1> QED BY <1>2, SameReplies

(* A copy is the write, a start its return, a byte printed is read by the  *)
(* printer, and loading the module discards what is left.                  *)
LEMMA CopyWrites ==
  ASSUME ShortInv, ShortInv', Stored, NEW p \in Procs, WriteCopy(p)
  PROVE  Queue!Next /\ Stored'
<1>1. /\ shortp_out \in Buffers /\ shortp_out' \in Buffers
      /\ shortp_out'.tail = shortp_out.tail
      /\ shortp_out'.head = incr_out_bp(shortp_out.head, Len(call[p].piece))
  BY CopyIs DEF ShortInv, Types
<1>2. PICK n \in 1 .. shortp_out_space(shortp_out) : n = Len(call[p].piece)
  BY CopyIs
<1>3. call[p] \in Calls /\ pc[p] = "write_copy"
  BY WriterIs DEF WriteCopy, WriteStates
<1>4. call[p].piece \in [1 .. n -> WrittenBytes]
  <2>1. call[p].piece \in Seq(WrittenBytes)
    BY <1>3 DEF Calls
  <2> QED BY <1>2, <2>1, LenProperties
<1>5. Copied(shortp_out, n, call[p].piece, shortp_out')
  BY <1>2, CopyIs DEF Copied
<1>6. /\ Shown(shortp_out') \in [1 .. Used(shortp_out') -> WrittenBytes]
      /\ Shown(shortp_out') = Shown(shortp_out) \o call[p].piece
  BY <1>1, <1>2, <1>4, <1>5, CopyAppends DEF Stored
<1>7. Content' = Content \o call[p].piece
  BY <1>1, <1>6, ContentIs, ContentAfter
<1>8. call[p].piece \in Transfers
  <2>1. n \in 1 .. PageSize - 1
    <3>1. PICK k \in Nat, u \in Nat : k = shortp_out_space(shortp_out)
                                    /\ u + k <= PageSize - 1
      BY <1>1, SpaceIs
    <3> QED BY <1>2, <3>1, PageSizeAssumption
  <2> QED BY <1>4, <2>1 DEF Transfers
<1>9. /\ pc' = [pc EXCEPT ![p] = "write_start"] /\ strobed' = strobed
      /\ call'[p].piece = call[p].piece
      /\ \A q \in Procs \ {p} : call'[q] = call[q]
  BY <1>3 DEF WriteCopy, Goto, ShortInv, Types, Calls
<1>10. /\ ReplyOf(p)' = <<"write", call[p].piece>>
       /\ \A q \in (Procs \cup {"printer"}) \ {p} : ReplyOf(q)' = ReplyOf(q)
  BY <1>9, PrinterAssumption DEF ReplyOf, ShortInv, Types
<1>11. Queue!Write(p, call[p].piece)
  BY <1>7, <1>10, Answers DEF Queue!Write
<1>12. Stored'
  BY <1>6 DEF Stored
<1> QED BY <1>8, <1>11, <1>12 DEF Queue!Next

(* The step that may start output is the return of the write. *)
LEMMA StartReturns ==
  ASSUME ShortInv, Stored, NEW p \in Procs, WriteStart(p)
  PROVE  Queue!Next /\ Stored'
<1>1. /\ pc[p] = "write_start" /\ UNCHANGED <<shortp_out, strobed>>
      /\ \E l \in {"user", "write_space"} : Goto(p, l)
      /\ call' = call \/ call' = [call EXCEPT ![p] = NoCall]
  BY DEF WriteStart, Leave
<1>2. /\ pc'[p] # "write_start"
      /\ \A q \in Procs \ {p} : pc'[q] = pc[q] /\ call'[q] = call[q]
  BY <1>1 DEF Goto, ShortInv, Types
<1>3. /\ ReplyOf(p)' = <<>>
      /\ \A q \in (Procs \cup {"printer"}) \ {p} : ReplyOf(q)' = ReplyOf(q)
  BY <1>1, <1>2, PrinterAssumption DEF ReplyOf
<1>4. Replied[p] # <<>>
  BY <1>1, RepliedIs, PrinterAssumption DEF ReplyOf
<1>5. Queue!Return(p)
  BY <1>1, <1>3, <1>4, Answers, SameContent DEF Queue!Return
<1> QED BY <1>1, <1>5 DEF Queue!Next, Stored

(* The step that prints a byte is a read by the printer. *)
LEMMA PrintsReads ==
  ASSUME ShortInv, Stored, WorkPrints
  PROVE  Queue!Next /\ Stored'
<1> DEFINE b == shortp_out.page[shortp_out.tail]
<1>1. /\ shortp_out \in Buffers /\ shortp_out.head # shortp_out.tail
      /\ shortp_out' = Printed(shortp_out)
      /\ strobed' = <<b>> /\ UNCHANGED <<pc, call>>
  BY DEF WorkPrints, procs, ShortInv, Types
<1>2. /\ Shown(shortp_out') \in [1 .. Used(shortp_out') -> WrittenBytes]
      /\ b \in WrittenBytes
      /\ Shown(shortp_out) = <<b>> \o Shown(shortp_out')
  BY <1>1, PrintTakes DEF Stored
<1>3. shortp_out' \in Buffers
  BY <1>1, TailMoves
<1> HIDE DEF b
<1>4. Content = <<b>> \o Content'
  BY <1>1, <1>2, <1>3, ContentIs, ContentAfter
<1>5. <<b>> \in Transfers
  <2>1. <<b>> \in [1 .. 1 -> WrittenBytes] /\ 1 \in 1 .. PageSize - 1
    BY <1>2, PageSizeAssumption
  <2> QED BY <2>1 DEF Transfers
<1>6. /\ ReplyOf("printer")' = <<"read", <<b>> >>
      /\ \A q \in (Procs \cup {"printer"}) \ {"printer"} : ReplyOf(q)' = ReplyOf(q)
  BY <1>1 DEF ReplyOf
<1>7. Queue!Read("printer", <<b>>)
  BY <1>4, <1>6, Answers DEF Queue!Read
<1> QED BY <1>2, <1>5, <1>7 DEF Queue!Next, Stored

(* The step that records the time is its return, if a byte was printed. *)
LEMMA RecordsReturns ==
  ASSUME Stored, WorkRecords
  PROVE  [Queue!Next]_(Queue!vars) /\ Stored'
<1>1. UNCHANGED <<shortp_out, pc, call>> /\ strobed' = <<>>
  BY DEF WorkRecords, procs
<1>2. /\ ReplyOf("printer")' = <<>>
      /\ \A q \in (Procs \cup {"printer"}) \ {"printer"} : ReplyOf(q)' = ReplyOf(q)
  BY <1>1 DEF ReplyOf
<1>3. CASE strobed = <<>>
  <2>1. ReplyOf("printer")' = ReplyOf("printer")
    BY <1>2, <1>3 DEF ReplyOf
  <2> QED BY <1>1, <1>2, <2>1, SameReplies, SameContent DEF Queue!vars, Stored
<1>4. CASE strobed # <<>>
  <2>1. Replied["printer"] # <<>>
    BY <1>4, RepliedIs DEF ReplyOf
  <2>2. Queue!Return("printer")
    BY <1>1, <1>2, <2>1, Answers, SameContent DEF Queue!Return
  <2> QED BY <1>1, <2>2 DEF Queue!Next, Stored
<1> QED BY <1>3, <1>4

(* Loading the module discards what is in the queue. *)
LEMMA LoadDiscards ==
  ASSUME ShortInv, Strobes, shortp_init
  PROVE  Queue!Next /\ Stored'
<1>1. /\ shortp_out' = EmptyPage /\ UNCHANGED <<pc, call>> /\ strobed' = strobed
  BY DEF shortp_init, Strobes
<1>2. Content' = <<>>
  BY <1>1, NothingShown, ContentAfter
<1>3. \A q \in Procs \cup {"printer"} : ReplyOf(q)' = ReplyOf(q)
  BY <1>1 DEF ReplyOf
<1>4. Queue!Discard
  BY <1>2, <1>3, SameReplies DEF Queue!Discard
<1>5. Used(EmptyPage) = 0
  BY DEF EmptyPage, Used
<1>6. Stored'
  BY <1>1, <1>5, NothingShown DEF Stored
<1> QED BY <1>4, <1>6 DEF Queue!Next

(* Each step of the driver is a step of the queue, or none. *)
LEMMA QueueStep ==
  ShortInv /\ ShortInv' /\ Stored /\ Strobes /\ [Next]_vars
    => [Queue!Next]_(Queue!vars) /\ Stored'
<1> SUFFICES ASSUME ShortInv, ShortInv', Stored, Strobes, [Next]_vars
             PROVE  [Queue!Next]_(Queue!vars) /\ Stored'
  OBVIOUS
<1>1. ASSUME UNCHANGED shortp_out, Replied' = Replied
      PROVE  [Queue!Next]_(Queue!vars) /\ Stored'
  BY <1>1, SameContent DEF Queue!vars, Stored
<1>2. ASSUME UNCHANGED <<shortp_out, strobed, pc, call>>
      PROVE  [Queue!Next]_(Queue!vars) /\ Stored'
  <2>1. \A q \in Procs \cup {"printer"} : ReplyOf(q)' = ReplyOf(q)
    BY <1>2 DEF ReplyOf
  <2> QED BY <1>1, <1>2, <2>1, SameReplies
<1>3. CASE UNCHANGED vars
  BY <1>2, <1>3 DEF vars
<1>4. CASE FreeIrq \/ DelTimer \/ FlushWork \/ Printer \/ Timeout
             \/ WorkBegin \/ WorkEmpty
  <2>1. UNCHANGED <<shortp_out, strobed, pc, call>>
    BY <1>4 DEF FreeIrq, DelTimer, FlushWork, Printer, PrinterReady, PrinterInterrupts,
         InterruptMissed, PrinterUnchanged, Timeout,
       TimerExpires, TimeoutTest, TimeoutReset, TimeoutDropped, WorkBegin,
       WorkEmpty, TimeoutUnchanged, output, procs
  <2> QED BY <1>2, <2>1
<1>5. CASE shortp_init
  BY <1>5, LoadDiscards
<1>6. CASE WorkPrints
  BY <1>6, PrintsReads
<1>7. CASE WorkRecords
  BY <1>7, RecordsReturns
<1>8. ASSUME NEW p \in Procs, WriteCopy(p)
      PROVE  [Queue!Next]_(Queue!vars) /\ Stored'
  BY <1>8, CopyWrites
<1>9. ASSUME NEW p \in Procs, WriteStart(p)
      PROVE  [Queue!Next]_(Queue!vars) /\ Stored'
  BY <1>9, StartReturns
<1>10. ASSUME NEW p \in Procs,
              \/ shortp_open(p)
              \/ ReleasePrepare(p) \/ ReleaseTest(p) \/ ReleaseWakes(p)
              \/ WriteLock(p) \/ WriteEnds(p) \/ WriteFits(p) \/ WriteWaits(p)
              \/ WriteWoken(p)
       PROVE  [Queue!Next]_(Queue!vars) /\ Stored'
  <2>1. /\ UNCHANGED <<shortp_out, strobed>> /\ pc[p] # "write_start"
        /\ \E l \in Places \ {"write_start"} : Goto(p, l)
    BY <1>10 DEF shortp_open, ReleasePrepare, ReleaseTest, ReleaseWakes,
       WriteLock, WriteEnds, WriteFits, WriteWaits, WriteWoken, output, Leave,
       Places, ReleaseStates, WriteStates
  <2>2. call' = call \/ \E c : call' = [call EXCEPT ![p] = c]
    BY <1>10 DEF shortp_open, ReleasePrepare, ReleaseTest, ReleaseWakes,
       WriteLock, WriteEnds, WriteFits, WriteWaits, WriteWoken, Leave
  <2> QED BY <1>1, <2>1, <2>2, QuietReplies
<1> QED BY <1>3, <1>4, <1>5, <1>6, <1>7, <1>8, <1>9, <1>10
        DEF Next, Work, WriteStep

(* The printer prints the bytes that the writes accepted, in that order,   *)
(* each once: for any number of writers, any page and wherever the buffer  *)
(* wraps, shortp_write and shortp_do_write are the two ends of a queue,    *)
(* which only shortp_init empties.                                         *)
THEOREM QueueCorrect == Spec => ImplementsQueue
<1>1. Init => Stored /\ Strobes /\ Queue!Init
  <2> SUFFICES ASSUME Init PROVE Stored /\ Strobes /\ Queue!Init
    OBVIOUS
  <2>1. Used(EmptyPage) = 0 /\ shortp_out = EmptyPage /\ strobed = <<>>
        /\ shortp_work.pc = "idle" /\ \A p \in Procs : pc[p] = "closed"
    BY DEF Init, EmptyPage, Used
  <2>2. Content = <<>> /\ Stored /\ Strobes
    BY <2>1, NothingShown, ContentIs DEF Stored, Strobes
  <2>3. \A p \in Procs \cup {"printer"} : ReplyOf(p) = <<>>
    BY <2>1 DEF ReplyOf
  <2> QED BY <2>2, <2>3, RepliedIs DEF Queue!Init
<1> QED BY <1>1, ShortInit, ShortStep, StrobesStep, QueueStep, PTL
        DEF Spec, ImplementsQueue, Queue!Spec
=============================================================================
