-------------------------- MODULE AesdSocketProofs --------------------------
(***************************************************************************)
(* Proofs about the aesdsocket server for every number of clients, every   *)
(* choice of messages and buffer sizes, and both copies of the server:     *)
(* types and buffer bounds, the mutex, the list of threads and its frees,  *)
(* what the device records, and what the clients are sent back.            *)
(***************************************************************************)
EXTENDS AesdSocket, StreamLemmas

-----------------------------------------------------------------------------
(* The device. *)

(* The last N of a sequence.                                               *)
LEMMA LastNType ==
  ASSUME NEW S, NEW s \in Seq(S)
  PROVE  /\ Dev!LastN(s) \in Seq(S)
         /\ DOMAIN Dev!LastN(s) = 1 .. (IF Len(s) > N THEN N ELSE Len(s))
         /\ \A i \in DOMAIN Dev!LastN(s) :
              LET j == IF Len(s) > N THEN i + (Len(s) - N) ELSE i
              IN  j \in DOMAIN s /\ Dev!LastN(s)[i] = s[j]
<1>1. PICK n \in Nat : n = Len(s) /\ DOMAIN s = 1 .. n
  OBVIOUS
<1>2. N \in Nat /\ N > 0
  BY SizesAssumption
<1>3. CASE n > N
  <2>1. \A i \in n - N + 1 .. n : s[i] \in S
    BY <1>1, <1>2, <1>3
  <2>2. n - N + 1 \in Int /\ n - N + 1 <= n /\ n - (n - N + 1) + 1 = N
    BY <1>2
  <2> DEFINE r == SubSeq(s, n - N + 1, n)
  <2>3. r \in Seq(S) /\ Len(r) = N
    BY <2>1, <2>2, SubSeqProperties
  <2>4. \A i \in 1 .. N : r[i] = s[(n - N + 1) + i - 1]
    BY <2>1, <2>2, SubSeqProperties
  <2>5. \A i \in 1 .. N : /\ i + (n - N) \in 1 .. n
                          /\ (n - N + 1) + i - 1 = i + (n - N)
    BY <1>2, <1>3
  <2>6. Dev!LastN(s) = r
    BY <1>1, <1>3 DEF Dev!LastN
  <2> HIDE DEF r
  <2>7. DOMAIN r = 1 .. N
    BY <2>3
  <2> QED BY <1>1, <1>3, <2>3, <2>4, <2>5, <2>6, <2>7
<1>4. CASE ~ (n > N)
  BY <1>1, <1>4 DEF Dev!LastN
<1> QED BY <1>3, <1>4

(* A write keeps the types of the device's log. *)
LEMMA WriteType ==
  ASSUME TypeOK, NEW c \in Clients, NEW d \in Seq(Bytes), Dev!Write(c, d)
  PROVE  /\ log' \in Seq(Seq(Bytes)) /\ pending' \in Seq(Bytes)
         /\ answer' \in [Clients -> Answers]
<1>1. pending \o d \in Seq(Bytes) /\ Len(d) \in Nat
  BY DEF TypeOK
<1> DEFINE s == Append(log, pending \o d)
<1>2. s \in Seq(Seq(Bytes)) /\ Len(s) \in Nat
  BY <1>1 DEF TypeOK
<1> HIDE DEF s
<1>3. Dev!LastN(s) \in Seq(Seq(Bytes))
  BY <1>2, LastNType
<1>4. answer' \in [Clients -> Answers]
  BY <1>1 DEF TypeOK, Dev!Write, Dev!Answer, Answers
<1>5. pending' \in Seq(Bytes)
  <2>1. pending' = <<>> \/ pending' = pending \o d
    BY DEF Dev!Write
  <2>2. <<>> \in Seq(Bytes)
    OBVIOUS
  <2> QED BY <1>1, <2>1, <2>2
<1>6. log' = log \/ log' = Dev!LastN(s)
  BY DEF Dev!Write, s
<1> QED BY <1>3, <1>4, <1>5, <1>6 DEF TypeOK

(* The device's stream is a sequence of bytes. *)
LEMMA StreamType ==
  ASSUME TypeOK
  PROVE  /\ Dev!Stream = FlattenSeq(log)
         /\ Dev!Stream \in Seq(Bytes) /\ Len(Dev!Stream) \in Nat
<1>1. Dev!Stream = FlattenSeq(log)
  BY DEF Dev!Stream, Dev!FlattenSeq, FlattenSeq
<1>2. Dev!Stream \in Seq(Bytes)
  BY <1>1, FlattenType DEF TypeOK
<1> QED BY <1>1, <1>2

(* Where a seek goes to is a position; for a command and an offset that    *)
(* the log has it is the place of that byte in the stream.                 *)
LEMMA SeekTargetsType ==
  ASSUME TypeOK, NEW cmd \in Nat, NEW off \in Nat
  PROVE  /\ SeekTargets(cmd, off) \subseteq Nat
         /\ cmd < Len(log) /\ off < Len(log[cmd+1])
              => /\ SeekTargets(cmd, off) = {SizeOf(SubSeq(log, 1, cmd)) + off}
                 /\ SizeOf(SubSeq(log, 1, cmd)) + off \in Nat
                 /\ SizeOf(SubSeq(log, 1, cmd)) + off <= Len(Dev!Stream)
<1>1. PICK n \in Nat : n = Len(log) /\ DOMAIN log = 1 .. n /\ log \in Seq(Seq(Bytes))
  BY DEF TypeOK
<1>2. SizeOf(log) = Len(Dev!Stream) /\ SizeOf(log) \in Nat
  BY StreamType DEF SizeOf
<1>3. CASE cmd < n
  <2> DEFINE at == SizeOf(SubSeq(log, 1, cmd))
             len == Len(log[cmd+1])
  <2>1. SeekTargets(cmd, off) = IF off < len THEN {at + off} ELSE {}
    BY <1>1, <1>3 DEF SeekTargets
  <2>2. cmd + 1 \in 1 .. Len(log) /\ (cmd + 1) - 1 = cmd
    BY <1>1, <1>3
  <2>3. at \in Nat /\ at + len <= SizeOf(log)
    BY <1>1, <2>2, FlattenBound DEF SizeOf
  <2>4. len \in Nat
    BY <1>1, <2>2
  <2> HIDE DEF at, len
  <2>5. SeekTargets(cmd, off) \subseteq Nat
    BY <2>1, <2>3
  <2>6. off < len => /\ SeekTargets(cmd, off) = {at + off}
                     /\ at + off \in Nat /\ at + off <= Len(Dev!Stream)
    BY <1>2, <2>1, <2>3, <2>4
  <2> QED BY <2>5, <2>6 DEF at, len
<1>4. CASE ~ (cmd < n)
  <2>1. SeekTargets(cmd, off) \subseteq {SizeOf(log) + off}
    BY <1>1, <1>4 DEF SeekTargets
  <2> QED BY <1>1, <1>2, <1>4, <2>1
<1> QED BY <1>3, <1>4

-----------------------------------------------------------------------------
(* Types and buffers. *)

(***************************************************************************)
(* What full_buf holds while the message is received leaves room for the   *)
(* newline; afterwards it ends with one, if it holds anything.  Only a     *)
(* seek command gets to the ioctl, and only another one to the write.      *)
(***************************************************************************)
Receiving == {"none", "recv", "terminate"}
Ended(m) == m = <<>> \/ m[Len(m)] = Newline

BufferAt(pc, m) ==
  /\ pc = "none" => m = <<>>
  /\ pc \in Receiving => Len(m) < BufSize
  /\ pc \notin Receiving => Ended(m)
  /\ pc = "ioctl" => IsSeek(m)
  /\ pc \in {"write", "reopen"} => ~ IsSeek(m)
  /\ pc = "write" => m # <<>>

BufferInv == \A c \in Clients : BufferAt(thread[c], full_buf[c])

(* What a thread that is about to send has from its read. *)
ReadAnswers == {<<"error">>} \cup ({"read"} \X Nat \X Seq(Bytes))
AnswerInv == \A c \in Clients : thread[c] = "send" => answer[c] \in ReadAnswers

TypeInv ==
  /\ TypeOK
  /\ BufferInv
  /\ AnswerInv
  /\ main.pc = "join" => main.todo # <<>>

(* The initial state has the types. *)
LEMMA TypeInit == Init => TypeInv
<1> SUFFICES ASSUME Init PROVE TypeInv
  OBVIOUS
<1>1. PICK message \in [Clients -> UNION {Messages[c] : c \in Clients}] :
        /\ \A c \in Clients : message[c] \in Messages[c]
        /\ conn = [c \in Clients |->
                     [state |-> "none", message |-> message[c],
                      inbox |-> message[c], here |-> TRUE]]
  BY DEF Init
<1>2. \A c \in Clients : message[c] \in Seq(Bytes)
  BY <1>1, MessagesAssumption
<1>3. conn \in [Clients -> Connections]
  BY <1>1, <1>2 DEF Connections
<1>4. main = [pc |-> "sigaction", cur |-> NoClient, todo |-> <<>>]
      /\ main \in [pc : MainStates, cur : Clients \cup {NoClient}, todo : Seq(Clients)]
  BY DEF Init, MainStates, SettingUp
<1>5. log = <<>> /\ pending = <<>> /\ answer = [p \in Clients |-> <<>>]
  BY DEF Init, Dev!Init
<1>6. TypeOK
  <2>1. /\ caught_sig \in BOOLEAN
        /\ main.cur \in Clients <=> main.pc = "create"
        /\ threads \in Seq(Clients)
        /\ thread \in [Clients -> ThreadStates]
        /\ th_data \in [Clients -> [alloc : BOOLEAN, bThreadCompleted : BOOLEAN]]
        /\ file_mutex \in Clients \cup {NoClient}
    <3>1. /\ caught_sig = FALSE
          /\ threads = <<>>
          /\ thread = [c \in Clients |-> "none"]
          /\ th_data = [c \in Clients |-> NoNode]
          /\ file_mutex = NoClient
      BY DEF Init
    <3> QED BY <1>4, <3>1, NoClientAssumption DEF NoNode, ThreadStates
  <2>2. /\ full_buf \in [Clients -> Seq(Bytes)]
        /\ \A c \in Clients : Len(full_buf[c]) <= BufSize
        /\ fpos \in [Clients -> Nat]
        /\ received \in [Clients -> Seq(Bytes)]
    <3>1. /\ full_buf = [c \in Clients |-> <<>>]
          /\ fpos = [c \in Clients |-> 0]
          /\ received = [c \in Clients |-> <<>>]
      BY DEF Init
    <3>2. Len(<<>>) <= BufSize
      BY SizesAssumption
    <3> QED BY <3>1, <3>2
  <2>3. log \in Seq(Seq(Bytes)) /\ pending \in Seq(Bytes)
        /\ answer \in [Clients -> Answers]
    BY <1>5 DEF Answers
  <2> QED BY <1>3, <1>4, <2>1, <2>2, <2>3 DEF TypeOK
<1>7. BufferInv
  BY SizesAssumption DEF BufferInv, BufferAt, Init, Receiving
<1>8. AnswerInv
  BY DEF AnswerInv, Init
<1> QED BY <1>4, <1>6, <1>7, <1>8 DEF TypeInv

(***************************************************************************)
(* The steps of the main thread, of the clients and of the signal leave    *)
(* the buffers, positions and the device alone.                            *)
(***************************************************************************)
MainTypes ==
  /\ caught_sig \in BOOLEAN
  /\ main \in [pc : MainStates, cur : Clients \cup {NoClient}, todo : Seq(Clients)]
  /\ main.cur \in Clients <=> main.pc = "create"
  /\ main.pc = "join" => main.todo # <<>>
  /\ threads \in Seq(Clients)
  /\ thread \in [Clients -> ThreadStates]
  /\ th_data \in [Clients -> [alloc : BOOLEAN, bThreadCompleted : BOOLEAN]]
  /\ conn \in [Clients -> Connections]

(* A step of the start-up keeps the main thread's types. *)
LEMMA SetUpTypes ==
  ASSUME MainTypes, NEW pc \in SettingUp, NEW next \in SettingUp \cup {"check"},
         SetUp(pc, next)
  PROVE  MainTypes'
<1>1. PICK to \in {next, "exited"} : main' = [main EXCEPT !.pc = to]
  BY DEF SetUp
<1>2. pc # "create" /\ to \in MainStates \ {"create", "join"} /\ main.pc = pc
  BY DEF SettingUp, MainStates, SetUp
<1> QED BY <1>1, <1>2 DEF MainTypes, SetUp, MainUnchanged

(* Joining a thread and freeing its data keeps the types. *)
LEMMA ReleaseTypes ==
  ASSUME MainTypes, NEW c \in Clients, NEW pc \in {"reap", "shutdown"},
         main.todo # <<>>, main.pc # "create", Release(c, pc)
  PROVE  MainTypes'
<1>1. /\ threads' = RemoveFirst(threads, c)
      /\ th_data' = [th_data EXCEPT ![c] = NoNode]
      /\ main' = [main EXCEPT !.pc = pc, !.todo = Tail(@)]
      /\ UNCHANGED <<thread, conn, caught_sig>>
  BY DEF Release, MainUnchanged
<1>2. threads' \in Seq(Clients)
  BY <1>1, RemoveFirstType DEF MainTypes
<1>3. Tail(main.todo) \in Seq(Clients)
  BY DEF MainTypes
<1> QED BY <1>1, <1>2, <1>3 DEF MainTypes, MainStates, NoNode

(* Creating a thread, or failing to, keeps the types. *)
LEMMA CreateTypes ==
  ASSUME MainTypes, NEW created \in BOOLEAN, Create(created)
  PROVE  MainTypes'
<1>1. main.cur \in Clients
  BY DEF MainTypes, Create
<1>2. <<main.cur>> \o threads \in Seq(Clients)
  BY <1>1 DEF MainTypes
<1>3. /\ main' \in [pc : MainStates, cur : Clients \cup {NoClient}, todo : Seq(Clients)]
      /\ main'.pc = "reap" /\ main'.cur = NoClient
  BY <1>2 DEF Create, MainStates
<1>4. thread' \in [Clients -> ThreadStates]
  BY <1>1 DEF MainTypes, Create, ThreadStates
<1>5. th_data' \in [Clients -> [alloc : BOOLEAN, bThreadCompleted : BOOLEAN]]
  BY <1>1 DEF MainTypes, Create
<1> QED BY <1>2, <1>3, <1>4, <1>5, NoClientAssumption
        DEF MainTypes, Create, MainUnchanged

(* A connection that changes keeps its type. *)
LEMMA ConnUpdate ==
  ASSUME NEW f \in [Clients -> Connections], NEW c \in Clients
  PROVE  /\ \A s \in {"none", "backlog", "open", "closed"} :
              [f EXCEPT ![c].state = s] \in [Clients -> Connections]
         /\ \A i \in Seq(Bytes) : [f EXCEPT ![c].inbox = i] \in [Clients -> Connections]
         /\ \A h \in BOOLEAN : [f EXCEPT ![c].here = h] \in [Clients -> Connections]
<1> DEFINE r == f[c]
<1>1. r \in Connections
  OBVIOUS
<1> HIDE DEF r
<1>2. /\ \A s \in {"none", "backlog", "open", "closed"} :
           [r EXCEPT !.state = s] \in Connections
      /\ \A i \in Seq(Bytes) : [r EXCEPT !.inbox = i] \in Connections
      /\ \A h \in BOOLEAN : [r EXCEPT !.here = h] \in Connections
  BY <1>1 DEF Connections
<1> QED BY <1>2 DEF r

(* Closing a connection keeps its type. *)
LEMMA CloseConnTypes ==
  ASSUME conn \in [Clients -> Connections], NEW c \in Clients, CloseConn(c)
  PROVE  conn' \in [Clients -> Connections]
<1> DEFINE f == [conn EXCEPT ![c].state = "closed"]
<1>1. f \in [Clients -> Connections]
  BY ConnUpdate
<1>2. conn' = [f EXCEPT ![c].inbox = <<>>]
  BY DEF CloseConn
<1> HIDE DEF f
<1>3. \A i \in Seq(Bytes) : [f EXCEPT ![c].inbox = i] \in [Clients -> Connections]
  BY <1>1, ConnUpdate
<1>4. <<>> \in Seq(Bytes)
  OBVIOUS
<1> QED BY <1>2, <1>3, <1>4

(* Each step of the main thread, or of the environment, keeps its types. *)
LEMMA MainTypesStep ==
  ASSUME MainTypes,
         \/ KilledEarly \/ signal_handler \/ Main
         \/ \E c \in Clients : Connect(c) \/ HangUp(c)
  PROVE  MainTypes'
<1>1. CASE KilledEarly
  BY <1>1 DEF MainTypes, KilledEarly, MainStates
<1>2. CASE signal_handler
  BY <1>2 DEF MainTypes, signal_handler, MainStates
<1>3. CASE InstallHandlers \/ GetAddress \/ CreateSocket \/ Bind \/ Daemon \/ Listen
  BY <1>3, SetUpTypes
  DEF InstallHandlers, GetAddress, CreateSocket, Bind, Daemon, Listen, SettingUp
<1>4. CASE CheckSignal
  BY <1>4 DEF MainTypes, CheckSignal, MainStates, MainUnchanged
<1>5. CASE AcceptBlocks
  BY <1>5 DEF MainTypes, AcceptBlocks, MainStates, MainUnchanged
<1>6. CASE \E c \in Clients : Accept(c)
  <2>1. PICK c \in Clients : Accept(c)
    BY <1>6
  <2>2. conn' \in [Clients -> Connections]
    BY <2>1, ConnUpdate DEF Accept, MainTypes
  <2> QED BY <2>1, <2>2 DEF MainTypes, Accept, MainStates, MainUnchanged
<1>7. CASE AcceptFails
  BY <1>7 DEF MainTypes, AcceptFails, MainStates, MainUnchanged
<1>8. CASE NoMemory
  BY <1>8, CloseConnTypes, NoClientAssumption
  DEF MainTypes, NoMemory, MainStates, MainUnchanged
<1>9. CASE CreateThread \/ CreateFails
  BY <1>9, CreateTypes DEF CreateThread, CreateFails
<1>10. CASE ReapVisit
  <2>1. CASE main.todo = <<>> /\ main' = [main EXCEPT !.pc = "check"]
    BY <1>10, <2>1 DEF MainTypes, ReapVisit, MainStates, MainUnchanged
  <2>2. CASE main.todo # <<>> /\ main' = [main EXCEPT !.pc = "join"]
    BY <1>10, <2>2 DEF MainTypes, ReapVisit, MainStates, MainUnchanged
  <2>3. CASE main.todo # <<>> /\ main' = [main EXCEPT !.todo = Tail(@)]
    <3>1. Tail(main.todo) \in Seq(Clients)
      BY <2>3 DEF MainTypes
    <3> QED BY <1>10, <2>3, <3>1 DEF MainTypes, ReapVisit, MainUnchanged
  <2> QED BY <1>10, <2>1, <2>2, <2>3 DEF ReapVisit
<1>11. CASE Join \/ JoinRemaining
  <2>1. main.todo # <<>> /\ Head(main.todo) \in Clients /\ main.pc # "create"
    BY <1>11 DEF MainTypes, Join, JoinRemaining
  <2> QED BY <1>11, <2>1, ReleaseTypes DEF Join, JoinRemaining
<1>12. CASE JoinGarbage
  <2>1. main.todo # <<>> /\ Head(main.todo) \in Clients /\ main.pc = "shutdown"
    BY <1>12 DEF MainTypes, JoinGarbage
  <2>2. CASE Release(Head(main.todo), "shutdown")
    BY <2>1, <2>2, ReleaseTypes
  <2>3. CASE /\ main' = [main EXCEPT !.pc = "killed"]
             /\ UNCHANGED <<threads, thread, th_data, conn>> /\ MainUnchanged
    BY <2>1, <2>3 DEF MainTypes, MainStates, MainUnchanged
  <2> QED BY <1>12, <2>2, <2>3 DEF JoinGarbage
<1>13. CASE Exit
  BY <1>13 DEF MainTypes, Exit, MainStates, MainUnchanged
<1>14. CASE \E c \in Clients : Connect(c) \/ HangUp(c)
  <2>1. PICK c \in Clients : Connect(c) \/ HangUp(c)
    BY <1>14
  <2>2. CASE Connect(c)
    <3>1. conn' \in [Clients -> Connections]
      BY <2>2, ConnUpdate DEF Connect, MainTypes
    <3> QED BY <2>2, <3>1 DEF MainTypes, Connect, mainvars
  <2>3. CASE HangUp(c)
    <3> DEFINE f == [conn EXCEPT ![c].inbox = <<>>]
    <3>1. \A i \in Seq(Bytes) : [conn EXCEPT ![c].inbox = i] \in [Clients -> Connections]
      BY ConnUpdate DEF MainTypes
    <3>2. <<>> \in Seq(Bytes)
      OBVIOUS
    <3>3. f \in [Clients -> Connections]
      BY <3>1, <3>2
    <3>4. conn' = [f EXCEPT ![c].here = FALSE]
      BY <2>3 DEF HangUp
    <3> HIDE DEF f
    <3>5. conn' \in [Clients -> Connections]
      BY <3>3, <3>4, ConnUpdate
    <3> QED BY <2>3, <3>5 DEF MainTypes, HangUp, mainvars
  <2> QED BY <2>1, <2>2, <2>3
<1> QED BY <1>1, <1>2, <1>3, <1>4, <1>5, <1>6, <1>7, <1>8, <1>9, <1>10,
           <1>11, <1>12, <1>13, <1>14 DEF Main

(* A thread that goes to pc with the message m in its buffer. *)
LEMMA ThreadGoes ==
  ASSUME TypeInv, NEW c \in Clients, NEW pc \in ThreadStates,
         NEW m \in Seq(Bytes), Len(m) <= BufSize, BufferAt(pc, m),
         thread' = [thread EXCEPT ![c] = pc],
         full_buf' = [full_buf EXCEPT ![c] = m]
  PROVE  /\ thread' \in [Clients -> ThreadStates]
         /\ full_buf' \in [Clients -> Seq(Bytes)]
         /\ \A d \in Clients : Len(full_buf'[d]) <= BufSize
         /\ BufferInv'
<1>1. thread \in [Clients -> ThreadStates] /\ full_buf \in [Clients -> Seq(Bytes)]
      /\ \A d \in Clients : Len(full_buf[d]) <= BufSize
  BY DEF TypeInv, TypeOK
<1>2. \A d \in Clients : BufferAt(thread'[d], full_buf'[d])
  BY <1>1 DEF TypeInv, BufferInv
<1> QED BY <1>1, <1>2 DEF BufferInv, BufferAt, Receiving, Ended, IsSeek

(* A thread that goes to pc with the answer r, or with the one it had. *)
LEMMA AnswerTypes ==
  /\ <<>> \in Answers /\ <<"error">> \in Answers /\ ReadAnswers \subseteq Answers
  /\ \A n \in Nat : <<"write", n>> \in Answers /\ <<"seekto", n>> \in Answers
  /\ \A n \in Nat, d \in Seq(Bytes) : <<"read", n, d>> \in ReadAnswers
  /\ \A r \in ReadAnswers : r[1] = "read" => r[3] \in Seq(Bytes)
BY DEF Answers, ReadAnswers

(* A thread that goes to send has a reply. *)
LEMMA AnswerGoes ==
  ASSUME TypeInv, NEW c \in Clients, NEW pc, thread' = [thread EXCEPT ![c] = pc],
         NEW r \in Answers, Dev!Answer(c, r), pc = "send" => r \in ReadAnswers
  PROVE  answer' \in [Clients -> Answers] /\ AnswerInv'
<1>1. thread \in [Clients -> ThreadStates] /\ answer \in [Clients -> Answers]
      /\ answer' = [answer EXCEPT ![c] = r]
  BY DEF TypeInv, TypeOK, Dev!Answer
<1> QED BY <1>1 DEF TypeInv, AnswerInv

(* A thread that goes elsewhere keeps what it holds. *)
LEMMA AnswerStays ==
  ASSUME TypeInv, NEW c \in Clients, NEW pc, pc # "send",
         thread' = [thread EXCEPT ![c] = pc], UNCHANGED answer
  PROVE  AnswerInv'
<1>1. thread \in [Clients -> ThreadStates]
  BY DEF TypeInv, TypeOK
<1> QED BY <1>1 DEF TypeInv, AnswerInv

(* A recv keeps the types: the bytes received fit in full_buf, or are lost. *)
LEMMA RecvTypes ==
  ASSUME TypeInv, NEW c \in Clients, Recv(c) PROVE TypeInv'
<1>1. PICK n \in 1 .. Chunk :
        LET d == SubSeq(conn[c].inbox, 1, n)
        IN  /\ n <= Len(conn[c].inbox)
            /\ full_buf' = IF Fits(c, d) THEN [full_buf EXCEPT ![c] = @ \o d]
                                         ELSE full_buf
            /\ conn' = [conn EXCEPT ![c].inbox = SubSeq(@, n + 1, Len(@))]
            /\ Goto(c, IF HasNewline(d) THEN "terminate" ELSE "recv")
  BY DEF Recv
<1> DEFINE inbox == conn[c].inbox
           d == SubSeq(inbox, 1, n)
           m == IF Fits(c, d) THEN full_buf[c] \o d ELSE full_buf[c]
<1>2. inbox \in Seq(Bytes) /\ Len(inbox) \in Nat
  BY DEF TypeInv, TypeOK, Connections
<1>3. /\ d \in Seq(Bytes) /\ Len(d) \in Nat
      /\ SubSeq(inbox, n + 1, Len(inbox)) \in Seq(Bytes)
  BY <1>1, <1>2, SizesAssumption
<1>4. thread[c] = "recv" /\ full_buf[c] \in Seq(Bytes) /\ Len(full_buf[c]) < BufSize
  BY DEF TypeInv, TypeOK, BufferInv, BufferAt, Receiving, Recv, At
<1>5. m \in Seq(Bytes) /\ Len(m) < BufSize
  <2> HIDE DEF d
  <2> QED BY <1>3, <1>4 DEF Fits
<1>6. full_buf' = [full_buf EXCEPT ![c] = m]
  BY <1>1 DEF TypeInv, TypeOK
<1>7. conn' \in [Clients -> Connections]
  BY <1>1, <1>3, ConnUpdate DEF TypeInv, TypeOK
<1> DEFINE pc == IF HasNewline(d) THEN "terminate" ELSE "recv"
<1>8. thread' = [thread EXCEPT ![c] = pc] /\ pc \in Receiving \ {"none"}
  BY <1>1 DEF Goto, Receiving
<1> HIDE DEF m, pc
<1>9. BufferAt(pc, m) /\ pc \in ThreadStates
  BY <1>5, <1>8 DEF BufferAt, Receiving, ThreadStates
<1>10. /\ thread' \in [Clients -> ThreadStates]
       /\ full_buf' \in [Clients -> Seq(Bytes)]
       /\ \A e \in Clients : Len(full_buf'[e]) <= BufSize
       /\ BufferInv'
  <2>1. Len(m) <= BufSize
    BY <1>5, SizesAssumption
  <2> QED BY <1>5, <1>6, <1>8, <1>9, <2>1, ThreadGoes
<1>11. AnswerInv'
  BY <1>8, AnswerStays DEF Recv, device, Receiving
<1> QED BY <1>7, <1>10, <1>11 DEF Recv, mainvars, device, TypeInv, TypeOK

(* A thread that goes to pc and leaves its buffer as it is. *)
LEMMA ThreadStays ==
  ASSUME TypeInv, NEW c \in Clients, NEW pc \in ThreadStates,
         BufferAt(pc, full_buf[c]), Goto(c, pc), UNCHANGED full_buf
  PROVE  /\ thread' \in [Clients -> ThreadStates]
         /\ full_buf' \in [Clients -> Seq(Bytes)]
         /\ \A d \in Clients : Len(full_buf'[d]) <= BufSize
         /\ BufferInv'
<1>1. /\ full_buf' = [full_buf EXCEPT ![c] = full_buf[c]]
      /\ full_buf[c] \in Seq(Bytes) /\ Len(full_buf[c]) <= BufSize
      /\ thread' = [thread EXCEPT ![c] = pc]
  BY DEF TypeInv, TypeOK, Goto
<1> QED BY <1>1, ThreadGoes

(* The newline that is added keeps the types. *)
LEMMA TerminateTypes ==
  ASSUME TypeInv, NEW c \in Clients, Terminate(c) PROVE TypeInv'
<1> DEFINE m == full_buf[c]
           t == Terminated(m)
<1>1. m \in Seq(Bytes) /\ Len(m) \in Nat /\ Len(m) < BufSize /\ thread[c] = "terminate"
  BY DEF TypeInv, TypeOK, BufferInv, BufferAt, Receiving, Terminate, At
<1>2. /\ full_buf' = [full_buf EXCEPT ![c] = t]
      /\ thread' = [thread EXCEPT ![c] = "lock"]
  BY DEF Terminate, Goto
<1> HIDE DEF m
<1>3. t \in Seq(Bytes) /\ Len(t) <= BufSize /\ Ended(t)
  <2>1. Newline \in Bytes
    BY DEF Bytes
  <2>2. CASE m # <<>> /\ m[Len(m)] # Newline
    <3>1. t = Append(m, Newline)
      BY <2>2 DEF Terminated
    <3>2. /\ t \in Seq(Bytes) /\ Len(t) = Len(m) + 1 /\ t[Len(m)+1] = Newline
      BY <1>1, <2>1, <3>1
    <3> QED BY <1>1, <3>2, SizesAssumption DEF Ended
  <2>3. CASE ~ (m # <<>> /\ m[Len(m)] # Newline)
    <3>1. t = m
      BY <2>3 DEF Terminated
    <3> QED BY <1>1, <2>3, <3>1, SizesAssumption DEF Ended
  <2> QED BY <2>2, <2>3
<1> HIDE DEF t
<1>4. "lock" \in ThreadStates /\ BufferAt("lock", t)
  BY <1>3 DEF ThreadStates, BufferAt, Receiving
<1>5. /\ thread' \in [Clients -> ThreadStates]
      /\ full_buf' \in [Clients -> Seq(Bytes)]
      /\ \A e \in Clients : Len(full_buf'[e]) <= BufSize
      /\ BufferInv'
  BY <1>2, <1>3, <1>4, ThreadGoes
<1>6. AnswerInv'
  BY <1>2, AnswerStays DEF Terminate, device
<1> QED BY <1>5, <1>6 DEF Terminate, mainvars, device, TypeInv, TypeOK

(* The write to the device keeps the types. *)
LEMMA WriteDeviceTypes ==
  ASSUME TypeInv, NEW c \in Clients, WriteDevice(c) PROVE TypeInv'
<1>1. thread[c] = "write" /\ full_buf[c] \in Seq(Bytes) /\ BufferAt("write", full_buf[c])
      /\ Len(full_buf[c]) \in Nat /\ fpos[c] \in Nat /\ fpos \in [Clients -> Nat]
  BY DEF WriteDevice, At, TypeInv, TypeOK, BufferInv
<1>2. BufferAt("reopen", full_buf[c]) /\ "reopen" \in ThreadStates
  BY <1>1 DEF BufferAt, Receiving, ThreadStates
<1>3. log' \in Seq(Seq(Bytes)) /\ pending' \in Seq(Bytes)
  <2>1. CASE Dev!Write(c, full_buf[c])
    BY <1>1, <2>1, WriteType DEF TypeInv
  <2>2. CASE Dev!Fail(c)
    BY <2>2 DEF Dev!Fail, TypeInv, TypeOK
  <2> QED BY <2>1, <2>2 DEF WriteDevice
<1>4. thread' = [thread EXCEPT ![c] = "reopen"]
  BY DEF WriteDevice, Goto
<1>5. answer' \in [Clients -> Answers] /\ AnswerInv'
  <2>1. PICK r \in {<<"write", Len(full_buf[c])>>, <<"error">>} : Dev!Answer(c, r)
    BY DEF WriteDevice, Dev!Write, Dev!Fail
  <2>2. r \in Answers
    BY <1>1, AnswerTypes
  <2>3. "reopen" = "send" => r \in ReadAnswers
    OBVIOUS
  <2> QED BY <1>4, <2>1, <2>2, <2>3, AnswerGoes, Zenon
<1>6. fpos' \in [Clients -> Nat]
  <2>1. fpos' = fpos \/ fpos' = [fpos EXCEPT ![c] = @ + Len(full_buf[c])]
    BY DEF WriteDevice
  <2>2. fpos[c] + Len(full_buf[c]) \in Nat
    BY <1>1
  <2> QED BY <1>1, <2>1, <2>2
<1>7. /\ thread' \in [Clients -> ThreadStates]
      /\ full_buf' \in [Clients -> Seq(Bytes)]
      /\ \A e \in Clients : Len(full_buf'[e]) <= BufSize
      /\ BufferInv'
  BY <1>2, ThreadStays DEF WriteDevice
<1> QED BY <1>3, <1>5, <1>6, <1>7 DEF WriteDevice, mainvars, TypeInv, TypeOK

(* The seek on the device keeps the types. *)
LEMMA SeekDeviceTypes ==
  ASSUME TypeInv, NEW c \in Clients, SeekDevice(c) PROVE TypeInv'
<1> DEFINE args == SeekArgs[full_buf[c][1]]
           targets == IF args = <<>> THEN {} ELSE SeekTargets(args[1], args[2])
<1>1. thread[c] = "ioctl" /\ BufferAt("ioctl", full_buf[c]) /\ fpos \in [Clients -> Nat]
  BY DEF SeekDevice, At, TypeInv, TypeOK, BufferInv
<1>2. args \in (Nat \X Nat) \cup {<<>>}
  BY <1>1, SeekArgsAssumption DEF BufferAt, IsSeek
<1>3. targets \subseteq Nat
  BY <1>2, SeekTargetsType DEF TypeInv
<1>4. /\ \/ \E pos \in targets :
              Dev!SeekTo(c, pos) /\ fpos' = [fpos EXCEPT ![c] = pos]
         \/ Dev!Fail(c) /\ UNCHANGED fpos
      /\ Goto(c, "read")
      /\ UNCHANGED <<mainvars, th_data, file_mutex, conn, full_buf, received>>
  BY DEF SeekDevice
<1> HIDE DEF targets
<1>5. fpos' \in [Clients -> Nat] /\ UNCHANGED <<log, pending>>
  BY <1>1, <1>3, <1>4 DEF Dev!SeekTo, Dev!Fail
<1>6. answer' \in [Clients -> Answers] /\ AnswerInv'
  <2>1. PICK r : Dev!Answer(c, r) /\ (r = <<"error">> \/ \E pos \in Nat : r = <<"seekto", pos>>)
    BY <1>3, <1>4 DEF Dev!SeekTo, Dev!Fail
  <2>2. r \in Answers
    BY <2>1, AnswerTypes
  <2>3. thread' = [thread EXCEPT ![c] = "read"]
    BY <1>4 DEF Goto
  <2>4. "read" = "send" => r \in ReadAnswers
    OBVIOUS
  <2> QED BY <2>1, <2>2, <2>3, <2>4, AnswerGoes, Zenon
<1>7. BufferAt("read", full_buf[c]) /\ "read" \in ThreadStates
  BY <1>1 DEF BufferAt, Receiving, ThreadStates
<1>8. /\ thread' \in [Clients -> ThreadStates]
      /\ full_buf' \in [Clients -> Seq(Bytes)]
      /\ \A e \in Clients : Len(full_buf'[e]) <= BufSize
      /\ BufferInv'
  BY <1>4, <1>7, ThreadStays
<1> QED BY <1>4, <1>5, <1>6, <1>8 DEF mainvars, TypeInv, TypeOK

(* The bytes from a position on, as many as a read asks for. *)
LEMMA ReadData ==
  ASSUME TypeOK, NEW pos \in Nat, NEW end,
         end = IF pos + Chunk < Len(Dev!Stream) THEN pos + Chunk ELSE Len(Dev!Stream)
  PROVE  /\ end \in Nat /\ end <= Len(Dev!Stream)
         /\ SubSeq(Dev!Stream, pos + 1, end) \in Seq(Bytes)
         /\ Len(SubSeq(Dev!Stream, pos + 1, end)) = IF pos < end THEN end - pos ELSE 0
         /\ (pos < end <=> pos < Len(Dev!Stream))
<1>1. Dev!Stream \in Seq(Bytes) /\ Len(Dev!Stream) \in Nat /\ Chunk \in Nat /\ Chunk > 0
  BY StreamType, SizesAssumption
<1>2. end \in Nat /\ end <= Len(Dev!Stream) /\ (pos < end <=> pos < Len(Dev!Stream))
  BY <1>1
<1>3. \A i \in pos + 1 .. end : Dev!Stream[i] \in Bytes
  BY <1>1, <1>2
<1>4. /\ SubSeq(Dev!Stream, pos + 1, end) \in Seq(Bytes)
      /\ Len(SubSeq(Dev!Stream, pos + 1, end)) =
           IF pos + 1 <= end THEN end - (pos + 1) + 1 ELSE 0
  BY <1>2, <1>3, SubSeqProperties
<1> QED BY <1>2, <1>4

(* The read of the device keeps the types. *)
LEMMA ReadDeviceTypes ==
  ASSUME TypeInv, NEW c \in Clients, ReadDevice(c) PROVE TypeInv'
<1>1. fpos[c] \in Nat /\ thread[c] = "read"
  BY DEF ReadDevice, At, TypeInv, TypeOK
<1> DEFINE end == IF fpos[c] + Chunk < Len(Dev!Stream)
                    THEN fpos[c] + Chunk ELSE Len(Dev!Stream)
           data == SubSeq(Dev!Stream, fpos[c] + 1, end)
<1>2. data \in Seq(Bytes)
  BY <1>1, ReadData DEF TypeInv
<1>3. UNCHANGED <<log, pending>>
      /\ \/ Dev!Answer(c, <<"read", fpos[c], data>>)
         \/ Dev!Answer(c, <<"error">>)
  BY DEF ReadDevice, Dev!Read, Dev!Fail
<1> HIDE DEF data
<1>4. answer' \in [Clients -> Answers] /\ AnswerInv'
  <2>1. PICK r \in {<<"read", fpos[c], data>>, <<"error">>} : Dev!Answer(c, r)
    BY <1>3
  <2>2. r \in ReadAnswers /\ r \in Answers
    BY <1>1, <1>2, AnswerTypes DEF ReadAnswers
  <2> QED BY <2>1, <2>2, AnswerGoes DEF ReadDevice, Goto
<1>5. BufferAt("send", full_buf[c]) /\ "send" \in ThreadStates
  BY <1>1 DEF TypeInv, BufferInv, BufferAt, Receiving, ThreadStates
<1>6. /\ thread' \in [Clients -> ThreadStates]
      /\ full_buf' \in [Clients -> Seq(Bytes)]
      /\ \A e \in Clients : Len(full_buf'[e]) <= BufSize
      /\ BufferInv'
  BY <1>5, ThreadStays DEF ReadDevice
<1> QED BY <1>3, <1>4, <1>6 DEF ReadDevice, mainvars, TypeInv, TypeOK

(* The sending of the reply keeps the types. *)
LEMMA SendTypes ==
  ASSUME TypeInv, NEW c \in Clients, Send(c) PROVE TypeInv'
<1> DEFINE data == IF answer[c][1] = "read" THEN answer[c][3] ELSE <<>>
<1>1. /\ thread[c] = "send" /\ answer[c] \in ReadAnswers /\ fpos[c] \in Nat
      /\ received[c] \in Seq(Bytes)
      /\ fpos \in [Clients -> Nat] /\ received \in [Clients -> Seq(Bytes)]
  BY DEF Send, At, TypeInv, TypeOK, AnswerInv
<1>2. data \in Seq(Bytes) /\ Len(data) \in Nat
  BY <1>1, AnswerTypes
<1>3. /\ IF data = <<>>
           THEN Goto(c, "close") /\ UNCHANGED <<fpos, received>>
           ELSE /\ received' = IF conn[c].here
                                  THEN [received EXCEPT ![c] = @ \o data]
                                  ELSE received
                /\ fpos' = [fpos EXCEPT ![c] = @ + Len(data)]
                /\ Goto(c, "read")
      /\ Dev!Return(c)
      /\ UNCHANGED <<mainvars, th_data, file_mutex, conn, full_buf>>
  BY DEF Send
<1> HIDE DEF data
<1>4. fpos' \in [Clients -> Nat]
  BY <1>1, <1>2, <1>3
<1>5. received' \in [Clients -> Seq(Bytes)]
  <2>1. received[c] \o data \in Seq(Bytes)
    BY <1>1, <1>2
  <2> QED BY <1>1, <1>3, <2>1
<1>6. PICK pc \in {"read", "close"} : Goto(c, pc)
  BY <1>3
<1>7. answer' \in [Clients -> Answers] /\ AnswerInv' /\ UNCHANGED <<log, pending>>
  <2>1. Dev!Answer(c, <<>>) /\ UNCHANGED <<log, pending>>
    BY <1>3 DEF Dev!Return
  <2> QED BY <1>6, <2>1, AnswerTypes, AnswerGoes DEF Goto
<1>8. BufferAt(pc, full_buf[c]) /\ pc \in ThreadStates
  BY <1>1 DEF TypeInv, BufferInv, BufferAt, Receiving, ThreadStates
<1>9. /\ thread' \in [Clients -> ThreadStates]
      /\ full_buf' \in [Clients -> Seq(Bytes)]
      /\ \A e \in Clients : Len(full_buf'[e]) <= BufSize
      /\ BufferInv'
  BY <1>3, <1>6, <1>8, ThreadStays
<1> QED BY <1>3, <1>4, <1>5, <1>7, <1>9 DEF mainvars, TypeInv, TypeOK

(* Each step of a thread keeps the types. *)
LEMMA ThreadTypesStep ==
  ASSUME TypeInv, NEW c \in Clients, threadfunc(c) PROVE TypeInv'
<1>1. CASE Recv(c)
  BY <1>1, RecvTypes
<1>2. CASE RecvEnd(c)
  <2>1. BufferAt("terminate", full_buf[c]) /\ "terminate" \in ThreadStates
    BY <1>2 DEF RecvEnd, At, TypeInv, BufferInv, BufferAt, Receiving, ThreadStates
  <2>2. /\ thread' \in [Clients -> ThreadStates]
        /\ full_buf' \in [Clients -> Seq(Bytes)]
        /\ \A e \in Clients : Len(full_buf'[e]) <= BufSize
        /\ BufferInv'
    BY <1>2, <2>1, ThreadStays DEF RecvEnd
  <2>3. AnswerInv'
    BY <1>2, AnswerStays DEF RecvEnd, Goto, device
  <2> QED BY <1>2, <2>2, <2>3 DEF RecvEnd, mainvars, device, TypeInv, TypeOK
<1>3. CASE Terminate(c)
  BY <1>3, TerminateTypes
<1>4. CASE LockFile(c)
  <2>1. BufferAt("open", full_buf[c]) /\ "open" \in ThreadStates
    BY <1>4 DEF LockFile, At, TypeInv, BufferInv, BufferAt, Receiving, ThreadStates
  <2>2. /\ thread' \in [Clients -> ThreadStates]
        /\ full_buf' \in [Clients -> Seq(Bytes)]
        /\ \A e \in Clients : Len(full_buf'[e]) <= BufSize
        /\ BufferInv'
    BY <1>4, <2>1, ThreadStays DEF LockFile
  <2>3. AnswerInv'
    BY <1>4, AnswerStays DEF LockFile, Goto, device
  <2> QED BY <1>4, <2>2, <2>3 DEF LockFile, mainvars, device, TypeInv, TypeOK
<1>5. CASE OpenDevice(c)
  <2> DEFINE pc == IF IsSeek(full_buf[c]) THEN "ioctl"
                   ELSE IF full_buf[c] # <<>> THEN "write" ELSE "reopen"
  <2>1. BufferAt(pc, full_buf[c]) /\ pc \in ThreadStates /\ pc # "send"
    <3>1. pc \in {"ioctl", "write", "reopen"}
      OBVIOUS
    <3>2. Ended(full_buf[c])
      BY <1>5 DEF OpenDevice, At, TypeInv, BufferInv, BufferAt, Receiving
    <3> QED BY <3>1, <3>2 DEF BufferAt, Receiving, ThreadStates
  <2>2. Goto(c, pc)
    BY <1>5 DEF OpenDevice
  <2> HIDE DEF pc
  <2>3. /\ thread' \in [Clients -> ThreadStates]
        /\ full_buf' \in [Clients -> Seq(Bytes)]
        /\ \A e \in Clients : Len(full_buf'[e]) <= BufSize
        /\ BufferInv'
    BY <1>5, <2>1, <2>2, ThreadStays DEF OpenDevice
  <2>4. AnswerInv'
    BY <1>5, <2>1, <2>2, AnswerStays DEF OpenDevice, Goto, device
  <2>5. fpos' \in [Clients -> Nat]
    BY <1>5 DEF OpenDevice, TypeInv, TypeOK
  <2> QED BY <1>5, <2>3, <2>4, <2>5 DEF OpenDevice, mainvars, device, TypeInv, TypeOK
<1>6. CASE OpenFails(c)
  <2>1. BufferAt("exit", full_buf[c]) /\ "exit" \in ThreadStates
    BY <1>6 DEF OpenFails, At, TypeInv, BufferInv, BufferAt, Receiving, ThreadStates
  <2>2. /\ thread' \in [Clients -> ThreadStates]
        /\ full_buf' \in [Clients -> Seq(Bytes)]
        /\ \A e \in Clients : Len(full_buf'[e]) <= BufSize
        /\ BufferInv'
    BY <1>6, <2>1, ThreadStays DEF OpenFails
  <2>3. AnswerInv'
    BY <1>6, AnswerStays DEF OpenFails, Goto, device
  <2>4. conn' \in [Clients -> Connections]
    BY <1>6, CloseConnTypes DEF OpenFails, TypeInv, TypeOK
  <2> QED BY <1>6, <2>2, <2>3, <2>4 DEF OpenFails, mainvars, device, TypeInv, TypeOK
<1>7. CASE WriteDevice(c)
  BY <1>7, WriteDeviceTypes
<1>8. CASE Reopen(c)
  <2>1. BufferAt("read", full_buf[c]) /\ "read" \in ThreadStates
    BY <1>8 DEF Reopen, At, TypeInv, BufferInv, BufferAt, Receiving, ThreadStates
  <2>2. /\ thread' \in [Clients -> ThreadStates]
        /\ full_buf' \in [Clients -> Seq(Bytes)]
        /\ \A e \in Clients : Len(full_buf'[e]) <= BufSize
        /\ BufferInv'
    BY <1>8, <2>1, ThreadStays DEF Reopen
  <2>3. AnswerInv'
    BY <1>8, AnswerStays DEF Reopen, Goto, device
  <2>4. fpos' \in [Clients -> Nat]
    BY <1>8 DEF Reopen, TypeInv, TypeOK
  <2> QED BY <1>8, <2>2, <2>3, <2>4 DEF Reopen, mainvars, device, TypeInv, TypeOK
<1>9. CASE SeekDevice(c)
  BY <1>9, SeekDeviceTypes
<1>10. CASE ReadDevice(c)
  BY <1>10, ReadDeviceTypes
<1>11. CASE Send(c)
  BY <1>11, SendTypes
<1>12. CASE CloseDevice(c)
  <2>1. BufferAt("complete", full_buf[c]) /\ "complete" \in ThreadStates
    BY <1>12 DEF CloseDevice, At, TypeInv, BufferInv, BufferAt, Receiving, ThreadStates
  <2>2. /\ thread' \in [Clients -> ThreadStates]
        /\ full_buf' \in [Clients -> Seq(Bytes)]
        /\ \A e \in Clients : Len(full_buf'[e]) <= BufSize
        /\ BufferInv'
    BY <1>12, <2>1, ThreadStays DEF CloseDevice
  <2>3. AnswerInv'
    BY <1>12, AnswerStays DEF CloseDevice, Goto, device
  <2>4. conn' \in [Clients -> Connections]
    BY <1>12, CloseConnTypes DEF CloseDevice, TypeInv, TypeOK
  <2> QED BY <1>12, <2>2, <2>3, <2>4 DEF CloseDevice, mainvars, device, TypeInv, TypeOK
<1>13. CASE CompleteThread(c)
  <2>1. BufferAt("exit", full_buf[c]) /\ "exit" \in ThreadStates
    BY <1>13 DEF CompleteThread, At, TypeInv, BufferInv, BufferAt, Receiving, ThreadStates
  <2>2. /\ thread' \in [Clients -> ThreadStates]
        /\ full_buf' \in [Clients -> Seq(Bytes)]
        /\ \A e \in Clients : Len(full_buf'[e]) <= BufSize
        /\ BufferInv'
    BY <1>13, <2>1, ThreadStays DEF CompleteThread
  <2>3. AnswerInv'
    BY <1>13, AnswerStays DEF CompleteThread, Goto, device
  <2>4. th_data' \in [Clients -> [alloc : BOOLEAN, bThreadCompleted : BOOLEAN]]
    BY <1>13 DEF CompleteThread, TypeInv, TypeOK
  <2> QED BY <1>13, <2>2, <2>3, <2>4 DEF CompleteThread, mainvars, device, TypeInv, TypeOK
<1> QED BY <1>1, <1>2, <1>3, <1>4, <1>5, <1>6, <1>7, <1>8, <1>9, <1>10,
           <1>11, <1>12, <1>13 DEF threadfunc

(***************************************************************************)
(* A step that is not a thread's only puts a thread at "recv" which has no *)
(* bytes yet.                                                              *)
(***************************************************************************)
OtherStep ==
  \/ KilledEarly \/ signal_handler \/ Main
  \/ \E c \in Clients : Connect(c) \/ HangUp(c)

(* What the steps that are not a thread's leave alone. *)
LEMMA OtherSteps ==
  ASSUME OtherStep
  PROVE  /\ UNCHANGED <<file_mutex, full_buf, fpos, received, log, pending, answer>>
         /\ thread' = thread \/ CreateThread
<1>1. CASE KilledEarly \/ signal_handler
  BY <1>1 DEF KilledEarly, signal_handler, device
<1>2. CASE Main
  BY <1>2 DEF Main, InstallHandlers, GetAddress, CreateSocket, Bind, Daemon, Listen,
     SetUp, CheckSignal, AcceptBlocks, Accept, AcceptFails, NoMemory, CreateFails,
     CreateThread, Create, ReapVisit, Join, JoinRemaining, JoinGarbage, Release, Exit,
     MainUnchanged, device
<1>3. CASE \E c \in Clients : Connect(c) \/ HangUp(c)
  BY <1>3 DEF Connect, HangUp, device
<1> QED BY <1>1, <1>2, <1>3 DEF OtherStep

-----------------------------------------------------------------------------
(* The list of threads. *)

(***************************************************************************)
(* No thread_data is twice in the list or in what is still to be visited;  *)
(* at the shutdown all of the list is still to be visited; and a           *)
(* connection that is not accepted yet, or whose thread is being created,  *)
(* has neither thread_data nor a thread.                                   *)
(***************************************************************************)
Fresh(c) == ~ th_data[c].alloc /\ thread[c] = "none"

ListInv ==
  /\ NodesFreedOnce
  /\ IsInjective(main.todo)
  /\ main.pc \in SettingUp => threads = <<>>
  /\ main.pc = "shutdown" => ToSet(threads) \subseteq ToSet(main.todo)
  /\ main.pc = "create" => conn[main.cur].state = "open"
  /\ \A c \in Clients :
       conn[c].state \in {"none", "backlog"} \/ main.cur = c => Fresh(c)

(* The empty list has no members. *)
LEMMA EmptyList ==
  /\ IsInjective(<<>>) /\ ToSet(<<>>) = {}
  /\ \A s \in Seq(Clients) : ToSet(s) = {} => s = <<>>
<1>1. IsInjective(<<>>) /\ ToSet(<<>>) = {}
  BY DEF IsInjective, ToSet
<1>2. ASSUME NEW s \in Seq(Clients), s # <<>> PROVE s[1] \in ToSet(s)
  <2>1. 1 \in DOMAIN s
    BY <1>2
  <2> QED BY <2>1 DEF ToSet
<1> QED BY <1>1, <1>2

(* The invariant of the list, initially. *)
LEMMA ListInit == Init => ListInv
<1> SUFFICES ASSUME Init PROVE ListInv
  OBVIOUS
<1>1. /\ main = [pc |-> "sigaction", cur |-> NoClient, todo |-> <<>>]
      /\ threads = <<>>
      /\ thread = [c \in Clients |-> "none"]
      /\ th_data = [c \in Clients |-> NoNode]
  BY DEF Init
<1> QED BY <1>1, EmptyList DEF ListInv, NodesFreedOnce, Fresh, NoNode, Running

(* Unlinking and freeing what the main thread visits. *)
LEMMA ReleaseList ==
  ASSUME MainTypes, ListInv, NEW pc \in {"reap", "shutdown"},
         main.pc = "shutdown" \/ (main.pc = "join" /\ pc = "reap"),
         main.todo # <<>>, thread[Head(main.todo)] \in {"none", "exit"},
         Release(Head(main.todo), pc)
  PROVE  ListInv'
<1> DEFINE h == Head(main.todo)
<1>1. /\ threads \in Seq(Clients) /\ IsInjective(threads)
      /\ main.todo \in Seq(Clients) /\ IsInjective(main.todo)
      /\ ToSet(main.todo) \subseteq ToSet(threads)
  BY DEF MainTypes, ListInv, NodesFreedOnce, Running
<1>2. /\ h \in Clients /\ h \in ToSet(main.todo)
      /\ IsInjective(Tail(main.todo))
      /\ ToSet(Tail(main.todo)) = ToSet(main.todo) \ {h}
  BY <1>1, ListTail
<1>3. /\ IsInjective(RemoveFirst(threads, h))
      /\ ToSet(RemoveFirst(threads, h)) = ToSet(threads) \ {h}
  BY <1>1, <1>2, ListRemove
<1>4. /\ threads' = RemoveFirst(threads, h)
      /\ th_data' = [th_data EXCEPT ![h] = NoNode]
      /\ main' = [main EXCEPT !.pc = pc, !.todo = Tail(@)]
      /\ UNCHANGED <<thread, conn>>
  BY DEF Release
<1>5. /\ main'.pc = pc /\ main'.cur = main.cur /\ main'.todo = Tail(main.todo)
      /\ \A c \in Clients : th_data'[c].alloc = (th_data[c].alloc /\ c # h)
  BY <1>2, <1>4 DEF MainTypes, NoNode
<1> HIDE DEF h
<1>6. NodesFreedOnce'
  <2>1. ToSet(threads') = {c \in Clients : th_data'[c].alloc}
    BY <1>3, <1>4, <1>5 DEF ListInv, NodesFreedOnce
  <2>2. \A c \in Clients : thread'[c] \notin {"none", "exit"} => th_data'[c].alloc
    BY <1>4, <1>5 DEF h, ListInv, NodesFreedOnce
  <2> QED BY <1>1, <1>2, <1>3, <1>4, <1>5, <2>1, <2>2 DEF NodesFreedOnce
<1>7. main'.pc = "shutdown" => ToSet(threads') \subseteq ToSet(main'.todo)
  <2>1. pc = "shutdown" => ToSet(threads) \subseteq ToSet(main.todo)
    BY DEF ListInv
  <2> QED BY <1>2, <1>3, <1>4, <1>5, <2>1
<1>8. \A c \in Clients :
        conn'[c].state \in {"none", "backlog"} \/ main'.cur = c => Fresh(c)'
  BY <1>4, <1>5 DEF ListInv, Fresh
<1> QED BY <1>2, <1>5, <1>6, <1>7, <1>8 DEF ListInv, SettingUp

(* A thread_data is put into the list when it is allocated. *)
LEMMA CreateList ==
  ASSUME MainTypes, ListInv, NEW created \in BOOLEAN, Create(created)
  PROVE  ListInv'
<1> DEFINE c == main.cur
<1>1. /\ c \in Clients /\ Fresh(c) /\ conn[c].state = "open" /\ Running
      /\ threads \in Seq(Clients) /\ IsInjective(threads)
      /\ c \notin ToSet(threads)
  BY DEF MainTypes, ListInv, NodesFreedOnce, Fresh, Create, Running
<1>2. /\ threads' = <<c>> \o threads
      /\ main' = [pc |-> "reap", cur |-> NoClient, todo |-> threads']
      /\ th_data' = [th_data EXCEPT ![c] = [alloc |-> TRUE, bThreadCompleted |-> FALSE]]
      /\ \A d \in Clients : d # c => thread'[d] = thread[d]
      /\ UNCHANGED conn
  BY <1>1 DEF Create, MainTypes
<1>3. IsInjective(threads') /\ ToSet(threads') = ToSet(threads) \cup {c}
  BY <1>1, <1>2, ListCons
<1>4. /\ main'.pc = "reap" /\ main'.cur = NoClient /\ main'.todo = threads'
      /\ \A d \in Clients : th_data'[d].alloc = (th_data[d].alloc \/ d = c)
  BY <1>1, <1>2 DEF MainTypes
<1> HIDE DEF c
<1>5. NodesFreedOnce'
  <2>1. ToSet(threads') = {d \in Clients : th_data'[d].alloc}
    BY <1>1, <1>3, <1>4 DEF ListInv, NodesFreedOnce
  <2>2. \A d \in Clients : thread'[d] \notin {"none", "exit"} => th_data'[d].alloc
    BY <1>2, <1>4 DEF ListInv, NodesFreedOnce
  <2> QED BY <1>3, <1>4, <2>1, <2>2 DEF NodesFreedOnce
<1>6. \A d \in Clients :
        conn'[d].state \in {"none", "backlog"} \/ main'.cur = d => Fresh(d)'
  BY <1>1, <1>2, <1>4, NoClientAssumption DEF ListInv, Fresh
<1> QED BY <1>3, <1>4, <1>5, <1>6 DEF ListInv, SettingUp

(* The main thread goes to pc and leaves the list and the threads alone. *)
LEMMA MainMoves ==
  ASSUME MainTypes, ListInv, NEW pc, NEW todo,
         main'.pc = pc, main'.cur = main.cur, main'.todo = todo,
         \/ todo = main.todo
         \/ todo = threads
         \/ main.todo # <<>> /\ todo = Tail(main.todo),
         UNCHANGED <<threads, thread, th_data, conn>>,
         Running, pc # "create",
         pc \in SettingUp => main.pc \in SettingUp,
         pc = "shutdown" => todo = threads,
         pc = "exited" => \/ main.pc \in SettingUp
                          \/ main.pc = "shutdown" /\ main.todo = <<>>
  PROVE  ListInv'
<1>1. IsInjective(todo) /\ ToSet(todo) \subseteq ToSet(threads)
  <2>1. IsInjective(threads) /\ IsInjective(main.todo)
        /\ ToSet(main.todo) \subseteq ToSet(threads)
    BY DEF ListInv, NodesFreedOnce
  <2>2. CASE main.todo # <<>> /\ todo = Tail(main.todo)
    BY <2>1, <2>2, ListTail DEF MainTypes
  <2> QED BY <2>1, <2>2
<1>2. pc = "exited" => threads = <<>>
  <2>1. CASE main.pc \in SettingUp
    BY <2>1 DEF ListInv
  <2>2. CASE main.pc = "shutdown" /\ main.todo = <<>>
    <3>1. ToSet(threads) = {}
      BY <2>2, EmptyList DEF ListInv
    <3> QED BY <3>1, EmptyList DEF MainTypes
  <2> QED BY <2>1, <2>2
<1>3. NodesFreedOnce'
  BY <1>1, <1>2 DEF ListInv, NodesFreedOnce
<1> QED BY <1>1, <1>3 DEF ListInv, Fresh

(* The main thread's steps keep list, threads and memory in agreement. *)
LEMMA OtherList ==
  ASSUME MainTypes, ListInv,
         \/ KilledEarly \/ signal_handler \/ Main
         \/ \E c \in Clients : Connect(c) \/ HangUp(c)
  PROVE  ListInv'
<1>1. CASE KilledEarly
  BY <1>1, MainMoves DEF MainTypes, KilledEarly, Running, SettingUp
<1>2. CASE signal_handler
  <2>1. CASE main.pc = "blocked"
    BY <1>2, <2>1, MainMoves DEF MainTypes, signal_handler, SettingUp
  <2>2. CASE main.pc # "blocked"
    BY <1>2, <2>2 DEF signal_handler, ListInv, NodesFreedOnce, Running, Fresh
  <2> QED BY <2>1, <2>2
<1>3. CASE InstallHandlers \/ GetAddress \/ CreateSocket \/ Bind \/ Daemon \/ Listen
  <2>1. PICK pc \in SettingUp, next \in SettingUp \cup {"check"} : SetUp(pc, next)
    BY <1>3 DEF InstallHandlers, GetAddress, CreateSocket, Bind, Daemon, Listen, SettingUp
  <2>2. PICK to \in {next, "exited"} : main' = [main EXCEPT !.pc = to]
    BY <2>1 DEF SetUp
  <2>3. /\ main.pc = pc /\ Running /\ to # "create" /\ to # "shutdown"
        /\ UNCHANGED <<threads, thread, th_data, conn>>
    BY <2>1 DEF SetUp, Running, SettingUp
  <2>4. main'.pc = to /\ main'.cur = main.cur /\ main'.todo = main.todo
    BY <2>2 DEF MainTypes
  <2> QED BY <2>3, <2>4, MainMoves
<1>4. CASE CheckSignal
  BY <1>4, MainMoves DEF MainTypes, CheckSignal, SettingUp, Running
<1>5. CASE AcceptBlocks
  BY <1>5, MainMoves DEF MainTypes, AcceptBlocks, SettingUp, Running
<1>6. CASE \E c \in Clients : Accept(c)
  <2>1. PICK c \in Clients : Accept(c)
    BY <1>6
  <2>2. /\ main.pc \in {"accept", "blocked"} /\ conn[c].state = "backlog"
        /\ conn' = [conn EXCEPT ![c].state = "open"]
        /\ main' = [main EXCEPT !.pc = "create", !.cur = c]
        /\ UNCHANGED <<threads, thread, th_data>>
    BY <2>1 DEF Accept
  <2>3. /\ conn'[c].state = "open"
        /\ \A d \in Clients : d # c => conn'[d].state = conn[d].state
        /\ main'.pc = "create" /\ main'.cur = c /\ main'.todo = main.todo
    BY <2>2 DEF MainTypes, Connections
  <2>4. NodesFreedOnce'
    BY <2>2, <2>3 DEF ListInv, NodesFreedOnce, Running
  <2> QED BY <2>2, <2>3, <2>4 DEF ListInv, Fresh, SettingUp
<1>7. CASE AcceptFails
  BY <1>7, MainMoves DEF MainTypes, AcceptFails, SettingUp, Running
<1>8. CASE NoMemory
  <2> DEFINE c == main.cur
  <2>1. /\ c \in Clients /\ main.pc = "create" /\ CloseConn(c)
        /\ main'.pc = "check" /\ main'.cur = NoClient /\ main'.todo = main.todo
        /\ UNCHANGED <<threads, thread, th_data>>
    BY <1>8 DEF MainTypes, NoMemory
  <2>2. /\ conn'[c].state = "closed"
        /\ \A d \in Clients : d # c => conn'[d].state = conn[d].state
    BY <2>1 DEF CloseConn, MainTypes, Connections
  <2> HIDE DEF c
  <2>3. NodesFreedOnce'
    BY <1>8, <2>1 DEF NoMemory, ListInv, NodesFreedOnce, Running
  <2>4. \A d \in Clients :
          conn'[d].state \in {"none", "backlog"} \/ main'.cur = d => Fresh(d)'
    BY <2>1, <2>2, NoClientAssumption DEF ListInv, Fresh
  <2> QED BY <2>1, <2>3, <2>4 DEF ListInv, SettingUp
<1>9. CASE CreateThread \/ CreateFails
  BY <1>9, CreateList DEF CreateThread, CreateFails
<1>10. CASE ReapVisit
  BY <1>10, MainMoves, SMTT(30) DEF MainTypes, ReapVisit, SettingUp, Running
<1>11. CASE Join \/ JoinRemaining
  BY <1>11, ReleaseList DEF MainTypes, Join, JoinRemaining
<1>12. CASE JoinGarbage
  <2>1. main.pc = "shutdown" /\ main.todo # <<>> /\ thread[Head(main.todo)] = "none"
    BY <1>12 DEF JoinGarbage
  <2>2. CASE Release(Head(main.todo), "shutdown")
    BY <2>1, <2>2, ReleaseList
  <2>3. CASE /\ main' = [main EXCEPT !.pc = "killed"]
             /\ UNCHANGED <<threads, thread, th_data, conn>>
    BY <2>1, <2>3, MainMoves DEF MainTypes, SettingUp, Running
  <2> QED BY <1>12, <2>2, <2>3 DEF JoinGarbage
<1>13. CASE Exit
  BY <1>13, MainMoves DEF MainTypes, Exit, SettingUp, Running
<1>14. CASE \E c \in Clients : Connect(c) \/ HangUp(c)
  <2>1. PICK c \in Clients : Connect(c) \/ HangUp(c)
    BY <1>14
  <2>2. UNCHANGED <<main, threads, thread, th_data>>
    BY <2>1 DEF Connect, HangUp, mainvars
  <2>3. \A d \in Clients : \/ conn'[d].state = conn[d].state
                           \/ conn[d].state = "none" /\ conn'[d].state = "backlog"
    <3>1. CASE Connect(c)
      BY <3>1 DEF Connect, MainTypes, Connections
    <3>2. CASE HangUp(c)
      BY <3>2 DEF HangUp, MainTypes, Connections
    <3> QED BY <2>1, <3>1, <3>2
  <2>4. NodesFreedOnce'
    BY <2>2 DEF ListInv, NodesFreedOnce, Running
  <2>5. main.pc = "create" => conn'[main.cur].state = "open"
    BY <2>3 DEF MainTypes, ListInv
  <2> QED BY <2>2, <2>3, <2>4, <2>5 DEF ListInv, Fresh
<1> QED BY <1>1, <1>2, <1>3, <1>4, <1>5, <1>6, <1>7, <1>8, <1>9, <1>10,
           <1>11, <1>12, <1>13, <1>14 DEF Main

(* What every step of a thread leaves alone. *)
LEMMA ThreadMoves ==
  ASSUME TypeInv, NEW c \in Clients, threadfunc(c)
  PROVE  /\ UNCHANGED mainvars
         /\ thread[c] \notin {"none", "exit"}
         /\ \E pc \in ThreadStates \ {"none"} : thread' = [thread EXCEPT ![c] = pc]
         /\ \A d \in Clients :
              /\ th_data'[d].alloc = th_data[d].alloc
              /\ \/ conn'[d].state = conn[d].state
                 \/ d = c /\ conn'[d].state = "closed"
<1>1. UNCHANGED mainvars
  BY DEF threadfunc, Recv, RecvEnd, Terminate, LockFile, OpenDevice, OpenFails,
     WriteDevice, Reopen, SeekDevice, ReadDevice, Send, CloseDevice, CompleteThread
<1>2. thread[c] \notin {"none", "exit"}
  BY DEF threadfunc, Recv, RecvEnd, Terminate, LockFile, OpenDevice, OpenFails,
     WriteDevice, Reopen, SeekDevice, ReadDevice, Send, CloseDevice, CompleteThread, At
<1>3. \E pc \in ThreadStates \ {"none"} : thread' = [thread EXCEPT ![c] = pc]
  <2>1. CASE \/ Recv(c) \/ RecvEnd(c) \/ Terminate(c) \/ LockFile(c)
             \/ OpenFails(c) \/ CloseDevice(c) \/ CompleteThread(c)
    BY <2>1 DEF Recv, RecvEnd, Terminate, LockFile, OpenFails, CloseDevice,
       CompleteThread, Goto, ThreadStates
  <2>2. CASE OpenDevice(c)
    <3>1. Goto(c, "ioctl") \/ Goto(c, "write") \/ Goto(c, "reopen")
      BY <2>2 DEF OpenDevice
    <3> QED BY <3>1 DEF Goto, ThreadStates
  <2>3. CASE WriteDevice(c) \/ Reopen(c) \/ ReadDevice(c)
    BY <2>3 DEF WriteDevice, Reopen, ReadDevice, Goto, ThreadStates
  <2>4. CASE SeekDevice(c)
    BY <2>4 DEF SeekDevice, Goto, ThreadStates
  <2>5. CASE Send(c)
    <3>1. Goto(c, "close") \/ Goto(c, "read")
      BY <2>5 DEF Send
    <3> QED BY <3>1 DEF Goto, ThreadStates
  <2> QED BY <2>1, <2>2, <2>3, <2>4, <2>5 DEF threadfunc
<1>4. \A d \in Clients : th_data'[d].alloc = th_data[d].alloc
  <2>1. UNCHANGED th_data \/ CompleteThread(c)
    BY DEF threadfunc, Recv, RecvEnd, Terminate, LockFile, OpenDevice, OpenFails,
       WriteDevice, Reopen, SeekDevice, ReadDevice, Send, CloseDevice
  <2>2. CASE CompleteThread(c)
    BY <2>2 DEF CompleteThread, TypeInv, TypeOK
  <2> QED BY <2>1, <2>2
<1>5. \A d \in Clients : \/ conn'[d].state = conn[d].state
                         \/ d = c /\ conn'[d].state = "closed"
  <2>1. CASE UNCHANGED conn
    BY <2>1
  <2>2. CASE CloseConn(c)
    BY <2>2 DEF CloseConn, TypeInv, TypeOK, Connections
  <2>3. CASE Recv(c)
    <3>1. PICK n : conn' = [conn EXCEPT ![c].inbox = SubSeq(@, n + 1, Len(@))]
      BY <2>3 DEF Recv
    <3> QED BY <3>1 DEF TypeInv, TypeOK, Connections
  <2>4. UNCHANGED conn \/ CloseConn(c) \/ Recv(c)
    BY DEF threadfunc, RecvEnd, Terminate, LockFile, OpenDevice, OpenFails,
       WriteDevice, Reopen, SeekDevice, ReadDevice, Send, CloseDevice, CompleteThread
  <2> QED BY <2>1, <2>2, <2>3, <2>4
<1> QED BY <1>1, <1>2, <1>3, <1>4, <1>5

(* A thread's steps keep list, threads and memory in agreement. *)
LEMMA ThreadList ==
  ASSUME TypeInv, ListInv, NEW c \in Clients, threadfunc(c)
  PROVE  ListInv'
<1>1. PICK pc \in ThreadStates \ {"none"} : thread' = [thread EXCEPT ![c] = pc]
  BY ThreadMoves
<1>2. /\ UNCHANGED <<main, threads>>
      /\ thread[c] \notin {"none", "exit"}
      /\ \A d \in Clients : d # c => thread'[d] = thread[d]
      /\ \A d \in Clients : /\ th_data'[d].alloc = th_data[d].alloc
                            /\ \/ conn'[d].state = conn[d].state
                               \/ d = c /\ conn'[d].state = "closed"
  BY <1>1, ThreadMoves, SMTT(30) DEF TypeInv, TypeOK, mainvars
<1>3. NodesFreedOnce'
  BY <1>2 DEF ListInv, NodesFreedOnce, Running
<1>4. main.pc = "create" => conn'[main.cur].state = "open"
  BY <1>2 DEF TypeInv, TypeOK, ListInv, Fresh
<1> QED BY <1>2, <1>3, <1>4 DEF ListInv, Fresh

(* Both together are inductive. *)
LEMMA TypeListStep ==
  ASSUME TypeInv, ListInv, [Next]_vars PROVE TypeInv' /\ ListInv'
<1>1. MainTypes
  BY DEF TypeInv, TypeOK, MainTypes
<1>2. CASE OtherStep
  <2>1. MainTypes' /\ ListInv'
    BY <1>1, <1>2, MainTypesStep, OtherList DEF OtherStep
  <2>2. /\ UNCHANGED <<file_mutex, full_buf, fpos, received, log, pending, answer>>
        /\ thread' = thread \/ CreateThread
    BY <1>2, OtherSteps
  <2>3. BufferInv'
    <3>1. CASE thread' = thread
      BY <2>2, <3>1 DEF TypeInv, BufferInv, BufferAt, Ended, IsSeek, Receiving
    <3>2. CASE CreateThread
      <4>1. /\ main.cur \in Clients /\ thread[main.cur] = "none"
            /\ thread' = [thread EXCEPT ![main.cur] = "recv"]
        BY <1>1, <3>2 DEF CreateThread, Create, MainTypes, ListInv, Fresh
      <4>2. BufferAt("recv", full_buf[main.cur]) /\ "recv" \in ThreadStates
        BY <4>1 DEF TypeInv, BufferInv, BufferAt, Receiving, ThreadStates
      <4> QED BY <2>2, <4>1, <4>2, ThreadStays DEF Goto
    <3> QED BY <2>2, <3>1, <3>2
  <2>4. AnswerInv'
    <3>1. CASE thread' = thread
      BY <2>2, <3>1 DEF TypeInv, AnswerInv
    <3>2. CASE CreateThread
      <4>1. main.cur \in Clients /\ thread' = [thread EXCEPT ![main.cur] = "recv"]
        BY <1>1, <3>2 DEF CreateThread, Create, MainTypes
      <4> QED BY <2>2, <4>1, AnswerStays
    <3> QED BY <2>2, <3>1, <3>2
  <2> QED BY <2>1, <2>2, <2>3, <2>4 DEF TypeInv, TypeOK, MainTypes
<1>3. CASE \E c \in Clients : threadfunc(c)
  BY <1>3, ThreadTypesStep, ThreadList
<1>4. CASE UNCHANGED vars
  BY <1>4 DEF vars, TypeInv, TypeOK, BufferInv, BufferAt, Ended, IsSeek, Receiving,
     AnswerInv, ListInv, NodesFreedOnce, Fresh, Running
<1> QED BY <1>2, <1>3, <1>4 DEF Next, OtherStep

(* The first two invariants, of every behaviour. *)
LEMMA TypeListInv == Spec => [](TypeInv /\ ListInv)
<1>1. Init => TypeInv /\ ListInv
  BY TypeInit, ListInit
<1>2. (TypeInv /\ ListInv) /\ [Next]_vars => (TypeInv /\ ListInv)'
  BY TypeListStep
<1> QED BY <1>1, <1>2, PTL DEF Spec

(***************************************************************************)
(* Types, and no overrun: a message and the newline the server may have to *)
(* add to it fit in full_buf, whatever the sizes of the buffers and of the *)
(* messages (aesdsocket.c:81-98).                                          *)
(***************************************************************************)
THEOREM TypeCorrect == Spec => []TypeOK
<1>1. TypeInv /\ ListInv => TypeOK
  BY DEF TypeInv
<1> QED BY <1>1, TypeListInv, PTL

(***************************************************************************)
(* The list and the frees: a running thread's thread_data is allocated,    *)
(* what main has still to visit is in the list, and nothing is freed twice *)
(* or left behind (aesdsocket.c:414-450).                                  *)
(***************************************************************************)
THEOREM FreesCorrect == Spec => []NodesFreedOnce
<1>1. TypeInv /\ ListInv => NodesFreedOnce
  BY DEF ListInv
<1> QED BY <1>1, TypeListInv, PTL

-----------------------------------------------------------------------------
(* The mutex. *)

(* It is held exactly where a thread has the device open. *)
MutexInv == \A c \in Clients : thread[c] \in Holding <=> file_mutex = c

(* How the steps of a thread use it. *)
LEMMA MutexSteps ==
  ASSUME TypeInv, NEW c \in Clients, threadfunc(c)
  PROVE  /\ \A d \in Clients : d # c => thread'[d] = thread[d]
         /\ \/ file_mutex' = file_mutex /\ (thread'[c] \in Holding <=> thread[c] \in Holding)
            \/ file_mutex = NoClient /\ file_mutex' = c /\ thread'[c] \in Holding
            \/ thread[c] \in Holding /\ file_mutex' = NoClient /\ thread'[c] \notin Holding
<1>1. thread \in [Clients -> ThreadStates]
  BY DEF TypeInv, TypeOK
<1>2. \A pc : Goto(c, pc) => /\ thread'[c] = pc
                             /\ \A d \in Clients : d # c => thread'[d] = thread[d]
  BY <1>1 DEF Goto
<1>3. CASE Recv(c) \/ RecvEnd(c) \/ Terminate(c) \/ CompleteThread(c)
  <2>1. \E pc \in {"recv", "terminate", "lock", "exit"} : Goto(c, pc)
    BY <1>3 DEF Recv, RecvEnd, Terminate, CompleteThread
  <2>2. thread[c] \notin Holding /\ file_mutex' = file_mutex
    BY <1>3 DEF Recv, RecvEnd, Terminate, CompleteThread, At, Holding
  <2> QED BY <1>2, <2>1, <2>2 DEF Holding
<1>4. CASE LockFile(c)
  BY <1>2, <1>4 DEF LockFile, Holding
<1>5. CASE OpenFails(c) \/ CloseDevice(c)
  BY <1>2, <1>5 DEF OpenFails, CloseDevice, At, Holding
<1>6. CASE \/ OpenDevice(c) \/ WriteDevice(c) \/ Reopen(c)
           \/ SeekDevice(c) \/ ReadDevice(c) \/ Send(c)
  <2>1. \E pc \in {"ioctl", "write", "reopen", "read", "send", "close"} : Goto(c, pc)
    BY <1>6 DEF OpenDevice, WriteDevice, Reopen, SeekDevice, ReadDevice, Send
  <2>2. thread[c] \in Holding /\ file_mutex' = file_mutex
    BY <1>6 DEF OpenDevice, WriteDevice, Reopen, SeekDevice, ReadDevice, Send, At, Holding
  <2> QED BY <1>2, <2>1, <2>2 DEF Holding
<1> QED BY <1>3, <1>4, <1>5, <1>6 DEF threadfunc

(* Each step keeps file_mutex with who has the device open. *)
LEMMA MutexStep ==
  ASSUME TypeInv, ListInv, MutexInv, [Next]_vars PROVE MutexInv'
<1>1. CASE OtherStep
  <2>1. UNCHANGED file_mutex /\ (thread' = thread \/ CreateThread)
    BY <1>1, OtherSteps
  <2>2. CreateThread => /\ main.cur \in Clients /\ thread[main.cur] = "none"
                        /\ thread' = [thread EXCEPT ![main.cur] = "recv"]
    BY DEF CreateThread, Create, TypeInv, TypeOK, ListInv, Fresh
  <2> QED BY <2>1, <2>2 DEF MutexInv, Holding, TypeInv, TypeOK
<1>2. CASE \E c \in Clients : threadfunc(c)
  BY <1>2, MutexSteps, NoClientAssumption DEF MutexInv
<1>3. CASE UNCHANGED vars
  BY <1>3 DEF vars, MutexInv
<1> QED BY <1>1, <1>2, <1>3 DEF Next, OtherStep

(* The invariant of file_mutex, of every behaviour. *)
LEMMA MutexCorrect == Spec => []MutexInv
<1>1. Init => MutexInv
  BY NoClientAssumption DEF Init, MutexInv, Holding
<1>2. TypeInv /\ ListInv /\ MutexInv /\ [Next]_vars => MutexInv'
  BY MutexStep
<1> QED BY <1>1, <1>2, TypeListInv, PTL DEF Spec

(***************************************************************************)
(* Of any number of threads only one has the device open: what it writes   *)
(* and what it reads back are not mixed with another's                     *)
(* (aesdsocket.c:100-168).                                                 *)
(***************************************************************************)
THEOREM ExclusionCorrect == Spec => []DeviceExclusive
<1>1. MutexInv => DeviceExclusive
  BY DEF MutexInv, DeviceExclusive
<1> QED BY <1>1, MutexCorrect, PTL

-----------------------------------------------------------------------------
(* What the device records. *)

(* A step that leaves the log and the messages in it as they are. *)
LEMMA RecordKept ==
  ASSUME CommandsAreMessages, UNCHANGED <<log, pending>>,
         \A c \in Clients : Written(c) => Written(c)' /\ full_buf'[c] = full_buf[c]
  PROVE  CommandsAreMessages'
<1>1. PICK by \in Injection(DOMAIN log, Clients) :
        \A i \in DOMAIN log : Written(by[i]) /\ log[i] = full_buf[by[i]]
  BY DEF CommandsAreMessages
<1>2. by \in [DOMAIN log -> Clients]
  BY DEF Injection
<1>3. \A i \in DOMAIN log' : Written(by[i])' /\ log'[i] = full_buf'[by[i]]
  BY <1>1, <1>2
<1>4. by \in Injection(DOMAIN log', Clients) /\ pending' = <<>>
  BY DEF CommandsAreMessages
<1> QED BY <1>3, <1>4 DEF CommandsAreMessages

(***************************************************************************)
(* A write adds one command, the whole message of a thread that has not    *)
(* written before, and drops the oldest when there are N.                  *)
(***************************************************************************)
LEMMA RecordWrite ==
  ASSUME TypeInv, CommandsAreMessages, NEW c \in Clients, WriteDevice(c),
         Dev!Write(c, full_buf[c])
  PROVE  CommandsAreMessages'
<1> DEFINE m == full_buf[c]
           s == Append(log, m)
<1>1. /\ thread[c] = "write" /\ m \in Seq(Bytes) /\ m # <<>> /\ Ended(m)
      /\ log \in Seq(Seq(Bytes)) /\ pending = <<>>
  BY DEF WriteDevice, At, TypeInv, TypeOK, BufferInv, BufferAt, Receiving,
         CommandsAreMessages
<1>2. Dev!Complete(m)
  BY <1>1 DEF Dev!Complete, Ended
<1>3. log' = Dev!LastN(s) /\ pending' = <<>>
  BY <1>1, <1>2 DEF Dev!Write
<1> HIDE DEF m
<1>4. PICK n \in Nat : n = Len(log) /\ DOMAIN log = 1 .. n
  BY <1>1
<1>5. /\ s \in Seq(Seq(Bytes)) /\ Len(s) = n + 1
      /\ \A i \in 1 .. n : s[i] = log[i]
      /\ s[n+1] = m
  BY <1>1, <1>4
<1> HIDE DEF s
<1>6. PICK by \in Injection(1 .. n, Clients) :
        \A i \in 1 .. n : Written(by[i]) /\ log[i] = full_buf[by[i]]
  BY <1>4 DEF CommandsAreMessages
<1>7. /\ by \in [1 .. n -> Clients]
      /\ \A i, j \in 1 .. n : by[i] = by[j] => i = j
      /\ \A i \in 1 .. n : by[i] # c
  BY <1>1, <1>6 DEF Injection, IsInjective, Written
<1>8. PICK k \in Nat, shift \in Nat :
        /\ DOMAIN log' = 1 .. k
        /\ \A i \in 1 .. k : i + shift \in 1 .. n + 1 /\ log'[i] = s[i + shift]
  <2>1. N \in Nat /\ N > 0
    BY SizesAssumption
  <2>2. CASE n + 1 > N
    <3>1. Len(s) > N /\ Len(s) - N \in Nat /\ DOMAIN s = 1 .. n + 1
      BY <1>5, <2>1, <2>2
    <3>2. /\ DOMAIN Dev!LastN(s) = 1 .. N
          /\ \A i \in 1 .. N : /\ i + (Len(s) - N) \in DOMAIN s
                               /\ Dev!LastN(s)[i] = s[i + (Len(s) - N)]
      BY <1>5, <3>1, LastNType
    <3> QED BY <1>3, <2>1, <3>1, <3>2
  <2>3. CASE ~ (n + 1 > N)
    <3>1. Dev!LastN(s) = s /\ DOMAIN s = 1 .. n + 1
      BY <1>5, <2>1, <2>3 DEF Dev!LastN
    <3>2. \A i \in 1 .. n + 1 : i + 0 = i
      OBVIOUS
    <3> QED BY <1>3, <3>1, <3>2
  <2> QED BY <2>2, <2>3
<1> DEFINE whose(j) == IF j = n + 1 THEN c ELSE by[j]
           by2 == [i \in 1 .. k |-> whose(i + shift)]
<1>9. \A j \in 1 .. n + 1 :
        /\ whose(j) \in Clients
        /\ s[j] = full_buf[whose(j)]
        /\ whose(j) = c \/ Written(whose(j))
        /\ \A i \in 1 .. n + 1 : whose(i) = whose(j) => i = j
  <2>1. \A j \in 1 .. n + 1 : j = n + 1 \/ j \in 1 .. n
    OBVIOUS
  <2> QED BY <1>4, <1>5, <1>6, <1>7, <2>1 DEF m
<1>10. /\ Written(c)'
       /\ \A d \in Clients : Written(d) => Written(d)'
       /\ UNCHANGED full_buf
  BY DEF WriteDevice, Goto, Written, TypeInv, TypeOK
<1> HIDE DEF whose
<1>11. by2 \in [1 .. k -> Clients]
  BY <1>8, <1>9
<1>12. \A i, j \in 1 .. k : by2[i] = by2[j] => i = j
  <2> SUFFICES ASSUME NEW i \in 1 .. k, NEW j \in 1 .. k, by2[i] = by2[j]
               PROVE  i = j
    OBVIOUS
  <2>1. i + shift \in 1 .. n + 1 /\ j + shift \in 1 .. n + 1
        /\ whose(i + shift) = whose(j + shift)
    BY <1>8
  <2>2. i + shift = j + shift
    BY <1>9, <2>1
  <2> QED BY <2>2
<1>13. \A i \in 1 .. k : Written(by2[i])' /\ log'[i] = full_buf'[by2[i]]
  <2> SUFFICES ASSUME NEW i \in 1 .. k
               PROVE  Written(by2[i])' /\ log'[i] = full_buf'[by2[i]]
    OBVIOUS
  <2>1. i + shift \in 1 .. n + 1 /\ log'[i] = s[i + shift] /\ by2[i] = whose(i + shift)
    BY <1>8
  <2>2. /\ by2[i] \in Clients /\ log'[i] = full_buf[by2[i]]
        /\ by2[i] = c \/ Written(by2[i])
    BY <1>9, <2>1
  <2> QED BY <1>10, <2>2
<1> HIDE DEF by2
<1>14. by2 \in Injection(DOMAIN log', Clients)
  BY <1>8, <1>11, <1>12 DEF Injection, IsInjective
<1> QED BY <1>3, <1>8, <1>13, <1>14 DEF CommandsAreMessages

(* Only whole messages are written to the device. *)
LEMMA RecordStep ==
  ASSUME TypeInv, ListInv, CommandsAreMessages, [Next]_vars
  PROVE  CommandsAreMessages'
<1>1. CASE OtherStep
  <2>1. /\ UNCHANGED <<full_buf, log, pending>>
        /\ thread' = thread \/ CreateThread
    BY <1>1, OtherSteps
  <2>2. CreateThread => /\ main.cur \in Clients /\ thread[main.cur] = "none"
                        /\ thread' = [thread EXCEPT ![main.cur] = "recv"]
    BY DEF CreateThread, Create, TypeInv, TypeOK, ListInv, Fresh
  <2>3. \A c \in Clients : Written(c) => Written(c)'
    BY <2>1, <2>2 DEF Written, TypeInv, TypeOK
  <2> QED BY <2>1, <2>3, RecordKept
<1>2. ASSUME NEW c \in Clients, threadfunc(c) PROVE CommandsAreMessages'
  <2>1. \A pc : Goto(c, pc) => /\ thread'[c] = pc
                               /\ \A d \in Clients : d # c => thread'[d] = thread[d]
    BY DEF Goto, TypeInv, TypeOK
  <2>2. CASE Recv(c) \/ Terminate(c)
    <3>1. /\ UNCHANGED <<log, pending>> /\ ~ Written(c)
          /\ \A d \in Clients : d # c => full_buf'[d] = full_buf[d]
          /\ \E pc : Goto(c, pc)
      BY <2>2 DEF Recv, Terminate, At, Written, device, TypeInv, TypeOK
    <3>2. \A d \in Clients : Written(d) => Written(d)' /\ full_buf'[d] = full_buf[d]
      BY <2>1, <3>1 DEF Written
    <3> QED BY <3>1, <3>2, RecordKept
  <2>3. CASE WriteDevice(c) /\ Dev!Write(c, full_buf[c])
    BY <2>3, RecordWrite
  <2>4. CASE ~ Recv(c) /\ ~ Terminate(c) /\ ~ (WriteDevice(c) /\ Dev!Write(c, full_buf[c]))
    <3>1. UNCHANGED full_buf
      BY <1>2, <2>4 DEF threadfunc, RecvEnd, LockFile, OpenDevice, OpenFails,
         WriteDevice, Reopen, SeekDevice, ReadDevice, Send, CloseDevice, CompleteThread
    <3>2. UNCHANGED <<log, pending>>
      BY <1>2, <2>4 DEF threadfunc, RecvEnd, LockFile, OpenDevice, OpenFails,
         WriteDevice, Reopen, SeekDevice, ReadDevice, Send, CloseDevice, CompleteThread,
         device, Dev!Fail, Dev!SeekTo, Dev!Read, Dev!Return
    <3>3. Written(c) => \E pc \in {"read", "send", "close", "complete", "exit"} : Goto(c, pc)
      <4>1. CASE Written(c) /\ (OpenFails(c) \/ Reopen(c) \/ SeekDevice(c) \/ ReadDevice(c))
        BY <4>1 DEF OpenFails, Reopen, SeekDevice, ReadDevice
      <4>2. CASE Written(c) /\ (Send(c) \/ CloseDevice(c) \/ CompleteThread(c))
        BY <4>2 DEF Send, CloseDevice, CompleteThread
      <4>3. RecvEnd(c) \/ LockFile(c) \/ OpenDevice(c) \/ WriteDevice(c) => ~ Written(c)
        BY DEF RecvEnd, LockFile, OpenDevice, WriteDevice, At, Written
      <4> QED BY <1>2, <2>4, <4>1, <4>2, <4>3 DEF threadfunc
    <3>4. \E pc : Goto(c, pc)
      BY <1>2, ThreadMoves, ZenonT(60) DEF Goto
    <3>5. \A d \in Clients : Written(d) => Written(d)'
      BY <2>1, <3>3, <3>4 DEF Written
    <3> QED BY <3>1, <3>2, <3>5, RecordKept
  <2> QED BY <2>2, <2>3, <2>4
<1>3. CASE UNCHANGED vars
  BY <1>3, RecordKept DEF vars, Written
<1> QED BY <1>1, <1>2, <1>3 DEF Next, OtherStep

-----------------------------------------------------------------------------
(* What is received of a short message. *)

(***************************************************************************)
(* Nothing of a message shorter than full_buf is lost while its client     *)
(* stays: what was received and what is still to arrive make it up, until  *)
(* its newline is there.                                                   *)
(***************************************************************************)
ShortAt(pc, r, m) ==
  r.here /\ Len(r.message) < BufSize =>
    /\ pc = "none" /\ r.state # "closed" => r.inbox = r.message
    /\ pc = "recv" => r.message = m \o r.inbox /\ ~ HasNewline(m)
    /\ pc = "terminate" => IsPrefix(m, r.message) /\ HasNewline(m)
    /\ pc = "lock" => IsPrefix(UpToNewline(r.message), m)

ShortInv == \A c \in Clients : ShortAt(thread[c], conn[c], full_buf[c])

(* What holds a message's first newline holds what comes before it. *)
LEMMA UpToNewlinePrefix ==
  ASSUME NEW m \in Seq(Bytes), NEW p \in Seq(Bytes), NEW q \in Seq(Bytes),
         IsPrefix(p, m), IsPrefix(p, q), HasNewline(p)
  PROVE  IsPrefix(UpToNewline(m), q)
<1>1. PICK n \in Nat, l \in Nat :
        /\ Len(p) = n /\ DOMAIN p = 1 .. n /\ n <= l
        /\ Len(m) = l /\ DOMAIN m = 1 .. l
        /\ n <= Len(q) /\ Len(q) \in Nat
        /\ \A i \in 1 .. n : p[i] = m[i] /\ p[i] = q[i]
  BY PrefixMeans
<1> DEFINE I == {i \in 1 .. n : p[i] = Newline}
<1>2. I \subseteq Nat /\ I # {}
  BY <1>1 DEF HasNewline
<1>3. PICK k \in I : \A y \in I : k <= y
  BY <1>2, LeastNumber
<1>4. /\ k \in 1 .. n /\ k \in 1 .. l /\ m[k] = Newline
      /\ \A j \in 1 .. k-1 : m[j] # Newline
  <2>1. k \in 1 .. n /\ p[k] = Newline
    BY <1>3
  <2>2. \A j \in 1 .. k-1 : j \in 1 .. n /\ ~ (k <= j)
    BY <2>1
  <2> QED BY <1>1, <1>3, <2>1, <2>2
<1> HIDE DEF I
<1> DEFINE first(i) == m[i] = Newline /\ \A j \in 1 .. i-1 : m[j] # Newline
           f == CHOOSE i \in 1 .. l : first(i)
<1>5. f \in 1 .. l /\ first(f)
  BY <1>4
<1>6. UpToNewline(m) = SubSeq(m, 1, f)
  BY <1>1, <1>4 DEF UpToNewline, HasNewline
<1> HIDE DEF f
<1>7. f <= k
  <2>1. ~ (k \in 1 .. f-1)
    BY <1>4, <1>5
  <2> QED BY <1>4, <1>5, <2>1
<1> HIDE DEF first
<1>8. /\ SubSeq(m, 1, f) \in Seq(Bytes) /\ Len(SubSeq(m, 1, f)) = f
      /\ \A i \in 1 .. f : SubSeq(m, 1, f)[i] = m[i]
  BY <1>1, <1>5
<1>9. \A i \in 1 .. f : SubSeq(m, 1, f)[i] = q[i]
  <2>1. \A i \in 1 .. f : i \in 1 .. n
    BY <1>4, <1>5, <1>7
  <2> QED BY <1>1, <1>8, <2>1
<1>10. f <= Len(q)
  BY <1>1, <1>4, <1>5, <1>7
<1> QED BY <1>6, <1>8, <1>9, <1>10, PrefixMeans

(* The invariant of short messages, initially. *)
LEMMA ShortInit == Init => ShortInv
BY DEF Init, ShortInv, ShortAt

(* Concatenation is associative. *)
LEMMA Concat3 ==
  ASSUME NEW S, NEW a \in Seq(S), NEW b \in Seq(S), NEW c \in Seq(S)
  PROVE  /\ a \o (b \o c) = (a \o b) \o c
         /\ Len(a \o (b \o c)) = Len(a) + Len(b) + Len(c)
         /\ Len(c) \in Nat
<1>1. b \o c \in Seq(S) /\ Len(b \o c) = Len(b) + Len(c)
  OBVIOUS
<1>2. Len(a \o (b \o c)) = Len(a) + Len(b \o c)
  BY <1>1
<1>3. (a \o b) \o c = a \o (b \o c)
  BY ConcatAssociative
<1> QED BY <1>1, <1>2, <1>3

(* A recv of a short message loses no byte. *)
LEMMA ShortRecv ==
  ASSUME TypeInv, ShortInv, NEW c \in Clients, Recv(c) PROVE ShortInv'
<1>1. PICK n \in 1 .. Chunk :
        LET d == SubSeq(conn[c].inbox, 1, n)
        IN  /\ n <= Len(conn[c].inbox)
            /\ full_buf' = IF Fits(c, d) THEN [full_buf EXCEPT ![c] = @ \o d]
                                         ELSE full_buf
            /\ conn' = [conn EXCEPT ![c].inbox = SubSeq(@, n + 1, Len(@))]
            /\ Goto(c, IF HasNewline(d) THEN "terminate" ELSE "recv")
  BY DEF Recv
<1> DEFINE inbox == conn[c].inbox
           d == SubSeq(inbox, 1, n)
           rest == SubSeq(inbox, n + 1, Len(inbox))
           m == full_buf[c]
           message == conn[c].message
           pc == IF HasNewline(d) THEN "terminate" ELSE "recv"
<1>2. /\ inbox \in Seq(Bytes) /\ m \in Seq(Bytes) /\ message \in Seq(Bytes)
      /\ thread[c] = "recv" /\ n \in Nat /\ n > 0 /\ n <= Len(inbox)
      /\ thread \in [Clients -> ThreadStates] /\ conn \in [Clients -> Connections]
      /\ full_buf \in [Clients -> Seq(Bytes)]
  <2>1. thread[c] = "recv" /\ n \in Nat /\ n > 0 /\ n <= Len(inbox)
    BY <1>1, SizesAssumption DEF Recv, At
  <2>2. conn[c] \in Connections /\ conn \in [Clients -> Connections]
        /\ m \in Seq(Bytes) /\ full_buf \in [Clients -> Seq(Bytes)]
        /\ thread \in [Clients -> ThreadStates]
    BY DEF TypeInv, TypeOK
  <2>3. inbox \in Seq(Bytes) /\ message \in Seq(Bytes)
    BY <2>2 DEF Connections
  <2> QED BY <2>1, <2>2, <2>3
<1>3. /\ d \in Seq(Bytes) /\ Len(d) = n /\ DOMAIN d = 1 .. n
      /\ rest \in Seq(Bytes)
      /\ inbox = d \o rest
  BY <1>2
<1>4. /\ \A e \in Clients : e # c => /\ thread'[e] = thread[e]
                                     /\ conn'[e] = conn[e]
                                     /\ full_buf'[e] = full_buf[e]
      /\ thread'[c] = pc
      /\ conn'[c].here = conn[c].here /\ conn'[c].message = message
      /\ conn'[c].inbox = rest
      /\ full_buf'[c] = IF Fits(c, d) THEN m \o d ELSE m
  BY <1>1, <1>2 DEF Goto, Connections
<1> HIDE DEF d, rest, inbox, m, message
<1>5. ASSUME conn[c].here, Len(message) < BufSize
      PROVE  /\ full_buf'[c] = m \o d
             /\ message = (m \o d) \o rest
             /\ HasNewline(m \o d) <=> HasNewline(d)
             /\ IsPrefix(m \o d, message)
             /\ m \o d \in Seq(Bytes)
  <2>1. message = m \o inbox /\ ~ HasNewline(m)
    BY <1>2, <1>5 DEF ShortInv, ShortAt, inbox, m, message
  <2>0. /\ message = (m \o d) \o rest
        /\ Len(message) = Len(m) + Len(d) + Len(rest) /\ Len(rest) \in Nat
    <3>1. m \in Seq(Bytes) /\ d \in Seq(Bytes) /\ rest \in Seq(Bytes)
      BY <1>2, <1>3
    <3>2. message = m \o (d \o rest)
      BY <1>3, <2>1
    <3> QED BY <3>1, <3>2, Concat3
  <2>2. /\ m \o d \in Seq(Bytes) /\ Len(m \o d) = Len(m) + n /\ Len(m) \in Nat
        /\ \A i \in 1 .. Len(m) + n :
             (m \o d)[i] = IF i <= Len(m) THEN m[i] ELSE d[i - Len(m)]
    <3>1. m \in Seq(Bytes) /\ d \in Seq(Bytes) /\ Len(m) \in Nat
      BY <1>2, <1>3
    <3>2. /\ m \o d \in Seq(Bytes) /\ Len(m \o d) = Len(m) + Len(d)
          /\ \A i \in 1 .. Len(m) + Len(d) :
               (m \o d)[i] = IF i <= Len(m) THEN m[i] ELSE d[i - Len(m)]
      BY <3>1, ConcatProperties
    <3> QED BY <1>3, <3>1, <3>2, Zenon
  <2>3. message = (m \o d) \o rest
    BY <2>0
  <2>4. Len(message) = Len(m) + n + Len(rest) /\ Len(rest) \in Nat
    BY <1>3, <2>0
  <2>5. Fits(c, d)
    <3>1. Len(m) \in Nat /\ Len(d) \in Nat /\ BufSize \in Nat
      BY <1>2, <1>3, SizesAssumption
    <3>2. Len(m) + Len(d) < BufSize
      BY <1>5, <2>0, <3>1
    <3> QED BY <3>2 DEF Fits, m
  <2>6. HasNewline(m \o d) <=> HasNewline(d)
    <3>1. ASSUME NEW i \in 1 .. n PROVE (m \o d)[i + Len(m)] = d[i]
      <4>1. i + Len(m) \in 1 .. Len(m) + n /\ ~ (i + Len(m) <= Len(m))
            /\ (i + Len(m)) - Len(m) = i
        BY <1>2, <2>2
      <4> QED BY <2>2, <4>1
    <3>2. \A i \in 1 .. n : i + Len(m) \in DOMAIN (m \o d)
      BY <1>2, <2>2
    <3>3. ASSUME HasNewline(m \o d) PROVE HasNewline(d)
      <4>1. PICK i \in 1 .. Len(m) + n : (m \o d)[i] = Newline
        BY <2>2, <3>3 DEF HasNewline
      <4>2. CASE i <= Len(m)
        <5>1. i \in DOMAIN m /\ m[i] = Newline
          BY <1>2, <2>2, <4>1, <4>2
        <5> QED BY <2>1, <5>1 DEF HasNewline
      <4>3. CASE ~ (i <= Len(m))
        <5>1. i - Len(m) \in 1 .. n /\ d[i - Len(m)] = Newline
          BY <1>2, <2>2, <4>1, <4>3
        <5> QED BY <1>3, <5>1 DEF HasNewline
      <4> QED BY <4>2, <4>3
    <3> QED BY <1>3, <3>1, <3>2, <3>3 DEF HasNewline
  <2>7. IsPrefix(m \o d, message)
    <3> DEFINE p == m \o d
    <3>1. PICK l \in Nat : l = Len(p)
      BY <2>2
    <3>2. p \in Seq(Bytes) /\ message = p \o rest /\ Len(rest) \in Nat
      BY <2>2, <2>3, <2>4
    <3> HIDE DEF p
    <3>3. \A i \in 1 .. l : p[i] = message[i]
      <4>1. \A i \in 1 .. l + Len(rest) : (p \o rest)[i] = IF i <= l THEN p[i] ELSE rest[i - l]
        BY <1>3, <3>1, <3>2, ConcatProperties
      <4>2. \A i \in 1 .. l : i <= l /\ i \in 1 .. l + Len(rest)
        BY <3>1, <3>2
      <4> QED BY <3>2, <4>1, <4>2
    <3>4. Len(p) <= Len(message)
      BY <1>2, <2>2, <2>4 DEF p
    <3>5. IsPrefix(p, message)
      BY <1>2, <3>1, <3>2, <3>3, <3>4, PrefixMeans
    <3> QED BY <3>5 DEF p
  <2> QED BY <1>4, <2>2, <2>3, <2>5, <2>6, <2>7
<1>6. ShortAt(thread'[c], conn'[c], full_buf'[c])
  <2>1. pc \in {"terminate", "recv"} /\ (pc = "recv" <=> ~ HasNewline(d))
    OBVIOUS
  <2> HIDE DEF pc
  <2> QED BY <1>4, <1>5, <2>1 DEF ShortAt
<1>7. \A e \in Clients : ShortAt(thread'[e], conn'[e], full_buf'[e])
  BY <1>4, <1>6 DEF ShortInv
<1> QED BY <1>7 DEF ShortInv, ShortAt, HasNewline, UpToNewline

(* A short message is whole when it is terminated. *)
LEMMA ShortTerminate ==
  ASSUME TypeInv, ShortInv, NEW c \in Clients, Terminate(c) PROVE ShortInv'
<1> DEFINE m == full_buf[c]
           t == Terminated(m)
           message == conn[c].message
<1>1. /\ m \in Seq(Bytes) /\ message \in Seq(Bytes) /\ thread[c] = "terminate"
      /\ Newline \in Bytes
  BY DEF TypeInv, TypeOK, Connections, Terminate, At, Bytes
<1>2. /\ \A e \in Clients : e # c => /\ thread'[e] = thread[e]
                                     /\ full_buf'[e] = full_buf[e]
      /\ thread'[c] = "lock" /\ full_buf'[c] = t /\ UNCHANGED conn
  BY DEF Terminate, Goto, TypeInv, TypeOK
<1>3. t \in Seq(Bytes) /\ IsPrefix(m, t)
  <2>1. PICK n \in Nat : n = Len(m)
    BY <1>1
  <2>2. CASE m # <<>> /\ m[Len(m)] # Newline
    <3>1. t = Append(m, Newline)
      BY <2>2 DEF Terminated
    <3>2. t \in Seq(Bytes) /\ Len(t) = n + 1 /\ \A i \in 1 .. n : t[i] = m[i]
      BY <1>1, <2>1, <3>1
    <3> HIDE DEF t, m
    <3> QED BY <1>1, <2>1, <3>2, PrefixMeans
  <2>3. CASE ~ (m # <<>> /\ m[Len(m)] # Newline)
    <3>1. t = m
      BY <2>3 DEF Terminated
    <3> HIDE DEF t, m
    <3> QED BY <1>1, <2>1, <3>1, PrefixMeans
  <2> QED BY <2>2, <2>3
<1>4. conn[c].here /\ Len(message) < BufSize => IsPrefix(m, message) /\ HasNewline(m)
  BY <1>1 DEF ShortInv, ShortAt
<1> HIDE DEF t, m, message
<1>5. conn[c].here /\ Len(message) < BufSize => IsPrefix(UpToNewline(message), t)
  BY <1>1, <1>3, <1>4, UpToNewlinePrefix
<1>6. ShortAt(thread'[c], conn'[c], full_buf'[c])
  BY <1>2, <1>5 DEF ShortAt, message
<1>7. \A e \in Clients : ShortAt(thread'[e], conn'[e], full_buf'[e])
  BY <1>2, <1>6 DEF ShortInv
<1> QED BY <1>7 DEF ShortInv, ShortAt, HasNewline, UpToNewline

(* What the steps of main and of the clients do to a connection. *)
LEMMA OtherConn ==
  ASSUME TypeInv, ListInv, OtherStep, NEW c \in Clients
  PROVE  \/ ~ conn'[c].here
         \/ thread[c] = "none" /\ conn'[c].state = "closed"
         \/ /\ conn'[c].here = conn[c].here
            /\ conn'[c].message = conn[c].message
            /\ conn'[c].inbox = conn[c].inbox
            /\ conn[c].state = "closed" => conn'[c].state = "closed"
<1>1. conn \in [Clients -> Connections]
  BY DEF TypeInv, TypeOK
<1>2. CASE KilledEarly \/ signal_handler
  BY <1>2 DEF KilledEarly, signal_handler
<1>3. CASE Main
  <2>1. CASE UNCHANGED conn
    BY <2>1
  <2>2. CASE NoMemory
    <3>1. main.cur \in Clients /\ CloseConn(main.cur) /\ thread[main.cur] = "none"
      BY <2>2 DEF NoMemory, TypeInv, TypeOK, ListInv, Fresh
    <3> QED BY <1>1, <3>1 DEF CloseConn, Connections
  <2>3. CASE \E d \in Clients : Accept(d)
    BY <1>1, <2>3 DEF Accept, Connections
  <2>4. UNCHANGED conn \/ NoMemory \/ \E d \in Clients : Accept(d)
    BY <1>3 DEF Main, InstallHandlers, GetAddress, CreateSocket, Bind, Daemon, Listen,
       SetUp, CheckSignal, AcceptBlocks, AcceptFails, CreateFails,
       CreateThread, Create, ReapVisit, Join, JoinRemaining, JoinGarbage, Release, Exit
  <2> QED BY <2>1, <2>2, <2>3, <2>4
<1>4. CASE \E d \in Clients : Connect(d)
  BY <1>1, <1>4 DEF Connect, Connections
<1>5. CASE \E d \in Clients : HangUp(d)
  BY <1>1, <1>5 DEF HangUp, Connections
<1> QED BY <1>2, <1>3, <1>4, <1>5 DEF OtherStep

(* Each step keeps the invariant of short messages. *)
LEMMA ShortStep ==
  ASSUME TypeInv, ListInv, ShortInv, [Next]_vars PROVE ShortInv'
<1>1. CASE OtherStep
  <2>1. UNCHANGED full_buf /\ (thread' = thread \/ CreateThread)
    BY <1>1, OtherSteps
  <2>2. CASE thread' = thread
    <3>1. ASSUME NEW c \in Clients
          PROVE  ShortAt(thread'[c], conn'[c], full_buf'[c])
      <4>1. ShortAt(thread[c], conn[c], full_buf[c])
        BY DEF ShortInv
      <4> QED BY <1>1, <2>1, <2>2, <4>1, OtherConn DEF ShortAt
    <3> QED BY <3>1 DEF ShortInv, ShortAt, HasNewline, UpToNewline
  <2>3. CASE CreateThread
    <3> DEFINE d == main.cur
    <3>1. /\ d \in Clients /\ thread[d] = "none" /\ conn[d].state = "open"
          /\ thread' = [thread EXCEPT ![d] = "recv"] /\ UNCHANGED conn
          /\ thread \in [Clients -> ThreadStates]
      BY <2>3 DEF CreateThread, Create, TypeInv, TypeOK, ListInv, Fresh
    <3>2. /\ full_buf[d] = <<>> /\ conn[d].message \in Seq(Bytes)
          /\ conn[d].inbox \in Seq(Bytes)
      BY <3>1 DEF TypeInv, TypeOK, BufferInv, BufferAt, Connections
    <3> HIDE DEF d
    <3>3. ShortAt("none", conn[d], full_buf[d])
      BY <3>1 DEF ShortInv
    <3>4. ~ HasNewline(<<>>) /\ <<>> \o conn[d].inbox = conn[d].inbox
      BY <3>2 DEF HasNewline
    <3>5. ShortAt("recv", conn[d], full_buf[d])
      BY <3>1, <3>2, <3>3, <3>4 DEF ShortAt
    <3>6. \A c \in Clients : ShortAt(thread'[c], conn'[c], full_buf'[c])
      BY <2>1, <3>1, <3>5 DEF ShortInv
    <3> QED BY <3>6 DEF ShortInv, ShortAt, HasNewline, UpToNewline
  <2> QED BY <2>1, <2>2, <2>3
<1>2. ASSUME NEW c \in Clients, threadfunc(c) PROVE ShortInv'
  <2>1. CASE Recv(c)
    BY <2>1, ShortRecv
  <2>2. CASE Terminate(c)
    BY <2>2, ShortTerminate
  <2>3. CASE RecvEnd(c)
    <3>1. /\ ~ conn[c].here /\ UNCHANGED <<conn, full_buf>>
          /\ \A d \in Clients : d # c => thread'[d] = thread[d]
      BY <2>3 DEF RecvEnd, Goto, TypeInv, TypeOK
    <3>2. \A d \in Clients : ShortAt(thread'[d], conn'[d], full_buf'[d])
      BY <3>1 DEF ShortInv, ShortAt
    <3> QED BY <3>2 DEF ShortInv, ShortAt, HasNewline, UpToNewline
  <2>4. CASE ~ Recv(c) /\ ~ Terminate(c) /\ ~ RecvEnd(c)
    <3>1. PICK pc \in ThreadStates \ {"none"} : thread' = [thread EXCEPT ![c] = pc]
      BY <1>2, ThreadMoves
    <3>2. thread'[c] \notin {"none", "recv", "terminate", "lock"}
      <4>1. CASE LockFile(c) \/ OpenDevice(c) \/ OpenFails(c) \/ WriteDevice(c)
        BY <4>1 DEF LockFile, OpenDevice, OpenFails, WriteDevice, Goto, TypeInv, TypeOK
      <4>2. CASE Reopen(c) \/ SeekDevice(c) \/ ReadDevice(c) \/ CloseDevice(c)
                 \/ CompleteThread(c)
        BY <4>2 DEF Reopen, SeekDevice, ReadDevice, CloseDevice, CompleteThread, Goto,
           TypeInv, TypeOK
      <4>3. CASE Send(c)
        <5>1. Goto(c, "close") \/ Goto(c, "read")
          BY <4>3 DEF Send
        <5> QED BY <5>1 DEF Goto, TypeInv, TypeOK
      <4> QED BY <1>2, <2>4, <4>1, <4>2, <4>3 DEF threadfunc
    <3>3. UNCHANGED full_buf
      BY <1>2, <2>4 DEF threadfunc, LockFile, OpenDevice, OpenFails,
         WriteDevice, Reopen, SeekDevice, ReadDevice, Send, CloseDevice, CompleteThread
    <3>4. \A d \in Clients : d # c => conn'[d] = conn[d]
      <4>1. UNCHANGED conn \/ CloseConn(c)
        BY <1>2, <2>4 DEF threadfunc, LockFile, OpenDevice, OpenFails,
           WriteDevice, Reopen, SeekDevice, ReadDevice, Send, CloseDevice, CompleteThread
      <4> QED BY <4>1 DEF CloseConn, TypeInv, TypeOK
    <3>5. \A d \in Clients : d # c => thread'[d] = thread[d]
      BY <3>1 DEF TypeInv, TypeOK
    <3>6. \A d \in Clients : ShortAt(thread'[d], conn'[d], full_buf'[d])
      BY <3>2, <3>3, <3>4, <3>5 DEF ShortInv, ShortAt
    <3> QED BY <3>6 DEF ShortInv, ShortAt, HasNewline, UpToNewline
  <2> QED BY <2>1, <2>2, <2>3, <2>4
<1>3. CASE UNCHANGED vars
  BY <1>3 DEF vars, ShortInv, ShortAt, HasNewline, UpToNewline
<1> QED BY <1>1, <1>2, <1>3 DEF Next, OtherStep

(***************************************************************************)
(* What the device records are whole messages of the clients, each at most *)
(* once and none mixed with another's, and a message shorter than full_buf *)
(* is there to its newline, however recv cuts it up                        *)
(* (aesdsocket.c:81-100).                                                  *)
(***************************************************************************)
THEOREM MessagesCorrect == Spec => []MessagesRecorded
<1>1. Init => CommandsAreMessages /\ ShortInv
  <2>1. Init => CommandsAreMessages
    <3> SUFFICES ASSUME Init PROVE CommandsAreMessages
      OBVIOUS
    <3>1. log = <<>> /\ pending = <<>>
      BY DEF Init, Dev!Init
    <3>2. DOMAIN log = {} /\ [i \in {} |-> NoClient] \in Injection({}, Clients)
      BY <3>1 DEF Injection, IsInjective
    <3> QED BY <3>1, <3>2 DEF CommandsAreMessages
  <2> QED BY <2>1, ShortInit
<1>2. /\ TypeInv /\ ListInv /\ CommandsAreMessages /\ ShortInv /\ [Next]_vars
      => CommandsAreMessages' /\ ShortInv'
  BY RecordStep, ShortStep
<1>3. CommandsAreMessages /\ ShortInv => MessagesRecorded
  BY DEF MessagesRecorded, ShortMessageWhole, ShortInv, ShortAt
<1> QED BY <1>1, <1>2, <1>3, TypeListInv, PTL DEF Spec

-----------------------------------------------------------------------------
(* What the clients are sent. *)

(***************************************************************************)
(* Where the reading back starts: at the place a seek goes to, when the    *)
(* log has it, and at 0 in the copy of the server that opens the device    *)
(* anew after its write.                                                   *)
(***************************************************************************)
Exact(c) ==
  LET args == SeekArgs[full_buf[c][1]]
  IN  IF IsSeek(full_buf[c])
        THEN args # <<>> /\ args[1] < Len(log) /\ args[2] < Len(log[args[1] + 1])
        ELSE Meta

From(c) ==
  LET args == SeekArgs[full_buf[c][1]]
  IN  IF IsSeek(full_buf[c]) THEN SizeOf(SubSeq(log, 1, args[1])) + args[2] ELSE 0

(* Where a read that starts at fpos ends. *)
ReadEnd(c) ==
  IF fpos[c] + Chunk < Len(Dev!Stream) THEN fpos[c] + Chunk ELSE Len(Dev!Stream)

(* What a client has been sent is the stream from there to the position.   *)
Unsent == {"none", "recv", "terminate", "lock", "open", "write", "ioctl", "reopen"}
ReadAt(c) ==
  /\ thread[c] \in Unsent => received[c] = <<>>
  /\ thread[c] \in {"read", "send"} /\ conn[c].here /\ Exact(c)
       => /\ fpos[c] \in Nat /\ From(c) <= fpos[c] /\ fpos[c] <= Len(Dev!Stream)
          /\ received[c] = SubSeq(Dev!Stream, From(c) + 1, fpos[c])
  /\ thread[c] = "send"
       => \/ answer[c] = <<"error">>
          \/ answer[c] = <<"read", fpos[c], SubSeq(Dev!Stream, fpos[c] + 1, ReadEnd(c))>>
ReadInv == \A c \in Clients : ReadAt(c)

(* The place a reply starts from is a position of the device. *)
LEMMA FromType ==
  ASSUME TypeInv, NEW c \in Clients, Exact(c)
  PROVE  From(c) \in Nat /\ From(c) <= Len(Dev!Stream)
<1>1. CASE IsSeek(full_buf[c])
  <2> DEFINE args == SeekArgs[full_buf[c][1]]
  <2>1. args \in Nat \X Nat
    BY <1>1, SeekArgsAssumption DEF Exact, IsSeek
  <2>2. args[1] \in Nat /\ args[2] \in Nat
        /\ args[1] < Len(log) /\ args[2] < Len(log[args[1] + 1])
    BY <1>1, <2>1 DEF Exact
  <2>3. From(c) = SizeOf(SubSeq(log, 1, args[1])) + args[2]
    BY <1>1 DEF From
  <2> HIDE DEF args
  <2> QED BY <2>2, <2>3, SeekTargetsType DEF TypeInv
<1>2. CASE ~ IsSeek(full_buf[c])
  BY <1>2, StreamType DEF From, TypeInv
<1> QED BY <1>1, <1>2

(* What is read of the device is kept by the steps that leave it alone.    *)
LEMMA ReadKept ==
  ASSUME NEW c, ReadAt(c), UNCHANGED log,
         thread'[c] = thread[c] \/ (thread[c] \in Unsent /\ thread'[c] \in Unsent),
         conn'[c].here => conn[c].here,
         received'[c] = received[c], fpos'[c] = fpos[c],
         answer'[c] = answer[c], full_buf'[c] = full_buf[c]
  PROVE  ReadAt(c)'
<1>1. Dev!Stream' = Dev!Stream
  BY DEF Dev!Stream
<1>2. Exact(c)' = Exact(c) /\ From(c)' = From(c) /\ ReadEnd(c)' = ReadEnd(c)
  BY <1>1 DEF Exact, From, ReadEnd, SizeOf, IsSeek
<1> QED BY <1>1, <1>2 DEF ReadAt, Unsent

(* The invariant of the replies, initially. *)
LEMMA ReadInit == Init => ReadInv
BY DEF Init, ReadInv, ReadAt

(* A thread does not disturb what another one reads. *)
LEMMA ReadOther ==
  ASSUME TypeInv, MutexInv, ReadInv, NEW c \in Clients, threadfunc(c),
         NEW d \in Clients, d # c
  PROVE  ReadAt(d)'
<1>1. /\ thread'[d] = thread[d] /\ conn'[d] = conn[d]
      /\ received'[d] = received[d] /\ fpos'[d] = fpos[d]
      /\ full_buf'[d] = full_buf[d] /\ answer'[d] = answer[d]
  <2>1. TypeOK
    BY DEF TypeInv
  <2>2. CASE Recv(c)
    BY <2>1, <2>2 DEF Recv, Goto, TypeOK, device
  <2>3. CASE RecvEnd(c) \/ Terminate(c) \/ LockFile(c) \/ CompleteThread(c)
    BY <2>1, <2>3 DEF RecvEnd, Terminate, LockFile, CompleteThread, Goto, TypeOK, device
  <2>4. CASE OpenFails(c) \/ CloseDevice(c)
    BY <2>1, <2>4 DEF OpenFails, CloseDevice, CloseConn, Goto, TypeOK, device
  <2>5. CASE OpenDevice(c) \/ Reopen(c)
    BY <2>1, <2>5 DEF OpenDevice, Reopen, Goto, TypeOK, device
  <2>6. CASE WriteDevice(c)
    BY <2>1, <2>6 DEF WriteDevice, Dev!Write, Dev!Fail, Dev!Answer, Goto, TypeOK
  <2>7. CASE SeekDevice(c)
    <3>1. /\ \/ \E pos : Dev!SeekTo(c, pos) /\ fpos' = [fpos EXCEPT ![c] = pos]
             \/ Dev!Fail(c) /\ UNCHANGED fpos
          /\ Goto(c, "read")
          /\ UNCHANGED <<conn, full_buf, received>>
      BY <2>7 DEF SeekDevice
    <3> QED BY <2>1, <3>1 DEF Dev!SeekTo, Dev!Fail, Dev!Answer, Goto, TypeOK
  <2>8. CASE ReadDevice(c)
    BY <2>1, <2>8 DEF ReadDevice, Dev!Read, Dev!Fail, Dev!Answer, Goto, TypeOK
  <2>9. CASE Send(c)
    <3> DEFINE data == IF answer[c][1] = "read" THEN answer[c][3] ELSE <<>>
    <3>1. /\ received' = received \/ received' = [received EXCEPT ![c] = @ \o data]
          /\ fpos' = fpos \/ fpos' = [fpos EXCEPT ![c] = @ + Len(data)]
          /\ Goto(c, "close") \/ Goto(c, "read")
          /\ Dev!Return(c) /\ UNCHANGED <<conn, full_buf>>
      BY <2>9 DEF Send
    <3> HIDE DEF data
    <3> QED BY <2>1, <3>1 DEF Dev!Return, Dev!Answer, Goto, TypeOK
  <2> QED BY <2>2, <2>3, <2>4, <2>5, <2>6, <2>7, <2>8, <2>9 DEF threadfunc
<1>2. CASE UNCHANGED log
  BY <1>1, <1>2, ReadKept DEF ReadInv
<1>3. CASE WriteDevice(c)
  <2>1. thread[c] \in Holding
    BY <1>3 DEF WriteDevice, At, Holding
  <2>2. thread[d] \notin {"read", "send"}
    BY <2>1 DEF MutexInv, Holding
  <2> QED BY <1>1, <2>2 DEF ReadInv, ReadAt
<1>4. UNCHANGED log \/ WriteDevice(c)
  BY DEF threadfunc, Recv, RecvEnd, Terminate, LockFile, OpenDevice, OpenFails,
     Reopen, SeekDevice, ReadDevice, Send, CloseDevice, CompleteThread,
     device, Dev!Fail, Dev!SeekTo, Dev!Read, Dev!Return
<1> QED BY <1>2, <1>3, <1>4

(* The reading starts. *)
LEMMA ReadStarts ==
  ASSUME TypeInv, NEW c \in Clients, received[c] = <<>>, UNCHANGED <<log, full_buf, received>>,
         thread'[c] = "read",
         Exact(c) => fpos'[c] = From(c)
  PROVE  ReadAt(c)'
<1>1. Dev!Stream' = Dev!Stream
  BY DEF Dev!Stream
<1>2. Exact(c)' = Exact(c) /\ From(c)' = From(c)
  BY <1>1 DEF Exact, From, SizeOf, IsSeek
<1>3. Exact(c) => /\ fpos'[c] \in Nat /\ fpos'[c] <= Len(Dev!Stream)
                  /\ From(c) <= fpos'[c]
                  /\ SubSeq(Dev!Stream, From(c) + 1, fpos'[c]) = <<>>
  BY FromType, SubSeqEmpty
<1>4. thread'[c] = "read" /\ received'[c] = <<>>
  OBVIOUS
<1> QED BY <1>1, <1>2, <1>3, <1>4 DEF ReadAt, Unsent

(* A seek sets the place its reply starts from. *)
LEMMA ReadSeek ==
  ASSUME TypeInv, ReadInv, NEW c \in Clients, SeekDevice(c) PROVE ReadAt(c)'
<1> DEFINE args == SeekArgs[full_buf[c][1]]
           targets == IF args = <<>> THEN {} ELSE SeekTargets(args[1], args[2])
<1>1. /\ thread[c] = "ioctl" /\ IsSeek(full_buf[c]) /\ received[c] = <<>>
      /\ fpos \in [Clients -> Nat]
  BY DEF SeekDevice, At, TypeInv, TypeOK, BufferInv, BufferAt, ReadInv, ReadAt, Unsent
<1>2. args \in (Nat \X Nat) \cup {<<>>}
  BY <1>1, SeekArgsAssumption DEF IsSeek
<1>3. /\ \/ \E pos \in targets :
              Dev!SeekTo(c, pos) /\ fpos' = [fpos EXCEPT ![c] = pos]
         \/ targets = {} /\ Dev!Fail(c) /\ UNCHANGED fpos
      /\ Goto(c, "read")
      /\ UNCHANGED <<mainvars, th_data, file_mutex, conn, full_buf, received>>
  BY DEF SeekDevice
<1>4. Exact(c) => targets = {From(c)}
  <2>1. SUFFICES ASSUME Exact(c) PROVE targets = {From(c)}
    OBVIOUS
  <2>2. /\ args \in Nat \X Nat /\ args # <<>>
        /\ args[1] < Len(log) /\ args[2] < Len(log[args[1] + 1])
        /\ From(c) = SizeOf(SubSeq(log, 1, args[1])) + args[2]
    BY <1>1, <1>2, <2>1 DEF Exact, From
  <2>3. args[1] \in Nat /\ args[2] \in Nat
    BY <2>2
  <2>4. targets = SeekTargets(args[1], args[2])
    BY <2>2
  <2> HIDE DEF args, targets
  <2> QED BY <2>2, <2>3, <2>4, SeekTargetsType DEF TypeInv
<1> HIDE DEF targets, args
<1>5. Exact(c) => fpos'[c] = From(c)
  BY <1>1, <1>3, <1>4
<1>6. UNCHANGED <<log, full_buf, received>> /\ thread'[c] = "read"
  BY <1>3 DEF Dev!SeekTo, Dev!Fail, Goto, TypeInv, TypeOK
<1> QED BY <1>1, <1>5, <1>6, ReadStarts

(* A device that is opened anew is read from its start. *)
LEMMA ReadReopen ==
  ASSUME TypeInv, ReadInv, NEW c \in Clients, Reopen(c) PROVE ReadAt(c)'
<1>1. /\ thread[c] = "reopen" /\ ~ IsSeek(full_buf[c]) /\ received[c] = <<>>
      /\ fpos \in [Clients -> Nat]
  BY DEF Reopen, At, TypeInv, TypeOK, BufferInv, BufferAt, ReadInv, ReadAt, Unsent
<1>2. /\ UNCHANGED <<log, full_buf, received>> /\ thread'[c] = "read"
      /\ Meta => fpos'[c] = 0
  BY <1>1 DEF Reopen, device, Goto, TypeInv, TypeOK
<1>3. Exact(c) => fpos'[c] = From(c)
  BY <1>1, <1>2 DEF Exact, From
<1> QED BY <1>1, <1>2, <1>3, ReadStarts

(* What is read goes on where the last read ended. *)
LEMMA ReadRead ==
  ASSUME TypeInv, ReadInv, NEW c \in Clients, ReadDevice(c) PROVE ReadAt(c)'
<1>1. /\ thread[c] = "read" /\ thread'[c] = "send"
      /\ UNCHANGED <<log, full_buf, received, fpos, conn>>
      /\ fpos[c] \in Nat /\ answer \in [Clients -> Answers]
  BY DEF ReadDevice, At, Goto, Dev!Read, Dev!Fail, TypeInv, TypeOK
<1>2. Dev!Stream' = Dev!Stream
  BY <1>1 DEF Dev!Stream
<1>3. Exact(c)' = Exact(c) /\ From(c)' = From(c) /\ ReadEnd(c)' = ReadEnd(c)
  BY <1>1, <1>2 DEF Exact, From, SizeOf, IsSeek, ReadEnd
<1>4. \/ answer'[c] = <<"error">>
      \/ answer'[c] = <<"read", fpos[c], SubSeq(Dev!Stream, fpos[c] + 1, ReadEnd(c))>>
  BY <1>1 DEF ReadDevice, Dev!Read, Dev!Fail, Dev!Answer, ReadEnd
<1> QED BY <1>1, <1>2, <1>3, <1>4 DEF ReadInv, ReadAt, Unsent

(* What a thread that has read sends. *)
LEMMA SendData ==
  ASSUME TypeInv, ReadInv, NEW c \in Clients, Send(c), answer[c][1] = "read"
  PROVE  /\ answer[c][3] = SubSeq(Dev!Stream, fpos[c] + 1, ReadEnd(c))
         /\ fpos[c] \in Nat /\ ReadEnd(c) \in Nat /\ ReadEnd(c) <= Len(Dev!Stream)
         /\ Len(answer[c][3]) = IF fpos[c] < ReadEnd(c) THEN ReadEnd(c) - fpos[c] ELSE 0
         /\ answer[c][3] = <<>> <=> Len(Dev!Stream) <= fpos[c]
         /\ answer[c][3] # <<>> => fpos[c] < ReadEnd(c)
<1>1. thread[c] = "send" /\ fpos[c] \in Nat /\ Len(Dev!Stream) \in Nat
  BY StreamType DEF Send, At, TypeInv, TypeOK
<1>2. answer[c] = <<"read", fpos[c], SubSeq(Dev!Stream, fpos[c] + 1, ReadEnd(c))>>
  <2>1. answer[c] # <<"error">>
    OBVIOUS
  <2> QED BY <1>1, <2>1 DEF ReadInv, ReadAt
<1> DEFINE end == ReadEnd(c)
           data == SubSeq(Dev!Stream, fpos[c] + 1, end)
<1>3. answer[c][3] = data
  <2>1. answer[c] = <<"read", fpos[c], data>>
    BY <1>2
  <2> HIDE DEF data
  <2> QED BY <2>1
<1>4. /\ end \in Nat /\ end <= Len(Dev!Stream) /\ data \in Seq(Bytes)
      /\ Len(data) = IF fpos[c] < end THEN end - fpos[c] ELSE 0
      /\ (fpos[c] < end <=> fpos[c] < Len(Dev!Stream))
  <2>1. TypeOK /\ fpos[c] \in Nat
        /\ end = IF fpos[c] + Chunk < Len(Dev!Stream)
                   THEN fpos[c] + Chunk ELSE Len(Dev!Stream)
    BY <1>1 DEF TypeInv, ReadEnd
  <2> HIDE DEF end
  <2> QED BY <2>1, ReadData
<1> HIDE DEF data, end
<1>5. data = <<>> <=> Len(data) = 0
  <2>1. data \in Seq(Bytes)
    BY <1>4
  <2> QED BY <2>1
<1>6. data = <<>> <=> Len(Dev!Stream) <= fpos[c]
  BY <1>1, <1>4, <1>5
<1>7. data # <<>> => fpos[c] < end
  BY <1>1, <1>4, <1>5
<1> QED BY <1>1, <1>3, <1>4, <1>6, <1>7 DEF data, end

(* What is sent is what was read. *)
LEMMA ReadSend ==
  ASSUME TypeInv, ReadInv, NEW c \in Clients, Send(c) PROVE ReadAt(c)'
<1> DEFINE data == IF answer[c][1] = "read" THEN answer[c][3] ELSE <<>>
<1>1. /\ IF data = <<>>
           THEN Goto(c, "close") /\ UNCHANGED <<fpos, received>>
           ELSE /\ received' = IF conn[c].here
                                  THEN [received EXCEPT ![c] = @ \o data]
                                  ELSE received
                /\ fpos' = [fpos EXCEPT ![c] = @ + Len(data)]
                /\ Goto(c, "read")
      /\ UNCHANGED <<log, conn, full_buf>>
  BY DEF Send, Dev!Return
<1>2. /\ thread[c] = "send" /\ thread \in [Clients -> ThreadStates]
      /\ fpos \in [Clients -> Nat] /\ received \in [Clients -> Seq(Bytes)]
  BY DEF Send, At, TypeInv, TypeOK
<1>3. Dev!Stream' = Dev!Stream
  BY <1>1 DEF Dev!Stream
<1>4. Exact(c)' = Exact(c) /\ From(c)' = From(c)
  BY <1>1, <1>3 DEF Exact, From, SizeOf, IsSeek
<1>5. CASE data = <<>>
  <2>1. thread'[c] = "close"
    BY <1>1, <1>2, <1>5 DEF Goto
  <2> QED BY <2>1 DEF ReadAt, Unsent
<1>6. CASE data # <<>>
  <2> DEFINE end == ReadEnd(c)
  <2>1. answer[c][1] = "read" /\ data = answer[c][3]
    BY <1>6
  <2>2. /\ data = SubSeq(Dev!Stream, fpos[c] + 1, end)
        /\ fpos[c] \in Nat /\ end \in Nat /\ end <= Len(Dev!Stream)
        /\ fpos[c] < end /\ Len(data) = end - fpos[c]
    BY <1>6, <2>1, SendData
  <2>3. /\ thread'[c] = "read" /\ fpos'[c] = fpos[c] + Len(data)
        /\ conn[c].here => received'[c] = received[c] \o data
    BY <1>1, <1>2, <1>6 DEF Goto
  <2> HIDE DEF data, end
  <2>4. fpos'[c] = end
    BY <2>2, <2>3
  <2>5. ASSUME conn[c].here, Exact(c)
        PROVE  /\ From(c) <= end
               /\ received'[c] = SubSeq(Dev!Stream, From(c) + 1, end)
    <3>1. /\ From(c) <= fpos[c] /\ fpos[c] <= Len(Dev!Stream)
          /\ received[c] = SubSeq(Dev!Stream, From(c) + 1, fpos[c])
      BY <1>2, <2>5 DEF ReadInv, ReadAt
    <3>2. From(c) \in Nat /\ Dev!Stream \in Seq(Bytes)
      BY <2>5, FromType, StreamType DEF TypeInv
    <3>3. SubSeq(Dev!Stream, From(c) + 1, fpos[c]) \o data
            = SubSeq(Dev!Stream, From(c) + 1, end)
      <4>1. PICK a \in Nat, b \in Nat, e \in Nat : a = From(c) /\ b = fpos[c] /\ e = end
        BY <2>2, <3>2
      <4>2. a <= b /\ b <= e /\ e <= Len(Dev!Stream)
        BY <2>2, <3>1, <4>1
      <4>3. SubSeq(Dev!Stream, a + 1, b) \o SubSeq(Dev!Stream, b + 1, e)
              = SubSeq(Dev!Stream, a + 1, e)
        BY <3>2, <4>2, SubSeqJoin
      <4> QED BY <2>2, <4>1, <4>3, Zenon
    <3>4. From(c) <= end
      BY <2>2, <3>1, <3>2
    <3>5. received'[c] = SubSeq(Dev!Stream, From(c) + 1, fpos[c]) \o data
      BY <2>3, <2>5, <3>1
    <3> QED BY <3>3, <3>4, <3>5
  <2> QED BY <1>1, <1>3, <1>4, <2>2, <2>3, <2>4, <2>5 DEF ReadAt, Unsent
<1> QED BY <1>5, <1>6

(* Each step keeps the invariant of the replies. *)
LEMMA ReadStep ==
  ASSUME TypeInv, ListInv, MutexInv, ReadInv, [Next]_vars PROVE ReadInv'
<1>1. CASE OtherStep
  <2>1. /\ UNCHANGED <<full_buf, fpos, received, log, answer>>
        /\ thread' = thread \/ CreateThread
    BY <1>1, OtherSteps
  <2>2. ASSUME NEW c \in Clients PROVE ReadAt(c)'
    <3>1. thread'[c] = thread[c] \/ (thread[c] \in Unsent /\ thread'[c] \in Unsent)
      <4>1. CreateThread => /\ main.cur \in Clients /\ thread[main.cur] = "none"
                            /\ thread' = [thread EXCEPT ![main.cur] = "recv"]
        BY DEF CreateThread, Create, TypeInv, TypeOK, ListInv, Fresh
      <4> QED BY <2>1, <4>1 DEF Unsent, TypeInv, TypeOK
    <3>2. CASE thread[c] = "none"
      BY <2>1, <3>1, <3>2 DEF ReadInv, ReadAt, Unsent
    <3>3. CASE thread[c] # "none"
      <4>1. conn'[c].here => conn[c].here
        BY <1>1, <3>3, OtherConn
      <4> QED BY <2>1, <3>1, <4>1, ReadKept DEF ReadInv
    <3> QED BY <3>2, <3>3
  <2> QED BY <2>2 DEF ReadInv
<1>2. ASSUME NEW c \in Clients, threadfunc(c) PROVE ReadInv'
  <2>1. ReadAt(c)'
    <3>1. CASE \/ Recv(c) \/ RecvEnd(c) \/ Terminate(c) \/ LockFile(c)
               \/ OpenDevice(c) \/ WriteDevice(c)
      <4>1. thread[c] \in Unsent /\ received' = received
        BY <3>1 DEF Recv, RecvEnd, Terminate, LockFile, OpenDevice, WriteDevice, At, Unsent
      <4>2. \E pc \in Unsent : Goto(c, pc)
        BY <3>1 DEF Recv, RecvEnd, Terminate, LockFile, OpenDevice, WriteDevice, Unsent
      <4>3. thread'[c] \in Unsent
        BY <4>2 DEF Goto, TypeInv, TypeOK
      <4> QED BY <4>1, <4>3 DEF ReadInv, ReadAt, Unsent
    <3>2. CASE OpenFails(c) \/ CloseDevice(c) \/ CompleteThread(c)
      <4>1. thread'[c] \in {"complete", "exit"}
        BY <3>2 DEF OpenFails, CloseDevice, CompleteThread, Goto, TypeInv, TypeOK
      <4> QED BY <4>1 DEF ReadAt, Unsent
    <3> QED BY <1>2, <3>1, <3>2, ReadReopen, ReadSeek, ReadRead, ReadSend DEF threadfunc
  <2>2. \A d \in Clients : ReadAt(d)'
    BY <1>2, <2>1, ReadOther
  <2> QED BY <2>2 DEF ReadInv
<1>3. CASE UNCHANGED vars
  <2>1. \A c \in Clients : ReadAt(c)'
    BY <1>3, ReadKept DEF vars, ReadInv
  <2> QED BY <2>1 DEF ReadInv
<1> QED BY <1>1, <1>2, <1>3 DEF Next, OtherStep

(* When the read that gives nothing ends the sending, all has been sent.   *)
LEMMA ReadAll ==
  ASSUME TypeInv, ListInv, ReadInv, [Next]_vars,
         NEW c \in Clients, ReadsToEnd(c), Exact(c)
  PROVE  received[c] = SubSeq(Dev!Stream, From(c) + 1, Len(Dev!Stream))
<1>1. /\ thread[c] = "send" /\ thread'[c] = "close"
      /\ answer[c][1] = "read" /\ conn[c].here
  BY DEF ReadsToEnd
<1>2. thread \in [Clients -> ThreadStates]
  BY DEF TypeInv, TypeOK
<1>3. Send(c)
  <2>1. ~ OtherStep
    <3>1. CreateThread => /\ main.cur \in Clients
                          /\ thread' = [thread EXCEPT ![main.cur] = "recv"]
      BY DEF CreateThread, Create, TypeInv, TypeOK
    <3> QED BY <1>1, <1>2, <3>1, OtherSteps
  <2>2. PICK d \in Clients : threadfunc(d)
    BY <1>1, <2>1 DEF Next, OtherStep, vars
  <2>3. d = c
    <3>1. \E pc : thread' = [thread EXCEPT ![d] = pc]
      BY <2>2, ThreadMoves
    <3> QED BY <1>1, <1>2, <3>1
  <2> QED BY <1>1, <2>2, <2>3 DEF threadfunc, Recv, RecvEnd, Terminate, LockFile,
          OpenDevice, OpenFails, WriteDevice, Reopen, SeekDevice, ReadDevice,
          CloseDevice, CompleteThread, At
<1>4. answer[c][3] = <<>>
  <2>1. answer[c][3] = <<>> \/ Goto(c, "read")
    BY <1>1, <1>3 DEF Send
  <2> QED BY <1>1, <1>2, <2>1 DEF Goto
<1>5. Len(Dev!Stream) <= fpos[c] /\ fpos[c] \in Nat
  BY <1>1, <1>3, <1>4, SendData
<1>6. /\ fpos[c] <= Len(Dev!Stream)
      /\ received[c] = SubSeq(Dev!Stream, From(c) + 1, fpos[c])
  BY <1>1 DEF ReadInv, ReadAt
<1>7. Len(Dev!Stream) \in Nat
  BY StreamType DEF TypeInv
<1>8. fpos[c] = Len(Dev!Stream)
  BY <1>5, <1>6, <1>7
<1> QED BY <1>6, <1>8, Zenon

(* The invariant of the replies, of every behaviour. *)
LEMMA ReadInvCorrect == Spec => [](TypeInv /\ ListInv /\ ReadInv)
<1>1. Init => ReadInv
  BY ReadInit
<1>2. TypeInv /\ ListInv /\ MutexInv /\ ReadInv /\ [Next]_vars => ReadInv'
  BY ReadStep
<1> QED BY <1>1, <1>2, TypeListInv, MutexCorrect, PTL DEF Spec

(***************************************************************************)
(* A seek command is answered with the device's bytes from the place it    *)
(* names to the end, each once and in order, in both copies of the server  *)
(* (aesdsocket.c:200-240 of the meta copy).                                *)
(***************************************************************************)
THEOREM SeekReadBackCorrect == Spec => ReadBackFromSeek
<1> DEFINE P == \A c \in Clients :
       LET args == SeekArgs[full_buf[c][1]]
           from == SizeOf(SubSeq(log, 1, args[1])) + args[2]
       IN  /\ ReadsToEnd(c) /\ IsSeek(full_buf[c])
           /\ args # <<>>
           /\ args[1] < Len(log) /\ args[2] < Len(log[args[1] + 1])
           => received[c] = SubSeq(Dev!Stream, from + 1, Len(Dev!Stream))
<1>1. ASSUME TypeInv, ListInv, ReadInv, [Next]_vars PROVE P
  <2> SUFFICES ASSUME NEW c \in Clients, ReadsToEnd(c), IsSeek(full_buf[c]), Exact(c)
               PROVE  received[c] =
                        SubSeq(Dev!Stream,
                               SizeOf(SubSeq(log, 1, SeekArgs[full_buf[c][1]][1]))
                                 + SeekArgs[full_buf[c][1]][2] + 1,
                               Len(Dev!Stream))
    BY DEF Exact
  <2>1. received[c] = SubSeq(Dev!Stream, From(c) + 1, Len(Dev!Stream))
    BY <1>1, ReadAll
  <2> QED BY <2>1 DEF From
<1>2. (TypeInv /\ ListInv /\ ReadInv) /\ [Next]_vars => [P]_vars
  BY <1>1
<1>3. ReadBackFromSeek <=> [][P]_vars
  BY DEF ReadBackFromSeek
<1> HIDE DEF P
<1> QED BY <1>2, <1>3, ReadInvCorrect, PTL DEF Spec

(***************************************************************************)
(* In the copy that opens the device anew after its write every client     *)
(* that stays is answered with the whole device, or with what follows the  *)
(* place it sought (aesdsocket.c:200-240 of the meta copy).                *)
(***************************************************************************)
THEOREM ReadBackCorrect ==
  ASSUME Meta PROVE Spec => ReadBack
<1> DEFINE P == \A c \in Clients :
       ReadsToEnd(c) /\ ~ IsSeek(full_buf[c]) => received[c] = Dev!Stream
<1>1. ASSUME TypeInv, ListInv, ReadInv, [Next]_vars PROVE P
  <2> SUFFICES ASSUME NEW c \in Clients, ReadsToEnd(c), ~ IsSeek(full_buf[c])
               PROVE  received[c] = Dev!Stream
    OBVIOUS
  <2>1. Exact(c) /\ From(c) = 0
    BY DEF Exact, From
  <2>2. received[c] = SubSeq(Dev!Stream, From(c) + 1, Len(Dev!Stream))
    BY <1>1, <2>1, ReadAll
  <2>3. SubSeq(Dev!Stream, 1, Len(Dev!Stream)) = Dev!Stream
    <3>1. Dev!Stream \in Seq(Bytes)
      BY <1>1, StreamType DEF TypeInv
    <3> QED BY <3>1
  <2> QED BY <2>1, <2>2, <2>3
<1>2. (TypeInv /\ ListInv /\ ReadInv) /\ [Next]_vars => [P]_vars
  BY <1>1
<1>3. ReadBackWhole <=> [][P]_vars
  BY DEF ReadBackWhole
<1>4. ReadBack <=> ReadBackWhole /\ ReadBackFromSeek
  BY DEF ReadBack
<1> HIDE DEF P
<1> QED BY <1>2, <1>3, <1>4, ReadInvCorrect, SeekReadBackCorrect, PTL DEF Spec
=============================================================================
