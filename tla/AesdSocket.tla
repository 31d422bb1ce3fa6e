----------------------------- MODULE AesdSocket -----------------------------
(***************************************************************************)
(* The aesdsocket server: a main thread that sets up its socket, accepts   *)
(* connections, starts a thread for each, reaps finished threads and shuts *)
(* down on a signal; and the threads, which receive one message, write it  *)
(* to /dev/aesdchar (or seek, if it is a seek command), read the device    *)
(* back and send what they read.                                           *)
(*                                                                         *)
(* The device is used through its abstract specification AesdLog: a system *)
(* call is one of its actions and answer[c] is the result the thread gets. *)
(* Two copies of the server are in the repository; Meta says which one is  *)
(* modelled: the one under meta-aesd/ closes and reopens the device before *)
(* it reads back what it wrote, the one under server/ does not.            *)
(***************************************************************************)
EXTENDS Integers, SequencesExt

CONSTANTS
  Meta,         (* TRUE: the meta-aesd copy; FALSE: the server copy        *)
  Clients,      (* the connections made, each with its own server thread   *)
  Messages,     (* Messages[c]: the messages client c may send             *)
  SeekArgs,     (* the first byte of a seek command |-> its two numbers    *)
  Newline,      (* '\n'                                                    *)
  BufSize,      (* sizeof(full_buf), 2048 in the code                      *)
  Chunk,        (* sizeof(buf) and sizeof(send_buf), 1024 in the code      *)
  N,            (* the commands the device keeps                           *)
  NoClient      (* the value of file_mutex while it is free                *)

ASSUME MetaAssumption == Meta \in BOOLEAN
ASSUME NoClientAssumption == NoClient \notin Clients
ASSUME SizesAssumption ==
  Chunk \in Nat \ {0} /\ BufSize \in Nat \ {0} /\ N \in Nat \ {0}

(* The bytes of the messages; a message is a sequence of them.             *)
Bytes == {Newline} \cup UNION {ToSet(m) : m \in UNION {Messages[c] : c \in Clients}}

ASSUME MessagesAssumption == \A c \in Clients : Messages[c] \subseteq Seq(Bytes)

(* A seek command whose numbers cannot be parsed has the arguments <<>>.   *)
ASSUME SeekArgsAssumption ==
  \A x \in DOMAIN SeekArgs : SeekArgs[x] \in (Nat \X Nat) \cup {<<>>}

VARIABLES
  caught_sig,   (* set by the signal handler                               *)
  main,         (* the main thread: where it is, and at which thread_data  *)
  threads,      (* the SLIST of thread_data, first element first           *)
  thread,       (* where each thread is                                    *)
  th_data,      (* each thread_data: allocated or not, bThreadCompleted    *)
  file_mutex,   (* the thread that holds it                                *)
  conn,         (* each connection: its state, the client's message and    *)
                (* what of it is to arrive, whether the client is there    *)
  full_buf,     (* the message each thread has received                    *)
  fpos,         (* the file position of the device file each thread opened *)
  received,     (* what each client has been sent                          *)
  log, pending, answer   (* the device, see AesdLog                        *)

vars == <<caught_sig, main, threads, thread, th_data, file_mutex, conn,
          full_buf, fpos, received, log, pending, answer>>
device == <<log, pending, answer>>
mainvars == <<caught_sig, main, threads>>

Dev == INSTANCE AesdLog WITH
  Procs <- Clients, reply <- answer,
  Payloads <- {}, Counts <- {}, Positions <- {}

NoNode == [alloc |-> FALSE, bThreadCompleted |-> FALSE]

Init ==
  /\ caught_sig = FALSE
  /\ main = [pc |-> "sigaction", cur |-> NoClient, todo |-> <<>>]
  /\ threads = <<>>
  /\ thread = [c \in Clients |-> "none"]
  /\ th_data = [c \in Clients |-> NoNode]
  /\ file_mutex = NoClient
  /\ \E message \in [Clients -> UNION {Messages[c] : c \in Clients}] :
       /\ \A c \in Clients : message[c] \in Messages[c]
       /\ conn = [c \in Clients |->
                     [state |-> "none", message |-> message[c],
                      inbox |-> message[c], here |-> TRUE]]
  /\ full_buf = [c \in Clients |-> <<>>]
  /\ fpos = [c \in Clients |-> 0]
  /\ received = [c \in Clients |-> <<>>]
  /\ Dev!Init

-----------------------------------------------------------------------------
Running == main.pc \notin {"exited", "killed"}

(* Before main comes to its loop it goes through these calls, in order.    *)
SettingUp == {"sigaction", "getaddrinfo", "socket", "bind", "daemon", "listen"}

(* Clients connect, and may go away at any time, all sent or not.          *)
Connect(c) ==
  /\ conn[c].state = "none"
  /\ Running /\ main.pc \notin SettingUp
  /\ conn' = [conn EXCEPT ![c].state = "backlog"]
  /\ UNCHANGED <<mainvars, thread, th_data, file_mutex, full_buf, fpos,
                 received, device>>

HangUp(c) ==
  /\ conn[c].state \in {"backlog", "open"}
  /\ conn[c].here
  /\ Running
  /\ conn' = [conn EXCEPT ![c].inbox = <<>>, ![c].here = FALSE]
  /\ UNCHANGED <<mainvars, thread, th_data, file_mutex, full_buf, fpos,
                 received, device>>

(***************************************************************************)
(* SIGINT or SIGTERM.  It interrupts accept if the main thread is blocked  *)
(* in it; anywhere else it only sets the flag.  Before the handler is      *)
(* installed it kills.                                                     *)
(***************************************************************************)
KilledEarly ==
  /\ main.pc = "sigaction"
  /\ main' = [main EXCEPT !.pc = "killed"]
  /\ UNCHANGED <<caught_sig, threads, thread, th_data, file_mutex, conn,
                 full_buf, fpos, received, device>>

signal_handler ==
  /\ ~ caught_sig
  /\ Running /\ main.pc # "sigaction"
  /\ caught_sig' = TRUE
  /\ main' = IF main.pc = "blocked"
               THEN [main EXCEPT !.pc = "shutdown", !.todo = threads]
               ELSE main
  /\ UNCHANGED <<threads, thread, th_data, file_mutex, conn, full_buf, fpos,
                 received, device>>

-----------------------------------------------------------------------------
(* The main thread.                                                        *)
MainUnchanged ==
  UNCHANGED <<caught_sig, file_mutex, full_buf, fpos, received, device>>

(* A call of the set-up: main goes on to the next, or returns -1.          *)
SetUp(pc, next) ==
  /\ main.pc = pc
  /\ \E to \in {next, "exited"} : main' = [main EXCEPT !.pc = to]
  /\ UNCHANGED <<threads, thread, th_data, conn>> /\ MainUnchanged

InstallHandlers == SetUp("sigaction", "getaddrinfo")
GetAddress == SetUp("getaddrinfo", "socket")
CreateSocket == SetUp("socket", "bind")
Bind == SetUp("bind", "daemon")
Daemon == SetUp("daemon", "listen")     (* or it is not asked for          *)
Listen == SetUp("listen", "check")

(* while (!caught_sig), then the call of accept.                           *)
CheckSignal ==
  /\ main.pc = "check"
  /\ main' = IF caught_sig
               THEN [main EXCEPT !.pc = "shutdown", !.todo = threads]
               ELSE [main EXCEPT !.pc = "accept"]
  /\ UNCHANGED <<threads, thread, th_data, conn>> /\ MainUnchanged

(* accept finds nobody waiting and blocks.                                 *)
AcceptBlocks ==
  /\ main.pc = "accept"
  /\ \A c \in Clients : conn[c].state # "backlog"
  /\ main' = [main EXCEPT !.pc = "blocked"]
  /\ UNCHANGED <<threads, thread, th_data, conn>> /\ MainUnchanged

Accept(c) ==
  /\ main.pc \in {"accept", "blocked"}
  /\ conn[c].state = "backlog"
  /\ conn' = [conn EXCEPT ![c].state = "open"]
  /\ main' = [main EXCEPT !.pc = "create", !.cur = c]
  /\ UNCHANGED <<threads, thread, th_data>> /\ MainUnchanged

(* accept fails for another reason: the loop goes on, or ends.             *)
AcceptFails ==
  /\ main.pc = "accept"
  /\ main' = IF caught_sig
               THEN [main EXCEPT !.pc = "shutdown", !.todo = threads]
               ELSE [main EXCEPT !.pc = "check"]
  /\ UNCHANGED <<threads, thread, th_data, conn>> /\ MainUnchanged

CloseConn(c) == conn' = [conn EXCEPT ![c].state = "closed", ![c].inbox = <<>>]

NoMemory ==
  /\ main.pc = "create"
  /\ CloseConn(main.cur)
  /\ main' = [main EXCEPT !.pc = "check", !.cur = NoClient]
  /\ UNCHANGED <<threads, thread, th_data>> /\ MainUnchanged

(* thread_data is filled in and put at the head of the list, whether or    *)
(* not pthread_create succeeds.                                            *)
Create(created) ==
  LET c == main.cur
  IN  /\ main.pc = "create"
      /\ th_data' = [th_data EXCEPT ![c] =
                       [alloc |-> TRUE, bThreadCompleted |-> FALSE]]
      /\ thread' = IF created THEN [thread EXCEPT ![c] = "recv"] ELSE thread
      /\ threads' = <<c>> \o threads
      /\ main' = [pc |-> "reap", cur |-> NoClient, todo |-> threads']
      /\ UNCHANGED conn /\ MainUnchanged

CreateThread == Create(TRUE)
CreateFails == Create(FALSE)

(* The reaping loop looks at bThreadCompleted without the mutex.           *)
ReapVisit ==
  /\ main.pc = "reap"
  /\ main' = CASE main.todo = <<>> -> [main EXCEPT !.pc = "check"]
               [] main.todo # <<>> ->
                    IF th_data[Head(main.todo)].bThreadCompleted
                      THEN [main EXCEPT !.pc = "join"]
                      ELSE [main EXCEPT !.todo = Tail(@)]
  /\ UNCHANGED <<threads, thread, th_data, conn>> /\ MainUnchanged

(* pthread_join, SLIST_REMOVE and free of the element visited.             *)
Release(c, pc) ==
  /\ threads' = RemoveFirst(threads, c)
  /\ th_data' = [th_data EXCEPT ![c] = NoNode]
  /\ main' = [main EXCEPT !.pc = pc, !.todo = Tail(@)]
  /\ UNCHANGED <<thread, conn>> /\ MainUnchanged

Join ==
  /\ main.pc = "join"
  /\ thread[Head(main.todo)] = "exit"
  /\ Release(Head(main.todo), "reap")

(* Faulty: shutdown frees the thread_data of a thread that still runs. *)
FreeRemaining ==
  /\ main.pc = "shutdown" /\ main.todo # <<>>
  /\ Release(Head(main.todo), "shutdown")

JoinRemaining ==
  /\ main.pc = "shutdown" /\ main.todo # <<>>
  /\ thread[Head(main.todo)] = "exit"
  /\ Release(Head(main.todo), "shutdown")

(* pthread_join of a thread_id nothing was ever stored in: the call fails, *)
(* or the process dies.                                                    *)
JoinGarbage ==
  /\ main.pc = "shutdown" /\ main.todo # <<>>
  /\ thread[Head(main.todo)] = "none"
  /\ \/ Release(Head(main.todo), "shutdown")
     \/ /\ main' = [main EXCEPT !.pc = "killed"]
        /\ UNCHANGED <<threads, thread, th_data, conn>> /\ MainUnchanged

Exit ==
  /\ main.pc = "shutdown" /\ main.todo = <<>>
  /\ main' = [main EXCEPT !.pc = "exited"]
  /\ UNCHANGED <<threads, thread, th_data, conn>> /\ MainUnchanged

Main ==
  \/ InstallHandlers \/ GetAddress \/ CreateSocket \/ Bind \/ Daemon \/ Listen
  \/ CheckSignal \/ AcceptBlocks \/ (\E c \in Clients : Accept(c))
  \/ AcceptFails \/ NoMemory \/ CreateThread \/ CreateFails
  \/ ReapVisit \/ Join \/ JoinRemaining \/ JoinGarbage \/ Exit

-----------------------------------------------------------------------------
(* threadfunc *)
At(c, pc) == thread[c] = pc /\ Running
Goto(c, pc) == thread' = [thread EXCEPT ![c] = pc]

HasNewline(d) == \E i \in DOMAIN d : d[i] = Newline

(* Faulty: one byte too many, or one too few. *)
FitsExactly(c, d) == Len(full_buf[c]) + Len(d) <= BufSize
FitsLess(c, d) == Len(full_buf[c]) + Len(d) < BufSize - 1

Fits(c, d) == Len(full_buf[c]) + Len(d) < BufSize

(* One turn of the recv loop: recv gives the next bytes that arrived.  A   *)
(* chunk that does not fit is dropped, and one with a newline ends the     *)
(* loop, kept or not.                                                      *)
Recv(c) ==
  /\ At(c, "recv")
  /\ \E n \in 1 .. Chunk :
       LET d == SubSeq(conn[c].inbox, 1, n)
       IN  /\ n <= Len(conn[c].inbox)
           /\ full_buf' = IF Fits(c, d) THEN [full_buf EXCEPT ![c] = @ \o d]
                                        ELSE full_buf
           /\ conn' = [conn EXCEPT ![c].inbox = SubSeq(@, n + 1, Len(@))]
           /\ Goto(c, IF HasNewline(d) THEN "terminate" ELSE "recv")
  /\ UNCHANGED <<mainvars, th_data, file_mutex, fpos, received, device>>

(* End of file or an error ends it too.                                    *)
RecvEnd(c) ==
  /\ At(c, "recv")
  /\ conn[c].inbox = <<>> /\ ~ conn[c].here
  /\ Goto(c, "terminate")
  /\ UNCHANGED <<mainvars, th_data, file_mutex, conn, full_buf, fpos,
                 received, device>>

(* Faulty: a message is left as it came. *)
Unterminated(m) == m

(* Ensure newline termination                                              *)
Terminated(m) ==
  IF m # <<>> /\ m[Len(m)] # Newline THEN Append(m, Newline) ELSE m

Terminate(c) ==
  /\ At(c, "terminate")
  /\ full_buf' = [full_buf EXCEPT ![c] = Terminated(@)]
  /\ Goto(c, "lock")
  /\ UNCHANGED <<mainvars, th_data, file_mutex, conn, fpos, received, device>>

(* Faulty: the mutex is not waited for. *)
LockFileHeld(c) ==
  /\ At(c, "lock")
  /\ file_mutex' = c
  /\ Goto(c, "open")
  /\ UNCHANGED <<mainvars, th_data, conn, full_buf, fpos, received, device>>

LockFile(c) ==
  /\ At(c, "lock")
  /\ file_mutex = NoClient
  /\ file_mutex' = c
  /\ Goto(c, "open")
  /\ UNCHANGED <<mainvars, th_data, conn, full_buf, fpos, received, device>>

IsSeek(m) == m # <<>> /\ m[1] \in DOMAIN SeekArgs

OpenDevice(c) ==
  /\ At(c, "open")
  /\ fpos' = [fpos EXCEPT ![c] = 0]
  /\ Goto(c, IF IsSeek(full_buf[c]) THEN "ioctl"
             ELSE IF full_buf[c] # <<>> THEN "write" ELSE "reopen")
  /\ UNCHANGED <<mainvars, th_data, file_mutex, conn, full_buf, received,
                 device>>

(* Faulty: the thread returns and keeps the mutex. *)
OpenFailsLocked(c) ==
  /\ At(c, "open") \/ (Meta /\ At(c, "reopen"))
  /\ CloseConn(c)
  /\ Goto(c, "exit")
  /\ UNCHANGED <<mainvars, th_data, file_mutex, full_buf, fpos, received, device>>

(* The device cannot be opened: the thread returns at once, without        *)
(* setting bThreadCompleted.  The copy that reopens it ends so there too.  *)
OpenFails(c) ==
  /\ At(c, "open") \/ (Meta /\ At(c, "reopen"))
  /\ file_mutex' = NoClient
  /\ CloseConn(c)
  /\ Goto(c, "exit")
  /\ UNCHANGED <<mainvars, th_data, full_buf, fpos, received, device>>

(* write() of the whole message.                                           *)
WriteDevice(c) ==
  /\ At(c, "write")
  /\ \/ Dev!Write(c, full_buf[c])
        /\ fpos' = [fpos EXCEPT ![c] = @ + Len(full_buf[c])]
     \/ Dev!Fail(c) /\ UNCHANGED fpos
  /\ Goto(c, "reopen")
  /\ UNCHANGED <<mainvars, th_data, file_mutex, conn, full_buf, received>>

(* Faulty: the position after the write is kept. *)
ReopenNot(c) ==
  /\ At(c, "reopen")
  /\ Goto(c, "read")
  /\ UNCHANGED <<mainvars, th_data, file_mutex, conn, full_buf, fpos, received,
                 device>>

(* close() and open() again, in the copy that does it.                     *)
Reopen(c) ==
  /\ At(c, "reopen")
  /\ fpos' = IF Meta THEN [fpos EXCEPT ![c] = 0] ELSE fpos
  /\ Goto(c, "read")
  /\ UNCHANGED <<mainvars, th_data, file_mutex, conn, full_buf, received,
                 device>>

(***************************************************************************)
(* The seek: where the driver puts the position of a command and an offset *)
(* in it.  While its ring is full it takes any larger command number for   *)
(* one past the last.  A seek that fails, or whose numbers cannot be       *)
(* parsed, leaves the position at 0.                                       *)
(***************************************************************************)
SizeOf(cmds) == Len(FlattenSeq(cmds))

SeekTargets(cmd, off) ==
  IF cmd < Len(log)
    THEN IF off < Len(log[cmd+1]) THEN {SizeOf(SubSeq(log, 1, cmd)) + off}
                                  ELSE {}
    ELSE IF Len(log) = N /\ off < Len(log[N]) THEN {SizeOf(log) + off} ELSE {}

(* Faulty: the device is reopened after the seek. *)
SeekReopens(c) ==
  /\ At(c, "ioctl")
  /\ Dev!SeekTo(c, 0)
  /\ Goto(c, "read")
  /\ UNCHANGED <<mainvars, th_data, file_mutex, conn, full_buf, fpos, received>>

SeekDevice(c) ==
  LET args == SeekArgs[full_buf[c][1]]
      targets == IF args = <<>> THEN {} ELSE SeekTargets(args[1], args[2])
  IN  /\ At(c, "ioctl")
      /\ \/ \E pos \in targets :
              Dev!SeekTo(c, pos) /\ fpos' = [fpos EXCEPT ![c] = pos]
         \/ targets = {} /\ Dev!Fail(c) /\ UNCHANGED fpos
      /\ Goto(c, "read")
      /\ UNCHANGED <<mainvars, th_data, file_mutex, conn, full_buf, received>>

ReadDevice(c) ==
  /\ At(c, "read")
  /\ Dev!Read(c, fpos[c], Chunk) \/ Dev!Fail(c)
  /\ Goto(c, "send")
  /\ UNCHANGED <<mainvars, th_data, file_mutex, conn, full_buf, fpos, received>>

(* What was read is sent, and the loop goes on until a read gives nothing. *)
(* To a client that is gone the send fails, which ends only the inner loop *)
(* (SIGPIPE is ignored).                                                   *)
Send(c) ==
  LET data == IF answer[c][1] = "read" THEN answer[c][3] ELSE <<>>
  IN  /\ At(c, "send")
      /\ IF data = <<>>
           THEN Goto(c, "close") /\ UNCHANGED <<fpos, received>>
           ELSE /\ received' = IF conn[c].here
                                  THEN [received EXCEPT ![c] = @ \o data]
                                  ELSE received
                /\ fpos' = [fpos EXCEPT ![c] = @ + Len(data)]
                /\ Goto(c, "read")
      /\ Dev!Return(c)
      /\ UNCHANGED <<mainvars, th_data, file_mutex, conn, full_buf>>

(* Faulty: the mutex is not released. *)
CloseKeepsMutex(c) ==
  /\ At(c, "close")
  /\ CloseConn(c)
  /\ Goto(c, "complete")
  /\ UNCHANGED <<mainvars, th_data, file_mutex, full_buf, fpos, received, device>>

(* close(fd), unlock, close(new_fd)                                        *)
CloseDevice(c) ==
  /\ At(c, "close")
  /\ file_mutex' = NoClient
  /\ CloseConn(c)
  /\ Goto(c, "complete")
  /\ UNCHANGED <<mainvars, th_data, full_buf, fpos, received, device>>

(* bThreadCompleted is set under the mutex, and the thread ends.           *)
CompleteThread(c) ==
  /\ At(c, "complete")
  /\ file_mutex = NoClient
  /\ th_data' = [th_data EXCEPT ![c].bThreadCompleted = TRUE]
  /\ Goto(c, "exit")
  /\ UNCHANGED <<mainvars, file_mutex, conn, full_buf, fpos, received, device>>

threadfunc(c) ==
  \/ Recv(c) \/ RecvEnd(c) \/ Terminate(c) \/ LockFile(c)
  \/ OpenDevice(c) \/ OpenFails(c) \/ WriteDevice(c) \/ Reopen(c)
  \/ SeekDevice(c) \/ ReadDevice(c) \/ Send(c) \/ CloseDevice(c)
  \/ CompleteThread(c)

Next ==
  \/ KilledEarly \/ signal_handler \/ Main
  \/ \E c \in Clients : Connect(c) \/ HangUp(c) \/ threadfunc(c)

Spec == Init /\ [][Next]_vars

(***************************************************************************)
(* The scheduler runs every thread that can run.  A thread takes the mutex *)
(* twice in its life, so that weak fairness is enough for it to get it.    *)
(* A client does not stay connected for ever.  Nothing says that another   *)
(* client connects or that a signal comes.                                 *)
(***************************************************************************)
Fairness ==
  /\ WF_vars(Main)
  /\ \A c \in Clients : WF_vars(threadfunc(c)) /\ WF_vars(HangUp(c))
FairSpec == Spec /\ Fairness

-----------------------------------------------------------------------------
ThreadStates == {"none", "recv", "terminate", "lock", "open", "write", "ioctl",
                 "reopen", "read", "send", "close", "complete", "exit"}
MainStates == SettingUp \cup {"check", "accept", "blocked", "create", "reap",
                              "join", "shutdown", "exited", "killed"}
Holding == {"open", "write", "ioctl", "reopen", "read", "send", "close"}
Connections == [state : {"none", "backlog", "open", "closed"},
                message : Seq(Bytes), inbox : Seq(Bytes), here : BOOLEAN]
Answers == {<<>>, <<"error">>} \cup ({"write", "seekto"} \X Nat)
             \cup ({"read"} \X Nat \X Seq(Bytes))

(* Every variable has its type; a message and its newline fit in full_buf, *)
(* and main works on a connection exactly while it creates its thread.     *)
TypeOK ==
  /\ caught_sig \in BOOLEAN
  /\ main \in [pc : MainStates, cur : Clients \cup {NoClient}, todo : Seq(Clients)]
  /\ main.cur \in Clients <=> main.pc = "create"
  /\ threads \in Seq(Clients)
  /\ thread \in [Clients -> ThreadStates]
  /\ th_data \in [Clients -> [alloc : BOOLEAN, bThreadCompleted : BOOLEAN]]
  /\ file_mutex \in Clients \cup {NoClient}
  /\ conn \in [Clients -> Connections]
  /\ full_buf \in [Clients -> Seq(Bytes)]
  /\ \A c \in Clients : Len(full_buf[c]) <= BufSize
  /\ fpos \in [Clients -> Nat]
  /\ received \in [Clients -> Seq(Bytes)]
  /\ log \in Seq(Seq(Bytes)) /\ pending \in Seq(Bytes)
  /\ answer \in [Clients -> Answers]

(* thread_data is freed once, after its thread and the list are done with  *)
(* it: a running thread's is allocated, the list and what the main thread  *)
(* has still to visit hold exactly allocated ones, each once, and none is  *)
(* left when main returns (aesdsocket.c:414-450).                          *)
NodesFreedOnce ==
  /\ ToSet(threads) = {c \in Clients : th_data[c].alloc}
  /\ IsInjective(threads)
  /\ Running => ToSet(main.todo) \subseteq ToSet(threads)
  /\ \A c \in Clients : thread[c] \notin {"none", "exit"} => th_data[c].alloc
  /\ main.pc = "exited" => threads = <<>>

(* file_mutex: a thread that has the device open is the only one, from its *)
(* write to its last read (aesdsocket.c:100-168).                          *)
DeviceExclusive ==
  \A c \in Clients : thread[c] \in Holding => file_mutex = c

(* What the device records are the clients' messages: a command of the log *)
(* is one whole message of one client, never a mixture of two, a client    *)
(* has no two of them, and no unfinished command is left for the next      *)
(* client to end.                                                          *)
Written(c) ==
  thread[c] \notin {"none", "recv", "terminate", "lock", "open", "write"}

CommandsAreMessages ==
  /\ pending = <<>>
  /\ \E by \in Injection(DOMAIN log, Clients) :
       \A i \in DOMAIN log : Written(by[i]) /\ log[i] = full_buf[by[i]]

UpToNewline(m) ==
  IF HasNewline(m)
    THEN SubSeq(m, 1, CHOOSE i \in DOMAIN m :
                        m[i] = Newline /\ \A j \in 1 .. i-1 : m[j] # Newline)
    ELSE m

(* RECEIVE COMPLETE MESSAGE, for messages shorter than full_buf: however   *)
(* recv cuts it up, the message of a client that stays is received whole   *)
(* up to its newline (aesdsocket.c:81-91).                                 *)
ShortMessageWhole ==
  \A c \in Clients :
    thread[c] = "lock" /\ conn[c].here /\ Len(conn[c].message) < BufSize
      => IsPrefix(UpToNewline(conn[c].message), full_buf[c])

(* What the device records are messages, and short ones are whole.         *)
(* (aesdsocket.c:81-100).                                                  *)
MessagesRecorded == CommandsAreMessages /\ ShortMessageWhole

ReadsToEnd(c) ==
  /\ thread[c] = "send" /\ thread'[c] = "close"
  /\ answer[c][1] = "read"
  /\ conn[c].here

(* "For normal writes we want to read the whole device contents from the   *)
(* beginning": a client that sent no seek and stays gets every byte the    *)
(* device then holds, once and in order.                                   *)
ReadBackWhole ==
  [][\A c \in Clients :
       ReadsToEnd(c) /\ ~ IsSeek(full_buf[c]) => received[c] = Dev!Stream]_vars

(* "AESDCHAR_IOCSEEKTO sets the file position on this fd": after a seek to *)
(* a command the device holds the client gets what follows that place.     *)
ReadBackFromSeek ==
  [][\A c \in Clients :
       LET args == SeekArgs[full_buf[c][1]]
           from == SizeOf(SubSeq(log, 1, args[1])) + args[2]
       IN  /\ ReadsToEnd(c) /\ IsSeek(full_buf[c])
           /\ args # <<>>
           /\ args[1] < Len(log) /\ args[2] < Len(log[args[1] + 1])
           => received[c] = SubSeq(Dev!Stream, from + 1, Len(Dev!Stream))]_vars

(* Each client that stays is sent the device from its start or, after a    *)
(* seek, from there (aesdsocket.c:200-240 of the meta copy).               *)
ReadBack == ReadBackWhole /\ ReadBackFromSeek

(* Every connection that got a thread is closed, whatever fails on the way *)
(* (aesdsocket.c:100-171).                                                 *)
ConnectionsClose ==
  \A c \in Clients :
    thread[c] = "recv" ~> (conn[c].state = "closed" \/ ~ Running)

(* A signal that comes while main is anywhere but at the call of accept    *)
(* ends the server: main does not wait for ever in pthread_join for a      *)
(* thread, nor a thread for the mutex (aesdsocket.c:365-450).              *)
SignalEndsServer ==
  caught_sig /\ main.pc \notin {"accept", "blocked"} ~> ~ Running

=============================================================================
