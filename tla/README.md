# Verification of the AESD device driver, its socket server and the LDD drivers

This directory is a TLA+ development of the concurrent parts of the
repository: models of the programs, runs of the TLC model checker on small
instances of them, and proofs that TLAPS checks. Paths are relative to the
root of the repository. `PROJECT.json` ties every definition to the lines it
models, names the runs, the faults each property was seen to detect, the
hazards that motivate the properties, and the findings.

## 1. The system

The repository is a course project (a kernel driver and a socket
server that uses it) together with the example drivers of *Linux Device
Drivers*.

| Component | Where | State | Operations |
|---|---|---|---|
| circular buffer | `aesd-char-driver/aesd-circular-buffer.c` | ten entries, two indices, a full flag | init, add, find by position |
| aesdchar driver | `aesd-char-driver/main.c` | the buffer, a partial command, a mutex | load, unload, open, release, read, write, llseek, seek ioctl |
| aesdsocket | `server/aesdsocket.c`, and a second copy under `meta-aesd/` | signal flag, list of threads, a mutex; per thread a connection, a buffer, an open device | accept loop, reaping, shutdown, `threadfunc` |
| scull | `scull/main.c` | parameters quantum and qset; a list of quantum sets and a size per device | open (trim), read, write, llseek, ioctl |
| scullpipe | `scull/pipe.c` | a byte ring, two wait queues, counts of readers and writers | open, release, read, write, poll, fasync, size ioctl |
| access devices | `scull/access.c` | a counter; counts and owners; a list of private devices | the open and release of scullsingle, sculluid, scullwuid, scullpriv |
| scullc, sculld, scullp, scullv | directories of these names | like scull, and mappings, deferred writes | like scull, mmap, aio |
| shortprint, short | directories of these names | circular buffers filled or emptied by interrupts | read, write, interrupt, tasklet, work, timer |
| snull | `snull/snull.c` | packet pool, receive queue, status word | open, transmit, interrupt, poll, time-out |
| sbull | `sbull/sbull.c` | data, user count, media flag, timer | open, release, request, media check |
| misc-modules | `misc-modules/` | jiq: one `struct clientdata`, a wait queue, four items that print; jit: a struct per read; a flag, a completion | read, write, work, timer and tasklet functions |
| tty, usb, lddbus | directories of these names | open counts, timers, URBs, driver-core objects | open, close, write, disconnect, registration |
| user programs | `finder-app/`, `misc-progs/`, `examples/` | none that persists | sequential I/O, one thread, fork and wait |

How they interact: the server opens `/dev/aesdchar`, writes one message, seeks
with the ioctl, reads. The driver calls the circular buffer under its mutex.
scullpipe's ring size is changed by scull's ioctl, on any scull device. The
reads of jiq meet in the one structure their items print from. The
access devices use scull's read, write and trim. Processes meet in system calls
on shared devices, and on shared open files.

What is hard about them: system calls that interleave inside one call (the file
position, the pipe's pointers, quantum and qset are read outside the lock);
sleeping and waking; allocation and copying that fail half way; rings at full,
empty and the wrap; a device that is usable before it is initialised; signals
and threads that end in unexpected places; messages that arrive in pieces.
Section `hazards` of `PROJECT.json` lists each at its line.

What makes each component correct:

* aesdchar: a log of the ten last complete commands; a write counts once or not
  at all; a read is a contiguous piece of the stream; memory has one owner; the
  mutex excludes and is always released; a seek lands where it was told to.
* aesdsocket: the commands recorded are the clients' messages; each client is
  sent the device's contents (or what follows its seek); each thread_data is
  freed once, after its thread; every connection closes; a signal ends it.
* scullpipe: a queue of bytes; no write outside the buffer; no wakeup is lost.
* scull: a file; its data has the geometry the device says it has.
* shortprint: a queue of bytes; output goes on while there is some, and after an
  interrupt was missed (which the code means to do and does not); no wakeup is lost.
* short: a read returns what was stored since the last, while it is there; the
  reader is woken; every time stamp is printed.
* scullc, sculld, scullp, scullv: files too; nothing is stored outside an object; while
  one is mapped its pages stay what the mapping shows.
* tiny_tty: the timer goes on while the line is open; who has it open finds the
  port, and is counted.
* jiq, jit: a reader is woken; lines go to the read that asked for them, and what
  they come from is not freed before the last.
* the system-call examples: a caller is told what became of its command (one of
  the three functions does), in one process.
* snull: a packet is in one place; transmission goes on while there are packets;
  a device that is up can be interrupted or is polled, and hears of each packet
  (which it does not).
* sbull: a medium is removed once nobody uses it, from under nobody, and nobody
  sees what was on it; a request puts each sector where it belongs.
* usb skeleton: a device lives as long as somebody has a pointer to it.
* access devices: who may open does, who may not does not; nobody waits for
  ever; scullsingle is not emptied under its user.

## 2. Modules

| Module | What it is |
|---|---|
| `CircularBuffer` | the circular buffer as operators on a record |
| `AesdLog` | abstract: what aesdchar promises, a log of commands |
| `AesdChar` | the driver, over `CircularBuffer` |
| `AesdCharProofs` | theorems about `AesdChar`: its invariants; that it implements `AesdLog` |
| `AesdSocket`, `AesdSocketProofs` | the server, over an `INSTANCE` of `AesdLog`; theorems about it |
| `BytePipe`, `ScullPipe` | abstract: a queue of bytes; scullpipe |
| `Shortprint`, `ShortprintProofs` | the output side of the printer driver, over `BytePipe` too; theorems about it |
| `SparseFile`, `QuantumSets`, `Scull`, `ScullC`, `ScullP`, `ScullD`, `ScullV` | abstract: a file with holes; the list of arrays of quanta as operators; scull; scullc over a slab cache; scullp with its mappings; sculld and scullv over `ScullP` |
| `Processes` | the processes that use a device, for the modules below |
| `ScullAccess`, `ScullAccessProofs` | the four access-controlled devices; theorems about them |
| `Short` | the interrupt-driven node of short |
| `Snull` | the two network devices of snull |
| `Sbull` | the block driver and its removable medium |
| `UsbSkel` | the usb skeleton: plugging, files and URBs |
| `TinyTty` | a line of tiny_tty, its timer and unloading |
| `Jiq`, `Jit` | reads that work items, tasklets and timers print into |
| `SystemCalls` | `do_system`, `do_exec`, `do_exec_redirect`, and the processes they make |
| `Devices`, `DevicesProofs` | scullpipe, the access devices, tiny_tty, jiq, jit and the examples side by side, and their properties; theorems about them |
| `Drivers`, `DriversProofs`, `ScullsProofs` | the five sculls, short, snull, sbull and the usb skeleton side by side, and their properties; theorems about short, snull, sbull and the usb skeleton; about the sculls |
| `StreamLemmas` | lemmas about sequences, concatenation and lists that the proofs share |
| `MC...` | small instances for TLC |

Definitions whose comment begins with "Faulty:" are variants of the definition
that follows with a plausible mistake in them. No specification uses them; each
was substituted for the definition it varies to see that the property named for
it in `PROJECT.json` (`mutants`) is then violated.

### CircularBuffer and AesdChar

`aesd_circular_buffer_add_entry` and the two others take and return the struct
as a record; the search loop of `find` is a statement about the running sums of
the entries' sizes (`RunningSum` is a recursive function, so that the module can
be proved about). An entry's `size` is the length of its `data`.

A system call is the VFS copying the file's position (`Syscall`), `Lock`, the
handler, and the VFS storing the position (`Return`). A read takes one step per
turn of its loop; a write one step up to the first allocation and one from the
second on. Everything else a handler does under the mutex is one step, which is
sound because no other step reads what it changes without the mutex, except
`filp->f_pos`, and that is set in the last step. `heap` is the set of blocks
allocated: `kmalloc` adds one, `kfree` removes it, so that leaks and double
frees are visible. Every allocation and every copy may fail. `boot` follows
`aesd_init_module`; `Spec` has nobody open the device before it has finished,
`SpecEarly` does.

### AesdSocket

The start-up of `main` is a step per call, each of which may fail; before the
handlers are installed a signal kills the server (`KilledEarly`), after that it
is noticed only where the loop begins.

The main thread's `pc` names the place in `main`; `todo` is what the loop over
the list has still to visit (the code saves the next pointer before it frees).
A thread's place is `thread[c]`, named for what it does next. `recv` returns any
prefix of what has arrived, at most a `Chunk`. The device is `AesdLog`: a system
call on it is one step of the abstract specification, which `AesdChar` is
checked to implement (`ImplementsLog`). Where the seek ioctl goes is stated again
here (`SeekTargets`), from the driver's code. `Meta` selects the copy: the one
under `meta-aesd/` reopens the device between write and read. A signal is taken
by the main thread, which the kernel prefers for a signal sent to a process.
What differs between the copies besides is logging and a second terminator of
`full_buf`, which no later line depends on.

### ScullPipe

Pointers are offsets. `dev.allocated` is the size the buffer was allocated with,
0 for none, and `dev.buffersize` the size the driver believes in. The pointers
move and wrap in two steps, because a sleeper compares them without the mutex.
`wait_event_interruptible` is `Prepare`, `Test`, `Sleep`; a wake-up takes a
process out of the queue, and one that was taken out before it sleeps returns
from `schedule` at once. poll joins both queues. Opens that are interrupted or
find no memory change nothing and are left out. The mode of a process's file is
a constant (`Modes`), so that the three roles of the instance are fixed.

### Shortprint

The same two-step waiting, for a writer that needs space and for a release that
waits until output ends. `shortp_work` is the work item: whether it is queued
again, and where its single thread is. A printed byte goes to `strobed`, which
is what the abstract queue's reader is answered. The timer is pending or off,
and `timeout` is where its function is, because the function tests
`shortp_output_active` before it takes the lock and `del_timer` does not wait
for it. The printer is busy with a byte until it takes it, and then pulses
its acknowledge line (`printer.ack`); the end of the pulse interrupts, or is missed.
The line rests otherwise, so that a time-out finds a missed interrupt only if it falls
into the pulse, before the interrupt could be missed. `printer.missed` is history: the
interrupt of the last byte printed was missed. A byte that was printed is forgotten, so
that states differ in what is still to be printed only.
Loading is one step; unloading is three, as what is still active may run
between them.

### ScullAccess

A section under a spinlock is one step, except that `scull_c_lookfor_device`
allocates with `GFP_KERNEL`: the search and the insertion are two steps, and
`scull_c_lock` keeps others out between them, as a spinlock does on a
multiprocessor (section 5 says what happens on others). The unlocked test of
scullwuid's waiters reads the count and then the owner, in two steps. The trim
that follows a write-only open is a step without the semaphore, as in the code;
a process inside `scull_read` or `scull_write` holds it. A process's terminal is
chosen at each open among those it may have.

### The sculls

The list of quantum sets is a sequence; a pointer is `NULL` or the function it
points to. `Enter` reads the geometry before the semaphore, as the code does;
what follows under the semaphore is one step. A store outside a quantum extends
the function, which makes it visible to `GeometryCurrent` and `QuantaFit`. A
device that is emptied gets the driver's parameters of the time. A write whose
copy fails may have stored some of its bytes.

scullp differs in what the model shows: a quantum is `PAGE_SIZE << order` bytes,
zeroed; the first item of the list is the device itself; `scullp_follow` does not
test what it allocates, so that a process without memory dies with the mutex
(`mutex = "lost"`); `scullp_trim` refuses while there are mappings. `maps[p]`
counts a process's mappings and records which page each fault found, and where.

scullc's quanta are objects of a cache that is created, for the quantum of load
time, before the ioctl can change it: `Object` is what one holds, and a store
outside it extends the function, which `ObjectsHold` sees. The calls of sculld
and scullv are scullp's, and `ScullD` and `ScullV` name them for what they model.
sculld's fault, where it finds a page, dies with the mutex. scullv maps quanta of any
order, and its fault takes the number of a page for that of a quantum.

### Short

The text buffer is its two indices and, as history, the set of bytes stored
since they were last read; what a record says is left out. The handler, the
bottom half and the reader take a step for each access to what they share. The
bottom half prints before it compares (`do ... while`), so that a call whose
stamps were printed by the one before prints all of `tv_data` again: the model
does that too. Loading installs the plain handler first and then, if bottom
halves are asked for, changes it; unloading frees the line and stops the bottom
half in two steps.

### Snull

`sender[d]` is whoever holds the kernel's transmit lock of device `d`, in
`snull_tx` or `snull_tx_timeout`; since an "interrupt" of snull is a call, it is
also where the handler is, of the twin (`at = "rx"`) or of the device itself.
`poll[d]` is `snull_poll`. Packets are alike, so lists are sets. The one place
where the code depends on their order is `pkt->next == NULL` after the lock was
given up (`snull.c:164`): `ends` holds, of the packets about to be tested, those
whose next is NULL by now, in whatever list they are. A transmission that finds
no packet keeps the lock (`lock = "lost"`), and everything that needs it stops.

### Sbull

The block device's mutex keeps open and release apart; `dev->lock` is held within
one step of each, and the timer's function waits for it (`running`). The data is
two sets of sectors: those with data, and those with data of a removed medium.
A request is its segments' sizes; `copied` records which sector of which segment
went where.

### UsbSkel

`interface` follows `skel_probe` and `skel_disconnect`. From the USB core: an open
holds `minor_rwsem`, for which `usb_deregister_dev` waits, and transfers have
ended before disconnect is called. `Devs` are what `kzalloc` may return, so that
a device is allocated anew after it was freed.

### TinyTty

The tty core's part is its lock, which keeps opens and closes apart, and the
close it makes after an open that failed, outside of that lock. `timer` is
whether the timer is pending and `handler` where its function is, since
`del_timer` does not wait for it. What the kernel would die of is recorded in
`oops`, and the model ends there: the properties speak of the states before.

### Jiq and Jit

An item (work, delayed work, tasklet, timer) is pending, or runs with what it
has read of `jiq_data`; both are possible at once. `calm` is history: so far no
two reads were under way at once, and no signal left an item behind.
In `Jit` memory that an item will still use is not given out again.

### SystemCalls

A process is the program, a copy of it in a call, a command, or ended. A copy
that returns from the call is the program again: it may call, and be redirected.
`result` is what the last call returned and, as history, what became of its command.

### Drivers and Devices

Systems that share nothing are checked in one run: a behaviour chooses one and
the others keep still, so that the states of the run are the sum of theirs.
The four access-controlled devices share nothing either (each has its own
counter, owner, lock and list), and are opened one kind at a time.

## 3. Runs

Bounds are in the `.cfg` files and named in the modules (`MaxAlloc`, `MaxPos`,
`BufSize`, `N`...). Two processes are enough for races of a pair, three where a
waker, a sleeper and a third that overtakes are needed, and for the users of the
access devices (the owner, root, and one that did su to a user). Rings of two or
three slots or bytes reach empty, partly full, full and wrapped within a few
calls. `char` has one struct file that both processes share, because that is
where the file position is contended; `BufSize` of 3 and `Chunk` of 2 make a
message that needs several `recv`s, fits `full_buf`, or exceeds it. Symmetry is
used for blocks and processes, in runs of safety properties only.

| Run | Instance | Shows |
|---|---|---|
| `char` | 2 processes, 1 shared file, ring of 2, commands up to 2 bytes | `TypeOK`, `RingOK`, `HeapOK`, `LockOK`, `EntriesComplete`; a seek inside the commands is exact (`SeekExactInRange`); the driver implements `AesdLog` |
| `socket` | 2 clients, messages longer than `full_buf`, without a newline and a seek, device of 1 command, meta copy, fairness | list and threads, `full_buf` never overflows, the device used by one thread at a time, commands are messages, short ones whole; the whole device is read back, or what follows the seek; connections close, a signal ends the server |
| `devices` | scullpipe: 3 processes that read or write and wait; data of 2 bytes, buffer of 3 set down to 1. Access devices: 3 processes, 2 or 3 users, 2 terminals. tiny_tty: 2 processes, 2 loads. Examples: 3 processes, 2 calls of each. jiq: 2 readers of 2 of the files, a limit of 1 line. jit: 2 readers, 2 blocks, 2 lines | scullpipe: counts, the buffer lives while the device is open, no write outside it, no lost wakeup of readers, only an open strands writers, implements `BytePipe`. Access devices: scullsingle open once, one user at a time, no lost wakeup, one device per terminal. tiny_tty (`TtyPort`): the timer goes on, the port is found, only a failed open miscounts, only a running handler revives the timer. Examples (`ExecReports`): what `do_exec` returns is so, and it waits for no copy of the program; no function denies a success; only a failed redirection makes a second program. jiq (`JiqPrints`): readers of work queues are woken, the timer ends with its read, calm reads get their own lines. jit: all lines before the data is freed |
| `shortprint` | 2 processes, page of 3, data of 2 bytes, fairness | nothing is stored outside the page; while output is active the timer is pending or undecided or work is under way, output is active while there are bytes (`OutputGoesOn`); no lost wakeup; implements `BytePipe`; a waiting writer goes on, unless from some time on the interrupt of the last byte was missed (`WriterGoesOn`) |
| `drivers` | scull: 1 process, quanta of 2 and 1, qsets of 1 and 2, 4 positions. scullc: the same, with every read and write of 2. scullp, sculld, scullv: the same with pages of 1, orders 0 and 1, qset 2, 2 mappings. short: a page of 3 records, reads of 1 byte or all, 2 time values. snull: polled, with pools of 1 and a close; with lost interrupts, pools of 1 and a time-out; not polled, with pools of 2 and a close. sbull: 2 users, 4 sectors, requests of equal and of unequal segments. usb: 2 processes, 3 devices | the sculls: each implements `SparseFile` (`ScullsImplementFile`); quanta have the geometry of the device, nothing is stored outside an object, a mapping shows the file, or scullv's quanta (`ScullMemory`). short (`ShortDelivers`): reads are fresh, no lost wakeup, all stamps printed. snull: packets in one place, transmission goes on, who is up is polled or can be interrupted. sbull: removal, blank medium, placement. usb: references |

Deadlock is checked in all of these but the server's, which ends, and which
may have seen its last client, and `drivers`: snull stops when a transmission
loses the lock, or when the bound on time-outs is used up. In `devices` the
places where a system may stop are listed (`Stopped`): an oops, the last unload,
a program that ended.

Seven more questions are answered with no; they are the findings, and
`PROJECT.json` quotes the text each contradicts.

| Run | What the code does |
|---|---|
| `char_seek_any` | with a full ring the seek ioctl accepts a command that does not exist and goes past the end |
| `char_early` | `cdev_add` before `mutex_init`: a caller in between loses the mutex |
| `socket_no_reopen` | the copy under `server/` sends back only what follows the write |
| `pipe_grow` | a larger size is believed before a larger buffer is allocated |
| `shortprint_unload` | work that is flushed at unload sets the timer that was just deleted |
| `exec_copies` | a child that cannot redirect its output returns into the program, of which there are two then |
| `snull_wake` | snull wakes a transmit queue whose pool is empty, and the next transmission keeps the lock |

Some properties are stated with an exception because the code has one, and the
text of the property names it: `SeekExactInRange` speaks of commands that exist,
`MessagesRecorded` says whole of messages that fit only, `ReadBack` is about threads
that did write or seek, `OnlyOpenStrands` of every step but an open, which empties the buffer
without waking writers (`scull/pipe.c:85`), `SignalEndsServer` of a signal that
does not fall between the test of `caught_sig` and the call of `accept`
(`server/aesdsocket.c:370`, after which nothing happens until the next client).
The models also have these behaviours, which no property excludes: a message
longer than `full_buf` is recorded with a hole in it (`server/aesdsocket.c:83`);
a thread that cannot open the device does not set `bThreadCompleted` and is not
joined until shutdown (107); a thread_data whose
thread could not be created stays in the list, and shutdown joins it (394, 446);
scullsingle can be refused
to one process by the passing decrement of another that is refused itself
(`scull/access.c:59`); shortprint calls `add_timer` on a timer that may be
pending, which the kernel takes for a bug (`shortprint/shortprint.c:392`);
sculluid, scullwuid and scullpriv are trimmed by a
write-only open while others use them (`scull/access.c:125`, 193, 296). With
two processes scull's quantum and qset, read before the semaphore is taken, may
be those of before a trim (`scull/main.c:300`, 344): `GeometryCurrent` is
checked of one process. scullp computes positions with the order of the device,
but allocates the quanta of every item but the first with order 0
(`scullp/main.c:152`, 242): with another order a write past the first item goes
beyond its allocation, which is why the instance keeps to the first item then.
Two processes that map scullp may lose an increment of `vmas`, or map a device
whose order was changed after the test (`scullp/mmap.c:37`, 113); one maps here.
A fault on a hole of scullp returns `VM_FAULT_NOPAGE` and is made again, where
the comment speaks of a signal (`scullp/mmap.c:69`, 77). `SbullDisk` speaks of
requests whose segments have one size: the size of the first is used for all
(`sbull/sbull.c:156`, 186). `ShortDelivers` excepts a read during which the head
passed the tail, after which bytes are returned twice; a head that catches up
with the tail exactly makes the buffer look empty, and a read that had just found it
otherwise returns 0. `SnullGoesOn` is, of transmission, about a device that is
neither simulating lockups nor has been timed out, and of reception excepts a
device that was interrupted, or whose poll the kernel ended, while it was down:
its receive interrupt stays disabled (`snull/snull.c:421`). It says that the device is
interrupted or polled again, not that it is for each packet, which is not so: a packet
that is queued after the poll looked last (`snull/snull.c:308`), and whose sender
finds the interrupt disabled (513) before the poll enables it (338), stays in `rx_queue`
without an interrupt or a poll until another packet comes, though the comment (332) has all
packets processed then; the test that would see it is commented out (333). `ObjectsHold` is
about quanta no larger than the one of load time: with a larger one scullc clears
and fills more than an object holds (`scullc/main.c:245`). scullv's fault shows,
where quanta have several pages, the first page of the quantum whose number is
the page's (`scullv/mmap.c:82`); the comment says that
`"order" must be zero` (54), which nothing checks. sculld's
fault finds the page's address and never its `struct page`: `get_page(NULL)`
(`sculld/mmap.c:66`, 88) kills the process with the mutex held, where the comment
says that it "returns it to the user" (48).

tiny_tty: the timer's function adds the timer again after a `del_timer` that ran
while it did (`tty/tiny_tty.c:92`, 154, 569), though the module means to "shut
down all of the timers and free the memory" (560): it then goes on after the
last close, is set up anew while it is pending, or outlives the port, the
tty or the module. A close after a failed open takes the count of another's open (165).
Every open passes through `driver_data = NULL` (101), which tiocmget and
tiocmset do not expect; setting or clearing DTR changes RTS (343, 348); `mcr` is
not initialised; every write reports `-EINVAL` (173).

jiq: `wait_event_interruptible(jiq_wait, 0)`, commented "sleep till completion" (209) and
"RACE" (248), waits for a condition that is never true, so that a read of
jiqtasklet or jitimer ends only by a signal; a tasklet or a work item that is
left behind prints into the seq_file of a read that is over. jit: a read that a
signal ends leaks its data and leaves the timer printing (231); one that finds
all lines printed without having slept frees the wait queue before the
`wake_up` (196, 232).

The examples: `ExecReports` binds what `do_exec` returns both ways, and the other
two only where they return false. `do_system` returns true for a command that ended with
an error (`examples/systemcalls/systemcalls.c:25`; the comment at 5-8 says false), and
`do_exec_redirect` whatever became of it (188; 39-42, 141), when `waitpid` failed too.

shortprint: `OutputGoesOn` says that active output is never without work or timer, and after
a missed interrupt the timer is one that does nothing. The time-out calls the handler
only where the printer is not busy and `SP_SR_ACK` is low (`shortprint/shortprint.c:390`),
which it is in the pulse that ends a byte only; nothing is printed any more, no pulse
comes, and every time-out sets the timer again, where the comments mean it to
recover ("in case we miss interrupts", 147; "Otherwise we must have dropped an
interrupt", 397). Since output counts as active no write starts it anew. `WriterGoesOn`
therefore excepts behaviours in which the interrupt of the last byte was missed and stays so.

Fairness (`socket` and `shortprint`). The main thread and a thread of the server that can
run does; a thread takes the mutex twice in its life at most, and each holder
gives it back, so weak fairness suffices; a client eventually goes away, without
which `recv` may block for ever, as in the code. Nothing is assumed of new
clients or of signals. In `shortprint` the kernel runs queued work and
processes that can run, and the printer takes its byte and ends its pulse:
weak fairness of each. That the end of a pulse interrupts is not assumed, nor that the
timer expires or that a time-out falls into a pulse.

## 4. Proofs

TLC checks one instance of a property; the theorems below hold for every value
of the constants that satisfies the assumptions named in the modules (TLC
evaluates these on the instances). Each safety theorem has the same argument:
an inductive invariant holds initially, each action keeps it (a lemma per part,
a step per action), and it implies the property. A refinement theorem adds that
each step maps to a step of the abstract specification or to a stutter.

| Module | Theorem | Shows |
|---|---|---|
| `AesdCharProofs` | `TypeCorrect`, `RingCorrect`, `MutualExclusion`, `MemorySafe`, `CommandsComplete` | `Spec => []P` for `TypeOK`, `RingOK`, `LockOK`, `HeapOK`, `EntriesComplete` |
| | `LogCorrect`, `SeekCorrect` | `Spec => ImplementsLog`; `Spec => SeekExactInRange` |
| `AesdSocketProofs` | `TypeCorrect`, `FreesCorrect`, `ExclusionCorrect`, `MessagesCorrect` | `Spec => []P` for `TypeOK`, `NodesFreedOnce`, `DeviceExclusive`, `MessagesRecorded` |
| | `SeekReadBackCorrect`, `ReadBackCorrect` | `ReadBackFromSeek` of both copies; `ReadBack` of the copy that reopens the device (`Meta`) |
| `DevicesProofs`: scullpipe | `TypeCorrect`, `LifeCorrect`, `WakeupsCorrect`, `StrandsCorrect` | `Spec => []P` for `TypeOK`, `BufferWhileOpen`, `ReadersWoken`; `Spec => OnlyOpenStrands` |
| | `BufferCorrect`, `QueueCorrect` | `Spec /\ OnlyShrinks => []BufferSafe`, `... => ImplementsQueue` |
| `ShortprintProofs` | `TypeCorrect`, `OutputCorrect`, `SleepersCorrect`, `QueueCorrect` | `Spec => []P` for `TypeOK`, `OutputGoesOn`, `SleepersWoken`; `Spec => ImplementsQueue` |
| `ScullAccessProofs` | `TypeCorrect`, `SingleCorrect`, `OneUserCorrect`, `WaitersCorrect`, `OneDeviceCorrect` | `Spec => []P` for `TypeOK`, `SingleOpen`, `OneUser`, `WaitersWoken`, `OneDevicePerTty` |
| `DevicesProofs` | `ComponentsAlone` | `DevicesSpec` implies, of each system, what it does alone |
| | `TypesCorrect`, `SingleOpenCorrect`, `OneUserAtATime`, `AllWaitersWoken`, `OneDeviceForAll`, `LinesCorrect`, `JiqCorrect` | `DevicesSpec => []P` for `TypesOK`, `SingleOpen`, `OneUser`, `WaitersWoken`, `OneDevicePerTty`, `LinesBeforeFree`, `JiqPrints` |
| | `TtyPortCorrect`, `ExecCorrect` | `DevicesSpec => P` for the action properties `TtyPort`, `ExecReports` |
| `DriversProofs` | `DriversAlone` | `DriversSpec` implies, of each driver, what it does alone |
| | `RefsCorrect`, `DiskCorrect`, `ShortCorrect`, `PacketsCorrect`, `GoesOnCorrect` | `DriversSpec => []P` for `UsbRefsCounted`, `SbullDisk`, `ShortDelivers`, `SnullPacketsOnce`, `SnullGoesOn` |
| `ScullsProofs` | `TypesCorrect` | `DriversSpec => []TypesOK` |
| | `GeometryKept`, `ObjectsKept` | `[]GeometryCurrent` of scull for one process; `[]ObjectsHold` of scullc for several, where no quantum is set that is larger than the objects |
| | `MemoryKept` | `DriversSpec => []ScullMemory`, for one process |

**AesdChar.** `IInv` is `TypeOK /\ BootOK /\ RingOK /\ LockOK /\ HeapOK`.
`RingOK` needs the types of the indices. `HeapOK` needs `RingOK` (the
slots that hold a command are the ones the indices say, so that the pointer
returned when the ring is full is the one overwritten) and `LockOK` (the `kbuf`
of a write is the only one). `LockOK` needs `BootOK`: `mutex_init` sets the
mutex free, which is harmless because no file is open then, so no call is under
way. `RunningSum` is a recursive function: that it has a value is proved by an
induction over an interval stated for a set of numbers (`IntervalInduction`),
from the well-foundedness of the subset ordering.

The refinement needs three facts more. No command is larger than `kmalloc`
serves (`SizesOK`), so that positions and what a read returns stay within those of the log. What a read has copied so far is, in each turn of its loop, the
piece of the stream from where it began (`ReadOK`): a turn copies to the end of
an entry at most, and the next turn finds the next entry, wherever the ring
wraps. And that the ring read from `out_offs` is the sequence of commands
(`Commands`), to which `aesd_circular_buffer_add_entry` appends one, and
from which it drops the first when full: the mapping to `AesdLog`.

**AesdSocket.** Five invariants, each proved over the ones before it. `TypeInv`
adds to the types what each place of a thread knows of its buffer (`BufferInv`:
while it receives there is room for the newline, afterwards the message ends with one) and answer.
`ListInv` adds to `NodesFreedOnce` that `todo` has no duplicates, that at
shutdown it holds the whole list, and that a client not yet accepted has neither node nor
thread.
`MutexInv` says that a thread at a place between lock and unlock is the holder.
`MessagesRecorded` names which client a recorded command is of; a client has
one command at most since a thread writes once; `ShortInv` follows a message
shorter than `full_buf` through its `recv`s, as what was received and what is
still to come. `ReadInv` says, of a thread that reads, that what it has read is the
device's stream from the place it began up to its file position; the stream does
not change meanwhile, by `MutexInv`.

**ScullPipe.** `DeviceInv` is `TypeInv` (with the mutex held exactly at the places
`Locked`, and whoever is in a queue at a place of waiting), `PointersInv` (both
pointers in the buffer, or at its end until they wrap) and `BufferWhileOpen`,
for which openers are counted (`ProcsAssumption`: they are finitely many).
`BufferSafe` is not true of the code: a larger size is believed before a larger
buffer is allocated (the run `pipe_grow`). What is proved is that it holds where
the parameter never grows: `OnlyShrinks` is a hypothesis on the behaviour, which
every behaviour with a size that is constant, or set down, satisfies; `RoomInv` then bounds the
size believed by the size allocated. The other four theorems have no such hypothesis.
`ReadersWoken` is inductive with `DeviceInv`: a writer that stored a byte is at
`write_wrap` or `write_wake` until it has woken the queue. For the queue, `ContentIs` says what the bytes
between the pointers are, `ReadTakes` and `WriteAppends` what a transfer does to them, and
`WrapKeepsContent` that a wrap does nothing.

**Shortprint.** `ShortInv` is `Types`, `Holders` (who writes holds the mutex) and
`Pieces` (what a writer knows of the space it found: the timer and the work item
only make more). `OutputGoesOn` needs that what drives the output is followed by
the next driver in one step, the time-out function that lost its race included.
`SleepersWoken` needs that a writer sleeps with a full buffer only (`Asleep`), and a
release while output is active (`Awaited`). For the queue, `Shown` is the piece of the page
between tail and head, written as a function, and a byte that is strobed is its first.
A page of one or two bytes has no room for output (`PageSizeAssumption`).

**ScullAccess.** `AccessInv` has `Places` (what a process opens, wherever it is),
`Semaphores`, `Counted` (each counter is the number of its openers; scullsingle's
also of the refused opens that have not put it back), `Awaited` and `Lookups`.
`WaitersWoken` is not inductive: a waiter reads the count and then the owner
without the lock. `Awaited` adds the waiter between the two reads, of whom only
a count of 0 in between matters: the release that made it 0 is about to wake the
queue he is in already. `Lookups` says that whoever allocates holds the lock and did
not find a device; that the lock is held across the allocation is what makes
`OneDevicePerTty` true.

**Devices and Drivers.** In `DevicesSpec` and `DriversSpec` each step is one of one
system and leaves the variables of the others alone (`ComponentsAlone`,
`DriversAlone`), so that an invariant of one system's `Spec` holds of the whole. The
theorems of `ScullAccessProofs` are used through an `INSTANCE` of that module with
the variables of `Devices`. scullp, sculld and scullv share their variables, and so
their invariant is proved of the whole. What is proved is for every number of
users, sizes and requests: the instances of section 3 are small, the theorems not.

*tiny_tty.* `TtyInv`: who opens has the tty's lock until he is counted; no more are
counted than have the tty open (a failed open's close makes them fewer, never
more), the port is there for them, and while somebody is counted the timer is
pending or its function on the way to setting it. The count is compared with the
number of openers, which is why `Users` is finite (`UsersAssumption`).
*The examples.* `Told`, and that only what will be or was a command has its output
redirected (`ExecInv`). That `do_exec` waits for no copy of the program needs who waits for whom
(`ExecAwaits`): no two processes wait for one child, so that nobody else reaps it,
and a child of `do_exec` is in that call until it executes the command. *jiq.* While no two reads overlapped and no signal left an item behind
(`JiqCalm`), the item that is queued or runs belongs to the one read under way, and
not twice. *jit.* A read's block is its own and allocated; a started item has lines left and its
data is there; who has found none left is alone with the block; who sleeps has an item that
will wake him (`JitAssumption`: there is a line to print).

*usb skeleton.* `UsbInv`: an open that is about to take its reference holds
`minor_rwsem`, so the interface still has, or `skel_disconnect` still keeps, its own; the count
is then the cardinality of the users. *sbull.* `SbullInv`: an open has stopped the timer before it comes to the
device's lock, so that data is stale only while nobody has the device open; and
the sectors copied so far are those of the segments before the next, which is
where equal segments are needed (the products of `Start` are given to the prover
in steps). *short.* The head is a multiple of the record's length
below the page's (`ShortAssumption`: the page is a whole number of records, at
least two), the tail anywhere in the page; what is between them was stored since it
was last read; and a read whose tail the head has not passed still finds the bytes it counted
(`ShortCounted`).

*snull.* `SnullInv`: types; a packet is in one place (`SnAlone`), and
somewhere as long as no pool was torn down (`SnSomewhere`); the packets that are
somewhere are as many as a pool holds for each reset at most, so that a reset
finds new ones (`SnKnownFew`, with cardinalities); a device whose queue is stopped with packets in the pool
has one there that its releaser has still to test (`SnStarted`), because nobody
takes one while the queue is stopped; and a polled device that did not miss an interrupt has its receive
interrupt enabled or a poll scheduled (`SnListens`). Without that packet `SnullGoesOn` is
not inductive, since the test for an empty pool is made after the lock was given up.

**The sculls.** The operators of `QuantumSets` come first: what `scull_follow`, a
failed one, `WithArray`, `WithQuantum` and `Written` leave has each array and each quantum as
large as it was or as the call allocates them (`WriteShape`, `OtherShape`), and nothing
that was in the list is taken away (`Keeps`). `PlaceInQuantum` bounds the three
numbers that a position is divided into.

`ScullTypes` needs no hypothesis: a write is let in where its bytes fit below
`MaxPos`, and neither a short transfer nor a device trimmed meanwhile goes beyond. `GeometryInv`, for one process
(`OneProcess`), adds that what a call has taken along is the device's until it
ends, since only an open trims. For scullc `ScInv` is about any number of
processes: whatever geometry a call has taken along, the position in its quantum
is below that quantum, and no quantum is larger than the objects (`SmallQuanta`).
`SpInv` is that of scullp, sculld and scullv, for one process: sizes of quanta may depend on the item
(`SpSizes`: scullp allocates those of all items but the first with one page), `vmas` is
the number of mappings, and each page that was touched in one is of a quantum
that is still there, because a mapped device is not trimmed and the list only
grows. The calls of sculld and scullv are shown equal to scullp's; of theirs, only the
faults are proved anew. `MemoryKept` has three hypotheses, each of which the code needs: one process
(section 3); `SmallQuanta`; and `InFirstItem`, that the file is within the first item
where quanta are of several pages.

The assumptions on the constants of the compositions are that the sizes are
positive, that sets of counts are of numbers and written data are sequences, that a model value for
"nobody" is not a process, and, in `PagesAssumption`, that `2^order` is a number,
of which the prover does not know. The pipe's theorems are of any `Modes`, those of
files opened with `O_NONBLOCK` included, which the instance leaves out.

The models were changed where that made them easier to reason about, without
changing what they do: flattening a log and joining transfers use the folds of the community modules,
the sets of possible transfers have names, and types are stated in full.

Model-checked only:

* liveness (`ConnectionsClose`, `SignalEndsServer`, `WriterGoesOn`): the prover
  has no rule for fairness and no `ENABLED`;
* that each scull implements `SparseFile` (`ScullsImplementFile`); what a proof
  would need first is in `ScullsProofs`, the geometry by which a position finds
  its byte;
* the memory of the sculls where several processes share one (it does not have
  the geometry then, see section 3), or where the hypotheses of `MemoryKept` fail;
* the findings, which are counterexamples;
* induction over data: that `RunningSum` is the sum of its arguments is by
  definition. What a proof needs of it, and of `FlattenSeq`, is proved for
  prefixes of one more element (`FlattenStep`), by induction over an interval.

## 5. Not modelled

Loading of scull's modules, their proc files (compiled for debugging only); the
server's timer thread, which is compiled only without the device; logging. Interrupted waits
for a lock that change no state are left out where a comment says so. Widths of
integers: sizes and positions are 64 bits wide and bounded by memory; the 32-bit
numbers of the seek ioctl are compared before they are added. scull's ioctl
accepts a quantum of 0, which read and write then divide by
(`scull/main.c:437`); the parameters are positive in the model. A kernel built
for one processor has no spinlocks, so that two processes may both find no
scullpriv device for their terminal and add one each, when the allocation
between sleeps (`scull/access.c:259`); the model is of a multiprocessor build.
One reader of short is modelled: two copy the same bytes and may pass the head.
`ShortDelivers` follows the stamps to a bottom half, not the entries of `tv_data`: that
`NR_TIMEVAL` interrupts overrun them is not seen.
`SparseFile` keeps no position, so that one read from a wrong place shows in
the data returned only, and `BytePipe` may discard its contents at any time, of which
scullpipe and shortprint make use when the buffer is set up anew.
The terminator that `sprintf` writes after short's record at the end of the page
(`short/short.c:349`) is left out. From kernel 5.9 on sbull's `media_changed` is not compiled, so that a removal is
never noticed; the model is of older kernels. Its unloading after a set-up that
failed, which frees the data twice (`sbull/sbull.c:508`), is left out with the loading.
Of the usb skeleton the buffers are left out: readers share `bulk_in_buffer`, and a
write that fails frees its buffer by two ways (`usb/usb-skeleton.c:204`-206). A read
or write of scullp whose buffer is a mapping of the same device needs, in the
fault, the mutex it holds. snull's skbs are not modelled, nor that its
pool is filled with an allocation that may sleep under a spinlock
(`snull/snull.c:107`, 584); time-outs are checked without polling only, where the
state space allows them. The file systems under the tools, the build and the tests are not modelled.

lddbus, with which sculld is registered, wraps the driver core: what it could get
wrong is the kernel's state. (`sculld_init` leaves the driver registered when
`kmalloc` fails.) The deferred calls of the sculls hand the kiocb
to the page cache, which these devices have not. tiny_serial is tiny_tty's timer
under the kernel's serial core. tiny_tty's TIOCMIWAIT sleeps in a wait queue that
nobody initialises or wakes; its other ioctls and termios change no state. sleepy,
complete, threading, silly, seq, simple, skull and pci are a few lines without
state between calls, or a race their comment explains.

## 6. Plan

Done: the driver with its proofs, the server with its start-up, scull, scullc,
sculld, scullp, scullv, scullpipe, the access devices, the output side of shortprint,
short, snull, sbull, the usb skeleton, tiny_tty, jiq, jit, the system-call
examples.

Next: two processes on scull and scullp with the properties that still hold then;
loading and unloading of the sculls; sleepy and complete.

Every invariant that a run checks is proved, and every action property and
refinement but `ScullsImplementFile`, which is the theorem worth proving next:
that what `Written` leaves differs from what was there in the bytes of the call
only, and that the bytes at the positions of two items, arrays or quanta are
different ones, with `GeometryKept` for the rest. After it, what still holds of
scull when two processes share a device.
