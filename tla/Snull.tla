------------------------------- MODULE Snull -------------------------------
(***************************************************************************)
(* The snull network driver: two devices, each of which transmits to the   *)
(* other.  A packet is taken from the sender's pool, queued at the         *)
(* receiver, and given back to the sender's pool by whoever receives it.   *)
(* The "interrupts" are calls: of the receiver's handler and of one's own. *)
(*                                                                         *)
(* The kernel transmits, and calls the time-out handler, under one lock    *)
(* per device: sender[d] is whoever holds that of d.  poll[d] is snull_poll*)
(* of d.  A section under priv->lock is one step; senders change the       *)
(* status word without it, in two.  Packets are alike, so the order of     *)
(* lists is left out; so are skbs, data, statistics and the configuration  *)
(* calls.  Loading the module comes before Init, with pools that are full. *)
(***************************************************************************)
EXTENDS Integers, FiniteSets

CONSTANTS
  Parameters,   (* the load parameters use_napi, lockup and pool_size, and *)
                (* the bounds MaxTimeouts, MaxCloses on how many time-outs *)
                (* and closes happen: a set of records                     *)
  Budget        (* of one poll: 2 in the code                              *)

Devs == {0, 1}
Twin(d) == 1 - d

VARIABLES
  param,                (* the one of Parameters that was chosen           *)
  state,                (* of each device: down, up or closing             *)
  ppool, rx_queue,      (* the packets in them                             *)
  ends,                 (* the packets whose next is NULL, of those whose  *)
                        (* next is still to be tested                      *)
  rx_int_enabled, status, lock,
  stopped,              (* whether the kernel's transmit queue is stopped  *)
  napi,                 (* whether a poll is scheduled, and again          *)
  sender, poll,         (* where they are                                  *)
  timeouts, closes,     (* history: how many there were, and which devices *)
  missed                (* got an interrupt or ended a poll while not up   *)

vars == <<param, state, ppool, rx_queue, ends, rx_int_enabled,
          status, lock, stopped, napi, sender, poll, timeouts, closes, missed>>
history == <<timeouts, closes, missed>>
pools == <<ppool, ends, stopped>>
irq == <<rx_int_enabled, napi, missed>>

use_napi == param.use_napi
lockup == param.lockup
pool_size == param.pool_size

(* A packet belongs to the device whose pool it was allocated for.         *)
Packets(d) == {d} \X (1 .. pool_size * (param.MaxTimeouts + 1))
dev(pkt) == pkt[1]
NoPacket == <<>>

IdleSender == [at |-> "idle", pc |-> "idle", pkt |-> NoPacket,
               word |-> {}]
IdlePoll == [pc |-> "idle", pkt |-> NoPacket, npackets |-> 0]

Init ==
  /\ param \in Parameters
  /\ state = [d \in Devs |-> "down"]
  /\ ppool = [d \in Devs |-> {d} \X (1 .. pool_size)]
  /\ rx_queue = [d \in Devs |-> {}] /\ ends = {}
  /\ rx_int_enabled = [d \in Devs |-> TRUE]
  /\ status = [d \in Devs |-> {}] /\ lock = [d \in Devs |-> "free"]
  /\ stopped = [d \in Devs |-> TRUE]
  /\ napi = [d \in Devs |-> [scheduled |-> FALSE, again |-> FALSE]]
  /\ sender = [d \in Devs |-> IdleSender] /\ poll = [d \in Devs |-> IdlePoll]
  /\ timeouts = 0 /\ closes = 0 /\ missed = {}

-----------------------------------------------------------------------------
snull_open(d) ==
  /\ state[d] = "down"
  /\ state' = [state EXCEPT ![d] = "up"]
  /\ stopped' = [stopped EXCEPT ![d] = FALSE]
  /\ UNCHANGED <<param, ppool, ends, rx_queue, status, lock, irq, sender,
                 poll,
                 timeouts, closes>>

(* The kernel has ended transmission.  napi_disable waits until no poll is *)
(* scheduled.                                                              *)
snull_release(d) ==
  /\ state[d] = "up" /\ sender[d] = IdleSender /\ closes < param.MaxCloses
  /\ state' = [state EXCEPT ![d] = "closing"]
  /\ stopped' = [stopped EXCEPT ![d] = TRUE]
  /\ closes' = closes + 1
  /\ UNCHANGED <<param, ppool, ends, rx_queue, status, lock, irq, sender,
                 poll,
                 timeouts>>

Disabled(d) ==
  /\ state[d] = "closing" /\ ~ napi[d].scheduled
  /\ state' = [state EXCEPT ![d] = "down"]
  /\ UNCHANGED <<param, pools, rx_queue, status, lock, irq, sender, poll,
                 timeouts, closes>>

-----------------------------------------------------------------------------
(* snull_tx and snull_hw_tx.                                               *)
Continue(d, s) == sender' = [sender EXCEPT ![d] = s]
SenderUnchanged == UNCHANGED <<param, state, poll, timeouts, closes>>

Transmit(d) ==
  /\ sender[d] = IdleSender /\ state[d] = "up" /\ ~ stopped[d]
  /\ Continue(d, [IdleSender EXCEPT !.at = "tx", !.pc = "get"])
  /\ UNCHANGED <<pools, rx_queue, status, lock, irq>> /\ SenderUnchanged

(* The queue is stopped with the last packet.                              *)
Stops(left) == left = {}

(* Without a packet the function returns with the lock.                    *)
snull_get_tx_buffer(d) ==
  /\ sender[d].pc = "get" /\ lock[d] = "free"
  /\ IF ppool[d] = {}
       THEN /\ lock' = [lock EXCEPT ![d] = "lost"]
            /\ Continue(d, IdleSender)
            /\ UNCHANGED pools
       ELSE \E pkt \in ppool[d] :
              /\ ppool' = [ppool EXCEPT ![d] = @ \ {pkt}]
              /\ stopped' = [stopped EXCEPT ![d] = @ \/ Stops(ppool'[d])]
              /\ Continue(d, [sender[d] EXCEPT !.pc = "enqueue", !.pkt = pkt])
              /\ UNCHANGED <<ends, lock>>
  /\ UNCHANGED <<rx_queue, status, irq>> /\ SenderUnchanged

(* The next of a packet that is put in front of a list is what was in it.  *)
Tested == {sender[d].pkt : d \in {d \in Devs : sender[d].pc = "wake"}}
            \cup {poll[d].pkt : d \in {d \in Devs : poll[d].pc = "wake"}}
NextOf(pkt, list) == IF list = {} THEN ends \cup {pkt} ELSE ends \ {pkt}

snull_enqueue_buf(d) ==
  /\ sender[d].pc = "enqueue" /\ lock[Twin(d)] = "free"
  /\ rx_queue' = [rx_queue EXCEPT ![Twin(d)] = @ \cup {sender[d].pkt}]
  /\ ends' = NextOf(sender[d].pkt, rx_queue[Twin(d)]) \cap Tested
  /\ Continue(d, [sender[d] EXCEPT !.pc = "enabled?", !.pkt = NoPacket])
  /\ UNCHANGED <<ppool, stopped, status, lock, irq>> /\ SenderUnchanged

TestEnabled(d) ==
  /\ sender[d].pc = "enabled?"
  /\ Continue(d, [sender[d] EXCEPT
                    !.at = IF rx_int_enabled[Twin(d)] THEN "rx" ELSE "tx",
                    !.pc = "load"])
  /\ UNCHANGED <<pools, rx_queue, status, lock, irq>> /\ SenderUnchanged

(* status |= ..., without the lock.                                        *)
Target(d) == IF sender[d].at = "rx" THEN Twin(d) ELSE d
Bit(d) == IF sender[d].at = "rx" THEN "RX" ELSE "TX"

LoadStatus(d) ==
  /\ sender[d].pc = "load"
  /\ Continue(d, [sender[d] EXCEPT !.word = status[Target(d)], !.pc = "store"])
  /\ UNCHANGED <<pools, rx_queue, status, lock, irq>> /\ SenderUnchanged

StoreStatus(d) ==
  /\ sender[d].pc = "store"
  /\ status' = [status EXCEPT ![Target(d)] = sender[d].word \cup {Bit(d)}]
  /\ Continue(d, [sender[d] EXCEPT !.word = {}, !.pc = "interrupt"])
  /\ UNCHANGED <<pools, rx_queue, lock, irq>> /\ SenderUnchanged

(* "Simulate a dropped transmit interrupt", every lockup-th time.          *)
DropInterrupt(d) ==
  /\ lockup /\ sender[d].at = "tx" /\ sender[d].pc = "interrupt"
  /\ stopped' = [stopped EXCEPT ![d] = TRUE]
  /\ Continue(d, IdleSender)
  /\ UNCHANGED <<ppool, ends, rx_queue, status, lock, irq>> /\ SenderUnchanged

-----------------------------------------------------------------------------
(* snull_napi_interrupt and snull_regular_interrupt.                       *)
(* What follows a handler: a transmission's own interrupt, the end of it,  *)
(* or the reset of the pool.                                               *)
After(s) ==
  CASE s.at = "rx" -> [IdleSender EXCEPT !.at = "tx", !.pc = "load"]
    [] s.at = "tx" -> IdleSender
    [] s.at = "timeout" -> [IdleSender EXCEPT !.at = "timeout", !.pc = "reset"]

(* napi_schedule: a device that is not up is not polled; one that is being *)
(* polled already will be once more.                                       *)
napi_schedule(t) ==
  /\ napi' = IF state[t] = "up"
               THEN [napi EXCEPT ![t] = [scheduled |-> TRUE, again |-> @.scheduled]]
               ELSE napi
  /\ missed' = IF state[t] = "up" THEN missed ELSE missed \cup {t}

Interrupt(d) ==
  LET t == Target(d)
      s == sender[d]
      statusword == status[t]
  IN  /\ s.pc = "interrupt" /\ lock[t] = "free"
      /\ status' = [status EXCEPT ![t] = {}]
      /\ IF use_napi /\ "RX" \in statusword
           THEN /\ rx_int_enabled' = [rx_int_enabled EXCEPT ![t] = FALSE]
                /\ napi_schedule(t)
           ELSE UNCHANGED irq
      /\ IF ~ use_napi /\ "RX" \in statusword /\ rx_queue[t] # {}
           THEN \E pkt \in rx_queue[t] :
                  /\ rx_queue' = [rx_queue EXCEPT ![t] = @ \ {pkt}]
                  /\ Continue(d, [s EXCEPT !.pc = "release", !.pkt = pkt])
           ELSE UNCHANGED rx_queue /\ Continue(d, After(s))
      /\ UNCHANGED <<pools, lock>> /\ SenderUnchanged

-----------------------------------------------------------------------------
(* Faulty: the packet goes to the pool of the device that received it. *)
GiveAway(pkt) ==
  LET d == Twin(dev(pkt))
  IN  /\ lock[d] = "free"
      /\ ppool' = [ppool EXCEPT ![d] = @ \cup {pkt}]
      /\ ends' = NextOf(pkt, ppool[d])

(* snull_release_buffer: the packet goes back to its pool; then, without   *)
(* the lock, the queue is woken if it is stopped and the packet's next is  *)
(* NULL, in whatever list it is by now.                                    *)
GiveBack(pkt) ==
  /\ lock[dev(pkt)] = "free"
  /\ ppool' = [ppool EXCEPT ![dev(pkt)] = @ \cup {pkt}]
  /\ ends' = NextOf(pkt, ppool[dev(pkt)])

InHand(r) == IF r.pc = "wake" THEN NoPacket ELSE r.pkt

(* Faulty: the queue is woken if the packet is not the last. *)
WakesIfMore(pkt) == stopped[dev(pkt)] /\ pkt \notin ends

Wakes(pkt) == stopped[dev(pkt)] /\ pkt \in ends

WakeQueue(pkt) ==
  /\ stopped' = [stopped EXCEPT ![dev(pkt)] = @ /\ ~ Wakes(pkt)]
  /\ ends' = ends \cap Tested'

ReleaseReceived(d) ==
  LET s == sender[d]
  IN  /\ s.pc = "release" /\ GiveBack(s.pkt)
      /\ Continue(d, [s EXCEPT !.pc = "wake"])
      /\ UNCHANGED <<stopped, rx_queue, status, lock, irq>> /\ SenderUnchanged

WakeSender(d) ==
  /\ sender[d].pc = "wake"
  /\ Continue(d, After(sender[d]))
  /\ UNCHANGED <<ppool, rx_queue, status, lock, irq>> /\ SenderUnchanged
  /\ WakeQueue(sender[d].pkt)

-----------------------------------------------------------------------------
(* snull_tx_timeout, when the queue has been stopped for long enough.      *)
Timeout(d) ==
  /\ timeouts < param.MaxTimeouts
  /\ sender[d] = IdleSender /\ state[d] = "up" /\ stopped[d]
  /\ timeouts' = timeouts + 1
  /\ Continue(d, [IdleSender EXCEPT !.at = "timeout", !.pc = "load"])
  /\ UNCHANGED <<param, state, pools, rx_queue, status, lock, irq, poll,
                 closes>>

InUse == (UNION {rx_queue[e] : e \in Devs})
              \cup {InHand(sender[e]) : e \in Devs}
              \cup {InHand(poll[e]) : e \in Devs}

(* The pool is freed and allocated anew, as far as there is memory.        *)
ResetPool(d) ==
  /\ sender[d].pc = "reset" /\ lock[d] = "free"
  /\ \E n \in 0 .. pool_size :
       ppool' = [ppool EXCEPT ![d] =
                   CHOOSE new \in SUBSET (Packets(d) \ InUse) :
                     Cardinality(new) = n]
  /\ ends' \in {ends, ends \ ppool[d]}
  /\ stopped' = [stopped EXCEPT ![d] = FALSE]
  /\ Continue(d, IdleSender)
  /\ UNCHANGED <<rx_queue, status, lock, irq>> /\ SenderUnchanged

-----------------------------------------------------------------------------
(* snull_poll.                                                             *)
Polls(d, r) == poll' = [poll EXCEPT ![d] = r]
PollUnchanged ==
  UNCHANGED <<param, state, status, lock, sender, history>>

PollReceives(d) ==
  LET r == poll[d]
  IN  /\ napi[d].scheduled /\ r.pc = "idle" /\ lock[d] = "free"
      /\ r.npackets < Budget
      /\ \E pkt \in rx_queue[d] :
           /\ rx_queue' = [rx_queue EXCEPT ![d] = @ \ {pkt}]
           /\ Polls(d, [r EXCEPT !.pc = "release", !.pkt = pkt,
                                 !.npackets = @ + 1])
      /\ UNCHANGED <<pools, rx_int_enabled, napi>> /\ PollUnchanged

PollReleases(d) ==
  LET r == poll[d]
  IN  /\ r.pc = "release" /\ GiveBack(r.pkt)
      /\ Polls(d, [r EXCEPT !.pc = "wake"])
      /\ UNCHANGED <<stopped, rx_queue, rx_int_enabled, napi>> /\ PollUnchanged

PollWakes(d) ==
  LET r == poll[d]
  IN  /\ r.pc = "wake"
      /\ Polls(d, [IdlePoll EXCEPT !.npackets = r.npackets])
      /\ UNCHANGED <<ppool, rx_queue, rx_int_enabled, napi>> /\ PollUnchanged
      /\ WakeQueue(r.pkt)

(* napi_complete_done: the poll is scheduled anew if it was meanwhile.     *)
napi_complete(d) ==
  napi' = [napi EXCEPT ![d] = [scheduled |-> @.again, again |-> FALSE]]

(* A whole budget was received: the kernel polls again, or ends the poll   *)
(* of a device that is being closed.                                       *)
PollAgain(d) ==
  /\ napi[d].scheduled /\ poll[d].pc = "idle" /\ poll[d].npackets = Budget
  /\ Polls(d, IdlePoll)
  /\ IF state[d] = "closing"
       THEN napi_complete(d) /\ missed' = missed \cup {d}
       ELSE UNCHANGED <<napi, missed>>
  /\ UNCHANGED <<param, state, pools, rx_queue, rx_int_enabled, status, lock,
                 sender, timeouts, closes>>

PollFoundAll(d) ==
  /\ napi[d].scheduled /\ poll[d].pc = "idle" /\ poll[d].npackets < Budget
  /\ rx_queue[d] = {}
  /\ Polls(d, [poll[d] EXCEPT !.pc = "complete"])
  /\ UNCHANGED <<pools, rx_queue, rx_int_enabled, napi>> /\ PollUnchanged

(* Faulty: interrupts are left disabled. *)
EnableNever(d, completed) == UNCHANGED rx_int_enabled

Enable(d, completed) ==
  rx_int_enabled' = [rx_int_enabled EXCEPT ![d] = @ \/ completed]

(* "Tell the kernel and reenable ints", unless the poll was scheduled once *)
(* more.                                                                   *)
PollCompletes(d) ==
  /\ poll[d].pc = "complete" /\ lock[d] = "free"
  /\ Polls(d, IdlePoll)
  /\ napi_complete(d)
  /\ Enable(d, ~ napi[d].again)
  /\ UNCHANGED <<pools, rx_queue>> /\ PollUnchanged

Send(d) ==
  \/ Transmit(d) \/ snull_get_tx_buffer(d) \/ snull_enqueue_buf(d)
  \/ TestEnabled(d) \/ LoadStatus(d) \/ StoreStatus(d) \/ DropInterrupt(d)
  \/ Interrupt(d) \/ ReleaseReceived(d) \/ WakeSender(d)
  \/ Timeout(d) \/ ResetPool(d)

Poll(d) ==
  \/ PollReceives(d) \/ PollReleases(d) \/ PollWakes(d) \/ PollAgain(d)
  \/ PollFoundAll(d) \/ PollCompletes(d)

Next ==
  \E d \in Devs : \/ snull_open(d) \/ snull_release(d) \/ Disabled(d)
                  \/ Send(d) \/ Poll(d)

Spec == Init /\ [][Next]_vars

-----------------------------------------------------------------------------
(* "FIXME - in-flight packets ?": a packet is in one place, a pool, a      *)
(* queue or somebody's hand, and until a pool is torn down none is lost;   *)
(* whoever puts one into a pool puts it into its own (snull.c:118-191).    *)
Places(pkt) ==
  {<<"pool", d>> : d \in {d \in Devs : pkt \in ppool[d]}}
    \cup {<<"queue", d>> : d \in {d \in Devs : pkt \in rx_queue[d]}}
    \cup {<<"sender", d>> : d \in {d \in Devs : InHand(sender[d]) = pkt}}
    \cup {<<"poll", d>> : d \in {d \in Devs : InHand(poll[d]) = pkt}}

PacketsOnce ==
  \A d \in Devs :
    /\ ppool[d] \subseteq Packets(d)
    /\ \A pkt \in Packets(d) :
         /\ Cardinality(Places(pkt)) <= 1
         /\ timeouts = 0 /\ pkt[2] <= pool_size => Places(pkt) # {}

(* "Our simple device can not fail": there is a packet whenever the kernel *)
(* transmits.  This does not hold: a queue is woken by the next of a       *)
(* packet that is in another list by now, and the next transmission finds  *)
(* no packet and loses the lock (snull.c:141, 164, 557).                   *)
PacketForTransmit == \A d \in Devs : lock[d] # "lost"

(* A queue that was stopped for want of packets is started when there is   *)
(* one, though the test is made without the lock; a lockup or a time-out   *)
(* stop and start it at other times (snull.c:160-165).                     *)
QueueStarted ==
  timeouts = 0 /\ ~ lockup => \A d \in Devs :
    state[d] = "up" /\ stopped[d] /\ ppool[d] # {}
      => \E pkt \in Tested \cap ends : dev(pkt) = d

(* A device that is up is not deaf for good: its receive interrupt is      *)
(* enabled or a poll is scheduled, which will enable it.  Of the packets   *)
(* nothing is said: one that comes between the last look of a poll and its *)
(* enabling the interrupt is left in the queue until another comes.  An    *)
(* interrupt that comes while the device is not up disables the interrupt  *)
(* and schedules nothing, and a poll that is ended when it is closed does  *)
(* not enable it: then it stays deaf (snull.c:334-338, 421-424, 512-515).  *)
NotDeaf ==
  use_napi => \A d \in Devs \ missed :
    state[d] = "up" => rx_int_enabled[d] \/ napi[d].scheduled
=============================================================================
