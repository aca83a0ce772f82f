------------------------------- MODULE VifRx --------------------------------
(***************************************************************************)
(* The receive path of one virtual interface, VALE bridge to guest.        *)
(*                                                                         *)
(* Backend (netback): a thread that forwards to the port puts a packet     *)
(* into the ring and calls xenvif_notify, which shows the new tail to the  *)
(* guest and, if the guest asked for it, sends an event.  The vif's kernel *)
(* thread asks again once the guest has answered.                          *)
(* Guest (netfront): the interrupt handler allows rxsync to import; rxsync *)
(* copies what it can into the application's ring and kicks the backend.   *)
(*                                                                         *)
(* Each action is one step no other context can see inside of.  A packet   *)
(* is named by its number modulo SeqMod.  head and cur of the shared ring  *)
(* are always stored together and are one variable.                        *)
(***************************************************************************)
EXTENDS NetmapRing, Sequences

CONSTANTS
  Senders,      \* threads that forward packets to this port
  SeqMod,       \* packets are told apart modulo this; more than 2 * (N - 1)
                \* are told apart while under way
  MaxRegs,      \* bound: times the guest device enters netmap mode
  EarlyTraffic, \* do packets arrive while the guest is not in netmap mode
  TxTraffic     \* does transmit work of the vif wake the kernel thread too

ASSUME RxAssumption ==
  /\ SeqMod \in Nat \ {0}
  /\ MaxRegs \in Nat
  /\ EarlyTraffic \in BOOLEAN /\ TxTraffic \in BOOLEAN

VARIABLES
  carrier,           \* guest: carrier, on while in netmap mode
  regs,              \* guest: times netmap mode was entered
  hwcur, hwtail,     \* guest: kring of the application's receive ring
  head,              \* guest: what the application has released
  grx,               \* guest: packets in the application's ring
  gpc,               \* guest: where rxsync is
  j, rcur,           \* guest: rxsync's room, and its place in the shared ring
  host_need_rxkick,  \* guest: csb flag, the backend wants an answer
  cur, tail,         \* shared ring: head and cur, tail
  slot,              \* shared ring: packets
  evBack, evFront,   \* receive event channel: pending at backend, at guest
  khwcur, khwtail,   \* backend: kring of the vif's receive ring
  nr_busy,           \* backend: that kring is held
  spc,               \* backend: where each sender is
  vwna_rxkick,       \* backend: vwna->guest_need_rxkick
  kpc,               \* backend: where the kernel thread is
  sent, rcvd         \* number of the next packet in, of the next one out

guestVars == <<carrier, regs, hwcur, hwtail, head, grx, gpc, j, rcur, rcvd>>
portVars == <<khwcur, khwtail, slot, sent>>
backVars == <<nr_busy, spc, vwna_rxkick, kpc>>
vars == <<carrier, regs, hwcur, hwtail, head, grx, gpc, j, rcur, rcvd,
          host_need_rxkick, cur, tail, evBack, evFront,
          khwcur, khwtail, slot, sent, nr_busy, spc, vwna_rxkick, kpc>>

Tags == 0 .. SeqMod - 1
After(tag, k) == (tag + k) % SeqMod
-----------------------------------------------------------------------------
(* setup_netfront_netmap and xenvif_netmap_reg have run; the event sent by *)
(* netfront_netmap_attach may or may not have arrived.                     *)
Init ==
  /\ carrier = "off" /\ regs = 0
  /\ hwcur = 0 /\ hwtail = 0 /\ head = 0
  /\ grx = [i \in Slots |-> 0]
  /\ gpc = "idle" /\ j = 0 /\ rcur = 0
  /\ host_need_rxkick = 0
  /\ cur = 0 /\ tail = 0
  /\ slot = [i \in Slots |-> 0]
  /\ evBack \in {0, 1} /\ evFront = 0
  /\ khwcur = 0 /\ khwtail = 0
  /\ nr_busy = 0
  /\ spc = [s \in Senders |-> "idle"]
  /\ vwna_rxkick = 1
  /\ kpc = "sleep"
  /\ sent = 0 /\ rcvd = 0

-----------------------------------------------------------------------------
(* Guest: netfront_netmap_reg.                                             *)

(* netif_carrier_ok(dev) in the guest. *)
CarrierOk == carrier = "on"

(* netmap_reg(na, 1); netmap has just created the krings afresh. *)
NetmapOn ==
  /\ ~CarrierOk /\ regs < MaxRegs
  /\ carrier' = "on"
  /\ regs' = regs + 1
  /\ hwcur' = 0 /\ hwtail' = 0 /\ head' = 0
  /\ UNCHANGED <<grx, gpc, j, rcur, rcvd, host_need_rxkick, cur, tail,
                 evBack, evFront, portVars, backVars>>

(* netmap_reg(na, 0); netmap calls it when no sync is running. *)
NetmapOff ==
  /\ CarrierOk /\ gpc = "idle"
  /\ carrier' = "off"
  /\ UNCHANGED <<regs, hwcur, hwtail, head, grx, gpc, j, rcur, rcvd,
                 host_need_rxkick, cur, tail, evBack, evFront, portVars,
                 backVars>>

-----------------------------------------------------------------------------
(* Guest: netfront_netmap_rxsync.                                          *)

(* The application has read k more packets and asks for a sync; rxsync     *)
(* takes its place in the shared ring and the number of packets there.     *)
RxsyncCall(k) ==
  /\ gpc = "idle" /\ CarrierOk
  /\ k <= Dist(head, hwtail)
  /\ head' = Advance(head, k)
  /\ rcvd' = After(rcvd, k)
  /\ rcur' = cur
  /\ j' = Dist(cur, tail)
  /\ gpc' = "import"
  /\ UNCHANGED <<carrier, regs, hwcur, hwtail, grx, host_need_rxkick, cur,
                 tail, evBack, evFront, portVars, backVars>>

(* Mutated: the loop does not look at the number of packets in the ring. *)
ImportableAll == Dist(hwtail, RingPrev(hwcur))

(* Packets the loop imports when the backend waits for an answer: at most  *)
(* j, and it stops one slot before nr_hwcur.                               *)
Importable ==
  LET room == Dist(hwtail, RingPrev(hwcur))
  IN  IF j < room THEN j ELSE room

(* The import loop.  Nothing is imported unless host_need_rxkick is set,   *)
(* which only rxsync itself resets.                                        *)
RxImport ==
  /\ gpc = "import"
  /\ LET n == IF host_need_rxkick = 1 THEN Importable ELSE 0 IN
       /\ grx' = [i \in Slots |->
                    IF Dist(hwtail, i) < n
                      THEN slot[Advance(rcur, Dist(hwtail, i))] ELSE grx[i]]
       /\ hwtail' = Advance(hwtail, n)
       /\ rcur' = Advance(rcur, n)
  /\ gpc' = "ack"
  /\ UNCHANGED <<carrier, regs, hwcur, head, j, rcvd, host_need_rxkick, cur,
                 tail, evBack, evFront, portVars, backVars>>

(* Mutated: the backend is not notified. *)
RxAckSilent ==
  /\ gpc = "ack"
  /\ gpc' = "release"
  /\ IF host_need_rxkick = 1
       THEN cur' = rcur /\ host_need_rxkick' = 0
       ELSE UNCHANGED <<cur, host_need_rxkick>>
  /\ UNCHANGED <<carrier, regs, hwcur, hwtail, head, grx, j, rcur, rcvd, tail,
                 evBack, evFront, portVars, backVars>>

(* The answer to the backend.  host_need_rxkick is read a second time. *)
RxAck ==
  /\ gpc = "ack"
  /\ gpc' = "release"
  /\ IF host_need_rxkick = 1
       THEN cur' = rcur /\ host_need_rxkick' = 0 /\ evBack' = 1
       ELSE UNCHANGED <<cur, host_need_rxkick, evBack>>
  /\ UNCHANGED <<carrier, regs, hwcur, hwtail, head, grx, j, rcur, rcvd, tail,
                 evFront, portVars, backVars>>

(* The second part of rxsync: released slots can be filled again. *)
RxRelease ==
  /\ gpc = "release"
  /\ hwcur' = head
  /\ gpc' = "idle"
  /\ UNCHANGED <<carrier, regs, hwtail, head, grx, j, rcur, rcvd,
                 host_need_rxkick, cur, tail, evBack, evFront, portVars,
                 backVars>>

(* netfront_rx_interrupt; it does nothing outside netmap mode. *)
RxInterrupt ==
  /\ evFront = 1
  /\ evFront' = 0
  /\ host_need_rxkick' = IF CarrierOk THEN 1 ELSE host_need_rxkick
  /\ UNCHANGED <<guestVars, cur, tail, evBack, portVars, backVars>>

-----------------------------------------------------------------------------
(* Backend: a sender of the bridge, then xenvif_notify.                    *)

(* VALE has a packet for the port and the ring has a free slot. *)
Deliver(s) ==
  /\ spc[s] = "idle" /\ (CarrierOk \/ EarlyTraffic)
  /\ Dist(khwcur, khwtail) < N - 1
  /\ slot' = [slot EXCEPT ![khwtail] = sent]
  /\ khwtail' = RingNext(khwtail)
  /\ sent' = After(sent, 1)
  /\ spc' = [spc EXCEPT ![s] = "notify"]
  /\ UNCHANGED <<guestVars, host_need_rxkick, cur, tail, evBack, evFront,
                 khwcur, nr_busy, vwna_rxkick, kpc>>

(* VALE has a packet and the ring is full: it notifies, to try again. *)
DeliverRetry(s) ==
  /\ spc[s] = "idle" /\ (CarrierOk \/ EarlyTraffic)
  /\ Dist(khwcur, khwtail) = N - 1
  /\ spc' = [spc EXCEPT ![s] = "notify"]
  /\ UNCHANGED <<guestVars, host_need_rxkick, cur, tail, evBack, evFront,
                 portVars, nr_busy, vwna_rxkick, kpc>>

(* xenvif_notify: another sender holds the ring, nothing is done. *)
NotifyBusy(s) ==
  /\ spc[s] = "notify" /\ nr_busy = 1
  /\ spc' = [spc EXCEPT ![s] = "idle"]
  /\ UNCHANGED <<guestVars, host_need_rxkick, cur, tail, evBack, evFront,
                 portVars, nr_busy, vwna_rxkick, kpc>>

(* Mutated: nr_hwcur follows the published tail, not what was released. *)
NotifySyncEager(s) ==
  /\ spc[s] = "notify" /\ nr_busy = 0
  /\ nr_busy' = 1
  /\ khwcur' = tail
  /\ tail' = khwtail
  /\ spc' = [spc EXCEPT ![s] = "kick"]
  /\ UNCHANGED <<guestVars, host_need_rxkick, cur, evBack, evFront, khwtail,
                 slot, sent, vwna_rxkick, kpc>>

(* xenvif_notify takes the ring and runs xenvif_netmap_rxsync: slots the   *)
(* guest released become free, the tail becomes visible.                   *)
NotifySync(s) ==
  /\ spc[s] = "notify" /\ nr_busy = 0
  /\ nr_busy' = 1
  /\ khwcur' = cur
  /\ tail' = khwtail
  /\ spc' = [spc EXCEPT ![s] = "kick"]
  /\ UNCHANGED <<guestVars, host_need_rxkick, cur, evBack, evFront, khwtail,
                 slot, sent, vwna_rxkick, kpc>>

(* Mutated: xenvif_notify returns before nm_kr_put when no kick is wanted. *)
NotifyKickHolds(s) ==
  /\ spc[s] = "kick"
  /\ IF vwna_rxkick = 1
       THEN vwna_rxkick' = 0 /\ evFront' = 1 /\ nr_busy' = 0
       ELSE UNCHANGED <<vwna_rxkick, evFront, nr_busy>>
  /\ spc' = [spc EXCEPT ![s] = "idle"]
  /\ UNCHANGED <<guestVars, host_need_rxkick, cur, tail, evBack, portVars, kpc>>

(* The rest of xenvif_notify. *)
NotifyKick(s) ==
  /\ spc[s] = "kick"
  /\ IF vwna_rxkick = 1
       THEN vwna_rxkick' = 0 /\ evFront' = 1
       ELSE UNCHANGED <<vwna_rxkick, evFront>>
  /\ nr_busy' = 0
  /\ spc' = [spc EXCEPT ![s] = "idle"]
  /\ UNCHANGED <<guestVars, host_need_rxkick, cur, tail, evBack, portVars, kpc>>

-----------------------------------------------------------------------------
(* Backend: xenvif_netmap_irqsched(vif, 0) and xenvif_netmap_kthread.      *)

(* Mutated: the thread is not woken. *)
NotWoken == kpc

(* wake_up(&vif->wq) *)
Woken == IF kpc = "sleep" THEN "check" ELSE kpc

IrqSched ==
  /\ evBack = 1
  /\ evBack' = 0
  /\ kpc' = Woken
  /\ UNCHANGED <<guestVars, host_need_rxkick, cur, tail, evFront, portVars,
                 nr_busy, spc, vwna_rxkick>>

(* xenvif_netmap_irqsched(vif, 1) wakes the same thread. *)
TxIrqSched ==
  /\ TxTraffic
  /\ kpc' = Woken
  /\ UNCHANGED <<guestVars, host_need_rxkick, cur, tail, evBack, evFront,
                 portVars, nr_busy, spc, vwna_rxkick>>

(* wait_event_interruptible tests rx_work_todo, and sleeps otherwise. *)
KthreadCheck ==
  /\ kpc = "check"
  /\ kpc' = IF vwna_rxkick = 0 THEN "rx" ELSE "sleep"
  /\ UNCHANGED <<guestVars, host_need_rxkick, cur, tail, evBack, evFront,
                 portVars, nr_busy, spc, vwna_rxkick>>

(* Mutated: guest_need_rxkick is not set again. *)
KthreadRxForgets ==
  /\ kpc = "rx"
  /\ kpc' = "check"
  /\ UNCHANGED <<guestVars, host_need_rxkick, cur, tail, evBack, evFront,
                 portVars, nr_busy, spc, vwna_rxkick>>

(* xenvif_netmap_irq(vif, 0); its nm_rxsync is not handed this ring. *)
KthreadRx ==
  /\ kpc = "rx"
  /\ vwna_rxkick' = 1
  /\ kpc' = "check"
  /\ UNCHANGED <<guestVars, host_need_rxkick, cur, tail, evBack, evFront,
                 portVars, nr_busy, spc>>

-----------------------------------------------------------------------------
Rxsync == RxImport \/ RxAck \/ RxRelease
Notify(s) == NotifyBusy(s) \/ NotifySync(s) \/ NotifyKick(s)
Forward(s) == Deliver(s) \/ DeliverRetry(s)
Kthread == KthreadCheck \/ KthreadRx

Next ==
  \/ NetmapOn \/ NetmapOff
  \/ \E k \in 0 .. N - 1 : RxsyncCall(k)
  \/ Rxsync \/ RxInterrupt
  \/ \E s \in Senders : Forward(s) \/ Notify(s)
  \/ IrqSched \/ TxIrqSched \/ Kthread

Spec == Init /\ [][Next]_vars

(* Events are delivered, started calls and the kernel thread run to their  *)
(* end, the application keeps polling and keeps reading what it is given.  *)
Fairness ==
  /\ WF_vars(RxInterrupt) /\ WF_vars(IrqSched) /\ WF_vars(Kthread)
  /\ WF_vars(Rxsync) /\ WF_vars(\E k \in 0 .. N - 1 : RxsyncCall(k))
  /\ SF_vars(\E k \in 1 .. N - 1 : RxsyncCall(k))
  /\ \A s \in Senders : WF_vars(Notify(s))

FairSpec == Spec /\ Fairness
-----------------------------------------------------------------------------
(* Properties.                                                             *)

(* Every flag, index and program counter stays in its range. *)
IndexOK ==
  /\ hwcur \in Slots /\ hwtail \in Slots /\ head \in Slots
  /\ cur \in Slots /\ tail \in Slots /\ rcur \in Slots
  /\ khwcur \in Slots /\ khwtail \in Slots
  /\ j \in 0 .. N - 1
PacketOK ==
  /\ sent \in Tags /\ rcvd \in Tags
  /\ grx \in [Slots -> Tags] /\ slot \in [Slots -> Tags]
ControlOK ==
  /\ carrier \in {"on", "off"} /\ nr_busy \in {0, 1} /\ regs \in Nat
  /\ host_need_rxkick \in {0, 1} /\ vwna_rxkick \in {0, 1}
  /\ evBack \in {0, 1} /\ evFront \in {0, 1}
  /\ gpc \in {"idle", "import", "ack", "release"}
  /\ kpc \in {"sleep", "check", "rx"}
  /\ spc \in [Senders -> {"idle", "notify", "kick"}]
TypeOK == IndexOK /\ PacketOK /\ ControlOK

(* The packets on their way: first those in the application's ring, then   *)
(* those in the shared ring, visible to the guest or not.                  *)
Waiting ==
  [i \in 1 .. Dist(head, hwtail) |-> grx[Advance(head, i - 1)]]
InRing ==
  [i \in 1 .. Dist(rcur, khwtail) |-> slot[Advance(rcur, i - 1)]]

(* Between the bridge and the application the vif is a FIFO channel: no    *)
(* slot is overwritten before it was read, none is read twice or early.    *)
Channel ==
  INSTANCE PacketChannel WITH Capacity <- 2 * (N - 1),
    chan <- Waiting \o InRing, next <- sent, last <- rcvd
ChannelSpec == Channel!Spec

(* Guest and backend divide the shared ring: in ring order come what was   *)
(* released, the guest's place, the published tail, the backend's tail.    *)
RegionOrder ==
  /\ Dist(khwcur, cur) <= Dist(khwcur, tail)
  /\ Dist(khwcur, tail) <= Dist(khwcur, khwtail)
  /\ gpc \in {"import", "ack"} =>
       /\ Dist(khwcur, cur) <= Dist(khwcur, rcur)
       /\ Dist(khwcur, rcur) <= Dist(khwcur, tail)

(* The permission to interrupt the guest is not lost in the first session  *)
(* of a guest that was in netmap mode before packets arrived.              *)
RxKickAnswered ==
  CarrierOk /\ regs <= 1 /\ ~EarlyTraffic
    => \/ vwna_rxkick = 1 \/ evFront = 1 \/ host_need_rxkick = 1
       \/ evBack = 1 \/ kpc # "sleep"

(* ... and comes back to the backend. *)
RxRearmed == (CarrierOk /\ vwna_rxkick = 0) ~> (~CarrierOk \/ vwna_rxkick = 1)

(* The bridge always has a next packet for the port, on some thread. *)
BridgeBusy == WF_vars(\E s \in Senders : Forward(s))

(* All that was delivered becomes visible to the guest, as long as it is   *)
(* in netmap mode: a sender that gives up because another one holds the    *)
(* ring leaves its packet to the next notification, and while packets come *)
(* the senders never keep each other from publishing.                      *)
TailPublished ==
  BridgeBusy => (CarrierOk /\ tail # khwtail) ~> (~CarrierOk \/ tail = khwtail)

(* Packets in the shared ring are imported, while packets come and if from *)
(* some time on no interrupt comes in the midst of rxsync: one between the *)
(* two tests of host_need_rxkick is answered without importing, and        *)
(* nothing but the next packet repeats it.                                 *)
RxImported ==
  BridgeBusy /\ <>[][~(RxInterrupt /\ gpc # "idle")]_vars
    => []<>(~CarrierOk \/ rcur = khwtail) \/ []<><<rcur' # rcur>>_vars
=============================================================================
