------------------------------- MODULE VifTx --------------------------------
(***************************************************************************)
(* The transmit path of one virtual interface, guest to VALE bridge.       *)
(*                                                                         *)
(* Guest (netfront): a netmap application fills slots of the guest's own   *)
(* ring and calls txsync, which copies each packet into the ring shared    *)
(* with the backend (xmit) and kicks the backend when it asked for it.     *)
(* Backend (netback): the event channel handler marks work and wakes the   *)
(* vif's kernel thread, which lets VALE forward the published slots and    *)
(* notifies the guest; the guest's handler then re-arms the kick.          *)
(*                                                                         *)
(* txsync runs without tx_lock, so the interrupt handler interleaves with  *)
(* it; each action below is one step no other context can see inside of.   *)
(* A packet is named by the order in which xmit accepted it.  ring->head   *)
(* and ring->cur of the shared ring are always stored together and are one *)
(* variable, and so are txhead and txcur of the control block.             *)
(***************************************************************************)
EXTENDS NetmapRing, Sequences

CONSTANTS
  MaxPkts,      \* bound: packets the application sends
  MaxRegs,      \* bound: times the guest device enters netmap mode
  AttachEvent,  \* 1: the notification of netfront_netmap_attach is pending,
                \* 0: it was answered before the device entered netmap mode
  RxTraffic,    \* does the bridge also deliver packets to this vif
  GuestCPUs     \* 1: an interrupt runs to its end before txsync goes on,
                \* 2: the two may run side by side

ASSUME TxAssumption ==
  /\ MaxPkts \in Nat
  /\ MaxRegs \in Nat
  /\ AttachEvent \in {0, 1}
  /\ RxTraffic \in BOOLEAN
  /\ GuestCPUs \in {1, 2}

VARIABLES
  carrier,            \* guest: carrier, on while in netmap mode
  regs,               \* guest: times netmap mode was entered
  hwcur, hwtail, head,\* guest: kring of the application's transmit ring
  gpc,                \* guest: where txsync is
  ipc,                \* guest: where the interrupt handler is
  txcur,              \* guest: csb txcur and txhead
  host_need_txkick,   \* guest: csb flag, the backend wants a kick
  guest_need_txkick,  \* guest: csb flag, a kick was sent and not answered
  npkt,               \* guest: packets accepted by xmit
  cur, tail,          \* shared ring: head and cur, tail
  len, buf,           \* shared ring: packet whose length, whose bytes a slot has
  evBack, evFront,    \* transmit event channel: pending at backend, at guest
  vwna_txkick,        \* backend: vwna->guest_need_txkick
  kpc,                \* backend: where the kernel thread is
  khwcur, khwtail,    \* backend: kring of the vif's transmit ring
  krcur, krtail,      \* backend: rhead and rcur, rtail of that kring
  out                 \* what VALE was given: sequence of [len, buf]

guestVars == <<carrier, regs, hwcur, hwtail, head, gpc, npkt>>
csbVars == <<txcur, host_need_txkick, guest_need_txkick>>
ringVars == <<cur, tail, len, buf>>
backVars == <<vwna_txkick, kpc, khwcur, khwtail, krcur, krtail, out>>
vars == <<carrier, regs, hwcur, hwtail, head, gpc, npkt, ipc,
          txcur, host_need_txkick, guest_need_txkick,
          cur, tail, len, buf, evBack, evFront,
          vwna_txkick, kpc, khwcur, khwtail, krcur, krtail, out>>

(* A slot or a buffer that no packet was copied into. *)
NoPkt == 0
-----------------------------------------------------------------------------
(* setup_netfront_netmap initialised the control block from the fresh      *)
(* ring, netfront_netmap_attach notified the backend, and xenvif_netmap_reg *)
(* allocated vwna.  The carrier stays off until netmap mode is entered.    *)
Init ==
  /\ carrier = "off"
  /\ regs = 0
  /\ hwcur = 0 /\ hwtail = N - 1 /\ head = 0
  /\ gpc = "idle" /\ ipc = "idle"
  /\ txcur = 0 /\ host_need_txkick = 1 /\ guest_need_txkick = 0
  /\ npkt = 0
  /\ cur = 0 /\ tail = N - 1
  /\ len = [i \in Slots |-> NoPkt] /\ buf = [i \in Slots |-> NoPkt]
  /\ evBack = AttachEvent /\ evFront = 0
  /\ vwna_txkick = 0 /\ kpc = "wait"
  /\ khwcur = 0 /\ khwtail = N - 1 /\ krcur = 0 /\ krtail = N - 1
  /\ out = <<>>

-----------------------------------------------------------------------------
(* Guest: entering and leaving netmap mode.                                *)

(* netif_carrier_ok(dev) in the guest. *)
CarrierOk == carrier = "on"

(* netfront_netmap_reg(na, 1).  netmap has just created the krings of the  *)
(* device afresh; the control block keeps its values.                      *)
NetmapOn ==
  /\ ~CarrierOk /\ regs < MaxRegs
  /\ carrier' = "on"
  /\ regs' = regs + 1
  /\ hwcur' = 0 /\ hwtail' = N - 1 /\ head' = 0
  /\ UNCHANGED <<gpc, npkt, ipc, csbVars, ringVars, evBack, evFront, backVars>>

(* netfront_netmap_reg(na, 0).  netmap calls it when no sync is running. *)
NetmapOff ==
  /\ CarrierOk /\ gpc = "idle"
  /\ carrier' = "off"
  /\ UNCHANGED <<regs, hwcur, hwtail, head, gpc, npkt, ipc, csbVars, ringVars,
                 evBack, evFront, backVars>>

-----------------------------------------------------------------------------
(* Guest: netfront_netmap_txsync.                                          *)

(* txsync is at pc and may go on: it takes no lock, so with a second       *)
(* processor it runs beside the interrupt handler.                         *)
Running(pc) == gpc = pc /\ (GuestCPUs = 2 \/ ipc = "idle")

(* The application fills k of the slots it owns and asks for a sync. *)
TxsyncCall ==
  /\ Running("idle") /\ CarrierOk
  /\ \E k \in 0 .. Dist(head, hwtail) :
       /\ npkt + Dist(hwcur, head) + k <= MaxPkts
       /\ head' = Advance(head, k)
  /\ gpc' = "send"
  /\ UNCHANGED <<carrier, regs, hwcur, hwtail, npkt, ipc, csbVars, ringVars,
                 evBack, evFront, backVars>>

(* Mutated: the length goes to the slot of ring->cur, as the bytes do. *)
XmitCopyCur ==
  /\ Running("send") /\ hwcur # head
  /\ cur # tail
  /\ npkt' = npkt + 1
  /\ buf' = [buf EXCEPT ![cur] = npkt + 1]
  /\ len' = [len EXCEPT ![cur] = npkt + 1]
  /\ txcur' = RingNext(txcur)
  /\ gpc' = "kick"
  /\ UNCHANGED <<carrier, regs, hwcur, hwtail, head, ipc, host_need_txkick,
                 guest_need_txkick, cur, tail, evBack, evFront, backVars>>

(* The loop of txsync up to the copy made by xmit: the bytes go to the     *)
(* buffer of ring->cur, the length to the slot of txcur.                   *)
XmitCopy ==
  /\ Running("send") /\ hwcur # head
  /\ cur # tail
  /\ npkt' = npkt + 1
  /\ buf' = [buf EXCEPT ![cur] = npkt + 1]
  /\ len' = [len EXCEPT ![txcur] = npkt + 1]
  /\ txcur' = RingNext(txcur)
  /\ gpc' = "kick"
  /\ UNCHANGED <<carrier, regs, hwcur, hwtail, head, ipc, host_need_txkick,
                 guest_need_txkick, cur, tail, evBack, evFront, backVars>>

(* The loop ends: nothing left to send, or xmit found the ring empty. *)
XmitDone ==
  /\ Running("send") /\ (hwcur = head \/ cur = tail)
  /\ gpc' = "reclaim"
  /\ UNCHANGED <<carrier, regs, hwcur, hwtail, head, npkt, ipc, csbVars,
                 ringVars, evBack, evFront, backVars>>

(* xmit, the backend did not ask for a kick: the slot stays unpublished. *)
XmitNoKick ==
  /\ Running("kick") /\ host_need_txkick = 0
  /\ hwcur' = RingNext(hwcur)
  /\ gpc' = "send"
  /\ UNCHANGED <<carrier, regs, hwtail, head, npkt, ipc, csbVars, ringVars,
                 evBack, evFront, backVars>>

(* Mutated: guest_need_txkick is not set. *)
XmitPublishNoFlag ==
  /\ Running("kick") /\ host_need_txkick = 1
  /\ cur' = txcur
  /\ gpc' = "notify"
  /\ UNCHANGED <<carrier, regs, hwcur, hwtail, head, npkt, ipc, txcur,
                 host_need_txkick, guest_need_txkick, tail, len, buf, evBack,
                 evFront, backVars>>

(* xmit, publishing everything up to txcur. *)
XmitPublish ==
  /\ Running("kick") /\ host_need_txkick = 1
  /\ cur' = txcur
  /\ guest_need_txkick' = 1
  /\ gpc' = "notify"
  /\ UNCHANGED <<carrier, regs, hwcur, hwtail, head, npkt, ipc, txcur,
                 host_need_txkick, tail, len, buf, evBack, evFront, backVars>>

(* Mutated: host_need_txkick is not reset. *)
XmitNotifyNoReset ==
  /\ Running("notify")
  /\ evBack' = 1
  /\ hwcur' = RingNext(hwcur)
  /\ gpc' = "send"
  /\ UNCHANGED <<carrier, regs, hwtail, head, npkt, ipc, csbVars, ringVars,
                 evFront, backVars>>

(* Mutated: the flags change but no event is sent. *)
XmitNotifySilent ==
  /\ Running("notify")
  /\ host_need_txkick' = 0
  /\ hwcur' = RingNext(hwcur)
  /\ gpc' = "send"
  /\ UNCHANGED <<carrier, regs, hwtail, head, npkt, ipc, txcur,
                 guest_need_txkick, ringVars, evBack, evFront, backVars>>

(* xmit, notify_remote_via_irq(ni->tx_irq). *)
XmitNotify ==
  /\ Running("notify")
  /\ host_need_txkick' = 0
  /\ evBack' = 1
  /\ hwcur' = RingNext(hwcur)
  /\ gpc' = "send"
  /\ UNCHANGED <<carrier, regs, hwtail, head, npkt, ipc, txcur,
                 guest_need_txkick, ringVars, evFront, backVars>>

(* Mutated: the test of nm_kr_txempty is inverted. *)
ReclaimTxInverted(force) ==
  guest_need_txkick = 0 /\ (force \/ head # hwtail)

(* reclaim_tx, as txsync decides it: never while a kick is outstanding,    *)
(* else when the caller forces it or the application has no slot left.     *)
ReclaimTx(force) ==
  guest_need_txkick = 0 /\ (force \/ head = hwtail)

(* The end of txsync; force is NAF_FORCE_RECLAIM. *)
TxsyncReclaim ==
  /\ Running("reclaim")
  /\ \E force \in BOOLEAN :
       hwtail' = IF ReclaimTx(force) THEN RingPrev(txcur) ELSE hwtail
  /\ gpc' = "idle"
  /\ UNCHANGED <<carrier, regs, hwcur, head, npkt, ipc, csbVars, ringVars,
                 evBack, evFront, backVars>>

-----------------------------------------------------------------------------
(* Guest: netfront_tx_interrupt.  Its two stores are steps of their own    *)
(* because txsync stores the same flags, in the opposite order, unlocked.  *)
TxInterrupt ==
  /\ ipc = "idle" /\ evFront = 1
  /\ evFront' = 0
  /\ IF CarrierOk THEN host_need_txkick' = 1 /\ ipc' = "clear"
                ELSE UNCHANGED <<host_need_txkick, ipc>>
  /\ UNCHANGED <<guestVars, txcur, guest_need_txkick, ringVars, evBack, backVars>>

(* Mutated: guest_need_txkick stays set. *)
TxInterruptNoClear ==
  /\ ipc = "clear"
  /\ ipc' = "idle"
  /\ UNCHANGED <<guestVars, csbVars, ringVars, evBack, evFront, backVars>>

TxInterruptClear ==
  /\ ipc = "clear"
  /\ guest_need_txkick' = 0
  /\ ipc' = "idle"
  /\ UNCHANGED <<guestVars, txcur, host_need_txkick, ringVars, evBack, evFront,
                 backVars>>

-----------------------------------------------------------------------------
(* Backend: xenvif_netmap_irqsched and xenvif_netmap_kthread.              *)

(* xenvif_netmap_irqsched(vif, 1), carrier on and vif attached to a bridge. *)
IrqSched ==
  /\ evBack = 1
  /\ evBack' = 0
  /\ vwna_txkick' = 1
  /\ UNCHANGED <<guestVars, ipc, csbVars, ringVars, evFront, kpc, khwcur,
                 khwtail, krcur, krtail, out>>

(* wait_event_interruptible returns: there is transmit work, or, when the  *)
(* bridge delivers to this vif, there may be receive work.                 *)
KthreadWake ==
  /\ kpc = "wait" /\ (vwna_txkick = 1 \/ RxTraffic)
  /\ kpc' = "tx"
  /\ UNCHANGED <<guestVars, ipc, csbVars, ringVars, evBack, evFront,
                 vwna_txkick, khwcur, khwtail, krcur, krtail, out>>

(* if (tx_work_todo(vwna)) xenvif_netmap_irq(vif, 1), as far as            *)
(* nm_txsync_prologue.  A position outside the region the guest owns is    *)
(* not taken over, and the result of the prologue is not looked at.        *)
TxPrologue ==
  /\ kpc = "tx"
  /\ IF vwna_txkick = 0
       THEN kpc' = "rx" /\ UNCHANGED <<krcur, tail>>
       ELSE /\ kpc' = "sync"
            /\ IF InRegion(cur, krcur, krtail)
                 THEN krcur' = cur /\ tail' = krtail
                 ELSE UNCHANGED <<krcur, tail>>
  /\ UNCHANGED <<guestVars, ipc, csbVars, cur, len, buf, evBack, evFront,
                 vwna_txkick, khwcur, khwtail, krtail, out>>

(* What the slots from khwcur up to krcur hold, in ring order. *)
Forwarded ==
  [j \in 1 .. Dist(khwcur, krcur) |->
     [len |-> len[Advance(khwcur, j - 1)], buf |-> buf[Advance(khwcur, j - 1)]]]

(* na->nm_txsync of the bridge port: VALE takes every slot up to rcur and  *)
(* gives all slots but one back to the guest.                              *)
VpTxsync ==
  /\ kpc = "sync"
  /\ out' = out \o Forwarded
  /\ khwcur' = krcur
  /\ khwtail' = RingPrev(krcur)
  /\ krtail' = khwtail'
  /\ tail' = khwtail'
  /\ kpc' = "ack"
  /\ UNCHANGED <<guestVars, ipc, csbVars, cur, len, buf, evBack, evFront,
                 vwna_txkick, krcur>>

(* Mutated: the guest is not notified. *)
TxAckSilent ==
  /\ kpc = "ack"
  /\ vwna_txkick' = 0
  /\ kpc' = "rx"
  /\ UNCHANGED <<guestVars, ipc, csbVars, ringVars, evBack, evFront, khwcur,
                 khwtail, krcur, krtail, out>>

(* The rest of xenvif_netmap_irq(vif, 1). *)
TxAck ==
  /\ kpc = "ack"
  /\ vwna_txkick' = 0
  /\ evFront' = 1
  /\ kpc' = "rx"
  /\ UNCHANGED <<guestVars, ipc, csbVars, ringVars, evBack, khwcur, khwtail,
                 krcur, krtail, out>>

(* if (rx_work_todo(vwna)) xenvif_netmap_irq(vif, 0).  Its nm_rxsync is    *)
(* handed the transmit ring: it takes the guest's position as what was     *)
(* released, so khwcur moves over slots that were never forwarded.         *)
RxWork ==
  /\ kpc = "rx" /\ RxTraffic
  /\ krcur' = cur
  /\ IF InRegion(cur, khwcur, khwtail)
       THEN khwcur' = cur /\ krtail' = khwtail /\ tail' = khwtail
       ELSE krtail' = tail /\ UNCHANGED <<khwcur, tail>>
  /\ kpc' = "wait"
  /\ UNCHANGED <<guestVars, ipc, csbVars, cur, len, buf, evBack, evFront,
                 vwna_txkick, khwtail, out>>

(* No receive work: the end of the loop. *)
NoRxWork ==
  /\ kpc = "rx"
  /\ kpc' = "wait"
  /\ UNCHANGED <<guestVars, ipc, csbVars, ringVars, evBack, evFront,
                 vwna_txkick, khwcur, khwtail, krcur, krtail, out>>

-----------------------------------------------------------------------------
Txsync == XmitCopy \/ XmitDone \/ XmitNoKick \/ XmitPublish \/ XmitNotify
            \/ TxsyncReclaim
GuestIrq == TxInterrupt \/ TxInterruptClear
Kthread == KthreadWake \/ TxPrologue \/ VpTxsync \/ TxAck \/ RxWork \/ NoRxWork

Next == NetmapOn \/ NetmapOff \/ TxsyncCall \/ Txsync \/ GuestIrq
          \/ IrqSched \/ Kthread

Spec == Init /\ [][Next]_vars

(* Event channels deliver, handlers and the kernel thread run to their     *)
(* end, a txsync that was started ends, and an application that has the    *)
(* device open keeps polling it.                                           *)
Fairness ==
  /\ WF_vars(GuestIrq) /\ WF_vars(IrqSched) /\ WF_vars(Kthread)
  /\ WF_vars(Txsync) /\ WF_vars(TxsyncCall)

FairSpec == Spec /\ Fairness
-----------------------------------------------------------------------------
(* Properties.                                                             *)

(* Every index stays in its ring, every flag and program counter in its    *)
(* range, and slots, buffers and the log of VALE hold packet numbers.      *)
IndexOK ==
  /\ hwcur \in Slots /\ hwtail \in Slots /\ head \in Slots
  /\ txcur \in Slots /\ cur \in Slots /\ tail \in Slots
  /\ khwcur \in Slots /\ khwtail \in Slots
  /\ krcur \in Slots /\ krtail \in Slots
ControlOK ==
  /\ carrier \in {"on", "off"} /\ regs \in Nat
  /\ gpc \in {"idle", "send", "kick", "notify", "reclaim"}
  /\ ipc \in {"idle", "clear"}
  /\ kpc \in {"wait", "tx", "sync", "ack", "rx"}
  /\ host_need_txkick \in {0, 1} /\ guest_need_txkick \in {0, 1}
  /\ vwna_txkick \in {0, 1} /\ evBack \in {0, 1} /\ evFront \in {0, 1}
PacketOK ==
  /\ npkt \in Nat
  /\ len \in [Slots -> Nat] /\ buf \in [Slots -> Nat]
  /\ out \in Seq([len : Nat, buf : Nat])
TypeOK == IndexOK /\ ControlOK /\ PacketOK

(* The permission to kick is never lost: while the device is in its first  *)
(* netmap session, the backend wants a kick, or a kick or its answer is on *)
(* the way (pending event, marked work, pending interrupt).                *)
KickAnswered ==
  CarrierOk /\ regs <= 1
    => host_need_txkick + evBack + vwna_txkick + evFront >= 1

(* Once the attach notification has been dealt with there is exactly one   *)
(* such permission: no kick is merged with another one, which is what the  *)
(* backend's clearing of guest_need_txkick after txsync relies on.         *)
SingleCredit ==
  AttachEvent = 0 /\ CarrierOk /\ regs <= 1
    => host_need_txkick + evBack + vwna_txkick + evFront = 1

(* txsync refuses to reclaim while guest_need_txkick is set, so the flag   *)
(* must not outlive the kick: the guest never rests with both flags set.   *)
(* xmit and the interrupt store the two flags in opposite orders.          *)
FlagExclusion ==
  guest_need_txkick = 1 /\ host_need_txkick = 1
    => gpc = "notify" \/ ipc = "clear"

(* VALE is given every published slot once, in the order of the ring, with *)
(* the length of the packet xmit put there or of the one it put over it    *)
(* one lap later, never of an earlier or of a second later one.            *)
LengthLap == \A i \in DOMAIN out : out[i].len \in {i, i + N}

(* VALE is given every packet length once, in the order of xmit, and none  *)
(* is skipped: no slot is overwritten before it was forwarded.             *)
LengthFifo == \A i \in DOMAIN out : out[i].len = i

(* The bytes VALE is given with a length are those of the same packet. *)
PayloadIntact == \A i \in DOMAIN out : out[i].buf = out[i].len

(* An application that has used up its slots gets some back. *)
TxRoom == (CarrierOk /\ head = hwtail) ~> (~CarrierOk \/ head # hwtail)

(* txsync gives a slot back to the application only when the backend has   *)
(* forwarded everything that was published.                                *)
ReclaimCompleted == [][hwtail' # hwtail /\ CarrierOk => khwcur = cur]_vars

(* A published slot is forwarded while the device stays in netmap mode. *)
TxForwarded ==
  \A i \in Slots :
    (CarrierOk /\ cur = i /\ khwcur # i) ~> (~CarrierOk \/ khwcur = i \/ cur # i)
=============================================================================
