-------------------------------- MODULE Vif ---------------------------------
(***************************************************************************)
(* The life of a vif in the backend, and its kernel thread in the midst.   *)
(*                                                                         *)
(* Four parties touch a vif: the xenbus thread connects and disconnects it *)
(* (xenvif_connect, xenvif_disconnect, xenvif_free), the administrator     *)
(* takes the interface up or down (xenvif_open, xenvif_close) and puts it  *)
(* on its bridge or off (xenvif_netmap_reg), a thread of the bridge calls  *)
(* xenvif_notify, and the vif's own kernel thread serves both directions.  *)
(* rtnl_lock makes xenvif_open, xenvif_close and the carrier changes one   *)
(* step each.  The guest is what VifTx and VifRx say of it, without rings. *)
(***************************************************************************)
EXTENDS Integers

CONSTANT
  MaxRegs   \* bound: times the vif is put on its bridge

ASSUME VifAssumption == MaxRegs \in Nat \ {0}

VARIABLES
  running, carrier,  \* net_device: IFF_UP, carrier
  bound,             \* directions whose event channel is bound to an irq
  depth,             \* how often each irq is disabled
  rings,             \* krings: as netmap made them, enabled or stopped
  bdg,               \* is vpna->na_bdg set
  cur, vwna,         \* vpna->up.na_private, and every vwna allocated
  bpc,               \* xenbus thread: where it is in connect or disconnect
  kpc, kv, iv,       \* kernel thread: where, its vwna, that of netmap_irq
  stop,              \* kthread_should_stop
  npc,               \* xenvif_notify: where
  evBack, evFront,   \* event channels: pending at the backend, at the guest
  guest,             \* guest: its state
  host_need_txkick,  \* guest: it may kick
  host_need_rxkick,  \* guest: it owes an answer to an interrupt
  dropped,           \* directions in which an event was lost for good
  mapped             \* the registration whose rings this guest mapped

devVars == <<running, carrier, bound, depth, rings>>
bdgVars == <<bdg, cur>>
kVars == <<kpc, kv, iv>>
guestVars == <<guest, mapped, host_need_txkick, host_need_rxkick>>
vars == <<running, carrier, bound, depth, rings, bdg, cur, vwna, bpc, kpc, kv,
          iv, stop, npc, evBack, evFront, guest, host_need_txkick,
          host_need_rxkick, dropped, mapped>>

Dirs == {"tx", "rx"}
Both(n) == [d \in Dirs |-> n]

(* The guest has announced its channels and is still there. *)
Present == guest \in {"set up", "attached", "netmap"}

(* xenvif_alloc: carrier off, no irq, netmap_attach done, on no bridge. *)
Init ==
  /\ running = "down" /\ carrier = "off"
  /\ bound = {} /\ depth = Both(0) /\ rings = "fresh"
  /\ bdg = "off" /\ cur = 0
  /\ vwna = [v \in 0 .. MaxRegs |-> [rx |-> 1, tx |-> 0]]
  /\ bpc = "idle" /\ stop = 0
  /\ kpc = "none" /\ kv = 0 /\ iv = 0
  /\ npc = "idle"
  /\ evBack = Both(0) /\ evFront = Both(0)
  /\ guest = "none" /\ mapped = 0
  /\ host_need_txkick = 0 /\ host_need_rxkick = 0
  /\ dropped = {}

-----------------------------------------------------------------------------
(* Interface up and down.                                                  *)

(* xenvif_netmap_up: rings are there only while the vif is on a bridge. *)
NetmapUp ==
  /\ depth' = [d \in Dirs |-> depth[d] - 1]
  /\ rings' = IF bdg = "on" THEN "enabled" ELSE rings

(* Mutated: the rings are stopped without waiting for who holds one. *)
NetmapDownNoWait ==
  /\ depth' = [d \in Dirs |-> depth[d] + 1]
  /\ rings' = IF bdg = "on" THEN "stopped" ELSE rings

(* xenvif_netmap_down: netmap_disable_all_rings waits until no ring is     *)
(* held, disable_irq until no handler runs.                                *)
NetmapDown ==
  /\ npc # "hold"
  /\ depth' = [d \in Dirs |-> depth[d] + 1]
  /\ rings' = IF bdg = "on" THEN "stopped" ELSE rings

(* Mutated: the carrier is not looked at. *)
OpenAnyway ==
  /\ running = "down" /\ bpc # "freed"
  /\ running' = "up"
  /\ NetmapUp
  /\ UNCHANGED <<carrier, bound, bdgVars, vwna, bpc, kVars, stop, npc, evBack,
                 evFront, guestVars, dropped>>

(* xenvif_open *)
Open ==
  /\ running = "down" /\ bpc # "freed"
  /\ running' = "up"
  /\ IF carrier = "on" THEN NetmapUp ELSE UNCHANGED <<depth, rings>>
  /\ UNCHANGED <<carrier, bound, bdgVars, vwna, bpc, kVars, stop, npc, evBack,
                 evFront, guestVars, dropped>>

(* xenvif_close *)
Close ==
  /\ running = "up" /\ bpc # "freed"
  /\ running' = "down"
  /\ IF carrier = "on" THEN NetmapDown ELSE UNCHANGED <<depth, rings>>
  /\ UNCHANGED <<carrier, bound, bdgVars, vwna, bpc, kVars, stop, npc, evBack,
                 evFront, guestVars, dropped>>

-----------------------------------------------------------------------------
(* On the bridge and off: xenvif_netmap_reg.  The bridge is locked against *)
(* threads that forward.  The test for IFF_UP never fails: ! binds first.  *)

(* A new vwna each time; netmap has made new rings. *)
BridgeAttach ==
  /\ bdg = "off" /\ cur < MaxRegs /\ npc = "idle" /\ bpc # "freed"
  /\ bdg' = "on" /\ cur' = cur + 1
  /\ vwna' = [vwna EXCEPT ![cur + 1] = [rx |-> 1, tx |-> 0]]
  /\ rings' = "fresh"
  /\ UNCHANGED <<running, carrier, bound, depth, bpc, kVars, stop, npc, evBack,
                 evFront, guestVars, dropped>>

(* The vwna stays where it was. *)
BridgeDetach ==
  /\ bdg = "on" /\ npc = "idle" /\ bpc # "freed"
  /\ bdg' = "off"
  /\ UNCHANGED <<devVars, cur, vwna, bpc, kVars, stop, npc, evBack, evFront,
                 guestVars, dropped>>

-----------------------------------------------------------------------------
(* xenvif_connect, called when the guest has announced its channels.       *)

(* The channel of the transmit direction; the irq is enabled at first. *)
ConnectBind ==
  /\ bpc = "idle" /\ bound = {} /\ kpc = "none" /\ Present
  /\ bound' = {"tx"} /\ depth' = Both(0)
  /\ bpc' = "tx"
  /\ UNCHANGED <<running, carrier, rings, bdgVars, vwna, kVars, stop, npc,
                 evBack, evFront, guestVars, dropped>>

(* disable_irq, then the same for the receive direction. *)
ConnectBindRx ==
  /\ bpc = "tx"
  /\ bound' = Dirs /\ depth' = [depth EXCEPT !["tx"] = 1]
  /\ bpc' = "rx"
  /\ UNCHANGED <<running, carrier, rings, bdgVars, vwna, kVars, stop, npc,
                 evBack, evFront, guestVars, dropped>>

(* disable_irq and kthread_create. *)
ConnectTask ==
  /\ bpc = "rx"
  /\ depth' = [depth EXCEPT !["rx"] = 1]
  /\ kpc' = "created"
  /\ bpc' = "task"
  /\ UNCHANGED <<running, carrier, bound, rings, bdgVars, vwna, kv, iv, stop,
                 npc, evBack, evFront, guestVars, dropped>>

(* A channel cannot be bound, or a thread not be created: what is bound is *)
(* unbound, and the device closes.  When it is the second thread, the one  *)
(* that exists stays until xenvif_disconnect.                              *)
ConnectFail ==
  /\ bpc \in {"tx", "rx", "task"}
  /\ bound' = {} /\ depth' = Both(0)
  /\ evBack' = Both(0) /\ evFront' = Both(0)
  /\ IF kpc = "created" THEN bpc' = "stop" /\ guest' = "gone"
                        ELSE bpc' = "idle" /\ guest' = "none"
  /\ UNCHANGED <<running, carrier, rings, bdgVars, vwna, kVars, stop, npc,
                 mapped, host_need_txkick, host_need_rxkick, dropped>>

(* The second thread, of no use here, and the section under rtnl_lock. *)
ConnectCarrier ==
  /\ bpc = "task"
  /\ carrier' = "on"
  /\ IF running = "up" THEN NetmapUp ELSE UNCHANGED <<depth, rings>>
  /\ bpc' = "wake"
  /\ UNCHANGED <<running, bound, bdgVars, vwna, kVars, stop, npc, evBack,
                 evFront, guestVars, dropped>>

(* wake_up_process(vif->task) *)
ConnectWake ==
  /\ bpc = "wake"
  /\ kpc' = "start"
  /\ bpc' = "idle"
  /\ UNCHANGED <<devVars, bdgVars, vwna, kv, iv, stop, npc, evBack, evFront,
                 guestVars, dropped>>

-----------------------------------------------------------------------------
(* xenvif_disconnect, when the guest has closed the device or is gone, and *)
(* xenvif_free.                                                            *)

(* xenvif_carrier_off *)
CarrierOff ==
  /\ bpc = "idle" /\ bound # {} /\ guest = "gone"
  /\ carrier' = "off"
  /\ IF running = "up" THEN NetmapDown ELSE UNCHANGED <<depth, rings>>
  /\ bpc' = "stop"
  /\ UNCHANGED <<running, bound, bdgVars, vwna, kVars, stop, npc, evBack,
                 evFront, guestVars, dropped>>

(* kthread_stop tells the thread to stop, wakes it and waits for its end; *)
(* one that never ran ends without xenvif_netmap_kthread.                  *)
DisconnectStop ==
  /\ bpc = "stop"
  /\ stop' = 1
  /\ kpc' = CASE kpc = "sleep" -> "check" [] kpc = "created" -> "done"
             [] OTHER -> kpc
  /\ bpc' = "join"
  /\ UNCHANGED <<devVars, bdgVars, vwna, kv, iv, npc, evBack, evFront,
                 guestVars, dropped>>

(* vif->task and vif->tx_irq are reset, vif->rx_irq is not. *)
DisconnectUnbind ==
  /\ bpc = "join" /\ kpc = "done"
  /\ kpc' = "none" /\ kv' = 0 /\ stop' = 0
  /\ bound' = {} /\ depth' = Both(0)
  /\ bpc' = "idle" /\ guest' = "none"
  /\ evBack' = Both(0) /\ evFront' = Both(0)
  /\ UNCHANGED <<running, carrier, rings, bdgVars, vwna, iv, npc, mapped,
                 host_need_txkick, host_need_rxkick, dropped>>

(* xenvif_free, xenvif_netmap_detach; the bridge is locked as above. *)
Free ==
  /\ bpc = "idle" /\ bound = {} /\ guest = "none" /\ npc = "idle"
  /\ bpc' = "freed" /\ bdg' = "off" /\ running' = "down"
  /\ UNCHANGED <<carrier, bound, depth, rings, cur, vwna, kVars, stop, npc,
                 evBack, evFront, guestVars, dropped>>

-----------------------------------------------------------------------------
(* Interrupts and the kernel thread.                                       *)

(* Mutated: the thread is not woken. *)
NotWoken == kpc

(* wake_up(&vif->wq) *)
WakeUp == IF kpc = "sleep" THEN "check" ELSE kpc

(* Mutated: kicks are counted. *)
CountKick(v) == [v EXCEPT !.tx = v.tx + 1]

MarkKick(v) == [v EXCEPT !.tx = 1]

(* Is somebody waiting for what an event on this channel would bring: the  *)
(* guest for the answer to its kick, the backend for its permission?       *)
Awaited(d) == IF d = "tx" THEN host_need_txkick = 0 ELSE vwna[cur].rx = 0

(* xenvif_netmap_irqsched: without carrier or bridge nothing is done. *)
IrqSched(d) ==
  /\ evBack[d] = 1 /\ d \in bound /\ depth[d] = 0
  /\ evBack' = [evBack EXCEPT ![d] = 0]
  /\ IF carrier = "off" \/ bdg = "off"
       THEN /\ dropped' = dropped \cup {c \in {"tx"} \cap {d} : Awaited(c)}
            /\ UNCHANGED <<vwna, kpc>>
       ELSE /\ vwna' = IF d = "tx" THEN [vwna EXCEPT ![cur] = MarkKick(@)] ELSE vwna
            /\ kpc' = WakeUp
            /\ UNCHANGED dropped
  /\ UNCHANGED <<devVars, bdgVars, bpc, kv, iv, stop, npc, evFront, guestVars>>

(* xenvif_netmap_kthread takes the vwna of the moment. *)
KthreadStart ==
  /\ kpc = "start"
  /\ kpc' = "check" /\ kv' = cur
  /\ UNCHANGED <<devVars, bdgVars, vwna, bpc, iv, stop, npc, evBack, evFront,
                 guestVars, dropped>>

(* Mutated: the flag is taken the other way round. *)
RxWorkInverted(v) == vwna[v].rx = 1

(* tx_work_todo and rx_work_todo *)
TxWork(v) == vwna[v].tx = 1

RxWork(v) == vwna[v].rx = 0

(* Mutated: only work ends the wait. *)
AfterWaitDeaf == IF ~(TxWork(kv) \/ RxWork(kv)) THEN "sleep"
                 ELSE IF stop = 1 THEN "done" ELSE "tx"

(* wait_event_interruptible and the tests of kthread_should_stop. *)
AfterWait == IF stop = 1 THEN "done"
             ELSE IF TxWork(kv) \/ RxWork(kv) THEN "tx" ELSE "sleep"

KthreadCheck ==
  /\ kpc = "check"
  /\ kpc' = AfterWait
  /\ UNCHANGED <<devVars, bdgVars, vwna, bpc, kv, iv, stop, npc, evBack,
                 evFront, guestVars, dropped>>

(* xenvif_netmap_irq(vif, 1) as far as nm_txsync; it takes the vwna of now. *)
KthreadTx ==
  /\ kpc = "tx"
  /\ IF TxWork(kv) THEN kpc' = "ack" /\ iv' = cur ELSE kpc' = "rx" /\ iv' = iv
  /\ UNCHANGED <<devVars, bdgVars, vwna, bpc, kv, stop, npc, evBack, evFront,
                 guestVars, dropped>>

(* An event for the guest, if there is still one. *)
Notify(d) == evFront' = IF Present /\ d \in bound
                          THEN [evFront EXCEPT ![d] = 1] ELSE evFront

(* ... and its end. *)
KthreadAck ==
  /\ kpc = "ack"
  /\ vwna' = [vwna EXCEPT ![iv].tx = 0]
  /\ Notify("tx")
  /\ kpc' = "rx" /\ iv' = 0
  /\ UNCHANGED <<devVars, bdgVars, bpc, kv, stop, npc, evBack, guestVars, dropped>>

(* xenvif_netmap_irq(vif, 0) *)
KthreadRx ==
  /\ kpc = "rx"
  /\ IF RxWork(kv)
       THEN vwna' = [vwna EXCEPT ![cur].rx = 1] /\ dropped' = dropped \ {"rx"}
       ELSE UNCHANGED <<vwna, dropped>>
  /\ kpc' = "check"
  /\ UNCHANGED <<devVars, bdgVars, bpc, kv, iv, stop, npc, evBack, evFront,
                 guestVars>>

-----------------------------------------------------------------------------
(* xenvif_notify, called when the bridge has packets for the vif.  The     *)
(* carrier it tests is that of the bridge port's own ifnet, which nobody   *)
(* turns off.                                                              *)

(* nm_kr_tryget: a ring that is stopped is not taken. *)
NotifyGet ==
  /\ npc = "idle" /\ bdg = "on" /\ rings # "stopped"
  /\ npc' = "hold"
  /\ UNCHANGED <<devVars, bdgVars, vwna, bpc, kVars, stop, evBack, evFront,
                 guestVars, dropped>>

(* The ring is released at the end. *)
NotifyKick ==
  /\ npc = "hold"
  /\ IF vwna[cur].rx = 1
       THEN vwna' = [vwna EXCEPT ![cur].rx = 0] /\ Notify("rx")
       ELSE UNCHANGED <<vwna, evFront>>
  /\ npc' = "idle"
  /\ UNCHANGED <<devVars, bdgVars, bpc, kVars, stop, evBack, guestVars, dropped>>

-----------------------------------------------------------------------------
(* The guest.                                                              *)

(* setup_netfront_netmap has read the references the bridge port's         *)
(* registration published, and initialised the control block.              *)
GuestSetup ==
  /\ guest = "none" /\ bpc = "idle" /\ bound = {} /\ cur > 0
  /\ guest' = "set up" /\ mapped' = cur
  /\ host_need_txkick' = 1 /\ host_need_rxkick' = 0
  /\ dropped' = {}
  /\ UNCHANGED <<devVars, bdgVars, vwna, bpc, kVars, stop, npc, evBack, evFront>>

(* netfront_netmap_attach, before or after the backend has connected.  An  *)
(* event that comes first is found pending when the channel is bound.      *)
GuestAttach ==
  /\ guest = "set up"
  /\ guest' = "attached"
  /\ evBack' = Both(1)
  /\ UNCHANGED <<devVars, bdgVars, vwna, bpc, kVars, stop, npc, evFront, mapped,
                 host_need_txkick, host_need_rxkick, dropped>>

(* netfront_netmap_reg turns the guest's carrier on and off. *)
GuestOn ==
  /\ guest = "attached"
  /\ guest' = "netmap"
  /\ UNCHANGED <<devVars, bdgVars, vwna, bpc, kVars, stop, npc, evBack, evFront,
                 mapped, host_need_txkick, host_need_rxkick, dropped>>

GuestOff ==
  /\ guest = "netmap"
  /\ guest' = "attached"
  /\ UNCHANGED <<devVars, bdgVars, vwna, bpc, kVars, stop, npc, evBack, evFront,
                 mapped, host_need_txkick, host_need_rxkick, dropped>>

(* xmit publishes and kicks. *)
GuestKick ==
  /\ guest = "netmap" /\ host_need_txkick = 1
  /\ host_need_txkick' = 0
  /\ evBack' = [evBack EXCEPT !["tx"] = 1]
  /\ UNCHANGED <<devVars, bdgVars, vwna, bpc, kVars, stop, npc, evFront, guest,
                 mapped, host_need_rxkick, dropped>>

(* netfront_tx_interrupt and netfront_rx_interrupt: an event that comes    *)
(* outside netmap mode is consumed without effect.                         *)
GuestInterrupt(d) ==
  /\ Present /\ evFront[d] = 1
  /\ evFront' = [evFront EXCEPT ![d] = 0]
  /\ IF guest # "netmap"
       THEN /\ dropped' = dropped \cup {c \in {d} : Awaited(c)}
            /\ UNCHANGED <<host_need_txkick, host_need_rxkick>>
       ELSE IF d = "tx"
       THEN /\ host_need_txkick' = 1 /\ dropped' = dropped \ {"tx"}
            /\ UNCHANGED host_need_rxkick
       ELSE host_need_rxkick' = 1 /\ UNCHANGED <<host_need_txkick, dropped>>
  /\ UNCHANGED <<devVars, bdgVars, vwna, bpc, kVars, stop, npc, evBack, guest,
                 mapped>>

(* rxsync answers. *)
GuestAnswer ==
  /\ guest = "netmap" /\ host_need_rxkick = 1
  /\ host_need_rxkick' = 0
  /\ evBack' = [evBack EXCEPT !["rx"] = 1]
  /\ UNCHANGED <<devVars, bdgVars, vwna, bpc, kVars, stop, npc, evFront, guest,
                 mapped, host_need_txkick, dropped>>

(* The guest closes the device or dies. *)
GuestGone ==
  /\ Present
  /\ guest' = IF bound = {} THEN "none" ELSE "gone"
  /\ evFront' = Both(0)
  /\ evBack' = IF bound = {} THEN Both(0) ELSE evBack
  /\ host_need_txkick' = 0 /\ host_need_rxkick' = 0 /\ mapped' = 0 /\ dropped' = {}
  /\ UNCHANGED <<devVars, bdgVars, vwna, bpc, kVars, stop, npc>>

-----------------------------------------------------------------------------
Connect == ConnectBindRx \/ ConnectTask \/ ConnectCarrier \/ ConnectWake
Disconnect == CarrierOff \/ DisconnectStop \/ DisconnectUnbind
Kthread == KthreadStart \/ KthreadCheck \/ KthreadTx \/ KthreadAck \/ KthreadRx

Next ==
  \/ Open \/ Close \/ BridgeAttach \/ BridgeDetach
  \/ ConnectBind \/ Connect \/ ConnectFail \/ Disconnect \/ Free
  \/ \E d \in Dirs : IrqSched(d) \/ GuestInterrupt(d)
  \/ Kthread \/ NotifyGet \/ NotifyKick
  \/ GuestSetup \/ GuestAttach \/ GuestOn \/ GuestOff \/ GuestKick
  \/ GuestAnswer \/ GuestGone

Spec == Init /\ [][Next]_vars

(* Started calls, the kernel thread and the interrupt handlers of both     *)
(* sides run on; a guest in netmap mode keeps polling.                     *)
Fairness ==
  /\ WF_vars(Connect) /\ WF_vars(DisconnectStop \/ DisconnectUnbind)
  /\ WF_vars(Kthread) /\ WF_vars(NotifyKick) /\ WF_vars(GuestAnswer)
  /\ \A d \in Dirs : WF_vars(IrqSched(d)) /\ WF_vars(GuestInterrupt(d))

FairSpec == Spec /\ Fairness
-----------------------------------------------------------------------------
(* Properties.                                                             *)

(* Flags, counters and program counters stay in their ranges. *)
TypeOK ==
  /\ running \in {"up", "down"} /\ carrier \in {"on", "off"}
  /\ bound \subseteq Dirs /\ depth \in [Dirs -> Int]
  /\ rings \in {"fresh", "enabled", "stopped"}
  /\ bdg \in {"on", "off"} /\ cur \in 0 .. MaxRegs
  /\ vwna \in [0 .. MaxRegs -> [rx : {0, 1}, tx : {0, 1}]]
  /\ bpc \in {"idle", "tx", "rx", "task", "wake", "stop", "join", "freed"}
  /\ kpc \in {"none", "created", "start", "sleep", "check", "tx", "ack", "rx", "done"}
  /\ kv \in 0 .. MaxRegs /\ iv \in 0 .. MaxRegs /\ stop \in {0, 1}
  /\ npc \in {"idle", "hold"}
  /\ evBack \in [Dirs -> {0, 1}] /\ evFront \in [Dirs -> {0, 1}]
  /\ guest \in {"none", "set up", "attached", "netmap", "gone"}
  /\ mapped \in 0 .. MaxRegs
  /\ {host_need_txkick, host_need_rxkick} \subseteq {0, 1} /\ dropped \subseteq Dirs

(* enable_irq and disable_irq are in four functions that test carrier and  *)
(* IFF_UP in turn: whatever their order, no irq is enabled twice, and both *)
(* are enabled exactly while the interface is up and has carrier.          *)
IrqPaired ==
  /\ \A d \in Dirs : depth[d] \in {0, 1}
  /\ bpc \in {"idle", "wake"} /\ bound # {} =>
       \A d \in Dirs : depth[d] = 0 <=> running = "up" /\ carrier = "on"

(* Who is about to notify the guest does it on a channel that is bound:    *)
(* the thread has ended, and xenvif_notify has let go of the ring, before  *)
(* xenvif_disconnect unbinds.  The latter needs rings that were enabled by *)
(* xenvif_netmap_up: those of an interface that is down are not stopped.   *)
NotifyBound ==
  /\ kpc = "ack" => "tx" \in bound
  /\ npc = "hold" /\ rings # "fresh" => "rx" \in bound

(* The vif works for a guest: it is up, connected, on its bridge, was not  *)
(* put back on it since the guest mapped the rings, and the guest is in    *)
(* netmap mode.  (The kernel thread keeps the vwna it began with.)         *)
Serving ==
  /\ running = "up" /\ carrier = "on" /\ bdg = "on" /\ guest = "netmap"
  /\ mapped = cur

(* A kick is answered, across guests that come and go with flags left set, *)
(* sessions of netmap mode and interfaces that go down and up, unless the  *)
(* kick was discarded by xenvif_netmap_irqsched, or its answer reached the *)
(* guest between two sessions.                                             *)
KickServed ==
  (Serving /\ "tx" \notin dropped /\ host_need_txkick = 0)
    ~> (~Serving \/ host_need_txkick = 1)

(* The permission to interrupt the guest comes back, also when a former    *)
(* guest or session went away without giving it back, unless the interrupt *)
(* reached the guest between two sessions.                                 *)
RxPermission ==
  (Serving /\ "rx" \notin dropped /\ vwna[cur].rx = 0)
    ~> (~Serving \/ vwna[cur].rx = 1)

(* xenvif_disconnect does not wait for the thread for ever. *)
StopEnds == (bpc = "join") ~> (bpc # "join")
=============================================================================
