------------------------------ MODULE VifProofs -----------------------------
(***************************************************************************)
(* Theorems about the life of a vif, for any number of registrations: its  *)
(* interrupts stay paired, and nobody notifies on an unbound channel.      *)
(***************************************************************************)
EXTENDS Vif, TLAPS

(* The xenbus thread, carrier and channels.  Carrier is on exactly from    *)
(* ConnectCarrier to CarrierOff, and both channels are bound then.         *)
Phases == {"idle", "tx", "rx", "task", "wake", "stop", "join", "freed"}
Linked == bpc = "wake" \/ (bpc = "idle" /\ bound # {})

DevTypes ==
  /\ running \in {"up", "down"} /\ carrier \in {"on", "off"}
  /\ bpc \in Phases /\ bound \subseteq Dirs
  /\ depth \in [Dirs -> {0, 1}]

PhaseInv ==
  /\ carrier = "on" <=> Linked
  /\ carrier = "on" => bound = Dirs
  /\ bpc \in {"rx", "task"} => bound = Dirs

(* How often each irq is disabled follows from the phase and IFF_UP. *)
DepthInv ==
  /\ carrier = "on" => \A d \in Dirs : depth[d] = 0 <=> running = "up"
  /\ bpc = "rx" => depth["tx"] = 1
  /\ bpc = "task" => \A d \in Dirs : depth[d] = 1

DevInv == DevTypes /\ PhaseInv /\ DepthInv

(* The initial state, with everything off. *)
LEMMA DevInit == Init => DevInv
BY DEF Init, DevInv, DevTypes, PhaseInv, DepthInv, Linked, Phases, Both, Dirs

(* The actions that leave device and phase alone. *)
Elsewhere ==
  \/ BridgeDetach \/ Kthread \/ NotifyGet \/ NotifyKick
  \/ \E d \in Dirs : IrqSched(d) \/ GuestInterrupt(d)
  \/ GuestSetup \/ GuestAttach \/ GuestOn \/ GuestOff \/ GuestKick \/ GuestAnswer \/ GuestGone

LEMMA ElsewhereKeeps ==
  Elsewhere => UNCHANGED <<running, carrier, bound, depth, rings, bpc>>
BY DEF Elsewhere, BridgeDetach, Kthread, KthreadStart, KthreadCheck, KthreadTx,
       KthreadAck, KthreadRx, NotifyGet, NotifyKick,
       IrqSched, GuestInterrupt, GuestSetup, GuestAttach, GuestOn, GuestOff, GuestKick,
       GuestAnswer, GuestGone, devVars

(* Every step keeps the interrupts in step with carrier and IFF_UP. *)
LEMMA DevStep == DevInv /\ [Next]_vars => DevInv'
<1> SUFFICES ASSUME DevInv, [Next]_vars PROVE DevInv'
  OBVIOUS
<1> USE DEF DevInv, DevTypes, PhaseInv, DepthInv, Linked, Phases, Dirs
<1>1. CASE Open
  BY <1>1 DEF Open, NetmapUp
<1>2. CASE Close
  BY <1>2 DEF Close, NetmapDown
<1>3. CASE BridgeAttach
  BY <1>3 DEF BridgeAttach
<1>4. CASE ConnectBind
  BY <1>4 DEF ConnectBind, Both
<1>5. CASE ConnectBindRx
  BY <1>5 DEF ConnectBindRx
<1>6. CASE ConnectTask
  BY <1>6 DEF ConnectTask
<1>7. CASE ConnectCarrier
  BY <1>7 DEF ConnectCarrier, NetmapUp
<1>8. CASE ConnectWake
  BY <1>8 DEF ConnectWake, devVars
<1>9. CASE ConnectFail
  BY <1>9 DEF ConnectFail, Both
<1>10. CASE CarrierOff
  BY <1>10 DEF CarrierOff, NetmapDown
<1>11. CASE DisconnectStop
  BY <1>11 DEF DisconnectStop, devVars
<1>12. CASE DisconnectUnbind
  BY <1>12 DEF DisconnectUnbind, Both
<1>13. CASE Free
  BY <1>13 DEF Free
<1>14. CASE Elsewhere
  BY <1>14, ElsewhereKeeps
<1>15. CASE UNCHANGED vars
  BY <1>15 DEF vars
<1> QED
  BY <1>1, <1>2, <1>3, <1>4, <1>5, <1>6, <1>7, <1>8, <1>9, <1>10, <1>11, <1>12,
     <1>13, <1>14, <1>15 DEF Next, Connect, Disconnect, Elsewhere

(* xenvif_open, xenvif_close, xenvif_connect and xenvif_carrier_off enable *)
(* and disable the two interrupts in pairs, in whatever order they come.   *)
THEOREM IrqsPaired == Spec => []IrqPaired
<1>1. DevInv => IrqPaired
  BY DEF DevInv, DevTypes, PhaseInv, DepthInv, Linked, IrqPaired
<1> QED
  BY <1>1, DevInit, DevStep, PTL DEF Spec
-----------------------------------------------------------------------------
(* The kernel thread and the rings.                                        *)

(* A thread that runs has both channels: it starts after they are bound    *)
(* and xenvif_disconnect joins it before it unbinds.                       *)
Live == {"start", "sleep", "check", "tx", "ack", "rx"}

ThreadInv ==
  /\ kpc \in Live => bound = Dirs /\ bpc \in {"idle", "stop", "join"}
  /\ bpc \in {"tx", "rx"} => kpc = "none"
  /\ bpc \in {"task", "wake"} => kpc = "created"

(* Rings of a bridge port are enabled only while the interface is up and   *)
(* has carrier, and are not stopped while xenvif_notify holds one.         *)
RingInv ==
  /\ rings \in {"fresh", "enabled", "stopped"}
  /\ npc # "idle" => bdg = "on"
  /\ npc = "hold" => rings # "stopped"
  /\ bdg = "on" /\ rings = "enabled" => running = "up" /\ carrier = "on"

(* Nothing runs and no ring is held initially. *)
LEMMA NotifyInit == Init => ThreadInv /\ RingInv
BY DEF Init, ThreadInv, RingInv, Live

(* Every step keeps the thread inside the life of its channels. *)
LEMMA ThreadStep == DevInv /\ ThreadInv /\ [Next]_vars => ThreadInv'
<1> SUFFICES ASSUME DevInv, ThreadInv, [Next]_vars PROVE ThreadInv'
  OBVIOUS
<1> USE DEF ThreadInv, Live
<1>1. CASE Open \/ Close \/ BridgeAttach
  BY <1>1 DEF Open, Close, BridgeAttach, kVars
<1>2. CASE ConnectBind \/ ConnectBindRx \/ ConnectTask \/ ConnectCarrier
  BY <1>2 DEF ConnectBind, ConnectBindRx, ConnectTask, ConnectCarrier, kVars
<1>3. CASE ConnectWake
  BY <1>3 DEF ConnectWake, devVars, DevInv, PhaseInv, Linked
<1>4. CASE ConnectFail
  BY <1>4 DEF ConnectFail, kVars
<1>5. CASE CarrierOff
  BY <1>5 DEF CarrierOff, kVars
<1>6. CASE DisconnectStop
  <2>1. kpc' \in {"check", "done", kpc}
    BY <1>6, Zenon DEF DisconnectStop
  <2>2. kpc' = "check" => kpc \in {"sleep", "check"}
    BY <1>6, Zenon DEF DisconnectStop
  <2> QED
    BY <1>6, <2>1, <2>2 DEF DisconnectStop, devVars
<1>7. CASE DisconnectUnbind \/ Free
  BY <1>7 DEF DisconnectUnbind, Free, kVars, Dirs
<1>8. CASE Kthread
  BY <1>8, ElsewhereKeeps DEF Kthread, Elsewhere, KthreadStart, KthreadCheck,
     AfterWait, KthreadTx, KthreadAck, KthreadRx, devVars
<1>9. CASE \E d \in Dirs : IrqSched(d)
  BY <1>9 DEF IrqSched, WakeUp, devVars
<1>10. CASE Elsewhere /\ UNCHANGED kpc
  BY <1>10, ElsewhereKeeps
<1>11. CASE UNCHANGED vars
  BY <1>11 DEF vars
<1>12. Elsewhere => Kthread \/ (\E d \in Dirs : IrqSched(d)) \/ UNCHANGED kpc
  BY DEF Elsewhere, BridgeDetach, NotifyGet, NotifyKick,
     GuestInterrupt, GuestSetup, GuestAttach, GuestOn, GuestOff, GuestKick, GuestAnswer, GuestGone,
     kVars
<1> QED
  BY <1>1, <1>2, <1>3, <1>4, <1>5, <1>6, <1>7, <1>8, <1>9, <1>10, <1>11, <1>12
     DEF Next, Connect, Disconnect, Elsewhere

(* Every step keeps the rings in step with the interface. *)
LEMMA RingStep == DevInv /\ RingInv /\ [Next]_vars => RingInv'
<1> SUFFICES ASSUME DevInv, RingInv, [Next]_vars PROVE RingInv'
  OBVIOUS
<1> USE DEF RingInv
<1>1. CASE Open
  BY <1>1 DEF Open, NetmapUp, bdgVars
<1>2. CASE Close
  BY <1>2 DEF Close, NetmapDown, bdgVars
<1>3. CASE BridgeAttach
  BY <1>3 DEF BridgeAttach
<1>4. CASE BridgeDetach
  BY <1>4 DEF BridgeDetach, devVars
<1>5. CASE ConnectBind \/ ConnectBindRx \/ ConnectTask \/ ConnectFail
  BY <1>5 DEF ConnectBind, ConnectBindRx, ConnectTask, ConnectFail, bdgVars
<1>6. CASE ConnectCarrier
  BY <1>6 DEF ConnectCarrier, NetmapUp, bdgVars, DevInv, DevTypes, PhaseInv, Linked
<1>7. CASE ConnectWake \/ DisconnectStop
  BY <1>7, Zenon DEF ConnectWake, DisconnectStop, devVars, bdgVars
<1>8. CASE CarrierOff
  BY <1>8 DEF CarrierOff, NetmapDown, bdgVars, DevInv, DevTypes
<1>9. CASE DisconnectUnbind \/ Free
  BY <1>9 DEF DisconnectUnbind, Free, bdgVars
<1>10. CASE NotifyGet
  BY <1>10 DEF NotifyGet, devVars, bdgVars
<1>11. CASE NotifyKick
  BY <1>11 DEF NotifyKick, devVars, bdgVars
<1>12. CASE Elsewhere /\ UNCHANGED <<npc, bdg>>
  BY <1>12, ElsewhereKeeps
<1>13. CASE UNCHANGED vars
  BY <1>13 DEF vars
<1>14. Elsewhere => BridgeDetach \/ NotifyGet \/ NotifyKick \/ UNCHANGED <<npc, bdg>>
  BY DEF Elsewhere, Kthread, KthreadStart, KthreadCheck, KthreadTx, KthreadAck,
     KthreadRx, IrqSched, GuestInterrupt, GuestSetup, GuestAttach, GuestOn, GuestOff, GuestKick,
     GuestAnswer, GuestGone, bdgVars
<1> QED
  BY <1>1, <1>2, <1>3, <1>4, <1>5, <1>6, <1>7, <1>8, <1>9, <1>10, <1>11, <1>12,
     <1>13, <1>14 DEF Next, Connect, Disconnect, Elsewhere

(* Neither the kernel thread nor xenvif_notify sends an event through a    *)
(* channel that xenvif_disconnect has unbound.                             *)
THEOREM NotifiesBound == Spec => []NotifyBound
<1>1. DevInv /\ ThreadInv /\ RingInv => NotifyBound
  BY DEF DevInv, PhaseInv, ThreadInv, RingInv, Live, NotifyBound, Dirs
<1> QED
  BY <1>1, DevInit, DevStep, NotifyInit, ThreadStep, RingStep, PTL DEF Spec
-----------------------------------------------------------------------------
(* Types.                                                                  *)

Flags == [rx : {0, 1}, tx : {0, 1}]

BackTypes ==
  /\ bdg \in {"on", "off"} /\ cur \in 0 .. MaxRegs
  /\ kv \in 0 .. MaxRegs /\ iv \in 0 .. MaxRegs /\ stop \in {0, 1}
  /\ kpc \in Live \cup {"none", "created", "done"}
  /\ npc \in {"idle", "hold"}

VwnaTypes == vwna \in [0 .. MaxRegs -> Flags]

GuestTypes ==
  /\ evBack \in [Dirs -> {0, 1}] /\ evFront \in [Dirs -> {0, 1}]
  /\ guest \in {"none", "set up", "attached", "netmap", "gone"}
  /\ mapped \in 0 .. MaxRegs
  /\ host_need_txkick \in {0, 1} /\ host_need_rxkick \in {0, 1}
  /\ dropped \subseteq Dirs

(* 0 stands for no registration. *)
LEMMA NoReg == 0 \in 0 .. MaxRegs
BY VifAssumption

(* The parts hold initially. *)
LEMMA TypesInit == Init => BackTypes /\ VwnaTypes /\ GuestTypes
BY VifAssumption DEF Init, BackTypes, VwnaTypes, GuestTypes, Flags, Live, Both, Dirs

(* ... and after every step: the backend's counters and places, *)
LEMMA BackStep == BackTypes /\ [Next]_vars => BackTypes'
<1> SUFFICES ASSUME BackTypes, [Next]_vars PROVE BackTypes'
  OBVIOUS
<1> USE VifAssumption DEF BackTypes, Live
<1>1. CASE Open \/ Close \/ BridgeAttach \/ BridgeDetach
  BY <1>1 DEF Open, Close, BridgeAttach, BridgeDetach, bdgVars, kVars
<1>2. CASE ConnectBind \/ ConnectFail \/ Connect
  BY <1>2 DEF ConnectBind, ConnectFail, Connect, ConnectBindRx, ConnectTask,
     ConnectCarrier, ConnectWake, bdgVars, kVars
<1>3. CASE CarrierOff \/ DisconnectUnbind \/ Free
  BY <1>3 DEF CarrierOff, DisconnectUnbind, Free, bdgVars, kVars
<1>4. CASE DisconnectStop
  <2>1. kpc' \in {"check", "done", kpc}
    BY <1>4, Zenon DEF DisconnectStop
  <2> QED
    BY <1>4, <2>1 DEF DisconnectStop, bdgVars
<1>5. CASE \E d \in Dirs : IrqSched(d) \/ GuestInterrupt(d)
  BY <1>5 DEF IrqSched, WakeUp, GuestInterrupt, bdgVars, kVars
<1>6. CASE Kthread
  BY <1>6 DEF Kthread, KthreadStart, KthreadCheck, AfterWait, KthreadTx,
     KthreadAck, KthreadRx, bdgVars
<1>7. CASE NotifyGet \/ NotifyKick
  BY <1>7 DEF NotifyGet, NotifyKick, bdgVars, kVars
<1>8. CASE GuestSetup \/ GuestAttach \/ GuestOn \/ GuestOff \/ GuestKick \/ GuestAnswer \/ GuestGone
  BY <1>8 DEF GuestSetup, GuestAttach, GuestOn, GuestOff, GuestKick, GuestAnswer, GuestGone,
     bdgVars, kVars
<1>9. CASE UNCHANGED vars
  BY <1>9 DEF vars
<1> QED
  BY <1>1, <1>2, <1>3, <1>4, <1>5, <1>6, <1>7, <1>8, <1>9 DEF Next, Disconnect

(* the flags of every registration, *)
LEMMA VwnaStep == BackTypes /\ VwnaTypes /\ [Next]_vars => VwnaTypes'
<1> SUFFICES ASSUME BackTypes, VwnaTypes, [Next]_vars PROVE VwnaTypes'
  OBVIOUS
<1> USE VifAssumption DEF BackTypes, VwnaTypes, Flags
<1>1. CASE BridgeAttach
  BY <1>1 DEF BridgeAttach
<1>2. ASSUME NEW d \in Dirs, IrqSched(d)
      PROVE  VwnaTypes'
  <2>1. MarkKick(vwna[cur]) \in Flags
    BY DEF MarkKick
  <2>2. vwna' \in {vwna, [vwna EXCEPT ![cur] = MarkKick(vwna[cur])]}
    BY <1>2, Zenon DEF IrqSched
  <2> QED
    BY <2>1, <2>2
<1>3. CASE KthreadAck
  <2>1. vwna' = [vwna EXCEPT ![iv] = [@ EXCEPT !.tx = 0]]
    BY <1>3 DEF KthreadAck
  <2> QED
    BY <2>1
<1>4. CASE KthreadRx
  <2>1. vwna' \in {vwna, [vwna EXCEPT ![cur] = [@ EXCEPT !.rx = 1]]}
    BY <1>4 DEF KthreadRx
  <2> QED
    BY <2>1
<1>5. CASE NotifyKick
  <2>1. vwna' \in {vwna, [vwna EXCEPT ![cur] = [@ EXCEPT !.rx = 0]]}
    BY <1>5 DEF NotifyKick
  <2> QED
    BY <2>1
<1>6. CASE UNCHANGED vwna
  BY <1>6
<1>7. Open \/ Close \/ BridgeDetach \/ Connect \/ ConnectBind \/ ConnectFail
        \/ Disconnect \/ Free => UNCHANGED vwna
  BY Zenon DEF Open, Close, BridgeDetach, Connect, ConnectBind, ConnectBindRx,
     ConnectTask, ConnectCarrier, ConnectWake, ConnectFail, Disconnect,
     CarrierOff, DisconnectStop, DisconnectUnbind, Free
<1>8. KthreadStart \/ KthreadCheck \/ KthreadTx \/ NotifyGet
        \/ GuestSetup \/ GuestAttach \/ GuestOn \/ GuestOff \/ GuestKick \/ GuestAnswer \/ GuestGone
        \/ (\E d \in Dirs : GuestInterrupt(d)) \/ UNCHANGED vars => UNCHANGED vwna
  BY DEF KthreadStart, KthreadCheck, KthreadTx, NotifyGet,
     GuestSetup, GuestAttach, GuestOn, GuestOff, GuestKick, GuestAnswer, GuestGone, GuestInterrupt,
     vars
<1> QED
  BY <1>1, <1>2, <1>3, <1>4, <1>5, <1>6, <1>7, <1>8 DEF Next, Kthread

(* and the guest with its channels. *)
LEMMA GuestStep == BackTypes /\ GuestTypes /\ [Next]_vars => GuestTypes'
<1> SUFFICES ASSUME BackTypes, GuestTypes, [Next]_vars PROVE GuestTypes'
  OBVIOUS
<1> USE VifAssumption DEF BackTypes, GuestTypes, Dirs
<1>1. CASE Open \/ Close \/ BridgeAttach \/ BridgeDetach \/ Free
  BY <1>1 DEF Open, Close, BridgeAttach, BridgeDetach, Free, guestVars
<1>2. CASE ConnectBind \/ Connect
  BY <1>2 DEF ConnectBind, Connect, ConnectBindRx, ConnectTask, ConnectCarrier,
     ConnectWake, guestVars
<1>3. CASE ConnectFail \/ DisconnectUnbind
  BY <1>3 DEF ConnectFail, DisconnectUnbind, Both
<1>4. CASE CarrierOff \/ DisconnectStop
  <2>1. UNCHANGED <<guestVars, evBack, evFront, dropped>>
    BY <1>4, Zenon DEF CarrierOff, DisconnectStop
  <2> QED
    BY <2>1 DEF guestVars
<1>5. CASE \E d \in Dirs : IrqSched(d)
  BY <1>5 DEF IrqSched, guestVars
<1>6. CASE \E d \in Dirs : GuestInterrupt(d)
  <2>1. PICK d \in Dirs : GuestInterrupt(d)
    BY <1>6
  <2>2. dropped' \subseteq Dirs
    BY <2>1, Zenon DEF GuestInterrupt
  <2> QED
    BY <2>1, <2>2 DEF GuestInterrupt
<1>7. CASE KthreadAck \/ NotifyKick
  <2>1. UNCHANGED <<guestVars, evBack, dropped>>
    BY <1>7 DEF KthreadAck, NotifyKick
  <2>2. evFront' \in {evFront, [evFront EXCEPT !["tx"] = 1], [evFront EXCEPT !["rx"] = 1]}
    BY <1>7, Zenon DEF KthreadAck, NotifyKick, Notify
  <2> QED
    BY <2>1, <2>2 DEF guestVars
<1>8. CASE KthreadStart \/ KthreadCheck \/ KthreadTx \/ KthreadRx
  BY <1>8 DEF KthreadStart, KthreadCheck, KthreadTx, KthreadRx, guestVars
<1>9. CASE NotifyGet
  BY <1>9 DEF NotifyGet, guestVars
<1>10. CASE GuestSetup
  BY <1>10 DEF GuestSetup
<1>11. CASE GuestAttach \/ GuestOn \/ GuestOff \/ GuestKick \/ GuestAnswer
  BY <1>11 DEF GuestAttach, GuestOn, GuestOff, GuestKick, GuestAnswer, Both
<1>12. CASE GuestGone
  <2>1. guest' \in {"none", "gone"} /\ evBack' \in {Both(0), evBack}
    BY <1>12, Zenon DEF GuestGone
  <2>2. /\ evFront' = Both(0) /\ mapped' = 0 /\ dropped' = {}
        /\ host_need_txkick' = 0 /\ host_need_rxkick' = 0
    BY <1>12, Zenon DEF GuestGone
  <2>3. Both(0) \in [Dirs -> {0, 1}]
    BY DEF Both
  <2> QED
    BY <2>1, <2>2, <2>3, NoReg, Zenon
<1>13. CASE UNCHANGED vars
  BY <1>13 DEF vars
<1> QED
  BY <1>1, <1>2, <1>3, <1>4, <1>5, <1>6, <1>7, <1>8, <1>9, <1>10, <1>11, <1>12,
     <1>13 DEF Next, Disconnect, Kthread

(* Flags, counters and program counters of a vif stay in their ranges. *)
THEOREM TypeCorrect == Spec => []TypeOK
<1>1. DevInv /\ RingInv /\ BackTypes /\ VwnaTypes /\ GuestTypes => TypeOK
  <2> SUFFICES ASSUME DevInv, RingInv, BackTypes, VwnaTypes, GuestTypes
               PROVE  TypeOK
    OBVIOUS
  <2>1. depth \in [Dirs -> Int]
    BY DEF DevInv, DevTypes
  <2>2. {host_need_txkick, host_need_rxkick} \subseteq {0, 1}
    BY DEF GuestTypes
  <2>3. kpc \in {"none", "created", "start", "sleep", "check", "tx", "ack", "rx", "done"}
    BY DEF BackTypes, Live
  <2>4. bpc \in {"idle", "tx", "rx", "task", "wake", "stop", "join", "freed"}
    BY DEF DevInv, DevTypes, Phases
  <2> QED
    BY <2>1, <2>2, <2>3, <2>4, Zenon DEF DevInv, DevTypes, RingInv, BackTypes,
       VwnaTypes, GuestTypes, TypeOK, Flags
<1> QED
  BY <1>1, DevInit, DevStep, NotifyInit, RingStep, TypesInit, BackStep, VwnaStep,
     GuestStep, PTL DEF Spec
=============================================================================
