----------------------------- MODULE VifRxProofs ----------------------------
(***************************************************************************)
(* Theorems about the receive path, for every ring size, every number of   *)
(* senders and sessions, and every setting of VifRx.                       *)
(***************************************************************************)
EXTENDS VifRx, NetmapRingTheorems, SequenceTheorems

(* The import loop takes no more than the ring offers and has room for. *)
LEMMA ImportableBound ==
  ASSUME IndexOK
  PROVE  /\ Importable \in 0 .. N - 1
         /\ Importable <= j
         /\ Importable <= Dist(hwtail, RingPrev(hwcur))
<1>1. Dist(hwtail, RingPrev(hwcur)) \in 0 .. N - 1
  BY RingPrevType, DistType DEF IndexOK
<1> QED
  BY <1>1, NAssumption DEF Importable, IndexOK

(* Packet numbers are taken modulo SeqMod. *)
LEMMA AfterType == \A t, k \in Nat : After(t, k) \in Tags
  BY RxAssumption DEF After, Tags

(* The initial state is well typed. *)
LEMMA InitType == Init => TypeOK
<1> SUFFICES ASSUME Init PROVE TypeOK
  OBVIOUS
<1>1. 0 \in Slots /\ 0 \in 0 .. N - 1 /\ 0 \in Tags
  BY NAssumption, RxAssumption DEF Slots, Tags
<1>2. IndexOK
  BY <1>1 DEF Init, IndexOK
<1>3. PacketOK
  BY <1>1 DEF Init, PacketOK
<1>4. ControlOK
  BY DEF Init, ControlOK
<1> QED
  BY <1>2, <1>3, <1>4 DEF TypeOK

(* No step moves an index out of its ring. *)
LEMMA NextIndex == IndexOK /\ [Next]_vars => IndexOK'
<1> SUFFICES ASSUME IndexOK, [Next]_vars PROVE IndexOK'
  OBVIOUS
<1> USE DEF IndexOK, guestVars, portVars
<1>1. CASE NetmapOn \/ NetmapOff
  <2>1. 0 \in Slots
    BY NAssumption DEF Slots
  <2> QED
    BY <1>1, <2>1 DEF NetmapOn, NetmapOff
<1>2. ASSUME NEW k \in 0 .. N - 1, RxsyncCall(k) PROVE IndexOK'
  <2>1. head' \in Slots
    BY <1>2, AdvanceType DEF RxsyncCall
  <2>2. j' \in 0 .. N - 1
    BY <1>2, DistType DEF RxsyncCall
  <2> QED
    BY <1>2, <2>1, <2>2 DEF RxsyncCall
<1>3. CASE RxImport
  <2>1. PICK n \in 0 .. N - 1 :
          hwtail' = Advance(hwtail, n) /\ rcur' = Advance(rcur, n)
    BY <1>3, ImportableBound, NAssumption DEF RxImport
  <2>2. hwtail' \in Slots /\ rcur' \in Slots
    BY <2>1, AdvanceType
  <2> QED
    BY <1>3, <2>2 DEF RxImport
<1>4. CASE RxAck
  BY <1>4 DEF RxAck
<1>5. CASE RxRelease \/ RxInterrupt
  BY <1>5 DEF RxRelease, RxInterrupt
<1>6. ASSUME NEW s \in Senders, Forward(s) PROVE IndexOK'
  BY <1>6, RingNextType DEF Forward, Deliver, DeliverRetry
<1>7. ASSUME NEW s \in Senders, Notify(s) PROVE IndexOK'
  BY <1>7 DEF Notify, NotifyBusy, NotifySync, NotifyKick
<1>8. CASE IrqSched \/ TxIrqSched \/ Kthread
  BY <1>8 DEF IrqSched, TxIrqSched, Kthread, KthreadCheck, KthreadRx
<1>9. CASE UNCHANGED vars
  BY <1>9 DEF vars
<1> QED
  BY <1>1, <1>2, <1>3, <1>4, <1>5, <1>6, <1>7, <1>8, <1>9 DEF Next, Rxsync

(* Flags stay 0 or 1, and every process is at one of its steps. *)
LEMMA NextControl == ControlOK /\ [Next]_vars => ControlOK'
<1> SUFFICES ASSUME ControlOK, [Next]_vars PROVE ControlOK'
  OBVIOUS
<1> USE DEF ControlOK, guestVars, backVars
<1>1. CASE NetmapOn \/ NetmapOff
  BY <1>1 DEF NetmapOn, NetmapOff
<1>2. ASSUME NEW k \in 0 .. N - 1, RxsyncCall(k) PROVE ControlOK'
  BY <1>2 DEF RxsyncCall
<1>3. CASE Rxsync \/ RxInterrupt
  BY <1>3 DEF Rxsync, RxImport, RxAck, RxRelease, RxInterrupt
<1>4. ASSUME NEW s \in Senders, Forward(s) PROVE ControlOK'
  BY <1>4 DEF Forward, Deliver, DeliverRetry
<1>5. ASSUME NEW s \in Senders, Notify(s) PROVE ControlOK'
  BY <1>5 DEF Notify, NotifyBusy, NotifySync, NotifyKick
<1>6. CASE IrqSched \/ TxIrqSched \/ Kthread
  BY <1>6 DEF IrqSched, TxIrqSched, Woken, Kthread, KthreadCheck, KthreadRx
<1>7. CASE UNCHANGED vars
  BY <1>7 DEF vars
<1> QED
  BY <1>1, <1>2, <1>3, <1>4, <1>5, <1>6, <1>7 DEF Next

(* Slots of both rings only ever hold packet numbers. *)
LEMMA NextPacket == IndexOK /\ PacketOK /\ [Next]_vars => PacketOK'
<1> SUFFICES ASSUME IndexOK, PacketOK, [Next]_vars PROVE PacketOK'
  OBVIOUS
<1> USE DEF PacketOK, guestVars, portVars
<1>1. Tags \subseteq Nat
  BY RxAssumption DEF Tags
<1>2. ASSUME NEW k \in 0 .. N - 1, RxsyncCall(k) PROVE PacketOK'
  <2>1. rcvd' \in Tags
    BY <1>1, <1>2, AfterType, NAssumption DEF RxsyncCall
  <2> QED
    BY <1>2, <2>1 DEF RxsyncCall
<1>3. CASE RxImport
  <2>1. \A i \in Slots : slot[Advance(rcur, Dist(hwtail, i))] \in Tags
    BY DistType, AdvanceType DEF IndexOK
  <2>2. PICK n : grx' = [i \in Slots |->
                    IF Dist(hwtail, i) < n
                      THEN slot[Advance(rcur, Dist(hwtail, i))] ELSE grx[i]]
    BY <1>3, Zenon DEF RxImport
  <2>3. grx' \in [Slots -> Tags]
    BY <2>1, <2>2
  <2> QED
    BY <1>3, <2>3 DEF RxImport
<1>4. ASSUME NEW s \in Senders, Deliver(s) PROVE PacketOK'
  <2>1. sent' \in Tags
    BY <1>1, <1>4, AfterType DEF Deliver
  <2> QED
    BY <1>4, <2>1 DEF Deliver
<1>5. CASE NetmapOn \/ NetmapOff \/ RxAck \/ RxRelease \/ RxInterrupt
  BY <1>5 DEF NetmapOn, NetmapOff, RxAck, RxRelease, RxInterrupt
<1>6. ASSUME NEW s \in Senders, DeliverRetry(s) \/ Notify(s) PROVE PacketOK'
  BY <1>6 DEF DeliverRetry, Notify, NotifyBusy, NotifySync, NotifyKick
<1>7. CASE IrqSched \/ TxIrqSched \/ Kthread
  BY <1>7 DEF IrqSched, TxIrqSched, Kthread, KthreadCheck, KthreadRx
<1>8. CASE UNCHANGED vars
  BY <1>8 DEF vars
<1> QED
  BY <1>2, <1>3, <1>4, <1>5, <1>6, <1>7, <1>8 DEF Next, Rxsync, Forward

(* Indices, flags and program counters of both sides stay in their ranges. *)
THEOREM TypeCorrect == Spec => []TypeOK
<1>1. TypeOK /\ [Next]_vars => TypeOK'
  BY NextIndex, NextControl, NextPacket DEF TypeOK
<1> QED
  BY <1>1, InitType, PTL DEF Spec
-----------------------------------------------------------------------------
(* Before the first session no sender has used up the permission that the  *)
(* backend starts with, if packets only arrive in netmap mode.             *)
FirstKick ==
  ~EarlyTraffic /\ regs = 0
    => /\ ~CarrierOk /\ vwna_rxkick = 1
       /\ \A s \in Senders : spc[s] = "idle"

(* FirstKick and RxKickAnswered hold together in every step. *)
LEMMA NextKick ==
  ControlOK /\ FirstKick /\ RxKickAnswered /\ [Next]_vars
    => FirstKick' /\ RxKickAnswered'
<1> SUFFICES ASSUME ControlOK, FirstKick, RxKickAnswered, [Next]_vars,
                    ~EarlyTraffic
             PROVE  FirstKick' /\ RxKickAnswered'
  BY DEF FirstKick, RxKickAnswered
<1> USE DEF ControlOK, FirstKick, RxKickAnswered, CarrierOk, guestVars, backVars
<1>1. CASE NetmapOn
  BY <1>1 DEF NetmapOn
<1>2. CASE NetmapOff
  BY <1>2 DEF NetmapOff
<1>3. ASSUME NEW k \in 0 .. N - 1, RxsyncCall(k)
      PROVE  FirstKick' /\ RxKickAnswered'
  BY <1>3 DEF RxsyncCall
<1>4. CASE RxImport \/ RxRelease
  BY <1>4 DEF RxImport, RxRelease
<1>5. CASE RxAck
  BY <1>5 DEF RxAck
<1>6. CASE RxInterrupt
  BY <1>6 DEF RxInterrupt
<1>7. ASSUME NEW s \in Senders, Forward(s)
      PROVE  FirstKick' /\ RxKickAnswered'
  BY <1>7 DEF Forward, Deliver, DeliverRetry
<1>8. ASSUME NEW s \in Senders, NotifyBusy(s) \/ NotifySync(s)
      PROVE  FirstKick' /\ RxKickAnswered'
  BY <1>8 DEF NotifyBusy, NotifySync
<1>9. ASSUME NEW s \in Senders, NotifyKick(s)
      PROVE  FirstKick' /\ RxKickAnswered'
  BY <1>9 DEF NotifyKick
<1>10. CASE IrqSched \/ TxIrqSched
  BY <1>10 DEF IrqSched, TxIrqSched, Woken
<1>11. CASE Kthread
  BY <1>11 DEF Kthread, KthreadCheck, KthreadRx
<1>12. CASE UNCHANGED vars
  BY <1>12 DEF vars
<1> QED
  BY <1>1, <1>2, <1>3, <1>4, <1>5, <1>6, <1>7, <1>8, <1>9, <1>10, <1>11,
     <1>12 DEF Next, Rxsync, Notify

(* In the first session the permission to interrupt the guest is always    *)
(* somewhere: in vwna's flag, in an event under way to either side, in the *)
(* guest's csb flag, or with a kernel thread that is awake.                *)
THEOREM RxKickKept == Spec => []RxKickAnswered
<1>1. Init => FirstKick /\ RxKickAnswered
  BY DEF Init, FirstKick, RxKickAnswered, CarrierOk
<1>2. TypeOK => ControlOK
  BY DEF TypeOK
<1> QED
  BY <1>1, <1>2, NextKick, TypeCorrect, PTL DEF Spec
-----------------------------------------------------------------------------
(* What RegionOrder needs besides itself: the packets rxsync counted when  *)
(* it was called are still there when it imports them, and its place       *)
(* differs from the released one only between an import and its answer.    *)
PlaceKept ==
  /\ gpc = "import" => j <= Dist(rcur, tail)
  /\ rcur # cur => gpc = "ack" /\ host_need_rxkick = 1

(* Before and after an import rxsync's place is the released one. *)
LEMMA PlaceOrder ==
  ASSUME IndexOK, RegionOrder, PlaceKept
  PROVE  /\ Dist(khwcur, cur) <= Dist(khwcur, rcur)
         /\ Dist(khwcur, rcur) <= Dist(khwcur, tail)
         /\ Dist(khwcur, tail) <= Dist(khwcur, khwtail)
<1>1. Dist(khwcur, cur) \in Int
  BY DistType DEF IndexOK
<1> QED
  BY <1>1 DEF RegionOrder, PlaceKept

(* rxsync keeps to the packets published when it was called, and what it   *)
(* imports stays behind the published tail.                                *)
LEMMA ImportPlace ==
  ASSUME IndexOK, RegionOrder, PlaceKept, RxImport
  PROVE  RegionOrder' /\ PlaceKept'
<1>1. PICK n \in 0 .. N - 1 :
        /\ n <= j /\ (host_need_rxkick # 1 => n = 0)
        /\ rcur' = Advance(rcur, n)
  BY ImportableBound, NAssumption DEF RxImport, IndexOK
<1>2. gpc = "import" /\ gpc' = "ack"
      /\ UNCHANGED <<cur, tail, khwcur, khwtail, host_need_rxkick, j>>
  BY DEF RxImport, portVars
<1>3. rcur = cur /\ n <= Dist(cur, tail)
  BY <1>1, <1>2, DistType DEF PlaceKept, IndexOK
<1>4. Dist(khwcur, cur) <= Dist(khwcur, tail)
      /\ Dist(khwcur, tail) <= Dist(khwcur, khwtail)
  BY DEF RegionOrder
<1>5. Dist(khwcur, rcur') = Dist(khwcur, cur) + n
      /\ Dist(khwcur, cur) + n <= Dist(khwcur, tail)
  BY <1>1, <1>3, <1>4, NAssumption DEF IndexOK, Slots, Dist, Advance
<1>6. n = 0 => rcur' = cur
  BY <1>1, <1>3, NAssumption DEF IndexOK, Slots, Advance
<1>7. Dist(khwcur, cur) \in 0 .. N - 1
  BY DistType DEF IndexOK
<1> QED
  BY <1>1, <1>2, <1>4, <1>5, <1>6, <1>7, NAssumption DEF RegionOrder, PlaceKept

(* xenvif_netmap_rxsync moves nr_hwcur up to what the guest released and   *)
(* the tail up to its own, past neither the guest's place nor its count.   *)
LEMMA SyncPlace ==
  ASSUME IndexOK, RegionOrder, PlaceKept, NEW s \in Senders, NotifySync(s)
  PROVE  RegionOrder' /\ PlaceKept'
<1>1. /\ khwcur' = cur /\ tail' = khwtail
      /\ UNCHANGED <<gpc, j, rcur, cur, khwtail, host_need_rxkick>>
  BY DEF NotifySync, guestVars
<1>2. /\ Dist(khwcur, cur) <= Dist(khwcur, rcur)
      /\ Dist(khwcur, rcur) <= Dist(khwcur, tail)
      /\ Dist(khwcur, tail) <= Dist(khwcur, khwtail)
  BY PlaceOrder
<1>3. /\ Dist(cur, cur) <= Dist(cur, khwtail)
      /\ Dist(cur, cur) <= Dist(cur, rcur)
      /\ Dist(cur, rcur) <= Dist(cur, khwtail)
      /\ Dist(rcur, tail) <= Dist(rcur, khwtail)
  BY <1>2, NAssumption DEF IndexOK, Slots, Dist
<1>4. RegionOrder'
  BY <1>1, <1>3, NAssumption DEF RegionOrder, IndexOK, Slots, Dist
<1>5. j \in Int /\ Dist(rcur, tail) \in Int /\ Dist(rcur, khwtail) \in Int
  BY DistType DEF IndexOK
<1>6. PlaceKept'
  BY <1>1, <1>3, <1>5 DEF PlaceKept
<1> QED
  BY <1>4, <1>6

(* RegionOrder and PlaceKept hold together in every step. *)
LEMMA NextRegion ==
  IndexOK /\ ControlOK /\ RegionOrder /\ PlaceKept /\ [Next]_vars
    => RegionOrder' /\ PlaceKept'
<1> SUFFICES ASSUME IndexOK, ControlOK, RegionOrder, PlaceKept, [Next]_vars
             PROVE  RegionOrder' /\ PlaceKept'
  OBVIOUS
<1>1. ASSUME NEW k \in 0 .. N - 1, RxsyncCall(k)
      PROVE  RegionOrder' /\ PlaceKept'
  <2>1. gpc = "idle" /\ gpc' = "import" /\ rcur' = cur /\ j' = Dist(cur, tail)
        /\ UNCHANGED <<cur, tail, khwcur, khwtail, host_need_rxkick>>
    BY <1>1 DEF RxsyncCall, portVars
  <2>2. Dist(cur, tail) <= Dist(cur, tail)
        /\ Dist(khwcur, cur) <= Dist(khwcur, cur)
    BY DistType DEF IndexOK
  <2> QED
    BY <2>1, <2>2 DEF RegionOrder, PlaceKept
<1>2. CASE RxImport
  BY <1>2, ImportPlace
<1>3. CASE RxAck
  <2>1. /\ gpc = "ack" /\ gpc' = "release"
        /\ host_need_rxkick = 1 => cur' = rcur
        /\ host_need_rxkick # 1 => cur' = cur
        /\ UNCHANGED <<rcur, tail, khwcur, khwtail>>
    BY <1>3 DEF RxAck, portVars
  <2>2. cur' = rcur
    BY <2>1 DEF PlaceKept
  <2> QED
    BY <2>1, <2>2, PlaceOrder DEF RegionOrder, PlaceKept
<1>4. CASE RxRelease \/ RxInterrupt
  BY <1>4 DEF RxRelease, RxInterrupt, guestVars, portVars, ControlOK,
              RegionOrder, PlaceKept
<1>5. ASSUME NEW s \in Senders, Deliver(s)
      PROVE  RegionOrder' /\ PlaceKept'
  <2>1. /\ Dist(khwcur, khwtail) < N - 1 /\ khwtail' = RingNext(khwtail)
        /\ UNCHANGED <<gpc, j, rcur, cur, tail, khwcur, host_need_rxkick>>
    BY <1>5 DEF Deliver, guestVars
  <2>2. Dist(khwcur, khwtail) <= Dist(khwcur, khwtail')
    BY <2>1, NAssumption DEF IndexOK, Slots, Dist, RingNext
  <2>3. Dist(khwcur, tail) <= Dist(khwcur, khwtail')
    BY <2>1, <2>2, NAssumption DEF RegionOrder, IndexOK, Slots, Dist, RingNext
  <2> QED
    BY <2>1, <2>3 DEF RegionOrder, PlaceKept
<1>6. ASSUME NEW s \in Senders, NotifySync(s)
      PROVE  RegionOrder' /\ PlaceKept'
  BY <1>6, SyncPlace
<1>7. CASE NetmapOn \/ NetmapOff
  BY <1>7 DEF NetmapOn, NetmapOff, portVars, RegionOrder, PlaceKept
<1>8. ASSUME NEW s \in Senders, DeliverRetry(s) \/ NotifyBusy(s) \/ NotifyKick(s)
      PROVE  RegionOrder' /\ PlaceKept'
  BY <1>8 DEF DeliverRetry, NotifyBusy, NotifyKick, guestVars, portVars,
              RegionOrder, PlaceKept
<1>9. CASE IrqSched \/ TxIrqSched \/ Kthread
  BY <1>9 DEF IrqSched, TxIrqSched, Kthread, KthreadCheck, KthreadRx,
              guestVars, portVars, RegionOrder, PlaceKept
<1>10. CASE UNCHANGED vars
  BY <1>10 DEF vars, RegionOrder, PlaceKept
<1> QED
  BY <1>1, <1>2, <1>3, <1>4, <1>5, <1>6, <1>7, <1>8, <1>9, <1>10
  DEF Next, Rxsync, Forward, Notify

(* The first state has everything at slot 0. *)
LEMMA InitRegion == Init => RegionOrder /\ PlaceKept
<1>1. 0 <= Dist(0, 0)
  BY NAssumption DEF Dist
<1> QED
  BY <1>1 DEF Init, RegionOrder, PlaceKept, Dist

(* Guest and backend never overlap in the shared ring, in any number of    *)
(* sessions: nr_hwcur, the released slots, rxsync's place, the published   *)
(* tail and the backend's tail keep their order around the ring.           *)
THEOREM RegionsKept == Spec => []RegionOrder
<1>1. TypeOK => IndexOK /\ ControlOK
  BY DEF TypeOK
<1> QED
  BY <1>1, InitRegion, NextRegion, TypeCorrect, PTL DEF Spec

-----------------------------------------------------------------------------
(* The receive path of a guest's first session implements PacketChannel,   *)
(* for every ring size, number of senders and numbering of the packets.    *)
(* Netmap throws the application's ring away between sessions, so a second *)
(* one may begin with packets lost: these theorems assume MaxRegs <= 1.    *)

(* Division with remainder. *)
LEMMA DivMod ==
  \A a \in Nat : /\ a \div SeqMod \in Int /\ a % SeqMod \in 0 .. SeqMod - 1
                 /\ a = SeqMod * (a \div SeqMod) + (a % SeqMod)
  BY RxAssumption

(* The remainder is unique. *)
LEMMA RemainderUnique ==
  ASSUME NEW q \in Int, NEW p \in Int,
         NEW a \in 0 .. SeqMod - 1, NEW b \in 0 .. SeqMod - 1,
         SeqMod * q + a = SeqMod * p + b
  PROVE  a = b
<1>1. SeqMod * (q - p) = b - a
  BY RxAssumption
<1>2. CASE q - p >= 1
  <2>1. SeqMod * (q - p) >= SeqMod
    BY <1>2, RxAssumption
  <2> QED
    BY <1>1, <2>1, RxAssumption
<1>3. CASE q - p <= -1
  <2>1. SeqMod * (q - p) <= -SeqMod
    BY <1>3, RxAssumption
  <2> QED
    BY <1>1, <2>1, RxAssumption
<1>4. CASE q - p = 0
  BY <1>1, <1>4, RxAssumption
<1> QED
  BY <1>2, <1>3, <1>4

(* Numbers modulo SeqMod can be counted on from. *)
LEMMA AfterAfter ==
  \A t, k, m \in Nat : After(After(t, k), m) = After(t, k + m)
<1> TAKE t, k, m \in Nat
<1> DEFINE a == t + k
           b == (a % SeqMod) + m
           c == a + m
           x == b % SeqMod
           y == c % SeqMod
           q == a \div SeqMod
           p == b \div SeqMod
           u == c \div SeqMod
<1>1. a \in Nat /\ c \in Nat
  OBVIOUS
<1>2. q \in Int /\ a % SeqMod \in 0 .. SeqMod - 1
      /\ a = SeqMod * q + (a % SeqMod)
  BY <1>1, DivMod
<1>3. b \in Nat
  BY <1>2, RxAssumption
<1>4. p \in Int /\ x \in 0 .. SeqMod - 1 /\ b = SeqMod * p + x
  BY <1>3, DivMod
<1>5. u \in Int /\ y \in 0 .. SeqMod - 1 /\ c = SeqMod * u + y
  BY <1>1, DivMod
<1>6. c = SeqMod * q + b
  BY <1>1, <1>2, RxAssumption
<1> HIDE DEF a, b, c, x, y, q, p, u
<1>7. SeqMod * (q + p) + x = SeqMod * u + y /\ q + p \in Int
  BY <1>2, <1>4, <1>5, <1>6, RxAssumption
<1>8. x = y
  BY <1>4, <1>5, <1>7, RemainderUnique
<1>9. After(After(t, k), m) = x
  BY DEF After, a, b, x
<1>10. After(t, k + m) = y
  BY DEF After, a, c, y
<1> QED
  BY <1>8, <1>9, <1>10

(* A number is the first of those that follow it. *)
LEMMA AfterZero == \A t \in Tags : After(t, 0) = t
<1> TAKE t \in Tags
<1>1. t \in Nat /\ t \in 0 .. SeqMod - 1
  BY RxAssumption DEF Tags
<1>2. /\ t \div SeqMod \in Int /\ t % SeqMod \in 0 .. SeqMod - 1
      /\ t = SeqMod * (t \div SeqMod) + (t % SeqMod)
  BY <1>1, DivMod
<1>3. SeqMod * 0 + t = SeqMod * (t \div SeqMod) + (t % SeqMod)
  BY <1>1, <1>2, RxAssumption
<1>4. t = t % SeqMod
  BY <1>1, <1>2, <1>3, RemainderUnique
<1> QED
  BY <1>1, <1>4 DEF After
-----------------------------------------------------------------------------
(* n successive packets, the first one numbered t. *)
Run(t, n) == [i \in 1 .. n |-> After(t, i - 1)]

(* A run is a sequence of n packet numbers. *)
LEMMA RunType ==
  ASSUME NEW t \in Nat, NEW n \in Nat
  PROVE  Run(t, n) \in Seq(Tags) /\ Len(Run(t, n)) = n
<1>1. \A i \in 1 .. n : After(t, i - 1) \in Tags
  BY AfterType
<1>2. Run(t, n) \in [1 .. n -> Tags]
  BY <1>1 DEF Run
<1> QED
  BY <1>2, SeqDef, LenProperties DEF Run

(* The packet that comes after a run makes it longer. *)
LEMMA RunAppend ==
  ASSUME NEW t \in Nat, NEW n \in Nat
  PROVE  Append(Run(t, n), After(t, n)) = Run(t, n + 1)
<1>1. Run(t, n) \in Seq(Tags) /\ Len(Run(t, n)) = n
  BY RunType
<1>2. After(t, n) \in Tags
  BY AfterType
<1> QED
  BY <1>1, <1>2 DEF Run

(* A run without its first k packets is a run. *)
LEMMA RunDrop ==
  ASSUME NEW t \in Nat, NEW n \in Nat, NEW k \in 0 .. n
  PROVE  SubSeq(Run(t, n), k + 1, n) = Run(After(t, k), n - k)
<1>1. Run(t, n) \in Seq(Tags) /\ Len(Run(t, n)) = n
  BY RunType
<1>2. \A i \in 1 .. n - k : Run(t, n)[k + 1 + i - 1] = After(t, k + (i - 1))
  BY DEF Run
<1>3. \A i \in 1 .. n - k : After(t, k + (i - 1)) = After(After(t, k), i - 1)
  BY AfterAfter
<1>4. SubSeq(Run(t, n), k + 1, n)
        = [i \in 1 .. n - k |-> Run(t, n)[k + 1 + i - 1]]
  BY <1>1
<1> QED
  BY <1>2, <1>3, <1>4 DEF Run

(* A run and the one that continues it are one run. *)
LEMMA RunConcat ==
  ASSUME NEW t \in Nat, NEW m \in Nat, NEW n \in Nat
  PROVE  Run(t, m) \o Run(After(t, m), n) = Run(t, m + n)
<1> DEFINE a == Run(t, m)
           b == Run(After(t, m), n)
<1>1. After(t, m) \in Nat
  BY AfterType, RxAssumption DEF Tags
<1>2. a \in Seq(Tags) /\ Len(a) = m /\ b \in Seq(Tags) /\ Len(b) = n
  BY <1>1, RunType
<1>3. \A i \in 1 .. m : a[i] = After(t, i - 1)
  BY DEF Run
<1>4. \A i \in m + 1 .. m + n : b[i - m] = After(t, i - 1)
  <2> TAKE i \in m + 1 .. m + n
  <2>1. b[i - m] = After(After(t, m), i - m - 1)
    BY DEF Run
  <2>2. i - m - 1 \in Nat /\ m + (i - m - 1) = i - 1
    OBVIOUS
  <2> QED
    BY <2>1, <2>2, AfterAfter
<1> HIDE DEF a, b
<1>5. /\ a \o b \in Seq(Tags) /\ Len(a \o b) = m + n
      /\ \A i \in 1 .. m + n :
           (a \o b)[i] = IF i <= m THEN a[i] ELSE b[i - m]
  BY <1>2, ConcatProperties
<1>6. \A i \in 1 .. m + n : (a \o b)[i] = After(t, i - 1)
  BY <1>3, <1>4, <1>5
<1>7. Run(t, m + n) \in Seq(Tags) /\ Len(Run(t, m + n)) = m + n
  BY RunType
<1>8. \A i \in 1 .. m + n : (a \o b)[i] = Run(t, m + n)[i]
  BY <1>6 DEF Run
<1>9. a \o b = Run(t, m + n)
  BY <1>5, <1>7, <1>8, SeqEqual
<1> QED
  BY <1>9 DEF a, b
-----------------------------------------------------------------------------
(* Packets in the application's ring, and in the shared ring from rxsync's *)
(* place up to the backend's tail.                                         *)
Held == Dist(head, hwtail)
Coming == Dist(rcur, khwtail)

(* Both rings hold successive packets: the first is the one the            *)
(* application reads next, the one after the last is the bridge's next.    *)
NumbersKept ==
  /\ \A i \in Slots :
       Dist(head, i) < Held => grx[i] = After(rcvd, Dist(head, i))
  /\ \A i \in Slots :
       Dist(rcur, i) < Coming => slot[i] = After(rcvd, Held + Dist(rcur, i))
  /\ sent = After(rcvd, Held + Coming)

(* The application never releases more than it was given. *)
AppOrder == Dist(hwcur, head) <= Dist(hwcur, hwtail)

(* Netmap's new krings find the indices where Init left them: before the   *)
(* first session nobody calls rxsync.                                      *)
FirstRings ==
  regs = 0 => /\ ~CarrierOk /\ gpc = "idle"
              /\ hwcur = 0 /\ hwtail = 0 /\ head = 0

(* The conjuncts the refinement needs, together. *)
ChannelInv == AppOrder /\ FirstRings /\ NumbersKept

(* Counts of packets are small numbers. *)
LEMMA CountType ==
  ASSUME IndexOK PROVE Held \in 0 .. N - 1 /\ Coming \in 0 .. N - 1
  BY DistType DEF IndexOK, Held, Coming

(* The application reads k packets: what is left is numbered from there. *)
LEMMA CallNumbers ==
  ASSUME TypeOK, PlaceKept, ChannelInv, NEW k \in 0 .. N - 1, RxsyncCall(k)
  PROVE  /\ NumbersKept' /\ k <= Held
         /\ Held' = Held - k /\ Coming' = Coming
         /\ rcvd' = After(rcvd, k) /\ UNCHANGED sent
<1>1. /\ gpc = "idle" /\ k <= Held /\ head' = Advance(head, k)
      /\ rcvd' = After(rcvd, k) /\ rcur' = cur
      /\ UNCHANGED <<hwtail, grx, slot, khwtail, sent>>
  BY DEF RxsyncCall, Held, portVars
<1>2. IndexOK /\ PacketOK /\ rcvd \in Nat
  BY RxAssumption DEF TypeOK, PacketOK, Tags
<1>3. rcur' = rcur
  BY <1>1 DEF PlaceKept
<1>4. Held \in 0 .. N - 1 /\ Coming \in 0 .. N - 1
  BY <1>2, CountType
<1>5. Held' = Held - k /\ Coming' = Coming
  BY <1>1, <1>2, <1>3, DistTo DEF Held, Coming, IndexOK
<1>6. ASSUME NEW i \in Slots, Dist(head', i) < Held'
      PROVE  grx'[i] = After(rcvd', Dist(head', i))
  <2>1. Dist(head', i) \in Nat /\ Dist(head, i) = k + Dist(head', i)
    <3>1. head \in Slots /\ head' \in Slots
      BY <1>1, <1>2, AdvanceType DEF IndexOK
    <3>2. Dist(head', i) \in Nat /\ Dist(head', i) + k <= N - 1
      BY <1>4, <1>5, <1>6, <3>1, DistType, NAssumption
    <3> QED
      BY <1>1, <3>1, <3>2, DistFrom
  <2>2. grx[i] = After(rcvd, k + Dist(head', i))
    BY <1>4, <1>5, <1>6, <2>1 DEF ChannelInv, NumbersKept
  <2> QED
    BY <1>1, <1>2, <2>1, <2>2, AfterAfter
<1>7. ASSUME NEW i \in Slots, Dist(rcur', i) < Coming'
      PROVE  slot'[i] = After(rcvd', Held' + Dist(rcur', i))
  <2>1. Dist(rcur, i) \in Nat
    BY <1>2, DistType DEF IndexOK
  <2>2. slot[i] = After(rcvd, k + (Held' + Dist(rcur, i)))
    BY <1>3, <1>4, <1>5, <1>7, <2>1 DEF ChannelInv, NumbersKept
  <2> QED
    BY <1>1, <1>2, <1>3, <1>4, <1>5, <2>1, <2>2, AfterAfter
<1>8. sent' = After(rcvd', Held' + Coming')
  <2>1. sent = After(rcvd, k + (Held' + Coming'))
    BY <1>4, <1>5 DEF ChannelInv, NumbersKept
  <2> QED
    BY <1>1, <1>2, <1>4, <1>5, <2>1, AfterAfter
<1>9. NumbersKept'
  BY <1>6, <1>7, <1>8 DEF NumbersKept
<1> QED
  BY <1>1, <1>5, <1>9

(* The loop moves n packets from one ring to the other, in their order. *)
LEMMA ImportNumbers ==
  ASSUME TypeOK, RegionOrder, PlaceKept, ChannelInv, RxImport
  PROVE  /\ NumbersKept' /\ AppOrder'
         /\ Held' + Coming' = Held + Coming
         /\ UNCHANGED <<sent, rcvd>>
<1> DEFINE n == IF host_need_rxkick = 1 THEN Importable ELSE 0
<1>1. /\ grx' = [i \in Slots |->
                   IF Dist(hwtail, i) < n
                     THEN slot[Advance(rcur, Dist(hwtail, i))] ELSE grx[i]]
      /\ hwtail' = Advance(hwtail, n) /\ rcur' = Advance(rcur, n)
      /\ gpc = "import"
      /\ UNCHANGED <<hwcur, head, slot, khwtail, sent, rcvd>>
  BY DEF RxImport, portVars
<1>2. IndexOK /\ PacketOK /\ rcvd \in Nat
  BY RxAssumption DEF TypeOK, PacketOK, Tags
<1>3. n \in 0 .. N - 1 /\ n <= j /\ n <= Dist(hwtail, RingPrev(hwcur))
  <2>1. Dist(hwtail, RingPrev(hwcur)) \in Nat /\ j \in Nat
    BY <1>2, DistType, RingPrevType, NAssumption DEF IndexOK
  <2> QED
    BY <1>2, <2>1, ImportableBound, NAssumption
<1> HIDE DEF n
<1>4. Held \in 0 .. N - 1 /\ Coming \in 0 .. N - 1
  BY <1>2, CountType
<1>5. n <= Coming
  <2>1. n <= Dist(rcur, tail)
    BY <1>1, <1>2, <1>3, DistType DEF PlaceKept, IndexOK
  <2>2. /\ Dist(khwcur, rcur) <= Dist(khwcur, tail)
        /\ Dist(khwcur, tail) <= Dist(khwcur, khwtail)
    BY <1>2, PlaceOrder
  <2>3. Dist(rcur, tail) <= Dist(rcur, khwtail)
    BY <1>2, <2>2, NAssumption DEF IndexOK, Slots, Dist
  <2> QED
    BY <1>2, <1>3, <2>1, <2>3, DistType DEF Coming, IndexOK
<1>6. Held + n <= N - 1
  <2>1. Held + Dist(hwtail, RingPrev(hwcur)) <= N - 1
    BY <1>2, RoomLeft DEF ChannelInv, AppOrder, Held, IndexOK
  <2>2. Dist(hwtail, RingPrev(hwcur)) \in Nat
    BY <1>2, DistType, RingPrevType, NAssumption DEF IndexOK
  <2> QED
    BY <1>3, <1>4, <2>1, <2>2, NAssumption
<1>7. Held' = Held + n
  BY <1>1, <1>2, <1>3, <1>6, AdvanceFrom DEF Held, IndexOK
<1>8. Coming' = Coming - n
  BY <1>1, <1>2, <1>3, <1>5, DistTo DEF Coming, IndexOK
<1>9. ASSUME NEW i \in Slots, Dist(head, i) < Held + n
      PROVE  grx'[i] = After(rcvd, Dist(head, i))
  <2>1. Dist(head, i) \in Nat /\ Dist(hwtail, i) \in 0 .. N - 1
    BY <1>2, DistType DEF IndexOK
  <2>2. CASE Dist(hwtail, i) < n
    <3> DEFINE d == Dist(hwtail, i)
    <3>1. Dist(head, i) = Held + d
      <4>1. Advance(hwtail, d) = i
        BY <1>2, AdvanceDist DEF IndexOK
      <4>2. Held + d <= N - 1
        BY <1>3, <1>4, <1>6, <2>1, <2>2, NAssumption
      <4> QED
        BY <1>2, <2>1, <4>1, <4>2, AdvanceFrom DEF Held, IndexOK
    <3>2. Advance(rcur, d) \in Slots /\ Dist(rcur, Advance(rcur, d)) = d
      BY <1>2, <2>1, AdvanceType, DistAdvance DEF IndexOK
    <3>3. d < Coming
      BY <1>3, <1>4, <1>5, <2>1, <2>2
    <3>4. slot[Advance(rcur, d)] = After(rcvd, Held + d)
      BY <3>2, <3>3 DEF ChannelInv, NumbersKept
    <3> QED
      BY <1>1, <2>2, <3>1, <3>4
  <2>3. CASE ~(Dist(hwtail, i) < n)
    <3>1. Dist(head, i) < Held
      <4>1. Held <= Dist(head, i) => Dist(head, i) = Held + Dist(hwtail, i)
        BY <1>2, DistSplit DEF Held, IndexOK
      <4> QED
        BY <1>3, <1>4, <1>9, <2>1, <2>3, <4>1
    <3> QED
      BY <1>1, <2>3, <3>1 DEF ChannelInv, NumbersKept
  <2> QED
    BY <2>2, <2>3
<1>10. ASSUME NEW i \in Slots, Dist(rcur', i) < Coming'
       PROVE  slot'[i] = After(rcvd, Held' + Dist(rcur', i))
  <2>1. Dist(rcur', i) \in Nat /\ Dist(rcur, i) = n + Dist(rcur', i)
    <3>1. rcur \in Slots /\ rcur' \in Slots
      BY <1>1, <1>2, <1>3, AdvanceType DEF IndexOK
    <3>2. Dist(rcur', i) \in Nat /\ Dist(rcur', i) + n <= N - 1
      BY <1>3, <1>4, <1>8, <1>10, <3>1, DistType, NAssumption
    <3> QED
      BY <1>1, <1>3, <3>1, <3>2, DistFrom
  <2>2. Held + Dist(rcur, i) = Held' + Dist(rcur', i) /\ Dist(rcur, i) < Coming
    BY <1>3, <1>4, <1>7, <1>8, <1>10, <2>1
  <2> QED
    BY <1>1, <2>2 DEF ChannelInv, NumbersKept
<1>11. Held' + Coming' = Held + Coming
  BY <1>3, <1>4, <1>7, <1>8
<1>12. NumbersKept'
  BY <1>1, <1>7, <1>9, <1>10, <1>11 DEF ChannelInv, NumbersKept
<1>13. AppOrder'
  BY <1>1, <1>2, <1>3, NAssumption
  DEF ChannelInv, AppOrder, IndexOK, Slots, Dist, Advance, RingPrev
<1> QED
  BY <1>1, <1>11, <1>12, <1>13

(* A packet put at the backend's tail takes the number after the last. *)
LEMMA DeliverNumbers ==
  ASSUME TypeOK, RegionOrder, PlaceKept, ChannelInv,
         NEW s \in Senders, Deliver(s)
  PROVE  /\ NumbersKept' /\ Held' = Held /\ Coming' = Coming + 1
         /\ Coming < N - 1
         /\ sent' = After(sent, 1) /\ UNCHANGED rcvd
<1>1. /\ Dist(khwcur, khwtail) < N - 1
      /\ slot' = [slot EXCEPT ![khwtail] = sent]
      /\ khwtail' = RingNext(khwtail) /\ sent' = After(sent, 1)
      /\ UNCHANGED <<head, hwtail, grx, rcur, rcvd>>
  BY DEF Deliver, guestVars
<1>2. IndexOK /\ PacketOK /\ rcvd \in Nat
  BY RxAssumption DEF TypeOK, PacketOK, Tags
<1>3. Held \in 0 .. N - 1 /\ Coming \in 0 .. N - 1
  BY <1>2, CountType
<1>4. Coming < N - 1
  <2>1. Dist(khwcur, rcur) <= Dist(khwcur, khwtail)
    BY <1>2, PlaceOrder, DistType DEF IndexOK
  <2> QED
    BY <1>1, <1>2, <2>1, NAssumption DEF IndexOK, Coming, Slots, Dist
<1>5. Held' = Held /\ Coming' = Coming + 1
  <2>1. Dist(rcur, Advance(khwtail, 1)) = Coming + 1
    BY <1>2, <1>3, <1>4, AdvanceFrom, NAssumption DEF Coming, IndexOK
  <2> QED
    BY <1>1, <1>2, <2>1, NextAdvance DEF Held, Coming, IndexOK
<1>6. ASSUME NEW i \in Slots, Dist(rcur, i) < Coming + 1
      PROVE  slot'[i] = After(rcvd, Held + Dist(rcur, i))
  <2>1. CASE i = khwtail
    BY <1>1, <1>2, <2>1 DEF ChannelInv, NumbersKept, Coming, PacketOK
  <2>2. CASE i # khwtail
    <3>1. Dist(rcur, i) # Coming /\ Dist(rcur, i) \in Nat
      BY <1>2, <2>2, DistSame, DistType DEF Coming, IndexOK
    <3>2. Dist(rcur, i) < Coming
      BY <1>3, <1>6, <3>1
    <3> QED
      BY <1>1, <1>2, <2>2, <3>2 DEF ChannelInv, NumbersKept, PacketOK
  <2> QED
    BY <2>1, <2>2
<1>7. sent' = After(rcvd, Held + (Coming + 1))
  <2>1. sent = After(rcvd, Held + Coming)
    BY DEF ChannelInv, NumbersKept
  <2> QED
    BY <1>1, <1>2, <1>3, <2>1, AfterAfter
<1>8. NumbersKept'
  BY <1>1, <1>5, <1>6, <1>7 DEF ChannelInv, NumbersKept
<1> QED
  BY <1>1, <1>4, <1>5, <1>8

(* What one step does to the packets under way: nothing, k of them leave   *)
(* from the front, or one joins at the end.                                *)
StepIdle == Held' + Coming' = Held + Coming /\ UNCHANGED <<sent, rcvd>>
StepOut(k) ==
  /\ k \in 1 .. N - 1 /\ k <= Held
  /\ Held' + Coming' = Held + Coming - k
  /\ rcvd' = After(rcvd, k) /\ UNCHANGED sent
StepIn ==
  /\ Coming < N - 1
  /\ Held' + Coming' = Held + Coming + 1
  /\ sent' = After(sent, 1) /\ UNCHANGED rcvd

(* Every step is one of the three and keeps the numbering. *)
LEMMA NextNumbers ==
  ASSUME MaxRegs <= 1, TypeOK, RegionOrder, PlaceKept, ChannelInv, [Next]_vars
  PROVE  /\ NumbersKept'
         /\ StepIdle \/ (\E k \in 1 .. N - 1 : StepOut(k)) \/ StepIn
<1>1. Held \in 0 .. N - 1 /\ Coming \in 0 .. N - 1 /\ rcvd \in Tags
  BY CountType DEF TypeOK, PacketOK
<1>2. ASSUME UNCHANGED <<head, hwtail, grx, rcur, khwtail, slot, sent, rcvd>>
      PROVE  NumbersKept' /\ StepIdle
  <2>1. Held' = Held /\ Coming' = Coming
    BY <1>2 DEF Held, Coming
  <2> QED
    BY <1>2, <2>1 DEF ChannelInv, NumbersKept, StepIdle
<1>3. CASE NetmapOn
  <2>1. regs = 0
    BY <1>3, RxAssumption DEF NetmapOn, TypeOK, ControlOK
  <2>2. UNCHANGED <<head, hwtail, grx, rcur, khwtail, slot, sent, rcvd>>
    BY <1>3, <2>1 DEF NetmapOn, portVars, ChannelInv, FirstRings
  <2> QED
    BY <1>2, <2>2
<1>4. ASSUME NEW k \in 0 .. N - 1, RxsyncCall(k)
      PROVE  NumbersKept' /\ (StepIdle \/ \E i \in 1 .. N - 1 : StepOut(i))
  <2>1. /\ NumbersKept' /\ k <= Held
        /\ Held' = Held - k /\ Coming' = Coming
        /\ rcvd' = After(rcvd, k) /\ UNCHANGED sent
    BY <1>4, CallNumbers
  <2>2. CASE k = 0
    BY <1>1, <2>1, <2>2, AfterZero, NAssumption DEF StepIdle
  <2>3. CASE k # 0
    <3>1. k \in 1 .. N - 1
      BY <2>3, NAssumption
    <3>2. StepOut(k)
      BY <1>1, <2>1, <3>1, NAssumption DEF StepOut
    <3> QED
      BY <2>1, <3>1, <3>2
  <2> QED
    BY <2>2, <2>3
<1>5. CASE RxImport
  BY <1>5, ImportNumbers DEF StepIdle
<1>6. ASSUME NEW s \in Senders, Deliver(s) PROVE NumbersKept' /\ StepIn
  BY <1>1, <1>6, DeliverNumbers, NAssumption DEF StepIn
<1>7. CASE NetmapOff \/ RxAck \/ RxRelease \/ RxInterrupt
  BY <1>2, <1>7 DEF NetmapOff, RxAck, RxRelease, RxInterrupt, guestVars, portVars
<1>8. ASSUME NEW s \in Senders, DeliverRetry(s) \/ Notify(s)
      PROVE  NumbersKept' /\ StepIdle
  BY <1>2, <1>8
  DEF DeliverRetry, Notify, NotifyBusy, NotifySync, NotifyKick, guestVars, portVars
<1>9. CASE IrqSched \/ TxIrqSched \/ Kthread
  BY <1>2, <1>9
  DEF IrqSched, TxIrqSched, Kthread, KthreadCheck, KthreadRx, guestVars, portVars
<1>10. CASE UNCHANGED vars
  BY <1>2, <1>10 DEF vars
<1> QED
  BY <1>3, <1>4, <1>5, <1>6, <1>7, <1>8, <1>9, <1>10 DEF Next, Rxsync, Forward

(* The application's ring stays in order, session after session. *)
LEMMA NextApp ==
  ASSUME TypeOK, AppOrder, FirstRings, [Next]_vars, RxImport => AppOrder'
  PROVE  AppOrder' /\ FirstRings'
<1> USE DEF TypeOK, ControlOK, CarrierOk
<1>1. CASE NetmapOn
  <2>1. hwcur' = 0 /\ hwtail' = 0 /\ head' = 0 /\ regs' = regs + 1
    BY <1>1 DEF NetmapOn
  <2>2. AppOrder'
    BY <2>1, NAssumption DEF AppOrder, Dist
  <2> QED
    BY <2>1, <2>2 DEF FirstRings
<1>2. ASSUME NEW k \in 0 .. N - 1, RxsyncCall(k) PROVE AppOrder' /\ FirstRings'
  <2>1. /\ CarrierOk /\ k <= Dist(head, hwtail) /\ head' = Advance(head, k)
        /\ UNCHANGED <<carrier, regs, hwcur, hwtail>>
    BY <1>2 DEF RxsyncCall
  <2>2. Dist(hwcur, Advance(head, k)) <= Dist(hwcur, hwtail)
    BY <2>1, NAssumption DEF AppOrder, IndexOK, Slots, Dist, Advance
  <2>3. AppOrder'
    BY <2>1, <2>2 DEF AppOrder
  <2> QED
    BY <2>1, <2>3 DEF FirstRings
<1>3. CASE RxImport
  <2>1. regs # 0 /\ regs' = regs
    BY <1>3 DEF RxImport, FirstRings
  <2> QED
    BY <1>3, <2>1 DEF FirstRings
<1>4. CASE RxRelease
  <2>1. hwcur' = head /\ gpc' = "idle" /\ UNCHANGED <<carrier, regs, hwtail, head>>
    BY <1>4 DEF RxRelease
  <2>2. Dist(head, head) <= Dist(head, hwtail)
    BY NAssumption DEF IndexOK, Slots, Dist
  <2>3. AppOrder'
    BY <2>1, <2>2, NAssumption DEF AppOrder, IndexOK, Slots, Dist
  <2> QED
    BY <2>1, <2>3 DEF FirstRings
<1>5. CASE NetmapOff \/ RxAck \/ RxInterrupt
  BY <1>5 DEF NetmapOff, RxAck, RxInterrupt, guestVars, AppOrder, FirstRings
<1>6. ASSUME NEW s \in Senders, Forward(s) \/ Notify(s)
      PROVE  AppOrder' /\ FirstRings'
  BY <1>6 DEF Forward, Deliver, DeliverRetry, Notify, NotifyBusy, NotifySync,
              NotifyKick, guestVars, AppOrder, FirstRings
<1>7. CASE IrqSched \/ TxIrqSched \/ Kthread
  BY <1>7 DEF IrqSched, TxIrqSched, Kthread, KthreadCheck, KthreadRx, guestVars,
              AppOrder, FirstRings
<1>8. CASE UNCHANGED vars
  BY <1>8 DEF vars, AppOrder, FirstRings
<1> QED
  BY <1>1, <1>2, <1>3, <1>4, <1>5, <1>6, <1>7, <1>8 DEF Next, Rxsync
-----------------------------------------------------------------------------
(* Seen through the refinement mapping the rings are one run of packets. *)
LEMMA ChannelRun ==
  TypeOK /\ NumbersKept => Waiting \o InRing = Run(rcvd, Held + Coming)
<1> SUFFICES ASSUME TypeOK, NumbersKept
             PROVE  Waiting \o InRing = Run(rcvd, Held + Coming)
  OBVIOUS
<1>1. IndexOK /\ rcvd \in Nat
  BY RxAssumption DEF TypeOK, PacketOK, Tags
<1>2. Held \in 0 .. N - 1 /\ Coming \in 0 .. N - 1
  BY <1>1, CountType
<1>3. \A i \in 1 .. Held : grx[Advance(head, i - 1)] = After(rcvd, i - 1)
  <2> TAKE i \in 1 .. Held
  <2>1. i - 1 \in 0 .. N - 1 /\ i - 1 < Held
    BY <1>2, NAssumption
  <2>2. /\ Advance(head, i - 1) \in Slots
        /\ Dist(head, Advance(head, i - 1)) = i - 1
    BY <1>1, <2>1, AdvanceType, DistAdvance DEF IndexOK
  <2> QED
    BY <2>1, <2>2 DEF NumbersKept
<1>4. \A i \in 1 .. Coming :
        slot[Advance(rcur, i - 1)] = After(rcvd, Held + (i - 1))
  <2> TAKE i \in 1 .. Coming
  <2>1. i - 1 \in 0 .. N - 1 /\ i - 1 < Coming
    BY <1>2, NAssumption
  <2>2. /\ Advance(rcur, i - 1) \in Slots
        /\ Dist(rcur, Advance(rcur, i - 1)) = i - 1
    BY <1>1, <2>1, AdvanceType, DistAdvance DEF IndexOK
  <2> QED
    BY <2>1, <2>2 DEF NumbersKept
<1>5. Waiting = Run(rcvd, Held)
  BY <1>3 DEF Waiting, Run, Held
<1>6. InRing = Run(After(rcvd, Held), Coming)
  <2>1. \A i \in 1 .. Coming :
          After(rcvd, Held + (i - 1)) = After(After(rcvd, Held), i - 1)
    BY <1>1, <1>2, AfterAfter, NAssumption
  <2> QED
    BY <1>4, <2>1 DEF InRing, Run, Coming
<1>7. Held \in Nat /\ Coming \in Nat
  BY <1>2, NAssumption
<1>8. Run(rcvd, Held) \o Run(After(rcvd, Held), Coming)
        = Run(rcvd, Held + Coming)
  BY <1>1, <1>7, RunConcat
<1> QED
  BY <1>5, <1>6, <1>8

(* Initially nothing is under way. *)
LEMMA InitChannel == Init => ChannelInv /\ Channel!Init
<1> SUFFICES ASSUME Init PROVE ChannelInv /\ Channel!Init
  OBVIOUS
<1>1. Held = 0 /\ Coming = 0
  BY NAssumption DEF Init, Held, Coming, Dist
<1>2. 0 \in Tags
  BY RxAssumption DEF Tags
<1>3. \A i \in Slots : Dist(0, i) \in Nat
  BY NAssumption, DistType DEF Slots
<1>4. NumbersKept
  BY <1>1, <1>2, <1>3, AfterZero DEF Init, NumbersKept
<1>5. AppOrder /\ FirstRings
  BY NAssumption DEF Init, AppOrder, FirstRings, Dist, CarrierOk
<1>6. TypeOK
  BY InitType
<1>7. Waiting \o InRing = Run(0, 0)
  BY <1>1, <1>4, <1>6, ChannelRun DEF Init
<1>8. Run(0, 0) = <<>>
  BY DEF Run
<1> QED
  BY <1>4, <1>5, <1>7, <1>8 DEF ChannelInv, Channel!Init, Init

(* A step of the receive path is a step of the channel or none. *)
LEMMA StepChannel ==
  ASSUME TypeOK, TypeOK', NumbersKept, NumbersKept',
         StepIdle \/ (\E k \in 1 .. N - 1 : StepOut(k)) \/ StepIn
  PROVE  [Channel!Next]_(Channel!chanVars)
<1> DEFINE c == Waiting \o InRing
           n == Held + Coming
<1>1. c = Run(rcvd, n)
  BY ChannelRun
<1>2. c' = Run(rcvd', n')
  <2>1. (TypeOK /\ NumbersKept => Waiting \o InRing = Run(rcvd, Held + Coming))'
    BY ChannelRun, PTL
  <2> QED
    BY <2>1
<1>3. /\ Held \in 0 .. N - 1 /\ Coming \in 0 .. N - 1 /\ n \in Nat
      /\ rcvd \in Nat /\ sent = After(rcvd, n)
  BY CountType, NAssumption, RxAssumption
  DEF TypeOK, PacketOK, Tags, NumbersKept
<1> HIDE DEF c, n
<1>4. Len(c) = n
  BY <1>1, <1>3, RunType
<1>5. CASE StepIdle
  <2>1. c' = c
    BY <1>1, <1>2, <1>5 DEF StepIdle, n
  <2> QED
    BY <1>5, <2>1 DEF StepIdle, Channel!chanVars, c
<1>6. ASSUME NEW k \in 1 .. N - 1, StepOut(k) PROVE Channel!Next
  <2>1. k \in 1 .. n /\ n' = n - k /\ rcvd' = After(rcvd, k) /\ sent' = sent
    BY <1>3, <1>6, NAssumption DEF StepOut, n
  <2>2. \A i \in 1 .. k : c[i] = After(rcvd, i - 1)
    BY <1>1, <1>3, <2>1 DEF Run
  <2>3. c' = SubSeq(c, k + 1, Len(c))
    <3>1. k \in 0 .. n
      BY <2>1
    <3>2. SubSeq(Run(rcvd, n), k + 1, n) = Run(After(rcvd, k), n - k)
      BY <1>3, <3>1, RunDrop
    <3> QED
      BY <1>1, <1>2, <1>4, <2>1, <3>2
  <2>4. Channel!Receive(k)
    BY <1>4, <2>1, <2>2, <2>3 DEF Channel!Receive, Channel!After, After, c
  <2>5. k \in 1 .. 2 * (N - 1)
    BY NAssumption
  <2> QED
    BY <2>4, <2>5 DEF Channel!Next
<1>7. CASE StepIn
  <2>1. n < 2 * (N - 1) /\ n' = n + 1 /\ rcvd' = rcvd /\ sent' = After(sent, 1)
    BY <1>3, <1>7, NAssumption DEF StepIn, n
  <2>2. c' = Append(c, sent)
    BY <1>1, <1>2, <1>3, <2>1, RunAppend
  <2>3. Channel!Send
    BY <1>4, <2>1, <2>2 DEF Channel!Send, Channel!After, After, c
  <2> QED
    BY <2>3 DEF Channel!Next
<1> QED
  BY <1>5, <1>6, <1>7

(* In the first session packets reach the application in the order in      *)
(* which they entered the vif, none lost, repeated or overwritten, and no  *)
(* more than 2 * (N - 1) are under way: the receive path implements        *)
(* PacketChannel.                                                          *)
THEOREM ChannelRefined == MaxRegs <= 1 => (Spec => ChannelSpec)
<1> SUFFICES ASSUME MaxRegs <= 1 PROVE Spec => ChannelSpec
  OBVIOUS
<1>1. Init => ChannelInv /\ Channel!Init /\ RegionOrder /\ PlaceKept
  BY InitChannel, InitRegion
<1>2. ASSUME TypeOK, TypeOK', RegionOrder, PlaceKept, ChannelInv, [Next]_vars
      PROVE  ChannelInv' /\ [Channel!Next]_(Channel!chanVars)
  <2>1. /\ NumbersKept'
        /\ StepIdle \/ (\E k \in 1 .. N - 1 : StepOut(k)) \/ StepIn
    BY <1>2, NextNumbers
  <2>2. RxImport => AppOrder'
    BY <1>2, ImportNumbers
  <2>3. AppOrder' /\ FirstRings'
    BY <1>2, <2>2, NextApp DEF ChannelInv
  <2> QED
    BY <1>2, <2>1, <2>3, StepChannel DEF ChannelInv
<1>3. TypeOK => IndexOK /\ ControlOK
  BY DEF TypeOK
<1> QED
  BY <1>1, <1>2, <1>3, TypeCorrect, NextRegion, PTL
  DEF Spec, ChannelSpec, Channel!Spec
=============================================================================
