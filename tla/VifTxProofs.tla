----------------------------- MODULE VifTxProofs ----------------------------
(***************************************************************************)
(* Theorems about the transmit path, for every ring size, every number of  *)
(* packets and sessions, and every setting of VifTx.                       *)
(***************************************************************************)
EXTENDS VifTx, NetmapRingTheorems, SequenceTheorems

(* The packets given to VALE in one round form a sequence of records. *)
LEMMA ForwardedType ==
  ASSUME IndexOK, PacketOK
  PROVE  Forwarded \in Seq([len : Nat, buf : Nat])
<1> DEFINE d == Dist(khwcur, krcur)
           R == [len : Nat, buf : Nat]
           e(i) == [len |-> len[Advance(khwcur, i - 1)],
                    buf |-> buf[Advance(khwcur, i - 1)]]
<1>1. khwcur \in Slots /\ krcur \in Slots
  BY DEF IndexOK
<1>2. d \in 0 .. N - 1
  BY <1>1, DistType
<1>3. ASSUME NEW i \in 1 .. d PROVE e(i) \in R
  <2>1. i - 1 \in 0 .. N - 1
    BY <1>2, NAssumption
  <2>2. Advance(khwcur, i - 1) \in Slots
    BY <1>1, <2>1, AdvanceType
  <2> QED
    BY <2>2 DEF PacketOK
<1>4. Forwarded \in [1 .. d -> R]
  BY <1>3 DEF Forwarded
<1>5. d \in Nat
  BY <1>2, NAssumption
<1> HIDE DEF d, R
<1> QED
  BY <1>4, <1>5, SeqDef DEF R

(* The initial state is well typed. *)
LEMMA InitType == Init => TypeOK
<1> SUFFICES ASSUME Init PROVE TypeOK
  OBVIOUS
<1>1. 0 \in Slots /\ N - 1 \in Slots
  BY NAssumption DEF Slots
<1>2. IndexOK
  BY <1>1 DEF Init, IndexOK
<1>3. ControlOK
  BY TxAssumption DEF Init, ControlOK
<1>4. PacketOK
  BY DEF Init, PacketOK, NoPkt
<1> QED
  BY <1>2, <1>3, <1>4 DEF TypeOK

(* No step moves an index out of its ring. *)
LEMMA NextIndex == IndexOK /\ [Next]_vars => IndexOK'
<1> SUFFICES ASSUME IndexOK, [Next]_vars PROVE IndexOK'
  OBVIOUS
<1> USE DEF IndexOK, guestVars, csbVars, ringVars, backVars
<1>1. CASE NetmapOn
  <2>1. 0 \in Slots /\ N - 1 \in Slots
    BY NAssumption DEF Slots
  <2> QED
    BY <1>1, <2>1 DEF NetmapOn
<1>2. CASE TxsyncCall
  <2>1. PICK k \in 0 .. Dist(head, hwtail) : head' = Advance(head, k)
    BY <1>2 DEF TxsyncCall
  <2>2. Dist(head, hwtail) \in 0 .. N - 1
    BY DistType
  <2>3. k \in 0 .. N - 1
    BY <2>1, <2>2, NAssumption
  <2>4. head' \in Slots
    BY <2>1, <2>3, AdvanceType
  <2> QED
    BY <1>2, <2>4 DEF TxsyncCall
<1>3. CASE XmitCopy
  BY <1>3, RingNextType DEF XmitCopy
<1>4. CASE XmitNoKick \/ XmitNotify
  BY <1>4, RingNextType DEF XmitNoKick, XmitNotify
<1>5. CASE TxsyncReclaim
  BY <1>5, RingPrevType DEF TxsyncReclaim
<1>6. CASE VpTxsync
  BY <1>6, RingPrevType DEF VpTxsync
<1>7. CASE XmitPublish
  BY <1>7 DEF XmitPublish
<1>8. CASE TxPrologue
  BY <1>8 DEF TxPrologue
<1>9. CASE RxWork
  BY <1>9 DEF RxWork
<1>10. CASE NetmapOff \/ XmitDone \/ GuestIrq
  BY <1>10 DEF NetmapOff, XmitDone, GuestIrq, TxInterrupt, TxInterruptClear
<1>11. CASE IrqSched \/ KthreadWake \/ TxAck \/ NoRxWork
  BY <1>11 DEF IrqSched, KthreadWake, TxAck, NoRxWork
<1>12. CASE UNCHANGED vars
  BY <1>12 DEF vars
<1> QED
  BY <1>1, <1>2, <1>3, <1>4, <1>5, <1>6, <1>7, <1>8, <1>9, <1>10, <1>11,
     <1>12 DEF Next, Txsync, Kthread

(* Flags stay 0 or 1, and every process is at one of its steps. *)
LEMMA NextControl == ControlOK /\ [Next]_vars => ControlOK'
<1> SUFFICES ASSUME ControlOK, [Next]_vars PROVE ControlOK'
  OBVIOUS
<1> USE DEF ControlOK, guestVars, csbVars, ringVars, backVars
<1>1. CASE NetmapOn \/ NetmapOff \/ TxsyncCall
  BY <1>1 DEF NetmapOn, NetmapOff, TxsyncCall
<1>2. CASE Txsync
  BY <1>2 DEF Txsync, XmitCopy, XmitDone, XmitNoKick, XmitPublish, XmitNotify,
              TxsyncReclaim
<1>3. CASE GuestIrq \/ IrqSched
  BY <1>3 DEF GuestIrq, TxInterrupt, TxInterruptClear, IrqSched
<1>4. CASE Kthread
  BY <1>4 DEF Kthread, KthreadWake, TxPrologue, VpTxsync, TxAck, RxWork, NoRxWork
<1>5. CASE UNCHANGED vars
  BY <1>5 DEF vars
<1> QED
  BY <1>1, <1>2, <1>3, <1>4, <1>5 DEF Next

(* Slots, buffers and VALE's log only ever hold packet numbers. *)
LEMMA NextPacket == IndexOK /\ PacketOK /\ [Next]_vars => PacketOK'
<1> SUFFICES ASSUME IndexOK, PacketOK, [Next]_vars PROVE PacketOK'
  OBVIOUS
<1> USE DEF guestVars, csbVars, ringVars, backVars
<1>1. CASE XmitCopy
  <2>1. npkt' = npkt + 1 /\ out' = out
        /\ buf' = [buf EXCEPT ![cur] = npkt + 1]
        /\ len' = [len EXCEPT ![txcur] = npkt + 1]
    BY <1>1 DEF XmitCopy
  <2>2. buf \in [Slots -> Nat] /\ len \in [Slots -> Nat] /\ npkt + 1 \in Nat
    BY DEF PacketOK
  <2>3. buf' \in [Slots -> Nat] /\ len' \in [Slots -> Nat]
    BY <2>1, <2>2
  <2> QED
    BY <2>1, <2>2, <2>3 DEF PacketOK
<1>2. CASE VpTxsync
  <2>1. out' \in Seq([len : Nat, buf : Nat])
    <3>1. out' = out \o Forwarded /\ out \in Seq([len : Nat, buf : Nat])
      BY <1>2 DEF VpTxsync, PacketOK
    <3> QED
      BY <3>1, ForwardedType, ConcatProperties
  <2> QED
    BY <1>2, <2>1 DEF VpTxsync, PacketOK
<1>3. CASE NetmapOn \/ NetmapOff \/ TxsyncCall
  BY <1>3 DEF NetmapOn, NetmapOff, TxsyncCall, PacketOK
<1>4. CASE XmitDone \/ XmitNoKick \/ XmitPublish \/ XmitNotify \/ TxsyncReclaim
  BY <1>4 DEF XmitDone, XmitNoKick, XmitPublish, XmitNotify, TxsyncReclaim,
              PacketOK
<1>5. CASE GuestIrq \/ IrqSched
  BY <1>5 DEF GuestIrq, TxInterrupt, TxInterruptClear, IrqSched, PacketOK
<1>6. CASE KthreadWake \/ TxPrologue \/ TxAck \/ RxWork \/ NoRxWork
  BY <1>6 DEF KthreadWake, TxPrologue, TxAck, RxWork, NoRxWork, PacketOK
<1>7. CASE UNCHANGED vars
  BY <1>7 DEF vars, PacketOK
<1> QED
  BY <1>1, <1>2, <1>3, <1>4, <1>5, <1>6, <1>7 DEF Next, Txsync, Kthread

(* Indices, flags and program counters of both sides stay in their ranges. *)
THEOREM TypeCorrect == Spec => []TypeOK
<1>1. TypeOK /\ [Next]_vars => TypeOK'
  BY NextIndex, NextControl, NextPacket DEF TypeOK
<1> QED
  BY <1>1, InitType, PTL DEF Spec

(* In particular the control state is well typed. *)
COROLLARY ControlCorrect == Spec => []ControlOK
<1>1. TypeOK => ControlOK
  BY DEF TypeOK
<1> QED
  BY <1>1, TypeCorrect, PTL
-----------------------------------------------------------------------------
(* FlagExclusion is inductive as it stands: the opposite store orders of   *)
(* xmit and of the interrupt handler never leave both flags set.           *)
LEMMA NextFlags == ControlOK /\ FlagExclusion /\ [Next]_vars => FlagExclusion'
<1> SUFFICES ASSUME ControlOK, FlagExclusion, [Next]_vars PROVE FlagExclusion'
  OBVIOUS
<1> USE DEF ControlOK, FlagExclusion, guestVars, csbVars, Running, CarrierOk
<1>1. CASE XmitPublish
  BY <1>1 DEF XmitPublish
<1>2. CASE XmitNotify
  BY <1>2 DEF XmitNotify
<1>3. CASE TxInterrupt
  BY <1>3 DEF TxInterrupt
<1>4. CASE TxInterruptClear
  BY <1>4 DEF TxInterruptClear
<1>5. CASE NetmapOn \/ NetmapOff \/ TxsyncCall
  BY <1>5 DEF NetmapOn, NetmapOff, TxsyncCall
<1>6. CASE XmitCopy \/ XmitDone \/ XmitNoKick \/ TxsyncReclaim
  BY <1>6 DEF XmitCopy, XmitDone, XmitNoKick, TxsyncReclaim
<1>7. CASE IrqSched \/ Kthread
  BY <1>7 DEF IrqSched, Kthread, KthreadWake, TxPrologue, VpTxsync, TxAck,
              RxWork, NoRxWork
<1>8. CASE UNCHANGED vars
  BY <1>8 DEF vars
<1> QED
  BY <1>1, <1>2, <1>3, <1>4, <1>5, <1>6, <1>7, <1>8 DEF Next, Txsync, GuestIrq

(* Reclaim is never blocked for good by a guest_need_txkick nobody will    *)
(* reset, on any number of processors and across sessions.                 *)
THEOREM FlagsExclude == Spec => []FlagExclusion
<1>1. Init => FlagExclusion
  BY DEF Init, FlagExclusion
<1> QED
  BY <1>1, NextFlags, ControlCorrect, PTL DEF Spec
-----------------------------------------------------------------------------
(* Before the first session nothing has used up the initial permission. *)
FirstCredit == regs = 0 => ~CarrierOk /\ gpc = "idle" /\ host_need_txkick = 1

(* FirstCredit and KickAnswered hold together in every step. *)
LEMMA NextCredit ==
  ControlOK /\ FirstCredit /\ KickAnswered /\ [Next]_vars
    => FirstCredit' /\ KickAnswered'
<1> SUFFICES ASSUME ControlOK, FirstCredit, KickAnswered, [Next]_vars
             PROVE  FirstCredit' /\ KickAnswered'
  OBVIOUS
<1> USE DEF ControlOK, FirstCredit, KickAnswered, guestVars, csbVars, Running, CarrierOk
<1>1. CASE NetmapOn
  BY <1>1 DEF NetmapOn, backVars
<1>2. CASE NetmapOff
  BY <1>2 DEF NetmapOff
<1>3. CASE TxsyncCall
  BY <1>3 DEF TxsyncCall, backVars
<1>4. CASE XmitCopy \/ XmitDone \/ XmitNoKick \/ XmitPublish \/ TxsyncReclaim
  BY <1>4 DEF XmitCopy, XmitDone, XmitNoKick, XmitPublish, TxsyncReclaim, backVars
<1>5. CASE XmitNotify
  BY <1>5 DEF XmitNotify, backVars
<1>6. CASE TxInterrupt
  BY <1>6 DEF TxInterrupt, backVars
<1>7. CASE TxInterruptClear
  BY <1>7 DEF TxInterruptClear, backVars
<1>8. CASE IrqSched
  BY <1>8 DEF IrqSched
<1>9. CASE KthreadWake \/ TxPrologue \/ VpTxsync \/ RxWork \/ NoRxWork
  BY <1>9 DEF KthreadWake, TxPrologue, VpTxsync, RxWork, NoRxWork
<1>10. CASE TxAck
  BY <1>10 DEF TxAck
<1>11. CASE UNCHANGED vars
  BY <1>11 DEF vars
<1> QED
  BY <1>1, <1>2, <1>3, <1>4, <1>5, <1>6, <1>7, <1>8, <1>9, <1>10, <1>11
  DEF Next, Txsync, GuestIrq, Kthread

(* In the first session the permission to kick is never lost, whatever the *)
(* attach notification, the processors and the other direction do.         *)
THEOREM CreditKept == Spec => []KickAnswered
<1>1. Init => FirstCredit /\ KickAnswered
  BY DEF Init, FirstCredit, KickAnswered, CarrierOk
<1> QED
  BY <1>1, NextCredit, ControlCorrect, PTL DEF Spec
-----------------------------------------------------------------------------
(* Where the one permission is, beyond what SingleCredit says: unused      *)
(* before the first session; in the guest's hand while xmit is about to    *)
(* notify; in vwna's flag while the kernel thread works on the kick.       *)
CreditPlace ==
  AttachEvent = 0 =>
    /\ regs = 0 => /\ ~CarrierOk /\ gpc = "idle" /\ kpc \notin {"sync", "ack"}
                   /\ host_need_txkick = 1
                   /\ evBack = 0 /\ vwna_txkick = 0 /\ evFront = 0
    /\ gpc # "idle" => CarrierOk
    /\ gpc = "notify" => host_need_txkick = 1
    /\ kpc \in {"sync", "ack"} => vwna_txkick = 1

(* CreditPlace and SingleCredit hold together in every step. *)
LEMMA NextPlace ==
  ControlOK /\ CreditPlace /\ SingleCredit /\ [Next]_vars
    => CreditPlace' /\ SingleCredit'
<1> SUFFICES ASSUME ControlOK, CreditPlace, SingleCredit, [Next]_vars,
                    AttachEvent = 0
             PROVE  CreditPlace' /\ SingleCredit'
  BY DEF CreditPlace, SingleCredit
<1> USE DEF ControlOK, CreditPlace, SingleCredit, guestVars, csbVars, Running, CarrierOk
<1>1. CASE NetmapOn
  BY <1>1 DEF NetmapOn, backVars
<1>2. CASE NetmapOff
  BY <1>2 DEF NetmapOff, backVars
<1>3. CASE TxsyncCall
  BY <1>3 DEF TxsyncCall, backVars
<1>4. CASE XmitCopy \/ XmitDone \/ XmitNoKick \/ TxsyncReclaim
  BY <1>4 DEF XmitCopy, XmitDone, XmitNoKick, TxsyncReclaim, backVars
<1>5. CASE XmitPublish
  BY <1>5 DEF XmitPublish, backVars
<1>6. CASE XmitNotify
  BY <1>6 DEF XmitNotify, backVars
<1>7. CASE TxInterrupt
  BY <1>7 DEF TxInterrupt, backVars
<1>8. CASE TxInterruptClear
  BY <1>8 DEF TxInterruptClear, backVars
<1>9. CASE IrqSched
  BY <1>9 DEF IrqSched
<1>10. CASE KthreadWake \/ VpTxsync \/ RxWork \/ NoRxWork
  BY <1>10 DEF KthreadWake, VpTxsync, RxWork, NoRxWork
<1>11. CASE TxPrologue
  BY <1>11 DEF TxPrologue
<1>12. CASE TxAck
  BY <1>12 DEF TxAck
<1>13. CASE UNCHANGED vars
  BY <1>13 DEF vars
<1> QED
  BY <1>1, <1>2, <1>3, <1>4, <1>5, <1>6, <1>7, <1>8, <1>9, <1>10, <1>11,
     <1>12, <1>13
  DEF Next, Txsync, GuestIrq, Kthread

(* Once the attach notification is out of the way, exactly one kick or     *)
(* answer is under way in the first session: none is merged with another.  *)
THEOREM CreditSingle == Spec => []SingleCredit
<1>1. Init => CreditPlace /\ SingleCredit
  BY DEF Init, CreditPlace, SingleCredit, CarrierOk
<1> QED
  BY <1>1, NextPlace, ControlCorrect, PTL DEF Spec
-----------------------------------------------------------------------------
(* The conditions under which kicks and answers alternate: one processor   *)
(* and one session in the guest, the attach notification out of the way,   *)
(* no receive traffic that sends the kernel thread to the transmit ring.   *)
Alternating ==
  MaxRegs <= 1 /\ AttachEvent = 0 /\ ~RxTraffic /\ GuestCPUs = 1

(* The guest has kicked, or is about to, and was not answered. *)
Kicked == host_need_txkick = 0 \/ gpc = "notify"

(* Where kick and answer are, and how far the backend is then.  When no    *)
(* kick is under way, and from nm_txsync until the guest has taken the     *)
(* answer, everything published was forwarded; guest_need_txkick is set    *)
(* from before the kick until after its answer.                            *)
KickOrder ==
  /\ regs <= MaxRegs
  /\ guest_need_txkick = 0 => khwcur = cur
  /\ ~Kicked => khwcur = cur
  /\ evFront = 1 => khwcur = cur
  /\ kpc = "ack" => khwcur = cur
  /\ kpc = "sync" => krcur = cur
  /\ kpc # "sync" => krcur = khwcur
  /\ krtail = RingPrev(khwcur)
  /\ evBack = 1 \/ vwna_txkick = 1 \/ evFront = 1 => guest_need_txkick = 1
  /\ Kicked => guest_need_txkick = 1
  /\ ipc = "clear" => /\ gpc # "notify" /\ host_need_txkick = 1
                      /\ evBack = 0 /\ vwna_txkick = 0 /\ evFront = 0

(* The prologue of nm_txsync never refuses the guest's position. *)
LEMMA PrologueTakes ==
  ASSUME IndexOK, KickOrder, kpc # "sync" PROVE InRegion(cur, krcur, krtail)
<1>1. krcur \in Slots /\ cur \in Slots /\ krtail = RingPrev(krcur)
  BY DEF IndexOK, KickOrder
<1> QED
  BY <1>1, NAssumption DEF InRegion, Slots, Dist, RingPrev

(* KickOrder holds in every step, given where the one permission is. *)
LEMMA NextOrder ==
  ASSUME Alternating, IndexOK, ControlOK, CreditPlace, SingleCredit, KickOrder,
         [Next]_vars
  PROVE  KickOrder'
<1>1. regs <= 1 /\ (gpc # "idle" => CarrierOk) /\ MaxRegs \in Nat
  BY TxAssumption DEF Alternating, CreditPlace, KickOrder, ControlOK
<1> USE DEF Alternating, ControlOK, CreditPlace, SingleCredit, KickOrder, Kicked,
            CarrierOk, Running
<1>2. CASE NetmapOn
  BY <1>1, <1>2 DEF NetmapOn, csbVars, ringVars, backVars
<1>3. CASE NetmapOff
  BY <1>3 DEF NetmapOff, csbVars, ringVars, backVars
<1>4. CASE TxsyncCall
  BY <1>4 DEF TxsyncCall, csbVars, ringVars, backVars
<1>5. CASE XmitCopy \/ XmitDone \/ XmitNoKick \/ TxsyncReclaim
  BY <1>5 DEF XmitCopy, XmitDone, XmitNoKick, TxsyncReclaim, csbVars, ringVars,
              backVars
<1>6. CASE XmitPublish
  BY <1>1, <1>6 DEF XmitPublish, backVars
<1>7. CASE XmitNotify
  BY <1>1, <1>7 DEF XmitNotify, ringVars, backVars
<1>8. CASE TxInterrupt
  BY <1>1, <1>8 DEF TxInterrupt, guestVars, ringVars, backVars
<1>9. CASE TxInterruptClear
  BY <1>9 DEF TxInterruptClear, guestVars, ringVars, backVars
<1>10. CASE IrqSched
  BY <1>10 DEF IrqSched, guestVars, csbVars, ringVars
<1>11. CASE KthreadWake \/ NoRxWork
  BY <1>11 DEF KthreadWake, NoRxWork, guestVars, csbVars, ringVars
<1>12. CASE TxPrologue
  <2>1. InRegion(cur, krcur, krtail)
    BY <1>12, PrologueTakes DEF TxPrologue
  <2> QED
    BY <1>12, <2>1 DEF TxPrologue, guestVars, csbVars
<1>13. CASE VpTxsync
  BY <1>13 DEF VpTxsync, guestVars, csbVars
<1>14. CASE TxAck
  BY <1>14 DEF TxAck, guestVars, csbVars, ringVars
<1>15. CASE RxWork
  BY <1>15 DEF RxWork
<1>16. CASE UNCHANGED vars
  BY <1>16 DEF vars
<1> QED
  BY <1>2, <1>3, <1>4, <1>5, <1>6, <1>7, <1>8, <1>9, <1>10, <1>11, <1>12,
     <1>13, <1>14, <1>15, <1>16
  DEF Next, Txsync, GuestIrq, Kthread

(* Nothing has been kicked or published at first. *)
LEMMA InitOrder == Alternating /\ Init => KickOrder
  BY TxAssumption, NAssumption DEF Alternating, Init, KickOrder, Kicked, RingPrev

(* While kicks and answers alternate, txsync gives slots back only when    *)
(* the backend has forwarded everything published: the action property     *)
(* the run tx_fifo checks, for every ring size and number of packets.      *)
THEOREM ReclaimsCompleted == Alternating => (Spec => ReclaimCompleted)
<1> SUFFICES ASSUME Alternating PROVE Spec => ReclaimCompleted
  OBVIOUS
<1>1. TypeOK => IndexOK /\ ControlOK
  BY DEF TypeOK
<1>2. Init => CreditPlace /\ SingleCredit
  BY DEF Init, CreditPlace, SingleCredit, CarrierOk
<1>3. IndexOK /\ ControlOK /\ CreditPlace /\ SingleCredit /\ KickOrder
      /\ [Next]_vars => KickOrder'
  BY NextOrder
<1>4. KickOrder /\ [Next]_vars
        => [hwtail' # hwtail /\ CarrierOk => khwcur = cur]_vars
  <2> SUFFICES ASSUME KickOrder, [Next]_vars, hwtail' # hwtail, CarrierOk
               PROVE  khwcur = cur
    OBVIOUS
  <2>1. TxsyncReclaim
    BY DEF Next, vars, Txsync, GuestIrq, Kthread, NetmapOn, NetmapOff, TxsyncCall,
           XmitCopy, XmitDone, XmitNoKick, XmitPublish, XmitNotify, TxInterrupt,
           TxInterruptClear, IrqSched, KthreadWake, TxPrologue, VpTxsync, TxAck,
           RxWork, NoRxWork, guestVars
  <2>2. guest_need_txkick = 0
    BY <2>1 DEF TxsyncReclaim, ReclaimTx
  <2> QED
    BY <2>2 DEF KickOrder
<1> QED
  BY <1>1, <1>2, <1>3, <1>4, TypeCorrect, InitOrder, NextPlace, PTL
  DEF Spec, ReclaimCompleted
-----------------------------------------------------------------------------
(* Packets xmit accepted that VALE was not given, and those of them that   *)
(* are not published either.                                               *)
Lead == npkt - Len(out)
Unpublished == Lead - Dist(khwcur, cur)

(* In the first session the application's ring runs beside txcur. *)
AppBeside ==
  /\ regs = 0 => hwcur = 0 /\ head = 0 /\ hwtail = N - 1 /\ txcur = 0
  /\ gpc \in {"kick", "notify"} => txcur = RingNext(hwcur)
  /\ gpc \notin {"kick", "notify"} => txcur = hwcur
  /\ Dist(txcur, head) <= Dist(txcur, hwtail)

(* How far the guest gets ahead.  While a kick is unanswered nothing is    *)
(* reclaimed, so what is unpublished and what the application may still    *)
(* send stay below N - 1 together; the next packet after that publishes.   *)
LeadBound ==
  /\ Unpublished \in 0 .. N - 1
  /\ txcur = Advance(cur, Unpublished)
  /\ Kicked => Unpublished + Dist(txcur, hwtail) <= N - 2
  /\ ~Kicked /\ gpc # "kick" => Unpublished <= N - 2
  /\ ~Kicked /\ gpc = "kick" => Dist(txcur, hwtail) <= N - 2

(* A slot holds the length of the packet due there, or of the next one     *)
(* that fell on the same slot.                                             *)
LapOver(d) == IF d + N < Lead THEN N ELSE 0
LengthsDue ==
  \A i \in Slots :
    Dist(khwcur, i) < Lead
      => len[i] = Len(out) + Dist(khwcur, i) + 1 + LapOver(Dist(khwcur, i))

(* Types of the counts. *)
LEMMA LeadType ==
  ASSUME IndexOK, PacketOK, LeadBound
  PROVE  /\ npkt \in Nat /\ Len(out) \in Nat /\ Lead \in Nat
         /\ Dist(khwcur, cur) \in 0 .. N - 1
         /\ Lead = Dist(khwcur, cur) + Unpublished
<1>1. npkt \in Nat /\ Len(out) \in Nat
  BY LenProperties DEF PacketOK
<1>2. Dist(khwcur, cur) \in 0 .. N - 1
  BY DistType DEF IndexOK
<1> QED
  BY <1>1, <1>2, NAssumption DEF LeadBound, Lead, Unpublished

(* The slot of txcur, counted from the backend's position: one lap at most *)
(* is taken off.                                                           *)
LEMMA TxcurPlace ==
  ASSUME IndexOK, PacketOK, LeadBound
  PROVE  Dist(khwcur, txcur) = IF Lead < N THEN Lead ELSE Lead - N
<1>1. /\ Lead = Dist(khwcur, cur) + Unpublished
      /\ Unpublished \in 0 .. N - 1 /\ txcur = Advance(cur, Unpublished)
  BY LeadType DEF LeadBound
<1>2. khwcur \in Slots /\ cur \in Slots
  BY DEF IndexOK
<1> HIDE DEF Lead, Unpublished
<1> QED
  BY <1>1, <1>2, NAssumption DEF Slots, Dist, Advance

(* xmit stores a length: the slot becomes due for the new packet. *)
LEMMA CopyLengths ==
  ASSUME IndexOK, PacketOK, LeadBound, LengthsDue, XmitCopy
  PROVE  LengthsDue' /\ Lead' = Lead + 1
<1>1. /\ npkt' = npkt + 1 /\ len' = [len EXCEPT ![txcur] = npkt + 1]
      /\ UNCHANGED <<out, khwcur>>
  BY DEF XmitCopy, backVars
<1>2. npkt \in Nat /\ Len(out) \in Nat /\ Lead \in Nat
  BY LeadType
<1>3. Lead' = Lead + 1 /\ npkt = Len(out) + Lead
  BY <1>1, <1>2 DEF Lead
<1>4. ASSUME NEW i \in Slots, Dist(khwcur, i) < Lead + 1
      PROVE  len'[i] = Len(out) + Dist(khwcur, i) + 1
                         + (IF Dist(khwcur, i) + N < Lead + 1 THEN N ELSE 0)
  <2>1. Dist(khwcur, i) \in 0 .. N - 1
    BY DistType DEF IndexOK
  <2>2. Dist(khwcur, txcur) = IF Lead < N THEN Lead ELSE Lead - N
    BY TxcurPlace
  <2>3. CASE i = txcur
    <3>1. len'[i] = npkt + 1
      BY <1>1, <2>3 DEF PacketOK
    <3> QED
      BY <1>2, <1>3, <2>1, <2>2, <2>3, <3>1, NAssumption
  <2>4. CASE i # txcur
    <3>1. Dist(khwcur, i) # Dist(khwcur, txcur)
      BY <2>4, DistSame DEF IndexOK
    <3>2. /\ Dist(khwcur, i) < Lead
          /\ (Dist(khwcur, i) + N < Lead + 1) <=> (Dist(khwcur, i) + N < Lead)
      BY <1>2, <1>4, <2>1, <2>2, <3>1, NAssumption
    <3>3. len'[i] = len[i]
      BY <1>1, <2>4 DEF PacketOK
    <3> QED
      BY <3>2, <3>3 DEF LengthsDue, LapOver
  <2> QED
    BY <2>3, <2>4
<1> QED
  BY <1>1, <1>3, <1>4 DEF LengthsDue, LapOver

(* VALE takes what is published: every slot once, each with a length due.  *)
LEMMA ForwardLengths ==
  ASSUME IndexOK, PacketOK, KickOrder, LeadBound, LengthsDue, LengthLap, VpTxsync
  PROVE  /\ LengthLap' /\ LengthsDue'
         /\ Lead' = Unpublished /\ Dist(khwcur', cur') = 0
<1> DEFINE d == Dist(khwcur, cur)
           f == Len(out)
           R == [len : Nat, buf : Nat]
<1>1. /\ krcur = cur /\ khwcur' = cur /\ out' = out \o Forwarded
      /\ UNCHANGED <<npkt, cur, len>>
  BY DEF VpTxsync, KickOrder, guestVars
<1>2. /\ npkt \in Nat /\ f \in Nat /\ Lead \in Nat /\ d \in 0 .. N - 1
      /\ Lead = d + Unpublished /\ Unpublished \in 0 .. N - 1
  BY LeadType DEF LeadBound
<1>3. out \in Seq(R) /\ Forwarded \in Seq(R)
  BY ForwardedType DEF PacketOK
<1>4. Len(Forwarded) = d
  BY <1>1, <1>2, LenProperties, NAssumption DEF Forwarded
<1>5. /\ Len(out') = f + d
      /\ \A i \in 1 .. f + d :
           out'[i] = IF i <= f THEN out[i] ELSE Forwarded[i - f]
  BY <1>1, <1>3, <1>4, ConcatProperties
<1>6. Lead' = Unpublished
  BY <1>1, <1>2, <1>5 DEF Lead, Unpublished
<1>7. ASSUME NEW k \in 1 .. d
      PROVE  Forwarded[k].len \in {f + k, f + k + N}
  <2>1. k - 1 \in 0 .. N - 1
    BY <1>2, NAssumption
  <2>2. /\ Advance(khwcur, k - 1) \in Slots
        /\ Dist(khwcur, Advance(khwcur, k - 1)) = k - 1
    BY <2>1, AdvanceType, DistAdvance DEF IndexOK
  <2>3. len[Advance(khwcur, k - 1)] = f + (k - 1) + 1 + LapOver(k - 1)
    BY <1>2, <2>1, <2>2, NAssumption DEF LengthsDue
  <2>4. Forwarded[k].len = len[Advance(khwcur, k - 1)]
    BY <1>1 DEF Forwarded
  <2> QED
    BY <1>2, <2>3, <2>4, NAssumption DEF LapOver
<1>8. LengthLap'
  <2>1. DOMAIN out' = 1 .. f + d /\ DOMAIN out = 1 .. f
    <3>1. out' \in Seq(R)
      BY <1>1, <1>3, ConcatProperties
    <3> QED
      BY <1>3, <1>5, <3>1, LenProperties
  <2>2. ASSUME NEW i \in 1 .. f + d PROVE out'[i].len \in {i, i + N}
    <3>1. CASE i <= f
      BY <1>2, <1>5, <2>1, <3>1 DEF LengthLap
    <3>2. CASE ~(i <= f)
      <4>1. i - f \in 1 .. d /\ f + (i - f) = i
        BY <1>2, <3>2, NAssumption
      <4> QED
        BY <1>5, <1>7, <3>2, <4>1
    <3> QED
      BY <3>1, <3>2
  <2> QED
    BY <2>1, <2>2 DEF LengthLap
<1>9. LengthsDue'
  <2>1. ASSUME NEW i \in Slots, Dist(cur, i) < Unpublished
        PROVE  len[i] = f + d + Dist(cur, i) + 1
    <3> DEFINE e == Dist(cur, i)
               g == Dist(khwcur, i)
    <3>1. e \in 0 .. N - 1 /\ g \in 0 .. N - 1
      BY DistType DEF IndexOK
    <3>2. g = IF d + e < N THEN d + e ELSE d + e - N
      BY NAssumption DEF IndexOK, Slots, Dist
    <3> HIDE DEF d, e, g, f
    <3>3. g < Lead /\ LapOver(g) = (IF d + e < N THEN 0 ELSE N)
      BY <1>2, <2>1, <3>1, <3>2, NAssumption DEF LapOver, e
    <3>4. len[i] = f + g + 1 + LapOver(g)
      BY <3>3 DEF LengthsDue, f, g
    <3> QED
      BY <1>2, <3>1, <3>2, <3>3, <3>4, NAssumption DEF e
  <2>2. ASSUME NEW i \in Slots, Dist(khwcur', i) < Lead'
        PROVE  len'[i] = Len(out') + Dist(khwcur', i) + 1
                           + (IF Dist(khwcur', i) + N < Lead' THEN N ELSE 0)
    <3>1. Dist(cur, i) \in 0 .. N - 1 /\ Dist(cur, i) < Unpublished
      BY <1>1, <1>6, <2>2, DistType DEF IndexOK
    <3>2. ~(Dist(cur, i) + N < Unpublished)
      BY <1>2, <3>1, NAssumption
    <3>3. len[i] = f + d + Dist(cur, i) + 1
      BY <2>1, <3>1
    <3> HIDE DEF d, f
    <3> QED
      BY <1>1, <1>2, <1>5, <1>6, <3>1, <3>2, <3>3
  <2> QED
    BY <2>2 DEF LengthsDue, LapOver
<1>10. Dist(cur, cur) = 0
  BY NAssumption DEF IndexOK, Slots, Dist
<1> QED
  BY <1>1, <1>6, <1>8, <1>9, <1>10

(* The application's ring stays beside txcur. *)
LEMMA NextBeside ==
  ASSUME Alternating, IndexOK, ControlOK, CreditPlace, KickOrder, AppBeside,
         [Next]_vars
  PROVE  AppBeside'
<1>1. /\ regs = 0 => gpc = "idle" /\ ~CarrierOk
      /\ gpc # "idle" => CarrierOk
  BY DEF Alternating, CreditPlace
<1>2. regs <= 1 /\ regs \in Nat /\ MaxRegs \in Nat /\ MaxRegs <= 1
  BY TxAssumption DEF Alternating, KickOrder, ControlOK
<1> USE DEF AppBeside, ControlOK
<1>3. CASE NetmapOn
  <2>1. regs = 0 /\ regs' = 1
    BY <1>2, <1>3 DEF NetmapOn
  <2>2. txcur' = 0 /\ hwcur' = 0 /\ head' = 0 /\ hwtail' = N - 1 /\ gpc' = "idle"
    BY <1>1, <1>3, <2>1 DEF NetmapOn, csbVars
  <2> QED
    BY <2>2, NAssumption DEF Dist
<1>4. CASE TxsyncCall
  <2>1. PICK k \in 0 .. Dist(head, hwtail) : head' = Advance(head, k)
    BY <1>4 DEF TxsyncCall
  <2>2. /\ gpc = "idle" /\ gpc' = "send" /\ CarrierOk
        /\ UNCHANGED <<regs, hwcur, hwtail, txcur>>
    BY <1>4 DEF TxsyncCall, Running, csbVars
  <2>3. Dist(txcur, head') <= Dist(txcur, hwtail)
    BY <2>1, NAssumption DEF IndexOK, Slots, Dist, Advance
  <2> QED
    BY <1>1, <2>2, <2>3
<1>5. CASE XmitCopy
  <2>1. /\ gpc = "send" /\ gpc' = "kick" /\ hwcur # head /\ txcur = hwcur
        /\ txcur' = RingNext(txcur) /\ UNCHANGED <<regs, hwcur, hwtail, head>>
    BY <1>5 DEF XmitCopy, Running
  <2>2. Dist(RingNext(txcur), head) <= Dist(RingNext(txcur), hwtail)
    BY <2>1, NAssumption DEF IndexOK, Slots, Dist, RingNext
  <2> QED
    BY <1>1, <2>1, <2>2
<1>6. CASE XmitNoKick \/ XmitNotify
  BY <1>1, <1>6 DEF XmitNoKick, XmitNotify, Running, csbVars
<1>7. CASE XmitDone \/ XmitPublish
  BY <1>1, <1>7 DEF XmitDone, XmitPublish, Running, csbVars
<1>8. CASE TxsyncReclaim
  <2>1. /\ gpc = "reclaim" /\ gpc' = "idle"
        /\ hwtail' = hwtail \/ hwtail' = RingPrev(txcur)
        /\ UNCHANGED <<regs, hwcur, head, txcur>>
    BY <1>8 DEF TxsyncReclaim, Running, csbVars
  <2>2. Dist(txcur, head) <= Dist(txcur, RingPrev(txcur))
    BY NAssumption DEF IndexOK, Slots, Dist, RingPrev
  <2> QED
    BY <1>1, <2>1, <2>2
<1>9. CASE NetmapOff \/ GuestIrq
  BY <1>9 DEF NetmapOff, GuestIrq, TxInterrupt, TxInterruptClear, guestVars, csbVars
<1>10. CASE IrqSched \/ Kthread
  BY <1>10 DEF IrqSched, Kthread, KthreadWake, TxPrologue, VpTxsync, TxAck,
               RxWork, NoRxWork, guestVars, csbVars
<1>11. CASE UNCHANGED vars
  BY <1>11 DEF vars
<1> QED
  BY <1>3, <1>4, <1>5, <1>6, <1>7, <1>8, <1>9, <1>10, <1>11 DEF Next, Txsync

(* The guest never gets further ahead than LeadBound says. *)
LEMMA NextLead ==
  ASSUME Alternating, IndexOK, ControlOK, PacketOK, CreditPlace, SingleCredit,
         KickOrder, AppBeside, LeadBound, LengthsDue, LengthLap, [Next]_vars
  PROVE  LeadBound'
<1> DEFINE room == Dist(txcur, hwtail)
<1>1. /\ npkt \in Nat /\ Len(out) \in Nat /\ Lead \in Nat
      /\ Dist(khwcur, cur) \in 0 .. N - 1
      /\ Lead = Dist(khwcur, cur) + Unpublished
      /\ Unpublished \in 0 .. N - 1 /\ txcur = Advance(cur, Unpublished)
  BY LeadType DEF LeadBound
<1>2. room \in 0 .. N - 1
  BY DistType DEF IndexOK
<1>3. ASSUME UNCHANGED <<npkt, out, khwcur, cur>> PROVE Unpublished' = Unpublished
  BY <1>3 DEF Unpublished, Lead
<1>4. CASE NetmapOn
  <2>1. regs = 0
    BY <1>4, TxAssumption DEF Alternating, NetmapOn, ControlOK
  <2>2. UNCHANGED <<npkt, out, khwcur, cur, txcur, hwtail, gpc, host_need_txkick>>
    BY <1>4, <2>1 DEF NetmapOn, AppBeside, csbVars, ringVars, backVars
  <2> QED
    BY <1>3, <2>2 DEF LeadBound, Kicked
<1>5. CASE TxsyncCall \/ NetmapOff \/ XmitDone
  <2>1. /\ UNCHANGED <<npkt, out, khwcur, cur, txcur, hwtail, host_need_txkick>>
        /\ gpc \notin {"kick", "notify"} /\ gpc' \notin {"kick", "notify"}
    BY <1>5 DEF TxsyncCall, NetmapOff, XmitDone, Running, csbVars, ringVars, backVars
  <2> QED
    BY <1>3, <2>1 DEF LeadBound, Kicked
<1>6. CASE XmitCopy
  <2>1. /\ gpc = "send" /\ gpc' = "kick" /\ hwcur # head
        /\ txcur' = RingNext(txcur) /\ txcur = hwcur
        /\ UNCHANGED <<out, khwcur, cur, hwtail, host_need_txkick>>
    BY <1>6 DEF XmitCopy, Running, AppBeside, backVars
  <2>2. Unpublished' = Unpublished + 1
    BY <1>1, <1>6, <2>1, CopyLengths DEF Unpublished
  <2>3. Dist(txcur', hwtail) = room - 1 /\ 1 <= room
    BY <2>1, NAssumption DEF AppBeside, IndexOK, Slots, Dist, RingNext
  <2>4. Unpublished + 1 \in 0 .. N - 1
    BY <1>1, <1>2, <2>1, <2>3, NAssumption DEF LeadBound, Kicked
  <2>5. txcur' = Advance(cur, Unpublished + 1)
    BY <1>1, <2>1, <2>4, NAssumption DEF IndexOK, Slots, Advance, RingNext
  <2> HIDE DEF room
  <2>6. /\ Kicked' => Unpublished' + Dist(txcur, hwtail)' <= N - 2
        /\ ~Kicked' /\ gpc' = "kick" => Dist(txcur, hwtail)' <= N - 2
    BY <1>1, <1>2, <2>1, <2>2, <2>3, NAssumption DEF LeadBound, Kicked, room
  <2> QED
    BY <2>1, <2>2, <2>4, <2>5, <2>6 DEF LeadBound
<1>7. CASE XmitNoKick
  BY <1>3, <1>7 DEF XmitNoKick, Running, csbVars, ringVars, backVars, LeadBound,
                    Kicked
<1>8. CASE XmitPublish
  <2>1. /\ gpc = "kick" /\ gpc' = "notify" /\ host_need_txkick = 1
        /\ cur' = txcur /\ UNCHANGED <<npkt, out, khwcur, txcur, hwtail>>
    BY <1>8 DEF XmitPublish, Running, backVars
  <2>2. khwcur = cur /\ room <= N - 2
    BY <2>1 DEF KickOrder, LeadBound, Kicked
  <2>3. Lead' = Lead /\ Lead = Unpublished
    <3>1. Dist(cur, cur) = 0
      BY NAssumption DEF IndexOK, Slots, Dist
    <3> QED
      BY <1>1, <2>1, <2>2, <3>1 DEF Lead
  <2>4. Dist(khwcur, txcur) = Unpublished
    BY <1>1, <2>2, DistAdvance DEF IndexOK
  <2>5. Unpublished' = 0
    BY <1>1, <2>1, <2>3, <2>4 DEF Unpublished
  <2>6. txcur = Advance(txcur, 0) /\ 0 \in 0 .. N - 1
    BY NAssumption DEF IndexOK, Slots, Advance
  <2> QED
    BY <1>2, <2>1, <2>2, <2>5, <2>6, NAssumption DEF LeadBound, Kicked
<1>9. CASE XmitNotify
  BY <1>3, <1>9 DEF XmitNotify, Running, csbVars, ringVars, backVars, LeadBound,
                    Kicked
<1>10. CASE TxsyncReclaim
  <2>1. /\ gpc = "reclaim" /\ gpc' = "idle"
        /\ UNCHANGED <<npkt, out, khwcur, cur, txcur, host_need_txkick>>
        /\ hwtail' = hwtail \/ guest_need_txkick = 0
    BY <1>10 DEF TxsyncReclaim, Running, ReclaimTx, csbVars, ringVars, backVars
  <2>2. guest_need_txkick = 0 => ~Kicked
    BY DEF KickOrder
  <2> QED
    BY <1>3, <2>1, <2>2 DEF LeadBound, Kicked
<1>11. CASE TxInterrupt
  <2>1. /\ UNCHANGED <<npkt, out, khwcur, cur, txcur, hwtail, gpc>>
        /\ host_need_txkick' = host_need_txkick
            \/ (CarrierOk /\ host_need_txkick' = 1 /\ evFront = 1)
    BY <1>11 DEF TxInterrupt, guestVars, ringVars, backVars
  <2>2. CASE host_need_txkick' = host_need_txkick
    BY <1>3, <2>1, <2>2 DEF LeadBound, Kicked
  <2>3. CASE CarrierOk /\ host_need_txkick' = 1 /\ evFront = 1
    <3>1. regs <= 1 /\ AttachEvent = 0
      BY TxAssumption DEF Alternating, KickOrder, ControlOK
    <3>2. host_need_txkick = 0
      BY <2>3, <3>1 DEF SingleCredit, ControlOK
    <3>3. Kicked /\ gpc # "notify"
      BY <3>1, <3>2 DEF Kicked, CreditPlace
    <3>4. Unpublished + room <= N - 2
      BY <3>3 DEF LeadBound
    <3>5. Unpublished <= N - 2 /\ room <= N - 2
      BY <1>1, <1>2, <3>4, NAssumption
    <3> QED
      BY <1>1, <1>3, <2>1, <2>3, <3>3, <3>5 DEF LeadBound, Kicked
  <2> QED
    BY <2>1, <2>2, <2>3
<1>12. CASE TxInterruptClear \/ IrqSched \/ KthreadWake \/ TxAck \/ NoRxWork
  BY <1>3, <1>12
  DEF TxInterruptClear, IrqSched, KthreadWake, TxAck, NoRxWork, guestVars, csbVars,
      ringVars, backVars, LeadBound, Kicked
<1>13. CASE TxPrologue
  BY <1>3, <1>13 DEF TxPrologue, guestVars, csbVars, LeadBound, Kicked
<1>14. CASE VpTxsync
  <2>1. Lead' = Unpublished /\ Dist(khwcur', cur') = 0
    BY <1>14, ForwardLengths
  <2>2. Unpublished' = Unpublished
    BY <1>1, <2>1 DEF Unpublished
  <2> QED
    BY <1>14, <2>2 DEF VpTxsync, guestVars, csbVars, LeadBound, Kicked
<1>15. CASE RxWork
  BY <1>15 DEF RxWork, Alternating
<1>16. CASE UNCHANGED vars
  BY <1>3, <1>16 DEF vars, LeadBound, Kicked
<1> QED
  BY <1>4, <1>5, <1>6, <1>7, <1>8, <1>9, <1>10, <1>11, <1>12, <1>13, <1>14,
     <1>15, <1>16
  DEF Next, Txsync, GuestIrq, Kthread

(* Only xmit and VALE touch the lengths. *)
LEMMA NextLengths ==
  ASSUME Alternating, IndexOK, ControlOK, PacketOK, KickOrder, LeadBound,
         LengthsDue, LengthLap, [Next]_vars
  PROVE  LengthsDue' /\ LengthLap'
<1>1. ASSUME UNCHANGED <<npkt, out, khwcur, len>> PROVE LengthsDue' /\ LengthLap'
  BY <1>1 DEF LengthsDue, LengthLap, LapOver, Lead
<1>2. CASE XmitCopy
  BY <1>2, CopyLengths DEF XmitCopy, backVars, LengthLap
<1>3. CASE VpTxsync
  BY <1>3, ForwardLengths
<1>4. CASE NetmapOn \/ NetmapOff \/ TxsyncCall
  BY <1>1, <1>4 DEF NetmapOn, NetmapOff, TxsyncCall, ringVars, backVars
<1>5. CASE XmitDone \/ XmitNoKick \/ XmitPublish \/ XmitNotify \/ TxsyncReclaim
  BY <1>1, <1>5 DEF XmitDone, XmitNoKick, XmitPublish, XmitNotify, TxsyncReclaim,
                    ringVars, backVars
<1>6. CASE GuestIrq \/ IrqSched
  BY <1>1, <1>6 DEF GuestIrq, TxInterrupt, TxInterruptClear, IrqSched, guestVars,
                    ringVars, backVars
<1>7. CASE KthreadWake \/ TxPrologue \/ TxAck \/ NoRxWork
  BY <1>1, <1>7 DEF KthreadWake, TxPrologue, TxAck, NoRxWork, guestVars, ringVars
<1>8. CASE RxWork
  BY <1>8 DEF RxWork, Alternating
<1>9. CASE UNCHANGED vars
  BY <1>1, <1>9 DEF vars
<1> QED
  BY <1>2, <1>3, <1>4, <1>5, <1>6, <1>7, <1>8, <1>9 DEF Next, Txsync, Kthread

(* Nothing is accepted and nothing forwarded at first. *)
LEMMA InitLead == Init => AppBeside /\ LeadBound /\ LengthsDue /\ LengthLap
<1> SUFFICES ASSUME Init PROVE AppBeside /\ LeadBound /\ LengthsDue /\ LengthLap
  OBVIOUS
<1>1. npkt = 0 /\ Len(out) = 0 /\ DOMAIN out = {}
  BY DEF Init
<1>2. Lead = 0 /\ Unpublished = 0
  <2>1. Dist(khwcur, cur) = 0
    BY NAssumption DEF Init, Dist
  <2>2. Lead = 0
    BY <1>1 DEF Lead
  <2> QED
    BY <2>1, <2>2 DEF Unpublished
<1>3. AppBeside
  BY NAssumption DEF Init, AppBeside, Dist
<1>4. LeadBound
  BY <1>2, NAssumption DEF Init, LeadBound, Kicked, Advance
<1>5. LengthsDue
  <2>1. \A i \in Slots : Dist(0, i) \in Nat
    BY NAssumption, DistType DEF Slots
  <2> QED
    BY <1>2, <2>1 DEF Init, LengthsDue
<1> QED
  BY <1>1, <1>3, <1>4, <1>5 DEF LengthLap

(* VALE is given each published slot once, in ring order, and xmit laps a  *)
(* slot that was not forwarded at most once, however large the ring and    *)
(* however long the session is.                                            *)
THEOREM LappedOnce == Alternating => (Spec => []LengthLap)
<1> SUFFICES ASSUME Alternating PROVE Spec => []LengthLap
  OBVIOUS
<1> DEFINE Inv == /\ CreditPlace /\ SingleCredit /\ KickOrder
                  /\ AppBeside /\ LeadBound /\ LengthsDue /\ LengthLap
<1>1. Init => Inv
  BY InitOrder, InitLead DEF Init, CreditPlace, SingleCredit, CarrierOk
<1>2. TypeOK /\ Inv /\ [Next]_vars => Inv'
  BY NextPlace, NextOrder, NextBeside, NextLead, NextLengths DEF TypeOK
<1>3. Inv => LengthLap
  OBVIOUS
<1> QED
  BY <1>1, <1>2, <1>3, TypeCorrect, PTL DEF Spec
=============================================================================
