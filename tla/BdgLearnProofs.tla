--------------------------- MODULE BdgLearnProofs ---------------------------
(***************************************************************************)
(* Theorems about the learning lookup functions, for every number of       *)
(* threads, every set of addresses and ports and all hash functions.       *)
(***************************************************************************)
EXTENDS BdgLearn, TLAPS

(* An address has a slot of the table under either function. *)
LEMMA SlotType ==
  ASSUME NEW f \in Fns, NEW mac \in Macs
  PROVE  SlotOf(f, mac) \in HashSlots
BY DEF HashSlots

(* A thread stores only unicast sources, which have come in on its port,   *)
(* and reads a port only for a unicast destination.                        *)
Carried ==
  \A t \in Threads :
    /\ pc[t] \in {"mac", "ports"} =>
         pkt[t].src \in Macs /\ pkt[t].port \in arrived[pkt[t].src]
    /\ pc[t] = "read" => pkt[t].dst \in Macs

(* So the slots it uses are slots of the table. *)
LEMMA SlotsUsed ==
  ASSUME TypeOK, Carried, NEW t \in Threads
  PROVE  /\ pc[t] \in {"mac", "ports"} => SrcSlot(t) \in HashSlots
         /\ pc[t] = "read" => DstSlot(t) \in HashSlots
<1>1. pkt[t].f \in Fns
  BY DEF TypeOK
<1> QED
  BY <1>1, SlotType DEF Carried, SrcSlot, DstSlot

(* What a step of the table's threads does. *)
LEMMA LookupDoes ==
  ASSUME TypeOK, NEW t \in Threads, NEW port \in Ports,
         NEW src \in Macs \cup {Group}, NEW to \in Macs \cup {Group},
         Lookup(t, port, src, to)
  PROVE  /\ pc[t] = "idle"
         /\ pc' = [pc EXCEPT ![t] = IF src = Group THEN "find" ELSE "mac"]
         /\ pkt' \in [Threads -> [f : Fns, port : Ports, src : Macs \cup {Group},
                                  dst : Macs \cup {Group}]]
         /\ pkt'[t].src = src /\ pkt'[t].port = port
         /\ \A u \in Threads \ {t} : pkt'[u] = pkt[u]
         /\ arrived' \in [Macs -> SUBSET Ports]
         /\ \A m \in Macs : arrived[m] \subseteq arrived'[m]
         /\ src \in Macs => port \in arrived'[src]
         /\ UNCHANGED <<fn, loaded, ht, dst, mixed>>
<1>1. Group \notin Macs
  BY LearnAssumption DEF Group
<1>2. pkt' = [pkt EXCEPT ![t] = [f |-> fn, port |-> port, src |-> src, dst |-> to]]
  BY DEF Lookup
<1>3. pkt' \in [Threads -> [f : Fns, port : Ports, src : Macs \cup {Group},
                            dst : Macs \cup {Group}]]
  BY <1>2 DEF TypeOK
<1>4. /\ arrived' \in [Macs -> SUBSET Ports]
      /\ \A m \in Macs : arrived[m] \subseteq arrived'[m]
      /\ src \in Macs => port \in arrived'[src]
  BY <1>1 DEF TypeOK, Lookup
<1> QED
  BY <1>2, <1>3, <1>4 DEF TypeOK, Lookup

(* Answering ends a lookup. *)
LEMMA AnswerDoes ==
  ASSUME TypeOK, NEW t \in Threads, NEW port \in 0 .. NPorts, Answer(t, port)
  PROVE  /\ pc' = [pc EXCEPT ![t] = "idle"] /\ dst'[t] = port
         /\ dst' \in [Threads -> 0 .. NPorts]
         /\ pkt' \in [Threads -> [f : Fns, port : Ports, src : Macs \cup {Group},
                                  dst : Macs \cup {Group}]]
         /\ \A u \in Threads \ {t} : pkt'[u] = pkt[u]
<1>1. 0 \in Ports
  BY LearnAssumption DEF Ports
<1>2. NoPacket \in [f : Fns, port : Ports, src : Macs \cup {Group},
                    dst : Macs \cup {Group}]
  BY <1>1 DEF NoPacket, Fns
<1> QED
  BY <1>2 DEF TypeOK, Answer

-----------------------------------------------------------------------------
(* Types.                                                                  *)

(* The initial state is well typed. *)
LEMMA InitType == Init => TypeOK /\ Carried
<1> SUFFICES ASSUME Init PROVE TypeOK /\ Carried
  OBVIOUS
<1>1. 0 \in Ports /\ NPorts \in 0 .. NPorts
  BY LearnAssumption DEF Ports
<1>2. NoPacket \in [f : Fns, port : Ports, src : Macs \cup {Group},
                    dst : Macs \cup {Group}]
  BY <1>1 DEF NoPacket, Fns
<1>3. TypeOK
  BY <1>1, <1>2 DEF Init, TypeOK, Fns, NM_BDG_BROADCAST
<1>4. Carried
  BY DEF Init, Carried
<1> QED
  BY <1>3, <1>4

(* What Find and ReadPorts answer. *)
LEMMA AnswerPort ==
  ASSUME TypeOK, Carried, NEW t \in Threads, pc[t] = "read"
  PROVE  ht[DstSlot(t)].ports \in Ports /\ Ports \subseteq 0 .. NPorts
<1>1. DstSlot(t) \in HashSlots
  BY SlotsUsed
<1> QED
  BY <1>1, LearnAssumption DEF TypeOK, Ports

(* No step of any number of threads leaves the ranges. *)
LEMMA NextType == TypeOK /\ Carried /\ [Next]_vars => TypeOK' /\ Carried'
<1> SUFFICES ASSUME TypeOK, Carried, [Next]_vars PROVE TypeOK' /\ Carried'
  OBVIOUS
<1> DEFINE PCs == {"idle", "mac", "ports", "find", "read"}
<1>1. ASSUME NEW f \in ModuleFns, Load(f) PROVE TypeOK' /\ Carried'
  BY <1>1 DEF Load, Fns, TypeOK, Carried
<1>2. CASE Unload
  BY <1>2 DEF Unload, Fns, ModuleFns, TypeOK, Carried
<1>3. ASSUME NEW t \in Threads, NEW port \in Ports, NEW src \in Macs \cup {Group},
             NEW to \in Macs \cup {Group}, Lookup(t, port, src, to)
      PROVE  TypeOK' /\ Carried'
  <2> DEFINE next == IF src = Group THEN "find" ELSE "mac"
  <2>1. /\ pc' = [pc EXCEPT ![t] = next]
        /\ pkt' \in [Threads -> [f : Fns, port : Ports, src : Macs \cup {Group},
                                 dst : Macs \cup {Group}]]
        /\ pkt'[t].src = src /\ pkt'[t].port = port
        /\ \A u \in Threads \ {t} : pkt'[u] = pkt[u]
        /\ arrived' \in [Macs -> SUBSET Ports]
        /\ \A m \in Macs : arrived[m] \subseteq arrived'[m]
        /\ src \in Macs => port \in arrived'[src]
        /\ UNCHANGED <<fn, loaded, ht, dst, mixed>>
    BY <1>3, LookupDoes
  <2>2. next \in {"find", "mac"} /\ (next = "mac" => src \in Macs)
    OBVIOUS
  <2> HIDE DEF next
  <2>3. pc' \in [Threads -> PCs] /\ pc'[t] = next /\ \A u \in Threads \ {t} : pc'[u] = pc[u]
    BY <2>1, <2>2 DEF TypeOK
  <2>4. TypeOK'
    BY <2>1, <2>3 DEF TypeOK
  <2>5. Carried'
    <3> SUFFICES ASSUME NEW u \in Threads
                 PROVE  /\ pc'[u] \in {"mac", "ports"} =>
                             pkt'[u].src \in Macs /\ pkt'[u].port \in arrived'[pkt'[u].src]
                        /\ pc'[u] = "read" => pkt'[u].dst \in Macs
      BY DEF Carried
    <3>1. CASE u = t
      BY <2>1, <2>2, <2>3, <3>1
    <3>2. CASE u # t
      BY <2>1, <2>3, <3>2 DEF Carried
    <3> QED
      BY <3>1, <3>2
  <2> QED
    BY <2>4, <2>5
<1>4. ASSUME NEW t \in Threads, LearnMac(t) PROVE TypeOK' /\ Carried'
  <2>1. SrcSlot(t) \in HashSlots
    BY <1>4, SlotsUsed DEF LearnMac
  <2>2. pc' \in [Threads -> PCs]
    BY <1>4 DEF LearnMac, TypeOK
  <2>3. ht' \in [HashSlots -> [mac : Macs \cup {0}, ports : Ports]]
    BY <1>4, <2>1 DEF LearnMac, Group, TypeOK
  <2>4. mixed' \subseteq HashSlots
    BY <1>4, <2>1 DEF LearnMac, TypeOK
  <2>5. TypeOK'
    BY <1>4, <2>2, <2>3, <2>4 DEF LearnMac, TypeOK
  <2> QED
    BY <1>4, <2>5 DEF LearnMac, Carried, TypeOK
<1>5. ASSUME NEW t \in Threads, LearnPorts(t) PROVE TypeOK' /\ Carried'
  <2>1. SrcSlot(t) \in HashSlots
    BY <1>5, SlotsUsed DEF LearnPorts
  <2>2. pc' \in [Threads -> PCs]
    BY <1>5 DEF LearnPorts, TypeOK
  <2>3. ht' \in [HashSlots -> [mac : Macs \cup {0}, ports : Ports]]
    BY <1>5, <2>1 DEF LearnPorts, TypeOK
  <2>4. mixed' \subseteq HashSlots
    BY <1>5, <2>1 DEF LearnPorts, TypeOK
  <2>5. TypeOK'
    BY <1>5, <2>2, <2>3, <2>4 DEF LearnPorts, TypeOK
  <2> QED
    BY <1>5, <2>5 DEF LearnPorts, Carried, TypeOK
<1>6. ASSUME NEW t \in Threads, Find(t) PROVE TypeOK' /\ Carried'
  <2>1. NM_BDG_BROADCAST \in 0 .. NPorts
    BY LearnAssumption DEF NM_BDG_BROADCAST
  <2>2. CASE pkt[t].dst # Group /\ Found(t)
    BY <1>6, <2>2 DEF Find, TypeOK, Carried
  <2>3. CASE ~(pkt[t].dst # Group /\ Found(t))
    <3>1. Answer(t, NM_BDG_BROADCAST)
      BY <1>6, <2>3 DEF Find
    <3> QED
      BY <1>6, <2>1, <3>1, AnswerDoes DEF Find, TypeOK, Carried
  <2> QED
    BY <2>2, <2>3
<1>7. ASSUME NEW t \in Threads, ReadPorts(t) PROVE TypeOK' /\ Carried'
  <2>1. ht[DstSlot(t)].ports \in 0 .. NPorts
    BY <1>7, AnswerPort DEF ReadPorts
  <2>2. Answer(t, ht[DstSlot(t)].ports)
    BY <1>7 DEF ReadPorts
  <2> QED
    BY <1>7, <2>1, <2>2, AnswerDoes DEF ReadPorts, TypeOK, Carried
<1>8. CASE UNCHANGED vars
  BY <1>8 DEF vars, TypeOK, Carried
<1> QED
  BY <1>1, <1>2, <1>3, <1>4, <1>5, <1>6, <1>7, <1>8 DEF Next

(* Whatever the threads do to the shared table of bdg_learning and         *)
(* lsb_learning, it stays a table of addresses and ports, and every lookup *)
(* answers with a port or with NM_BDG_BROADCAST.                           *)
THEOREM TypeCorrect == Spec => []TypeOK
BY InitType, NextType, PTL DEF Spec

-----------------------------------------------------------------------------
(* What a lookup finds.                                                    *)

(* A thread changes no other thread's place and packet. *)
LEMMA OthersKeep ==
  ASSUME TypeOK, Carried, NEW t \in Threads, NEW u \in Threads \ {t},
         \/ \E port \in Ports, src \in Macs \cup {Group}, to \in Macs \cup {Group} :
              Lookup(t, port, src, to)
         \/ LearnMac(t) \/ LearnPorts(t) \/ Find(t) \/ ReadPorts(t)
  PROVE  pc'[u] = pc[u] /\ pkt'[u] = pkt[u]
BY DEF TypeOK, Lookup, LearnMac, LearnPorts, Find, ReadPorts, Answer

(* A lookup that found its destination ends with ReadPorts. *)
LEMMA ReadEnds ==
  ASSUME TypeOK, Carried, [Next]_vars, NEW t \in Threads,
         pc[t] = "read", pc'[t] = "idle"
  PROVE  ReadPorts(t) /\ dst'[t] = ht[DstSlot(t)].ports
<1>1. ASSUME NEW f \in ModuleFns, Load(f) PROVE FALSE
  BY <1>1 DEF Load
<1>2. CASE Unload
  BY <1>2 DEF Unload
<1>3. CASE UNCHANGED vars
  BY <1>3 DEF vars
<1>4. PICK u \in Threads :
        \/ \E port \in Ports, src \in Macs \cup {Group}, to \in Macs \cup {Group} :
             Lookup(u, port, src, to)
        \/ LearnMac(u) \/ LearnPorts(u) \/ Find(u) \/ ReadPorts(u)
  BY <1>1, <1>2, <1>3 DEF Next
<1>5. u = t
  BY <1>4, OthersKeep
<1>6. ReadPorts(t)
  BY <1>4, <1>5 DEF Lookup, LearnMac, LearnPorts, Find
<1> QED
  BY <1>6 DEF ReadPorts, Answer, TypeOK

(* The slots hold addresses that have come in, with ports of the slot's    *)
(* addresses.                                                              *)
SharedInv ==
  /\ \A s \in HashSlots : /\ ht[s].mac \in Macs => arrived[ht[s].mac] # {}
                         /\ UsedPort(s, ht[s].ports)
  /\ \A t \in Threads : pc[t] = "read" => arrived[pkt[t].dst] # {}

(* Where nobody came between, a slot holds the port of its address, except *)
(* while one thread is between its two stores, and nobody is between his   *)
(* two accesses to it with another address.                                *)
SlotClean(s) ==
  /\ ht[s].mac \in Macs =>
       \/ ht[s].ports \in arrived[ht[s].mac]
       \/ \E t \in Threads : pc[t] = "ports" /\ SrcSlot(t) = s
  /\ \A t \in Threads : pc[t] = "ports" /\ SrcSlot(t) = s => ht[s].mac = pkt[t].src
  /\ \A t \in Threads : pc[t] = "read" /\ DstSlot(t) = s => ht[s].mac = pkt[t].dst
CleanInv == \A s \in HashSlots \ mixed : SlotClean(s)

(* Ports stay ports of their slot when more sources come in. *)
LEMMA UsedGrows ==
  ASSUME NEW s \in HashSlots, NEW port \in Ports, UsedPort(s, port),
         \A m \in Macs : arrived[m] \subseteq arrived'[m]
  PROVE  UsedPort(s, port)'
BY DEF UsedPort

(* No step of any number of threads brings a foreign port into a slot. *)
LEMMA NextShared ==
  TypeOK /\ Carried /\ SharedInv /\ [Next]_vars => SharedInv'
<1> SUFFICES ASSUME TypeOK, Carried, SharedInv, [Next]_vars PROVE SharedInv'
  OBVIOUS
<1>1. ASSUME NEW f \in ModuleFns, Load(f) PROVE SharedInv'
  BY <1>1 DEF Load, SharedInv, UsedPort
<1>2. CASE Unload
  BY <1>2 DEF Unload, SharedInv, UsedPort
<1>3. ASSUME NEW t \in Threads, NEW port \in Ports, NEW src \in Macs \cup {Group},
             NEW to \in Macs \cup {Group}, Lookup(t, port, src, to)
      PROVE  SharedInv'
  <2>1. /\ \A m \in Macs : arrived[m] \subseteq arrived'[m]
        /\ ht' = ht /\ pc'[t] # "read"
        /\ \A u \in Threads \ {t} : pc'[u] = pc[u] /\ pkt'[u] = pkt[u]
    <3>1. pc'[t] \in {"find", "mac"}
      BY <1>3 DEF Lookup, TypeOK
    <3> QED
      BY <1>3, <3>1, LookupDoes, OthersKeep
  <2>2. \A s \in HashSlots : ht[s].ports \in Ports
    BY DEF TypeOK
  <2>3. \A s \in HashSlots : UsedPort(s, ht[s].ports)'
    BY <2>1, <2>2, UsedGrows DEF SharedInv
  <2>4. \A u \in Threads : pc'[u] = "read" =>
          pkt'[u].dst \in Macs /\ arrived'[pkt'[u].dst] # {}
    BY <2>1 DEF SharedInv, Carried
  <2>5. \A s \in HashSlots : ht'[s].mac \in Macs => arrived'[ht'[s].mac] # {}
    BY <2>1 DEF SharedInv
  <2> QED
    BY <2>3, <2>4, <2>5 DEF SharedInv
<1>4. ASSUME NEW t \in Threads, LearnMac(t) PROVE SharedInv'
  <2>1. SrcSlot(t) \in HashSlots /\ pkt[t].src \in Macs /\ arrived[pkt[t].src] # {}
    BY <1>4, SlotsUsed DEF LearnMac, Carried
  <2>2. \A s \in HashSlots : /\ ht'[s].ports = ht[s].ports
                             /\ ht'[s].mac = IF s = SrcSlot(t) THEN pkt[t].src ELSE ht[s].mac
    BY <1>4, <2>1 DEF LearnMac, TypeOK
  <2>3. \A s \in HashSlots : UsedPort(s, ht[s].ports)'
    BY <1>4, <2>2 DEF SharedInv, LearnMac, UsedPort
  <2>4. \A u \in Threads : pc'[u] = "read" => pc[u] = "read"
    BY <1>4 DEF LearnMac, TypeOK
  <2> QED
    BY <1>4, <2>1, <2>2, <2>3, <2>4 DEF SharedInv, LearnMac
<1>5. ASSUME NEW t \in Threads, LearnPorts(t) PROVE SharedInv'
  <2>1. /\ SrcSlot(t) \in HashSlots /\ pkt[t].src \in Macs /\ pkt[t].f \in Fns
        /\ pkt[t].port \in arrived[pkt[t].src]
    BY <1>5, SlotsUsed DEF LearnPorts, Carried, TypeOK
  <2>2. \A s \in HashSlots :
          /\ ht'[s].mac = ht[s].mac
          /\ ht'[s].ports = IF s = SrcSlot(t) THEN pkt[t].port ELSE ht[s].ports
    BY <1>5, <2>1 DEF LearnPorts, TypeOK
  <2>3. UsedPort(SrcSlot(t), pkt[t].port)
    BY <2>1 DEF UsedPort, SrcSlot
  <2>4. \A s \in HashSlots : UsedPort(s, ht'[s].ports)
    BY <2>2, <2>3 DEF SharedInv
  <2>5. \A s \in HashSlots : UsedPort(s, ht[s].ports)'
    BY <1>5, <2>4 DEF LearnPorts, UsedPort
  <2>6. \A u \in Threads : pc'[u] = "read" => pc[u] = "read"
    BY <1>5 DEF LearnPorts, TypeOK
  <2> QED
    BY <1>5, <2>2, <2>5, <2>6 DEF SharedInv, LearnPorts
<1>6. ASSUME NEW t \in Threads, Find(t) PROVE SharedInv'
  <2>1. \A s \in HashSlots : UsedPort(s, ht[s].ports)'
    BY <1>6 DEF SharedInv, Find, UsedPort
  <2>2. pc'[t] = "read" => pkt'[t].dst \in Macs /\ arrived[pkt'[t].dst] # {}
    <3> SUFFICES ASSUME pc'[t] = "read"
                 PROVE  pkt'[t].dst \in Macs /\ arrived[pkt'[t].dst] # {}
      OBVIOUS
    <3>1. pkt[t].dst # Group /\ Found(t) /\ pkt' = pkt
      BY <1>6 DEF Find, Answer, TypeOK
    <3>2. pkt[t].dst \in Macs /\ DstSlot(t) \in HashSlots
      BY <3>1, SlotType DEF TypeOK, DstSlot
    <3> QED
      BY <3>1, <3>2 DEF Found, SharedInv
  <2>3. \A u \in Threads \ {t} : pc'[u] = pc[u] /\ pkt'[u] = pkt[u]
    BY <1>6, OthersKeep
  <2> QED
    BY <1>6, <2>1, <2>2, <2>3 DEF SharedInv, Find
<1>7. ASSUME NEW t \in Threads, ReadPorts(t) PROVE SharedInv'
  <2>1. \A s \in HashSlots : UsedPort(s, ht[s].ports)'
    BY <1>7 DEF SharedInv, ReadPorts, UsedPort
  <2>2. pc'[t] = "idle"
    BY <1>7 DEF ReadPorts, Answer, TypeOK
  <2>3. \A u \in Threads \ {t} : pc'[u] = pc[u] /\ pkt'[u] = pkt[u]
    BY <1>7, OthersKeep
  <2> QED
    BY <1>7, <2>1, <2>2, <2>3 DEF SharedInv, ReadPorts
<1>8. CASE UNCHANGED vars
  BY <1>8 DEF vars, SharedInv, UsedPort
<1> QED
  BY <1>1, <1>2, <1>3, <1>4, <1>5, <1>6, <1>7, <1>8 DEF Next

(* A slot whose contents, storing threads and readers stay as they are     *)
(* stays clean.                                                            *)
LEMMA CleanKeeps ==
  ASSUME TypeOK, Carried, NEW s \in HashSlots, SlotClean(s), ht'[s] = ht[s],
         \A m \in Macs : arrived[m] \subseteq arrived'[m],
         \A u \in Threads :
           /\ pc[u] = "ports" /\ SrcSlot(u) = s => pc'[u] = "ports" /\ SrcSlot(u)' = s
           /\ pc'[u] = "ports" /\ SrcSlot(u)' = s =>
                pc[u] = "ports" /\ SrcSlot(u) = s /\ pkt'[u] = pkt[u]
           /\ pc'[u] = "read" /\ DstSlot(u)' = s =>
                pc[u] = "read" /\ DstSlot(u) = s /\ pkt'[u] = pkt[u]
  PROVE  SlotClean(s)'
BY DEF SlotClean

(* The slots of a thread whose packet stays are the same. *)
LEMMA SlotsKeep ==
  ASSUME NEW u \in Threads, pkt'[u] = pkt[u]
  PROVE  SrcSlot(u)' = SrcSlot(u) /\ DstSlot(u)' = DstSlot(u)
BY DEF SrcSlot, DstSlot, SlotOf

(* No step of any number of threads spoils a slot without being noted. *)
LEMMA NextClean ==
  TypeOK /\ Carried /\ CleanInv /\ [Next]_vars => CleanInv'
<1> SUFFICES ASSUME TypeOK, Carried, CleanInv, [Next]_vars,
                    NEW s \in HashSlots, s \notin mixed'
             PROVE  SlotClean(s)'
  BY DEF CleanInv
<1>1. ASSUME NEW f \in ModuleFns, Load(f) PROVE SlotClean(s)'
  BY <1>1 DEF Load, CleanInv, SlotClean, SrcSlot, DstSlot, SlotOf
<1>2. CASE Unload
  BY <1>2 DEF Unload, CleanInv, SlotClean, SrcSlot, DstSlot, SlotOf
<1>3. ASSUME NEW t \in Threads, NEW port \in Ports, NEW src \in Macs \cup {Group},
             NEW to \in Macs \cup {Group}, Lookup(t, port, src, to)
      PROVE  SlotClean(s)'
  <2>1. /\ \A m \in Macs : arrived[m] \subseteq arrived'[m]
        /\ ht' = ht /\ mixed' = mixed /\ pc[t] = "idle"
        /\ \A u \in Threads \ {t} : pc'[u] = pc[u] /\ pkt'[u] = pkt[u]
    BY <1>3, LookupDoes, OthersKeep
  <2>2. pc'[t] \in {"find", "mac"}
    BY <1>3 DEF Lookup, TypeOK
  <2>3. SlotClean(s)
    BY <2>1 DEF CleanInv
  <2> QED
    BY <2>1, <2>2, <2>3, CleanKeeps, SlotsKeep
<1>4. ASSUME NEW t \in Threads, LearnMac(t) PROVE SlotClean(s)'
  <2>1. SrcSlot(t) \in HashSlots
    BY <1>4, SlotsUsed DEF LearnMac
  <2>2. /\ pkt' = pkt /\ arrived' = arrived /\ pc[t] = "mac" /\ pc'[t] = "ports"
        /\ \A u \in Threads \ {t} : pc'[u] = pc[u]
    BY <1>4 DEF LearnMac, TypeOK
  <2>3. \A u \in Threads : SrcSlot(u)' = SrcSlot(u) /\ DstSlot(u)' = DstSlot(u)
    BY <2>2, SlotsKeep
  <2>4. CASE s = SrcSlot(t)
    <3>1. Alone(t, s)
      BY <1>4, <2>4 DEF LearnMac
    <3>2. ht'[s].mac = pkt[t].src
      BY <1>4, <2>1, <2>4 DEF LearnMac, TypeOK
    <3>3. \A u \in Threads : pc'[u] = "ports" /\ SrcSlot(u)' = s => u = t
      BY <2>2, <2>3, <3>1 DEF Alone
    <3>4. \A u \in Threads : ~(pc'[u] = "read" /\ DstSlot(u)' = s)
      BY <2>2, <2>3, <3>1 DEF Alone
    <3> QED
      BY <2>2, <2>3, <2>4, <3>2, <3>3, <3>4 DEF SlotClean
  <2>5. CASE s # SrcSlot(t)
    <3>1. ht'[s] = ht[s] /\ s \notin mixed
      BY <1>4, <2>1, <2>5 DEF LearnMac, TypeOK
    <3>2. SlotClean(s)
      BY <3>1 DEF CleanInv
    <3> QED
      BY <2>2, <2>3, <2>5, <3>1, <3>2, CleanKeeps
  <2> QED
    BY <2>4, <2>5
<1>5. ASSUME NEW t \in Threads, LearnPorts(t) PROVE SlotClean(s)'
  <2>1. SrcSlot(t) \in HashSlots /\ pkt[t].port \in arrived[pkt[t].src]
    BY <1>5, SlotsUsed DEF LearnPorts, Carried
  <2>2. /\ pkt' = pkt /\ arrived' = arrived /\ pc[t] = "ports" /\ pc'[t] = "find"
        /\ \A u \in Threads \ {t} : pc'[u] = pc[u]
    BY <1>5 DEF LearnPorts, TypeOK
  <2>3. \A u \in Threads : SrcSlot(u)' = SrcSlot(u) /\ DstSlot(u)' = DstSlot(u)
    BY <2>2, SlotsKeep
  <2>4. s \notin mixed
    BY <1>5 DEF LearnPorts
  <2>5. SlotClean(s)
    BY <2>4 DEF CleanInv
  <2>6. CASE s = SrcSlot(t)
    <3>1. Alone(t, s)
      BY <1>5, <2>6 DEF LearnPorts
    <3>2. ht'[s].mac = pkt[t].src /\ ht'[s].ports = pkt[t].port
      BY <1>5, <2>1, <2>2, <2>5, <2>6 DEF LearnPorts, TypeOK, SlotClean
    <3>3. \A u \in Threads : ~(pc'[u] = "ports" /\ SrcSlot(u)' = s)
      BY <2>2, <2>3, <3>1 DEF Alone
    <3>4. \A u \in Threads : ~(pc'[u] = "read" /\ DstSlot(u)' = s)
      BY <2>2, <2>3, <3>1 DEF Alone
    <3> QED
      BY <2>1, <2>2, <3>2, <3>3, <3>4 DEF SlotClean
  <2>7. CASE s # SrcSlot(t)
    <3>1. ht'[s] = ht[s]
      BY <1>5, <2>1, <2>7 DEF LearnPorts, TypeOK
    <3> QED
      BY <2>2, <2>3, <2>5, <2>7, <3>1, CleanKeeps
  <2> QED
    BY <2>6, <2>7
<1>6. ASSUME NEW t \in Threads, Find(t) PROVE SlotClean(s)'
  <2>1. /\ ht' = ht /\ arrived' = arrived /\ mixed' = mixed /\ pc[t] = "find"
        /\ \A u \in Threads \ {t} : pc'[u] = pc[u] /\ pkt'[u] = pkt[u]
    BY <1>6, OthersKeep DEF Find
  <2>2. SlotClean(s)
    BY <2>1 DEF CleanInv
  <2>3. CASE pkt[t].dst # Group /\ Found(t)
    <3>1. pc'[t] = "read" /\ pkt'[t] = pkt[t] /\ ht[DstSlot(t)].mac = pkt[t].dst
      BY <1>6, <2>3 DEF Find, Found, TypeOK
    <3>2. \A u \in Threads : SrcSlot(u)' = SrcSlot(u) /\ DstSlot(u)' = DstSlot(u)
      BY <2>1, <3>1, SlotsKeep
    <3> QED
      BY <2>1, <2>2, <3>1, <3>2 DEF SlotClean
  <2>4. CASE ~(pkt[t].dst # Group /\ Found(t))
    <3>1. pc'[t] = "idle"
      BY <1>6, <2>4 DEF Find, Answer, TypeOK
    <3> QED
      BY <2>1, <2>2, <3>1, CleanKeeps, SlotsKeep
  <2> QED
    BY <2>3, <2>4
<1>7. ASSUME NEW t \in Threads, ReadPorts(t) PROVE SlotClean(s)'
  <2>1. /\ ht' = ht /\ arrived' = arrived /\ mixed' = mixed /\ pc[t] = "read"
        /\ \A u \in Threads \ {t} : pc'[u] = pc[u] /\ pkt'[u] = pkt[u]
    BY <1>7, OthersKeep DEF ReadPorts
  <2>2. pc'[t] = "idle"
    BY <1>7 DEF ReadPorts, Answer, TypeOK
  <2>3. SlotClean(s)
    BY <2>1 DEF CleanInv
  <2> QED
    BY <2>1, <2>2, <2>3, CleanKeeps, SlotsKeep
<1>8. CASE UNCHANGED vars
  BY <1>8 DEF vars, CleanInv, SlotClean, SrcSlot, DstSlot, SlotOf
<1> QED
  BY <1>1, <1>2, <1>3, <1>4, <1>5, <1>6, <1>7, <1>8 DEF Next

(* However many threads share the table without a lock, whatever the hash  *)
(* functions and their exchange, a lookup of bdg_learning or lsb_learning  *)
(* finds only addresses that have been sources, and the port it reads is   *)
(* one of an address of the same slot, or 0 if none was stored there.      *)
THEOREM SharedFound == Spec => FoundShared
<1>1. Init => SharedInv
  <2> SUFFICES ASSUME Init PROVE SharedInv
    OBVIOUS
  <2>1. 0 \notin Macs
    BY LearnAssumption
  <2> QED
    BY <2>1 DEF Init, SharedInv, UsedPort
<1>2. ASSUME TypeOK, Carried, SharedInv, [Next]_vars PROVE [SlotPort]_vars
  <2> SUFFICES ASSUME NEW t \in Threads, pc[t] = "read", pc'[t] = "idle"
               PROVE  arrived[pkt[t].dst] # {} /\ UsedPort(DstSlot(t), dst'[t])
    BY DEF SlotPort
  <2>1. DstSlot(t) \in HashSlots
    BY <1>2, SlotsUsed
  <2>2. dst'[t] = ht[DstSlot(t)].ports
    BY <1>2, ReadEnds
  <2> QED
    BY <1>2, <2>1, <2>2 DEF SharedInv
<1> QED
  BY <1>1, <1>2, InitType, NextType, NextShared, PTL DEF Spec, FoundShared

(* A lookup that found its destination sends the packet to a port on which *)
(* the address has come in, for any number of threads on the table: only   *)
(* one that comes between the two stores of the entry or the two reads of  *)
(* it can make it another one, and only until the next undisturbed store.  *)
THEOREM UndisturbedFound == Spec => FoundDst
<1>1. Init => CleanInv
  <2> SUFFICES ASSUME Init PROVE CleanInv
    OBVIOUS
  <2>1. 0 \notin Macs
    BY LearnAssumption
  <2> QED
    BY <2>1 DEF Init, CleanInv, SlotClean
<1>2. ASSUME TypeOK, Carried, CleanInv, [Next]_vars PROVE [RightPort]_vars
  <2> SUFFICES ASSUME NEW t \in Threads, pc[t] = "read", pc'[t] = "idle",
                      DstSlot(t) \notin mixed, Alone(t, DstSlot(t))
               PROVE  dst'[t] \in arrived[pkt[t].dst]
    BY DEF RightPort
  <2>1. DstSlot(t) \in HashSlots /\ pkt[t].dst \in Macs
    BY <1>2, SlotsUsed DEF Carried
  <2>2. dst'[t] = ht[DstSlot(t)].ports
    BY <1>2, ReadEnds
  <2>3. SlotClean(DstSlot(t))
    BY <1>2, <2>1 DEF CleanInv
  <2>4. ~\E u \in Threads : pc[u] = "ports" /\ SrcSlot(u) = DstSlot(t)
    BY DEF Alone
  <2> QED
    BY <2>1, <2>2, <2>3, <2>4 DEF SlotClean
<1> QED
  BY <1>1, <1>2, InitType, NextType, NextClean, PTL DEF Spec, FoundDst
=============================================================================
