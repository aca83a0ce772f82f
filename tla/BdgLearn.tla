------------------------------ MODULE BdgLearn ------------------------------
(***************************************************************************)
(* The learning lookup functions of bridge 0: netmap's own, its copy       *)
(* bdg_learning in the module learn, and lsb_learning of that module,      *)
(* which uses another slot for an address.  Loading the module makes the   *)
(* bridge use one of its two; the bridge keeps its table.  Unloading       *)
(* registers the module's bdg_learning: BdgStatic shows where a lookup     *)
(* then ends.  Here behaviours are followed up to such a crash.            *)
(*                                                                         *)
(* A forwarding thread stores address and port of a packet's source one    *)
(* after the other, then reads those of its destination.  Threads of       *)
(* several ports share the table without a lock, so that what one finds    *)
(* may be another one's half: mixed notes where that can be.               *)
(***************************************************************************)
EXTENDS Naturals

CONSTANTS
  Threads,    \* threads that forward
  Macs,       \* unicast addresses, none of them 0
  NPorts,     \* ports 0 .. NPorts - 1
  RtHash,     \* nm_bridge_rthash of each address
  LsbHash     \* last byte of each address

ASSUME LearnAssumption ==
  /\ Macs \subseteq Nat \ {0}
  /\ NPorts \in Nat \ {0}
  /\ RtHash \in [Macs -> Nat] /\ LsbHash \in [Macs -> Nat]

VARIABLES
  fn,         \* lookup function of the bridge
  loaded,     \* 1 while the module is loaded
  ht,         \* the bridge's table
  pc, pkt,    \* where each thread is, and with which packet
  dst,        \* what its last lookup returned
  arrived,    \* ports on which each source address has come in
  mixed       \* slots in whose last store somebody else came between

vars == <<fn, loaded, ht, pc, pkt, dst, arrived, mixed>>

Ports == 0 .. NPorts - 1

(* Mutated: NM_BDG_NOPORT. *)
NoPort == NPorts + 1

NM_BDG_BROADCAST == NPorts

Group == 0   \* stands for all addresses with the group bit
ModuleFns == {"bdg_learning", "lsb_learning"}
Fns == ModuleFns \cup {"netmap_bdg_learning"}
SlotOf(f, mac) == IF f = "lsb_learning" THEN LsbHash[mac] ELSE RtHash[mac]
HashSlots == {SlotOf(f, mac) : f \in Fns, mac \in Macs}
NoPacket == [f |-> "netmap_bdg_learning", port |-> 0, src |-> Group, dst |-> Group]

Init ==
  /\ fn = "netmap_bdg_learning" /\ loaded = 0
  /\ ht = [s \in HashSlots |-> [mac |-> 0, ports |-> 0]]
  /\ pc = [t \in Threads |-> "idle"]
  /\ pkt = [t \in Threads |-> NoPacket]
  /\ dst = [t \in Threads |-> NM_BDG_BROADCAST]
  /\ arrived = [mac \in Macs |-> {}]
  /\ mixed = {}

-----------------------------------------------------------------------------
(* mac_lsb_init: type = 0 asks for bdg_learning. *)
Load(f) ==
  /\ loaded = 0
  /\ fn' = f
  /\ loaded' = 1
  /\ UNCHANGED <<ht, pc, pkt, dst, arrived, mixed>>

(* mac_lsb_exit, while no thread runs one of the module's functions *)
Unload ==
  /\ loaded = 1
  /\ \A t \in Threads : pc[t] = "idle" \/ pkt[t].f \notin ModuleFns
  /\ fn' = "bdg_learning"
  /\ loaded' = 0
  /\ UNCHANGED <<ht, pc, pkt, dst, arrived, mixed>>

(* The bridge calls its lookup function, which must be there. *)
Lookup(t, port, src, to) ==
  /\ pc[t] = "idle"
  /\ fn \in ModuleFns => loaded = 1
  /\ pkt' = [pkt EXCEPT ![t] = [f |-> fn, port |-> port, src |-> src, dst |-> to]]
  /\ arrived' = IF src = Group THEN arrived
                ELSE [arrived EXCEPT ![src] = @ \cup {port}]
  /\ pc' = [pc EXCEPT ![t] = IF src = Group THEN "find" ELSE "mac"]
  /\ UNCHANGED <<fn, loaded, ht, dst, mixed>>

SrcSlot(t) == SlotOf(pkt[t].f, pkt[t].src)
DstSlot(t) == SlotOf(pkt[t].f, pkt[t].dst)

(* No other thread is between its two accesses to slot s. *)
Alone(t, s) ==
  \A u \in Threads \ {t} :
    ~(pc[u] = "ports" /\ SrcSlot(u) = s) /\ ~(pc[u] = "read" /\ DstSlot(u) = s)

(* ht[sh].mac = smac *)
LearnMac(t) ==
  /\ pc[t] = "mac"
  /\ ht' = [ht EXCEPT ![SrcSlot(t)].mac = pkt[t].src]
  /\ mixed' = IF Alone(t, SrcSlot(t)) THEN mixed \ {SrcSlot(t)}
              ELSE mixed \cup {SrcSlot(t)}
  /\ pc' = [pc EXCEPT ![t] = "ports"]
  /\ UNCHANGED <<fn, loaded, pkt, dst, arrived>>

(* Mutated: the port goes to the slot of the destination. *)
LearnPortsDst(t) ==
  /\ pc[t] = "ports"
  /\ LET s == IF pkt[t].dst = Group THEN SrcSlot(t) ELSE DstSlot(t) IN
       /\ ht' = [ht EXCEPT ![s].ports = pkt[t].port]
       /\ mixed' = IF Alone(t, s) THEN mixed ELSE mixed \cup {s}
  /\ pc' = [pc EXCEPT ![t] = "find"]
  /\ UNCHANGED <<fn, loaded, pkt, dst, arrived>>

(* ht[sh].ports = mysrc *)
LearnPorts(t) ==
  /\ pc[t] = "ports"
  /\ ht' = [ht EXCEPT ![SrcSlot(t)].ports = pkt[t].port]
  /\ mixed' = IF Alone(t, SrcSlot(t)) THEN mixed ELSE mixed \cup {SrcSlot(t)}
  /\ pc' = [pc EXCEPT ![t] = "find"]
  /\ UNCHANGED <<fn, loaded, pkt, dst, arrived>>

(* Mutated: any entry of the slot will do. *)
FoundAny(t) == ht[DstSlot(t)].mac # 0

(* ht[dh].mac == dmac *)
Found(t) == ht[DstSlot(t)].mac = pkt[t].dst

(* The lookup is over. *)
Answer(t, port) ==
  /\ dst' = [dst EXCEPT ![t] = port]
  /\ pc' = [pc EXCEPT ![t] = "idle"]
  /\ pkt' = [pkt EXCEPT ![t] = NoPacket]

(* A group address, or one not found, goes to all ports. *)
Find(t) ==
  /\ pc[t] = "find"
  /\ IF pkt[t].dst # Group /\ Found(t)
       THEN pc' = [pc EXCEPT ![t] = "read"] /\ UNCHANGED <<pkt, dst>>
       ELSE Answer(t, NM_BDG_BROADCAST)
  /\ UNCHANGED <<fn, loaded, ht, arrived, mixed>>

(* dst = ht[dh].ports *)
ReadPorts(t) ==
  /\ pc[t] = "read"
  /\ Answer(t, ht[DstSlot(t)].ports)
  /\ UNCHANGED <<fn, loaded, ht, arrived, mixed>>

Next ==
  \/ \E f \in ModuleFns : Load(f)
  \/ Unload
  \/ \E t \in Threads :
       \/ \E port \in Ports, src \in Macs \cup {Group}, to \in Macs \cup {Group} :
            Lookup(t, port, src, to)
       \/ LearnMac(t) \/ LearnPorts(t) \/ Find(t) \/ ReadPorts(t)

Spec == Init /\ [][Next]_vars
-----------------------------------------------------------------------------
(* Properties.                                                             *)

(* Table entries, packets and results stay in their ranges. *)
TypeOK ==
  /\ fn \in Fns /\ loaded \in {0, 1}
  /\ ht \in [HashSlots -> [mac : Macs \cup {0}, ports : Ports]]
  /\ pc \in [Threads -> {"idle", "mac", "ports", "find", "read"}]
  /\ pkt \in [Threads -> [f : Fns, port : Ports, src : Macs \cup {Group},
                          dst : Macs \cup {Group}]]
  /\ dst \in [Threads -> 0 .. NPorts]
  /\ arrived \in [Macs -> SUBSET Ports] /\ mixed \subseteq HashSlots

(* The last step of a lookup that found its destination, undisturbed. *)
RightPort ==
  \A t \in Threads :
    pc[t] = "read" /\ pc'[t] = "idle"
      /\ DstSlot(t) \notin mixed /\ Alone(t, DstSlot(t))
    => dst'[t] \in arrived[pkt[t].dst]

(* A lookup that found its destination sends the packet to a port on which *)
(* that address has come in, whatever other addresses share its slot and   *)
(* whichever functions used the table before, unless another thread came   *)
(* between its two reads or between the two stores it reads.  A source     *)
(* that comes in undisturbed sets its slot right again.                    *)
FoundDst == [][RightPort]_vars

(* A port on which an address of slot s has come in, or that of the empty  *)
(* table.                                                                  *)
UsedPort(s, port) ==
  port = 0 \/ \E f \in Fns, mac \in Macs : SlotOf(f, mac) = s /\ port \in arrived[mac]

(* The last step of any lookup that found its destination. *)
SlotPort ==
  \A t \in Threads :
    pc[t] = "read" /\ pc'[t] = "idle" =>
      arrived[pkt[t].dst] # {} /\ UsedPort(DstSlot(t), dst'[t])

(* However the threads run, nothing is found that has not been a source,   *)
(* and a packet that found its destination goes at worst to a port of an   *)
(* address of the same slot, or to port 0 if none was stored there before: *)
(* never to a port that has nothing to do with the slot.                   *)
FoundShared == [][SlotPort]_vars
=============================================================================
