----------------------------- MODULE BdgStatic ------------------------------
(***************************************************************************)
(* The static lookup modules of a bridge: mac-static (lookup2) and         *)
(* ip-static (lookup3, which asks lookup2 first).  Both hold a table for   *)
(* each bridge that an operator fills with ioctls: BDGIOCREG puts a bridge *)
(* under the module, BDGIOCADDIF adds an address, BDGIOCLIST, called again *)
(* and again, lists a table.  The operator calls bdgfnctl for each.  The   *)
(* ioctls take no lock: one operator, one that lists and a forwarding      *)
(* thread run side by side here.                                           *)
(***************************************************************************)
EXTENDS BdgCtl

CONSTANTS
  NBridges,   \* bridges 0 .. NBridges - 1
  NHash,      \* slots 0 .. NHash - 1 of a table
  Macs, Ips,  \* addresses, none of them 0
  MacHash,    \* nm_bridge_rthash of each MAC address
  IpHash,     \* iphash2 of each IP address
  Lines,      \* command lines the operator may give
  NPorts,     \* ports 0 .. NPorts - 1
  MaxIoctls   \* bound: ioctls of the operator

ASSUME StaticAssumption ==
  /\ NBridges \in Nat \ {0} /\ NHash \in Nat /\ NPorts \in Nat /\ MaxIoctls \in Nat
  /\ Macs \subseteq Nat \ {0} /\ Ips \subseteq Nat \ {0}
  /\ MacHash \in [Macs -> 0 .. NHash - 1] /\ IpHash \in [Ips -> 0 .. NHash - 1]

(* The operator names bridges, addresses and ports that there are: neither *)
(* the tool nor the modules look at the numbers.                           *)
ASSUME LinesAssumption ==
  \A l \in Lines :
    /\ Complete(l)
    /\ l.opts \in Seq([opt : STRING, val : Nat])
    /\ Says(l, "b") \in 0 .. NBridges - 1
    /\ l.cmd = "addif" => Says(l, AddrOption(l)) \in (IF l.dev = "mac" THEN Macs ELSE Ips)
    /\ l.cmd # "listif" => Says(l, PortOption(l)) \in 0 .. NPorts - 1

VARIABLES
  loaded,       \* modules that are loaded
  fn,           \* lookup function of each bridge, and the module it is in
  mrt, mctl,    \* mac-static: rt[b].ht and rt[b].ctl
  irt, ictl,    \* ip-static: the same
  irts,         \* bridges whose table ip-static has set up
  ioctls,       \* ioctls started
  given,        \* lines the operator has given, to register or to add
  opc, req, oj, \* operator: where, with which request, loop index of rt_init
  lpc, lb, li,  \* listing: where, of which module and bridge, nr_arg1
  lmust, lgot,  \* listing: addresses it must show, those it has shown
  tpc, pkt,     \* forwarding thread: where, with which packet
  ctl, dst      \* forwarding thread: locals of lookup3

modVars == <<loaded, fn>>
tabVars == <<mrt, mctl, irt, ictl, irts>>
opVars == <<ioctls, given, opc, req, oj>>
listVars == <<lpc, lb, li, lmust, lgot>>
fwdVars == <<tpc, pkt, ctl, dst>>
vars == <<loaded, fn, mrt, mctl, irt, ictl, irts, ioctls, given, opc, req, oj,
          lpc, lb, li, lmust, lgot, tpc, pkt, ctl, dst>>

Bridges == 0 .. NBridges - 1
HashSlots == 0 .. NHash - 1
NM_BDG_NOPORT == NPorts + 1
NoAddr == 0    \* no IP header; as a MAC address, one with the group bit
Entry(addr, ports) == [addr |-> addr, ports |-> ports]
Table(ports) == [b \in Bridges |-> [s \in HashSlots |-> Entry(0, ports)]]
Gone == <<"gone", "none">>   \* a function that was unloaded
NoPacket == [sip |-> 0, dip |-> 0, ready |-> FALSE]

Init ==
  /\ loaded = {}
  /\ fn = [b \in Bridges |-> <<"netmap", "learning">>]
  /\ mrt = Table(0) /\ mctl = [b \in Bridges |-> 0]
  /\ irt = Table(0) /\ ictl = [b \in Bridges |-> 0] /\ irts = {}
  /\ ioctls = 0 /\ given = {} /\ opc = "idle" /\ oj = 0
  /\ req = NoRequest
  /\ lpc = "idle" /\ lb = <<"mac", 0>> /\ li = 0 /\ lmust = {} /\ lgot = {}
  /\ tpc = "idle" /\ pkt = NoPacket
  /\ ctl = 0 /\ dst = 0

-----------------------------------------------------------------------------
(* Loading and unloading.  ip-static uses lookup2: mac-static comes first  *)
(* and goes last.  A module does not go while its device is in use.        *)

(* mac_static_init, with rt_init of every table *)
MacInit ==
  /\ "mac" \notin loaded
  /\ loaded' = loaded \cup {"mac"}
  /\ mrt' = Table(NM_BDG_NOPORT) /\ mctl' = [b \in Bridges |-> NM_BDG_NOPORT]
  /\ UNCHANGED <<fn, irt, ictl, irts, opVars, listVars, fwdVars>>

(* ip_static_init *)
IpInit ==
  /\ "mac" \in loaded /\ "ip" \notin loaded
  /\ loaded' = loaded \cup {"ip"}
  /\ irt' = Table(0) /\ ictl' = [b \in Bridges |-> 0] /\ irts' = {}
  /\ UNCHANGED <<fn, mrt, mctl, opVars, listVars, fwdVars>>

(* mac_static_exit and ip_static_exit: bdg_learning, which bridge 0 gets,  *)
(* is the module's own.  All its functions go with it, for good: loaded    *)
(* again, it has new ones.  So do its tables, and a thread inside of it is *)
(* lost.                                                                   *)
Exit(m) ==
  /\ m \in loaded /\ (m = "mac" => "ip" \notin loaded)
  /\ opc = "idle" /\ lpc = "idle"
  /\ loaded' = loaded \ {m}
  /\ fn' = [b \in Bridges |-> IF b = 0 \/ fn[b][1] = m THEN Gone ELSE fn[b]]
  /\ IF m = "mac"
       THEN /\ mrt' = Table(0) /\ mctl' = [b \in Bridges |-> 0]
            /\ UNCHANGED <<irt, ictl, irts, tpc>>
       ELSE /\ irt' = Table(0) /\ ictl' = [b \in Bridges |-> 0] /\ irts' = {}
            /\ tpc' = IF tpc \in {"src", "dst"} THEN "gone" ELSE tpc
            /\ UNCHANGED <<mrt, mctl>>
  /\ UNCHANGED <<opVars, listVars, pkt, ctl, dst>>

-----------------------------------------------------------------------------
(* ioctls of the operator: bdgctl of the two modules.                      *)

Start(l, pc) ==
  /\ opc = "idle" /\ l.dev \in loaded /\ ioctls < MaxIoctls
  /\ ioctls' = ioctls + 1 /\ given' = given \cup {l}
  /\ req' = ParseOptions(l.opts)
  /\ opc' = pc

(* bdgfnreg; its failure, when there is no such bridge, is not looked at. *)
Register(b, f) == fn' \in {fn, [fn EXCEPT ![b] = f]}

(* mac-static, BDGIOCREG: bdgfnreg, then the control port. *)
MacReg(l) ==
  /\ l.dev = "mac" /\ Ioctl(l) = "BDGIOCREG"
  /\ Start(l, "mac_ctl")
  /\ Register(req'.b, <<"mac", "lookup2">>)
  /\ UNCHANGED <<loaded, tabVars, oj, listVars, fwdVars>>

MacRegCtl ==
  /\ opc = "mac_ctl"
  /\ mctl' = [mctl EXCEPT ![req.b] = req.port]
  /\ opc' = "idle" /\ req' = NoRequest
  /\ UNCHANGED <<modVars, mrt, irt, ictl, irts, ioctls, given, oj, listVars, fwdVars>>

(* A listing need not show an address that is overwritten.                 *)
Overwritten(table, b, entry, a) ==
  lmust' = IF lb = <<table, b>> THEN lmust \ ({entry.addr} \ {a}) ELSE lmust

(* mac-static, BDGIOCADDIF: bdgaddif2 stores the address, then the port. *)
MacAdd(l) ==
  /\ l.dev = "mac" /\ Ioctl(l) = "BDGIOCADDIF"
  /\ Start(l, "mac_ports")
  /\ LET b == req'.b
         s == MacHash[req'.addr]
     IN  /\ mrt' = [mrt EXCEPT ![b][s].addr = req'.addr]
         /\ Overwritten("mac", b, mrt[b][s], req'.addr)
  /\ UNCHANGED <<modVars, mctl, irt, ictl, irts, oj, lpc, lb, li, lgot, fwdVars>>

MacAddPorts ==
  /\ opc = "mac_ports"
  /\ mrt' = [mrt EXCEPT ![req.b][MacHash[req.addr]].ports = AddPort(req)]
  /\ opc' = "idle" /\ req' = NoRequest
  /\ UNCHANGED <<modVars, mctl, irt, ictl, irts, ioctls, given, oj, listVars, fwdVars>>

(* ip-static, BDGIOCREG: bdgfnreg, rt_init, then the control port. *)
IpReg(l) ==
  /\ l.dev = "ip" /\ Ioctl(l) = "BDGIOCREG"
  /\ Start(l, "ip_noctl")
  /\ Register(req'.b, <<"ip", "lookup3">>)
  /\ UNCHANGED <<loaded, tabVars, oj, listVars, fwdVars>>

IpRegInit ==
  /\ opc = "ip_noctl"
  /\ ictl' = [ictl EXCEPT ![req.b] = NM_BDG_NOPORT]
  /\ opc' = "ip_loop" /\ oj' = 0
  /\ UNCHANGED <<modVars, mrt, mctl, irt, irts, ioctls, given, req, listVars, fwdVars>>

(* Mutated: rt_init as in mac-static. *)
InitPortNone == NM_BDG_NOPORT

InitPort == req.port

(* Mutated: one entry too many. *)
InLoopLate == oj <= NHash

InLoop == oj < NHash

IpRegLoop ==
  /\ opc = "ip_loop" /\ InLoop
  /\ irt' = [irt EXCEPT ![req.b][oj].ports = InitPort]
  /\ oj' = oj + 1
  /\ UNCHANGED <<modVars, mrt, mctl, ictl, irts, ioctls, given, opc, req, listVars, fwdVars>>

IpRegCtl ==
  /\ opc = "ip_loop" /\ ~InLoop
  /\ ictl' = [ictl EXCEPT ![req.b] = req.port]
  /\ irts' = irts \cup {req.b}
  /\ opc' = "idle" /\ oj' = 0 /\ req' = NoRequest
  /\ UNCHANGED <<modVars, mrt, mctl, irt, ioctls, given, listVars, fwdVars>>

(* ip-static, BDGIOCADDIF: bdgaddif3. *)
IpAdd(l) ==
  /\ l.dev = "ip" /\ Ioctl(l) = "BDGIOCADDIF"
  /\ Start(l, "ip_ports")
  /\ LET b == req'.b
         s == IpHash[req'.addr]
     IN  /\ irt' = [irt EXCEPT ![b][s].addr = req'.addr]
         /\ Overwritten("ip", b, irt[b][s], req'.addr)
  /\ UNCHANGED <<modVars, mrt, mctl, ictl, irts, oj, lpc, lb, li, lgot, fwdVars>>

IpAddPorts ==
  /\ opc = "ip_ports"
  /\ irt' = [irt EXCEPT ![req.b][IpHash[req.addr]].ports = AddPort(req)]
  /\ opc' = "idle" /\ req' = NoRequest
  /\ UNCHANGED <<modVars, mrt, mctl, ictl, irts, ioctls, given, oj, listVars, fwdVars>>

-----------------------------------------------------------------------------
(* Listing a table: bdgfn_do calls BDGIOCLIST until bdglist, which each    *)
(* module has for its own table, has no more.                              *)

(* What the two functions report of an entry; 0 is an empty one. *)
MacListed(b, i) == mrt[b][i].addr
IpListed(b, i) == irt[b][i].addr

Listed(t, i) == IF t[1] = "mac" THEN MacListed(t[2], i) ELSE IpListed(t[2], i)

ListStart(l) ==
  /\ lpc = "idle" /\ Ioctl(l) = "BDGIOCLIST" /\ l.dev \in loaded
  /\ lpc' = "list" /\ li' = 0 /\ lgot' = {}
  /\ lb' = <<l.dev, ParseOptions(l.opts).b>>
  /\ lmust' = {Listed(lb', s) : s \in HashSlots} \ {0}
  /\ UNCHANGED <<modVars, tabVars, opVars, fwdVars>>

(* Mutated: bdglist and its caller both step past an entry. *)
ListNextTwice(addr) == li + (IF addr = 0 THEN 1 ELSE 2)

(* An empty entry is passed by bdglist's loop; after one it has reported,  *)
(* the caller goes on at nr_arg1 + 1.                                      *)
ListNext(addr) == li + 1

ListEntry ==
  /\ lpc = "list" /\ li < NHash
  /\ LET addr == Listed(lb, li) IN
       /\ lgot' = lgot \cup ({addr} \ {0})
       /\ li' = ListNext(addr)
  /\ UNCHANGED <<modVars, tabVars, opVars, lpc, lb, lmust, fwdVars>>

(* ENOENT *)
ListEnd ==
  /\ lpc = "list" /\ li >= NHash
  /\ lpc' = "ended"
  /\ UNCHANGED <<modVars, tabVars, opVars, lb, li, lmust, lgot, fwdVars>>

ListClose ==
  /\ lpc = "ended"
  /\ lpc' = "idle" /\ lb' = <<"mac", 0>> /\ li' = 0 /\ lmust' = {} /\ lgot' = {}
  /\ UNCHANGED <<modVars, tabVars, opVars, fwdVars>>

-----------------------------------------------------------------------------
(* Forwarding: bridge b calls its lookup function.                         *)

(* lookup2, which takes the table of bridge 0 and the source address, and  *)
(* does not compare it.                                                    *)
Lookup2(mac) == IF mac = NoAddr THEN mctl[0] ELSE mrt[0][MacHash[mac]].ports

(* The function is gone. *)
Crash(b) ==
  /\ tpc = "idle" /\ fn[b] = Gone
  /\ tpc' = "gone"
  /\ UNCHANGED <<modVars, tabVars, opVars, listVars, pkt, ctl, dst>>

(* A bridge under mac-static. *)
CallLookup2(b, mac) ==
  /\ tpc = "idle" /\ fn[b] = <<"mac", "lookup2">> /\ "mac" \in loaded
  /\ dst' = Lookup2(mac)
  /\ tpc' = "out"
  /\ UNCHANGED <<modVars, tabVars, opVars, listVars, pkt, ctl>>

(* A bridge under ip-static: lookup3 reads the control port of bridge 0    *)
(* and asks lookup2.  pkt.ready notes whether that bridge's table was set  *)
(* up then.                                                                *)
CallLookup3(b, mac, sip, dip) ==
  /\ tpc = "idle" /\ fn[b] = <<"ip", "lookup3">> /\ "ip" \in loaded
  /\ pkt' = [sip |-> sip, dip |-> dip, ready |-> 0 \in irts]
  /\ ctl' = ictl[0] /\ dst' = Lookup2(mac)
  /\ tpc' = IF Lookup2(mac) # NM_BDG_NOPORT \/ sip = NoAddr THEN "out" ELSE "src"
  /\ UNCHANGED <<modVars, tabVars, opVars, listVars>>

Lookup3Src ==
  /\ tpc = "src"
  /\ dst' = irt[0][IpHash[pkt.sip]].ports
  /\ tpc' = "dst"
  /\ UNCHANGED <<modVars, tabVars, opVars, listVars, pkt, ctl>>

Lookup3Dst ==
  /\ tpc = "dst"
  /\ dst' = IF dst = ctl THEN irt[0][IpHash[pkt.dip]].ports ELSE dst
  /\ tpc' = "out"
  /\ UNCHANGED <<modVars, tabVars, opVars, listVars, pkt, ctl>>

(* The packet goes to port dst. *)
Return ==
  /\ tpc = "out"
  /\ tpc' = "idle" /\ pkt' = NoPacket /\ ctl' = 0 /\ dst' = 0
  /\ UNCHANGED <<modVars, tabVars, opVars, listVars>>

-----------------------------------------------------------------------------
Operator ==
  \/ \E l \in Lines : MacReg(l) \/ IpReg(l) \/ MacAdd(l) \/ IpAdd(l)
  \/ MacRegCtl \/ MacAddPorts \/ IpRegInit \/ IpRegLoop \/ IpRegCtl \/ IpAddPorts

List == (\E l \in Lines : ListStart(l)) \/ ListEntry \/ ListEnd \/ ListClose

Forward ==
  \/ \E b \in Bridges :
       \/ Crash(b)
       \/ \E mac \in Macs \cup {NoAddr} :
            \/ CallLookup2(b, mac)
            \/ \E sip \in Ips \cup {NoAddr}, dip \in Ips :
                 CallLookup3(b, mac, sip, dip)
  \/ Lookup3Src \/ Lookup3Dst \/ Return

Next ==
  \/ MacInit \/ IpInit \/ \E m \in {"mac", "ip"} : Exit(m)
  \/ Operator \/ List \/ Forward

Spec == Init /\ [][Next]_vars
-----------------------------------------------------------------------------
(* Properties.                                                             *)

(* Ports, slots and program counters stay in their ranges. *)
TypeOK ==
  /\ loaded \subseteq {"mac", "ip"} /\ ("ip" \in loaded => "mac" \in loaded)
  /\ \A b \in Bridges, s \in HashSlots :
       /\ mrt[b][s].addr \in Macs \cup {0} /\ irt[b][s].addr \in Ips \cup {0}
       /\ {mrt[b][s].ports, irt[b][s].ports} \subseteq 0 .. NM_BDG_NOPORT
  /\ ioctls \in 0 .. MaxIoctls /\ oj \in 0 .. NHash /\ li \in Nat
  /\ lpc \in {"idle", "list", "ended"}
  /\ tpc \in {"idle", "src", "dst", "out", "gone"}

(* Once bridge 0 has been put under ip-static, an IP packet goes to the    *)
(* port of some command line for it, even while the bridge is put under it *)
(* again.                                                                  *)
IpNamed ==
  tpc = "out" /\ pkt.ready /\ pkt.sip # NoAddr
    => \E l \in given : Says(l, "b") = 0 /\ dst = PortOf(l)

(* Each entry of a table is what a command line said: the port it named    *)
(* for this address, or, in ip-static, for the bridge; only a MAC address  *)
(* behind a registration's port changes it, by its lowest byte.  The       *)
(* tool's request and the table's slots keep address and port of different *)
(* lines apart.                                                            *)
EntrySaid ==
  opc \notin {"mac_ports", "ip_ports"} =>
    \A dev \in {"mac", "ip"}, b \in Bridges, s \in HashSlots :
      LET e == IF dev = "mac" THEN mrt[b][s] ELSE irt[b][s] IN
        e.addr # 0 => \E l \in given :
          /\ l.dev = dev /\ Says(l, "b") = b /\ e.ports = PortOf(l)
          /\ \/ l.cmd = "addif" /\ Says(l, AddrOption(l)) = e.addr
             \/ l.cmd = "regfn" /\ dev = "ip"

(* A listing shows every address that was in the table when it began and   *)
(* was not overwritten since, whatever is added meanwhile.                 *)
ListComplete == lpc = "ended" => lmust \subseteq lgot

(* Forwarding never runs into a module that was unloaded: the bridges have *)
(* been given back the default lookup function.                            *)
FnPresent == tpc # "gone"
=============================================================================
