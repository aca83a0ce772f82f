------------------------------- MODULE Grants -------------------------------
(***************************************************************************)
(* How a vif's rings and buffers get into the guest.                       *)
(*                                                                         *)
(* Backend (netback): when the vif is attached to its bridge, the pages of *)
(* both rings and of their buffers are granted.  The references of ring    *)
(* pages go to xenstore, those of buffer pages into the slots.  They are   *)
(* revoked when the vif is freed.                                          *)
(* Guest (netfront): setup_netfront_netmap reads the references, maps the  *)
(* pages and takes slot i's buffer to be the i-th half page.               *)
(*                                                                         *)
(* A grant reference is a number, a page of buffers is the index of its    *)
(* first buffer divided by two (NETFRONT_BUF_SIZE is half a page).         *)
(***************************************************************************)
EXTENDS Integers, Sequences, FiniteSets

CONSTANTS
  RingPages,   \* pages one ring takes
  NSlots,      \* num_slots of both rings
  TxBase,      \* index of the first buffer of the transmit ring
  NRefs,       \* grant table entries of Dom0
  Elsewhere,   \* entries other backends may have taken
  MaxVifs,     \* bound: vifs created for this device, one after the other
  MaxAttach,   \* bound: times one vif is attached to its bridge
  LostCommits  \* may a xenstore transaction conflict: a subset of BOOLEAN

ASSUME GrantAssumption ==
  /\ RingPages \in Nat \ {0} /\ NSlots \in Nat \ {0}
  /\ TxBase \in Nat /\ NRefs \in Nat
  /\ Elsewhere \subseteq 1 .. NRefs
  /\ MaxVifs \in Nat /\ MaxAttach \in Nat
  /\ LostCommits \subseteq BOOLEAN

VARIABLES
  vif, vifs,          \* xenvif: "up", "down" or "lost"; how many there were
  att, attaches,      \* xenvif: "on" its bridge or "off"; how many times
  nr_ring_pgs,        \* xenvif: nm_grant_ring of each ring
  nr_buf_pgs,
  ring_ref, buf_ref,
  freed,              \* first entries of buf_pg arrays given back to vmalloc
  gtab,               \* grant table of Dom0: active reference -> page
  vifgref,            \* shared rings: VIFGREF of each slot
  feature, refs,      \* xenstore: feature-netmap, references of ring pages
  gpc,                \* guest: where setup_netfront_netmap is
  ring_grefs,         \* guest: references read
  ring_gnt, bufs_gnt, \* guest: page behind each mapped address
  held                \* references the guest has mapped and not unmapped

backVars == <<vif, vifs, att, attaches, nr_ring_pgs, nr_buf_pgs, ring_ref,
              buf_ref, freed>>
guestVars == <<gpc, ring_grefs, ring_gnt, bufs_gnt, held>>
vars == <<vif, vifs, att, attaches, nr_ring_pgs, nr_buf_pgs, ring_ref, buf_ref,
          freed, gtab, vifgref, feature, refs, gpc, ring_grefs, ring_gnt,
          bufs_gnt, held>>

Dirs == {"tx", "rx"}
Slots == 0 .. NSlots - 1
NoRef == -1     \* gnttab_grant_foreign_access found no free entry
None == <<"none">>
Other == <<"other">>    \* a page granted by another backend
Unknown == <<"unknown">> \* the page an uninitialized struct page * stands for
RingPage(d, k) == <<"ring", d, k>>
BufPage(n) == <<"buf", n>>
Entries(s) == {s[k] : k \in DOMAIN s}

(* The n-th smallest element of a set of numbers. *)
Nth(S, n) == CHOOSE e \in S : Cardinality({f \in S : f < e}) = n - 1

-----------------------------------------------------------------------------
(* Backend: what is granted, and in which order.                           *)

(* netmap gives the rings' slots consecutive buffers. *)
BufBase(d) == IF d = "tx" THEN TxBase ELSE TxBase + NSlots
PageOf(d, i) == BufPage((BufBase(d) + i) \div 2)

(* nm_ring_pages: the pages of a ring, and how many it says there are. *)
RingPgs(d) == [k \in 1 .. RingPages |-> RingPage(d, k)]

(* Mutated: the distance of the last page from the first one. *)
NrRingPgsShort(d) == RingPages - 1

NrRingPgs(d) == RingPages

(* nm_buf_pages: slots whose buffer is not in the page of the one before.  *)
(* The first slot is compared with what vmalloc left in the array.         *)
NewPage(d) == {i \in Slots : i = 0 \/ PageOf(d, i) # PageOf(d, i - 1)}
Marked(d, stale) == NewPage(d) \ (IF stale = PageOf(d, 0) THEN {0} ELSE {})
BufPgs(d) == [k \in 1 .. Cardinality(NewPage(d)) |-> PageOf(d, Nth(NewPage(d), k))]

NrBufPgs(d) == Cardinality(NewPage(d)) - 1

(* Mutated: the array is granted from its second entry on. *)
BufGrantsLate(d, stale) ==
  [k \in 1 .. Cardinality(Marked(d, stale)) |->
     BufPgs(d)[IF k < Len(BufPgs(d)) THEN k + 1 ELSE k]]

(* xenvif_grant_ring: the k-th marked slot gets the k-th page; then the    *)
(* ring's pages, and one entry beyond the last one.                        *)
BufGrants(d, stale) ==
  [k \in 1 .. Cardinality(Marked(d, stale)) |-> BufPgs(d)[k]]
RingGrants(d) ==
  [k \in 1 .. NrRingPgs(d) + 1 |->
     IF k <= RingPages THEN RingPgs(d)[k] ELSE Unknown]

(* gnttab_grant_foreign_access: the k-th of several calls. *)
FreeRefs == 1 .. NRefs \ DOMAIN gtab
FreeRef(k) == IF k <= Cardinality(FreeRefs) THEN Nth(FreeRefs, k) ELSE NoRef

-----------------------------------------------------------------------------
Init ==
  /\ vif = "down" /\ vifs = 0
  /\ att = "off" /\ attaches = 0
  /\ nr_ring_pgs = [d \in Dirs |-> 0] /\ nr_buf_pgs = [d \in Dirs |-> 0]
  /\ ring_ref = [d \in Dirs |-> <<>>] /\ buf_ref = [d \in Dirs |-> <<>>]
  /\ freed = {}
  /\ \E taken \in SUBSET Elsewhere : gtab = [r \in taken |-> Other]
  /\ vifgref = [d \in Dirs |-> [i \in Slots |-> 0]]
  /\ feature = 0 /\ refs = [d \in Dirs |-> <<>>]
  /\ gpc = "none"
  /\ ring_grefs = [d \in Dirs |-> <<>>]
  /\ ring_gnt = [d \in Dirs |-> <<>>] /\ bufs_gnt = [d \in Dirs |-> <<>>]
  /\ held = {}

(* xenvif_alloc and xenvif_netmap_attach; netback_probe has written        *)
(* feature-netmap 0.  The new xenvif is zeroed.  The guest has left the    *)
(* device there was before.                                                *)
VifAlloc ==
  /\ vif = "down" /\ gpc = "none" /\ vifs < MaxVifs
  /\ vif' = "up" /\ vifs' = vifs + 1
  /\ att' = "off" /\ attaches' = 0
  /\ nr_ring_pgs' = [d \in Dirs |-> 0] /\ nr_buf_pgs' = [d \in Dirs |-> 0]
  /\ ring_ref' = [d \in Dirs |-> <<>>] /\ buf_ref' = [d \in Dirs |-> <<>>]
  /\ feature' = 0
  /\ UNCHANGED <<freed, gtab, vifgref, refs, guestVars>>

(* vale-ctl -a: xenvif_netmap_reg(hwna, 1) calls xenvif_netmap_map, which  *)
(* grants both rings and writes the references in one transaction.  The    *)
(* error of xenbus_transaction_end is not looked at.                       *)
BridgeAttach(stale, lost) ==
  /\ vif = "up" /\ att = "off" /\ attaches < MaxAttach
  /\ nr_ring_pgs["tx"] = 0
  /\ att' = "on" /\ attaches' = attaches + 1
  /\ LET txb == BufGrants("tx", stale["tx"])
         txr == RingGrants("tx")
         rxb == BufGrants("rx", stale["rx"])
         rxr == RingGrants("rx")
         all == txb \o txr \o rxb \o rxr
         ref == [k \in 1 .. Len(all) |-> FreeRef(k)]
         Part(from, s) == SubSeq(ref, from + 1, from + Len(s))
         b == [d \in Dirs |-> IF d = "tx" THEN Part(0, txb)
                              ELSE Part(Len(txb) + Len(txr), rxb)]
         r == [d \in Dirs |-> IF d = "tx" THEN Part(Len(txb), txr)
                              ELSE Part(Len(all) - Len(rxr), rxr)]
     IN  /\ buf_ref' = b /\ ring_ref' = r
         /\ vifgref' = [d \in Dirs |-> [i \in Slots |->
              LET m == Marked(d, stale[d])
                  k == Cardinality({n \in m : n <= i})
              IN  IF i \in m THEN b[d][k] ELSE 0]]
         /\ gtab' = [e \in DOMAIN gtab \cup (Entries(ref) \ {NoRef}) |->
              IF e \in DOMAIN gtab THEN gtab[e]
              ELSE all[CHOOSE k \in DOMAIN ref : ref[k] = e]]
         /\ refs' = IF lost THEN refs ELSE r
  /\ nr_ring_pgs' = [d \in Dirs |-> NrRingPgs(d)]
  /\ nr_buf_pgs' = [d \in Dirs |-> NrBufPgs(d)]
  /\ UNCHANGED <<vif, vifs, freed, feature, guestVars>>

(* The same when the rings are granted already: xenvif_netmap_map returns. *)
(* netmap has set the rings up anew at their place; the slots' ptr may be  *)
(* reset.                                                                  *)
BridgeReattach(keep) ==
  /\ vif = "up" /\ att = "off" /\ attaches < MaxAttach
  /\ nr_ring_pgs["tx"] # 0
  /\ att' = "on" /\ attaches' = attaches + 1
  /\ vifgref' = IF keep THEN vifgref ELSE [d \in Dirs |-> [i \in Slots |-> 0]]
  /\ UNCHANGED <<vif, vifs, nr_ring_pgs, nr_buf_pgs, ring_ref, buf_ref, freed,
                 gtab, feature, refs, guestVars>>

(* vale-ctl -d: xenvif_netmap_reg(hwna, 0) keeps the grants. *)
BridgeDetach ==
  /\ att = "on"
  /\ att' = "off"
  /\ UNCHANGED <<vif, vifs, attaches, nr_ring_pgs, nr_buf_pgs, ring_ref,
                 buf_ref, freed, gtab, vifgref, feature, refs, guestVars>>

(* Mutated: the script does not wait for vale-ctl -a. *)
SetFeatureEarly ==
  /\ vif = "up" /\ feature = 0
  /\ feature' = 1
  /\ UNCHANGED <<backVars, gtab, vifgref, refs, guestVars>>

(* The hotplug script goes on once vale-ctl -a has returned. *)
SetFeature ==
  /\ att = "on" /\ feature = 0
  /\ feature' = 1
  /\ UNCHANGED <<backVars, gtab, vifgref, refs, guestVars>>

(* Mutated: the array is taken to have nr_buf_pgs entries. *)
RevokedShort(d, junk) ==
  Entries(ring_ref[d]) \cup
  {IF k <= Len(buf_ref[d]) THEN buf_ref[d][k] ELSE junk
     : k \in 1 .. nr_buf_pgs[d]}

(* xenvif_revoke_ring ends the references 0 .. nr of each array.  If a     *)
(* buf_ref array has fewer, its last entry is whatever vmalloc left there. *)
Revoked(d, junk) ==
  Entries(ring_ref[d]) \cup
  {IF k <= Len(buf_ref[d]) THEN buf_ref[d][k] ELSE junk
     : k \in 1 .. nr_buf_pgs[d] + 1}

(* gnttab_grant_foreign_access failed, and its error is in the arrays. *)
Exhausted == \E d \in Dirs : NoRef \in Entries(ring_ref[d]) \cup Entries(buf_ref[d])

(* xenvif_free: xenvif_netmap_detach, xenvif_netmap_unmap.  The device is  *)
(* removed when the guest has disconnected or is gone, or by force.  An    *)
(* entry still mapped by the guest stays in the grant table.               *)
VifFree(junk) ==
  /\ vif = "up" /\ ~Exhausted
  /\ vif' = "down" /\ att' = "off"
  /\ IF nr_ring_pgs["tx"] = 0
       THEN UNCHANGED <<nr_ring_pgs, nr_buf_pgs, ring_ref, buf_ref, freed, gtab>>
       ELSE LET gone == (UNION {Revoked(d, junk) : d \in Dirs}) \ held IN
              /\ gtab' = [e \in DOMAIN gtab \ gone |-> gtab[e]]
              /\ freed' = freed \cup {PageOf(d, 0) : d \in Dirs}
              /\ nr_ring_pgs' = [d \in Dirs |-> 0]
              /\ nr_buf_pgs' = [d \in Dirs |-> 0]
              /\ ring_ref' = [d \in Dirs |-> <<>>]
              /\ buf_ref' = [d \in Dirs |-> <<>>]
  /\ UNCHANGED <<vifs, attaches, vifgref, feature, refs, guestVars>>

(* The same with an error among the references: gnttab_end_foreign_access  *)
(* takes it for an index, far outside of the grant table, and the thread   *)
(* that removes the device does not come back.  The references before it,  *)
(* ring pages first, are ended; the arrays keep those that are not.        *)
RevokeOrder(d, junk) ==
  ring_ref[d] \o [k \in 1 .. nr_buf_pgs[d] + 1 |->
                    IF k <= Len(buf_ref[d]) THEN buf_ref[d][k] ELSE junk]
Ended(order) ==
  {order[k] : k \in {n \in DOMAIN order : \A m \in 1 .. n : order[m] # NoRef}}
Without(s, gone) == [k \in DOMAIN s |-> IF s[k] \in gone THEN NoRef ELSE s[k]]

VifFault(junk) ==
  /\ vif = "up" /\ Exhausted
  /\ vif' = "lost" /\ att' = "off"
  /\ LET gone == Ended(RevokeOrder("tx", junk) \o RevokeOrder("rx", junk)) IN
       /\ gtab' = [e \in DOMAIN gtab \ (gone \ held) |-> gtab[e]]
       /\ ring_ref' = [d \in Dirs |-> Without(ring_ref[d], gone)]
       /\ buf_ref' = [d \in Dirs |-> Without(buf_ref[d], gone)]
  /\ UNCHANGED <<vifs, attaches, nr_ring_pgs, nr_buf_pgs, freed, vifgref, feature,
                 refs, guestVars>>

-----------------------------------------------------------------------------
(* Guest: setup_netfront_netmap, run once feature-netmap is found set.     *)

(* xenbus_read_ring_grefs *)
ReadRingGrefs ==
  /\ gpc = "none" /\ vif = "up" /\ feature = 1
  /\ ring_grefs' = refs
  /\ ring_gnt' = [d \in Dirs |-> <<>>] /\ bufs_gnt' = [d \in Dirs |-> <<>>]
  /\ gpc' = "ring_tx"
  /\ UNCHANGED <<backVars, gtab, vifgref, feature, refs, held>>

(* GNTTABOP_map_grant_ref *)
Mappable(r) == r \in DOMAIN gtab /\ gtab[r] # Other
PageBehind(r) == IF Mappable(r) THEN gtab[r] ELSE None

(* Mutated: all the references are used. *)
RingMappedAll(d) == ring_grefs[d]

(* gnttab_map(rdesc, dom, 0) uses all references but the last. *)
RingMapped(d) == SubSeq(ring_grefs[d], 1, Len(ring_grefs[d]) - 1)

MapRing(d) ==
  /\ gpc = (IF d = "tx" THEN "ring_tx" ELSE "ring_rx")
  /\ LET s == RingMapped(d) IN
       /\ ring_gnt' = [ring_gnt EXCEPT ![d] =
                         [k \in 1 .. Len(s) |-> PageBehind(s[k])]]
       /\ held' = held \cup {r \in Entries(s) : Mappable(r)}
  /\ gpc' = IF d = "tx" THEN "wait_tx" ELSE "wait_rx"
  /\ UNCHANGED <<backVars, gtab, vifgref, feature, refs, ring_grefs, bufs_gnt>>

(* while (num_slots != desc): left when the ring's first page is there. *)
WaitSlots(d) ==
  /\ gpc = (IF d = "tx" THEN "wait_tx" ELSE "wait_rx")
  /\ ring_gnt[d] # <<>> /\ ring_gnt[d][1] = RingPage(d, 1)
  /\ gpc' = IF d = "tx" THEN "ring_rx" ELSE "bufs_tx"
  /\ UNCHANGED <<backVars, gtab, vifgref, feature, refs, ring_grefs, ring_gnt,
                 bufs_gnt, held>>

(* xenbus_read_bufs_grefs: the references in the slots, in order. *)
BufsGrefs(d) ==
  LET S == {i \in Slots : vifgref[d][i] # 0}
  IN  [k \in 1 .. Cardinality(S) |-> vifgref[d][Nth(S, k)]]

(* ... and gnttab_map(rdesc, dom, 1). *)
MapBufs(d) ==
  /\ gpc = (IF d = "tx" THEN "bufs_tx" ELSE "bufs_rx")
  /\ LET s == BufsGrefs(d) IN
       /\ bufs_gnt' = [bufs_gnt EXCEPT ![d] =
                         [k \in 1 .. Len(s) |-> PageBehind(s[k])]]
       /\ held' = held \cup {r \in Entries(s) : Mappable(r)}
  /\ gpc' = IF d = "tx" THEN "bufs_rx" ELSE "evtchn"
  /\ UNCHANGED <<backVars, gtab, vifgref, feature, refs, ring_grefs, ring_gnt>>

(* xenbus_write_evtchn, which repeats a conflicting transaction. *)
WriteEvtchn ==
  /\ gpc = "evtchn"
  /\ gpc' = "ready"
  /\ UNCHANGED <<backVars, gtab, vifgref, feature, refs, ring_grefs, ring_gnt,
                 bufs_gnt, held>>

(* xennet_netmap_disconnect forgets the mappings without undoing them. *)
Disconnect ==
  /\ gpc = "ready"
  /\ gpc' = "none"
  /\ UNCHANGED <<backVars, gtab, vifgref, feature, refs, ring_grefs, ring_gnt,
                 bufs_gnt, held>>

(* The guest is destroyed: Xen undoes its mappings.  References whose end  *)
(* was deferred become free.                                               *)
GuestDies ==
  /\ gpc # "none" \/ held # {}
  /\ gpc' = "none" /\ held' = {}
  /\ LET live == UNION {Entries(ring_ref[d]) \cup Entries(buf_ref[d]) : d \in Dirs}
     IN  gtab' = [e \in {r \in DOMAIN gtab : gtab[r] = Other \/ r \in live} |-> gtab[e]]
  /\ UNCHANGED <<backVars, vifgref, feature, refs, ring_grefs, ring_gnt, bufs_gnt>>

-----------------------------------------------------------------------------
StalePages == freed \cup {None}

Setup ==
  \/ \E d \in Dirs : MapRing(d) \/ WaitSlots(d) \/ MapBufs(d)
  \/ WriteEvtchn

Next ==
  \/ VifAlloc \/ BridgeDetach \/ SetFeature
  \/ \E stale \in [Dirs -> StalePages], lost \in LostCommits :
       BridgeAttach(stale, lost)
  \/ \E keep \in BOOLEAN : BridgeReattach(keep)
  \/ \E junk \in 1 .. NRefs : VifFree(junk) \/ VifFault(junk)
  \/ ReadRingGrefs \/ Setup \/ Disconnect \/ GuestDies

Spec == Init /\ [][Next]_vars

(* setup_netfront_netmap runs on. *)
FairSpec == Spec /\ WF_vars(Setup)
-----------------------------------------------------------------------------
(* Properties.                                                             *)

(* Counters, references and pages stay in their ranges. *)
TypeOK ==
  /\ vif \in {"up", "down", "lost"} /\ att \in {"on", "off"} /\ feature \in {0, 1}
  /\ vifs \in 0 .. MaxVifs /\ attaches \in 0 .. MaxAttach
  /\ \A d \in Dirs :
       /\ nr_ring_pgs[d] \in {0, RingPages}
       /\ nr_buf_pgs[d] \in 0 .. NSlots - 1
       /\ vifgref[d] \in [Slots -> 0 .. NRefs \cup {NoRef}]
       /\ Entries(ring_ref[d]) \cup Entries(buf_ref[d]) \subseteq 1 .. NRefs \cup {NoRef}
  /\ DOMAIN gtab \subseteq 1 .. NRefs /\ held \subseteq DOMAIN gtab
  /\ gpc \in {"none", "ring_tx", "wait_tx", "ring_rx", "wait_rx", "bufs_tx",
              "bufs_rx", "evtchn", "ready"}

Connected == gpc = "ready" /\ vif = "up"

(* nr_ring_pgs counts pages, xenvif_grant_ring and xenbus_write_grefs take *)
(* it for the last index, and gnttab_map leaves out one reference: between *)
(* them the guest maps the ring's pages, in order, and never the page of   *)
(* the entry nobody initialized.                                           *)
RingShared ==
  \A d \in Dirs : \A k \in DOMAIN ring_gnt[d] :
    gpc # "none" => ring_gnt[d][k] \in {RingPage(d, k), None}

(* Both sides mean the same memory by slot i's buffer: the backend looks   *)
(* its index up, the guest takes the i-th half page.  This needs a ring    *)
(* that starts on a page, and a first entry vmalloc did not leave equal to *)
(* the first page.  A page the guest could not map is only missed when the *)
(* grant table was full or the rings were set up again.                    *)
BuffersShared ==
  \A d \in Dirs :
    Connected /\ BufBase(d) % 2 = 0 /\ Len(buf_ref[d]) = nr_buf_pgs[d] + 1 =>
      \A i \in Slots :
        LET k == i \div 2 + 1 IN
          IF k \in DOMAIN bufs_gnt[d]
            THEN bufs_gnt[d][k] = PageOf(d, i) \/ (bufs_gnt[d][k] = None /\ Exhausted)
            ELSE attaches > 1

(* nr_ring_pgs is a count and nr_buf_pgs a last index, and both are used   *)
(* the same way to revoke: a vif that is freed leaves no grant behind,     *)
(* except those the guest still maps, whatever the guest was doing; none   *)
(* is ended while the vif is there.  What the vif has and has not ended is *)
(* in the table even when freeing it broke off.                            *)
GrantsBalanced ==
  LET own == {r \in DOMAIN gtab : gtab[r] # Other}
      live == UNION {Entries(ring_ref[d]) \cup Entries(buf_ref[d]) : d \in Dirs}
  IN  live \ {NoRef} \subseteq own /\ own \subseteq live \cup held

(* The two waiting loops of setup_netfront_netmap end, if the pages were   *)
(* granted and the vif is not removed meanwhile: the guest becomes ready.  *)
SetupEnds ==
  (gpc = "ring_tx" /\ ~Exhausted) ~> (gpc \in {"ready", "none"} \/ vif # "up")
=============================================================================
