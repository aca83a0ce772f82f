---------------------------- MODULE GrantsProofs ----------------------------
(***************************************************************************)
(* Theorems about the grants of a vif's rings and buffers, for all sizes   *)
(* of rings and grant table and any number of vifs.                        *)
(***************************************************************************)
EXTENDS Grants, Counting, SequenceTheorems

-----------------------------------------------------------------------------
(* Counting: the k-th smallest element of a finite set of numbers.         *)

(* A finite set of c numbers has a k-th smallest one for k in 1 .. c. *)
LEMMA NthFound ==
  ASSUME NEW S, S \subseteq Nat, IsFiniteSet(S), NEW k \in 1 .. Cardinality(S)
  PROVE  /\ Nth(S, k) \in S
         /\ Cardinality(Below(S, Nth(S, k))) = k - 1
<1>0. Cardinality(S) \in Nat
  BY FS_CardinalityType
<1> DEFINE T == {n \in Nat : n < Cardinality(S) =>
                   \E e \in S : Cardinality(Below(S, e)) = n}
<1>1. 0 \in T
  <2> SUFFICES ASSUME 0 < Cardinality(S)
               PROVE  \E e \in S : Cardinality(Below(S, e)) = 0
    OBVIOUS
  <2>1. S # {}
    BY FS_EmptySet, <1>0
  <2>2. PICK e \in S : \A y \in S : e <= y
    BY <2>1, LeastElement
  <2>3. \A y \in S : e \in Nat /\ y \in Nat /\ e <= y
    BY <2>2
  <2>4. \A y \in S : ~ (y < e)
    BY <2>3
  <2>5. Below(S, e) = {}
    BY <2>4 DEF Below
  <2> QED
    BY <2>5, FS_EmptySet
<1>2. ASSUME NEW n \in Nat, n \in T PROVE n + 1 \in T
  <2> SUFFICES ASSUME n + 1 < Cardinality(S)
               PROVE  \E e \in S : Cardinality(Below(S, e)) = n + 1
    OBVIOUS
  <2>1. PICK e \in S : Cardinality(Below(S, e)) = n
    BY <1>0, <1>2
  <2> QED
    BY <2>1, NextElement
<1>3. Nat \subseteq T
  <2> HIDE DEF T
  <2> QED
    BY <1>1, <1>2, Induction
<1>4. k - 1 \in Nat /\ k - 1 < Cardinality(S)
  BY <1>0
<1>5. \E e \in S : Cardinality(Below(S, e)) = k - 1
  BY <1>3, <1>4
<1> QED
  BY <1>5 DEF Nth, Below

-----------------------------------------------------------------------------
(* What is granted.                                                        *)

Pages == {Unknown} \cup {RingPage(d, k) : d \in Dirs, k \in Nat}
                   \cup {BufPage(n) : n \in Nat}

(* No page of a vif is one of another backend, nor is it no page at all. *)
LEMMA OwnPages == Other \notin Pages /\ None \notin Pages
<1>1. Other # Unknown /\ None # Unknown
  BY DEF Other, Unknown, None
<1>2. \A d, k : Other # RingPage(d, k) /\ None # RingPage(d, k)
  BY DEF Other, RingPage, None
<1>3. \A n : Other # BufPage(n) /\ None # BufPage(n)
  BY DEF Other, BufPage, None
<1> QED
  BY <1>1, <1>2, <1>3 DEF Pages

(* The slots nm_buf_pages finds at the start of a page: at least the first *)
(* one, at most all of them.                                               *)
LEMMA NewPages ==
  ASSUME NEW d \in Dirs
  PROVE  /\ NewPage(d) \subseteq Slots /\ 0 \in NewPage(d)
         /\ IsFiniteSet(NewPage(d))
         /\ Cardinality(NewPage(d)) \in 1 .. NSlots
<1>1. NewPage(d) \in SUBSET Slots /\ 0 \in NewPage(d)
  BY GrantAssumption DEF NewPage, Slots
<1>2. IsFiniteSet(Slots) /\ Cardinality(Slots) = NSlots
  BY FS_Interval, GrantAssumption DEF Slots
<1>3. IsFiniteSet(NewPage(d)) /\ Cardinality(NewPage(d)) <= NSlots
  BY <1>1, <1>2, FS_Subset
<1>4. Cardinality(NewPage(d)) \in Nat /\ Cardinality(NewPage(d)) # 0
  BY <1>1, <1>3, FS_EmptySet, FS_CardinalityType
<1> QED
  BY <1>1, <1>3, <1>4, GrantAssumption

(* Of these, whatever vmalloc left behind, at most the first is missed. *)
LEMMA MarkedPages ==
  ASSUME NEW d \in Dirs, NEW stale
  PROVE  /\ Marked(d, stale) \subseteq NewPage(d) /\ IsFiniteSet(Marked(d, stale))
         /\ Cardinality(Marked(d, stale)) \in 0 .. NrBufPgs(d) + 1
<1>1. Marked(d, stale) \in SUBSET NewPage(d)
  BY DEF Marked
<1>2. IsFiniteSet(Marked(d, stale))
      /\ Cardinality(Marked(d, stale)) <= Cardinality(NewPage(d))
  BY <1>1, NewPages, FS_Subset
<1>3. Cardinality(Marked(d, stale)) \in Nat
  BY <1>2, FS_CardinalityType
<1>4. Cardinality(NewPage(d)) \in Nat
  BY NewPages
<1> QED
  BY <1>1, <1>2, <1>3, <1>4 DEF NrBufPgs

(* A slot's buffer is in a page. *)
LEMMA PageOfType ==
  ASSUME NEW d \in Dirs, NEW i \in Slots
  PROVE  PageOf(d, i) \in Pages
<1>1. BufBase(d) + i \in Nat
  BY GrantAssumption DEF BufBase, Slots
<1>2. (BufBase(d) + i) \div 2 \in Nat
  BY <1>1
<1> QED
  BY <1>2 DEF PageOf, Pages

(* Both arrays of pages to grant. *)
LEMMA GrantSeqs ==
  ASSUME NEW d \in Dirs, NEW stale
  PROVE  /\ BufGrants(d, stale) \in Seq(Pages)
         /\ Len(BufGrants(d, stale)) = Cardinality(Marked(d, stale))
         /\ RingGrants(d) \in Seq(Pages)
         /\ Len(RingGrants(d)) = RingPages + 1
<1> DEFINE m == Cardinality(Marked(d, stale))
           c == Cardinality(NewPage(d))
<1>1. m \in Nat /\ c \in Nat /\ m <= c
  BY MarkedPages, NewPages DEF NrBufPgs
<1>2. \A k \in 1 .. c : Nth(NewPage(d), k) \in Slots
  <2>1. NewPage(d) \subseteq Nat
    BY NewPages, GrantAssumption DEF Slots
  <2> QED
    BY <2>1, NewPages, NthFound
<1>3. \A k \in 1 .. c : PageOf(d, Nth(NewPage(d), k)) \in Pages
  BY <1>2, PageOfType
<1>4. \A k \in 1 .. c : BufPgs(d)[k] \in Pages
  BY <1>3 DEF BufPgs
<1> HIDE DEF m, c
<1>5. \A k \in 1 .. m : BufPgs(d)[k] \in Pages
  BY <1>1, <1>4
<1>6. BufGrants(d, stale) = [k \in 1 .. m |-> BufPgs(d)[k]]
  BY DEF BufGrants, m
<1>7. BufGrants(d, stale) \in Seq(Pages) /\ Len(BufGrants(d, stale)) = m
  BY <1>1, <1>5, <1>6
<1>8. \A k \in 1 .. RingPages : RingPgs(d)[k] \in Pages
  BY GrantAssumption DEF RingPgs, Pages
<1>9. Unknown \in Pages
  BY DEF Pages
<1>10. \A k \in 1 .. RingPages + 1 :
        (IF k <= RingPages THEN RingPgs(d)[k] ELSE Unknown) \in Pages
  BY <1>8, <1>9, GrantAssumption
<1>11. RingGrants(d) \in Seq(Pages) /\ Len(RingGrants(d)) = RingPages + 1
  BY <1>10, GrantAssumption DEF RingGrants, NrRingPgs
<1> QED
  BY <1>7, <1>11 DEF m

-----------------------------------------------------------------------------
(* The references.                                                         *)

RefValues == 1 .. NRefs \cup {NoRef}

(* Several calls of gnttab_grant_foreign_access return different free      *)
(* entries, and then none.                                                 *)
LEMMA FreeRefNew ==
  ASSUME NEW k \in Nat \ {0}
  PROVE  /\ FreeRef(k) \in RefValues
         /\ FreeRef(k) # NoRef => FreeRef(k) \notin DOMAIN gtab
         /\ \A j \in Nat \ {0} : FreeRef(j) = FreeRef(k) /\ FreeRef(k) # NoRef => j = k
<1>1. FreeRefs \in SUBSET (1 .. NRefs)
  BY DEF FreeRefs
<1>2. IsFiniteSet(FreeRefs)
  <2>1. IsFiniteSet(1 .. NRefs)
    BY FS_Interval, GrantAssumption
  <2> QED
    BY <1>1, <2>1, FS_Subset
<1>3. FreeRefs \subseteq Nat
  BY <1>1, GrantAssumption
<1>4. Cardinality(FreeRefs) \in Nat
  BY <1>2, FS_CardinalityType
<1>5. ASSUME NEW n \in Nat \ {0}, n <= Cardinality(FreeRefs)
      PROVE  /\ FreeRef(n) \in FreeRefs
             /\ Cardinality(Below(FreeRefs, FreeRef(n))) = n - 1
  <2>1. n \in 1 .. Cardinality(FreeRefs)
    BY <1>4, <1>5
  <2>2. FreeRef(n) = Nth(FreeRefs, n)
    BY <1>5 DEF FreeRef
  <2> QED
    BY <1>2, <1>3, <2>1, <2>2, NthFound
<1>6. \A n \in Nat \ {0} : FreeRef(n) # NoRef => n <= Cardinality(FreeRefs)
  BY DEF FreeRef
<1>7. FreeRef(k) \in RefValues /\ (FreeRef(k) # NoRef => FreeRef(k) \notin DOMAIN gtab)
  <2>1. CASE FreeRef(k) = NoRef
    BY <2>1 DEF RefValues
  <2>2. CASE FreeRef(k) # NoRef
    <3>1. FreeRef(k) \in FreeRefs
      BY <1>5, <1>6, <2>2
    <3> QED
      BY <1>1, <3>1 DEF FreeRefs, RefValues
  <2> QED
    BY <2>1, <2>2
<1>8. ASSUME NEW j \in Nat \ {0}, FreeRef(j) = FreeRef(k), FreeRef(k) # NoRef
      PROVE  j = k
  <2>1. j - 1 = k - 1
    BY <1>5, <1>6, <1>8
  <2> QED
    BY <2>1
<1> QED
  BY <1>7, <1>8

Live == UNION {Entries(ring_ref[d]) \cup Entries(buf_ref[d]) : d \in Dirs}

(* xenvif_netmap_map, for the arrays and the table: each entry of an array *)
(* is a new reference to the page at the same place, if there was one, and *)
(* no other entry of the grant table is touched.                           *)
Granted(stale) ==
  /\ ring_ref' \in [Dirs -> Seq(RefValues)] /\ buf_ref' \in [Dirs -> Seq(RefValues)]
  /\ \A d \in Dirs : Len(ring_ref'[d]) = RingPages + 1
                     /\ Len(buf_ref'[d]) = Cardinality(Marked(d, stale[d]))
  /\ DOMAIN gtab' = DOMAIN gtab \cup (Live' \ {NoRef})
  /\ Live' \cap DOMAIN gtab \subseteq {NoRef}
  /\ \A e \in DOMAIN gtab : gtab'[e] = gtab[e]
  /\ \A d \in Dirs : \A k \in 1 .. RingPages + 1 : ring_ref'[d][k] # NoRef =>
       gtab'[ring_ref'[d][k]] = RingGrants(d)[k]
  /\ \A d \in Dirs : \A k \in 1 .. Len(buf_ref'[d]) : buf_ref'[d][k] # NoRef =>
       gtab'[buf_ref'[d][k]] = BufGrants(d, stale[d])[k]

(* Which this shows of the action. *)
LEMMA AttachGrants ==
  ASSUME DOMAIN gtab \subseteq 1 .. NRefs,
         NEW stale, NEW lost, BridgeAttach(stale, lost)
  PROVE  Granted(stale)
<1> DEFINE txb == BufGrants("tx", stale["tx"])
           txr == RingGrants("tx")
           rxb == BufGrants("rx", stale["rx"])
           rxr == RingGrants("rx")
           all == txb \o txr \o rxb \o rxr
           ref == [k \in 1 .. Len(all) |-> FreeRef(k)]
           Part(from, s) == SubSeq(ref, from + 1, from + Len(s))
           b == [d \in Dirs |-> IF d = "tx" THEN Part(0, txb)
                                ELSE Part(Len(txb) + Len(txr), rxb)]
           r == [d \in Dirs |-> IF d = "tx" THEN Part(Len(txb), txr)
                                ELSE Part(Len(all) - Len(rxr), rxr)]
<1>1. /\ buf_ref' = b /\ ring_ref' = r
      /\ gtab' = [e \in DOMAIN gtab \cup (Entries(ref) \ {NoRef}) |->
              IF e \in DOMAIN gtab THEN gtab[e]
              ELSE all[CHOOSE k \in DOMAIN ref : ref[k] = e]]
  BY DEF BridgeAttach
<1>2. "tx" \in Dirs /\ "rx" \in Dirs /\ "tx" # "rx" /\ \A d \in Dirs : d = "tx" \/ d = "rx"
  BY DEF Dirs
<1>3. txb \in Seq(Pages) /\ txr \in Seq(Pages) /\ rxb \in Seq(Pages) /\ rxr \in Seq(Pages)
  BY <1>2, GrantSeqs
<1>4. /\ Len(txb) = Cardinality(Marked("tx", stale["tx"])) /\ Len(txr) = RingPages + 1
      /\ Len(rxb) = Cardinality(Marked("rx", stale["rx"])) /\ Len(rxr) = RingPages + 1
  BY <1>2, GrantSeqs
<1> HIDE DEF txb, txr, rxb, rxr
<1>5. /\ all \in Seq(Pages)
      /\ Len(all) = Len(txb) + Len(txr) + Len(rxb) + Len(rxr)
  BY <1>3, ConcatProperties
<1>6. /\ \A k \in 1 .. Len(txb) : all[k] = txb[k]
      /\ \A k \in 1 .. Len(txr) : all[Len(txb) + k] = txr[k]
      /\ \A k \in 1 .. Len(rxb) : all[Len(txb) + Len(txr) + k] = rxb[k]
      /\ \A k \in 1 .. Len(rxr) : all[Len(txb) + Len(txr) + Len(rxb) + k] = rxr[k]
  BY <1>3
<1>7. Len(txb) \in Nat /\ Len(txr) \in Nat /\ Len(rxb) \in Nat /\ Len(rxr) \in Nat
  BY <1>3
<1> HIDE DEF all
<1>8. Len(all) \in Nat /\ Len(all) - Len(rxr) = Len(txb) + Len(txr) + Len(rxb)
  BY <1>5, <1>7
<1>9. /\ ref \in Seq(RefValues) /\ Len(ref) = Len(all) /\ DOMAIN ref = 1 .. Len(all)
      /\ \A k \in 1 .. Len(all) : ref[k] = FreeRef(k)
  <2>1. \A k \in 1 .. Len(all) : FreeRef(k) \in RefValues
    BY <1>8, FreeRefNew
  <2> QED
    BY <1>8, <2>1
<1>10. \A k \in 1 .. Len(all) : ref[k] # NoRef =>
         /\ ref[k] \notin DOMAIN gtab
         /\ \A j \in 1 .. Len(all) : ref[j] = ref[k] => j = k
  BY <1>8, <1>9, FreeRefNew
<1> HIDE DEF ref
<1>11. ASSUME NEW k \in 1 .. Len(all), ref[k] # NoRef
       PROVE  gtab'[ref[k]] = all[k]
  <2>1. ref[k] \in Entries(ref) \ {NoRef}
    BY <1>9, <1>11 DEF Entries
  <2>2. (CHOOSE j \in DOMAIN ref : ref[j] = ref[k]) = k
    BY <1>9, <1>10, <1>11
  <2> QED
    BY <1>1, <1>10, <1>11, <2>1, <2>2
<1>12. ASSUME NEW from \in Nat, NEW s \in Seq(Pages), from + Len(s) <= Len(all)
       PROVE  /\ Part(from, s) \in Seq(RefValues) /\ Len(Part(from, s)) = Len(s)
              /\ \A k \in 1 .. Len(s) : Part(from, s)[k] = ref[from + k]
  <2>1. Len(s) \in Nat
    OBVIOUS
  <2>2. from + 1 \in 1 .. Len(ref) + 1 /\ from + Len(s) \in from + 1 - 1 .. Len(ref)
    BY <1>8, <1>9, <1>12, <2>1
  <2> QED
    BY <1>9, <1>12, <2>1, <2>2
<1> HIDE DEF Part
<1>13. /\ \A s \in {Part(0, txb), Part(Len(txb), txr), Part(Len(txb) + Len(txr), rxb),
                   Part(Len(all) - Len(rxr), rxr)} : s \in Seq(RefValues)
       /\ Len(Part(0, txb)) = Len(txb) /\ Len(Part(Len(txb), txr)) = Len(txr)
       /\ Len(Part(Len(txb) + Len(txr), rxb)) = Len(rxb)
       /\ Len(Part(Len(all) - Len(rxr), rxr)) = Len(rxr)
       /\ \A k \in 1 .. Len(txb) : Part(0, txb)[k] = ref[0 + k]
       /\ \A k \in 1 .. Len(txr) : Part(Len(txb), txr)[k] = ref[Len(txb) + k]
       /\ \A k \in 1 .. Len(rxb) :
            Part(Len(txb) + Len(txr), rxb)[k] = ref[Len(txb) + Len(txr) + k]
       /\ \A k \in 1 .. Len(rxr) :
            Part(Len(all) - Len(rxr), rxr)[k] = ref[Len(all) - Len(rxr) + k]
  <2>1. 0 \in Nat /\ 0 + Len(txb) <= Len(all)
    BY <1>5, <1>7
  <2>2. Len(txb) + Len(txr) <= Len(all)
    BY <1>5, <1>7
  <2>3. Len(txb) + Len(txr) \in Nat /\ Len(txb) + Len(txr) + Len(rxb) <= Len(all)
    BY <1>5, <1>7
  <2>4. Len(all) - Len(rxr) \in Nat /\ Len(all) - Len(rxr) + Len(rxr) <= Len(all)
    BY <1>5, <1>7
  <2> QED
    BY <1>3, <1>7, <1>12, <2>1, <2>2, <2>3, <2>4
<1>14. ASSUME NEW d \in Dirs
       PROVE  /\ buf_ref'[d] \in Seq(RefValues)
              /\ Len(buf_ref'[d]) = Cardinality(Marked(d, stale[d]))
              /\ \A k \in 1 .. Len(buf_ref'[d]) : \E j \in 1 .. Len(all) :
                   buf_ref'[d][k] = ref[j] /\ all[j] = BufGrants(d, stale[d])[k]
  <2>1. CASE d = "tx"
    <3>1. buf_ref'[d] = Part(0, txb)
      BY <1>1, <1>2, <2>1
    <3>2. /\ Part(0, txb) \in Seq(RefValues) /\ Len(Part(0, txb)) = Len(txb)
          /\ \A k \in 1 .. Len(txb) : Part(0, txb)[k] = ref[0 + k]
      BY <1>13
    <3>3. \A k \in 1 .. Len(txb) : k \in 1 .. Len(all) /\ 0 + k = k
      BY <1>5, <1>7
    <3>4. \A k \in 1 .. Len(txb) : buf_ref'[d][k] = ref[k] /\ all[k] = txb[k]
      BY <1>6, <3>1, <3>2, <3>3
    <3>5. txb = BufGrants(d, stale[d])
      BY <2>1 DEF txb
    <3> QED
      BY <1>4, <2>1, <3>1, <3>2, <3>3, <3>4, <3>5
  <2>2. CASE d = "rx"
    <3> DEFINE from == Len(txb) + Len(txr)
    <3>1. buf_ref'[d] = Part(from, rxb)
      BY <1>1, <1>2, <2>2
    <3>2. /\ Part(from, rxb) \in Seq(RefValues) /\ Len(Part(from, rxb)) = Len(rxb)
          /\ \A k \in 1 .. Len(rxb) : Part(from, rxb)[k] = ref[from + k]
      BY <1>13
    <3>3. \A k \in 1 .. Len(rxb) : from + k \in 1 .. Len(all)
      BY <1>5, <1>7
    <3>4. \A k \in 1 .. Len(rxb) : all[from + k] = rxb[k]
      BY <1>6
    <3> HIDE DEF from
    <3>5. rxb = BufGrants(d, stale[d])
      BY <2>2 DEF rxb
    <3> QED
      BY <1>4, <2>2, <3>1, <3>2, <3>3, <3>4, <3>5
  <2> QED
    BY <1>2, <2>1, <2>2
<1>15. ASSUME NEW d \in Dirs
       PROVE  /\ ring_ref'[d] \in Seq(RefValues)
              /\ Len(ring_ref'[d]) = RingPages + 1
              /\ \A k \in 1 .. RingPages + 1 : \E j \in 1 .. Len(all) :
                   ring_ref'[d][k] = ref[j] /\ all[j] = RingGrants(d)[k]
  <2>1. CASE d = "tx"
    <3> DEFINE from == Len(txb)
    <3>1. ring_ref'[d] = Part(from, txr)
      BY <1>1, <1>2, <2>1
    <3>2. /\ Part(from, txr) \in Seq(RefValues) /\ Len(Part(from, txr)) = Len(txr)
          /\ \A k \in 1 .. Len(txr) : Part(from, txr)[k] = ref[from + k]
      BY <1>13
    <3>3. \A k \in 1 .. Len(txr) : from + k \in 1 .. Len(all)
      BY <1>5, <1>7
    <3>4. \A k \in 1 .. Len(txr) : all[from + k] = txr[k]
      BY <1>6
    <3> HIDE DEF from
    <3>5. txr = RingGrants(d)
      BY <2>1 DEF txr
    <3> QED
      BY <1>4, <3>1, <3>2, <3>3, <3>4, <3>5
  <2>2. CASE d = "rx"
    <3> DEFINE from == Len(all) - Len(rxr)
    <3>1. ring_ref'[d] = Part(from, rxr)
      BY <1>1, <1>2, <2>2
    <3>2. /\ Part(from, rxr) \in Seq(RefValues) /\ Len(Part(from, rxr)) = Len(rxr)
          /\ \A k \in 1 .. Len(rxr) : Part(from, rxr)[k] = ref[from + k]
      BY <1>13
    <3>3. \A k \in 1 .. Len(rxr) : from + k \in 1 .. Len(all)
      BY <1>5, <1>7
    <3>4. \A k \in 1 .. Len(rxr) : all[from + k] = rxr[k]
      BY <1>6, <1>8
    <3> HIDE DEF from
    <3>5. rxr = RingGrants(d)
      BY <2>2 DEF rxr
    <3> QED
      BY <1>4, <3>1, <3>2, <3>3, <3>4, <3>5
  <2> QED
    BY <1>2, <2>1, <2>2
<1>16. Entries(ref) = {ref[k] : k \in 1 .. Len(all)}
  BY <1>9 DEF Entries
<1>17. Live' = Entries(ref)
  <2>1. \A d \in Dirs : DOMAIN ring_ref'[d] = 1 .. RingPages + 1
                       /\ DOMAIN buf_ref'[d] = 1 .. Len(buf_ref'[d])
    <3> TAKE d \in Dirs
    <3> QED
      BY <1>14, <1>15
  <2>2. Live' \subseteq Entries(ref)
    <3>1. ASSUME NEW d \in Dirs PROVE Entries(ring_ref'[d]) \subseteq Entries(ref)
      <4>1. \A k \in 1 .. RingPages + 1 : ring_ref'[d][k] \in Entries(ref)
        BY <1>15, <1>16
      <4> QED
        BY <2>1, <4>1 DEF Entries
    <3>2. ASSUME NEW d \in Dirs PROVE Entries(buf_ref'[d]) \subseteq Entries(ref)
      <4>1. \A k \in 1 .. Len(buf_ref'[d]) : buf_ref'[d][k] \in Entries(ref)
        BY <1>14, <1>16
      <4> QED
        BY <2>1, <4>1 DEF Entries
    <3> QED
      BY <3>1, <3>2 DEF Live
  <2>3. ASSUME NEW j \in 1 .. Len(all) PROVE ref[j] \in Live'
    <3>1. buf_ref'["tx"] = Part(0, txb) /\ ring_ref'["tx"] = Part(Len(txb), txr)
          /\ buf_ref'["rx"] = Part(Len(txb) + Len(txr), rxb)
          /\ ring_ref'["rx"] = Part(Len(all) - Len(rxr), rxr)
      BY <1>1, <1>2
    <3>3. /\ DOMAIN buf_ref'["tx"] = 1 .. Len(txb) /\ DOMAIN ring_ref'["tx"] = 1 .. Len(txr)
          /\ DOMAIN buf_ref'["rx"] = 1 .. Len(rxb) /\ DOMAIN ring_ref'["rx"] = 1 .. Len(rxr)
      BY <1>2, <1>4, <1>14, <2>1
    <3>4. \/ j \in 1 .. Len(txb)
          \/ j - Len(txb) \in 1 .. Len(txr)
          \/ j - (Len(txb) + Len(txr)) \in 1 .. Len(rxb)
          \/ j - (Len(all) - Len(rxr)) \in 1 .. Len(rxr)
      BY <1>5, <1>7
    <3>5. /\ 0 + j = j /\ Len(txb) + (j - Len(txb)) = j
          /\ Len(txb) + Len(txr) + (j - (Len(txb) + Len(txr))) = j
          /\ Len(all) - Len(rxr) + (j - (Len(all) - Len(rxr))) = j
      BY <1>7, <1>8
    <3>6. \/ ref[j] \in Entries(buf_ref'["tx"]) \/ ref[j] \in Entries(ring_ref'["tx"])
          \/ ref[j] \in Entries(buf_ref'["rx"]) \/ ref[j] \in Entries(ring_ref'["rx"])
      <4>1. CASE j \in 1 .. Len(txb)
        <5>1. buf_ref'["tx"][j] = ref[j]
          BY <1>13, <3>1, <3>5, <4>1
        <5> QED
          BY <3>3, <4>1, <5>1 DEF Entries
      <4>2. CASE j - Len(txb) \in 1 .. Len(txr)
        <5>1. ring_ref'["tx"][j - Len(txb)] = ref[j]
          BY <1>13, <3>1, <3>5, <4>2
        <5> QED
          BY <3>3, <4>2, <5>1 DEF Entries
      <4>3. CASE j - (Len(txb) + Len(txr)) \in 1 .. Len(rxb)
        <5>1. buf_ref'["rx"][j - (Len(txb) + Len(txr))] = ref[j]
          BY <1>13, <3>1, <3>5, <4>3
        <5> QED
          BY <3>3, <4>3, <5>1 DEF Entries
      <4>4. CASE j - (Len(all) - Len(rxr)) \in 1 .. Len(rxr)
        <5>1. ring_ref'["rx"][j - (Len(all) - Len(rxr))] = ref[j]
          BY <1>13, <3>1, <3>5, <4>4
        <5> QED
          BY <3>3, <4>4, <5>1 DEF Entries
      <4> QED
        BY <3>4, <4>1, <4>2, <4>3, <4>4
    <3> QED
      BY <1>2, <3>6 DEF Live
  <2> QED
    BY <1>16, <2>2, <2>3
<1>18. DOMAIN gtab' = DOMAIN gtab \cup (Live' \ {NoRef})
  BY <1>1, <1>17
<1>19. Live' \cap DOMAIN gtab \subseteq {NoRef}
  BY <1>10, <1>16, <1>17
<1>20. \A e \in DOMAIN gtab : gtab'[e] = gtab[e]
  BY <1>1
<1>21. ring_ref' \in [Dirs -> Seq(RefValues)] /\ buf_ref' \in [Dirs -> Seq(RefValues)]
  <2>1. ring_ref' = [d \in Dirs |-> ring_ref'[d]] /\ buf_ref' = [d \in Dirs |-> buf_ref'[d]]
    BY <1>1
  <2>2. \A d \in Dirs : ring_ref'[d] \in Seq(RefValues) /\ buf_ref'[d] \in Seq(RefValues)
    BY <1>14, <1>15
  <2> QED
    BY <2>1, <2>2
<1>22. \A d \in Dirs : \A k \in 1 .. RingPages + 1 : ring_ref'[d][k] # NoRef =>
         gtab'[ring_ref'[d][k]] = RingGrants(d)[k]
  BY <1>11, <1>15
<1>23. \A d \in Dirs : \A k \in 1 .. Len(buf_ref'[d]) : buf_ref'[d][k] # NoRef =>
         gtab'[buf_ref'[d][k]] = BufGrants(d, stale[d])[k]
  BY <1>11, <1>14
<1> QED
  BY <1>14, <1>15, <1>18, <1>19, <1>20, <1>21, <1>22, <1>23 DEF Granted

-----------------------------------------------------------------------------
(* The bookkeeping of nm_grant_ring: the arrays are there exactly while    *)
(* nr_ring_pgs says so, none is longer than what is revoked, and a vif     *)
(* that is gone has none.                                                  *)

Arrays ==
  /\ nr_ring_pgs \in [Dirs -> {0, RingPages}]
  /\ nr_buf_pgs \in [Dirs -> 0 .. NSlots - 1]
  /\ ring_ref \in [Dirs -> Seq(RefValues)] /\ buf_ref \in [Dirs -> Seq(RefValues)]

ArraysOK ==
  /\ Arrays
  /\ nr_ring_pgs["tx"] = 0 => \A d \in Dirs : ring_ref[d] = <<>> /\ buf_ref[d] = <<>>
  /\ nr_ring_pgs["tx"] # 0 => \A d \in Dirs : Len(ring_ref[d]) = RingPages + 1
  /\ \A d \in Dirs : Len(buf_ref[d]) <= nr_buf_pgs[d] + 1
  /\ vif = "down" => nr_ring_pgs["tx"] = 0

TableOK == DOMAIN gtab \subseteq 1 .. NRefs /\ held \subseteq DOMAIN gtab

arrays == <<nr_ring_pgs, nr_buf_pgs, ring_ref, buf_ref>>

(* Empty arrays are arrays. *)
LEMMA EmptyArrays ==
  /\ [d \in Dirs |-> 0] \in [Dirs -> {0, RingPages}]
  /\ [d \in Dirs |-> 0] \in [Dirs -> 0 .. NSlots - 1]
  /\ [d \in Dirs |-> <<>>] \in [Dirs -> Seq(RefValues)]
  /\ Len(<<>>) = 0
<1>1. <<>> \in Seq(RefValues)
  OBVIOUS
<1>2. 0 \in 0 .. NSlots - 1
  BY GrantAssumption
<1> QED
  BY <1>1, <1>2

(* Arrays that are gone are in order. *)
LEMMA ClearArrays ==
  nr_ring_pgs = [d \in Dirs |-> 0] /\ nr_buf_pgs = [d \in Dirs |-> 0]
  /\ ring_ref = [d \in Dirs |-> <<>>] /\ buf_ref = [d \in Dirs |-> <<>>] => ArraysOK
<1> SUFFICES ASSUME nr_ring_pgs = [d \in Dirs |-> 0], nr_buf_pgs = [d \in Dirs |-> 0],
                    ring_ref = [d \in Dirs |-> <<>>], buf_ref = [d \in Dirs |-> <<>>]
             PROVE  ArraysOK
  OBVIOUS
<1>1. Arrays
  BY EmptyArrays DEF Arrays
<1>2. "tx" \in Dirs
  BY DEF Dirs
<1>3. \A d \in Dirs : nr_ring_pgs[d] = 0 /\ nr_buf_pgs[d] = 0
                     /\ ring_ref[d] = <<>> /\ buf_ref[d] = <<>>
  OBVIOUS
<1>4. \A d \in Dirs : Len(buf_ref[d]) <= nr_buf_pgs[d] + 1
  BY <1>3, EmptyArrays
<1> QED
  BY <1>1, <1>2, <1>3, <1>4 DEF ArraysOK

(* The initial state has none. *)
LEMMA InitArrays == Init => ArraysOK /\ TableOK
<1> SUFFICES ASSUME Init PROVE ArraysOK /\ TableOK
  OBVIOUS
<1>1. ArraysOK
  BY ClearArrays DEF Init
<1>2. TableOK
  <2>1. PICK taken \in SUBSET Elsewhere : gtab = [r \in taken |-> Other]
    BY DEF Init
  <2>2. held = {}
    BY DEF Init
  <2> QED
    BY <2>1, <2>2, GrantAssumption DEF TableOK
<1> QED
  BY <1>1, <1>2

(* Only four operations touch the arrays. *)
LEMMA ArraysKept ==
  \/ BridgeDetach \/ SetFeature \/ (\E keep \in BOOLEAN : BridgeReattach(keep))
  \/ ReadRingGrefs \/ Setup \/ Disconnect \/ GuestDies \/ UNCHANGED vars
  => UNCHANGED arrays /\ UNCHANGED vif
<1> USE DEF arrays, backVars
<1>1. BridgeDetach \/ SetFeature => UNCHANGED arrays /\ UNCHANGED vif
  BY DEF BridgeDetach, SetFeature
<1>2. (\E keep \in BOOLEAN : BridgeReattach(keep)) => UNCHANGED arrays /\ UNCHANGED vif
  BY DEF BridgeReattach
<1>3. ReadRingGrefs \/ Disconnect \/ GuestDies \/ WriteEvtchn
        => UNCHANGED arrays /\ UNCHANGED vif
  BY DEF ReadRingGrefs, Disconnect, GuestDies, WriteEvtchn
<1>4. \A d \in Dirs : MapRing(d) \/ WaitSlots(d) \/ MapBufs(d)
        => UNCHANGED arrays /\ UNCHANGED vif
  BY DEF MapRing, WaitSlots, MapBufs
<1>5. UNCHANGED vars => UNCHANGED arrays /\ UNCHANGED vif
  BY DEF vars
<1> QED
  BY <1>1, <1>2, <1>3, <1>4, <1>5 DEF Setup

(* References that are ended leave the arrays, the others stay. *)
LEMMA WithoutEnded ==
  ASSUME NEW s \in Seq(RefValues), NEW gone
  PROVE  /\ Without(s, gone) \in Seq(RefValues) /\ Len(Without(s, gone)) = Len(s)
         /\ Entries(Without(s, gone)) \subseteq (Entries(s) \ gone) \cup {NoRef}
         /\ Entries(s) \ gone \subseteq Entries(Without(s, gone))
<1> DEFINE n == Len(s)
           w == [k \in 1 .. n |-> IF s[k] \in gone THEN NoRef ELSE s[k]]
<1>1. n \in Nat /\ DOMAIN s = 1 .. n /\ \A k \in 1 .. n : s[k] \in RefValues
  OBVIOUS
<1>2. Without(s, gone) = w
  BY <1>1 DEF Without
<1> HIDE DEF n
<1>3. \A k \in 1 .. n : w[k] \in RefValues
  BY <1>1 DEF RefValues
<1>4. w \in Seq(RefValues) /\ Len(w) = n
  BY <1>1, <1>3
<1>5. Entries(w) = {w[k] : k \in 1 .. n} /\ Entries(s) = {s[k] : k \in 1 .. n}
  BY <1>1 DEF Entries
<1>6. \A k \in 1 .. n : w[k] = IF s[k] \in gone THEN NoRef ELSE s[k]
  OBVIOUS
<1> HIDE DEF w
<1>7. Entries(w) \subseteq (Entries(s) \ gone) \cup {NoRef}
  BY <1>5, <1>6
<1>8. Entries(s) \ gone \subseteq Entries(w)
  BY <1>5, <1>6
<1> QED
  BY <1>2, <1>4, <1>7, <1>8 DEF n

(* What freeing a vif ends before it breaks off. *)
FaultEnds(junk) == Ended(RevokeOrder("tx", junk) \o RevokeOrder("rx", junk))

(* These leave the arrays, and the table unless the guest maps them. *)
LEMMA FaultArrays ==
  ASSUME ArraysOK, NEW junk, VifFault(junk)
  PROVE  /\ ArraysOK'
         /\ Live' \subseteq (Live \ FaultEnds(junk)) \cup {NoRef}
         /\ Live \ FaultEnds(junk) \subseteq Live'
         /\ gtab' = [e \in DOMAIN gtab \ (FaultEnds(junk) \ held) |-> gtab[e]]
<1> DEFINE gone == FaultEnds(junk)
<1>1. /\ ring_ref' = [d \in Dirs |-> Without(ring_ref[d], gone)]
      /\ buf_ref' = [d \in Dirs |-> Without(buf_ref[d], gone)]
      /\ gtab' = [e \in DOMAIN gtab \ (gone \ held) |-> gtab[e]]
      /\ UNCHANGED <<nr_ring_pgs, nr_buf_pgs>> /\ vif' = "lost"
  BY DEF VifFault, FaultEnds
<1> HIDE DEF gone
<1>2. ASSUME NEW d \in Dirs
      PROVE  /\ ring_ref'[d] \in Seq(RefValues) /\ Len(ring_ref'[d]) = Len(ring_ref[d])
             /\ buf_ref'[d] \in Seq(RefValues) /\ Len(buf_ref'[d]) = Len(buf_ref[d])
             /\ Entries(ring_ref'[d]) \subseteq (Entries(ring_ref[d]) \ gone) \cup {NoRef}
             /\ Entries(ring_ref[d]) \ gone \subseteq Entries(ring_ref'[d])
             /\ Entries(buf_ref'[d]) \subseteq (Entries(buf_ref[d]) \ gone) \cup {NoRef}
             /\ Entries(buf_ref[d]) \ gone \subseteq Entries(buf_ref'[d])
  <2>1. ring_ref[d] \in Seq(RefValues) /\ buf_ref[d] \in Seq(RefValues)
    BY DEF ArraysOK, Arrays
  <2> QED
    BY <1>1, <2>1, WithoutEnded
<1>3. Live' \subseteq (Live \ gone) \cup {NoRef} /\ Live \ gone \subseteq Live'
  <2>1. ASSUME NEW r \in Live', r # NoRef PROVE r \in Live /\ r \notin gone
    <3>1. PICK d \in Dirs : r \in Entries(ring_ref'[d]) \/ r \in Entries(buf_ref'[d])
      BY <2>1 DEF Live
    <3>2. (r \in Entries(ring_ref[d]) \/ r \in Entries(buf_ref[d])) /\ r \notin gone
      BY <1>2, <2>1, <3>1
    <3> QED
      BY <3>2 DEF Live
  <2>2. ASSUME NEW r \in Live, r \notin gone PROVE r \in Live'
    <3>1. PICK d \in Dirs : r \in Entries(ring_ref[d]) \/ r \in Entries(buf_ref[d])
      BY DEF Live
    <3>2. r \in Entries(ring_ref'[d]) \/ r \in Entries(buf_ref'[d])
      BY <1>2, <2>2, <3>1
    <3> QED
      BY <3>2 DEF Live
  <2> QED
    BY <2>1, <2>2
<1>4. Arrays'
  BY <1>1, <1>2 DEF ArraysOK, Arrays
<1>5. nr_ring_pgs["tx"] # 0
  <2> SUFFICES ASSUME nr_ring_pgs["tx"] = 0 PROVE FALSE
    OBVIOUS
  <2>1. \A d \in Dirs : ring_ref[d] = <<>> /\ buf_ref[d] = <<>>
    BY DEF ArraysOK
  <2>2. Entries(<<>>) = {}
    BY DEF Entries
  <2> QED
    BY <2>1, <2>2 DEF VifFault, Exhausted
<1>6. ArraysOK'
  BY <1>1, <1>2, <1>4, <1>5 DEF ArraysOK
<1> QED
  BY <1>1, <1>3, <1>6 DEF gone

(* The arrays stay in order. *)
LEMMA NextArrays == ArraysOK /\ TableOK /\ [Next]_vars => ArraysOK'
<1> SUFFICES ASSUME ArraysOK, TableOK, [Next]_vars PROVE ArraysOK'
  OBVIOUS
<1>0. (ClearArrays)'
  BY ClearArrays, PTL
<1>1. CASE VifAlloc
  BY <1>0, <1>1 DEF VifAlloc
<1>2. ASSUME NEW stale, NEW lost, BridgeAttach(stale, lost)
      PROVE  ArraysOK'
  <2>1. Granted(stale)
    BY <1>2, AttachGrants DEF TableOK
  <2>2. /\ nr_ring_pgs' = [d \in Dirs |-> RingPages]
        /\ nr_buf_pgs' = [d \in Dirs |-> NrBufPgs(d)]
        /\ vif' = "up"
    BY <1>2 DEF BridgeAttach, NrRingPgs
  <2>3. \A d \in Dirs : NrBufPgs(d) \in 0 .. NSlots - 1
    BY NewPages, GrantAssumption DEF NrBufPgs
  <2>4. Arrays'
    BY <2>1, <2>2, <2>3 DEF Arrays, Granted
  <2>5. \A d \in Dirs : Len(buf_ref'[d]) <= nr_buf_pgs'[d] + 1
    <3> TAKE d \in Dirs
    <3>1. Len(buf_ref'[d]) = Cardinality(Marked(d, stale[d]))
      BY <2>1 DEF Granted
    <3>2. Cardinality(Marked(d, stale[d])) \in 0 .. NrBufPgs(d) + 1
      BY MarkedPages
    <3>3. nr_buf_pgs'[d] = NrBufPgs(d) /\ NrBufPgs(d) \in Nat
      BY <2>2, <2>3, GrantAssumption
    <3> QED
      BY <3>1, <3>2, <3>3
  <2>6. nr_ring_pgs'["tx"] = RingPages /\ RingPages # 0
    BY <2>2, GrantAssumption DEF Dirs
  <2>7. \A d \in Dirs : Len(ring_ref'[d]) = RingPages + 1
    BY <2>1 DEF Granted
  <2> QED
    BY <2>2, <2>4, <2>5, <2>6, <2>7 DEF ArraysOK
<1>3. ASSUME NEW junk, VifFree(junk) PROVE ArraysOK'
  <2>1. CASE nr_ring_pgs["tx"] = 0
    BY <1>3, <2>1 DEF VifFree, ArraysOK, Arrays
  <2>2. CASE nr_ring_pgs["tx"] # 0
    BY <1>0, <1>3, <2>2 DEF VifFree
  <2> QED
    BY <2>1, <2>2
<1>4. CASE UNCHANGED arrays /\ UNCHANGED vif
  BY <1>4 DEF arrays, ArraysOK, Arrays
<1>5. ASSUME NEW junk, VifFault(junk) PROVE ArraysOK'
  BY <1>5, FaultArrays
<1> QED
  BY <1>1, <1>2, <1>3, <1>4, <1>5, ArraysKept DEF Next

-----------------------------------------------------------------------------
(* The grant table against the arrays.                                     *)

Own == {r \in DOMAIN gtab : gtab[r] # Other}

(* What GrantsBalanced says, with names for its two sets. *)
LEMMA Balance == GrantsBalanced <=> Live \ {NoRef} \subseteq Own /\ Own \subseteq Live \cup held
BY DEF GrantsBalanced, Live, Own

(* Without arrays there is no live reference. *)
LEMMA NothingLive == ArraysOK /\ nr_ring_pgs["tx"] = 0 => Live = {}
<1> SUFFICES ASSUME ArraysOK, nr_ring_pgs["tx"] = 0 PROVE Live = {}
  OBVIOUS
<1>1. \A d \in Dirs : ring_ref[d] = <<>> /\ buf_ref[d] = <<>>
  BY DEF ArraysOK
<1>2. Entries(<<>>) = {}
  BY DEF Entries
<1> QED
  BY <1>1, <1>2 DEF Live

(* The guest maps entries of the table, and forgets none. *)
LEMMA GuestMaps ==
  ReadRingGrefs \/ Setup \/ Disconnect
  => UNCHANGED gtab /\ held \subseteq held' /\ held' \subseteq held \cup DOMAIN gtab
<1>1. ReadRingGrefs \/ Disconnect \/ WriteEvtchn => UNCHANGED <<gtab, held>>
  BY DEF ReadRingGrefs, Disconnect, WriteEvtchn
<1>2. ASSUME NEW d \in Dirs, MapRing(d)
      PROVE  UNCHANGED gtab /\ held \subseteq held' /\ held' \subseteq held \cup DOMAIN gtab
  BY <1>2 DEF MapRing, Mappable
<1>3. ASSUME NEW d \in Dirs, MapBufs(d)
      PROVE  UNCHANGED gtab /\ held \subseteq held' /\ held' \subseteq held \cup DOMAIN gtab
  BY <1>3 DEF MapBufs, Mappable
<1>4. \A d \in Dirs : WaitSlots(d) => UNCHANGED <<gtab, held>>
  BY DEF WaitSlots
<1> QED
  BY <1>1, <1>2, <1>3, <1>4 DEF Setup

(* What xenvif_revoke_ring ends covers the arrays. *)
LEMMA RevokedAll ==
  ASSUME ArraysOK, NEW junk, NEW d \in Dirs
  PROVE  Entries(ring_ref[d]) \cup Entries(buf_ref[d]) \subseteq Revoked(d, junk)
<1>1. buf_ref[d] \in Seq(RefValues) /\ nr_buf_pgs[d] \in Nat
      /\ Len(buf_ref[d]) <= nr_buf_pgs[d] + 1
  BY GrantAssumption DEF ArraysOK, Arrays
<1>2. Len(buf_ref[d]) \in Nat /\ DOMAIN buf_ref[d] = 1 .. Len(buf_ref[d])
  BY <1>1
<1>3. ASSUME NEW k \in 1 .. Len(buf_ref[d]) PROVE buf_ref[d][k] \in Revoked(d, junk)
  <2>1. k \in 1 .. nr_buf_pgs[d] + 1 /\ k <= Len(buf_ref[d])
    BY <1>1, <1>2
  <2> QED
    BY <2>1 DEF Revoked
<1>4. Entries(buf_ref[d]) \subseteq Revoked(d, junk)
  BY <1>2, <1>3 DEF Entries
<1> QED
  BY <1>4 DEF Revoked

(* What is not revoked is kept. *)
LEMMA FreeTable ==
  ASSUME ArraysOK, NEW junk, VifFree(junk), nr_ring_pgs["tx"] # 0
  PROVE  /\ DOMAIN gtab' \subseteq DOMAIN gtab
         /\ \A e \in DOMAIN gtab' : gtab'[e] = gtab[e]
         /\ held \cap DOMAIN gtab \subseteq DOMAIN gtab'
         /\ Live \cap DOMAIN gtab' \subseteq held
         /\ Live' = {}
<1> DEFINE gone == (UNION {Revoked(d, junk) : d \in Dirs}) \ held
<1>1. gtab' = [e \in DOMAIN gtab \ gone |-> gtab[e]]
  BY DEF VifFree
<1>2. Live \subseteq gone \cup held
  BY RevokedAll DEF Live
<1>3. gone \cap held = {}
  OBVIOUS
<1> HIDE DEF gone
<1>4. ring_ref' = [d \in Dirs |-> <<>>] /\ buf_ref' = [d \in Dirs |-> <<>>]
  BY DEF VifFree
<1>5. Entries(<<>>) = {}
  BY DEF Entries
<1>6. Live' = {}
  <2>1. \A d \in Dirs : ring_ref'[d] = <<>> /\ buf_ref'[d] = <<>>
    BY <1>4
  <2> QED
    BY <1>5, <2>1 DEF Live
<1> QED
  BY <1>1, <1>2, <1>3, <1>6

(* No step leaves the table's entries, or maps what is not granted. *)
LEMMA NextTable == ArraysOK /\ TableOK /\ [Next]_vars => TableOK'
<1> SUFFICES ASSUME ArraysOK, TableOK, [Next]_vars PROVE TableOK'
  OBVIOUS
<1>1. CASE VifAlloc
  BY <1>1 DEF VifAlloc, TableOK, guestVars
<1>2. ASSUME NEW stale, NEW lost, BridgeAttach(stale, lost)
      PROVE  TableOK'
  <2>1. Granted(stale) /\ held' = held
    BY <1>2, AttachGrants DEF TableOK, BridgeAttach, guestVars
  <2>2. ring_ref' \in [Dirs -> Seq(RefValues)] /\ buf_ref' \in [Dirs -> Seq(RefValues)]
    BY <2>1 DEF Granted
  <2>3. Live' \subseteq RefValues
    <3>1. \A s \in Seq(RefValues) : Entries(s) \subseteq RefValues
      BY DEF Entries
    <3>2. \A d \in Dirs : ring_ref'[d] \in Seq(RefValues) /\ buf_ref'[d] \in Seq(RefValues)
      BY <2>2
    <3> QED
      BY <3>1, <3>2 DEF Live
  <2>4. DOMAIN gtab' = DOMAIN gtab \cup (Live' \ {NoRef})
    BY <2>1 DEF Granted
  <2> QED
    BY <2>1, <2>3, <2>4 DEF TableOK, RefValues
<1>3. ASSUME NEW junk, VifFree(junk) PROVE TableOK'
  <2>0. held' = held
    BY <1>3 DEF VifFree, guestVars
  <2>1. CASE nr_ring_pgs["tx"] = 0
    BY <1>3, <2>0, <2>1 DEF VifFree, TableOK
  <2>2. CASE nr_ring_pgs["tx"] # 0
    BY <1>3, <2>0, <2>2, FreeTable DEF TableOK
  <2> QED
    BY <2>1, <2>2
<1>4. CASE BridgeDetach \/ SetFeature \/ (\E keep \in BOOLEAN : BridgeReattach(keep))
  BY <1>4 DEF BridgeDetach, SetFeature, BridgeReattach, TableOK, guestVars
<1>5. CASE ReadRingGrefs \/ Setup \/ Disconnect
  BY <1>5, GuestMaps DEF TableOK
<1>6. CASE GuestDies
  BY <1>6 DEF GuestDies, TableOK
<1>7. CASE UNCHANGED vars
  BY <1>7 DEF vars, TableOK
<1>8. ASSUME NEW junk, VifFault(junk) PROVE TableOK'
  <2>1. gtab' = [e \in DOMAIN gtab \ (FaultEnds(junk) \ held) |-> gtab[e]]
    BY <1>8, FaultArrays
  <2>2. held' = held
    BY <1>8 DEF VifFault, guestVars
  <2> QED
    BY <2>1, <2>2 DEF TableOK
<1> QED
  BY <1>1, <1>2, <1>3, <1>4, <1>5, <1>6, <1>7, <1>8 DEF Next

(* The table stays balanced with the arrays. *)
LEMMA NextBalanced ==
  ArraysOK /\ TableOK /\ GrantsBalanced /\ [Next]_vars => GrantsBalanced'
<1> SUFFICES ASSUME ArraysOK, TableOK, GrantsBalanced, [Next]_vars PROVE GrantsBalanced'
  OBVIOUS
<1> DEFINE Goal == Live' \ {NoRef} \subseteq Own' /\ Own' \subseteq Live' \cup held'
<1>a. Live \ {NoRef} \subseteq Own /\ Own \subseteq Live \cup held
  BY Balance
<1>b. Goal => GrantsBalanced'
  <2>1. (Balance)'
    BY Balance, PTL
  <2> QED
    BY <2>1
<1>c. ArraysOK'
  BY NextArrays
<1>d. (NothingLive)'
  BY NothingLive, PTL
<1>1. CASE VifAlloc
  <2>1. nr_ring_pgs["tx"] = 0 /\ nr_ring_pgs'["tx"] = 0 /\ UNCHANGED <<gtab, held>>
    BY <1>1 DEF VifAlloc, ArraysOK, guestVars, Dirs
  <2>2. Live = {} /\ Live' = {}
    BY <1>c, <1>d, <2>1, NothingLive
  <2>3. Goal
    BY <1>a, <2>1, <2>2 DEF Own
  <2> QED
    BY <1>b, <2>3
<1>2. ASSUME NEW stale, NEW lost, BridgeAttach(stale, lost)
      PROVE  GrantsBalanced'
  <2>1. Granted(stale) /\ held' = held /\ Live = {}
    BY <1>2, AttachGrants, NothingLive DEF TableOK, BridgeAttach, guestVars
  <2>2. DOMAIN gtab' = DOMAIN gtab \cup (Live' \ {NoRef})
    BY <2>1 DEF Granted
  <2>3. \A e \in DOMAIN gtab : gtab'[e] = gtab[e]
    BY <2>1 DEF Granted
  <2>4. \A e \in Live' \ {NoRef} : gtab'[e] \in Pages
    <3>1. ASSUME NEW d \in Dirs, NEW e \in Entries(ring_ref'[d]), e # NoRef
          PROVE  gtab'[e] \in Pages
      <4>1. Len(ring_ref'[d]) = RingPages + 1 /\ ring_ref'[d] \in Seq(RefValues)
        BY <2>1 DEF Granted
      <4>2. PICK k \in 1 .. RingPages + 1 : e = ring_ref'[d][k]
        BY <3>1, <4>1 DEF Entries
      <4>3. gtab'[e] = RingGrants(d)[k]
        BY <2>1, <3>1, <4>2 DEF Granted
      <4>4. RingGrants(d) \in Seq(Pages) /\ Len(RingGrants(d)) = RingPages + 1
        BY GrantSeqs
      <4> QED
        BY <4>2, <4>3, <4>4
    <3>2. ASSUME NEW d \in Dirs, NEW e \in Entries(buf_ref'[d]), e # NoRef
          PROVE  gtab'[e] \in Pages
      <4>1. buf_ref'[d] \in Seq(RefValues)
            /\ Len(buf_ref'[d]) = Cardinality(Marked(d, stale[d]))
        BY <2>1 DEF Granted
      <4>2. PICK k \in 1 .. Len(buf_ref'[d]) : e = buf_ref'[d][k]
        BY <3>2, <4>1 DEF Entries
      <4>3. gtab'[e] = BufGrants(d, stale[d])[k]
        BY <2>1, <3>2, <4>2 DEF Granted
      <4>4. BufGrants(d, stale[d]) \in Seq(Pages)
            /\ Len(BufGrants(d, stale[d])) = Cardinality(Marked(d, stale[d]))
        BY GrantSeqs
      <4> QED
        BY <4>1, <4>2, <4>3, <4>4
    <3> QED
      BY <3>1, <3>2 DEF Live
  <2>5. Goal
    BY <1>a, <2>1, <2>2, <2>3, <2>4, OwnPages DEF Own
  <2> QED
    BY <1>b, <2>5
<1>3. ASSUME NEW junk, VifFree(junk) PROVE GrantsBalanced'
  <2>0. held' = held
    BY <1>3 DEF VifFree, guestVars
  <2>1. CASE nr_ring_pgs["tx"] = 0
    <3>1. UNCHANGED <<gtab, ring_ref, buf_ref>>
      BY <1>3, <2>1 DEF VifFree
    <3>2. Goal
      BY <1>a, <2>0, <3>1 DEF Live, Own
    <3> QED
      BY <1>b, <3>2
  <2>2. CASE nr_ring_pgs["tx"] # 0
    <3>1. /\ DOMAIN gtab' \subseteq DOMAIN gtab
          /\ \A e \in DOMAIN gtab' : gtab'[e] = gtab[e]
          /\ Live \cap DOMAIN gtab' \subseteq held
          /\ Live' = {}
      BY <1>3, <2>2, FreeTable
    <3>2. Goal
      BY <1>a, <2>0, <3>1 DEF Own
    <3> QED
      BY <1>b, <3>2
  <2> QED
    BY <2>1, <2>2
<1>4. CASE \/ BridgeDetach \/ SetFeature \/ (\E keep \in BOOLEAN : BridgeReattach(keep))
           \/ ReadRingGrefs \/ Setup \/ Disconnect \/ UNCHANGED vars
  <2>1. UNCHANGED <<ring_ref, buf_ref>>
    BY <1>4, ArraysKept DEF arrays
  <2>2. gtab' = gtab /\ held \subseteq held'
    <3>1. BridgeDetach \/ SetFeature \/ (\E keep \in BOOLEAN : BridgeReattach(keep))
            => UNCHANGED <<gtab, held>>
      BY DEF BridgeDetach, SetFeature, BridgeReattach, guestVars
    <3>2. UNCHANGED vars => UNCHANGED <<gtab, held>>
      BY DEF vars
    <3> QED
      BY <1>4, <3>1, <3>2, GuestMaps
  <2>3. Live' = Live /\ Own' = Own
    BY <2>1, <2>2 DEF Live, Own
  <2>4. Goal
    BY <1>a, <2>2, <2>3
  <2> QED
    BY <1>b, <2>4
<1>5. CASE GuestDies
  <2>1. Live' = Live
    BY <1>5, ArraysKept DEF arrays, Live
  <2>2. gtab' = [e \in {r \in DOMAIN gtab : gtab[r] = Other \/ r \in Live} |-> gtab[e]]
    BY <1>5 DEF GuestDies, Live
  <2>3. Goal
    BY <1>a, <2>1, <2>2 DEF Own
  <2> QED
    BY <1>b, <2>3
<1>6. ASSUME NEW junk, VifFault(junk) PROVE GrantsBalanced'
  <2>1. /\ Live' \subseteq (Live \ FaultEnds(junk)) \cup {NoRef}
        /\ Live \ FaultEnds(junk) \subseteq Live'
        /\ gtab' = [e \in DOMAIN gtab \ (FaultEnds(junk) \ held) |-> gtab[e]]
    BY <1>6, FaultArrays
  <2>2. held' = held
    BY <1>6 DEF VifFault, guestVars
  <2>3. Goal
    BY <1>a, <2>1, <2>2 DEF Own
  <2> QED
    BY <1>b, <2>3
<1> QED
  BY <1>1, <1>2, <1>3, <1>4, <1>5, <1>6 DEF Next

(* nr_ring_pgs is a count and nr_buf_pgs a last index; xenvif_revoke_ring  *)
(* uses both the same way and still ends every reference the vif holds: no *)
(* grant outlives its vif unless the guest maps it, and while the vif is   *)
(* there each reference in its arrays is granted.                          *)
THEOREM GrantsKept == Spec => []GrantsBalanced
<1>1. Init => GrantsBalanced
  <2> SUFFICES ASSUME Init PROVE GrantsBalanced
    OBVIOUS
  <2>1. Live = {}
    <3>1. nr_ring_pgs["tx"] = 0
      BY DEF Init, Dirs
    <3> QED
      BY <3>1, InitArrays, NothingLive
  <2>2. PICK taken \in SUBSET Elsewhere : gtab = [r \in taken |-> Other]
    BY DEF Init
  <2>3. Own = {}
    BY <2>2 DEF Own
  <2> QED
    BY <2>1, <2>3, Balance
<1> QED
  BY <1>1, InitArrays, NextArrays, NextTable, NextBalanced, PTL DEF Spec

-----------------------------------------------------------------------------
(* The rest of the state.                                                  *)

SlotsOK == \A d \in Dirs : vifgref[d] \in [Slots -> 0 .. NRefs \cup {NoRef}]

ControlOK ==
  /\ vif \in {"up", "down", "lost"} /\ att \in {"on", "off"} /\ feature \in {0, 1}
  /\ vifs \in 0 .. MaxVifs /\ attaches \in 0 .. MaxAttach
  /\ gpc \in {"none", "ring_tx", "wait_tx", "ring_rx", "wait_rx", "bufs_tx",
              "bufs_rx", "evtchn", "ready"}

(* TypeOK in parts. *)
LEMMA TypeParts == ArraysOK /\ TableOK /\ SlotsOK /\ ControlOK => TypeOK
<1> SUFFICES ASSUME ArraysOK, TableOK, SlotsOK, ControlOK PROVE TypeOK
  OBVIOUS
<1>1. \A d \in Dirs : nr_ring_pgs[d] \in {0, RingPages} /\ nr_buf_pgs[d] \in 0 .. NSlots - 1
  BY DEF ArraysOK, Arrays
<1>2. ASSUME NEW d \in Dirs
      PROVE  Entries(ring_ref[d]) \cup Entries(buf_ref[d]) \subseteq 1 .. NRefs \cup {NoRef}
  <2>1. ring_ref[d] \in Seq(RefValues) /\ buf_ref[d] \in Seq(RefValues)
    BY DEF ArraysOK, Arrays
  <2>2. \A s \in Seq(RefValues) : Entries(s) \subseteq RefValues
    BY DEF Entries
  <2> QED
    BY <2>1, <2>2 DEF RefValues
<1> QED
  BY <1>1, <1>2 DEF TypeOK, TableOK, SlotsOK, ControlOK

(* The place of a marked slot among the marked ones. *)
Place(d, stale, i) == Cardinality({n \in Marked(d, stale) : n <= i})

(* It is a place in the array of references. *)
LEMMA MarkedPlace ==
  ASSUME NEW d \in Dirs, NEW stale, NEW i \in Marked(d, stale)
  PROVE  Place(d, stale, i) \in 1 .. Cardinality(Marked(d, stale))
<1> DEFINE m == Marked(d, stale)
           T == {n \in m : n <= i}
<1>1. IsFiniteSet(m) /\ m \subseteq Nat
  BY MarkedPages, NewPages, GrantAssumption DEF Slots
<1>2. i \in T /\ T \in SUBSET m
  BY <1>1
<1> HIDE DEF m, T
<1>3. IsFiniteSet(T) /\ Cardinality(T) <= Cardinality(m)
  BY <1>1, <1>2, FS_Subset
<1>4. Cardinality(T) \in Nat /\ Cardinality(T) # 0 /\ Cardinality(m) \in Nat
  BY <1>1, <1>2, <1>3, FS_EmptySet, FS_CardinalityType
<1>5. Cardinality(T) \in 1 .. Cardinality(m)
  BY <1>3, <1>4
<1> QED
  BY <1>5 DEF m, T, Place

(* xenvif_grant_ring puts the k-th reference in the k-th marked slot. *)
LEMMA AttachSlots ==
  ASSUME NEW stale, NEW lost, BridgeAttach(stale, lost)
  PROVE  vifgref' = [d \in Dirs |-> [i \in Slots |->
           IF i \in Marked(d, stale[d]) THEN buf_ref'[d][Place(d, stale[d], i)] ELSE 0]]
BY DEF BridgeAttach, Place

(* The slots stay well typed. *)
LEMMA NextSlots == ArraysOK /\ TableOK /\ SlotsOK /\ [Next]_vars => SlotsOK'
<1> SUFFICES ASSUME ArraysOK, TableOK, SlotsOK, [Next]_vars PROVE SlotsOK'
  OBVIOUS
<1>1. ASSUME NEW stale, NEW lost, BridgeAttach(stale, lost) PROVE SlotsOK'
  <2> SUFFICES ASSUME NEW d \in Dirs
               PROVE  vifgref'[d] \in [Slots -> 0 .. NRefs \cup {NoRef}]
    BY DEF SlotsOK
  <2> DEFINE m == Marked(d, stale[d])
             At(i) == Place(d, stale[d], i)
  <2>1. vifgref'[d] = [i \in Slots |-> IF i \in m THEN buf_ref'[d][At(i)] ELSE 0]
    BY <1>1, AttachSlots
  <2>2. buf_ref'[d] \in Seq(RefValues) /\ Len(buf_ref'[d]) = Cardinality(m)
    BY <1>1, AttachGrants DEF TableOK, Granted
  <2>3. \A i \in m : At(i) \in 1 .. Cardinality(m)
    BY MarkedPlace
  <2> HIDE DEF m, At
  <2>4. \A i \in m : buf_ref'[d][At(i)] \in RefValues
    BY <2>2, <2>3
  <2>5. RefValues \subseteq 0 .. NRefs \cup {NoRef} /\ 0 \in 0 .. NRefs
    BY GrantAssumption DEF RefValues
  <2> QED
    BY <2>1, <2>4, <2>5
<1>2. ASSUME NEW keep \in BOOLEAN, BridgeReattach(keep) PROVE SlotsOK'
  <2>1. 0 \in 0 .. NRefs
    BY GrantAssumption
  <2>2. CASE keep
    BY <1>2, <2>2 DEF BridgeReattach, SlotsOK
  <2>3. CASE ~keep
    BY <1>2, <2>1, <2>3 DEF BridgeReattach, SlotsOK
  <2> QED
    BY <2>2, <2>3
<1>3. VifAlloc \/ BridgeDetach \/ SetFeature \/ ReadRingGrefs \/ Disconnect \/ GuestDies
      \/ UNCHANGED vars => UNCHANGED vifgref
  BY DEF VifAlloc, BridgeDetach, SetFeature, ReadRingGrefs, Disconnect, GuestDies, vars
<1>4. Setup => UNCHANGED vifgref
  BY DEF Setup, MapRing, WaitSlots, MapBufs, WriteEvtchn
<1>5. (\E junk \in 1 .. NRefs : VifFree(junk) \/ VifFault(junk)) => UNCHANGED vifgref
  BY DEF VifFree, VifFault
<1>6. CASE UNCHANGED vifgref
  BY <1>6 DEF SlotsOK
<1> QED
  BY <1>1, <1>2, <1>3, <1>4, <1>5, <1>6 DEF Next

(* Counters and program counters stay in range. *)
LEMMA NextControl == ControlOK /\ [Next]_vars => ControlOK'
<1> SUFFICES ASSUME ControlOK, [Next]_vars PROVE ControlOK'
  OBVIOUS
<1> USE DEF ControlOK, backVars, guestVars
<1>1. CASE VifAlloc
  BY <1>1, GrantAssumption DEF VifAlloc
<1>2. CASE \E stale \in [Dirs -> StalePages], lost \in LostCommits : BridgeAttach(stale, lost)
  <2>1. UNCHANGED <<vif, vifs, feature, gpc>> /\ att' = "on"
        /\ attaches < MaxAttach /\ attaches' = attaches + 1
    BY <1>2 DEF BridgeAttach
  <2> QED
    BY <2>1, GrantAssumption
<1>3. CASE \E keep \in BOOLEAN : BridgeReattach(keep)
  <2>1. UNCHANGED <<vif, vifs, feature, gpc>> /\ att' = "on"
        /\ attaches < MaxAttach /\ attaches' = attaches + 1
    BY <1>3 DEF BridgeReattach
  <2> QED
    BY <2>1, GrantAssumption
<1>4. CASE BridgeDetach \/ SetFeature
  BY <1>4 DEF BridgeDetach, SetFeature
<1>5. CASE \E junk \in 1 .. NRefs : VifFree(junk) \/ VifFault(junk)
  <2>1. UNCHANGED <<vifs, attaches, feature, gpc>> /\ vif' \in {"down", "lost"} /\ att' = "off"
    BY <1>5 DEF VifFree, VifFault
  <2> QED
    BY <2>1
<1>6. CASE ReadRingGrefs \/ Disconnect \/ GuestDies
  BY <1>6 DEF ReadRingGrefs, Disconnect, GuestDies
<1>7. CASE Setup
  BY <1>7 DEF Setup, MapRing, WaitSlots, MapBufs, WriteEvtchn
<1>8. CASE UNCHANGED vars
  BY <1>8 DEF vars
<1> QED
  BY <1>1, <1>2, <1>3, <1>4, <1>5, <1>6, <1>7, <1>8 DEF Next

(* Every reference in the arrays, in the slots and in the guest's mappings *)
(* is one of the grant table, however many grants there are and whichever  *)
(* entries other backends hold.                                            *)
THEOREM TypeCorrect == Spec => []TypeOK
<1>1. Init => SlotsOK
  <2>1. 0 \in 0 .. NRefs
    BY GrantAssumption
  <2> QED
    BY <2>1 DEF Init, SlotsOK
<1>2. Init => ControlOK
  BY GrantAssumption DEF Init, ControlOK
<1> QED
  BY <1>1, <1>2, InitArrays, NextArrays, NextTable, NextSlots, NextControl, TypeParts, PTL
     DEF Spec

-----------------------------------------------------------------------------
(* What the guest maps.  A lost transaction leaves the references of an    *)
(* earlier vif in xenstore: the theorem is about commits that succeed.     *)

Committed == TRUE \notin LostCommits

(* While the vif's rings are granted, xenstore has the arrays of their     *)
(* pages, and the k-th reference is the k-th page.                         *)
RingsGranted ==
  vif = "up" /\ nr_ring_pgs["tx"] # 0 =>
    /\ refs = ring_ref
    /\ \A d \in Dirs : \A k \in 1 .. RingPages :
         ring_ref[d][k] # NoRef => gtab[ring_ref[d][k]] = RingPage(d, k)

(* The guest starts only on a vif whose rings are granted. *)
Handshake ==
  /\ att = "on" => vif = "up" /\ nr_ring_pgs["tx"] # 0
  /\ feature = 1 /\ vif = "up" => nr_ring_pgs["tx"] # 0
  /\ gpc # "none" /\ vif = "up" => nr_ring_pgs["tx"] # 0

(* What it has read are references of ring pages, those that are there at  *)
(* all, even if the vif has been removed meanwhile.                        *)
GuestRefs ==
  gpc # "none" => \A d \in Dirs :
    /\ ring_grefs[d] \in Seq(RefValues) /\ Len(ring_grefs[d]) = RingPages + 1
    /\ \A k \in 1 .. RingPages :
         Mappable(ring_grefs[d][k]) => gtab[ring_grefs[d][k]] = RingPage(d, k)

RingMaps == ring_gnt = [d \in Dirs |-> ring_gnt[d]] /\ RingShared

(* Granting and freeing keep the rings' references in order. *)
LEMMA NextGranted ==
  ASSUME Committed
  PROVE  ArraysOK /\ TableOK /\ GrantsBalanced /\ RingsGranted /\ [Next]_vars => RingsGranted'
<1> SUFFICES ASSUME ArraysOK, TableOK, GrantsBalanced, RingsGranted, [Next]_vars,
                    vif' = "up", nr_ring_pgs'["tx"] # 0
             PROVE  /\ refs' = ring_ref'
                    /\ \A d \in Dirs : \A k \in 1 .. RingPages : ring_ref'[d][k] # NoRef =>
                         gtab'[ring_ref'[d][k]] = RingPage(d, k)
  BY DEF RingsGranted
<1>1. CASE VifAlloc
  BY <1>1 DEF VifAlloc, Dirs
<1>2. ASSUME NEW stale, NEW lost \in LostCommits, BridgeAttach(stale, lost)
      PROVE  /\ refs' = ring_ref'
             /\ \A d \in Dirs : \A k \in 1 .. RingPages : ring_ref'[d][k] # NoRef =>
                  gtab'[ring_ref'[d][k]] = RingPage(d, k)
  <2>1. Granted(stale)
    BY <1>2, AttachGrants DEF TableOK
  <2>2. refs' = ring_ref'
    <3>1. lost = FALSE
      BY GrantAssumption DEF Committed
    <3> QED
      BY <1>2, <3>1 DEF BridgeAttach
  <2>3. \A k \in 1 .. RingPages : k \in 1 .. RingPages + 1 /\ k <= RingPages
    BY GrantAssumption
  <2>4. \A d \in Dirs : \A k \in 1 .. RingPages : RingGrants(d)[k] = RingPage(d, k)
    BY <2>3 DEF RingGrants, NrRingPgs, RingPgs
  <2> QED
    BY <2>1, <2>2, <2>3, <2>4 DEF Granted
<1>3. CASE \E junk \in 1 .. NRefs : VifFree(junk) \/ VifFault(junk)
  BY <1>3 DEF VifFree, VifFault
<1>4. CASE GuestDies
  <2>1. UNCHANGED <<vif, ring_ref, nr_ring_pgs, refs>>
    BY <1>4 DEF GuestDies, backVars
  <2>2. gtab' = [e \in {r \in DOMAIN gtab : gtab[r] = Other \/ r \in Live} |-> gtab[e]]
    BY <1>4 DEF GuestDies, Live
  <2>3. ASSUME NEW d \in Dirs, NEW k \in 1 .. RingPages, ring_ref[d][k] # NoRef
        PROVE  gtab'[ring_ref[d][k]] = gtab[ring_ref[d][k]]
    <3>1. ring_ref[d] \in Seq(RefValues) /\ Len(ring_ref[d]) = RingPages + 1
      BY <2>1 DEF ArraysOK, Arrays
    <3>2. k \in DOMAIN ring_ref[d]
      BY <3>1, GrantAssumption
    <3>3. ring_ref[d][k] \in Live
      BY <3>2 DEF Live, Entries
    <3>4. ring_ref[d][k] \in Own
      BY <2>3, <3>3, Balance
    <3> QED
      BY <2>2, <3>3, <3>4 DEF Own
  <2> QED
    BY <2>1, <2>3 DEF RingsGranted
<1>5. CASE \/ BridgeDetach \/ SetFeature \/ (\E keep \in BOOLEAN : BridgeReattach(keep))
           \/ ReadRingGrefs \/ Setup \/ Disconnect \/ UNCHANGED vars
  <2>1. UNCHANGED <<vif, nr_ring_pgs, ring_ref>>
    BY <1>5, ArraysKept DEF arrays
  <2>2. UNCHANGED <<gtab, refs>>
    <3>1. BridgeDetach \/ SetFeature \/ (\E keep \in BOOLEAN : BridgeReattach(keep))
            => UNCHANGED <<gtab, refs>>
      BY DEF BridgeDetach, SetFeature, BridgeReattach
    <3>2. ReadRingGrefs \/ Disconnect \/ UNCHANGED vars => UNCHANGED <<gtab, refs>>
      BY DEF ReadRingGrefs, Disconnect, vars
    <3>3. Setup => UNCHANGED <<gtab, refs>>
      BY DEF Setup, MapRing, WaitSlots, MapBufs, WriteEvtchn
    <3> QED
      BY <1>5, <3>1, <3>2, <3>3
  <2> QED
    BY <2>1, <2>2 DEF RingsGranted
<1> QED
  BY <1>1, <1>2, <1>3, <1>4, <1>5 DEF Next

(* The guest is connected, or connecting, only to granted rings. *)
LEMMA NextHandshake ==
  ArraysOK /\ Handshake /\ [Next]_vars => Handshake'
<1> SUFFICES ASSUME ArraysOK, Handshake, [Next]_vars PROVE Handshake'
  OBVIOUS
<1> USE DEF Handshake
<1>1. CASE VifAlloc
  BY <1>1 DEF VifAlloc, guestVars
<1>2. ASSUME NEW stale, NEW lost \in LostCommits, BridgeAttach(stale, lost)
      PROVE  Handshake'
  <2>1. vif' = "up" /\ nr_ring_pgs["tx"] = 0 /\ UNCHANGED gpc
    BY <1>2 DEF BridgeAttach, guestVars
  <2>2. nr_ring_pgs'["tx"] = RingPages /\ RingPages # 0
    BY <1>2, GrantAssumption DEF BridgeAttach, NrRingPgs, Dirs
  <2> QED
    BY <2>1, <2>2
<1>3. CASE \E junk \in 1 .. NRefs : VifFree(junk) \/ VifFault(junk)
  BY <1>3 DEF VifFree, VifFault, guestVars
<1>4. CASE \E keep \in BOOLEAN : BridgeReattach(keep)
  BY <1>4 DEF BridgeReattach, guestVars
<1>5. CASE BridgeDetach \/ SetFeature
  BY <1>5 DEF BridgeDetach, SetFeature, backVars, guestVars
<1>6. CASE ReadRingGrefs
  BY <1>6 DEF ReadRingGrefs, backVars
<1>7. CASE Disconnect \/ GuestDies
  BY <1>7 DEF Disconnect, GuestDies, backVars
<1>8. CASE Setup
  <2>1. gpc # "none" /\ UNCHANGED <<att, vif, feature, nr_ring_pgs>>
    BY <1>8 DEF Setup, MapRing, WaitSlots, MapBufs, WriteEvtchn, backVars
  <2> QED
    BY <2>1
<1>9. CASE UNCHANGED vars
  BY <1>9 DEF vars
<1> QED
  BY <1>1, <1>2, <1>3, <1>4, <1>5, <1>6, <1>7, <1>8, <1>9 DEF Next

(* The references the guest has read stay references of ring pages. *)
LEMMA NextGuestRefs ==
  ArraysOK /\ TableOK /\ RingsGranted /\ Handshake /\ GuestRefs /\ [Next]_vars => GuestRefs'
<1> SUFFICES ASSUME ArraysOK, TableOK, RingsGranted, Handshake, GuestRefs, [Next]_vars
             PROVE  GuestRefs'
  OBVIOUS
<1>1. ASSUME UNCHANGED ring_grefs, gpc' # "none" => gpc # "none",
             DOMAIN gtab' \subseteq DOMAIN gtab, \A e \in DOMAIN gtab' : gtab'[e] = gtab[e]
      PROVE  GuestRefs'
  <2>1. \A r : Mappable(r)' => Mappable(r) /\ gtab'[r] = gtab[r]
    BY <1>1 DEF Mappable
  <2> SUFFICES ASSUME gpc' # "none", NEW d \in Dirs
               PROVE  /\ ring_grefs[d] \in Seq(RefValues) /\ Len(ring_grefs[d]) = RingPages + 1
                      /\ \A k \in 1 .. RingPages : Mappable(ring_grefs[d][k])' =>
                           gtab'[ring_grefs[d][k]] = RingPage(d, k)
    BY <1>1 DEF GuestRefs, Mappable
  <2> QED
    BY <1>1, <2>1 DEF GuestRefs
<1>2. CASE ReadRingGrefs
  <2>1. vif = "up" /\ nr_ring_pgs["tx"] # 0 /\ ring_grefs' = refs /\ gtab' = gtab
    BY <1>2 DEF ReadRingGrefs, Handshake
  <2>2. refs = ring_ref
    BY <2>1 DEF RingsGranted
  <2> SUFFICES ASSUME NEW d \in Dirs
               PROVE  /\ ring_ref[d] \in Seq(RefValues) /\ Len(ring_ref[d]) = RingPages + 1
                      /\ \A k \in 1 .. RingPages : Mappable(ring_ref[d][k]) =>
                           gtab[ring_ref[d][k]] = RingPage(d, k)
    BY <2>1, <2>2 DEF GuestRefs, Mappable
  <2>3. ring_ref[d] \in Seq(RefValues) /\ Len(ring_ref[d]) = RingPages + 1
    BY <2>1 DEF ArraysOK, Arrays
  <2>4. ASSUME NEW k \in 1 .. RingPages, Mappable(ring_ref[d][k])
        PROVE  ring_ref[d][k] # NoRef
    BY <2>4, GrantAssumption DEF Mappable, TableOK, NoRef
  <2> QED
    BY <2>1, <2>3, <2>4 DEF RingsGranted
<1>3. CASE VifAlloc
  BY <1>3 DEF VifAlloc, GuestRefs, guestVars
<1>4. ASSUME NEW stale, NEW lost, BridgeAttach(stale, lost) PROVE GuestRefs'
  <2>1. gpc = "none" /\ gpc' = "none"
    BY <1>4 DEF BridgeAttach, Handshake, guestVars
  <2> QED
    BY <2>1 DEF GuestRefs
<1>5. ASSUME NEW junk, VifFree(junk) PROVE GuestRefs'
  <2>0. UNCHANGED <<ring_grefs, gpc>>
    BY <1>5 DEF VifFree, guestVars
  <2>1. CASE nr_ring_pgs["tx"] = 0
    BY <1>1, <1>5, <2>0, <2>1 DEF VifFree
  <2>2. CASE nr_ring_pgs["tx"] # 0
    BY <1>1, <1>5, <2>0, <2>2, FreeTable
  <2> QED
    BY <2>1, <2>2
<1>6. ASSUME NEW junk, VifFault(junk) PROVE GuestRefs'
  <2>1. UNCHANGED <<ring_grefs, gpc>>
    BY <1>6 DEF VifFault, guestVars
  <2>2. gtab' = [e \in DOMAIN gtab \ (FaultEnds(junk) \ held) |-> gtab[e]]
    BY <1>6, FaultArrays
  <2> QED
    BY <1>1, <2>1, <2>2
<1>7. CASE BridgeDetach \/ SetFeature \/ (\E keep \in BOOLEAN : BridgeReattach(keep))
  BY <1>1, <1>7 DEF BridgeDetach, SetFeature, BridgeReattach, guestVars
<1>8. CASE Disconnect \/ GuestDies
  BY <1>8 DEF Disconnect, GuestDies, GuestRefs
<1>9. CASE Setup
  <2>1. UNCHANGED <<ring_grefs, gtab>> /\ gpc # "none"
    BY <1>9 DEF Setup, MapRing, WaitSlots, MapBufs, WriteEvtchn
  <2> QED
    BY <1>1, <2>1
<1>10. CASE UNCHANGED vars
  BY <1>1, <1>10 DEF vars
<1> QED
  BY <1>2, <1>3, <1>4, <1>5, <1>6, <1>7, <1>8, <1>9, <1>10 DEF Next

(* The guest maps the pages of the rings and no others. *)
LEMMA NextRingMaps ==
  GuestRefs /\ RingMaps /\ [Next]_vars => RingMaps'
<1> SUFFICES ASSUME GuestRefs, RingMaps, [Next]_vars
             PROVE  RingMaps'
  OBVIOUS
<1>1. CASE UNCHANGED ring_gnt /\ (gpc' # "none" => gpc # "none")
  BY <1>1 DEF RingMaps, RingShared
<1>2. CASE ReadRingGrefs
  <2>1. ring_gnt' = [d \in Dirs |-> <<>>]
    BY <1>2 DEF ReadRingGrefs
  <2> QED
    BY <2>1 DEF RingMaps, RingShared
<1>3. ASSUME NEW d \in Dirs, MapRing(d) PROVE RingMaps'
  <2>1. gpc # "none"
    BY <1>3 DEF MapRing
  <2>2. ring_grefs[d] \in Seq(RefValues) /\ Len(ring_grefs[d]) = RingPages + 1
    BY <2>1 DEF GuestRefs
  <2> DEFINE s == RingMapped(d)
             g == [k \in 1 .. Len(s) |-> PageBehind(s[k])]
  <2>3. ring_gnt' = [ring_gnt EXCEPT ![d] = g]
    BY <1>3 DEF MapRing
  <2>4. s = SubSeq(ring_grefs[d], 1, RingPages)
    BY <2>2, GrantAssumption DEF RingMapped
  <2>5. Len(s) = RingPages /\ \A k \in 1 .. RingPages : s[k] = ring_grefs[d][k]
    BY <2>2, <2>4, GrantAssumption
  <2>6. \A k \in 1 .. RingPages : PageBehind(ring_grefs[d][k]) \in {RingPage(d, k), None}
    BY <2>1 DEF GuestRefs, PageBehind
  <2>7. DOMAIN g = 1 .. RingPages /\ \A k \in 1 .. RingPages : g[k] \in {RingPage(d, k), None}
    BY <2>5, <2>6
  <2> HIDE DEF g
  <2>8. ring_gnt'[d] = g /\ \A c \in Dirs : c # d => ring_gnt'[c] = ring_gnt[c]
    BY <2>3 DEF RingMaps
  <2>9. ring_gnt' = [c \in Dirs |-> ring_gnt'[c]]
    BY <2>3 DEF RingMaps
  <2>10. \A c \in Dirs : \A k \in DOMAIN ring_gnt[c] :
           ring_gnt[c][k] \in {RingPage(c, k), None}
    BY <2>1 DEF RingMaps, RingShared
  <2>11. \A c \in Dirs : \A k \in DOMAIN ring_gnt'[c] :
           ring_gnt'[c][k] \in {RingPage(c, k), None}
    <3> TAKE c \in Dirs
    <3>1. CASE c = d
      BY <2>7, <2>8, <3>1
    <3>2. CASE c # d
      BY <2>8, <2>10, <3>2
    <3> QED
      BY <3>1, <3>2
  <2> QED
    BY <2>9, <2>11 DEF RingMaps, RingShared
<1>4. ASSUME NEW d \in Dirs, WaitSlots(d) \/ MapBufs(d) PROVE RingMaps'
  BY <1>1, <1>4 DEF WaitSlots, MapBufs
<1>5. CASE WriteEvtchn \/ Disconnect \/ UNCHANGED vars
  BY <1>1, <1>5 DEF WriteEvtchn, Disconnect, vars
<1>6. CASE GuestDies
  BY <1>1, <1>6 DEF GuestDies
<1>7. CASE VifAlloc \/ BridgeDetach \/ SetFeature
  BY <1>1, <1>7 DEF VifAlloc, BridgeDetach, SetFeature, guestVars
<1>8. CASE \/ \E stale \in [Dirs -> StalePages], lost \in LostCommits : BridgeAttach(stale, lost)
           \/ \E keep \in BOOLEAN : BridgeReattach(keep)
           \/ \E junk \in 1 .. NRefs : VifFree(junk) \/ VifFault(junk)
  <2>1. UNCHANGED <<ring_gnt, gpc>>
    BY <1>8 DEF BridgeAttach, BridgeReattach, VifFree, VifFault, guestVars
  <2> QED
    BY <1>1, <2>1
<1> QED
  BY <1>2, <1>3, <1>4, <1>5, <1>6, <1>7, <1>8 DEF Next, Setup

(* Between the count that xenvif_grant_ring takes for a last index, the    *)
(* entry it grants too many and the reference gnttab_map leaves out, the   *)
(* guest maps exactly the pages of the ring, in order, for rings of any    *)
(* size, over any number of attachments, vifs, removals and deaths of the  *)
(* guest, also in the middle of its setup.                                 *)
THEOREM RingsShared == Committed => (Spec => []RingShared)
<1> SUFFICES ASSUME Committed PROVE Spec => []RingShared
  OBVIOUS
<1>1. Init => RingsGranted /\ Handshake /\ GuestRefs
  BY DEF Init, RingsGranted, Handshake, GuestRefs, Dirs
<1>2. Init => RingMaps
  <2> SUFFICES ASSUME Init PROVE RingMaps
    OBVIOUS
  <2>1. ring_gnt = [d \in Dirs |-> <<>>] /\ gpc = "none"
    BY DEF Init
  <2> QED
    BY <2>1 DEF RingMaps, RingShared
<1>3. RingMaps => RingShared
  BY DEF RingMaps
<1>4. [](ArraysOK /\ TableOK /\ GrantsBalanced) /\ Init /\ [][Next]_vars => []RingShared
  BY <1>1, <1>2, <1>3, NextGranted, NextHandshake, NextGuestRefs, NextRingMaps, PTL
<1>5. Spec => [](ArraysOK /\ TableOK)
  BY InitArrays, NextArrays, NextTable, PTL DEF Spec
<1> QED
  BY <1>4, <1>5, GrantsKept, PTL DEF Spec

-----------------------------------------------------------------------------
(* The buffers.  First, counting in a ring that starts on a page.          *)

(* A ring that starts on a page has a new page at every other slot. *)
LEMMA EvenSlots ==
  ASSUME NEW d \in Dirs, BufBase(d) % 2 = 0
  PROVE  NewPage(d) = Evens((NSlots + 1) \div 2)
<1>1. BufBase(d) \in Nat
  BY GrantAssumption DEF BufBase
<1>2. \A i \in Nat \ {0} :
        (BufBase(d) + i) \div 2 # (BufBase(d) + (i - 1)) \div 2 <=> i % 2 = 0
  BY <1>1
<1>3. \A x, y : BufPage(x) = BufPage(y) <=> x = y
  BY DEF BufPage
<1>4. \A i \in Nat \ {0} : PageOf(d, i) # PageOf(d, i - 1) <=> i % 2 = 0
  BY <1>2, <1>3 DEF PageOf
<1>5. \A i : i \in Slots <=> i \in Nat /\ i < NSlots
  BY GrantAssumption DEF Slots
<1>6. NewPage(d) = {i \in Slots : i % 2 = 0}
  BY <1>4, <1>5 DEF NewPage
<1>7. \A f \in Nat : f % 2 = 0 => (f < NSlots <=> f < 2 * ((NSlots + 1) \div 2))
  BY GrantAssumption
<1> QED
  BY <1>5, <1>6, <1>7 DEF Evens

(* The k-th of them is slot 2(k - 1). *)
LEMMA NthEven ==
  ASSUME NEW n \in Nat, NEW k \in 1 .. n
  PROVE  Nth(Evens(n), k) = 2 * (k - 1)
<1> DEFINE e == Nth(Evens(n), k)
<1>1. e \in Evens(n) /\ Cardinality(Below(Evens(n), e)) = k - 1
  <2>1. Evens(n) \subseteq Nat
    BY DEF Evens
  <2> QED
    BY <2>1, EvensCount, NthFound
<1> HIDE DEF e
<1>2. PICK j \in Nat : e = 2 * j
  <2>1. e \in Nat /\ e % 2 = 0
    BY <1>1 DEF Evens
  <2>2. e \div 2 \in Nat /\ e = 2 * (e \div 2)
    BY <2>1
  <2> QED
    BY <2>2
<1>3. Below(Evens(n), e) = Evens(j)
  BY <1>1, <1>2 DEF Below, Evens
<1>4. j = k - 1
  BY <1>1, <1>3, EvensCount
<1> QED
  BY <1>2, <1>4 DEF e

(* The k-th element of a set has k elements of the set up to it. *)
LEMMA NthUpTo ==
  ASSUME NEW S, S \subseteq Nat, IsFiniteSet(S), NEW k \in 1 .. Cardinality(S)
  PROVE  Cardinality({n \in S : n <= Nth(S, k)}) = k
<1> DEFINE e == Nth(S, k)
<1>1. e \in S /\ Cardinality(Below(S, e)) = k - 1
  BY NthFound
<1> HIDE DEF e
<1>2. {n \in S : n <= e} = Below(S, e) \cup {e} /\ e \notin Below(S, e)
  <2>1. e \in Nat /\ \A n \in S : n \in Nat
    BY <1>1
  <2>2. \A n \in S : (n <= e <=> n < e \/ n = e) /\ ~ (e < e)
    BY <2>1
  <2> QED
    BY <1>1, <2>2 DEF Below
<1>3. IsFiniteSet(Below(S, e))
  BY FS_Subset DEF Below
<1>4. Cardinality({n \in S : n <= e}) = (k - 1) + 1
  BY <1>1, <1>2, <1>3, FS_AddElement
<1>5. Cardinality(S) \in Nat
  BY FS_CardinalityType
<1> QED
  BY <1>4, <1>5 DEF e

(* Slot i's buffer is in the page at place i / 2 + 1 of nm_buf_pages. *)
LEMMA BufPgsEven ==
  ASSUME NEW d \in Dirs, BufBase(d) % 2 = 0, NEW i \in Slots
  PROVE  /\ i \div 2 + 1 \in 1 .. Cardinality(NewPage(d))
         /\ BufPgs(d)[i \div 2 + 1] = PageOf(d, i)
<1> DEFINE n == (NSlots + 1) \div 2
           k == i \div 2 + 1
<1>1. n \in Nat
  BY GrantAssumption
<1>2. NewPage(d) = Evens(n)
  BY EvenSlots
<1>3. Cardinality(NewPage(d)) = n
  BY <1>1, <1>2, EvensCount
<1>4. i \in Nat /\ i < NSlots /\ BufBase(d) \in Nat
  BY GrantAssumption DEF Slots, BufBase
<1>5. k \in 1 .. n /\ k - 1 = i \div 2
  BY <1>4, GrantAssumption
<1>6. Nth(NewPage(d), k) = 2 * (i \div 2)
  BY <1>1, <1>2, <1>5, NthEven
<1>7. (BufBase(d) + 2 * (i \div 2)) \div 2 = (BufBase(d) + i) \div 2
  BY <1>4
<1>8. PageOf(d, 2 * (i \div 2)) = PageOf(d, i)
  BY <1>7 DEF PageOf
<1>9. BufPgs(d)[k] = PageOf(d, Nth(NewPage(d), k))
  BY <1>3, <1>5 DEF BufPgs
<1> QED
  BY <1>3, <1>5, <1>6, <1>8, <1>9

-----------------------------------------------------------------------------
(* All pages of a ring's buffers were marked: vmalloc had not left the     *)
(* first one in the array.                                                 *)
Whole(d) == Len(buf_ref[d]) = nr_buf_pgs[d] + 1

(* The slots as xenvif_grant_ring leaves them then, or as they are when    *)
(* netmap has set them up anew.                                            *)
SlotRef(d, i) ==
  IF i \in NewPage(d) THEN buf_ref[d][Cardinality({n \in NewPage(d) : n <= i})] ELSE 0

(* While the vif's rings are granted, the k-th reference is the k-th page  *)
(* of nm_buf_pages, and the slots have the references or none.             *)
BufsGranted ==
  vif = "up" /\ nr_ring_pgs["tx"] # 0 =>
    /\ attaches >= 1
    /\ \A d \in Dirs :
         /\ nr_buf_pgs[d] = NrBufPgs(d)
         /\ \A k \in 1 .. Len(buf_ref[d]) :
              buf_ref[d][k] # NoRef => gtab[buf_ref[d][k]] = BufPgs(d)[k]
         /\ Whole(d) => \/ vifgref[d] = [i \in Slots |-> SlotRef(d, i)]
                        \/ attaches > 1 /\ vifgref[d] = [i \in Slots |-> 0]

(* Granting establishes this. *)
LEMMA AttachBufs ==
  ASSUME ControlOK, TableOK, NEW stale, NEW lost, BridgeAttach(stale, lost)
  PROVE  BufsGranted'
<1>1. Granted(stale)
  BY AttachGrants DEF TableOK
<1>2. attaches' >= 1
  BY GrantAssumption DEF ControlOK, BridgeAttach
<1>3. ASSUME NEW d \in Dirs PROVE nr_buf_pgs'[d] = NrBufPgs(d)
  BY DEF BridgeAttach
<1>4. ASSUME NEW d \in Dirs, NEW k \in 1 .. Len(buf_ref'[d]), buf_ref'[d][k] # NoRef
      PROVE  gtab'[buf_ref'[d][k]] = BufPgs(d)[k]
  <2>1. gtab'[buf_ref'[d][k]] = BufGrants(d, stale[d])[k]
    BY <1>1, <1>4 DEF Granted
  <2>2. Len(buf_ref'[d]) = Cardinality(Marked(d, stale[d]))
    BY <1>1 DEF Granted
  <2> QED
    BY <2>1, <2>2 DEF BufGrants
<1>5. ASSUME NEW d \in Dirs, Whole(d)'
      PROVE  vifgref'[d] = [i \in Slots |-> SlotRef(d, i)']
  <2>1. Cardinality(Marked(d, stale[d])) = NrBufPgs(d) + 1
    BY <1>1, <1>3, <1>5 DEF Granted, Whole
  <2>2. Cardinality(NewPage(d)) \in Nat
    BY NewPages
  <2>3. Cardinality(Marked(d, stale[d])) = Cardinality(NewPage(d))
    BY <2>1, <2>2 DEF NrBufPgs
  <2>4. Marked(d, stale[d]) \in SUBSET NewPage(d) /\ IsFiniteSet(NewPage(d))
    BY MarkedPages, NewPages
  <2>5. Marked(d, stale[d]) = NewPage(d)
    BY <2>3, <2>4, FS_Subset
  <2>6. vifgref'[d] = [i \in Slots |->
          IF i \in Marked(d, stale[d]) THEN buf_ref'[d][Place(d, stale[d], i)] ELSE 0]
    BY AttachSlots
  <2> QED
    BY <2>5, <2>6 DEF Place, SlotRef
<1> QED
  BY <1>2, <1>3, <1>4, <1>5 DEF BufsGranted

(* The other steps keep it. *)
LEMMA NextBufsGranted ==
  ArraysOK /\ TableOK /\ ControlOK /\ GrantsBalanced /\ BufsGranted /\ [Next]_vars
  => BufsGranted'
<1> SUFFICES ASSUME ArraysOK, TableOK, ControlOK, GrantsBalanced, BufsGranted, [Next]_vars
             PROVE  BufsGranted'
  OBVIOUS
<1>1. CASE VifAlloc
  BY <1>1 DEF VifAlloc, Dirs, BufsGranted
<1>2. ASSUME NEW stale, NEW lost, BridgeAttach(stale, lost) PROVE BufsGranted'
  BY <1>2, AttachBufs
<1>3. ASSUME NEW junk, VifFree(junk) \/ VifFault(junk) PROVE BufsGranted'
  <2>1. vif' # "up"
    BY <1>3 DEF VifFree, VifFault
  <2> QED
    BY <2>1 DEF BufsGranted
<1>4. ASSUME NEW keep \in BOOLEAN, BridgeReattach(keep) PROVE BufsGranted'
  <2>1. UNCHANGED <<nr_ring_pgs, nr_buf_pgs, buf_ref, gtab>> /\ nr_ring_pgs["tx"] # 0
        /\ vif = "up" /\ attaches' = attaches + 1
    BY <1>4 DEF BridgeReattach
  <2>2. attaches \in Nat /\ attaches >= 1
    BY <2>1, GrantAssumption DEF ControlOK, BufsGranted
  <2>3. attaches' >= 1 /\ attaches' > 1
    BY <2>1, <2>2
  <2>4. vifgref' = vifgref \/ \A d \in Dirs : vifgref'[d] = [i \in Slots |-> 0]
    BY <1>4 DEF BridgeReattach
  <2>5. \A d \in Dirs : (Whole(d)' <=> Whole(d)) /\ \A i \in Slots : SlotRef(d, i)' = SlotRef(d, i)
    BY <2>1 DEF Whole, SlotRef
  <2>6. ASSUME NEW d \in Dirs, Whole(d)'
        PROVE  \/ vifgref'[d] = [i \in Slots |-> SlotRef(d, i)']
               \/ attaches' > 1 /\ vifgref'[d] = [i \in Slots |-> 0]
    BY <2>1, <2>3, <2>4, <2>5, <2>6 DEF BufsGranted
  <2> QED
    BY <2>1, <2>3, <2>6 DEF BufsGranted
<1>5. ASSUME UNCHANGED <<vif, nr_ring_pgs, nr_buf_pgs, buf_ref, attaches, vifgref>>,
             \A d \in Dirs : \A k \in 1 .. Len(buf_ref[d]) :
               nr_ring_pgs["tx"] # 0 /\ buf_ref[d][k] # NoRef =>
                 gtab'[buf_ref[d][k]] = gtab[buf_ref[d][k]]
      PROVE  BufsGranted'
  <2>1. \A d \in Dirs : (Whole(d)' <=> Whole(d)) /\ \A i \in Slots : SlotRef(d, i)' = SlotRef(d, i)
    BY <1>5 DEF Whole, SlotRef
  <2>2. \A d \in Dirs : [i \in Slots |-> SlotRef(d, i)'] = [i \in Slots |-> SlotRef(d, i)]
    BY <2>1
  <2> SUFFICES ASSUME vif = "up", nr_ring_pgs["tx"] # 0 PROVE BufsGranted'
    BY <1>5 DEF BufsGranted
  <2>3. attaches' >= 1 /\ \A d \in Dirs : nr_buf_pgs'[d] = NrBufPgs(d)
    BY <1>5 DEF BufsGranted
  <2>4. \A d \in Dirs : \A k \in 1 .. Len(buf_ref'[d]) :
          buf_ref'[d][k] # NoRef => gtab'[buf_ref'[d][k]] = BufPgs(d)[k]
    <3> SUFFICES ASSUME NEW d \in Dirs, NEW k \in 1 .. Len(buf_ref[d]),
                        buf_ref[d][k] # NoRef
                 PROVE  gtab'[buf_ref[d][k]] = BufPgs(d)[k]
      BY <1>5
    <3>1. gtab[buf_ref[d][k]] = BufPgs(d)[k]
      BY DEF BufsGranted
    <3>2. gtab'[buf_ref[d][k]] = gtab[buf_ref[d][k]]
      BY <1>5
    <3> QED
      BY <3>1, <3>2
  <2>5. \A d \in Dirs : Whole(d)' =>
          \/ vifgref'[d] = [i \in Slots |-> SlotRef(d, i)']
          \/ attaches' > 1 /\ vifgref'[d] = [i \in Slots |-> 0]
    BY <1>5, <2>1, <2>2 DEF BufsGranted
  <2> QED
    BY <2>3, <2>4, <2>5 DEF BufsGranted
<1>6. CASE GuestDies
  <2>1. UNCHANGED <<vif, nr_ring_pgs, nr_buf_pgs, buf_ref, attaches, vifgref>>
    BY <1>6 DEF GuestDies, backVars
  <2>2. gtab' = [e \in {r \in DOMAIN gtab : gtab[r] = Other \/ r \in Live} |-> gtab[e]]
    BY <1>6 DEF GuestDies, Live
  <2>3. ASSUME NEW d \in Dirs, NEW k \in 1 .. Len(buf_ref[d]), buf_ref[d][k] # NoRef
        PROVE  gtab'[buf_ref[d][k]] = gtab[buf_ref[d][k]]
    <3>1. buf_ref[d] \in Seq(RefValues)
      BY DEF ArraysOK, Arrays
    <3>2. k \in DOMAIN buf_ref[d]
      BY <3>1
    <3>3. buf_ref[d][k] \in Live
      BY <3>2 DEF Live, Entries
    <3>4. buf_ref[d][k] \in Own
      BY <2>3, <3>3, Balance
    <3> QED
      BY <2>2, <3>3, <3>4 DEF Own
  <2> QED
    BY <1>5, <2>1, <2>3
<1>7. CASE BridgeDetach \/ SetFeature \/ ReadRingGrefs \/ Setup \/ Disconnect \/ UNCHANGED vars
  <2>1. BridgeDetach \/ SetFeature \/ ReadRingGrefs \/ Disconnect \/ UNCHANGED vars =>
          UNCHANGED <<vif, nr_ring_pgs, nr_buf_pgs, buf_ref, attaches, vifgref, gtab>>
    BY DEF BridgeDetach, SetFeature, ReadRingGrefs, Disconnect, vars, backVars
  <2>2. Setup => UNCHANGED <<vif, nr_ring_pgs, nr_buf_pgs, buf_ref, attaches, vifgref, gtab>>
    BY DEF Setup, MapRing, WaitSlots, MapBufs, WriteEvtchn, backVars
  <2>3. UNCHANGED <<vif, nr_ring_pgs, nr_buf_pgs, buf_ref, attaches, vifgref, gtab>>
    BY <1>7, <2>1, <2>2
  <2> QED
    BY <1>5, <2>3
<1> QED
  BY <1>1, <1>2, <1>3, <1>4, <1>6, <1>7 DEF Next

(* What the guest took for slot i's buffer is that buffer. *)
SlotShared(d, i) ==
  LET k == i \div 2 + 1 IN
    IF k \in DOMAIN bufs_gnt[d]
      THEN bufs_gnt[d][k] = PageOf(d, i) \/ (bufs_gnt[d][k] = None /\ Exhausted)
      ELSE attaches > 1

BufsShared(d) == BufBase(d) % 2 = 0 /\ Whole(d) => \A i \in Slots : SlotShared(d, i)

(* ... once gnttab_map has been called for the ring's buffers. *)
BufMaps ==
  /\ bufs_gnt = [d \in Dirs |-> bufs_gnt[d]]
  /\ vif = "up" /\ gpc \in {"bufs_rx", "evtchn", "ready"} => BufsShared("tx")
  /\ vif = "up" /\ gpc \in {"evtchn", "ready"} => BufsShared("rx")

(* That call maps the right pages. *)
LEMMA MapBufsShared ==
  ASSUME ArraysOK, TableOK, GrantsBalanced, BufsGranted, nr_ring_pgs["tx"] # 0,
         vif = "up", NEW d \in Dirs, BufBase(d) % 2 = 0, Whole(d), NEW i \in Slots,
         NEW g, g = [k \in 1 .. Len(BufsGrefs(d)) |-> PageBehind(BufsGrefs(d)[k])]
  PROVE  IF i \div 2 + 1 \in DOMAIN g
           THEN g[i \div 2 + 1] = PageOf(d, i) \/ (g[i \div 2 + 1] = None /\ Exhausted)
           ELSE attaches > 1
<1> DEFINE S == {n \in Slots : vifgref[d][n] # 0}
           N == NewPage(d)
           c == Cardinality(N)
           j == i \div 2 + 1
<1>1. buf_ref[d] \in Seq(RefValues) /\ Len(buf_ref[d]) = c
  <2>1. c \in Nat
    BY NewPages
  <2>2. nr_buf_pgs[d] = c - 1
    BY DEF BufsGranted, NrBufPgs
  <2> QED
    BY <2>1, <2>2 DEF ArraysOK, Arrays, Whole
<1>2. j \in 1 .. c /\ BufPgs(d)[j] = PageOf(d, i)
  BY BufPgsEven
<1>3. N \subseteq Nat /\ N \subseteq Slots /\ IsFiniteSet(N)
  BY NewPages, GrantAssumption DEF Slots
<1>4. CASE attaches > 1 /\ vifgref[d] = [n \in Slots |-> 0]
  <2>1. S = {}
    BY <1>4
  <2>2. Cardinality(S) = 0
    BY <2>1, FS_EmptySet
  <2>3. BufsGrefs(d) = [k \in 1 .. 0 |-> vifgref[d][Nth(S, k)]]
    BY <2>2 DEF BufsGrefs
  <2>4. Len(BufsGrefs(d)) = 0
    BY <2>3
  <2>5. DOMAIN g = {}
    BY <2>4
  <2> QED
    BY <1>4, <2>5
<1>5. CASE vifgref[d] = [n \in Slots |-> SlotRef(d, n)]
  <2>1. \A n \in N : Cardinality({f \in N : f <= n}) \in 1 .. c
    <3> TAKE n \in N
    <3>1. {f \in N : f <= n} \in SUBSET N /\ n \in {f \in N : f <= n}
      BY <1>3
    <3> DEFINE T == {f \in N : f <= n}
    <3> HIDE DEF T
    <3>2. IsFiniteSet(T) /\ Cardinality(T) <= c
      BY <1>3, <3>1, FS_Subset DEF T
    <3>3. Cardinality(T) \in Nat /\ Cardinality(T) # 0 /\ c \in Nat
      BY <1>3, <3>1, <3>2, FS_EmptySet, FS_CardinalityType DEF T
    <3>4. Cardinality(T) \in 1 .. c
      BY <3>2, <3>3
    <3> QED
      BY <3>4 DEF T
  <2>2. \A n \in N : vifgref[d][n] \in RefValues
    BY <1>1, <1>3, <1>5, <2>1 DEF SlotRef
  <2>3. 0 \notin RefValues
    BY GrantAssumption DEF RefValues, NoRef
  <2>4. \A n \in Slots \ N : vifgref[d][n] = 0
    BY <1>5 DEF SlotRef
  <2>5. S = N
    BY <1>3, <2>2, <2>3, <2>4
  <2>6. BufsGrefs(d) = [k \in 1 .. c |-> vifgref[d][Nth(N, k)]]
    BY <2>5 DEF BufsGrefs
  <2>7. c \in Nat
    BY NewPages
  <2>8. Len(BufsGrefs(d)) = c
    BY <2>6, <2>7
  <2>9. BufsGrefs(d)[j] = vifgref[d][Nth(N, j)]
    BY <1>2, <2>6
  <2>10. Nth(N, j) \in N /\ Cardinality({n \in N : n <= Nth(N, j)}) = j
    BY <1>2, <1>3, NthFound, NthUpTo
  <2>11. BufsGrefs(d)[j] = buf_ref[d][j]
    BY <1>3, <1>5, <2>9, <2>10 DEF SlotRef
  <2>12. j \in DOMAIN g /\ g[j] = PageBehind(buf_ref[d][j])
    BY <1>2, <2>8, <2>11
  <2>13. j \in DOMAIN buf_ref[d] /\ j \in 1 .. Len(buf_ref[d])
    BY <1>1, <1>2
  <2>14. CASE buf_ref[d][j] = NoRef
    <3>1. Exhausted
      BY <2>13, <2>14 DEF Exhausted, Entries
    <3>2. ~Mappable(buf_ref[d][j])
      BY <2>14, GrantAssumption DEF Mappable, TableOK, NoRef
    <3> QED
      BY <2>12, <3>1, <3>2 DEF PageBehind
  <2>15. CASE buf_ref[d][j] # NoRef
    <3>1. buf_ref[d][j] \in Live
      BY <2>13 DEF Live, Entries
    <3>2. Mappable(buf_ref[d][j])
      BY <2>15, <3>1, Balance DEF Mappable, Own
    <3>3. gtab[buf_ref[d][j]] = PageOf(d, i)
      BY <1>2, <2>13, <2>15 DEF BufsGranted
    <3> QED
      BY <2>12, <3>2, <3>3 DEF PageBehind
  <2> QED
    BY <2>12, <2>14, <2>15
<1> QED
  BY <1>4, <1>5 DEF BufsGranted

(* No step takes a mapped buffer away. *)
LEMMA BufMapsKept ==
  ASSUME BufMaps, UNCHANGED <<ring_ref, buf_ref, nr_buf_pgs, bufs_gnt>>,
         attaches \in Nat, attaches' \in Nat, attaches <= attaches',
         NEW d \in Dirs, BufsShared(d)
  PROVE  BufsShared(d)'
<1>1. (Whole(d)' <=> Whole(d)) /\ (Exhausted' <=> Exhausted)
  BY DEF Whole, Exhausted
<1>2. \A i \in Slots : SlotShared(d, i) => SlotShared(d, i)'
  <2> TAKE i \in Slots
  <2>1. attaches > 1 => attaches' > 1
    OBVIOUS
  <2> QED
    BY <1>1, <2>1 DEF SlotShared
<1> QED
  BY <1>1, <1>2 DEF BufsShared

(* The guest's buffers stay shared over all steps. *)
LEMMA NextBufMaps ==
  ArraysOK /\ TableOK /\ ControlOK /\ GrantsBalanced /\ Handshake /\ BufsGranted
  /\ BufMaps /\ [Next]_vars => BufMaps'
<1> SUFFICES ASSUME ArraysOK, TableOK, ControlOK, GrantsBalanced, Handshake, BufsGranted,
                    BufMaps, [Next]_vars
             PROVE  BufMaps'
  OBVIOUS
<1>a. "tx" \in Dirs /\ "rx" \in Dirs
  BY DEF Dirs
<1>b. attaches \in Nat /\ attaches' \in Nat
  <2>1. ControlOK'
    BY NextControl
  <2> QED
    BY <2>1, GrantAssumption DEF ControlOK
<1>1. ASSUME UNCHANGED <<vif, ring_ref, buf_ref, nr_buf_pgs, bufs_gnt>>,
             attaches <= attaches',
             gpc' \in {"bufs_rx", "evtchn", "ready"} => gpc \in {"bufs_rx", "evtchn", "ready"},
             gpc' \in {"evtchn", "ready"} => gpc \in {"evtchn", "ready"}
      PROVE  BufMaps'
  <2>1. vif' = "up" /\ gpc' \in {"bufs_rx", "evtchn", "ready"} => BufsShared("tx")'
    BY <1>1, <1>a, <1>b, BufMapsKept DEF BufMaps
  <2>2. vif' = "up" /\ gpc' \in {"evtchn", "ready"} => BufsShared("rx")'
    BY <1>1, <1>a, <1>b, BufMapsKept DEF BufMaps
  <2> QED
    BY <1>1, <2>1, <2>2 DEF BufMaps
<1>2. ASSUME gpc' = "none" \/ vif' # "up", UNCHANGED bufs_gnt PROVE BufMaps'
  BY <1>2 DEF BufMaps
<1>3. CASE VifAlloc
  BY <1>2, <1>3 DEF VifAlloc, guestVars
<1>4. ASSUME NEW stale, NEW lost, BridgeAttach(stale, lost) PROVE BufMaps'
  BY <1>2, <1>4 DEF BridgeAttach, Handshake, guestVars
<1>5. ASSUME NEW junk, VifFree(junk) \/ VifFault(junk) PROVE BufMaps'
  BY <1>2, <1>5 DEF VifFree, VifFault, guestVars
<1>6. ASSUME NEW keep \in BOOLEAN, BridgeReattach(keep) PROVE BufMaps'
  <2>1. UNCHANGED <<vif, ring_ref, buf_ref, nr_buf_pgs, bufs_gnt, gpc>> /\ attaches' = attaches + 1
    BY <1>6 DEF BridgeReattach, guestVars
  <2> QED
    BY <1>1, <1>b, <2>1
<1>7. CASE BridgeDetach \/ SetFeature \/ UNCHANGED vars
  <2>1. UNCHANGED <<vif, ring_ref, buf_ref, nr_buf_pgs, bufs_gnt, gpc, attaches>>
    BY <1>7 DEF BridgeDetach, SetFeature, vars, backVars, guestVars
  <2> QED
    BY <1>1, <1>b, <2>1
<1>8. CASE ReadRingGrefs
  <2>1. bufs_gnt' = [d \in Dirs |-> <<>>] /\ gpc' = "ring_tx"
    BY <1>8 DEF ReadRingGrefs
  <2> QED
    BY <2>1 DEF BufMaps
<1>9. CASE Disconnect \/ GuestDies
  BY <1>2, <1>9 DEF Disconnect, GuestDies
<1>10. ASSUME NEW d \in Dirs, MapRing(d) \/ WaitSlots(d) PROVE BufMaps'
  <2>1. UNCHANGED <<vif, ring_ref, buf_ref, nr_buf_pgs, bufs_gnt, attaches>>
        /\ gpc' \in {"wait_tx", "wait_rx", "ring_rx", "bufs_tx"}
    BY <1>10 DEF MapRing, WaitSlots, backVars
  <2> QED
    BY <1>1, <1>b, <2>1
<1>11. CASE WriteEvtchn
  <2>1. UNCHANGED <<vif, ring_ref, buf_ref, nr_buf_pgs, bufs_gnt, attaches>> /\ gpc = "evtchn"
    BY <1>11 DEF WriteEvtchn, backVars
  <2> QED
    BY <1>1, <1>b, <2>1
<1>12. ASSUME NEW d \in Dirs, MapBufs(d) PROVE BufMaps'
  <2> DEFINE g == [k \in 1 .. Len(BufsGrefs(d)) |-> PageBehind(BufsGrefs(d)[k])]
  <2>1. bufs_gnt' = [bufs_gnt EXCEPT ![d] = g]
    BY <1>12 DEF MapBufs
  <2>0. CASE vif # "up"
    <3>1. vif' = vif /\ bufs_gnt' = [e \in Dirs |-> bufs_gnt'[e]]
      BY <1>12, <2>1 DEF MapBufs, backVars, BufMaps
    <3> QED
      BY <2>0, <3>1 DEF BufMaps
  <2> SUFFICES ASSUME vif = "up" PROVE BufMaps'
    BY <2>0
  <2>2. UNCHANGED <<ring_ref, buf_ref, nr_buf_pgs, attaches>>
    BY <1>12 DEF MapBufs, backVars
  <2>3. nr_ring_pgs["tx"] # 0
    BY <1>12 DEF MapBufs, Handshake
  <2>4. BufBase(d) % 2 = 0 /\ Whole(d) => \A i \in Slots :
          IF i \div 2 + 1 \in DOMAIN g
            THEN g[i \div 2 + 1] = PageOf(d, i) \/ (g[i \div 2 + 1] = None /\ Exhausted)
            ELSE attaches > 1
    <3> SUFFICES ASSUME BufBase(d) % 2 = 0, Whole(d), NEW i \in Slots
                 PROVE  IF i \div 2 + 1 \in DOMAIN g
                          THEN g[i \div 2 + 1] = PageOf(d, i)
                               \/ (g[i \div 2 + 1] = None /\ Exhausted)
                          ELSE attaches > 1
      OBVIOUS
    <3>1. \E h : h = g
      OBVIOUS
    <3> QED
      BY <2>3, <3>1, MapBufsShared
  <2> HIDE DEF g
  <2>5. bufs_gnt'[d] = g /\ \A e \in Dirs : e # d => bufs_gnt'[e] = bufs_gnt[e]
    BY <2>1 DEF BufMaps
  <2>6. bufs_gnt' = [e \in Dirs |-> bufs_gnt'[e]]
    BY <2>1 DEF BufMaps
  <2>7. \A e \in Dirs : (Whole(e)' <=> Whole(e)) /\ (Exhausted' <=> Exhausted)
    BY <2>2 DEF Whole, Exhausted
  <2>8. BufsShared(d)'
    BY <2>2, <2>4, <2>5, <2>7 DEF BufsShared, SlotShared
  <2>9. ASSUME NEW e \in Dirs, e # d, BufsShared(e) PROVE BufsShared(e)'
    BY <2>2, <2>5, <2>7, <2>9 DEF BufsShared, SlotShared
  <2>10. CASE d = "tx"
    <3>1. gpc' = "bufs_rx"
      BY <1>12, <2>10 DEF MapBufs
    <3> QED
      BY <2>6, <2>8, <2>10, <3>1 DEF BufMaps
  <2>11. CASE d = "rx"
    <3>1. gpc' = "evtchn" /\ gpc = "bufs_rx"
      BY <1>12, <2>11 DEF MapBufs
    <3>2. BufsShared("tx")'
      BY <1>a, <2>9, <2>11, <3>1 DEF BufMaps
    <3> QED
      BY <2>6, <2>8, <2>11, <3>1, <3>2 DEF BufMaps
  <2> QED
    BY <2>10, <2>11 DEF Dirs
<1> QED
  BY <1>3, <1>4, <1>5, <1>6, <1>7, <1>8, <1>9, <1>10, <1>11, <1>12 DEF Next, Setup

(* Backend and guest mean the same memory by slot i's buffer, for rings    *)
(* and grant tables of any size: the k-th reference xenbus_read_bufs_grefs *)
(* finds in the slots is the k-th page nm_buf_pages found, and slot i's    *)
(* buffer is in page i / 2 + 1 when the ring starts on a page.             *)
THEOREM SlotsShared == Committed => (Spec => []BuffersShared)
<1> SUFFICES ASSUME Committed PROVE Spec => []BuffersShared
  OBVIOUS
<1>1. Init => RingsGranted /\ Handshake /\ BufsGranted
  BY DEF Init, RingsGranted, Handshake, BufsGranted, Dirs
<1>2. Init => BufMaps
  <2> SUFFICES ASSUME Init PROVE BufMaps
    OBVIOUS
  <2>1. bufs_gnt = [d \in Dirs |-> <<>>] /\ gpc = "none"
    BY DEF Init
  <2> QED
    BY <2>1 DEF BufMaps
<1>3. Init => ControlOK
  BY GrantAssumption DEF Init, ControlOK
<1>4. BufMaps => BuffersShared
  <2> SUFFICES ASSUME BufMaps, NEW d \in Dirs, Connected, BufBase(d) % 2 = 0,
                      Whole(d), NEW i \in Slots
               PROVE  SlotShared(d, i)
    BY DEF BuffersShared, Whole, SlotShared
  <2>1. BufsShared("tx") /\ BufsShared("rx")
    BY DEF BufMaps, Connected
  <2> QED
    BY <2>1 DEF BufsShared, Dirs
<1>5. Spec => [](ArraysOK /\ TableOK /\ ControlOK)
  BY <1>3, InitArrays, NextArrays, NextTable, NextControl, PTL DEF Spec
<1>6. [](ArraysOK /\ TableOK /\ ControlOK /\ GrantsBalanced) /\ Init /\ [][Next]_vars
        => []BuffersShared
  BY <1>1, <1>2, <1>4, NextGranted, NextHandshake, NextBufsGranted, NextBufMaps, PTL
<1> QED
  BY <1>5, <1>6, GrantsKept, PTL DEF Spec
=============================================================================
