-------------------------- MODULE BdgStaticProofs ---------------------------
(***************************************************************************)
(* Theorems about bdgfnctl and the static lookup modules: for any set of   *)
(* command lines with any number of options in any order, all tables, all  *)
(* hash functions and any number of ioctls.                                *)
(***************************************************************************)
EXTENDS BdgStatic, Counting, SequenceTheorems

-----------------------------------------------------------------------------
(* parse_options: the fold over the options, one option at a time.         *)

(* A set of numbers up to k that is not empty has a largest one. *)
LEMMA MaxFound ==
  ASSUME NEW k \in Nat, NEW s, s \subseteq 1 .. k, s # {}
  PROVE  Max(s) \in s /\ \A y \in s : y <= Max(s)
<1> DEFINE T == {k - x : x \in s}
<1>1. T \subseteq Nat /\ T # {}
  <2>1. \A x \in s : k - x \in Nat
    OBVIOUS
  <2> QED
    BY <2>1
<1>2. PICK m \in T : \A y \in T : m <= y
  BY <1>1, LeastElement
<1>3. PICK x \in s : m = k - x
  BY <1>2
<1>4. \A y \in s : k - x <= k - y
  BY <1>2, <1>3
<1>5. \A y \in s : x >= y
  BY <1>4
<1>6. \E z \in s : \A y \in s : z >= y
  BY <1>5
<1>7. Max(s) \in s /\ \A y \in s : Max(s) >= y
  BY <1>6 DEF Max
<1> QED
  BY <1>7

(* g is the fold over the sets of places up to k in t. *)
FoldOver(g, t, k) ==
  g = [s \in SUBSET (1 .. k) |->
        IF s = {} THEN NoRequest ELSE StoreOption(g[s \ {Max(s)}], t[Max(s)])]

(* There is one for each k. *)
LEMMA FoldExists ==
  ASSUME NEW t, NEW k \in Nat
  PROVE  \E g : FoldOver(g, t, k)
<1> DEFINE T == {n \in Nat : \E g : FoldOver(g, t, n)}
<1>1. 0 \in T
  <2> DEFINE g == [s \in SUBSET (1 .. 0) |-> NoRequest]
  <2>1. \A s \in SUBSET (1 .. 0) : s = {}
    OBVIOUS
  <2>2. FoldOver(g, t, 0)
    BY <2>1 DEF FoldOver
  <2> QED
    BY <2>2
<1>2. ASSUME NEW n \in Nat, n \in T PROVE n + 1 \in T
  <2>1. PICK g : FoldOver(g, t, n)
    BY <1>2
  <2> DEFINE h == [s \in SUBSET (1 .. n + 1) |->
                    IF n + 1 \in s THEN StoreOption(g[s \ {n + 1}], t[n + 1]) ELSE g[s]]
  <2>2. ASSUME NEW s \in SUBSET (1 .. n + 1)
        PROVE  h[s] = IF s = {} THEN NoRequest
                      ELSE StoreOption(h[s \ {Max(s)}], t[Max(s)])
    <3>1. CASE n + 1 \in s
      <4>1. Max(s) = n + 1
        <5>1. n + 1 \in Nat /\ s \subseteq 1 .. n + 1 /\ s # {}
          BY <3>1
        <5>2. Max(s) \in s /\ n + 1 <= Max(s)
          BY <3>1, <5>1, MaxFound
        <5>3. Max(s) \in 1 .. n + 1
          BY <5>1, <5>2
        <5> QED
          BY <5>2, <5>3
      <4>2. s \ {n + 1} \in SUBSET (1 .. n + 1) /\ n + 1 \notin s \ {n + 1}
        OBVIOUS
      <4>3. h[s \ {n + 1}] = g[s \ {n + 1}]
        BY <4>2
      <4>4. h[s] = StoreOption(g[s \ {n + 1}], t[n + 1])
        BY <3>1
      <4> HIDE DEF h
      <4> QED
        BY <3>1, <4>1, <4>3, <4>4
    <3>2. CASE n + 1 \notin s
      <4>1. s \in SUBSET (1 .. n)
        BY <3>2
      <4>2. h[s] = g[s]
        BY <3>2
      <4>3. g[s] = IF s = {} THEN NoRequest ELSE StoreOption(g[s \ {Max(s)}], t[Max(s)])
        BY <2>1, <4>1 DEF FoldOver
      <4>4. s \ {Max(s)} \in SUBSET (1 .. n + 1) /\ n + 1 \notin s \ {Max(s)}
        BY <3>2
      <4>5. h[s \ {Max(s)}] = g[s \ {Max(s)}]
        BY <4>4
      <4> HIDE DEF h
      <4> QED
        BY <4>2, <4>3, <4>5
    <3> QED
      BY <3>1, <3>2
  <2>3. h = [s \in SUBSET (1 .. n + 1) |-> h[s]]
    OBVIOUS
  <2> HIDE DEF h
  <2>4. FoldOver(h, t, n + 1)
    BY <2>2, <2>3 DEF FoldOver
  <2> QED
    BY <2>4
<1>3. Nat \subseteq T
  <2> HIDE DEF T
  <2> QED
    BY <1>1, <1>2, Induction
<1> QED
  BY <1>3

(* The request after the first k of the options that getopt returns. *)
Fold(t) == CHOOSE g : FoldOver(g, t, Len(t))
Stored(t, k) == Fold(t)[1 .. k]

(* parse_options stores one option after the other. *)
LEMMA ParseSteps ==
  ASSUME NEW X, NEW opts \in Seq(X), opts # <<>>
  PROVE  /\ Tail(opts) \in Seq(X)
         /\ ParseOptions(opts) = Stored(Tail(opts), Len(Tail(opts)))
         /\ Stored(Tail(opts), 0) = NoRequest
         /\ \A k \in 1 .. Len(Tail(opts)) :
              Stored(Tail(opts), k) = StoreOption(Stored(Tail(opts), k - 1), Tail(opts)[k])
<1> DEFINE t == Tail(opts)
           n == Len(t)
<1>1. t \in Seq(X) /\ n \in Nat /\ DOMAIN t = 1 .. n
  OBVIOUS
<1>2. ParseOptions(opts) = Fold(t)[1 .. n]
  <2>1. ParseOptions(opts) =
          (CHOOSE g : g = [s \in SUBSET DOMAIN t |->
             IF s = {} THEN NoRequest
             ELSE StoreOption(g[s \ {Max(s)}], t[Max(s)])])[DOMAIN t]
    BY DEF ParseOptions, FoldLeft, MapThenFoldSet
  <2> QED
    BY <1>1, <2>1 DEF Fold, FoldOver
<1> HIDE DEF t, n
<1>3. FoldOver(Fold(t), t, n)
  BY <1>1, FoldExists DEF Fold, n
<1>4. Stored(t, 0) = NoRequest
  <2>1. 1 .. 0 = {} /\ {} \in SUBSET (1 .. n)
    OBVIOUS
  <2> QED
    BY <1>3, <2>1 DEF FoldOver, Stored
<1>5. ASSUME NEW k \in 1 .. n
      PROVE  Stored(t, k) = StoreOption(Stored(t, k - 1), t[k])
  <2>0. n \in Nat /\ k \in Nat /\ k <= n /\ k \in 1 .. k
    BY <1>1
  <2>1. 1 .. k \in SUBSET (1 .. n) /\ 1 .. k # {}
    <3>1. \A x \in 1 .. k : x \in 1 .. n
      BY <2>0
    <3> QED
      BY <2>0, <3>1
  <2>2. Max(1 .. k) = k
    <3>1. Max(1 .. k) \in 1 .. k /\ k <= Max(1 .. k)
      BY <2>0, <2>1, MaxFound
    <3> QED
      BY <2>0, <3>1
  <2>3. (1 .. k) \ {k} = 1 .. k - 1
    BY <2>0
  <2> QED
    BY <1>3, <2>1, <2>2, <2>3 DEF FoldOver, Stored
<1> QED
  BY <1>1, <1>2, <1>4, <1>5 DEF t, n, Stored

-----------------------------------------------------------------------------
(* What the options leave in the request.                                  *)

Options == [opt : STRING, val : Nat]
Requests == [b : Nat, addr : Nat, port : Nat, dst : Nat]

(* The i-th option is the last of its kind among the first k of t. *)
LastOption(t, opt, k, i) ==
  i \in 1 .. k /\ t[i].opt = opt /\ \A j \in i + 1 .. k : t[j].opt # opt

(* An option a comes after every option c among the first k. *)
Behind(t, a, c, k) ==
  \E i \in 1 .. k : t[i].opt = a /\ \A j \in i + 1 .. k : t[j].opt # c

(* Each option sets its own field, and a MAC address the port as well. *)
LEMMA StoreType ==
  ASSUME NEW r \in Requests, NEW o \in Options
  PROVE  StoreOption(r, o) \in Requests
<1>1. r.port - (r.port % 256) \in Nat
  <2>1. r.port \in Nat
    BY DEF Requests
  <2> QED
    BY <2>1
<1>2. o.val \in Nat
  BY DEF Options
<1>3. CASE o.opt = "b"
  BY <1>2, <1>3 DEF StoreOption, Requests
<1>4. CASE o.opt = "p"
  BY <1>2, <1>4 DEF StoreOption, Requests
<1>5. CASE o.opt = "d"
  BY <1>2, <1>5 DEF StoreOption, Requests
<1>6. CASE o.opt = "m"
  <2>1. StoreOption(r, o) = [r EXCEPT !.addr = o.val, !.port = @ - (@ % 256)]
    BY <1>6 DEF StoreOption
  <2>2. StoreOption(r, o) =
          [b |-> r.b, addr |-> o.val, port |-> r.port - (r.port % 256), dst |-> r.dst]
    BY <2>1 DEF Requests
  <2> QED
    BY <1>1, <1>2, <2>2 DEF Requests
<1>7. CASE o.opt = "4"
  BY <1>2, <1>7 DEF StoreOption, Requests
<1>8. CASE o.opt \notin {"b", "p", "d", "m", "4"}
  BY <1>8 DEF StoreOption
<1> QED
  BY <1>3, <1>4, <1>5, <1>6, <1>7, <1>8

(* Field by field. *)
LEMMA StoreFields ==
  ASSUME NEW r \in Requests, NEW o \in Options
  PROVE  /\ StoreOption(r, o).b = IF o.opt = "b" THEN o.val ELSE r.b
         /\ StoreOption(r, o).dst = IF o.opt = "d" THEN o.val ELSE r.dst
         /\ StoreOption(r, o).port =
              IF o.opt = "p" THEN o.val
              ELSE IF o.opt = "m" THEN r.port - (r.port % 256) ELSE r.port
         /\ StoreOption(r, o).addr = IF o.opt \in {"m", "4"} THEN o.val ELSE r.addr
<1>1. CASE o.opt = "b"
  BY <1>1 DEF StoreOption, Requests
<1>2. CASE o.opt = "p"
  BY <1>2 DEF StoreOption, Requests
<1>3. CASE o.opt = "d"
  BY <1>3 DEF StoreOption, Requests
<1>4. CASE o.opt = "m"
  <2>1. StoreOption(r, o) = [r EXCEPT !.addr = o.val, !.port = @ - (@ % 256)]
    BY <1>4 DEF StoreOption
  <2> QED
    BY <1>4, <2>1 DEF Requests
<1>5. CASE o.opt = "4"
  BY <1>5 DEF StoreOption, Requests
<1>6. CASE o.opt \notin {"b", "p", "d", "m", "4"}
  BY <1>6 DEF StoreOption
<1> QED
  BY <1>1, <1>2, <1>3, <1>4, <1>5, <1>6

(* The last option of a kind is the new one, or an old one is still it. *)
LEMMA LastOptionStep ==
  ASSUME NEW t, NEW opt, NEW k \in Nat, NEW i, LastOption(t, opt, k + 1, i)
  PROVE  IF t[k + 1].opt = opt THEN i = k + 1 ELSE LastOption(t, opt, k, i)
<1>1. i \in 1 .. k + 1 /\ t[i].opt = opt /\ \A j \in i + 1 .. k + 1 : t[j].opt # opt
  BY DEF LastOption
<1>2. CASE t[k + 1].opt = opt
  <2>1. k + 1 \notin i + 1 .. k + 1
    BY <1>1, <1>2
  <2> QED
    BY <1>1, <1>2, <2>1
<1>3. CASE t[k + 1].opt # opt
  <2>1. i # k + 1
    BY <1>1, <1>3
  <2>2. i \in 1 .. k /\ \A j \in i + 1 .. k : j \in i + 1 .. k + 1
    BY <1>1, <2>1
  <2> QED
    BY <1>1, <1>3, <2>2 DEF LastOption
<1> QED
  BY <1>2, <1>3

(* And so with an option that comes after all of another kind. *)
LEMMA BehindStep ==
  ASSUME NEW t, NEW a, NEW c, a # c, NEW k \in Nat
  PROVE  Behind(t, a, c, k + 1) <=>
           t[k + 1].opt = a \/ (t[k + 1].opt # c /\ Behind(t, a, c, k))
<1>1. ASSUME Behind(t, a, c, k + 1), t[k + 1].opt # a
      PROVE  t[k + 1].opt # c /\ Behind(t, a, c, k)
  <2>1. PICK i \in 1 .. k + 1 : t[i].opt = a /\ \A j \in i + 1 .. k + 1 : t[j].opt # c
    BY <1>1 DEF Behind
  <2>2. i \in 1 .. k
    BY <1>1, <2>1
  <2>3. k + 1 \in i + 1 .. k + 1 /\ \A j \in i + 1 .. k : j \in i + 1 .. k + 1
    BY <2>2
  <2> QED
    BY <2>1, <2>2, <2>3 DEF Behind
<1>2. ASSUME t[k + 1].opt = a PROVE Behind(t, a, c, k + 1)
  <2>1. k + 1 \in 1 .. k + 1 /\ \A j \in k + 2 .. k + 1 : FALSE
    OBVIOUS
  <2>2. (k + 1) + 1 = k + 2
    OBVIOUS
  <2> QED
    BY <1>2, <2>1, <2>2 DEF Behind
<1>3. ASSUME t[k + 1].opt # c, Behind(t, a, c, k) PROVE Behind(t, a, c, k + 1)
  <2>1. PICK i \in 1 .. k : t[i].opt = a /\ \A j \in i + 1 .. k : t[j].opt # c
    BY <1>3 DEF Behind
  <2>2. i \in 1 .. k + 1 /\ \A j \in i + 1 .. k + 1 : j \in i + 1 .. k \/ j = k + 1
    OBVIOUS
  <2> QED
    BY <1>3, <2>1, <2>2 DEF Behind
<1> QED
  BY <1>1, <1>2, <1>3

(* A port without its lowest byte. *)
Cleared(p) == p - (p % 256)

(* It is cleared once and for all. *)
LEMMA ClearedOnce ==
  ASSUME NEW p \in Nat
  PROVE  Cleared(Cleared(p)) = Cleared(p)
<1>1. (p - (p % 256)) % 256 = 0
  OBVIOUS
<1> QED
  BY <1>1 DEF Cleared

(* The request after k options: a field has the value of the last option   *)
(* that sets it, but for the port a MAC address came after.                *)
FieldsSaid(t, k) ==
  /\ Stored(t, k) \in Requests
  /\ \A i : LastOption(t, "b", k, i) => Stored(t, k).b = t[i].val
  /\ \A i : LastOption(t, "d", k, i) => Stored(t, k).dst = t[i].val
  /\ \A i : LastOption(t, "p", k, i) =>
       Stored(t, k).port = IF Behind(t, "m", "p", k) THEN Cleared(t[i].val) ELSE t[i].val
  /\ ~Behind(t, "4", "m", k) =>
       \A i : LastOption(t, "m", k, i) => Stored(t, k).addr = t[i].val
  /\ ~Behind(t, "m", "4", k) =>
       \A i : LastOption(t, "4", k, i) => Stored(t, k).addr = t[i].val

(* One option more. *)
LEMMA FieldsStep ==
  ASSUME NEW t \in Seq(Options), NEW k \in Nat, k + 1 <= Len(t), FieldsSaid(t, k),
         Stored(t, k + 1) = StoreOption(Stored(t, k), t[k + 1])
  PROVE  FieldsSaid(t, k + 1)
<1> DEFINE r == Stored(t, k)
           o == t[k + 1]
           q == Stored(t, k + 1)
<1>1. r \in Requests /\ o \in Options /\ q = StoreOption(r, o)
  BY DEF FieldsSaid
<1>2. q \in Requests
  BY <1>1, StoreType
<1>3. /\ q.b = IF o.opt = "b" THEN o.val ELSE r.b
      /\ q.dst = IF o.opt = "d" THEN o.val ELSE r.dst
      /\ q.port = IF o.opt = "p" THEN o.val
                  ELSE IF o.opt = "m" THEN Cleared(r.port) ELSE r.port
      /\ q.addr = IF o.opt \in {"m", "4"} THEN o.val ELSE r.addr
  BY <1>1, StoreFields DEF Cleared
<1>4. /\ Behind(t, "m", "p", k + 1) <=> o.opt = "m" \/ (o.opt # "p" /\ Behind(t, "m", "p", k))
      /\ Behind(t, "4", "m", k + 1) <=> o.opt = "4" \/ (o.opt # "m" /\ Behind(t, "4", "m", k))
      /\ Behind(t, "m", "4", k + 1) <=> o.opt = "m" \/ (o.opt # "4" /\ Behind(t, "m", "4", k))
  BY BehindStep
<1>5. \A opt, i : LastOption(t, opt, k + 1, i) =>
        IF o.opt = opt THEN i = k + 1 ELSE LastOption(t, opt, k, i)
  BY LastOptionStep
<1>6. \A i : LastOption(t, "b", k + 1, i) => q.b = t[i].val
  BY <1>3, <1>5 DEF FieldsSaid
<1>7. \A i : LastOption(t, "d", k + 1, i) => q.dst = t[i].val
  BY <1>3, <1>5 DEF FieldsSaid
<1>8. ASSUME NEW i, LastOption(t, "p", k + 1, i)
      PROVE  q.port = IF Behind(t, "m", "p", k + 1) THEN Cleared(t[i].val) ELSE t[i].val
  <2>1. CASE o.opt = "p"
    BY <1>3, <1>4, <1>5, <1>8, <2>1
  <2>2. CASE o.opt = "m"
    <3>1. LastOption(t, "p", k, i)
      BY <1>5, <1>8, <2>2
    <3>2. r.port \in {t[i].val, Cleared(t[i].val)}
      BY <3>1 DEF FieldsSaid
    <3>3. t[i].val \in Nat
      <4>1. i \in 1 .. k /\ i \in 1 .. Len(t)
        BY <3>1 DEF LastOption
      <4>2. t[i] \in Options
        BY <4>1
      <4> QED
        BY <4>2 DEF Options
    <3>4. Cleared(r.port) = Cleared(t[i].val)
      BY <3>2, <3>3, ClearedOnce
    <3> QED
      BY <1>3, <1>4, <2>2, <3>4
  <2>3. CASE o.opt \notin {"p", "m"}
    <3>1. LastOption(t, "p", k, i)
      BY <1>5, <1>8, <2>3
    <3> QED
      BY <1>3, <1>4, <2>3, <3>1 DEF FieldsSaid
  <2> QED
    BY <2>1, <2>2, <2>3
<1>9. ~Behind(t, "4", "m", k + 1) => \A i : LastOption(t, "m", k + 1, i) => q.addr = t[i].val
  BY <1>3, <1>4, <1>5 DEF FieldsSaid
<1>10. ~Behind(t, "m", "4", k + 1) => \A i : LastOption(t, "4", k + 1, i) => q.addr = t[i].val
  BY <1>3, <1>4, <1>5 DEF FieldsSaid
<1> QED
  BY <1>2, <1>6, <1>7, <1>8, <1>9, <1>10 DEF FieldsSaid

(* All options. *)
LEMMA FieldsAll ==
  ASSUME NEW opts \in Seq(Options), opts # <<>>
  PROVE  FieldsSaid(Tail(opts), Len(Tail(opts)))
<1> DEFINE t == Tail(opts)
           n == Len(t)
           T == {k \in Nat : k <= n => FieldsSaid(t, k)}
<1>1. /\ t \in Seq(Options) /\ Stored(t, 0) = NoRequest
      /\ \A k \in 1 .. n : Stored(t, k) = StoreOption(Stored(t, k - 1), t[k])
  BY ParseSteps
<1> HIDE DEF t
<1>2. n \in Nat
  BY <1>1
<1>3. 0 \in T
  <2>1. \A opt, i : ~LastOption(t, opt, 0, i)
    BY DEF LastOption
  <2>2. Stored(t, 0) \in Requests
    BY <1>1 DEF NoRequest, Requests
  <2> QED
    BY <2>1, <2>2 DEF FieldsSaid
<1>4. ASSUME NEW k \in Nat, k \in T PROVE k + 1 \in T
  <2> SUFFICES ASSUME k + 1 <= n PROVE FieldsSaid(t, k + 1)
    OBVIOUS
  <2>1. k + 1 \in 1 .. n /\ (k + 1) - 1 = k /\ k <= n
    BY <1>2
  <2>2. Stored(t, k + 1) = StoreOption(Stored(t, k), t[k + 1])
    BY <1>1, <2>1
  <2>3. FieldsSaid(t, k)
    BY <1>4, <2>1
  <2> QED
    BY <1>1, <2>2, <2>3, FieldsStep
<1>5. Nat \subseteq T
  <2> HIDE DEF T
  <2> QED
    BY <1>3, <1>4, Induction
<1>6. FieldsSaid(t, n)
  BY <1>2, <1>5
<1> QED
  BY <1>6 DEF t

(* The option that counts is the last one that getopt returns. *)
LEMMA SaysLast ==
  ASSUME NEW l, NEW opt, l.opts \in Seq(Options), Has(l, opt)
  PROVE  \E i : /\ LastOption(Tail(l.opts), opt, Len(Tail(l.opts)), i)
                /\ Tail(l.opts)[i].val = Says(l, opt)
<1> DEFINE o == l.opts
           n == Len(o)
           S == {i \in 2 .. n : o[i].opt = opt}
           Latest(i) == o[i].opt = opt /\ \A k \in i + 1 .. n : o[k].opt # opt
           c == CHOOSE i \in 2 .. n : Latest(i)
<1>1. n \in Nat /\ S \subseteq 1 .. n /\ S # {}
  BY DEF Has
<1>2. \E i \in 2 .. n : Latest(i)
  <2>1. Max(S) \in S /\ \A y \in S : y <= Max(S)
    BY <1>1, MaxFound
  <2>2. Max(S) \in 2 .. n /\ o[Max(S)].opt = opt
    BY <2>1
  <2> HIDE DEF o, n
  <2>3. \A k \in Max(S) + 1 .. n : k \in 2 .. n /\ ~(k <= Max(S))
    BY <1>1, <2>2
  <2>4. \A k \in Max(S) + 1 .. n : o[k].opt # opt
    BY <2>1, <2>3
  <2> QED
    BY <2>2, <2>4
<1>3. c \in 2 .. n /\ Latest(c)
  <2> HIDE DEF Latest
  <2> QED
    BY <1>2
<1>4. Says(l, opt) = o[c].val
  BY DEF Says
<1> HIDE DEF c
<1>5. /\ Len(Tail(o)) = n - 1
      /\ \A i \in 1 .. n - 1 : Tail(o)[i] = o[i + 1]
  <2>1. o # <<>>
    BY <1>1, <1>3
  <2> QED
    BY <2>1
<1>6. c - 1 \in 1 .. n - 1 /\ (c - 1) + 1 = c
  BY <1>1, <1>3
<1>7. Tail(o)[c - 1] = o[c]
  BY <1>5, <1>6
<1>8. \A j \in (c - 1) + 1 .. n - 1 : j \in 1 .. n - 1 /\ j + 1 \in c + 1 .. n
  BY <1>1, <1>6
<1>9. \A j \in (c - 1) + 1 .. n - 1 : Tail(o)[j].opt # opt
  BY <1>3, <1>5, <1>8
<1>10. LastOption(Tail(o), opt, Len(Tail(o)), c - 1)
  BY <1>3, <1>5, <1>6, <1>7, <1>9 DEF LastOption
<1> QED
  BY <1>4, <1>7, <1>10

(* The order of the options is that of the options getopt returns. *)
LEMMA FollowsBehind ==
  ASSUME NEW l, NEW a, NEW c, l.opts \in Seq(Options), l.opts # <<>>
  PROVE  Follows(l, a, c) <=> Behind(Tail(l.opts), a, c, Len(Tail(l.opts)))
<1> DEFINE o == l.opts
           n == Len(o)
           t == Tail(o)
<1>1. /\ n \in Nat /\ Len(t) = n - 1
      /\ \A i \in 1 .. n - 1 : t[i] = o[i + 1]
  OBVIOUS
<1>2. Follows(l, a, c) <=>
        \E i \in 2 .. n : o[i].opt = a /\ \A k \in i + 1 .. n : o[k].opt # c
  BY DEF Follows
<1>3. Behind(t, a, c, Len(t)) <=>
        \E i \in 1 .. n - 1 : t[i].opt = a /\ \A k \in i + 1 .. n - 1 : t[k].opt # c
  BY <1>1 DEF Behind
<1> HIDE DEF o, n, t
<1>4. ASSUME NEW i \in 2 .. n, o[i].opt = a, \A k \in i + 1 .. n : o[k].opt # c
      PROVE  i - 1 \in 1 .. n - 1 /\ t[i - 1].opt = a
             /\ \A k \in (i - 1) + 1 .. n - 1 : t[k].opt # c
  <2>1. i - 1 \in 1 .. n - 1 /\ (i - 1) + 1 = i
    BY <1>1
  <2>2. \A k \in i .. n - 1 : k \in 1 .. n - 1 /\ k + 1 \in i + 1 .. n
    BY <1>1
  <2> QED
    BY <1>1, <1>4, <2>1, <2>2
<1>5. ASSUME NEW i \in 1 .. n - 1, t[i].opt = a, \A k \in i + 1 .. n - 1 : t[k].opt # c
      PROVE  i + 1 \in 2 .. n /\ o[i + 1].opt = a
             /\ \A k \in (i + 1) + 1 .. n : o[k].opt # c
  <2>1. i + 1 \in 2 .. n
    BY <1>1
  <2>2. \A k \in (i + 1) + 1 .. n :
          k - 1 \in 1 .. n - 1 /\ (k - 1) + 1 = k /\ k - 1 \in i + 1 .. n - 1
    BY <1>1
  <2>3. \A k \in (i + 1) + 1 .. n : t[k - 1] = o[k]
    BY <1>1, <2>2
  <2> QED
    BY <1>1, <1>5, <2>1, <2>2, <2>3
<1> QED
  BY <1>2, <1>3, <1>4, <1>5 DEF t, o

(* Whatever the order of its options, the request of a line holds what the *)
(* line says, in every field its command uses.                             *)
LEMMA LineRequest ==
  ASSUME NEW l \in Lines
  PROVE  /\ ParseOptions(l.opts).b = Says(l, "b")
         /\ l.cmd = "addif" => /\ ParseOptions(l.opts).dst = PortOf(l)
                               /\ ParseOptions(l.opts).addr = Says(l, AddrOption(l))
         /\ l.cmd = "regfn" => ParseOptions(l.opts).port = PortOf(l)
<1> DEFINE t == Tail(l.opts)
           n == Len(t)
<1>1. l.opts \in Seq(Options) /\ Complete(l)
  BY LinesAssumption DEF Options
<1>2. l.opts # <<>>
  <2>1. Has(l, "b")
    BY <1>1 DEF Complete
  <2>2. PICK i \in 2 .. Len(l.opts) : TRUE
    BY <2>1 DEF Has
  <2>3. Len(l.opts) \in Nat /\ Len(l.opts) # 0
    BY <1>1, <2>2
  <2> QED
    BY <1>1, <2>3
<1>3. FieldsSaid(t, n) /\ ParseOptions(l.opts) = Stored(t, n)
  BY <1>1, <1>2, FieldsAll, ParseSteps
<1>4. \A opt : Has(l, opt) => \E i : LastOption(t, opt, n, i) /\ t[i].val = Says(l, opt)
  BY <1>1, SaysLast
<1>5. \A a, c : Follows(l, a, c) <=> Behind(t, a, c, n)
  BY <1>1, <1>2, FollowsBehind
<1> HIDE DEF t, n
<1>6. ParseOptions(l.opts).b = Says(l, "b")
  BY <1>1, <1>3, <1>4 DEF FieldsSaid, Complete
<1>7. ASSUME l.cmd = "addif"
      PROVE  /\ ParseOptions(l.opts).dst = PortOf(l)
             /\ ParseOptions(l.opts).addr = Says(l, AddrOption(l))
  <2>1. Has(l, "d") /\ Has(l, AddrOption(l)) /\ ~Follows(l, OtherAddr(l), AddrOption(l))
    BY <1>1, <1>7 DEF Complete
  <2>2. PortOf(l) = Says(l, "d")
    BY <1>7 DEF PortOf, PortOption
  <2>3. ParseOptions(l.opts).dst = Says(l, "d")
    BY <1>3, <1>4, <2>1 DEF FieldsSaid
  <2>4. CASE l.dev = "mac"
    BY <1>3, <1>4, <1>5, <2>1, <2>2, <2>3, <2>4 DEF FieldsSaid, AddrOption, OtherAddr
  <2>5. CASE l.dev # "mac"
    BY <1>3, <1>4, <1>5, <2>1, <2>2, <2>3, <2>5 DEF FieldsSaid, AddrOption, OtherAddr
  <2> QED
    BY <2>4, <2>5
<1>8. ASSUME l.cmd = "regfn"
      PROVE  ParseOptions(l.opts).port = PortOf(l)
  <2>1. Has(l, "p")
    BY <1>1, <1>8 DEF Complete
  <2>2. PortOf(l) = IF Follows(l, "m", "p") THEN Cleared(Says(l, "p")) ELSE Says(l, "p")
    BY <1>8 DEF PortOf, PortOption, Cleared
  <2> QED
    BY <1>3, <1>4, <1>5, <2>1, <2>2 DEF FieldsSaid
<1> QED
  BY <1>6, <1>7, <1>8

-----------------------------------------------------------------------------
(* Tables and requests.                                                    *)

Tables(A) == [Bridges -> [HashSlots -> [addr : A, ports : 0 .. NM_BDG_NOPORT]]]

(* The fields of an entry. *)
LEMMA EntryFields == \A a, p : Entry(a, p).addr = a /\ Entry(a, p).ports = p
BY DEF Entry

(* Tables T and U differ at most in an address, or a port, of an entry. *)
AddrChanged(T, U, b, s, a) ==
  \A c \in Bridges, r \in HashSlots :
    U[c][r] = IF c = b /\ r = s THEN Entry(a, T[c][r].ports) ELSE T[c][r]

PortsChanged(T, U, b, s, p) ==
  \A c \in Bridges, r \in HashSlots :
    U[c][r] = IF c = b /\ r = s THEN Entry(T[c][r].addr, p) ELSE T[c][r]

(* Storing an address changes one entry. *)
LEMMA AddrStored ==
  ASSUME NEW A, NEW T \in Tables(A), NEW b \in Bridges, NEW s \in HashSlots, NEW a \in A,
         NEW U, U = [T EXCEPT ![b][s].addr = a]
  PROVE  U \in Tables(A) /\ AddrChanged(T, U, b, s, a)
<1>1. T[b] \in [HashSlots -> [addr : A, ports : 0 .. NM_BDG_NOPORT]]
  BY DEF Tables
<1>2. T[b][s] \in [addr : A, ports : 0 .. NM_BDG_NOPORT]
  BY <1>1
<1>3. [T[b][s] EXCEPT !.addr = a] = Entry(a, T[b][s].ports)
  BY <1>2 DEF Entry
<1>4. Entry(a, T[b][s].ports) \in [addr : A, ports : 0 .. NM_BDG_NOPORT]
  BY <1>2 DEF Entry
<1>5. U = [T EXCEPT ![b] = [T[b] EXCEPT ![s] = Entry(a, T[b][s].ports)]]
  BY <1>3
<1> DEFINE E == [addr : A, ports : 0 .. NM_BDG_NOPORT]
           e == Entry(a, T[b][s].ports)
<1>6. T \in [Bridges -> [HashSlots -> E]] /\ e \in E
  BY <1>4 DEF Tables
<1>7. U = [T EXCEPT ![b] = [T[b] EXCEPT ![s] = e]]
  BY <1>5
<1> HIDE DEF E, e
<1> DEFINE row == [T[b] EXCEPT ![s] = e]
<1>8. row \in [HashSlots -> E] /\ \A r \in HashSlots : row[r] = IF r = s THEN e ELSE T[b][r]
  BY <1>6
<1>9. U = [T EXCEPT ![b] = row]
  BY <1>7
<1> HIDE DEF row
<1>10. U \in [Bridges -> [HashSlots -> E]]
  BY <1>6, <1>8, <1>9
<1>11. \A c \in Bridges : U[c] = IF c = b THEN row ELSE T[c]
  BY <1>6, <1>9
<1>12. \A c \in Bridges, r \in HashSlots : U[c][r] = IF c = b /\ r = s THEN e ELSE T[c][r]
  BY <1>8, <1>11
<1> QED
  BY <1>10, <1>12 DEF Tables, E, e, AddrChanged

(* So does storing a port. *)
LEMMA PortsStored ==
  ASSUME NEW A, NEW T \in Tables(A), NEW b \in Bridges, NEW s \in HashSlots,
         NEW p \in 0 .. NM_BDG_NOPORT, NEW U, U = [T EXCEPT ![b][s].ports = p]
  PROVE  U \in Tables(A) /\ PortsChanged(T, U, b, s, p)
<1>1. T[b] \in [HashSlots -> [addr : A, ports : 0 .. NM_BDG_NOPORT]]
  BY DEF Tables
<1>2. T[b][s] \in [addr : A, ports : 0 .. NM_BDG_NOPORT]
  BY <1>1
<1>3. [T[b][s] EXCEPT !.ports = p] = Entry(T[b][s].addr, p)
  BY <1>2 DEF Entry
<1>4. Entry(T[b][s].addr, p) \in [addr : A, ports : 0 .. NM_BDG_NOPORT]
  BY <1>2 DEF Entry
<1>5. U = [T EXCEPT ![b] = [T[b] EXCEPT ![s] = Entry(T[b][s].addr, p)]]
  BY <1>3
<1> DEFINE E == [addr : A, ports : 0 .. NM_BDG_NOPORT]
           e == Entry(T[b][s].addr, p)
<1>6. T \in [Bridges -> [HashSlots -> E]] /\ e \in E
  BY <1>4 DEF Tables
<1>7. U = [T EXCEPT ![b] = [T[b] EXCEPT ![s] = e]]
  BY <1>5
<1> HIDE DEF E, e
<1> DEFINE row == [T[b] EXCEPT ![s] = e]
<1>8. row \in [HashSlots -> E] /\ \A r \in HashSlots : row[r] = IF r = s THEN e ELSE T[b][r]
  BY <1>6
<1>9. U = [T EXCEPT ![b] = row]
  BY <1>7
<1> HIDE DEF row
<1>10. U \in [Bridges -> [HashSlots -> E]]
  BY <1>6, <1>8, <1>9
<1>11. \A c \in Bridges : U[c] = IF c = b THEN row ELSE T[c]
  BY <1>6, <1>9
<1>12. \A c \in Bridges, r \in HashSlots : U[c][r] = IF c = b /\ r = s THEN e ELSE T[c][r]
  BY <1>8, <1>11
<1> QED
  BY <1>10, <1>12 DEF Tables, E, e, PortsChanged

(* An empty table. *)
LEMMA TableEmpty ==
  ASSUME NEW A, 0 \in A, NEW p \in 0 .. NM_BDG_NOPORT
  PROVE  /\ Table(p) \in Tables(A)
         /\ \A b \in Bridges, s \in HashSlots : Table(p)[b][s] = Entry(0, p)
BY DEF Table, Tables, Entry

(* The request r holds what line l says and its command uses. *)
Asked(l, r) ==
  /\ r.b = Says(l, "b") /\ r.b \in Bridges
  /\ l.cmd = "addif" =>
       /\ r.dst = PortOf(l) /\ r.dst \in 0 .. NPorts - 1
       /\ r.addr = Says(l, AddrOption(l))
       /\ r.addr \in (IF l.dev = "mac" THEN Macs ELSE Ips)
  /\ l.cmd = "regfn" => r.port = PortOf(l) /\ r.port \in 0 .. NPorts - 1

(* bdgfnctl asks for what its command line says. *)
LEMMA LineAsks ==
  ASSUME NEW l \in Lines
  PROVE  /\ l.dev \in {"mac", "ip"} /\ l.cmd \in {"addif", "regfn", "listif"}
         /\ Ioctl(l) = "BDGIOCADDIF" => l.cmd = "addif"
         /\ Ioctl(l) = "BDGIOCREG" => l.cmd = "regfn"
         /\ Asked(l, ParseOptions(l.opts))
<1>1. /\ l.dev \in {"mac", "ip"} /\ l.cmd \in {"addif", "regfn", "listif"}
      /\ Says(l, "b") \in Bridges
      /\ l.cmd = "addif" => Says(l, AddrOption(l)) \in (IF l.dev = "mac" THEN Macs ELSE Ips)
      /\ l.cmd # "listif" => Says(l, PortOption(l)) \in 0 .. NPorts - 1
  BY LinesAssumption DEF Complete, Bridges
<1>5. l.cmd # "listif" => PortOf(l) \in 0 .. NPorts - 1
  <2> DEFINE p == Says(l, PortOption(l))
  <2> SUFFICES ASSUME l.cmd # "listif" PROVE PortOf(l) \in 0 .. NPorts - 1
    OBVIOUS
  <2>1. p \in 0 .. NPorts - 1 /\ NPorts \in Nat
    BY <1>1, StaticAssumption
  <2>2. PortOf(l) \in {p, p - (p % 256)}
    BY DEF PortOf
  <2> HIDE DEF p
  <2>3. p - (p % 256) \in 0 .. NPorts - 1
    BY <2>1
  <2> QED
    BY <2>1, <2>2, <2>3
<1>2. Ioctl(l) = "BDGIOCADDIF" => l.cmd = "addif"
  <2>1. l.cmd = "regfn" => Ioctl(l) = "BDGIOCREG"
    BY DEF Ioctl
  <2>2. l.cmd = "listif" => Ioctl(l) = "BDGIOCLIST"
    BY DEF Ioctl
  <2> QED
    BY <1>1, <2>1, <2>2
<1>3. Ioctl(l) = "BDGIOCREG" => l.cmd = "regfn"
  <2>1. l.cmd = "addif" => Ioctl(l) = "BDGIOCADDIF"
    BY DEF Ioctl
  <2>2. l.cmd = "listif" => Ioctl(l) = "BDGIOCLIST"
    BY DEF Ioctl
  <2> QED
    BY <1>1, <2>1, <2>2
<1>4. Asked(l, ParseOptions(l.opts))
  BY <1>1, <1>5, LineRequest DEF Asked
<1> QED
  BY <1>1, <1>2, <1>3, <1>4

DevOf(pc) == IF pc \in {"mac_ctl", "mac_ports"} THEN "mac" ELSE "ip"
CmdOf(pc) == IF pc \in {"mac_ports", "ip_ports"} THEN "addif" ELSE "regfn"

TablesOK ==
  /\ mrt \in Tables(Macs \cup {0}) /\ irt \in Tables(Ips \cup {0})
  /\ mctl \in [Bridges -> 0 .. NM_BDG_NOPORT] /\ ictl \in [Bridges -> 0 .. NM_BDG_NOPORT]
  /\ irts \subseteq Bridges

(* An ioctl under way has the request of a line that was given. *)
RequestOK ==
  /\ given \subseteq Lines /\ ioctls \in 0 .. MaxIoctls /\ oj \in 0 .. NHash
  /\ opc \in {"idle", "mac_ctl", "mac_ports", "ip_noctl", "ip_loop", "ip_ports"}
  /\ opc # "idle" => \E l \in given : /\ Asked(l, req) /\ l.dev \in loaded
                                      /\ l.dev = DevOf(opc) /\ l.cmd = CmdOf(opc)

(* A listing is of a module that is there, a packet in lookup3 has an IP   *)
(* header and ip-static is there.                                          *)
CallsOK ==
  /\ loaded \subseteq {"mac", "ip"} /\ ("ip" \in loaded => "mac" \in loaded)
  /\ lpc \in {"idle", "list", "ended"} /\ li \in Nat
  /\ lb \in {"mac", "ip"} \X Bridges /\ (lpc # "idle" => lb[1] \in loaded)
  /\ tpc \in {"idle", "src", "dst", "out", "gone"}
  /\ tpc = "idle" => pkt = NoPacket
  /\ tpc \in {"src", "dst"} => "ip" \in loaded /\ pkt.sip \in Ips /\ pkt.dip \in Ips

IType == TablesOK /\ RequestOK /\ CallsOK

(* NM_BDG_NOPORT is a port number, and there is a bridge 0. *)
LEMMA Ranges ==
  /\ NM_BDG_NOPORT \in 0 .. NM_BDG_NOPORT /\ 0 \in 0 .. NM_BDG_NOPORT
  /\ NM_BDG_NOPORT \notin 0 .. NPorts - 1
  /\ 0 .. NPorts - 1 \subseteq 0 .. NM_BDG_NOPORT /\ 0 \in Bridges
BY StaticAssumption DEF NM_BDG_NOPORT, Bridges

(* Init. *)
LEMMA InitType == Init => IType
<1> SUFFICES ASSUME Init PROVE IType
  OBVIOUS
<1>1. mrt \in Tables(Macs \cup {0}) /\ irt \in Tables(Ips \cup {0})
  BY Ranges, TableEmpty DEF Init
<1>2. TablesOK
  BY <1>1, Ranges DEF Init, TablesOK
<1>3. RequestOK
  BY StaticAssumption DEF Init, RequestOK
<1>4. CallsOK
  BY Ranges DEF Init, CallsOK
<1> QED
  BY <1>2, <1>3, <1>4 DEF IType

(* An ioctl that starts has a request of its line. *)
LEMMA StartSaid ==
  ASSUME NEW l \in Lines, NEW pc, Start(l, pc), RequestOK, loaded' = loaded
  PROVE  /\ Asked(l, req') /\ l \in given' /\ given' \subseteq Lines
         /\ l.dev \in loaded' /\ ioctls' \in 0 .. MaxIoctls /\ opc' = pc
         /\ given \subseteq given'
<1>1. Asked(l, req')
  BY LineAsks DEF Start
<1>2. ioctls' \in 0 .. MaxIoctls
  BY StaticAssumption DEF Start, RequestOK
<1> QED
  BY <1>1, <1>2 DEF Start, RequestOK

(* The lines of the ioctl under way. *)
LEMMA UnderWay ==
  ASSUME RequestOK, opc # "idle"
  PROVE  \E l \in given : /\ l \in Lines /\ Asked(l, req) /\ l.dev \in loaded
                          /\ l.dev = DevOf(opc) /\ l.cmd = CmdOf(opc)
BY DEF RequestOK

(* bdgaddif2: the address, in the entry it hashes to. *)
LEMMA MacAddEntries ==
  ASSUME IType, NEW l \in Lines, MacAdd(l)
  PROVE  /\ l.cmd = "addif" /\ l.dev = "mac" /\ Asked(l, req')
         /\ req'.b \in Bridges /\ req'.addr \in Macs /\ MacHash[req'.addr] \in HashSlots
         /\ mrt' \in Tables(Macs \cup {0})
         /\ AddrChanged(mrt, mrt', req'.b, MacHash[req'.addr], req'.addr)
<1> USE DEF IType
<1>1. l.cmd = "addif" /\ l.dev = "mac" /\ Asked(l, req')
  BY LineAsks, StartSaid DEF MacAdd, modVars
<1>2. req'.b \in Bridges /\ req'.addr \in Macs /\ MacHash[req'.addr] \in HashSlots
  BY <1>1, StaticAssumption DEF Asked, HashSlots
<1>3. mrt' = [mrt EXCEPT ![req'.b][MacHash[req'.addr]].addr = req'.addr]
  BY DEF MacAdd
<1>4. mrt \in Tables(Macs \cup {0}) /\ req'.addr \in Macs \cup {0}
  BY <1>2 DEF TablesOK
<1>5. /\ mrt' \in Tables(Macs \cup {0})
      /\ AddrChanged(mrt, mrt', req'.b, MacHash[req'.addr], req'.addr)
  <2> DEFINE A == Macs \cup {0}
             b == req'.b
             a == req'.addr
             s == MacHash[req'.addr]
  <2>1. mrt \in Tables(A) /\ b \in Bridges /\ s \in HashSlots /\ a \in A
    BY <1>2, <1>4
  <2>2. mrt' = [mrt EXCEPT ![b][s].addr = a]
    BY <1>3
  <2> HIDE DEF A, b, a, s
  <2>3. mrt' \in Tables(A) /\ AddrChanged(mrt, mrt', b, s, a)
    BY <2>1, <2>2, AddrStored
  <2> QED
    BY <2>3 DEF A, b, a, s
<1> QED
  BY <1>1, <1>2, <1>5

(* bdgaddif3: the address, in the entry it hashes to. *)
LEMMA IpAddEntries ==
  ASSUME IType, NEW l \in Lines, IpAdd(l)
  PROVE  /\ l.cmd = "addif" /\ l.dev = "ip" /\ Asked(l, req')
         /\ req'.b \in Bridges /\ req'.addr \in Ips /\ IpHash[req'.addr] \in HashSlots
         /\ irt' \in Tables(Ips \cup {0})
         /\ AddrChanged(irt, irt', req'.b, IpHash[req'.addr], req'.addr)
<1> USE DEF IType
<1>1. l.cmd = "addif" /\ l.dev = "ip" /\ Asked(l, req')
  BY LineAsks, StartSaid DEF IpAdd, modVars
<1>2. req'.b \in Bridges /\ req'.addr \in Ips /\ IpHash[req'.addr] \in HashSlots
  BY <1>1, StaticAssumption DEF Asked, HashSlots
<1>3. irt' = [irt EXCEPT ![req'.b][IpHash[req'.addr]].addr = req'.addr]
  BY DEF IpAdd
<1>4. irt \in Tables(Ips \cup {0}) /\ req'.addr \in Ips \cup {0}
  BY <1>2 DEF TablesOK
<1>5. /\ irt' \in Tables(Ips \cup {0})
      /\ AddrChanged(irt, irt', req'.b, IpHash[req'.addr], req'.addr)
  <2> DEFINE A == Ips \cup {0}
             b == req'.b
             a == req'.addr
             s == IpHash[req'.addr]
  <2>1. irt \in Tables(A) /\ b \in Bridges /\ s \in HashSlots /\ a \in A
    BY <1>2, <1>4
  <2>2. irt' = [irt EXCEPT ![b][s].addr = a]
    BY <1>3
  <2> HIDE DEF A, b, a, s
  <2>3. irt' \in Tables(A) /\ AddrChanged(irt, irt', b, s, a)
    BY <2>1, <2>2, AddrStored
  <2> QED
    BY <2>3 DEF A, b, a, s
<1> QED
  BY <1>1, <1>2, <1>5

(* bdgaddif2: the port, in the same entry. *)
LEMMA MacPortsEntries ==
  ASSUME IType, MacAddPorts
  PROVE  /\ req.b \in Bridges /\ req.addr \in Macs /\ MacHash[req.addr] \in HashSlots
         /\ mrt' \in Tables(Macs \cup {0})
         /\ PortsChanged(mrt, mrt', req.b, MacHash[req.addr], req.dst)
<1> USE DEF IType
<1>1. /\ req.dst \in 0 .. NM_BDG_NOPORT /\ req.b \in Bridges
      /\ req.addr \in Macs /\ MacHash[req.addr] \in HashSlots
  BY UnderWay, Ranges, StaticAssumption DEF MacAddPorts, Asked, CmdOf, DevOf, HashSlots
<1>2. mrt' = [mrt EXCEPT ![req.b][MacHash[req.addr]].ports = req.dst]
  BY DEF MacAddPorts, AddPort
<1>3. mrt \in Tables(Macs \cup {0})
  BY DEF TablesOK
<1>4. /\ mrt' \in Tables(Macs \cup {0})
      /\ PortsChanged(mrt, mrt', req.b, MacHash[req.addr], req.dst)
  BY <1>1, <1>2, <1>3, PortsStored
<1> QED
  BY <1>1, <1>4

(* bdgaddif3: the port, in the same entry. *)
LEMMA IpPortsEntries ==
  ASSUME IType, IpAddPorts
  PROVE  /\ req.b \in Bridges /\ req.addr \in Ips /\ IpHash[req.addr] \in HashSlots
         /\ irt' \in Tables(Ips \cup {0})
         /\ PortsChanged(irt, irt', req.b, IpHash[req.addr], req.dst)
<1> USE DEF IType
<1>1. /\ req.dst \in 0 .. NM_BDG_NOPORT /\ req.b \in Bridges
      /\ req.addr \in Ips /\ IpHash[req.addr] \in HashSlots
  BY UnderWay, Ranges, StaticAssumption DEF IpAddPorts, Asked, CmdOf, DevOf, HashSlots
<1>2. irt' = [irt EXCEPT ![req.b][IpHash[req.addr]].ports = req.dst]
  BY DEF IpAddPorts, AddPort
<1>3. irt \in Tables(Ips \cup {0})
  BY DEF TablesOK
<1>4. /\ irt' \in Tables(Ips \cup {0})
      /\ PortsChanged(irt, irt', req.b, IpHash[req.addr], req.dst)
  BY <1>1, <1>2, <1>3, PortsStored
<1> QED
  BY <1>1, <1>4

(* rt_init of ip-static: the port, in the next entry. *)
LEMMA LoopEntries ==
  ASSUME IType, IpRegLoop
  PROVE  /\ req.b \in Bridges /\ oj \in HashSlots /\ irt' \in Tables(Ips \cup {0})
         /\ PortsChanged(irt, irt', req.b, oj, req.port)
<1> USE DEF IType
<1>1. req.port \in 0 .. NM_BDG_NOPORT /\ req.b \in Bridges
  BY UnderWay, Ranges DEF IpRegLoop, Asked, CmdOf
<1>2. oj \in HashSlots
  BY StaticAssumption DEF IpRegLoop, InLoop, RequestOK, HashSlots
<1>3. irt' = [irt EXCEPT ![req.b][oj].ports = req.port]
  BY DEF IpRegLoop, InitPort
<1>4. irt \in Tables(Ips \cup {0})
  BY DEF TablesOK
<1>5. /\ irt' \in Tables(Ips \cup {0})
      /\ PortsChanged(irt, irt', req.b, oj, req.port)
  BY <1>1, <1>2, <1>3, <1>4, PortsStored
<1> QED
  BY <1>1, <1>2, <1>5

(* The tables keep their types. *)
LEMMA TablesStep ==
  ASSUME IType, [Next]_vars
  PROVE  TablesOK'
<1> USE DEF IType
<1>1. CASE MacInit
  <2>1. mrt' \in Tables(Macs \cup {0})
    BY <1>1, Ranges, TableEmpty DEF MacInit
  <2> QED
    BY <1>1, <2>1, Ranges DEF MacInit, TablesOK
<1>2. CASE IpInit
  <2>1. irt' \in Tables(Ips \cup {0})
    BY <1>2, Ranges, TableEmpty DEF IpInit
  <2> QED
    BY <1>2, <2>1, Ranges DEF IpInit, TablesOK
<1>3. ASSUME NEW m \in {"mac", "ip"}, Exit(m) PROVE TablesOK'
  <2>1. Table(0) \in Tables(Macs \cup {0}) /\ Table(0) \in Tables(Ips \cup {0})
    BY Ranges, TableEmpty
  <2>2. CASE m = "mac"
    BY <1>3, <2>1, <2>2, Ranges DEF Exit, TablesOK
  <2>3. CASE m = "ip"
    BY <1>3, <2>1, <2>3, Ranges DEF Exit, TablesOK
  <2> QED
    BY <2>2, <2>3
<1>4. ASSUME NEW l \in Lines, MacReg(l) \/ IpReg(l) PROVE TablesOK'
  BY <1>4 DEF MacReg, IpReg, TablesOK, tabVars
<1>5. ASSUME NEW l \in Lines, MacAdd(l) PROVE TablesOK'
  BY <1>5, MacAddEntries DEF MacAdd, TablesOK
<1>6. ASSUME NEW l \in Lines, IpAdd(l) PROVE TablesOK'
  BY <1>6, IpAddEntries DEF IpAdd, TablesOK
<1>7. CASE MacRegCtl
  <2>1. req.port \in 0 .. NM_BDG_NOPORT /\ req.b \in Bridges
    BY <1>7, UnderWay, Ranges DEF MacRegCtl, Asked, CmdOf
  <2> QED
    BY <1>7, <2>1 DEF MacRegCtl, TablesOK
<1>8. CASE MacAddPorts
  BY <1>8, MacPortsEntries DEF MacAddPorts, TablesOK
<1>9. CASE IpRegInit
  BY <1>9, UnderWay, Ranges DEF IpRegInit, TablesOK
<1>10. CASE IpRegLoop
  BY <1>10, LoopEntries DEF IpRegLoop, TablesOK
<1>11. CASE IpRegCtl
  <2>1. req.port \in 0 .. NM_BDG_NOPORT /\ req.b \in Bridges
    BY <1>11, UnderWay, Ranges DEF IpRegCtl, Asked, CmdOf
  <2> QED
    BY <1>11, <2>1 DEF IpRegCtl, TablesOK
<1>12. CASE IpAddPorts
  BY <1>12, IpPortsEntries DEF IpAddPorts, TablesOK
<1>13. CASE List
  BY <1>13 DEF List, ListStart, ListEntry, ListEnd, ListClose, TablesOK, tabVars
<1>14. CASE Forward
  BY <1>14 DEF Forward, Crash, CallLookup2, CallLookup3, Lookup3Src, Lookup3Dst, Return,
     TablesOK, tabVars
<1>15. CASE UNCHANGED vars
  BY <1>15 DEF vars, TablesOK
<1> QED
  BY <1>1, <1>2, <1>3, <1>4, <1>5, <1>6, <1>7, <1>8, <1>9, <1>10, <1>11, <1>12, <1>13,
     <1>14, <1>15 DEF Next, Operator

(* The request stays that of a line. *)
LEMMA RequestStep ==
  ASSUME IType, [Next]_vars
  PROVE  RequestOK'
<1> USE DEF IType
<1>1. CASE MacInit
  BY <1>1 DEF MacInit, RequestOK, opVars
<1>2. CASE IpInit
  BY <1>2 DEF IpInit, RequestOK, opVars
<1>3. ASSUME NEW m \in {"mac", "ip"}, Exit(m) PROVE RequestOK'
  BY <1>3 DEF Exit, RequestOK, opVars
<1>4. ASSUME NEW l \in Lines, MacReg(l) PROVE RequestOK'
  <2>1. l.cmd = "regfn" /\ l.dev = "mac" /\ loaded' = loaded /\ Start(l, "mac_ctl")
    BY <1>4, LineAsks DEF MacReg
  <2> QED
    BY <1>4, <2>1, StartSaid DEF MacReg, RequestOK, DevOf, CmdOf
<1>5. ASSUME NEW l \in Lines, IpReg(l) PROVE RequestOK'
  <2>1. l.cmd = "regfn" /\ l.dev = "ip" /\ loaded' = loaded /\ Start(l, "ip_noctl")
    BY <1>5, LineAsks DEF IpReg
  <2> QED
    BY <1>5, <2>1, StartSaid DEF IpReg, RequestOK, DevOf, CmdOf
<1>6. ASSUME NEW l \in Lines, MacAdd(l) PROVE RequestOK'
  <2>1. l.cmd = "addif" /\ l.dev = "mac" /\ loaded' = loaded /\ Start(l, "mac_ports")
    BY <1>6, LineAsks DEF MacAdd, modVars
  <2> QED
    BY <1>6, <2>1, StartSaid DEF MacAdd, RequestOK, DevOf, CmdOf
<1>7. ASSUME NEW l \in Lines, IpAdd(l) PROVE RequestOK'
  <2>1. l.cmd = "addif" /\ l.dev = "ip" /\ loaded' = loaded /\ Start(l, "ip_ports")
    BY <1>7, LineAsks DEF IpAdd, modVars
  <2> QED
    BY <1>7, <2>1, StartSaid DEF IpAdd, RequestOK, DevOf, CmdOf
<1>8. CASE MacRegCtl \/ MacAddPorts \/ IpAddPorts
  BY <1>8 DEF MacRegCtl, MacAddPorts, IpAddPorts, RequestOK
<1>9. CASE IpRegInit
  BY <1>9, StaticAssumption DEF IpRegInit, RequestOK, DevOf, CmdOf, modVars
<1>10. CASE IpRegLoop
  <2>1. oj' \in 0 .. NHash
    BY <1>10, StaticAssumption DEF IpRegLoop, InLoop, RequestOK
  <2> QED
    BY <1>10, <2>1 DEF IpRegLoop, RequestOK, modVars
<1>11. CASE IpRegCtl
  BY <1>11, StaticAssumption DEF IpRegCtl, RequestOK
<1>12. CASE List
  BY <1>12 DEF List, ListStart, ListEntry, ListEnd, ListClose, RequestOK, opVars, modVars
<1>13. CASE Forward
  BY <1>13 DEF Forward, Crash, CallLookup2, CallLookup3, Lookup3Src, Lookup3Dst, Return,
     RequestOK, opVars, modVars
<1>14. CASE UNCHANGED vars
  BY <1>14 DEF vars, RequestOK
<1> QED
  BY <1>1, <1>2, <1>3, <1>4, <1>5, <1>6, <1>7, <1>8, <1>9, <1>10, <1>11, <1>12, <1>13,
     <1>14 DEF Next, Operator

(* What the operator's steps leave alone. *)
LEMMA OperatorFrame ==
  ASSUME Operator
  PROVE  /\ loaded' = loaded /\ fwdVars' = fwdVars
         /\ lpc' = lpc /\ lb' = lb /\ li' = li /\ lgot' = lgot
<1>1. ASSUME NEW l \in Lines, MacReg(l) \/ IpReg(l) \/ MacAdd(l) \/ IpAdd(l)
      PROVE  /\ loaded' = loaded /\ fwdVars' = fwdVars
             /\ lpc' = lpc /\ lb' = lb /\ li' = li /\ lgot' = lgot
  BY <1>1 DEF MacReg, IpReg, MacAdd, IpAdd, modVars, listVars
<1>2. ASSUME MacRegCtl \/ MacAddPorts \/ IpRegInit \/ IpRegLoop \/ IpRegCtl \/ IpAddPorts
      PROVE  /\ loaded' = loaded /\ fwdVars' = fwdVars
             /\ lpc' = lpc /\ lb' = lb /\ li' = li /\ lgot' = lgot
  BY <1>2 DEF MacRegCtl, MacAddPorts, IpRegInit, IpRegLoop, IpRegCtl, IpAddPorts, modVars,
     listVars
<1> QED
  BY <1>1, <1>2 DEF Operator

(* Listings and packets stay within their modules. *)
LEMMA CallsStep ==
  ASSUME IType, [Next]_vars
  PROVE  CallsOK'
<1> USE DEF IType
<1>1. CASE MacInit
  BY <1>1 DEF MacInit, CallsOK, listVars, fwdVars
<1>2. CASE IpInit
  BY <1>2 DEF IpInit, CallsOK, listVars, fwdVars
<1>3. ASSUME NEW m \in {"mac", "ip"}, Exit(m) PROVE CallsOK'
  <2>1. CASE m = "mac"
    BY <1>3, <2>1 DEF Exit, CallsOK, listVars
  <2>2. CASE m = "ip"
    BY <1>3, <2>2 DEF Exit, CallsOK, listVars
  <2> QED
    BY <2>1, <2>2
<1>4. CASE Operator
  BY <1>4, OperatorFrame DEF CallsOK, fwdVars
<1>5. ASSUME NEW l \in Lines, ListStart(l) PROVE CallsOK'
  <2>1. ParseOptions(l.opts).b \in Bridges /\ l.dev \in {"mac", "ip"}
    BY LineAsks DEF Asked
  <2> QED
    BY <1>5, <2>1 DEF ListStart, CallsOK, modVars, fwdVars
<1>6. CASE ListEntry
  <2>1. li' \in Nat
    BY <1>6 DEF ListEntry, ListNext, CallsOK
  <2> QED
    BY <1>6, <2>1 DEF ListEntry, CallsOK, modVars, fwdVars
<1>7. CASE ListEnd
  BY <1>7 DEF ListEnd, CallsOK, modVars, fwdVars
<1>8. CASE ListClose
  BY <1>8, Ranges DEF ListClose, CallsOK, modVars, fwdVars
<1>9. ASSUME NEW b \in Bridges, Crash(b) PROVE CallsOK'
  BY <1>9 DEF Crash, CallsOK, modVars, listVars
<1>10. ASSUME NEW b \in Bridges, NEW mac, CallLookup2(b, mac) PROVE CallsOK'
  BY <1>10 DEF CallLookup2, CallsOK, modVars, listVars
<1>11. ASSUME NEW b \in Bridges, NEW mac, NEW sip \in Ips \cup {NoAddr}, NEW dip \in Ips,
              CallLookup3(b, mac, sip, dip)
       PROVE  CallsOK'
  <2>1. tpc' \in {"out", "src"} /\ (tpc' = "src" => sip \in Ips)
    BY <1>11 DEF CallLookup3
  <2> QED
    BY <1>11, <2>1 DEF CallLookup3, CallsOK, modVars, listVars
<1>12. CASE Lookup3Src
  BY <1>12 DEF Lookup3Src, CallsOK, modVars, listVars
<1>13. CASE Lookup3Dst
  BY <1>13 DEF Lookup3Dst, CallsOK, modVars, listVars
<1>14. CASE Return
  BY <1>14 DEF Return, CallsOK, modVars, listVars
<1>15. CASE UNCHANGED vars
  BY <1>15 DEF vars, CallsOK
<1> QED
  BY <1>1, <1>2, <1>3, <1>4, <1>5, <1>6, <1>7, <1>8, <1>9, <1>10, <1>11, <1>12, <1>13,
     <1>14, <1>15 DEF Next, List, Forward

(* Every step keeps the types. *)
LEMMA StepType == IType /\ [Next]_vars => IType'
BY TablesStep, RequestStep, CallsStep DEF IType

(* The types hold always. *)
LEMMA Typed == Spec => []IType
BY InitType, StepType, PTL DEF Spec

(* Ports, slots and addresses stay in their ranges, whatever lines the     *)
(* operator gives and however ioctls, listings and packets interleave.     *)
THEOREM TypeCorrect == Spec => []TypeOK
<1>1. IType => TypeOK
  <2> SUFFICES ASSUME IType PROVE TypeOK
    OBVIOUS
  <2>1. ASSUME NEW b \in Bridges, NEW s \in HashSlots
        PROVE  /\ mrt[b][s] \in [addr : Macs \cup {0}, ports : 0 .. NM_BDG_NOPORT]
               /\ irt[b][s] \in [addr : Ips \cup {0}, ports : 0 .. NM_BDG_NOPORT]
    BY DEF IType, TablesOK, Tables
  <2>2. ASSUME NEW b \in Bridges, NEW s \in HashSlots
        PROVE  /\ mrt[b][s].addr \in Macs \cup {0} /\ irt[b][s].addr \in Ips \cup {0}
               /\ {mrt[b][s].ports, irt[b][s].ports} \subseteq 0 .. NM_BDG_NOPORT
    BY <2>1
  <2> QED
    BY <2>2 DEF IType, RequestOK, CallsOK, TypeOK
<1> QED
  BY <1>1, Typed, PTL

-----------------------------------------------------------------------------
(* Listings.                                                               *)

(* An address a listing must show has been shown or is still ahead. *)
Ahead == \A a \in lmust : a \in lgot \/ \E s \in HashSlots : s >= li /\ Listed(lb, s) = a

IList ==
  /\ 0 \notin lmust
  /\ lpc = "list" => Ahead
  /\ lpc = "ended" => lmust \subseteq lgot

(* A step that leaves the listing and the addresses alone keeps it. *)
LEMMA ListFrame ==
  ASSUME IList, UNCHANGED <<lpc, li, lb, lmust, lgot>>,
         lpc = "list" => \A s \in HashSlots : Listed(lb, s)' = Listed(lb, s)
  PROVE  IList'
<1>1. lpc = "list" => Ahead'
  <2> SUFFICES ASSUME lpc = "list", NEW a \in lmust, a \notin lgot
               PROVE  \E s \in HashSlots : s >= li /\ Listed(lb, s)' = a
    BY DEF Ahead
  <2>1. PICK s \in HashSlots : s >= li /\ Listed(lb, s) = a
    BY DEF IList, Ahead
  <2> QED
    BY <2>1
<1> QED
  BY <1>1 DEF IList

(* A step that changes only ports keeps what is listed. *)
LEMMA ListedSame ==
  ASSUME CallsOK, lb' = lb,
         \A b \in Bridges, s \in HashSlots : mrt'[b][s].addr = mrt[b][s].addr,
         \A b \in Bridges, s \in HashSlots : irt'[b][s].addr = irt[b][s].addr
  PROVE  \A s \in HashSlots : Listed(lb, s)' = Listed(lb, s)
<1>1. lb[2] \in Bridges
  BY DEF CallsOK
<1> QED
  BY <1>1 DEF Listed, MacListed, IpListed

(* Adding an address overwrites at most one that a listing must show, and  *)
(* that one it need not show any more.                                     *)
LEMMA ListAdd ==
  ASSUME IList, UNCHANGED <<lpc, li, lb, lgot>>, NEW s, NEW a,
         lmust' = lmust \ ({Listed(lb, s)} \ {a}),
         \A r \in HashSlots : Listed(lb, r)' = IF r = s THEN a ELSE Listed(lb, r)
  PROVE  IList'
<1>1. lmust' \subseteq lmust
  OBVIOUS
<1>2. lpc = "list" => Ahead'
  <2> SUFFICES ASSUME lpc = "list", NEW x \in lmust', x \notin lgot
               PROVE  \E r \in HashSlots : r >= li /\ Listed(lb, r)' = x
    BY DEF Ahead
  <2>1. PICK r \in HashSlots : r >= li /\ Listed(lb, r) = x
    BY <1>1 DEF IList, Ahead
  <2>2. r = s => x = a
    BY <2>1
  <2> QED
    BY <2>1, <2>2
<1> QED
  BY <1>1, <1>2 DEF IList

(* Every step keeps it. *)
LEMMA ListStep ==
  ASSUME IType, IList, [Next]_vars
  PROVE  IList'
<1> USE DEF IType
<1>1. CASE MacInit
  <2>1. lpc # "list"
    BY <1>1 DEF MacInit, CallsOK
  <2> QED
    BY <1>1, <2>1, ListFrame DEF MacInit, listVars
<1>2. CASE IpInit
  <2>1. lpc = "list" => lb[1] = "mac"
    BY <1>2 DEF IpInit, CallsOK
  <2>2. lpc = "list" => \A s \in HashSlots : Listed(lb, s)' = Listed(lb, s)
    BY <1>2, <2>1 DEF IpInit, Listed, MacListed, listVars
  <2> QED
    BY <1>2, <2>2, ListFrame DEF IpInit, listVars
<1>3. ASSUME NEW m \in {"mac", "ip"}, Exit(m) PROVE IList'
  BY <1>3, ListFrame DEF Exit, listVars
<1>4. ASSUME NEW l \in Lines, MacReg(l) \/ IpReg(l) PROVE IList'
  BY <1>4, ListFrame DEF MacReg, IpReg, listVars, tabVars, Listed, MacListed, IpListed
<1>5. ASSUME NEW l \in Lines, MacAdd(l) PROVE IList'
  <2> DEFINE s == MacHash[req'.addr]
  <2>1. UNCHANGED <<lpc, li, lb, lgot, irt>>
    BY <1>5 DEF MacAdd
  <2>2. lb = <<lb[1], lb[2]>> /\ lb[1] \in {"mac", "ip"} /\ lb[2] \in Bridges
    BY DEF CallsOK
  <2>3. \A r \in HashSlots :
          mrt'[lb[2]][r] = IF lb[2] = req'.b /\ r = s
                           THEN Entry(req'.addr, mrt[lb[2]][r].ports) ELSE mrt[lb[2]][r]
    BY <1>5, <2>2, MacAddEntries DEF AddrChanged
  <2>4. CASE lb = <<"mac", req'.b>>
    <3>1. Listed(lb, s) = mrt[req'.b][s].addr
      BY <2>4 DEF Listed, MacListed
    <3>2. lmust' = lmust \ ({Listed(lb, s)} \ {req'.addr})
      BY <1>5, <2>4, <3>1 DEF MacAdd, Overwritten
    <3>3. \A r \in HashSlots : Listed(lb, r)' = IF r = s THEN req'.addr ELSE Listed(lb, r)
      BY <2>1, <2>3, <2>4, EntryFields DEF Listed, MacListed
    <3> HIDE DEF s
    <3> QED
      BY <2>1, <3>2, <3>3, ListAdd
  <2>5. CASE lb # <<"mac", req'.b>>
    <3>1. lmust' = lmust
      BY <1>5, <2>5 DEF MacAdd, Overwritten
    <3>2. lb[1] # "mac" \/ lb[2] # req'.b
      BY <2>2, <2>5
    <3>3. \A r \in HashSlots : Listed(lb, r)' = Listed(lb, r)
      BY <2>1, <2>2, <2>3, <3>2 DEF Listed, MacListed, IpListed
    <3> QED
      BY <2>1, <3>1, <3>3, ListFrame
  <2> QED
    BY <2>4, <2>5
<1>6. ASSUME NEW l \in Lines, IpAdd(l) PROVE IList'
  <2> DEFINE s == IpHash[req'.addr]
  <2>1. UNCHANGED <<lpc, li, lb, lgot, mrt>>
    BY <1>6 DEF IpAdd
  <2>2. lb = <<lb[1], lb[2]>> /\ lb[1] \in {"mac", "ip"} /\ lb[2] \in Bridges
    BY DEF CallsOK
  <2>3. \A r \in HashSlots :
          irt'[lb[2]][r] = IF lb[2] = req'.b /\ r = s
                           THEN Entry(req'.addr, irt[lb[2]][r].ports) ELSE irt[lb[2]][r]
    BY <1>6, <2>2, IpAddEntries DEF AddrChanged
  <2>4. CASE lb = <<"ip", req'.b>>
    <3>1. Listed(lb, s) = irt[req'.b][s].addr
      BY <2>4 DEF Listed, IpListed
    <3>2. lmust' = lmust \ ({Listed(lb, s)} \ {req'.addr})
      BY <1>6, <2>4, <3>1 DEF IpAdd, Overwritten
    <3>3. \A r \in HashSlots : Listed(lb, r)' = IF r = s THEN req'.addr ELSE Listed(lb, r)
      BY <2>1, <2>3, <2>4, EntryFields DEF Listed, IpListed
    <3> HIDE DEF s
    <3> QED
      BY <2>1, <3>2, <3>3, ListAdd
  <2>5. CASE lb # <<"ip", req'.b>>
    <3>1. lmust' = lmust
      BY <1>6, <2>5 DEF IpAdd, Overwritten
    <3>2. lb[1] # "ip" \/ lb[2] # req'.b
      BY <2>2, <2>5
    <3>3. \A r \in HashSlots : Listed(lb, r)' = Listed(lb, r)
      BY <2>1, <2>2, <2>3, <3>2 DEF Listed, MacListed, IpListed
    <3> QED
      BY <2>1, <3>1, <3>3, ListFrame
  <2> QED
    BY <2>4, <2>5
<1>7. CASE MacRegCtl \/ IpRegInit \/ IpRegCtl
  BY <1>7, ListFrame
    DEF MacRegCtl, IpRegInit, IpRegCtl, listVars, Listed, MacListed, IpListed
<1>8. CASE MacAddPorts
  <2>1. \A b \in Bridges, s \in HashSlots :
          mrt'[b][s] = IF b = req.b /\ s = MacHash[req.addr] THEN Entry(mrt[b][s].addr, req.dst) ELSE mrt[b][s]
    BY <1>8, MacPortsEntries DEF PortsChanged
  <2>2. \A b \in Bridges, s \in HashSlots : mrt'[b][s].addr = mrt[b][s].addr
    BY <2>1, EntryFields
  <2> QED
    BY <1>8, <2>2, ListFrame, ListedSame DEF MacAddPorts, listVars
<1>9. CASE IpRegLoop
  <2>1. \A b \in Bridges, s \in HashSlots :
          irt'[b][s] = IF b = req.b /\ s = oj THEN Entry(irt[b][s].addr, req.port) ELSE irt[b][s]
    BY <1>9, LoopEntries DEF PortsChanged
  <2>2. \A b \in Bridges, s \in HashSlots : irt'[b][s].addr = irt[b][s].addr
    BY <2>1, EntryFields
  <2> QED
    BY <1>9, <2>2, ListFrame, ListedSame DEF IpRegLoop, listVars
<1>10. CASE IpAddPorts
  <2>1. \A b \in Bridges, s \in HashSlots :
          irt'[b][s] = IF b = req.b /\ s = IpHash[req.addr] THEN Entry(irt[b][s].addr, req.dst) ELSE irt[b][s]
    BY <1>10, IpPortsEntries DEF PortsChanged
  <2>2. \A b \in Bridges, s \in HashSlots : irt'[b][s].addr = irt[b][s].addr
    BY <2>1, EntryFields
  <2> QED
    BY <1>10, <2>2, ListFrame, ListedSame DEF IpAddPorts, listVars
<1>11. ASSUME NEW l \in Lines, ListStart(l) PROVE IList'
  <2>1. /\ lpc' = "list" /\ li' = 0 /\ lgot' = {} /\ UNCHANGED <<mrt, irt>>
        /\ lmust' = {Listed(lb', s) : s \in HashSlots} \ {0}
    BY <1>11 DEF ListStart, tabVars
  <2>2. \A s \in HashSlots : s >= 0
    BY StaticAssumption DEF HashSlots
  <2>3. \A s : Listed(lb, s)' = Listed(lb', s)
    BY <2>1 DEF Listed, MacListed, IpListed
  <2> QED
    BY <2>1, <2>2, <2>3 DEF IList, Ahead
<1>12. CASE ListEntry
  <2>1. /\ lpc = "list" /\ lpc' = lpc /\ UNCHANGED <<lb, lmust, mrt, irt>>
        /\ li' = li + 1 /\ lgot' = lgot \cup ({Listed(lb, li)} \ {0})
    BY <1>12 DEF ListEntry, ListNext, tabVars
  <2>2. \A s : Listed(lb, s)' = Listed(lb, s)
    BY <2>1 DEF Listed, MacListed, IpListed
  <2>3. \A s \in HashSlots : s >= li => s = li \/ s >= li + 1
    BY StaticAssumption DEF HashSlots, CallsOK
  <2>4. ASSUME NEW a \in lmust', a \notin lgot'
        PROVE  \E s \in HashSlots : s >= li' /\ Listed(lb, s)' = a
    <3>1. a \in lmust /\ a # 0 /\ a \notin lgot /\ a # Listed(lb, li)
      BY <2>1, <2>4 DEF IList
    <3>2. PICK s \in HashSlots : s >= li /\ Listed(lb, s) = a
      BY <2>1, <3>1 DEF IList, Ahead
    <3> QED
      BY <2>1, <2>2, <2>3, <3>1, <3>2
  <2> QED
    BY <2>1, <2>4 DEF IList, Ahead
<1>13. CASE ListEnd
  <2>1. lpc = "list" /\ li >= NHash /\ lpc' = "ended" /\ UNCHANGED <<lmust, lgot>>
    BY <1>13 DEF ListEnd
  <2>2. \A s \in HashSlots : ~(s >= li)
    BY <2>1, StaticAssumption DEF HashSlots, CallsOK
  <2> QED
    BY <2>1, <2>2 DEF IList, Ahead
<1>14. CASE ListClose
  BY <1>14 DEF ListClose, IList
<1>15. CASE Forward
  BY <1>15, ListFrame DEF Forward, Crash, CallLookup2, CallLookup3, Lookup3Src, Lookup3Dst,
     Return, listVars, tabVars, Listed, MacListed, IpListed
<1>16. CASE UNCHANGED vars
  BY <1>16, ListFrame DEF vars, Listed, MacListed, IpListed
<1> QED
  BY <1>1, <1>2, <1>3, <1>4, <1>5, <1>6, <1>7, <1>8, <1>9, <1>10, <1>11, <1>12, <1>13,
     <1>14, <1>15, <1>16 DEF Next, Operator, List

(* A listing that ends has shown every address that was in the table when  *)
(* it began and was not overwritten since, for any table and any ioctls    *)
(* meanwhile.                                                              *)
THEOREM ListsComplete == Spec => []ListComplete
<1>1. Init => IList
  BY DEF Init, IList
<1>2. IType /\ IList /\ [Next]_vars => IList'
  BY ListStep
<1>3. IList => ListComplete
  BY DEF IList, ListComplete
<1> QED
  BY <1>1, <1>2, <1>3, Typed, PTL DEF Spec

-----------------------------------------------------------------------------
(* Entries.                                                                *)

(* What a given line said of an entry of bridge b. *)
Said(dev, b, e) ==
  \E l \in given :
    /\ l.dev = dev /\ Says(l, "b") = b /\ e.ports = PortOf(l)
    /\ \/ l.cmd = "addif" /\ Says(l, AddrOption(l)) = e.addr
       \/ l.cmd = "regfn" /\ dev = "ip"

(* The entry that has its address and waits for its port. *)
MacHalf(b, s) == opc = "mac_ports" /\ b = req.b /\ s = MacHash[req.addr]
IpHalf(b, s) == opc = "ip_ports" /\ b = req.b /\ s = IpHash[req.addr]

MacSaid ==
  \A b \in Bridges, s \in HashSlots :
    IF MacHalf(b, s) THEN mrt[b][s].addr = req.addr
    ELSE mrt[b][s].addr # 0 => Said("mac", b, mrt[b][s])

IpSaid ==
  \A b \in Bridges, s \in HashSlots :
    IF IpHalf(b, s) THEN irt[b][s].addr = req.addr
    ELSE irt[b][s].addr # 0 => Said("ip", b, irt[b][s])

(* The lines given become more. *)
LEMMA GivenGrows ==
  ASSUME [Next]_vars
  PROVE  given \subseteq given'
<1>1. CASE Operator
  <2>1. ASSUME NEW l \in Lines, MacReg(l) \/ IpReg(l) \/ MacAdd(l) \/ IpAdd(l)
        PROVE  given \subseteq given'
    BY <2>1 DEF MacReg, IpReg, MacAdd, IpAdd, Start
  <2>2. ASSUME MacRegCtl \/ MacAddPorts \/ IpRegInit \/ IpRegLoop \/ IpRegCtl \/ IpAddPorts
        PROVE  given \subseteq given'
    BY <2>2 DEF MacRegCtl, MacAddPorts, IpRegInit, IpRegLoop, IpRegCtl, IpAddPorts
  <2> QED
    BY <1>1, <2>1, <2>2 DEF Operator
<1>2. CASE List
  BY <1>2 DEF List, ListStart, ListEntry, ListEnd, ListClose, opVars
<1>3. CASE Forward
  BY <1>3 DEF Forward, Crash, CallLookup2, CallLookup3, Lookup3Src, Lookup3Dst, Return, opVars
<1>4. CASE MacInit \/ IpInit \/ (\E m \in {"mac", "ip"} : Exit(m)) \/ UNCHANGED vars
  BY <1>4 DEF MacInit, IpInit, Exit, opVars, vars
<1> QED
  BY <1>1, <1>2, <1>3, <1>4 DEF Next

(* Steps that do not touch the table or the entry in the making. *)
LEMMA MacSaidFrame ==
  ASSUME MacSaid, given \subseteq given', mrt' = mrt,
         \A b \in Bridges, s \in HashSlots : MacHalf(b, s)' = MacHalf(b, s),
         opc = "mac_ports" => req' = req
  PROVE  MacSaid'
<1> SUFFICES ASSUME NEW b \in Bridges, NEW s \in HashSlots
             PROVE  IF MacHalf(b, s)' THEN mrt'[b][s].addr = req'.addr
                    ELSE mrt'[b][s].addr # 0 => Said("mac", b, mrt[b][s])'
  BY DEF MacSaid
<1>1. CASE MacHalf(b, s)
  BY <1>1 DEF MacSaid, MacHalf
<1>2. CASE ~MacHalf(b, s)
  <2>1. mrt[b][s].addr # 0 => Said("mac", b, mrt[b][s])
    BY <1>2 DEF MacSaid
  <2>2. mrt[b][s].addr # 0 => Said("mac", b, mrt[b][s])'
    BY <2>1 DEF Said
  <2> QED
    BY <1>2, <2>2
<1> QED
  BY <1>1, <1>2

(* The same for ip-static. *)
LEMMA IpSaidFrame ==
  ASSUME IpSaid, given \subseteq given', irt' = irt,
         \A b \in Bridges, s \in HashSlots : IpHalf(b, s)' = IpHalf(b, s),
         opc = "ip_ports" => req' = req
  PROVE  IpSaid'
<1> SUFFICES ASSUME NEW b \in Bridges, NEW s \in HashSlots
             PROVE  IF IpHalf(b, s)' THEN irt'[b][s].addr = req'.addr
                    ELSE irt'[b][s].addr # 0 => Said("ip", b, irt[b][s])'
  BY DEF IpSaid
<1>1. CASE IpHalf(b, s)
  BY <1>1 DEF IpSaid, IpHalf
<1>2. CASE ~IpHalf(b, s)
  <2>1. irt[b][s].addr # 0 => Said("ip", b, irt[b][s])
    BY <1>2 DEF IpSaid
  <2>2. irt[b][s].addr # 0 => Said("ip", b, irt[b][s])'
    BY <2>1 DEF Said
  <2> QED
    BY <1>2, <2>2
<1> QED
  BY <1>1, <1>2

(* Every entry of mac-static stays what a line said. *)
LEMMA MacSaidStep ==
  ASSUME IType, MacSaid, [Next]_vars
  PROVE  MacSaid'
<1> USE DEF IType
<1>0. given \subseteq given'
  BY GivenGrows
<1>1. CASE MacInit
  <2>1. \A b \in Bridges, s \in HashSlots : mrt'[b][s].addr = 0
    BY <1>1, TableEmpty, Ranges, EntryFields DEF MacInit
  <2>2. opc' = opc
    BY <1>1 DEF MacInit, opVars
  <2>3. opc # "mac_ports"
    BY <1>1 DEF MacInit, RequestOK, DevOf
  <2> QED
    BY <2>1, <2>2, <2>3 DEF MacSaid, MacHalf
<1>2. CASE IpInit
  BY <1>0, <1>2, MacSaidFrame DEF IpInit, opVars, MacHalf
<1>3. ASSUME NEW m \in {"mac", "ip"}, Exit(m) PROVE MacSaid'
  <2>1. CASE m = "mac"
    <3>1. \A b \in Bridges, s \in HashSlots : mrt'[b][s].addr = 0
      BY <1>3, <2>1, TableEmpty, Ranges, EntryFields DEF Exit
    <3> QED
      BY <1>3, <3>1 DEF Exit, opVars, MacSaid, MacHalf
  <2>2. CASE m = "ip"
    BY <1>0, <1>3, <2>2, MacSaidFrame DEF Exit, opVars, MacHalf
  <2> QED
    BY <2>1, <2>2
<1>4. ASSUME NEW l \in Lines, MacReg(l) \/ IpReg(l) PROVE MacSaid'
  BY <1>0, <1>4, MacSaidFrame DEF MacReg, IpReg, Start, tabVars, MacHalf
<1>5. ASSUME NEW l \in Lines, IpAdd(l) PROVE MacSaid'
  BY <1>0, <1>5, MacSaidFrame DEF IpAdd, Start, MacHalf
<1>6. ASSUME NEW l \in Lines, MacAdd(l) PROVE MacSaid'
  <2>1. opc = "idle" /\ opc' = "mac_ports"
    BY <1>6 DEF MacAdd, Start
  <2>2. AddrChanged(mrt, mrt', req'.b, MacHash[req'.addr], req'.addr)
    BY <1>6, MacAddEntries
  <2> SUFFICES ASSUME NEW b \in Bridges, NEW s \in HashSlots
               PROVE  IF MacHalf(b, s)' THEN mrt'[b][s].addr = req'.addr
                      ELSE mrt'[b][s].addr # 0 => Said("mac", b, mrt[b][s])'
    BY DEF MacSaid
  <2>3. CASE MacHalf(b, s)'
    BY <2>2, <2>3, EntryFields DEF MacHalf, AddrChanged
  <2>4. CASE ~MacHalf(b, s)'
    <3>1. mrt'[b][s] = mrt[b][s]
      BY <2>1, <2>2, <2>4 DEF MacHalf, AddrChanged
    <3>2. mrt[b][s].addr # 0 => Said("mac", b, mrt[b][s])
      BY <2>1 DEF MacSaid, MacHalf
    <3>3. mrt[b][s].addr # 0 => Said("mac", b, mrt[b][s])'
      BY <1>0, <3>1, <3>2 DEF Said
    <3> QED
      BY <2>4, <3>1, <3>3
  <2> QED
    BY <2>3, <2>4
<1>7. CASE MacAddPorts
  <2>1. opc = "mac_ports" /\ opc' = "idle"
    BY <1>7 DEF MacAddPorts
  <2>2. PortsChanged(mrt, mrt', req.b, MacHash[req.addr], req.dst)
    BY <1>7, MacPortsEntries
  <2>3. PICK l \in given : Asked(l, req) /\ l.dev = "mac" /\ l.cmd = "addif"
    BY <2>1, UnderWay DEF DevOf, CmdOf
  <2> SUFFICES ASSUME NEW b \in Bridges, NEW s \in HashSlots
               PROVE  mrt'[b][s].addr # 0 => Said("mac", b, mrt[b][s])'
    BY <2>1 DEF MacSaid, MacHalf
  <2>4. CASE MacHalf(b, s)
    <3>1. mrt'[b][s].addr = req.addr /\ mrt'[b][s].ports = req.dst
      BY <2>2, <2>4, EntryFields DEF MacSaid, MacHalf, PortsChanged
    <3>2. /\ Says(l, "b") = b /\ req.dst = PortOf(l)
          /\ Says(l, AddrOption(l)) = req.addr
      BY <2>3, <2>4 DEF Asked, MacHalf
    <3> QED
      BY <1>0, <2>3, <3>1, <3>2 DEF Said
  <2>5. CASE ~MacHalf(b, s)
    <3>1. mrt'[b][s] = mrt[b][s]
      BY <2>1, <2>2, <2>5 DEF MacHalf, PortsChanged
    <3>2. mrt[b][s].addr # 0 => Said("mac", b, mrt[b][s])
      BY <2>5 DEF MacSaid
    <3> QED
      BY <1>0, <3>1, <3>2 DEF Said
  <2> QED
    BY <2>4, <2>5
<1>8. CASE MacRegCtl \/ IpRegInit \/ IpRegLoop \/ IpRegCtl \/ IpAddPorts
  BY <1>0, <1>8, MacSaidFrame
    DEF MacRegCtl, IpRegInit, IpRegLoop, IpRegCtl, IpAddPorts, MacHalf
<1>9. CASE List
  BY <1>0, <1>9, MacSaidFrame
    DEF List, ListStart, ListEntry, ListEnd, ListClose, opVars, tabVars, MacHalf
<1>10. CASE Forward
  BY <1>0, <1>10, MacSaidFrame DEF Forward, Crash, CallLookup2, CallLookup3, Lookup3Src,
     Lookup3Dst, Return, opVars, tabVars, MacHalf
<1>11. CASE UNCHANGED vars
  BY <1>0, <1>11, MacSaidFrame DEF vars, MacHalf
<1> QED
  BY <1>1, <1>2, <1>3, <1>4, <1>5, <1>6, <1>7, <1>8, <1>9, <1>10, <1>11
    DEF Next, Operator

(* Every entry of ip-static stays what a line said. *)
LEMMA IpSaidStep ==
  ASSUME IType, IpSaid, [Next]_vars
  PROVE  IpSaid'
<1> USE DEF IType
<1>0. given \subseteq given'
  BY GivenGrows
<1>1. CASE IpInit
  <2>1. \A b \in Bridges, s \in HashSlots : irt'[b][s].addr = 0
    BY <1>1, TableEmpty, Ranges, EntryFields DEF IpInit
  <2>2. opc' = opc
    BY <1>1 DEF IpInit, opVars
  <2>3. opc # "ip_ports"
    BY <1>1 DEF IpInit, RequestOK, DevOf
  <2> QED
    BY <2>1, <2>2, <2>3 DEF IpSaid, IpHalf
<1>2. CASE MacInit
  BY <1>0, <1>2, IpSaidFrame DEF MacInit, opVars, IpHalf
<1>3. ASSUME NEW m \in {"mac", "ip"}, Exit(m) PROVE IpSaid'
  <2>1. CASE m = "ip"
    <3>1. \A b \in Bridges, s \in HashSlots : irt'[b][s].addr = 0
      BY <1>3, <2>1, TableEmpty, Ranges, EntryFields DEF Exit
    <3> QED
      BY <1>3, <3>1 DEF Exit, opVars, IpSaid, IpHalf
  <2>2. CASE m = "mac"
    BY <1>0, <1>3, <2>2, IpSaidFrame DEF Exit, opVars, IpHalf
  <2> QED
    BY <2>1, <2>2
<1>4. ASSUME NEW l \in Lines, MacReg(l) \/ IpReg(l) PROVE IpSaid'
  BY <1>0, <1>4, IpSaidFrame DEF MacReg, IpReg, Start, tabVars, IpHalf
<1>5. ASSUME NEW l \in Lines, MacAdd(l) PROVE IpSaid'
  BY <1>0, <1>5, IpSaidFrame DEF MacAdd, Start, IpHalf
<1>6. ASSUME NEW l \in Lines, IpAdd(l) PROVE IpSaid'
  <2>1. opc = "idle" /\ opc' = "ip_ports"
    BY <1>6 DEF IpAdd, Start
  <2>2. AddrChanged(irt, irt', req'.b, IpHash[req'.addr], req'.addr)
    BY <1>6, IpAddEntries
  <2> SUFFICES ASSUME NEW b \in Bridges, NEW s \in HashSlots
               PROVE  IF IpHalf(b, s)' THEN irt'[b][s].addr = req'.addr
                      ELSE irt'[b][s].addr # 0 => Said("ip", b, irt[b][s])'
    BY DEF IpSaid
  <2>3. CASE IpHalf(b, s)'
    BY <2>2, <2>3, EntryFields DEF IpHalf, AddrChanged
  <2>4. CASE ~IpHalf(b, s)'
    <3>1. irt'[b][s] = irt[b][s]
      BY <2>1, <2>2, <2>4 DEF IpHalf, AddrChanged
    <3>2. irt[b][s].addr # 0 => Said("ip", b, irt[b][s])
      BY <2>1 DEF IpSaid, IpHalf
    <3>3. irt[b][s].addr # 0 => Said("ip", b, irt[b][s])'
      BY <1>0, <3>1, <3>2 DEF Said
    <3> QED
      BY <2>4, <3>1, <3>3
  <2> QED
    BY <2>3, <2>4
<1>7. CASE IpAddPorts
  <2>1. opc = "ip_ports" /\ opc' = "idle"
    BY <1>7 DEF IpAddPorts
  <2>2. PortsChanged(irt, irt', req.b, IpHash[req.addr], req.dst)
    BY <1>7, IpPortsEntries
  <2>3. PICK l \in given : Asked(l, req) /\ l.dev = "ip" /\ l.cmd = "addif"
    BY <2>1, UnderWay DEF DevOf, CmdOf
  <2> SUFFICES ASSUME NEW b \in Bridges, NEW s \in HashSlots
               PROVE  irt'[b][s].addr # 0 => Said("ip", b, irt[b][s])'
    BY <2>1 DEF IpSaid, IpHalf
  <2>4. CASE IpHalf(b, s)
    <3>1. irt'[b][s].addr = req.addr /\ irt'[b][s].ports = req.dst
      BY <2>2, <2>4, EntryFields DEF IpSaid, IpHalf, PortsChanged
    <3>2. /\ Says(l, "b") = b /\ req.dst = PortOf(l)
          /\ Says(l, AddrOption(l)) = req.addr
      BY <2>3, <2>4 DEF Asked, IpHalf
    <3> QED
      BY <1>0, <2>3, <3>1, <3>2 DEF Said
  <2>5. CASE ~IpHalf(b, s)
    <3>1. irt'[b][s] = irt[b][s]
      BY <2>1, <2>2, <2>5 DEF IpHalf, PortsChanged
    <3>2. irt[b][s].addr # 0 => Said("ip", b, irt[b][s])
      BY <2>5 DEF IpSaid
    <3> QED
      BY <1>0, <3>1, <3>2 DEF Said
  <2> QED
    BY <2>4, <2>5
<1>8. CASE MacRegCtl \/ IpRegInit \/ IpRegCtl \/ MacAddPorts
  BY <1>0, <1>8, IpSaidFrame DEF MacRegCtl, IpRegInit, IpRegCtl, MacAddPorts, IpHalf
<1>9. CASE List
  BY <1>0, <1>9, IpSaidFrame
    DEF List, ListStart, ListEntry, ListEnd, ListClose, opVars, tabVars, IpHalf
<1>10. CASE Forward
  BY <1>0, <1>10, IpSaidFrame DEF Forward, Crash, CallLookup2, CallLookup3, Lookup3Src,
     Lookup3Dst, Return, opVars, tabVars, IpHalf
<1>11. CASE UNCHANGED vars
  BY <1>0, <1>11, IpSaidFrame DEF vars, IpHalf
<1>12. CASE IpRegLoop
  <2>1. opc = "ip_loop" /\ opc' = opc
    BY <1>12 DEF IpRegLoop
  <2>2. PortsChanged(irt, irt', req.b, oj, req.port)
    BY <1>12, LoopEntries
  <2>3. PICK l \in given : Asked(l, req) /\ l.dev = "ip" /\ l.cmd = "regfn"
    BY <2>1, UnderWay DEF DevOf, CmdOf
  <2> SUFFICES ASSUME NEW b \in Bridges, NEW s \in HashSlots
               PROVE  irt'[b][s].addr # 0 => Said("ip", b, irt[b][s])'
    BY <2>1 DEF IpSaid, IpHalf
  <2>4. CASE b = req.b /\ s = oj
    <3>1. irt'[b][s].ports = req.port
      BY <2>2, <2>4, EntryFields DEF PortsChanged
    <3>2. Says(l, "b") = b /\ req.port = PortOf(l)
      BY <2>3, <2>4 DEF Asked
    <3> QED
      BY <1>0, <2>3, <3>1, <3>2 DEF Said
  <2>5. CASE ~(b = req.b /\ s = oj)
    <3>1. irt'[b][s] = irt[b][s]
      BY <2>2, <2>5 DEF PortsChanged
    <3>2. irt[b][s].addr # 0 => Said("ip", b, irt[b][s])
      BY <2>1 DEF IpSaid, IpHalf
    <3> QED
      BY <1>0, <3>1, <3>2 DEF Said
  <2> QED
    BY <2>4, <2>5
<1> QED
  BY <1>1, <1>2, <1>3, <1>4, <1>5, <1>6, <1>7, <1>8, <1>9, <1>10, <1>11, <1>12
    DEF Next, Operator

(* Each entry of both tables is what one command line said, for any set of *)
(* lines, any hash functions and however often a slot is taken over.       *)
THEOREM EntriesSaid == Spec => []EntrySaid
<1>1. Init => MacSaid /\ IpSaid
  <2> SUFFICES ASSUME Init PROVE MacSaid /\ IpSaid
    OBVIOUS
  <2>1. \A b \in Bridges, s \in HashSlots : mrt[b][s].addr = 0 /\ irt[b][s].addr = 0
    BY TableEmpty, Ranges, EntryFields DEF Init
  <2>2. opc = "idle"
    BY DEF Init
  <2> QED
    BY <2>1, <2>2 DEF MacSaid, IpSaid, MacHalf, IpHalf
<1>2. IType /\ MacSaid /\ [Next]_vars => MacSaid'
  BY MacSaidStep
<1>3. IType /\ IpSaid /\ [Next]_vars => IpSaid'
  BY IpSaidStep
<1>4. MacSaid /\ IpSaid => EntrySaid
  <2> SUFFICES ASSUME MacSaid, IpSaid, opc \notin {"mac_ports", "ip_ports"},
                      NEW dev \in {"mac", "ip"}, NEW b \in Bridges, NEW s \in HashSlots,
                      NEW e, e = (IF dev = "mac" THEN mrt[b][s] ELSE irt[b][s]), e.addr # 0
               PROVE  Said(dev, b, e)
    BY DEF EntrySaid, Said
  <2>1. mrt[b][s].addr # 0 => Said("mac", b, mrt[b][s])
    BY DEF MacSaid, MacHalf
  <2>2. irt[b][s].addr # 0 => Said("ip", b, irt[b][s])
    BY DEF IpSaid, IpHalf
  <2>3. CASE dev = "mac"
    BY <2>1, <2>3
  <2>4. CASE dev = "ip"
    BY <2>2, <2>4
  <2> QED
    BY <2>3, <2>4
<1> QED
  BY <1>1, <1>2, <1>3, <1>4, Typed, PTL DEF Spec

-----------------------------------------------------------------------------
(* The ports of IP packets.                                                *)

(* A line given for bridge 0 names port p. *)
Named(p) == \E l \in given : Says(l, "b") = 0 /\ p = PortOf(l)

(* What lookup2 returns, the ports of a table that is set up, the ports of *)
(* one that is being set up, and those of a packet inside of lookup3.      *)
MacNames ==
  "mac" \in loaded =>
    /\ \A s \in HashSlots : mrt[0][s].ports = NM_BDG_NOPORT \/ Named(mrt[0][s].ports)
    /\ mctl[0] = NM_BDG_NOPORT \/ Named(mctl[0])

IpNames == 0 \in irts => \A s \in HashSlots : Named(irt[0][s].ports)

LoopNames ==
  opc = "ip_loop" /\ req.b = 0 =>
    \A s \in HashSlots : s < oj => Named(irt[0][s].ports)

PacketNames ==
  tpc \in {"src", "dst"} /\ pkt.ready => 0 \in irts /\ (tpc = "dst" => Named(dst))

(* The port of the request under way is named, if it is for bridge 0. *)
LEMMA RequestNamed ==
  ASSUME RequestOK, opc # "idle", req.b = 0
  PROVE  /\ opc \in {"mac_ports", "ip_ports"} => Named(req.dst)
         /\ opc \in {"mac_ctl", "ip_noctl", "ip_loop"} => Named(req.port)
<1>1. PICK l \in given : Asked(l, req) /\ l.cmd = CmdOf(opc)
  BY UnderWay
<1> QED
  BY <1>1 DEF Asked, CmdOf, Named

(* Steps that leave mac-static alone. *)
LEMMA MacNamesFrame ==
  ASSUME MacNames, given \subseteq given', mrt' = mrt, mctl' = mctl,
         "mac" \in loaded' => "mac" \in loaded
  PROVE  MacNames'
BY DEF MacNames, Named

(* lookup2 never returns a port no line named. *)
LEMMA MacNamesStep ==
  ASSUME IType, MacNames, [Next]_vars
  PROVE  MacNames'
<1> USE DEF IType
<1>0. given \subseteq given' /\ 0 \in Bridges
  BY GivenGrows, Ranges
<1>1. CASE MacInit
  <2>1. \A s \in HashSlots : mrt'[0][s].ports = NM_BDG_NOPORT
    BY <1>0, <1>1, TableEmpty, Ranges, EntryFields DEF MacInit
  <2>2. mctl'[0] = NM_BDG_NOPORT
    BY <1>0, <1>1 DEF MacInit
  <2> QED
    BY <2>1, <2>2 DEF MacNames
<1>2. CASE IpInit
  BY <1>0, <1>2, MacNamesFrame DEF IpInit
<1>3. ASSUME NEW m \in {"mac", "ip"}, Exit(m) PROVE MacNames'
  <2>1. CASE m = "mac"
    BY <1>3, <2>1 DEF Exit, MacNames
  <2>2. CASE m = "ip"
    BY <1>0, <1>3, <2>2, MacNamesFrame DEF Exit
  <2> QED
    BY <2>1, <2>2
<1>4. ASSUME NEW l \in Lines, MacReg(l) \/ IpReg(l) \/ IpAdd(l) PROVE MacNames'
  BY <1>0, <1>4, MacNamesFrame DEF MacReg, IpReg, IpAdd, tabVars, modVars
<1>5. ASSUME NEW l \in Lines, MacAdd(l) PROVE MacNames'
  <2>1. AddrChanged(mrt, mrt', req'.b, MacHash[req'.addr], req'.addr)
    BY <1>5, MacAddEntries
  <2>2. \A s \in HashSlots : mrt'[0][s].ports = mrt[0][s].ports
    BY <1>0, <2>1, EntryFields DEF AddrChanged
  <2>3. loaded' = loaded /\ mctl' = mctl
    BY <1>5 DEF MacAdd, modVars
  <2> QED
    BY <1>0, <2>2, <2>3 DEF MacNames, Named
<1>6. CASE MacRegCtl
  <2>1. loaded' = loaded /\ mrt' = mrt /\ mctl' = [mctl EXCEPT ![req.b] = req.port]
    BY <1>6 DEF MacRegCtl, modVars
  <2>2. req.b = 0 => Named(req.port)
    BY <1>6, RequestNamed DEF MacRegCtl
  <2>3. mctl'[0] = mctl[0] \/ (req.b = 0 /\ mctl'[0] = req.port)
    BY <1>0, <2>1 DEF TablesOK
  <2> QED
    BY <1>0, <2>1, <2>2, <2>3 DEF MacNames, Named
<1>7. CASE MacAddPorts
  <2>1. PortsChanged(mrt, mrt', req.b, MacHash[req.addr], req.dst)
    BY <1>7, MacPortsEntries
  <2>2. \A s \in HashSlots : \/ mrt'[0][s].ports = mrt[0][s].ports
                             \/ req.b = 0 /\ mrt'[0][s].ports = req.dst
    BY <1>0, <2>1, EntryFields DEF PortsChanged
  <2>3. req.b = 0 => Named(req.dst)
    BY <1>7, RequestNamed DEF MacAddPorts
  <2>4. loaded' = loaded /\ mctl' = mctl
    BY <1>7 DEF MacAddPorts, modVars
  <2> QED
    BY <1>0, <2>2, <2>3, <2>4 DEF MacNames, Named
<1>8. CASE IpRegInit \/ IpRegLoop \/ IpRegCtl \/ IpAddPorts
  BY <1>0, <1>8, MacNamesFrame DEF IpRegInit, IpRegLoop, IpRegCtl, IpAddPorts, modVars
<1>9. CASE List
  BY <1>0, <1>9, MacNamesFrame
    DEF List, ListStart, ListEntry, ListEnd, ListClose, tabVars, modVars
<1>10. CASE Forward
  BY <1>0, <1>10, MacNamesFrame DEF Forward, Crash, CallLookup2, CallLookup3, Lookup3Src,
     Lookup3Dst, Return, tabVars, modVars
<1>11. CASE UNCHANGED vars
  BY <1>0, <1>11, MacNamesFrame DEF vars
<1> QED
  BY <1>1, <1>2, <1>3, <1>4, <1>5, <1>6, <1>7, <1>8, <1>9, <1>10, <1>11 DEF Next, Operator

(* Steps that leave ip-static alone. *)
LEMMA IpNamesFrame ==
  ASSUME IpNames, LoopNames, given \subseteq given', irts' = irts,
         \A s \in HashSlots : irt'[0][s].ports = irt[0][s].ports,
         opc' = "ip_loop" => opc = "ip_loop" /\ req' = req /\ oj' = oj
  PROVE  IpNames' /\ LoopNames'
<1>1. ASSUME NEW s \in HashSlots, Named(irt[0][s].ports) PROVE Named(irt[0][s].ports)'
  BY <1>1 DEF Named
<1>2. IpNames'
  BY <1>1 DEF IpNames
<1>3. LoopNames'
  BY <1>1 DEF LoopNames
<1> QED
  BY <1>2, <1>3

(* Once bridge 0's table is set up, each port in it is named, also while   *)
(* rt_init runs over it again.                                             *)
LEMMA IpNamesStep ==
  ASSUME IType, IpNames, LoopNames, [Next]_vars
  PROVE  IpNames' /\ LoopNames'
<1> USE DEF IType
<1>0. given \subseteq given' /\ 0 \in Bridges
  BY GivenGrows, Ranges
<1>1. CASE MacInit
  BY <1>0, <1>1, IpNamesFrame DEF MacInit, opVars
<1>2. CASE IpInit
  <2>1. opc # "ip_loop"
    BY <1>2 DEF IpInit, RequestOK, DevOf
  <2> QED
    BY <1>2, <2>1 DEF IpInit, opVars, IpNames, LoopNames
<1>3. ASSUME NEW m \in {"mac", "ip"}, Exit(m) PROVE IpNames' /\ LoopNames'
  <2>1. CASE m = "mac"
    BY <1>0, <1>3, <2>1, IpNamesFrame DEF Exit, opVars
  <2>2. CASE m = "ip"
    BY <1>3, <2>2 DEF Exit, opVars, IpNames, LoopNames
  <2> QED
    BY <2>1, <2>2
<1>4. ASSUME NEW l \in Lines, MacReg(l) \/ IpReg(l) \/ MacAdd(l)
      PROVE  IpNames' /\ LoopNames'
  BY <1>0, <1>4, IpNamesFrame DEF MacReg, IpReg, MacAdd, Start, tabVars
<1>5. ASSUME NEW l \in Lines, IpAdd(l) PROVE IpNames' /\ LoopNames'
  <2>1. AddrChanged(irt, irt', req'.b, IpHash[req'.addr], req'.addr)
    BY <1>5, IpAddEntries
  <2>2. \A s \in HashSlots : irt'[0][s].ports = irt[0][s].ports
    BY <1>0, <2>1, EntryFields DEF AddrChanged
  <2> QED
    BY <1>0, <1>5, <2>2, IpNamesFrame DEF IpAdd, Start
<1>6. CASE MacRegCtl \/ MacAddPorts
  BY <1>0, <1>6, IpNamesFrame DEF MacRegCtl, MacAddPorts
<1>7. CASE IpRegInit
  <2>1. IpNames'
    BY <1>0, <1>7 DEF IpRegInit, IpNames, Named
  <2>2. \A s \in HashSlots : ~(s < oj')
    BY <1>7, StaticAssumption DEF IpRegInit, HashSlots
  <2> QED
    BY <2>1, <2>2 DEF LoopNames
<1>8. CASE IpRegLoop
  <2>1. PortsChanged(irt, irt', req.b, oj, req.port)
    BY <1>8, LoopEntries
  <2>2. \A s \in HashSlots : \/ irt'[0][s].ports = irt[0][s].ports /\ ~(req.b = 0 /\ s = oj)
                             \/ req.b = 0 /\ irt'[0][s].ports = req.port
    BY <1>0, <2>1, EntryFields DEF PortsChanged
  <2>3. req.b = 0 => Named(req.port)
    BY <1>8, RequestNamed DEF IpRegLoop
  <2>4. /\ irts' = irts /\ opc = "ip_loop" /\ opc' = opc /\ req' = req /\ oj' = oj + 1
    BY <1>8 DEF IpRegLoop
  <2>5. IpNames'
    BY <1>0, <2>2, <2>3, <2>4 DEF IpNames, Named
  <2>6. \A s \in HashSlots : s < oj + 1 => s < oj \/ s = oj
    BY StaticAssumption DEF HashSlots, RequestOK
  <2>7. ASSUME req.b = 0, NEW s \in HashSlots, s < oj' PROVE Named(irt[0][s].ports)'
    <3>1. CASE irt'[0][s].ports = req.port
      BY <1>0, <2>3, <2>7, <3>1 DEF Named
    <3>2. CASE irt'[0][s].ports = irt[0][s].ports /\ s # oj
      <4>1. s < oj
        BY <2>4, <2>6, <2>7, <3>2
      <4>2. Named(irt[0][s].ports)
        BY <2>4, <2>7, <4>1 DEF LoopNames
      <4> QED
        BY <1>0, <3>2, <4>2 DEF Named
    <3> QED
      BY <2>2, <2>7, <3>1, <3>2
  <2> QED
    BY <2>4, <2>5, <2>7 DEF LoopNames
<1>9. CASE IpRegCtl
  <2>1. /\ opc = "ip_loop" /\ ~(oj < NHash) /\ opc' = "idle" /\ irt' = irt
        /\ irts' = irts \cup {req.b}
    BY <1>9 DEF IpRegCtl, InLoop
  <2>2. \A s \in HashSlots : s < oj
    BY <2>1, StaticAssumption DEF HashSlots, RequestOK
  <2>3. 0 \in irts' => \A s \in HashSlots : Named(irt[0][s].ports)
    BY <2>1, <2>2 DEF IpNames, LoopNames
  <2>4. IpNames'
    BY <1>0, <2>1, <2>3 DEF IpNames, Named
  <2> QED
    BY <2>1, <2>4 DEF LoopNames
<1>10. CASE IpAddPorts
  <2>1. PortsChanged(irt, irt', req.b, IpHash[req.addr], req.dst)
    BY <1>10, IpPortsEntries
  <2>2. \A s \in HashSlots : \/ irt'[0][s].ports = irt[0][s].ports
                             \/ req.b = 0 /\ irt'[0][s].ports = req.dst
    BY <1>0, <2>1, EntryFields DEF PortsChanged
  <2>3. req.b = 0 => Named(req.dst)
    BY <1>10, RequestNamed DEF IpAddPorts
  <2>4. irts' = irts /\ opc' = "idle"
    BY <1>10 DEF IpAddPorts
  <2> QED
    BY <1>0, <2>2, <2>3, <2>4 DEF IpNames, LoopNames, Named
<1>11. CASE List
  BY <1>0, <1>11, IpNamesFrame
    DEF List, ListStart, ListEntry, ListEnd, ListClose, tabVars, opVars
<1>12. CASE Forward
  BY <1>0, <1>12, IpNamesFrame DEF Forward, Crash, CallLookup2, CallLookup3, Lookup3Src,
     Lookup3Dst, Return, tabVars, opVars
<1>13. CASE UNCHANGED vars
  BY <1>0, <1>13, IpNamesFrame DEF vars
<1> QED
  BY <1>1, <1>2, <1>3, <1>4, <1>5, <1>6, <1>7, <1>8, <1>9, <1>10, <1>11, <1>12, <1>13
    DEF Next, Operator

(* Steps that leave the packet and the tables set up alone. *)
LEMMA PacketFrame ==
  ASSUME PacketNames, IpNamed, given \subseteq given', irts \subseteq irts',
         UNCHANGED <<tpc, pkt, dst>>
  PROVE  PacketNames' /\ IpNamed'
BY DEF PacketNames, IpNamed, Named

(* An IP packet leaves lookup3 by a port that is named. *)
LEMMA PacketStep ==
  ASSUME IType, MacNames, IpNames, PacketNames, IpNamed, [Next]_vars
  PROVE  PacketNames' /\ IpNamed'
<1> USE DEF IType
<1>0. given \subseteq given' /\ 0 \in Bridges
  BY GivenGrows, Ranges
<1>1. CASE MacInit
  BY <1>0, <1>1, PacketFrame DEF MacInit, fwdVars
<1>2. CASE IpInit
  <2>1. tpc \notin {"src", "dst"} /\ UNCHANGED <<tpc, pkt, dst, given>>
    BY <1>2 DEF IpInit, CallsOK, fwdVars, opVars
  <2> QED
    BY <2>1 DEF PacketNames, IpNamed
<1>3. ASSUME NEW m \in {"mac", "ip"}, Exit(m) PROVE PacketNames' /\ IpNamed'
  <2>1. CASE m = "mac"
    BY <1>0, <1>3, <2>1, PacketFrame DEF Exit
  <2>2. CASE m = "ip"
    <3>1. /\ tpc' = (IF tpc \in {"src", "dst"} THEN "gone" ELSE tpc)
          /\ UNCHANGED <<pkt, dst, given>>
      BY <1>3, <2>2 DEF Exit, opVars
    <3> QED
      BY <3>1 DEF PacketNames, IpNamed
  <2> QED
    BY <2>1, <2>2
<1>4. CASE Operator
  <2>1. irts \subseteq irts'
    <3>1. ASSUME NEW l \in Lines, MacReg(l) \/ IpReg(l) \/ MacAdd(l) \/ IpAdd(l)
          PROVE  irts \subseteq irts'
      BY <3>1 DEF MacReg, IpReg, MacAdd, IpAdd, tabVars
    <3>2. ASSUME MacRegCtl \/ MacAddPorts \/ IpRegInit \/ IpRegLoop \/ IpRegCtl \/ IpAddPorts
          PROVE  irts \subseteq irts'
      BY <3>2 DEF MacRegCtl, MacAddPorts, IpRegInit, IpRegLoop, IpRegCtl, IpAddPorts
    <3> QED
      BY <1>4, <3>1, <3>2 DEF Operator
  <2> QED
    BY <1>0, <1>4, <2>1, OperatorFrame, PacketFrame DEF fwdVars
<1>5. CASE List
  BY <1>0, <1>5, PacketFrame
    DEF List, ListStart, ListEntry, ListEnd, ListClose, tabVars, fwdVars
<1>6. ASSUME NEW b \in Bridges, Crash(b) PROVE PacketNames' /\ IpNamed'
  BY <1>6 DEF Crash, PacketNames, IpNamed
<1>7. ASSUME NEW b \in Bridges, NEW mac, CallLookup2(b, mac) PROVE PacketNames' /\ IpNamed'
  <2>1. tpc' = "out" /\ pkt' = NoPacket
    BY <1>7 DEF CallLookup2, CallsOK
  <2> QED
    BY <2>1 DEF PacketNames, IpNamed, NoPacket
<1>8. ASSUME NEW b \in Bridges, NEW mac \in Macs \cup {NoAddr}, NEW sip \in Ips \cup {NoAddr},
             NEW dip \in Ips, CallLookup3(b, mac, sip, dip)
      PROVE  PacketNames' /\ IpNamed'
  <2>1. /\ pkt'.sip = sip /\ pkt'.ready = (0 \in irts) /\ dst' = Lookup2(mac)
        /\ tpc' = (IF Lookup2(mac) # NM_BDG_NOPORT \/ sip = NoAddr THEN "out" ELSE "src")
        /\ irts' = irts /\ given' = given
    BY <1>8 DEF CallLookup3, tabVars, opVars
  <2>2. Lookup2(mac) = NM_BDG_NOPORT \/ Named(Lookup2(mac))
    <3>1. "mac" \in loaded
      BY <1>8 DEF CallLookup3, CallsOK
    <3>2. mac # NoAddr => MacHash[mac] \in HashSlots
      BY StaticAssumption DEF HashSlots
    <3> QED
      BY <3>1, <3>2 DEF Lookup2, MacNames
  <2> HIDE DEF IType
  <2>3. PacketNames'
    BY <2>1 DEF PacketNames
  <2>4. IpNamed'
    BY <2>1, <2>2 DEF IpNamed, Named
  <2> QED
    BY <2>3, <2>4
<1>9. CASE Lookup3Src
  <2>1. /\ tpc = "src" /\ tpc' = "dst" /\ dst' = irt[0][IpHash[pkt.sip]].ports
        /\ UNCHANGED <<pkt, irts, given>>
    BY <1>9 DEF Lookup3Src, tabVars, opVars
  <2>2. IpHash[pkt.sip] \in HashSlots
    BY <2>1, StaticAssumption DEF CallsOK, HashSlots
  <2>3. pkt.ready => 0 \in irts /\ Named(irt[0][IpHash[pkt.sip]].ports)
    BY <2>1, <2>2 DEF PacketNames, IpNames
  <2> QED
    BY <2>1, <2>3 DEF PacketNames, IpNamed, Named
<1>10. CASE Lookup3Dst
  <2>1. /\ tpc = "dst" /\ tpc' = "out" /\ UNCHANGED <<pkt, given>>
        /\ dst' = dst \/ dst' = irt[0][IpHash[pkt.dip]].ports
    BY <1>10 DEF Lookup3Dst, opVars
  <2>2. IpHash[pkt.dip] \in HashSlots
    BY <2>1, StaticAssumption DEF CallsOK, HashSlots
  <2>3. pkt.ready => Named(dst) /\ Named(irt[0][IpHash[pkt.dip]].ports)
    BY <2>1, <2>2 DEF PacketNames, IpNames
  <2> QED
    BY <2>1, <2>3 DEF PacketNames, IpNamed, Named
<1>11. CASE Return
  BY <1>11 DEF Return, PacketNames, IpNamed
<1>12. CASE UNCHANGED vars
  BY <1>0, <1>12, PacketFrame DEF vars
<1> QED
  BY <1>1, <1>2, <1>3, <1>4, <1>5, <1>6, <1>7, <1>8, <1>9, <1>10, <1>11, <1>12
    DEF Next, Forward

(* Once bridge 0 has been put under ip-static, an IP packet goes to a port *)
(* some line named for it, wherever in its two reads of the table a new    *)
(* registration, an added address or an unloaded module catches it.        *)
THEOREM PacketsNamed == Spec => []IpNamed
<1> DEFINE Inv == MacNames /\ IpNames /\ LoopNames /\ PacketNames /\ IpNamed
<1>1. Init => Inv
  BY DEF Init, MacNames, IpNames, LoopNames, PacketNames, IpNamed
<1>2. IType /\ Inv /\ [Next]_vars => Inv'
  BY MacNamesStep, IpNamesStep, PacketStep
<1>3. Inv => IpNamed
  OBVIOUS
<1> HIDE DEF Inv
<1> QED
  BY <1>1, <1>2, <1>3, Typed, PTL DEF Spec
=============================================================================
