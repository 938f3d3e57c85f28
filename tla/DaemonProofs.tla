---------------------------- MODULE DaemonProofs ----------------------------
(***************************************************************************)
(* Proofs about a daemon and those who work for it.  Spending: what its    *)
(* threads tell models and pay them, for any models, routing, cases, cap   *)
(* and prices, and that they spend as Budget promises.  Startup: how it    *)
(* comes to serve and how it leaves, for every set of clients and          *)
(* processes, every number of upgrades, and every number of crashes and    *)
(* races.  Subscribers: whom it forgets while it serves, for any shells,   *)
(* interval, delay and timeout.  Budget: what its callers spend in a day,  *)
(* for any callers, cap and price and any number of days.                  *)
(***************************************************************************)
EXTENDS Spending, Startup, Subscribers, Budget, FiniteSetTheorems, WellFoundedInduction, TLAPS

(***************************************************************************)
(* Least and greatest numbers.                                             *)
(***************************************************************************)
LEMMA LeastOf == ASSUME NEW S \in SUBSET Nat, S # {} PROVE \E x \in S : \A y \in S : x <= y
<1>1. IsWellFoundedOn(OpToRel(<, Nat), Nat)
  BY NatLessThanWellFounded
<1>2. PICK x \in S : \A y \in S : ~ (<<y, x>> \in OpToRel(<, Nat))
  BY <1>1, WFMin, Zenon
<1>3. \A y \in S : ~ (y < x)
  BY <1>2 DEF OpToRel
<1> QED BY <1>3

LEMMA ThisIsMax ==
  ASSUME NEW S \in SUBSET Nat, NEW x \in S, \A y \in S : y <= x
  PROVE  Max(S) = x
<1>1. \A m \in S : (\A y \in S : m >= y) => m = x
  OBVIOUS
<1>2. \A y \in S : x >= y
  OBVIOUS
<1> QED BY <1>1, <1>2 DEF Max

\* Induction: what holds of 0 and is handed on holds of every number.
LEMMA Climbs ==
  ASSUME NEW T \in SUBSET Nat, NEW n \in Nat, 0 \in T, \A k \in 0 .. n - 1 : k \in T => k + 1 \in T
  PROVE  \A k \in 0 .. n : k \in T
<1> DEFINE U == {k \in 0 .. n : k \notin T}
<1> SUFFICES ASSUME U # {} PROVE FALSE
  OBVIOUS
<1>1. PICK x \in U : \A y \in U : x <= y
  <2>1. U \in SUBSET Nat
    OBVIOUS
  <2> HIDE DEF U
  <2> QED BY <2>1, LeastOf
<1>2. x \in 0 .. n /\ x # 0
  OBVIOUS
<1>3. x - 1 \in 0 .. n - 1 /\ x - 1 \notin U
  BY <1>1, <1>2
<1>4. (x - 1) + 1 \in T
  BY <1>2, <1>3
<1> QED BY <1>2, <1>4

LEMMA UpTo ==
  ASSUME NEW n \in Nat
  PROVE  /\ 1 .. n + 1 # {} /\ Max(1 .. n + 1) = n + 1 /\ (1 .. n + 1) \ {n + 1} = 1 .. n
         /\ 1 .. 0 = {}
<1>1. Max(1 .. n + 1) = n + 1
  <2>1. 1 .. n + 1 \in SUBSET Nat /\ n + 1 \in 1 .. n + 1 /\ \A y \in 1 .. n + 1 : y <= n + 1
    OBVIOUS
  <2> QED BY <2>1, ThisIsMax
<1> QED BY <1>1

(***************************************************************************)
(* Folds.  What a fold from the left does is to step along the sequence.   *)
(***************************************************************************)
Filter(out, m, onlyLocal) == IF May(m, onlyLocal) THEN Append(out, m) ELSE out
Stepped(kind, p, state, x) ==
  CASE kind = "scan" -> Scan(state, x)
    [] kind = "mask" -> Masking(state, x)
    [] kind = "plus" -> Plus(state, x)
    [] kind = "filter" -> Filter(state, x, p)
Folding(kind, p, base, h, S, q) ==
  [s \in SUBSET S |-> IF s = {} THEN base ELSE Stepped(kind, p, h[s \ {Max(s)}], q[Max(s)])]

Folds(kind, p, base, h, n, q) == h = Folding(kind, p, base, h, 1 .. n, q)

LEMMA FoldExists ==
  ASSUME NEW kind, NEW p, NEW base, NEW q, NEW n \in Nat
  PROVE  \E h : h = Folding(kind, p, base, h, 1 .. n, q)
<1> DEFINE T == {k \in Nat : \E h : h = Folding(kind, p, base, h, 1 .. k, q)}
           St(state, x) == Stepped(kind, p, state, x)
<1>1. 0 \in T
  <2> DEFINE h == [s \in SUBSET (1 .. 0) |-> base]
  <2>1. h = Folding(kind, p, base, h, 1 .. 0, q)
    <3>1. \A s \in SUBSET (1 .. 0) : s = {}
      BY UpTo
    <3> QED BY <3>1 DEF Folding
  <2> QED BY <2>1
<1>2. ASSUME NEW k \in Nat, k \in T PROVE k + 1 \in T
  <2>1. PICK h : h = Folding(kind, p, base, h, 1 .. k, q)
    BY <1>2
  <2> DEFINE g == [s \in SUBSET (1 .. k + 1) |->
                     IF k + 1 \in s THEN St(h[s \ {k + 1}], q[k + 1]) ELSE h[s]]
  <2> HIDE DEF St
  <2>2. ASSUME NEW s \in SUBSET (1 .. k + 1)
        PROVE  g[s] = IF s = {} THEN base ELSE St(g[s \ {Max(s)}], q[Max(s)])
    <3>1. CASE k + 1 \in s
      <4>1. s \in SUBSET Nat /\ \A y \in s : y <= k + 1
        OBVIOUS
      <4>2. Max(s) = k + 1
        BY <3>1, <4>1, ThisIsMax
      <4>3. s \ {k + 1} \in SUBSET (1 .. k) /\ s \ {k + 1} \in SUBSET (1 .. k + 1)
        OBVIOUS
      <4>4. g[s \ {k + 1}] = h[s \ {k + 1}]
        BY <4>3
      <4>5. g[s] = St(h[s \ {k + 1}], q[k + 1])
        BY <3>1
      <4> HIDE DEF g
      <4> QED BY <3>1, <4>2, <4>4, <4>5
    <3>2. CASE k + 1 \notin s
      <4>1. s \in SUBSET (1 .. k)
        BY <3>2
      <4>2. h[s] = IF s = {} THEN base ELSE St(h[s \ {Max(s)}], q[Max(s)])
        BY <2>1, <4>1 DEF Folding, St
      <4>3. s \ {Max(s)} \in SUBSET (1 .. k) /\ s \ {Max(s)} \in SUBSET (1 .. k + 1)
            /\ k + 1 \notin s \ {Max(s)}
        BY <4>1, <3>2
      <4>4. g[s \ {Max(s)}] = h[s \ {Max(s)}] /\ g[s] = h[s]
        BY <4>3, <3>2
      <4> HIDE DEF g
      <4> QED BY <4>2, <4>4
    <3> QED BY <3>1, <3>2
  <2>3. g = Folding(kind, p, base, g, 1 .. k + 1, q)
    <3>1. g = [s \in SUBSET (1 .. k + 1) |-> g[s]]
      OBVIOUS
    <3> HIDE DEF g
    <3> QED BY <2>2, <3>1 DEF Folding, St
  <2> HIDE DEF g
  <2> QED BY <2>3
<1>3. n \in T
  <2> HIDE DEF T
  <2>1. T \in SUBSET Nat
    BY DEF T
  <2>2. \A k \in 0 .. n - 1 : k \in T => k + 1 \in T
    BY <1>2
  <2> QED BY <1>1, <2>1, <2>2, Climbs
<1> QED BY <1>3

Along(kind, p, base, h, n, q) ==
  /\ h[1 .. 0] = base
  /\ \A k \in 0 .. n - 1 : h[1 .. k + 1] = Stepped(kind, p, h[1 .. k], q[k + 1])

LEMMA FoldSteps ==
  ASSUME NEW kind, NEW p, NEW base, NEW q, NEW n \in Nat, NEW h,
         Folds(kind, p, base, h, n, q)
  PROVE  Along(kind, p, base, h, n, q)
<1>1. \A s \in SUBSET (1 .. n) :
        h[s] = IF s = {} THEN base ELSE Stepped(kind, p, h[s \ {Max(s)}], q[Max(s)])
  <2>1. PICK f : f = h
    OBVIOUS
  <2>2. h = Folding(kind, p, base, f, 1 .. n, q)
    BY <2>1 DEF Folds
  <2> QED BY <2>1, <2>2 DEF Folding
<1>2. h[1 .. 0] = base
  BY <1>1, UpTo
<1>3. ASSUME NEW k \in 0 .. n - 1 PROVE h[1 .. k + 1] = Stepped(kind, p, h[1 .. k], q[k + 1])
  <2>1. k \in Nat /\ 1 .. k + 1 \in SUBSET (1 .. n)
    OBVIOUS
  <2>2. 1 .. k + 1 # {} /\ Max(1 .. k + 1) = k + 1 /\ (1 .. k + 1) \ {k + 1} = 1 .. k
    BY <2>1, UpTo
  <2> QED BY <1>1, <2>1, <2>2
<1> QED BY <1>2, <1>3 DEF Along

LEMMA PlusFold ==
  ASSUME NEW n \in Nat, NEW q, DOMAIN q = 1 .. n
  PROVE  \E h : /\ Total(q) = h[1 .. n] /\ h[1 .. 0] = 0
                /\ \A k \in 0 .. n - 1 : h[1 .. k + 1] = h[1 .. k] + q[k + 1]
<1> DEFINE P(h) == h = [s \in SUBSET (1 .. n) |->
                          IF s = {} THEN 0 ELSE Plus(h[s \ {Max(s)}], q[Max(s)])]
           g == CHOOSE h : P(h)
<1>1. \A h : P(h) <=> h = Folding("plus", 0, 0, h, 1 .. n, q)
  BY DEF Folding, Stepped
<1>2. \E h : P(h)
  <2> HIDE DEF P
  <2> QED BY <1>1, FoldExists
<1>3. PICK f : P(f) /\ f = g
  <2> HIDE DEF P
  <2> QED BY <1>2
<1>4. Total(q) = f[1 .. n]
  BY <1>3 DEF FoldLeft, MapThenFoldSet, Total
<1>5. Folds("plus", 0, 0, f, n, q)
  <2> HIDE DEF P, g
  <2> QED BY <1>1, <1>3 DEF Folds
<1> HIDE DEF g, P
<1>6. Along("plus", 0, 0, f, n, q)
  BY <1>5, FoldSteps
<1>7. \A k \in 0 .. n - 1 : f[1 .. k + 1] = f[1 .. k] + q[k + 1]
  BY <1>6 DEF Along, Stepped, Plus
<1> QED BY <1>4, <1>6, <1>7 DEF Along

ScanFrom(base, q) == FoldLeft(Scan, base, q)
MaskFrom(base, q) == FoldLeft(Masking, base, q)

LEMMA ScanFold ==
  ASSUME NEW n \in Nat, NEW q, DOMAIN q = 1 .. n, NEW b
  PROVE  \E h : /\ ScanFrom(b, q) = h[1 .. n] /\ h[1 .. 0] = b
                /\ \A k \in 0 .. n - 1 : h[1 .. k + 1] = Scan(h[1 .. k], q[k + 1])
<1> DEFINE P(h) == h = [s \in SUBSET (1 .. n) |->
                          IF s = {} THEN b ELSE Scan(h[s \ {Max(s)}], q[Max(s)])]
           g == CHOOSE h : P(h)
<1>1. \A h : P(h) <=> h = Folding("scan", 0, b, h, 1 .. n, q)
  BY DEF Folding, Stepped
<1>2. \E h : P(h)
  <2> HIDE DEF P
  <2> QED BY <1>1, FoldExists
<1>3. PICK f : P(f) /\ f = g
  <2> HIDE DEF P
  <2> QED BY <1>2
<1>4. ScanFrom(b, q) = f[1 .. n]
  BY <1>3 DEF FoldLeft, MapThenFoldSet, ScanFrom
<1>5. Folds("scan", 0, b, f, n, q)
  <2> HIDE DEF P, g
  <2> QED BY <1>1, <1>3 DEF Folds
<1> HIDE DEF g, P
<1>6. Along("scan", 0, b, f, n, q)
  BY <1>5, FoldSteps
<1>7. \A k \in 0 .. n - 1 : f[1 .. k + 1] = Scan(f[1 .. k], q[k + 1])
  BY <1>6 DEF Along, Stepped
<1> QED BY <1>4, <1>6, <1>7 DEF Along

LEMMA MaskFold ==
  ASSUME NEW n \in Nat, NEW q, DOMAIN q = 1 .. n, NEW b
  PROVE  \E h : /\ MaskFrom(b, q) = h[1 .. n] /\ h[1 .. 0] = b
                /\ \A k \in 0 .. n - 1 : h[1 .. k + 1] = Masking(h[1 .. k], q[k + 1])
<1> DEFINE P(h) == h = [s \in SUBSET (1 .. n) |->
                          IF s = {} THEN b ELSE Masking(h[s \ {Max(s)}], q[Max(s)])]
           g == CHOOSE h : P(h)
<1>1. \A h : P(h) <=> h = Folding("mask", 0, b, h, 1 .. n, q)
  BY DEF Folding, Stepped
<1>2. \E h : P(h)
  <2> HIDE DEF P
  <2> QED BY <1>1, FoldExists
<1>3. PICK f : P(f) /\ f = g
  <2> HIDE DEF P
  <2> QED BY <1>2
<1>4. MaskFrom(b, q) = f[1 .. n]
  BY <1>3 DEF FoldLeft, MapThenFoldSet, MaskFrom
<1>5. Folds("mask", 0, b, f, n, q)
  <2> HIDE DEF P, g
  <2> QED BY <1>1, <1>3 DEF Folds
<1> HIDE DEF g, P
<1>6. Along("mask", 0, b, f, n, q)
  BY <1>5, FoldSteps
<1>7. \A k \in 0 .. n - 1 : f[1 .. k + 1] = Masking(f[1 .. k], q[k + 1])
  BY <1>6 DEF Along, Stepped
<1> QED BY <1>4, <1>6, <1>7 DEF Along

LEMMA FilterFold ==
  ASSUME NEW n \in Nat, NEW q, DOMAIN q = 1 .. n, NEW p
  PROVE  \E h : /\ Filtered(q, p) = h[1 .. n] /\ h[1 .. 0] = << >>
                /\ \A k \in 0 .. n - 1 : h[1 .. k + 1] = Filter(h[1 .. k], q[k + 1], p)
<1> DEFINE P(h) == h = [s \in SUBSET (1 .. n) |->
                          IF s = {} THEN << >> ELSE Filter(h[s \ {Max(s)}], q[Max(s)], p)]
           g == CHOOSE h : P(h)
<1>1. \A h : P(h) <=> h = Folding("filter", p, << >>, h, 1 .. n, q)
  BY DEF Folding, Stepped
<1>2. \E h : P(h)
  <2> HIDE DEF P
  <2> QED BY <1>1, FoldExists
<1>3. PICK f : P(f) /\ f = g
  <2> HIDE DEF P
  <2> QED BY <1>2
<1>4. Filtered(q, p) = f[1 .. n]
  BY <1>3 DEF FoldLeft, MapThenFoldSet, Filtered, Filter
<1>5. Folds("filter", p, << >>, f, n, q)
  <2> HIDE DEF P, g
  <2> QED BY <1>1, <1>3 DEF Folds
<1> HIDE DEF g, P
<1>6. Along("filter", p, << >>, f, n, q)
  BY <1>5, FoldSteps
<1>7. \A k \in 0 .. n - 1 : f[1 .. k + 1] = Filter(f[1 .. k], q[k + 1], p)
  BY <1>6 DEF Along, Stepped
<1> QED BY <1>4, <1>6, <1>7 DEF Along

\* Filtering keeps what may be asked.
LEMMA FilteredOf ==
  ASSUME NEW S, NEW q \in Seq(S), NEW p
  PROVE  Filtered(q, p) \in Seq({m \in ToSet(q) : May(m, p)})
<1> DEFINE n == Len(q)  M == {m \in ToSet(q) : May(m, p)}
<1>1. n \in Nat /\ DOMAIN q = 1 .. n
  OBVIOUS
<1>2. PICK h : /\ Filtered(q, p) = h[1 .. n] /\ h[1 .. 0] = << >>
               /\ \A k \in 0 .. n - 1 : h[1 .. k + 1] = Filter(h[1 .. k], q[k + 1], p)
  BY <1>1, FilterFold
<1> DEFINE G == {k \in Nat : h[1 .. k] \in Seq(M)}
<1>3. 0 \in G
  <2> HIDE DEF M
  <2>1. << >> \in Seq(M)
    OBVIOUS
  <2> QED BY <1>2, <2>1
<1>4. ASSUME NEW k \in 0 .. n - 1, k \in G PROVE k + 1 \in G
  <2>1. PICK u \in Seq(M) : u = h[1 .. k]
    BY <1>4
  <2>2. k + 1 \in Nat /\ q[k + 1] \in ToSet(q)
    BY <1>1 DEF ToSet
  <2>3. h[1 .. k + 1] = Filter(u, q[k + 1], p)
    BY <1>2, <2>1
  <2>4. Filter(u, q[k + 1], p) \in Seq(M)
    <3>1. CASE May(q[k + 1], p)
      <4>1. q[k + 1] \in M
        BY <2>2, <3>1
      <4> HIDE DEF M
      <4>2. Append(u, q[k + 1]) \in Seq(M)
        BY <2>1, <4>1
      <4> QED BY <3>1, <4>2 DEF Filter
    <3>2. CASE ~May(q[k + 1], p)
      BY <2>1, <3>2 DEF Filter
    <3> QED BY <3>1, <3>2
  <2> QED BY <2>2, <2>3, <2>4
<1>5. n \in G
  <2> HIDE DEF G
  <2>1. G \in SUBSET Nat
    BY DEF G
  <2>2. \A k \in 0 .. n - 1 : k \in G => k + 1 \in G
    BY <1>4
  <2>3. \A k \in 0 .. n : k \in G
    BY <1>1, <1>3, <2>1, <2>2, Climbs
  <2> QED BY <1>1, <2>3
<1> QED BY <1>2, <1>5

\* A sum of naturals is one, is nothing when all of them are, and grows by the last.
LEMMA TotalOf ==
  ASSUME NEW n \in Nat, NEW q \in [1 .. n -> Nat]
  PROVE  /\ Total(q) \in Nat
         /\ Total(q) = 0 => \A i \in 1 .. n : q[i] = 0
<1>1. PICK h : /\ Total(q) = h[1 .. n] /\ h[1 .. 0] = 0
               /\ \A k \in 0 .. n - 1 : h[1 .. k + 1] = h[1 .. k] + q[k + 1]
  BY PlusFold
<1> DEFINE G == {k \in Nat : /\ h[1 .. k] \in Nat
                             /\ h[1 .. k] = 0 => \A i \in 1 .. k : q[i] = 0}
<1>2. 0 \in G
  BY <1>1
<1>3. ASSUME NEW k \in 0 .. n - 1, k \in G PROVE k + 1 \in G
  <2>1. k + 1 \in 1 .. n /\ q[k + 1] \in Nat /\ h[1 .. k + 1] = h[1 .. k] + q[k + 1]
    BY <1>1
  <2>2. h[1 .. k] \in Nat /\ (h[1 .. k] = 0 => \A i \in 1 .. k : q[i] = 0)
    BY <1>3
  <2>3. PICK a \in Nat, b \in Nat, c \in {h[1 .. k + 1]} : a = h[1 .. k] /\ b = q[k + 1]
    BY <2>1, <2>2
  <2>4. c = a + b /\ c \in Nat /\ (c = 0 => a = 0 /\ b = 0)
    BY <2>1, <2>3
  <2>5. c = 0 => \A i \in 1 .. k + 1 : q[i] = 0
    <3>1. \A i \in 1 .. k + 1 : i \in 1 .. k \/ i = k + 1
      OBVIOUS
    <3> QED BY <2>2, <2>3, <2>4, <3>1
  <2>6. h[1 .. k + 1] \in Nat /\ (h[1 .. k + 1] = 0 => \A i \in 1 .. k + 1 : q[i] = 0)
    BY <2>3, <2>4, <2>5
  <2>7. k + 1 \in Nat
    OBVIOUS
  <2> QED BY <2>6, <2>7
<1>4. n \in G
  <2> HIDE DEF G
  <2>1. G \in SUBSET Nat
    BY DEF G
  <2>2. \A k \in 0 .. n - 1 : k \in G => k + 1 \in G
    BY <1>3
  <2>3. \A k \in 0 .. n : k \in G
    BY <1>2, <2>1, <2>2, Climbs
  <2> QED BY <2>3
<1> QED BY <1>1, <1>4

LEMMA TotalNext ==
  ASSUME NEW n \in Nat, NEW q, NEW r, DOMAIN q = 1 .. n, DOMAIN r = 1 .. n + 1,
         \A i \in 1 .. n : r[i] = q[i]
  PROVE  Total(r) = Total(q) + r[n + 1]
<1>1. PICK h : /\ Total(q) = h[1 .. n] /\ h[1 .. 0] = 0
               /\ \A k \in 0 .. n - 1 : h[1 .. k + 1] = h[1 .. k] + q[k + 1]
  BY PlusFold
<1>2. PICK g : /\ Total(r) = g[1 .. n + 1] /\ g[1 .. 0] = 0
               /\ \A k \in 0 .. n : g[1 .. k + 1] = g[1 .. k] + r[k + 1]
  <2>1. n + 1 \in Nat /\ (n + 1) - 1 = n
    OBVIOUS
  <2> QED BY <2>1, PlusFold
<1> DEFINE G == {k \in Nat : g[1 .. k] = h[1 .. k]}
<1>3. 0 \in G
  BY <1>1, <1>2
<1>4. ASSUME NEW k \in 0 .. n - 1, k \in G PROVE k + 1 \in G
  <2>1. k \in 0 .. n /\ k + 1 \in 1 .. n /\ k + 1 \in Nat
    OBVIOUS
  <2>2. g[1 .. k] = h[1 .. k] /\ r[k + 1] = q[k + 1]
    BY <1>4, <2>1
  <2>3. g[1 .. k + 1] = h[1 .. k + 1]
    BY <1>1, <1>2, <2>1, <2>2
  <2> QED BY <2>1, <2>3
<1>5. n \in G
  <2> HIDE DEF G
  <2>1. G \in SUBSET Nat
    BY DEF G
  <2>2. \A k \in 0 .. n - 1 : k \in G => k + 1 \in G
    BY <1>4
  <2>3. \A k \in 0 .. n : k \in G
    BY <1>3, <2>1, <2>2, Climbs
  <2> QED BY <2>3
<1>6. n \in 0 .. n
  OBVIOUS
<1> QED BY <1>1, <1>2, <1>5, <1>6
-----------------------------------------------------------------------------
(***************************************************************************)
(* Redaction.                                                              *)
(***************************************************************************)
Started == [out |-> << >>, held |-> << >>, found |-> 0]
Scans == [out : Seq(Tokens \ {"begin"}), held : Seq(Tokens \ {"end"}), found : Nat]

LEMMA Appended ==
  ASSUME NEW S, NEW q \in Seq(S), NEW x \in S
  PROVE  /\ Append(q, x) \in Seq(S) /\ Len(Append(q, x)) = Len(q) + 1
         /\ \A i \in 1 .. Len(q) : Append(q, x)[i] = q[i]
         /\ Append(q, x)[Len(q) + 1] = x /\ Append(q, x) # << >>
         /\ Len(q) \in Nat /\ (Len(q) = 0 <=> q = << >>)
OBVIOUS

\* What one token does to a scan.
LEMMA ScanCases ==
  ASSUME NEW s \in Scans, NEW x \in Tokens
  PROVE  \/ x = "begin" /\ s.held = << >> /\ Scan(s, x) = [s EXCEPT !.held = <<x>>]
         \/ /\ x = "end" /\ s.held # << >>
            /\ Scan(s, x) = [out |-> Append(s.out, Mask), held |-> << >>, found |-> s.found + 1]
         \/ x # "begin" /\ s.held = << >> /\ Scan(s, x) = [s EXCEPT !.out = Append(@, x)]
         \/ x # "end" /\ s.held # << >> /\ Scan(s, x) = [s EXCEPT !.held = Append(@, x)]
BY DEF Scan

LEMMA ScanStep ==
  ASSUME NEW s \in Scans, NEW x \in Tokens
  PROVE  /\ Scan(s, x) \in Scans
         /\ Scan(s, x).found = 0 => s.found = 0
         /\ x # Mask /\ s.out \in Texts /\ s.held \in Texts /\ Scan(s, x).found = 0 =>
              Scan(s, x).out \in Texts /\ Scan(s, x).held \in Texts
<1> DEFINE r == Scan(s, x)
<1>1. CASE x = "begin" /\ s.held = << >> /\ r = [s EXCEPT !.held = <<x>>]
  <2>1. x \in Tokens \ {"end"} /\ x \in Tokens \ {Mask}
    BY <1>1 DEF Mask
  <2>3. <<x>> \in Seq(Tokens \ {"end"}) /\ <<x>> \in Texts
    BY <2>1 DEF Texts
  <2>2. r = [out |-> s.out, held |-> <<x>>, found |-> s.found]
    BY <1>1 DEF Scans
  <2> HIDE DEF r
  <2> QED BY <2>2, <2>3 DEF Scans, r
<1>2. CASE s.held # << >> /\ r = [out |-> Append(s.out, Mask), held |-> << >>, found |-> s.found + 1]
  <2>1. Append(s.out, Mask) \in Seq(Tokens \ {"begin"})
    <3>1. Mask \in Tokens \ {"begin"}
      BY DEF Mask, Tokens
    <3>2. s.out \in Seq(Tokens \ {"begin"})
      BY DEF Scans
    <3> QED BY <3>1, <3>2, Appended
  <2>2. << >> \in Seq(Tokens \ {"end"}) /\ s.found \in Nat
    BY DEF Scans
  <2> HIDE DEF r
  <2> QED BY <1>2, <2>1, <2>2 DEF Scans, r
<1>3. CASE x # "begin" /\ r = [s EXCEPT !.out = Append(@, x)]
  <2>1. r = [out |-> Append(s.out, x), held |-> s.held, found |-> s.found]
    BY <1>3 DEF Scans
  <2>2. Append(s.out, x) \in Seq(Tokens \ {"begin"})
    <3>1. x \in Tokens \ {"begin"} /\ s.out \in Seq(Tokens \ {"begin"})
      BY <1>3 DEF Scans
    <3> QED BY <3>1, Appended
  <2>3. x # Mask /\ s.out \in Texts => Append(s.out, x) \in Texts
    BY Appended DEF Texts
  <2> HIDE DEF r
  <2> QED BY <2>1, <2>2, <2>3 DEF Scans, r
<1>4. CASE x # "end" /\ r = [s EXCEPT !.held = Append(@, x)]
  <2>1. r = [out |-> s.out, held |-> Append(s.held, x), found |-> s.found]
    BY <1>4 DEF Scans
  <2>2. Append(s.held, x) \in Seq(Tokens \ {"end"})
    <3>1. x \in Tokens \ {"end"} /\ s.held \in Seq(Tokens \ {"end"})
      BY <1>4 DEF Scans
    <3> QED BY <3>1, Appended
  <2>3. x # Mask /\ s.held \in Texts => Append(s.held, x) \in Texts
    BY Appended DEF Texts
  <2> HIDE DEF r
  <2> QED BY <2>1, <2>2, <2>3 DEF Scans, r
<1> QED BY ScanCases, <1>1, <1>2, <1>3, <1>4

\* A private key in a text, and what is left after the first pass: no end after a
\* beginning.
NoBlock(t) == \A i, l \in 1 .. Len(t) : i < l /\ t[i] = "begin" => t[l] # "end"

LEMMA BlocksOf ==
  ASSUME NEW t \in Seq(Tokens)
  PROVE  /\ Blocks(t) \in Scans
         /\ t \in Texts /\ Blocks(t).found = 0 =>
              Blocks(t).out \in Texts /\ Blocks(t).held \in Texts
<1> DEFINE n == Len(t)
<1>1. n \in Nat /\ DOMAIN t = 1 .. n
  OBVIOUS
<1>2. PICK h : /\ Blocks(t) = h[1 .. n] /\ h[1 .. 0] = Started
               /\ \A k \in 0 .. n - 1 : h[1 .. k + 1] = Scan(h[1 .. k], t[k + 1])
  <2>1. Blocks(t) = ScanFrom(Started, t)
    BY DEF Blocks, Started, ScanFrom
  <2> QED BY <1>1, <2>1, ScanFold
<1> DEFINE Good(s) == /\ s \in Scans
                      /\ t \in Texts /\ s.found = 0 => s.out \in Texts /\ s.held \in Texts
           G == {k \in Nat : Good(h[1 .. k])}
<1>3. 0 \in G
  <2>1. << >> \in Seq(Tokens \ {"begin"}) /\ << >> \in Seq(Tokens \ {"end"}) /\ << >> \in Texts
    BY DEF Texts
  <2>2. Started \in Scans /\ Started.out = << >> /\ Started.held = << >>
    BY <2>1 DEF Started, Scans
  <2> QED BY <1>2, <2>1, <2>2
<1>4. \A k \in 0 .. n - 1 : k \in G => k + 1 \in G
  <2> SUFFICES ASSUME NEW k \in 0 .. n - 1, k \in G PROVE k + 1 \in G
    OBVIOUS
  <2>1. PICK s : s = h[1 .. k]
    OBVIOUS
  <2>2. Good(s)
    BY <2>1
  <2>3. t[k + 1] \in Tokens /\ (t \in Texts => t[k + 1] # Mask) /\ h[1 .. k + 1] = Scan(s, t[k + 1])
    <3>1. k + 1 \in 1 .. n
      OBVIOUS
    <3>2. t[k + 1] \in Tokens
      BY <1>1, <3>1
    <3>3. t \in Texts => t[k + 1] # Mask
      BY <1>1, <3>1 DEF Texts
    <3> QED BY <1>2, <2>1, <3>2, <3>3
  <2>4. PICK r : r = Scan(s, t[k + 1])
    OBVIOUS
  <2>6. Good(r)
    BY <2>2, <2>3, <2>4, ScanStep
  <2> QED BY <2>3, <2>4, <2>6
<1>5. n \in G
  <2> HIDE DEF G
  <2>1. G \in SUBSET Nat
    BY DEF G
  <2>2. \A k \in 0 .. n : k \in G
    BY <1>1, <1>3, <1>4, <2>1, Climbs
  <2> QED BY <1>1, <2>2
<1> QED BY <1>2, <1>5

LEMMA AndOne == ASSUME NEW c \in Nat, NEW d \in Nat, NEW k, c + d = k PROVE c + (d + 1) = k + 1
OBVIOUS

\* A text without a private key is left as it is.
LEMMA QuietBlocks ==
  ASSUME NEW t \in Seq(Tokens), NoBlock(t)
  PROVE  Blocks(t).found = 0 /\ Blocks(t).out \o Blocks(t).held = t
<1> DEFINE n == Len(t)
<1>1. n \in Nat /\ DOMAIN t = 1 .. n
  OBVIOUS
<1>2. PICK h : /\ Blocks(t) = h[1 .. n] /\ h[1 .. 0] = Started
               /\ \A k \in 0 .. n - 1 : h[1 .. k + 1] = Scan(h[1 .. k], t[k + 1])
  <2>1. Blocks(t) = ScanFrom(Started, t)
    BY DEF Blocks, Started, ScanFrom
  <2> QED BY <1>1, <2>1, ScanFold
<1> DEFINE Good(k, s) == /\ s \in Scans /\ s.found = 0
                         /\ Len(s.out) + Len(s.held) = k
                         /\ \A i \in 1 .. Len(s.out) : s.out[i] = t[i]
                         /\ \A i \in 1 .. Len(s.held) : s.held[i] = t[Len(s.out) + i]
                         /\ s.held # << >> => \E i \in 1 .. k : t[i] = "begin"
           G == {k \in 0 .. n : Good(k, h[1 .. k])}
<1>3. 0 \in G
  <2>1. << >> \in Seq(Tokens \ {"begin"}) /\ << >> \in Seq(Tokens \ {"end"}) /\ Len(<< >>) = 0
    OBVIOUS
  <2>2. Started \in Scans /\ Started.out = << >> /\ Started.held = << >> /\ Started.found = 0
    BY <2>1 DEF Started, Scans
  <2>3. PICK e : e = << >> /\ Len(e) = 0
    BY <2>1
  <2>4. Len(e) + Len(e) = 0 /\ (\A i \in 1 .. Len(e) : FALSE) /\ Started.out = e /\ Started.held = e
    BY <2>2, <2>3
  <2>5. Good(0, Started)
    BY <2>2, <2>3, <2>4
  <2>6. 0 \in 0 .. n /\ h[1 .. 0] = Started
    BY <1>1, <1>2
  <2> HIDE DEF Good
  <2> QED BY <2>5, <2>6
<1>4. \A k \in 0 .. n - 1 : k \in G => k + 1 \in G
  <2> SUFFICES ASSUME NEW k \in 0 .. n - 1, k \in G PROVE k + 1 \in G
    OBVIOUS
  <2>1. PICK s : s = h[1 .. k]
    OBVIOUS
  <2>2. Good(k, s)
    BY <2>1
  <2>3. PICK x \in Tokens : x = t[k + 1] /\ h[1 .. k + 1] = Scan(s, x)
    <3>1. k + 1 \in 1 .. n
      OBVIOUS
    <3> QED BY <1>1, <1>2, <2>1, <3>1
  <2>4. PICK r : r = Scan(s, x)
    OBVIOUS
  <2>5. k \in Nat /\ k + 1 \in 1 .. n /\ k + 1 \in 0 .. n /\ 1 .. k \subseteq 1 .. n
    BY <1>1
  <2>6. s.out \in Seq(Tokens \ {"begin"}) /\ s.held \in Seq(Tokens \ {"end"})
    BY <2>2 DEF Scans
  <2>7. r \in Scans
    BY <2>2, <2>4, ScanStep
  <2>8. s = [out |-> s.out, held |-> s.held, found |-> s.found]
    BY <2>2 DEF Scans
  <2>9. s.held = << >> => Len(s.held) = 0
    OBVIOUS
  <2>10. CASE x = "begin" /\ s.held = << >> /\ r = [s EXCEPT !.held = <<x>>]
    <3>1. r.out = s.out /\ r.held = <<x>> /\ r.found = 0
      BY <2>2, <2>8, <2>10
    <3>2. Len(r.held) = 1 /\ Len(s.out) = k /\ r.held[1] = x
      BY <2>2, <2>6, <2>9, <2>10, <3>1
    <3>3. \A i \in 1 .. Len(r.held) : i = 1
      BY <3>2
    <3>4. \A i \in 1 .. Len(r.held) : r.held[i] = t[Len(r.out) + i]
      BY <2>3, <3>1, <3>2, <3>3
    <3>5. k + 1 \in 1 .. k + 1 /\ t[k + 1] = "begin"
      BY <2>3, <2>5, <2>10
    <3>6. Good(k + 1, r)
      BY <2>2, <2>5, <2>7, <3>1, <3>2, <3>4, <3>5
    <3> QED BY <2>3, <2>4, <2>5, <3>6
  <2>11. CASE x = "end" /\ s.held # << >>
    <3>1. PICK i \in 1 .. k : t[i] = "begin"
      BY <2>2, <2>11
    <3>2. i \in 1 .. n /\ i < k + 1
      BY <2>5
    <3> QED BY <2>3, <2>5, <2>11, <3>1, <3>2 DEF NoBlock
  <2>12. CASE x # "begin" /\ s.held = << >> /\ r = [s EXCEPT !.out = Append(@, x)]
    <3>1. r.out = Append(s.out, x) /\ r.held = << >> /\ r.found = 0
      BY <2>2, <2>8, <2>12
    <3>2. /\ Len(r.out) = Len(s.out) + 1 /\ \A i \in 1 .. Len(s.out) : r.out[i] = s.out[i]
          /\ r.out[Len(s.out) + 1] = x
      BY <2>6, <2>12, <3>1, Appended
    <3>3. Len(s.out) = k /\ Len(r.held) = 0
      BY <2>2, <2>6, <2>9, <2>12, <3>1
    <3>4. \A i \in 1 .. Len(r.out) : r.out[i] = t[i]
      <4>1. \A i \in 1 .. Len(r.out) : i \in 1 .. Len(s.out) \/ i = Len(s.out) + 1
        BY <2>5, <3>2, <3>3
      <4> QED BY <2>2, <2>3, <3>2, <3>3, <4>1
    <3>5. \A i \in 1 .. Len(r.held) : FALSE
      BY <3>3
    <3>6. Good(k + 1, r)
      BY <2>2, <2>5, <2>7, <3>1, <3>2, <3>3, <3>4, <3>5
    <3> QED BY <2>3, <2>4, <2>5, <3>6
  <2>13. CASE x # "end" /\ s.held # << >> /\ r = [s EXCEPT !.held = Append(@, x)]
    <3>1. r.out = s.out /\ r.held = Append(s.held, x) /\ r.found = 0
      BY <2>2, <2>8, <2>13
    <3>2. /\ Len(r.held) = Len(s.held) + 1 /\ \A i \in 1 .. Len(s.held) : r.held[i] = s.held[i]
          /\ r.held[Len(s.held) + 1] = x /\ Len(s.held) \in Nat
      BY <2>6, <2>13, <3>1, Appended
    <3>3. Len(s.out) \in Nat /\ Len(s.out) + Len(s.held) = k
      <4>1. Len(s.out) \in Nat
        BY <2>6
      <4> QED BY <2>2, <4>1
    <3>8. PICK c \in Nat, d \in Nat : c = Len(s.out) /\ d = Len(s.held)
      BY <3>2, <3>3
    <3>9. c + d = k
      BY <3>3, <3>8
    <3>10. c + (d + 1) = k + 1
      BY <3>8, <3>9, AndOne
    <3>4. \A i \in 1 .. Len(r.held) : r.held[i] = t[Len(r.out) + i]
      <4>1. \A i \in 1 .. Len(r.held) : i \in 1 .. Len(s.held) \/ i = Len(s.held) + 1
        BY <3>2
      <4>2. Len(s.out) + (Len(s.held) + 1) = k + 1
        BY <3>8, <3>10
      <4>3. r.held[Len(s.held) + 1] = t[Len(r.out) + (Len(s.held) + 1)]
        BY <2>3, <3>1, <3>2, <4>2
      <4>4. \A i \in 1 .. Len(s.held) : r.held[i] = t[Len(r.out) + i]
        BY <2>2, <3>1, <3>2
      <4> QED BY <4>1, <4>3, <4>4
    <3>5. \E i \in 1 .. k + 1 : t[i] = "begin"
      <4>1. PICK i \in 1 .. k : t[i] = "begin"
        BY <2>2, <2>13
      <4> QED BY <2>5, <4>1
    <3>6. Len(r.out) + Len(r.held) = k + 1
      BY <3>1, <3>2, <3>8, <3>10
    <3>7. Good(k + 1, r)
      BY <2>2, <2>7, <3>1, <3>4, <3>5, <3>6
    <3> QED BY <2>3, <2>4, <2>5, <3>7
  <2>14. s \in Scans
    BY <2>2
  <2> HIDE DEF G, Good
  <2> QED BY <2>4, <2>10, <2>11, <2>12, <2>13, <2>14, ScanCases
<1>5. n \in G
  <2> HIDE DEF G
  <2>1. G \in SUBSET Nat
    <3>1. G \subseteq 0 .. n
      BY DEF G
    <3> QED BY <3>1
  <2>2. \A k \in 0 .. n : k \in G
    BY <1>1, <1>3, <1>4, <2>1, Climbs
  <2> QED BY <1>1, <2>2
<1>6. PICK s : s = Blocks(t) /\ Good(n, s)
  BY <1>2, <1>5
<1>7. PICK a \in Seq(Tokens), b \in Seq(Tokens) : a = s.out /\ b = s.held
  <2>1. s.out \in Seq(Tokens \ {"begin"}) /\ s.held \in Seq(Tokens \ {"end"})
    BY <1>6 DEF Scans
  <2>2. s.out \in Seq(Tokens)
    BY <2>1
  <2>3. s.held \in Seq(Tokens)
    BY <2>1
  <2> QED BY <2>2, <2>3
<1>8. /\ Len(a) \in Nat /\ Len(b) \in Nat /\ Len(a) + Len(b) = n
      /\ \A i \in 1 .. Len(a) : a[i] = t[i]
      /\ \A i \in 1 .. Len(b) : b[i] = t[Len(a) + i]
  <2>1. Len(a) \in Nat /\ Len(b) \in Nat
    BY <1>7
  <2>2. Len(s.out) + Len(s.held) = n
    BY <1>6
  <2>3. \A i \in 1 .. Len(s.out) : s.out[i] = t[i]
    BY <1>6
  <2>4. \A i \in 1 .. Len(s.held) : s.held[i] = t[Len(s.out) + i]
    BY <1>6
  <2> QED BY <1>7, <2>1, <2>2, <2>3, <2>4
<1>9. a \o b = t
  <2>1. a \o b \in Seq(Tokens) /\ Len(a \o b) = n
    BY <1>8
  <2>2. \A i \in 1 .. n : (a \o b)[i] = IF i <= Len(a) THEN a[i] ELSE b[i - Len(a)]
    BY <1>8
  <2>3. ASSUME NEW i \in 1 .. n PROVE (a \o b)[i] = t[i]
    <3>1. CASE i <= Len(a)
      <4>1. i \in 1 .. Len(a)
        BY <3>1
      <4> QED BY <1>8, <2>2, <3>1, <4>1
    <3>2. CASE ~(i <= Len(a))
      <4>1. i - Len(a) \in 1 .. Len(b) /\ Len(a) + (i - Len(a)) = i
        BY <1>8, <3>2
      <4> QED BY <1>8, <2>2, <3>2, <4>1
    <3> QED BY <3>1, <3>2
  <2>4. PICK u : u = a \o b
    OBVIOUS
  <2>5. u \in Seq(Tokens) /\ Len(u) = n /\ \A i \in 1 .. n : u[i] = t[i]
    BY <2>1, <2>3, <2>4
  <2>6. u = t
    BY <1>1, <2>5
  <2> QED BY <2>4, <2>6
<1> QED BY <1>6, <1>7, <1>9

LEMMA OneBefore == ASSUME NEW n \in Nat, NEW i \in 1 .. n, i > 1 PROVE i - 1 \in 1 .. n
OBVIOUS

\* No pattern takes the mask for a secret, or for what leads to one.
LEMMA PatternsKnown ==
  /\ DOMAIN Patterns = 1 .. 6
  /\ \A j \in 1 .. 6 : Mask \notin Patterns[j].secret /\ Patterns[j].lead # Mask
<1>1. DOMAIN Patterns = 1 .. 6
  BY DEF Patterns
<1>2. ASSUME NEW j \in 1 .. 6 PROVE Mask \notin Patterns[j].secret /\ Patterns[j].lead # Mask
  <2>1. /\ Patterns[1] = Pattern("authorization:", Long)
        /\ Patterns[2] = Pattern("bearer", Long \ {"long"})
        /\ Patterns[3] = Pattern("", {"jwt"})
        /\ Patterns[4] = Pattern("", {"key"})
        /\ Patterns[5] = Pattern("://user:", Long \union {"word"})
        /\ Patterns[6] = Pattern("TOKEN=", Long)
    BY DEF Patterns
  <2>2. j = 1 \/ j = 2 \/ j = 3 \/ j = 4 \/ j = 5 \/ j = 6
    OBVIOUS
  <2>3. \E lead \in {"authorization:", "bearer", "", "://user:", "TOKEN="} :
          \E secret \in SUBSET (Long \union {"word"}) : Patterns[j] = Pattern(lead, secret)
    <3>1. {"jwt"} \in SUBSET (Long \union {"word"}) /\ {"key"} \in SUBSET (Long \union {"word"})
          /\ Long \in SUBSET (Long \union {"word"}) /\ Long \ {"long"} \in SUBSET (Long \union {"word"})
      BY DEF Long
    <3> QED BY <2>1, <2>2, <3>1
  <2>4. PICK lead \in {"authorization:", "bearer", "", "://user:", "TOKEN="},
             secret \in SUBSET (Long \union {"word"}) : Patterns[j] = Pattern(lead, secret)
    BY <2>3
  <2>5. Patterns[j].lead = lead /\ Patterns[j].secret = secret
    <3>1. PICK p : p = Patterns[j]
      OBVIOUS
    <3>2. p = [lead |-> lead, secret |-> secret]
      BY <2>4, <3>1 DEF Pattern
    <3>3. p.lead = lead /\ p.secret = secret
      BY <3>2
    <3> QED BY <3>1, <3>3
  <2>6. Mask \notin Long \union {"word"}
    BY DEF Mask, Long
  <2>7. lead # Mask
    BY DEF Mask
  <2> QED BY <2>5, <2>6, <2>7
<1> QED BY <1>1, <1>2

\* A text with some of its tokens masked.
MaskedFrom(T, U) == Len(U) = Len(T) /\ \A i \in 1 .. Len(T) : U[i] \in {T[i], Mask}
Masked == [text : Seq(Tokens), findings : Nat]

LEMMA CaughtLess ==
  ASSUME NEW T \in Seq(Tokens), NEW U \in Seq(Tokens), MaskedFrom(T, U), NEW j \in 1 .. 6
  PROVE  Caught(Patterns[j], U) \subseteq Caught(Patterns[j], T)
<1>1. PICK p : p = Patterns[j] /\ Mask \notin p.secret /\ p.lead # Mask
  BY PatternsKnown
<1>2. DOMAIN T = 1 .. Len(T) /\ DOMAIN U = 1 .. Len(T) /\ Len(T) \in Nat
  BY DEF MaskedFrom
<1>3. ASSUME NEW i \in Caught(p, U) PROVE i \in Caught(p, T)
  <2>1. i \in 1 .. Len(T) /\ U[i] \in p.secret /\ (p.lead = "" \/ (i > 1 /\ U[i - 1] = p.lead))
    BY <1>2, <1>3 DEF Caught
  <2>2. T[i] \in p.secret
    BY <1>1, <2>1 DEF MaskedFrom
  <2>3. i > 1 /\ U[i - 1] = p.lead => T[i - 1] = p.lead
    <3>1. i > 1 => i - 1 \in 1 .. Len(T)
      BY <1>2, <2>1, OneBefore
    <3> QED BY <1>1, <3>1 DEF MaskedFrom
  <2> QED BY <1>2, <2>1, <2>2, <2>3 DEF Caught
<1> QED BY <1>1, <1>3

LEMMA MaskStep ==
  ASSUME NEW s \in Masked, NEW p, Mask \notin p.secret, p.lead # Mask, NEW r, r = Masking(s, p)
  PROVE  /\ r \in Masked /\ MaskedFrom(s.text, r.text)
         /\ r.findings >= s.findings
         /\ r.findings = s.findings => r.text = s.text
         /\ Caught(p, r.text) = {}
         /\ Caught(p, s.text) = {} => r = s
<1>1. PICK t \in Seq(Tokens), f \in Nat : t = s.text /\ f = s.findings
  BY DEF Masked
<1> DEFINE n == Len(t)  C == Caught(p, t)  c == Cardinality(C)
           u == [i \in DOMAIN t |-> IF i \in C THEN Mask ELSE t[i]]
<1>2. n \in Nat /\ DOMAIN t = 1 .. n /\ t = [i \in 1 .. n |-> t[i]]
  OBVIOUS
<1>3. C \subseteq 1 .. n
  BY <1>2 DEF Caught
<1>4. IsFiniteSet(C) /\ c \in Nat /\ (c = 0 => C = {}) /\ (C = {} => c = 0)
  <2>1. IsFiniteSet(1 .. n)
    BY <1>2, FS_Interval
  <2>2. IsFiniteSet(C)
    BY <1>3, <2>1, FS_Subset
  <2> QED BY <2>2, FS_CardinalityType, FS_EmptySet
<1>5. u \in Seq(Tokens) /\ Len(u) = n /\ DOMAIN u = 1 .. n
  <2>1. Mask \in Tokens
    BY DEF Mask, Tokens
  <2>2. \A i \in 1 .. n : t[i] \in Tokens
    BY <1>2
  <2>3. u \in [1 .. n -> Tokens]
    BY <1>2, <2>1, <2>2
  <2> HIDE DEF u
  <2> QED BY <1>2, <2>3
<1>6. Masking(s, p) = [text |-> u, findings |-> f + c]
  BY <1>1 DEF Masking
<1>7. \A i \in 1 .. n : u[i] \in {t[i], Mask} /\ (i \in C => u[i] = Mask)
  BY <1>2
<1>8. Caught(p, u) = {}
  <2> HIDE DEF C
  <2> SUFFICES ASSUME NEW i \in Caught(p, u) PROVE FALSE
    OBVIOUS
  <2> HIDE DEF u
  <2>1. i \in 1 .. n /\ u[i] \in p.secret /\ (p.lead = "" \/ (i > 1 /\ u[i - 1] = p.lead))
    BY <1>5 DEF Caught
  <2>2. u[i] # Mask /\ u[i] = t[i] /\ i \notin C
    BY <1>7, <2>1
  <2>3. i > 1 /\ u[i - 1] = p.lead /\ p.lead # "" /\ u[i - 1] # t[i - 1] => p.lead = Mask
    <3>1. i > 1 => i - 1 \in 1 .. n
      BY <1>2, <2>1, OneBefore
    <3> QED BY <1>7, <3>1
  <2>4. t[i] \in p.secret
    BY <2>1, <2>2
  <2> QED BY <1>2, <2>1, <2>2, <2>3, <2>4 DEF C, Caught
<1>9. C = {} => u = t
  BY <1>2
<1> HIDE DEF u, C, c
<1>11. r.text = u /\ r.findings = f + c /\ r \in Masked
  BY <1>1, <1>4, <1>5, <1>6 DEF Masked
<1>12. r.findings >= s.findings /\ (r.findings = s.findings => C = {})
  BY <1>1, <1>4, <1>11
<1>13. MaskedFrom(s.text, r.text)
  BY <1>1, <1>5, <1>7, <1>11 DEF MaskedFrom
<1>14. C = {} => r = s
  <2>1. s = [text |-> t, findings |-> f]
    BY <1>1 DEF Masked
  <2>2. ASSUME C = {} PROVE u = t /\ f + c = f
    BY <1>1, <1>4, <1>9, <2>2
  <2> QED BY <1>6, <2>1, <2>2
<1> QED BY <1>1, <1>8, <1>9, <1>11, <1>12, <1>13, <1>14 DEF C
LEMMA PatternFold == 
  ASSUME NEW b PROVE \E h : /\ MaskFrom(b, Patterns) = h[1 .. 6] /\ h[1 .. 0] = b
               /\ \A k \in 0 .. 5 : h[1 .. k + 1] = Masking(h[1 .. k], Patterns[k + 1])
<1>1. PICK n, q : n = 6 /\ q = Patterns
  OBVIOUS
<1>2. n \in Nat /\ DOMAIN q = 1 .. n /\ n - 1 = 5
  BY <1>1, PatternsKnown
<1>3. n \in Nat
  BY <1>2
<1>4. DOMAIN q = 1 .. n
  BY <1>2
<1>5. PICK h : /\ MaskFrom(b, q) = h[1 .. n] /\ h[1 .. 0] = b
               /\ \A k \in 0 .. n - 1 : h[1 .. k + 1] = Masking(h[1 .. k], q[k + 1])
  BY <1>3, <1>4, MaskFold
<1> QED BY <1>1, <1>2, <1>5

\* All patterns, one after the other.
LEMMA AllMasked ==
  ASSUME NEW T \in Seq(Tokens), NEW f \in Nat,
         NEW r, r = MaskFrom([text |-> T, findings |-> f], Patterns)
  PROVE  /\ r \in Masked /\ MaskedFrom(T, r.text)
         /\ r.findings >= f
         /\ r.findings = f => r.text = T
         /\ \A j \in 1 .. 6 : Caught(Patterns[j], r.text) = {}
         /\ (\A j \in 1 .. 6 : Caught(Patterns[j], T) = {}) => r = [text |-> T, findings |-> f]
<1> DEFINE b == [text |-> T, findings |-> f]
           Clean == \A j \in 1 .. 6 : Caught(Patterns[j], T) = {}
<1>0. r = MaskFrom(b, Patterns) /\ 6 \in Nat /\ DOMAIN Patterns = 1 .. 6
  BY PatternsKnown
<1> HIDE DEF b
<1>1. PICK h : /\ MaskFrom(b, Patterns) = h[1 .. 6] /\ h[1 .. 0] = b
               /\ \A k \in 0 .. 6 - 1 : h[1 .. k + 1] = Masking(h[1 .. k], Patterns[k + 1])
  <2>1. PICK c : c = b
    OBVIOUS
  <2>2. PICK h : /\ MaskFrom(c, Patterns) = h[1 .. 6] /\ h[1 .. 0] = c
                 /\ \A k \in 0 .. 5 : h[1 .. k + 1] = Masking(h[1 .. k], Patterns[k + 1])
    BY PatternFold
  <2>3. 0 .. 6 - 1 = 0 .. 5
    OBVIOUS
  <2> QED BY <2>1, <2>2, <2>3
<1> DEFINE Good(k, s) == /\ s \in Masked /\ MaskedFrom(T, s.text) /\ s.findings >= f
                         /\ s.findings = f => s.text = T
                         /\ \A j \in 1 .. k : Caught(Patterns[j], s.text) = {}
                         /\ Clean => s = b
           G == {k \in 0 .. 6 : Good(k, h[1 .. k])}
<1>2. 0 \in G
  <2>1. b \in Masked /\ b.text = T /\ b.findings = f
    BY DEF Masked, b
  <2>2. MaskedFrom(T, T)
    BY DEF MaskedFrom
  <2>3. \A j \in 1 .. 0 : FALSE
    OBVIOUS
  <2>4. Good(0, b)
    BY <2>1, <2>2, <2>3
  <2> HIDE DEF Good
  <2> QED BY <1>1, <2>4
<1>3. \A k \in 0 .. 6 - 1 : k \in G => k + 1 \in G
  <2> SUFFICES ASSUME NEW k \in 0 .. 6 - 1, k \in G PROVE k + 1 \in G
    OBVIOUS
  <2>1. PICK s : s = h[1 .. k] /\ Good(k, s)
    OBVIOUS
  <2>2. k + 1 \in 1 .. 6 /\ k + 1 \in 0 .. 6
    OBVIOUS
  <2>3. PICK p : p = Patterns[k + 1] /\ Mask \notin p.secret /\ p.lead # Mask
    BY <2>2, PatternsKnown
  <2>4. PICK v : v = Masking(s, p) /\ v = h[1 .. k + 1]
    BY <1>1, <2>1, <2>3
  <2>5. /\ v \in Masked /\ MaskedFrom(s.text, v.text) /\ v.findings >= s.findings
        /\ v.findings = s.findings => v.text = s.text
        /\ Caught(p, v.text) = {}
        /\ Caught(p, s.text) = {} => v = s
    <3>1. s \in Masked /\ Mask \notin p.secret /\ p.lead # Mask /\ v = Masking(s, p)
      BY <2>1, <2>3, <2>4
    <3> HIDE DEF G, Good, Clean
    <3> QED BY <3>1, MaskStep, Zenon
  <2>6. s.text \in Seq(Tokens) /\ v.text \in Seq(Tokens) /\ s.findings \in Nat /\ v.findings \in Nat
    BY <2>1, <2>5 DEF Masked
  <2>7. MaskedFrom(T, v.text)
    BY <2>1, <2>5 DEF MaskedFrom
  <2>8. v.findings >= f /\ (v.findings = f => v.text = T)
    <3>1. PICK c \in Nat, d \in Nat : c = s.findings /\ d = v.findings
      BY <2>6
    <3>2. c >= f /\ d >= c /\ d >= f /\ (d = f => c = f /\ d = c)
      BY <2>1, <2>5, <3>1
    <3> QED BY <2>1, <2>5, <3>1, <3>2
  <2>9. ASSUME NEW j \in 1 .. k + 1 PROVE Caught(Patterns[j], v.text) = {}
    <3>1. j \in 1 .. 6 /\ (j \in 1 .. k \/ j = k + 1)
      BY <2>2
    <3>2. CASE j \in 1 .. k
      BY <2>1, <2>5, <2>6, <3>1, <3>2, CaughtLess
    <3>3. CASE j = k + 1
      BY <2>3, <2>5, <3>3
    <3> QED BY <3>1, <3>2, <3>3
  <2>10. Clean => v = b
    <3> SUFFICES ASSUME Clean PROVE v = b
      OBVIOUS
    <3>1. s = b /\ s.text = T
      BY <2>1 DEF b
    <3>2. Caught(p, s.text) = {}
      BY <2>2, <2>3, <3>1
    <3> QED BY <2>5, <3>1, <3>2
  <2> HIDE DEF Clean
  <2>11. Good(k + 1, v)
    BY <2>5, <2>7, <2>8, <2>9, <2>10
  <2> HIDE DEF Good
  <2> QED BY <2>2, <2>4, <2>11
<1>4. 6 \in G
  <2> HIDE DEF G
  <2>1. G \in SUBSET Nat
    <3>1. G \subseteq 0 .. 6
      BY DEF G
    <3> QED BY <3>1
  <2>2. \A k \in 0 .. 6 : k \in G
    BY <1>2, <1>3, <2>1, Climbs
  <2> QED BY <2>2
<1>5. Good(6, r)
  BY <1>0, <1>1, <1>4
<1> QED BY <1>5 DEF b

\* What redaction leaves holds no secret; without a finding it leaves the text.
LEMMA RedactOf ==
  ASSUME NEW t \in Seq(Tokens)
  PROVE  /\ Redact(t).text \in Seq(Tokens) /\ Redact(t).findings \in Nat
         /\ Secretless(Redact(t).text)
         /\ t \in Texts /\ Redact(t).findings = 0 => Redact(t).text \in Texts
<1>1. \A u : Redact(u) = MaskFrom([text |-> Blocks(u).out \o Blocks(u).held,
                                  findings |-> Blocks(u).found], Patterns)
  BY DEF Redact, MaskFrom
<1>2. PICK a \in Seq(Tokens), c \in Seq(Tokens), f \in Nat :
        a = Blocks(t).out /\ c = Blocks(t).held /\ f = Blocks(t).found
  <2>1. /\ Blocks(t).out \in Seq(Tokens \ {"begin"}) /\ Blocks(t).held \in Seq(Tokens \ {"end"})
        /\ Blocks(t).found \in Nat
    BY BlocksOf DEF Scans
  <2>2. Blocks(t).out \in Seq(Tokens)
    BY <2>1
  <2>3. Blocks(t).held \in Seq(Tokens)
    BY <2>1
  <2> QED BY <2>1, <2>2, <2>3
<1>3. PICK T \in Seq(Tokens) : T = a \o c
  <2>1. a \o c \in Seq(Tokens)
    OBVIOUS
  <2> QED BY <2>1
<1>4. NoBlock(T)
  <2>1. a \in Seq(Tokens \ {"begin"}) /\ c \in Seq(Tokens \ {"end"})
    BY <1>2, BlocksOf DEF Scans
  <2>2. Len(a) \in Nat /\ Len(c) \in Nat /\ Len(T) = Len(a) + Len(c)
        /\ \A i \in 1 .. Len(T) : T[i] = IF i <= Len(a) THEN a[i] ELSE c[i - Len(a)]
    <3>1. Len(a) \in Nat /\ Len(c) \in Nat
      OBVIOUS
    <3>2. Len(a \o c) = Len(a) + Len(c)
      OBVIOUS
    <3>3. \A i \in 1 .. Len(a) + Len(c) : (a \o c)[i] = IF i <= Len(a) THEN a[i] ELSE c[i - Len(a)]
      OBVIOUS
    <3> QED BY <1>3, <3>1, <3>2, <3>3
  <2>3. \A i \in 1 .. Len(a) : a[i] # "begin"
    BY <2>1
  <2>4. \A i \in 1 .. Len(c) : c[i] # "end"
    BY <2>1
  <2> SUFFICES ASSUME NEW i \in 1 .. Len(T), NEW l \in 1 .. Len(T), i < l, T[i] = "begin"
               PROVE  T[l] # "end"
    BY DEF NoBlock
  <2>5. ~(i <= Len(a))
    <3>1. i <= Len(a) => i \in 1 .. Len(a)
      BY <2>2
    <3> QED BY <2>2, <2>3, <3>1
  <2>6. ~(l <= Len(a)) /\ l - Len(a) \in 1 .. Len(c)
    BY <2>2, <2>5
  <2> QED BY <2>2, <2>4, <2>6
<1>5. PICK r : r = Redact(t)
  OBVIOUS
<1>6. /\ r \in Masked /\ MaskedFrom(T, r.text) /\ r.findings >= f
      /\ r.findings = f => r.text = T
      /\ \A j \in 1 .. 6 : Caught(Patterns[j], r.text) = {}
  <2>1. r = MaskFrom([text |-> T, findings |-> f], Patterns)
    BY <1>1, <1>2, <1>3, <1>5
  <2> QED BY <2>1, AllMasked, Zenon
<1>7. PICK U \in Seq(Tokens), g \in Nat : U = r.text /\ g = r.findings
  BY <1>6 DEF Masked
<1>8. NoBlock(U)
  <2> SUFFICES ASSUME NEW i \in 1 .. Len(U), NEW l \in 1 .. Len(U), i < l, U[i] = "begin",
                      U[l] = "end"
               PROVE  FALSE
    BY DEF NoBlock
  <2>1. "begin" # Mask /\ "end" # Mask
    BY DEF Mask
  <2>2. T[i] = "begin" /\ T[l] = "end" /\ i \in 1 .. Len(T) /\ l \in 1 .. Len(T)
    BY <1>6, <1>7, <2>1 DEF MaskedFrom
  <2> QED BY <1>4, <2>2 DEF NoBlock
<1>9. Secretless(U)
  <2>1. Blocks(U).found = 0 /\ Blocks(U).out \o Blocks(U).held = U
    BY <1>8, QuietBlocks
  <2>2. Redact(U) = MaskFrom([text |-> U, findings |-> 0], Patterns)
    BY <1>1, <2>1
  <2>3. Redact(U) = [text |-> U, findings |-> 0]
    <3>1. PICK v : v = Redact(U)
      OBVIOUS
    <3>2. v = MaskFrom([text |-> U, findings |-> 0], Patterns) /\ 0 \in Nat
      BY <2>2, <3>1
    <3>3. (\A j \in 1 .. 6 : Caught(Patterns[j], U) = {}) => v = [text |-> U, findings |-> 0]
      BY <3>2, AllMasked, Zenon
    <3> QED BY <1>6, <1>7, <3>1, <3>3
  <2> QED BY <2>3 DEF Secretless
<1>10. ASSUME t \in Texts, g = 0 PROVE U \in Texts
  <2>1. f = 0 /\ U = T
    BY <1>6, <1>7, <1>10
  <2>2. a \in Texts /\ c \in Texts
    BY <1>2, <1>10, <2>1, BlocksOf
  <2>3. a \o c \in Texts
    BY <2>2 DEF Texts
  <2> QED BY <1>3, <2>1, <2>3
<1> QED BY <1>5, <1>7, <1>9, <1>10

LEMMA NoMaskIn == ASSUME NEW t \in Texts PROVE Mask \notin ToSet(t) /\ t \in Seq(Tokens)
<1>1. \A i \in DOMAIN t : t[i] \in Tokens \ {Mask}
  BY DEF Texts
<1>2. t \in Seq(Tokens)
  BY DEF Texts
<1> QED BY <1>1, <1>2 DEF ToSet

\* The document of a case holds no secret, and no mask when nothing was masked.
LEMMA DocumentOf ==
  ASSUME NEW case \in Cases
  PROVE  /\ NothingSecret(Document(case)) /\ Document(case).redactions \in Nat
         /\ Document(case).redactions = 0 => NothingMasked(Document(case))
<1>1. /\ case.command \in Texts /\ case.output \in Texts /\ case.recent \in Seq(Texts)
  BY SpendingAssumption
<1> DEFINE n == Len(case.recent)
<1>2. n \in Nat /\ DOMAIN case.recent = 1 .. n /\ \A i \in 1 .. n : case.recent[i] \in Texts
  BY <1>1
<1>3. PICK q : q = [i \in 1 .. n |-> Redact(case.recent[i])]
  OBVIOUS
<1>4. PICK c, o : c = Redact(case.command) /\ o = Redact(case.output)
  OBVIOUS
<1>5. PICK N : N = [i \in 1 .. n |-> q[i].findings]
  OBVIOUS
<1>6. PICK d : d = Document(case)
  OBVIOUS
<1>7. d = [command |-> c.text, output |-> o.text, recent |-> [i \in 1 .. n |-> q[i].text],
           redactions |-> c.findings + o.findings + Total(N)]
  <2>1. DOMAIN q = 1 .. n
    BY <1>3
  <2>2. [i \in DOMAIN case.recent |-> Redact(case.recent[i])] = q
    BY <1>2, <1>3
  <2>3. N = [i \in DOMAIN q |-> q[i].findings]
    BY <1>5, <2>1
  <2> QED BY <1>4, <1>6, <2>1, <2>2, <2>3 DEF Document
<1>8. ASSUME NEW t \in Texts, NEW r, r = Redact(t)
      PROVE  r.findings \in Nat /\ Secretless(r.text) /\ (r.findings = 0 => Mask \notin ToSet(r.text))
  <2>1. t \in Seq(Tokens)
    BY NoMaskIn
  <2> QED BY <1>8, <2>1, RedactOf, NoMaskIn
<1>9. /\ c.findings \in Nat /\ Secretless(c.text) /\ (c.findings = 0 => Mask \notin ToSet(c.text))
      /\ o.findings \in Nat /\ Secretless(o.text) /\ (o.findings = 0 => Mask \notin ToSet(o.text))
  BY <1>1, <1>4, <1>8
<1>10. \A i \in 1 .. n : /\ q[i].findings \in Nat /\ Secretless(q[i].text)
                         /\ q[i].findings = 0 => Mask \notin ToSet(q[i].text)
  BY <1>2, <1>3, <1>8
<1>11. N \in [1 .. n -> Nat]
  BY <1>5, <1>10
<1>12. Total(N) \in Nat /\ (Total(N) = 0 => \A i \in 1 .. n : N[i] = 0)
  BY <1>2, <1>11, TotalOf
<1>13. PICK x \in Nat, y \in Nat, z \in Nat : x = c.findings /\ y = o.findings /\ z = Total(N)
  BY <1>9, <1>12
<1>14. d.redactions = x + y + z /\ d.redactions \in Nat
       /\ (d.redactions = 0 => x = 0 /\ y = 0 /\ z = 0)
  <2>1. d.redactions = x + y + z
    BY <1>7, <1>13
  <2> QED BY <2>1
<1>15. d.command = c.text /\ d.output = o.text /\ d.recent = [i \in 1 .. n |-> q[i].text]
  BY <1>7
<1>16. PICK R : R = d.recent /\ DOMAIN R = 1 .. n /\ \A i \in 1 .. n : R[i] = q[i].text
  BY <1>15
<1>17. NothingSecret(d)
  BY <1>9, <1>10, <1>15, <1>16 DEF NothingSecret
<1>18. ASSUME d.redactions = 0 PROVE NothingMasked(d)
  <2>1. x = 0 /\ y = 0 /\ z = 0
    BY <1>14, <1>18
  <2>2. Mask \notin ToSet(d.command) /\ Mask \notin ToSet(d.output)
    BY <1>9, <1>13, <1>15, <2>1
  <2>3. \A i \in 1 .. n : q[i].findings = 0
    BY <1>5, <1>12, <1>13, <2>1
  <2>4. \A i \in DOMAIN d.recent : Mask \notin ToSet(d.recent[i])
    BY <1>10, <1>16, <2>3
  <2> QED BY <2>2, <2>4 DEF NothingMasked
<1> QED BY <1>6, <1>14, <1>17, <1>18
-----------------------------------------------------------------------------
(***************************************************************************)
(* Asking and paying.                                                      *)
(***************************************************************************)
Tasks == DOMAIN Routed
Prompts ==
  {NoPrompt} \union {PromptFor(task, case) : task \in Tasks, case \in Cases}
  \union {HandOffBrief(case) : case \in Cases}
Picks == {PickAgent(name, Models, Investigate) : name \in AgentNames}
Limits == {"none", "num_predict", "max_tokens", "max_completion_tokens"}
Requests == [limit : Limits, structured : BOOLEAN, again : BOOLEAN]
BookLines == [kind : {"call", "budget_noted"}, model : {""} \union STRING, day : Days,
              cost : Prices, unpriced : BOOLEAN]
Jobs == [task : Tasks \union {"fix"}, over : BOOLEAN, models : Seq(Endpoint) \union Picks,
         prompt : Prompts, req : Requests, started : Days, line : BookLines, id : Nat]
Pieces == [id : Nat, half : {1, 2}, line : BookLines, by : Workers]
Steps == {"idle", "build", "post", "meter", "half", "noted?", "say", "note", "agent"}

\* The models still to be asked were routed, may be asked, and are local when the
\* budget is spent.
Choice(a, j) ==
  a \in {"build", "post"} =>
    /\ j.task \in Tasks /\ j.models # << >>
    /\ j.models \in Seq({m \in ToSet(Routed[j.task]) : May(m, j.over)})

\* What goes to a model is a case that it may see, and to an agent a brief.
Shown(a, j) ==
  a \in {"build", "post"} =>
    \E case \in Cases :
      /\ j.prompt = PromptFor(j.task, case)
      /\ LocalOnly /\ IsSensitive(case) => \A i \in DOMAIN j.models : j.models[i].local
Handed(a, j) == a = "agent" => \E case \in Cases : j.prompt = HandOffBrief(case)

\* A request stands as it was made, or was changed in what was refused.
AsMade(m, task, req) == req = Request(m, task)
Reworded(m, task, req) ==
  /\ req = Renamed(Request(m, task)) /\ LimitField(m) # "num_predict"
  /\ Server[m.name].limit \notin {"any", LimitField(m)}
Simplified(m, task, req) ==
  req = Plain(Request(m, task)) /\ task = "fix" /\ ~Server[m.name].structure
Tried(a, j) ==
  a = "post" => \/ AsMade(Head(j.models), j.task, j.req)
                \/ Reworded(Head(j.models), j.task, j.req)
                \/ Simplified(Head(j.models), j.task, j.req)

\* What is about to be written.
Booked(a, j) ==
  /\ a = "meter" => j.line.kind = "call"
  /\ a \in {"say", "note"} => j.line.kind = "budget_noted"
  /\ a \in {"meter", "half"} /\ j.line.kind = "call" /\ j.over => j.line.cost = 0

Fine(a, j) ==
  /\ a \in Steps /\ j \in Jobs
  /\ Choice(a, j) /\ Shown(a, j) /\ Handed(a, j) /\ Tried(a, j) /\ Booked(a, j)

SpendInv ==
  /\ today \in Days /\ file \in Seq(Pieces) /\ lines \in Nat
  /\ at \in [Workers -> Steps] /\ job \in [Workers -> Jobs]
  /\ \A w \in Workers : Fine(at[w], job[w])

LEMMA FirstJob ==
  /\ NoJob \in Jobs /\ 0 \in Prices /\ Fine("idle", NoJob)
  /\ \A d \in Days : Note(d) \in BookLines
  /\ NoJob = [task |-> "fix", over |-> FALSE, models |-> << >>, prompt |-> NoPrompt,
              req |-> NoRequest, started |-> 0, line |-> Note(0), id |-> 0]
<1>1. 0 \in Days /\ 0 \in Prices
  BY SpendingAssumption DEF Days, Prices
<1>2. \A d \in Days : Note(d) \in BookLines
  BY <1>1 DEF Note, BookLines
<1>3. NoRequest \in Requests /\ NoPrompt \in Prompts
  BY DEF NoRequest, Requests, Limits, Prompts
<1>4. << >> \in Seq(Endpoint) \union Picks
  <2>1. << >> \in Seq(Endpoint)
    OBVIOUS
  <2> QED BY <2>1
<1>5. NoJob \in Jobs
  BY <1>1, <1>2, <1>3, <1>4 DEF NoJob, Jobs
<1>6. Fine("idle", NoJob)
  BY <1>5 DEF Fine, Steps, Choice, Shown, Handed, Tried, Booked
<1> QED BY <1>1, <1>2, <1>5, <1>6 DEF NoJob

\* A job by its parts.
Job(task, over, models, prompt, req, started, line, id) ==
  [task |-> task, over |-> over, models |-> models, prompt |-> prompt,
   req |-> req, started |-> started, line |-> line, id |-> id]

LEMMA JobFields ==
  ASSUME NEW task, NEW over, NEW models, NEW prompt, NEW req, NEW started, NEW line, NEW id
  PROVE  LET j == Job(task, over, models, prompt, req, started, line, id) IN
         /\ j.task = task /\ j.over = over /\ j.models = models /\ j.prompt = prompt
         /\ j.req = req /\ j.started = started /\ j.line = line /\ j.id = id
BY DEF Job

LEMMA JobTyped ==
  ASSUME NEW task \in Tasks \union {"fix"}, NEW over \in BOOLEAN,
         NEW models \in Seq(Endpoint) \union Picks, NEW prompt \in Prompts,
         NEW req \in Requests, NEW started \in Days, NEW line \in BookLines, NEW id \in Nat
  PROVE  Job(task, over, models, prompt, req, started, line, id) \in Jobs
BY DEF Job, Jobs

LEMMA JobIs ==
  ASSUME NEW j \in Jobs
  PROVE  /\ j = Job(j.task, j.over, j.models, j.prompt, j.req, j.started, j.line, j.id)
         /\ j.task \in Tasks \union {"fix"} /\ j.over \in BOOLEAN
         /\ j.models \in Seq(Endpoint) \union Picks /\ j.prompt \in Prompts
         /\ j.req \in Requests /\ j.started \in Days /\ j.line \in BookLines /\ j.id \in Nat
BY DEF Job, Jobs

\* Parts that change one or two at a time.
LEMMA JobChanged ==
  ASSUME NEW j \in Jobs, NEW x
  PROVE  /\ [j EXCEPT !.models = x] =
              Job(j.task, j.over, x, j.prompt, j.req, j.started, j.line, j.id)
         /\ [j EXCEPT !.req = x] =
              Job(j.task, j.over, j.models, j.prompt, x, j.started, j.line, j.id)
         /\ [j EXCEPT !.started = x] =
              Job(j.task, j.over, j.models, j.prompt, j.req, x, j.line, j.id)
         /\ [j EXCEPT !.id = x] =
              Job(j.task, j.over, j.models, j.prompt, j.req, j.started, j.line, x)
         /\ [j EXCEPT !.models = Tail(@)] = [j EXCEPT !.models = Tail(j.models)]
BY DEF Job, Jobs
LEMMA JobBuilt ==
  ASSUME NEW j \in Jobs, NEW x \in Requests, NEW y
  PROVE  [j EXCEPT !.req = x, !.started = y] =
              Job(j.task, j.over, j.models, j.prompt, x, y, j.line, j.id)
<1>1. PICK k : k = [j EXCEPT !.req = x]
  OBVIOUS
<1>2. k = Job(j.task, j.over, j.models, j.prompt, x, j.started, j.line, j.id)
  BY <1>1, JobChanged
<1>3. k \in Jobs
  BY <1>2, JobIs, JobTyped
<1>4. k.task = j.task /\ k.over = j.over /\ k.models = j.models /\ k.prompt = j.prompt
      /\ k.req = x /\ k.line = j.line /\ k.id = j.id
  BY <1>2, JobFields
<1>5. [k EXCEPT !.started = y] = Job(k.task, k.over, k.models, k.prompt, k.req, y, k.line, k.id)
  BY <1>3, JobChanged
<1>6. [j EXCEPT !.req = x, !.started = y] = [k EXCEPT !.started = y]
  BY <1>1
<1> QED BY <1>4, <1>5, <1>6

LEMMA NoJobIs ==
  /\ NoJob.task = "fix" /\ NoJob.over = FALSE /\ NoJob.models = << >>
  /\ NoJob.prompt = NoPrompt /\ NoJob.req = NoRequest /\ NoJob.started = 0
  /\ NoJob.line = Note(0) /\ NoJob.id = 0
BY FirstJob

LEMMA JobAsked ==
  ASSUME NEW t, NEW o, NEW m, NEW p
  PROVE  [NoJob EXCEPT !.task = t, !.over = o, !.models = m, !.prompt = p] =
           Job(t, o, m, p, NoRequest, 0, Note(0), 0)
<1>1. PICK j : j = [NoJob EXCEPT !.task = t, !.over = o, !.models = m, !.prompt = p]
  OBVIOUS
<1>2. j = Job(t, o, m, p, NoJob.req, NoJob.started, NoJob.line, NoJob.id)
  BY <1>1, FirstJob DEF Job
<1> QED BY <1>1, <1>2, NoJobIs

LEMMA JobHanded ==
  ASSUME NEW o, NEW m, NEW p
  PROVE  [NoJob EXCEPT !.models = m, !.over = o, !.prompt = p] =
           Job("fix", o, m, p, NoRequest, 0, Note(0), 0)
<1>1. PICK j : j = [NoJob EXCEPT !.models = m, !.over = o, !.prompt = p]
  OBVIOUS
<1>2. j = Job(NoJob.task, o, m, p, NoJob.req, NoJob.started, NoJob.line, NoJob.id)
  BY <1>1, FirstJob DEF Job
<1> QED BY <1>1, <1>2, NoJobIs

LEMMA JobMetered ==
  ASSUME NEW o, NEW l
  PROVE  [NoJob EXCEPT !.over = o, !.line = l] =
           Job("fix", o, << >>, NoPrompt, NoRequest, 0, l, 0)
<1>1. PICK j : j = [NoJob EXCEPT !.over = o, !.line = l]
  OBVIOUS
<1>2. j = Job(NoJob.task, o, NoJob.models, NoJob.prompt, NoJob.req, NoJob.started, l, NoJob.id)
  BY <1>1, FirstJob DEF Job
<1> QED BY <1>1, <1>2, NoJobIs

LEMMA JobNoting ==
  ASSUME NEW l
  PROVE  [NoJob EXCEPT !.line = l] = Job("fix", FALSE, << >>, NoPrompt, NoRequest, 0, l, 0)
<1>1. PICK j : j = [NoJob EXCEPT !.line = l]
  OBVIOUS
<1>2. j = [task |-> NoJob.task, over |-> NoJob.over, models |-> NoJob.models,
           prompt |-> NoJob.prompt, req |-> NoJob.req, started |-> NoJob.started,
           line |-> l, id |-> NoJob.id]
  BY <1>1, FirstJob
<1>3. j = Job(NoJob.task, NoJob.over, NoJob.models, NoJob.prompt, NoJob.req, NoJob.started, l,
              NoJob.id)
  BY <1>2 DEF Job
<1> QED BY <1>1, <1>3, NoJobIs

LEMMA FirstParts ==
  /\ NoRequest \in Requests /\ NoPrompt \in Prompts /\ << >> \in Seq(Endpoint) \union Picks
  /\ 0 \in Days /\ 0 \in Nat /\ Note(0) \in BookLines
<1>1. 0 \in Days /\ NoRequest \in Requests /\ NoPrompt \in Prompts
  BY SpendingAssumption DEF Days, NoRequest, Requests, Limits, Prompts
<1>2. << >> \in Seq(Endpoint)
  OBVIOUS
<1> QED BY <1>1, <1>2, FirstJob

\* What may be asked of, among the models of a task.
LEMMA RoutedAre ==
  ASSUME NEW task \in Tasks
  PROVE  /\ Routed[task] \in Seq(Endpoint) /\ ToSet(Routed[task]) \subseteq Endpoint
         /\ \A m \in ToSet(Routed[task]) : m.price \in Prices
<1>1. Routed[task] \in Seq(Endpoint)
  BY SpendingAssumption DEF Tasks
<1>2. ToSet(Routed[task]) \subseteq Endpoint
  BY <1>1 DEF ToSet
<1>3. \A m \in ToSet(Routed[task]) : m.price \in Prices
  BY DEF Prices, Tasks
<1> QED BY <1>1, <1>2, <1>3

LEMMA QuestionFine ==
  ASSUME NEW task \in Tasks, NEW case \in Cases, NEW over \in BOOLEAN,
         NEW models, models = Candidates(task, case, over), models # << >>,
         NEW j, j = Job(task, over, models, PromptFor(task, case), NoRequest, 0, Note(0), 0)
  PROVE  Fine("build", j)
<1> DEFINE p == (LocalOnly /\ IsSensitive(case)) \/ over
           M == {m \in ToSet(Routed[task]) : May(m, p)}
           O == {m \in ToSet(Routed[task]) : May(m, over)}
<1>1. models \in Seq(M)
  <2>1. models = Filtered(Routed[task], p)
    BY DEF Candidates
  <2> HIDE DEF p
  <2> QED BY <2>1, RoutedAre, FilteredOf
<1>2. M \subseteq O /\ O \subseteq Endpoint
  BY RoutedAre DEF May
<1>3. models \in Seq(O) /\ models \in Seq(Endpoint)
  <2> HIDE DEF M, O
  <2> QED BY <1>1, <1>2
<1>4. LocalOnly /\ IsSensitive(case) => \A i \in DOMAIN models : models[i].local
  <2>1. \A i \in DOMAIN models : models[i] \in M
    BY <1>1
  <2> QED BY <2>1 DEF May
<1>10. j.task = task /\ j.over = over /\ j.models = models /\ j.prompt = PromptFor(task, case)
  BY JobFields
<1>6. PromptFor(task, case) \in Prompts
  BY DEF Prompts
<1>7. j \in Jobs
  <2> HIDE DEF M, O
  <2> QED BY <1>3, <1>6, FirstParts, JobTyped
<1>8. Choice("build", j)
  BY <1>3, <1>10 DEF Choice
<1>9. Shown("build", j)
  BY <1>4, <1>10 DEF Shown
<1> QED BY <1>7, <1>8, <1>9 DEF Fine, Steps, Handed, Tried, Booked

\* The model being asked.
LEMMA TheModel ==
  ASSUME NEW a \in {"build", "post"}, NEW j, Fine(a, j), NEW m, m = Head(j.models)
  PROVE  /\ m \in Endpoint /\ m.price \in Prices /\ May(m, j.over)
         /\ m \in ToSet(Routed[j.task]) /\ j.task \in Tasks
         /\ j.models # << >> /\ j.models \in Seq(Endpoint) /\ j \in Jobs
<1> DEFINE M == {x \in ToSet(Routed[j.task]) : May(x, j.over)}
<1>1. j.task \in Tasks /\ j.models # << >> /\ j.models \in Seq(M) /\ j \in Jobs
  BY DEF Fine, Choice
<1>2. M \subseteq Endpoint /\ \A x \in M : x.price \in Prices
  BY <1>1, RoutedAre
<1>3. m \in M
  <2> HIDE DEF M
  <2> QED BY <1>1
<1>4. j.models \in Seq(Endpoint)
  <2> HIDE DEF M
  <2> QED BY <1>1, <1>2
<1> QED BY <1>1, <1>2, <1>3, <1>4

LEMMA FailFine ==
  ASSUME NEW a \in {"build", "post"}, NEW j, Fine(a, j), Len(j.models) # 1,
         NEW k, k = Job(j.task, j.over, Tail(j.models), j.prompt, j.req, j.started, j.line, j.id)
  PROVE  Fine("build", k)
<1> DEFINE M == {x \in ToSet(Routed[j.task]) : May(x, j.over)}
<1>1. j.task \in Tasks /\ j.models # << >> /\ j.models \in Seq(M) /\ j \in Jobs
      /\ j.models \in Seq(Endpoint)
  BY TheModel DEF Fine, Choice
<1>2. PICK s : s = j.models
  OBVIOUS
<1>3. PICK t : t = Tail(s)
  OBVIOUS
<1>4. t # << >> /\ t \in Seq(M) /\ t \in Seq(Endpoint) /\ \A i \in DOMAIN t : i + 1 \in DOMAIN s /\ t[i] = s[i + 1]
  <2> HIDE DEF M
  <2>1. s \in Seq(M) /\ s \in Seq(Endpoint) /\ s # << >> /\ Len(s) # 1
    BY <1>1, <1>2
  <2>2. t \in Seq(M)
    BY <1>3, <2>1
  <2>3. t \in Seq(Endpoint)
    BY <1>3, <2>1
  <2>4. Len(s) \in Nat /\ Len(s) # 0 /\ Len(t) = Len(s) - 1 /\ DOMAIN t = 1 .. Len(t)
        /\ DOMAIN s = 1 .. Len(s)
    BY <1>3, <2>1
  <2>5. t # << >>
    BY <2>1, <2>4
  <2>6. \A i \in 1 .. Len(t) : t[i] = s[i + 1]
    BY <1>3, <2>1, <2>4
  <2> QED BY <2>2, <2>3, <2>4, <2>5, <2>6
<1>5. k = Job(j.task, j.over, t, j.prompt, j.req, j.started, j.line, j.id)
  BY <1>2, <1>3
<1>9. k.task = j.task /\ k.over = j.over /\ k.models = t /\ k.prompt = j.prompt
  BY <1>5, JobFields
<1>6. k \in Jobs
  <2>1. t \in Seq(Endpoint) \union Picks
    BY <1>4
  <2> HIDE DEF M
  <2> QED BY <1>1, <1>5, <2>1, JobIs, JobTyped
<1>7. Choice("build", k)
  BY <1>1, <1>4, <1>9 DEF Choice
<1>8. Shown("build", k)
  <2>1. PICK case \in Cases :
          /\ j.prompt = PromptFor(j.task, case)
          /\ LocalOnly /\ IsSensitive(case) => \A i \in DOMAIN j.models : j.models[i].local
    BY DEF Fine, Shown
  <2>2. LocalOnly /\ IsSensitive(case) => \A i \in DOMAIN k.models : k.models[i].local
    BY <1>2, <1>4, <1>9, <2>1
  <2> QED BY <1>9, <2>1, <2>2 DEF Shown
<1> QED BY <1>6, <1>7, <1>8 DEF Fine, Steps, Handed, Tried, Booked

LEMMA RequestField ==
  ASSUME NEW l, NEW u, NEW g, NEW x, NEW r, r = [limit |-> l, structured |-> u, again |-> g]
  PROVE  /\ [r EXCEPT !.again = x] = [limit |-> l, structured |-> u, again |-> x]
         /\ [r EXCEPT !.structured = x] = [limit |-> l, structured |-> x, again |-> g]
         /\ [r EXCEPT !.limit = x] = [limit |-> x, structured |-> u, again |-> g]
OBVIOUS

\* A request as it is made, and in its other two forms.
Forms(req, m, task) ==
  /\ req \in Requests /\ Renamed(req) \in Requests /\ Plain(req) \in Requests
  /\ req.again = FALSE /\ req.limit = LimitField(m) /\ (req.structured <=> task = "fix")
  /\ Renamed(req).again = TRUE /\ Plain(req).again = TRUE /\ Plain(req).structured = FALSE
  /\ Renamed(req).limit =
       IF LimitField(m) = "max_tokens" THEN "max_completion_tokens" ELSE "max_tokens"

LEMMA RequestKnown == ASSUME NEW m, NEW task PROVE Forms(Request(m, task), m, task)
<1>1. PICK l \in Limits : l = LimitField(m)
  BY DEF LimitField, Limits
<1>2. PICK u \in BOOLEAN : u = (task = "fix")
  OBVIOUS
<1>3. PICK r : r = [limit |-> l, structured |-> u, again |-> FALSE]
  OBVIOUS
<1>4. Request(m, task) = r
  BY <1>1, <1>2, <1>3 DEF Request
<1>0. PICK t, f : t = TRUE /\ f = FALSE
  OBVIOUS
<1>5. PICK v : v = [limit |-> l, structured |-> u, again |-> t]
  OBVIOUS
<1>6. [r EXCEPT !.again = t] = v
  BY <1>3, <1>5, RequestField
<1>7. PICK x : x = IF l = "max_tokens" THEN "max_completion_tokens" ELSE "max_tokens"
  OBVIOUS
<1>8. x \in Limits
  BY <1>7 DEF Limits
<1>9. [r EXCEPT !.again = TRUE, !.structured = FALSE] = [v EXCEPT !.structured = f]
  <2>1. [r EXCEPT !.again = t, !.structured = f] = [[r EXCEPT !.again = t] EXCEPT !.structured = f]
    OBVIOUS
  <2> QED BY <1>0, <1>6, <2>1, Zenon
<1>10. [v EXCEPT !.structured = f] = [limit |-> l, structured |-> f, again |-> t]
  BY <1>5, RequestField
<1>11. Plain(r) = [limit |-> l, structured |-> f, again |-> t]
  <2>1. Plain(r) = [r EXCEPT !.again = TRUE, !.structured = FALSE]
    BY DEF Plain
  <2> QED BY <1>9, <1>10, <2>1
<1>12. r.limit = l /\ r.again = FALSE /\ r.structured = u
  BY <1>3
<1>13. Renamed(r) = [r EXCEPT !.again = TRUE, !.limit = x]
  BY <1>7, <1>12 DEF Renamed
<1>14. [r EXCEPT !.again = TRUE, !.limit = x] = [v EXCEPT !.limit = x]
  <2>1. [r EXCEPT !.again = t, !.limit = x] = [[r EXCEPT !.again = t] EXCEPT !.limit = x]
    OBVIOUS
  <2> QED BY <1>0, <1>6, <2>1, Zenon
<1>15. [v EXCEPT !.limit = x] = [limit |-> x, structured |-> u, again |-> t]
  BY <1>5, RequestField
<1>16. Renamed(r) = [limit |-> x, structured |-> u, again |-> t]
  BY <1>13, <1>14, <1>15
<1>17. r \in Requests
  BY <1>3 DEF Requests
<1>18. Plain(r) \in Requests /\ Plain(r).again = TRUE /\ Plain(r).structured = FALSE
  <2>1. t \in BOOLEAN /\ f \in BOOLEAN
    BY <1>0
  <2>2. Plain(r) \in Requests /\ Plain(r).again = t /\ Plain(r).structured = f
    BY <1>11, <2>1 DEF Requests
  <2> QED BY <1>0, <2>2, Zenon
<1>19. Renamed(r) \in Requests /\ Renamed(r).again = TRUE /\ Renamed(r).limit = x
  <2>1. t \in BOOLEAN
    BY <1>0
  <2>2. Renamed(r) \in Requests /\ Renamed(r).again = t /\ Renamed(r).limit = x
    BY <1>8, <1>16, <2>1 DEF Requests
  <2> QED BY <1>0, <2>2, Zenon
<1> QED BY <1>1, <1>2, <1>4, <1>7, <1>12, <1>17, <1>18, <1>19 DEF Forms

LEMMA BuildFine ==
  ASSUME NEW j, Fine("build", j), NEW d \in Days,
         NEW k, k = Job(j.task, j.over, j.models, j.prompt, Request(Head(j.models), j.task), d,
                        j.line, j.id)
  PROVE  Fine("post", k)
<1>1. PICK m, r : m = Head(j.models) /\ r = Request(m, j.task)
  OBVIOUS
<1>2. j \in Jobs /\ r \in Requests
  BY <1>1, TheModel, RequestKnown DEF Forms
<1>3. k = Job(j.task, j.over, j.models, j.prompt, r, d, j.line, j.id)
  BY <1>1
<1>7. k.task = j.task /\ k.over = j.over /\ k.models = j.models /\ k.prompt = j.prompt /\ k.req = r
  BY <1>3, JobFields
<1>4. k \in Jobs
  <2>1. /\ j.task \in Tasks \union {"fix"} /\ j.over \in BOOLEAN
        /\ j.models \in Seq(Endpoint) \union Picks /\ j.prompt \in Prompts
        /\ j.line \in BookLines /\ j.id \in Nat
    BY <1>2, JobIs
  <2>2. Job(j.task, j.over, j.models, j.prompt, r, d, j.line, j.id) \in Jobs
    BY <1>2, <2>1, JobTyped
  <2> QED BY <1>3, <2>2
<1>5. Choice("post", k) /\ Shown("post", k)
  BY <1>7 DEF Fine, Choice, Shown
<1>6. Tried("post", k)
  BY <1>1, <1>7 DEF Tried, AsMade
<1> QED BY <1>4, <1>5, <1>6 DEF Fine, Steps, Handed, Booked

LEMMA AnswerFine ==
  ASSUME NEW j, Fine("post", j), NEW m, m = Head(j.models),
         NEW k, k = Job("fix", j.over, << >>, NoPrompt, NoRequest, 0,
                        Entry(m, j.task, j.started), 0)
  PROVE  Fine("meter", k)
<1>1. m \in Endpoint /\ m.price \in Prices /\ May(m, j.over) /\ j \in Jobs
  BY TheModel
<1>2. PICK line : line = Entry(m, j.task, j.started)
  OBVIOUS
<1>3. /\ line.kind = "call" /\ line.model = m.name /\ line.day = j.started
      /\ line.cost = IF m.local THEN 0 ELSE m.price
      /\ line \in BookLines
  <2>1. PICK u \in BOOLEAN :
          u = (~m.local /\ (j.task = "stream" \/ m.price = 0 \/ ~Server[m.name].counts))
    OBVIOUS
  <2>2. line = [kind |-> "call", model |-> m.name, day |-> j.started,
                cost |-> IF m.local THEN 0 ELSE m.price, unpriced |-> u]
    BY <1>2, <2>1 DEF Entry
  <2>3. j.started \in Days /\ m.name \in STRING
    BY <1>1 DEF Jobs, Endpoint
  <2> QED BY <1>1, <2>2, <2>3, FirstJob DEF BookLines
<1>4. k = Job("fix", j.over, << >>, NoPrompt, NoRequest, 0, line, 0)
  BY <1>2
<1>5. k \in Jobs
  <2>1. j.over \in BOOLEAN /\ "fix" \in Tasks \union {"fix"}
    BY <1>1, JobIs
  <2>2. Job("fix", j.over, << >>, NoPrompt, NoRequest, 0, line, 0) \in Jobs
    BY <1>3, <2>1, FirstParts, JobTyped
  <2> QED BY <1>4, <2>2
<1>6. Booked("meter", k)
  <2>1. k.line = line /\ k.over = j.over
    BY <1>4, JobFields
  <2>2. j.over => line.cost = 0
    BY <1>1, <1>3 DEF May
  <2> QED BY <1>3, <2>1, <2>2 DEF Booked
<1> QED BY <1>5, <1>6 DEF Fine, Steps, Choice, Shown, Handed, Tried

\* A refusal that is tried again: the request is changed in what was refused.
LEMMA AgainFine ==
  ASSUME NEW j, Fine("post", j), NEW m, m = Head(j.models),
         NEW reply \in Replies(m, j.req), NEW r \in SecondTry(j.req, reply, j.task),
         NEW k, k = Job(j.task, j.over, j.models, j.prompt, r, j.started, j.line, j.id)
  PROVE  Fine("post", k)
<1>1. j \in Jobs
  BY TheModel
<1>2. PICK first : first = Request(m, j.task)
  OBVIOUS
<1>3. AsMade(m, j.task, j.req) \/ Reworded(m, j.task, j.req) \/ Simplified(m, j.task, j.req)
  BY DEF Fine, Tried
<1>4. /\ first.again = FALSE /\ first.limit = LimitField(m) /\ (first.structured <=> j.task = "fix")
      /\ Renamed(first).again = TRUE /\ Plain(first).again = TRUE /\ Renamed(first) \in Requests
      /\ Plain(first) \in Requests
  <2>1. Forms(first, m, j.task)
    BY <1>2, RequestKnown
  <2> QED BY <2>1 DEF Forms
<1>5. ~j.req.again
  <2>1. j.req.again => SecondTry(j.req, reply, j.task) = {}
    BY DEF SecondTry
  <2> QED BY <2>1
<1>6. j.req = first
  BY <1>2, <1>3, <1>4, <1>5 DEF AsMade, Reworded, Simplified
<1>7. (reply = "limit" /\ first.limit # "num_predict" /\ r = Renamed(first))
      \/ (reply = "structure" /\ first.structured /\ r = Plain(first))
  BY <1>5, <1>6 DEF SecondTry
<1>8. reply = "limit" => Server[m.name].limit \notin {"any", first.limit}
  BY <1>6 DEF Replies, Objections
<1>9. reply = "structure" => ~Server[m.name].structure
  BY <1>6 DEF Replies, Objections
<1>10. Reworded(m, j.task, r) \/ Simplified(m, j.task, r)
  BY <1>2, <1>4, <1>7, <1>8, <1>9 DEF Reworded, Simplified
<1>15. k.task = j.task /\ k.over = j.over /\ k.models = j.models /\ k.prompt = j.prompt /\ k.req = r
  BY JobFields
<1>12. k \in Jobs
  <2>1. r \in Requests
    BY <1>4, <1>7
  <2> QED BY <1>1, <2>1, JobIs, JobTyped
<1>13. Choice("post", k) /\ Shown("post", k)
  BY <1>15 DEF Fine, Choice, Shown
<1>14. Tried("post", k)
  BY <1>10, <1>15 DEF Tried
<1> QED BY <1>12, <1>13, <1>14 DEF Fine, Steps, Handed, Booked

\* A refusal that is not tried again: the server had two objections.
LEMMA GivenUp ==
  ASSUME NEW j, Fine("post", j), NEW m, m = Head(j.models),
         NEW reply \in Replies(m, j.req), reply \in {"limit", "structure"},
         SecondTry(j.req, reply, j.task) = {}
  PROVE  Server[m.name].limit # "any" /\ ~Server[m.name].structure
<1>1. m \in ToSet(Routed[j.task]) /\ j.task \in DOMAIN Routed /\ m.provider # "agent"
  BY TheModel DEF Tasks, May
<1>2. Server[m.name].structure => Server[m.name].limit \in {"any"} \union LimitNames(m)
  BY <1>1, SpendingAssumption
<1>3. PICK first : first = Request(m, j.task)
  OBVIOUS
<1>4. /\ first.again = FALSE /\ first.limit = LimitField(m) /\ (first.structured <=> j.task = "fix")
      /\ Renamed(first).again = TRUE /\ Plain(first).again = TRUE /\ Plain(first).structured = FALSE
      /\ Renamed(first).limit =
           IF LimitField(m) = "max_tokens" THEN "max_completion_tokens" ELSE "max_tokens"
  <2>1. Forms(first, m, j.task)
    BY <1>3, RequestKnown
  <2> QED BY <2>1 DEF Forms
<1>5. reply = "limit" => Server[m.name].limit \notin {"any", j.req.limit}
  BY DEF Replies, Objections
<1>6. reply = "structure" => ~Server[m.name].structure /\ j.req.structured
  BY DEF Replies, Objections
<1>7. ~j.req.again => (reply = "limit" => j.req.limit = "num_predict")
                      /\ (reply = "structure" => j.task = "stream" \/ ~j.req.structured)
  BY DEF SecondTry
<1>8. CASE AsMade(m, j.task, j.req)
  <2>1. j.req = first
    BY <1>3, <1>8 DEF AsMade
  <2>2. reply # "structure"
    BY <1>4, <1>6, <1>7, <2>1
  <2>3. LimitField(m) = "num_predict" /\ m.provider = "ollama"
    BY <1>4, <1>7, <2>1, <2>2 DEF LimitField
  <2> QED BY <1>2, <1>4, <1>5, <2>1, <2>2, <2>3 DEF LimitNames
<1>9. CASE Reworded(m, j.task, j.req)
  <2>1. j.req = Renamed(first) /\ Server[m.name].limit \notin {"any", LimitField(m)}
        /\ LimitField(m) # "num_predict"
    BY <1>3, <1>9 DEF Reworded
  <2>2. m.provider # "ollama" /\ LimitField(m) \in {"max_tokens", "max_completion_tokens"}
    BY <2>1 DEF LimitField
  <2> QED BY <1>2, <1>4, <1>5, <1>6, <2>1, <2>2 DEF LimitNames
<1>10. CASE Simplified(m, j.task, j.req)
  <2>1. j.req = Plain(first) /\ ~Server[m.name].structure
    BY <1>3, <1>10 DEF Simplified
  <2> QED BY <1>4, <1>5, <1>6, <2>1
<1> QED BY <1>8, <1>9, <1>10 DEF Fine, Tried

\* A worker goes on to step a with job k.
Moved(w, a, k) == at' = [at EXCEPT ![w] = a] /\ job' = [job EXCEPT ![w] = k]
Files == UNCHANGED <<today, file, lines>>

LEMMA WorkerEnded == ASSUME NEW w \in Workers, Ends(w) PROVE Moved(w, "idle", NoJob)
BY DEF Ends, Goes, Moved

LEMMA Stayed ==
  ASSUME NEW w \in Workers, SpendInv, UNCHANGED <<at, job>>
  PROVE  Moved(w, at[w], job[w])
BY DEF SpendInv, Moved

LEMMA FailsOverDoes ==
  ASSUME NEW w \in Workers, SpendInv, at[w] \in {"build", "post"}, FailsOver(w)
  PROVE  \/ Moved(w, "idle", NoJob)
         \/ \E k : /\ Moved(w, "build", k) /\ Fine("build", k) /\ k.over = job[w].over
                   /\ k.req = job[w].req /\ k.started = job[w].started
<1>1. PICK j : j = job[w]
  OBVIOUS
<1>2. Fine(at[w], j) /\ j \in Jobs /\ job \in [Workers -> Jobs] /\ at \in [Workers -> Steps]
  BY <1>1 DEF SpendInv
<1>3. CASE Len(j.models) = 1
  BY <1>1, <1>3, WorkerEnded DEF FailsOver
<1>4. CASE Len(j.models) # 1
  <2>1. PICK k : k = Job(j.task, j.over, Tail(j.models), j.prompt, j.req, j.started, j.line, j.id)
    OBVIOUS
  <2>2. job' = [job EXCEPT ![w].models = Tail(@)] /\ at' = [at EXCEPT ![w] = "build"]
    BY <1>1, <1>4 DEF FailsOver, Goes
  <2>3. [j EXCEPT !.models = Tail(@)] = k
    <3>1. [j EXCEPT !.models = Tail(@)] = [j EXCEPT !.models = Tail(j.models)]
      BY <1>2, JobChanged
    <3> QED BY <1>2, <2>1, <3>1, JobChanged
  <2>4. [job EXCEPT ![w].models = Tail(@)] = [job EXCEPT ![w] = [job[w] EXCEPT !.models = Tail(@)]]
    OBVIOUS
  <2>5. Moved(w, "build", k)
    BY <1>1, <2>2, <2>3, <2>4 DEF Moved
  <2>6. Fine("build", k)
    BY <1>2, <1>4, <2>1, FailFine
  <2>7. k.over = j.over /\ k.req = j.req /\ k.started = j.started
    BY <2>1, JobFields
  <2> QED BY <1>1, <2>5, <2>6, <2>7
<1> QED BY <1>3, <1>4

LEMMA QuestionDoes ==
  ASSUME NEW w \in Workers, SpendInv, NEW task \in DOMAIN Routed, NEW case \in Cases,
         Question(w, task, case)
  PROVE  /\ at[w] = "idle" /\ Files /\ UNCHANGED stuck
         /\ \/ Moved(w, at[w], job[w])
            \/ Moved(w, "noted?", job[w])
            \/ \E k : /\ Moved(w, "build", k) /\ Fine("build", k)
                      /\ k.over = OverBudget /\ k.req = NoRequest /\ k.started = 0
<1>1. PICK over, models : over = OverBudget /\ models = Candidates(task, case, over)
  OBVIOUS
<1>2. /\ at[w] = "idle" /\ Files /\ UNCHANGED stuck
      /\ CASE models # << >> ->
                /\ job' = [job EXCEPT ![w] = [NoJob EXCEPT !.task = task, !.over = over,
                                  !.models = models, !.prompt = PromptFor(task, case)]]
                /\ Goes(w, "build")
           [] models = << >> /\ task = "fix" /\ ExcludedForBudget(task, over) ->
                Goes(w, "noted?") /\ UNCHANGED job
           [] OTHER -> UNCHANGED <<at, job>>
  BY <1>1 DEF Question, Files
<1>3. CASE models # << >>
  <2>1. PICK k : k = Job(task, over, models, PromptFor(task, case), NoRequest, 0, Note(0), 0)
    OBVIOUS
  <2>2. job' = [job EXCEPT ![w] = [NoJob EXCEPT !.task = task, !.over = over,
                                  !.models = models, !.prompt = PromptFor(task, case)]]
        /\ at' = [at EXCEPT ![w] = "build"]
    BY <1>2, <1>3 DEF Goes
  <2>3. Moved(w, "build", k)
    <3>1. PICK p : p = PromptFor(task, case)
      OBVIOUS
    <3>2. [NoJob EXCEPT !.task = task, !.over = over, !.models = models, !.prompt = p] = k
      BY <2>1, <3>1, JobAsked
    <3> QED BY <2>2, <3>1, <3>2 DEF Moved
  <2>4. over \in BOOLEAN /\ task \in Tasks
    BY <1>1 DEF OverBudget, Tasks
  <2>5. Fine("build", k)
    BY <1>1, <1>3, <2>1, <2>4, QuestionFine
  <2>6. k.over = over /\ k.req = NoRequest /\ k.started = 0
    BY <2>1, JobFields
  <2> QED BY <1>1, <1>2, <2>3, <2>5, <2>6
<1>4. CASE models = << >> /\ task = "fix" /\ ExcludedForBudget(task, over)
  <2>1. at' = [at EXCEPT ![w] = "noted?"] /\ job' = job
    BY <1>2, <1>4 DEF Goes
  <2> QED BY <1>2, <2>1 DEF Moved, SpendInv
<1>5. CASE models = << >> /\ ~(task = "fix" /\ ExcludedForBudget(task, over))
  <2>1. UNCHANGED <<at, job>>
    BY <1>2, <1>5
  <2> QED BY <1>2, <2>1, Stayed
<1> QED BY <1>3, <1>4, <1>5

LEMMA HandOffDoes ==
  ASSUME NEW w \in Workers, SpendInv, NEW case \in Cases, NEW name \in AgentNames,
         HandOff(w, case, name)
  PROVE  /\ at[w] = "idle" /\ Files /\ UNCHANGED stuck
         /\ \/ Moved(w, at[w], job[w])
            \/ \E k : Moved(w, "agent", k) /\ Fine("agent", k)
<1>1. PICK agent : agent = PickAgent(name, Models, Investigate)
  OBVIOUS
<1>2. CASE agent = << >>
  BY <1>1, <1>2, Stayed DEF HandOff, Files
<1>3. CASE agent # << >>
  <2>0. PICK o, p : o = TRUE /\ p = HandOffBrief(case)
    OBVIOUS
  <2>1. PICK k : k = Job("fix", o, agent, p, NoRequest, 0, Note(0), 0)
    OBVIOUS
  <2>2. /\ job' = [job EXCEPT ![w] = [NoJob EXCEPT !.models = agent, !.over = TRUE,
                                                   !.prompt = HandOffBrief(case)]]
        /\ at' = [at EXCEPT ![w] = "agent"]
        /\ at[w] = "idle" /\ Files /\ UNCHANGED stuck
    BY <1>1, <1>3 DEF HandOff, Goes, Files
  <2>3. Moved(w, "agent", k)
    <3>1. [NoJob EXCEPT !.models = agent, !.over = o, !.prompt = p] = k
      BY <2>1, JobHanded
    <3>2. [NoJob EXCEPT !.models = agent, !.over = TRUE, !.prompt = HandOffBrief(case)] = k
      BY <2>0, <3>1, Zenon
    <3> QED BY <2>2, <3>2 DEF Moved
  <2>4. agent \in Picks /\ p \in Prompts /\ o \in BOOLEAN
    BY <1>1, <2>0 DEF Picks, Prompts
  <2>5. k \in Jobs
    BY <2>1, <2>4, FirstParts, JobTyped
  <2>8. k.prompt = p
    BY <2>1, JobFields
  <2>6. k.prompt = HandOffBrief(case)
    BY <2>0, <2>8
  <2>7. Fine("agent", k)
    BY <2>5, <2>6 DEF Fine, Steps, Choice, Shown, Handed, Tried, Booked
  <2> QED BY <2>2, <2>3, <2>7
<1> QED BY <1>2, <1>3

LEMMA BuildDoes ==
  ASSUME NEW w \in Workers, SpendInv, Build(w)
  PROVE  /\ at[w] = "build" /\ Files /\ UNCHANGED stuck
         /\ \/ Moved(w, "idle", NoJob)
            \/ \E k : /\ Moved(w, "build", k) /\ Fine("build", k) /\ k.over = job[w].over
                      /\ k.req = job[w].req /\ k.started = job[w].started
            \/ \E k : /\ Moved(w, "post", k) /\ Fine("post", k) /\ k.over = job[w].over
                      /\ k.started = today
<1>1. PICK j, m : j = job[w] /\ m = Head(j.models)
  OBVIOUS
<1>2. at[w] = "build" /\ Files /\ UNCHANGED stuck /\ Fine("build", j) /\ j \in Jobs
      /\ job \in [Workers -> Jobs] /\ today \in Days
  BY <1>1 DEF Build, Kept, Files, SpendInv
<1>3. CASE Unbuildable(m)
  <2>1. FailsOver(w)
    BY <1>1, <1>3 DEF Build
  <2> QED BY <1>2, <2>1, FailsOverDoes
<1>4. CASE ~Unbuildable(m)
  <2>1. PICK r : r = Request(m, j.task) /\ r \in Requests
    BY RequestKnown DEF Forms
  <2>2. PICK k : k = Job(j.task, j.over, j.models, j.prompt, r, today, j.line, j.id)
    OBVIOUS
  <2>3. job' = [job EXCEPT ![w].req = r, ![w].started = today] /\ at' = [at EXCEPT ![w] = "post"]
    BY <1>1, <1>4, <2>1 DEF Build, Goes
  <2>4. [job EXCEPT ![w].req = r, ![w].started = today] =
          [job EXCEPT ![w] = [job[w] EXCEPT !.req = r, !.started = today]]
    BY <1>2
  <2>5. [j EXCEPT !.req = r, !.started = today] = k
    BY <1>2, <2>1, <2>2, JobBuilt
  <2>6. Moved(w, "post", k)
    BY <1>1, <2>3, <2>4, <2>5 DEF Moved
  <2>7. Fine("post", k)
    BY <1>1, <1>2, <2>1, <2>2, BuildFine
  <2>8. k.over = j.over /\ k.started = today
    BY <2>2, JobFields
  <2> QED BY <1>1, <1>2, <2>6, <2>7, <2>8
<1> QED BY <1>3, <1>4

LEMMA PostDoes ==
  ASSUME NEW w \in Workers, SpendInv, Post(w)
  PROVE  /\ at[w] = "post" /\ Files
         /\ \A refused \in stuck' :
              \/ refused \in stuck
              \/ Server[refused[2]].limit # "any" /\ ~Server[refused[2]].structure
         /\ \/ \E k : /\ Moved(w, "meter", k) /\ Fine("meter", k) /\ k.over = job[w].over
                      /\ k.line.kind = "call" /\ k.line.day = job[w].started
            \/ \E k : /\ Moved(w, "post", k) /\ Fine("post", k) /\ k.over = job[w].over
                      /\ k.started = job[w].started
            \/ Moved(w, "idle", NoJob)
            \/ \E k : /\ Moved(w, "build", k) /\ Fine("build", k) /\ k.over = job[w].over
                      /\ k.req = job[w].req /\ k.started = job[w].started
<1>1. PICK j, m : j = job[w] /\ m = Head(j.models)
  OBVIOUS
<1>2. at[w] = "post" /\ Files /\ Fine("post", j) /\ j \in Jobs /\ job \in [Workers -> Jobs]
      /\ at \in [Workers -> Steps]
  BY <1>1 DEF Post, Files, SpendInv
<1>3. PICK reply \in Replies(m, j.req) :
        CASE reply = "text" ->
              /\ job' = [job EXCEPT ![w] = [NoJob EXCEPT !.over = j.over,
                           !.line = Entry(m, j.task, j.started)]]
              /\ Goes(w, "meter") /\ UNCHANGED stuck
         [] reply # "text" /\ SecondTry(j.req, reply, j.task) # {} ->
              /\ job' = [job EXCEPT ![w].req =
                           CHOOSE r \in SecondTry(j.req, reply, j.task) : TRUE]
              /\ UNCHANGED <<at, stuck>>
         [] OTHER ->
              /\ FailsOver(w)
              /\ stuck' = stuck \union ({reply} \intersect {"limit", "structure"}) \X {m.name}
  BY <1>1 DEF Post
<1>4. CASE reply = "text"
  <2>1. PICK l : l = Entry(m, j.task, j.started)
    OBVIOUS
  <2>2. PICK k : k = Job("fix", j.over, << >>, NoPrompt, NoRequest, 0, l, 0)
    OBVIOUS
  <2>3. job' = [job EXCEPT ![w] = [NoJob EXCEPT !.over = j.over, !.line = l]]
        /\ at' = [at EXCEPT ![w] = "meter"] /\ UNCHANGED stuck
    BY <1>3, <1>4, <2>1 DEF Goes
  <2>4. Moved(w, "meter", k)
    BY <2>2, <2>3, JobMetered DEF Moved
  <2>5. Fine("meter", k)
    BY <1>1, <1>2, <2>1, <2>2, AnswerFine
  <2>6. k.over = j.over /\ k.line = l
    BY <2>2, JobFields
  <2>7. l.kind = "call" /\ l.day = j.started
    BY <2>1 DEF Entry
  <2> QED BY <1>1, <1>2, <2>3, <2>4, <2>5, <2>6, <2>7
<1>5. CASE reply # "text" /\ SecondTry(j.req, reply, j.task) # {}
  <2>1. PICK r \in SecondTry(j.req, reply, j.task) :
          r = CHOOSE q \in SecondTry(j.req, reply, j.task) : TRUE
    BY <1>5
  <2>2. PICK k : k = Job(j.task, j.over, j.models, j.prompt, r, j.started, j.line, j.id)
    OBVIOUS
  <2>3. job' = [job EXCEPT ![w].req = r] /\ UNCHANGED <<at, stuck>>
    BY <1>3, <1>5, <2>1
  <2>4. [job EXCEPT ![w].req = r] = [job EXCEPT ![w] = [job[w] EXCEPT !.req = r]]
    OBVIOUS
  <2>5. [j EXCEPT !.req = r] = k
    BY <1>2, <2>2, JobChanged
  <2>6. at' = [at EXCEPT ![w] = "post"]
    BY <1>2, <2>3
  <2>7. Moved(w, "post", k)
    BY <1>1, <2>3, <2>4, <2>5, <2>6 DEF Moved
  <2>8. Fine("post", k)
    BY <1>1, <1>2, <2>2, AgainFine
  <2>9. k.over = j.over /\ k.started = j.started
    BY <2>2, JobFields
  <2> QED BY <1>1, <1>2, <2>3, <2>7, <2>8, <2>9
<1>6. CASE reply # "text" /\ SecondTry(j.req, reply, j.task) = {}
  <2>1. FailsOver(w)
        /\ stuck' = stuck \union ({reply} \intersect {"limit", "structure"}) \X {m.name}
    BY <1>3, <1>6
  <2>2. ASSUME NEW refused \in stuck', refused \notin stuck
        PROVE  Server[refused[2]].limit # "any" /\ ~Server[refused[2]].structure
    <3>1. reply \in {"limit", "structure"} /\ refused[2] = m.name
      BY <2>1, <2>2
    <3> QED BY <1>1, <1>2, <1>6, <3>1, GivenUp
  <2> QED BY <1>2, <2>1, <2>2, FailsOverDoes
<1> QED BY <1>4, <1>5, <1>6

LEMMA FirstHalfDoes ==
  ASSUME NEW w \in Workers, SpendInv, FirstHalf(w)
  PROVE  /\ at[w] \in {"meter", "note"} /\ lines' = lines + 1 /\ UNCHANGED <<today, stuck>>
         /\ file' = Append(file, Piece(lines + 1, 1, job[w].line, w))
         /\ \E k : /\ Moved(w, "half", k) /\ Fine("half", k) /\ k.over = job[w].over
                   /\ k.line = job[w].line
<1>1. PICK j : j = job[w]
  OBVIOUS
<1>2. /\ at[w] \in {"meter", "note"} /\ lines' = lines + 1 /\ UNCHANGED <<today, stuck>>
      /\ file' = Append(file, Piece(lines + 1, 1, job[w].line, w))
      /\ job' = [job EXCEPT ![w].id = lines + 1] /\ at' = [at EXCEPT ![w] = "half"]
  BY DEF FirstHalf, Goes
<1>3. Fine(at[w], j) /\ j \in Jobs /\ lines + 1 \in Nat
  BY <1>1 DEF SpendInv
<1>4. PICK n \in Nat : n = lines + 1
  BY <1>3
<1>5. PICK k : k = Job(j.task, j.over, j.models, j.prompt, j.req, j.started, j.line, n)
  OBVIOUS
<1>6. [job EXCEPT ![w].id = n] = [job EXCEPT ![w] = [job[w] EXCEPT !.id = n]]
  OBVIOUS
<1>7. [j EXCEPT !.id = n] = k
  BY <1>3, <1>5, JobChanged
<1>8. Moved(w, "half", k)
  BY <1>1, <1>2, <1>4, <1>6, <1>7 DEF Moved
<1>9. k.over = j.over /\ k.line = j.line
  BY <1>5, JobFields
<1>10. k \in Jobs
  BY <1>3, <1>4, <1>5, JobIs, JobTyped
<1>11. Booked("half", k)
  BY <1>2, <1>3, <1>9 DEF Fine, Booked
<1>12. Fine("half", k)
  BY <1>10, <1>11 DEF Fine, Steps, Choice, Shown, Handed, Tried
<1> QED BY <1>1, <1>2, <1>8, <1>9, <1>12

LEMMA SecondHalfDoes ==
  ASSUME NEW w \in Workers, SecondHalf(w)
  PROVE  /\ at[w] = "half" /\ UNCHANGED <<today, lines, stuck>>
         /\ file' = Append(file, Piece(job[w].id, 2, job[w].line, w))
         /\ Moved(w, "idle", NoJob)
BY WorkerEnded DEF SecondHalf

LEMMA ReadNotedDoes ==
  ASSUME NEW w \in Workers, SpendInv, ReadNoted(w)
  PROVE  /\ at[w] = "noted?" /\ Files /\ UNCHANGED stuck
         /\ \/ Moved(w, "idle", NoJob)
            \/ \E k : /\ Moved(w, "say", k) /\ Fine("say", k) /\ k.line = Note(today)
                      /\ ~BudgetNoted(today)
<1>1. at[w] = "noted?" /\ Files /\ UNCHANGED stuck /\ today \in Days
  BY DEF ReadNoted, Kept, Files, SpendInv
<1>2. CASE BudgetNoted(today)
  BY <1>1, <1>2, WorkerEnded DEF ReadNoted
<1>3. CASE ~BudgetNoted(today)
  <2>1. PICK l : l = Note(today) /\ l \in BookLines /\ l.kind = "budget_noted"
    <3>1. Note(today) \in BookLines
      BY <1>1, FirstJob
    <3>2. Note(today).kind = "budget_noted"
      BY DEF Note
    <3> QED BY <3>1, <3>2
  <2>2. PICK o \in BOOLEAN : o = FALSE
    OBVIOUS
  <2>3. PICK k : k = Job("fix", o, << >>, NoPrompt, NoRequest, 0, l, 0)
    OBVIOUS
  <2>4. at' = [at EXCEPT ![w] = "say"] /\ job' = [job EXCEPT ![w] = [NoJob EXCEPT !.line = l]]
    BY <1>3, <2>1 DEF ReadNoted, Goes
  <2>5. [NoJob EXCEPT !.line = l] = Job("fix", FALSE, << >>, NoPrompt, NoRequest, 0, l, 0)
    BY JobNoting
  <2>6. [NoJob EXCEPT !.line = l] = k
    BY <2>2, <2>3, <2>5, Zenon
  <2>7. Moved(w, "say", k)
    BY <2>4, <2>6 DEF Moved
  <2>8. "fix" \in Tasks \union {"fix"}
    OBVIOUS
  <2>9. k \in Jobs
    BY <2>1, <2>3, <2>8, FirstParts, JobTyped
  <2>10. k.line = l
    BY <2>3, JobFields
  <2>11. Fine("say", k)
    BY <2>1, <2>9, <2>10 DEF Fine, Steps, Choice, Shown, Handed, Tried, Booked
  <2> QED BY <1>1, <1>3, <2>1, <2>7, <2>10, <2>11
<1> QED BY <1>2, <1>3

LEMMA SayDoes ==
  ASSUME NEW w \in Workers, SpendInv, Say(w)
  PROVE  /\ at[w] = "say" /\ Files /\ UNCHANGED stuck
         /\ \/ Moved(w, "idle", NoJob)
            \/ Moved(w, "note", job[w]) /\ Fine("note", job[w])
<1>1. at[w] = "say" /\ Files /\ UNCHANGED stuck /\ Fine("say", job[w])
      /\ job \in [Workers -> Jobs]
  BY DEF Say, Files, SpendInv
<1>2. CASE Ends(w)
  BY <1>1, <1>2, WorkerEnded
<1>3. CASE Goes(w, "note") /\ UNCHANGED job
  <2>1. Moved(w, "note", job[w])
    BY <1>1, <1>3 DEF Goes, Moved
  <2>2. Fine("note", job[w])
    BY <1>1 DEF Fine, Steps, Choice, Shown, Handed, Tried, Booked
  <2> QED BY <1>1, <2>1, <2>2
<1> QED BY <1>2, <1>3 DEF Say

LEMMA EndsDoes ==
  ASSUME NEW w \in Workers, AgentEnds(w) \/ Lost(w)
  PROVE  /\ at[w] \in {"agent", "meter", "note", "half", "post"} /\ Files /\ UNCHANGED stuck
         /\ Moved(w, "idle", NoJob)
BY WorkerEnded DEF AgentEnds, Lost, Kept, Files

\* The state after a worker's move.
LEMMA MoveInv ==
  ASSUME NEW w \in Workers, NEW a, NEW k, SpendInv, Moved(w, a, k), Fine(a, k),
         today' \in Days, file' \in Seq(Pieces), lines' \in Nat
  PROVE  SpendInv'
<1>1. a \in Steps /\ k \in Jobs
  BY DEF Fine
<1>2. at' \in [Workers -> Steps] /\ job' \in [Workers -> Jobs]
  BY <1>1 DEF SpendInv, Moved
<1>3. ASSUME NEW c \in Workers PROVE Fine(at'[c], job'[c])
  <2>1. at'[c] = (IF c = w THEN a ELSE at[c]) /\ job'[c] = (IF c = w THEN k ELSE job[c])
    BY DEF SpendInv, Moved
  <2> QED BY <2>1 DEF SpendInv
<1> QED BY <1>2, <1>3 DEF SpendInv

LEMMA QuietInv ==
  ASSUME NEW w \in Workers, NEW a, NEW k, SpendInv, Moved(w, a, k), Fine(a, k), Files
  PROVE  SpendInv'
<1>1. today' \in Days /\ file' \in Seq(Pieces) /\ lines' \in Nat
  BY DEF SpendInv, Files
<1> QED BY <1>1, MoveInv

LEMMA PieceTyped ==
  ASSUME NEW w \in Workers, SpendInv, NEW n \in Nat, NEW half \in {1, 2}, NEW p,
         p = Piece(n, half, job[w].line, w)
  PROVE  p \in Pieces /\ Append(file, p) \in Seq(Pieces)
<1>1. job[w].line \in BookLines
  BY JobIs DEF SpendInv
<1>2. p \in Pieces
  BY <1>1 DEF Piece, Pieces
<1> QED BY <1>2 DEF SpendInv

LEMMA FineAtRest ==
  ASSUME NEW w \in Workers, SpendInv
  PROVE  /\ Fine("idle", NoJob) /\ Fine(at[w], job[w])
         /\ at[w] = "idle" => Fine("noted?", job[w])
<1>1. Fine("idle", NoJob) /\ Fine(at[w], job[w])
  BY FirstJob DEF SpendInv
<1>2. at[w] = "idle" => Fine("noted?", job[w])
  BY <1>1 DEF Fine, Steps, Choice, Shown, Handed, Tried, Booked
<1> QED BY <1>1, <1>2

LEMMA SpendInvStarts == SpendInit => SpendInv
<1> SUFFICES ASSUME SpendInit PROVE SpendInv
  OBVIOUS
<1>1. today \in Days /\ lines \in Nat
  BY SpendingAssumption DEF SpendInit, Days
<1>2. file \in Seq(Pieces)
  <2>1. << >> \in Seq(Pieces)
    OBVIOUS
  <2> QED BY <2>1 DEF SpendInit
<1>3. at \in [Workers -> Steps] /\ job \in [Workers -> Jobs]
  BY FirstJob DEF SpendInit, Steps
<1>4. \A w \in Workers : at[w] = "idle" /\ job[w] = NoJob
  BY DEF SpendInit
<1> QED BY <1>1, <1>2, <1>3, <1>4, FirstJob DEF SpendInv

LEMMA SpendInvStep == SpendInv /\ [SpendNext]_ledgerVars => SpendInv'
<1> SUFFICES ASSUME SpendInv, [SpendNext]_ledgerVars PROVE SpendInv'
  OBVIOUS
<1>1. CASE UNCHANGED ledgerVars
  BY <1>1 DEF ledgerVars, SpendInv
<1>2. CASE Midnight
  BY <1>2, SpendingAssumption DEF Midnight, SpendInv, Days
<1>3. ASSUME NEW w \in Workers, Worker(w) PROVE SpendInv'
  <2>0. Fine("idle", NoJob) /\ Fine(at[w], job[w]) /\ (at[w] = "idle" => Fine("noted?", job[w]))
    BY FineAtRest
  <2>1. ASSUME NEW task \in DOMAIN Routed, NEW case \in Cases, Question(w, task, case)
        PROVE  SpendInv'
    BY <2>0, <2>1, QuestionDoes, QuietInv
  <2>2. ASSUME NEW case \in Cases, NEW name \in AgentNames, HandOff(w, case, name)
        PROVE  SpendInv'
    BY <2>0, <2>2, HandOffDoes, QuietInv
  <2>3. CASE Build(w)
    BY <2>0, <2>3, BuildDoes, QuietInv
  <2>4. CASE Post(w)
    BY <2>0, <2>4, PostDoes, QuietInv
  <2>5. CASE FirstHalf(w)
    <3>1. PICK k : Moved(w, "half", k) /\ Fine("half", k)
      BY <2>5, FirstHalfDoes
    <3>2. lines + 1 \in Nat /\ lines' = lines + 1 /\ today' = today
          /\ file' = Append(file, Piece(lines + 1, 1, job[w].line, w))
      BY <2>5, FirstHalfDoes DEF SpendInv
    <3>3. file' \in Seq(Pieces)
      BY <3>2, PieceTyped
    <3> QED BY <3>1, <3>2, <3>3, MoveInv DEF SpendInv
  <2>6. CASE SecondHalf(w)
    <3>1. job[w].id \in Nat
      BY JobIs DEF SpendInv
    <3>2. /\ lines' = lines /\ today' = today /\ Moved(w, "idle", NoJob)
          /\ file' = Append(file, Piece(job[w].id, 2, job[w].line, w))
      BY <2>6, SecondHalfDoes
    <3>3. file' \in Seq(Pieces)
      BY <3>1, <3>2, PieceTyped
    <3> QED BY <2>0, <3>2, <3>3, MoveInv DEF SpendInv
  <2>7. CASE AgentEnds(w) \/ Lost(w)
    BY <2>0, <2>7, EndsDoes, QuietInv
  <2>8. CASE ReadNoted(w)
    BY <2>0, <2>8, ReadNotedDoes, QuietInv
  <2>9. CASE Say(w)
    BY <2>0, <2>9, SayDoes, QuietInv
  <2> QED BY <1>3, <2>1, <2>2, <2>3, <2>4, <2>5, <2>6, <2>7, <2>8, <2>9 DEF Worker
<1> QED BY <1>1, <1>2, <1>3 DEF SpendNext

\* What the invariant says of the texts on their way.
LEMMA FineIsSecret ==
  ASSUME NEW w \in Workers, SpendInv, at[w] \in {"post", "agent"}
  PROVE  /\ NothingSecret(job[w].prompt.user)
         /\ at[w] = "post" /\ LocalOnly /\ ~Head(job[w].models).local =>
              NothingMasked(job[w].prompt.user)
<1>1. PICK j : j = job[w]
  OBVIOUS
<1>2. Fine(at[w], j)
  BY <1>1 DEF SpendInv
<1>3. CASE at[w] = "agent"
  <2>1. PICK case \in Cases : j.prompt = HandOffBrief(case)
    BY <1>2, <1>3 DEF Fine, Handed
  <2>2. j.prompt.user = Document(case)
    BY <2>1 DEF HandOffBrief
  <2> QED BY <1>1, <1>3, <2>2, DocumentOf
<1>4. CASE at[w] = "post"
  <2>1. PICK case \in Cases :
          /\ j.prompt = PromptFor(j.task, case)
          /\ LocalOnly /\ IsSensitive(case) => \A i \in DOMAIN j.models : j.models[i].local
    BY <1>2, <1>4 DEF Fine, Shown
  <2>2. j.prompt.user = Document(case)
    BY <2>1 DEF PromptFor
  <2>3. j.models \in Seq(Endpoint) /\ j.models # << >>
    BY <1>2, <1>4, TheModel
  <2>4. Head(j.models) = j.models[1] /\ 1 \in DOMAIN j.models
    BY <2>3
  <2>5. ASSUME LocalOnly, ~Head(j.models).local PROVE NothingMasked(Document(case))
    <3>1. ~IsSensitive(case)
      BY <2>1, <2>4, <2>5
    <3>2. Document(case).redactions \in Nat
      BY DocumentOf
    <3>3. PICK n \in Nat : n = Document(case).redactions
      BY <3>2
    <3>4. n = 0
      BY <3>1, <3>3 DEF IsSensitive
    <3> QED BY <3>3, <3>4, DocumentOf
  <2> QED BY <1>1, <2>2, <2>5, DocumentOf
<1> QED BY <1>3, <1>4

LEMMA ObjectionStarts == SpendInit => OneObjection
BY DEF SpendInit, OneObjection

LEMMA ObjectionStep == SpendInv /\ OneObjection /\ [SpendNext]_ledgerVars => OneObjection'
<1> SUFFICES ASSUME SpendInv, OneObjection, [SpendNext]_ledgerVars PROVE OneObjection'
  OBVIOUS
<1>1. CASE UNCHANGED stuck
  BY <1>1 DEF OneObjection
<1>2. CASE UNCHANGED ledgerVars
  BY <1>1, <1>2 DEF ledgerVars
<1>3. CASE Midnight
  BY <1>1, <1>3 DEF Midnight
<1>4. ASSUME NEW w \in Workers, Worker(w) PROVE OneObjection'
  <2>1. CASE Post(w)
    BY <2>1, PostDoes DEF OneObjection
  <2>2. Worker(w) /\ ~Post(w) => UNCHANGED stuck
    BY DEF Worker, Question, HandOff, AgentEnds, Build, FirstHalf, SecondHalf, Lost, ReadNoted,
           Say, Kept
  <2> QED BY <1>1, <1>4, <2>1, <2>2
<1> QED BY <1>2, <1>3, <1>4 DEF SpendNext

\* No text on its way to a model or an agent holds a secret that the patterns know,
\* and a case in which one was masked is not on its way to a model elsewhere.
THEOREM Confidential == SpendSpec => []SecretsStay
<1>1. SpendInv => SecretsStay
  BY FineIsSecret DEF SecretsStay
<1> QED BY <1>1, SpendInvStarts, SpendInvStep, PTL DEF SpendSpec

\* A server is given up for the form of a request only if it had two objections.
THEOREM AskedInForm == SpendSpec => []OneObjection
BY SpendInvStarts, SpendInvStep, ObjectionStarts, ObjectionStep, PTL DEF SpendSpec
-----------------------------------------------------------------------------
(***************************************************************************)
(* The ledger, as a function of what stands in the file.                   *)
(***************************************************************************)
ParsesIn(f, i) ==
  /\ f[i].half = 2
  /\ i > 1 /\ f[i - 1].half = 1 /\ f[i - 1].id = f[i].id
  /\ i > 2 => f[i - 2].half = 2
EntriesIn(f, kind) == {i \in DOMAIN f : ParsesIn(f, i) /\ f[i].line.kind = kind}

\* A day's note by a caller stands once.
OnceIn(f) ==
  \A i, l \in EntriesIn(f, "budget_noted") :
    i # l /\ f[i].line.day = f[l].line.day => f[i].by # f[l].by

\* Who is about to write a note has none of that day in the file.
UnnotedIn(f, w, a, j) ==
  a \in {"say", "note"} \/ (a = "half" /\ j.line.kind = "budget_noted") =>
    \A i \in EntriesIn(f, "budget_noted") : f[i].line.day = j.line.day => f[i].by # w

LEMMA EntriesAre ==
  ASSUME NEW kind
  PROVE  Entries(kind) = EntriesIn(file, kind) /\ Entries(kind)' = EntriesIn(file', kind)
<1>1. \A i : (i \in Lines <=> i \in DOMAIN file /\ ParsesIn(file, i))
  BY DEF Lines, Parses, ParsesIn
<1>2. \A i : (i \in Lines' <=> i \in DOMAIN file' /\ ParsesIn(file', i))
  BY DEF Lines, Parses, ParsesIn
<1>3. Entries(kind) = EntriesIn(file, kind)
  BY <1>1 DEF Entries, EntriesIn
<1>4. Entries(kind)' = EntriesIn(file', kind)
  BY <1>2 DEF Entries, EntriesIn
<1> QED BY <1>3, <1>4

\* A line is judged by what stands before it: one more piece changes no other.
Longer(f, p, g, n) ==
  /\ n \in Nat /\ n = Len(f) /\ DOMAIN f = 1 .. n
  /\ g \in Seq(Pieces) /\ DOMAIN g = 1 .. n + 1
  /\ \A i \in 1 .. n : g[i] = f[i] /\ (ParsesIn(g, i) <=> ParsesIn(f, i))
  /\ g[n + 1] = p
  /\ ParsesIn(g, n + 1) => p.half = 2

LEMMA LongerByOne ==
  ASSUME NEW f \in Seq(Pieces), NEW p \in Pieces, NEW g, g = Append(f, p)
  PROVE  Longer(f, p, g, Len(f))
<1>1. PICK n \in Nat : n = Len(f) /\ DOMAIN f = 1 .. n
  OBVIOUS
<1>2. g \in Seq(Pieces) /\ DOMAIN g = 1 .. n + 1 /\ (\A i \in 1 .. n : g[i] = f[i]) /\ g[n + 1] = p
  BY <1>1
<1>3. ASSUME NEW i \in 1 .. n PROVE ParsesIn(g, i) <=> ParsesIn(f, i)
  <2>1. g[i] = f[i] /\ (i > 1 => g[i - 1] = f[i - 1]) /\ (i > 2 => g[i - 2] = f[i - 2])
    <3>1. (i > 1 => i - 1 \in 1 .. n) /\ (i > 2 => i - 2 \in 1 .. n)
      BY <1>1
    <3> QED BY <1>2, <3>1
  <2> QED BY <2>1 DEF ParsesIn
<1>4. ParsesIn(g, n + 1) => p.half = 2
  BY <1>2 DEF ParsesIn
<1> QED BY <1>1, <1>2, <1>3, <1>4 DEF Longer

LEMMA EntriesNext ==
  ASSUME NEW f, NEW p, NEW g, NEW n, Longer(f, p, g, n), NEW kind
  PROVE  /\ EntriesIn(g, kind) \subseteq EntriesIn(f, kind) \union {n + 1}
         /\ EntriesIn(f, kind) \subseteq 1 .. n
         /\ n + 1 \in EntriesIn(g, kind) => p.half = 2 /\ p.line.kind = kind
<1>2. /\ DOMAIN g = 1 .. n + 1 /\ n \in Nat /\ DOMAIN f = 1 .. n
      /\ \A i \in 1 .. n : g[i] = f[i] /\ (ParsesIn(g, i) <=> ParsesIn(f, i))
      /\ g[n + 1] = p /\ (ParsesIn(g, n + 1) => p.half = 2)
  BY DEF Longer
<1>3. ASSUME NEW i \in EntriesIn(g, kind) PROVE i \in EntriesIn(f, kind) \/ i = n + 1
  <2>1. i \in 1 .. n + 1 /\ ParsesIn(g, i) /\ g[i].line.kind = kind
    BY <1>2 DEF EntriesIn
  <2>2. i \in 1 .. n \/ i = n + 1
    BY <1>2, <2>1
  <2> QED BY <1>2, <2>1, <2>2 DEF EntriesIn
<1>4. n + 1 \in EntriesIn(g, kind) => p.half = 2 /\ p.line.kind = kind
  BY <1>2 DEF EntriesIn
<1>5. EntriesIn(f, kind) \subseteq 1 .. n
  BY <1>2 DEF EntriesIn
<1> QED BY <1>3, <1>4, <1>5

\* One piece more: of the first half nothing is read; of the second, what its
\* writer may write.
LEMMA OnceNext ==
  ASSUME NEW f, NEW p, NEW g, NEW n, Longer(f, p, g, n), OnceIn(f),
         p.half = 2 /\ p.line.kind = "budget_noted" =>
           \A i \in EntriesIn(f, "budget_noted") : f[i].line.day = p.line.day => f[i].by # p.by
  PROVE  OnceIn(g)
<1> DEFINE E == EntriesIn(f, "budget_noted")  F == EntriesIn(g, "budget_noted")
<1>2. /\ F \subseteq E \union {n + 1} /\ E \subseteq 1 .. n
      /\ (\A i \in 1 .. n : g[i] = f[i]) /\ g[n + 1] = p
      /\ n + 1 \in F => p.half = 2 /\ p.line.kind = "budget_noted"
  <2>1. /\ F \subseteq E \union {n + 1} /\ E \subseteq 1 .. n
        /\ n + 1 \in F => p.half = 2 /\ p.line.kind = "budget_noted"
    BY EntriesNext
  <2>2. (\A i \in 1 .. n : g[i] = f[i]) /\ g[n + 1] = p
    BY DEF Longer
  <2> QED BY <2>1, <2>2
<1>3. \A i \in E : g[i] = f[i]
  BY <1>2
<1>4. \A i, l \in E : i # l /\ f[i].line.day = f[l].line.day => f[i].by # f[l].by
  BY DEF OnceIn
<1>5. n + 1 \in F => \A i \in E : f[i].line.day = p.line.day => f[i].by # p.by
  BY <1>2
<1> HIDE DEF E, F
<1>6. ASSUME NEW i \in F, NEW l \in F, i # l, g[i].line.day = g[l].line.day
      PROVE  g[i].by # g[l].by
  <2>1. CASE i \in E /\ l \in E
    BY <1>3, <1>4, <1>6, <2>1
  <2>2. CASE i = n + 1 /\ l \in E
    BY <1>2, <1>3, <1>5, <1>6, <2>2
  <2>3. CASE l = n + 1 /\ i \in E
    BY <1>2, <1>3, <1>5, <1>6, <2>3
  <2> QED BY <1>2, <1>6, <2>1, <2>2, <2>3
<1> QED BY <1>6 DEF OnceIn, F

LEMMA UnnotedNext ==
  ASSUME NEW f, NEW p, NEW g, NEW n, Longer(f, p, g, n),
         NEW c, NEW a, NEW j, UnnotedIn(f, c, a, j),
         p.half = 1 \/ p.by # c
  PROVE  UnnotedIn(g, c, a, j)
<1> DEFINE E == EntriesIn(f, "budget_noted")  F == EntriesIn(g, "budget_noted")
<1>2. /\ F \subseteq E \union {n + 1} /\ E \subseteq 1 .. n
      /\ (\A i \in 1 .. n : g[i] = f[i]) /\ g[n + 1] = p
      /\ n + 1 \in F => p.half = 2
  <2>1. /\ F \subseteq E \union {n + 1} /\ E \subseteq 1 .. n
        /\ n + 1 \in F => p.half = 2 /\ p.line.kind = "budget_noted"
    BY EntriesNext
  <2>2. (\A i \in 1 .. n : g[i] = f[i]) /\ g[n + 1] = p
    BY DEF Longer
  <2> QED BY <2>1, <2>2
<1>3. ASSUME NEW i \in F PROVE (i \in E /\ g[i] = f[i]) \/ (i = n + 1 /\ g[i].by # c)
  <2> HIDE DEF E, F
  <2>1. CASE i \in E
    BY <1>2, <2>1
  <2>2. CASE i = n + 1
    BY <1>2, <2>2
  <2> QED BY <1>2, <2>1, <2>2
<1> QED BY <1>3 DEF UnnotedIn

NotesKept ==
  /\ OnceIn(file)
  /\ \A c \in Workers : UnnotedIn(file, c, at[c], job[c])

LEMMA NotesStart == SpendInit => NotesKept
<1> SUFFICES ASSUME SpendInit PROVE NotesKept
  OBVIOUS
<1>1. EntriesIn(file, "budget_noted") = {}
  BY DEF SpendInit, EntriesIn
<1> QED BY <1>1 DEF NotesKept, OnceIn, UnnotedIn

\* A worker's move that leaves the file alone.
LEMMA NotesQuiet ==
  ASSUME NEW w \in Workers, NEW a, NEW k, SpendInv, NotesKept, Moved(w, a, k), Files,
         UnnotedIn(file, w, a, k)
  PROVE  NotesKept'
<1>1. file' = file
  BY DEF Files
<1>2. ASSUME NEW c \in Workers PROVE UnnotedIn(file, c, at'[c], job'[c])
  <2>1. at'[c] = (IF c = w THEN a ELSE at[c]) /\ job'[c] = (IF c = w THEN k ELSE job[c])
    BY DEF SpendInv, Moved
  <2> QED BY <2>1 DEF NotesKept
<1> QED BY <1>1, <1>2 DEF NotesKept

LEMMA NotesStep == SpendInv /\ NotesKept /\ [SpendNext]_ledgerVars => NotesKept'
<1> SUFFICES ASSUME SpendInv, NotesKept, [SpendNext]_ledgerVars PROVE NotesKept'
  OBVIOUS
<1>1. CASE UNCHANGED <<file, at, job>>
  BY <1>1 DEF NotesKept
<1>2. CASE UNCHANGED ledgerVars
  BY <1>1, <1>2 DEF ledgerVars
<1>3. CASE Midnight
  BY <1>1, <1>3 DEF Midnight
<1>4. ASSUME NEW w \in Workers, Worker(w) PROVE NotesKept'
  <2>0. /\ \A a, k : a \notin {"say", "note", "half"} => UnnotedIn(file, w, a, k)
        /\ UnnotedIn(file, w, at[w], job[w])
    BY DEF UnnotedIn, NotesKept
  <2>1. ASSUME NEW task \in DOMAIN Routed, NEW case \in Cases, Question(w, task, case)
        PROVE  NotesKept'
    BY <2>0, <2>1, QuestionDoes, NotesQuiet
  <2>2. ASSUME NEW case \in Cases, NEW name \in AgentNames, HandOff(w, case, name)
        PROVE  NotesKept'
    BY <2>0, <2>2, HandOffDoes, NotesQuiet
  <2>3. CASE Build(w)
    BY <2>0, <2>3, BuildDoes, NotesQuiet
  <2>4. CASE Post(w)
    BY <2>0, <2>4, PostDoes, NotesQuiet
  <2>5. CASE FirstHalf(w)
    <3>1. PICK k : Moved(w, "half", k) /\ k.line = job[w].line
      BY <2>5, FirstHalfDoes
    <3>2. /\ at[w] \in {"meter", "note"} /\ lines + 1 \in Nat
          /\ file' = Append(file, Piece(lines + 1, 1, job[w].line, w))
      BY <2>5, FirstHalfDoes DEF SpendInv
    <3>3. PICK p \in Pieces : p = Piece(lines + 1, 1, job[w].line, w) /\ file' = Append(file, p)
      BY <3>2, PieceTyped
    <3>4. p.half = 1
      BY <3>3 DEF Piece
    <3>5. file \in Seq(Pieces) /\ OnceIn(file)
      BY DEF SpendInv, NotesKept
    <3>6. OnceIn(file')
      <4>1. p.half # 2
        BY <3>4
      <4>2. Longer(file, p, file', Len(file))
        BY <3>3, <3>5, LongerByOne
      <4> QED BY <3>5, <4>1, <4>2, OnceNext
    <3>7. ASSUME NEW c \in Workers PROVE UnnotedIn(file', c, at'[c], job'[c])
      <4>1. at'[c] = (IF c = w THEN "half" ELSE at[c]) /\ job'[c] = (IF c = w THEN k ELSE job[c])
        BY <3>1 DEF SpendInv, Moved
      <4>2. UnnotedIn(file, c, at[c], job[c])
        BY DEF NotesKept
      <4>3. UnnotedIn(file, c, at'[c], job'[c])
        <5>1. at[w] = "meter" => job[w].line.kind = "call"
          BY DEF SpendInv, Fine, Booked
        <5>2. UnnotedIn(file, w, "half", k)
          BY <2>0, <3>1, <3>2, <5>1 DEF UnnotedIn
        <5> QED BY <4>1, <4>2, <5>2
      <4>4. Longer(file, p, file', Len(file))
        BY <3>3, <3>5, LongerByOne
      <4> QED BY <3>4, <4>3, <4>4, UnnotedNext
    <3> QED BY <3>6, <3>7 DEF NotesKept
  <2>6. CASE SecondHalf(w)
    <3>1. job[w].id \in Nat /\ job[w] \in Jobs
      BY JobIs DEF SpendInv
    <3>2. /\ at[w] = "half" /\ Moved(w, "idle", NoJob)
          /\ file' = Append(file, Piece(job[w].id, 2, job[w].line, w))
      BY <2>6, SecondHalfDoes
    <3>3. PICK p \in Pieces : p = Piece(job[w].id, 2, job[w].line, w) /\ file' = Append(file, p)
      BY <3>1, <3>2, PieceTyped
    <3>4. p.line = job[w].line /\ p.by = w
      BY <3>3 DEF Piece
    <3>5. file \in Seq(Pieces) /\ OnceIn(file)
      BY DEF SpendInv, NotesKept
    <3>6. OnceIn(file')
      <4>1. p.line.kind = "budget_noted" =>
              \A i \in EntriesIn(file, "budget_noted") :
                file[i].line.day = p.line.day => file[i].by # p.by
        BY <2>0, <3>2, <3>4 DEF UnnotedIn
      <4>2. Longer(file, p, file', Len(file))
        BY <3>3, <3>5, LongerByOne
      <4> QED BY <3>5, <4>1, <4>2, OnceNext
    <3>7. ASSUME NEW c \in Workers PROVE UnnotedIn(file', c, at'[c], job'[c])
      <4>1. at'[c] = (IF c = w THEN "idle" ELSE at[c]) /\ job'[c] = (IF c = w THEN NoJob ELSE job[c])
        BY <3>2 DEF SpendInv, Moved
      <4>2. CASE c = w
        BY <4>1, <4>2 DEF UnnotedIn
      <4>3. CASE c # w
        <5>1. UnnotedIn(file, c, at[c], job[c])
          BY DEF NotesKept
        <5>2. Longer(file, p, file', Len(file))
          BY <3>3, <3>5, LongerByOne
        <5> QED BY <3>4, <4>1, <4>3, <5>1, <5>2, UnnotedNext
      <4> QED BY <4>2, <4>3
    <3> QED BY <3>6, <3>7 DEF NotesKept
  <2>7. CASE AgentEnds(w) \/ Lost(w)
    BY <2>0, <2>7, EndsDoes, NotesQuiet
  <2>8. CASE ReadNoted(w)
    <3>1. CASE Moved(w, "idle", NoJob)
      BY <2>0, <2>8, <3>1, ReadNotedDoes, NotesQuiet
    <3>2. ASSUME NEW k, Moved(w, "say", k), k.line = Note(today), ~BudgetNoted(today)
          PROVE  NotesKept'
      <4>1. k.line.day = today
        <5>1. Note(today).day = today
          BY DEF Note
        <5> QED BY <3>2, <5>1
      <4>2. \A i \in EntriesIn(file, "budget_noted") : file[i].line.day # today
        BY <3>2, EntriesAre DEF BudgetNoted
      <4>3. UnnotedIn(file, w, "say", k)
        BY <4>1, <4>2 DEF UnnotedIn
      <4> QED BY <2>8, <3>2, <4>3, ReadNotedDoes, NotesQuiet
    <3> QED BY <2>8, <3>1, <3>2, ReadNotedDoes
  <2>9. CASE Say(w)
    <3>1. at[w] = "say" /\ Files /\ (Moved(w, "idle", NoJob) \/ Moved(w, "note", job[w]))
      BY <2>9, SayDoes
    <3>2. UnnotedIn(file, w, "note", job[w])
      BY <2>0, <3>1 DEF UnnotedIn
    <3> QED BY <2>0, <3>1, <3>2, NotesQuiet
  <2> QED BY <1>4, <2>1, <2>2, <2>3, <2>4, <2>5, <2>6, <2>7, <2>8, <2>9 DEF Worker
<1> QED BY <1>2, <1>3, <1>4 DEF SpendNext

\* Only those who read the ledger before a day's first note stood in it write
\* another, and none of them two, whatever was torn.
THEOREM NotedOnce == SpendSpec => []NotedOnceEach
<1>1. NotesKept => NotedOnceEach
  BY EntriesAre DEF NotesKept, OnceIn, NotedOnceEach
<1> QED BY <1>1, SpendInvStarts, SpendInvStep, NotesStart, NotesStep, PTL DEF SpendSpec
-----------------------------------------------------------------------------
(***************************************************************************)
(* What is spent, and the promise of Budget.                               *)
(***************************************************************************)
\* A finite set of naturals that is not empty has a greatest one.
LEMMA GreatestOf ==
  ASSUME NEW S \in SUBSET Nat, S # {}, IsFiniteSet(S)
  PROVE  \E x \in S : \A y \in S : y <= x
<1>0. PICK n \in Nat : ExistsBijection(1 .. n, S)
  BY FS_NatBijection
<1>1. PICK f : f \in Surjection(1 .. n, S)
  <2>1. PICK f : f \in Bijection(1 .. n, S)
    BY <1>0 DEF ExistsBijection
  <2> QED BY <2>1 DEF Bijection
<1>2. /\ \A i \in 1 .. n : f[i] \in Nat
      /\ \A y \in S : \E i \in 1 .. n : f[i] = y
  BY <1>1 DEF Surjection
<1> DEFINE G == {k \in Nat : \E u \in Nat : \A i \in 1 .. k : i \in 1 .. n => f[i] <= u}
<1>3. 0 \in G
  OBVIOUS
<1>4. ASSUME NEW k \in 0 .. n - 1, k \in G PROVE k + 1 \in G
  <2>1. PICK u \in Nat : \A i \in 1 .. k : i \in 1 .. n => f[i] <= u
    BY <1>4
  <2>2. PICK v \in Nat : v = f[k + 1]
    BY <1>2
  <2>3. \A i \in 1 .. k + 1 : i \in 1 .. k \/ i = k + 1
    OBVIOUS
  <2>4. \A i \in 1 .. k + 1 : i \in 1 .. n => f[i] <= u + v
    BY <1>2, <2>1, <2>2, <2>3
  <2>5. u + v \in Nat /\ k + 1 \in Nat
    OBVIOUS
  <2> QED BY <2>4, <2>5
<1>5. n \in G
  <2> HIDE DEF G
  <2>1. G \in SUBSET Nat
    BY DEF G
  <2>2. \A k \in 0 .. n - 1 : k \in G => k + 1 \in G
    BY <1>4
  <2>3. \A k \in 0 .. n : k \in G
    BY <1>3, <2>1, <2>2, Climbs
  <2> QED BY <2>3
<1> DEFINE U == {u \in Nat : \A y \in S : y <= u}
<1>6. U # {} /\ U \in SUBSET Nat
  BY <1>2, <1>5
<1>7. PICK x \in U : \A u \in U : x <= u
  <2> HIDE DEF U
  <2> QED BY <1>6, LeastOf
<1>8. SUFFICES ASSUME x \notin S PROVE FALSE
  BY <1>7
<1>9. PICK s \in S : s \in Nat
  OBVIOUS
<1>10. x \in Nat /\ \A y \in S : y <= x /\ y # x /\ y \in Nat
  BY <1>7, <1>8
<1>11. x - 1 \in Nat /\ \A y \in S : y <= x - 1
  BY <1>9, <1>10
<1>12. x - 1 \in U
  BY <1>11
<1> QED BY <1>7, <1>10, <1>12

LEMMA PricesFinite == IsFiniteSet(Prices) /\ Prices \in SUBSET Nat /\ 0 \in Prices
<1> DEFINE Of(task) == {m.price : m \in ToSet(Routed[task])}
           All == {Of(task) : task \in DOMAIN Routed}
<1>1. ASSUME NEW task \in DOMAIN Routed PROVE IsFiniteSet(Of(task)) /\ Of(task) \in SUBSET Nat
  <2>1. PICK q \in Seq(Endpoint) : q = Routed[task]
    BY SpendingAssumption
  <2>2. Of(task) = {q[i].price : i \in 1 .. Len(q)} /\ Len(q) \in Nat
    <3>1. ToSet(q) = {q[i] : i \in 1 .. Len(q)} /\ Len(q) \in Nat
      BY DEF ToSet
    <3> QED BY <2>1, <3>1
  <2>3. PICK f : f = [i \in 1 .. Len(q) |-> q[i].price]
    OBVIOUS
  <2>4. f \in Surjection(1 .. Len(q), Of(task))
    BY <2>2, <2>3 DEF Surjection
  <2>5. IsFiniteSet(1 .. Len(q))
    BY <2>2, FS_Interval
  <2>6. IsFiniteSet(Of(task))
    <3> HIDE DEF Of
    <3> QED BY <2>4, <2>5, FS_Surjection
  <2>7. \A i \in 1 .. Len(q) : q[i].price \in Nat
    <3>1. \A i \in 1 .. Len(q) : q[i] \in Endpoint
      OBVIOUS
    <3>2. \A m \in Endpoint : m.price \in Nat
      BY DEF Endpoint
    <3> QED BY <3>1, <3>2
  <2> QED BY <2>2, <2>6, <2>7
<1>2. IsFiniteSet(All)
  <2>1. PICK f : f = [task \in DOMAIN Routed |-> Of(task)]
    OBVIOUS
  <2> HIDE DEF Of
  <2>2. f \in Surjection(DOMAIN Routed, All)
    BY <2>1 DEF Surjection
  <2>3. IsFiniteSet(DOMAIN Routed)
    BY SpendingAssumption
  <2> HIDE DEF All
  <2> QED BY <2>2, <2>3, FS_Surjection
<1>3. \A T \in All : IsFiniteSet(T) /\ T \in SUBSET Nat
  BY <1>1
<1>4. Prices = {0} \union UNION All
  BY DEF Prices
<1>5. IsFiniteSet(UNION All)
  <2> HIDE DEF All
  <2> QED BY <1>2, <1>3, FS_UNION
<1>6. IsFiniteSet({0} \union UNION All)
  <2> HIDE DEF All
  <2>1. PICK T : T = UNION All
    OBVIOUS
  <2>2. IsFiniteSet(T \union {0})
    BY <1>5, <2>1, FS_AddElement
  <2>3. T \union {0} = {0} \union T
    OBVIOUS
  <2> QED BY <2>1, <2>2, <2>3
<1>7. UNION All \in SUBSET Nat
  <2> HIDE DEF All
  <2> QED BY <1>3
<1> HIDE DEF All
<1> QED BY <1>4, <1>6, <1>7

LEMMA MaxPriceIs == MaxPrice \in Nat /\ \A q \in Prices : q <= MaxPrice
<1>1. \E p \in Prices : \A q \in Prices : q <= p
  BY PricesFinite, GreatestOf
<1>2. MaxPrice \in Prices /\ \A q \in Prices : q <= MaxPrice
  BY <1>1 DEF MaxPrice
<1> QED BY <1>2, PricesFinite

\* What a file says was spent since a day.
CountsIn(f, d, i) == ParsesIn(f, i) /\ f[i].line.kind = "call" /\ f[i].line.day >= d
PricedIn(f, i) == IF f[i].line.unpriced THEN 0 ELSE f[i].line.cost
PaidIn(f, d) == [i \in DOMAIN f |-> IF CountsIn(f, d, i) THEN PricedIn(f, i) ELSE 0]
SpentIn(f, d) == Total(PaidIn(f, d))

LEMMA SpentIs ==
  ASSUME NEW d
  PROVE  SpentSince(d) = SpentIn(file, d) /\ SpentSince(d)' = SpentIn(file', d)
<1>1. \A i : i \in CallsSince(d) <=> i \in DOMAIN file /\ CountsIn(file, d, i)
  BY DEF CallsSince, Entries, Lines, Parses, ParsesIn, CountsIn
<1>2. \A i : i \in CallsSince(d)' <=> i \in DOMAIN file' /\ CountsIn(file', d, i)
  BY DEF CallsSince, Entries, Lines, Parses, ParsesIn, CountsIn
<1>3. [i \in DOMAIN file |-> IF i \in CallsSince(d) THEN Priced(i) ELSE 0] = PaidIn(file, d)
  BY <1>1 DEF Priced, PricedIn, PaidIn
<1>4. [i \in DOMAIN file' |-> IF i \in CallsSince(d)' THEN Priced(i)' ELSE 0] = PaidIn(file', d)
  BY <1>2 DEF Priced, PricedIn, PaidIn
<1>5. SpentSince(d) = SpentIn(file, d)
  BY <1>3 DEF SpentSince, SpentIn
<1>6. SpentSince(d)' = SpentIn(file', d)
  BY <1>4 DEF SpentSince, SpentIn
<1> QED BY <1>5, <1>6

LEMMA PieceIs ==
  ASSUME NEW p \in Pieces
  PROVE  /\ p.line.day \in Days /\ p.line.cost \in Prices /\ p.line.cost \in Nat
         /\ p.id \in Nat /\ p.by \in Workers /\ p.half \in {1, 2}
BY PricesFinite DEF Pieces, BookLines

LEMMA SpentNat ==
  ASSUME NEW f \in Seq(Pieces), NEW d
  PROVE  SpentIn(f, d) \in Nat
<1>1. PICK n \in Nat : n = Len(f) /\ DOMAIN f = 1 .. n
  OBVIOUS
<1>2. ASSUME NEW i \in 1 .. n PROVE PricedIn(f, i) \in Nat
  <2>1. f[i] \in Pieces
    BY <1>1
  <2> QED BY <2>1, PieceIs DEF PricedIn
<1>3. PaidIn(f, d) \in [1 .. n -> Nat]
  BY <1>1, <1>2 DEF PaidIn
<1> QED BY <1>3, TotalOf DEF SpentIn

\* One piece more adds what it books, from its day on.
LEMMA SpentNext ==
  ASSUME NEW f \in Seq(Pieces), NEW p \in Pieces, NEW g, NEW n, Longer(f, p, g, n), NEW d
  PROVE  SpentIn(g, d) = SpentIn(f, d) + IF CountsIn(g, d, n + 1) THEN PricedIn(g, n + 1) ELSE 0
<1>1. /\ n \in Nat /\ DOMAIN f = 1 .. n /\ DOMAIN g = 1 .. n + 1
      /\ \A i \in 1 .. n : g[i] = f[i] /\ (ParsesIn(g, i) <=> ParsesIn(f, i))
  BY DEF Longer
<1>2. PICK q, r : q = PaidIn(f, d) /\ r = PaidIn(g, d)
  OBVIOUS
<1>3. DOMAIN q = 1 .. n /\ DOMAIN r = 1 .. n + 1
  BY <1>1, <1>2 DEF PaidIn
<1>4. \A i \in 1 .. n : r[i] = q[i]
  BY <1>1, <1>2 DEF PaidIn, CountsIn, PricedIn
<1>5. r[n + 1] = IF CountsIn(g, d, n + 1) THEN PricedIn(g, n + 1) ELSE 0
  BY <1>1, <1>2 DEF PaidIn
<1>6. Total(r) = Total(q) + r[n + 1]
  BY <1>1, <1>3, <1>4, TotalNext
<1> QED BY <1>2, <1>5, <1>6 DEF SpentIn

(***************************************************************************)
(* Each step of a worker is a step of Budget's caller, or none.            *)
(***************************************************************************)
ClearedIn(a, j) ==
  (a \in {"build", "post", "meter"} \/ (a = "half" /\ j.line.kind = "call")) /\ ~j.over
TurnOf(a, j) ==
  IF ~ClearedIn(a, j) THEN "idle"
  ELSE IF a = "build" /\ j.req = NoRequest THEN "cleared" ELSE "calling"
BeganOf(a, j) ==
  IF ~ClearedIn(a, j) THEN 0
  ELSE IF a \in {"meter", "half"} THEN j.line.day ELSE j.started

\* What a file says was spent on a day.
OnDay(f, d) == SpentIn(f, d) - SpentIn(f, d + 1)

LEMMA MappingIs ==
  /\ Spent = [d \in Days |-> OnDay(file, d)] /\ Spent' = [d \in Days |-> OnDay(file', d)]
  /\ Turn = [w \in Workers |-> TurnOf(at[w], job[w])]
  /\ Turn' = [w \in Workers |-> TurnOf(at'[w], job'[w])]
  /\ Began = [w \in Workers |-> BeganOf(at[w], job[w])]
  /\ Began' = [w \in Workers |-> BeganOf(at'[w], job'[w])]
<1>1. ASSUME NEW d PROVE /\ SpentSince(d) - SpentSince(d + 1) = OnDay(file, d)
                         /\ SpentSince(d)' - SpentSince(d + 1)' = OnDay(file', d)
  <2>1. SpentSince(d) = SpentIn(file, d) /\ SpentSince(d)' = SpentIn(file', d)
    BY SpentIs
  <2>2. PICK c : c = d + 1
    OBVIOUS
  <2>3. SpentSince(c) = SpentIn(file, c) /\ SpentSince(c)' = SpentIn(file', c)
    BY SpentIs
  <2> QED BY <2>1, <2>2, <2>3 DEF OnDay
<1>2. Spent = [d \in Days |-> OnDay(file, d)]
  BY <1>1 DEF Spent
<1>3. Spent' = [d \in Days |-> OnDay(file', d)]
  BY <1>1 DEF Spent, Days
<1>4. \A w \in Workers : /\ Cleared(w) <=> ClearedIn(at[w], job[w])
                         /\ Cleared(w)' <=> ClearedIn(at'[w], job'[w])
  BY DEF Cleared, ClearedIn
<1>5. Turn = [w \in Workers |-> TurnOf(at[w], job[w])]
      /\ Turn' = [w \in Workers |-> TurnOf(at'[w], job'[w])]
  BY <1>4 DEF Turn, TurnOf
<1>6. Began = [w \in Workers |-> BeganOf(at[w], job[w])]
      /\ Began' = [w \in Workers |-> BeganOf(at'[w], job'[w])]
  BY <1>4 DEF Began, BeganOf
<1> QED BY <1>2, <1>3, <1>5, <1>6

\* A worker's move changes its own turn and day.
LEMMA TurnMoves ==
  ASSUME NEW w \in Workers, NEW a, NEW k, SpendInv, Moved(w, a, k)
  PROVE  /\ Turn' = [Turn EXCEPT ![w] = TurnOf(a, k)]
         /\ Began' = [Began EXCEPT ![w] = BeganOf(a, k)]
         /\ Turn[w] = TurnOf(at[w], job[w]) /\ Began[w] = BeganOf(at[w], job[w])
<1>1. \A c \in Workers : at'[c] = (IF c = w THEN a ELSE at[c])
                         /\ job'[c] = (IF c = w THEN k ELSE job[c])
  BY DEF SpendInv, Moved
<1> QED BY <1>1, MappingIs

LEMMA TurnRests ==
  ASSUME NEW w \in Workers, NEW a, NEW k, SpendInv, Moved(w, a, k),
         TurnOf(a, k) = TurnOf(at[w], job[w]), BeganOf(a, k) = BeganOf(at[w], job[w])
  PROVE  UNCHANGED <<Turn, Began>>
<1>1. DOMAIN Turn = Workers /\ DOMAIN Began = Workers
      /\ Turn = [c \in Workers |-> Turn[c]] /\ Began = [c \in Workers |-> Began[c]]
  BY MappingIs
<1>2. Turn' = [Turn EXCEPT ![w] = Turn[w]] /\ Began' = [Began EXCEPT ![w] = Began[w]]
  BY TurnMoves
<1> QED BY <1>1, <1>2

LEMMA SpentRests == ASSUME file' = file PROVE Spent' = Spent
BY MappingIs

LEMMA PurseRests ==
  ASSUME NEW w \in Workers, NEW a, NEW k, SpendInv, Moved(w, a, k), Files,
         TurnOf(a, k) = TurnOf(at[w], job[w]), BeganOf(a, k) = BeganOf(at[w], job[w])
  PROVE  UNCHANGED Promise!purse
BY TurnRests, SpentRests DEF Files, Promise!purse

\* A worker that stops gives up its turn, if it had one.
LEMMA IdleIs == TurnOf("idle", NoJob) = "idle" /\ BeganOf("idle", NoJob) = 0
BY DEF TurnOf, BeganOf, ClearedIn

LEMMA StopGivesUp ==
  ASSUME NEW w \in Workers, SpendInv, Moved(w, "idle", NoJob), Spent' = Spent, today' = today
  PROVE  Promise!GiveUp(w) \/ UNCHANGED Promise!purse
<1>1. CASE Turn[w] = "idle"
  <2>1. TurnOf(at[w], job[w]) = "idle"
    BY <1>1, TurnMoves
  <2>2. BeganOf(at[w], job[w]) = 0
    BY <2>1 DEF TurnOf, BeganOf
  <2> QED BY <2>1, <2>2, IdleIs, TurnRests DEF Promise!purse
<1>2. CASE Turn[w] # "idle"
  <2>1. Turn' = [Turn EXCEPT ![w] = "idle"] /\ Began' = [Began EXCEPT ![w] = 0]
    BY IdleIs, TurnMoves
  <2> QED BY <1>2, <2>1 DEF Promise!GiveUp, Promise!Returns
<1> QED BY <1>1, <1>2

\* What is being asked is a request, and a booking comes from an answer.
LEMMA AskedFor ==
  ASSUME NEW w \in Workers, SpendInv
  PROVE  /\ at[w] = "post" => job[w].req # NoRequest
         /\ at[w] = "meter" => job[w].line.kind = "call"
         /\ at[w] = "note" => job[w].line.kind = "budget_noted"
<1>1. PICK j, m : j = job[w] /\ m = Head(j.models)
  OBVIOUS
<1>2. Fine(at[w], j)
  BY <1>1 DEF SpendInv
<1>3. ASSUME at[w] = "post" PROVE j.req # NoRequest
  <2>1. AsMade(m, j.task, j.req) \/ Reworded(m, j.task, j.req) \/ Simplified(m, j.task, j.req)
    BY <1>1, <1>2, <1>3 DEF Fine, Tried
  <2>2. NoRequest.limit = "none" /\ NoRequest.again = FALSE
    BY DEF NoRequest
  <2>3. PICK r : r = Request(m, j.task)
    OBVIOUS
  <2>4. Forms(r, m, j.task)
    BY <2>3, RequestKnown
  <2>5. r.limit # "none" /\ Renamed(r).again # NoRequest.again /\ Plain(r).again # NoRequest.again
    <3>1. r.limit = LimitField(m) /\ Renamed(r).again = TRUE /\ Plain(r).again = TRUE
      BY <2>4 DEF Forms
    <3>2. LimitField(m) # "none"
      BY DEF LimitField
    <3> QED BY <2>2, <3>1, <3>2
  <2> QED BY <2>1, <2>2, <2>3, <2>5 DEF AsMade, Reworded, Simplified
<1> QED BY <1>1, <1>2, <1>3 DEF Fine, Booked

\* A piece more books at most a call's price, on the day of its line.
Books(f, p, g) ==
  \E cost \in 0 .. MaxPrice :
    /\ \A d \in Days : OnDay(g, d) = OnDay(f, d) + IF d = p.line.day THEN cost ELSE 0
    /\ p.half = 1 \/ p.line.kind # "call" \/ p.line.cost = 0 => cost = 0

LEMMA BooksOne ==
  ASSUME NEW f \in Seq(Pieces), NEW p \in Pieces, NEW g, g = Append(f, p)
  PROVE  Books(f, p, g)
<1>1. PICK n : Longer(f, p, g, n)
  BY LongerByOne
<1>2. g[n + 1] = p /\ (ParsesIn(g, n + 1) => p.half = 2) /\ g \in Seq(Pieces)
  BY <1>1 DEF Longer
<1>3. PICK cost : cost = IF ParsesIn(g, n + 1) /\ p.line.kind = "call" /\ ~p.line.unpriced
                         THEN p.line.cost ELSE 0
  OBVIOUS
<1>4. /\ p.line.day \in Days /\ p.line.cost \in Prices /\ p.line.cost \in Nat /\ MaxPrice \in Nat
      /\ \A q \in Prices : q <= MaxPrice
  BY PieceIs, MaxPriceIs
<1>5. cost \in 0 .. MaxPrice
  BY <1>3, <1>4
<1>6. p.half = 1 \/ p.line.kind # "call" \/ p.line.cost = 0 => cost = 0
  BY <1>2, <1>3
<1>7. ASSUME NEW d \in Nat
      PROVE  /\ SpentIn(g, d) = SpentIn(f, d) + IF p.line.day >= d THEN cost ELSE 0
             /\ SpentIn(f, d) \in Nat
  <2>1. SpentIn(g, d) = SpentIn(f, d) + IF CountsIn(g, d, n + 1) THEN PricedIn(g, n + 1) ELSE 0
    BY <1>1, SpentNext
  <2>2. (IF CountsIn(g, d, n + 1) THEN PricedIn(g, n + 1) ELSE 0)
          = IF p.line.day >= d THEN cost ELSE 0
    BY <1>2, <1>3 DEF CountsIn, PricedIn
  <2> QED BY <2>1, <2>2, SpentNat
<1>8. ASSUME NEW d \in Days PROVE OnDay(g, d) = OnDay(f, d) + IF d = p.line.day THEN cost ELSE 0
  <2>1. d \in Nat /\ d + 1 \in Nat /\ p.line.day \in Nat /\ cost \in Nat
    BY <1>4, <1>5, SpendingAssumption DEF Days
  <2>2. PICK e \in Nat : e = d + 1
    BY <2>1
  <2>3. PICK u \in Nat, v \in Nat, booked \in Nat : u = SpentIn(f, d) /\ v = SpentIn(f, e) /\ booked = p.line.day
    BY <1>7, <2>1
  <2>4. SpentIn(g, d) = u + (IF booked >= d THEN cost ELSE 0)
        /\ SpentIn(g, e) = v + (IF booked >= e THEN cost ELSE 0)
    BY <1>7, <2>1, <2>3
  <2>5. OnDay(g, d) = SpentIn(g, d) - SpentIn(g, e) /\ OnDay(f, d) = u - v
    BY <2>2, <2>3 DEF OnDay
  <2>6. PICK c \in Nat : c = cost
    BY <2>1
  <2>7. SpentIn(g, d) = u + (IF booked >= d THEN c ELSE 0)
        /\ SpentIn(g, e) = v + (IF booked >= e THEN c ELSE 0)
    BY <2>4, <2>6
  <2>8. d \in Nat
    BY <2>1
  <2>9. (u + (IF booked >= d THEN c ELSE 0)) - (v + (IF booked >= e THEN c ELSE 0))
          = (u - v) + IF d = booked THEN c ELSE 0
    BY <2>2, <2>8
  <2> QED BY <2>3, <2>5, <2>6, <2>7, <2>9
<1> QED BY <1>5, <1>6, <1>8 DEF Books

LEMMA SpentBooks ==
  ASSUME NEW w \in Workers, SpendInv, NEW n \in Nat, NEW half \in {1, 2},
         file' = Append(file, Piece(n, half, job[w].line, w))
  PROVE  \E cost \in 0 .. MaxPrice :
           /\ Spent' = [Spent EXCEPT ![job[w].line.day] = @ + cost]
           /\ half = 1 \/ job[w].line.kind # "call" \/ job[w].line.cost = 0 => Spent' = Spent
<1>1. PICK p : p = Piece(n, half, job[w].line, w)
  OBVIOUS
<1>2. p \in Pieces /\ file \in Seq(Pieces) /\ p.line = job[w].line /\ p.half = half
  BY <1>1, PieceTyped DEF Piece, SpendInv
<1>3. PICK cost \in 0 .. MaxPrice :
        /\ \A d \in Days : OnDay(file', d) = OnDay(file, d) + IF d = p.line.day THEN cost ELSE 0
        /\ p.half = 1 \/ p.line.kind # "call" \/ p.line.cost = 0 => cost = 0
  <2>1. PICK f, g : f = file /\ g = file'
    OBVIOUS
  <2>2. f \in Seq(Pieces) /\ g = Append(f, p)
    BY <1>1, <1>2, <2>1
  <2>3. Books(f, p, g)
    BY <1>2, <2>2, BooksOne
  <2> QED BY <2>1, <2>3 DEF Books
<1>4. p.line.day \in Days /\ cost \in Nat
  BY <1>2, PieceIs, MaxPriceIs
<1>5. \A d \in Days : OnDay(file, d) \in Int
  <2>1. ASSUME NEW d PROVE SpentIn(file, d) \in Nat
    BY <1>2, SpentNat
  <2> QED BY <2>1 DEF OnDay
<1>6. Spent' = [Spent EXCEPT ![p.line.day] = @ + cost]
  <2>1. \A d \in Days : Spent'[d] = Spent[d] + IF d = p.line.day THEN cost ELSE 0
    BY <1>3, MappingIs
  <2>2. Spent' = [d \in Days |-> Spent'[d]] /\ Spent = [d \in Days |-> Spent[d]]
    BY MappingIs
  <2>3. \A d \in Days : Spent[d] \in Int
    BY <1>5, MappingIs
  <2>4. \A d \in Days : Spent'[d] = IF d = p.line.day THEN Spent[p.line.day] + cost ELSE Spent[d]
    BY <1>4, <2>1, <2>3
  <2> QED BY <2>2, <2>4
<1>7. cost = 0 => Spent' = Spent
  <2>1. \A d \in Days : cost = 0 => Spent'[d] = Spent[d]
    BY <1>3, <1>5, MappingIs
  <2> QED BY <2>1, MappingIs
<1> QED BY <1>2, <1>3, <1>6, <1>7

LEMMA BudgetStarts == SpendInit => Promise!CapInit
<1> SUFFICES ASSUME SpendInit PROVE Promise!CapInit
  OBVIOUS
<1>1. today = 0 /\ file = << >> /\ \A w \in Workers : at[w] = "idle" /\ job[w] = NoJob
  BY DEF SpendInit
<1>2. ASSUME NEW d PROVE SpentIn(file, d) = 0
  <2>1. PICK q : q = PaidIn(file, d)
    OBVIOUS
  <2>2. DOMAIN q = 1 .. 0
    BY <1>1, <2>1 DEF PaidIn
  <2>3. PICK h : Total(q) = h[1 .. 0] /\ h[1 .. 0] = 0
    BY <2>2, PlusFold
  <2> QED BY <2>1, <2>3 DEF SpentIn
<1>3. Spent = [d \in Days |-> 0]
  BY <1>2, MappingIs DEF OnDay
<1>4. Turn = [w \in Workers |-> "idle"] /\ Began = [w \in Workers |-> 0]
  BY <1>1, IdleIs, MappingIs
<1> QED BY <1>1, <1>3, <1>4 DEF Promise!CapInit, Promise!Calendar, Days

LEMMA QuestionClears ==
  ASSUME NEW w \in Workers, SpendInv, NEW task \in DOMAIN Routed, NEW case \in Cases,
         Question(w, task, case)
  PROVE  Promise!Clear(w) \/ UNCHANGED Promise!purse
<1>1. at[w] = "idle" /\ Files
  BY QuestionDoes
<1>2. TurnOf(at[w], job[w]) = "idle" /\ BeganOf(at[w], job[w]) = 0
  BY <1>1 DEF TurnOf, BeganOf, ClearedIn
<1>3. CASE Moved(w, at[w], job[w])
  BY <1>1, <1>3, PurseRests
<1>4. CASE Moved(w, "noted?", job[w])
  <2>1. TurnOf("noted?", job[w]) = "idle" /\ BeganOf("noted?", job[w]) = 0
    BY DEF TurnOf, BeganOf, ClearedIn
  <2> QED BY <1>1, <1>2, <1>4, <2>1, PurseRests
<1>5. ASSUME NEW k, Moved(w, "build", k), k.over = OverBudget, k.req = NoRequest, k.started = 0
      PROVE  Promise!Clear(w) \/ UNCHANGED Promise!purse
  <2>1. CASE OverBudget
    <3>1. TurnOf("build", k) = "idle" /\ BeganOf("build", k) = 0
      BY <1>5, <2>1 DEF TurnOf, BeganOf, ClearedIn
    <3> QED BY <1>1, <1>2, <1>5, <3>1, PurseRests
  <2>2. CASE ~OverBudget
    <3>1. TurnOf("build", k) = "cleared" /\ BeganOf("build", k) = 0
      BY <1>5, <2>2 DEF TurnOf, BeganOf, ClearedIn
    <3>2. Spent[today] < Cap
      <4>1. today \in Days /\ file \in Seq(Pieces) /\ Cap \in Nat
        BY SpendingAssumption DEF SpendInv
      <4>2. ASSUME NEW d PROVE SpentIn(file, d) \in Nat
        BY <4>1, SpentNat
      <4>3. PICK u \in Nat, v \in Nat : u = SpentIn(file, today) /\ v = SpentIn(file, today + 1)
        BY <4>2
      <4>4. SpentSince(today) = u
        <5>1. PICK d : d = today
          OBVIOUS
        <5>2. SpentSince(d) = SpentIn(file, d)
          BY SpentIs
        <5> QED BY <4>3, <5>1, <5>2
      <4>5. u < Cap
        BY <2>2, <4>1, <4>4 DEF OverBudget, SpentToday
      <4>6. Spent[today] = u - v
        BY <4>1, <4>3, MappingIs DEF OnDay
      <4> QED BY <4>1, <4>5, <4>6
    <3>3. Turn' = [Turn EXCEPT ![w] = "cleared"] /\ Turn[w] = "idle"
          /\ Began' = [Began EXCEPT ![w] = 0] /\ Began[w] = 0
      BY <1>2, <1>5, <3>1, TurnMoves
    <3>4. Began' = Began
      <4>1. Began = [c \in Workers |-> Began[c]]
        BY MappingIs
      <4> QED BY <3>3, <4>1
    <3>5. Spent' = Spent /\ today' = today
      BY <1>1, SpentRests DEF Files
    <3> QED BY <3>2, <3>3, <3>4, <3>5 DEF Promise!Clear
  <2> QED BY <2>1, <2>2
<1> QED BY <1>3, <1>4, <1>5, QuestionDoes

LEMMA HandOffRests ==
  ASSUME NEW w \in Workers, SpendInv, NEW case \in Cases, NEW name \in AgentNames,
         HandOff(w, case, name)
  PROVE  UNCHANGED Promise!purse
<1>1. at[w] = "idle" /\ Files
  BY HandOffDoes
<1>2. TurnOf(at[w], job[w]) = "idle" /\ BeganOf(at[w], job[w]) = 0
  BY <1>1 DEF TurnOf, BeganOf, ClearedIn
<1>3. CASE Moved(w, at[w], job[w])
  BY <1>1, <1>3, PurseRests
<1>4. ASSUME NEW k, Moved(w, "agent", k) PROVE UNCHANGED Promise!purse
  <2>1. TurnOf("agent", k) = "idle" /\ BeganOf("agent", k) = 0
    BY DEF TurnOf, BeganOf, ClearedIn
  <2> QED BY <1>1, <1>2, <1>4, <2>1, PurseRests
<1> QED BY <1>3, <1>4, HandOffDoes

\* On to the next model, in the turn there was.
LEMMA NextModelRests ==
  ASSUME NEW w \in Workers, SpendInv, at[w] \in {"build", "post"}, Files, NEW k,
         Moved(w, "build", k), k.over = job[w].over, k.req = job[w].req,
         k.started = job[w].started
  PROVE  UNCHANGED Promise!purse
<1>1. at[w] = "post" => job[w].req # NoRequest
  BY AskedFor
<1>2. TurnOf("build", k) = TurnOf(at[w], job[w]) /\ BeganOf("build", k) = BeganOf(at[w], job[w])
  BY <1>1 DEF TurnOf, BeganOf, ClearedIn
<1> QED BY <1>2, PurseRests

LEMMA BuildAsks ==
  ASSUME NEW w \in Workers, SpendInv, Build(w)
  PROVE  Promise!Asks(w) \/ Promise!GiveUp(w) \/ UNCHANGED Promise!purse
<1>1. at[w] = "build" /\ Files /\ Spent' = Spent /\ today' = today
  BY BuildDoes, SpentRests DEF Files
<1>2. CASE Moved(w, "idle", NoJob)
  BY <1>1, <1>2, StopGivesUp
<1>3. ASSUME NEW k, Moved(w, "build", k), k.over = job[w].over, k.req = job[w].req,
             k.started = job[w].started
      PROVE  UNCHANGED Promise!purse
  BY <1>1, <1>3, NextModelRests
<1>4. ASSUME NEW k, Moved(w, "post", k), k.over = job[w].over, k.started = today
      PROVE  Promise!Asks(w) \/ UNCHANGED Promise!purse
  <2>1. CASE job[w].over
    <3>1. /\ TurnOf("post", k) = TurnOf(at[w], job[w])
          /\ BeganOf("post", k) = BeganOf(at[w], job[w])
      BY <1>1, <1>4, <2>1 DEF TurnOf, BeganOf, ClearedIn
    <3> QED BY <1>1, <1>4, <3>1, PurseRests
  <2>2. CASE ~job[w].over
    <3>1. /\ TurnOf("post", k) = "calling" /\ BeganOf("post", k) = today
          /\ TurnOf(at[w], job[w]) \in {"cleared", "calling"}
      BY <1>1, <1>4, <2>2 DEF TurnOf, BeganOf, ClearedIn
    <3> QED BY <1>1, <1>4, <3>1, TurnMoves DEF Promise!Asks
  <2> QED BY <2>1, <2>2
<1> QED BY <1>2, <1>3, <1>4, BuildDoes

LEMMA PostRests ==
  ASSUME NEW w \in Workers, SpendInv, Post(w)
  PROVE  Promise!GiveUp(w) \/ UNCHANGED Promise!purse
<1>1. at[w] = "post" /\ Files /\ Spent' = Spent /\ today' = today
  BY PostDoes, SpentRests DEF Files
<1>2. CASE Moved(w, "idle", NoJob)
  BY <1>1, <1>2, StopGivesUp
<1>3. ASSUME NEW k, Moved(w, "build", k), k.over = job[w].over, k.req = job[w].req,
             k.started = job[w].started
      PROVE  UNCHANGED Promise!purse
  BY <1>1, <1>3, NextModelRests
<1>4. ASSUME NEW k, Moved(w, "post", k), k.over = job[w].over, k.started = job[w].started
      PROVE  UNCHANGED Promise!purse
  <2>1. TurnOf("post", k) = TurnOf(at[w], job[w]) /\ BeganOf("post", k) = BeganOf(at[w], job[w])
    BY <1>1, <1>4 DEF TurnOf, BeganOf, ClearedIn
  <2> QED BY <1>1, <1>4, <2>1, PurseRests
<1>5. ASSUME NEW k, Moved(w, "meter", k), k.over = job[w].over, k.line.day = job[w].started
      PROVE  UNCHANGED Promise!purse
  <2>1. TurnOf("meter", k) = TurnOf(at[w], job[w]) /\ BeganOf("meter", k) = BeganOf(at[w], job[w])
    BY <1>1, <1>5 DEF TurnOf, BeganOf, ClearedIn
  <2> QED BY <1>1, <1>5, <2>1, PurseRests
<1> QED BY <1>2, <1>3, <1>4, <1>5, PostDoes

LEMMA FirstHalfRests ==
  ASSUME NEW w \in Workers, SpendInv, FirstHalf(w)
  PROVE  UNCHANGED Promise!purse
<1>1. /\ at[w] \in {"meter", "note"} /\ today' = today
      /\ file' = Append(file, Piece(lines + 1, 1, job[w].line, w))
  BY FirstHalfDoes
<1>2. PICK k : Moved(w, "half", k) /\ k.over = job[w].over /\ k.line = job[w].line
  BY FirstHalfDoes
<1>3. Spent' = Spent
  <2>1. lines + 1 \in Nat /\ 1 \in {1, 2}
    BY DEF SpendInv
  <2>2. PICK half \in {1, 2} : half = 1
    BY <2>1
  <2>3. file' = Append(file, Piece(lines + 1, half, job[w].line, w))
    BY <1>1, <2>2
  <2> QED BY <2>1, <2>2, <2>3, SpentBooks
<1>4. (at[w] = "meter" => job[w].line.kind = "call")
      /\ (at[w] = "note" => job[w].line.kind = "budget_noted")
  BY AskedFor
<1>5. TurnOf("half", k) = TurnOf(at[w], job[w]) /\ BeganOf("half", k) = BeganOf(at[w], job[w])
  BY <1>1, <1>2, <1>4 DEF TurnOf, BeganOf, ClearedIn
<1> QED BY <1>1, <1>2, <1>3, <1>5, TurnRests DEF Promise!purse

LEMMA SecondHalfPays ==
  ASSUME NEW w \in Workers, SpendInv, SecondHalf(w)
  PROVE  Promise!Pay(w) \/ Promise!GiveUp(w) \/ UNCHANGED Promise!purse
<1>1. /\ at[w] = "half" /\ today' = today /\ Moved(w, "idle", NoJob)
      /\ file' = Append(file, Piece(job[w].id, 2, job[w].line, w))
  BY SecondHalfDoes
<1>2. PICK cost \in 0 .. MaxPrice :
        /\ Spent' = [Spent EXCEPT ![job[w].line.day] = @ + cost]
        /\ job[w].line.kind # "call" \/ job[w].line.cost = 0 => Spent' = Spent
  <2>1. job[w].id \in Nat
    BY JobIs DEF SpendInv
  <2>2. PICK half \in {1, 2} : half = 2
    OBVIOUS
  <2>3. file' = Append(file, Piece(job[w].id, half, job[w].line, w))
    BY <1>1, <2>2
  <2> QED BY <2>1, <2>3, SpentBooks
<1>3. CASE Spent' = Spent
  BY <1>1, <1>3, StopGivesUp
<1>4. CASE Spent' # Spent
  <2>1. job[w].line.kind = "call" /\ job[w].line.cost # 0
    BY <1>2, <1>4
  <2>2. Booked("half", job[w])
    BY <1>1 DEF SpendInv, Fine
  <2>3. ~job[w].over
    BY <2>1, <2>2 DEF Booked
  <2>4. TurnOf(at[w], job[w]) = "calling" /\ BeganOf(at[w], job[w]) = job[w].line.day
    BY <1>1, <2>1, <2>3 DEF TurnOf, BeganOf, ClearedIn
  <2>5. /\ Turn[w] = "calling" /\ Began[w] = job[w].line.day
        /\ Turn' = [Turn EXCEPT ![w] = "idle"] /\ Began' = [Began EXCEPT ![w] = 0]
    BY <1>1, <2>4, IdleIs, TurnMoves
  <2> QED BY <1>1, <1>2, <2>5 DEF Promise!Pay, Promise!Returns
<1> QED BY <1>3, <1>4

LEMMA OthersRest ==
  ASSUME NEW w \in Workers, SpendInv, AgentEnds(w) \/ Lost(w) \/ ReadNoted(w) \/ Say(w)
  PROVE  Promise!GiveUp(w) \/ UNCHANGED Promise!purse
<1>1. Files /\ Spent' = Spent /\ today' = today
  BY EndsDoes, ReadNotedDoes, SayDoes, SpentRests DEF Files
<1>2. CASE Moved(w, "idle", NoJob)
  BY <1>1, <1>2, StopGivesUp
<1>3. ASSUME NEW a \in {"say", "note"}, NEW k, Moved(w, a, k), at[w] \in {"noted?", "say"}
      PROVE  UNCHANGED Promise!purse
  <2>1. TurnOf(a, k) = TurnOf(at[w], job[w]) /\ BeganOf(a, k) = BeganOf(at[w], job[w])
    BY <1>3 DEF TurnOf, BeganOf, ClearedIn
  <2> QED BY <1>1, <1>3, <2>1, PurseRests
<1>4. CASE ReadNoted(w)
  BY <1>2, <1>3, <1>4, ReadNotedDoes
<1>5. CASE Say(w)
  BY <1>2, <1>3, <1>5, SayDoes
<1> QED BY <1>2, <1>4, <1>5, EndsDoes

LEMMA BudgetStep == SpendInv /\ [SpendNext]_ledgerVars => [Promise!CapNext]_(Promise!purse)
<1> SUFFICES ASSUME SpendInv, [SpendNext]_ledgerVars PROVE Promise!CapNext \/ UNCHANGED Promise!purse
  OBVIOUS
<1>1. CASE UNCHANGED ledgerVars
  <2>1. today' = today /\ file' = file /\ at' = at /\ job' = job
    BY <1>1 DEF ledgerVars
  <2> QED BY <2>1, MappingIs DEF Promise!purse
<1>2. CASE Midnight
  <2>1. file' = file /\ at' = at /\ job' = job /\ today < MaxDay /\ today' = today + 1
    BY <1>2 DEF Midnight
  <2>2. Spent' = Spent /\ Turn' = Turn /\ Began' = Began
    BY <2>1, MappingIs
  <2> QED BY <2>1, <2>2 DEF Promise!CapNext, Promise!DayPasses
<1>3. ASSUME NEW w \in Workers, Worker(w) PROVE Promise!CapNext \/ UNCHANGED Promise!purse
  <2>1. Promise!Clear(w) \/ Promise!Asks(w) \/ Promise!Pay(w) \/ Promise!GiveUp(w) \/ UNCHANGED Promise!purse
    BY <1>3, QuestionClears, HandOffRests, BuildAsks, PostRests, FirstHalfRests, SecondHalfPays,
       OthersRest DEF Worker
  <2> QED BY <2>1 DEF Promise!CapNext
<1> QED BY <1>1, <1>2, <1>3 DEF SpendNext

\* What the file of the ledger says was spent, and who may still add to it, is a
\* run of Budget: only a call cleared below the cap adds, once, to the day it
\* started on, at most a call's price.
THEOREM SpendsByBudget == SpendSpec => BudgetSpec
<1> QED BY SpendInvStarts, SpendInvStep, BudgetStarts, BudgetStep, PTL
        DEF SpendSpec, BudgetSpec, Promise!CapSpec
-----------------------------------------------------------------------------
(***************************************************************************)
(* How a daemon comes to serve, and how it leaves.                         *)
(***************************************************************************)
USE StartupAssumption DEF StartupAssumption

\* What the calls of a client leave well-typed.
LEMMA ClientTypes ==
  ASSUME TypeOK, NEW c \in Clients,
         ClientStep(c) \/ \E kind \in Kind : Begin(c, kind)
  PROVE  /\ installed' \in Version /\ socket' \in Daemons \union {None, Stale}
         /\ recent' \in BOOLEAN /\ phase' \in [Daemons -> Phase]
         /\ version' \in [Daemons -> Version] /\ inbox' \in [Daemons -> SUBSET Frame]
         /\ step' \in [Clients -> Stage] /\ call' \in [Clients -> Call]
         /\ crashes' \in 0 .. MaxCrashes /\ Queues' /\ Owns'
<1> USE DEF TypeOK, Types
<1>1. \A here, next : On(c, here, next) /\ next \in Stage =>
        step' \in [Clients -> Stage] /\ call' \in [Clients -> Call]
  BY DEF On, Call, NoCall, Kind, Version
<1>2. CASE \E kind \in Kind : Begin(c, kind)
  BY <1>2 DEF Begin, Call, Stage, Queues, Owns, daemon
<1>3. CASE Send(c)
  <2>1. step' \in [Clients -> Stage] /\ call' \in [Clients -> Call]
    BY <1>1, <1>3 DEF Send, Stage
  <2>2. [version |-> call[c].version, stop |-> call[c].kind = "stop"] \in Frame
    BY DEF Frame, Call
  <2>3. inbox' \in [Daemons -> SUBSET Frame]
    BY <1>3, <2>2 DEF Send
  <2>4. Queues'
    BY <1>3 DEF Send, Queues, Reachable, Starting, Serving, Leaving
  <2> QED BY <1>3, <2>1, <2>3, <2>4 DEF Send, Owns
<1>4. CASE Refused(c) \/ MaySpawn(c) \/ WaitEnds(c)
  <2>1. step' \in [Clients -> Stage] /\ call' \in [Clients -> Call]
    BY <1>1, <1>4 DEF Refused, MaySpawn, WaitEnds, Stage
  <2> QED BY <1>4, <2>1 DEF Refused, MaySpawn, WaitEnds, ByItself, daemon, Queues, Owns
<1>5. CASE Mark(c) \/ Unmark(c)
  <2>1. step' \in [Clients -> Stage] /\ call' \in [Clients -> Call]
    BY <1>1, <1>5 DEF Mark, Unmark, Stage
  <2> QED BY <1>5, <2>1 DEF Mark, Unmark, ByItself, daemon, Queues, Owns
<1>6. CASE Spawn(c)
  <2>1. step' \in [Clients -> Stage] /\ call' \in [Clients -> Call]
    BY <1>1, <1>6 DEF Spawn, Stage
  <2>2. PICK d \in Daemons : /\ phase[d] = "ended"
                             /\ phase' = [phase EXCEPT ![d] = "looks"]
                             /\ version' = [version EXCEPT ![d] = installed]
    BY <1>6 DEF Spawn, Ended
  <2>3. phase' \in [Daemons -> Phase] /\ version' \in [Daemons -> Version]
    BY <2>2 DEF Phase, Starting
  <2>4. Queues' /\ Owns'
    BY <1>6, <2>2 DEF Spawn, Queues, Owns, Starting, Serving
  <2> QED BY <1>6, <2>1, <2>3, <2>4 DEF Spawn
<1> QED BY <1>2, <1>3, <1>4, <1>5, <1>6 DEF ClientStep

\* What a daemon's system calls, its frames and its end leave well-typed.
LEMMA DaemonTypes ==
  ASSUME TypeOK, NEW d \in Daemons, DaemonStep(d) \/ Crash(d)
  PROVE  /\ installed' \in Version /\ socket' \in Daemons \union {None, Stale}
         /\ recent' \in BOOLEAN /\ phase' \in [Daemons -> Phase]
         /\ version' \in [Daemons -> Version] /\ inbox' \in [Daemons -> SUBSET Frame]
         /\ step' \in [Clients -> Stage] /\ call' \in [Clients -> Call]
         /\ crashes' \in 0 .. MaxCrashes /\ Queues' /\ Owns'
<1> USE DEF TypeOK, Types
<1>1. \A here, next : In(d, here, next) /\ next \in Phase => phase' \in [Daemons -> Phase]
  BY DEF In
<1>2. Without(d) \in [Daemons -> SUBSET Frame] /\ Without(d)[d] = {}
      /\ \A e \in Daemons \ {d} : Without(d)[e] = inbox[e]
  BY DEF Without
<1>3. CASE LooksForSocket(d) \/ Probe(d)
  <2>1. phase' \in [Daemons -> Phase]
    BY <1>1, <1>3 DEF LooksForSocket, Probe, Phase, Starting
  <2>2. Queues'
    BY <1>3 DEF LooksForSocket, Probe, In, Alone, Queues, Starting
  <2>3. Owns'
    BY <1>3 DEF LooksForSocket, Probe, In, Owns, Serving
  <2> QED BY <1>3, <2>1, <2>2, <2>3 DEF LooksForSocket, Probe, Alone, client
<1>4. CASE RemoveStale(d)
  <2>1. phase' \in [Daemons -> Phase]
    BY <1>1, <1>4 DEF RemoveStale, Phase, Starting
  <2>2. Queues'
    BY <1>4 DEF RemoveStale, In, Alone, Queues, Starting
  <2> QED BY <1>4, <2>1, <2>2 DEF RemoveStale, Alone, client, Owns
<1>5. CASE BindSocket(d)
  <2>1. phase' \in [Daemons -> Phase]
    BY <1>1, <1>5 DEF BindSocket, Phase, Starting
  <2>2. Queues'
    BY <1>5 DEF BindSocket, In, Alone, Queues, Starting
  <2>3. Owns'
    BY <1>5 DEF BindSocket, In, Owns, Serving
  <2> QED BY <1>5, <2>1, <2>2, <2>3 DEF BindSocket, Alone, client
<1>6. CASE Listen(d)
  <2>1. phase' \in [Daemons -> Phase]
    BY <1>1, <1>6 DEF Listen, Phase, Serving
  <2>2. Queues' /\ Owns'
    BY <1>6 DEF Listen, In, Alone, Queues, Owns, Starting, Serving
  <2> QED BY <1>6, <2>1, <2>2 DEF Listen, Alone, client
<1>7. CASE SetPermissions(d)
  <2>1. phase' \in [Daemons -> Phase]
    BY <1>1, <1>7 DEF SetPermissions, Phase, Serving
  <2>2. inbox' \in [Daemons -> SUBSET Frame]
    BY <1>2, <1>7 DEF SetPermissions
  <2>3. Queues'
    BY <1>2, <1>7 DEF SetPermissions, In, Queues, Starting
  <2>4. Owns'
    BY <1>7 DEF SetPermissions, In, Owns, Serving
  <2> QED BY <1>7, <2>1, <2>2, <2>3, <2>4 DEF SetPermissions, client
<1>8. CASE Handle(d)
  <2>1. /\ phase[d] \in {"serves"} \union Leaving
        /\ \A e \in Daemons \ {d} : phase'[e] = phase[e] /\ inbox'[e] = inbox[e]
        /\ phase'[d] \in {"serves"} \union Leaving
        /\ phase' \in [Daemons -> Phase] /\ inbox' \in [Daemons -> SUBSET Frame]
        /\ phase'[d] = phase[d] \/ phase'[d] = "quits"
    BY <1>8 DEF Handle, Leaving, Phase
  <2>2. Queues'
    BY <2>1 DEF Queues, Starting, Leaving
  <2>3. Owns'
    BY <1>8, <2>1 DEF Handle, Owns
  <2> QED BY <1>8, <2>1, <2>2, <2>3 DEF Handle, client
<1>9. CASE Quit(d)
  <2>1. phase' \in [Daemons -> Phase]
    BY <1>1, <1>9 DEF Quit, Phase, Leaving
  <2>2. Queues' /\ Owns'
    BY <1>9 DEF Quit, In, Alone, Queues, Owns, Starting
  <2> QED BY <1>9, <2>1, <2>2 DEF Quit, Alone, client
<1>10. CASE Exit(d)
  <2>1. phase' \in [Daemons -> Phase]
    BY <1>1, <1>10 DEF Exit, Phase
  <2>2. Queues' /\ Owns'
    BY <1>2, <1>10 DEF Exit, In, Queues, Owns, Serving
  <2> QED BY <1>2, <1>10, <2>1, <2>2 DEF Exit, client
<1>11. CASE Crash(d)
  <2>1. phase' \in [Daemons -> Phase] /\ crashes' \in 0 .. MaxCrashes
    BY <1>11 DEF Crash, Phase
  <2>2. Queues' /\ Owns'
    BY <1>2, <1>11 DEF Crash, Queues, Owns
  <2> QED BY <1>2, <1>11, <2>1, <2>2 DEF Crash, client
<1> QED BY <1>3, <1>4, <1>5, <1>6, <1>7, <1>8, <1>9, <1>10, <1>11 DEF DaemonStep

\* The count of races is a number up to its bound.
LEMMA RacesCounted ==
  ASSUME races \in Nat, races' \in {races, races + 1}, races' <= MaxRaces
  PROVE  races' \in 0 .. MaxRaces
OBVIOUS

(***************************************************************************)
(* The variables keep their types; only a daemon that listens or is ending *)
(* has frames in its queue; and the socket at the path belongs to one that *)
(* bound it and has neither quit nor ended, so that the path leads nowhere *)
(* only once its daemon crashed, or before it listens (daemon.rs, bind and *)
(* quit).                                                                  *)
(***************************************************************************)
THEOREM TypeCorrect == Spec => []TypeOK
<1>1. Init => TypeOK
  <2> SUFFICES ASSUME Init PROVE Types /\ Queues /\ Owns
    BY DEF TypeOK
  <2>1. Version # {} /\ 1 \in Version /\ NoCall \in Call
    BY DEF Version, Call, Kind, NoCall
  <2>2. Types
    <3>1. installed \in Version /\ socket \in Daemons \union {None, Stale} /\ recent \in BOOLEAN
      BY <2>1 DEF Init
    <3>2. crashes \in 0 .. MaxCrashes /\ races \in 0 .. MaxRaces
      BY DEF Init
    <3>3. /\ phase \in [Daemons -> Phase] /\ version \in [Daemons -> Version]
          /\ inbox \in [Daemons -> SUBSET Frame]
      BY <2>1 DEF Init, Phase
    <3>4. step \in [Clients -> Stage] /\ call \in [Clients -> Call]
      BY <2>1 DEF Init, Stage
    <3> QED BY <3>1, <3>2, <3>3, <3>4 DEF Types
  <2>3. Queues /\ Owns
    BY DEF Init, Queues, Owns
  <2> QED BY <2>2, <2>3
<1>2. TypeOK /\ [Next]_vars => TypeOK'
  <2> SUFFICES ASSUME TypeOK, [Next]_vars PROVE TypeOK'
    OBVIOUS
  <2>1. CASE UNCHANGED vars
    BY <2>1 DEF vars, daemon, client, TypeOK, Types, Queues, Owns
  <2>2. ASSUME Next PROVE races' \in 0 .. MaxRaces
    <3>1. races' \in {races, races + 1} /\ races' <= MaxRaces
      BY <2>2, Zenon DEF Next, Counted
    <3> QED BY <3>1, RacesCounted DEF TypeOK, Types
  <2>3. ASSUME NEW c \in Clients, Counted(ClientStep(c)) \/ \E kind \in Kind : Counted(Begin(c, kind))
        PROVE  TypeOK'
    <3>1. ClientStep(c) \/ \E kind \in Kind : Begin(c, kind)
      BY <2>3, Zenon DEF Counted
    <3>2. Next
      BY <2>3 DEF Next
    <3> QED BY <2>2, <3>1, <3>2, ClientTypes DEF TypeOK, Types
  <2>4. ASSUME NEW d \in Daemons, Counted(DaemonStep(d)) \/ Counted(Crash(d))
        PROVE  TypeOK'
    <3>1. DaemonStep(d) \/ Crash(d)
      BY <2>4, Zenon DEF Counted
    <3>2. Next
      BY <2>4 DEF Next
    <3> QED BY <2>2, <3>1, <3>2, DaemonTypes DEF TypeOK, Types
  <2>5. CASE Counted(Age) \/ Counted(Upgrade)
    <3>1. Age \/ Upgrade
      BY <2>5, Zenon DEF Counted
    <3>2. Next
      BY <2>5 DEF Next
    <3>3. installed' \in Version
      BY <3>1 DEF Age, Upgrade, TypeOK, Types, Version
    <3> QED BY <2>2, <3>1, <3>2, <3>3
            DEF Age, Upgrade, daemon, client, TypeOK, Types, Queues, Owns
  <2> QED BY <2>1, <2>3, <2>4, <2>5 DEF Next
<1> QED BY <1>1, <1>2, PTL DEF Spec
-----------------------------------------------------------------------------
(***************************************************************************)
(* Who may still come to serve.                                            *)
(***************************************************************************)
Running == {d \in Daemons : phase[d] # "ended"}
\* The one whose socket is at the path, once it listens.
Held == {d \in Daemons : phase[d] \in Serving /\ socket = d}
\* Those that listen, or will, on a socket that is not at the path any more.
Pathless == {d \in Daemons : phase[d] \in Serving \union {"bound"} /\ socket # d}
\* Those that will take away what is at the path, or have the path for themselves.
Threats ==
  {d \in Daemons : \/ phase[d] \in {"removes", "binds"} \union Leaving
                   \/ phase[d] = "bound" /\ socket = d}

FewLost   == Cardinality(Pathless) <= races
FewStray  == Cardinality(Running \ Held) <= 1 + races
FewAtRisk == Threats # {} => Cardinality(Running) <= 1 + races

Few == FewLost /\ FewStray /\ FewAtRisk
-----------------------------------------------------------------------------
(***************************************************************************)
(* Counting processes.                                                     *)
(***************************************************************************)
LEMMA Fewer ==
  ASSUME NEW T \in SUBSET Daemons, NEW S \in SUBSET T
  PROVE  Cardinality(S) \in Nat /\ Cardinality(T) \in Nat /\ Cardinality(S) <= Cardinality(T)
<1>1. IsFiniteSet(T)
  BY FS_Subset
<1>2. IsFiniteSet(S) /\ Cardinality(S) <= Cardinality(T)
  BY <1>1, FS_Subset
<1> QED BY <1>1, <1>2, FS_CardinalityType

LEMMA OneMore ==
  ASSUME NEW T \in SUBSET Daemons, NEW d \in Daemons, NEW S \in SUBSET (T \union {d})
  PROVE  Cardinality(S) \in Nat /\ Cardinality(T) \in Nat /\ Cardinality(S) <= Cardinality(T) + 1
<1>1. IsFiniteSet(T) /\ Cardinality(T) \in Nat
  BY FS_Subset, FS_CardinalityType
<1>2. IsFiniteSet(T \union {d}) /\ Cardinality(T \union {d}) <= Cardinality(T) + 1
  BY <1>1, FS_AddElement
<1>3. Cardinality(T \union {d}) \in Nat
  BY <1>2, FS_CardinalityType
<1>4. IsFiniteSet(S) /\ Cardinality(S) <= Cardinality(T \union {d})
  BY <1>2, FS_Subset
<1>5. Cardinality(S) \in Nat
  BY <1>4, FS_CardinalityType
<1> QED BY <1>1, <1>2, <1>3, <1>4, <1>5

LEMMA OneLess ==
  ASSUME NEW T \in SUBSET Daemons, NEW d \in T, NEW S \in SUBSET (T \ {d})
  PROVE  Cardinality(S) \in Nat /\ Cardinality(T) \in Nat /\ Cardinality(S) + 1 <= Cardinality(T)
<1>1. IsFiniteSet(T) /\ Cardinality(T) \in Nat
  BY FS_Subset, FS_CardinalityType
<1>2. IsFiniteSet(T \ {d}) /\ Cardinality(T \ {d}) = Cardinality(T) - 1
  BY <1>1, FS_RemoveElement
<1>3. IsFiniteSet(S) /\ Cardinality(S) <= Cardinality(T \ {d})
  BY <1>2, FS_Subset
<1>4. Cardinality(S) \in Nat
  BY <1>3, FS_CardinalityType
<1> QED BY <1>1, <1>2, <1>3, <1>4

\* Those who begin or quit: what the races are counted by.
Busy == {d \in Daemons : phase[d] \in Starting \union Leaving}
Raced == Cardinality(Busy') > Cardinality(Busy) /\ Cardinality(Busy') > 1

Counting ==
  races' = IF Unsettled(phase') > Unsettled(phase) /\ Unsettled(phase') > 1
           THEN races + 1 ELSE races

\* A step that begins or quits beside another that does is a race.
LEMMA Races ==
  ASSUME TypeOK, TypeOK', Counting
  PROVE  races \in Nat /\ races' \in Nat /\ races <= races' /\ (Raced => races' = races + 1)
<1>1. races \in Nat /\ races' \in Nat
  BY DEF TypeOK, Types
<1>2. Unsettled(phase') = Cardinality(Busy') /\ Unsettled(phase) = Cardinality(Busy)
  BY DEF Unsettled, Busy
<1>3. races' = IF Raced THEN races + 1 ELSE races
  BY <1>2 DEF Counting, Raced
<1> QED BY <1>1, <1>3

LEMMA BusyMore ==
  ASSUME NEW d \in Daemons, d \notin Busy, Busy' = Busy \union {d}, Busy # {}
  PROVE  Raced
<1>1. Busy \in SUBSET Daemons /\ Busy' \in SUBSET Daemons
  BY DEF Busy
<1>2. Busy \in SUBSET (Busy' \ {d}) /\ d \in Busy'
  OBVIOUS
<1>3. /\ Cardinality(Busy) \in Nat /\ Cardinality(Busy') \in Nat
      /\ Cardinality(Busy) + 1 <= Cardinality(Busy')
  BY <1>1, <1>2, OneLess
<1>4. Cardinality(Busy) # 0
  BY <1>1, FS_Subset, FS_EmptySet
<1> QED BY <1>3, <1>4 DEF Raced

\* What the sets say of one another.
LEMMA Sets ==
  ASSUME TypeOK
  PROVE  /\ Running \in SUBSET Daemons /\ Held \in SUBSET Running /\ Pathless \in SUBSET Running
         /\ Running \ Held \in SUBSET Daemons /\ Threats \in SUBSET Running
         /\ Pathless \intersect Held = {} /\ Pathless \intersect Threats = {}
         /\ \A d \in Held : Held = {d} /\ Reachable
         /\ Threats = {} /\ Busy = {} => Running = Pathless \union Held /\ Running \ Held = Pathless
BY DEF Running, Held, Pathless, Threats, TypeOK, Types, Phase, Starting, Serving, Leaving,
       Reachable, Busy

\* Fewer who run, or may, and nobody new at risk: nothing to count.
LEMMA Calm ==
  ASSUME TypeOK, TypeOK', Few, races' \in Nat, races \in Nat, races <= races',
         Pathless' \subseteq Pathless, Running' \subseteq Running,
         Running' \ Held' \subseteq Running \ Held,
         Threats' # {} => Threats # {} \/ Held = {}
  PROVE  Few'
<1>1. Cardinality(Pathless') <= Cardinality(Pathless) /\ Cardinality(Pathless) \in Nat
      /\ Cardinality(Pathless') \in Nat
  BY Sets, Fewer
<1>2. /\ Cardinality(Running' \ Held') \in Nat /\ Cardinality(Running \ Held) \in Nat
      /\ Cardinality(Running' \ Held') <= Cardinality(Running \ Held)
  BY Sets, Fewer
<1>3. /\ Cardinality(Running') \in Nat /\ Cardinality(Running) \in Nat
      /\ Cardinality(Running') <= Cardinality(Running)
  BY Sets, Fewer
<1>4. Held = {} => Cardinality(Running) <= 1 + races
  <2>1. Held = {} => Running \ Held = Running
    OBVIOUS
  <2> QED BY <2>1 DEF Few, FewStray
<1> QED BY <1>1, <1>2, <1>3, <1>4 DEF Few, FewLost, FewStray, FewAtRisk

\* Somebody threatens the path, and all that run are counted.
LEMMA AtRisk ==
  ASSUME TypeOK', races' \in Nat, Cardinality(Running') <= 1 + races', NEW e \in Threats'
  PROVE  Few'
<1>1. /\ Running' \in SUBSET Daemons /\ (Running \ Held)' \in SUBSET Running'
      /\ e \in Running' /\ Pathless' \in SUBSET (Running' \ {e})
  BY DEF Running, Held, Pathless, Threats, Serving, Leaving
<1>2. /\ Cardinality(Pathless') \in Nat /\ Cardinality(Running') \in Nat
      /\ Cardinality(Pathless') + 1 <= Cardinality(Running')
  BY <1>1, OneLess
<1>3. /\ Cardinality((Running \ Held)') \in Nat
      /\ Cardinality((Running \ Held)') <= Cardinality(Running')
  BY <1>1, Fewer
<1> QED BY <1>2, <1>3 DEF Few, FewLost, FewStray, FewAtRisk

\* Nothing moves but the daemon's own place: the path stays as it is.
LEMMA Spawning ==
  ASSUME TypeOK, TypeOK', Counting, Few, NEW d \in Daemons, phase[d] = "ended",
         phase' = [phase EXCEPT ![d] = "looks"], socket' = socket
  PROVE  Few'
<1>0. races \in Nat /\ races' \in Nat /\ races <= races' /\ (Raced => races' = races + 1)
  BY Races
<1>1. phase \in [Daemons -> Phase]
  BY DEF TypeOK, Types
<1>2. /\ phase'[d] = "looks" /\ \A e \in Daemons \ {d} : phase'[e] = phase[e]
      /\ "looks" \in Starting /\ "ended" \notin Starting \union Leaving \union Serving
      /\ "looks" \notin {"removes", "binds", "bound"} \union Leaving \union Serving
  BY <1>1 DEF Starting, Leaving, Serving
<1>3. /\ Running' = Running \union {d} /\ Busy' = Busy \union {d} /\ d \notin Busy
      /\ Held' = Held /\ Pathless' = Pathless /\ Threats' = Threats
      /\ (Running \ Held)' \in SUBSET ((Running \ Held) \union {d})
  BY <1>2 DEF Running, Busy, Held, Pathless, Threats
<1>4. /\ Running \in SUBSET Daemons /\ Running \ Held \in SUBSET Daemons
      /\ Pathless \in SUBSET Daemons
  BY DEF Running, Pathless
<1>5. /\ Cardinality(Running) \in Nat /\ Cardinality(Running') \in Nat
      /\ Cardinality(Running') <= Cardinality(Running) + 1
  BY <1>3, <1>4, OneMore
<1>6. /\ Cardinality(Running \ Held) \in Nat /\ Cardinality((Running \ Held)') \in Nat
      /\ Cardinality((Running \ Held)') <= Cardinality(Running \ Held) + 1
  BY <1>3, <1>4, OneMore
<1>7. Cardinality(Pathless') = Cardinality(Pathless) /\ Cardinality(Pathless) \in Nat
  BY <1>3, <1>4, Fewer
<1>8. CASE Busy # {}
  <2>1. races' = races + 1
    BY <1>0, <1>3, <1>8, BusyMore
  <2> QED BY <1>0, <1>3, <1>5, <1>6, <1>7, <2>1 DEF Few, FewLost, FewStray, FewAtRisk
<1>9. CASE Busy = {}
  <2>1. Threats = {}
    BY <1>9 DEF Threats, Busy, Starting, Leaving
  <2>2. Running \ Held = Pathless
    BY <1>9, <2>1, Sets
  <2>3. Cardinality((Running \ Held)') <= Cardinality(Pathless) + 1
    BY <1>6, <2>2
  <2>4. FewLost'
    BY <1>0, <1>3, <1>7 DEF Few, FewLost
  <2>5. FewStray'
    BY <1>0, <1>6, <1>7, <2>3 DEF Few, FewLost, FewStray
  <2>6. FewAtRisk'
    BY <1>3, <2>1 DEF FewAtRisk
  <2> QED BY <2>4, <2>5, <2>6 DEF Few
<1> QED BY <1>8, <1>9

\* Whoever takes away what is at the path was counted among those who may.
LEMMA Taking ==
  ASSUME TypeOK, TypeOK', Counting, Few, NEW d \in Daemons,
         phase[d] \in {"removes", "quits"}, phase'[d] \in {"binds", "leaves"},
         phase' = [phase EXCEPT ![d] = phase'[d]], socket' = None
  PROVE  Few'
<1>0. races \in Nat /\ races' \in Nat /\ races <= races'
  BY Races
<1>1. phase \in [Daemons -> Phase]
  BY DEF TypeOK, Types
<1>2. \A e \in Daemons \ {d} : phase'[e] = phase[e]
  BY <1>1
<1>3. Running' = Running /\ d \in Threats /\ d \in Threats'
  BY <1>2 DEF Running, Threats, Leaving
<1>4. Cardinality(Running) \in Nat /\ Cardinality(Running) <= 1 + races
  BY <1>3, Fewer DEF Few, FewAtRisk, Running
<1> QED BY <1>0, <1>3, <1>4, AtRisk

\* A frame tells a daemon to quit.
LEMMA Quitting ==
  ASSUME TypeOK, TypeOK', Counting, Few, NEW d \in Daemons, phase[d] = "serves",
         phase' = [phase EXCEPT ![d] = "quits"], socket' = socket
  PROVE  Few'
<1>0. races \in Nat /\ races' \in Nat /\ races <= races' /\ (Raced => races' = races + 1)
  BY Races
<1>1. phase \in [Daemons -> Phase]
  BY DEF TypeOK, Types
<1>2. phase'[d] = "quits" /\ \A e \in Daemons \ {d} : phase'[e] = phase[e]
  BY <1>1
<1>3. /\ Running' = Running /\ Busy' = Busy \union {d} /\ d \notin Busy /\ d \in Threats'
      /\ Running \in SUBSET Daemons /\ Running \ Held \in SUBSET Daemons
      /\ Pathless \in SUBSET Daemons
  BY <1>2 DEF Running, Busy, Threats, Starting, Leaving, Pathless
<1>4. PICK h \in Daemons : Running \in SUBSET ((Running \ Held) \union {h})
  BY Sets DEF Held
<1>5. /\ Cardinality(Running) \in Nat /\ Cardinality(Running \ Held) \in Nat
      /\ Cardinality(Running) <= Cardinality(Running \ Held) + 1
  BY <1>3, <1>4, OneMore
<1>6. Cardinality(Running) <= 1 + races'
  <2>1. CASE Threats # {}
    BY <1>0, <1>5, <2>1 DEF Few, FewAtRisk
  <2>2. CASE Threats = {} /\ Busy # {}
    <3>1. races' = races + 1
      BY <1>0, <1>3, <2>2, BusyMore
    <3> QED BY <1>0, <1>5, <3>1 DEF Few, FewStray
  <2>3. CASE Threats = {} /\ Busy = {}
    <3>1. Running \ Held = Pathless
      BY <2>3, Sets
    <3> QED BY <1>0, <1>5, <3>1 DEF Few, FewLost
  <2> QED BY <2>1, <2>2, <2>3
<1> QED BY <1>0, <1>3, <1>6, AtRisk

\* A daemon that only goes on, or ends, or whose socket takes the free path.
LEMMA GoingOn ==
  ASSUME TypeOK, TypeOK', Counting, Few, NEW d \in Daemons, phase[d] # "ended",
         phase' = [phase EXCEPT ![d] = phase'[d]],
         \A e \in Daemons \ {d} : socket' = e <=> socket = e,
         \/ phase'[d] = "ended"
         \/ phase[d] = "looks" /\ phase'[d] = "probes" /\ socket' = socket
         \/ phase[d] = "looks" /\ phase'[d] = "binds" /\ socket = None
         \/ phase[d] = "probes" /\ phase'[d] = "removes" /\ ~Reachable
         \/ phase[d] = "binds" /\ phase'[d] = "bound" /\ socket = None /\ socket' = d
         \/ phase[d] = "bound" /\ phase'[d] = "listens" /\ socket' = socket
         \/ phase[d] = "listens" /\ phase'[d] = "serves" /\ socket' = socket
         \/ phase[d] \in Leaving /\ phase'[d] = "quits" /\ socket' = socket
         \/ phase'[d] = phase[d] /\ socket' = socket
  PROVE  Few'
<1>0. races \in Nat /\ races' \in Nat /\ races <= races'
  BY Races
<1>1. /\ phase \in [Daemons -> Phase] /\ None \notin Daemons
      /\ \A e \in Daemons \ {d} : phase'[e] = phase[e]
  <2>1. phase \in [Daemons -> Phase]
    BY DEF TypeOK, Types
  <2> QED BY <2>1
<1> USE DEF Starting, Serving, Leaving
<1>2. Running' \subseteq Running
  BY <1>1 DEF Running
<1>3. Pathless' \subseteq Pathless
  BY <1>1 DEF Pathless
<1>4. (Running \ Held)' \subseteq Running \ Held
  BY <1>1 DEF Running, Held
<1>5. Threats' # {} => Threats # {} \/ Held = {}
  <2>1. CASE ~Reachable
    BY <2>1, Sets
  <2>2. CASE socket = None
    BY <1>1, <2>2 DEF Held
  <2>3. CASE Reachable /\ socket # None
    BY <1>1, <2>3 DEF Threats
  <2> QED BY <2>1, <2>2, <2>3
<1> QED BY <1>0, <1>2, <1>3, <1>4, <1>5, Calm

\* The invariant, over every step.
LEMMA ClientCounts ==
  ASSUME TypeOK, TypeOK', Counting, Few, NEW c \in Clients,
         ClientStep(c) \/ \E kind \in Kind : Begin(c, kind)
  PROVE  Few'
<1>0. races \in Nat /\ races' \in Nat /\ races <= races'
  BY Races
<1>1. CASE Spawn(c)
  <2>1. PICK d \in Daemons : phase[d] = "ended" /\ phase' = [phase EXCEPT ![d] = "looks"]
    BY <1>1 DEF Spawn, Ended
  <2> QED BY <1>1, <2>1, Spawning DEF Spawn
<1>2. CASE UNCHANGED <<phase, socket>>
  BY <1>0, <1>2, Calm DEF Pathless, Running, Held, Threats
<1>3. Spawn(c) \/ UNCHANGED <<phase, socket>>
  BY DEF ClientStep, Begin, Send, Refused, MaySpawn, Mark, WaitEnds, Unmark, ByItself, daemon
<1> QED BY <1>1, <1>2, <1>3

LEMMA DaemonCounts ==
  ASSUME TypeOK, TypeOK', Counting, Few, NEW d \in Daemons, DaemonStep(d) \/ Crash(d)
  PROVE  Few'
<1>0. /\ phase \in [Daemons -> Phase] /\ phase' \in [Daemons -> Phase]
      /\ None \notin Daemons /\ Stale \notin Daemons
  BY DEF TypeOK, Types
<1>1. \A here, next : In(d, here, next) =>
        /\ phase[d] = here /\ phase'[d] = next /\ phase' = [phase EXCEPT ![d] = phase'[d]]
  BY <1>0 DEF In
<1>2. CASE LooksForSocket(d)
  BY <1>1, <1>2, GoingOn DEF LooksForSocket
<1>3. CASE Probe(d)
  BY <1>1, <1>3, GoingOn DEF Probe
<1>4. CASE RemoveStale(d)
  <2>1. CASE socket = None
    BY <1>1, <1>4, <2>1, GoingOn DEF RemoveStale
  <2>2. CASE socket # None
    BY <1>1, <1>4, <2>2, Taking DEF RemoveStale
  <2> QED BY <2>1, <2>2
<1>5. CASE BindSocket(d)
  <2>1. CASE socket = None
    BY <1>0, <1>1, <1>5, <2>1, GoingOn DEF BindSocket
  <2>2. CASE socket # None
    BY <1>1, <1>5, <2>2, GoingOn DEF BindSocket
  <2> QED BY <2>1, <2>2
<1>6. CASE Listen(d)
  BY <1>1, <1>6, GoingOn DEF Listen
<1>7. CASE SetPermissions(d)
  BY <1>1, <1>7, GoingOn DEF SetPermissions
<1>8. CASE Handle(d)
  <2>1. /\ phase[d] \in {"serves"} \union Leaving /\ socket' = socket
        /\ phase' = phase \/ phase' = [phase EXCEPT ![d] = "quits"]
    BY <1>8 DEF Handle
  <2>2. CASE phase[d] = "serves" /\ phase' = [phase EXCEPT ![d] = "quits"]
    BY <2>1, <2>2, Quitting
  <2>3. CASE phase[d] \in Leaving \/ phase' = phase
    <3>1. phase'[d] = phase[d] \/ (phase[d] \in Leaving /\ phase'[d] = "quits")
      BY <1>0, <2>1, <2>3
    <3>2. phase' = [phase EXCEPT ![d] = phase'[d]] /\ phase[d] # "ended"
      BY <1>0, <2>1 DEF Leaving
    <3> QED BY <2>1, <3>1, <3>2, GoingOn
  <2> QED BY <2>1, <2>2, <2>3
<1>9. CASE Quit(d)
  BY <1>1, <1>9, Taking DEF Quit
<1>10. CASE Exit(d)
  BY <1>1, <1>10, GoingOn DEF Exit
<1>11. CASE Crash(d)
  <2>1. phase'[d] = "ended" /\ phase' = [phase EXCEPT ![d] = phase'[d]] /\ phase[d] # "ended"
    BY <1>0, <1>11 DEF Crash
  <2>2. \A e \in Daemons \ {d} : socket' = e <=> socket = e
    BY <1>0, <1>11 DEF Crash
  <2> QED BY <2>1, <2>2, GoingOn
<1> QED BY <1>2, <1>3, <1>4, <1>5, <1>6, <1>7, <1>8, <1>9, <1>10, <1>11 DEF DaemonStep

(***************************************************************************)
(* Every daemon that serves beside another was paid for by a race: two     *)
(* that started together, or one that started while another quit.          *)
(* Whatever stale files, crashes, upgrades and stops there are, nothing    *)
(* else leaves two daemons behind (daemon.rs, bind and quit).              *)
(***************************************************************************)
THEOREM OneServes == Spec => []OneButForRaces
<1>1. Init => Few
  <2> SUFFICES ASSUME Init PROVE Few
    OBVIOUS
  <2>1. Running = {} /\ Pathless = {} /\ Threats = {} /\ Running \ Held = {} /\ races = 0
    BY DEF Init, Running, Pathless, Threats, Serving, Leaving
  <2> QED BY <2>1, FS_EmptySet DEF Few, FewLost, FewStray, FewAtRisk
<1>2. TypeOK /\ TypeOK' /\ Few /\ [Next]_vars => Few'
  <2> SUFFICES ASSUME TypeOK, TypeOK', Few, [Next]_vars PROVE Few'
    OBVIOUS
  <2>1. CASE UNCHANGED vars
    <3>1. /\ Pathless' = Pathless /\ Running' = Running /\ Held' = Held /\ Threats' = Threats
          /\ races' = races
      BY <2>1 DEF vars, daemon, Pathless, Running, Held, Threats
    <3> QED BY <3>1 DEF Few, FewLost, FewStray, FewAtRisk
  <2>2. CASE Next
    <3>1. Counting
      BY <2>2, Zenon DEF Next, Counted, Counting
    <3>2. \/ \E c \in Clients : ClientStep(c) \/ \E kind \in Kind : Begin(c, kind)
          \/ \E d \in Daemons : DaemonStep(d) \/ Crash(d)
          \/ Age \/ Upgrade
      BY <2>2, Zenon DEF Next, Counted
    <3>3. CASE Age \/ Upgrade
      <4>1. races \in Nat /\ races' \in Nat /\ races <= races'
        BY <3>1, Races
      <4>2. UNCHANGED <<phase, socket>>
        BY <3>3 DEF Age, Upgrade, daemon
      <4> QED BY <4>1, <4>2, Calm DEF Pathless, Running, Held, Threats
    <3> QED BY <3>1, <3>2, <3>3, ClientCounts, DaemonCounts
  <2> QED BY <2>1, <2>2
<1>3. TypeOK /\ Few => OneButForRaces
  <2> SUFFICES ASSUME TypeOK, Few PROVE OneButForRaces
    OBVIOUS
  <2> DEFINE S == {d \in Daemons : phase[d] \in Serving}
  <2>1. races \in Nat /\ Pathless \in SUBSET Daemons /\ S \in SUBSET Daemons
    BY DEF TypeOK, Types, Pathless
  <2>2. CASE socket \in Daemons
    <3>1. S \in SUBSET (Pathless \union {socket})
      BY DEF Pathless
    <3>2. /\ Cardinality(S) \in Nat /\ Cardinality(Pathless) \in Nat
          /\ Cardinality(S) <= Cardinality(Pathless) + 1
      BY <2>1, <2>2, <3>1, OneMore
    <3> QED BY <2>1, <3>2 DEF Few, FewLost, OneButForRaces
  <2>3. CASE socket \notin Daemons
    <3>1. S \in SUBSET Pathless
      BY <2>3 DEF Pathless
    <3>2. /\ Cardinality(S) \in Nat /\ Cardinality(Pathless) \in Nat
          /\ Cardinality(S) <= Cardinality(Pathless)
      BY <2>1, <3>1, Fewer
    <3> QED BY <2>1, <3>2 DEF Few, FewLost, OneButForRaces
  <2> QED BY <2>2, <2>3
<1> QED BY <1>1, <1>2, <1>3, TypeCorrect, PTL DEF Spec
-----------------------------------------------------------------------------
(***************************************************************************)
(* Subscribers.                                                            *)
(***************************************************************************)
USE SubscribersAssumption

LEMMA SweepTypesInit == SweepInit => SweepTypes
BY DEF SweepInit, SweepTypes

LEMMA SweepTypesStep == SweepTypes /\ [SweepNext]_sweepVars => SweepTypes'
<1> SUFFICES ASSUME SweepTypes, [SweepNext]_sweepVars PROVE SweepTypes'
  OBVIOUS
<1>1. CASE Tick
  BY <1>1 DEF Tick, SweepTypes
<1>2. CASE Wake
  BY <1>2 DEF Wake, SweepTypes, Pinged, StillNeeded
<1>3. ASSUME NEW s \in Shells, Subscribe(s) PROVE SweepTypes'
  BY <1>3 DEF Subscribe, SweepTypes
<1>4. ASSUME NEW s \in Shells, Deliver(s) PROVE SweepTypes'
  BY <1>4 DEF Deliver, SweepTypes
<1>5. ASSUME NEW s \in Shells, TimesOut(s) PROVE SweepTypes'
  BY <1>5 DEF TimesOut, SweepTypes
<1>6. ASSUME NEW s \in Shells, ShellExits(s) PROVE SweepTypes'
  BY <1>6 DEF ShellExits, SweepTypes
<1>7. ASSUME NEW s \in Shells, Killed(s) PROVE SweepTypes'
  BY <1>7 DEF Killed, SweepTypes
<1>8. CASE UNCHANGED sweepVars
  BY <1>8 DEF sweepVars, SweepTypes
<1>9. QED
  BY <1>1, <1>2, <1>3, <1>4, <1>5, <1>6, <1>7, <1>8 DEF SweepNext

(***************************************************************************)
(* The registry and the clocks keep their types: sessions have subscribers *)
(* only while they are known, and nobody reads past the timeout of         *)
(* daemon_client.rs or the pinger sleeps past its delay.                   *)
(***************************************************************************)
THEOREM SweepTyped == SweepSpec => []SweepTypes
<1>1. QED
  BY SweepTypesInit, SweepTypesStep, PTL DEF SweepSpec

(***************************************************************************)
(* The count of ticks a useless session is known restarts with the pinger: *)
(* whatever the registry still knows became useless since the last ping.   *)
(* (Nobody is of use again who was not, for only a living shell            *)
(* subscribes.)                                                            *)
(***************************************************************************)
SincePing(s) ==
  /\ ~Useless(s) => lingers[s] = 0
  /\ s \in known => lingers[s] <= slept
  /\ lingers[s] <= PingEvery + Slack

Swept == \A s \in Shells : SincePing(s)

LEMMA SweptStep == SweepTypes /\ Swept /\ [SweepNext]_sweepVars => Swept'
<1> SUFFICES ASSUME SweepTypes, Swept, [SweepNext]_sweepVars, NEW t \in Shells
             PROVE  SincePing(t)'
  BY DEF Swept
<1>0. SincePing(t) /\ lingers[t] \in Nat /\ slept \in Nat
  BY DEF Swept, SweepTypes
<1>1. CASE Tick
  BY <1>0, <1>1 DEF Tick, SincePing, Useless, SweepTypes
<1>2. CASE Wake
  \* A session of a gone shell stays only with a subscriber that lives.
  <2>1. t \in known' => ~Useless(t)
    BY <1>2 DEF Wake, Pinged, StillNeeded, Useless
  <2>2. QED
    BY <1>0, <1>2, <2>1 DEF Wake, SincePing, Useless
<1>3. ASSUME NEW s \in Shells, Subscribe(s) PROVE SincePing(t)'
  BY <1>0, <1>3 DEF Subscribe, SincePing, Useless
<1>4. ASSUME NEW s \in Shells, Deliver(s) PROVE SincePing(t)'
  BY <1>0, <1>4 DEF Deliver, SincePing, Useless, SweepTypes
<1>5. ASSUME NEW s \in Shells, TimesOut(s) PROVE SincePing(t)'
  BY <1>0, <1>5 DEF TimesOut, SincePing, Useless
<1>6. ASSUME NEW s \in Shells, ShellExits(s) PROVE SincePing(t)'
  BY <1>0, <1>6 DEF ShellExits, SincePing, Useless
<1>7. ASSUME NEW s \in Shells, Killed(s) PROVE SincePing(t)'
  BY <1>0, <1>7 DEF Killed, SincePing, Useless
<1>8. CASE UNCHANGED sweepVars
  BY <1>0, <1>8 DEF sweepVars, SincePing, Useless
<1>9. QED
  BY <1>1, <1>2, <1>3, <1>4, <1>5, <1>6, <1>7, <1>8 DEF SweepNext

(***************************************************************************)
(* forget_gone in sessions.rs: a session nobody has a use for is known for *)
(* one ping interval and the pinger's delay at most.                       *)
(***************************************************************************)
THEOREM SweptInTime == SweepSpec => []OneSweep
<1>1. SweepInit => Swept
  <2>1. ASSUME SweepInit, NEW s \in Shells PROVE SincePing(s)
    <3>1. lingers[s] = 0 /\ slept = 0
      BY <2>1 DEF SweepInit
    <3>2. QED
      BY <3>1 DEF SincePing
  <2>2. QED
    BY <2>1 DEF Swept
<1>2. Swept => OneSweep
  BY DEF Swept, SincePing, OneSweep
<1>3. QED
  BY <1>1, <1>2, SweepTyped, SweptStep, PTL DEF SweepSpec

(***************************************************************************)
(* ping and forget_gone in sessions.rs, deliver too: no step takes the     *)
(* session of a living shell from the registry, nor its subscriber while   *)
(* that reads.                                                             *)
(***************************************************************************)
THEOREM LivingStay == SweepSpec => LivingKept
<1>1. ASSUME SweepTypes, [SweepNext]_sweepVars, NEW t \in alive
      PROVE  /\ t \in known => t \in known'
             /\ t \in subscribed \intersect following => t \in subscribed'
  <2>1. CASE Tick
    BY <2>1 DEF Tick
  <2>2. CASE Wake
    BY <2>2 DEF Wake, Pinged, StillNeeded
  <2>3. ASSUME NEW s \in Shells, Subscribe(s) \/ Deliver(s)
        PROVE  /\ t \in known => t \in known'
               /\ t \in subscribed \intersect following => t \in subscribed'
    BY <2>3 DEF Subscribe, Deliver
  <2>4. ASSUME NEW s \in Shells, TimesOut(s) \/ ShellExits(s) \/ Killed(s)
        PROVE  UNCHANGED <<known, subscribed>>
    BY <2>4 DEF TimesOut, ShellExits, Killed
  <2>5. CASE UNCHANGED sweepVars
    BY <2>5 DEF sweepVars
  <2>6. QED
    BY <1>1, <2>1, <2>2, <2>3, <2>4, <2>5 DEF SweepNext
<1>2. SweepTypes /\ [SweepNext]_sweepVars =>
        [\A s \in alive : /\ s \in known => s \in known'
                          /\ s \in subscribed \intersect following => s \in subscribed']_sweepVars
  BY <1>1
<1>3. QED
  BY <1>2, SweepTyped, PTL DEF SweepSpec, LivingKept
-----------------------------------------------------------------------------
(***************************************************************************)
(* Budget.                                                                 *)
(***************************************************************************)
USE DEF BudgetAssumption

(***************************************************************************)
(* Counting those who may still book.                                      *)
(***************************************************************************)
LEMMA Counts ==
  ASSUME BudgetAssumption, NEW T \in SUBSET Callers, NEW S \in SUBSET T
  PROVE  /\ Cardinality(S) \in Nat /\ Cardinality(T) \in Nat
         /\ Cardinality(Callers) \in Nat
         /\ Cardinality(S) <= Cardinality(T) /\ Cardinality(T) <= Cardinality(Callers)
<1>1. IsFiniteSet(T)
  BY FS_Subset
<1>2. IsFiniteSet(S) /\ Cardinality(S) <= Cardinality(T)
  BY <1>1, FS_Subset
<1>3. Cardinality(T) <= Cardinality(Callers)
  BY FS_Subset
<1>4. QED
  BY <1>1, <1>2, <1>3, FS_CardinalityType

LEMMA Times ==
  ASSUME NEW a \in Nat, NEW b \in Nat, NEW m \in Nat, a <= b
  PROVE  m * a \in Nat /\ m * b \in Nat /\ m * a <= m * b
OBVIOUS

LEMMA TimesNext ==
  ASSUME NEW a \in Nat, NEW m \in Nat
  PROVE  m * (a + 1) = m * a + m
OBVIOUS

\* The room does not shrink when nothing is booked and nobody joins.
LEMMA FewerBook ==
  ASSUME BudgetAssumption, NEW T \in SUBSET Callers, NEW S \in SUBSET T, NEW s \in Nat,
         s + MaxCost * Cardinality(T) < Limit + MaxCost * Cardinality(Callers)
  PROVE  s + MaxCost * Cardinality(S) < Limit + MaxCost * Cardinality(Callers)
<1> DEFINE c == Cardinality(S)  t == Cardinality(T)  n == Cardinality(Callers)
<1>1. c \in Nat /\ t \in Nat /\ n \in Nat /\ c <= t
  BY Counts
<1>2. MaxCost * c \in Nat /\ MaxCost * t \in Nat /\ MaxCost * c <= MaxCost * t
  BY <1>1, Times
<1>3. MaxCost * n \in Nat
  BY <1>1, Times
<1> HIDE DEF c, t, n
<1>4. s + MaxCost * t < Limit + MaxCost * n
  BY DEF t, n
<1>5. s + MaxCost * c < Limit + MaxCost * n
  BY <1>2, <1>3, <1>4
<1>6. QED
  BY <1>5 DEF c, n

(***************************************************************************)
(* Types, and the days to come.                                            *)
(***************************************************************************)
LEMMA InitInv ==
  ASSUME BudgetAssumption
  PROVE  CapInit => IInv
<1> SUFFICES ASSUME CapInit PROVE IInv
  OBVIOUS
<1>1. CapTypes /\ NotAhead /\ FutureIsFree
  BY DEF CapInit, CapTypes, NotAhead, FutureIsFree, Calendar
<1>2. Room
  <2> SUFFICES ASSUME NEW d \in Calendar
      PROVE spent[d] + MaxCost * Cardinality(Booking(d)) < Limit + MaxCost * Cardinality(Callers)
    BY DEF Room
  <2>1. Booking(d) = {}
    BY DEF Booking, CapInit
  <2>2. Cardinality(Booking(d)) = 0 /\ spent[d] = 0
    BY <2>1, FS_EmptySet DEF CapInit
  <2>3. MaxCost * 0 = 0 /\ MaxCost * Cardinality(Callers) \in Nat
    BY FS_CardinalityType
  <2>4. QED
    BY <2>2, <2>3
<1>3. QED
  BY <1>1, <1>2 DEF IInv

LEMMA CapTypesStep ==
  ASSUME BudgetAssumption
  PROVE  CapTypes /\ [CapNext]_purse => CapTypes'
<1> SUFFICES ASSUME CapTypes, [CapNext]_purse PROVE CapTypes'
  OBVIOUS
<1> USE DEF CapTypes, Calendar
<1>1. CASE DayPasses
  BY <1>1 DEF DayPasses
<1>2. ASSUME NEW w \in Callers, Clear(w) PROVE CapTypes'
  BY <1>2 DEF Clear
<1>3. ASSUME NEW w \in Callers, Asks(w) PROVE CapTypes'
  BY <1>3 DEF Asks
<1>4. ASSUME NEW w \in Callers, Pay(w) PROVE CapTypes'
  BY <1>4 DEF Pay, Returns
<1>5. ASSUME NEW w \in Callers, GiveUp(w) PROVE CapTypes'
  BY <1>5 DEF GiveUp, Returns
<1>6. CASE UNCHANGED purse
  BY <1>6 DEF purse
<1>7. QED
  BY <1>1, <1>2, <1>3, <1>4, <1>5, <1>6 DEF CapNext

LEMMA DaysStep ==
  ASSUME BudgetAssumption
  PROVE  CapTypes /\ NotAhead /\ FutureIsFree /\ [CapNext]_purse => (NotAhead /\ FutureIsFree)'
<1> SUFFICES ASSUME CapTypes, NotAhead, FutureIsFree, [CapNext]_purse
    PROVE (NotAhead /\ FutureIsFree)'
  OBVIOUS
<1> USE DEF CapTypes, Calendar, NotAhead, FutureIsFree
<1>1. CASE DayPasses
  BY <1>1 DEF DayPasses
<1>2. ASSUME NEW w \in Callers, Clear(w) PROVE (NotAhead /\ FutureIsFree)'
  BY <1>2 DEF Clear
<1>3. ASSUME NEW w \in Callers, Asks(w) PROVE (NotAhead /\ FutureIsFree)'
  BY <1>3 DEF Asks
<1>4. ASSUME NEW w \in Callers, Pay(w) PROVE (NotAhead /\ FutureIsFree)'
  BY <1>4 DEF Pay, Returns
<1>5. ASSUME NEW w \in Callers, GiveUp(w) PROVE (NotAhead /\ FutureIsFree)'
  BY <1>5 DEF GiveUp, Returns
<1>6. CASE UNCHANGED purse
  BY <1>6 DEF purse
<1>7. QED
  BY <1>1, <1>2, <1>3, <1>4, <1>5, <1>6 DEF CapNext

(***************************************************************************)
(* The room.                                                               *)
(***************************************************************************)
LEMMA RoomStep ==
  ASSUME BudgetAssumption
  PROVE  IInv /\ [CapNext]_purse => Room'
<1> SUFFICES ASSUME IInv, [CapNext]_purse, NEW d \in Calendar
    PROVE (spent[d] + MaxCost * Cardinality(Booking(d)) < Limit + MaxCost * Cardinality(Callers))'
  BY DEF Room, Calendar
<1> DEFINE B == Booking(d)  C == Booking(d)'
<1> DEFINE Bound == Limit + MaxCost * Cardinality(Callers)
<1>0. /\ CapTypes /\ spent[d] \in Nat /\ B \in SUBSET Callers /\ C \in SUBSET Callers
      /\ spent[d] + MaxCost * Cardinality(B) < Bound
  BY DEF IInv, CapTypes, Room, Booking
<1>00. Cardinality(Callers) \in Nat /\ MaxCost * Cardinality(Callers) \in Nat /\ Bound \in Nat
  BY FS_CardinalityType
<1>f. ASSUME spent'[d] = spent[d], C \subseteq B
      PROVE  spent'[d] + MaxCost * Cardinality(C) < Bound
  BY <1>f, <1>0, FewerBook
<1>n. ASSUME spent'[d] < Limit
      PROVE  spent'[d] \in Nat => spent'[d] + MaxCost * Cardinality(C) < Bound
  <2>1. Cardinality(C) \in Nat /\ Cardinality(C) <= Cardinality(Callers)
    BY <1>0, Counts
  <2>2. MaxCost * Cardinality(C) \in Nat /\ MaxCost * Cardinality(C) <= MaxCost * Cardinality(Callers)
    BY <2>1, <1>00, Times
  <2>3. QED
    BY <2>2, <1>00, <1>n
<1>1. CASE DayPasses
  <2>1. CASE d = day'
    <3>1. spent'[d] = 0
      BY <1>1, <2>1 DEF DayPasses, IInv, FutureIsFree, CapTypes, Calendar
    <3>2. QED
      BY <3>1, <1>n
  <2>2. CASE d # day'
    <3>1. C \subseteq B
      BY <1>1, <2>2 DEF DayPasses, Booking
    <3>2. spent'[d] = spent[d]
      BY <1>1 DEF DayPasses
    <3>3. QED
      BY <3>1, <3>2, <1>f
  <2>3. QED
    BY <2>1, <2>2
<1>2. ASSUME NEW w \in Callers, Clear(w) PROVE spent'[d] + MaxCost * Cardinality(C) < Bound
  <2>1. CASE d = day
    BY <2>1, <1>2, <1>0, <1>n DEF Clear
  <2>2. CASE d # day
    <3>1. C \subseteq B
      BY <1>2, <2>2, <1>0 DEF Clear, Booking, CapTypes
    <3>2. spent'[d] = spent[d]
      BY <1>2 DEF Clear
    <3>3. QED
      BY <3>1, <3>2, <1>f
  <2>3. QED
    BY <2>1, <2>2
<1>3. ASSUME NEW w \in Callers, Asks(w) PROVE spent'[d] + MaxCost * Cardinality(C) < Bound
  <2>1. C \subseteq B
    BY <1>3, <1>0 DEF Asks, Booking, CapTypes
  <2>2. spent'[d] = spent[d]
    BY <1>3 DEF Asks
  <2>3. QED
    BY <2>1, <2>2, <1>f
<1>4. ASSUME NEW w \in Callers, Pay(w) PROVE spent'[d] + MaxCost * Cardinality(C) < Bound
  <2>1. CASE d # began[w]
    <3>1. C \subseteq B
      BY <1>4, <1>0 DEF Pay, Returns, Booking, CapTypes
    <3>2. spent'[d] = spent[d]
      BY <1>4, <2>1, <1>0 DEF Pay, Returns, CapTypes
    <3>3. QED
      BY <3>1, <3>2, <1>f
  <2>2. CASE d = began[w]
    <3>1. w \in B /\ C \subseteq B \ {w}
      BY <1>4, <2>2, <1>0 DEF Pay, Returns, Booking, CapTypes
    <3>2. PICK cost \in 0 .. MaxCost : spent'[d] = spent[d] + cost
      BY <1>4, <2>2, <1>0 DEF Pay, Returns, CapTypes
    <3> DEFINE n == Cardinality(B \ {w})
    <3>3. IsFiniteSet(B)
      BY <1>0, FS_Subset
    <3>4. n \in Nat /\ Cardinality(B) = n + 1
      <4>1. IsFiniteSet(B \ {w}) /\ n = Cardinality(B) - 1
        BY <3>1, <3>3, FS_RemoveElement
      <4>2. n \in Nat /\ Cardinality(B) \in Nat
        BY <4>1, <3>3, FS_CardinalityType
      <4>3. QED
        BY <4>1, <4>2
    <3>5. MaxCost * (n + 1) = MaxCost * n + MaxCost /\ MaxCost * n \in Nat
      BY <3>4, TimesNext, Times
    <3>6. spent[d] + (MaxCost * n + MaxCost) < Bound
      BY <1>0, <3>4, <3>5
    <3>7. spent'[d] \in Nat /\ spent'[d] + MaxCost * n < Bound
      BY <3>2, <3>5, <3>6, <1>0, <1>00
    <3>8. B \ {w} \in SUBSET Callers /\ C \in SUBSET (B \ {w})
      BY <1>0, <3>1
    <3>9. QED
      BY <3>7, <3>8, FewerBook
  <2>3. QED
    BY <2>1, <2>2
<1>5. ASSUME NEW w \in Callers, GiveUp(w) PROVE spent'[d] + MaxCost * Cardinality(C) < Bound
  <2>1. C \subseteq B
    BY <1>5, <1>0 DEF GiveUp, Returns, Booking, CapTypes
  <2>2. spent'[d] = spent[d]
    BY <1>5 DEF GiveUp, Returns
  <2>3. QED
    BY <2>1, <2>2, <1>f
<1>6. CASE UNCHANGED purse
  <2>1. C = B /\ spent' = spent
    BY <1>6 DEF purse, Booking
  <2>2. QED
    BY <2>1, <1>f
<1>7. spent'[d] + MaxCost * Cardinality(C) < Bound
  BY <1>1, <1>2, <1>3, <1>4, <1>5, <1>6 DEF CapNext
<1>8. QED
  BY <1>7

LEMMA InvStep ==
  ASSUME BudgetAssumption
  PROVE  IInv /\ [CapNext]_purse => IInv'
BY CapTypesStep, DaysStep, RoomStep DEF IInv

LEMMA RoomBounds ==
  ASSUME BudgetAssumption
  PROVE  IInv => Bounded
<1> SUFFICES ASSUME IInv, NEW d \in Calendar
    PROVE spent[d] < Limit + MaxCost * Cardinality(Callers)
  BY DEF Bounded
<1>1. spent[d] \in Nat /\ Booking(d) \in SUBSET Callers
  BY DEF IInv, CapTypes, Booking
<1>2. Cardinality(Booking(d)) \in Nat /\ Cardinality(Callers) \in Nat
  BY <1>1, Counts
<1>3. MaxCost * Cardinality(Booking(d)) \in Nat /\ MaxCost * Cardinality(Callers) \in Nat
  BY <1>2, Times
<1>4. spent[d] + MaxCost * Cardinality(Booking(d)) < Limit + MaxCost * Cardinality(Callers)
  BY DEF IInv, Room
<1>5. QED
  BY <1>1, <1>3, <1>4

(***************************************************************************)
(* The daily cap (over_budget, budget_reached) is passed by less than one  *)
(* call of each caller, whatever they ask and whenever midnight falls.     *)
(***************************************************************************)
THEOREM CapHolds ==
  ASSUME BudgetAssumption
  PROVE  CapSpec => []Bounded
<1>1. CapInit => IInv
  BY InitInv
<1>2. IInv /\ [CapNext]_purse => IInv'
  BY InvStep
<1>3. IInv => Bounded
  BY RoomBounds
<1>4. QED
  BY <1>1, <1>2, <1>3, PTL DEF CapSpec
=============================================================================
