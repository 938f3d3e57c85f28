----------------------------- MODULE DeskProofs -----------------------------
(***************************************************************************)
(* What a user says about a failure, for any shells, commands, requests,   *)
(* cases kept and remembered, old files, corrupt or not, and any number of *)
(* processes that end.  Desk and its store do a fold over sequences        *)
(* (Written, Only); what a fold does to every sequence is shown here by    *)
(* the least number at which it would not.                                 *)
(***************************************************************************)
EXTENDS Desk, WellFoundedInduction, TLAPS

(***************************************************************************)
(* Sequences, and least and greatest numbers.                              *)
(***************************************************************************)
Sequence(q) == \E S : q \in Seq(S)
Stands(x, q) == \E i \in 1 .. Len(q) : q[i] = x

LEMMA LeastOf == ASSUME NEW S \in SUBSET Nat, S # {} PROVE \E x \in S : \A y \in S : x <= y
<1>1. IsWellFoundedOn(OpToRel(<, Nat), Nat)
  BY NatLessThanWellFounded
<1>2. PICK x \in S : \A y \in S : ~ (<<y, x>> \in OpToRel(<, Nat))
  BY <1>1, WFMin, Zenon
<1>3. \A y \in S : ~ (y < x)
  BY <1>2 DEF OpToRel
<1> QED BY <1>3

LEMMA GreatestOf ==
  ASSUME NEW S \in SUBSET Nat, NEW n \in Nat, S # {}, \A y \in S : y <= n
  PROVE  \E x \in S : \A y \in S : y <= x
<1> DEFINE D == {n - y : y \in S}
<1>1. D \in SUBSET Nat /\ D # {}
  <2>1. \A y \in S : n - y \in Nat
    OBVIOUS
  <2>2. PICK y \in S : TRUE
    OBVIOUS
  <2> QED BY <2>1, <2>2
<1>2. PICK d \in D : \A e \in D : d <= e
  <2> HIDE DEF D
  <2> QED BY <1>1, LeastOf
<1>3. PICK x \in S : d = n - x
  BY <1>2
<1>4. \A y \in S : d <= n - y
  BY <1>2
<1> QED BY <1>3, <1>4

LEMMA ThisIsMax ==
  ASSUME NEW S \in SUBSET Nat, NEW x \in S, \A y \in S : y <= x
  PROVE  Max(S) = x
<1>1. \A m \in S : (\A y \in S : m >= y) => m = x
  OBVIOUS
<1>2. \A y \in S : x >= y
  OBVIOUS
<1> QED BY <1>1, <1>2 DEF Max

\* Induction: what holds of 0 and is handed on holds of every number.
LEMMA Handed ==
  ASSUME NEW T \in SUBSET Nat, NEW n \in Nat, 0 \in T, \A k \in 0 .. n - 1 : k \in T => k + 1 \in T
  PROVE  \A k \in 0 .. n : k \in T
<1> DEFINE U == {k \in 0 .. n : k \notin T}
<1> SUFFICES ASSUME U # {} PROVE FALSE
  OBVIOUS
<1>1. PICK x \in U : \A y \in U : x <= y
  <2>1. U \in SUBSET Nat
    OBVIOUS
  <2> HIDE DEF U
  <2> QED BY <2>1, LeastOf
<1>2. x \in 0 .. n /\ x # 0
  OBVIOUS
<1>3. x - 1 \in 0 .. n - 1 /\ x - 1 \notin U
  BY <1>1, <1>2
<1>4. (x - 1) + 1 \in T
  BY <1>2, <1>3
<1> QED BY <1>2, <1>4

LEMMA UpTo ==
  ASSUME NEW n \in Nat
  PROVE  /\ 1 .. n + 1 # {} /\ Max(1 .. n + 1) = n + 1 /\ (1 .. n + 1) \ {n + 1} = 1 .. n
         /\ 1 .. 0 = {}
<1>1. Max(1 .. n + 1) = n + 1
  <2>1. 1 .. n + 1 \in SUBSET Nat /\ n + 1 \in 1 .. n + 1 /\ \A y \in 1 .. n + 1 : y <= n + 1
    OBVIOUS
  <2> QED BY <2>1, ThisIsMax
<1> QED BY <1>1
-----------------------------------------------------------------------------
(***************************************************************************)
(* Folding from the left is stepping along the sequence.                   *)
(***************************************************************************)
Writing(h, S, q) ==
  [s \in SUBSET S |-> IF s = {} THEN << >> ELSE Written(h[s \ {Max(s)}], q[Max(s)])]

LEMMA WritingExists ==
  ASSUME NEW n \in Nat, NEW q
  PROVE  \E h : h = Writing(h, 1 .. n, q)
<1> DEFINE T == {k \in Nat : \E h : h = Writing(h, 1 .. k, q)}
<1>1. 0 \in T
  <2> DEFINE h == [s \in SUBSET (1 .. 0) |-> << >>]
  <2>1. h = Writing(h, 1 .. 0, q)
    <3>1. \A s \in SUBSET (1 .. 0) : s = {}
      BY UpTo
    <3> QED BY <3>1 DEF Writing
  <2> QED BY <2>1
<1>2. ASSUME NEW k \in Nat, k \in T PROVE k + 1 \in T
  <2>1. PICK h : h = Writing(h, 1 .. k, q)
    BY <1>2
  <2> DEFINE g == [s \in SUBSET (1 .. k + 1) |->
                     IF k + 1 \in s THEN Written(h[s \ {k + 1}], q[k + 1]) ELSE h[s]]
  <2>2. ASSUME NEW s \in SUBSET (1 .. k + 1)
        PROVE  g[s] = IF s = {} THEN << >> ELSE Written(g[s \ {Max(s)}], q[Max(s)])
    <3>1. CASE k + 1 \in s
      <4>1. s \in SUBSET Nat /\ \A y \in s : y <= k + 1
        OBVIOUS
      <4>2. Max(s) = k + 1
        BY <3>1, <4>1, ThisIsMax
      <4>3. s \ {k + 1} \in SUBSET (1 .. k) /\ s \ {k + 1} \in SUBSET (1 .. k + 1)
        OBVIOUS
      <4>4. g[s \ {k + 1}] = h[s \ {k + 1}]
        BY <4>3
      <4>5. g[s] = Written(h[s \ {k + 1}], q[k + 1])
        BY <3>1
      <4> HIDE DEF g
      <4> QED BY <3>1, <4>2, <4>4, <4>5
    <3>2. CASE k + 1 \notin s
      <4>1. s \in SUBSET (1 .. k)
        BY <3>2
      <4>2. h[s] = IF s = {} THEN << >> ELSE Written(h[s \ {Max(s)}], q[Max(s)])
        BY <2>1, <4>1 DEF Writing
      <4>3. s \ {Max(s)} \in SUBSET (1 .. k) /\ s \ {Max(s)} \in SUBSET (1 .. k + 1)
            /\ k + 1 \notin s \ {Max(s)}
        BY <4>1, <3>2
      <4>4. g[s \ {Max(s)}] = h[s \ {Max(s)}] /\ g[s] = h[s]
        BY <4>3, <3>2
      <4> HIDE DEF g
      <4> QED BY <4>2, <4>4
    <3> QED BY <3>1, <3>2
  <2>3. g = Writing(g, 1 .. k + 1, q)
    <3>1. g = [s \in SUBSET (1 .. k + 1) |-> g[s]]
      OBVIOUS
    <3> HIDE DEF g
    <3> QED BY <2>2, <3>1 DEF Writing
  <2> HIDE DEF g
  <2> QED BY <2>3
<1>3. n \in T
  <2> HIDE DEF T
  <2>1. T \in SUBSET Nat
    BY DEF T
  <2>2. \A k \in 0 .. n - 1 : k \in T => k + 1 \in T
    BY <1>2
  <2> QED BY <1>1, <2>1, <2>2, Handed
<1> QED BY <1>3

Wrote(q) == CHOOSE h : h = Writing(h, DOMAIN q, q)

LEMMA FoldIsWrote ==
  ASSUME NEW q
  PROVE  FoldLeft(Written, << >>, q) = Wrote(q)[DOMAIN q]
BY DEF FoldLeft, MapThenFoldSet, Wrote, Writing

LEMMA Steps ==
  ASSUME NEW q, Sequence(q)
  PROVE  /\ Wrote(q)[1 .. 0] = << >>
         /\ \A k \in 0 .. Len(q) - 1 :
              Wrote(q)[1 .. k + 1] = Written(Wrote(q)[1 .. k], q[k + 1])
<1>1. Len(q) \in Nat /\ DOMAIN q = 1 .. Len(q)
  BY DEF Sequence
<1>2. Wrote(q) = Writing(Wrote(q), 1 .. Len(q), q)
  BY <1>1, WritingExists DEF Wrote
<1> DEFINE h == Wrote(q)
<1>3. \A s \in SUBSET (1 .. Len(q)) :
        h[s] = IF s = {} THEN << >> ELSE Written(h[s \ {Max(s)}], q[Max(s)])
  <2> HIDE DEF h
  <2>1. h = Writing(h, 1 .. Len(q), q)
    BY <1>2 DEF h
  <2> QED BY <2>1 DEF Writing
<1> HIDE DEF h
<1>4. h[1 .. 0] = << >>
  BY <1>3, UpTo
<1>5. ASSUME NEW k \in 0 .. Len(q) - 1 PROVE h[1 .. k + 1] = Written(h[1 .. k], q[k + 1])
  <2>1. k \in Nat /\ 1 .. k + 1 \in SUBSET (1 .. Len(q))
    BY <1>1
  <2>2. 1 .. k + 1 # {} /\ Max(1 .. k + 1) = k + 1 /\ (1 .. k + 1) \ {k + 1} = 1 .. k
    BY <2>1, UpTo
  <2> QED BY <1>3, <2>1, <2>2
<1> QED BY <1>4, <1>5 DEF h

(* `filter` in the same way. *)
Taken(X, out, x) == IF x \in X THEN Append(out, x) ELSE out
Taking(h, S, q, X) ==
  [s \in SUBSET S |-> IF s = {} THEN << >> ELSE Taken(X, h[s \ {Max(s)}], q[Max(s)])]

LEMMA TakingExists ==
  ASSUME NEW n \in Nat, NEW q, NEW X
  PROVE  \E h : h = Taking(h, 1 .. n, q, X)
<1> DEFINE T == {k \in Nat : \E h : h = Taking(h, 1 .. k, q, X)}
<1>1. 0 \in T
  <2> DEFINE h == [s \in SUBSET (1 .. 0) |-> << >>]
  <2>1. h = Taking(h, 1 .. 0, q, X)
    <3>1. \A s \in SUBSET (1 .. 0) : s = {}
      BY UpTo
    <3> QED BY <3>1 DEF Taking
  <2> QED BY <2>1
<1>2. ASSUME NEW k \in Nat, k \in T PROVE k + 1 \in T
  <2>1. PICK h : h = Taking(h, 1 .. k, q, X)
    BY <1>2
  <2> DEFINE g == [s \in SUBSET (1 .. k + 1) |->
                     IF k + 1 \in s THEN Taken(X, h[s \ {k + 1}], q[k + 1]) ELSE h[s]]
  <2>2. ASSUME NEW s \in SUBSET (1 .. k + 1)
        PROVE  g[s] = IF s = {} THEN << >> ELSE Taken(X, g[s \ {Max(s)}], q[Max(s)])
    <3>1. CASE k + 1 \in s
      <4>1. s \in SUBSET Nat /\ \A y \in s : y <= k + 1
        OBVIOUS
      <4>2. Max(s) = k + 1
        BY <3>1, <4>1, ThisIsMax
      <4>3. s \ {k + 1} \in SUBSET (1 .. k) /\ s \ {k + 1} \in SUBSET (1 .. k + 1)
        OBVIOUS
      <4>4. g[s \ {k + 1}] = h[s \ {k + 1}]
        BY <4>3
      <4>5. g[s] = Taken(X, h[s \ {k + 1}], q[k + 1])
        BY <3>1
      <4> HIDE DEF g
      <4> QED BY <3>1, <4>2, <4>4, <4>5
    <3>2. CASE k + 1 \notin s
      <4>1. s \in SUBSET (1 .. k)
        BY <3>2
      <4>2. h[s] = IF s = {} THEN << >> ELSE Taken(X, h[s \ {Max(s)}], q[Max(s)])
        BY <2>1, <4>1 DEF Taking
      <4>3. s \ {Max(s)} \in SUBSET (1 .. k) /\ s \ {Max(s)} \in SUBSET (1 .. k + 1)
            /\ k + 1 \notin s \ {Max(s)}
        BY <4>1, <3>2
      <4>4. g[s \ {Max(s)}] = h[s \ {Max(s)}] /\ g[s] = h[s]
        BY <4>3, <3>2
      <4> HIDE DEF g
      <4> QED BY <4>2, <4>4
    <3> QED BY <3>1, <3>2
  <2>3. g = Taking(g, 1 .. k + 1, q, X)
    <3>1. g = [s \in SUBSET (1 .. k + 1) |-> g[s]]
      OBVIOUS
    <3> HIDE DEF g
    <3> QED BY <2>2, <3>1 DEF Taking
  <2> HIDE DEF g
  <2> QED BY <2>3
<1>3. n \in T
  <2> HIDE DEF T
  <2>1. T \in SUBSET Nat
    BY DEF T
  <2>2. \A k \in 0 .. n - 1 : k \in T => k + 1 \in T
    BY <1>2
  <2> QED BY <1>1, <2>1, <2>2, Handed
<1> QED BY <1>3

Took(q, X) == CHOOSE h : h = Taking(h, DOMAIN q, q, X)

LEMMA OnlyIsTook ==
  ASSUME NEW q, NEW X
  PROVE  Only(q, X) = Took(q, X)[DOMAIN q]
BY DEF Only, FoldLeft, MapThenFoldSet, Took, Taking, Taken

LEMMA OnlySteps ==
  ASSUME NEW q, NEW X, Sequence(q)
  PROVE  /\ Took(q, X)[1 .. 0] = << >>
         /\ \A k \in 0 .. Len(q) - 1 :
              Took(q, X)[1 .. k + 1] = Taken(X, Took(q, X)[1 .. k], q[k + 1])
<1>1. Len(q) \in Nat /\ DOMAIN q = 1 .. Len(q)
  BY DEF Sequence
<1>2. Took(q, X) = Taking(Took(q, X), 1 .. Len(q), q, X)
  BY <1>1, TakingExists DEF Took
<1> DEFINE h == Took(q, X)
<1>3. \A s \in SUBSET (1 .. Len(q)) :
        h[s] = IF s = {} THEN << >> ELSE Taken(X, h[s \ {Max(s)}], q[Max(s)])
  <2> HIDE DEF h
  <2>1. h = Taking(h, 1 .. Len(q), q, X)
    BY <1>2 DEF h
  <2> QED BY <2>1 DEF Taking
<1> HIDE DEF h
<1>4. h[1 .. 0] = << >>
  BY <1>3, UpTo
<1>5. ASSUME NEW k \in 0 .. Len(q) - 1 PROVE h[1 .. k + 1] = Taken(X, h[1 .. k], q[k + 1])
  <2>1. k \in Nat /\ 1 .. k + 1 \in SUBSET (1 .. Len(q))
    BY <1>1
  <2>2. 1 .. k + 1 # {} /\ Max(1 .. k + 1) = k + 1 /\ (1 .. k + 1) \ {k + 1} = 1 .. k
    BY <2>1, UpTo
  <2> QED BY <1>3, <2>1, <2>2
<1> QED BY <1>4, <1>5 DEF h

\* What is filtered is a sequence of what was there and is let through.
LEMMA OnlyOf ==
  ASSUME NEW T, NEW q \in Seq(T), NEW X
  PROVE  /\ Only(q, X) \in Seq(T) /\ Len(Only(q, X)) <= Len(q)
         /\ \A x : Stands(x, Only(q, X)) <=> x \in X /\ Stands(x, q)
<1> DEFINE h(k) == Took(q, X)[1 .. k]
           Good(k) == /\ h(k) \in Seq(T) /\ Len(h(k)) <= k
                      /\ \A x : (\E i \in 1 .. Len(h(k)) : h(k)[i] = x)
                                <=> x \in X /\ \E i \in 1 .. k : q[i] = x
           G == {k \in Nat : Good(k)}
<1>0. Len(q) \in Nat /\ DOMAIN q = 1 .. Len(q) /\ Sequence(q)
  BY DEF Sequence
<1>1. 0 \in G
  <2>1. h(0) = << >>
    BY <1>0, OnlySteps
  <2>2. << >> \in Seq(T) /\ Len(<< >>) = 0
    OBVIOUS
  <2>3. \A x : ~(\E i \in 1 .. Len(<< >>) : << >>[i] = x) /\ ~(\E i \in 1 .. 0 : q[i] = x)
    BY <2>2
  <2> HIDE DEF h
  <2>4. h(0) \in Seq(T) /\ Len(h(0)) <= 0
    <3>1. << >> \in Seq(T) /\ Len(<< >>) = 0 /\ 0 <= 0
      BY <2>2
    <3>2. PICK e \in Seq(T) : e = << >> /\ Len(e) = 0
      BY <3>1
    <3>3. Len(e) <= 0
      BY <3>2
    <3> QED BY <2>1, <3>2, <3>3
  <2>5. \A x : (\E i \in 1 .. Len(h(0)) : h(0)[i] = x)
               <=> x \in X /\ \E i \in 1 .. 0 : q[i] = x
    BY <2>1, <2>3
  <2> QED BY <2>4, <2>5
<1>2. ASSUME NEW k \in 0 .. Len(q) - 1, k \in G PROVE k + 1 \in G
  <2>1. h(k + 1) = Taken(X, h(k), q[k + 1])
    BY <1>0, OnlySteps
  <2>2. k + 1 \in 1 .. Len(q) /\ q[k + 1] \in T /\ k \in Nat /\ k + 1 \in Nat
    BY <1>0
  <2>3. PICK u \in Seq(T) : u = h(k)
    BY <1>2
  <2>4. PICK v : v = h(k + 1)
    OBVIOUS
  <2>8. Len(u) <= k
    BY <1>2, <2>3
  <2>5. \A x : (\E i \in 1 .. Len(u) : u[i] = x) <=> x \in X /\ \E i \in 1 .. k : q[i] = x
    BY <1>2, <2>3
  <2> HIDE DEF h
  <2>6. CASE q[k + 1] \in X
    <3>1. v = Append(u, q[k + 1])
      BY <2>1, <2>3, <2>4, <2>6 DEF Taken
    <3>2. v \in Seq(T) /\ Len(v) = Len(u) + 1 /\ v[Len(u) + 1] = q[k + 1] /\ Len(u) \in Nat
          /\ \A i \in 1 .. Len(u) : v[i] = u[i]
      BY <2>2, <3>1
    <3>3. ASSUME NEW x
          PROVE  (\E i \in 1 .. Len(v) : v[i] = x) <=> x \in X /\ \E i \in 1 .. k + 1 : q[i] = x
      <4>1. (\E i \in 1 .. Len(v) : v[i] = x) <=> (\E i \in 1 .. Len(u) : u[i] = x) \/ x = q[k + 1]
        <5>1. \A i \in 1 .. Len(v) : i \in 1 .. Len(u) \/ i = Len(u) + 1
          BY <3>2
        <5>2. \A i \in 1 .. Len(u) : i \in 1 .. Len(v)
          BY <3>2
        <5>3. Len(u) + 1 \in 1 .. Len(v)
          BY <3>2
        <5> QED BY <3>2, <5>1, <5>2, <5>3
      <4>2. (\E i \in 1 .. k + 1 : q[i] = x) <=> (\E i \in 1 .. k : q[i] = x) \/ x = q[k + 1]
        BY <2>2
      <4> QED BY <2>5, <2>6, <4>1, <4>2
    <3> QED BY <2>2, <2>4, <2>8, <3>2, <3>3
  <2>7. CASE q[k + 1] \notin X
    <3>1. v = u
      BY <2>1, <2>3, <2>4, <2>7 DEF Taken
    <3>2. ASSUME NEW x
          PROVE  (\E i \in 1 .. Len(v) : v[i] = x) <=> x \in X /\ \E i \in 1 .. k + 1 : q[i] = x
      <4>1. (\E i \in 1 .. k + 1 : q[i] = x) <=> (\E i \in 1 .. k : q[i] = x) \/ x = q[k + 1]
        BY <2>2
      <4> QED BY <2>5, <2>7, <3>1, <4>1
    <3> QED BY <2>2, <2>3, <2>4, <2>8, <3>1, <3>2
  <2> QED BY <2>6, <2>7
<1>3. Len(q) \in G
  <2> HIDE DEF G
  <2>1. G \in SUBSET Nat
    BY DEF G
  <2>2. \A k \in 0 .. Len(q) - 1 : k \in G => k + 1 \in G
    BY <1>2
  <2>3. \A k \in 0 .. Len(q) : k \in G
    BY <1>0, <1>1, <2>1, <2>2, Handed
  <2> QED BY <1>0, <2>3
<1>4. Only(q, X) = h(Len(q))
  BY <1>0, OnlyIsTook
<1> HIDE DEF h
<1> QED BY <1>3, <1>4 DEF Stands
-----------------------------------------------------------------------------
(***************************************************************************)
(* The rows and the log.  A row holds the place of the last save of its    *)
(* case in the log, and the rows are those of the last Kept saves.         *)
(***************************************************************************)
LastSaveAt(q, c, i) == i \in 1 .. Len(q) /\ q[i] = c /\ \A j \in 1 .. Len(q) : j > i => q[j] # c

Agrees(R, q) ==
  /\ q = << >> => R = << >>
  /\ q # << >> => R # << >>
  /\ \A c \in DOMAIN R : LastSaveAt(q, c, R[c]) /\ R[c] + Kept > Len(q)
  /\ \A i \in 1 .. Len(q) : i + Kept > Len(q) => q[i] \in DOMAIN R

LEMMA TopIsLength ==
  ASSUME NEW R, NEW q, Sequence(q), Agrees(R, q)
  PROVE  TopSeq(R) = Len(q)
<1>0. Len(q) \in Nat
  BY DEF Sequence
<1>1. CASE q = << >>
  BY <1>1 DEF Agrees, TopSeq
<1>2. CASE q # << >>
  <2>1. Len(q) \in 1 .. Len(q) /\ Len(q) + Kept > Len(q)
    BY <1>0, <1>2, StoreAssumption DEF Sequence
  <2>2. q[Len(q)] \in DOMAIN R
    BY <2>1 DEF Agrees
  <2>3. R[q[Len(q)]] = Len(q)
    <3>1. LastSaveAt(q, q[Len(q)], R[q[Len(q)]])
      BY <2>2 DEF Agrees
    <3> QED BY <1>0, <2>1, <3>1 DEF LastSaveAt
  <2>4. \A m \in Seqs(R) : m \in Nat /\ m <= Len(q)
    BY <1>0 DEF Agrees, Seqs, LastSaveAt
  <2>5. Len(q) \in Seqs(R)
    BY <2>2, <2>3 DEF Seqs
  <2>6. \A n \in Seqs(R) : (\A m \in Seqs(R) : m <= n) => n = Len(q)
    BY <1>0, <2>4, <2>5
  <2>7. R # << >>
    BY <1>2 DEF Agrees
  <2> QED BY <2>4, <2>5, <2>6, <2>7 DEF TopSeq
<1> QED BY <1>1, <1>2

LEMMA WrittenAgrees ==
  ASSUME NEW T, NEW q \in Seq(T), NEW c \in T, NEW R, Agrees(R, q)
  PROVE  Agrees(Written(R, c), Append(q, c))
<1> DEFINE n == Len(q)  p == Append(q, c)  W == Written(R, c)
           all == [d \in DOMAIN R \union {c} |-> IF d = c THEN n + 1 ELSE R[d]]
<1>1. n \in Nat /\ Len(p) = n + 1 /\ p[n + 1] = c /\ \A i \in 1 .. n : p[i] = q[i]
  OBVIOUS
<1>2. TopSeq(R) + 1 = n + 1
  BY TopIsLength DEF Sequence
<1>3. W = [d \in {e \in DOMAIN all : all[e] + Kept > n + 1} |-> all[d]]
  BY <1>2 DEF Written
<1>4. \A d \in DOMAIN R : R[d] \in 1 .. n /\ LastSaveAt(q, d, R[d])
  BY DEF Agrees, LastSaveAt
<1>5. \A d \in DOMAIN all : LastSaveAt(p, d, all[d])
  <2> SUFFICES ASSUME NEW d \in DOMAIN all PROVE LastSaveAt(p, d, all[d])
    OBVIOUS
  <2>1. CASE d = c
    BY <1>1, <2>1 DEF LastSaveAt
  <2>2. CASE d # c
    <3>1. d \in DOMAIN R /\ all[d] = R[d]
      BY <2>2
    <3>2. R[d] \in 1 .. n /\ LastSaveAt(q, d, R[d])
      BY <1>4, <3>1
    <3>3. q[R[d]] = d /\ \A j \in 1 .. n : j > R[d] => q[j] # d
      BY <3>2 DEF LastSaveAt
    <3>4. R[d] \in 1 .. n + 1 /\ p[R[d]] = d
      BY <1>1, <3>2, <3>3
    <3>5. \A j \in 1 .. n + 1 : j > R[d] => p[j] # d
      BY <1>1, <2>2, <3>3
    <3> QED BY <1>1, <3>1, <3>4, <3>5 DEF LastSaveAt
  <2> QED BY <2>1, <2>2
<1>6. c \in DOMAIN W /\ p # << >>
  <2>1. all[c] + Kept > n + 1 /\ c \in DOMAIN all
    BY <1>1, StoreAssumption
  <2> QED BY <1>1, <1>3, <2>1
<1>7. \A d \in DOMAIN W : LastSaveAt(p, d, W[d]) /\ W[d] + Kept > Len(p)
  <2> HIDE DEF all, W
  <2> QED BY <1>1, <1>3, <1>5
<1>8. ASSUME NEW i \in 1 .. Len(p), i + Kept > Len(p) PROVE p[i] \in DOMAIN W
  <2>1. CASE p[i] = c
    BY <1>6, <2>1
  <2>2. CASE p[i] # c
    <3>1. i \in 1 .. n /\ p[i] = q[i] /\ i + Kept > n
      BY <1>1, <1>8, <2>2, StoreAssumption
    <3>2. q[i] \in DOMAIN R
      BY <3>1 DEF Agrees
    <3>3. LastSaveAt(q, q[i], R[q[i]]) /\ R[q[i]] \in 1 .. n
      BY <1>4, <3>2
    <3>4. R[q[i]] >= i
      BY <1>1, <3>1, <3>3 DEF LastSaveAt
    <3>5. R[q[i]] + Kept > n + 1
      BY <1>1, <1>8, <3>1, <3>3, <3>4, StoreAssumption
    <3>6. q[i] \in DOMAIN all /\ all[q[i]] = R[q[i]]
      BY <2>2, <3>1, <3>2
    <3> HIDE DEF all, W
    <3> QED BY <1>3, <3>1, <3>5, <3>6
  <2> QED BY <2>1, <2>2
<1>9. W # << >>
  <2> HIDE DEF W
  <2>1. DOMAIN << >> = {}
    OBVIOUS
  <2> QED BY <1>6, <2>1
<1> HIDE DEF p, W
<1> QED BY <1>6, <1>7, <1>8, <1>9 DEF Agrees, p, W

\* What an import writes are the rows of its cases, in their order.
LEMMA ImportAgrees ==
  ASSUME NEW T, NEW q \in Seq(T)
  PROVE  Agrees(FoldLeft(Written, << >>, q), q)
<1> DEFINE h(k) == Wrote(q)[1 .. k]
           G == {k \in Nat : Agrees(h(k), SubSeq(q, 1, k))}
<1>0. Len(q) \in Nat /\ DOMAIN q = 1 .. Len(q) /\ Sequence(q)
  BY DEF Sequence
<1>1. 0 \in G
  <2>1. h(0) = << >>
    BY <1>0, Steps
  <2>2. SubSeq(q, 1, 0) = << >>
    OBVIOUS
  <2>3. Agrees(<< >>, << >>)
    BY DEF Agrees
  <2> HIDE DEF h
  <2> QED BY <2>1, <2>2, <2>3
<1>2. ASSUME NEW k \in 0 .. Len(q) - 1, k \in G PROVE k + 1 \in G
  <2>1. h(k + 1) = Written(h(k), q[k + 1])
    BY <1>0, Steps
  <2>2. k + 1 \in 1 .. Len(q) /\ q[k + 1] \in T /\ k \in Nat /\ k + 1 \in Nat
    BY <1>0
  <2>3. SubSeq(q, 1, k) \in Seq(T) /\ SubSeq(q, 1, k + 1) = Append(SubSeq(q, 1, k), q[k + 1])
    BY <1>0, <2>2
  <2> HIDE DEF h
  <2>4. Agrees(h(k), SubSeq(q, 1, k))
    BY <1>2
  <2>5. Agrees(Written(h(k), q[k + 1]), Append(SubSeq(q, 1, k), q[k + 1]))
    BY <2>2, <2>3, <2>4, WrittenAgrees
  <2> QED BY <2>1, <2>2, <2>3, <2>5
<1>3. Len(q) \in G
  <2> HIDE DEF G
  <2>1. G \in SUBSET Nat
    BY DEF G
  <2>2. \A k \in 0 .. Len(q) - 1 : k \in G => k + 1 \in G
    BY <1>2
  <2>3. \A k \in 0 .. Len(q) : k \in G
    BY <1>0, <1>1, <2>1, <2>2, Handed
  <2> QED BY <1>0, <2>3
<1>4. FoldLeft(Written, << >>, q) = h(Len(q)) /\ SubSeq(q, 1, Len(q)) = q
  BY <1>0, FoldIsWrote
<1> HIDE DEF h
<1> QED BY <1>3, <1>4
-----------------------------------------------------------------------------
(***************************************************************************)
(* The case with the highest row of some.                                  *)
(***************************************************************************)
LEMMA HighestOf ==
  ASSUME NEW T, NEW q \in Seq(T), NEW R, Agrees(R, q), R = rows,
         NEW C \in SUBSET DOMAIN R, C # {}
  PROVE  /\ Highest(C) \in C
         /\ \A d \in C : R[d] <= R[Highest(C)]
<1> DEFINE N == {R[c] : c \in C}
<1>1. \A c \in C : R[c] \in Nat /\ R[c] <= Len(q)
  BY DEF Agrees, LastSaveAt
<1>2. N \in SUBSET Nat /\ N # {} /\ (\A n \in N : n <= Len(q)) /\ Len(q) \in Nat
  BY <1>1
<1>3. PICK n \in N : \A m \in N : m <= n
  <2> HIDE DEF N
  <2> QED BY <1>2, GreatestOf
<1>4. \E c \in C : \A d \in C : R[d] <= R[c]
  BY <1>3
<1> QED BY <1>4 DEF Highest

\* The row of the last save among some that are kept is the highest of them.
LEMMA HighestIsLast ==
  ASSUME NEW T, NEW q \in Seq(T), NEW R, Agrees(R, q), R = rows, NEW C \in SUBSET DOMAIN R,
         NEW I, I = {i \in 1 .. Len(q) : i + Kept > Len(q) /\ q[i] \in C}
  PROVE  Highest(C) = IF I = {} THEN 0 ELSE q[Max(I)]
<1>0. Len(q) \in Nat
  OBVIOUS
<1>1. \A c \in C : R[c] \in I /\ q[R[c]] = c
  BY <1>0 DEF Agrees, LastSaveAt
<1>2. \A i \in I : q[i] \in C /\ i \in Nat /\ i <= Len(q)
  BY <1>0
<1>3. CASE C = {}
  BY <1>2, <1>3 DEF Highest
<1>4. CASE C # {}
  <2>1. Highest(C) \in C /\ \A d \in C : R[d] <= R[Highest(C)]
    BY <1>4, HighestOf
  <2> DEFINE c == Highest(C)
  <2> HIDE DEF c
  <2>2. R[c] \in I /\ q[R[c]] = c /\ R[c] \in Nat
    BY <1>1, <1>2, <2>1 DEF c
  <2>3. ASSUME NEW i \in I PROVE i <= R[c]
    <3>1. q[i] \in C /\ q[i] \in DOMAIN R
      BY <1>2
    <3>2. LastSaveAt(q, q[i], R[q[i]])
      BY <3>1 DEF Agrees
    <3>3. i <= R[q[i]] /\ R[q[i]] \in Nat /\ i \in Nat
      BY <1>0, <1>2, <3>2 DEF LastSaveAt
    <3>4. R[q[i]] <= R[c]
      BY <2>1, <3>1 DEF c
    <3> QED BY <2>2, <3>3, <3>4
  <2>4. Max(I) = R[c]
    BY <1>2, <2>2, <2>3, ThisIsMax
  <2> QED BY <2>2, <2>4 DEF c
<1> QED BY <1>3, <1>4
-----------------------------------------------------------------------------
(***************************************************************************)
(* The invariant.  Nothing is saved, kept or clicked before the commit of  *)
(* the import; then the rows agree with the log.                           *)
(***************************************************************************)
Stages == {"closed", "waits", "imports", "open"}
Batches == [cases : Seq(1 .. Len(Old)), list : Seq(ToSet(OldIgnores))]

Opened ==
  /\ version \in {0, 1} /\ conn \in [Procs -> Stages] /\ batch \in [Procs -> Batches]
  /\ \A p \in Procs : conn[p] = "imports" => lock = p /\ version = 0
Before == \A p \in Procs : conn[p] # "open"
Empty  == facts = Old /\ rows = << >> /\ log = << >> /\ list = << >> /\ kept = {}
Early  == version = 0 => Before /\ Empty

Saved ==
  /\ Sequence(facts) /\ Len(Old) <= Len(facts) /\ Sequence(list)
  /\ log \in Seq(1 .. Len(facts))
  /\ Agrees(rows, log)

Framed ==
  /\ frame = [s \in Shells |-> frame[s]]
  /\ \A s \in Shells : frame[s] # Quiet => frame[s].by \in Procs

\* A bubble's case was saved, and its shell is known.
Bubble(c, s) ==
  c \in 1 .. Len(facts) /\ s \in Shells /\ facts[c].shell = s /\ Stands(c, log)
Bubbles == \A c \in DOMAIN shellOf : Bubble(c, shellOf[c])

Fields(x) ==
  x = [stage |-> x.stage, by |-> x.by, shell |-> x.shell, clicked |-> x.clicked,
       action |-> x.action, entry |-> x.entry, copy |-> x.copy]
Running(x) ==
  /\ Fields(x)
  /\ x.stage \in {"reads", "replaces", "acts"} => x.by \in Procs
  /\ x.stage = "replaces" => Sequence(x.copy) /\ Stands(x.entry, x.copy)
  /\ x.stage = "acts" => Bubble(x.clicked, x.shell)
Runs == run = [t \in Tools |-> run[t]] /\ \A t \in Tools : Running(run[t])

Told == \A e \in kept \ dropped : Stands(e, list)

OnNewer ==
  acted.on # acted.clicked =>
    /\ {acted.on, acted.clicked} \subseteq 1 .. Len(facts)
    /\ facts[acted.on].shell = facts[acted.clicked].shell
    /\ \E i, j \in 1 .. Len(log) : i < j /\ log[i] = acted.clicked /\ log[j] = acted.on

DeskInv ==
  /\ Opened /\ Early /\ Saved /\ Framed /\ Bubbles /\ Runs /\ Told /\ OnNewer
  /\ NewestAnswers
-----------------------------------------------------------------------------
LEMMA OldSeq ==
  /\ Old \in Seq(ToSet(Old)) /\ Len(Old) \in Nat /\ DOMAIN Old = 1 .. Len(Old)
  /\ LastSaved \in 1 .. Len(Old) /\ OldIgnores \in Seq(ToSet(OldIgnores))
BY StoreAssumption

LEMMA ImportTyped == ASSUME NEW F PROVE ImportOrder(F) \in Seq(1 .. Len(Old))
<1> DEFINE q == [i \in DOMAIN Old |-> i]
<1>1. q \in Seq(1 .. Len(Old))
  BY OldSeq
<1>2. Only(q, F) \in Seq(1 .. Len(Old))
  <2> HIDE DEF q
  <2> QED BY <1>1, OnlyOf
<1>3. (IF LastFile \in F THEN <<LastSaved>> ELSE << >>) \in Seq(1 .. Len(Old))
  <2>1. << >> \in Seq(1 .. Len(Old)) /\ <<LastSaved>> \in Seq(1 .. Len(Old))
    BY OldSeq
  <2> QED BY <2>1
<1> HIDE DEF q
<1>4. PICK u \in Seq(1 .. Len(Old)) : u = Only(q, F)
  BY <1>2
<1>5. PICK v \in Seq(1 .. Len(Old)) : v = IF LastFile \in F THEN <<LastSaved>> ELSE << >>
  BY <1>3
<1>6. u \o v \in Seq(1 .. Len(Old))
  OBVIOUS
<1> QED BY <1>4, <1>5, <1>6 DEF ImportOrder, q

LEMMA DeskInit == Init => DeskInv
<1> SUFFICES ASSUME Init PROVE DeskInv
  OBVIOUS
<1> USE DEF Init, StoreInit
<1>1. Nothing \in Batches
  <2>1. << >> \in Seq(1 .. Len(Old)) /\ << >> \in Seq(ToSet(OldIgnores))
    OBVIOUS
  <2> QED BY <2>1 DEF Nothing, Batches
<1>2. Opened /\ Early
  BY <1>1 DEF Opened, Early, Before, Empty, Stages
<1>3. Saved
  <2>1. Sequence(facts)
    BY OldSeq DEF Sequence
  <2>2. << >> \in Seq(1 .. Len(Old)) /\ << >> \in Seq({}) /\ Len(<< >>) = 0
    OBVIOUS
  <2>3. Agrees(<< >>, << >>)
    BY <2>2 DEF Agrees
  <2> QED BY <2>1, <2>2, <2>3, OldSeq DEF Saved, Sequence
<1>4. Framed /\ Told /\ OnNewer /\ NewestAnswers
  BY DEF Framed, Told, OnNewer, NewestAnswers, NoClick
<1>5. Bubbles
  <2>1. DOMAIN << >> = {}
    OBVIOUS
  <2> QED BY <2>1 DEF Bubbles
<1>6. Runs
  BY DEF Runs, Running, Fields, Idle
<1> QED BY <1>2, <1>3, <1>4, <1>5, <1>6 DEF DeskInv
-----------------------------------------------------------------------------
(***************************************************************************)
(* Facts and log only grow.                                                *)
(***************************************************************************)
Grows ==
  /\ Len(facts) <= Len(facts') /\ \A c \in 1 .. Len(facts) : facts'[c] = facts[c]
  /\ Len(log) <= Len(log') /\ \A i \in 1 .. Len(log) : log'[i] = log[i]

LEMMA Lengths ==
  ASSUME Saved
  PROVE  Len(facts) \in Nat /\ Len(log) \in Nat /\ DOMAIN facts = 1 .. Len(facts)
         /\ DOMAIN log = 1 .. Len(log) /\ \A i \in 1 .. Len(log) : log[i] \in 1 .. Len(facts)
BY DEF Saved, Sequence

BubbleThen(c, s) ==
  c \in 1 .. Len(facts') /\ s \in Shells /\ facts'[c].shell = s /\ Stands(c, log')

LEMMA BubbleStays ==
  ASSUME Saved, Saved', Grows, NEW c, NEW s, Bubble(c, s)
  PROVE  BubbleThen(c, s)
<1>1. Len(facts) \in Nat /\ Len(log) \in Nat /\ Len(facts') \in Nat /\ Len(log') \in Nat
  BY Lengths DEF Saved, Sequence
<1>2. c \in 1 .. Len(facts') /\ facts'[c].shell = s /\ s \in Shells
  BY <1>1 DEF Bubble, Grows
<1>3. PICK i \in 1 .. Len(log) : log[i] = c
  BY DEF Bubble, Stands
<1>4. i \in 1 .. Len(log') /\ log'[i] = c
  BY <1>1, <1>3 DEF Grows
<1> QED BY <1>2, <1>4 DEF BubbleThen, Stands

LEMMA BubblesStay ==
  ASSUME Saved, Saved', Grows, Bubbles, shellOf' = shellOf
  PROVE  Bubbles'
<1>1. ASSUME NEW c \in DOMAIN shellOf PROVE BubbleThen(c, shellOf[c])
  BY BubbleStays DEF Bubbles
<1> QED BY <1>1 DEF Bubbles, Bubble, BubbleThen

LEMMA OnNewerStays ==
  ASSUME Saved, Saved', Grows, OnNewer, acted' = acted
  PROVE  OnNewer'
<1> SUFFICES ASSUME acted.on # acted.clicked
             PROVE  /\ {acted.on, acted.clicked} \subseteq 1 .. Len(facts')
                    /\ facts'[acted.on].shell = facts'[acted.clicked].shell
                    /\ \E i, j \in 1 .. Len(log') :
                         i < j /\ log'[i] = acted.clicked /\ log'[j] = acted.on
  BY DEF OnNewer
<1>1. Len(facts) \in Nat /\ Len(log) \in Nat /\ Len(facts') \in Nat /\ Len(log') \in Nat
  BY Lengths DEF Saved, Sequence
<1>2. {acted.on, acted.clicked} \subseteq 1 .. Len(facts)
      /\ facts[acted.on].shell = facts[acted.clicked].shell
  BY DEF OnNewer
<1>3. PICK i, j \in 1 .. Len(log) : i < j /\ log[i] = acted.clicked /\ log[j] = acted.on
  BY DEF OnNewer
<1>4. i \in 1 .. Len(log') /\ j \in 1 .. Len(log') /\ log'[i] = log[i] /\ log'[j] = log[j]
  BY <1>1 DEF Grows
<1>5. acted.on \in 1 .. Len(facts') /\ acted.clicked \in 1 .. Len(facts')
      /\ facts'[acted.on] = facts[acted.on] /\ facts'[acted.clicked] = facts[acted.clicked]
  BY <1>1, <1>2 DEF Grows
<1> QED BY <1>2, <1>3, <1>4, <1>5

LEMMA RunsStay ==
  ASSUME Saved, Saved', Grows, Runs, run' = run
  PROVE  Runs'
<1>1. ASSUME NEW t \in Tools PROVE Running(run[t])'
  <2>1. Running(run[t])
    BY DEF Runs
  <2>2. run[t].stage = "acts" => BubbleThen(run[t].clicked, run[t].shell)
    BY <2>1, BubbleStays DEF Running
  <2> QED BY <2>1, <2>2 DEF Running, Bubble, BubbleThen
<1> QED BY <1>1 DEF Runs

LEMMA Committed ==
  ASSUME Opened, Early, NEW p \in Procs, Usable(p)
  PROVE  version = 1
BY DEF Opened, Early, Before, Usable

\* A step that leaves the store, or what was saved, alone.
LEMMA SameSaved == ASSUME Saved, facts' = facts, log' = log, rows' = rows, list' = list
                   PROVE  Saved' /\ Grows
<1>1. Saved'
  BY DEF Saved, Sequence, Agrees, LastSaveAt
<1>2. Grows
  BY Lengths DEF Grows
<1> QED BY <1>1, <1>2

LEMMA SameStore ==
  ASSUME DeskInv, UNCHANGED storeVars
  PROVE  /\ Opened' /\ Saved' /\ Grows
         /\ kept' = kept => Early'
         /\ version = 1 => Early'
<1>1. Opened'
  BY DEF DeskInv, Opened, storeVars, opening
<1>2. Saved' /\ Grows
  BY SameSaved DEF DeskInv, storeVars, stored
<1>3. kept' = kept => Early'
  BY DEF DeskInv, Early, Before, Empty, storeVars, opening, stored
<1>4. version = 1 => Early'
  BY DEF Early, storeVars, opening
<1> QED BY <1>1, <1>2, <1>3, <1>4
-----------------------------------------------------------------------------
(***************************************************************************)
(* Failures.                                                               *)
(***************************************************************************)
LEMMA JudgesStep ==
  ASSUME DeskInv, NEW p \in Procs, NEW s \in Shells, NEW what, Judges(p, s, what)
  PROVE  DeskInv'
<1> USE DEF Judges
<1>1. Opened' /\ Saved' /\ Grows /\ Early'
  BY SameStore
<1>2. Saved /\ Framed /\ Bubbles /\ Runs /\ Told /\ OnNewer /\ NewestAnswers
  BY DEF DeskInv
<1>3. Framed'
  BY <1>2 DEF Framed
<1>4. Bubbles' /\ Runs' /\ OnNewer'
  BY <1>1, <1>2, BubblesStay, RunsStay, OnNewerStays
<1>5. Told' /\ NewestAnswers'
  BY <1>2 DEF Told, NewestAnswers, storeVars, stored, Stands
<1> QED BY <1>1, <1>3, <1>4, <1>5 DEF DeskInv

LEMMA SavesCase ==
  ASSUME Saved, NEW c \in 1 .. Len(facts'), Sequence(facts'), Len(facts) <= Len(facts'),
         \A d \in 1 .. Len(facts) : facts'[d] = facts[d], Saves(c), list' = list
  PROVE  Saved' /\ Grows /\ Stands(c, log')
<1>1. Len(facts) \in Nat /\ Len(log) \in Nat /\ Len(facts') \in Nat
  BY Lengths DEF Sequence
<1>2. log \in Seq(1 .. Len(facts'))
  BY <1>1 DEF Saved
<1>3. log' = Append(log, c) /\ rows' = Written(rows, c)
  BY DEF Saves
<1>4. log' \in Seq(1 .. Len(facts')) /\ Len(log') = Len(log) + 1 /\ log'[Len(log) + 1] = c
      /\ \A i \in 1 .. Len(log) : log'[i] = log[i]
  BY <1>2, <1>3
<1>5. Agrees(rows', log')
  <2>1. Agrees(rows, log)
    BY DEF Saved
  <2> QED BY <1>2, <1>3, <2>1, WrittenAgrees
<1>6. Len(log) + 1 \in 1 .. Len(log')
  BY <1>1, <1>4
<1>7. Saved'
  <2>1. (Agrees(rows, log))'
    BY <1>5 DEF Agrees, LastSaveAt
  <2>2. Len(Old) <= Len(facts') /\ Sequence(list')
    BY <1>1, OldSeq DEF Saved
  <2>3. Sequence(facts)' /\ Sequence(list)'
    BY <2>2 DEF Sequence
  <2> QED BY <1>4, <2>1, <2>2, <2>3 DEF Saved
<1>8. Grows
  BY <1>1, <1>4 DEF Grows
<1> QED BY <1>4, <1>6, <1>7, <1>8 DEF Stands

LEMMA OffersStep ==
  ASSUME DeskInv, NEW s \in Shells, Offers(s)
  PROVE  DeskInv'
<1> DEFINE c == Len(facts) + 1  f == [shell |-> s, what |-> frame[s].what]
<1>0. Opened /\ Early /\ Saved /\ Framed /\ Bubbles /\ Runs /\ Told /\ OnNewer /\ NewestAnswers
  BY DEF DeskInv
<1>1. frame[s].by \in Procs /\ version = 1
  <2>1. frame[s].by \in Procs
    BY <1>0 DEF Offers, Framed
  <2> QED BY <1>0, <2>1, Committed DEF Offers
<1>2. /\ Sequence(facts') /\ Len(facts') = c /\ c \in 1 .. Len(facts') /\ facts'[c] = f
      /\ \A d \in 1 .. Len(facts) : facts'[d] = facts[d]
      /\ Len(facts) \in Nat /\ Len(facts) <= Len(facts')
  <2>1. PICK S : facts \in Seq(S)
    BY <1>0 DEF Saved, Sequence
  <2>2. facts \in Seq(S \union {f})
    BY <2>1
  <2>3. facts' = Append(facts, f)
    BY DEF Offers
  <2>4. facts' \in Seq(S \union {f})
    BY <2>2, <2>3
  <2> HIDE DEF f
  <2> QED BY <2>2, <2>3, <2>4 DEF Sequence
<1>3. Saves(c) /\ list' = list
  BY DEF Offers
<1>4. Saved' /\ Grows /\ Stands(c, log')
  <2> HIDE DEF c
  <2> QED BY <1>0, <1>2, <1>3, SavesCase
<1>5. Opened' /\ Early'
  BY <1>0, <1>1 DEF Offers, Opened, Early, opening
<1>6. Framed'
  BY <1>0 DEF Framed, Offers
<1>7. Runs' /\ OnNewer'
  BY <1>0, <1>4, RunsStay, OnNewerStays DEF Offers
<1>8. Told'
  BY <1>0 DEF Told, Offers, Stands
<1>9. Bubbles' /\ NewestAnswers'
  <2>1. CASE UNCHANGED <<shellOf, newest>>
    BY <2>1, <1>0, <1>4, BubblesStay DEF NewestAnswers
  <2>2. CASE Remembers(c, s) /\ newest' = c
    <3>1. PICK F \in SUBSET DOMAIN shellOf :
            shellOf' = [d \in (DOMAIN shellOf \ F) \union {c} |-> IF d = c THEN s ELSE shellOf[d]]
      BY <2>2 DEF Remembers
    <3>2. BubbleThen(c, s)
      BY <1>2, <1>4 DEF BubbleThen
    <3>3. ASSUME NEW d \in DOMAIN shellOf', d # c PROVE BubbleThen(d, shellOf'[d])
      <4>1. d \in DOMAIN shellOf /\ shellOf'[d] = shellOf[d]
        BY <3>1, <3>3
      <4>2. Bubble(d, shellOf[d])
        BY <1>0, <4>1 DEF Bubbles
      <4> QED BY <4>1, <4>2, <1>0, <1>4, BubbleStays
    <3>4. c \in DOMAIN shellOf' /\ shellOf'[c] = s
      BY <3>1
    <3>5. \A d \in DOMAIN shellOf' : BubbleThen(d, shellOf'[d])
      <4> HIDE DEF c
      <4> QED BY <3>2, <3>3, <3>4
    <3>6. Bubbles'
      BY <3>5 DEF Bubbles, Bubble, BubbleThen
    <3> QED BY <2>2, <3>4, <3>6 DEF NewestAnswers
  <2> QED BY <2>1, <2>2 DEF Offers
<1> QED BY <1>4, <1>5, <1>6, <1>7, <1>8, <1>9 DEF DeskInv

LEMMA ChecksLateStep ==
  ASSUME DeskInv, NEW c, ChecksLate(c)
  PROVE  DeskInv'
<1> USE DEF ChecksLate
<1>1. Opened' /\ Saved' /\ Grows /\ Early'
  BY SameStore
<1>2. Saved /\ Framed /\ Bubbles /\ Runs /\ Told /\ OnNewer /\ NewestAnswers
  BY DEF DeskInv
<1>3. Framed' /\ Told' /\ NewestAnswers'
  BY <1>2 DEF Framed, Told, NewestAnswers, storeVars, stored, Stands
<1>4. Bubbles' /\ Runs' /\ OnNewer'
  BY <1>1, <1>2, BubblesStay, RunsStay, OnNewerStays
<1> QED BY <1>1, <1>3, <1>4 DEF DeskInv

LEMMA SavesLateStep ==
  ASSUME DeskInv, NEW c \in DOMAIN facts, SavesLate(c)
  PROVE  DeskInv'
<1> USE DEF SavesLate
<1>0. Opened /\ Early /\ Saved /\ Framed /\ Bubbles /\ Runs /\ Told /\ OnNewer /\ NewestAnswers
  BY DEF DeskInv
<1>1. version = 1
  BY <1>0, Committed, DeskAssumption
<1>2. Saved' /\ Grows
  <2>1. c \in 1 .. Len(facts') /\ Sequence(facts') /\ Len(facts) <= Len(facts')
        /\ \A d \in 1 .. Len(facts) : facts'[d] = facts[d]
    BY <1>0, Lengths DEF Saved
  <2> QED BY <1>0, <2>1, SavesCase
<1>3. Opened' /\ Early'
  BY <1>0, <1>1 DEF Opened, Early, opening
<1>4. Framed' /\ Told' /\ NewestAnswers'
  BY <1>0 DEF Framed, Told, NewestAnswers, Stands
<1>5. Bubbles' /\ Runs' /\ OnNewer'
  BY <1>0, <1>2, BubblesStay, RunsStay, OnNewerStays
<1> QED BY <1>2, <1>3, <1>4, <1>5 DEF DeskInv

LEMMA TickStep == ASSUME DeskInv, Tick PROVE DeskInv'
<1> USE DEF Tick
<1>1. Opened' /\ Saved' /\ Grows /\ Early'
  BY SameStore
<1>2. Saved /\ Framed /\ Bubbles /\ Runs /\ Told /\ OnNewer /\ NewestAnswers
  BY DEF DeskInv
<1>3. Framed' /\ Told' /\ NewestAnswers'
  BY <1>2 DEF Framed, Told, NewestAnswers, storeVars, stored, Stands
<1>4. Bubbles' /\ Runs' /\ OnNewer'
  BY <1>1, <1>2, BubblesStay, RunsStay, OnNewerStays
<1> QED BY <1>1, <1>3, <1>4 DEF DeskInv
-----------------------------------------------------------------------------
(***************************************************************************)
(* What the user does.                                                     *)
(***************************************************************************)
RunningThen(x) ==
  /\ Fields(x)
  /\ x.stage \in {"reads", "replaces", "acts"} => x.by \in Procs
  /\ x.stage = "replaces" => Sequence(x.copy) /\ Stands(x.entry, x.copy)
  /\ x.stage = "acts" => BubbleThen(x.clicked, x.shell)

LEMMA RunsButOne ==
  ASSUME Saved, Saved', Grows, Runs, NEW t \in Tools, NEW x, RunningThen(x),
         run' = [run EXCEPT ![t] = x]
  PROVE  Runs'
<1>1. ASSUME NEW u \in Tools PROVE RunningThen(run'[u])
  <2>1. CASE u = t
    BY <2>1 DEF Runs
  <2>2. CASE u # t
    <3>1. run'[u] = run[u] /\ Running(run[u])
      BY <2>2 DEF Runs
    <3>2. run[u].stage = "acts" => BubbleThen(run[u].clicked, run[u].shell)
      BY <3>1, BubbleStays DEF Running
    <3> QED BY <3>1, <3>2 DEF Running, RunningThen
  <2> QED BY <2>1, <2>2
<1>2. run' = [u \in Tools |-> run'[u]]
  BY DEF Runs
<1> QED BY <1>1, <1>2 DEF Runs, Running, RunningThen, Bubble, BubbleThen

LEMMA AsksStep ==
  ASSUME DeskInv, NEW t \in Tools, NEW s, NEW r, Asks(t, s, r)
  PROVE  DeskInv'
<1> USE DEF Asks
<1>1. Opened' /\ Saved' /\ Grows /\ Early'
  BY SameStore
<1>2. Saved /\ Framed /\ Bubbles /\ Runs /\ Told /\ OnNewer /\ NewestAnswers
  BY DEF DeskInv
<1>3. Framed' /\ Told' /\ NewestAnswers'
  BY <1>2 DEF Framed, Told, NewestAnswers, storeVars, stored, Stands
<1>4. Bubbles' /\ OnNewer'
  BY <1>1, <1>2, BubblesStay, OnNewerStays
<1>5. Runs'
  <2>1. PICK x : x = [Idle EXCEPT !.stage = "reads", !.by = Client,
                                  !.entry = EntryFor(r, s, LastCase(s))]
    OBVIOUS
  <2>2. x.stage = "reads" /\ x.by = Client /\ Fields(x)
    BY <2>1 DEF Idle, Fields
  <2>3. RunningThen(x)
    BY <2>2, DeskAssumption DEF RunningThen
  <2> QED BY <1>1, <1>2, <2>1, <2>3, RunsButOne
<1> QED BY <1>1, <1>3, <1>4, <1>5 DEF DeskInv

LEMMA ReadsStep ==
  ASSUME DeskInv, NEW t \in Tools, Reads(t)
  PROVE  DeskInv'
<1>1. Opened' /\ Saved' /\ Grows /\ Early'
  BY SameStore DEF Reads
<1>2. Saved /\ Framed /\ Bubbles /\ Runs /\ Told /\ OnNewer /\ NewestAnswers
  BY DEF DeskInv
<1>3. Framed' /\ Told' /\ NewestAnswers'
  BY <1>2 DEF Framed, Told, NewestAnswers, storeVars, stored, Stands, Reads
<1>4. Bubbles' /\ OnNewer'
  BY <1>1, <1>2, BubblesStay, OnNewerStays DEF Reads
<1>5. Runs'
  <2> DEFINE e == run[t].entry
  <2>1. PICK a : a = Only(list, {d \in ToSet(list) : ~Expired(d)})
    OBVIOUS
  <2>2. Sequence(a)
    <3>1. PICK S : list \in Seq(S)
      BY <1>2 DEF Saved, Sequence
    <3>2. a \in Seq(S)
      BY <2>1, <3>1, OnlyOf
    <3> QED BY <3>2 DEF Sequence
  <2>3. PICK copy : copy = IF Contains(a, e) THEN a ELSE Append(a, e)
    OBVIOUS
  <2>4. Sequence(copy) /\ Stands(e, copy)
    <3>1. PICK S : a \in Seq(S)
      BY <2>2 DEF Sequence
    <3>2. CASE Contains(a, e)
      <4>1. \E i \in 1 .. Len(a) : a[i] = e
        BY <3>2, <3>1 DEF Contains, ToSet
      <4> QED BY <2>3, <3>1, <3>2, <4>1 DEF Sequence, Stands
    <3>3. CASE ~Contains(a, e)
      <4>1. a \in Seq(S \union {e})
        BY <3>1
      <4>2. copy = Append(a, e)
        BY <2>3, <3>3
      <4>3. copy \in Seq(S \union {e}) /\ Len(copy) = Len(a) + 1 /\ copy[Len(a) + 1] = e
            /\ Len(a) \in Nat
        BY <4>1, <4>2
      <4>4. Len(a) + 1 \in 1 .. Len(copy)
        BY <4>3
      <4> QED BY <4>3, <4>4 DEF Sequence, Stands
    <3> QED BY <3>2, <3>3
  <2>5. Running(run[t]) /\ run[t].stage = "reads"
    BY <1>2 DEF Runs, Reads
  <2>6. run' = [run EXCEPT ![t].stage = "replaces", ![t].copy = copy]
    BY <2>1, <2>3 DEF Reads
  <2>7. PICK x : x = [run[t] EXCEPT !.stage = "replaces", !.copy = copy]
    OBVIOUS
  <2>8. /\ x.stage = "replaces" /\ x.copy = copy /\ x.by = run[t].by /\ x.entry = e
        /\ Fields(x)
    BY <2>5, <2>7 DEF Running, Fields
  <2>9. RunningThen(x)
    BY <2>4, <2>5, <2>8 DEF Running, RunningThen
  <2>10. run' = [run EXCEPT ![t] = x]
    BY <2>6, <2>7, <1>2 DEF Runs
  <2> QED BY <1>1, <1>2, <2>9, <2>10, RunsButOne
<1> QED BY <1>1, <1>3, <1>4, <1>5 DEF DeskInv

LEMMA DoneRuns == RunningThen(Done)
BY DEF RunningThen, Done, Idle, Fields

LEMMA ReplacesStep ==
  ASSUME DeskInv, NEW t \in Tools, Replaces(t)
  PROVE  DeskInv'
<1> DEFINE e == run[t].entry  copy == run[t].copy
<1>0. Opened /\ Early /\ Saved /\ Framed /\ Bubbles /\ Runs /\ Told /\ OnNewer /\ NewestAnswers
  BY DEF DeskInv
<1>1. run[t].by \in Procs /\ Sequence(copy) /\ Stands(e, copy)
  BY <1>0 DEF Runs, Running, Replaces
<1>2. version = 1
  BY <1>0, <1>1, Committed DEF Replaces
<1>3. Opened' /\ Early'
  BY <1>0, <1>2 DEF Replaces, Opened, Early, opening
<1>4. Saved' /\ Grows
  <2>1. Saved'
    BY <1>0, <1>1 DEF Replaces, Replace, Saved, Sequence, Agrees, LastSaveAt
  <2>2. Grows
    BY <1>0, Lengths DEF Grows, Replaces
  <2> QED BY <2>1, <2>2
<1>5. Framed' /\ NewestAnswers'
  BY <1>0 DEF Framed, NewestAnswers, Replaces
<1>6. Bubbles' /\ OnNewer' /\ Runs'
  BY <1>0, <1>4, BubblesStay, OnNewerStays, RunsButOne, DoneRuns DEF Replaces
<1>7. Told'
  <2>1. ASSUME NEW d \in kept', d \notin dropped' PROVE Stands(d, copy)
    <3>1. CASE d = e
      BY <1>1, <3>1
    <3>2. CASE d # e
      <4>1. d \in kept \ dropped /\ ~(d \in ToSet(list) /\ d \notin ToSet(copy))
        BY <2>1, <3>2 DEF Replaces
      <4>2. Stands(d, list)
        BY <1>0, <4>1 DEF Told
      <4>3. d \in ToSet(list)
        BY <4>2, <1>0 DEF Stands, ToSet, Saved, Sequence
      <4>4. d \in ToSet(copy)
        BY <4>1, <4>3
      <4> QED BY <1>1, <4>4 DEF Stands, ToSet, Sequence
    <3> QED BY <3>1, <3>2
  <2>2. list' = copy
    BY DEF Replaces, Replace
  <2> QED BY <2>1, <2>2 DEF Told, Stands
<1> QED BY <1>3, <1>4, <1>5, <1>6, <1>7 DEF DeskInv

LEMMA ClicksStep ==
  ASSUME DeskInv, NEW t \in Tools, NEW c, NEW a, Clicks(t, c, a)
  PROVE  DeskInv'
<1> USE DEF Clicks
<1>1. Opened' /\ Saved' /\ Grows /\ Early'
  BY SameStore
<1>2. Saved /\ Framed /\ Bubbles /\ Runs /\ Told /\ OnNewer /\ NewestAnswers
  BY DEF DeskInv
<1>3. Framed' /\ Told' /\ NewestAnswers'
  BY <1>2 DEF Framed, Told, NewestAnswers, storeVars, stored, Stands
<1>4. Bubbles' /\ OnNewer'
  BY <1>1, <1>2, BubblesStay, OnNewerStays
<1>5. Runs'
  <2>1. PICK x : x = [Idle EXCEPT !.stage = "acts", !.by = Daemon, !.shell = shellOf[c],
                                  !.clicked = c, !.action = a]
    OBVIOUS
  <2>2. x.stage = "acts" /\ x.by = Daemon /\ x.clicked = c /\ x.shell = shellOf[c] /\ Fields(x)
    BY <2>1 DEF Idle, Fields
  <2>3. Bubble(c, shellOf[c])
    BY <1>2 DEF Bubbles
  <2>4. BubbleThen(c, shellOf[c])
    BY <1>1, <1>2, <2>3, BubbleStays
  <2>5. RunningThen(x)
    BY <2>2, <2>4, DeskAssumption DEF RunningThen
  <2> QED BY <1>1, <1>2, <2>1, <2>5, RunsButOne
<1> QED BY <1>1, <1>3, <1>4, <1>5 DEF DeskInv

\* The last case of a shell is one of the shell's, and saved after another one.
LEMMA LastOfShell ==
  ASSUME Saved, NEW c, NEW s, Bubble(c, s), NEW x, x = LastCase(s), x # 0
  PROVE  /\ x \in 1 .. Len(facts) /\ facts[x].shell = s
         /\ x # c => \E i, j \in 1 .. Len(log) : i < j /\ log[i] = c /\ log[j] = x
<1>0. Agrees(rows, log) /\ log \in Seq(1 .. Len(facts)) /\ Len(log) \in Nat /\ s # None
  BY StoreAssumption DEF Saved, Bubble
<1>1. OfShell(s) # {} /\ OfShell(s) \in SUBSET DOMAIN rows
  BY DEF LastCase, Highest, OfShell
<1>2. x \in OfShell(s) /\ \A d \in OfShell(s) : rows[d] <= rows[x]
  <2>1. PICK R : R = rows
    OBVIOUS
  <2>2. PICK C : C = OfShell(s)
    OBVIOUS
  <2>3. Agrees(R, log) /\ C \in SUBSET DOMAIN R /\ C # {}
    BY <1>0, <1>1, <2>1, <2>2
  <2>4. Highest(C) \in C /\ \A d \in C : R[d] <= R[Highest(C)]
    BY <1>0, <2>1, <2>3, HighestOf
  <2> QED BY <2>1, <2>2, <2>4 DEF LastCase
<1>3. x \in DOMAIN rows /\ facts[x].shell = s
  BY <1>0, <1>2 DEF OfShell
<1>4. rows[x] \in 1 .. Len(log) /\ log[rows[x]] = x /\ rows[x] + Kept > Len(log)
  BY <1>0, <1>3 DEF Agrees, LastSaveAt
<1>5. x \in 1 .. Len(facts)
  BY <1>0, <1>4
<1>6. ASSUME x # c PROVE \E i, j \in 1 .. Len(log) : i < j /\ log[i] = c /\ log[j] = x
  <2>1. PICK i \in 1 .. Len(log) : log[i] = c
    BY DEF Bubble, Stands
  <2>2. CASE c \in DOMAIN rows
    <3>1. rows[c] \in 1 .. Len(log) /\ log[rows[c]] = c
      BY <1>0, <2>2 DEF Agrees, LastSaveAt
    <3>2. rows[c] <= rows[x]
      BY <1>2, <2>2 DEF OfShell, Bubble
    <3>3. rows[c] # rows[x]
      BY <1>4, <1>6, <3>1
    <3> QED BY <1>0, <1>4, <3>1, <3>2, <3>3
  <2>3. CASE c \notin DOMAIN rows
    <3>1. ~(i + Kept > Len(log))
      BY <1>0, <2>1, <2>3 DEF Agrees
    <3>2. i < rows[x]
      BY <1>0, <1>4, <2>1, <3>1, StoreAssumption
    <3> QED BY <1>4, <2>1, <3>2
  <2> QED BY <2>2, <2>3
<1> QED BY <1>3, <1>5, <1>6

LEMMA ActsStep ==
  ASSUME DeskInv, NEW t \in Tools, Acts(t)
  PROVE  DeskInv'
<1>1. Opened' /\ Saved' /\ Grows /\ Early'
  BY SameStore DEF Acts
<1>2. Saved /\ Framed /\ Bubbles /\ Runs /\ Told /\ OnNewer /\ NewestAnswers
  BY DEF DeskInv
<1>3. Framed' /\ Told' /\ NewestAnswers'
  BY <1>2 DEF Framed, Told, NewestAnswers, storeVars, stored, Stands, Acts
<1>4. Bubbles'
  BY <1>1, <1>2, BubblesStay DEF Acts
<1>5. Running(run[t]) /\ Bubble(run[t].clicked, run[t].shell) /\ run = [u \in Tools |-> run[u]]
  BY <1>2 DEF Runs, Running, Acts
<1>6. PICK c : c = IF run[t].action = "agent" THEN run[t].clicked ELSE On(t)
  OBVIOUS
<1>7. OnNewer'
  <2>1. CASE c = 0
    <3>1. acted' = acted
      BY <1>6, <2>1 DEF Acts
    <3> QED BY <1>1, <1>2, <3>1, OnNewerStays
  <2>2. CASE c # 0
    <3>1. acted' = [clicked |-> run[t].clicked, on |-> c]
      BY <1>6, <2>2 DEF Acts
    <3>2. acted'.on = c /\ acted'.clicked = run[t].clicked
      BY <3>1
    <3>3. CASE c = run[t].clicked
      BY <3>2, <3>3 DEF OnNewer
    <3>4. CASE c # run[t].clicked
      <4>1. c = LastCase(run[t].shell)
        BY <1>6, <3>4 DEF On
      <4>2. /\ c \in 1 .. Len(facts) /\ facts[c].shell = run[t].shell
            /\ \E i, j \in 1 .. Len(log) : i < j /\ log[i] = run[t].clicked /\ log[j] = c
        BY <1>2, <1>5, <2>2, <3>4, <4>1, LastOfShell
      <4>3. run[t].clicked \in 1 .. Len(facts) /\ facts[run[t].clicked].shell = run[t].shell
        BY <1>5 DEF Bubble
      <4>4. facts' = facts /\ log' = log
        BY DEF Acts, storeVars, stored
      <4> QED BY <3>2, <4>2, <4>3, <4>4 DEF OnNewer
    <3> QED BY <3>3, <3>4
  <2> QED BY <2>1, <2>2
<1>8. Runs'
  <2>1. CASE run[t].action = "ignore" /\ c # 0
    <3>1. PICK x : x = [run[t] EXCEPT !.stage = "reads",
                                      !.entry = EntryFor(ClickedAway, run[t].shell, c)]
      OBVIOUS
    <3>2. x.stage = "reads" /\ x.by = run[t].by /\ Fields(x)
      BY <1>5, <3>1 DEF Running, Fields
    <3>3. run' = [run EXCEPT ![t] = x]
      BY <1>6, <2>1, <3>1 DEF Acts
    <3>4. run[t].by \in Procs
      BY <1>5 DEF Running, Acts
    <3>5. RunningThen(x)
      BY <3>2, <3>4 DEF RunningThen
    <3> QED BY <1>1, <1>2, <3>3, <3>5, RunsButOne
  <2>2. CASE ~(run[t].action = "ignore" /\ c # 0)
    <3>1. run' = [run EXCEPT ![t] = Done]
      BY <1>6, <2>2 DEF Acts
    <3> QED BY <1>1, <1>2, <3>1, DoneRuns, RunsButOne
  <2> QED BY <2>1, <2>2
<1> QED BY <1>1, <1>3, <1>4, <1>7, <1>8 DEF DeskInv
-----------------------------------------------------------------------------
(***************************************************************************)
(* Opening, importing and ending.                                          *)
(***************************************************************************)
LEMMA OpenedInOpening ==
  ASSUME Opened, Early, NEW p \in Procs,
         Opens(p) \/ Locks(p) \/ TimesOut(p) \/ MovesAside(p), UNCHANGED kept
  PROVE  Opened' /\ Early' /\ UNCHANGED stored
<1>1. CASE Opens(p)
  BY <1>1 DEF Opens, Opened, Early, Before, Empty, stored, Stages
<1>2. CASE Locks(p)
  <2>0. UNCHANGED stored /\ version' = version
    BY <1>2 DEF Locks
  <2>1. CASE version = 0
    <3>1. /\ conn' = [conn EXCEPT ![p] = "imports"] /\ lock' = p /\ lock = None
          /\ batch' = [batch EXCEPT ![p] = [cases |-> ImportOrder(IntoCases(files)),
                                            list |-> IntoEntries(files)]]
      BY <1>2, <2>1 DEF Locks
    <3>2. [cases |-> ImportOrder(IntoCases(files)), list |-> IntoEntries(files)] \in Batches
      <4>1. ImportOrder(IntoCases(files)) \in Seq(1 .. Len(Old))
        BY ImportTyped
      <4>2. << >> \in Seq(ToSet(OldIgnores))
        OBVIOUS
      <4>3. IntoEntries(files) \in Seq(ToSet(OldIgnores))
        BY <4>2, OldSeq DEF IntoEntries
      <4> QED BY <4>1, <4>3 DEF Batches
    <3>3. batch' \in [Procs -> Batches]
      BY <3>1, <3>2 DEF Opened
    <3>4. \A q \in Procs : conn[q] # "imports"
      BY <3>1, StoreAssumption DEF Opened
    <3>5. Opened'
      BY <2>0, <2>1, <3>1, <3>3, <3>4 DEF Opened, Stages
    <3>6. Early'
      BY <2>0, <3>1 DEF Early, Before, Empty, stored, Opened
    <3> QED BY <2>0, <3>5, <3>6
  <2>2. CASE version # 0
    BY <1>2, <2>0, <2>2 DEF Locks, Opened, Early, Stages
  <2> QED BY <2>1, <2>2
<1>3. CASE TimesOut(p)
  BY <1>3 DEF TimesOut, Opened, Early, Before, Empty, stored, Stages
<1>4. CASE MovesAside(p)
  BY <1>4 DEF MovesAside, Opened, Early, Before, Empty, stored, Stages
<1> QED BY <1>1, <1>2, <1>3, <1>4

LEMMA CommitSaves ==
  ASSUME Opened, Early, Saved, NEW p \in Procs, Commits(p)
  PROVE  Saved' /\ Grows /\ version = 0 /\ Empty
<1>1. version = 0 /\ Empty
  BY DEF Opened, Early, Commits
<1>2. PICK q \in Seq(1 .. Len(Old)) : q = batch[p].cases
  BY DEF Opened, Batches
<1>3. log' = q /\ rows' = FoldLeft(Written, << >>, q) /\ facts' = Old /\ facts = Old /\ log = << >>
  <2>1. log' = << >> \o q
    BY <1>1, <1>2 DEF Commits, Empty
  <2>2. rows' = FoldLeft(Written, rows, q) /\ rows = << >>
    BY <1>1, <1>2 DEF Commits, Empty
  <2>3. << >> \o q = q
    OBVIOUS
  <2> QED BY <2>1, <2>2, <2>3, <1>1 DEF Commits, Empty
<1>4. Agrees(FoldLeft(Written, << >>, q), q)
  BY ImportAgrees
<1>5. Agrees(rows, log)'
  BY <1>3, <1>4 DEF Agrees, LastSaveAt
<1>6. Sequence(facts)' /\ Sequence(list)' /\ Len(Old) <= Len(facts')
  <2>1. list' \in Seq(ToSet(OldIgnores))
    BY DEF Commits, Opened, Batches
  <2> QED BY <1>3, <2>1, OldSeq DEF Sequence
<1>7. Saved'
  BY <1>2, <1>3, <1>5, <1>6 DEF Saved
<1>8. Grows
  <2>1. Len(<< >>) = 0 /\ Len(q) \in Nat
    OBVIOUS
  <2>2. Len(log) <= Len(log') /\ \A i \in 1 .. Len(log) : log'[i] = log[i]
    BY <1>3, <2>1
  <2> QED BY <1>3, <2>2, OldSeq DEF Grows
<1> QED BY <1>1, <1>7, <1>8

LEMMA OpensStep ==
  ASSUME DeskInv, NEW p \in Procs, StoreOpens(p)
  PROVE  DeskInv'
<1>0. Opened /\ Early /\ Saved /\ Framed /\ Bubbles /\ Runs /\ Told /\ OnNewer /\ NewestAnswers
  BY DEF DeskInv
<1>1. UNCHANGED desk
  BY DEF StoreOpens
<1>2. Opened' /\ Early' /\ Saved' /\ Grows /\ Told'
  <2>1. CASE Commits(p)
    <3>1. Saved' /\ Grows /\ version = 0 /\ Empty
      BY <1>0, <2>1, CommitSaves
    <3>2. Early'
      BY <2>1 DEF Early, Commits
    <3>3. Told'
      BY <1>1, <3>1 DEF Told, Empty, desk
    <3>4. Opened'
      <4>1. Nothing \in Batches
        <5>1. << >> \in Seq(1 .. Len(Old)) /\ << >> \in Seq(ToSet(OldIgnores))
          OBVIOUS
        <5> QED BY <5>1 DEF Nothing, Batches
      <4> QED BY <1>0, <2>1, <4>1 DEF Opened, Commits, Stages
    <3> QED BY <3>1, <3>2, <3>3, <3>4
  <2>2. CASE ~Commits(p)
    <3>1. Opens(p) \/ Locks(p) \/ TimesOut(p) \/ MovesAside(p)
      BY <2>2 DEF StoreOpens, Opening
    <3>2. UNCHANGED kept
      BY <1>1 DEF desk
    <3>3. Opened' /\ Early' /\ UNCHANGED stored
      BY <1>0, <3>1, <3>2, OpenedInOpening
    <3>4. Saved' /\ Grows
      BY <1>0, <3>3, SameSaved DEF stored
    <3>5. Told'
      BY <1>0, <1>1, <3>3 DEF Told, stored, desk, Stands
    <3> QED BY <3>3, <3>4, <3>5
  <2> QED BY <2>1, <2>2
<1>3. Framed' /\ NewestAnswers'
  BY <1>0, <1>1 DEF desk, Framed, NewestAnswers
<1>4. Bubbles' /\ Runs' /\ OnNewer'
  BY <1>0, <1>1, <1>2, BubblesStay, RunsStay, OnNewerStays DEF desk
<1> QED BY <1>2, <1>3, <1>4 DEF DeskInv

LEMMA EndsStep ==
  ASSUME DeskInv, NEW p \in Procs, Ends(p)
  PROVE  DeskInv'
<1>0. Opened /\ Early /\ Saved /\ Framed /\ Bubbles /\ Runs /\ Told /\ OnNewer /\ NewestAnswers
  BY DEF DeskInv
<1>1. Opened' /\ Early' /\ UNCHANGED stored
  <2>1. Nothing \in Batches
    <3>1. << >> \in Seq(1 .. Len(Old)) /\ << >> \in Seq(ToSet(OldIgnores))
      OBVIOUS
    <3> QED BY <3>1 DEF Nothing, Batches
  <2>2. Opened'
    BY <1>0, <2>1 DEF Opened, Ends, Closes, Stages
  <2>3. Early' /\ UNCHANGED stored
    BY <1>0 DEF Opened, Early, Before, Empty, Ends, Closes, stored
  <2> QED BY <2>2, <2>3
<1>2. Saved' /\ Grows
  BY <1>0, <1>1, SameSaved DEF stored
<1>3. Framed'
  BY <1>0 DEF Framed, Ends
<1>4. Told' /\ OnNewer'
  BY <1>0, <1>1, <1>2, OnNewerStays DEF Ends, Told, stored, Stands
<1>5. Bubbles' /\ NewestAnswers'
  <2>1. CASE p = Daemon
    <3>1. DOMAIN << >> = {}
      OBVIOUS
    <3> QED BY <2>1, <3>1 DEF Ends, Bubbles, NewestAnswers
  <2>2. CASE p # Daemon
    BY <1>0, <1>2, <2>2, BubblesStay DEF Ends, NewestAnswers
  <2> QED BY <2>1, <2>2
<1>6. Runs'
  <2>1. ASSUME NEW t \in Tools PROVE RunningThen(run'[t])
    <3>1. CASE run[t].by = p
      BY <3>1, DoneRuns DEF Ends
    <3>2. CASE run[t].by # p
      <4>1. run'[t] = run[t] /\ Running(run[t])
        BY <1>0, <3>2 DEF Ends, Runs
      <4>2. run[t].stage = "acts" => BubbleThen(run[t].clicked, run[t].shell)
        BY <1>0, <1>2, <4>1, BubbleStays DEF Running
      <4> QED BY <4>1, <4>2 DEF Running, RunningThen
    <3> QED BY <3>1, <3>2
  <2>2. run' = [t \in Tools |-> run'[t]]
    BY DEF Ends
  <2> QED BY <2>1, <2>2 DEF Runs, Running, RunningThen, Bubble, BubbleThen
<1> QED BY <1>1, <1>2, <1>3, <1>4, <1>5, <1>6 DEF DeskInv

LEMMA DeskStays == ASSUME DeskInv, UNCHANGED vars PROVE DeskInv'
<1>1. Opened' /\ Saved' /\ Grows /\ Early'
  BY SameStore DEF vars, desk
<1>2. Saved /\ Framed /\ Bubbles /\ Runs /\ Told /\ OnNewer /\ NewestAnswers
  BY DEF DeskInv
<1>3. Framed' /\ Told' /\ NewestAnswers'
  BY <1>2 DEF Framed, Told, NewestAnswers, storeVars, stored, Stands, vars, desk
<1>4. Bubbles' /\ Runs' /\ OnNewer'
  BY <1>1, <1>2, BubblesStay, RunsStay, OnNewerStays DEF vars, desk
<1> QED BY <1>1, <1>3, <1>4 DEF DeskInv

LEMMA DeskStep == DeskInv /\ [Next]_vars => DeskInv'
<1> SUFFICES ASSUME DeskInv, [Next]_vars PROVE DeskInv'
  OBVIOUS
<1>1. ASSUME NEW p \in Procs, StoreOpens(p) \/ Ends(p) PROVE DeskInv'
  BY <1>1, OpensStep, EndsStep
<1>2. ASSUME NEW p \in Procs, NEW s \in Shells, NEW what, Judges(p, s, what) PROVE DeskInv'
  BY <1>2, JudgesStep
<1>3. ASSUME NEW s \in Shells, Offers(s) PROVE DeskInv'
  BY <1>3, OffersStep
<1>4. ASSUME NEW c \in DOMAIN facts, ChecksLate(c) \/ SavesLate(c) PROVE DeskInv'
  BY <1>4, ChecksLateStep, SavesLateStep
<1>5. ASSUME NEW t \in Tools, NEW s, NEW r, Asks(t, s, r) PROVE DeskInv'
  BY <1>5, AsksStep
<1>6. ASSUME NEW t \in Tools, Reads(t) \/ Replaces(t) \/ Acts(t) PROVE DeskInv'
  BY <1>6, ReadsStep, ReplacesStep, ActsStep
<1>7. ASSUME NEW t \in Tools, NEW c, NEW a, Clicks(t, c, a) PROVE DeskInv'
  BY <1>7, ClicksStep
<1>8. CASE Tick
  BY <1>8, TickStep
<1>9. CASE UNCHANGED vars
  BY <1>9, DeskStays
<1> QED BY <1>1, <1>2, <1>3, <1>4, <1>5, <1>6, <1>7, <1>8, <1>9 DEF Next
-----------------------------------------------------------------------------
(***************************************************************************)
(* What follows.                                                           *)
(***************************************************************************)
LEMMA InvLast == DeskInv => LastIsNewest
<1> SUFFICES ASSUME DeskInv, NEW s \in Shells \union {None}
             PROVE  LastCase(s) = IF Newest(s) = {} THEN 0 ELSE log[Max(Newest(s))]
  BY DEF LastIsNewest
<1>0. Saved /\ Agrees(rows, log) /\ log \in Seq(1 .. Len(facts)) /\ Len(log) \in Nat
  BY DEF DeskInv, Saved
<1>1. PICK C : C = OfShell(s)
  OBVIOUS
<1>2. PICK R : R = rows
  OBVIOUS
<1>3. C \in SUBSET DOMAIN R
  BY <1>1, <1>2 DEF OfShell
<1>4. Newest(s) = {i \in 1 .. Len(log) : i + Kept > Len(log) /\ log[i] \in C}
  <2>1. DOMAIN log = 1 .. Len(log)
    BY <1>0
  <2>2. \A i \in 1 .. Len(log) : i + Kept > Len(log) => log[i] \in DOMAIN rows
    BY <1>0 DEF Agrees
  <2>3. \A i \in 1 .. Len(log) : i + Kept > Len(log) =>
          (log[i] \in C <=> s = None \/ facts[log[i]].shell = s)
    BY <1>1, <2>2 DEF OfShell
  <2> QED BY <2>1, <2>3 DEF Newest
<1>5. Highest(C) = IF Newest(s) = {} THEN 0 ELSE log[Max(Newest(s))]
  BY <1>0, <1>2, <1>3, <1>4, HighestIsLast
<1> QED BY <1>1, <1>5 DEF LastCase

\* The last case of a shell, or of all, is the one saved last, new or again, among
\* the last Kept saves, whatever was imported, pruned and saved late (write_case and
\* last of sqlite_state.rs).
THEOREM NewestIsLast == Spec => []LastIsNewest
<1>1. Init => DeskInv                      BY DeskInit
<1>2. DeskInv /\ [Next]_vars => DeskInv'   BY DeskStep
<1>3. DeskInv => LastIsNewest              BY InvLast
<1> QED BY <1>1, <1>2, <1>3, PTL DEF Spec

\* The newest bubble of the daemon can be clicked (remember_case of sessions.rs).
THEOREM NewestKnown == Spec => []NewestAnswers
<1>1. Init => DeskInv                      BY DeskInit
<1>2. DeskInv /\ [Next]_vars => DeskInv'   BY DeskStep
<1>3. DeskInv => NewestAnswers             BY DEF DeskInv
<1> QED BY <1>1, <1>2, <1>3, PTL DEF Spec

\* A click is acted on in the shell of its bubble, on its failure or one that was
\* saved after it (on_act of daemon.rs, last of sqlite_state.rs).
THEOREM ClickActs == Spec => []ActsOnNewer
<1>1. Init => DeskInv                      BY DeskInit
<1>2. DeskInv /\ [Next]_vars => DeskInv'   BY DeskStep
<1>3. DeskInv => ActsOnNewer
  BY Lengths DEF DeskInv, OnNewer, ActsOnNewer
<1> QED BY <1>1, <1>2, <1>3, PTL DEF Spec

\* A failure that is about to be offered was judged by a list that holds what was
\* promised.
LEMMA SilenceStep ==
  ASSUME DeskInv, [Next]_vars, NEW s \in Shells, frame[s] = Quiet, frame'[s] # Quiet
  PROVE  ~\E e \in Promised : Silences(e, s, frame'[s].what)
<1>0. Told /\ Framed /\ Saved
  BY DEF DeskInv
<1>a. PICK p \in Procs, u \in Shells : \E what \in Commands[u] : Judges(p, u, what)
  <2>1. ASSUME NEW p \in Procs, StoreOpens(p) \/ Ends(p) PROVE FALSE
    BY <2>1 DEF StoreOpens, desk, Ends
  <2>2. ASSUME NEW u \in Shells, Offers(u) PROVE FALSE
    BY <2>2, <1>0 DEF Offers, Framed
  <2>3. ASSUME NEW c, ChecksLate(c) \/ SavesLate(c) PROVE FALSE
    BY <2>3 DEF ChecksLate, SavesLate
  <2>4. ASSUME NEW t, NEW u, NEW r, Asks(t, u, r) PROVE FALSE
    BY <2>4 DEF Asks
  <2>5. ASSUME NEW t, Reads(t) \/ Replaces(t) \/ Acts(t) PROVE FALSE
    BY <2>5 DEF Reads, Replaces, Acts
  <2>6. ASSUME NEW t, NEW c, NEW a, Clicks(t, c, a) PROVE FALSE
    BY <2>6 DEF Clicks
  <2>7. ~Tick /\ ~(UNCHANGED vars)
    BY DEF Tick, vars, desk
  <2> QED BY <2>1, <2>2, <2>3, <2>4, <2>5, <2>6, <2>7 DEF Next
<1>1. PICK what \in Commands[u] : Judges(p, u, what)
  BY <1>a
<1>2. u = s /\ frame'[s].what = what
  BY <1>0, <1>1 DEF Judges, Framed
<1>3. ASSUME NEW e \in Promised, Silences(e, s, what) PROVE FALSE
  <2>1. Stands(e, list)
    BY <1>0, <1>3 DEF Told, Promised
  <2>2. PICK i \in 1 .. Len(list) : list[i] = e
    BY <2>1 DEF Stands
  <2>3. i \in DOMAIN list
    BY <1>0 DEF Saved, Sequence
  <2>4. Silences(list[i], u, what)
    BY <1>2, <1>3, <2>2
  <2> QED BY <1>1, <2>3, <2>4 DEF Judges
<1> QED BY <1>2, <1>3

\* What was silenced and promised stays so: no failure it covers is offered
\* (Triage::run reads what Ignore::run replaced).
THEOREM StaysSilent == Spec => Silence
<1>1. Init => DeskInv                      BY DeskInit
<1>2. DeskInv /\ [Next]_vars => DeskInv'   BY DeskStep
<1>3. DeskInv /\ [Next]_vars =>
        [\A s \in Shells :
           frame[s] = Quiet /\ frame'[s] # Quiet =>
             ~\E e \in Promised : Silences(e, s, frame'[s].what)]_vars
  BY SilenceStep
<1> QED BY <1>1, <1>2, <1>3, PTL DEF Spec, Silence
-----------------------------------------------------------------------------
(***************************************************************************)
(* The import.  While no process died between moving files aside and the   *)
(* commit, the files are there for the one that imports, and what it wrote *)
(* is all there is until the first failure is offered.                     *)
(***************************************************************************)
ImportedFiles == ImportOrder(IntoCases(Files))
NoneYet == DOMAIN shellOf = {} /\ late = {}

ImportInv ==
  /\ Len(facts) = Len(Old) => NoneYet
  /\ ~cut =>
       /\ version = 0 /\ (\A p \in Procs : conn[p] # "imports") => files = Files
       /\ \A p \in Procs : conn[p] = "imports" => batch[p].cases = ImportedFiles
       /\ version = 1 /\ Len(facts) = Len(Old) => log = ImportedFiles

LEMMA ImportInit == Init => ImportInv
<1> SUFFICES ASSUME Init PROVE ImportInv
  OBVIOUS
<1>1. DOMAIN << >> = {}
  OBVIOUS
<1> QED BY <1>1 DEF Init, StoreInit, ImportInv, NoneYet

LEMMA SameFiles == ASSUME unread' = unread PROVE ImportedFiles' = ImportedFiles
BY DEF ImportedFiles, ImportOrder, IntoCases, Readable, LastFile

\* Only opening, ending and saving concern it.
LEMMA ImportApart ==
  ASSUME ImportInv, UNCHANGED <<opening, facts, log>>, UNCHANGED shellOf,
         late' = late \/ \E c \in DOMAIN shellOf : late' = late \union {c}
  PROVE  ImportInv'
BY SameFiles DEF ImportInv, NoneYet, opening

LEMMA ImportOpens ==
  ASSUME DeskInv, ImportInv, NEW p \in Procs, StoreOpens(p)
  PROVE  ImportInv'
<1>0. Opened /\ Early /\ UNCHANGED <<shellOf, late>>
  BY DEF DeskInv, StoreOpens, desk
<1>1. CASE Opens(p)
  <2>1. ImportedFiles' = ImportedFiles
    BY <1>1, SameFiles DEF Opens
  <2> QED BY <1>0, <1>1, <2>1 DEF Opens, ImportInv, NoneYet, stored, Opened, Stages
<1>2. CASE Locks(p)
  <2>1. ImportedFiles' = ImportedFiles
    BY <1>2, SameFiles DEF Locks
  <2>2. CASE version = 0
    <3>1. /\ conn' = [conn EXCEPT ![p] = "imports"] /\ lock = None
          /\ batch' = [batch EXCEPT ![p] = [cases |-> ImportOrder(IntoCases(files)),
                                            list |-> IntoEntries(files)]]
      BY <1>2, <2>2 DEF Locks
    <3>2. \A q \in Procs : conn[q] # "imports"
      BY <1>0, <3>1, StoreAssumption DEF Opened
    <3>3. ~cut => files = Files
      BY <2>2, <3>2 DEF ImportInv
    <3>4. ~cut => batch'[p].cases = ImportedFiles
      BY <1>0, <3>1, <3>3 DEF ImportedFiles, Opened
    <3>5. conn'[p] = "imports" /\ \A q \in Procs : q # p => conn'[q] # "imports"
      BY <1>0, <3>1, <3>2 DEF Opened
    <3>6. version' = 0 /\ cut' = cut /\ facts' = facts /\ log' = log
      BY <1>2, <2>2 DEF Locks, stored
    <3> QED BY <1>0, <2>1, <3>4, <3>5, <3>6 DEF ImportInv, NoneYet
  <2>3. CASE version # 0
    BY <1>0, <1>2, <2>1, <2>3 DEF Locks, ImportInv, NoneYet, stored, Opened, Stages
  <2> QED BY <2>2, <2>3
<1>3. CASE TimesOut(p)
  <2>1. ImportedFiles' = ImportedFiles
    BY <1>3, SameFiles DEF TimesOut
  <2> QED BY <1>0, <1>3, <2>1 DEF TimesOut, ImportInv, NoneYet, stored, Opened, Stages
<1>4. CASE MovesAside(p)
  <2>1. ImportedFiles' = ImportedFiles
    BY <1>4, SameFiles DEF MovesAside
  <2> QED BY <1>0, <1>4, <2>1 DEF MovesAside, ImportInv, NoneYet, stored
<1>5. CASE Commits(p)
  <2>1. ImportedFiles' = ImportedFiles
    BY <1>5, SameFiles DEF Commits
  <2>2. version = 0 /\ log = << >> /\ lock = p
    BY <1>0, <1>5 DEF Commits, Opened, Early, Empty
  <2>3. PICK q \in Seq(1 .. Len(Old)) : q = batch[p].cases
    BY <1>0 DEF Opened, Batches
  <2>4. log' = q
    <3>1. << >> \o q = q
      OBVIOUS
    <3> QED BY <1>5, <2>2, <2>3, <3>1 DEF Commits
  <2>5. ~cut => q = ImportedFiles
    BY <1>5, <2>3 DEF ImportInv, Commits
  <2>6. \A r \in Procs : conn'[r] # "imports"
    BY <1>0, <1>5, <2>2 DEF Commits, Opened
  <2>7. version' = 1 /\ cut' = cut /\ facts' = facts
    BY <1>5 DEF Commits
  <2> QED BY <1>0, <2>1, <2>4, <2>5, <2>6, <2>7 DEF ImportInv, NoneYet
<1> QED BY <1>1, <1>2, <1>3, <1>4, <1>5 DEF StoreOpens, Opening

LEMMA ImportEnds ==
  ASSUME DeskInv, ImportInv, NEW p \in Procs, Ends(p)
  PROVE  ImportInv'
<1>0. Opened /\ Closes(p) /\ UNCHANGED <<version, files, unread, stored>>
  BY DEF DeskInv, Ends, Closes
<1>1. ImportedFiles' = ImportedFiles
  BY <1>0, SameFiles
<1>2. Len(facts') = Len(Old) => NoneYet'
  <2>1. DOMAIN << >> = {}
    OBVIOUS
  <2> QED BY <1>0, <2>1 DEF ImportInv, NoneYet, Ends, stored
<1>3. ~cut' => ~cut /\ (conn[p] = "imports" => files = Files)
  BY <1>0 DEF Closes
<1>4. \A q \in Procs : q # p => conn'[q] = conn[q] /\ batch'[q] = batch[q]
  BY <1>0 DEF Closes, Opened
<1>5. conn'[p] = "closed"
  BY <1>0 DEF Closes, Opened
<1>6. ASSUME ~cut', version' = 0, \A q \in Procs : conn'[q] # "imports" PROVE files' = Files
  <2>1. CASE conn[p] = "imports"
    BY <1>0, <1>3, <1>6, <2>1
  <2>2. CASE conn[p] # "imports"
    <3>1. \A q \in Procs : conn[q] # "imports"
      BY <1>4, <1>6, <2>2
    <3> QED BY <1>0, <1>3, <1>6, <3>1 DEF ImportInv
  <2> QED BY <2>1, <2>2
<1>7. ~cut' => \A q \in Procs : conn'[q] = "imports" => batch'[q].cases = ImportedFiles'
  BY <1>1, <1>3, <1>4, <1>5 DEF ImportInv
<1>8. ~cut' /\ version' = 1 /\ Len(facts') = Len(Old) => log' = ImportedFiles'
  BY <1>0, <1>1, <1>3 DEF ImportInv, stored
<1> QED BY <1>2, <1>6, <1>7, <1>8 DEF ImportInv

LEMMA ImportSaves ==
  ASSUME DeskInv, ImportInv,
         (\E s \in Shells : Offers(s)) \/ \E c \in DOMAIN facts : SavesLate(c)
  PROVE  ImportInv'
<1>0. Opened /\ Saved
  BY DEF DeskInv
<1>1. UNCHANGED opening
  BY DEF Offers, SavesLate
<1>2. Len(facts') # Len(Old)
  <2>1. CASE \E s \in Shells : Offers(s)
    <3>1. PICK s \in Shells : Offers(s)
      BY <2>1
    <3>2. PICK S : facts \in Seq(S)
      BY <1>0 DEF Saved, Sequence
    <3>3. PICK f : facts' = Append(facts, f)
      BY <3>1 DEF Offers
    <3>4. facts \in Seq(S \union {f})
      BY <3>2
    <3>5. Len(facts') = Len(facts) + 1 /\ Len(facts) \in Nat
      BY <3>3, <3>4
    <3>6. Len(Old) <= Len(facts) /\ Len(Old) \in Nat
      BY <1>0, OldSeq DEF Saved
    <3> QED BY <3>5, <3>6
  <2>2. CASE \E c \in DOMAIN facts : SavesLate(c)
    BY <2>2 DEF SavesLate, ImportInv, NoneYet
  <2> QED BY <2>1, <2>2
<1>3. ImportedFiles' = ImportedFiles
  BY <1>1, SameFiles DEF opening
<1> QED BY <1>1, <1>2, <1>3 DEF ImportInv, opening

LEMMA ImportStep == DeskInv /\ ImportInv /\ [Next]_vars => ImportInv'
<1> SUFFICES ASSUME DeskInv, ImportInv, [Next]_vars PROVE ImportInv'
  OBVIOUS
<1>1. ASSUME NEW p \in Procs, StoreOpens(p) \/ Ends(p) PROVE ImportInv'
  BY <1>1, ImportOpens, ImportEnds
<1>2. ASSUME NEW p, NEW s, NEW what, Judges(p, s, what) PROVE ImportInv'
  BY <1>2, ImportApart DEF Judges, storeVars, stored
<1>3. CASE (\E s \in Shells : Offers(s)) \/ \E c \in DOMAIN facts : SavesLate(c)
  BY <1>3, ImportSaves
<1>4. ASSUME NEW c, ChecksLate(c) PROVE ImportInv'
  BY <1>4, ImportApart DEF ChecksLate, storeVars, stored
<1>5. ASSUME NEW t, NEW s, NEW r, Asks(t, s, r) PROVE ImportInv'
  BY <1>5, ImportApart DEF Asks, storeVars, stored
<1>6. ASSUME NEW t, Reads(t) \/ Replaces(t) \/ Acts(t) PROVE ImportInv'
  BY <1>6, ImportApart DEF Reads, Replaces, Acts, storeVars, stored
<1>7. ASSUME NEW t, NEW c, NEW a, Clicks(t, c, a) PROVE ImportInv'
  BY <1>7, ImportApart DEF Clicks, storeVars, stored
<1>8. CASE Tick \/ UNCHANGED vars
  BY <1>8, ImportApart DEF Tick, vars, desk, storeVars, stored
<1> QED BY <1>1, <1>2, <1>3, <1>4, <1>5, <1>6, <1>7, <1>8 DEF Next

LEMMA InvWhole == ASSUME Len(Old) < Kept, DeskInv, ImportInv PROVE WholeImport
<1> SUFFICES ASSUME version = 1, ~cut, Len(facts) = Len(Old)
             PROVE  /\ LastFile \notin unread => Highest(DOMAIN rows) = LastSaved
                    /\ \A i \in DOMAIN Old : i \notin unread => i \in DOMAIN rows
  BY DEF WholeImport
<1> DEFINE X == IntoCases(Files)  ids == [i \in DOMAIN Old |-> i]
<1>0. Agrees(rows, log) /\ log = ImportOrder(X)
  BY DEF DeskInv, Saved, ImportInv, ImportedFiles
<1>1. ids \in Seq(1 .. Len(Old)) /\ Len(ids) = Len(Old)
  BY OldSeq
<1>2. PICK u \in Seq(1 .. Len(Old)) :
        /\ u = Only(ids, X) /\ Len(u) <= Len(Old)
        /\ \A x : Stands(x, u) <=> x \in X /\ Stands(x, ids)
  <2> HIDE DEF ids, X
  <2> QED BY <1>1, OnlyOf
<1>3. ASSUME NEW i \in DOMAIN Old, i \notin unread PROVE Stands(i, u)
  <2>1. i \in X
    BY <1>3, OldSeq DEF IntoCases, Readable, Files, LastFile, IgnoreFile
  <2>2. Stands(i, ids)
    BY <1>1, OldSeq DEF Stands
  <2> HIDE DEF ids, X
  <2> QED BY <1>2, <2>1, <2>2
<1>4. LastFile \notin unread => LastFile \in X
  BY OldSeq DEF IntoCases, Readable, Files, LastFile, IgnoreFile
<1>5. PICK v \in Seq(1 .. Len(Old)) :
        v = (IF LastFile \in X THEN <<LastSaved>> ELSE << >>) /\ Len(v) <= 1
  <2>1. << >> \in Seq(1 .. Len(Old)) /\ <<LastSaved>> \in Seq(1 .. Len(Old))
        /\ Len(<< >>) = 0 /\ Len(<<LastSaved>>) = 1
    BY OldSeq
  <2>2. CASE LastFile \in X
    <3>1. PICK n \in Nat : n <= 1 /\ Len(<<LastSaved>>) = n
      BY <2>1
    <3> USE <2>1
    <3> WITNESS <<LastSaved>> \in Seq(1 .. Len(Old))
    <3> HIDE DEF X
    <3> QED BY <2>2, <3>1
  <2>3. CASE LastFile \notin X
    <3>1. PICK n \in Nat : n <= 1 /\ Len(<< >>) = n
      BY <2>1
    <3> WITNESS << >> \in Seq(1 .. Len(Old))
    <3> HIDE DEF X
    <3> QED BY <2>3, <3>1
  <2> QED BY <2>2, <2>3
<1>6. log = u \o v
  BY <1>0, <1>2, <1>5 DEF ImportOrder
<1> HIDE DEF ids, X
<1>7. /\ log \in Seq(1 .. Len(Old)) /\ Len(log) = Len(u) + Len(v)
      /\ \A i \in 1 .. Len(u) : log[i] = u[i]
      /\ \A i \in 1 .. Len(v) : log[Len(u) + i] = v[i]
      /\ Len(u) \in Nat /\ Len(v) \in Nat
  BY <1>6
<1>8. Len(log) <= Kept
  BY <1>2, <1>5, <1>7, OldSeq, StoreAssumption
<1>9. \A i \in 1 .. Len(log) : log[i] \in DOMAIN rows
  <2>1. \A i \in 1 .. Len(log) : i + Kept > Len(log)
    BY <1>7, <1>8, StoreAssumption
  <2> QED BY <1>0, <2>1 DEF Agrees
<1>10. ASSUME NEW i \in DOMAIN Old, i \notin unread PROVE i \in DOMAIN rows
  <2>1. PICK k \in 1 .. Len(u) : u[k] = i
    BY <1>3, <1>10 DEF Stands
  <2>2. k \in 1 .. Len(log) /\ log[k] = i
    BY <1>7, <2>1
  <2> QED BY <1>9, <2>2
<1>11. ASSUME LastFile \notin unread PROVE Highest(DOMAIN rows) = LastSaved
  <2>1. v = <<LastSaved>> /\ Len(v) = 1 /\ v[1] = LastSaved
    BY <1>4, <1>5, <1>11
  <2>2. Len(log) = Len(u) + 1 /\ log[Len(log)] = LastSaved /\ Len(log) \in 1 .. Len(log)
    BY <1>7, <2>1
  <2> DEFINE I == {i \in 1 .. Len(log) : i + Kept > Len(log) /\ log[i] \in DOMAIN rows}
  <2>3. I \in SUBSET Nat /\ Len(log) \in I /\ \A i \in I : i <= Len(log)
    BY <1>7, <1>9, <2>2, StoreAssumption
  <2>4. Max(I) = Len(log)
    <3> HIDE DEF I
    <3> QED BY <2>3, ThisIsMax
  <2>5. PICK R : R = rows
    OBVIOUS
  <2>6. PICK C : C = DOMAIN R
    OBVIOUS
  <2>7. PICK J : J = I
    OBVIOUS
  <2>8. J = {i \in 1 .. Len(log) : i + Kept > Len(log) /\ log[i] \in C}
    BY <2>5, <2>6, <2>7
  <2>9. Highest(C) = IF J = {} THEN 0 ELSE log[Max(J)]
    <3>1. PICK q \in Seq(1 .. Len(Old)) : q = log
      BY <1>7
    <3>2. Agrees(R, q) /\ C \in SUBSET DOMAIN R /\ R = rows
      BY <1>0, <2>5, <2>6, <3>1
    <3> HIDE DEF I
    <3>3. J = {i \in 1 .. Len(q) : i + Kept > Len(q) /\ q[i] \in C}
      BY <2>8, <3>1
    <3>4. Highest(C) = IF J = {} THEN 0 ELSE q[Max(J)]
      BY <3>2, <3>3, HighestIsLast
    <3> QED BY <3>1, <3>4
  <2> HIDE DEF I
  <2> QED BY <2>2, <2>3, <2>4, <2>5, <2>6, <2>7, <2>9
<1> QED BY <1>10, <1>11

\* What the JSON files said is there when the store opens, and the case that was
\* last is last, unless a process died between moving the files aside and the
\* commit, when the files hold fewer cases than are kept (import_json, KEPT_CASES).
THEOREM ImportsAll == ASSUME Len(Old) < Kept PROVE Spec => []WholeImport
<1>1. Init => DeskInv /\ ImportInv
  BY DeskInit, ImportInit
<1>2. DeskInv /\ ImportInv /\ [Next]_vars => DeskInv' /\ ImportInv'
  BY DeskStep, ImportStep
<1>3. DeskInv /\ ImportInv => WholeImport
  BY InvWhole
<1> QED BY <1>1, <1>2, <1>3, PTL DEF Spec
=============================================================================
