---------------------------- MODULE ConfigProofs ----------------------------
(***************************************************************************)
(* The configuration file, for any texts, threads, times, programs and     *)
(* numbers of writes.                                                      *)
(*                                                                         *)
(* What the daemon's threads serve.  The cache goes by a time that was     *)
(* read before the text was.  So the text is at least as new as that time, *)
(* and the file cannot have been written since and carry the time the      *)
(* cache goes by, unless both fell in one tick.  What a thread holds       *)
(* between reading and caching obeys the same law as the cache.            *)
(*                                                                         *)
(* What login edits.  A line put into a text, or over one of its lines,    *)
(* that opens no table leaves every other line in its table: every value   *)
(* but that key's is read as before.                                       *)
(*                                                                         *)
(* What setup writes.  Its file is sections one after the other, no two    *)
(* under one header: each keeps, in the whole, what it says alone.  So the *)
(* file parses, and each model, route and option is read in its section.   *)
(***************************************************************************)
EXTENDS Config, WellFoundedInduction, TLAPS

\* The clock runs ahead of every time that was read from it.
Clock ==
  /\ now \in Int /\ file.mtime \in Int /\ file.mtime <= now

\* A reading: the time first, then the text.
Stage == {"idle", "stated", "read"}
Timed(t) ==
  /\ thread[t].mtime \in Int
  /\ thread[t].stage # "idle" => thread[t].mtime <= file.mtime
TextIsNewer(t) ==
  thread[t].stage = "read" =>
    /\ thread[t].at \in Int /\ thread[t].mtime <= thread[t].at /\ thread[t].at <= now
    /\ thread[t].mtime = file.mtime /\ thread[t].text # file.text => thread[t].at = file.mtime
Readings ==
  /\ thread = [t \in Threads |-> thread[t]]
  /\ \A t \in Threads : Timed(t) /\ TextIsNewer(t)

CacheTimed ==
  /\ cache.seen \in Int /\ cache.at \in Int
  /\ cache.seen <= file.mtime /\ cache.seen <= cache.at /\ cache.at <= now

CacheInv == Clock /\ Readings /\ CacheTimed /\ StaleOnlyWithinTick
-----------------------------------------------------------------------------
LEMMA Idle == Reading.stage = "idle" /\ Reading.mtime = 0
  BY DEF Reading, Holds

LEMMA CacheInit == Init => CacheInv
<1> SUFFICES ASSUME Init PROVE CacheInv
  OBVIOUS
<1>1. Readings
  <2>1. thread = [t \in Threads |-> Reading] /\ file.mtime = 0  BY DEF Init
  <2> QED BY <2>1, Idle DEF Readings, Timed, TextIsNewer
<1>2. Clock /\ CacheTimed /\ StaleOnlyWithinTick
  <2>1. now = 1 /\ file.mtime = 0 /\ cache.seen = -1 /\ cache.at = 0  BY DEF Init
  <2> QED BY <2>1 DEF Clock, CacheTimed, StaleOnlyWithinTick
<1> QED BY <1>1, <1>2 DEF CacheInv

\* A write is stamped with the clock: what was cached or read for the very same
\* time was read in this tick.
LEMMA CacheWrite ==
  ASSUME CacheInv, NEW text, NEW who, Writes(text, who),
         UNCHANGED <<now, thread, cache>>
  PROVE  CacheInv'
<1> USE DEF CacheInv, Writes
<1>1. Clock'  BY DEF Clock
<1>2. Readings'
  <2>1. ASSUME NEW t \in Threads PROVE (Timed(t) /\ TextIsNewer(t))'
    BY <2>1 DEF Clock, Readings, Timed, TextIsNewer
  <2> QED BY <2>1 DEF Readings
<1>3. CacheTimed'  BY DEF Clock, CacheTimed
<1>4. StaleOnlyWithinTick'  BY DEF Clock, CacheTimed, StaleOnlyWithinTick
<1> QED BY <1>1, <1>2, <1>3, <1>4

\* The user and the commands either write or leave the file alone.
LEMMA CacheUser == ASSUME CacheInv, User \/ Setups \/ Logins PROVE CacheInv'
<1>1. CASE Tick
  BY <1>1 DEF Tick, CacheInv, Clock, Readings, Timed, TextIsNewer, CacheTimed,
              StaleOnlyWithinTick
<1>2. CASE \E text \in Texts : Edit(text)
  BY <1>2, CacheWrite DEF Edit
<1>3. CASE Setups
  <2>1. CASE SetupTruncates BY <2>1, CacheWrite DEF SetupTruncates
  <2>2. CASE SetupFills BY <2>2, CacheWrite DEF SetupFills
  <2>3. CASE \/ SetupKeeps \/ SetupDies
             \/ \E a \in Answers(Installed) \union {Unasked(Installed)} : SetupAnswered(a)
    <3>1. UNCHANGED <<now, file, thread, cache>>
      BY <2>3 DEF SetupKeeps, SetupDies, SetupAnswered
    <3> QED BY <3>1 DEF CacheInv, Clock, Readings, Timed, TextIsNewer, CacheTimed,
                        StaleOnlyWithinTick
  <2> QED BY <1>3, <2>1, <2>2, <2>3 DEF Setups
<1>4. CASE Logins
  <2>1. CASE LoginTruncates BY <2>1, CacheWrite DEF LoginTruncates
  <2>2. CASE LoginFills BY <2>2, CacheWrite DEF LoginFills
  <2>3. CASE \/ LoginStores \/ LoginRefused \/ LoginReads \/ LoginDies
             \/ \E m \in ModelNames(file.text) : LoginChecks(m)
    <3>1. UNCHANGED <<now, file, thread, cache>>
      BY <2>3 DEF LoginStores, LoginRefused, LoginReads, LoginDies, LoginChecks
    <3> QED BY <3>1 DEF CacheInv, Clock, Readings, Timed, TextIsNewer, CacheTimed,
                        StaleOnlyWithinTick
  <2> QED BY <1>4, <2>1, <2>2, <2>3 DEF Logins
<1> QED BY <1>1, <1>2, <1>3, <1>4 DEF User

LEMMA CacheDaemon == ASSUME CacheInv, Daemon PROVE CacheInv'
<1> PICK t \in Threads : Stats(t) \/ ServesCached(t) \/ Reads(t) \/ Caches(t)
  BY DEF Daemon
<1> USE DEF CacheInv
<1>1. CASE Stats(t) \/ ServesCached(t) \/ Reads(t)
  <2>1. UNCHANGED <<now, file, cache>>
    BY <1>1 DEF Stats, ServesCached, Reads
  <2>2. Readings'
    <3>1. thread' = [u \in Threads |-> thread'[u]]
      BY <1>1 DEF Stats, ServesCached, Reads, Readings
    <3>2. ASSUME NEW u \in Threads PROVE (Timed(u) /\ TextIsNewer(u))'
      <4>1. CASE u = t /\ Stats(t)
        BY <4>1, <2>1 DEF Stats, Holds, Readings, Timed, TextIsNewer, Clock
      <4>2. CASE u = t /\ ServesCached(t)
        <5>1. thread'[u] = Reading  BY <4>2 DEF ServesCached, Readings
        <5> QED BY <5>1, <2>1, Idle DEF Clock, Timed, TextIsNewer
      <4>3. CASE u = t /\ Reads(t)
        <5>1. thread'[u] = Holds("read", thread[u].mtime, now, file.text)
          BY <4>3 DEF Reads, Readings
        <5>2. thread[u].mtime \in Int /\ thread[u].mtime <= file.mtime
          BY <4>3 DEF Reads, Readings, Timed
        <5> QED BY <5>1, <5>2, <2>1 DEF Holds, Timed, TextIsNewer, Clock
      <4>4. CASE u # t
        <5>1. thread'[u] = thread[u]
          BY <4>4, <1>1 DEF Stats, ServesCached, Reads, Readings
        <5> QED BY <5>1, <2>1 DEF Readings, Timed, TextIsNewer
      <4> QED BY <1>1, <4>1, <4>2, <4>3, <4>4
    <3> QED BY <3>1, <3>2 DEF Readings
  <2> QED BY <2>1, <2>2 DEF Clock, CacheTimed, StaleOnlyWithinTick
<1>2. CASE Caches(t)
  <2>1. /\ UNCHANGED <<now, file>>
        /\ cache' = [settings |-> SettingsRead(thread[t].text), seen |-> thread[t].mtime,
                     at |-> thread[t].at]
        /\ thread[t].stage = "read"
    BY <1>2 DEF Caches, Seen
  <2>2. /\ Timed(t) /\ TextIsNewer(t)
    BY DEF Readings
  <2>3. CacheTimed'  BY <2>1, <2>2 DEF CacheTimed, Timed, TextIsNewer
  <2>4. StaleOnlyWithinTick'
    <3>1. SettingsRead(file.text)' = SettingsRead(file.text)  BY <2>1
    <3> QED BY <2>1, <2>2, <3>1 DEF StaleOnlyWithinTick, TextIsNewer
  <2>5. Readings'
    <3>1. ASSUME NEW u \in Threads PROVE thread'[u] = IF u = t THEN Reading ELSE thread[u]
      BY <1>2 DEF Caches, Readings
    <3>2. thread' = [u \in Threads |-> thread'[u]]
      BY <1>2 DEF Caches, Readings
    <3>3. ASSUME NEW u \in Threads PROVE (Timed(u) /\ TextIsNewer(u))'
      BY <3>1, <2>1 DEF Holds, Reading, Readings, Timed, TextIsNewer
    <3> QED BY <3>2, <3>3 DEF Readings
  <2> QED BY <2>1, <2>3, <2>4, <2>5 DEF Clock
<1> QED BY <1>1, <1>2

LEMMA CacheStep == ASSUME CacheInv, [Next]_vars PROVE CacheInv'
<1>1. CASE UNCHANGED vars
  BY <1>1 DEF vars, CacheInv, Clock, Readings, Timed, TextIsNewer, CacheTimed,
              StaleOnlyWithinTick
<1>2. CASE Next  BY <1>2, CacheUser, CacheDaemon DEF Next
<1> QED BY <1>1, <1>2

\* Settings that differ from the file, for whose very time they are served, were
\* read within the tick in which it was written (Daemon::settings).
THEOREM OnlyWithinTick == Spec => []StaleOnlyWithinTick
<1>1. Init => CacheInv                      BY CacheInit
<1>2. CacheInv /\ [Next]_vars => CacheInv'  BY CacheStep
<1>3. CacheInv => StaleOnlyWithinTick       BY DEF CacheInv
<1> QED BY <1>1, <1>2, <1>3, PTL DEF Spec
-----------------------------------------------------------------------------
(***************************************************************************)
(* Texts.  A line stands in the section that the last header above it      *)
(* opens; of two texts, one after the other, each keeps its own sections   *)
(* when the second one begins with a header.                               *)
(***************************************************************************)
Text(t) ==
  /\ \E S : t \in Seq(S)
  /\ \A i \in Headers(t) : t[i].key = ""
Opens(t) == t = << >> \/ t[1].head # << >>

\* The last header at line i or above it is at line j.
OpenedAt(t, i, j) == j \in Headers(t) /\ j <= i /\ \A k \in Headers(t) : k <= i => k <= j

LEMMA LeastOf == ASSUME NEW S \in SUBSET Nat, S # {} PROVE \E x \in S : \A y \in S : x <= y
<1>1. IsWellFoundedOn(OpToRel(<, Nat), Nat)
  BY NatLessThanWellFounded
<1>2. PICK x \in S : \A y \in S : ~ (<<y, x>> \in OpToRel(<, Nat))
  BY <1>1, WFMin, Zenon
<1>3. \A y \in S : ~ (y < x)
  BY <1>2 DEF OpToRel
<1> QED BY <1>3

LEMMA GreatestOf ==
  ASSUME NEW S \in SUBSET Nat, NEW n \in Nat, S # {}, \A y \in S : y <= n
  PROVE  \E x \in S : \A y \in S : y <= x
<1> DEFINE D == {n - y : y \in S}
<1>1. D \in SUBSET Nat /\ D # {}
  <2>1. \A y \in S : n - y \in Nat
    OBVIOUS
  <2>2. PICK y \in S : TRUE
    OBVIOUS
  <2> QED BY <2>1, <2>2
<1>2. PICK d \in D : \A e \in D : d <= e
  <2> HIDE DEF D
  <2> QED BY <1>1, LeastOf
<1>3. PICK x \in S : d = n - x
  BY <1>2
<1>4. \A y \in S : d <= n - y
  BY <1>2
<1> QED BY <1>3, <1>4

LEMMA Lines ==
  ASSUME NEW t, Text(t)
  PROVE  /\ Len(t) \in Nat /\ DOMAIN t = 1 .. Len(t)
         /\ t = [i \in 1 .. Len(t) |-> t[i]]
         /\ Headers(t) \in SUBSET Nat /\ Headers(t) \subseteq DOMAIN t
         /\ t # << >> => 1 \in DOMAIN t
<1> PICK S : t \in Seq(S)
  BY DEF Text
<1> QED BY DEF Headers

LEMMA Opener ==
  ASSUME NEW t, Text(t), NEW i \in DOMAIN t
  PROVE  \/ \E j : OpenedAt(t, i, j)
         \/ (\A k \in Headers(t) : k > i) /\ SectionAt(t, i) = << >>
<1> DEFINE above == {j \in Headers(t) : j <= i}
<1>0. i \in Nat /\ above \in SUBSET Nat /\ Headers(t) \in SUBSET Nat
  BY Lines
<1>1. CASE above = {}
  <2>1. SectionAt(t, i) = << >>
    BY <1>1 DEF SectionAt
  <2> QED BY <1>0, <1>1, <2>1
<1>2. CASE above # {}
  <2>1. PICK j \in above : \A k \in above : k <= j
    BY <1>0, <1>2, GreatestOf
  <2>2. OpenedAt(t, i, j)
    BY <2>1 DEF OpenedAt
  <2> QED BY <2>2
<1> QED BY <1>1, <1>2

LEMMA SectionOf ==
  ASSUME NEW t, Text(t), NEW i \in DOMAIN t, NEW j, OpenedAt(t, i, j)
  PROVE  SectionAt(t, i) = t[j].head /\ j \in DOMAIN t
<1> DEFINE above == {k \in Headers(t) : k <= i}
<1>0. i \in Nat /\ above \in SUBSET Nat /\ Headers(t) \in SUBSET Nat
  BY Lines
<1>1. j \in above /\ \A k \in above : k <= j
  BY DEF OpenedAt
<1>2. \A m \in above : (\A k \in above : m >= k) => m = j
  BY <1>0, <1>1
<1>3. Max(above) = j
  <2>1. \A k \in above : j >= k
    BY <1>0, <1>1
  <2> HIDE DEF above
  <2> QED BY <1>1, <1>2, <2>1 DEF Max
<1> QED BY <1>1, <1>3, Lines DEF SectionAt

\* In a text that begins with a header every line has a section of its own.
LEMMA Sectioned ==
  ASSUME NEW t, Text(t), Opens(t), NEW i \in DOMAIN t
  PROVE  (\E j : OpenedAt(t, i, j)) /\ SectionAt(t, i) \in Sections(t) /\ SectionAt(t, i) # << >>
<1>1. 1 \in Headers(t) /\ i \in Nat /\ 1 <= i
  <2>1. i \in 1 .. Len(t) /\ Len(t) \in Nat
    BY Lines
  <2>2. t # << >>
    BY <2>1
  <2> QED BY <2>1, <2>2 DEF Opens, Headers
<1>2. PICK j : OpenedAt(t, i, j)
  BY <1>1, Opener
<1>3. SectionAt(t, i) = t[j].head /\ j \in Headers(t)
  BY <1>2, SectionOf DEF OpenedAt
<1> QED BY <1>2, <1>3 DEF Sections, Headers
LEMMA MinIs ==
  ASSUME NEW S \in SUBSET Nat, S # {}
  PROVE  Min(S) \in S /\ \A y \in S : Min(S) <= y
BY LeastOf DEF Min

LEMMA ThisMin ==
  ASSUME NEW S \in SUBSET Nat, NEW x \in S, \A y \in S : x <= y
  PROVE  Min(S) = x
<1>1. Min(S) \in S /\ \A y \in S : Min(S) <= y
  BY MinIs
<1>2. Min(S) \in Nat /\ x \in Nat /\ Min(S) <= x /\ x <= Min(S)
  BY <1>1
<1> QED BY <1>2
-----------------------------------------------------------------------------
(***************************************************************************)
(* A text with a line put into it or over another one: line i is at[i]     *)
(* then, and line p is the new one.                                        *)
(***************************************************************************)
Moves(t, u, at, p) ==
  /\ at \in [DOMAIN t -> DOMAIN u]
  /\ \A i, j \in DOMAIN t : i < j => at[i] < at[j]
  /\ \A i \in DOMAIN t : u[at[i]].head = t[i].head /\ u[at[i]].key = t[i].key
  /\ \A j \in DOMAIN u : j = p \/ \E i \in DOMAIN t : j = at[i]
  /\ p \in DOMAIN u /\ u[p] = Keychained
  /\ \A i \in DOMAIN t : at[i] # p => u[at[i]] = t[i]

LEMMA HeadersMove ==
  ASSUME NEW t, NEW u, Text(t), Text(u), NEW at, NEW p, Moves(t, u, at, p)
  PROVE  /\ \A i \in DOMAIN t : at[i] \in Headers(u) <=> i \in Headers(t)
         /\ \A h \in Headers(u) : \E i \in Headers(t) : h = at[i]
         /\ Sections(u) = Sections(t)
<1>1. \A i \in DOMAIN t : at[i] \in DOMAIN u
  BY DEF Moves
<1>2. \A i \in DOMAIN t : at[i] \in Headers(u) <=> i \in Headers(t)
  BY <1>1 DEF Moves, Headers
<1>3. p \notin Headers(u)
  <2>1. u[p].head = << >>
    BY DEF Moves, Keychained, Field
  <2> QED BY <2>1 DEF Headers
<1>4. \A h \in Headers(u) : \E i \in Headers(t) : h = at[i]
  BY <1>2, <1>3, Lines DEF Moves
<1>5. \A path : path \in Sections(u) <=> path \in Sections(t)
  <2>1. \A i \in Headers(t) : i \in DOMAIN t /\ u[at[i]].head = t[i].head
    BY Lines DEF Moves
  <2> QED BY <1>2, <1>4, <2>1 DEF Sections
<1> QED BY <1>2, <1>4, <1>5

LEMMA InOrder ==
  ASSUME NEW t, NEW u, Text(t), Text(u), NEW at, NEW p, Moves(t, u, at, p)
  PROVE  \A i, j \in DOMAIN t : (at[i] <= at[j] <=> i <= j) /\ (at[i] = at[j] <=> i = j)
<1> SUFFICES ASSUME NEW i \in DOMAIN t, NEW j \in DOMAIN t
             PROVE  (at[i] <= at[j] <=> i <= j) /\ (at[i] = at[j] <=> i = j)
  OBVIOUS
<1>1. i \in Nat /\ j \in Nat /\ at[i] \in Nat /\ at[j] \in Nat
  <2>1. at[i] \in DOMAIN u /\ at[j] \in DOMAIN u
    BY DEF Moves
  <2> QED BY <2>1, Lines
<1>2. (i < j => at[i] < at[j]) /\ (j < i => at[j] < at[i])
  BY DEF Moves
<1> QED BY <1>1, <1>2

LEMMA SectionsMove ==
  ASSUME NEW t, NEW u, Text(t), Text(u), NEW at, NEW p, Moves(t, u, at, p), NEW i \in DOMAIN t
  PROVE  SectionAt(u, at[i]) = SectionAt(t, i)
<1>0. at[i] \in DOMAIN u /\ Headers(t) \subseteq DOMAIN t
  BY Lines DEF Moves
<1>1. CASE \E j : OpenedAt(t, i, j)
  <2>1. PICK j : OpenedAt(t, i, j)
    BY <1>1
  <2>2. j \in Headers(t) /\ j \in DOMAIN t /\ j <= i /\ \A k \in Headers(t) : k <= i => k <= j
    BY <1>0, <2>1 DEF OpenedAt
  <2>3. \A k \in Headers(t) : at[k] <= at[i] => at[k] <= at[j]
    BY <1>0, <2>2, InOrder
  <2>4. OpenedAt(u, at[i], at[j])
    <3>1. at[j] \in Headers(u) /\ at[j] <= at[i]
      BY <2>2, HeadersMove, InOrder
    <3> QED BY <2>3, <3>1, HeadersMove DEF OpenedAt
  <2>5. SectionAt(u, at[i]) = u[at[j]].head /\ SectionAt(t, i) = t[j].head
    BY <1>0, <2>1, <2>4, SectionOf
  <2> QED BY <2>2, <2>5 DEF Moves
<1>2. CASE (\A k \in Headers(t) : k > i) /\ SectionAt(t, i) = << >>
  <2>1. \A k \in Headers(t) : ~ (at[k] <= at[i])
    <3> SUFFICES ASSUME NEW k \in Headers(t) PROVE ~ (at[k] <= at[i])
      OBVIOUS
    <3>1. k \in DOMAIN t /\ k > i /\ k \in Nat /\ i \in Nat
      BY <1>0, <1>2, Lines
    <3> QED BY <3>1, InOrder
  <2>2. \A h \in Headers(u) : ~ (h <= at[i])
    BY <2>1, HeadersMove
  <2> QED BY <1>0, <1>2, <2>2 DEF SectionAt
<1> QED BY <1>1, <1>2, Opener

\* The line is a key of the table `path`, and the only one.
Keys(t, u, at, p, path) ==
  /\ Moves(t, u, at, p) /\ SectionAt(u, p) = path
  /\ \A i \in FieldAt(t, path, "key") : at[i] = p

LEMMA FieldsMove ==
  ASSUME NEW t, NEW u, Text(t), Text(u), NEW at, NEW p, NEW path, Keys(t, u, at, p, path),
         NEW other, NEW key
  PROVE  /\ \A i \in DOMAIN t : at[i] \in FieldAt(u, other, key) <=> i \in FieldAt(t, other, key)
         /\ p \in FieldAt(u, other, key) <=> other = path /\ key = "key"
         /\ \A j \in FieldAt(u, other, key) : j = p \/ \E i \in FieldAt(t, other, key) : j = at[i]
<1>1. Moves(t, u, at, p)
  BY DEF Keys
<1>2. \A i \in DOMAIN t : at[i] \in DOMAIN u /\ u[at[i]].key = t[i].key
  BY <1>1 DEF Moves
<1>3. \A i \in DOMAIN t : at[i] \in FieldAt(u, other, key) <=> i \in FieldAt(t, other, key)
  BY <1>1, <1>2, SectionsMove DEF FieldAt
<1>4. p \in FieldAt(u, other, key) <=> other = path /\ key = "key"
  <2>1. p \in DOMAIN u /\ u[p].key = "key" /\ SectionAt(u, p) = path
    BY DEF Keys, Moves, Keychained, Field
  <2> QED BY <2>1 DEF FieldAt
<1>5. \A j \in DOMAIN u : j = p \/ \E i \in DOMAIN t : j = at[i]
  BY <1>1 DEF Moves
<1>6. \A j \in FieldAt(u, other, key) : j \in DOMAIN u
  BY DEF FieldAt
<1> QED BY <1>3, <1>4, <1>5, <1>6

LEMMA ValuesMove ==
  ASSUME NEW t, NEW u, Text(t), Text(u), NEW at, NEW p, NEW path, Keys(t, u, at, p, path),
         NEW other, NEW key, other # path \/ key # "key"
  PROVE  Value(u, other, key) = Value(t, other, key)
<1> DEFINE S == FieldAt(t, other, key)
           R == FieldAt(u, other, key)
<1>1. /\ \A i \in DOMAIN t : at[i] \in R <=> i \in S
      /\ p \notin R /\ \A j \in R : \E i \in S : j = at[i]
  BY FieldsMove
<1>2. S \in SUBSET Nat /\ R \in SUBSET Nat /\ S \subseteq DOMAIN t
  BY Lines DEF FieldAt
<1>3. Moves(t, u, at, p)
  BY DEF Keys
<1> HIDE DEF S, R
<1>4. CASE S = {}
  <2>1. R = {}
    BY <1>1, <1>4
  <2> QED BY <1>4, <2>1 DEF Value, S, R
<1>5. CASE S # {}
  <2>1. Min(S) \in S /\ \A i \in S : Min(S) <= i
    BY <1>2, <1>5, MinIs
  <2>2. at[Min(S)] \in R
    BY <1>1, <1>2, <2>1
  <2>3. \A j \in R : at[Min(S)] <= j
    <3>1. \A i \in S : at[Min(S)] <= at[i]
      BY <1>2, <1>3, <2>1, InOrder
    <3> QED BY <1>1, <3>1
  <2>4. Min(R) = at[Min(S)]
    BY <1>2, <2>2, <2>3, ThisMin
  <2>5. u[Min(R)] = t[Min(S)]
    BY <1>1, <1>2, <1>3, <2>1, <2>2, <2>4 DEF Moves
  <2> QED BY <1>5, <2>2, <2>5 DEF Value, S, R
<1> QED BY <1>4, <1>5

LEMMA KeyIsPut ==
  ASSUME NEW t, NEW u, Text(t), Text(u), NEW at, NEW p, NEW path, Keys(t, u, at, p, path)
  PROVE  FieldAt(u, path, "key") = {p} /\ Value(u, path, "key") = <<"keychain">>
<1>1. FieldAt(u, path, "key") = {p}
  BY FieldsMove DEF Keys
<1>2. p \in Nat
  BY Lines DEF Keys, Moves
<1>3. Min({p}) = p
  BY <1>2, ThisMin
<1>4. u[p].is = <<"keychain">>
  BY DEF Keys, Moves, Keychained, Field
<1> QED BY <1>1, <1>3, <1>4 DEF Value

LEMMA StillParses ==
  ASSUME NEW t, NEW u, Text(t), Text(u), NEW at, NEW p, NEW m, Keys(t, u, at, p, TableOf(m)),
         Parses(t), KeyInOneLine(t, m)
  PROVE  Parses(u)
<1>1. Moves(t, u, at, p) /\ Sections(u) = Sections(t)
  BY HeadersMove DEF Keys
<1>2. ASSUME NEW i \in Headers(u), NEW j \in Headers(u), u[i].head = u[j].head
      PROVE  i = j
  <2>1. PICK k \in Headers(t) : i = at[k]
    BY <1>1, HeadersMove
  <2>2. PICK l \in Headers(t) : j = at[l]
    BY <1>1, HeadersMove
  <2>3. t[k].head = t[l].head
    BY <1>1, <1>2, <2>1, <2>2, Lines DEF Moves
  <2> QED BY <2>1, <2>2, <2>3 DEF Parses
<1>3. ASSUME NEW i \in DOMAIN u, u[i].key # ""
      PROVE  FieldAt(u, SectionAt(u, i), u[i].key) = {i}
  <2>1. CASE i = p
    BY <2>1, KeyIsPut DEF Keys, Moves, Keychained, Field
  <2>2. CASE i # p
    <3>1. PICK j \in DOMAIN t : i = at[j]
      BY <1>1, <2>2 DEF Moves
    <3>2. SectionAt(u, i) = SectionAt(t, j) /\ u[i].key = t[j].key
      BY <1>1, <3>1, SectionsMove DEF Moves
    <3>3. FieldAt(t, SectionAt(t, j), t[j].key) = {j}
      BY <1>3, <3>2 DEF Parses
    <3>4. ~ (SectionAt(t, j) = TableOf(m) /\ t[j].key = "key")
      BY <2>2, <3>1, <3>3 DEF Keys
    <3>5. \A h \in FieldAt(u, SectionAt(t, j), t[j].key) : h = at[j]
      BY <3>3, <3>4, FieldsMove
    <3>6. at[j] \in FieldAt(u, SectionAt(t, j), t[j].key)
      BY <3>3, FieldsMove
    <3> QED BY <3>1, <3>2, <3>5, <3>6
  <2> QED BY <2>1, <2>2
<1>4. ASSUME NEW path \in Sections(u), FieldAt(u, path, "key") # {}
      PROVE  FieldAt(u, path, "key.env") = {} /\ path \o <<"key">> \notin Sections(u)
  <2>1. FieldAt(t, path, "key.env") = {} /\ path \o <<"key">> \notin Sections(t)
    <3>1. CASE path = TableOf(m)
      BY <3>1 DEF KeyInOneLine
    <3>2. CASE path # TableOf(m)
      <4>1. FieldAt(t, path, "key") # {}
        BY <1>4, <3>2, FieldsMove
      <4> QED BY <1>1, <4>1 DEF Parses
    <3> QED BY <3>1, <3>2
  <2>2. p \notin FieldAt(u, path, "key.env")
    BY FieldsMove
  <2>3. FieldAt(u, path, "key.env") = {}
    BY <2>1, <2>2, FieldsMove
  <2> QED BY <1>1, <2>1, <2>3
<1> QED BY <1>2, <1>3, <1>4 DEF Parses
-----------------------------------------------------------------------------
(***************************************************************************)
(* What an edited text means.                                              *)
(***************************************************************************)
\* Two texts alike but for the key of model m.
Alike(t, u, m) ==
  /\ Sections(u) = Sections(t)
  /\ \A path, key : path # TableOf(m) \/ key # "key" => Value(u, path, key) = Value(t, path, key)

LEMMA AlikeOthers ==
  ASSUME NEW t, NEW u, NEW m, Alike(t, u, m)
  PROVE  /\ ModelNames(u) = ModelNames(t)
         /\ \A n : n # m => ModelSpec(u, n) = ModelSpec(t, n)
         /\ \A n : n # m => (ValidModel(u, n) <=> ValidModel(t, n))
<1>1. \A n, key : n # m \/ key # "key" => Value(u, TableOf(n), key) = Value(t, TableOf(n), key)
  BY DEF Alike, TableOf
<1>2. \A path : Value(u, path, "env") = Value(t, path, "env")
  BY DEF Alike
<1>3. ASSUME NEW n, n # m
      PROVE  ModelSpec(u, n) = ModelSpec(t, n) /\ (ValidModel(u, n) <=> ValidModel(t, n))
  <2>1. \A key : Value(u, TableOf(n), key) = Value(t, TableOf(n), key)
    BY <1>1, <1>3
  <2>2. KeyOf(u, n) = KeyOf(t, n)
    BY <1>2, <2>1 DEF KeyOf
  <2>3. ModelSpec(u, n) = ModelSpec(t, n)
    BY <2>1, <2>2 DEF ModelSpec
  <2>4. Client(u, n) = Client(t, n)
    BY <2>1 DEF Client
  <2>5. ValidModel(u, n) <=> ValidModel(t, n)
    BY <2>1, <2>2, <2>4, Zenon DEF ValidModel
  <2> QED BY <2>3, <2>5
<1> QED BY <1>3 DEF Alike, ModelNames

LEMMA AlikeRest ==
  ASSUME NEW t, NEW u, NEW m, Alike(t, u, m)
  PROVE  /\ \A task \in Tasks : Route(u, task) = Route(t, task)
         /\ \A o \in DOMAIN Accepted : /\ Value(u, Under(o), o) = Value(t, Under(o), o)
                                       /\ Option(u, o) = Option(t, o)
         /\ Value(u, <<"capture">>, "sources") = Value(t, <<"capture">>, "sources")
         /\ SourcesOf(u) = SourcesOf(t)
<1>1. \A path, key : key # "key" => Value(u, path, key) = Value(t, path, key)
  BY DEF Alike
<1>2. \A task \in Tasks : Route(u, task) = Route(t, task)
  BY <1>1 DEF Route, Tasks
<1>3. \A o \in DOMAIN Accepted : o # "key"
  BY DEF Accepted
<1>4. \A o \in DOMAIN Accepted : /\ Value(u, Under(o), o) = Value(t, Under(o), o)
                                 /\ Option(u, o) = Option(t, o)
  BY <1>1, <1>3 DEF Option
<1>5. Value(u, <<"capture">>, "sources") = Value(t, <<"capture">>, "sources")
  BY <1>1
<1>6. Option(u, "stderr_tee") = Option(t, "stderr_tee")
  BY <1>4 DEF Accepted
<1> QED BY <1>2, <1>4, <1>5, <1>6, Zenon DEF SourcesOf

LEMMA KeyInChain ==
  ASSUME NEW t, NEW u, NEW m, Alike(t, u, m), Value(u, TableOf(m), "key") = <<"keychain">>
  PROVE  /\ ModelSpec(u, m) = [ModelSpec(t, m) EXCEPT !.key = <<"keychain", m>>]
         /\ ValidModel(t, m) => ValidModel(u, m)
<1>1. KeyOf(u, m) = <<"keychain">>
  BY DEF KeyOf, Given, Absent
<1>2. /\ <<"keychain">> # Absent /\ <<"keychain">>[1] = "keychain" /\ "keychain" \in KeyForms
  BY DEF Absent, KeyForms
<1>3. \A key : key # "key" => Value(u, TableOf(m), key) = Value(t, TableOf(m), key)
  BY DEF Alike
<1>4. Client(u, m) = Client(t, m)
  BY <1>3 DEF Client
<1>5. ValidModel(t, m) => ValidModel(u, m)
  BY <1>1, <1>2, <1>3, <1>4 DEF ValidModel
<1>6. ModelSpec(u, m) = [ModelSpec(t, m) EXCEPT !.key = <<"keychain", m>>]
  <2>1. \A other : Given(KeyOf(u, m), other) = <<"keychain">>
    BY <1>1, <1>2 DEF Given
  <2> QED BY <1>2, <1>3, <2>1 DEF ModelSpec
<1> QED BY <1>5, <1>6

LEMMA OneKeyOther ==
  ASSUME NEW t, NEW u, NEW m, Alike(t, u, m), Value(u, TableOf(m), "key") = <<"keychain">>,
         SettingsOf(t).ok, Parses(u), m \in ModelNames(t)
  PROVE  SettingsOf(u) = [SettingsOf(t) EXCEPT !.models[m].key = <<"keychain", m>>]
<1>1. Parses(t) /\ Valid(t)
  BY DEF SettingsOf, Refused
<1>2. Valid(u)
  <2>1. \A n \in ModelNames(u) : ValidModel(u, n)
    BY <1>1, AlikeOthers, KeyInChain DEF Valid
  <2> QED BY <1>1, <2>1, AlikeOthers, AlikeRest DEF Valid
<1> DEFINE key == <<"keychain", m>>
           models == [n \in ModelNames(t) |-> ModelSpec(t, n)]
           edited == [models EXCEPT ![m].key = key]
<1>3. [n \in ModelNames(u) |-> ModelSpec(u, n)] = edited
  <2>1. \A n \in ModelNames(t) :
          ModelSpec(u, n) = IF n = m THEN [ModelSpec(t, m) EXCEPT !.key = key] ELSE ModelSpec(t, n)
    BY AlikeOthers, KeyInChain
  <2>2. [n \in ModelNames(u) |-> ModelSpec(u, n)] = [n \in ModelNames(t) |-> ModelSpec(u, n)]
    BY AlikeOthers
  <2> HIDE DEF key
  <2>3. edited = [n \in ModelNames(t) |->
                    IF n = m THEN [ModelSpec(t, m) EXCEPT !.key = key] ELSE ModelSpec(t, n)]
    OBVIOUS
  <2> QED BY <2>1, <2>2, <2>3
<1>4. SettingsOf(t) = [ok |-> TRUE, models |-> models,
                       route   |-> [task \in Tasks |-> Route(t, task)],
                       option  |-> [o \in DOMAIN Accepted |-> Option(t, o)],
                       sources |-> SourcesOf(t)]
  BY <1>1 DEF SettingsOf
<1>5. SettingsOf(u) = [ok |-> TRUE, models |-> edited,
                       route   |-> [task \in Tasks |-> Route(t, task)],
                       option  |-> [o \in DOMAIN Accepted |-> Option(t, o)],
                       sources |-> SourcesOf(t)]
  <2>1. [task \in Tasks |-> Route(u, task)] = [task \in Tasks |-> Route(t, task)]
    BY AlikeRest
  <2>2. [o \in DOMAIN Accepted |-> Option(u, o)] = [o \in DOMAIN Accepted |-> Option(t, o)]
    BY AlikeRest
  <2>3. SourcesOf(u) = SourcesOf(t)
    BY AlikeRest
  <2> HIDE DEF edited
  <2> QED BY <1>2, <1>3, <2>1, <2>2, <2>3, Zenon DEF SettingsOf
<1>6. SettingsOf(t).models = models
  BY <1>4
<1>7. [SettingsOf(t) EXCEPT !.models[m].key = key] = [SettingsOf(t) EXCEPT !.models = edited]
  BY <1>6
<1>8. SettingsOf(u) = [SettingsOf(t) EXCEPT !.models = edited]
  <2>1. ASSUME NEW a, NEW b, NEW r, NEW o, NEW s, NEW all,
               all = [ok |-> TRUE, models |-> a, route |-> r, option |-> o, sources |-> s]
        PROVE  [all EXCEPT !.models = b]
                 = [ok |-> TRUE, models |-> b, route |-> r, option |-> o, sources |-> s]
    <3> DEFINE All == [ok : {TRUE}, models : {a, b}, route : {r}, option : {o}, sources : {s}]
    <3>1. all \in All
      BY <2>1
    <3>2. [all EXCEPT !.models = b] \in All /\ [all EXCEPT !.models = b].models = b
      BY <2>1, <3>1
    <3> DEFINE new == [all EXCEPT !.models = b]
    <3>3. new \in All /\ [ok |-> TRUE, models |-> b, route |-> r, option |-> o, sources |-> s] \in All
      BY <3>2
    <3>4. new.ok = TRUE /\ new.models = b /\ new.route = r /\ new.option = o /\ new.sources = s
      BY <3>2, <3>3
    <3>5. new = [ok |-> TRUE, models |-> b, route |-> r, option |-> o, sources |-> s]
      <4> HIDE DEF new
      <4> QED BY <3>3, <3>4
    <3> QED BY <3>5
  <2> HIDE DEF edited, models
  <2> QED BY <1>4, <1>5, <2>1
<1> QED BY <1>7, <1>8
-----------------------------------------------------------------------------
(***************************************************************************)
(* The edit of login.                                                      *)
(***************************************************************************)
LEMMA Concat ==
  ASSUME NEW R, NEW x \in Seq(R), NEW y \in Seq(R)
  PROVE  /\ x \o y \in Seq(R) /\ Len(x \o y) = Len(x) + Len(y)
         /\ \A i \in 1 .. Len(x) : (x \o y)[i] = x[i]
         /\ \A i \in 1 .. Len(y) : (x \o y)[Len(x) + i] = y[i]
OBVIOUS

LEMMA Inserted ==
  ASSUME NEW t, Text(t), NEW p \in 1 .. Len(t) + 1, NEW u, u = InsertAt(t, p, Keychained)
  PROVE  /\ DOMAIN u = 1 .. Len(t) + 1 /\ u[p] = Keychained
         /\ \A i \in DOMAIN t : i < p => u[i] = t[i]
         /\ \A i \in DOMAIN t : p <= i => u[i + 1] = t[i]
         /\ Text(u)
<1>1. PICK S : t \in Seq(S)
  BY DEF Text
<1> DEFINE R == S \union {Keychained}
           before == SubSeq(t, 1, p - 1)
           after == SubSeq(t, p, Len(t))
<1>2. t \in Seq(R) /\ <<Keychained>> \in Seq(R) /\ Len(t) \in Nat
  BY <1>1
<1>3. /\ before \in Seq(R) /\ Len(before) = p - 1 /\ \A i \in 1 .. p - 1 : before[i] = t[i]
  BY <1>2
<1>4. /\ after \in Seq(R) /\ Len(after) = Len(t) + 1 - p
      /\ \A i \in 1 .. Len(t) + 1 - p : after[i] = t[p + i - 1]
  BY <1>2
<1>5. u = before \o <<Keychained>> \o after
  BY DEF InsertAt
<1> HIDE DEF before, after, R
<1>6. u \in Seq(R) /\ Len(u) = Len(t) + 1
  <2>1. before \o <<Keychained>> \in Seq(R) /\ Len(before \o <<Keychained>>) = p
    <3>1. Len(<<Keychained>>) = 1
      OBVIOUS
    <3>2. p \in Int
      BY <1>2
    <3> QED BY <1>2, <1>3, <3>1, <3>2
  <2> DEFINE x == before \o <<Keychained>>
  <2>2. u \in Seq(R) /\ Len(u) = p + (Len(t) + 1 - p)
    <3>1. u = x \o after /\ x \in Seq(R) /\ Len(x) = p
      BY <1>5, <2>1
    <3> HIDE DEF x
    <3>2. u \in Seq(R) /\ Len(u) = Len(x) + Len(after)
      BY <1>4, <3>1, Concat
    <3> QED BY <1>4, <3>1, <3>2
  <2> QED BY <1>2, <2>2
<1>7. /\ \A i \in 1 .. p - 1 : u[i] = before[i]
      /\ u[p] = Keychained
      /\ \A i \in 1 .. Len(t) + 1 - p : u[p + i] = after[i]
  BY <1>2, <1>3, <1>4, <1>5
<1>8. ASSUME NEW i \in DOMAIN t
      PROVE  (i < p => u[i] = t[i]) /\ (p <= i => u[i + 1] = t[i])
  <2>1. i \in 1 .. Len(t) /\ i \in Nat
    BY <1>2
  <2>2. CASE i < p
    BY <1>3, <1>7, <2>1, <2>2
  <2>3. CASE p <= i
    <3>1. i - p + 1 \in 1 .. Len(t) + 1 - p
      BY <1>2, <2>1, <2>3
    <3>2. u[p + (i - p + 1)] = t[p + (i - p + 1) - 1]
      BY <1>4, <1>7, <3>1
    <3>3. p + (i - p + 1) = i + 1 /\ p + (i - p + 1) - 1 = i
      BY <2>1
    <3> QED BY <2>1, <2>3, <3>2, <3>3
  <2> QED BY <2>1, <2>2, <2>3
<1>9. ASSUME NEW j \in Headers(u) PROVE u[j].key = ""
  <2>1. j \in 1 .. Len(t) + 1 /\ j # p /\ u[j].head # << >> /\ j \in Nat
    BY <1>2, <1>6, <1>7 DEF Headers, Keychained, Field
  <2>2. PICK i \in DOMAIN t : u[j] = t[i]
    <3>1. CASE j < p
      BY <1>2, <1>8, <2>1, <3>1
    <3>2. CASE p < j
      <4>1. j - 1 \in DOMAIN t /\ p <= j - 1 /\ (j - 1) + 1 = j
        BY <1>2, <2>1, <3>2
      <4> QED BY <1>8, <4>1
    <3> QED BY <2>1, <3>1, <3>2
  <2> QED BY <2>1, <2>2 DEF Text, Headers
<1>10. DOMAIN u = 1 .. Len(t) + 1
  BY <1>2, <1>6
<1>11. Text(u)
  BY <1>6, <1>9 DEF Text
<1> QED BY <1>7, <1>8, <1>10, <1>11

\* Where the table of m is, in a text that names it once.
Table(t, m, start, end) ==
  /\ start \in Headers(t) /\ t[start].head = TableOf(m)
  /\ end \in Nat /\ start < end /\ end <= Len(t) + 1
  /\ \A h \in Headers(t) : h > start => end <= h
  /\ end \in Headers(t) \/ end = Len(t) + 1

LEMMA TableIs ==
  ASSUME NEW t, Text(t), NEW m, PlainHeaders(t, m) # {},
         NEW start, start = Min(PlainHeaders(t, m))
  PROVE  Table(t, m, start, EndOf(t, start)) /\ m \in ModelNames(t)
<1>1. Headers(t) \in SUBSET Nat /\ PlainHeaders(t, m) \in SUBSET Nat
  BY Lines DEF PlainHeaders
<1>2. start \in Headers(t) /\ t[start].head = TableOf(m)
  BY <1>1, MinIs DEF PlainHeaders
<1>3. start \in 1 .. Len(t) /\ Len(t) \in Nat
  BY <1>2, Lines
<1> DEFINE after == {i \in Headers(t) : i > start}
<1>4. Table(t, m, start, EndOf(t, start))
  <2>1. CASE after = {}
    <3>1. EndOf(t, start) = Len(t) + 1
      BY <2>1 DEF EndOf
    <3> QED BY <1>2, <1>3, <2>1, <3>1 DEF Table
  <2>2. CASE after # {}
    <3>1. EndOf(t, start) = Min(after)
      BY <2>2 DEF EndOf
    <3>2. Min(after) \in after /\ \A h \in after : Min(after) <= h
      BY <1>1, <2>2, MinIs
    <3>3. Min(after) \in 1 .. Len(t)
      BY <3>2, Lines
    <3> QED BY <1>2, <1>3, <3>1, <3>2, <3>3 DEF Table
  <2> QED BY <2>1, <2>2
<1>5. TableOf(m) \in Sections(t) /\ Len(TableOf(m)) = 2 /\ TableOf(m)[1] = "models"
      /\ TableOf(m)[2] = m
  BY <1>2 DEF Sections, TableOf
<1> QED BY <1>4, <1>5 DEF ModelNames

LEMMA InTable ==
  ASSUME NEW t, Text(t), Parses(t), NEW m, NEW start, NEW end, Table(t, m, start, end),
         NEW i \in DOMAIN t
  PROVE  SectionAt(t, i) = TableOf(m) <=> start <= i /\ i < end
<1>1. i \in 1 .. Len(t) /\ Len(t) \in Nat /\ start \in 1 .. Len(t) /\ end \in Nat
  BY Lines DEF Table
<1>2. ASSUME start <= i, i < end PROVE SectionAt(t, i) = TableOf(m)
  <2>1. \A h \in Headers(t) : h <= i => h <= start
    <3> SUFFICES ASSUME NEW h \in Headers(t), h <= i, ~ (h <= start) PROVE FALSE
      OBVIOUS
    <3>1. h \in 1 .. Len(t)
      BY Lines
    <3> QED BY <1>1, <1>2, <3>1 DEF Table
  <2>2. OpenedAt(t, i, start)
    BY <1>2, <2>1 DEF OpenedAt, Table
  <2> QED BY <2>2, SectionOf DEF Table
<1>3. ASSUME SectionAt(t, i) = TableOf(m) PROVE start <= i /\ i < end
  <2>1. PICK j : OpenedAt(t, i, j)
    BY <1>3, Opener DEF TableOf
  <2>2. t[j].head = TableOf(m) /\ j \in Headers(t)
    BY <1>3, <2>1, SectionOf DEF OpenedAt
  <2>3. j = start
    BY <2>2 DEF Parses, Table
  <2>4. ~ (end <= i)
    <3> SUFFICES ASSUME end <= i PROVE FALSE
      OBVIOUS
    <3>1. end \in Headers(t)
      BY <1>1 DEF Table
    <3> QED BY <1>1, <2>1, <2>3, <3>1 DEF OpenedAt, Table
  <2> QED BY <1>1, <2>1, <2>3, <2>4 DEF OpenedAt
<1> QED BY <1>2, <1>3

\* A key line that is there is written over.
LEMMA Overwritten ==
  ASSUME NEW t, Text(t), Parses(t), NEW m, NEW start, NEW end, Table(t, m, start, end),
         NEW k \in DOMAIN t, start < k, k < end, t[k].key = "key",
         NEW u, u = ReplaceAt(t, k, Keychained)
  PROVE  Text(u) /\ Keys(t, u, [i \in DOMAIN t |-> i], k, TableOf(m))
<1> DEFINE at == [i \in DOMAIN t |-> i]
<1>1. PICK S : t \in Seq(S)
  BY DEF Text
<1>2. t[k].head = << >>
  BY DEF Text, Headers
<1>3. /\ DOMAIN u = DOMAIN t /\ u[k] = Keychained
      /\ \A i \in DOMAIN t : i # k => u[i] = t[i]
  BY <1>1 DEF ReplaceAt
<1>4. Text(u)
  <2>1. t \in Seq(S \union {Keychained})
    BY <1>1
  <2>2. u \in Seq(S \union {Keychained})
    BY <2>1 DEF ReplaceAt
  <2>3. ASSUME NEW i \in Headers(u) PROVE u[i].key = ""
    <3>1. u[k].head = << >>
      BY <1>3 DEF Keychained, Field
    <3>2. i \in DOMAIN t /\ i # k /\ u[i].head # << >>
      BY <1>3, <2>3, <3>1 DEF Headers
    <3>3. u[i] = t[i] /\ i \in Headers(t)
      BY <1>3, <3>2 DEF Headers
    <3> QED BY <3>3 DEF Text
  <2> QED BY <2>2, <2>3 DEF Text
<1>5. Moves(t, u, at, k)
  <2>1. \A i \in DOMAIN t : u[i].head = t[i].head /\ u[i].key = t[i].key
    BY <1>2, <1>3 DEF Keychained, Field
  <2> QED BY <1>3, <2>1 DEF Moves
<1>6. k \in Nat /\ start \in Nat /\ SectionAt(t, k) = TableOf(m)
  BY Lines, InTable DEF Table
<1>7. SectionAt(u, k) = TableOf(m)
  BY <1>4, <1>5, <1>6, SectionsMove
<1>8. FieldAt(t, TableOf(m), "key") = {k}
  BY <1>6 DEF Parses
<1>9. \A i \in FieldAt(t, TableOf(m), "key") : at[i] = k
  BY <1>8
<1> HIDE DEF at
<1>10. Keys(t, u, at, k, TableOf(m))
  BY <1>5, <1>7, <1>9 DEF Keys
<1> QED BY <1>4, <1>10 DEF at

\* Where there is none a line is put into the table.
LEMMA PutIn ==
  ASSUME NEW t, Text(t), Parses(t), NEW m, NEW start, NEW end, Table(t, m, start, end),
         \A i \in DOMAIN t : start < i /\ i < end => t[i].key # "key",
         NEW p \in Nat, start < p, p <= end,
         NEW u, u = InsertAt(t, p, Keychained)
  PROVE  Text(u) /\ Keys(t, u, [i \in DOMAIN t |-> IF i < p THEN i ELSE i + 1], p, TableOf(m))
<1> DEFINE at == [i \in DOMAIN t |-> IF i < p THEN i ELSE i + 1]
<1>1. DOMAIN t = 1 .. Len(t) /\ Len(t) \in Nat /\ start \in 1 .. Len(t) /\ end \in Nat
      /\ end <= Len(t) + 1
  BY Lines DEF Table
<1>2. p \in 1 .. Len(t) + 1
  BY <1>1
<1>3. /\ DOMAIN u = 1 .. Len(t) + 1 /\ u[p] = Keychained /\ Text(u)
      /\ \A i \in DOMAIN t : i < p => u[i] = t[i]
      /\ \A i \in DOMAIN t : p <= i => u[i + 1] = t[i]
  BY <1>2, Inserted
<1>4. \A i \in DOMAIN t : /\ at[i] \in DOMAIN u /\ at[i] # p /\ u[at[i]] = t[i]
                          /\ (i < p => at[i] = i) /\ (p <= i => at[i] = i + 1)
  BY <1>1, <1>3
<1>5. Moves(t, u, at, p)
  <2>1. at \in [DOMAIN t -> DOMAIN u]
    BY <1>4
  <2>2. \A i, j \in DOMAIN t : i < j => at[i] < at[j]
    BY <1>1
  <2>3. ASSUME NEW j \in DOMAIN u PROVE j = p \/ \E i \in DOMAIN t : j = at[i]
    <3>1. CASE j < p
      <4>1. j \in DOMAIN t
        BY <1>1, <1>2, <1>3, <2>3, <3>1
      <4> QED BY <1>4, <3>1, <4>1
    <3>2. CASE j > p
      <4>1. j - 1 \in DOMAIN t /\ p <= j - 1 /\ (j - 1) + 1 = j
        BY <1>1, <1>2, <1>3, <2>3, <3>2
      <4> QED BY <1>4, <4>1
    <3> QED BY <1>1, <1>2, <1>3, <2>3, <3>1, <3>2
  <2> HIDE DEF at
  <2> QED BY <1>2, <1>3, <1>4, <2>1, <2>2, <2>3 DEF Moves
<1> HIDE DEF at
<1>6. SectionAt(u, p) = TableOf(m)
  <2>1. start \in Headers(t) /\ start \in DOMAIN t /\ at[start] = start
    BY <1>1, <1>4 DEF Table
  <2>2. start \in Headers(u) /\ start <= p /\ u[start].head = TableOf(m)
    <3>1. at[start] \in Headers(u)
      BY <1>3, <1>5, <2>1, HeadersMove
    <3> QED BY <1>1, <1>4, <2>1, <3>1 DEF Table
  <2>3. ASSUME NEW h \in Headers(u), h <= p PROVE h <= start
    <3>1. PICK i \in Headers(t) : h = at[i]
      BY <1>3, <1>5, HeadersMove
    <3>2. i \in DOMAIN t /\ i \in Nat
      BY <1>1, Lines
    <3>3. i < p /\ h = i
      BY <1>1, <1>4, <2>3, <3>1, <3>2
    <3> QED BY <1>1, <3>2, <3>3 DEF Table
  <2>4. OpenedAt(u, p, start)
    BY <2>2, <2>3 DEF OpenedAt
  <2> QED BY <1>2, <1>3, <2>2, <2>4, SectionOf
<1>7. \A i \in FieldAt(t, TableOf(m), "key") : at[i] = p
  <2> SUFFICES ASSUME NEW i \in FieldAt(t, TableOf(m), "key") PROVE FALSE
    OBVIOUS
  <2>1. i \in DOMAIN t /\ t[i].key = "key" /\ start <= i /\ i < end
    BY InTable DEF FieldAt
  <2>2. t[start].key = ""
    BY DEF Text, Table
  <2>3. i # start /\ i \in Nat /\ start \in Nat
    <3>1. i # start
      BY <2>1, <2>2
    <3> QED BY <1>1, <2>1, <3>1
  <2>4. start < i
    BY <2>1, <2>3
  <2> QED BY <2>1, <2>4
<1>8. Keys(t, u, at, p, TableOf(m))
  BY <1>5, <1>6, <1>7 DEF Keys
<1> QED BY <1>3, <1>8 DEF at

LEMMA KeyEdited ==
  ASSUME NEW t, Text(t), Parses(t), NEW m, PlainHeaders(t, m) # {}
  PROVE  \E at, p : Text(WithKeychainKey(t, m))
                    /\ Keys(t, WithKeychainKey(t, m), at, p, TableOf(m))
<1> DEFINE start == Min(PlainHeaders(t, m))
           end == EndOf(t, start)
           within == (start + 1) .. (end - 1)
           keys == {i \in within : t[i].key = "key"}
           blanks == {i \in within : t[i] = Blank}
           p == IF blanks = {} THEN end ELSE Min(blanks)
           u == WithKeychainKey(t, m)
<1>1. Table(t, m, start, end)
  BY TableIs
<1>2. DOMAIN t = 1 .. Len(t) /\ Len(t) \in Nat /\ start \in 1 .. Len(t) /\ end \in Nat
      /\ end <= Len(t) + 1 /\ start < end
  BY <1>1, Lines DEF Table
<1>3. u = IF keys # {} THEN ReplaceAt(t, Min(keys), Keychained) ELSE InsertAt(t, p, Keychained)
  BY DEF WithKeychainKey, EditedIn
<1> HIDE DEF start, end, u
<1>4. within \in SUBSET Nat /\ keys \in SUBSET Nat /\ blanks \in SUBSET Nat
      /\ \A i \in within : i \in DOMAIN t /\ start < i /\ i < end
  BY <1>2
<1>5. CASE keys # {}
  <2>1. Min(keys) \in keys
    BY <1>4, <1>5, MinIs
  <2>2. u = ReplaceAt(t, Min(keys), Keychained)
    BY <1>3, <1>5
  <2>3. Min(keys) \in DOMAIN t /\ start < Min(keys) /\ Min(keys) < end /\ t[Min(keys)].key = "key"
    BY <1>4, <2>1
  <2>4. Text(u) /\ Keys(t, u, [i \in DOMAIN t |-> i], Min(keys), TableOf(m))
    <3> HIDE DEF keys
    <3> QED BY <1>1, <2>2, <2>3, Overwritten
  <2> QED BY <2>4 DEF u
<1>6. CASE keys = {}
  <2>1. p \in Nat /\ start < p /\ p <= end
    <3>1. CASE blanks = {}
      BY <1>2, <3>1
    <3>2. CASE blanks # {}
      <4>1. Min(blanks) \in blanks
        BY <1>4, <3>2, MinIs
      <4>2. Min(blanks) \in Nat /\ start < Min(blanks) /\ Min(blanks) < end /\ p = Min(blanks)
        BY <1>4, <3>2, <4>1
      <4> HIDE DEF blanks, p
      <4> QED BY <1>2, <4>2
    <3> QED BY <3>1, <3>2
  <2>2. \A i \in DOMAIN t : start < i /\ i < end => t[i].key # "key"
    BY <1>2, <1>6
  <2>3. u = InsertAt(t, p, Keychained)
    BY <1>3, <1>6
  <2> HIDE DEF p
  <2>4. Text(u) /\ Keys(t, u, [i \in DOMAIN t |-> IF i < p THEN i ELSE i + 1], p, TableOf(m))
    BY <1>1, <2>1, <2>2, <2>3, PutIn
  <2> QED BY <2>4 DEF u
<1> QED BY <1>5, <1>6

LEMMA EditMeans ==
  ASSUME NEW t, Text(t), NEW m, PlainHeaders(t, m) # {}, KeyInOneLine(t, m), SettingsOf(t).ok
  PROVE  SettingsOf(WithKeychainKey(t, m))
           = [SettingsOf(t) EXCEPT !.models[m].key = <<"keychain", m>>]
<1> DEFINE u == WithKeychainKey(t, m)
<1>1. Parses(t) /\ m \in ModelNames(t)
  BY TableIs DEF SettingsOf, Refused
<1>2. PICK at : \E p : Text(u) /\ Keys(t, u, at, p, TableOf(m))
  BY <1>1, KeyEdited
<1>3. PICK p : Text(u) /\ Keys(t, u, at, p, TableOf(m))
  BY <1>2
<1> HIDE DEF u
<1>4. Sections(u) = Sections(t)
  BY <1>3, HeadersMove DEF Keys
<1>5. \A path, key : path # TableOf(m) \/ key # "key" => Value(u, path, key) = Value(t, path, key)
  BY <1>3, ValuesMove
<1>6. Value(u, TableOf(m), "key") = <<"keychain">>
  BY <1>3, KeyIsPut
<1>7. Parses(u)
  BY <1>1, <1>3, StillParses
<1>8. SettingsOf(u) = [SettingsOf(t) EXCEPT !.models[m].key = <<"keychain", m>>]
  BY <1>1, <1>4, <1>5, <1>6, <1>7, OneKeyOther DEF Alike
<1> QED BY <1>8 DEF u
-----------------------------------------------------------------------------
(***************************************************************************)
(* Texts of sections: one after the other, each keeps what it says.        *)
(***************************************************************************)
Short(path) == (\E a : path = <<a>>) \/ (\E a, b : path = <<a, b>>)

\* A text that parses, whatever sections of its kind come with it.
Whole(t) ==
  /\ Text(t) /\ Opens(t)
  /\ \A i, j \in Headers(t) : t[i].head = t[j].head => i = j
  /\ \A i \in DOMAIN t :
       t[i].key # "" => FieldAt(t, SectionAt(t, i), t[i].key) = {i}
  /\ \A path : FieldAt(t, path, "key.env") = {}
  /\ \A path \in Sections(t) : Short(path)
  /\ \A a : FieldAt(t, <<a>>, "key") = {}

LEMMA WholeParses == ASSUME NEW t, Whole(t) PROVE Parses(t)
<1>1. ASSUME NEW path \in Sections(t), FieldAt(t, path, "key") # {}
      PROVE  path \o <<"key">> \notin Sections(t)
  <2>1. PICK a : \E b : path = <<a, b>>
    BY <1>1 DEF Whole, Short
  <2>2. PICK b : path = <<a, b>>
    BY <2>1
  <2>3. Len(path \o <<"key">>) = 3
    BY <2>2
  <2>4. ASSUME NEW q \in Sections(t) PROVE Len(q) # 3
    <3>1. Short(q)
      BY DEF Whole
    <3>2. CASE \E c : q = <<c>>
      BY <3>2
    <3>3. CASE \E c, d : q = <<c, d>>
      BY <3>3
    <3> QED BY <3>1, <3>2, <3>3 DEF Short
  <2> QED BY <2>3, <2>4
<1> QED BY <1>1 DEF Whole, Parses

LEMMA NothingWhole ==
  Whole(<< >>) /\ Sections(<< >>) = {} /\ \A path, key : Value(<< >>, path, key) = Absent
<1>1. DOMAIN << >> = {} /\ << >> \in Seq({})
  OBVIOUS
<1>2. Headers(<< >>) = {} /\ \A path, key : FieldAt(<< >>, path, key) = {}
  BY <1>1 DEF Headers, FieldAt
<1>3. Sections(<< >>) = {}
  BY <1>2 DEF Sections
<1> QED BY <1>1, <1>2, <1>3 DEF Whole, Text, Opens, Value

\* u is p and then q.
Joins(p, q, u) ==
  /\ Text(p) /\ Text(q) /\ Text(u) /\ Len(p) \in Nat /\ Len(q) \in Nat
  /\ DOMAIN u = 1 .. Len(p) + Len(q) /\ DOMAIN p = 1 .. Len(p) /\ DOMAIN q = 1 .. Len(q)
  /\ \A i \in DOMAIN p : u[i] = p[i]
  /\ \A i \in DOMAIN q : u[Len(p) + i] = q[i]

LEMMA Joined ==
  ASSUME NEW p, NEW q, Text(p), Text(q)
  PROVE  Joins(p, q, p \o q)
<1>0. PICK u : u = p \o q
  OBVIOUS
<1>1. PICK S : p \in Seq(S)
  BY DEF Text
<1>2. PICK R : q \in Seq(R)
  BY DEF Text
<1>3. p \in Seq(S \union R) /\ q \in Seq(S \union R)
  BY <1>1, <1>2
<1>4. /\ u \in Seq(S \union R) /\ Len(u) = Len(p) + Len(q)
      /\ \A i \in 1 .. Len(p) : u[i] = p[i]
      /\ \A i \in 1 .. Len(q) : u[Len(p) + i] = q[i]
  BY <1>0, <1>3, Concat
<1>5. /\ Len(p) \in Nat /\ Len(q) \in Nat /\ DOMAIN p = 1 .. Len(p) /\ DOMAIN q = 1 .. Len(q)
      /\ DOMAIN u = 1 .. Len(p) + Len(q)
  BY <1>3, <1>4
<1>6. ASSUME NEW i \in Headers(u) PROVE u[i].key = ""
  <2>1. i \in 1 .. Len(p) + Len(q) /\ u[i].head # << >>
    BY <1>5 DEF Headers
  <2>2. CASE i <= Len(p)
    <3>1. i \in DOMAIN p /\ u[i] = p[i]
      BY <1>4, <1>5, <2>1, <2>2
    <3> QED BY <2>1, <3>1 DEF Headers, Text
  <2>3. CASE i > Len(p)
    <3>1. i - Len(p) \in DOMAIN q /\ Len(p) + (i - Len(p)) = i
      BY <1>5, <2>1, <2>3
    <3>2. PICK k \in DOMAIN q : u[i] = q[k]
      BY <1>4, <1>5, <3>1
    <3>3. k \in Headers(q)
      BY <2>1, <3>2 DEF Headers
    <3> QED BY <3>2, <3>3 DEF Text
  <2>4. i <= Len(p) \/ i > Len(p)
    BY <1>5, <2>1
  <2> QED BY <2>2, <2>3, <2>4
<1>7. Text(u)
  BY <1>4, <1>6 DEF Text
<1> QED BY <1>0, <1>4, <1>5, <1>7 DEF Joins

\* A line of u is one of p or one of q.
LEMMA Halves ==
  ASSUME NEW p, NEW q, NEW u, Joins(p, q, u), NEW i \in DOMAIN u
  PROVE  i \in DOMAIN p \/ \E j \in DOMAIN q : i = Len(p) + j
<1>1. i \in 1 .. Len(p) + Len(q) /\ Len(p) \in Nat /\ Len(q) \in Nat
      /\ DOMAIN p = 1 .. Len(p) /\ DOMAIN q = 1 .. Len(q)
  BY DEF Joins
<1>2. CASE i <= Len(p)
  BY <1>1, <1>2
<1>3. CASE i > Len(p)
  <2>1. i - Len(p) \in DOMAIN q /\ i = Len(p) + (i - Len(p))
    BY <1>1, <1>3
  <2> QED BY <2>1
<1> QED BY <1>1, <1>2, <1>3

LEMMA HeadersJoin ==
  ASSUME NEW p, NEW q, NEW u, Joins(p, q, u)
  PROVE  /\ \A i \in DOMAIN p : i \in Headers(u) <=> i \in Headers(p)
         /\ \A i \in DOMAIN q : Len(p) + i \in Headers(u) <=> i \in Headers(q)
         /\ Sections(u) = Sections(p) \union Sections(q)
<1>0. Headers(p) \subseteq DOMAIN p /\ Headers(q) \subseteq DOMAIN q /\ Headers(u) \subseteq DOMAIN u
  BY DEF Headers
<1>1. \A i \in DOMAIN p : u[i] = p[i] /\ i \in DOMAIN u
  BY DEF Joins
<1>2. \A i \in DOMAIN q : u[Len(p) + i] = q[i] /\ Len(p) + i \in DOMAIN u
  BY DEF Joins
<1>3. \A i \in DOMAIN p : i \in Headers(u) <=> i \in Headers(p)
  BY <1>1 DEF Headers
<1>4. \A i \in DOMAIN q : Len(p) + i \in Headers(u) <=> i \in Headers(q)
  BY <1>2 DEF Headers
<1>5. \A path : path \in Sections(u) => path \in Sections(p) \union Sections(q)
  <2> SUFFICES ASSUME NEW i \in Headers(u) PROVE u[i].head \in Sections(p) \union Sections(q)
    BY DEF Sections
  <2> QED BY <1>0, <1>1, <1>2, <1>3, <1>4, Halves DEF Sections
<1>6. \A path \in Sections(p) \union Sections(q) : path \in Sections(u)
  BY <1>0, <1>1, <1>2, <1>3, <1>4 DEF Sections
<1> QED BY <1>3, <1>4, <1>5, <1>6

LEMMA SectionsJoin ==
  ASSUME NEW p, NEW q, NEW u, Joins(p, q, u), Opens(p), Opens(q)
  PROVE  /\ \A i \in DOMAIN p : SectionAt(u, i) = SectionAt(p, i)
         /\ \A i \in DOMAIN q : SectionAt(u, Len(p) + i) = SectionAt(q, i)
<1>0. /\ Text(p) /\ Text(q) /\ Text(u) /\ Len(p) \in Nat /\ Len(q) \in Nat
      /\ DOMAIN u = 1 .. Len(p) + Len(q) /\ DOMAIN p = 1 .. Len(p) /\ DOMAIN q = 1 .. Len(q)
      /\ \A i \in DOMAIN p : u[i] = p[i]
      /\ \A i \in DOMAIN q : u[Len(p) + i] = q[i]
      /\ Headers(u) \subseteq DOMAIN u
  BY DEF Joins, Headers
<1>1. ASSUME NEW i \in DOMAIN p PROVE SectionAt(u, i) = SectionAt(p, i)
  <2>1. PICK j : OpenedAt(p, i, j)
    BY <1>0, Sectioned
  <2>2. SectionAt(p, i) = p[j].head /\ j \in DOMAIN p
    BY <1>0, <2>1, SectionOf
  <2>3. \A h \in Headers(u) : h <= i => h \in Headers(p)
    BY <1>0, HeadersJoin
  <2>4. OpenedAt(u, i, j) /\ i \in DOMAIN u
    BY <1>0, <2>1, <2>2, <2>3, HeadersJoin DEF OpenedAt
  <2> QED BY <1>0, <2>2, <2>4, SectionOf
<1>2. ASSUME NEW i \in DOMAIN q PROVE SectionAt(u, Len(p) + i) = SectionAt(q, i)
  <2>1. PICK j : OpenedAt(q, i, j)
    BY <1>0, Sectioned
  <2>2. SectionAt(q, i) = q[j].head /\ j \in DOMAIN q
    BY <1>0, <2>1, SectionOf
  <2>3. Len(p) + j \in Headers(u) /\ Len(p) + j <= Len(p) + i /\ Len(p) + i \in DOMAIN u
    BY <1>0, <1>2, <2>1, <2>2, HeadersJoin DEF OpenedAt
  <2>4. ASSUME NEW h \in Headers(u), h <= Len(p) + i PROVE h <= Len(p) + j
    <3>1. CASE h \in DOMAIN p
      BY <1>0, <2>2, <3>1
    <3>2. CASE \E k \in DOMAIN q : h = Len(p) + k
      <4>1. PICK k \in DOMAIN q : h = Len(p) + k
        BY <3>2
      <4>2. k \in Headers(q) /\ k <= i
        BY <1>0, <1>2, <2>4, <4>1, HeadersJoin
      <4>3. k <= j
        BY <2>1, <4>2 DEF OpenedAt
      <4>4. k \in Nat /\ j \in Nat
        BY <1>0, <2>2
      <4> QED BY <1>0, <4>1, <4>3, <4>4
    <3>3. h \in DOMAIN u
      BY <1>0, <2>4
    <3>4. h \in DOMAIN p \/ \E k \in DOMAIN q : h = Len(p) + k
      BY <3>3, Halves
    <3> QED BY <3>1, <3>2, <3>4
  <2>5. OpenedAt(u, Len(p) + i, Len(p) + j)
    BY <2>3, <2>4 DEF OpenedAt
  <2> QED BY <1>0, <2>2, <2>3, <2>5, SectionOf
<1> QED BY <1>1, <1>2

LEMMA FieldsJoin ==
  ASSUME NEW p, NEW q, NEW u, Joins(p, q, u), Opens(p), Opens(q),
         Sections(p) \intersect Sections(q) = {}, NEW path, NEW key
  PROVE  /\ path \in Sections(p) => FieldAt(u, path, key) = FieldAt(p, path, key)
         /\ path \notin Sections(p) =>
              \A i : i \in FieldAt(u, path, key) <=> \E j \in FieldAt(q, path, key) : i = Len(p) + j
<1>0. /\ Text(p) /\ Text(q) /\ FieldAt(u, path, key) \subseteq DOMAIN u
      /\ FieldAt(p, path, key) \subseteq DOMAIN p /\ FieldAt(q, path, key) \subseteq DOMAIN q
  BY DEF Joins, FieldAt
<1>1. \A i \in DOMAIN p : /\ i \in FieldAt(u, path, key) <=> i \in FieldAt(p, path, key)
                          /\ i \in FieldAt(u, path, key) => path \in Sections(p)
  <2> SUFFICES ASSUME NEW i \in DOMAIN p
               PROVE  /\ i \in FieldAt(u, path, key) <=> i \in FieldAt(p, path, key)
                      /\ i \in FieldAt(u, path, key) => path \in Sections(p)
    OBVIOUS
  <2>1. i \in DOMAIN u /\ u[i] = p[i]
    BY DEF Joins
  <2>2. SectionAt(u, i) = SectionAt(p, i) /\ SectionAt(p, i) \in Sections(p)
    BY <1>0, SectionsJoin, Sectioned
  <2> QED BY <2>1, <2>2 DEF FieldAt
<1>2. \A i \in DOMAIN q : /\ Len(p) + i \in FieldAt(u, path, key) <=> i \in FieldAt(q, path, key)
                          /\ i \in FieldAt(q, path, key) => path \in Sections(q)
  <2> SUFFICES ASSUME NEW i \in DOMAIN q
               PROVE  /\ Len(p) + i \in FieldAt(u, path, key) <=> i \in FieldAt(q, path, key)
                      /\ i \in FieldAt(q, path, key) => path \in Sections(q)
    OBVIOUS
  <2>1. Len(p) + i \in DOMAIN u /\ u[Len(p) + i] = q[i]
    BY DEF Joins
  <2>2. SectionAt(u, Len(p) + i) = SectionAt(q, i) /\ SectionAt(q, i) \in Sections(q)
    BY <1>0, SectionsJoin, Sectioned
  <2> QED BY <2>1, <2>2 DEF FieldAt
<1>3. \A i \in FieldAt(u, path, key) : i \in DOMAIN p \/ \E j \in DOMAIN q : i = Len(p) + j
  BY <1>0, Halves
<1>4. \A i \in DOMAIN p : i \in DOMAIN u
  BY DEF Joins
<1>5. ASSUME path \in Sections(p) PROVE FieldAt(u, path, key) = FieldAt(p, path, key)
  <2>1. \A i \in FieldAt(u, path, key) : i \in FieldAt(p, path, key)
    BY <1>1, <1>2, <1>3, <1>5
  <2> QED BY <1>0, <1>1, <2>1
<1>6. ASSUME path \notin Sections(p), NEW i
      PROVE  i \in FieldAt(u, path, key) <=> \E j \in FieldAt(q, path, key) : i = Len(p) + j
  BY <1>0, <1>1, <1>2, <1>3, <1>6
<1> QED BY <1>5, <1>6

LEMMA ValuesJoin ==
  ASSUME NEW p, NEW q, NEW u, Joins(p, q, u), Opens(p), Opens(q),
         Sections(p) \intersect Sections(q) = {}, NEW path, NEW key
  PROVE  Value(u, path, key) =
           IF path \in Sections(p) THEN Value(p, path, key) ELSE Value(q, path, key)
<1>0. /\ Text(p) /\ Text(q) /\ Text(u) /\ Len(p) \in Nat
      /\ \A i \in DOMAIN p : u[i] = p[i]
      /\ \A i \in DOMAIN q : u[Len(p) + i] = q[i]
  BY DEF Joins
<1>1. CASE path \in Sections(p)
  <2>1. FieldAt(u, path, key) = FieldAt(p, path, key)
    BY <1>1, FieldsJoin
  <2>2. FieldAt(p, path, key) \in SUBSET Nat /\ FieldAt(p, path, key) \subseteq DOMAIN p
    BY <1>0, Lines DEF FieldAt
  <2>3. FieldAt(p, path, key) # {} => Min(FieldAt(p, path, key)) \in DOMAIN p
    BY <2>2, MinIs
  <2> QED BY <1>0, <1>1, <2>1, <2>3 DEF Value
<1>2. CASE path \notin Sections(p)
  <2> DEFINE S == FieldAt(q, path, key)
             R == FieldAt(u, path, key)
  <2>1. \A i : i \in R <=> \E j \in S : i = Len(p) + j
    BY <1>2, FieldsJoin
  <2>2. S \in SUBSET Nat /\ S \subseteq DOMAIN q /\ R \in SUBSET Nat
    BY <1>0, Lines DEF FieldAt
  <2> HIDE DEF S, R
  <2>3. CASE S = {}
    <3>1. R = {}
      BY <2>1, <2>3
    <3> QED BY <1>2, <2>3, <3>1 DEF Value, S, R
  <2>4. CASE S # {}
    <3>1. Min(S) \in S /\ \A j \in S : Min(S) <= j
      BY <2>2, <2>4, MinIs
    <3>2. Len(p) + Min(S) \in R /\ \A i \in R : Len(p) + Min(S) <= i
      <4>1. PICK k \in Nat : k = Min(S)
        BY <2>2, <3>1
      <4>2. k \in S /\ \A j \in S : k <= j
        BY <3>1, <4>1
      <4>3. Len(p) + k \in R
        BY <2>1, <4>2
      <4>4. \A i \in R : Len(p) + k <= i
        <5> SUFFICES ASSUME NEW i \in R PROVE Len(p) + k <= i
          OBVIOUS
        <5>1. PICK j \in S : i = Len(p) + j
          BY <2>1
        <5>2. k <= j /\ j \in Nat
          BY <2>2, <4>2
        <5> QED BY <1>0, <5>1, <5>2
      <4> QED BY <4>1, <4>3, <4>4
    <3>3. Min(R) = Len(p) + Min(S)
      BY <2>2, <3>2, ThisMin
    <3>4. u[Min(R)] = q[Min(S)] /\ R # {}
      BY <1>0, <2>2, <3>1, <3>2, <3>3
    <3> QED BY <1>2, <2>4, <3>4 DEF Value, S, R
  <2> QED BY <2>3, <2>4
<1> QED BY <1>1, <1>2

\* So sections can be put one after the other.
LEMMA WholeJoin ==
  ASSUME NEW p, NEW q, Whole(p), Whole(q), Sections(p) \intersect Sections(q) = {}
  PROVE  /\ Whole(p \o q) /\ Sections(p \o q) = Sections(p) \union Sections(q)
         /\ \A path, key :
              Value(p \o q, path, key) =
                IF path \in Sections(p) THEN Value(p, path, key) ELSE Value(q, path, key)
<1>0. PICK u : u = p \o q
  OBVIOUS
<1>1. Joins(p, q, u) /\ Opens(p) /\ Opens(q)
  BY <1>0, Joined DEF Whole
<1>2. /\ Text(p) /\ Text(q) /\ Text(u) /\ Len(p) \in Nat /\ Len(q) \in Nat
      /\ DOMAIN u = 1 .. Len(p) + Len(q) /\ DOMAIN p = 1 .. Len(p) /\ DOMAIN q = 1 .. Len(q)
      /\ \A i \in DOMAIN p : u[i] = p[i] /\ i \in DOMAIN u
      /\ \A i \in DOMAIN q : u[Len(p) + i] = q[i] /\ Len(p) + i \in DOMAIN u
  BY <1>1 DEF Joins
<1>3. Sections(u) = Sections(p) \union Sections(q)
  BY <1>1, HeadersJoin
<1>4. \A path, key : Value(u, path, key) =
        IF path \in Sections(p) THEN Value(p, path, key) ELSE Value(q, path, key)
  BY <1>1, ValuesJoin
<1>5. Opens(u)
  <2>1. CASE p # << >>
    <3>1. 1 \in DOMAIN p
      BY <1>2, <2>1, Lines
    <3> QED BY <1>1, <1>2, <2>1, <3>1 DEF Opens
  <2>2. CASE p = << >> /\ q # << >>
    <3>1. 1 \in DOMAIN q /\ Len(p) + 1 = 1
      BY <1>2, <2>2, Lines
    <3>2. u[1] = q[1]
      BY <1>2, <3>1
    <3> QED BY <1>1, <2>2, <3>2 DEF Opens
  <2>3. CASE p = << >> /\ q = << >>
    BY <1>0, <2>3 DEF Opens
  <2> QED BY <2>1, <2>2, <2>3
<1>6. \A h \in Headers(u) : \/ h \in Headers(p) /\ u[h] = p[h]
                            \/ \E k \in Headers(q) : h = Len(p) + k /\ u[h] = q[k]
  <2> SUFFICES ASSUME NEW h \in Headers(u)
               PROVE  \/ h \in Headers(p) /\ u[h] = p[h]
                      \/ \E k \in Headers(q) : h = Len(p) + k /\ u[h] = q[k]
    OBVIOUS
  <2>1. h \in DOMAIN u
    BY DEF Headers
  <2>2. CASE h \in DOMAIN p
    <3>1. h \in Headers(p)
      BY <1>1, <2>2, HeadersJoin
    <3> QED BY <1>2, <2>2, <3>1
  <2>3. CASE \E k \in DOMAIN q : h = Len(p) + k
    <3>1. PICK k \in DOMAIN q : h = Len(p) + k
      BY <2>3
    <3>2. k \in Headers(q)
      BY <1>1, <3>1, HeadersJoin
    <3> QED BY <1>2, <3>1, <3>2
  <2> QED BY <1>1, <2>1, <2>2, <2>3, Halves
<1>7. ASSUME NEW i \in Headers(u), NEW j \in Headers(u), u[i].head = u[j].head PROVE i = j
  <2>1. \A h \in Headers(p) : p[h].head \in Sections(p) /\ p[h].head \notin Sections(q)
    BY DEF Sections
  <2>2. \A h \in Headers(q) : q[h].head \in Sections(q)
    BY DEF Sections
  <2>3. CASE i \in Headers(p) /\ u[i] = p[i]
    <3>1. j \in Headers(p) /\ u[j] = p[j]
      BY <1>6, <1>7, <2>1, <2>2, <2>3
    <3> QED BY <1>7, <2>3, <3>1 DEF Whole
  <2>4. CASE \E k \in Headers(q) : i = Len(p) + k /\ u[i] = q[k]
    <3>1. PICK k \in Headers(q) : i = Len(p) + k /\ u[i] = q[k]
      BY <2>4
    <3>2. PICK l \in Headers(q) : j = Len(p) + l /\ u[j] = q[l]
      BY <1>6, <1>7, <2>1, <2>2, <3>1
    <3>3. k = l
      BY <1>7, <3>1, <3>2 DEF Whole
    <3> QED BY <3>1, <3>2, <3>3
  <2> QED BY <1>6, <2>3, <2>4
<1>8. ASSUME NEW i \in DOMAIN u, u[i].key # ""
      PROVE  FieldAt(u, SectionAt(u, i), u[i].key) = {i}
  <2>1. CASE i \in DOMAIN p
    <3>1. u[i].key = p[i].key /\ SectionAt(u, i) = SectionAt(p, i) /\ SectionAt(p, i) \in Sections(p)
      BY <1>1, <1>2, <2>1, SectionsJoin, Sectioned
    <3>2. FieldAt(p, SectionAt(p, i), p[i].key) = {i}
      BY <1>8, <2>1, <3>1 DEF Whole
    <3> QED BY <1>1, <3>1, <3>2, FieldsJoin
  <2>2. CASE \E j \in DOMAIN q : i = Len(p) + j
    <3>1. PICK j \in DOMAIN q : i = Len(p) + j
      BY <2>2
    <3>2. u[i].key = q[j].key /\ SectionAt(u, i) = SectionAt(q, j) /\ SectionAt(q, j) \in Sections(q)
      BY <1>1, <1>2, <3>1, SectionsJoin, Sectioned
    <3>3. FieldAt(q, SectionAt(q, j), q[j].key) = {j}
      BY <1>8, <3>1, <3>2 DEF Whole
    <3>4. \A h : h \in FieldAt(u, SectionAt(u, i), u[i].key) <=> \E k \in {j} : h = Len(p) + k
      BY <1>1, <3>2, <3>3, FieldsJoin
    <3> QED BY <3>1, <3>4
  <2> QED BY <1>1, <2>1, <2>2, Halves
<1>9. ASSUME NEW path, NEW key, FieldAt(p, path, key) = {}, FieldAt(q, path, key) = {}
      PROVE  FieldAt(u, path, key) = {}
  BY <1>1, <1>9, FieldsJoin
<1>10. /\ \A path : FieldAt(u, path, "key.env") = {}
       /\ \A path \in Sections(u) : Short(path)
       /\ \A a : FieldAt(u, <<a>>, "key") = {}
  BY <1>3, <1>9 DEF Whole
<1>11. Whole(u)
  BY <1>2, <1>5, <1>7, <1>8, <1>10 DEF Whole
<1> QED BY <1>0, <1>3, <1>4, <1>11
-----------------------------------------------------------------------------
(***************************************************************************)
(* One section: a header, and lines without one.                           *)
(***************************************************************************)
Section(t, path) ==
  /\ Text(t) /\ t # << >> /\ path # << >> /\ t[1].head = path
  /\ \A i \in DOMAIN t : i # 1 => t[i].head = << >>
  /\ \A i, j \in DOMAIN t : t[i].key = t[j].key /\ t[i].key # "" => i = j

LEMMA InSection ==
  ASSUME NEW t, NEW path, Section(t, path)
  PROVE  /\ Text(t) /\ Opens(t) /\ Headers(t) = {1} /\ Sections(t) = {path}
         /\ \A i \in DOMAIN t : SectionAt(t, i) = path
<1>1. Text(t) /\ 1 \in DOMAIN t /\ Opens(t)
  BY Lines DEF Section, Opens
<1>2. Headers(t) = {1}
  BY <1>1 DEF Section, Headers
<1>3. Sections(t) = {path}
  BY <1>2 DEF Section, Sections
<1>4. \A i \in DOMAIN t : SectionAt(t, i) = path
  BY <1>1, <1>3, Sectioned
<1> QED BY <1>1, <1>2, <1>3, <1>4

LEMMA SectionFields ==
  ASSUME NEW t, NEW path, Section(t, path), NEW other, NEW key
  PROVE  /\ FieldAt(t, other, key) \subseteq DOMAIN t
         /\ (\A i \in DOMAIN t : ~(other = path /\ t[i].key = key)) => FieldAt(t, other, key) = {}
         /\ \A i : i \in FieldAt(t, other, key) <=> i \in DOMAIN t /\ other = path /\ t[i].key = key
<1>1. \A i : i \in FieldAt(t, other, key) <=> i \in DOMAIN t /\ other = path /\ t[i].key = key
  BY InSection DEF FieldAt
<1>2. ASSUME \A i \in DOMAIN t : ~(other = path /\ t[i].key = key)
      PROVE  FieldAt(t, other, key) = {}
  <2>1. \A i : i \notin FieldAt(t, other, key)
    BY <1>1, <1>2
  <2> QED BY <2>1
<1> QED BY <1>1, <1>2 DEF FieldAt

LEMMA SectionField ==
  ASSUME NEW t, NEW path, Section(t, path), NEW i \in DOMAIN t, t[i].key # ""
  PROVE  FieldAt(t, path, t[i].key) = {i}
<1>1. \A j \in DOMAIN t : t[j].key = t[i].key => j = i
  BY DEF Section
<1>2. \A j : j \in FieldAt(t, path, t[i].key) <=> j \in DOMAIN t /\ t[j].key = t[i].key
  BY SectionFields
<1>3. \A j : j \in FieldAt(t, path, t[i].key) <=> j \in {i}
  BY <1>1, <1>2
<1> QED BY <1>3

LEMMA SectionSays ==
  ASSUME NEW t, NEW path, Section(t, path)
  PROVE  /\ \A i \in DOMAIN t : t[i].key # "" => Value(t, path, t[i].key) = t[i].is
         /\ \A key : (\A i \in DOMAIN t : t[i].key # key) => Value(t, path, key) = Absent
         /\ \A other, key : other # path => Value(t, other, key) = Absent
<1>1. ASSUME NEW i \in DOMAIN t, t[i].key # "" PROVE Value(t, path, t[i].key) = t[i].is
  <2>1. FieldAt(t, path, t[i].key) = {i}
    BY <1>1, SectionField
  <2>2. i \in Nat
    BY InSection, Lines
  <2>3. Min({i}) = i
    BY <2>2, ThisMin
  <2> QED BY <2>1, <2>3 DEF Value
<1>2. ASSUME NEW key, \A i \in DOMAIN t : t[i].key # key PROVE Value(t, path, key) = Absent
  <2>1. FieldAt(t, path, key) = {}
    BY <1>2, SectionFields
  <2> QED BY <2>1 DEF Value
<1>3. ASSUME NEW other, NEW key, other # path PROVE Value(t, other, key) = Absent
  <2>1. FieldAt(t, other, key) = {}
    BY <1>3, SectionFields
  <2> QED BY <2>1 DEF Value
<1> QED BY <1>1, <1>2, <1>3

LEMMA SectionWhole ==
  ASSUME NEW t, NEW path, Section(t, path), Short(path),
         \A i \in DOMAIN t : t[i].key # "key.env",
         \A i \in DOMAIN t : t[i].key = "key" => \A a : path # <<a>>
  PROVE  Whole(t) /\ Sections(t) = {path}
<1>1. /\ Text(t) /\ Opens(t) /\ Headers(t) = {1} /\ Sections(t) = {path}
      /\ \A i \in DOMAIN t : SectionAt(t, i) = path
  BY InSection
<1>2. ASSUME NEW i \in DOMAIN t, t[i].key # ""
      PROVE  FieldAt(t, SectionAt(t, i), t[i].key) = {i}
  <2>1. SectionAt(t, i) = path
    BY <1>1
  <2> QED BY <1>2, <2>1, SectionField
<1>3. ASSUME NEW other PROVE FieldAt(t, other, "key.env") = {}
  BY SectionFields
<1>4. ASSUME NEW a PROVE FieldAt(t, <<a>>, "key") = {}
  BY SectionFields
<1> QED BY <1>1, <1>2, <1>3, <1>4 DEF Whole
-----------------------------------------------------------------------------
(***************************************************************************)
(* The sections that setup writes.                                         *)
(***************************************************************************)
LEMMA Two == ASSUME NEW R, NEW a \in R, NEW b \in R
  PROVE  <<a, b>> \in Seq(R) /\ Len(<<a, b>>) = 2 /\ <<a, b>>[1] = a /\ <<a, b>>[2] = b
OBVIOUS

LEMMA One == ASSUME NEW R, NEW a \in R
  PROVE  <<a>> \in Seq(R) /\ Len(<<a>>) = 1 /\ <<a>>[1] = a
OBVIOUS

\* A model's section: two lines, then those that say how it is served, then two.
Around(u, a, b, s, y, z) == u = <<a, b>> \o s \o <<y, z>>
Framed(u, a, b, s, y, z) ==
  /\ (\E Q : u \in Seq(Q)) /\ Len(u) = Len(s) + 4 /\ u[1] = a /\ u[2] = b
  /\ \A i \in 1 .. Len(s) : u[2 + i] = s[i]
  /\ u[Len(s) + 3] = y /\ u[Len(s) + 4] = z
LEMMA LinesAround ==
  ASSUME NEW u, NEW a, NEW b, NEW s, NEW y, NEW z, Around(u, a, b, s, y, z),
         \E S : s \in Seq(S)
  PROVE  Framed(u, a, b, s, y, z)
<1> PICK S : s \in Seq(S)
  OBVIOUS
<1> DEFINE R == S \union {a, b, y, z}
<1>0. a \in R /\ b \in R /\ y \in R /\ z \in R /\ s \in Seq(R)
  OBVIOUS
<1> HIDE DEF R
<1>1. PICK x : x = <<a, b>> \o s
  OBVIOUS
<1>2. Len(s) \in Nat /\ <<a, b>> \in Seq(R) /\ <<y, z>> \in Seq(R)
      /\ Len(<<a, b>>) = 2 /\ Len(<<y, z>>) = 2
  BY <1>0
<1>3. /\ x \in Seq(R) /\ Len(x) = 2 + Len(s)
      /\ \A i \in 1 .. 2 : x[i] = <<a, b>>[i]
      /\ \A i \in 1 .. Len(s) : x[2 + i] = s[i]
  <2>1. /\ x \in Seq(R) /\ Len(x) = Len(<<a, b>>) + Len(s)
        /\ \A i \in 1 .. Len(<<a, b>>) : x[i] = <<a, b>>[i]
        /\ \A i \in 1 .. Len(s) : x[Len(<<a, b>>) + i] = s[i]
    BY <1>0, <1>1, <1>2, Concat
  <2> QED BY <1>2, <2>1
<1>4. u = x \o <<y, z>>
  BY <1>1 DEF Around
<1>5. /\ u \in Seq(R) /\ Len(u) = Len(x) + Len(<<y, z>>)
      /\ \A i \in 1 .. Len(x) : u[i] = x[i]
      /\ \A i \in 1 .. Len(<<y, z>>) : u[Len(x) + i] = <<y, z>>[i]
  BY <1>2, <1>3, <1>4, Concat
<1>6. x[1] = a /\ x[2] = b
  BY <1>3
<1>7. u[1] = a /\ u[2] = b /\ \A i \in 1 .. Len(s) : u[2 + i] = s[i]
  BY <1>2, <1>3, <1>5, <1>6
<1>8. u[Len(x) + 1] = y /\ u[Len(x) + 2] = z
  BY <1>2, <1>5
<1>9. Len(x) + 1 = Len(s) + 3 /\ Len(x) + 2 = Len(s) + 4 /\ Len(u) = Len(s) + 4
  BY <1>2, <1>3, <1>5
<1> QED BY <1>5, <1>7, <1>8, <1>9 DEF Framed
-----------------------------------------------------------------------------
(***************************************************************************)
(* Few things, one after the other: three models at most, and two names.   *)
(***************************************************************************)
LEMMA FlatFew ==
  ASSUME NEW seqs, NEW n \in 1 .. 3, Len(seqs) = n
  PROVE  /\ n = 1 => FlattenSeq(seqs) = seqs[1]
         /\ n = 2 => FlattenSeq(seqs) = seqs[1] \o seqs[2]
         /\ n = 3 => FlattenSeq(seqs) = (seqs[1] \o seqs[2]) \o seqs[3]
<1> DEFINE G == [i \in 1 .. n |-> IF i = 1 THEN seqs[1] ELSE IF i = 2 THEN seqs[1] \o seqs[2]
                                  ELSE (seqs[1] \o seqs[2]) \o seqs[3]]
           P(f) == f = [i \in 1 .. n |-> IF i = 1 THEN seqs[i] ELSE f[i - 1] \o seqs[i]]
           F == CHOOSE f : P(f)
<1>1. P(G)
  <2>1. \A i \in 1 .. n : G[i] = IF i = 1 THEN seqs[i] ELSE G[i - 1] \o seqs[i]
    OBVIOUS
  <2> QED BY <2>1
<1>2. P(F)
  <2> HIDE DEF P, G
  <2> QED BY <1>1
<1>3. FlattenSeq(seqs) = F[n]
  BY DEF FlattenSeq
<1>4. \A i \in 1 .. n : F[i] = IF i = 1 THEN seqs[i] ELSE F[i - 1] \o seqs[i]
  <2> HIDE DEF F
  <2> QED BY <1>2
<1> HIDE DEF F, P, G
<1>5. F[1] = seqs[1]
  BY <1>4
<1>6. \A i, j \in 1 .. n : i = j + 1 => F[i] = F[j] \o seqs[i]
  <2> SUFFICES ASSUME NEW i \in 1 .. n, NEW j \in 1 .. n, i = j + 1
               PROVE  F[i] = F[j] \o seqs[i]
    OBVIOUS
  <2>1. i # 1 /\ i - 1 = j
    OBVIOUS
  <2> QED BY <1>4, <2>1
<1>7. ASSUME n >= 2 PROVE F[2] = seqs[1] \o seqs[2]
  <2>1. 1 \in 1 .. n /\ 2 \in 1 .. n /\ 2 = 1 + 1
    BY <1>7
  <2> QED BY <1>5, <1>6, <2>1
<1>8. ASSUME n = 3 PROVE F[3] = (seqs[1] \o seqs[2]) \o seqs[3]
  <2>1. 2 \in 1 .. n /\ 3 \in 1 .. n /\ 3 = 2 + 1 /\ n >= 2
    BY <1>8
  <2> QED BY <1>6, <1>7, <2>1
<1>9. n = 1 \/ n = 2 \/ n = 3
  OBVIOUS
<1>10. CASE n = 1  BY <1>3, <1>5, <1>10
<1>11. CASE n = 2  BY <1>3, <1>7, <1>11
<1>12. CASE n = 3  BY <1>3, <1>8, <1>12
<1> QED BY <1>9, <1>10, <1>11, <1>12

LEMMA NoneFlat == FlattenSeq(<< >>) = << >>
  BY DEF FlattenSeq

LEMMA NamesFew ==
  ASSUME NEW names, NEW n \in 0 .. 2, Len(names) = n, \A i \in 1 .. n : names[i] # "rules-only"
  PROVE  /\ n = 0 => ModelsIn(names) = << >>
         /\ n = 1 => ModelsIn(names) = << >> \o <<names[1]>>
         /\ n = 2 => ModelsIn(names) = (<< >> \o <<names[1]>>) \o <<names[2]>>
<1> DEFINE G == [i \in 0 .. n |-> IF i = 0 THEN << >> ELSE IF i = 1 THEN << >> \o <<names[1]>>
                                  ELSE (<< >> \o <<names[1]>>) \o <<names[2]>>]
           P(f) == f = [i \in 0 .. n |->
                          IF i = 0 THEN << >>
                          ELSE f[i - 1] \o (IF names[i] = "rules-only" THEN << >> ELSE <<names[i]>>)]
           F == CHOOSE f : P(f)
<1>1. P(G)
  <2>1. \A i \in 0 .. n :
          G[i] = IF i = 0 THEN << >>
                 ELSE G[i - 1] \o (IF names[i] = "rules-only" THEN << >> ELSE <<names[i]>>)
    <3> SUFFICES ASSUME NEW i \in 0 .. n
                 PROVE  G[i] = IF i = 0 THEN << >>
                               ELSE G[i - 1] \o (IF names[i] = "rules-only" THEN << >>
                                                 ELSE <<names[i]>>)
      OBVIOUS
    <3>1. CASE i = 0
      BY <3>1
    <3>2. CASE i = 1
      <4>1. G[0] = << >> /\ G[1] = << >> \o <<names[1]>>
        BY <3>2
      <4>2. names[1] # "rules-only" /\ i - 1 = 0
        BY <3>2
      <4> HIDE DEF G
      <4> QED BY <3>2, <4>1, <4>2
    <3>3. CASE i = 2
      <4>1. G[1] = << >> \o <<names[1]>> /\ G[2] = (<< >> \o <<names[1]>>) \o <<names[2]>>
        BY <3>3
      <4>2. names[2] # "rules-only" /\ i - 1 = 1 /\ i # 0
        BY <3>3
      <4> HIDE DEF G
      <4> QED BY <3>3, <4>1, <4>2, Zenon
    <3> QED BY <3>1, <3>2, <3>3
  <2> QED BY <2>1
<1>2. P(F)
  <2> HIDE DEF P, G
  <2> QED BY <1>1
<1>3. ModelsIn(names) = F[n]
  BY DEF ModelsIn
<1>4. \A i \in 0 .. n :
        F[i] = IF i = 0 THEN << >>
               ELSE F[i - 1] \o (IF names[i] = "rules-only" THEN << >> ELSE <<names[i]>>)
  <2> HIDE DEF F
  <2> QED BY <1>2
<1> HIDE DEF F, P, G
<1>5. F[0] = << >>
  <2>1. 0 \in 0 .. n
    OBVIOUS
  <2> QED BY <1>4, <2>1
<1>6. \A i \in 1 .. n, j \in 0 .. n : i = j + 1 => F[i] = F[j] \o <<names[i]>>
  <2> SUFFICES ASSUME NEW i \in 1 .. n, NEW j \in 0 .. n, i = j + 1
               PROVE  F[i] = F[j] \o <<names[i]>>
    OBVIOUS
  <2>1. i \in 0 .. n /\ i # 0 /\ i - 1 = j /\ names[i] # "rules-only"
    OBVIOUS
  <2> QED BY <1>4, <2>1
<1>7. ASSUME n >= 1 PROVE F[1] = << >> \o <<names[1]>>
  <2>1. 0 \in 0 .. n /\ 1 \in 1 .. n /\ 1 = 0 + 1
    BY <1>7
  <2> QED BY <1>5, <1>6, <2>1
<1>8. ASSUME n = 2 PROVE F[2] = (<< >> \o <<names[1]>>) \o <<names[2]>>
  <2>1. 1 \in 0 .. n /\ 2 \in 1 .. n /\ 2 = 1 + 1 /\ n >= 1
    BY <1>8
  <2> QED BY <1>6, <1>7, <2>1
<1>9. n = 0 \/ n = 1 \/ n = 2
  OBVIOUS
<1>10. CASE n = 0  BY <1>3, <1>5, <1>10
<1>11. CASE n = 1  BY <1>3, <1>7, <1>11
<1>12. CASE n = 2  BY <1>3, <1>8, <1>12
<1> QED BY <1>9, <1>10, <1>11, <1>12

LEMMA NamesAre ==
  ASSUME NEW names
  PROVE  /\ Len(names) = 0 => ModelsIn(names) = << >>
         /\ Len(names) = 1 /\ names[1] # "rules-only" => ModelsIn(names) = << >> \o <<names[1]>>
         /\ Len(names) = 2 /\ names[1] # "rules-only" /\ names[2] # "rules-only" =>
              ModelsIn(names) = (<< >> \o <<names[1]>>) \o <<names[2]>>
<1>1. ASSUME Len(names) = 0 PROVE ModelsIn(names) = << >>
  <2>1. 0 \in 0 .. 2 /\ \A i \in 1 .. 0 : names[i] # "rules-only"
    OBVIOUS
  <2> QED BY <1>1, <2>1, NamesFew
<1>2. ASSUME Len(names) = 1, names[1] # "rules-only"
      PROVE  ModelsIn(names) = << >> \o <<names[1]>>
  <2>1. 1 \in 0 .. 2 /\ \A i \in 1 .. 1 : names[i] # "rules-only"
    BY <1>2
  <2> QED BY <1>2, <2>1, NamesFew
<1>3. ASSUME Len(names) = 2, names[1] # "rules-only", names[2] # "rules-only"
      PROVE  ModelsIn(names) = (<< >> \o <<names[1]>>) \o <<names[2]>>
  <2>1. 2 \in 0 .. 2 /\ \A i \in 1 .. 2 : names[i] # "rules-only"
    BY <1>3
  <2> QED BY <1>3, <2>1, NamesFew
<1> QED BY <1>1, <1>2, <1>3
-----------------------------------------------------------------------------
(***************************************************************************)
(* The three models that answers may name, as sections.                    *)
(***************************************************************************)
Three(s, m, w, k) == s = <<m>> \o <<w>> \o <<k>>
LEMMA ThreeLines ==
  ASSUME NEW m, NEW w, NEW k, NEW s, Three(s, m, w, k)
  PROVE  (\E S : s \in Seq(S)) /\ Len(s) = 3 /\ s[1] = m /\ s[2] = w /\ s[3] = k
<1> DEFINE R == {m, w, k}
<1>0. m \in R /\ w \in R /\ k \in R
  OBVIOUS
<1> HIDE DEF R
<1>1. PICK x : x = <<m>> \o <<w>>
  OBVIOUS
<1>2. /\ <<m>> \in Seq(R) /\ Len(<<m>>) = 1 /\ <<m>>[1] = m
      /\ <<w>> \in Seq(R) /\ Len(<<w>>) = 1 /\ <<w>>[1] = w
      /\ <<k>> \in Seq(R) /\ Len(<<k>>) = 1 /\ <<k>>[1] = k
  BY <1>0, One
<1>3. /\ x \in Seq(R) /\ Len(x) = 1 + 1
      /\ \A i \in 1 .. 1 : x[i] = <<m>>[i]
      /\ \A i \in 1 .. 1 : x[1 + i] = <<w>>[i]
  <2>1. /\ x \in Seq(R) /\ Len(x) = Len(<<m>>) + Len(<<w>>)
        /\ \A i \in 1 .. Len(<<m>>) : x[i] = <<m>>[i]
        /\ \A i \in 1 .. Len(<<w>>) : x[Len(<<m>>) + i] = <<w>>[i]
    BY <1>1, <1>2, Concat
  <2> QED BY <1>2, <2>1
<1>4. s = x \o <<k>>
  BY <1>1 DEF Three
<1>5. /\ s \in Seq(R) /\ Len(s) = Len(x) + 1
      /\ \A i \in 1 .. Len(x) : s[i] = x[i]
      /\ \A i \in 1 .. 1 : s[Len(x) + i] = <<k>>[i]
  BY <1>2, <1>3, <1>4, Concat
<1>6. Len(x) = 2
  BY <1>3
<1>7. x[1] = m
  BY <1>2, <1>3
<1>8. x[1 + 1] = w
  BY <1>2, <1>3
<1>9. s[2 + 1] = k
  BY <1>2, <1>5, <1>6
<1>10. s[1] = x[1] /\ s[2] = x[2] /\ Len(s) = 3
  <2>1. 1 \in 1 .. Len(x) /\ 2 \in 1 .. Len(x) /\ Len(x) + 1 = 3
    BY <1>6
  <2> QED BY <1>5, <2>1
<1>11. s[1] = m /\ s[2] = w
  <2>1. x[2] = w
    BY <1>8
  <2> QED BY <1>7, <1>10, <2>1
<1>12. s[3] = k
  BY <1>9
<1> QED BY <1>5, <1>10, <1>11, <1>12

TwoOfThree(s, m, w) == s = <<m>> \o <<w>> \o << >>
LEMMA TwoLines ==
  ASSUME NEW m, NEW w, NEW s, TwoOfThree(s, m, w)
  PROVE  (\E S : s \in Seq(S)) /\ Len(s) = 2 /\ s[1] = m /\ s[2] = w
<1> DEFINE R == {m, w}
<1>0. m \in R /\ w \in R
  OBVIOUS
<1> HIDE DEF R
<1>1. PICK x : x = <<m>> \o <<w>>
  OBVIOUS
<1>2. /\ <<m>> \in Seq(R) /\ Len(<<m>>) = 1 /\ <<m>>[1] = m
      /\ <<w>> \in Seq(R) /\ Len(<<w>>) = 1 /\ <<w>>[1] = w
      /\ << >> \in Seq(R) /\ Len(<< >>) = 0
  BY <1>0, One
<1>3. /\ x \in Seq(R) /\ Len(x) = 1 + 1
      /\ \A i \in 1 .. 1 : x[i] = <<m>>[i]
      /\ \A i \in 1 .. 1 : x[1 + i] = <<w>>[i]
  <2>1. /\ x \in Seq(R) /\ Len(x) = Len(<<m>>) + Len(<<w>>)
        /\ \A i \in 1 .. Len(<<m>>) : x[i] = <<m>>[i]
        /\ \A i \in 1 .. Len(<<w>>) : x[Len(<<m>>) + i] = <<w>>[i]
    BY <1>1, <1>2, Concat
  <2> QED BY <1>2, <2>1
<1>4. s = x \o << >>
  BY <1>1 DEF TwoOfThree
<1>5. /\ s \in Seq(R) /\ Len(s) = Len(x) + 0
      /\ \A i \in 1 .. Len(x) : s[i] = x[i]
  BY <1>2, <1>3, <1>4, Concat
<1>6. Len(x) = 2
  BY <1>3
<1>7. x[1] = m
  BY <1>2, <1>3
<1>8. x[1 + 1] = w
  BY <1>2, <1>3
<1>10. s[1] = x[1] /\ s[2] = x[2] /\ Len(s) = 2
  BY <1>5, <1>6
<1>11. s[1] = m /\ s[2] = w
  <2>1. x[2] = w
    BY <1>8
  <2> QED BY <1>7, <1>10, <2>1
<1> QED BY <1>5, <1>10, <1>11

-----------------------------------------------------------------------------
(***************************************************************************)
(* The sections that setup writes, line by line.                           *)
(***************************************************************************)
Has(l, head, key, is) == l.head = head /\ l.key = key /\ l.is = is

\* One section that parses and holds nothing but these fields.
Holding(u, path, keys) ==
  /\ Whole(u) /\ Sections(u) = {path}
  /\ \A key : key \notin keys /\ key # "" => Value(u, path, key) = Absent
  /\ \A other, key : other # path => Value(u, other, key) = Absent

LEMMA HeaderHas == ASSUME NEW l, NEW x, l = Header(x) PROVE Has(l, x, "", Absent)
  BY DEF Has, Header

LEMMA FieldHas == ASSUME NEW l, NEW y, NEW z, l = Field(y, z) PROVE Has(l, << >>, y, z)
  BY DEF Has, Field

LEMMA BlankHas == ASSUME NEW l, l = Blank PROVE Has(l, << >>, "", Absent)
  BY DEF Has, Blank

LEMMA Filled == ASSUME NEW S, NEW u \in Seq(S), Len(u) > 0 PROVE u # << >>
  OBVIOUS

LEMMA Sectional ==
  ASSUME NEW u, \E S : u \in Seq(S), Len(u) > 0,
         NEW path, path # << >>, Has(u[1], path, "", Absent),
         \A i \in DOMAIN u : i # 1 => u[i].head = << >>,
         \A i, j \in DOMAIN u : u[i].key = u[j].key /\ u[i].key # "" => i = j
  PROVE  Section(u, path)
<1>1. u # << >>
  <2>1. PICK S : u \in Seq(S)
    OBVIOUS
  <2> QED BY <2>1, Filled
<1>2. ASSUME NEW i \in Headers(u) PROVE u[i].key = ""
  <2>1. i \in DOMAIN u /\ u[i].head # << >>
    BY DEF Headers
  <2>2. i = 1
    BY <2>1
  <2> QED BY <2>2 DEF Has
<1>3. Text(u)
  BY <1>2 DEF Text
<1> QED BY <1>1, <1>3 DEF Section, Has

LEMMA SectionHolds ==
  ASSUME NEW u, NEW path, Section(u, path), Short(path), NEW keys,
         \A i \in DOMAIN u : u[i].key = "" \/ u[i].key \in keys,
         "key.env" \notin keys, "key" \in keys => \A a : path # <<a>>
  PROVE  Holding(u, path, keys)
<1>1. \A i \in DOMAIN u : u[i].key # "key.env" /\ (u[i].key = "key" => \A a : path # <<a>>)
  OBVIOUS
<1>2. Whole(u) /\ Sections(u) = {path}
  BY <1>1, SectionWhole
<1>3. ASSUME NEW key, key \notin keys, key # "" PROVE Value(u, path, key) = Absent
  <2>1. \A i \in DOMAIN u : u[i].key # key
    BY <1>3
  <2> QED BY <2>1, SectionSays
<1>4. \A other, key : other # path => Value(u, other, key) = Absent
  BY SectionSays
<1> QED BY <1>2, <1>3, <1>4 DEF Holding

LEMMA SaysThere ==
  \A u, path : Section(u, path) =>
    \A i \in DOMAIN u : \A key, is :
      Has(u[i], << >>, key, is) /\ key # "" => Value(u, path, key) = is
<1> SUFFICES ASSUME NEW u, NEW path, Section(u, path), NEW i \in DOMAIN u, NEW key, NEW is,
                    Has(u[i], << >>, key, is), key # ""
             PROVE  Value(u, path, key) = is
  OBVIOUS
<1>1. u[i].key = key /\ u[i].is = is
  BY DEF Has
<1> QED BY <1>1, SectionSays

AgentLine(u, m, p, s, z) ==
  /\ (\E S : u \in Seq(S)) /\ Len(u) = 5
  /\ u[1] = Header(TableOf(m)) /\ u[2] = Field("provider", p) /\ u[3] = Field("command", s)
  /\ u[4] = Field("tier", z) /\ u[5] = Blank
LEMMA AgentLines ==
  ASSUME NEW u, NEW m, NEW p, NEW s, NEW z, AgentLine(u, m, p, s, z)
  PROVE  /\ Holding(u, TableOf(m), {"provider", "command", "tier"})
         /\ Value(u, TableOf(m), "provider") = p
         /\ Value(u, TableOf(m), "command") = s
         /\ Value(u, TableOf(m), "tier") = z
<1>1. /\ DOMAIN u = 1 .. 5
      /\ \A i \in DOMAIN u : i = 1 \/ i = 2 \/ i = 3 \/ i = 4 \/ i = 5
  BY DEF AgentLine
<1>2. Has(u[1], TableOf(m), "", Absent)  BY HeaderHas DEF AgentLine
<1>3. Has(u[2], << >>, "provider", p)  BY FieldHas DEF AgentLine
<1>4. Has(u[3], << >>, "command", s)  BY FieldHas DEF AgentLine
<1>5. Has(u[4], << >>, "tier", z)  BY FieldHas DEF AgentLine
<1>6. Has(u[5], << >>, "", Absent)  BY BlankHas DEF AgentLine
<1>7. \A i \in DOMAIN u : i # 1 => u[i].head = << >>
  BY <1>1, <1>2, <1>3, <1>4, <1>5, <1>6 DEF Has
<1>8. \A i, j \in DOMAIN u : u[i].key = u[j].key /\ u[i].key # "" => i = j
  BY <1>1, <1>2, <1>3, <1>4, <1>5, <1>6 DEF Has
<1>9. \A i \in DOMAIN u : u[i].key = "" \/ u[i].key \in {"provider", "command", "tier"}
  BY <1>1, <1>2, <1>3, <1>4, <1>5, <1>6 DEF Has
<1>10. Short(TableOf(m)) /\ TableOf(m) # << >> /\ \A a : TableOf(m) # <<a>>
  BY DEF Short, TableOf
<1>11. Len(u) > 0 /\ \E S : u \in Seq(S)
  BY DEF AgentLine
<1>12. Section(u, TableOf(m))
  BY <1>2, <1>7, <1>8, <1>10, <1>11, Sectional
<1>13. Holding(u, TableOf(m), {"provider", "command", "tier"})
  BY <1>9, <1>10, <1>12, SectionHolds
<1>14. \A i \in DOMAIN u : \A key, is :
         Has(u[i], << >>, key, is) /\ key # "" => Value(u, TableOf(m), key) = is
  BY <1>12, SaysThere
<1>15. Value(u, TableOf(m), "provider") = p
  <2>1. 2 \in DOMAIN u /\ "provider" # ""  BY <1>1
  <2> QED BY <1>3, <1>14, <2>1
<1>16. Value(u, TableOf(m), "command") = s
  <2>1. 3 \in DOMAIN u /\ "command" # ""  BY <1>1
  <2> QED BY <1>4, <1>14, <2>1
<1>17. Value(u, TableOf(m), "tier") = z
  <2>1. 4 \in DOMAIN u /\ "tier" # ""  BY <1>1
  <2> QED BY <1>5, <1>14, <2>1
<1> QED BY <1>13, <1>15, <1>16, <1>17

LocalLine(u, m, p, s, w, z) ==
  /\ (\E S : u \in Seq(S)) /\ Len(u) = 6
  /\ u[1] = Header(TableOf(m)) /\ u[2] = Field("provider", p) /\ u[3] = Field("model", s)
  /\ u[4] = Field("base_url", w) /\ u[5] = Field("tier", z) /\ u[6] = Blank
LEMMA LocalLines ==
  ASSUME NEW u, NEW m, NEW p, NEW s, NEW w, NEW z, LocalLine(u, m, p, s, w, z)
  PROVE  /\ Holding(u, TableOf(m), {"provider", "model", "base_url", "tier"})
         /\ Value(u, TableOf(m), "provider") = p
         /\ Value(u, TableOf(m), "model") = s
         /\ Value(u, TableOf(m), "base_url") = w
         /\ Value(u, TableOf(m), "tier") = z
<1>1. /\ DOMAIN u = 1 .. 6
      /\ \A i \in DOMAIN u : i = 1 \/ i = 2 \/ i = 3 \/ i = 4 \/ i = 5 \/ i = 6
  BY DEF LocalLine
<1>2. Has(u[1], TableOf(m), "", Absent)  BY HeaderHas DEF LocalLine
<1>3. Has(u[2], << >>, "provider", p)  BY FieldHas DEF LocalLine
<1>4. Has(u[3], << >>, "model", s)  BY FieldHas DEF LocalLine
<1>5. Has(u[4], << >>, "base_url", w)  BY FieldHas DEF LocalLine
<1>6. Has(u[5], << >>, "tier", z)  BY FieldHas DEF LocalLine
<1>7. Has(u[6], << >>, "", Absent)  BY BlankHas DEF LocalLine
<1>8. \A i \in DOMAIN u : i # 1 => u[i].head = << >>
  BY <1>1, <1>2, <1>3, <1>4, <1>5, <1>6, <1>7 DEF Has
<1>9. \A i, j \in DOMAIN u : u[i].key = u[j].key /\ u[i].key # "" => i = j
  BY <1>1, <1>2, <1>3, <1>4, <1>5, <1>6, <1>7 DEF Has
<1>10. \A i \in DOMAIN u : u[i].key = "" \/ u[i].key \in {"provider", "model", "base_url", "tier"}
  BY <1>1, <1>2, <1>3, <1>4, <1>5, <1>6, <1>7 DEF Has
<1>11. Short(TableOf(m)) /\ TableOf(m) # << >> /\ \A a : TableOf(m) # <<a>>
  BY DEF Short, TableOf
<1>12. Len(u) > 0 /\ \E S : u \in Seq(S)
  BY DEF LocalLine
<1>13. Section(u, TableOf(m))
  BY <1>2, <1>8, <1>9, <1>11, <1>12, Sectional
<1>14. Holding(u, TableOf(m), {"provider", "model", "base_url", "tier"})
  BY <1>10, <1>11, <1>13, SectionHolds
<1>15. \A i \in DOMAIN u : \A key, is :
         Has(u[i], << >>, key, is) /\ key # "" => Value(u, TableOf(m), key) = is
  BY <1>13, SaysThere
<1>16. Value(u, TableOf(m), "provider") = p
  <2>1. 2 \in DOMAIN u /\ "provider" # ""  BY <1>1
  <2> QED BY <1>3, <1>15, <2>1
<1>17. Value(u, TableOf(m), "model") = s
  <2>1. 3 \in DOMAIN u /\ "model" # ""  BY <1>1
  <2> QED BY <1>4, <1>15, <2>1
<1>18. Value(u, TableOf(m), "base_url") = w
  <2>1. 4 \in DOMAIN u /\ "base_url" # ""  BY <1>1
  <2> QED BY <1>5, <1>15, <2>1
<1>19. Value(u, TableOf(m), "tier") = z
  <2>1. 5 \in DOMAIN u /\ "tier" # ""  BY <1>1
  <2> QED BY <1>6, <1>15, <2>1
<1> QED BY <1>14, <1>16, <1>17, <1>18, <1>19

CloudLine(u, m, p, s, w, k, z) ==
  /\ (\E S : u \in Seq(S)) /\ Len(u) = 7
  /\ u[1] = Header(TableOf(m)) /\ u[2] = Field("provider", p) /\ u[3] = Field("model", s)
  /\ u[4] = Field("base_url", w) /\ u[5] = Field("key", k) /\ u[6] = Field("tier", z)
  /\ u[7] = Blank
LEMMA CloudLines ==
  ASSUME NEW u, NEW m, NEW p, NEW s, NEW w, NEW k, NEW z, CloudLine(u, m, p, s, w, k, z)
  PROVE  /\ Holding(u, TableOf(m), {"provider", "model", "base_url", "key", "tier"})
         /\ Value(u, TableOf(m), "provider") = p
         /\ Value(u, TableOf(m), "model") = s
         /\ Value(u, TableOf(m), "base_url") = w
         /\ Value(u, TableOf(m), "key") = k
         /\ Value(u, TableOf(m), "tier") = z
<1>1. /\ DOMAIN u = 1 .. 7
      /\ \A i \in DOMAIN u : i = 1 \/ i = 2 \/ i = 3 \/ i = 4 \/ i = 5 \/ i = 6 \/ i = 7
  BY DEF CloudLine
<1>2. Has(u[1], TableOf(m), "", Absent)  BY HeaderHas DEF CloudLine
<1>3. Has(u[2], << >>, "provider", p)  BY FieldHas DEF CloudLine
<1>4. Has(u[3], << >>, "model", s)  BY FieldHas DEF CloudLine
<1>5. Has(u[4], << >>, "base_url", w)  BY FieldHas DEF CloudLine
<1>6. Has(u[5], << >>, "key", k)  BY FieldHas DEF CloudLine
<1>7. Has(u[6], << >>, "tier", z)  BY FieldHas DEF CloudLine
<1>8. Has(u[7], << >>, "", Absent)  BY BlankHas DEF CloudLine
<1>9. \A i \in DOMAIN u : i # 1 => u[i].head = << >>
  BY <1>1, <1>2, <1>3, <1>4, <1>5, <1>6, <1>7, <1>8 DEF Has
<1>10. \A i, j \in DOMAIN u : u[i].key = u[j].key /\ u[i].key # "" => i = j
  BY <1>1, <1>2, <1>3, <1>4, <1>5, <1>6, <1>7, <1>8 DEF Has
<1>11. \A i \in DOMAIN u : \/ u[i].key = ""
                          \/ u[i].key \in {"provider", "model", "base_url", "key", "tier"}
  BY <1>1, <1>2, <1>3, <1>4, <1>5, <1>6, <1>7, <1>8 DEF Has
<1>12. Short(TableOf(m)) /\ TableOf(m) # << >> /\ \A a : TableOf(m) # <<a>>
  BY DEF Short, TableOf
<1>13. Len(u) > 0 /\ \E S : u \in Seq(S)
  BY DEF CloudLine
<1>14. Section(u, TableOf(m))
  BY <1>2, <1>9, <1>10, <1>12, <1>13, Sectional
<1>15. Holding(u, TableOf(m), {"provider", "model", "base_url", "key", "tier"})
  BY <1>11, <1>12, <1>14, SectionHolds
<1>16. \A i \in DOMAIN u : \A key, is :
         Has(u[i], << >>, key, is) /\ key # "" => Value(u, TableOf(m), key) = is
  BY <1>14, SaysThere
<1>17. Value(u, TableOf(m), "provider") = p
  <2>1. 2 \in DOMAIN u /\ "provider" # ""  BY <1>1
  <2> QED BY <1>3, <1>16, <2>1
<1>18. Value(u, TableOf(m), "model") = s
  <2>1. 3 \in DOMAIN u /\ "model" # ""  BY <1>1
  <2> QED BY <1>4, <1>16, <2>1
<1>19. Value(u, TableOf(m), "base_url") = w
  <2>1. 4 \in DOMAIN u /\ "base_url" # ""  BY <1>1
  <2> QED BY <1>5, <1>16, <2>1
<1>20. Value(u, TableOf(m), "key") = k
  <2>1. 5 \in DOMAIN u /\ "key" # ""  BY <1>1
  <2> QED BY <1>6, <1>16, <2>1
<1>21. Value(u, TableOf(m), "tier") = z
  <2>1. 6 \in DOMAIN u /\ "tier" # ""  BY <1>1
  <2> QED BY <1>7, <1>16, <2>1
<1> QED BY <1>15, <1>17, <1>18, <1>19, <1>20, <1>21

RoutingLine(u, x, y, z) ==
  /\ (\E S : u \in Seq(S)) /\ Len(u) = 5
  /\ u[1] = Header(<<"routing">>) /\ u[2] = Field("quick_fix", x) /\ u[3] = Field("explain", y)
  /\ u[4] = Field("investigate", z) /\ u[5] = Blank
LEMMA RoutingLines ==
  ASSUME NEW u, NEW x, NEW y, NEW z, RoutingLine(u, x, y, z)
  PROVE  /\ Holding(u, <<"routing">>, {"quick_fix", "explain", "investigate"})
         /\ Value(u, <<"routing">>, "quick_fix") = x
         /\ Value(u, <<"routing">>, "explain") = y
         /\ Value(u, <<"routing">>, "investigate") = z
<1>1. /\ DOMAIN u = 1 .. 5
      /\ \A i \in DOMAIN u : i = 1 \/ i = 2 \/ i = 3 \/ i = 4 \/ i = 5
  BY DEF RoutingLine
<1>2. Has(u[1], <<"routing">>, "", Absent)  BY HeaderHas DEF RoutingLine
<1>3. Has(u[2], << >>, "quick_fix", x)  BY FieldHas DEF RoutingLine
<1>4. Has(u[3], << >>, "explain", y)  BY FieldHas DEF RoutingLine
<1>5. Has(u[4], << >>, "investigate", z)  BY FieldHas DEF RoutingLine
<1>6. Has(u[5], << >>, "", Absent)  BY BlankHas DEF RoutingLine
<1>7. \A i \in DOMAIN u : i # 1 => u[i].head = << >>
  BY <1>1, <1>2, <1>3, <1>4, <1>5, <1>6 DEF Has
<1>8. \A i, j \in DOMAIN u : u[i].key = u[j].key /\ u[i].key # "" => i = j
  BY <1>1, <1>2, <1>3, <1>4, <1>5, <1>6 DEF Has
<1>9. \A i \in DOMAIN u : u[i].key = "" \/ u[i].key \in {"quick_fix", "explain", "investigate"}
  BY <1>1, <1>2, <1>3, <1>4, <1>5, <1>6 DEF Has
<1>10. Short(<<"routing">>) /\ <<"routing">> # << >>
  BY DEF Short
<1>11. Len(u) > 0 /\ \E S : u \in Seq(S)
  BY DEF RoutingLine
<1>12. Section(u, <<"routing">>)
  BY <1>2, <1>7, <1>8, <1>10, <1>11, Sectional
<1>13. Holding(u, <<"routing">>, {"quick_fix", "explain", "investigate"})
  BY <1>9, <1>10, <1>12, SectionHolds
<1>14. \A i \in DOMAIN u : \A key, is :
         Has(u[i], << >>, key, is) /\ key # "" => Value(u, <<"routing">>, key) = is
  BY <1>12, SaysThere
<1>15. Value(u, <<"routing">>, "quick_fix") = x
  <2>1. 2 \in DOMAIN u /\ "quick_fix" # ""  BY <1>1
  <2> QED BY <1>3, <1>14, <2>1
<1>16. Value(u, <<"routing">>, "explain") = y
  <2>1. 3 \in DOMAIN u /\ "explain" # ""  BY <1>1
  <2> QED BY <1>4, <1>14, <2>1
<1>17. Value(u, <<"routing">>, "investigate") = z
  <2>1. 4 \in DOMAIN u /\ "investigate" # ""  BY <1>1
  <2> QED BY <1>5, <1>14, <2>1
<1> QED BY <1>13, <1>15, <1>16, <1>17

ConstraintLine(u, x) ==
  /\ (\E S : u \in Seq(S)) /\ Len(u) = 3
  /\ u[1] = Header(<<"routing", "constraints">>) /\ u[2] = Field("sensitive_output", x)
  /\ u[3] = Blank
LEMMA ConstraintLines ==
  ASSUME NEW u, NEW x, ConstraintLine(u, x)
  PROVE  /\ Holding(u, <<"routing", "constraints">>, {"sensitive_output"})
         /\ Value(u, <<"routing", "constraints">>, "sensitive_output") = x
<1>1. /\ DOMAIN u = 1 .. 3
      /\ \A i \in DOMAIN u : i = 1 \/ i = 2 \/ i = 3
  BY DEF ConstraintLine
<1>2. Has(u[1], <<"routing", "constraints">>, "", Absent)  BY HeaderHas DEF ConstraintLine
<1>3. Has(u[2], << >>, "sensitive_output", x)  BY FieldHas DEF ConstraintLine
<1>4. Has(u[3], << >>, "", Absent)  BY BlankHas DEF ConstraintLine
<1>5. \A i \in DOMAIN u : i # 1 => u[i].head = << >>
  BY <1>1, <1>2, <1>3, <1>4 DEF Has
<1>6. \A i, j \in DOMAIN u : u[i].key = u[j].key /\ u[i].key # "" => i = j
  BY <1>1, <1>2, <1>3, <1>4 DEF Has
<1>7. \A i \in DOMAIN u : u[i].key = "" \/ u[i].key \in {"sensitive_output"}
  BY <1>1, <1>2, <1>3, <1>4 DEF Has
<1>8. /\ Short(<<"routing", "constraints">>) /\ <<"routing", "constraints">> # << >>
      /\ \A a : <<"routing", "constraints">> # <<a>>
  BY DEF Short
<1>9. Len(u) > 0 /\ \E S : u \in Seq(S)
  BY DEF ConstraintLine
<1>10. Section(u, <<"routing", "constraints">>)
  BY <1>2, <1>5, <1>6, <1>8, <1>9, Sectional
<1>11. Holding(u, <<"routing", "constraints">>, {"sensitive_output"})
  BY <1>7, <1>8, <1>10, SectionHolds
<1>12. \A i \in DOMAIN u : \A key, is :
         Has(u[i], << >>, key, is) /\ key # "" => Value(u, <<"routing", "constraints">>, key) = is
  BY <1>10, SaysThere
<1>13. Value(u, <<"routing", "constraints">>, "sensitive_output") = x
  <2>1. 2 \in DOMAIN u /\ "sensitive_output" # ""  BY <1>1
  <2> QED BY <1>3, <1>12, <2>1
<1> QED BY <1>11, <1>13

UiLine(u, o, p, q, x, y, z) ==
  /\ (\E S : u \in Seq(S)) /\ Len(u) = 7
  /\ u[1] = Header(<<"ui">>) /\ u[2] = Field("mode", o) /\ u[3] = Field("hotkey", p)
  /\ u[4] = Field("language", q) /\ u[5] = Field("ascii", x) /\ u[6] = Field("links", y)
  /\ u[7] = Field("eager_fix", z)
LEMMA UiLines ==
  ASSUME NEW u, NEW o, NEW p, NEW q, NEW x, NEW y, NEW z, UiLine(u, o, p, q, x, y, z)
  PROVE  /\ Holding(u, <<"ui">>, {"mode", "hotkey", "language", "ascii", "links", "eager_fix"})
         /\ Value(u, <<"ui">>, "mode") = o
         /\ Value(u, <<"ui">>, "hotkey") = p
         /\ Value(u, <<"ui">>, "language") = q
         /\ Value(u, <<"ui">>, "ascii") = x
         /\ Value(u, <<"ui">>, "links") = y
         /\ Value(u, <<"ui">>, "eager_fix") = z
<1>1. /\ DOMAIN u = 1 .. 7
      /\ \A i \in DOMAIN u : i = 1 \/ i = 2 \/ i = 3 \/ i = 4 \/ i = 5 \/ i = 6 \/ i = 7
  BY DEF UiLine
<1>2. Has(u[1], <<"ui">>, "", Absent)  BY HeaderHas DEF UiLine
<1>3. Has(u[2], << >>, "mode", o)  BY FieldHas DEF UiLine
<1>4. Has(u[3], << >>, "hotkey", p)  BY FieldHas DEF UiLine
<1>5. Has(u[4], << >>, "language", q)  BY FieldHas DEF UiLine
<1>6. Has(u[5], << >>, "ascii", x)  BY FieldHas DEF UiLine
<1>7. Has(u[6], << >>, "links", y)  BY FieldHas DEF UiLine
<1>8. Has(u[7], << >>, "eager_fix", z)  BY FieldHas DEF UiLine
<1>9. \A i \in DOMAIN u : i # 1 => u[i].head = << >>
  BY <1>1, <1>2, <1>3, <1>4, <1>5, <1>6, <1>7, <1>8 DEF Has
<1>10. \A i, j \in DOMAIN u : u[i].key = u[j].key /\ u[i].key # "" => i = j
  BY <1>1, <1>2, <1>3, <1>4, <1>5, <1>6, <1>7, <1>8 DEF Has
<1>11. \A i \in DOMAIN u :
         \/ u[i].key = ""
         \/ u[i].key \in {"mode", "hotkey", "language", "ascii", "links", "eager_fix"}
  BY <1>1, <1>2, <1>3, <1>4, <1>5, <1>6, <1>7, <1>8 DEF Has
<1>12. Short(<<"ui">>) /\ <<"ui">> # << >>
  BY DEF Short
<1>13. Len(u) > 0 /\ \E S : u \in Seq(S)
  BY DEF UiLine
<1>14. Section(u, <<"ui">>)
  BY <1>2, <1>9, <1>10, <1>12, <1>13, Sectional
<1>15. Holding(u, <<"ui">>, {"mode", "hotkey", "language", "ascii", "links", "eager_fix"})
  BY <1>11, <1>12, <1>14, SectionHolds
<1>16. \A i \in DOMAIN u : \A key, is :
         Has(u[i], << >>, key, is) /\ key # "" => Value(u, <<"ui">>, key) = is
  BY <1>14, SaysThere
<1>17. Value(u, <<"ui">>, "mode") = o
  <2>1. 2 \in DOMAIN u /\ "mode" # ""  BY <1>1
  <2> QED BY <1>3, <1>16, <2>1
<1>18. Value(u, <<"ui">>, "hotkey") = p
  <2>1. 3 \in DOMAIN u /\ "hotkey" # ""  BY <1>1
  <2> QED BY <1>4, <1>16, <2>1
<1>19. Value(u, <<"ui">>, "language") = q
  <2>1. 4 \in DOMAIN u /\ "language" # ""  BY <1>1
  <2> QED BY <1>5, <1>16, <2>1
<1>20. Value(u, <<"ui">>, "ascii") = x
  <2>1. 5 \in DOMAIN u /\ "ascii" # ""  BY <1>1
  <2> QED BY <1>6, <1>16, <2>1
<1>21. Value(u, <<"ui">>, "links") = y
  <2>1. 6 \in DOMAIN u /\ "links" # ""  BY <1>1
  <2> QED BY <1>7, <1>16, <2>1
<1>22. Value(u, <<"ui">>, "eager_fix") = z
  <2>1. 7 \in DOMAIN u /\ "eager_fix" # ""  BY <1>1
  <2> QED BY <1>8, <1>16, <2>1
<1> QED BY <1>15, <1>17, <1>18, <1>19, <1>20, <1>21, <1>22

-----------------------------------------------------------------------------
(***************************************************************************)
(* The models that answers name, and their sections.                       *)
(***************************************************************************)
CloudNamed == {"claude", "openai", "gemini"}
LEMMA CloudsAre ==
  /\ DOMAIN Clouds = CloudNamed
  /\ Clouds["claude"].client = "anthropic" /\ Clouds["claude"].url = <<"anthropic">>
  /\ Clouds["openai"].client = "openai_compatible" /\ Clouds["openai"].url = <<"openai">>
  /\ Clouds["gemini"].client = "openai_compatible" /\ Clouds["gemini"].url = <<"google">>
BY DEF Clouds, CloudNamed

LEMMA CloudServed ==
  ASSUME NEW c \in CloudNamed
  PROVE  Clouds[c].client \in {"anthropic", "openai_compatible"} /\ Clouds[c].url # << >>
<1>1. CASE c = "claude"  BY <1>1, CloudsAre
<1>2. CASE c = "openai"  BY <1>2, CloudsAre
<1>3. CASE c = "gemini"  BY <1>3, CloudsAre
<1> QED BY <1>1, <1>2, <1>3 DEF CloudNamed

LEMMA LocalSection ==
  ASSUME NEW a, NEW u, u = RenderModel(LocalSpec(a))
  PROVE  /\ Holding(u, TableOf("local"), {"provider", "model", "base_url", "tier"})
         /\ Value(u, TableOf("local"), "provider") = <<"ollama">>
         /\ Value(u, TableOf("local"), "model") = <<a.local>>
         /\ Value(u, TableOf("local"), "base_url") = <<"localhost">>
         /\ Value(u, TableOf("local"), "tier") = <<"large">>
<1>1. /\ LocalSpec(a).name = "local" /\ LocalSpec(a).client = "ollama"
      /\ LocalSpec(a).model = <<a.local>> /\ LocalSpec(a).url = <<"localhost">>
      /\ LocalSpec(a).key = Absent /\ LocalSpec(a).tier = <<"large">>
  BY DEF LocalSpec
<1>2. "ollama" # "cli_agent" /\ <<"localhost">> # Absent
  BY DEF Absent
<1> DEFINE h == Header(TableOf("local"))
           p == Field("provider", <<"ollama">>)
           m == Field("model", <<a.local>>)
           w == Field("base_url", <<"localhost">>)
           t == Field("tier", <<"large">>)
<1>3. PICK s : s = ServedBy(LocalSpec(a))
  OBVIOUS
<1>4. TwoOfThree(s, m, w)
  BY <1>1, <1>2, <1>3 DEF ServedBy, If, TwoOfThree
<1>5. Around(u, h, p, s, t, Blank)
  BY <1>1, <1>3 DEF RenderModel, Around
<1> HIDE DEF h, p, m, w, t
<1>7. (\E S : s \in Seq(S)) /\ Len(s) = 2 /\ s[1] = m /\ s[2] = w
  BY <1>4, TwoLines
<1>8. Framed(u, h, p, s, t, Blank)
  BY <1>5, <1>7, LinesAround
<1>9. /\ Len(u) = 6 /\ u[5] = t /\ u[6] = Blank
  BY <1>7, <1>8 DEF Framed
<1>10. u[3] = m /\ u[4] = w
  <2>1. 1 \in 1 .. Len(s) /\ 2 + 1 = 3
    BY <1>7
  <2>2. 2 \in 1 .. Len(s) /\ 2 + 2 = 4
    BY <1>7
  <2> QED BY <1>7, <1>8, <2>1, <2>2 DEF Framed
<1>11. LocalLine(u, "local", <<"ollama">>, <<a.local>>, <<"localhost">>, <<"large">>)
  BY <1>8, <1>9, <1>10 DEF Framed, LocalLine, h, p, m, w, t
<1> QED BY <1>11, LocalLines

LEMMA CloudSection ==
  ASSUME NEW a, a.cloud \in CloudNamed, NEW u, u = RenderModel(CloudSpec(a))
  PROVE  /\ Holding(u, TableOf(a.cloud), {"provider", "model", "base_url", "key", "tier"})
         /\ Value(u, TableOf(a.cloud), "provider") = <<Clouds[a.cloud].client>>
         /\ Value(u, TableOf(a.cloud), "model") = <<"default">>
         /\ Value(u, TableOf(a.cloud), "base_url") = Clouds[a.cloud].url
         /\ Value(u, TableOf(a.cloud), "key") = KeyGiven(a)
         /\ Value(u, TableOf(a.cloud), "tier") = <<"small">>
<1>1. /\ CloudSpec(a).name = a.cloud /\ CloudSpec(a).client = Clouds[a.cloud].client
      /\ CloudSpec(a).model = <<"default">> /\ CloudSpec(a).url = Clouds[a.cloud].url
      /\ CloudSpec(a).key = KeyGiven(a) /\ CloudSpec(a).tier = <<"small">>
  BY DEF CloudSpec
<1>2. /\ Clouds[a.cloud].client # "cli_agent" /\ Clouds[a.cloud].url # Absent
      /\ KeyGiven(a) # Absent
  BY CloudServed DEF Absent, KeyGiven
<1> DEFINE h == Header(TableOf(a.cloud))
           p == Field("provider", <<Clouds[a.cloud].client>>)
           m == Field("model", <<"default">>)
           w == Field("base_url", Clouds[a.cloud].url)
           k == Field("key", KeyGiven(a))
           t == Field("tier", <<"small">>)
<1>3. PICK s : s = ServedBy(CloudSpec(a))
  OBVIOUS
<1>4. Three(s, m, w, k)
  BY <1>1, <1>2, <1>3 DEF ServedBy, If, Three
<1>5. Around(u, h, p, s, t, Blank)
  BY <1>1, <1>3 DEF RenderModel, Around
<1> HIDE DEF h, p, m, w, k, t
<1>7. (\E S : s \in Seq(S)) /\ Len(s) = 3 /\ s[1] = m /\ s[2] = w /\ s[3] = k
  BY <1>4, ThreeLines
<1>8. Framed(u, h, p, s, t, Blank)
  BY <1>5, <1>7, LinesAround
<1>9. /\ Len(u) = 7 /\ u[6] = t /\ u[7] = Blank
  BY <1>7, <1>8 DEF Framed
<1>10. u[3] = m /\ u[4] = w /\ u[5] = k
  <2>1. 1 \in 1 .. Len(s) /\ 2 + 1 = 3
    BY <1>7
  <2>2. 2 \in 1 .. Len(s) /\ 2 + 2 = 4
    BY <1>7
  <2>3. 3 \in 1 .. Len(s) /\ 2 + 3 = 5
    BY <1>7
  <2> QED BY <1>7, <1>8, <2>1, <2>2, <2>3 DEF Framed
<1>11. CloudLine(u, a.cloud, <<Clouds[a.cloud].client>>, <<"default">>, Clouds[a.cloud].url,
                 KeyGiven(a), <<"small">>)
  BY <1>8, <1>9, <1>10 DEF Framed, CloudLine, h, p, m, w, k, t
<1> QED BY <1>11, CloudLines

LEMMA AgentSection ==
  ASSUME NEW a, a.agent \in ToSet(Agents), NEW u, u = RenderModel(AgentSpec(a))
  PROVE  /\ Holding(u, TableOf(AgentName[a.agent]), {"provider", "command", "tier"})
         /\ Value(u, TableOf(AgentName[a.agent]), "provider") = <<"cli_agent">>
         /\ Value(u, TableOf(AgentName[a.agent]), "command") = <<a.agent>>
         /\ Value(u, TableOf(AgentName[a.agent]), "tier") = <<"agent">>
<1>1. /\ AgentSpec(a).name = AgentName[a.agent] /\ AgentSpec(a).client = "cli_agent"
      /\ AgentSpec(a).model = <<a.agent>> /\ AgentSpec(a).url = Absent
      /\ AgentSpec(a).key = Absent /\ AgentSpec(a).tier = <<"agent">>
  BY DEF AgentSpec
<1>2. <<a.agent>>[1] \in ToSet(Agents)
  OBVIOUS
<1> DEFINE h == Header(TableOf(AgentName[a.agent]))
           p == Field("provider", <<"cli_agent">>)
           m == Field("command", <<a.agent>>)
           t == Field("tier", <<"agent">>)
<1>3. PICK s : s = ServedBy(AgentSpec(a))
  OBVIOUS
<1>4. s = <<m>>
  BY <1>1, <1>2, <1>3 DEF ServedBy, If, Agents
<1>5. Around(u, h, p, s, t, Blank)
  BY <1>1, <1>3 DEF RenderModel, Around
<1> HIDE DEF h, p, m, t
<1>7. (\E S : s \in Seq(S)) /\ Len(s) = 1 /\ s[1] = m
  BY <1>4, One
<1>8. Framed(u, h, p, s, t, Blank)
  BY <1>5, <1>7, LinesAround
<1>9. /\ Len(u) = 5 /\ u[4] = t /\ u[5] = Blank
  BY <1>7, <1>8 DEF Framed
<1>10. u[3] = m
  <2>1. 1 \in 1 .. Len(s) /\ 2 + 1 = 3
    BY <1>7
  <2> QED BY <1>7, <1>8, <2>1 DEF Framed
<1>11. AgentLine(u, AgentName[a.agent], <<"cli_agent">>, <<a.agent>>, <<"agent">>)
  BY <1>8, <1>9, <1>10 DEF Framed, AgentLine, h, p, m, t
<1> QED BY <1>11, AgentLines

-----------------------------------------------------------------------------
(***************************************************************************)
(* The sections every composed file ends with.                             *)
(***************************************************************************)
LEMMA DefaultsAre ==
  /\ Default["mode"] = "toast" /\ Default["hotkey"] = "K" /\ Default["language"] = "auto"
  /\ Default["ascii"] = "false" /\ Default["links"] = "true" /\ Default["eager_fix"] = "auto"
  /\ Default["sensitive_output"] = "local_only" /\ Default["max_daily_cost"] = ""
BY DEF Default

LEMMA ComposedIs ==
  ASSUME NEW a
  PROVE  /\ Compose(a).option = Default
         /\ Compose(a).route["quick_fix"] = LocalNames(a) \o CloudNames(a)
         /\ Compose(a).route["explain"] = CloudNames(a) \o LocalNames(a)
         /\ Compose(a).route["investigate"] = If(a.agent # "", <<AgentName[a.agent]>>)
         /\ Compose(a).models = If(a.local # "", <<LocalSpec(a)>>)
              \o If(a.cloud # "", <<CloudSpec(a)>>) \o If(a.agent # "", <<AgentSpec(a)>>)
BY DEF Compose, ExplainOf

LEMMA RoutingSection ==
  ASSUME NEW a, NEW u, u = RenderRouting(Compose(a))
  PROVE  /\ Holding(u, <<"routing">>, {"quick_fix", "explain", "investigate"})
         /\ Value(u, <<"routing">>, "quick_fix") = LocalNames(a) \o CloudNames(a)
         /\ Value(u, <<"routing">>, "explain") = CloudNames(a) \o LocalNames(a)
         /\ Value(u, <<"routing">>, "investigate") = If(a.agent # "", <<AgentName[a.agent]>>)
<1> DEFINE h == Header(<<"routing">>)
           x == Field("quick_fix", LocalNames(a) \o CloudNames(a))
           y == Field("explain", CloudNames(a) \o LocalNames(a))
           z == Field("investigate", If(a.agent # "", <<AgentName[a.agent]>>))
<1>1. u = <<h, x, y, z, Blank>>
  BY ComposedIs DEF RenderRouting
<1> HIDE DEF h, x, y, z
<1>2. /\ Len(u) = 5 /\ u[1] = h /\ u[2] = x /\ u[3] = y /\ u[4] = z /\ u[5] = Blank
      /\ u \in Seq({h, x, y, z, Blank})
  BY <1>1
<1>3. RoutingLine(u, LocalNames(a) \o CloudNames(a), CloudNames(a) \o LocalNames(a),
                  If(a.agent # "", <<AgentName[a.agent]>>))
  BY <1>2 DEF RoutingLine, h, x, y, z
<1> QED BY <1>3, RoutingLines

LEMMA ConstraintSection ==
  ASSUME NEW a, NEW u, u = RenderConstraints(Compose(a))
  PROVE  /\ Holding(u, <<"routing", "constraints">>, {"sensitive_output"})
         /\ Value(u, <<"routing", "constraints">>, "sensitive_output") = <<"local_only">>
<1> DEFINE h == Header(<<"routing", "constraints">>)
           x == Field("sensitive_output", <<"local_only">>)
           R == {h, x, Blank}
<1>1. PICK v : v = <<h, x>>
  OBVIOUS
<1>2. u = v \o << >> \o <<Blank>>
  BY <1>1, ComposedIs, DefaultsAre DEF RenderConstraints, OptionLine, If
<1> HIDE DEF h, x
<1>3. v \in Seq(R) /\ Len(v) = 2 /\ v[1] = h /\ v[2] = x /\ << >> \in Seq(R) /\ Len(<< >>) = 0
  BY <1>1
<1>4. <<Blank>> \in Seq(R) /\ Len(<<Blank>>) = 1 /\ <<Blank>>[1] = Blank
  OBVIOUS
<1> HIDE DEF R
<1>5. PICK w : w = v \o << >>
  OBVIOUS
<1>6. w \in Seq(R) /\ Len(w) = Len(v) + 0 /\ \A i \in 1 .. Len(v) : w[i] = v[i]
  BY <1>3, <1>5, Concat
<1>7. Len(w) = 2 /\ w[1] = h /\ w[2] = x
  BY <1>3, <1>6
<1>8. u = w \o <<Blank>>
  BY <1>2, <1>5
<1>9. /\ u \in Seq(R) /\ Len(u) = Len(w) + 1
      /\ \A i \in 1 .. Len(w) : u[i] = w[i]
      /\ \A i \in 1 .. 1 : u[Len(w) + i] = <<Blank>>[i]
  BY <1>4, <1>6, <1>8, Concat
<1>10. Len(u) = 3 /\ u[1] = h /\ u[2] = x
  BY <1>7, <1>9
<1>11. u[3] = Blank
  <2>1. u[2 + 1] = Blank
    BY <1>4, <1>7, <1>9
  <2> QED BY <2>1
<1>12. ConstraintLine(u, <<"local_only">>)
  BY <1>9, <1>10, <1>11 DEF ConstraintLine, h, x
<1> QED BY <1>12, ConstraintLines

LEMMA UiSection ==
  ASSUME NEW a, NEW u, u = RenderUi(Compose(a))
  PROVE  /\ Holding(u, <<"ui">>, {"mode", "hotkey", "language", "ascii", "links", "eager_fix"})
         /\ Value(u, <<"ui">>, "mode") = <<"toast">> /\ Value(u, <<"ui">>, "hotkey") = <<"K">>
         /\ Value(u, <<"ui">>, "language") = <<"auto">>
         /\ Value(u, <<"ui">>, "ascii") = <<"false">> /\ Value(u, <<"ui">>, "links") = <<"true">>
         /\ Value(u, <<"ui">>, "eager_fix") = <<"auto">>
<1> DEFINE h == Header(<<"ui">>)
           m == Field("mode", <<"toast">>)
           k == Field("hotkey", <<"K">>)
           l == Field("language", <<"auto">>)
           x == Field("ascii", <<"false">>)
           y == Field("links", <<"true">>)
           z == Field("eager_fix", <<"auto">>)
<1>1. u = <<h, m, k, l, x, y, z>>
  BY ComposedIs, DefaultsAre DEF RenderUi, OptionLine
<1> HIDE DEF h, m, k, l, x, y, z
<1>2. /\ Len(u) = 7 /\ u[1] = h /\ u[2] = m /\ u[3] = k /\ u[4] = l /\ u[5] = x /\ u[6] = y
      /\ u[7] = z /\ u \in Seq({h, m, k, l, x, y, z})
  BY <1>1
<1>3. UiLine(u, <<"toast">>, <<"K">>, <<"auto">>, <<"false">>, <<"true">>, <<"auto">>)
  BY <1>2 DEF UiLine, h, m, k, l, x, y, z
<1> QED BY <1>3, UiLines
-----------------------------------------------------------------------------
(***************************************************************************)
(* The file that setup writes, section after section.                      *)
(***************************************************************************)
LEMMA NothingAdded ==
  ASSUME NEW S, NEW x \in Seq(S)
  PROVE  << >> \o x = x /\ x \o << >> = x
<1>1. << >> \in Seq(S) /\ Len(<< >>) = 0 /\ Len(x) \in Nat
  OBVIOUS
<1>2. PICK y : y = << >> \o x
  OBVIOUS
<1>3. PICK z : z = x \o << >>
  OBVIOUS
<1>4. /\ y \in Seq(S) /\ Len(y) = 0 + Len(x)
      /\ \A i \in 1 .. Len(x) : y[0 + i] = x[i]
  BY <1>1, <1>2, Concat
<1>5. Len(y) = Len(x) /\ \A i \in 1 .. Len(x) : y[i] = x[i]
  <2>1. \A i \in 1 .. Len(x) : 0 + i = i
    BY <1>1
  <2>2. Len(y) = Len(x)
    BY <1>1, <1>4
  <2> QED BY <1>4, <2>1, <2>2
<1>6. /\ z \in Seq(S) /\ Len(z) = Len(x) + 0
      /\ \A i \in 1 .. Len(x) : z[i] = x[i]
  BY <1>1, <1>3, Concat
<1>7. Len(z) = Len(x)
  BY <1>1, <1>6
<1>8. y = x
  BY <1>4, <1>5
<1>9. z = x
  BY <1>6, <1>7
<1> QED BY <1>2, <1>3, <1>8, <1>9

\* One or two things put together.
LEMMA PairUp ==
  ASSUME NEW x, NEW y
  PROVE  /\ Len(<<x>> \o <<y>>) = 2 /\ (<<x>> \o <<y>>)[1] = x /\ (<<x>> \o <<y>>)[2] = y
<1>1. <<x>> \in Seq({x, y}) /\ <<y>> \in Seq({x, y})
  OBVIOUS
<1>2. PICK v : v = <<x>> \o <<y>>
  OBVIOUS
<1>3. Len(<<x>>) = 1 /\ <<x>>[1] = x /\ Len(<<y>>) = 1 /\ <<y>>[1] = y
  OBVIOUS
<1>4. /\ Len(v) = 1 + 1
      /\ \A i \in 1 .. 1 : v[i] = <<x>>[i]
      /\ \A i \in 1 .. 1 : v[1 + i] = <<y>>[i]
  BY <1>1, <1>2, <1>3, Concat
<1>5. v[1] = x /\ Len(v) = 2
  BY <1>3, <1>4
<1>6. v[1 + 1] = y
  BY <1>3, <1>4
<1>7. v[2] = y
  BY <1>6
<1> QED BY <1>2, <1>5, <1>7

\* m has these elements.
Listing(m, n, x, y, z) ==
  /\ Len(m) = n /\ n \in 0 .. 3 /\ DOMAIN m = 1 .. n
  /\ n >= 1 => m[1] = x
  /\ n >= 2 => m[2] = y
  /\ n = 3 => m[3] = z

LEMMA Together ==
  ASSUME NEW m, NEW n, NEW x, NEW y, NEW z, Listing(m, n, x, y, z)
  PROVE  LET f == [i \in DOMAIN m |-> RenderModel(m[i])] IN
         /\ n = 0 => FlattenSeq(f) = << >>
         /\ n = 1 => FlattenSeq(f) = RenderModel(x)
         /\ n = 2 => FlattenSeq(f) = RenderModel(x) \o RenderModel(y)
         /\ n = 3 => FlattenSeq(f) = (RenderModel(x) \o RenderModel(y)) \o RenderModel(z)
<1> DEFINE f == [i \in DOMAIN m |-> RenderModel(m[i])]
<1>1. /\ n \in 0 .. 3
      /\ DOMAIN f = 1 .. n /\ f = [i \in 1 .. n |-> f[i]]
      /\ n >= 1 => f[1] = RenderModel(x)
      /\ n >= 2 => f[2] = RenderModel(y)
      /\ n = 3 => f[3] = RenderModel(z)
  BY DEF Listing
<1> HIDE DEF f
<1>2. n \in Nat /\ Len(f) = n
  BY <1>1
<1>3. CASE n = 0
  <2>1. f = << >>
    BY <1>1, <1>3
  <2> QED BY <1>3, <2>1, NoneFlat DEF f
<1>4. CASE n = 1
  <2>1. n \in 1 .. 3 /\ n = 1
    BY <1>4
  <2>2. FlattenSeq(f) = f[1]
    BY <1>2, <2>1, FlatFew
  <2> QED BY <1>1, <1>4, <2>2 DEF f
<1>5. CASE n = 2
  <2>1. n \in 1 .. 3 /\ n = 2
    BY <1>5
  <2>2. FlattenSeq(f) = f[1] \o f[2]
    BY <1>2, <2>1, FlatFew
  <2>3. f[1] = RenderModel(x) /\ f[2] = RenderModel(y)
    BY <1>1, <1>5
  <2>4. FlattenSeq(f) = RenderModel(x) \o RenderModel(y)
    BY <2>2, <2>3
  <2> QED BY <1>5, <2>4 DEF f
<1>6. CASE n = 3
  <2>1. n \in 1 .. 3 /\ n = 3
    BY <1>6
  <2>2. FlattenSeq(f) = (f[1] \o f[2]) \o f[3]
    BY <1>2, <2>1, FlatFew
  <2>3. f[1] = RenderModel(x) /\ f[2] = RenderModel(y) /\ f[3] = RenderModel(z)
    BY <1>1, <1>6
  <2>4. FlattenSeq(f) = (RenderModel(x) \o RenderModel(y)) \o RenderModel(z)
    BY <2>2, <2>3
  <2> QED BY <1>6, <2>4 DEF f
<1> QED BY <1>1, <1>3, <1>4, <1>5, <1>6
\* The models that answers name, in their order, and their sections.
LocalPart(a) == If(a.local # "", RenderModel(LocalSpec(a)))
CloudPart(a) == If(a.cloud # "", RenderModel(CloudSpec(a)))
AgentPart(a) == If(a.agent # "", RenderModel(AgentSpec(a)))
ModelPart(a) ==
  LET f == [i \in DOMAIN Compose(a).models |-> RenderModel(Compose(a).models[i])] IN
  FlattenSeq(f)

LEMMA PartsTogether ==
  ASSUME NEW a, Text(LocalPart(a)), Text(CloudPart(a)), Text(AgentPart(a))
  PROVE  /\ ModelPart(a) = (LocalPart(a) \o CloudPart(a)) \o AgentPart(a)
         /\ \A spec \in ToSet(Compose(a).models) :
              \/ a.local # "" /\ spec = LocalSpec(a)
              \/ a.cloud # "" /\ spec = CloudSpec(a)
              \/ a.agent # "" /\ spec = AgentSpec(a)
<1> DEFINE x == LocalSpec(a)
           y == CloudSpec(a)
           z == AgentSpec(a)
           m == Compose(a).models
           l == LocalPart(a)
           c == CloudPart(a)
           g == AgentPart(a)
<1>1. /\ a.local # "" => l = RenderModel(x)
      /\ a.local = "" => l = << >>
      /\ a.cloud # "" => c = RenderModel(y)
      /\ a.cloud = "" => c = << >>
      /\ a.agent # "" => g = RenderModel(z)
      /\ a.agent = "" => g = << >>
  BY DEF LocalPart, CloudPart, AgentPart, If
<1>2. m = If(a.local # "", <<x>>) \o If(a.cloud # "", <<y>>) \o If(a.agent # "", <<z>>)
  BY ComposedIs
<1>3. \A i : << >> \o <<i>> = <<i>> /\ <<i>> \o << >> = <<i>>
  <2> SUFFICES ASSUME NEW i PROVE << >> \o <<i>> = <<i>> /\ <<i>> \o << >> = <<i>>
    OBVIOUS
  <2>1. <<i>> \in Seq({i})
    OBVIOUS
  <2> QED BY <2>1, NothingAdded
<1>4. \A i, j : (<<i>> \o <<j>>) \o << >> = <<i>> \o <<j>>
  <2> SUFFICES ASSUME NEW i, NEW j PROVE (<<i>> \o <<j>>) \o << >> = <<i>> \o <<j>>
    OBVIOUS
  <2>1. <<i>> \o <<j>> \in Seq({i, j})
    OBVIOUS
  <2> QED BY <2>1, NothingAdded
<1>5. << >> \o << >> = << >>
  <2>1. << >> \in Seq({})
    OBVIOUS
  <2> QED BY <2>1, NothingAdded
<1>6. /\ << >> \o l = l /\ l \o << >> = l /\ << >> \o c = c /\ c \o << >> = c
      /\ << >> \o g = g
      /\ (l \o c) \o << >> = l \o c
  <2>1. /\ \E S : l \in Seq(S)
        /\ \E S : c \in Seq(S)
        /\ \E S : g \in Seq(S)
    BY DEF Text
  <2>2. \A t : (\E S : t \in Seq(S)) => << >> \o t = t /\ t \o << >> = t
    BY NothingAdded
  <2>3. \E S : l \o c \in Seq(S)
    <3>1. PICK u : u = l \o c
      OBVIOUS
    <3>2. Text(u)
      BY <3>1, Joined DEF Joins
    <3> QED BY <3>1, <3>2 DEF Text
  <2> HIDE DEF l, c, g
  <2> QED BY <2>1, <2>2, <2>3
<1>7. ModelPart(a) = FlattenSeq([i \in DOMAIN m |-> RenderModel(m[i])])
  BY DEF ModelPart
<1>8. ToSet(m) = {m[i] : i \in DOMAIN m}
  BY DEF ToSet
<1>9. ASSUME NEW n, NEW i, NEW j, NEW k, Listing(m, n, i, j, k)
      PROVE  /\ n = 0 => ModelPart(a) = << >>
             /\ n = 1 => ModelPart(a) = RenderModel(i)
             /\ n = 2 => ModelPart(a) = RenderModel(i) \o RenderModel(j)
             /\ n = 3 => ModelPart(a) = (RenderModel(i) \o RenderModel(j)) \o RenderModel(k)
             /\ \A spec \in ToSet(m) :
                  \/ n >= 1 /\ spec = i
                  \/ n >= 2 /\ spec = j
                  \/ n = 3 /\ spec = k
  <2>1. PICK q : q = m
    OBVIOUS
  <2> HIDE DEF m
  <2>2. Listing(q, n, i, j, k)
    BY <1>9, <2>1
  <2>3. /\ n = 0 => FlattenSeq([h \in DOMAIN q |-> RenderModel(q[h])]) = << >>
        /\ n = 1 => FlattenSeq([h \in DOMAIN q |-> RenderModel(q[h])]) = RenderModel(i)
        /\ n = 2 => FlattenSeq([h \in DOMAIN q |-> RenderModel(q[h])])
                     = RenderModel(i) \o RenderModel(j)
        /\ n = 3 => FlattenSeq([h \in DOMAIN q |-> RenderModel(q[h])])
                     = (RenderModel(i) \o RenderModel(j)) \o RenderModel(k)
    BY <2>2, Together
  <2>4. ModelPart(a) = FlattenSeq([h \in DOMAIN q |-> RenderModel(q[h])])
    BY <1>7, <2>1
  <2>5. \A spec \in ToSet(m) :
          \/ n >= 1 /\ spec = i
          \/ n >= 2 /\ spec = j
          \/ n = 3 /\ spec = k
    BY <1>8, <1>9 DEF Listing
  <2>6. PICK w : w = FlattenSeq([h \in DOMAIN q |-> RenderModel(q[h])])
    OBVIOUS
  <2>7. /\ n = 0 => w = << >>
        /\ n = 1 => w = RenderModel(i)
        /\ n = 2 => w = RenderModel(i) \o RenderModel(j)
        /\ n = 3 => w = (RenderModel(i) \o RenderModel(j)) \o RenderModel(k)
    BY <2>3, <2>6
  <2>8. ModelPart(a) = w
    BY <2>4, <2>6
  <2>9. /\ n = 0 => ModelPart(a) = << >>
        /\ n = 1 => ModelPart(a) = RenderModel(i)
        /\ n = 2 => ModelPart(a) = RenderModel(i) \o RenderModel(j)
        /\ n = 3 => ModelPart(a) = (RenderModel(i) \o RenderModel(j)) \o RenderModel(k)
    BY <2>7, <2>8, Zenon
  <2> QED BY <2>5, <2>9, Zenon
<1> HIDE DEF x, y, z, m, l, c, g
<1>10. CASE a.local # "" /\ a.cloud # "" /\ a.agent # ""
  <2>1. m = <<x>> \o <<y>> \o <<z>>
    BY <1>2, <1>10 DEF If
  <2>2. m = <<x>> \o <<y>> \o <<z>>
    BY <1>3, <1>4, <1>5, <2>1
  <2>3. Listing(m, 3, x, y, z)
    <3>1. Three(m, x, y, z)
      BY <2>1 DEF Three
    <3>2. (\E S : m \in Seq(S)) /\ Len(m) = 3 /\ m[1] = x /\ m[2] = y /\ m[3] = z
      BY <3>1, ThreeLines
    <3>3. DOMAIN m = 1 .. 3
      BY <3>2
    <3> QED BY <3>2, <3>3 DEF Listing
  <2>4. ModelPart(a) = (RenderModel(x) \o RenderModel(y)) \o RenderModel(z)
    BY <1>9, <2>3
  <2>5. l = RenderModel(x) /\ c = RenderModel(y) /\ g = RenderModel(z)
    BY <1>1, <1>10
  <2>6. ModelPart(a) = (l \o c) \o g
    BY <1>5, <1>6, <2>4, <2>5
  <2>7. \A spec \in ToSet(m) : spec = x \/ spec = y \/ spec = z
    BY <1>9, <2>3
  <2> QED BY <1>10, <2>6, <2>7 DEF x, y, z, m, l, c, g
<1>11. CASE a.local # "" /\ a.cloud # "" /\ a.agent = ""
  <2>1. m = <<x>> \o <<y>> \o << >>
    BY <1>2, <1>11 DEF If
  <2>2. m = <<x>> \o <<y>>
    BY <1>3, <1>4, <1>5, <2>1
  <2>3. Listing(m, 2, x, y, x)
    <3>1. Len(m) = 2 /\ m[1] = x /\ m[2] = y
      BY <2>2, PairUp
    <3>2. DOMAIN m = 1 .. 2
      <4>1. <<x>> \o <<y>> \in Seq({x, y})
        OBVIOUS
      <4> QED BY <2>2, <3>1, <4>1
    <3> QED BY <3>1, <3>2 DEF Listing
  <2>4. ModelPart(a) = RenderModel(x) \o RenderModel(y)
    BY <1>9, <2>3
  <2>5. l = RenderModel(x) /\ c = RenderModel(y) /\ g = << >>
    BY <1>1, <1>11
  <2>6. ModelPart(a) = (l \o c) \o g
    BY <1>5, <1>6, <2>4, <2>5
  <2>7. \A spec \in ToSet(m) : spec = x \/ spec = y
    BY <1>9, <2>3
  <2> QED BY <1>11, <2>6, <2>7 DEF x, y, z, m, l, c, g
<1>12. CASE a.local # "" /\ a.cloud = "" /\ a.agent # ""
  <2>1. m = <<x>> \o << >> \o <<z>>
    BY <1>2, <1>12 DEF If
  <2>2. m = <<x>> \o <<z>>
    BY <1>3, <1>4, <1>5, <2>1
  <2>3. Listing(m, 2, x, z, x)
    <3>1. Len(m) = 2 /\ m[1] = x /\ m[2] = z
      BY <2>2, PairUp
    <3>2. DOMAIN m = 1 .. 2
      <4>1. <<x>> \o <<z>> \in Seq({x, z})
        OBVIOUS
      <4> QED BY <2>2, <3>1, <4>1
    <3> QED BY <3>1, <3>2 DEF Listing
  <2>4. ModelPart(a) = RenderModel(x) \o RenderModel(z)
    BY <1>9, <2>3
  <2>5. l = RenderModel(x) /\ c = << >> /\ g = RenderModel(z)
    BY <1>1, <1>12
  <2>6. ModelPart(a) = (l \o c) \o g
    BY <1>5, <1>6, <2>4, <2>5
  <2>7. \A spec \in ToSet(m) : spec = x \/ spec = z
    BY <1>9, <2>3
  <2> QED BY <1>12, <2>6, <2>7 DEF x, y, z, m, l, c, g
<1>13. CASE a.local # "" /\ a.cloud = "" /\ a.agent = ""
  <2>1. m = <<x>> \o << >> \o << >>
    BY <1>2, <1>13 DEF If
  <2>2. m = <<x>>
    BY <1>3, <1>4, <1>5, <2>1
  <2>3. Listing(m, 1, x, x, x)
    <3>1. Len(<<x>>) = 1 /\ DOMAIN <<x>> = 1 .. 1 /\ <<x>>[1] = x
      OBVIOUS
    <3> QED BY <2>2, <3>1 DEF Listing
  <2>4. ModelPart(a) = RenderModel(x)
    BY <1>9, <2>3
  <2>5. l = RenderModel(x) /\ c = << >> /\ g = << >>
    BY <1>1, <1>13
  <2>6. ModelPart(a) = (l \o c) \o g
    BY <1>5, <1>6, <2>4, <2>5
  <2>7. \A spec \in ToSet(m) : spec = x
    BY <1>9, <2>3
  <2> QED BY <1>13, <2>6, <2>7 DEF x, y, z, m, l, c, g
<1>14. CASE a.local = "" /\ a.cloud # "" /\ a.agent # ""
  <2>1. m = << >> \o <<y>> \o <<z>>
    BY <1>2, <1>14 DEF If
  <2>2. m = <<y>> \o <<z>>
    BY <1>3, <1>4, <1>5, <2>1
  <2>3. Listing(m, 2, y, z, x)
    <3>1. Len(m) = 2 /\ m[1] = y /\ m[2] = z
      BY <2>2, PairUp
    <3>2. DOMAIN m = 1 .. 2
      <4>1. <<y>> \o <<z>> \in Seq({y, z})
        OBVIOUS
      <4> QED BY <2>2, <3>1, <4>1
    <3> QED BY <3>1, <3>2 DEF Listing
  <2>4. ModelPart(a) = RenderModel(y) \o RenderModel(z)
    BY <1>9, <2>3
  <2>5. l = << >> /\ c = RenderModel(y) /\ g = RenderModel(z)
    BY <1>1, <1>14
  <2>6. ModelPart(a) = (l \o c) \o g
    BY <1>5, <1>6, <2>4, <2>5
  <2>7. \A spec \in ToSet(m) : spec = y \/ spec = z
    BY <1>9, <2>3
  <2> QED BY <1>14, <2>6, <2>7 DEF x, y, z, m, l, c, g
<1>15. CASE a.local = "" /\ a.cloud # "" /\ a.agent = ""
  <2>1. m = << >> \o <<y>> \o << >>
    BY <1>2, <1>15 DEF If
  <2>2. m = <<y>>
    BY <1>3, <1>4, <1>5, <2>1
  <2>3. Listing(m, 1, y, x, x)
    <3>1. Len(<<y>>) = 1 /\ DOMAIN <<y>> = 1 .. 1 /\ <<y>>[1] = y
      OBVIOUS
    <3> QED BY <2>2, <3>1 DEF Listing
  <2>4. ModelPart(a) = RenderModel(y)
    BY <1>9, <2>3
  <2>5. l = << >> /\ c = RenderModel(y) /\ g = << >>
    BY <1>1, <1>15
  <2>6. ModelPart(a) = (l \o c) \o g
    BY <1>5, <1>6, <2>4, <2>5
  <2>7. \A spec \in ToSet(m) : spec = y
    BY <1>9, <2>3
  <2> QED BY <1>15, <2>6, <2>7 DEF x, y, z, m, l, c, g
<1>16. CASE a.local = "" /\ a.cloud = "" /\ a.agent # ""
  <2>1. m = << >> \o << >> \o <<z>>
    BY <1>2, <1>16 DEF If
  <2>2. m = <<z>>
    BY <1>3, <1>4, <1>5, <2>1
  <2>3. Listing(m, 1, z, x, x)
    <3>1. Len(<<z>>) = 1 /\ DOMAIN <<z>> = 1 .. 1 /\ <<z>>[1] = z
      OBVIOUS
    <3> QED BY <2>2, <3>1 DEF Listing
  <2>4. ModelPart(a) = RenderModel(z)
    BY <1>9, <2>3
  <2>5. l = << >> /\ c = << >> /\ g = RenderModel(z)
    BY <1>1, <1>16
  <2>6. ModelPart(a) = (l \o c) \o g
    BY <1>5, <1>6, <2>4, <2>5
  <2>7. \A spec \in ToSet(m) : spec = z
    BY <1>9, <2>3
  <2> QED BY <1>16, <2>6, <2>7 DEF x, y, z, m, l, c, g
<1>17. CASE a.local = "" /\ a.cloud = "" /\ a.agent = ""
  <2>1. m = << >> \o << >> \o << >>
    BY <1>2, <1>17 DEF If
  <2>2. m = << >>
    BY <1>3, <1>4, <1>5, <2>1
  <2>3. Listing(m, 0, x, x, x)
    <3>1. Len(<< >>) = 0 /\ DOMAIN << >> = 1 .. 0
      OBVIOUS
    <3> QED BY <2>2, <3>1 DEF Listing
  <2>4. ModelPart(a) = << >>
    BY <1>9, <2>3
  <2>5. l = << >> /\ c = << >> /\ g = << >>
    BY <1>1, <1>17
  <2>6. ModelPart(a) = (l \o c) \o g
    BY <1>5, <1>6, <2>4, <2>5
  <2>7. \A spec \in ToSet(m) : FALSE
    BY <1>9, <2>3
  <2> QED BY <1>17, <2>6, <2>7 DEF x, y, z, m, l, c, g
<1> QED BY <1>10, <1>11, <1>12, <1>13, <1>14, <1>15, <1>16, <1>17

\* What setup may be answered.
Sensible(a) ==
  /\ a.cloud # "" => a.cloud \in CloudNamed
  /\ a.agent # "" => a.agent \in ToSet(Agents)

LEMMA AgentsAre == ToSet(Agents) = {"claude", "codex", "opencode", "aider", "gemini", "copilot"}
<1>1. DOMAIN Agents = 1 .. 6
  BY DEF Agents
<1>2. \A i \in DOMAIN Agents : i = 1 \/ i = 2 \/ i = 3 \/ i = 4 \/ i = 5 \/ i = 6
  BY <1>1
<1>3. /\ Agents[1] = "claude" /\ Agents[2] = "codex" /\ Agents[3] = "opencode"
      /\ Agents[4] = "aider" /\ Agents[5] = "gemini" /\ Agents[6] = "copilot"
  BY DEF Agents
<1>4. \A w \in ToSet(Agents) : w \in {"claude", "codex", "opencode", "aider", "gemini", "copilot"}
  BY <1>2, <1>3 DEF ToSet
<1>5. ASSUME NEW w \in {"claude", "codex", "opencode", "aider", "gemini", "copilot"}
      PROVE  w \in ToSet(Agents)
  <2>1. \A i \in 1 .. 6 : Agents[i] \in ToSet(Agents)
    BY <1>1 DEF ToSet
  <2> QED BY <1>3, <2>1
<1> QED BY <1>4, <1>5

AgentNamed == {"claude-cli", "codex-cli", "opencode-cli", "aider-cli", "gemini-cli", "copilot-cli"}
LEMMA AgentNamesAre == \A g \in ToSet(Agents) : AgentName[g] \in AgentNamed
<1> SUFFICES ASSUME NEW g \in {"claude", "codex", "opencode", "aider", "gemini", "copilot"}
             PROVE  AgentName[g] \in AgentNamed
  BY AgentsAre
<1>1. /\ AgentName["claude"] = "claude-cli" /\ AgentName["codex"] = "codex-cli"
      /\ AgentName["opencode"] = "opencode-cli" /\ AgentName["aider"] = "aider-cli"
      /\ AgentName["gemini"] = "gemini-cli" /\ AgentName["copilot"] = "copilot-cli"
  BY DEF AgentName
<1> QED BY <1>1 DEF AgentNamed

\* The tables of the models.
LocalTable(a) == IF a.local # "" THEN {TableOf("local")} ELSE {}
CloudTable(a) == IF a.cloud # "" THEN {TableOf(a.cloud)} ELSE {}
AgentTable(a) == IF a.agent # "" THEN {TableOf(AgentName[a.agent])} ELSE {}

LEMMA PartsWhole ==
  ASSUME NEW a, Sensible(a)
  PROVE  /\ Whole(LocalPart(a)) /\ Sections(LocalPart(a)) = LocalTable(a)
         /\ Whole(CloudPart(a)) /\ Sections(CloudPart(a)) = CloudTable(a)
         /\ Whole(AgentPart(a)) /\ Sections(AgentPart(a)) = AgentTable(a)
<1>1. Whole(LocalPart(a)) /\ Sections(LocalPart(a)) = LocalTable(a)
  <2>1. CASE a.local # ""
    <3>1. LocalPart(a) = RenderModel(LocalSpec(a))
      BY <2>1 DEF LocalPart, If
    <3>2. Holding(LocalPart(a), TableOf("local"), {"provider", "model", "base_url", "tier"})
      BY <3>1, LocalSection
    <3> QED BY <2>1, <3>2 DEF Holding, LocalTable
  <2>2. CASE a.local = ""
    <3>1. LocalPart(a) = << >>
      BY <2>2 DEF LocalPart, If
    <3> QED BY <2>2, <3>1, NothingWhole DEF LocalTable
  <2> QED BY <2>1, <2>2
<1>2. Whole(CloudPart(a)) /\ Sections(CloudPart(a)) = CloudTable(a)
  <2>1. CASE a.cloud # ""
    <3>1. CloudPart(a) = RenderModel(CloudSpec(a)) /\ a.cloud \in CloudNamed
      BY <2>1 DEF CloudPart, If, Sensible
    <3>2. Holding(CloudPart(a), TableOf(a.cloud), {"provider", "model", "base_url", "key", "tier"})
      BY <3>1, CloudSection
    <3> QED BY <2>1, <3>2 DEF Holding, CloudTable
  <2>2. CASE a.cloud = ""
    <3>1. CloudPart(a) = << >>
      BY <2>2 DEF CloudPart, If
    <3> QED BY <2>2, <3>1, NothingWhole DEF CloudTable
  <2> QED BY <2>1, <2>2
<1>3. Whole(AgentPart(a)) /\ Sections(AgentPart(a)) = AgentTable(a)
  <2>1. CASE a.agent # ""
    <3>1. AgentPart(a) = RenderModel(AgentSpec(a)) /\ a.agent \in ToSet(Agents)
      BY <2>1 DEF AgentPart, If, Sensible
    <3>2. Holding(AgentPart(a), TableOf(AgentName[a.agent]), {"provider", "command", "tier"})
      BY <3>1, AgentSection
    <3> QED BY <2>1, <3>2 DEF Holding, AgentTable
  <2>2. CASE a.agent = ""
    <3>1. AgentPart(a) = << >>
      BY <2>2 DEF AgentPart, If
    <3> QED BY <2>2, <3>1, NothingWhole DEF AgentTable
  <2> QED BY <2>1, <2>2
<1> QED BY <1>1, <1>2, <1>3

LEMMA Apart ==
  ASSUME NEW a, Sensible(a)
  PROVE  /\ LocalTable(a) \intersect CloudTable(a) = {}
         /\ (LocalTable(a) \union CloudTable(a)) \intersect AgentTable(a) = {}
         /\ \A m : TableOf(m) \notin {<<"routing">>, <<"routing", "constraints">>, <<"ui">>}
         /\ <<"routing">> # <<"routing", "constraints">> /\ <<"ui">> # <<"routing">>
         /\ <<"ui">> # <<"routing", "constraints">>
         /\ \A m, n : TableOf(m) = TableOf(n) => m = n
<1>1. \A m, n : TableOf(m) = TableOf(n) => m = n
  BY DEF TableOf
<1>2. /\ a.cloud # "" => a.cloud \in {"claude", "openai", "gemini"}
      /\ a.agent # "" => AgentName[a.agent] \in AgentNamed
  BY AgentNamesAre DEF Sensible, CloudNamed
<1>3. a.cloud # "" => a.cloud # "local"
  BY <1>2
<1>4. a.agent # "" => AgentName[a.agent] \notin {"local", "claude", "openai", "gemini"}
  BY <1>2 DEF AgentNamed
<1>5. LocalTable(a) \intersect CloudTable(a) = {}
  BY <1>1, <1>3 DEF LocalTable, CloudTable
<1>6. (LocalTable(a) \union CloudTable(a)) \intersect AgentTable(a) = {}
  BY <1>1, <1>2, <1>4 DEF LocalTable, CloudTable, AgentTable
<1>7. \A m : TableOf(m) \notin {<<"routing">>, <<"routing", "constraints">>, <<"ui">>}
  BY DEF TableOf
<1>8. /\ <<"routing">> # <<"routing", "constraints">> /\ <<"ui">> # <<"routing">>
      /\ <<"ui">> # <<"routing", "constraints">>
  OBVIOUS
<1> QED BY <1>1, <1>5, <1>6, <1>7, <1>8

Tables(a) == (LocalTable(a) \union CloudTable(a)) \union AgentTable(a)
\* What u says of these tables is what t says of them.
Keeps(u, t, tables) ==
  \A path \in tables : \A key : Value(u, path, key) = Value(t, path, key)
LEMMA Rendered ==
  ASSUME NEW a, Sensible(a), NEW u, u = Render(Compose(a))
  PROVE  /\ Whole(u)
         /\ Sections(u) = Tables(a)
                          \union {<<"routing">>, <<"routing", "constraints">>, <<"ui">>}
         /\ Keeps(u, LocalPart(a), LocalTable(a))
         /\ Keeps(u, CloudPart(a), CloudTable(a))
         /\ Keeps(u, AgentPart(a), AgentTable(a))
         /\ Keeps(u, RenderRouting(Compose(a)), {<<"routing">>})
         /\ Keeps(u, RenderConstraints(Compose(a)), {<<"routing", "constraints">>})
         /\ Keeps(u, RenderUi(Compose(a)), {<<"ui">>})
         /\ \A path, key : path \notin Sections(u) => Value(u, path, key) = Absent
<1> DEFINE l == LocalPart(a)
           c == CloudPart(a)
           g == AgentPart(a)
           r == RenderRouting(Compose(a))
           k == RenderConstraints(Compose(a))
           x == RenderUi(Compose(a))
<1>1. /\ Whole(l) /\ Sections(l) = LocalTable(a)
      /\ Whole(c) /\ Sections(c) = CloudTable(a)
      /\ Whole(g) /\ Sections(g) = AgentTable(a)
  BY PartsWhole
<1>2. /\ Whole(r) /\ Sections(r) = {<<"routing">>}
      /\ Whole(k) /\ Sections(k) = {<<"routing", "constraints">>}
      /\ Whole(x) /\ Sections(x) = {<<"ui">>}
      /\ \A path, key : path # <<"ui">> => Value(x, path, key) = Absent
  <2>1. Holding(r, <<"routing">>, {"quick_fix", "explain", "investigate"})
    BY RoutingSection
  <2>2. Holding(k, <<"routing", "constraints">>, {"sensitive_output"})
    BY ConstraintSection
  <2>3. Holding(x, <<"ui">>, {"mode", "hotkey", "language", "ascii", "links", "eager_fix"})
    BY UiSection
  <2> HIDE DEF r, k, x
  <2> QED BY <2>1, <2>2, <2>3 DEF Holding
<1>3. ModelPart(a) = (l \o c) \o g
  BY <1>1, PartsTogether DEF Whole
<1>4. u = ModelPart(a) \o r \o k \o x
  BY DEF Render, ModelPart
<1> HIDE DEF l, c, g, r, k, x
<1>5. PICK p1 : p1 = l \o c
  OBVIOUS
<1>6. PICK p2 : p2 = p1 \o g
  OBVIOUS
<1>7. PICK p3 : p3 = p2 \o r
  OBVIOUS
<1>8. PICK p4 : p4 = p3 \o k
  OBVIOUS
<1>9. u = p4 \o x
  BY <1>3, <1>4, <1>5, <1>6, <1>7, <1>8
<1>10. /\ Whole(p1) /\ Sections(p1) = LocalTable(a) \union CloudTable(a)
       /\ \A path, key : Value(p1, path, key) =
            IF path \in LocalTable(a) THEN Value(l, path, key) ELSE Value(c, path, key)
  BY <1>1, <1>5, Apart, WholeJoin
<1>11. /\ Whole(p2) /\ Sections(p2) = Tables(a)
       /\ \A path, key : Value(p2, path, key) =
            IF path \in LocalTable(a) \union CloudTable(a) THEN Value(p1, path, key)
            ELSE Value(g, path, key)
  BY <1>1, <1>6, <1>10, Apart, WholeJoin DEF Tables
<1>12. \A path \in Tables(a) : path \notin {<<"routing">>, <<"routing", "constraints">>, <<"ui">>}
  BY Apart DEF Tables, LocalTable, CloudTable, AgentTable
<1>13. /\ Whole(p3) /\ Sections(p3) = Tables(a) \union {<<"routing">>}
       /\ \A path, key : Value(p3, path, key) =
            IF path \in Tables(a) THEN Value(p2, path, key) ELSE Value(r, path, key)
  <2>1. Sections(p2) \intersect Sections(r) = {}
    BY <1>2, <1>11, <1>12
  <2> QED BY <1>2, <1>7, <1>11, <2>1, WholeJoin
<1>14. /\ Whole(p4) /\ Sections(p4) = Tables(a) \union {<<"routing">>, <<"routing", "constraints">>}
       /\ \A path, key : Value(p4, path, key) =
            IF path \in Tables(a) \union {<<"routing">>} THEN Value(p3, path, key)
            ELSE Value(k, path, key)
  <2>1. Sections(p3) \intersect Sections(k) = {}
    BY <1>2, <1>12, <1>13, Apart
  <2>2. Sections(p3) \union Sections(k)
          = Tables(a) \union {<<"routing">>, <<"routing", "constraints">>}
    BY <1>2, <1>13
  <2> QED BY <1>2, <1>8, <1>13, <2>1, <2>2, WholeJoin
<1>15. /\ Whole(u)
       /\ Sections(u) = Tables(a) \union {<<"routing">>, <<"routing", "constraints">>, <<"ui">>}
       /\ \A path, key : Value(u, path, key) =
            IF path \in Tables(a) \union {<<"routing">>, <<"routing", "constraints">>}
            THEN Value(p4, path, key) ELSE Value(x, path, key)
  <2>1. Sections(p4) \intersect Sections(x) = {}
    BY <1>2, <1>12, <1>14, Apart
  <2>2. Sections(p4) \union Sections(x)
          = Tables(a) \union {<<"routing">>, <<"routing", "constraints">>, <<"ui">>}
    BY <1>2, <1>14
  <2> QED BY <1>2, <1>9, <1>14, <2>1, <2>2, WholeJoin
<1>16. ASSUME NEW path, NEW key
       PROVE  /\ path \in LocalTable(a) => Value(u, path, key) = Value(l, path, key)
              /\ path \in CloudTable(a) => Value(u, path, key) = Value(c, path, key)
              /\ path \in AgentTable(a) => Value(u, path, key) = Value(g, path, key)
              /\ path = <<"routing">> => Value(u, path, key) = Value(r, path, key)
              /\ path = <<"routing", "constraints">> => Value(u, path, key) = Value(k, path, key)
              /\ path = <<"ui">> => Value(u, path, key) = Value(x, path, key)
              /\ path \notin Sections(u) => Value(u, path, key) = Absent
  <2>1. path \in Tables(a) =>
          Value(u, path, key) = Value(p2, path, key) /\ path \notin {<<"routing">>, <<"ui">>}
    BY <1>12, <1>13, <1>14, <1>15
  <2>2. path \in LocalTable(a) => Value(u, path, key) = Value(l, path, key)
    BY <1>10, <1>11, <2>1 DEF Tables
  <2>3. path \in CloudTable(a) => Value(u, path, key) = Value(c, path, key)
    BY <1>10, <1>11, <2>1, Apart DEF Tables
  <2>4. path \in AgentTable(a) => Value(u, path, key) = Value(g, path, key)
    BY <1>11, <2>1, Apart DEF Tables
  <2>5. path = <<"routing">> => Value(u, path, key) = Value(r, path, key)
    BY <1>12, <1>13, <1>14, <1>15
  <2>6. path = <<"routing", "constraints">> => Value(u, path, key) = Value(k, path, key)
    BY <1>12, <1>14, <1>15, Apart
  <2>7. path = <<"ui">> => Value(u, path, key) = Value(x, path, key)
    BY <1>12, <1>15, Apart
  <2>8. path \notin Sections(u) => Value(u, path, key) = Absent
    BY <1>2, <1>15
  <2> QED BY <2>2, <2>3, <2>4, <2>5, <2>6, <2>7, <2>8
<1>17. /\ Keeps(u, l, LocalTable(a)) /\ Keeps(u, c, CloudTable(a)) /\ Keeps(u, g, AgentTable(a))
       /\ Keeps(u, r, {<<"routing">>}) /\ Keeps(u, k, {<<"routing", "constraints">>})
       /\ Keeps(u, x, {<<"ui">>})
  BY <1>16 DEF Keeps
<1> QED BY <1>15, <1>16, <1>17 DEF l, c, g, r, k, x
-----------------------------------------------------------------------------
(***************************************************************************)
(* What the file that setup writes means: its models.                      *)
(***************************************************************************)
LEMMA ProvidersAre ==
  /\ {"ollama", "openai_compatible", "anthropic", "cli_agent"} \subseteq DOMAIN Providers
  /\ Providers["ollama"].client = "ollama" /\ Providers["ollama"].key = Absent
  /\ Providers["openai_compatible"].client = "openai_compatible"
  /\ Providers["anthropic"].client = "anthropic"
  /\ Providers["cli_agent"].client = "cli_agent" /\ Providers["cli_agent"].key = Absent
  /\ Providers["cli_agent"].url = Absent
BY DEF Providers

\* The file says nothing in a way setup does not write.
LEMMA NoOtherKey ==
  ASSUME NEW a, Sensible(a), NEW u, u = Render(Compose(a)), NEW m
  PROVE  /\ Value(u, TableOf(m), "key.env") = Absent
         /\ Value(u, TableOf(m) \o <<"key">>, "env") = Absent
<1>1. Whole(u) /\ \A path, key : path \notin Sections(u) => Value(u, path, key) = Absent
  BY Rendered
<1>2. Value(u, TableOf(m), "key.env") = Absent
  <2>1. FieldAt(u, TableOf(m), "key.env") = {}
    BY <1>1 DEF Whole
  <2> QED BY <2>1 DEF Value
<1>3. TableOf(m) \o <<"key">> \notin Sections(u)
  <2>1. Len(TableOf(m) \o <<"key">>) = 3
    BY DEF TableOf
  <2>2. ASSUME NEW q \in Sections(u) PROVE Len(q) # 3
    <3>1. Short(q)
      BY <1>1 DEF Whole
    <3>2. CASE \E d : q = <<d>>
      BY <3>2
    <3>3. CASE \E d, e : q = <<d, e>>
      BY <3>3
    <3> QED BY <3>1, <3>2, <3>3 DEF Short
  <2> QED BY <2>1, <2>2
<1> QED BY <1>1, <1>2, <1>3

\* A model is what its fields say.
Described(u, m, provider, model, url, key, tier) ==
  /\ provider \in {"ollama", "openai_compatible", "anthropic"}
  /\ model # Absent /\ url # Absent /\ tier[1] \in Tiers
  /\ \/ key # Absent /\ key[1] \in {"env", "keychain"}
     \/ key = Absent /\ provider = "ollama"
  /\ key # Absent /\ key[1] = "keychain" => key = <<"keychain", m>>
  /\ Value(u, TableOf(m), "provider") = <<provider>>
  /\ Value(u, TableOf(m), "model") = model
  /\ Value(u, TableOf(m), "base_url") = url
  /\ Value(u, TableOf(m), "key") = key
  /\ Value(u, TableOf(m), "tier") = tier
  /\ Value(u, TableOf(m), "timeout") = Absent
  /\ Value(u, TableOf(m), "key.env") = Absent
  /\ Value(u, TableOf(m) \o <<"key">>, "env") = Absent
LEMMA ModelBy ==
  ASSUME NEW u, NEW m, NEW provider, NEW model, NEW url, NEW key, NEW tier,
         Described(u, m, provider, model, url, key, tier)
  PROVE  /\ ValidModel(u, m)
         /\ ModelSpec(u, m).client = provider /\ ModelSpec(u, m).model = model
         /\ ModelSpec(u, m).url = url
         /\ ModelSpec(u, m).key = key
<1> USE DEF Described
<1>1. KeyOf(u, m) = key
  BY DEF KeyOf, Given
<1>2. <<provider>> # Absent /\ <<provider>>[1] = provider
  BY DEF Absent
<1>3. provider \in DOMAIN Providers /\ Providers[provider].client = provider
  BY ProvidersAre
<1>4. Client(u, m) = provider
  BY <1>2, <1>3 DEF Client
<1>5. ValidModel(u, m)
  BY <1>1, <1>2, <1>3, <1>4 DEF ValidModel, KeyForms
<1>6. Given(key, Providers[provider].key) = key
  BY ProvidersAre DEF Given
<1>7. ModelSpec(u, m).client = provider /\ ModelSpec(u, m).model = model
  BY <1>2, <1>3 DEF ModelSpec
<1>8. ModelSpec(u, m).url = url
  BY <1>2, <1>3 DEF ModelSpec, Given
<1>9. ModelSpec(u, m).key = key
  BY <1>1, <1>2, <1>3, <1>6 DEF ModelSpec
<1> QED BY <1>5, <1>7, <1>8, <1>9

LEMMA LocalModel ==
  ASSUME NEW a, Sensible(a), NEW u, u = Render(Compose(a)), a.local # ""
  PROVE  /\ ValidModel(u, "local")
         /\ ModelSpec(u, "local").client = "ollama" /\ ModelSpec(u, "local").model = <<a.local>>
         /\ ModelSpec(u, "local").url = <<"localhost">> /\ ModelSpec(u, "local").key = Absent
<1>1. TableOf("local") \in LocalTable(a)
  BY DEF LocalTable
<1>2. \A key : Value(u, TableOf("local"), key) = Value(LocalPart(a), TableOf("local"), key)
  <2>1. Keeps(u, LocalPart(a), LocalTable(a))
    BY Rendered
  <2> QED BY <1>1, <2>1 DEF Keeps
<1>3. PICK t : t = RenderModel(LocalSpec(a))
  OBVIOUS
<1>4. LocalPart(a) = t
  BY <1>3 DEF LocalPart, If
<1>5. /\ Holding(t, TableOf("local"), {"provider", "model", "base_url", "tier"})
      /\ Value(t, TableOf("local"), "provider") = <<"ollama">>
      /\ Value(t, TableOf("local"), "model") = <<a.local>>
      /\ Value(t, TableOf("local"), "base_url") = <<"localhost">>
      /\ Value(t, TableOf("local"), "tier") = <<"large">>
  BY <1>3, LocalSection
<1>6. /\ Value(t, TableOf("local"), "key") = Absent
      /\ Value(t, TableOf("local"), "timeout") = Absent
  BY <1>5 DEF Holding
<1>7. /\ Value(u, TableOf("local"), "provider") = <<"ollama">>
      /\ Value(u, TableOf("local"), "model") = <<a.local>>
      /\ Value(u, TableOf("local"), "base_url") = <<"localhost">>
      /\ Value(u, TableOf("local"), "tier") = <<"large">>
      /\ Value(u, TableOf("local"), "key") = Absent
      /\ Value(u, TableOf("local"), "timeout") = Absent
  BY <1>2, <1>4, <1>5, <1>6
<1>8. /\ Value(u, TableOf("local"), "key.env") = Absent
      /\ Value(u, TableOf("local") \o <<"key">>, "env") = Absent
  BY NoOtherKey
<1>9. <<a.local>> # Absent /\ <<"localhost">> # Absent /\ <<"large">>[1] \in Tiers
  BY DEF Absent, Tiers
<1>10. Described(u, "local", "ollama", <<a.local>>, <<"localhost">>, Absent, <<"large">>)
  BY <1>7, <1>8, <1>9 DEF Described
<1> QED BY <1>10, ModelBy

LEMMA CloudModel ==
  ASSUME NEW a, Sensible(a), NEW u, u = Render(Compose(a)), a.cloud # ""
  PROVE  /\ ValidModel(u, a.cloud)
         /\ ModelSpec(u, a.cloud).client = Clouds[a.cloud].client
         /\ ModelSpec(u, a.cloud).model = <<"default">>
         /\ ModelSpec(u, a.cloud).url = Clouds[a.cloud].url
         /\ ModelSpec(u, a.cloud).key = KeyGiven(a)
<1> DEFINE m == a.cloud
<1>0. m \in CloudNamed
  BY DEF Sensible
<1>1. TableOf(m) \in CloudTable(a)
  BY DEF CloudTable
<1>2. \A key : Value(u, TableOf(m), key) = Value(CloudPart(a), TableOf(m), key)
  <2>1. Keeps(u, CloudPart(a), CloudTable(a))
    BY Rendered
  <2> QED BY <1>1, <2>1 DEF Keeps
<1>3. PICK t : t = RenderModel(CloudSpec(a))
  OBVIOUS
<1>4. CloudPart(a) = t
  BY <1>3 DEF CloudPart, If
<1>5. /\ Holding(t, TableOf(m), {"provider", "model", "base_url", "key", "tier"})
      /\ Value(t, TableOf(m), "provider") = <<Clouds[m].client>>
      /\ Value(t, TableOf(m), "model") = <<"default">>
      /\ Value(t, TableOf(m), "base_url") = Clouds[m].url
      /\ Value(t, TableOf(m), "key") = KeyGiven(a)
      /\ Value(t, TableOf(m), "tier") = <<"small">>
  BY <1>0, <1>3, CloudSection
<1>6. Value(t, TableOf(m), "timeout") = Absent
  BY <1>5 DEF Holding
<1>7. /\ Value(u, TableOf(m), "provider") = <<Clouds[m].client>>
      /\ Value(u, TableOf(m), "model") = <<"default">>
      /\ Value(u, TableOf(m), "base_url") = Clouds[m].url
      /\ Value(u, TableOf(m), "tier") = <<"small">>
      /\ Value(u, TableOf(m), "key") = KeyGiven(a)
      /\ Value(u, TableOf(m), "timeout") = Absent
  BY <1>2, <1>4, <1>5, <1>6
<1>8. /\ Value(u, TableOf(m), "key.env") = Absent
      /\ Value(u, TableOf(m) \o <<"key">>, "env") = Absent
  BY NoOtherKey
<1>9. /\ <<"default">> # Absent /\ <<"small">>[1] \in Tiers
      /\ Clouds[m].client \in {"ollama", "openai_compatible", "anthropic"}
      /\ Clouds[m].url # Absent
  BY <1>0, CloudServed DEF Absent, Tiers
<1>10. /\ KeyGiven(a) # Absent
       /\ KeyGiven(a)[1] \in {"env", "keychain"}
       /\ KeyGiven(a)[1] = "keychain" => KeyGiven(a) = <<"keychain", m>>
  BY DEF KeyGiven, Absent
<1> HIDE DEF m
<1>11. /\ ValidModel(u, m)
       /\ ModelSpec(u, m).client = Clouds[m].client /\ ModelSpec(u, m).model = <<"default">>
       /\ ModelSpec(u, m).url = Clouds[m].url
       /\ ModelSpec(u, m).key = KeyGiven(a)
  <2>1. Described(u, m, Clouds[m].client, <<"default">>, Clouds[m].url, KeyGiven(a), <<"small">>)
    BY <1>7, <1>8, <1>9, <1>10 DEF Described
  <2> QED BY <2>1, ModelBy
<1> QED BY <1>11 DEF m

LEMMA AgentModel ==
  ASSUME NEW a, Sensible(a), NEW u, u = Render(Compose(a)), a.agent # ""
  PROVE  LET m == AgentName[a.agent] IN
         /\ ValidModel(u, m)
         /\ ModelSpec(u, m).client = "cli_agent" /\ ModelSpec(u, m).model = Preset(a.agent)
         /\ ModelSpec(u, m).url = Absent /\ ModelSpec(u, m).key = Absent
<1> DEFINE m == AgentName[a.agent]
<1>0. a.agent \in ToSet(Agents)
  BY DEF Sensible
<1>1. TableOf(m) \in AgentTable(a)
  BY DEF AgentTable
<1>2. \A key : Value(u, TableOf(m), key) = Value(AgentPart(a), TableOf(m), key)
  <2>1. Keeps(u, AgentPart(a), AgentTable(a))
    BY Rendered
  <2> QED BY <1>1, <2>1 DEF Keeps
<1>3. PICK t : t = RenderModel(AgentSpec(a))
  OBVIOUS
<1>4. AgentPart(a) = t
  BY <1>3 DEF AgentPart, If
<1>5. /\ Holding(t, TableOf(m), {"provider", "command", "tier"})
      /\ Value(t, TableOf(m), "provider") = <<"cli_agent">>
      /\ Value(t, TableOf(m), "command") = <<a.agent>>
      /\ Value(t, TableOf(m), "tier") = <<"agent">>
  BY <1>0, <1>3, AgentSection
<1> HIDE DEF m
<1>6. /\ Value(t, TableOf(m), "key") = Absent /\ Value(t, TableOf(m), "timeout") = Absent
      /\ Value(t, TableOf(m), "template") = Absent /\ Value(t, TableOf(m), "base_url") = Absent
  BY <1>5 DEF Holding
<1>7. /\ Value(u, TableOf(m), "provider") = <<"cli_agent">>
      /\ Value(u, TableOf(m), "command") = <<a.agent>>
      /\ Value(u, TableOf(m), "tier") = <<"agent">>
      /\ Value(u, TableOf(m), "key") = Absent /\ Value(u, TableOf(m), "timeout") = Absent
      /\ Value(u, TableOf(m), "template") = Absent /\ Value(u, TableOf(m), "base_url") = Absent
  BY <1>2, <1>4, <1>5, <1>6
<1>8. /\ Value(u, TableOf(m), "key.env") = Absent
      /\ Value(u, TableOf(m) \o <<"key">>, "env") = Absent
  BY NoOtherKey
<1>9. KeyOf(u, m) = Absent
  BY <1>7, <1>8 DEF KeyOf, Given
<1>10. /\ <<"cli_agent">> # Absent /\ <<"cli_agent">>[1] = "cli_agent" /\ <<a.agent>> # Absent
       /\ <<a.agent>>[1] = a.agent /\ <<"agent">>[1] \in Tiers
  BY DEF Absent, Tiers
<1>11. /\ "cli_agent" \in DOMAIN Providers /\ Providers["cli_agent"].client = "cli_agent"
       /\ Providers["cli_agent"].key = Absent /\ Providers["cli_agent"].url = Absent
  BY ProvidersAre
<1>12. Client(u, m) = "cli_agent"
  BY <1>7, <1>10, <1>11 DEF Client
<1>13. ValidModel(u, m)
  BY <1>7, <1>9, <1>10, <1>11, <1>12 DEF ValidModel
<1>14. ModelSpec(u, m).client = "cli_agent"
  BY <1>7, <1>10, <1>11 DEF ModelSpec
<1>15. ModelSpec(u, m).model = Preset(a.agent)
  BY <1>7, <1>10, <1>11 DEF ModelSpec, Given
<1>16. ModelSpec(u, m).url = Absent
  BY <1>7, <1>10, <1>11 DEF ModelSpec, Given
<1>17. ModelSpec(u, m).key = Absent
  BY <1>7, <1>9, <1>10, <1>11 DEF ModelSpec, Given
<1> QED BY <1>13, <1>14, <1>15, <1>16, <1>17 DEF m
-----------------------------------------------------------------------------
(***************************************************************************)
(* What it means: its routes and its options.                              *)
(***************************************************************************)
\* The model's own names.
Names(a) == (IF a.local # "" THEN {"local"} ELSE {}) \union (IF a.cloud # "" THEN {a.cloud} ELSE {})
            \union (IF a.agent # "" THEN {AgentName[a.agent]} ELSE {})

LEMMA NamesGiven ==
  ASSUME NEW a, Sensible(a)
  PROVE  /\ \A m \in Names(a) : m # "rules-only"
         /\ Tables(a) = {TableOf(m) : m \in Names(a)}
<1>1. /\ a.cloud # "" => a.cloud \in {"claude", "openai", "gemini"}
      /\ a.agent # "" => AgentName[a.agent] \in AgentNamed
  BY AgentNamesAre DEF Sensible, CloudNamed
<1>2. \A m \in Names(a) : m # "rules-only"
  BY <1>1 DEF Names, AgentNamed
<1>3. Tables(a) = {TableOf(m) : m \in Names(a)}
  BY DEF Names, Tables, LocalTable, CloudTable, AgentTable
<1> QED BY <1>2, <1>3

LEMMA NamesRead ==
  ASSUME NEW a, Sensible(a), NEW u, u = Render(Compose(a))
  PROVE  ModelNames(u) = Names(a)
<1>1. Sections(u) = {TableOf(m) : m \in Names(a)}
                    \union {<<"routing">>, <<"routing", "constraints">>, <<"ui">>}
  BY Rendered, NamesGiven
<1> DEFINE named == {q \in Sections(u) : Len(q) = 2 /\ q[1] = "models"}
<1>2. \A m : Len(TableOf(m)) = 2 /\ TableOf(m)[1] = "models" /\ TableOf(m)[2] = m
  BY DEF TableOf
<1>3. /\ Len(<<"routing">>) # 2 /\ Len(<<"ui">>) # 2 /\ <<"routing", "constraints">>[1] # "models"
  OBVIOUS
<1>4. named = {TableOf(m) : m \in Names(a)}
  <2>1. ASSUME NEW q \in named PROVE q \in {TableOf(m) : m \in Names(a)}
    BY <1>1, <1>3
  <2>2. ASSUME NEW q \in {TableOf(m) : m \in Names(a)} PROVE q \in named
    <3>1. PICK m \in Names(a) : q = TableOf(m)
      OBVIOUS
    <3>2. q \in Sections(u) /\ Len(q) = 2 /\ q[1] = "models"
      BY <1>1, <1>2, <3>1
    <3> QED BY <3>2
  <2> QED BY <2>1, <2>2
<1>5. ModelNames(u) = {p[2] : p \in named}
  BY DEF ModelNames
<1> HIDE DEF named
<1>6. \A m \in Names(a) : m \in {p[2] : p \in named}
  BY <1>2, <1>4
<1>7. \A m \in {p[2] : p \in named} : m \in Names(a)
  BY <1>2, <1>4
<1> QED BY <1>5, <1>6, <1>7

\* A route of two names at most is read as it is written.
LEMMA RouteRead ==
  ASSUME NEW x, NEW y, NEW p \in BOOLEAN, NEW q \in BOOLEAN,
         p => x # "rules-only", q => y # "rules-only"
  PROVE  ModelsIn(If(p, <<x>>) \o If(q, <<y>>)) = If(p, <<x>>) \o If(q, <<y>>)
<1>1. /\ << >> \o << >> = << >>
      /\ \A i : << >> \o <<i>> = <<i>> /\ <<i>> \o << >> = <<i>>
  <2>1. << >> \in Seq({}) /\ \A i : <<i>> \in Seq({i})
    OBVIOUS
  <2> QED BY <2>1, NothingAdded
<1>2. CASE p /\ q
  <2>1. PICK names : names = <<x>> \o <<y>>
    OBVIOUS
  <2>2. Len(names) = 2 /\ names[1] = x /\ names[2] = y
    BY <2>1, PairUp
  <2>3. names[1] # "rules-only" /\ names[2] # "rules-only"
    BY <1>2, <2>2
  <2>4. ModelsIn(names) = (<< >> \o <<names[1]>>) \o <<names[2]>>
    BY <2>2, <2>3, NamesAre
  <2>5. ModelsIn(names) = names
    BY <1>1, <2>1, <2>2, <2>4
  <2> QED BY <1>2, <2>1, <2>5 DEF If
<1>3. CASE p /\ ~q
  <2>1. If(p, <<x>>) \o If(q, <<y>>) = <<x>>
    BY <1>1, <1>3 DEF If
  <2>2. PICK names : names = <<x>>
    OBVIOUS
  <2>3. Len(names) = 1 /\ names[1] = x /\ names[1] # "rules-only"
    BY <1>3, <2>2
  <2>4. ModelsIn(names) = << >> \o <<names[1]>>
    BY <2>3, NamesAre
  <2> QED BY <1>1, <2>1, <2>2, <2>3, <2>4
<1>4. CASE ~p /\ q
  <2>1. If(p, <<x>>) \o If(q, <<y>>) = <<y>>
    BY <1>1, <1>4 DEF If
  <2>2. PICK names : names = <<y>>
    OBVIOUS
  <2>3. Len(names) = 1 /\ names[1] = y /\ names[1] # "rules-only"
    BY <1>4, <2>2
  <2>4. ModelsIn(names) = << >> \o <<names[1]>>
    BY <2>3, NamesAre
  <2> QED BY <1>1, <2>1, <2>2, <2>3, <2>4
<1>5. CASE ~p /\ ~q
  <2>1. If(p, <<x>>) \o If(q, <<y>>) = << >>
    BY <1>1, <1>5 DEF If
  <2>2. PICK names : names = << >>
    OBVIOUS
  <2>3. Len(names) = 0
    BY <2>2
  <2>4. ModelsIn(names) = << >>
    BY <2>3, NamesAre
  <2> QED BY <2>1, <2>2, <2>4
<1> QED BY <1>2, <1>3, <1>4, <1>5

LEMMA RoutesRead ==
  ASSUME NEW a, Sensible(a), NEW u, u = Render(Compose(a))
  PROVE  /\ Route(u, "quick_fix") = LocalNames(a) \o CloudNames(a)
         /\ Route(u, "explain") = CloudNames(a) \o LocalNames(a)
         /\ Route(u, "investigate") = If(a.agent # "", <<AgentName[a.agent]>>)
<1>1. Keeps(u, RenderRouting(Compose(a)), {<<"routing">>})
  BY Rendered
<1>2. \A key : Value(u, <<"routing">>, key) = Value(RenderRouting(Compose(a)), <<"routing">>, key)
  BY <1>1 DEF Keeps
<1>3. /\ Value(u, <<"routing">>, "quick_fix") = LocalNames(a) \o CloudNames(a)
      /\ Value(u, <<"routing">>, "explain") = CloudNames(a) \o LocalNames(a)
      /\ Value(u, <<"routing">>, "investigate") = If(a.agent # "", <<AgentName[a.agent]>>)
  BY <1>2, RoutingSection
<1>4. /\ a.cloud # "" => a.cloud # "rules-only"
      /\ a.agent # "" => AgentName[a.agent] # "rules-only"
      /\ "local" # "rules-only"
  BY NamesGiven DEF Names
<1>5. ModelsIn(LocalNames(a) \o CloudNames(a)) = LocalNames(a) \o CloudNames(a)
  BY <1>4, RouteRead DEF LocalNames, CloudNames
<1>6. ModelsIn(CloudNames(a) \o LocalNames(a)) = CloudNames(a) \o LocalNames(a)
  BY <1>4, RouteRead DEF LocalNames, CloudNames
<1>7. ModelsIn(If(a.agent # "", <<AgentName[a.agent]>>)) = If(a.agent # "", <<AgentName[a.agent]>>)
  <2>1. CASE a.agent # ""
    <3>1. PICK names : names = <<AgentName[a.agent]>>
      OBVIOUS
    <3>2. Len(names) = 1 /\ names[1] # "rules-only"
      BY <1>4, <2>1, <3>1
    <3>3. ModelsIn(names) = << >> \o <<names[1]>>
      BY <3>2, NamesAre
    <3>4. names \in Seq({AgentName[a.agent]}) /\ <<names[1]>> = names
      BY <3>1
    <3>5. << >> \o names = names
      BY <3>4, NothingAdded
    <3> QED BY <2>1, <3>1, <3>3, <3>4, <3>5 DEF If
  <2>2. CASE a.agent = ""
    <3>1. PICK names : names = << >>
      OBVIOUS
    <3>2. Len(names) = 0
      BY <3>1
    <3>3. ModelsIn(names) = << >>
      BY <3>2, NamesAre
    <3> QED BY <2>2, <3>1, <3>3 DEF If
  <2> QED BY <2>1, <2>2
<1> QED BY <1>3, <1>5, <1>6, <1>7 DEF Route

\* Every option of a composed file has its default.
Standard(u, o) ==
  LET word == Value(u, Under(o), o) IN
  \/ word = Absent
  \/ word # Absent /\ word[1] \in DOMAIN Accepted[o] /\ Accepted[o][word[1]] = Default[o]

LEMMA OptionsAre ==
  /\ DOMAIN Accepted = {"mode", "hotkey", "language", "eager_fix", "links",
                         "ascii", "sensitive_output", "same_failure", "sync_budget",
                         "max_daily_cost", "stderr_tee"}
  /\ "toast" \in DOMAIN Accepted["mode"] /\ Accepted["mode"]["toast"] = Default["mode"]
  /\ "K" \in DOMAIN Accepted["hotkey"] /\ Accepted["hotkey"]["K"] = Default["hotkey"]
  /\ "auto" \in DOMAIN Accepted["language"] /\ Accepted["language"]["auto"] = Default["language"]
  /\ "auto" \in DOMAIN Accepted["eager_fix"] /\ Accepted["eager_fix"]["auto"] = Default["eager_fix"]
  /\ "true" \in DOMAIN Accepted["links"] /\ Accepted["links"]["true"] = Default["links"]
  /\ "false" \in DOMAIN Accepted["ascii"] /\ Accepted["ascii"]["false"] = Default["ascii"]
  /\ "local_only" \in DOMAIN Accepted["sensitive_output"]
  /\ Accepted["sensitive_output"]["local_only"] = Default["sensitive_output"]
BY DEF Accepted, Default, Itself, Letters, TakenKeys, Languages, Units

LEMMA UnderAre ==
  /\ \A o \in {"mode", "hotkey", "language", "eager_fix", "links", "ascii"} : Under(o) = <<"ui">>
  /\ Under("same_failure") = <<"quiet">> /\ Under("sync_budget") = <<"daemon">>
  /\ Under("stderr_tee") = <<"capture">>
  /\ Under("sensitive_output") = <<"routing", "constraints">>
  /\ Under("max_daily_cost") = <<"routing", "constraints">>
BY DEF Under

LEMMA OptionsRead ==
  ASSUME NEW a, Sensible(a), NEW u, u = Render(Compose(a))
  PROVE  /\ \A o \in DOMAIN Accepted : Standard(u, o)
         /\ Value(u, <<"capture">>, "sources") = Absent
<1>1. /\ Keeps(u, RenderConstraints(Compose(a)), {<<"routing", "constraints">>})
      /\ Keeps(u, RenderUi(Compose(a)), {<<"ui">>})
      /\ Sections(u) = Tables(a) \union {<<"routing">>, <<"routing", "constraints">>, <<"ui">>}
      /\ \A path, key : path \notin Sections(u) => Value(u, path, key) = Absent
  BY Rendered
<1>2. \A path \in Tables(a) : Len(path) = 2
  <2>1. \A m : Len(TableOf(m)) = 2
    BY DEF TableOf
  <2> QED BY <2>1, NamesGiven
<1>3. \A path \in {<<"quiet">>, <<"daemon">>, <<"capture">>} : path \notin Sections(u)
  <2> SUFFICES ASSUME NEW path \in {<<"quiet">>, <<"daemon">>, <<"capture">>}
               PROVE  path \notin Sections(u)
    OBVIOUS
  <2>1. Len(path) = 1
    OBVIOUS
  <2>2. path # <<"routing">> /\ path # <<"routing", "constraints">> /\ path # <<"ui">>
    OBVIOUS
  <2> QED BY <1>1, <1>2, <2>1, <2>2
<1>4. \A key : /\ Value(u, <<"quiet">>, key) = Absent /\ Value(u, <<"daemon">>, key) = Absent
              /\ Value(u, <<"capture">>, key) = Absent
  BY <1>1, <1>3
<1>5. \A key : Value(u, <<"ui">>, key) = Value(RenderUi(Compose(a)), <<"ui">>, key)
  BY <1>1 DEF Keeps
<1>6. \A key : Value(u, <<"routing", "constraints">>, key)
                = Value(RenderConstraints(Compose(a)), <<"routing", "constraints">>, key)
  BY <1>1 DEF Keeps
<1>7. /\ Value(u, <<"ui">>, "mode") = <<"toast">> /\ Value(u, <<"ui">>, "hotkey") = <<"K">>
      /\ Value(u, <<"ui">>, "language") = <<"auto">>
      /\ Value(u, <<"ui">>, "ascii") = <<"false">> /\ Value(u, <<"ui">>, "links") = <<"true">>
      /\ Value(u, <<"ui">>, "eager_fix") = <<"auto">>
  BY <1>5, UiSection
<1>8. Value(u, <<"routing", "constraints">>, "sensitive_output") = <<"local_only">>
  BY <1>6, ConstraintSection
<1>9. Value(u, <<"routing", "constraints">>, "max_daily_cost") = Absent
  <2>1. PICK t : t = RenderConstraints(Compose(a))
    OBVIOUS
  <2>2. Holding(t, <<"routing", "constraints">>, {"sensitive_output"})
    BY <2>1, ConstraintSection
  <2>3. Value(t, <<"routing", "constraints">>, "max_daily_cost") = Absent
    BY <2>2 DEF Holding
  <2> QED BY <1>6, <2>1, <2>3
<1>10. Standard(u, "mode")
  <2>1. Value(u, Under("mode"), "mode") = <<"toast">>
    BY <1>7, UnderAre
  <2>2. <<"toast">> # Absent /\ <<"toast">>[1] = "toast"
    BY DEF Absent
  <2> QED BY <2>1, <2>2, OptionsAre DEF Standard
<1>11. Standard(u, "hotkey")
  <2>1. Value(u, Under("hotkey"), "hotkey") = <<"K">>
    BY <1>7, UnderAre
  <2>2. <<"K">> # Absent /\ <<"K">>[1] = "K"
    BY DEF Absent
  <2> QED BY <2>1, <2>2, OptionsAre DEF Standard
<1>12. Standard(u, "language")
  <2>1. Value(u, Under("language"), "language") = <<"auto">>
    BY <1>7, UnderAre
  <2>2. <<"auto">> # Absent /\ <<"auto">>[1] = "auto"
    BY DEF Absent
  <2> QED BY <2>1, <2>2, OptionsAre DEF Standard
<1>13. Standard(u, "eager_fix")
  <2>1. Value(u, Under("eager_fix"), "eager_fix") = <<"auto">>
    BY <1>7, UnderAre
  <2>2. <<"auto">> # Absent /\ <<"auto">>[1] = "auto"
    BY DEF Absent
  <2> QED BY <2>1, <2>2, OptionsAre DEF Standard
<1>14. Standard(u, "links")
  <2>1. Value(u, Under("links"), "links") = <<"true">>
    BY <1>7, UnderAre
  <2>2. <<"true">> # Absent /\ <<"true">>[1] = "true"
    BY DEF Absent
  <2> QED BY <2>1, <2>2, OptionsAre DEF Standard
<1>15. Standard(u, "ascii")
  <2>1. Value(u, Under("ascii"), "ascii") = <<"false">>
    BY <1>7, UnderAre
  <2>2. <<"false">> # Absent /\ <<"false">>[1] = "false"
    BY DEF Absent
  <2> QED BY <2>1, <2>2, OptionsAre DEF Standard
<1>16. Standard(u, "sensitive_output")
  <2>1. Value(u, Under("sensitive_output"), "sensitive_output") = <<"local_only">>
    BY <1>8, UnderAre
  <2>2. <<"local_only">> # Absent /\ <<"local_only">>[1] = "local_only"
    BY DEF Absent
  <2> QED BY <2>1, <2>2, OptionsAre DEF Standard
<1>17. /\ Standard(u, "same_failure") /\ Standard(u, "sync_budget")
       /\ Standard(u, "stderr_tee") /\ Standard(u, "max_daily_cost")
  BY <1>4, <1>9, UnderAre DEF Standard
<1> QED BY <1>4, <1>10, <1>11, <1>12, <1>13, <1>14, <1>15, <1>16, <1>17, OptionsAre

LEMMA OneHolds ==
  ASSUME NEW x
  PROVE  <<x>>[1] = x /\ Contains(<<x>>, x) /\ ToSet(<<x>>) = {x}
<1>1. <<x>>[1] = x /\ DOMAIN <<x>> = {1} /\ Len(<<x>>) = 1
  OBVIOUS
<1> QED BY <1>1 DEF Contains, ToSet

LEMMA TwoHold ==
  ASSUME NEW x, NEW y
  PROVE  LET r == <<x>> \o <<y>> IN
         r[1] = x /\ Contains(r, x) /\ Contains(r, y) /\ ToSet(r) = {x, y}
<1>1. PICK r : r = <<x>> \o <<y>>
  OBVIOUS
<1>2. Len(r) = 2 /\ r[1] = x /\ r[2] = y
  BY <1>1, PairUp
<1>3. DOMAIN r = {1, 2}
  <2>1. <<x>> \o <<y>> \in Seq({x, y})
    OBVIOUS
  <2>2. DOMAIN r = 1 .. 2
    BY <1>1, <1>2, <2>1
  <2> QED BY <2>2
<1>4. ToSet(r) = {x, y}
  BY <1>2, <1>3 DEF ToSet
<1>5. Contains(r, x) /\ Contains(r, y)
  <2>1. 1 \in 1 .. Len(r) /\ 2 \in 1 .. Len(r)
    BY <1>2
  <2> QED BY <1>2, <1>3, <2>1 DEF Contains
<1> QED BY <1>1, <1>2, <1>4, <1>5

\* A route of two names, each there when its answer is not empty.
Paired(r, x, y, p, q) == r = If(p # "", <<x>>) \o If(q # "", <<y>>)

LEMMA PairHolds ==
  ASSUME NEW r, NEW x, NEW y, NEW p, NEW q, Paired(r, x, y, p, q)
  PROVE  /\ p # "" => r[1] = x /\ Contains(r, x)
         /\ q # "" => Contains(r, y)
         /\ \A z \in ToSet(r) : (p # "" /\ z = x) \/ (q # "" /\ z = y)
<1>1. /\ << >> \o << >> = << >>
      /\ \A i : << >> \o <<i>> = <<i>> /\ <<i>> \o << >> = <<i>>
  <2>1. << >> \in Seq({}) /\ \A i : <<i>> \in Seq({i})
    OBVIOUS
  <2> QED BY <2>1, NothingAdded
<1>2. CASE p # "" /\ q # ""
  <2>1. r = <<x>> \o <<y>>
    BY <1>2 DEF Paired, If
  <2>2. r[1] = x /\ Contains(r, x) /\ Contains(r, y) /\ ToSet(r) = {x, y}
    BY <2>1, TwoHold
  <2> QED BY <1>2, <2>2
<1>3. CASE p # "" /\ q = ""
  <2>1. r = <<x>>
    BY <1>1, <1>3 DEF Paired, If
  <2>2. r[1] = x /\ Contains(r, x) /\ ToSet(r) = {x}
    BY <2>1, OneHolds
  <2> QED BY <1>3, <2>2
<1>4. CASE p = "" /\ q # ""
  <2>1. r = <<y>>
    BY <1>1, <1>4 DEF Paired, If
  <2>2. r[1] = y /\ Contains(r, y) /\ ToSet(r) = {y}
    BY <2>1, OneHolds
  <2> QED BY <1>4, <2>2
<1>5. CASE p = "" /\ q = ""
  <2>1. r = << >>
    BY <1>1, <1>5 DEF Paired, If
  <2>2. ToSet(<< >>) = {}
    BY DEF ToSet
  <2> QED BY <1>5, <2>1, <2>2
<1> QED BY <1>2, <1>3, <1>4, <1>5

LEMMA PairFirst ==
  ASSUME NEW r, NEW x, NEW y, NEW p, NEW q, Paired(r, x, y, p, q), p # ""
  PROVE  r[1] = x
<1>1. r[1] = x
  BY PairHolds
<1> QED BY <1>1

LEMMA PairLast ==
  ASSUME NEW r, NEW x, NEW y, NEW p, NEW q, Paired(r, x, y, p, q), q # ""
  PROVE  Contains(r, y)
<1>1. Contains(r, y)
  BY PairHolds
<1> QED BY <1>1

LEMMA PairOnly ==
  ASSUME NEW r, NEW x, NEW y, NEW p, NEW q, Paired(r, x, y, p, q), NEW z \in ToSet(r)
  PROVE  (p # "" /\ z = x) \/ (q # "" /\ z = y)
<1>1. \A w \in ToSet(r) : (p # "" /\ w = x) \/ (q # "" /\ w = y)
  BY PairHolds
<1> QED BY <1>1

LEMMA RoutesPaired ==
  ASSUME NEW a, Sensible(a)
  PROVE  /\ Paired(LocalNames(a) \o CloudNames(a), "local", a.cloud, a.local, a.cloud)
         /\ Paired(CloudNames(a) \o LocalNames(a), a.cloud, "local", a.cloud, a.local)
BY DEF Paired, LocalNames, CloudNames

LEMMA ComposedValid ==
  ASSUME NEW a, Sensible(a), NEW u, u = Render(Compose(a))
  PROVE  Parses(u) /\ Valid(u)
<1>1. Parses(u)
  BY Rendered, WholeParses
<1>2. \A m \in ModelNames(u) : ValidModel(u, m)
  <2>1. ASSUME NEW m \in Names(a) PROVE ValidModel(u, m)
    <3>1. \/ a.local # "" /\ m = "local"
          \/ a.cloud # "" /\ m = a.cloud
          \/ a.agent # "" /\ m = AgentName[a.agent]
      BY DEF Names
    <3> QED BY <3>1, LocalModel, CloudModel, AgentModel
  <2> QED BY <2>1, NamesRead
<1>3. \A task \in Tasks : ToSet(Route(u, task)) \subseteq ModelNames(u)
  <2>1. ToSet(Route(u, "quick_fix")) \subseteq Names(a)
    <3>1. PICK r : r = Route(u, "quick_fix")
      OBVIOUS
    <3>2. Paired(r, "local", a.cloud, a.local, a.cloud)
      BY <3>1, RoutesRead, RoutesPaired
    <3>3. \A z \in ToSet(r) : (a.local # "" /\ z = "local") \/ (a.cloud # "" /\ z = a.cloud)
      BY <3>2, PairOnly
    <3> QED BY <3>1, <3>3 DEF Names
  <2>2. ToSet(Route(u, "explain")) \subseteq Names(a)
    <3>1. PICK r : r = Route(u, "explain")
      OBVIOUS
    <3>2. Paired(r, a.cloud, "local", a.cloud, a.local)
      BY <3>1, RoutesRead, RoutesPaired
    <3>3. \A z \in ToSet(r) : (a.cloud # "" /\ z = a.cloud) \/ (a.local # "" /\ z = "local")
      BY <3>2, PairOnly
    <3> QED BY <3>1, <3>3 DEF Names
  <2>3. ToSet(Route(u, "investigate")) \subseteq Names(a)
    <3>1. CASE a.agent # ""
      <4>1. Route(u, "investigate") = <<AgentName[a.agent]>>
        BY <3>1, RoutesRead DEF If
      <4>2. AgentName[a.agent] \in Names(a)
        BY <3>1 DEF Names
      <4> QED BY <4>1, <4>2 DEF ToSet
    <3>2. CASE a.agent = ""
      <4>1. Route(u, "investigate") = << >>
        BY <3>2, RoutesRead DEF If
      <4> QED BY <4>1 DEF ToSet
    <3> QED BY <3>1, <3>2
  <2> QED BY <2>1, <2>2, <2>3, NamesRead DEF Tasks
<1>4. \A o \in DOMAIN Accepted :
        LET word == Value(u, Under(o), o) IN word # Absent => word[1] \in DOMAIN Accepted[o]
  BY OptionsRead DEF Standard
<1>5. ToSet(Value(u, <<"capture">>, "sources")) \subseteq Captures
  <2>1. Value(u, <<"capture">>, "sources") = << >>
    BY OptionsRead DEF Absent
  <2> QED BY <2>1 DEF ToSet
<1>6. Valid(u)
  BY <1>2, <1>3, <1>4, <1>5 DEF Valid
<1> QED BY <1>1, <1>6

\* The settings that a composed file means.
LEMMA ComposedMeans ==
  ASSUME NEW a, Sensible(a), NEW s, s = SettingsOf(Render(Compose(a)))
  PROVE  /\ s.ok /\ DOMAIN s.models = Names(a)
         /\ \A m \in Names(a) : s.models[m] = ModelSpec(Render(Compose(a)), m)
         /\ s.route["quick_fix"] = LocalNames(a) \o CloudNames(a)
         /\ s.route["explain"] = CloudNames(a) \o LocalNames(a)
         /\ s.route["investigate"] = If(a.agent # "", <<AgentName[a.agent]>>)
         /\ s.option["eager_fix"] = "auto" /\ s.option["sensitive_output"] = "local_only"
<1>1. PICK u : u = Render(Compose(a))
  OBVIOUS
<1>2. s = [ok      |-> TRUE,
           models  |-> [m \in ModelNames(u) |-> ModelSpec(u, m)],
           route   |-> [task \in Tasks |-> Route(u, task)],
           option  |-> [o \in DOMAIN Accepted |-> Option(u, o)],
           sources |-> SourcesOf(u)]
  BY <1>1, ComposedValid DEF SettingsOf
<1>3. /\ s.ok /\ s.models = [m \in ModelNames(u) |-> ModelSpec(u, m)]
      /\ s.route = [task \in Tasks |-> Route(u, task)]
      /\ s.option = [o \in DOMAIN Accepted |-> Option(u, o)]
  BY <1>2
<1>4. DOMAIN s.models = Names(a) /\ \A m \in Names(a) : s.models[m] = ModelSpec(u, m)
  BY <1>1, <1>3, NamesRead
<1>5. \A task \in Tasks : s.route[task] = Route(u, task)
  BY <1>3
<1>6. /\ s.route["quick_fix"] = LocalNames(a) \o CloudNames(a)
      /\ s.route["explain"] = CloudNames(a) \o LocalNames(a)
      /\ s.route["investigate"] = If(a.agent # "", <<AgentName[a.agent]>>)
  BY <1>1, <1>5, RoutesRead DEF Tasks
<1>7. \A o \in DOMAIN Accepted : s.option[o] = Default[o]
  <2>1. ASSUME NEW o \in DOMAIN Accepted PROVE Option(u, o) = Default[o]
    <3>1. Standard(u, o)
      BY <1>1, OptionsRead
    <3> QED BY <3>1 DEF Standard, Option
  <2> QED BY <1>3, <2>1
<1>8. s.option["eager_fix"] = "auto" /\ s.option["sensitive_output"] = "local_only"
  BY <1>7, OptionsAre, DefaultsAre
<1> QED BY <1>1, <1>3, <1>4, <1>6, <1>8

LEMMA ComposedServes ==
  ASSUME NEW a, Sensible(a), NEW s, s = SettingsOf(Render(Compose(a)))
  PROVE  MeansWhatWasAnswered(s, a)
<1>1. PICK u : u = Render(Compose(a))
  OBVIOUS
<1>2. \A m \in Names(a) : s.models[m] = ModelSpec(u, m)
  BY <1>1, ComposedMeans
<1>3. PICK fixes, explains : fixes = s.route.quick_fix /\ explains = s.route.explain
  OBVIOUS
<1>4. PICK local, cloud : local = a.local /\ cloud = a.cloud
  OBVIOUS
<1>5. /\ Paired(fixes, "local", cloud, local, cloud)
      /\ Paired(explains, cloud, "local", cloud, local)
  <2>1. /\ s.route["quick_fix"] = LocalNames(a) \o CloudNames(a)
        /\ s.route["explain"] = CloudNames(a) \o LocalNames(a)
    BY ComposedMeans
  <2> QED BY <1>3, <1>4, <2>1, RoutesPaired
<1>6. /\ local # "" => fixes[1] = "local"
      /\ cloud # "" => Contains(fixes, cloud)
  BY <1>5, PairFirst, PairLast
<1>7. cloud # "" => explains[1] = cloud
  BY <1>5, PairFirst
<1>8. ASSUME a.local # ""
      PROVE  /\ s.route.quick_fix[1] = "local"
             /\ IsLocal(s.models["local"]) /\ s.models["local"].model = <<a.local>>
  <2>1. s.models["local"] = ModelSpec(u, "local")
    <3>1. "local" \in Names(a)
      BY <1>8 DEF Names
    <3> QED BY <1>2, <3>1
  <2>2. s.models["local"].client = "ollama" /\ s.models["local"].model = <<a.local>>
    BY <1>1, <1>8, <2>1, LocalModel
  <2>3. fixes[1] = "local"
    BY <1>8, <1>4, <1>6
  <2> QED BY <1>3, <2>2, <2>3 DEF IsLocal
<1>9. ASSUME a.cloud # ""
      PROVE  /\ s.route.explain[1] = a.cloud
             /\ Contains(s.route.quick_fix, a.cloud)
             /\ s.models[a.cloud].url = Clouds[a.cloud].url
             /\ s.models[a.cloud].key = KeyGiven(a)
  <2>1. s.models[a.cloud] = ModelSpec(u, a.cloud)
    <3>1. a.cloud \in Names(a)
      BY <1>9 DEF Names
    <3> QED BY <1>2, <3>1
  <2>2. s.models[a.cloud].url = Clouds[a.cloud].url /\ s.models[a.cloud].key = KeyGiven(a)
    BY <1>1, <1>9, <2>1, CloudModel
  <2>3. explains[1] = a.cloud
    BY <1>9, <1>4, <1>7
  <2>4. Contains(fixes, a.cloud)
    BY <1>9, <1>4, <1>6
  <2> QED BY <1>3, <2>2, <2>3, <2>4
<1>10. ASSUME a.agent = "" PROVE s.route.investigate = << >>
  BY <1>10, ComposedMeans DEF If
<1>11. ASSUME a.agent # ""
      PROVE  /\ s.route.investigate = <<AgentName[a.agent]>>
             /\ s.models[AgentName[a.agent]].model = Preset(a.agent)
  <2>1. s.models[AgentName[a.agent]] = ModelSpec(u, AgentName[a.agent])
    <3>1. AgentName[a.agent] \in Names(a)
      BY <1>11 DEF Names
    <3> QED BY <1>2, <3>1
  <2>2. s.models[AgentName[a.agent]].model = Preset(a.agent)
    BY <1>1, <1>11, <2>1, AgentModel
  <2> QED BY <1>11, <2>2, ComposedMeans DEF If
<1>12. s.ok /\ s.option.eager_fix = "auto" /\ s.option.sensitive_output = "local_only"
  BY ComposedMeans
<1> QED BY <1>8, <1>9, <1>10, <1>11, <1>12 DEF MeansWhatWasAnswered

\* Doctor sees the model of the file as setup saw the one it composed.
LEMMA ComposedHealth ==
  ASSUME NEW a, Sensible(a), NEW s, s = SettingsOf(Render(Compose(a))), NEW machine,
         NEW spec \in ToSet(Compose(a).models)
  PROVE  Health(spec, machine) = Health(s.models[spec.name], machine)
<1>1. PICK u : u = Render(Compose(a))
  OBVIOUS
<1>2. \A m \in Names(a) : s.models[m] = ModelSpec(u, m)
  BY <1>1, ComposedMeans
<1>3. \/ a.local # "" /\ spec = LocalSpec(a)
      \/ a.cloud # "" /\ spec = CloudSpec(a)
      \/ a.agent # "" /\ spec = AgentSpec(a)
  BY PartsWhole, PartsTogether DEF Whole
<1>4. CASE a.local # "" /\ spec = LocalSpec(a)
  <2>1. /\ spec.name = "local" /\ spec.client = "ollama" /\ spec.key = Absent
    BY <1>4 DEF LocalSpec
  <2>2. s.models["local"] = ModelSpec(u, "local")
    <3>1. "local" \in Names(a)
      BY <1>4 DEF Names
    <3> QED BY <1>2, <3>1
  <2>3. s.models["local"].client = "ollama" /\ s.models["local"].key = Absent
    <3>1. ModelSpec(u, "local").client = "ollama" /\ ModelSpec(u, "local").key = Absent
      BY <1>1, <1>4, LocalModel
    <3> QED BY <2>2, <3>1
  <2> QED BY <2>1, <2>3 DEF Health, Keyless, IsLocal
<1>5. CASE a.cloud # "" /\ spec = CloudSpec(a)
  <2>1. /\ spec.name = a.cloud /\ spec.client = Clouds[a.cloud].client
        /\ spec.url = Clouds[a.cloud].url /\ spec.key = KeyGiven(a)
    BY <1>5 DEF CloudSpec
  <2>2. s.models[a.cloud] = ModelSpec(u, a.cloud)
    <3>1. a.cloud \in Names(a)
      BY <1>5 DEF Names
    <3> QED BY <1>2, <3>1
  <2>3. /\ s.models[a.cloud].client = Clouds[a.cloud].client
        /\ s.models[a.cloud].url = Clouds[a.cloud].url /\ s.models[a.cloud].key = KeyGiven(a)
    BY <1>1, <1>5, <2>2, CloudModel
  <2>4. Clouds[a.cloud].client # "cli_agent"
    BY <1>5, CloudServed DEF Sensible
  <2> QED BY <2>1, <2>3, <2>4 DEF Health, Keyless, IsLocal
<1>6. CASE a.agent # "" /\ spec = AgentSpec(a)
  <2>1. spec.name = AgentName[a.agent] /\ spec.client = "cli_agent" /\ spec.model = <<a.agent>>
    BY <1>6 DEF AgentSpec
  <2>2. s.models[AgentName[a.agent]] = ModelSpec(u, AgentName[a.agent])
    <3>1. AgentName[a.agent] \in Names(a)
      BY <1>6 DEF Names
    <3> QED BY <1>2, <3>1
  <2>3. /\ s.models[AgentName[a.agent]].client = "cli_agent"
        /\ s.models[AgentName[a.agent]].model = Preset(a.agent)
    BY <1>1, <1>6, <2>2, AgentModel
  <2>4. <<a.agent>>[1] = a.agent /\ Preset(a.agent)[1] = a.agent
    BY DEF Preset
  <2> QED BY <2>1, <2>3, <2>4 DEF Health, Launched
<1> QED BY <1>3, <1>4, <1>5, <1>6
-----------------------------------------------------------------------------
(***************************************************************************)
(* The commands: what login edits and what setup was answered.             *)
(***************************************************************************)
LEMMA Answered ==
  ASSUME NEW a \in Answers(Installed) \union {Unasked(Installed)}
  PROVE  Sensible(a)
<1>1. CASE a \in Answers(Installed)
  <2>1. a.cloud \in {""} \union DOMAIN Clouds /\ a.agent \in {""} \union ToSet(Agents)
    BY <1>1 DEF Answers
  <2> QED BY <2>1, CloudsAre DEF Sensible
<1>2. CASE a = Unasked(Installed)
  <2> DEFINE found == {i \in DOMAIN Agents : Agents[i] \in Installed}
  <2>1. a.cloud = "" /\ a.agent = IF found = {} THEN "" ELSE Agents[Min(found)]
    BY <1>2 DEF Unasked
  <2>2. found # {} => Agents[Min(found)] \in ToSet(Agents)
    <3>1. DOMAIN Agents \in SUBSET Nat
      BY DEF Agents
    <3>2. found \in SUBSET Nat /\ found \subseteq DOMAIN Agents
      BY <3>1
    <3>3. found # {} => Min(found) \in DOMAIN Agents
      <4> HIDE DEF found
      <4> QED BY <3>2, MinIs
    <3> QED BY <3>3 DEF ToSet
  <2> HIDE DEF found
  <2> QED BY <2>1, <2>2 DEF Sensible
<1> QED BY <1>1, <1>2

LEMMA EditedText ==
  ASSUME NEW t, Text(t), NEW m, PlainHeaders(t, m) # {}
  PROVE  Text(WithKeychainKey(t, m))
<1> DEFINE start == Min(PlainHeaders(t, m))
           end == EndOf(t, start)
           within == (start + 1) .. (end - 1)
           keys == {i \in within : t[i].key = "key"}
           blanks == {i \in within : t[i] = Blank}
           p == IF blanks = {} THEN end ELSE Min(blanks)
           u == WithKeychainKey(t, m)
<1>1. Table(t, m, start, end)
  BY TableIs
<1>2. /\ start \in Nat /\ end \in Nat /\ Len(t) \in Nat /\ DOMAIN t = 1 .. Len(t)
      /\ 1 <= start /\ start < end /\ end <= Len(t) + 1
  BY <1>1, Lines DEF Table
<1>3. u = IF keys # {} THEN ReplaceAt(t, Min(keys), Keychained) ELSE InsertAt(t, p, Keychained)
  BY DEF WithKeychainKey, EditedIn
<1>4. keys \in SUBSET Nat /\ blanks \in SUBSET Nat
  BY <1>2
<1> HIDE DEF u, end, start
<1>5. CASE keys # {}
  <2> DEFINE k == Min(keys)
  <2>1. k \in keys
    <3> HIDE DEF keys
    <3> QED BY <1>4, <1>5, MinIs
  <2>2. k \in DOMAIN t
    <3> HIDE DEF k
    <3> QED BY <1>2, <2>1
  <2>3. u = ReplaceAt(t, k, Keychained)
    BY <1>3, <1>5
  <2> HIDE DEF k, keys
  <2>4. PICK S : t \in Seq(S)
    BY DEF Text
  <2>5. u \in Seq(S \union {Keychained})
    BY <2>2, <2>3, <2>4 DEF ReplaceAt
  <2>6. \A i \in Headers(u) : i # k /\ i \in Headers(t) /\ u[i] = t[i]
    BY <2>2, <2>3, <2>4 DEF ReplaceAt, Headers, Keychained, Field
  <2>7. \A i \in Headers(u) : u[i].key = ""
    BY <2>6 DEF Text
  <2>8. Text(u)
    BY <2>5, <2>7 DEF Text
  <2> QED BY <2>8 DEF u
<1>6. CASE keys = {}
  <2>1. p \in 1 .. Len(t) + 1
    <3>1. CASE blanks = {}
      BY <1>2, <3>1
    <3>2. CASE blanks # {}
      <4>1. Min(blanks) \in blanks
        <5> HIDE DEF blanks
        <5> QED BY <1>4, <3>2, MinIs
      <4>2. Min(blanks) \in 1 .. Len(t) + 1 /\ p = Min(blanks)
        BY <1>2, <3>2, <4>1
      <4> HIDE DEF blanks, p
      <4> QED BY <4>2
    <3> QED BY <3>1, <3>2
  <2>2. u = InsertAt(t, p, Keychained)
    BY <1>3, <1>6
  <2> HIDE DEF p
  <2>3. Text(u)
    BY <2>1, <2>2, Inserted
  <2> QED BY <2>3 DEF u
<1> QED BY <1>5, <1>6

\* Between two steps of the commands, the file is lines under headers; a file
\* that setup wrote is what its answers compose; a login that goes on has its
\* key in the keychain, and writes the edit of the text it read.
Edited ==
  /\ Text(login.before) /\ PlainHeaders(login.before, login.model) # {}
  /\ login.after = WithKeychainKey(login.before, login.model)
SetupHolds ==
  /\ DOMAIN setup = {"stage", "answers"}
  /\ setup.stage # "idle" => Sensible(setup.answers)
  /\ file.by = "setup" => setup.stage = "done" /\ file.text = Render(Compose(setup.answers))
LoginHolds ==
  /\ DOMAIN login = {"stage", "model", "told", "before", "after"}
  /\ login.stage \in {"stored", "edited", "cut", "told"} => login.model \in chain
  /\ login.stage \in {"edited", "cut"} \/ (login.stage = "told" /\ ~login.told) => Edited
CommandInv == Text(file.text) /\ SetupHolds /\ LoginHolds

LEMMA NoText == Text(<< >>)
<1>1. << >> \in Seq({}) /\ Headers(<< >>) = {}
  BY DEF Headers
<1> QED BY <1>1 DEF Text

LEMMA CommandInit == Init => CommandInv
<1> SUFFICES ASSUME Init PROVE CommandInv
  OBVIOUS
<1>1. Text(file.text)
  BY NoText DEF Init
<1>2. SetupHolds
  BY DEF Init, SetupHolds
<1>3. LoginHolds
  BY DEF Init, NoLogin, LoginHolds
<1> QED BY <1>1, <1>2, <1>3 DEF CommandInv

LEMMA CommandSetups == ASSUME CommandInv, Setups PROVE CommandInv'
<1> USE DEF CommandInv
<1>1. UNCHANGED <<chain, login>>
  BY DEF Setups, SetupKeeps, SetupTruncates, SetupFills, SetupDies, SetupAnswered
<1>2. LoginHolds'
  BY <1>1 DEF LoginHolds, Edited
<1>3. CASE SetupKeeps
  BY <1>2, <1>3 DEF SetupKeeps, SetupHolds
<1>4. CASE SetupTruncates
  <2>1. file'.text = << >> /\ file'.by = "cut"
    BY <1>4 DEF SetupTruncates, Writes
  <2>2. SetupHolds'
    BY <1>4, <2>1 DEF SetupTruncates, SetupHolds
  <2> QED BY <1>2, <2>1, <2>2, NoText
<1>5. CASE SetupFills
  <2>1. file'.text = Render(Compose(setup.answers)) /\ Sensible(setup.answers)
    BY <1>5 DEF SetupFills, Writes, SetupHolds
  <2>2. Text(file'.text)
    BY <2>1, Rendered DEF Whole
  <2>3. setup'.stage = "done" /\ setup'.answers = setup.answers
    BY <1>5 DEF SetupFills, SetupHolds
  <2>4. DOMAIN setup' = {"stage", "answers"}
    BY <1>5 DEF SetupFills, SetupHolds
  <2>5. SetupHolds'
    BY <2>1, <2>3, <2>4 DEF SetupHolds
  <2> QED BY <1>2, <2>2, <2>5
<1>6. CASE SetupDies
  <2>1. file' = file /\ file.by # "setup"
    BY <1>6 DEF SetupDies, SetupHolds
  <2>2. SetupHolds'
    BY <1>6, <2>1 DEF SetupDies, SetupHolds
  <2> QED BY <1>2, <2>1, <2>2
<1>7. CASE \E a \in Answers(Installed) \union {Unasked(Installed)} : SetupAnswered(a)
  <2>1. PICK a \in Answers(Installed) \union {Unasked(Installed)} : SetupAnswered(a)
    BY <1>7
  <2>2. file' = file /\ file.by # "setup" /\ setup' = [stage |-> "answered", answers |-> a]
    BY <2>1 DEF SetupAnswered, SetupHolds
  <2>3. Sensible(a)
    BY Answered
  <2>4. SetupHolds'
    BY <2>2, <2>3 DEF SetupHolds
  <2> QED BY <1>2, <2>2, <2>4
<1> QED BY <1>3, <1>4, <1>5, <1>6, <1>7 DEF Setups

LEMMA CommandLogins == ASSUME CommandInv, Logins PROVE CommandInv'
<1> USE DEF CommandInv
<1>0. setup' = setup
  BY DEF Logins, LoginStores, LoginRefused, LoginReads, LoginTruncates, LoginFills, LoginDies,
         LoginChecks
<1>1. CASE \/ LoginStores \/ LoginRefused \/ LoginReads \/ LoginDies
           \/ \E m \in ModelNames(file.text) : LoginChecks(m)
  <2>1. file' = file
    BY <1>1 DEF LoginStores, LoginRefused, LoginReads, LoginDies, LoginChecks
  <2>2. SetupHolds'
    BY <1>0, <2>1 DEF SetupHolds
  <2>3. LoginHolds'
    <3>1. CASE LoginStores
      BY <3>1 DEF LoginStores, LoginHolds, Edited
    <3>2. CASE LoginRefused \/ LoginDies
      BY <3>2 DEF LoginRefused, LoginDies, LoginHolds
    <3>3. CASE LoginReads /\ PlainHeaders(file.text, login.model) = {}
      BY <3>3 DEF LoginReads, LoginHolds
    <3>4. CASE LoginReads /\ PlainHeaders(file.text, login.model) # {}
      <4>1. login' = [login EXCEPT !.stage = "edited", !.before = file.text,
                                   !.after = WithKeychainKey(file.text, login.model)]
        BY <3>4 DEF LoginReads
      <4>2. /\ DOMAIN login' = {"stage", "model", "told", "before", "after"}
            /\ login'.stage = "edited" /\ login'.model = login.model
            /\ login'.before = file.text
            /\ login'.after = WithKeychainKey(file.text, login.model)
        BY <4>1 DEF LoginHolds
      <4>3. login.model \in chain /\ chain' = chain
        BY <3>4 DEF LoginReads, LoginHolds
      <4>4. Edited'
        BY <3>4, <4>2 DEF Edited
      <4> QED BY <4>2, <4>3, <4>4 DEF LoginHolds
    <3>5. CASE \E m \in ModelNames(file.text) : LoginChecks(m)
      BY <3>5 DEF LoginChecks, NoLogin, LoginHolds
    <3> QED BY <1>1, <3>1, <3>2, <3>3, <3>4, <3>5
  <2> QED BY <2>1, <2>2, <2>3
<1>2. CASE LoginTruncates
  <2>1. file'.text = << >> /\ file'.by = "cut"
    BY <1>2 DEF LoginTruncates, Writes
  <2>2. SetupHolds'
    BY <1>0, <2>1 DEF SetupHolds
  <2>3. LoginHolds'
    BY <1>2 DEF LoginTruncates, LoginHolds, Edited
  <2> QED BY <2>1, <2>2, <2>3, NoText
<1>3. CASE LoginFills
  <2>1. file'.text = login.after /\ file'.by = "login"
    BY <1>3 DEF LoginFills, Writes
  <2>2. Text(login.after)
    <3>1. Edited
      BY <1>3 DEF LoginFills, LoginHolds
    <3> QED BY <3>1, EditedText DEF Edited
  <2>3. SetupHolds'
    BY <1>0, <2>1 DEF SetupHolds
  <2>4. LoginHolds'
    BY <1>3 DEF LoginFills, LoginHolds, Edited
  <2> QED BY <2>1, <2>2, <2>3, <2>4
<1> QED BY <1>1, <1>2, <1>3 DEF Logins

LEMMA CommandStep == ASSUME CommandInv, [Next]_vars PROVE CommandInv'
<1>1. CASE UNCHANGED <<file, chain, setup, login>>
  BY <1>1 DEF CommandInv, SetupHolds, LoginHolds, Edited
<1>2. CASE UNCHANGED vars \/ Daemon \/ Tick
  BY <1>1, <1>2 DEF vars, Daemon, Stats, ServesCached, Reads, Caches, Tick
<1>3. CASE \E text \in Texts : Edit(text)
  <2>1. PICK text \in Texts : Edit(text)
    BY <1>3
  <2>2. file'.text = text /\ file'.by = "editor" /\ UNCHANGED <<chain, setup, login>>
    BY <2>1 DEF Edit, Writes
  <2>3. Text(text)
    BY ConfigAssumption DEF Text
  <2> QED BY <2>2, <2>3 DEF CommandInv, SetupHolds, LoginHolds, Edited
<1>4. CASE Setups
  BY <1>4, CommandSetups
<1>5. CASE Logins
  BY <1>5, CommandLogins
<1> QED BY <1>2, <1>3, <1>4, <1>5 DEF Next, User

\* `login --write-config` puts the key where it says, for any text with the key in
\* one line: the edited file means what it meant, but for that key (with_keychain_key).
THEOREM LoginEdits == Spec => []LoginPoints
<1>1. CommandInv => LoginPoints
  <2> SUFFICES ASSUME CommandInv, login.stage = "told"
               PROVE  /\ login.model \in chain
                      /\ ~login.told /\ SettingsOf(login.before).ok
                           /\ KeyInOneLine(login.before, login.model)
                         => SettingsOf(login.after)
                              = [SettingsOf(login.before) EXCEPT
                                   !.models[login.model].key = <<"keychain", login.model>>]
    BY DEF LoginPoints
  <2>1. login.model \in chain
    BY DEF CommandInv, LoginHolds
  <2>2. ASSUME ~login.told, SettingsOf(login.before).ok, KeyInOneLine(login.before, login.model)
        PROVE  SettingsOf(login.after)
                 = [SettingsOf(login.before) EXCEPT
                      !.models[login.model].key = <<"keychain", login.model>>]
    <3>1. Edited
      BY <2>2 DEF CommandInv, LoginHolds
    <3>2. PICK t, m : t = login.before /\ m = login.model
      OBVIOUS
    <3>3. /\ Text(t) /\ PlainHeaders(t, m) # {} /\ KeyInOneLine(t, m) /\ SettingsOf(t).ok
          /\ login.after = WithKeychainKey(t, m)
      BY <2>2, <3>1, <3>2 DEF Edited
    <3>4. SettingsOf(WithKeychainKey(t, m))
            = [SettingsOf(t) EXCEPT !.models[m].key = <<"keychain", m>>]
      BY <3>3, EditMeans
    <3> QED BY <3>2, <3>3, <3>4
  <2> QED BY <2>1, <2>2
<1>2. Init => CommandInv
  BY CommandInit
<1>3. CommandInv /\ [Next]_vars => CommandInv'
  BY CommandStep
<1> QED BY <1>1, <1>2, <1>3, PTL DEF Spec

\* Three answers reach the daemon through compose, the rendered file, the parser
\* and the cache: what is served for setup's file, read after its tick, is what
\* the user answered, for any programs installed (use_cases/setup.rs, toml_settings.rs).
THEOREM AnswersServed == Spec => []SetupIsServed
<1>1. CommandInv /\ CacheInv => SetupIsServed
  <2> SUFFICES ASSUME CommandInv, CacheInv, file.by = "setup", cache.seen = file.mtime,
                      cache.at > file.mtime
               PROVE  MeansWhatWasAnswered(cache.settings, setup.answers)
    BY DEF SetupIsServed
  <2>1. cache.settings = SettingsRead(file.text)
    BY DEF CacheInv, Clock, CacheTimed, StaleOnlyWithinTick
  <2>2. file.text = Render(Compose(setup.answers)) /\ Sensible(setup.answers)
    BY DEF CommandInv, SetupHolds
  <2>3. PICK a, s : a = setup.answers /\ s = SettingsOf(Render(Compose(a)))
    OBVIOUS
  <2>4. s.ok /\ MeansWhatWasAnswered(s, a)
    BY <2>2, <2>3, ComposedMeans, ComposedServes
  <2>5. cache.settings = s
    BY <2>1, <2>2, <2>3, <2>4 DEF SettingsRead
  <2> QED BY <2>3, <2>4, <2>5
<1>2. Init => CommandInv /\ CacheInv
  BY CommandInit, CacheInit
<1>3. CommandInv /\ CacheInv /\ [Next]_vars => CommandInv' /\ CacheInv'
  BY CommandStep, CacheStep
<1> QED BY <1>1, <1>2, <1>3, PTL DEF Spec

LEMMA OneVerdict == ASSUME NEW spec, NEW machine PROVE Agreed(spec, machine)
<1> SUFFICES ASSUME spec.client # "cli_agent" PROVE Agreed(spec, machine)
  BY DEF Agreed
<1>1. CASE spec.key = Absent
  BY <1>1 DEF Agreed, Health, Keyless, Probe, KeyStatus, Lookup
<1>2. CASE spec.key # Absent
  BY <1>2 DEF Agreed, Health, Probe, KeyStatus
<1> QED BY <1>1, <1>2

\* doctor, `models` and `models test` do not contradict one another on any text,
\* and doctor finds on setup's file what setup found on what it composed
\* (diagnose.rs, models.rs, probe_models, use_cases/setup.rs).
THEOREM VerdictsAgree == Spec => []DoctorAgrees
<1>1. CommandInv => DoctorAgrees
  <2> SUFFICES ASSUME CommandInv, NEW machine \in Machines
               PROVE  /\ SettingsOf(file.text).ok =>
                           \A m \in DOMAIN SettingsOf(file.text).models :
                             Agreed(SettingsOf(file.text).models[m], machine)
                      /\ file.by = "setup" =>
                           \A c \in ToSet(Compose(setup.answers).models) :
                             Health(c, machine)
                               = Health(SettingsOf(file.text).models[c.name], machine)
    BY DEF DoctorAgrees
  <2>1. \A m \in DOMAIN SettingsOf(file.text).models :
          Agreed(SettingsOf(file.text).models[m], machine)
    BY OneVerdict
  <2>2. ASSUME file.by = "setup"
        PROVE  \A c \in ToSet(Compose(setup.answers).models) :
                 Health(c, machine) = Health(SettingsOf(file.text).models[c.name], machine)
    <3>1. file.text = Render(Compose(setup.answers)) /\ Sensible(setup.answers)
      BY <2>2 DEF CommandInv, SetupHolds
    <3>2. PICK a, s : a = setup.answers /\ s = SettingsOf(Render(Compose(a)))
      OBVIOUS
    <3>3. \A c \in ToSet(Compose(a).models) :
            Health(c, machine) = Health(s.models[c.name], machine)
      BY <3>1, <3>2, ComposedHealth
    <3> QED BY <3>1, <3>2, <3>3
  <2> QED BY <2>1, <2>2
<1>2. Init => CommandInv
  BY CommandInit
<1>3. CommandInv /\ [Next]_vars => CommandInv'
  BY CommandStep
<1> QED BY <1>1, <1>2, <1>3, PTL DEF Spec
=============================================================================
