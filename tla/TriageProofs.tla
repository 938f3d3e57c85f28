---------------------------- MODULE TriageProofs ----------------------------
(***************************************************************************)
(* Triage of any number of commands from any shells, on the daemon's path, *)
(* on the hook's own or on both at once, with any calls of the store that  *)
(* fail and any answers that come late.                                    *)
(*                                                                         *)
(* What each step leaves a path with is a lemma of its own (Loads, ...,    *)
(* StepTurns, ReportTo, GivesUpTo, AnswersTo, KeepsTo); the parts of the   *)
(* invariant Inv, from Typed to Credits, are kept one after the other.     *)
(* Last, of Corrections: the prompt and `kintsu fix` offer the same.       *)
(***************************************************************************)
EXTENDS Triage, Corrections, FiniteSetTheorems, WellFoundedInduction, TLAPS

LEMMA Bounds == Capacity \in Nat \ {0} /\ BookSize \in Nat \ {0} /\ MaxReports \in Nat
BY TriageAssumption

(***************************************************************************)
(* Types.                                                                  *)
(***************************************************************************)
Pcs == {"idle", "load", "save", "learn", "ignores", "case", "offered", "taken",
        "storeBook", "decided", "over", "failed"}
Ending == [shell : Shells, what : What]
Lesson == [shape : What, command : Passing, times : Nat]
Books  == Seq(Lesson)
Held   == [pc : Pcs, recent : Seq(What), shape : What \union {None}, fix : Fixes, book : Books]
Said   == [report : Reports, by : Paths, what : What, fix : Fixes]
Cards  == [{"offered", "taken"} -> [Source -> Nat]]

Typed ==
  /\ reports \in Seq(Ending) /\ Len(reports) <= MaxReports
  /\ hook \in [Shells -> Nat]
  /\ run \in [Reports -> [Paths -> Held]]
  /\ recent \in [Shells -> Seq(What)]
  /\ cases \in Seq(Said)
  /\ book \in Books
  /\ score \in Cards
  /\ unmarked \in Nat

\* Path p of report r holds u now, and no other path has moved.
Moves(r, p, u) ==
  \A q \in Reports, o \in Paths : run'[q][o] = IF q = r /\ o = p THEN u ELSE run[q][o]

LEMMA MovesTo ==
  ASSUME Typed, NEW r \in Reports, NEW p \in Paths, NEW u \in Held,
         run' = [run EXCEPT ![r][p] = u]
  PROVE  Moves(r, p, u) /\ run' \in [Reports -> [Paths -> Held]]
<1>1. run \in [Reports -> [Paths -> Held]]
  BY DEF Typed
<1>2. run' \in [Reports -> [Paths -> Held]]
  BY <1>1
<1>3. ASSUME NEW q \in Reports, NEW o \in Paths
      PROVE  run'[q][o] = IF q = r /\ o = p THEN u ELSE run[q][o]
  BY <1>1
<1> QED BY <1>2, <1>3 DEF Moves

\* What a path holds, as a record of its own.
LEMMA HeldAt ==
  ASSUME Typed, NEW r \in Reports, NEW p \in Paths
  PROVE  run[r][p] \in Held
BY DEF Typed

LEMMA Numbered ==
  ASSUME Typed
  PROVE  /\ DOMAIN reports = 1 .. Len(reports) /\ Len(reports) \in Nat
         /\ DOMAIN reports \subseteq Reports
         /\ \A r \in DOMAIN reports : reports[r].shell \in Shells /\ reports[r].what \in What
<1>1. PICK n \in Nat : n = Len(reports) /\ n <= MaxReports /\ DOMAIN reports = 1 .. n
  BY DEF Typed
<1>2. 1 .. n \subseteq 1 .. MaxReports
  BY <1>1, Bounds
<1>3. \A r \in DOMAIN reports : reports[r] \in Ending
  BY DEF Typed
<1> QED BY <1>1, <1>2, <1>3 DEF Reports, Ending

LEMMA Listed ==
  ASSUME Typed
  PROVE  /\ DOMAIN cases = 1 .. Len(cases) /\ Len(cases) \in Nat
         /\ \A i \in DOMAIN cases :
              /\ cases[i] \in Said /\ cases[i].report \in Reports /\ cases[i].by \in Paths
              /\ cases[i].what \in What /\ cases[i].fix \in Fixes
<1>1. \A i \in DOMAIN cases : cases[i] \in Said
  BY DEF Typed
<1> QED BY <1>1 DEF Typed, Said

LEMMA GoesTo ==
  ASSUME Typed, NEW r \in Reports, NEW p \in Paths, NEW pc \in Pcs, Goes(r, p, pc)
  PROVE  \E u \in Held : /\ Moves(r, p, u) /\ run' \in [Reports -> [Paths -> Held]]
                         /\ u = [run[r][p] EXCEPT !.pc = pc] /\ u.pc = pc
                         /\ u.recent = run[r][p].recent /\ u.shape = run[r][p].shape
                         /\ u.fix = run[r][p].fix /\ u.book = run[r][p].book
<1>1. PICK h \in Held : h = run[r][p]
  BY HeldAt
<1>2. PICK u \in Held : u = [h EXCEPT !.pc = pc]
  BY <1>1 DEF Held
<1>3. /\ u.pc = pc /\ u.recent = h.recent /\ u.shape = h.shape
      /\ u.fix = h.fix /\ u.book = h.book
  BY <1>2 DEF Held
<1>4. run' = [run EXCEPT ![r][p] = u]
  BY <1>1, <1>2 DEF Goes
<1> QED BY <1>1, <1>2, <1>3, <1>4, MovesTo

(***************************************************************************)
(* The invariant.                                                          *)
(***************************************************************************)
Still == {"idle", "over"}
Shell(r) == reports[r].shell
Latest(r) == \A q \in ReportsOf(Shell(r)) : q <= r
Waiting(s) == hook[s] # 0 => /\ hook[s] \in DOMAIN reports /\ Shell(hook[s]) = s
                             /\ Latest(hook[s])

\* A report nothing went wrong with has one path, and a prompt that waits for it
\* until the path is over.
OnePath(r) ==
  /\ \E p \in Paths : run[r][p].pc # "idle" /\ \A o \in Paths : o # p => run[r][o].pc = "idle"
  /\ hook[Shell(r)] # r => \A p \in Paths : run[r][p].pc \in Still

Hooked ==
  /\ \A s \in Shells : Waiting(s)
  /\ \A s \in Shells : ReportsOf(s) = {} \/ \E q \in ReportsOf(s) : Latest(q)
  /\ \A r \in DOMAIN reports : r \notin troubled => OnePath(r)
  /\ \A r \in DOMAIN reports : run[r]["local"].pc \notin Still => hook[Shell(r)] = r
  /\ \A r \in Reports, p \in Paths : r \notin DOMAIN reports => run[r][p].pc = "idle"
  /\ \A r \in DOMAIN reports, p \in Paths : run[r][p].pc = "failed" => r \in troubled
  /\ \A r \in troubled : r \in DOMAIN reports

\* What a path that learns holds.
Learning ==
  \A r \in DOMAIN reports, p \in Paths :
    /\ run[r][p].pc \in {"learn", "taken", "storeBook"} => reports[r].what \in Passing
    /\ run[r][p].pc = "learn" => Previous(run[r][p].recent) \in Failing
    /\ run[r][p].pc \in {"taken", "storeBook"} =>
         run[r][p].shape \in What /\ run[r][p].fix.command = reports[r].what

\* A path makes one case, which is said at the prompt that waits for it.
Cased ==
  /\ \A i \in DOMAIN cases :
       /\ cases[i].report \in DOMAIN reports
       /\ cases[i].what = reports[cases[i].report].what
       /\ run[cases[i].report][cases[i].by].pc \in {"offered", "decided", "over"}
  /\ \A i, j \in DOMAIN cases :
       cases[i].report = cases[j].report /\ cases[i].by = cases[j].by => i = j
  /\ OfferedIsShown

\* v is what came just before report r in its shell, or None.
Precedes(r, v) ==
  \/ v = None /\ ~\E q \in DOMAIN reports : Before(q, r)
  \/ \E q \in DOMAIN reports : Before(q, r) /\ v = reports[q].what

Saved == {"learn", "ignores", "case", "offered", "taken", "storeBook", "decided", "over"}
New(r) == \A q \in DOMAIN reports : Before(q, r) => reports[q].what # reports[r].what

\* While no answer comes late the session says what came before.
Recalls(r, p) ==
  /\ Latest(r) /\ run[r][p].pc \in {"load", "save"} => Precedes(r, Previous(recent[Shell(r)]))
  /\ run[r][p].pc = "save" => run[r][p].recent = recent[Shell(r)]
  /\ Latest(r) /\ run[r][p].pc \in Saved => Previous(recent[Shell(r)]) = reports[r].what
  /\ run[r][p].pc = "learn" => Precedes(r, Previous(run[r][p].recent))
  /\ run[r][p].pc \in {"ignores", "case"} => New(r)
Recalled ==
  /\ \A s \in Shells : ReportsOf(s) = {} => Previous(recent[s]) = None
  /\ \A r \in DOMAIN reports, p \in Paths : Clean(Shell(r)) => Recalls(r, p)
  /\ \A i \in DOMAIN cases : Clean(Shell(cases[i].report)) => New(cases[i].report)

\* Reports that have nothing left to teach, and a book that counts no others.
Finished == {r \in DOMAIN reports : \E p \in Paths : run[r][p].pc \in {"decided", "over"}}
Counted(b) ==
  \A i \in DOMAIN b :
    b[i].times <= Cardinality(Lessons(b[i].shape, b[i].command) \intersect Finished)
Taught ==
  troubled = {} =>
    /\ Counted(book)
    /\ \A r \in DOMAIN reports, p \in Paths :
         /\ run[r][p].pc \in {"taken", "storeBook"} =>
              r \in Lessons(run[r][p].shape, run[r][p].fix.command)
         /\ run[r][p].pc = "storeBook" => Counted(run[r][p].book)

(***************************************************************************)
(* The operators on sessions and books.                                    *)
(***************************************************************************)
LEMMA Remembered ==
  ASSUME NEW q \in Seq(What), NEW what \in What
  PROVE  Remember(q, what) \in Seq(What) /\ Previous(Remember(q, what)) = what
<1>0. Append(q, what) \in Seq(What)
  OBVIOUS
<1>1. PICK a \in Seq(What) : a = Append(q, what)
  BY <1>0
<1>2. Len(a) = Len(q) + 1 /\ a[Len(a)] = what /\ Len(q) \in Nat
  BY <1>1
<1>3. CASE Len(a) > Capacity
  <2>0. Tail(a) \in Seq(What)
    BY <1>2
  <2>1. PICK t \in Seq(What) : t = Tail(a)
    BY <2>0
  <2>2. Len(t) = Len(a) - 1 /\ Len(t) > 0 /\ t[Len(t)] = a[Len(a)] /\ t # << >>
    BY <1>2, <1>3, <2>1, Bounds
  <2> QED BY <1>1, <1>2, <1>3, <2>1, <2>2 DEF Remember, Previous, Last
<1>4. CASE ~(Len(a) > Capacity)
  <2>1. a # << >>
    BY <1>2
  <2> QED BY <1>1, <1>2, <1>4, <2>1 DEF Remember, Previous, Last
<1> QED BY <1>3, <1>4

LEMMA LeastOf == ASSUME NEW S \in SUBSET Nat, S # {} PROVE \E x \in S : \A y \in S : x <= y
<1>1. IsWellFoundedOn(OpToRel(<, Nat), Nat)
  BY NatLessThanWellFounded
<1>2. PICK x \in S : \A y \in S : ~ (<<y, x>> \in OpToRel(<, Nat))
  BY <1>1, WFMin, Zenon
<1>3. \A y \in S : ~ (y < x)
  BY <1>2 DEF OpToRel
<1> QED BY <1>3

\* The first entry of a shape, when there is one.
LEMMA FirstEntry ==
  ASSUME NEW b \in Books, NEW shape, Entries(b, shape) # {}
  PROVE  /\ Position(b, shape) \in 1 .. Len(b)
         /\ b[Position(b, shape)] \in Lesson /\ b[Position(b, shape)].shape = shape
<1>1. Len(b) \in Nat /\ DOMAIN b = 1 .. Len(b) /\ \A i \in 1 .. Len(b) : b[i] \in Lesson
  BY DEF Books
<1>a. Entries(b, shape) \in SUBSET Nat
  BY <1>1 DEF Entries
<1>2. PICK E \in SUBSET Nat : E = Entries(b, shape)
  BY <1>a
<1>3. \E i \in E : \A j \in E : i <= j
  BY <1>2, LeastOf
<1>4. Position(b, shape) \in E
  BY <1>2, <1>3 DEF Position
<1> QED BY <1>1, <1>2, <1>4 DEF Entries

\* Taking a fix once more leaves the entries as they were, but for one that is new
\* and counts one more than the one it replaces; the oldest may go.
LEMMA Accepted ==
  ASSUME NEW b \in Books, NEW shape \in What, NEW command \in Passing
  PROVE  /\ Accept(b, shape, command) \in Books
         /\ \A i \in DOMAIN Accept(b, shape, command) :
              \/ \E j \in DOMAIN b : Accept(b, shape, command)[i] = b[j]
              \/ LET e == Accept(b, shape, command)[i] IN
                 /\ e.shape = shape /\ e.command = command
                 /\ \/ e.times = 1
                    \/ \E j \in DOMAIN b : /\ b[j].shape = shape /\ b[j].command = command
                                           /\ e.times = b[j].times + 1
<1> DEFINE From(q) == \A i \in DOMAIN q : \E j \in DOMAIN b : q[i] = b[j]
           One(e) == /\ e.shape = shape /\ e.command = command
                     /\ \/ e.times = 1
                        \/ \E j \in DOMAIN b : /\ b[j].shape = shape /\ b[j].command = command
                                               /\ e.times = b[j].times + 1
           Good(q) == \A i \in DOMAIN q : (\E j \in DOMAIN b : q[i] = b[j]) \/ One(q[i])
           P == Position(b, shape)
<1>0. /\ Len(b) \in Nat /\ DOMAIN b = 1 .. Len(b) /\ b \in Seq(Lesson)
      /\ \A i \in DOMAIN b : b[i] \in Lesson
  BY DEF Books
<1>1. PICK o \in Seq(Lesson) :
        /\ o = (IF Entries(b, shape) = {} THEN b ELSE RemoveAt(b, P))
        /\ From(o)
  <2>1. CASE Entries(b, shape) = {}
    BY <1>0, <2>1
  <2>2. CASE Entries(b, shape) # {}
    <3>1. P \in 1 .. Len(b)
      BY <2>2, FirstEntry
    <3>2. PICK k \in 1 .. Len(b) : k = P
      BY <3>1
    <3>a. SubSeq(b, 1, k - 1) \in Seq(Lesson) /\ SubSeq(b, k + 1, Len(b)) \in Seq(Lesson)
      BY <1>0
    <3>3. PICK u \in Seq(Lesson) : u = SubSeq(b, 1, k - 1)
      BY <3>a
    <3>b. Len(u) = k - 1 /\ \A i \in 1 .. k - 1 : u[i] = b[i]
      BY <1>0, <3>3
    <3>4. PICK v \in Seq(Lesson) : v = SubSeq(b, k + 1, Len(b))
      BY <3>a
    <3>c. Len(v) = Len(b) - k /\ \A i \in 1 .. Len(b) - k : v[i] = b[k + i]
      BY <1>0, <3>4
    <3>d. u \o v \in Seq(Lesson)
      OBVIOUS
    <3>5. PICK q \in Seq(Lesson) : q = u \o v
      BY <3>d
    <3>e. /\ Len(q) = Len(u) + Len(v) /\ DOMAIN q = 1 .. Len(q)
          /\ \A i \in 1 .. Len(u) : q[i] = u[i]
          /\ \A i \in 1 .. Len(v) : q[Len(u) + i] = v[i]
      BY <3>5
    <3>f. ASSUME NEW i \in k .. Len(b) - 1 PROVE q[i] = b[i + 1]
      <4>1. PICK j \in Nat : j = i - (k - 1)
        BY <1>0
      <4>2. j \in 1 .. Len(v) /\ Len(u) + j = i /\ k + j = i + 1
        BY <1>0, <3>b, <3>c, <4>1
      <4>3. q[Len(u) + j] = v[j] /\ v[j] = b[k + j]
        BY <3>c, <3>e, <4>2
      <4> QED BY <4>2, <4>3
    <3>6. /\ Len(q) = Len(b) - 1 /\ DOMAIN q = 1 .. Len(b) - 1
          /\ \A i \in 1 .. k - 1 : q[i] = b[i]
          /\ \A i \in k .. Len(b) - 1 : q[i] = b[i + 1]
      BY <1>0, <3>b, <3>c, <3>e, <3>f
    <3>7. From(q)
      BY <1>0, <3>6
    <3>8. q = RemoveAt(b, P)
      BY <3>2, <3>3, <3>4, <3>5 DEF RemoveAt
    <3> QED BY <2>2, <3>7, <3>8
  <2> QED BY <2>1, <2>2
<1>2. PICK e \in Lesson : /\ e = [shape |-> shape, command |-> command,
                                 times |-> Times(b, shape, command) + 1]
                         /\ One(e)
  <2>1. CASE Entries(b, shape) # {} /\ b[P].command = command
    <3>1. P \in DOMAIN b /\ b[P] \in Lesson /\ b[P].shape = shape
      BY <1>0, <2>1, FirstEntry
    <3>2. Times(b, shape, command) = b[P].times /\ b[P].times \in Nat
      BY <2>1, <3>1 DEF Times, Lesson
    <3>3. PICK n \in Nat : n = b[P].times
      BY <3>2
    <3>4. One([shape |-> shape, command |-> command, times |-> n + 1]) /\ n + 1 \in Nat
      BY <2>1, <3>1, <3>3
    <3>5. [shape |-> shape, command |-> command, times |-> n + 1] \in Lesson
      BY <3>4 DEF Lesson
    <3> HIDE DEF One
    <3> QED BY <3>2, <3>3, <3>4, <3>5
  <2>2. CASE ~(Entries(b, shape) # {} /\ b[P].command = command)
    <3>1. Times(b, shape, command) = 0
      BY <2>2 DEF Times
    <3>2. 0 + 1 = 1 /\ One([shape |-> shape, command |-> command, times |-> 1])
      OBVIOUS
    <3>3. [shape |-> shape, command |-> command, times |-> 1] \in Lesson
      BY DEF Lesson
    <3> HIDE DEF One
    <3> QED BY <3>1, <3>2, <3>3
  <2> QED BY <2>1, <2>2
<1>b. Append(o, e) \in Seq(Lesson)
  OBVIOUS
<1>3. PICK l \in Seq(Lesson) : l = Append(o, e)
  BY <1>b
<1>4. /\ Len(l) = Len(o) + 1 /\ Len(o) \in Nat /\ DOMAIN l = 1 .. Len(o) + 1
      /\ DOMAIN o = 1 .. Len(o) /\ l[Len(o) + 1] = e /\ \A i \in 1 .. Len(o) : l[i] = o[i]
  BY <1>3
<1>5. Good(l)
  <2> SUFFICES ASSUME NEW i \in 1 .. Len(o) + 1
               PROVE  (\E j \in DOMAIN b : l[i] = b[j]) \/ One(l[i])
    BY <1>4
  <2>1. CASE i \in 1 .. Len(o)
    <3> HIDE DEF One
    <3> QED BY <1>1, <1>4, <2>1
  <2>2. CASE i = Len(o) + 1
    <3> HIDE DEF One
    <3> QED BY <1>2, <1>4, <2>2
  <2> QED BY <1>4, <2>1, <2>2
<1>6. Accept(b, shape, command) = IF Len(l) > BookSize THEN Tail(l) ELSE l
  BY <1>1, <1>2, <1>3 DEF Accept
<1>7. CASE Len(l) > BookSize
  <2>a. Tail(l) \in Seq(Lesson)
    BY <1>4
  <2>0. PICK t \in Seq(Lesson) : t = Tail(l)
    BY <2>a
  <2>1. t = Tail(l) /\ DOMAIN t = 1 .. Len(o) /\ \A i \in 1 .. Len(o) : t[i] = l[i + 1]
    BY <1>4, <2>0
  <2>2. Good(t)
    <3> SUFFICES ASSUME NEW i \in 1 .. Len(o)
                 PROVE  (\E j \in DOMAIN b : t[i] = b[j]) \/ One(t[i])
      BY <2>1
    <3>1. i + 1 \in DOMAIN l /\ t[i] = l[i + 1]
      BY <1>4, <2>1
    <3> HIDE DEF One
    <3> QED BY <1>5, <3>1
  <2>3. t = Accept(b, shape, command)
    BY <1>6, <1>7, <2>1
  <2> HIDE DEF Good
  <2>4. t \in Books /\ Good(t)
    BY <2>1, <2>2 DEF Books
  <2> QED BY <2>3, <2>4 DEF Good
<1>8. CASE ~(Len(l) > BookSize)
  <2>1. l = Accept(b, shape, command) /\ l \in Books
    BY <1>3, <1>6, <1>8 DEF Books
  <2> QED BY <1>5, <2>1
<1> QED BY <1>7, <1>8

(***************************************************************************)
(* What each step of a path does to what it holds.                         *)
(***************************************************************************)
Typed_run == run' \in [Reports -> [Paths -> Held]]
To(r, p, u) == Moves(r, p, u) /\ Typed_run

LEMMA Loads ==
  ASSUME Typed, NEW r \in DOMAIN reports, NEW p \in Paths, Load(r, p)
  PROVE  \E u \in Held : To(r, p, u) /\ u.pc = "save" /\ u.recent = recent[reports[r].shell]
<1>1. PICK h \in Held : h = run[r][p]
  BY HeldAt, Numbered
<1>2. PICK q \in Seq(What) : q = recent[reports[r].shell]
  BY Numbered DEF Typed
<1>3. PICK u \in Held : u = [h EXCEPT !.pc = "save", !.recent = q]
  BY <1>1 DEF Held, Pcs
<1>4. u.pc = "save" /\ u.recent = q
  BY <1>3 DEF Held
<1>5. run' = [run EXCEPT ![r][p] = u]
  BY <1>1, <1>2, <1>3 DEF Load
<1> QED BY <1>2, <1>4, <1>5, MovesTo, Numbered DEF To, Typed_run

LEMMA Suggests ==
  ASSUME Typed
  PROVE  \A what \in What : SuggestedFor(what) \in Fixes
<1> SUFFICES ASSUME NEW what \in What PROVE SuggestedFor(what) \in Fixes
  OBVIOUS
<1>1. CASE what \in Ruled
  <2>1. Cure[what] \in Passing
    BY <1>1, TriageAssumption
  <2> QED BY <1>1, <2>1 DEF SuggestedFor, Fixes, Source
<1>2. CASE what \notin Ruled /\ Learned(what) # {}
  <2>1. Learned(what) \subseteq Fixes
    <3>1. \A i \in DOMAIN book : book[i] \in Lesson
      BY DEF Typed, Books
    <3>2. ASSUME NEW i \in DOMAIN book
          PROVE  [command |-> book[i].command, source |-> "learned"] \in Fixes
      <4>1. book[i].command \in Passing
        BY <3>1 DEF Lesson
      <4> QED BY <4>1 DEF Fixes, Source
    <3> QED BY <3>2 DEF Learned, Entries
  <2> QED BY <1>2, <2>1 DEF SuggestedFor
<1>3. CASE what \notin Ruled /\ Learned(what) = {}
  BY <1>3 DEF SuggestedFor, Fixes, NoFix, Source
<1> QED BY <1>1, <1>2, <1>3

LEMMA SuggestsTo ==
  ASSUME Typed, NEW r \in DOMAIN reports, NEW p \in Paths, Suggest(r, p)
  PROVE  \E u \in Held : To(r, p, u) /\ u.pc \in {"decided", "case"}
<1>1. PICK h \in Held : h = run[r][p]
  BY HeldAt, Numbered
<1>2. CASE Goes(r, p, "decided")
  BY <1>2, GoesTo, Numbered DEF Pcs, To, Typed_run
<1>3. CASE run' = [run EXCEPT ![r][p].pc = "case", ![r][p].fix = SuggestedFor(reports[r].what)]
  <2>1. PICK f \in Fixes : f = SuggestedFor(reports[r].what)
    BY Suggests, Numbered
  <2>2. PICK u \in Held : u = [h EXCEPT !.pc = "case", !.fix = f]
    BY <1>1, <2>1 DEF Held, Pcs
  <2>3. u.pc = "case"
    BY <2>2 DEF Held
  <2>4. run' = [run EXCEPT ![r][p] = u]
    BY <1>1, <1>3, <2>1, <2>2
  <2> QED BY <2>3, <2>4, MovesTo, Numbered DEF To, Typed_run
<1> QED BY <1>2, <1>3 DEF Suggest

LEMMA LearnsTo ==
  ASSUME Typed, NEW r \in DOMAIN reports, NEW p \in Paths, LearnFrom(r, p)
  PROVE  \E u \in Held : /\ To(r, p, u)
           /\ \/ u.pc = "decided"
              \/ /\ u.pc = "taken"
                 /\ \E i \in LastCase(reports[r].shell) :
                      /\ Takes(i, reports[r].what, Previous(run[r][p].recent))
                      /\ u.shape = cases[i].what /\ u.fix = cases[i].fix
<1>1. PICK h \in Held : h = run[r][p]
  BY HeldAt, Numbered
<1>2. CASE Goes(r, p, "decided")
  BY <1>2, GoesTo, Numbered DEF Pcs, To, Typed_run
<1>3. ASSUME NEW i \in LastCase(reports[r].shell),
             Takes(i, reports[r].what, Previous(run[r][p].recent)),
             run' = [run EXCEPT ![r][p].pc = "taken", ![r][p].shape = cases[i].what,
                                ![r][p].fix = cases[i].fix]
      PROVE  \E u \in Held : /\ To(r, p, u) /\ u.pc = "taken"
                             /\ u.shape = cases[i].what /\ u.fix = cases[i].fix
  <2>1. cases[i] \in Said
    BY DEF LastCase, CasesOf, Typed
  <2>2. PICK s \in What, f \in Fixes : s = cases[i].what /\ f = cases[i].fix
    BY <2>1 DEF Said
  <2>3. PICK u \in Held : u = [h EXCEPT !.pc = "taken", !.shape = s, !.fix = f]
    BY <1>1, <2>2 DEF Held, Pcs
  <2>4. u.pc = "taken" /\ u.shape = s /\ u.fix = f
    BY <2>3 DEF Held
  <2>5. run' = [run EXCEPT ![r][p] = u]
    BY <1>1, <1>3, <2>2, <2>3
  <2> QED BY <2>2, <2>4, <2>5, MovesTo, Numbered DEF To, Typed_run
<1> QED BY <1>2, <1>3 DEF LearnFrom

LEMMA MarksTo ==
  ASSUME Typed, NEW r \in DOMAIN reports, NEW p \in Paths, MarkTaken(r, p)
  PROVE  \E u \in Held : /\ To(r, p, u)
           /\ \/ u.pc = "decided"
              \/ /\ u.pc = "storeBook" /\ u.book = book
                 /\ u.shape = run[r][p].shape /\ u.fix = run[r][p].fix
<1>1. PICK h \in Held : h = run[r][p]
  BY HeldAt, Numbered
<1>2. CASE Goes(r, p, "decided")
  BY <1>2, GoesTo, Numbered DEF Pcs, To, Typed_run
<1>3. CASE run' = [run EXCEPT ![r][p].pc = "storeBook", ![r][p].book = book]
  <2>1. PICK b \in Books : b = book
    BY DEF Typed
  <2>2. PICK u \in Held : u = [h EXCEPT !.pc = "storeBook", !.book = b]
    BY <1>1, <2>1 DEF Held, Pcs
  <2>3. u.pc = "storeBook" /\ u.book = b /\ u.shape = h.shape /\ u.fix = h.fix
    BY <2>2 DEF Held
  <2>4. run' = [run EXCEPT ![r][p] = u]
    BY <1>1, <1>3, <2>1, <2>2
  <2> QED BY <1>1, <2>1, <2>3, <2>4, MovesTo, Numbered DEF To, Typed_run
<1> QED BY <1>2, <1>3 DEF MarkTaken

\* From where to where a step of Triage::run leads.
Turns ==
  {<<"load", "save">>, <<"save", "learn">>, <<"save", "ignores">>, <<"ignores", "case">>,
   <<"case", "offered">>, <<"learn", "taken">>, <<"taken", "storeBook">>}
  \union {"save", "ignores", "case", "offered", "learn", "taken", "storeBook"} \X {"decided"}
  \union {"load", "save", "ignores", "case"} \X {"failed"}

LEMMA StepTurns ==
  ASSUME Typed, NEW r \in DOMAIN reports, NEW p \in Paths, Step(r, p)
  PROVE  /\ \E u \in Held : To(r, p, u) /\ <<run[r][p].pc, u.pc>> \in Turns
                            /\ (u.pc = "failed" => r \in troubled')
         /\ reports' = reports /\ hook' = hook /\ shown' = shown /\ unmarked' = unmarked
         /\ troubled' = troubled \/ troubled' = troubled \union {r}
<1>0. r \in Reports
  BY Numbered
<1>1. CASE Load(r, p)
  <2>1. PICK u \in Held : To(r, p, u) /\ u.pc = "save"
    BY <1>1, Loads
  <2> QED BY <1>1, <2>1 DEF Load, At, Turns, Outside, history
<1>2. CASE Record(r, p)
  <2>1. PICK d \in {"learn", "decided", "ignores"} : Goes(r, p, d)
    BY <1>2 DEF Record, Decision
  <2>2. PICK u \in Held : To(r, p, u) /\ u.pc = d
    BY <1>0, <2>1, GoesTo DEF Pcs, To, Typed_run
  <2> QED BY <1>2, <2>2 DEF Record, At, Turns, Outside, history
<1>3. CASE Suggest(r, p)
  <2>1. PICK u \in Held : To(r, p, u) /\ u.pc \in {"decided", "case"}
    BY <1>3, SuggestsTo
  <2> QED BY <1>3, <2>1 DEF Suggest, At, Turns, Outside, history
<1>4. CASE SaveCase(r, p)
  <2>1. PICK d \in {"offered", "decided"} : Goes(r, p, d)
    BY <1>4 DEF SaveCase
  <2>2. PICK u \in Held : To(r, p, u) /\ u.pc = d
    BY <1>0, <2>1, GoesTo DEF Pcs, To, Typed_run
  <2> QED BY <1>4, <2>2 DEF SaveCase, At, Turns, Outside, history
<1>5. CASE MarkOffered(r, p)
  <2>1. PICK u \in Held : To(r, p, u) /\ u.pc = "decided"
    BY <1>0, <1>5, GoesTo DEF MarkOffered, Pcs, To, Typed_run
  <2> QED BY <1>5, <2>1 DEF MarkOffered, At, Turns, Outside, history
<1>6. CASE LearnFrom(r, p)
  <2>1. PICK u \in Held : To(r, p, u) /\ u.pc \in {"decided", "taken"}
    BY <1>6, LearnsTo
  <2> QED BY <1>6, <2>1 DEF LearnFrom, At, Turns, Outside, history
<1>7. CASE MarkTaken(r, p)
  <2>1. PICK u \in Held : To(r, p, u) /\ u.pc \in {"decided", "storeBook"}
    BY <1>7, MarksTo
  <2> QED BY <1>7, <2>1 DEF MarkTaken, At, Turns, Outside, history
<1>8. CASE StoreBook(r, p)
  <2>1. PICK u \in Held : To(r, p, u) /\ u.pc = "decided"
    BY <1>0, <1>8, GoesTo DEF StoreBook, Pcs, To, Typed_run
  <2> QED BY <1>8, <2>1 DEF StoreBook, At, Turns, Outside, history
<1>9. CASE StoreError(r, p)
  <2>1. CASE \E pc \in {"load", "save", "ignores", "case"} : At(r, p, pc) /\ Goes(r, p, "failed")
    <3>1. PICK u \in Held : To(r, p, u) /\ u.pc = "failed"
      BY <1>0, <2>1, GoesTo DEF Pcs, To, Typed_run
    <3> QED BY <1>9, <2>1, <3>1 DEF StoreError, At, Turns
  <2>2. CASE \E pc \in {"learn", "taken", "storeBook"} : At(r, p, pc) /\ Goes(r, p, "decided")
    <3>1. PICK u \in Held : To(r, p, u) /\ u.pc = "decided"
      BY <1>0, <2>2, GoesTo DEF Pcs, To, Typed_run
    <3> QED BY <1>9, <2>2, <3>1 DEF StoreError, At, Turns
  <2> QED BY <1>9, <2>1, <2>2 DEF StoreError
<1> QED BY <1>1, <1>2, <1>3, <1>4, <1>5, <1>6, <1>7, <1>8, <1>9 DEF Step

LEMMA Tallied ==
  ASSUME NEW card \in Cards, NEW kind \in {"offered", "taken"}, NEW x \in Source
  PROVE  /\ Tally(card, kind, x) \in Cards
         /\ \A k \in {"offered", "taken"}, y \in Source :
              Tally(card, kind, x)[k][y] = card[k][y] + (IF k = kind /\ y = x THEN 1 ELSE 0)
BY DEF Tally, Cards

LEMMA TypedInit == Init => Typed
<1> SUFFICES ASSUME Init PROVE Typed
  OBVIOUS
<1>1. reports \in Seq(Ending) /\ cases \in Seq(Said) /\ book \in Books /\ Len(reports) <= MaxReports
  <2>1. /\ << >> \in Seq(Ending) /\ << >> \in Seq(Said) /\ << >> \in Seq(Lesson)
        /\ Len(<< >>) = 0 /\ 0 <= MaxReports
    BY Bounds
  <2>2. reports = << >> /\ cases = << >> /\ book = << >>
    BY DEF Init, NoFile
  <2> QED BY <2>1, <2>2 DEF Books
<1>2. recent \in [Shells -> Seq(What)]
  <2>1. << >> \in Seq(What)
    OBVIOUS
  <2> QED BY <2>1 DEF Init, NewSession
<1>3. run \in [Reports -> [Paths -> Held]]
  <2>1. << >> \in Seq(What) /\ << >> \in Seq(Lesson)
    OBVIOUS
  <2>2. PICK q \in Seq(What), b \in Seq(Lesson) : q = << >> /\ b = << >>
    BY <2>1
  <2>3. NoFix \in Fixes
    BY DEF NoFix, Fixes, Source
  <2>4. Idle = [pc |-> "idle", recent |-> q, shape |-> None, fix |-> NoFix, book |-> b]
    BY <2>2 DEF Idle
  <2>5. Idle \in Held
    BY <2>3, <2>4 DEF Held, Pcs, Books
  <2> QED BY <2>5 DEF Init
<1> QED BY <1>1, <1>2, <1>3 DEF Init, Typed, NewCard, Cards

LEMMA IdleHeld == Idle \in Held /\ [Idle EXCEPT !.pc = "over"] \in Held
                  /\ [Idle EXCEPT !.pc = "over"].pc = "over" /\ Idle.pc = "idle"
<1>1. << >> \in Seq(What) /\ << >> \in Seq(Lesson)
  OBVIOUS
<1>2. PICK q \in Seq(What), b \in Seq(Lesson) : q = << >> /\ b = << >>
  BY <1>1
<1>3. NoFix \in Fixes
  BY DEF NoFix, Fixes, Source
<1>4. Idle = [pc |-> "idle", recent |-> q, shape |-> None, fix |-> NoFix, book |-> b]
  BY <1>2 DEF Idle
<1>5. [Idle EXCEPT !.pc = "over"]
        = [pc |-> "over", recent |-> q, shape |-> None, fix |-> NoFix, book |-> b]
  BY <1>4
<1> QED BY <1>3, <1>4, <1>5 DEF Held, Pcs, Books

LEMMA OversTo ==
  ASSUME Typed, NEW r \in DOMAIN reports, NEW p \in Paths, Over(r, p)
  PROVE  \E u \in Held : To(r, p, u) /\ u.pc = "over"
<1>1. PICK u \in Held : u = [Idle EXCEPT !.pc = "over"] /\ u.pc = "over"
  BY IdleHeld
<1> QED BY <1>1, MovesTo, Numbered DEF Over, To, Typed_run

LEMMA TypedStep ==
  ASSUME Typed, Learning, NEW r \in DOMAIN reports, NEW p \in Paths, Step(r, p)
  PROVE  Typed'
<1>0. Typed_run /\ reports' = reports /\ hook' = hook /\ unmarked' = unmarked
  BY StepTurns DEF To
<1>h. PICK h \in Held : h = run[r][p]
  BY HeldAt, Numbered
<1>1. CASE recent' = recent /\ cases' = cases /\ book' = book /\ score' = score
  BY <1>0, <1>1 DEF Typed, Typed_run
<1>2. CASE Record(r, p)
  <2>1. PICK q \in Seq(What) : q = Remember(h.recent, reports[r].what)
    BY <1>h, Remembered, Numbered DEF Held
  <2>2. recent' = [recent EXCEPT ![reports[r].shell] = q]
    BY <1>2, <1>h, <2>1 DEF Record
  <2>3. recent' \in [Shells -> Seq(What)]
    BY <2>2 DEF Typed
  <2> QED BY <1>0, <1>2, <2>3 DEF Typed, Typed_run, Record
<1>3. CASE SaveCase(r, p)
  <2>1. PICK c \in Said : c = [report |-> r, by |-> p, what |-> reports[r].what, fix |-> h.fix]
    BY <1>h, Numbered DEF Said, Held
  <2>2. cases' = Append(cases, c)
    BY <1>3, <1>h, <2>1 DEF SaveCase
  <2>3. cases' \in Seq(Said)
    BY <2>2 DEF Typed
  <2> QED BY <1>0, <1>3, <2>3 DEF Typed, Typed_run, SaveCase
<1>4. CASE MarkOffered(r, p) \/ MarkTaken(r, p)
  <2>1. PICK x \in Source : x = h.fix.source
    BY <1>h DEF Held, Fixes
  <2>2. score' \in Cards
    BY <1>4, <1>h, <2>1, Tallied DEF MarkOffered, MarkTaken, Marked, Typed
  <2> QED BY <1>0, <1>4, <2>2 DEF Typed, Typed_run, MarkOffered, MarkTaken
<1>5. CASE StoreBook(r, p)
  <2>1. h.shape \in What /\ h.fix.command \in Passing /\ h.book \in Books
    BY <1>5, <1>h DEF StoreBook, At, Learning, Held
  <2>2. book' = Accept(h.book, h.shape, h.fix.command)
    BY <1>5, <1>h DEF StoreBook
  <2>3. book' \in Books
    BY <2>1, <2>2, Accepted
  <2> QED BY <1>0, <1>5, <2>3 DEF Typed, Typed_run, StoreBook
<1>6. Load(r, p) \/ Suggest(r, p) \/ LearnFrom(r, p) \/ StoreError(r, p)
        => recent' = recent /\ cases' = cases /\ book' = book /\ score' = score
  BY DEF Load, Suggest, LearnFrom, StoreError, store
<1> QED BY <1>1, <1>2, <1>3, <1>4, <1>5, <1>6 DEF Step

LEMMA LearningStep ==
  ASSUME Typed, Learning, NEW r \in DOMAIN reports, NEW p \in Paths, Step(r, p)
  PROVE  Learning'
<1>0. reports' = reports /\ DOMAIN reports \subseteq Reports
  BY StepTurns, Numbered
<1>h. PICK h \in Held : h = run[r][p]
  BY HeldAt, <1>0
<1> DEFINE Fine(q, x) ==
      /\ x.pc \in {"learn", "taken", "storeBook"} => reports[q].what \in Passing
      /\ x.pc = "learn" => Previous(x.recent) \in Failing
      /\ x.pc \in {"taken", "storeBook"} => x.shape \in What /\ x.fix.command = reports[q].what
<1>1. ASSUME NEW u \in Held, To(r, p, u), Fine(r, u) PROVE Learning'
  BY <1>0, <1>1 DEF To, Moves, Learning
<1>2. PICK u \in Held : To(r, p, u) /\ <<h.pc, u.pc>> \in Turns
  BY <1>h, StepTurns
<1>3. CASE u.pc \notin {"learn", "taken", "storeBook"}
  BY <1>1, <1>2, <1>3
<1>4. CASE Record(r, p)
  <2>1. PICK d : d = Decision(reports[r].what, Previous(h.recent))
    OBVIOUS
  <2>2. d \in {"learn", "decided", "ignores"} /\ Goes(r, p, d)
    BY <1>4, <1>h, <2>1 DEF Record, Decision
  <2>3. d = "learn" => reports[r].what \in Passing /\ Previous(h.recent) \in Failing
    BY <2>1 DEF Decision
  <2>4. PICK v \in Held : To(r, p, v) /\ v.pc = d /\ v.recent = h.recent
    BY <1>0, <1>h, <2>2, GoesTo DEF Pcs, To, Typed_run
  <2> QED BY <1>1, <2>2, <2>3, <2>4
<1>5. CASE LearnFrom(r, p)
  <2>1. h.pc = "learn" /\ reports[r].what \in Passing
    BY <1>5, <1>h DEF LearnFrom, At, Learning
  <2>2. PICK v \in Held :
          /\ To(r, p, v)
          /\ \/ v.pc = "decided"
             \/ /\ v.pc = "taken"
                /\ \E i \in LastCase(reports[r].shell) :
                     /\ Takes(i, reports[r].what, Previous(run[r][p].recent))
                     /\ v.shape = cases[i].what /\ v.fix = cases[i].fix
    BY <1>5, LearnsTo
  <2>3. v.pc = "taken" => v.shape \in What /\ v.fix.command = reports[r].what
    <3>1. \A i \in LastCase(reports[r].shell) : cases[i].what \in What
      BY Listed DEF LastCase, CasesOf
    <3> QED BY <2>2, <3>1 DEF Takes
  <2> QED BY <1>1, <2>1, <2>2, <2>3
<1>6. CASE MarkTaken(r, p)
  <2>1. PICK v \in Held : /\ To(r, p, v)
                         /\ \/ v.pc = "decided"
                            \/ v.pc = "storeBook" /\ v.shape = h.shape /\ v.fix = h.fix
    BY <1>6, <1>h, MarksTo
  <2>2. /\ reports[r].what \in Passing /\ h.shape \in What /\ h.fix.command = reports[r].what
    BY <1>6, <1>h DEF MarkTaken, At, Learning
  <2> QED BY <1>1, <2>1, <2>2
<1>7. ASSUME ~Record(r, p), ~LearnFrom(r, p), ~MarkTaken(r, p)
      PROVE  u.pc \notin {"learn", "taken", "storeBook"}
  <2>1. h.pc \notin {"save", "learn", "taken"} \/ u.pc \in {"decided", "failed"}
    <3>1. CASE StoreError(r, p)
      <4>1. PICK d \in {"failed", "decided"} : Goes(r, p, d)
        BY <3>1 DEF StoreError
      <4>2. PICK v \in Held : To(r, p, v) /\ v.pc = d
        BY <1>0, <4>1, GoesTo DEF Pcs, To, Typed_run
      <4>3. v = u
        BY <1>0, <1>2, <4>2 DEF To, Moves
      <4> QED BY <4>2, <4>3
    <3>2. CASE ~StoreError(r, p)
      BY <1>7, <1>h, <3>2 DEF Step, Load, Suggest, SaveCase, MarkOffered, StoreBook, At
    <3> QED BY <3>1, <3>2
  <2> QED BY <1>2, <2>1 DEF Turns
<1> QED BY <1>3, <1>4, <1>5, <1>6, <1>7

(***************************************************************************)
(* What the other steps do.                                                *)
(***************************************************************************)
Begins(s, what, r, p, u) ==
  /\ r = Len(reports) + 1 /\ r \notin DOMAIN reports /\ \A q \in DOMAIN reports : q < r
  /\ To(r, p, u) /\ u.pc = "load"
  /\ reports' \in Seq(Ending) /\ Len(reports') = r /\ r <= MaxReports
  /\ DOMAIN reports' = DOMAIN reports \union {r}
  /\ reports'[r].shell = s /\ reports'[r].what = what
  /\ \A q \in DOMAIN reports : reports'[q] = reports[q]
  /\ hook[s] = 0 /\ hook' = [hook EXCEPT ![s] = r]
  /\ recent' = recent /\ cases' = cases /\ book' = book /\ score' = score
  /\ unmarked' = unmarked /\ shown' = shown /\ troubled' = troubled

LEMMA ReportTo ==
  ASSUME Typed, NEW s \in Shells, NEW what \in What, Report(s, what)
  PROVE  \E r \in Reports, p \in Paths, u \in Held : Begins(s, what, r, p, u)
<1>1. PICK r \in Reports : r = Len(reports) + 1
  BY DEF Report
<1>2. PICK p \in Paths : run' = [run EXCEPT ![r][p].pc = "load"]
  BY <1>1 DEF Report
<1>a. Goes(r, p, "load") /\ "load" \in Pcs
  BY <1>2 DEF Goes, Pcs
<1>3. PICK u \in Held : To(r, p, u) /\ u.pc = "load"
  BY <1>a, GoesTo DEF To, Typed_run
<1>b. Ended(s, what) \in Ending /\ Ended(s, what).shell = s /\ Ended(s, what).what = what
  BY DEF Ended, Ending
<1>4. PICK e \in Ending : e = Ended(s, what) /\ e.shell = s /\ e.what = what
  BY <1>b
<1>5. reports' = Append(reports, e) /\ reports \in Seq(Ending)
  BY <1>4 DEF Report, Typed
<1>6. reports' \in Seq(Ending)
  BY <1>5
<1>7. /\ Len(reports') = r /\ DOMAIN reports' = DOMAIN reports \union {r}
      /\ r \notin DOMAIN reports /\ \A q \in DOMAIN reports : q < r
      /\ reports'[r] = e /\ \A q \in DOMAIN reports : reports'[q] = reports[q]
  BY <1>1, <1>5
<1>8. r <= MaxReports
  BY <1>1, Bounds DEF Reports
<1> QED BY <1>1, <1>3, <1>4, <1>6, <1>7, <1>8 DEF Begins, Report, store, history

LEMMA Grown ==
  ASSUME Typed, NEW s \in Shells, NEW what \in What, NEW r \in Reports, NEW p \in Paths,
         NEW u \in Held, Begins(s, what, r, p, u)
  PROVE  /\ \A t : ReportsOf(t)' = IF t = s THEN ReportsOf(t) \union {r} ELSE ReportsOf(t)
         /\ \A q \in DOMAIN reports : Shell(q)' = Shell(q) /\ q # r
         /\ Shell(r)' = s
         /\ \A q, x \in DOMAIN reports : Before(q, x)' <=> Before(q, x)
         /\ \A q \in DOMAIN reports : ~Before(r, q)'
<1>0. /\ DOMAIN reports = 1 .. r - 1 /\ DOMAIN reports' = 1 .. r
      /\ reports'[r].shell = s /\ \A q \in DOMAIN reports : reports'[q] = reports[q]
      /\ r \in Nat /\ r # 0
  BY Numbered DEF Begins, Reports
<1>1. ASSUME NEW t PROVE ReportsOf(t)' = IF t = s THEN ReportsOf(t) \union {r} ELSE ReportsOf(t)
  BY <1>0 DEF ReportsOf
<1>2. ASSUME NEW q \in DOMAIN reports PROVE Shell(q)' = Shell(q) /\ q # r /\ ~Before(r, q)'
  BY <1>0, <1>2 DEF Shell, Before
<1>3. Shell(r)' = s
  BY <1>0 DEF Shell
<1>4. ASSUME NEW q \in DOMAIN reports, NEW x \in DOMAIN reports
      PROVE  Before(q, x)' <=> Before(q, x)
  <2>1. \A y \in q + 1 .. x - 1 : y \in DOMAIN reports /\ reports'[y] = reports[y]
    BY <1>0
  <2> QED BY <1>0, <2>1 DEF Before
<1> QED BY <1>1, <1>2, <1>3, <1>4

LEMMA GivesUpTo ==
  ASSUME Typed, Hooked, NEW s \in Shells, GiveUp(s)
  PROVE  \E r \in DOMAIN reports, u \in Held :
           /\ r = hook[s] /\ Shell(r) = s /\ To(r, "local", u) /\ u.pc = "load"
           /\ run[r]["local"].pc = "idle"
           /\ reports' = reports /\ hook' = hook /\ shown' = shown /\ unmarked' = unmarked
           /\ recent' = recent /\ cases' = cases /\ book' = book /\ score' = score
           /\ troubled' = troubled \union {r}
<1>1. PICK r \in DOMAIN reports : r = hook[s] /\ Shell(r) = s
  BY DEF Hooked, Waiting, GiveUp, Waits
<1>a. Goes(r, "local", "load") /\ "load" \in Pcs /\ "local" \in Paths /\ r \in Reports
  BY <1>1, Numbered DEF GiveUp, Goes, Pcs, Paths
<1>2. PICK u \in Held : To(r, "local", u) /\ u.pc = "load"
  BY <1>a, GoesTo DEF To, Typed_run
<1> QED BY <1>1, <1>2 DEF GiveUp, Waits, store

Answers(r, p, u) ==
  /\ To(r, p, u) /\ u.pc = "over" /\ run[r][p].pc \in {"decided", "failed"}
  /\ run[r][p].pc = "failed" => p = "local" /\ shown' = shown
  /\ reports' = reports /\ recent' = recent /\ cases' = cases /\ book' = book
  /\ score' = score /\ unmarked' = unmarked /\ troubled' = troubled
  /\ hook' \in [Shells -> Nat]
  /\ \/ /\ hook' = [hook EXCEPT ![Shell(r)] = 0]
        /\ p = "daemon" => hook[Shell(r)] = r /\ run[r]["local"].pc = "idle"
        /\ run[r][p].pc = "decided" => Prints(r, p)
     \/ /\ p = "daemon" /\ hook' = hook /\ shown' = shown
        /\ hook[Shell(r)] # r \/ run[r]["local"].pc # "idle"

LEMMA AnswersTo ==
  ASSUME Typed, Hooked, NEW r \in DOMAIN reports, AnswerHook(r) \/ DecideHere(r)
  PROVE  \E p \in Paths, u \in Held : Answers(r, p, u)
<1>1. Shell(r) \in Shells /\ r # 0
  BY Numbered DEF Shell
<1>2. CASE AnswerHook(r)
  <2>1. PICK u \in Held : To(r, "daemon", u) /\ u.pc = "over"
    BY <1>2, OversTo DEF AnswerHook, Paths
  <2>2. CASE hook[Shell(r)] = r /\ Waits(Shell(r))
    <3>1. hook' = [hook EXCEPT ![Shell(r)] = 0] /\ Prints(r, "daemon")
      BY <1>2, <2>2 DEF AnswerHook, Shell
    <3>2. hook' \in [Shells -> Nat]
      BY <3>1 DEF Typed
    <3>3. Answers(r, "daemon", u)
      BY <1>2, <2>1, <2>2, <3>1, <3>2 DEF Answers, AnswerHook, At, Waits, store, Shell
    <3> QED BY <3>3 DEF Paths
  <2>3. CASE ~(hook[Shell(r)] = r /\ Waits(Shell(r)))
    <3>1. hook' = hook /\ shown' = shown
      BY <1>2, <2>3 DEF AnswerHook, Shell
    <3>2. hook' \in [Shells -> Nat]
      BY <3>1 DEF Typed
    <3>3. hook[Shell(r)] # r \/ run[r]["local"].pc # "idle"
      BY <1>1, <2>3 DEF Waits
    <3>4. Answers(r, "daemon", u)
      BY <1>2, <2>1, <3>1, <3>2, <3>3 DEF Answers, AnswerHook, At, store
    <3> QED BY <3>4 DEF Paths
  <2> QED BY <2>2, <2>3
<1>3. CASE DecideHere(r)
  <2>1. PICK u \in Held : To(r, "local", u) /\ u.pc = "over"
    BY <1>3, OversTo DEF DecideHere, Paths
  <2>2. hook' = [hook EXCEPT ![Shell(r)] = 0]
    BY <1>3 DEF DecideHere, Shell
  <2>3. hook' \in [Shells -> Nat]
    BY <2>2 DEF Typed
  <2>4. Answers(r, "local", u)
    BY <1>3, <2>1, <2>2, <2>3 DEF Answers, DecideHere, At, store
  <2> QED BY <2>4 DEF Paths
<1> QED BY <1>2, <1>3

\* A model's fix changes what a case proposes and nothing else about it.
Keeps(i, f) ==
  /\ i \in DOMAIN cases /\ cases[i].fix = NoFix
  /\ f.source = "model" /\ f.command \in Passing
  /\ reports' = reports /\ hook' = hook /\ run' = run /\ recent' = recent /\ book' = book
  /\ score' = score /\ shown' = shown /\ troubled' = troubled /\ unmarked' = unmarked + 1
  /\ cases' \in Seq(Said) /\ DOMAIN cases' = DOMAIN cases
  /\ \A j \in DOMAIN cases :
       /\ cases'[j].report = cases[j].report /\ cases'[j].by = cases[j].by
       /\ cases'[j].what = cases[j].what
       /\ cases'[j].fix = IF j = i THEN f ELSE cases[j].fix

LEMMA KeepsTo ==
  ASSUME Typed, NEW s \in Shells, NEW command \in Passing, KeepModelFix(s, command)
  PROVE  \E i \in DOMAIN cases, f \in Fixes : Keeps(i, f)
<1>1. PICK f \in Fixes : f = [command |-> command, source |-> "model"]
  BY DEF Fixes, Source
<1>2. PICK i \in DOMAIN cases : cases[i].fix = NoFix /\ cases' = [cases EXCEPT ![i].fix = f]
  BY <1>1 DEF KeepModelFix, LastCase, CasesOf
<1>3. PICK c \in Said : c = cases[i]
  BY Listed
<1>4. PICK d \in Said : d = [c EXCEPT !.fix = f]
  BY DEF Said
<1>5. d.report = c.report /\ d.by = c.by /\ d.what = c.what /\ d.fix = f
  BY <1>4 DEF Said
<1>6. cases' = [cases EXCEPT ![i] = d]
  BY <1>2, <1>3, <1>4
<1>7. cases' \in Seq(Said) /\ DOMAIN cases' = DOMAIN cases
      /\ \A j \in DOMAIN cases : cases'[j] = IF j = i THEN d ELSE cases[j]
  BY <1>6 DEF Typed
<1>8. f.source = "model" /\ f.command \in Passing
  BY <1>1
<1>9. /\ reports' = reports /\ hook' = hook /\ run' = run /\ recent' = recent /\ book' = book
      /\ score' = score /\ shown' = shown /\ troubled' = troubled /\ unmarked' = unmarked + 1
  BY DEF KeepModelFix, history
<1>10. \A j \in DOMAIN cases :
         /\ cases'[j].report = cases[j].report /\ cases'[j].by = cases[j].by
         /\ cases'[j].what = cases[j].what
         /\ cases'[j].fix = IF j = i THEN f ELSE cases[j].fix
  BY <1>3, <1>5, <1>7
<1> QED BY <1>2, <1>7, <1>8, <1>9, <1>10 DEF Keeps

\* The hook of s gives up on report r.
Gives(s, r, u) ==
  /\ r = hook[s] /\ Shell(r) = s /\ To(r, "local", u) /\ u.pc = "load"
  /\ run[r]["local"].pc = "idle"
  /\ reports' = reports /\ hook' = hook /\ shown' = shown /\ unmarked' = unmarked
  /\ recent' = recent /\ cases' = cases /\ book' = book /\ score' = score
  /\ troubled' = troubled \union {r}

LEMMA TypedOthers ==
  ASSUME Typed, Hooked
  PROVE  /\ \A s \in Shells, what \in What, r \in Reports, p \in Paths, u \in Held :
              Begins(s, what, r, p, u) => Typed'
         /\ \A s \in Shells, r \in DOMAIN reports, u \in Held : Gives(s, r, u) => Typed'
         /\ \A r \in DOMAIN reports, p \in Paths, u \in Held : Answers(r, p, u) => Typed'
         /\ \A i \in DOMAIN cases, f \in Fixes : Keeps(i, f) => Typed'
         /\ MarkModelFix => Typed'
         /\ UNCHANGED vars => Typed'
<1>1. ASSUME NEW s \in Shells, NEW what \in What, NEW r \in Reports, NEW p \in Paths,
             NEW u \in Held, Begins(s, what, r, p, u)
      PROVE  Typed'
  <2>1. hook' \in [Shells -> Nat]
    <3>1. r \in Nat
      BY DEF Reports
    <3> QED BY <1>1, <3>1 DEF Begins, Typed
  <2> QED BY <1>1, <2>1 DEF Begins, Typed, To, Typed_run
<1>2. ASSUME NEW s \in Shells, NEW r \in DOMAIN reports, NEW u \in Held, Gives(s, r, u)
      PROVE  Typed'
  BY <1>2 DEF Gives, Typed, To, Typed_run
<1>3. ASSUME NEW r \in DOMAIN reports, NEW p \in Paths, NEW u \in Held, Answers(r, p, u)
      PROVE  Typed'
  BY <1>3 DEF Answers, Typed, To, Typed_run
<1>4. ASSUME NEW i \in DOMAIN cases, NEW f \in Fixes, Keeps(i, f) PROVE Typed'
  BY <1>4 DEF Keeps, Typed
<1>5. ASSUME MarkModelFix PROVE Typed'
  <2>1. score' \in Cards
    BY <1>5, Tallied DEF MarkModelFix, Marked, Typed, Source
  <2> QED BY <1>5, <2>1 DEF MarkModelFix, Typed
<1>6. UNCHANGED vars => Typed'
  BY DEF vars, store, history, Typed
<1> QED BY <1>1, <1>2, <1>3, <1>4, <1>5, <1>6

LEMMA LearningOthers ==
  ASSUME Typed, Hooked, Learning
  PROVE  /\ \A s \in Shells, what \in What, r \in Reports, p \in Paths, u \in Held :
              Begins(s, what, r, p, u) => Learning'
         /\ \A s \in Shells, r \in DOMAIN reports, u \in Held : Gives(s, r, u) => Learning'
         /\ \A r \in DOMAIN reports, p \in Paths, u \in Held : Answers(r, p, u) => Learning'
         /\ \A i \in DOMAIN cases, f \in Fixes : Keeps(i, f) => Learning'
         /\ MarkModelFix => Learning'
         /\ UNCHANGED vars => Learning'
<1>0. DOMAIN reports \subseteq Reports /\ "local" \in Paths
  BY Numbered DEF Paths
<1>1. ASSUME NEW s \in Shells, NEW what \in What, NEW r \in Reports, NEW p \in Paths,
             NEW u \in Held, Begins(s, what, r, p, u)
      PROVE  Learning'
  <2>1. ASSUME NEW o \in Paths PROVE run'[r][o].pc \in {"load", "idle"}
    BY <1>1, <2>1 DEF Begins, To, Moves, Hooked
  <2>2. ASSUME NEW q \in DOMAIN reports, NEW o \in Paths
        PROVE  run'[q][o] = run[q][o] /\ reports'[q] = reports[q]
    BY <1>0, <1>1 DEF Begins, To, Moves
  <2>3. DOMAIN reports' = DOMAIN reports \union {r}
    BY <1>1 DEF Begins
  <2> QED BY <2>1, <2>2, <2>3 DEF Learning
<1>2. ASSUME NEW s \in Shells, NEW r \in DOMAIN reports, NEW u \in Held, Gives(s, r, u)
      PROVE  Learning'
  BY <1>0, <1>2 DEF Gives, Learning, To, Moves
<1>3. ASSUME NEW r \in DOMAIN reports, NEW p \in Paths, NEW u \in Held, Answers(r, p, u)
      PROVE  Learning'
  BY <1>0, <1>3 DEF Answers, Learning, To, Moves
<1>4. ASSUME NEW i \in DOMAIN cases, NEW f \in Fixes, Keeps(i, f) PROVE Learning'
  BY <1>4 DEF Keeps, Learning
<1>5. ASSUME MarkModelFix PROVE Learning'
  BY <1>5 DEF MarkModelFix, Learning
<1>6. UNCHANGED vars => Learning'
  BY DEF vars, Learning
<1> QED BY <1>1, <1>2, <1>3, <1>4, <1>5, <1>6

(***************************************************************************)
(* Who waits for what.                                                     *)
(***************************************************************************)
LEMMA HookedStep ==
  ASSUME Typed, Hooked, NEW r \in DOMAIN reports, NEW p \in Paths, Step(r, p)
  PROVE  Hooked'
<1>1. PICK u \in Held : /\ To(r, p, u) /\ <<run[r][p].pc, u.pc>> \in Turns
                        /\ (u.pc = "failed" => r \in troubled')
  BY StepTurns
<1>2. /\ reports' = reports /\ hook' = hook /\ DOMAIN reports \subseteq Reports
      /\ troubled' = troubled \/ troubled' = troubled \union {r}
  BY StepTurns, Numbered
<1>3. run[r][p].pc \notin Still /\ u.pc \notin {"idle", "load", "over"}
  BY <1>1 DEF Turns, Still
<1>4. \A q \in Reports, o \in Paths : q # r \/ o # p => run'[q][o] = run[q][o]
  BY <1>1 DEF To, Moves
<1>5. run'[r][p] = u
  BY <1>1, <1>2 DEF To, Moves
<1>6. \A s \in Shells : Waiting(s)'
  BY <1>2 DEF Hooked, Waiting, Latest, Shell, ReportsOf
<1>7. \A s \in Shells : ReportsOf(s)' = {} \/ \E q \in ReportsOf(s)' : Latest(q)'
  BY <1>2 DEF Hooked, Latest, Shell, ReportsOf
<1>8. ASSUME NEW q \in DOMAIN reports, q \notin troubled' PROVE OnePath(q)'
  <2>1. OnePath(q)
    BY <1>2, <1>8 DEF Hooked
  <2>2. CASE q # r
    BY <1>2, <1>4, <2>1, <2>2 DEF OnePath, Shell
  <2>3. CASE q = r
    BY <1>2, <1>3, <1>4, <1>5, <2>1, <2>3 DEF OnePath, Shell, Still
  <2> QED BY <2>2, <2>3
<1>9. ASSUME NEW q \in DOMAIN reports, run'[q]["local"].pc \notin Still PROVE hook'[Shell(q)'] = q
  <2>1. run[q]["local"].pc \notin Still
    BY <1>2, <1>3, <1>4, <1>9 DEF Paths
  <2> QED BY <1>2, <2>1 DEF Hooked, Shell
<1>10. \A q \in Reports, o \in Paths : q \notin DOMAIN reports' => run'[q][o].pc = "idle"
  BY <1>2, <1>4 DEF Hooked
<1>11. \A q \in DOMAIN reports', o \in Paths : run'[q][o].pc = "failed" => q \in troubled'
  BY <1>1, <1>2, <1>4, <1>5 DEF Hooked
<1>12. \A q \in troubled' : q \in DOMAIN reports'
  BY <1>2 DEF Hooked
<1> QED BY <1>2, <1>6, <1>7, <1>8, <1>9, <1>10, <1>11, <1>12 DEF Hooked

LEMMA HookedBegins ==
  ASSUME Typed, Hooked, NEW s \in Shells, NEW what \in What, NEW r \in Reports,
         NEW p \in Paths, NEW u \in Held, Begins(s, what, r, p, u)
  PROVE  Hooked'
<1>1. /\ To(r, p, u) /\ u.pc = "load" /\ hook[s] = 0 /\ hook' = [hook EXCEPT ![s] = r]
      /\ DOMAIN reports' = DOMAIN reports \union {r} /\ troubled' = troubled
      /\ r \notin DOMAIN reports /\ \A q \in DOMAIN reports : q < r
  BY DEF Begins
<1>0. DOMAIN reports \subseteq Reports /\ r # 0 /\ Reports \subseteq Nat
  BY Numbered DEF Reports
<1>2. /\ \A t : ReportsOf(t)' = IF t = s THEN ReportsOf(t) \union {r} ELSE ReportsOf(t)
      /\ \A q \in DOMAIN reports : Shell(q)' = Shell(q) /\ q # r
      /\ Shell(r)' = s
  BY Grown
<1>3. \A q \in DOMAIN reports, o \in Paths : run'[q][o] = run[q][o]
  BY <1>0, <1>1 DEF To, Moves
<1>4. run'[r][p] = u /\ \A o \in Paths : o # p => run'[r][o].pc = "idle"
  BY <1>1 DEF To, Moves, Hooked
<1>5. \A t \in Shells : hook'[t] = IF t = s THEN r ELSE hook[t]
  BY <1>1 DEF Typed
<1>a. \A q \in DOMAIN reports : Shell(q) \in Shells
  BY Numbered DEF Shell
<1>b. Latest(r)'
  <2>1. \A q \in ReportsOf(s) : q \in DOMAIN reports
    BY DEF ReportsOf
  <2>2. r \in Nat /\ \A q \in DOMAIN reports : q \in Nat /\ q < r
    BY <1>0, <1>1
  <2>3. \A q \in ReportsOf(s) : q <= r
    BY <2>1, <2>2
  <2>4. ReportsOf(s)' = ReportsOf(s) \union {r} /\ r <= r
    BY <1>2, <2>2
  <2> QED BY <1>2, <2>3, <2>4 DEF Latest
<1>c. ASSUME NEW q \in DOMAIN reports, Shell(q) # s, Latest(q) PROVE Latest(q)'
  BY <1>2, <1>c DEF Latest
<1>6. ASSUME NEW t \in Shells PROVE Waiting(t)'
  <2>1. CASE t = s
    BY <1>1, <1>2, <1>5, <1>b, <2>1 DEF Waiting
  <2>2. CASE t # s
    BY <1>1, <1>2, <1>5, <1>c, <2>2 DEF Waiting, Hooked
  <2> QED BY <2>1, <2>2
<1>7. ASSUME NEW t \in Shells PROVE ReportsOf(t)' = {} \/ \E q \in ReportsOf(t)' : Latest(q)'
  <2>1. CASE t = s
    BY <1>2, <1>b, <2>1
  <2>2. CASE t # s
    <3>1. \A q \in ReportsOf(t) : q \in DOMAIN reports /\ Shell(q) = t
      BY DEF ReportsOf, Shell
    <3> QED BY <1>2, <1>c, <2>2, <3>1 DEF Hooked
  <2> QED BY <2>1, <2>2
<1>8. ASSUME NEW q \in DOMAIN reports', q \notin troubled' PROVE OnePath(q)'
  <2>1. CASE q = r
    BY <1>1, <1>2, <1>4, <1>5, <2>1 DEF OnePath
  <2>2. CASE q \in DOMAIN reports
    <3>1. OnePath(q) /\ Shell(q)' = Shell(q) /\ q # 0
      BY <1>0, <1>1, <1>2, <1>8, <2>2 DEF Hooked, Reports
    <3>2. hook'[Shell(q)] # q => hook[Shell(q)] # q
      BY <1>1, <1>5, <1>a, <2>2, <3>1
    <3> QED BY <1>3, <2>2, <3>1, <3>2 DEF OnePath
  <2> QED BY <1>1, <2>1, <2>2
<1>9. ASSUME NEW q \in DOMAIN reports', run'[q]["local"].pc \notin Still
      PROVE  hook'[Shell(q)'] = q
  <2>1. CASE q = r
    BY <1>2, <1>5, <2>1
  <2>2. CASE q \in DOMAIN reports
    <3>1. hook[Shell(q)] = q /\ Shell(q)' = Shell(q)
      BY <1>2, <1>3, <1>9, <2>2 DEF Hooked, Paths
    <3>2. q # 0
      BY <1>0, <2>2 DEF Reports
    <3> QED BY <1>1, <1>5, <1>a, <2>2, <3>1, <3>2
  <2> QED BY <1>1, <2>1, <2>2
<1>10. \A q \in Reports, o \in Paths : q \notin DOMAIN reports' => run'[q][o].pc = "idle"
  BY <1>1 DEF Hooked, To, Moves
<1>11. \A q \in DOMAIN reports', o \in Paths : run'[q][o].pc = "failed" => q \in troubled'
  BY <1>1, <1>3, <1>4 DEF Hooked
<1>12. \A q \in troubled' : q \in DOMAIN reports'
  BY <1>1 DEF Hooked
<1> QED BY <1>6, <1>7, <1>8, <1>9, <1>10, <1>11, <1>12 DEF Hooked

LEMMA HookedGives ==
  ASSUME Typed, Hooked, NEW s \in Shells, NEW r \in DOMAIN reports, NEW u \in Held,
         Gives(s, r, u)
  PROVE  Hooked'
<1>1. /\ r = hook[s] /\ Shell(r) = s /\ To(r, "local", u) /\ u.pc = "load"
      /\ reports' = reports /\ hook' = hook /\ troubled' = troubled \union {r}
  BY DEF Gives
<1>2. DOMAIN reports \subseteq Reports /\ "local" \in Paths
  BY Numbered DEF Paths
<1>4. \A q \in Reports, o \in Paths : q # r \/ o # "local" => run'[q][o] = run[q][o]
  BY <1>1 DEF To, Moves
<1>5. run'[r]["local"] = u
  BY <1>1, <1>2 DEF To, Moves
<1>6. \A t \in Shells : Waiting(t)'
  BY <1>1 DEF Hooked, Waiting, Latest, Shell, ReportsOf
<1>7. \A t \in Shells : ReportsOf(t)' = {} \/ \E q \in ReportsOf(t)' : Latest(q)'
  BY <1>1 DEF Hooked, Latest, Shell, ReportsOf
<1>8. ASSUME NEW q \in DOMAIN reports, q \notin troubled' PROVE OnePath(q)'
  <2>1. OnePath(q) /\ q # r
    BY <1>1, <1>8 DEF Hooked
  <2> QED BY <1>1, <1>2, <1>4, <2>1 DEF OnePath, Shell
<1>9. ASSUME NEW q \in DOMAIN reports, run'[q]["local"].pc \notin Still PROVE hook'[Shell(q)'] = q
  BY <1>1, <1>2, <1>4, <1>9 DEF Hooked, Shell
<1>10. \A q \in Reports, o \in Paths : q \notin DOMAIN reports' => run'[q][o].pc = "idle"
  BY <1>1, <1>4 DEF Hooked
<1>11. \A q \in DOMAIN reports', o \in Paths : run'[q][o].pc = "failed" => q \in troubled'
  BY <1>1, <1>2, <1>4, <1>5 DEF Hooked
<1>12. \A q \in troubled' : q \in DOMAIN reports'
  BY <1>1 DEF Hooked
<1> QED BY <1>1, <1>6, <1>7, <1>8, <1>9, <1>10, <1>11, <1>12 DEF Hooked

LEMMA HookedAnswers ==
  ASSUME Typed, Hooked, NEW r \in DOMAIN reports, NEW p \in Paths, NEW u \in Held,
         Answers(r, p, u)
  PROVE  Hooked'
<1>1. /\ To(r, p, u) /\ u.pc = "over" /\ run[r][p].pc \in {"decided", "failed"}
      /\ reports' = reports /\ troubled' = troubled
  BY DEF Answers
<1>2. DOMAIN reports \subseteq Reports /\ Shell(r) \in Shells
  BY Numbered DEF Shell
<1>4. \A q \in Reports, o \in Paths : q # r \/ o # p => run'[q][o] = run[q][o]
  BY <1>1 DEF To, Moves
<1>5. run'[r][p] = u
  BY <1>1, <1>2 DEF To, Moves
<1>a. p = "local" => hook[Shell(r)] = r
  BY <1>1 DEF Hooked, Still
<1>b. \/ hook' = [hook EXCEPT ![Shell(r)] = 0] /\ hook[Shell(r)] = r
         /\ (p = "daemon" => run[r]["local"].pc = "idle")
      \/ hook' = hook /\ p = "daemon" /\ (hook[Shell(r)] # r \/ run[r]["local"].pc # "idle")
  BY <1>a DEF Answers, Paths
<1>c. \A t \in Shells : \/ hook'[t] = hook[t]
                       \/ (t = Shell(r) /\ hook'[t] = 0 /\ hook[t] = r)
  <2>1. hook \in [Shells -> Nat]
    BY DEF Typed
  <2>2. CASE hook' = [hook EXCEPT ![Shell(r)] = 0] /\ hook[Shell(r)] = r
    <3>1. \A t \in Shells : hook'[t] = IF t = Shell(r) THEN 0 ELSE hook[t]
      BY <2>1, <2>2
    <3> QED BY <2>2, <3>1
  <2> QED BY <1>b, <2>2
<1>6. \A t \in Shells : Waiting(t)'
  BY <1>1, <1>c DEF Hooked, Waiting, Latest, Shell, ReportsOf
<1>7. \A t \in Shells : ReportsOf(t)' = {} \/ \E q \in ReportsOf(t)' : Latest(q)'
  BY <1>1 DEF Hooked, Latest, Shell, ReportsOf
<1>8. ASSUME NEW q \in DOMAIN reports, q \notin troubled' PROVE OnePath(q)'
  <2>1. OnePath(q) /\ Shell(q)' = Shell(q) /\ Shell(q) \in Shells
    BY <1>1, <1>8, Numbered DEF Hooked, Shell
  <2>2. CASE q # r
    <3>1. hook'[Shell(q)] # q => hook[Shell(q)] # q
      BY <1>c, <2>1, <2>2
    <3> QED BY <1>2, <1>4, <2>1, <2>2, <3>1 DEF OnePath
  <2>3. CASE q = r
    <3>1. \A o \in Paths : o # p => run[r][o].pc = "idle"
      BY <1>1, <2>1, <2>3 DEF OnePath
    <3>2. \A o \in Paths : o # p => run'[r][o].pc = "idle"
      BY <1>2, <1>4, <3>1
    <3> QED BY <1>1, <1>5, <2>1, <2>3, <3>2 DEF OnePath, Still
  <2> QED BY <2>2, <2>3
<1>9. ASSUME NEW q \in DOMAIN reports, run'[q]["local"].pc \notin Still PROVE hook'[Shell(q)'] = q
  <2>0. "local" \in Paths /\ q \in Reports /\ Shell(q) \in Shells /\ Shell(q)' = Shell(q)
    BY <1>1, <1>2, Numbered DEF Paths, Shell
  <2>1. run[q]["local"].pc \notin Still /\ ~(q = r /\ p = "local")
    BY <1>1, <1>4, <1>5, <1>9, <2>0 DEF Still
  <2>2. hook[Shell(q)] = q
    BY <2>1 DEF Hooked
  <2>3. q # r => hook'[Shell(q)] = q
    BY <1>c, <2>0, <2>2
  <2>4. q = r => hook' = hook
    BY <1>b, <2>1 DEF Paths, Still
  <2> QED BY <2>0, <2>2, <2>3, <2>4
<1>10. \A q \in Reports, o \in Paths : q \notin DOMAIN reports' => run'[q][o].pc = "idle"
  BY <1>1, <1>4 DEF Hooked
<1>11. \A q \in DOMAIN reports', o \in Paths : run'[q][o].pc = "failed" => q \in troubled'
  BY <1>1, <1>2, <1>4, <1>5 DEF Hooked
<1>12. \A q \in troubled' : q \in DOMAIN reports'
  BY <1>1 DEF Hooked
<1> QED BY <1>1, <1>6, <1>7, <1>8, <1>9, <1>10, <1>11, <1>12 DEF Hooked

LEMMA HookedSame ==
  ASSUME Hooked, reports' = reports, hook' = hook, run' = run, troubled' = troubled
  PROVE  Hooked'
BY DEF Hooked, Waiting, Latest, Shell, ReportsOf, OnePath

(***************************************************************************)
(* What became a case.                                                     *)
(***************************************************************************)
Placed(i) ==
  /\ cases[i].report \in DOMAIN reports
  /\ cases[i].what = reports[cases[i].report].what
  /\ run[cases[i].report][cases[i].by].pc \in {"offered", "decided", "over"}
ShownOnce(i) ==
  ~Silent /\ cases[i].report \notin troubled /\ hook[Shell(cases[i].report)] # cases[i].report
    => cases[i].report \in shown
Single(i, j) == cases[i].report = cases[j].report /\ cases[i].by = cases[j].by => i = j

\* Whether the interface is silent does not change.
Quiet == Silent' = Silent

LEMMA QuietNext == [Next]_vars => Quiet
<1>1. ASSUME NEW s \in Shells, GiveUp(s) \/ \E what \in What : Report(s, what) PROVE Quiet
  BY <1>1 DEF GiveUp, Report, Quiet, Silent
<1>2. ASSUME NEW r \in DOMAIN reports, AnswerHook(r) \/ DecideHere(r) PROVE Quiet
  BY <1>2 DEF AnswerHook, DecideHere, Quiet, Silent
<1>3. ASSUME NEW r \in DOMAIN reports, NEW p \in Paths, Step(r, p) PROVE Quiet
  BY <1>3 DEF Step, Load, Record, Suggest, SaveCase, MarkOffered, LearnFrom, MarkTaken,
              StoreBook, StoreError, Outside, Quiet, Silent
<1>4. MarkModelFix \/ (\E s \in Shells, command \in Passing : KeepModelFix(s, command)) => Quiet
  BY DEF MarkModelFix, KeepModelFix, Quiet, Silent
<1>5. UNCHANGED vars => Quiet
  BY DEF vars, Quiet, Silent
<1> QED BY <1>1, <1>2, <1>3, <1>4, <1>5 DEF Next

LEMMA CasedParts ==
  Cased <=> \A i \in DOMAIN cases :
              Placed(i) /\ ShownOnce(i) /\ \A j \in DOMAIN cases : Single(i, j)
BY DEF Cased, Placed, ShownOnce, Single, OfferedIsShown, Shell

LEMMA CasedNext ==
  (\A i \in DOMAIN cases' : /\ Placed(i)' /\ ShownOnce(i)'
                            /\ \A j \in DOMAIN cases' : Single(i, j)') => Cased'
BY DEF Cased, Placed, ShownOnce, Single, OfferedIsShown, Shell

\* What SaveCase appends.
Appends(r, p, n, c) ==
  /\ n = Len(cases) + 1 /\ n \notin DOMAIN cases /\ \A i \in DOMAIN cases : i < n
  /\ DOMAIN cases' = DOMAIN cases \union {n} /\ cases'[n] = c
  /\ \A i \in DOMAIN cases : cases'[i] = cases[i]
  /\ c.report = r /\ c.by = p /\ c.what = reports[r].what /\ c.fix = run[r][p].fix

LEMMA SavesTo ==
  ASSUME Typed, NEW r \in DOMAIN reports, NEW p \in Paths, SaveCase(r, p)
  PROVE  \E n \in Nat, c \in Said : Appends(r, p, n, c)
<1>1. PICK h \in Held : h = run[r][p]
  BY HeldAt, Numbered
<1>2. PICK c \in Said : c = [report |-> r, by |-> p, what |-> reports[r].what, fix |-> h.fix]
  BY <1>1, Numbered DEF Said, Held
<1>3. c.report = r /\ c.by = p /\ c.what = reports[r].what /\ c.fix = h.fix
  BY <1>2
<1>4. cases' = Append(cases, c) /\ cases \in Seq(Said)
  BY <1>1, <1>2 DEF SaveCase, Typed
<1>5. PICK n \in Nat : n = Len(cases) + 1
  BY <1>4
<1>6. /\ n \notin DOMAIN cases /\ \A i \in DOMAIN cases : i < n
      /\ DOMAIN cases' = DOMAIN cases \union {n} /\ cases'[n] = c
      /\ \A i \in DOMAIN cases : cases'[i] = cases[i]
  BY <1>4, <1>5
<1> QED BY <1>1, <1>3, <1>5, <1>6 DEF Appends

LEMMA CasedStep ==
  ASSUME Typed, Hooked, Cased, Quiet, NEW r \in DOMAIN reports, NEW p \in Paths, Step(r, p)
  PROVE  Cased'
<1>1. PICK u \in Held : To(r, p, u) /\ <<run[r][p].pc, u.pc>> \in Turns
  BY StepTurns
<1>2. /\ reports' = reports /\ hook' = hook /\ shown' = shown /\ r \in Reports
      /\ troubled' = troubled \/ troubled' = troubled \union {r}
  BY StepTurns, Numbered
<1>3. \A q \in Reports, o \in Paths : q # r \/ o # p => run'[q][o] = run[q][o]
  BY <1>1 DEF To, Moves
<1>4. run'[r][p] = u
  BY <1>1, <1>2 DEF To, Moves
<1>5. ASSUME NEW q \in Reports, NEW o \in Paths, run[q][o].pc \in {"offered", "decided", "over"}
      PROVE  run'[q][o].pc \in {"offered", "decided", "over"}
  <2>1. CASE q # r \/ o # p
    BY <1>3, <1>5, <2>1
  <2>2. CASE q = r /\ o = p
    BY <1>1, <1>4, <1>5, <2>2 DEF Turns
  <2> QED BY <2>1, <2>2
<1>6. ASSUME NEW i \in DOMAIN cases, NEW k \in DOMAIN cases', cases'[k] = cases[i]
      PROVE  Placed(k)' /\ ShownOnce(k)'
  <2>1. Placed(i) /\ ShownOnce(i)
    BY CasedParts
  <2>2. Placed(k)'
    BY <1>2, <1>5, <1>6, <2>1, Listed DEF Placed
  <2>3. ShownOnce(k)'
    BY <1>2, <1>6, <2>1 DEF ShownOnce, Quiet, Shell
  <2> QED BY <2>2, <2>3
<1>7. CASE cases' = cases
  <2>1. \A i, j \in DOMAIN cases : Single(i, j)'
    BY <1>7, CasedParts DEF Single
  <2> QED BY <1>6, <1>7, <2>1, CasedNext
<1>8. CASE SaveCase(r, p)
  <2>1. PICK n \in Nat, c \in Said : Appends(r, p, n, c)
    BY <1>8, SavesTo
  <2>2. run[r][p].pc = "case" /\ u.pc \in {"offered", "decided", "failed"}
    BY <1>1, <1>8 DEF SaveCase, At, Turns
  <2>a. u.pc # "failed"
    <3>1. PICK d \in {"offered", "decided"} : Goes(r, p, d)
      BY <1>8 DEF SaveCase
    <3>2. PICK v \in Held : To(r, p, v) /\ v.pc = d
      BY <1>2, <3>1, GoesTo DEF Pcs, To, Typed_run
    <3> QED BY <1>2, <1>4, <3>2 DEF To, Moves
  <2>3. Placed(n)'
    BY <1>2, <1>4, <2>1, <2>2, <2>a DEF Placed, Appends
  <2>4. ShownOnce(n)'
    <3>1. r \notin troubled => hook[Shell(r)] = r
      BY <2>2 DEF Hooked, OnePath, Still
    <3> QED BY <1>2, <2>1, <3>1 DEF ShownOnce, Quiet, Appends, Shell
  <2>5. ASSUME NEW i \in DOMAIN cases PROVE ~(cases[i].report = r /\ cases[i].by = p)
    BY <2>2, CasedParts DEF Placed
  <2>6. ASSUME NEW i \in DOMAIN cases', NEW j \in DOMAIN cases' PROVE Single(i, j)'
    <3>1. \A x \in DOMAIN cases' : x = n \/ (x \in DOMAIN cases /\ cases'[x] = cases[x])
      BY <2>1 DEF Appends
    <3>2. cases'[n].report = r /\ cases'[n].by = p
      BY <2>1 DEF Appends
    <3>3. i \in DOMAIN cases /\ j \in DOMAIN cases => Single(i, j)
      BY CasedParts
    <3> QED BY <2>5, <3>1, <3>2, <3>3 DEF Single
  <2>7. ASSUME NEW k \in DOMAIN cases' PROVE Placed(k)' /\ ShownOnce(k)'
    <3>1. CASE k = n
      BY <2>3, <2>4, <3>1
    <3>2. CASE k \in DOMAIN cases
      BY <1>6, <2>1, <3>2 DEF Appends
    <3> QED BY <2>1, <3>1, <3>2 DEF Appends
  <2> QED BY <2>6, <2>7, CasedNext
<1>9. ~SaveCase(r, p) => cases' = cases
  BY DEF Step, Load, Record, Suggest, MarkOffered, LearnFrom, MarkTaken, StoreBook, StoreError,
         store
<1> QED BY <1>7, <1>8, <1>9

LEMMA CasedOthers ==
  ASSUME Typed, Hooked, Cased, Quiet
  PROVE  /\ \A s \in Shells, what \in What, r \in Reports, p \in Paths, u \in Held :
              Begins(s, what, r, p, u) => Cased'
         /\ \A s \in Shells, r \in DOMAIN reports, u \in Held : Gives(s, r, u) => Cased'
         /\ \A r \in DOMAIN reports, p \in Paths, u \in Held : Answers(r, p, u) => Cased'
         /\ \A i \in DOMAIN cases, f \in Fixes : Keeps(i, f) => Cased'
         /\ MarkModelFix => Cased'
         /\ UNCHANGED vars => Cased'
<1>0. DOMAIN reports \subseteq Reports /\ "local" \in Paths
  BY Numbered DEF Paths
<1>a. \A i \in DOMAIN cases : /\ Placed(i) /\ ShownOnce(i) /\ cases[i].report \in DOMAIN reports
                              /\ cases[i].by \in Paths
                              /\ \A j \in DOMAIN cases : Single(i, j)
  BY CasedParts, Listed DEF Placed
<1>1. ASSUME NEW s \in Shells, NEW what \in What, NEW r \in Reports, NEW p \in Paths,
             NEW u \in Held, Begins(s, what, r, p, u)
      PROVE  Cased'
  <2>1. /\ cases' = cases /\ troubled' = troubled /\ shown' = shown /\ hook[s] = 0
        /\ \A q \in DOMAIN reports : reports'[q] = reports[q] /\ q # r /\ q # 0
        /\ DOMAIN reports \subseteq DOMAIN reports'
        /\ hook' = [hook EXCEPT ![s] = r]
    BY <1>0, <1>1 DEF Begins, Reports
  <2>2. \A q \in DOMAIN reports, o \in Paths : run'[q][o] = run[q][o]
    BY <1>0, <1>1 DEF Begins, To, Moves
  <2>3. \A t \in Shells : hook'[t] = IF t = s THEN r ELSE hook[t]
    BY <2>1 DEF Typed
  <2>4. ASSUME NEW i \in DOMAIN cases PROVE Placed(i)' /\ ShownOnce(i)'
    <3>1. PICK q \in DOMAIN reports : q = cases[i].report
      BY <1>a
    <3>2. Shell(q)' = Shell(q) /\ Shell(q) \in Shells
      BY <2>1, Numbered DEF Shell
    <3>3. Placed(i)'
      BY <1>a, <2>1, <2>2 DEF Placed
    <3>4. hook'[Shell(q)] # q => hook[Shell(q)] # q
      BY <2>1, <2>3, <3>2
    <3>5. ShownOnce(i)'
      BY <1>a, <2>1, <3>1, <3>2, <3>4 DEF ShownOnce, Quiet
    <3> QED BY <3>3, <3>5
  <2>5. \A i, j \in DOMAIN cases : Single(i, j)'
    BY <1>a, <2>1 DEF Single
  <2> QED BY <2>1, <2>4, <2>5, CasedNext
<1>2. ASSUME NEW s \in Shells, NEW r \in DOMAIN reports, NEW u \in Held, Gives(s, r, u)
      PROVE  Cased'
  <2>1. /\ cases' = cases /\ troubled' = troubled \union {r} /\ shown' = shown
        /\ reports' = reports /\ hook' = hook /\ run[r]["local"].pc = "idle"
    BY <1>2 DEF Gives
  <2>2. \A q \in Reports, o \in Paths : q # r \/ o # "local" => run'[q][o] = run[q][o]
    BY <1>2 DEF Gives, To, Moves
  <2>3. ASSUME NEW i \in DOMAIN cases PROVE Placed(i)' /\ ShownOnce(i)'
    <3>1. cases[i].report # r \/ cases[i].by # "local"
      BY <1>a, <2>1 DEF Placed
    <3>2. Placed(i)'
      BY <1>0, <1>a, <2>1, <2>2, <3>1 DEF Placed
    <3>3. ShownOnce(i)'
      BY <1>a, <2>1 DEF ShownOnce, Quiet, Shell
    <3> QED BY <3>2, <3>3
  <2>4. \A i, j \in DOMAIN cases : Single(i, j)'
    BY <1>a, <2>1 DEF Single
  <2> QED BY <2>1, <2>3, <2>4, CasedNext
<1>3. ASSUME NEW r \in DOMAIN reports, NEW p \in Paths, NEW u \in Held, Answers(r, p, u)
      PROVE  Cased'
  <2>1. /\ cases' = cases /\ troubled' = troubled /\ reports' = reports
        /\ u.pc = "over" /\ run[r][p].pc \in {"decided", "failed"}
    BY <1>3 DEF Answers
  <2>2. \A q \in Reports, o \in Paths :
          run'[q][o] = IF q = r /\ o = p THEN u ELSE run[q][o]
    BY <1>3 DEF Answers, To, Moves
  <2>3. ASSUME NEW i \in DOMAIN cases PROVE Placed(i)' /\ ShownOnce(i)'
    <3>1. Placed(i)'
      BY <1>0, <1>a, <2>1, <2>2 DEF Placed
    <3>2. ShownOnce(i)'
      <4>1. PICK q \in DOMAIN reports : q = cases[i].report
        BY <1>a
      <4>2. Shell(q)' = Shell(q) /\ Shell(q) \in Shells /\ Shell(r) \in Shells
        BY <2>1, Numbered DEF Shell
      <4>3. CASE hook' = hook /\ shown' = shown
        BY <1>a, <2>1, <4>1, <4>2, <4>3 DEF ShownOnce, Quiet
      <4>4. CASE /\ hook' = [hook EXCEPT ![Shell(r)] = 0]
                 /\ p = "daemon" => hook[Shell(r)] = r /\ run[r]["local"].pc = "idle"
                 /\ run[r][p].pc = "decided" => Prints(r, p)
        <5>1. hook[Shell(r)] = r
          <6>1. p = "local" => hook[Shell(r)] = r
            BY <2>1 DEF Hooked, Still
          <6> QED BY <4>4, <6>1 DEF Paths
        <5>2. \A t \in Shells : hook'[t] = IF t = Shell(r) THEN 0 ELSE hook[t]
          BY <4>4 DEF Typed
        <5>3. shown \subseteq shown'
          BY <1>3, <2>1, <4>4 DEF Answers, Prints
        <5>4. CASE q # r
          <6>1. hook'[Shell(q)] # q => hook[Shell(q)] # q
            BY <4>2, <5>1, <5>2, <5>4
          <6> QED BY <1>a, <2>1, <4>1, <4>2, <5>3, <6>1 DEF ShownOnce, Quiet
        <5>5. CASE q = r /\ q \notin troubled /\ ~Silent
          <6>1. run[r][p].pc = "decided" /\ OnePath(r)
            BY <2>1, <5>5 DEF Hooked
          <6>2. cases[i].by = p
            BY <1>a, <4>1, <5>5, <6>1 DEF OnePath, Placed
          <6>3. i \in Offers(r, p)
            BY <4>1, <5>5, <6>2 DEF Offers
          <6>4. r \in shown'
            BY <4>1, <4>4, <5>5, <6>1, <6>3 DEF Prints
          <6> QED BY <2>1, <4>1, <5>5, <6>4 DEF ShownOnce, Quiet
        <5> QED BY <2>1, <4>1, <5>4, <5>5 DEF ShownOnce, Quiet
      <4> QED BY <1>3, <4>3, <4>4 DEF Answers
    <3> QED BY <3>1, <3>2
  <2>4. \A i, j \in DOMAIN cases : Single(i, j)'
    BY <1>a, <2>1 DEF Single
  <2> QED BY <2>1, <2>3, <2>4, CasedNext
<1>4. ASSUME NEW i \in DOMAIN cases, NEW f \in Fixes, Keeps(i, f) PROVE Cased'
  <2>1. /\ reports' = reports /\ hook' = hook /\ run' = run /\ shown' = shown
        /\ troubled' = troubled /\ DOMAIN cases' = DOMAIN cases
        /\ \A j \in DOMAIN cases :
             /\ cases'[j].report = cases[j].report /\ cases'[j].by = cases[j].by
             /\ cases'[j].what = cases[j].what
    BY <1>4 DEF Keeps
  <2>2. \A j \in DOMAIN cases : Placed(j)' /\ ShownOnce(j)'
    BY <1>a, <2>1 DEF Placed, ShownOnce, Quiet, Shell
  <2>3. \A j, k \in DOMAIN cases : Single(j, k)'
    BY <1>a, <2>1 DEF Single
  <2> QED BY <2>1, <2>2, <2>3, CasedNext
<1>5. ASSUME reports' = reports, hook' = hook, run' = run, shown' = shown, cases' = cases,
             troubled' = troubled
      PROVE  Cased'
  <2>1. \A j \in DOMAIN cases : Placed(j)' /\ ShownOnce(j)'
    BY <1>a, <1>5 DEF Placed, ShownOnce, Quiet, Shell
  <2>2. \A j, k \in DOMAIN cases : Single(j, k)'
    BY <1>a, <1>5 DEF Single
  <2> QED BY <1>5, <2>1, <2>2, CasedNext
<1>6. MarkModelFix => Cased'
  BY <1>5 DEF MarkModelFix, history
<1>7. UNCHANGED vars => Cased'
  BY <1>5 DEF vars, store, history
<1> QED BY <1>1, <1>2, <1>3, <1>4, <1>6, <1>7

(***************************************************************************)
(* What a session remembers while no answer comes late.                    *)
(***************************************************************************)
LEMMA OneBefore ==
  ASSUME Typed, NEW r \in DOMAIN reports, NEW q \in DOMAIN reports, NEW x \in DOMAIN reports,
         Before(q, r), Before(x, r)
  PROVE  q = x
<1>1. q \in Nat /\ x \in Nat /\ r \in Nat
  BY Numbered DEF Reports
<1>2. CASE q < x
  <2>1. x \in q + 1 .. r - 1
    BY <1>1, <1>2 DEF Before
  <2> QED BY <2>1 DEF Before
<1>3. CASE x < q
  <2>1. q \in x + 1 .. r - 1
    BY <1>1, <1>3 DEF Before
  <2> QED BY <2>1 DEF Before
<1> QED BY <1>1, <1>2, <1>3

\* The path of a clean shell that moves is the one its prompt waits for; the
\* others are over or have not begun.
LEMMA OneMoves ==
  ASSUME Typed, Hooked, NEW r \in DOMAIN reports, NEW p \in Paths, run[r][p].pc \notin Still,
         Clean(Shell(r))
  PROVE  /\ hook[Shell(r)] = r /\ Latest(r) /\ Shell(r) \in Shells
         /\ \A o \in Paths : o # p => run[r][o].pc = "idle"
         /\ \A q \in DOMAIN reports, o \in Paths :
              Shell(q) = Shell(r) /\ q # r => run[q][o].pc \in Still /\ ~Latest(q)
<1>0. DOMAIN reports \subseteq Nat /\ r # 0 /\ Shell(r) \in Shells
  BY Numbered DEF Reports, Shell
<1>1. \A q \in DOMAIN reports : Shell(q) = Shell(r) => q \in ReportsOf(Shell(r))
  BY DEF ReportsOf, Shell
<1>2. \A q \in DOMAIN reports : Shell(q) = Shell(r) => OnePath(q)
  BY <1>1 DEF Hooked, Clean
<1>3. hook[Shell(r)] = r
  BY <1>2 DEF OnePath
<1>4. Latest(r)
  BY <1>0, <1>3 DEF Hooked, Waiting
<1>5. \A o \in Paths : o # p => run[r][o].pc = "idle"
  BY <1>2 DEF OnePath, Still
<1>6. ASSUME NEW q \in DOMAIN reports, Shell(q) = Shell(r), q # r
      PROVE  ~Latest(q) /\ \A o \in Paths : run[q][o].pc \in Still
  <2>1. \A o \in Paths : run[q][o].pc \in Still
    BY <1>2, <1>3, <1>6 DEF OnePath
  <2>2. q <= r /\ q \in Nat /\ r \in Nat
    BY <1>0, <1>1, <1>4, <1>6 DEF Latest
  <2>3. Latest(q) => r <= q
    BY <1>1, <1>6 DEF Latest
  <2> QED BY <1>6, <2>1, <2>2, <2>3
<1> QED BY <1>0, <1>3, <1>4, <1>5, <1>6

LEMMA RecallsSame ==
  ASSUME NEW q, NEW o, reports' = reports, recent'[Shell(q)] = recent[Shell(q)],
         run'[q][o] = run[q][o], Recalls(q, o)
  PROVE  Recalls(q, o)'
<1>1. /\ Shell(q)' = Shell(q) /\ (Latest(q)' <=> Latest(q)) /\ (New(q)' <=> New(q))
      /\ \A v : Precedes(q, v)' <=> Precedes(q, v)
  BY DEF Shell, Latest, New, Precedes, ReportsOf, Before
<1> QED BY <1>1 DEF Recalls

LEMMA RecallsStep ==
  ASSUME Typed, Hooked, Recalled, NEW r \in DOMAIN reports, NEW p \in Paths, Step(r, p),
         Clean(Shell(r)), ~StoreError(r, p)
  PROVE  Recalls(r, p)' /\ (SaveCase(r, p) => New(r))
<1>0. /\ reports' = reports /\ r \in Reports /\ Shell(r) \in Shells /\ Shell(r)' = Shell(r)
      /\ reports[r].what \in What
  BY StepTurns, Numbered DEF Shell
<1>h. PICK h \in Held : h = run[r][p]
  BY HeldAt, <1>0
<1>1. PICK u \in Held : To(r, p, u) /\ <<h.pc, u.pc>> \in Turns
  BY <1>h, StepTurns
<1>2. run'[r][p] = u /\ \A v \in Held : To(r, p, v) => v = u
  BY <1>0, <1>1 DEF To, Moves
<1>3. Latest(r)
  BY <1>1, <1>h, OneMoves DEF Turns, Still
<1>4. /\ h.pc \in {"load", "save"} => Precedes(r, Previous(recent[Shell(r)]))
      /\ h.pc = "save" => h.recent = recent[Shell(r)]
      /\ h.pc \in Saved => Previous(recent[Shell(r)]) = reports[r].what
      /\ h.pc \in {"ignores", "case"} => New(r)
  BY <1>3, <1>h DEF Recalled, Recalls
<1>5. /\ Latest(r)' /\ (New(r)' <=> New(r)) /\ \A v : Precedes(r, v)' <=> Precedes(r, v)
  BY <1>0, <1>3 DEF Shell, Latest, New, Precedes, ReportsOf, Before
<1>6. CASE Load(r, p)
  <2>1. h.pc = "load" /\ recent' = recent
    BY <1>6, <1>h DEF Load, At, store
  <2>2. PICK v \in Held : To(r, p, v) /\ v.pc = "save" /\ v.recent = recent[reports[r].shell]
    BY <1>6, Loads
  <2>3. u.pc = "save" /\ u.recent = recent[Shell(r)]
    BY <1>2, <2>2 DEF Shell
  <2>4. Recalls(r, p)'
    BY <1>0, <1>2, <1>4, <1>5, <2>1, <2>3 DEF Recalls, Saved
  <2> QED BY <1>h, <2>1, <2>4 DEF SaveCase, At
<1>7. CASE Record(r, p)
  <2>1. h.pc = "save" /\ h.recent = recent[Shell(r)] /\ h.recent \in Seq(What)
    BY <1>4, <1>7, <1>h DEF Record, At, Held
  <2>2. recent'[Shell(r)] = Remember(h.recent, reports[r].what)
    BY <1>0, <1>7, <1>h DEF Record, Shell, Typed
  <2>3. Previous(recent'[Shell(r)]) = reports[r].what
    BY <1>0, <2>1, <2>2, Remembered
  <2>4. PICK d : d = Decision(reports[r].what, Previous(h.recent))
    OBVIOUS
  <2>5. d \in {"learn", "decided", "ignores"} /\ Goes(r, p, d)
    BY <1>7, <1>h, <2>4 DEF Record, Decision
  <2>6. PICK v \in Held : To(r, p, v) /\ v.pc = d /\ v.recent = h.recent
    BY <1>0, <1>h, <2>5, GoesTo DEF Pcs, To, Typed_run
  <2>7. u.pc = d /\ u.recent = h.recent
    BY <1>2, <2>6
  <2>8. Precedes(r, Previous(h.recent))
    BY <1>4, <2>1
  <2>9. d = "ignores" => New(r)
    <3>1. d = "ignores" => reports[r].what # Previous(h.recent)
      BY <2>4 DEF Decision, IsDuplicate
    <3> QED BY <2>8, <3>1, OneBefore DEF Precedes, New
  <2>10. Recalls(r, p)'
    BY <1>0, <1>2, <1>5, <2>3, <2>5, <2>7, <2>8, <2>9 DEF Recalls, Saved
  <2> QED BY <1>h, <2>1, <2>10 DEF SaveCase, At
<1>8. CASE ~Load(r, p) /\ ~Record(r, p)
  <2>1. recent' = recent /\ h.pc \in Saved /\ h.pc # "save"
    BY <1>8, <1>h DEF Step, Suggest, SaveCase, MarkOffered, LearnFrom, MarkTaken, StoreBook,
                      At, store, Saved
  <2>2. /\ u.pc \in Saved \union {"failed"} /\ u.pc \notin {"load", "save", "learn"}
        /\ u.pc \in {"ignores", "case"} => h.pc = "ignores"
    BY <1>1, <2>1 DEF Turns, Saved
  <2>3. Recalls(r, p)'
    BY <1>0, <1>2, <1>4, <1>5, <2>1, <2>2 DEF Recalls, Saved
  <2>4. SaveCase(r, p) => New(r)
    BY <1>4, <1>h DEF SaveCase, At
  <2> QED BY <2>3, <2>4
<1> QED BY <1>6, <1>7, <1>8

LEMMA RecalledStep ==
  ASSUME Typed, Hooked, Cased, Recalled, NEW r \in DOMAIN reports, NEW p \in Paths, Step(r, p)
  PROVE  Recalled'
<1>1. PICK u \in Held : To(r, p, u) /\ <<run[r][p].pc, u.pc>> \in Turns
  BY StepTurns
<1>2. /\ reports' = reports /\ DOMAIN reports \subseteq Reports /\ Shell(r) \in Shells
      /\ troubled \subseteq troubled' /\ \A s : ReportsOf(s)' = ReportsOf(s)
      /\ \A q : Shell(q)' = Shell(q) /\ (New(q)' <=> New(q))
  <2>1. reports' = reports /\ troubled \subseteq troubled'
    BY StepTurns
  <2> QED BY <2>1, Numbered DEF Shell, ReportsOf, New, Before
<1>3. \A s : Clean(s)' => Clean(s)
  BY <1>2 DEF Clean
<1>4. StoreError(r, p) => ~Clean(Shell(r))'
  BY <1>2 DEF StoreError, Clean, ReportsOf, Shell
<1>5. \A q \in Reports, o \in Paths : q # r \/ o # p => run'[q][o] = run[q][o]
  BY <1>1 DEF To, Moves
<1>6. \A s \in Shells : s # Shell(r) => recent'[s] = recent[s]
  BY DEF Step, Load, Record, Suggest, SaveCase, MarkOffered, LearnFrom, MarkTaken, StoreBook,
         StoreError, store, Shell, Typed
<1>7. run[r][p].pc \notin Still
  BY <1>1 DEF Turns, Still
<1>8. ASSUME NEW s \in Shells, ReportsOf(s)' = {} PROVE Previous(recent'[s]) = None
  <2>1. r \in ReportsOf(Shell(r))
    BY DEF ReportsOf, Shell
  <2> QED BY <1>2, <1>6, <1>8, <2>1 DEF Recalled
<1>9. ASSUME NEW q \in DOMAIN reports, NEW o \in Paths, Clean(Shell(q))' PROVE Recalls(q, o)'
  <2>1. Clean(Shell(q)) /\ Recalls(q, o) /\ Shell(q) \in Shells
    BY <1>2, <1>3, <1>9, Numbered DEF Recalled, Shell
  <2>2. CASE Shell(q) # Shell(r)
    <3>1. run'[q][o] = run[q][o] /\ recent'[Shell(q)] = recent[Shell(q)]
      BY <1>2, <1>5, <1>6, <2>1, <2>2
    <3> QED BY <1>2, <2>1, <3>1, RecallsSame
  <2>3. CASE q = r /\ o = p
    BY <1>2, <1>3, <1>4, <1>9, <2>3, RecallsStep
  <2>4. CASE Shell(q) = Shell(r) /\ q # r
    <3>1. run'[q][o].pc \in Still /\ ~Latest(q)
      BY <1>2, <1>5, <1>7, <2>1, <2>4, OneMoves
    <3>2. ~Latest(q)'
      BY <1>2, <3>1 DEF Latest
    <3> QED BY <3>1, <3>2 DEF Recalls, Still
  <2>5. CASE q = r /\ o # p
    <3>1. run'[q][o].pc = "idle"
      BY <1>2, <1>5, <1>7, <2>1, <2>5, OneMoves
    <3> QED BY <3>1 DEF Recalls, Saved
  <2> QED BY <2>2, <2>3, <2>4, <2>5
<1>10. ASSUME NEW i \in DOMAIN cases', Clean(Shell(cases[i].report))'
       PROVE  New(cases[i].report)'
  <2>1. CASE i \in DOMAIN cases /\ cases'[i] = cases[i]
    <3>1. Clean(Shell(cases[i].report)) => New(cases[i].report)
      BY <2>1 DEF Recalled
    <3> QED BY <1>2, <1>3, <1>10, <2>1, <3>1
  <2>2. CASE SaveCase(r, p)
    <3>1. PICK n \in Nat, c \in Said : Appends(r, p, n, c)
      BY <2>2, SavesTo
    <3>2. CASE i = n
      <4>0. cases'[i].report = r
        BY <3>1, <3>2 DEF Appends
      <4>1. cases'[i].report = r /\ Clean(Shell(r))' /\ Clean(Shell(r))
        BY <1>2, <1>3, <1>10, <4>0
      <4>2. ~StoreError(r, p)
        BY <1>2, <1>4, <1>10, <4>1
      <4> QED BY <1>2, <2>2, <4>1, <4>2, RecallsStep
    <3> QED BY <2>1, <3>1, <3>2 DEF Appends
  <2>3. ~SaveCase(r, p) => cases' = cases
    BY DEF Step, Load, Record, Suggest, MarkOffered, LearnFrom, MarkTaken, StoreBook, StoreError,
           store
  <2> QED BY <2>1, <2>2, <2>3
<1> QED BY <1>2, <1>8, <1>9, <1>10 DEF Recalled

LEMMA RecalledBegins ==
  ASSUME Typed, Hooked, Cased, Recalled, NEW s \in Shells, NEW what \in What, NEW r \in Reports,
         NEW p \in Paths, NEW u \in Held, Begins(s, what, r, p, u)
  PROVE  Recalled'
<1>1. /\ To(r, p, u) /\ u.pc = "load" /\ hook[s] = 0 /\ r \notin DOMAIN reports
      /\ DOMAIN reports' = DOMAIN reports \union {r} /\ troubled' = troubled
      /\ recent' = recent /\ cases' = cases
      /\ \A q \in DOMAIN reports : reports'[q] = reports[q] /\ q < r
  BY DEF Begins
<1>0. /\ DOMAIN reports \subseteq Reports /\ Reports \subseteq Nat \ {0}
      /\ DOMAIN reports = 1 .. r - 1 /\ reports'[r].shell = s
  BY Numbered DEF Reports, Begins
<1>2. /\ \A t : ReportsOf(t)' = IF t = s THEN ReportsOf(t) \union {r} ELSE ReportsOf(t)
      /\ \A q \in DOMAIN reports : Shell(q)' = Shell(q) /\ q # r /\ Shell(q) \in Shells
      /\ Shell(r)' = s
      /\ \A q, x \in DOMAIN reports : Before(q, x)' <=> Before(q, x)
      /\ \A q \in DOMAIN reports : ~Before(r, q)'
  BY Grown, Numbered DEF Shell
<1>3. \A t : Clean(t)' => Clean(t)
  BY <1>1, <1>2 DEF Clean
<1>4. \A q \in DOMAIN reports, o \in Paths : run'[q][o] = run[q][o]
  BY <1>0, <1>1 DEF To, Moves
<1>5. run'[r][p] = u /\ \A o \in Paths : o # p => run'[r][o].pc = "idle"
  BY <1>1 DEF To, Moves, Hooked
<1>6. ASSUME NEW q \in DOMAIN reports
      PROVE  (New(q)' <=> New(q)) /\ \A v : Precedes(q, v)' <=> Precedes(q, v)
  BY <1>1, <1>2 DEF New, Precedes
<1>7. ASSUME NEW q \in DOMAIN reports, Latest(q)' PROVE Shell(q) # s /\ Latest(q)
  <2>1. \A x \in ReportsOf(Shell(q)) : x <= q
    BY <1>2, <1>7 DEF Latest
  <2>2. Shell(q) = s => r <= q
    BY <1>2, <1>7 DEF Latest
  <2> QED BY <1>0, <1>1, <2>1, <2>2 DEF Latest
<1>8. Clean(s) => Precedes(r, Previous(recent[s]))'
  <2> SUFFICES ASSUME Clean(s) PROVE Precedes(r, Previous(recent[s]))'
    OBVIOUS
  <2>1. CASE ReportsOf(s) = {}
    <3>1. Previous(recent[s]) = None
      BY <2>1 DEF Recalled
    <3>2. ASSUME NEW q \in DOMAIN reports' PROVE ~Before(q, r)'
      <4>1. CASE q = r
        BY <1>0, <4>1 DEF Before
      <4>2. CASE q \in DOMAIN reports
        <5>1. reports[q].shell # s
          BY <2>1, <4>2 DEF ReportsOf
        <5> QED BY <1>0, <1>1, <4>2, <5>1 DEF Before
      <4> QED BY <1>1, <4>1, <4>2
    <3> QED BY <1>1, <3>1, <3>2 DEF Precedes
  <2>2. CASE ReportsOf(s) # {}
    <3>1. PICK q \in ReportsOf(s) : Latest(q)
      BY <2>2 DEF Hooked
    <3>2. q \in DOMAIN reports /\ Shell(q) = s /\ q \notin troubled
      BY <3>1 DEF ReportsOf, Shell, Clean
    <3>3. PICK o \in Paths : run[q][o].pc = "over"
      <4>1. OnePath(q) /\ hook[s] # q
        BY <1>0, <1>1, <3>2 DEF Hooked
      <4> QED BY <3>2, <4>1 DEF OnePath, Still
    <3>4. Previous(recent[s]) = reports[q].what
      BY <3>1, <3>2, <3>3 DEF Recalled, Recalls, Saved
    <3>5. Before(q, r)'
      <4>1. ASSUME NEW x \in q + 1 .. r - 1 PROVE reports'[x].shell # s
        <5>1. x \in DOMAIN reports /\ ~(x <= q)
          BY <1>0, <3>2
        <5>2. reports[x].shell # s
          BY <3>1, <3>2, <5>1 DEF Latest, ReportsOf
        <5> QED BY <1>1, <5>1, <5>2
      <4>2. q < r /\ reports'[q].shell = s
        BY <1>1, <3>2 DEF Shell
      <4> QED BY <1>0, <4>1, <4>2 DEF Before
    <3> QED BY <1>1, <3>2, <3>4, <3>5 DEF Precedes
  <2> QED BY <2>1, <2>2
<1>9. \A t \in Shells : ReportsOf(t)' = {} => Previous(recent'[t]) = None
  BY <1>1, <1>2 DEF Recalled
<1>10. ASSUME NEW q \in DOMAIN reports', NEW o \in Paths, Clean(Shell(q))'
       PROVE  Recalls(q, o)'
  <2>1. CASE q \in DOMAIN reports
    <3>1. Recalls(q, o)
      BY <1>2, <1>3, <1>10, <2>1 DEF Recalled
    <3> QED BY <1>1, <1>2, <1>4, <1>6, <1>7, <2>1, <3>1 DEF Recalls
  <2>2. CASE q = r /\ o = p
    <3>1. Precedes(r, Previous(recent[s]))'
      BY <1>2, <1>3, <1>8, <1>10, <2>2
    <3>2. Precedes(r, Previous(recent[Shell(r)]))'
      BY <1>1, <1>2, <3>1
    <3> QED BY <1>1, <1>5, <2>2, <3>2 DEF Recalls, Saved
  <2>3. CASE q = r /\ o # p
    BY <1>5, <2>3 DEF Recalls, Saved
  <2> QED BY <1>1, <2>1, <2>2, <2>3
<1>11. ASSUME NEW i \in DOMAIN cases', Clean(Shell(cases[i].report))'
       PROVE  New(cases[i].report)'
  <2>1. cases[i].report \in DOMAIN reports
    BY <1>1, CasedParts DEF Placed
  <2>2. Clean(Shell(cases[i].report))
    BY <1>1, <1>2, <1>3, <1>11, <2>1
  <2> QED BY <1>1, <1>6, <2>1, <2>2 DEF Recalled
<1> QED BY <1>9, <1>10, <1>11 DEF Recalled

LEMMA RecalledOthers ==
  ASSUME Typed, Hooked, Cased, Recalled
  PROVE  /\ \A s \in Shells, r \in DOMAIN reports, u \in Held : Gives(s, r, u) => Recalled'
         /\ \A r \in DOMAIN reports, p \in Paths, u \in Held : Answers(r, p, u) => Recalled'
         /\ \A i \in DOMAIN cases, f \in Fixes : Keeps(i, f) => Recalled'
         /\ MarkModelFix => Recalled'
         /\ UNCHANGED vars => Recalled'
<1>0. DOMAIN reports \subseteq Reports /\ "local" \in Paths
  BY Numbered DEF Paths
<1>a. /\ \A s \in Shells : ReportsOf(s) = {} => Previous(recent[s]) = None
      /\ \A q \in DOMAIN reports, o \in Paths : Clean(Shell(q)) => Recalls(q, o)
      /\ \A i \in DOMAIN cases : Clean(Shell(cases[i].report)) => New(cases[i].report)
  BY DEF Recalled
<1>b. ASSUME reports' = reports, recent' = recent, troubled \subseteq troubled',
             DOMAIN cases' = DOMAIN cases,
             \A i \in DOMAIN cases : cases'[i].report = cases[i].report,
             \A q \in DOMAIN reports, o \in Paths :
               Clean(Shell(q))' /\ Recalls(q, o) => Recalls(q, o)'
      PROVE  Recalled'
  <2>1. /\ \A s : ReportsOf(s)' = ReportsOf(s)
        /\ \A q : Shell(q)' = Shell(q) /\ (New(q)' <=> New(q))
    BY <1>b DEF Shell, ReportsOf, New, Before
  <2>2. \A s : Clean(s)' => Clean(s)
    BY <1>b, <2>1 DEF Clean
  <2>3. \A q \in DOMAIN reports', o \in Paths : Clean(Shell(q))' => Recalls(q, o)'
    BY <1>a, <1>b, <2>1, <2>2
  <2>4. ASSUME NEW i \in DOMAIN cases', Clean(Shell(cases[i].report))'
        PROVE  New(cases[i].report)'
    BY <1>a, <1>b, <2>1, <2>2, <2>4
  <2> QED BY <1>a, <1>b, <2>1, <2>3, <2>4 DEF Recalled
<1>1. ASSUME NEW s \in Shells, NEW r \in DOMAIN reports, NEW u \in Held, Gives(s, r, u)
      PROVE  Recalled'
  <2>1. /\ reports' = reports /\ recent' = recent /\ cases' = cases
        /\ troubled' = troubled \union {r}
    BY <1>1 DEF Gives
  <2>2. ASSUME NEW q \in DOMAIN reports, NEW o \in Paths, Clean(Shell(q))', Recalls(q, o)
        PROVE  Recalls(q, o)'
    <3>1. q # r
      BY <2>1, <2>2 DEF Clean, ReportsOf, Shell
    <3>2. run'[q][o] = run[q][o]
      BY <1>0, <1>1, <3>1 DEF Gives, To, Moves
    <3> QED BY <2>1, <2>2, <3>2, RecallsSame
  <2> QED BY <1>b, <2>1, <2>2
<1>2. ASSUME NEW r \in DOMAIN reports, NEW p \in Paths, NEW u \in Held, Answers(r, p, u)
      PROVE  Recalled'
  <2>1. /\ reports' = reports /\ recent' = recent /\ cases' = cases /\ troubled' = troubled
        /\ u.pc = "over" /\ run[r][p].pc \in {"decided", "failed"}
    BY <1>2 DEF Answers
  <2>2. ASSUME NEW q \in DOMAIN reports, NEW o \in Paths, Clean(Shell(q))', Recalls(q, o)
        PROVE  Recalls(q, o)'
    <3>1. CASE q # r \/ o # p
      <4>1. run'[q][o] = run[q][o]
        BY <1>0, <1>2, <3>1 DEF Answers, To, Moves
      <4> QED BY <2>1, <2>2, <4>1, RecallsSame
    <3>2. CASE q = r /\ o = p
      <4>1. run'[q][o].pc = "over"
        BY <1>0, <1>2, <2>1, <3>2 DEF Answers, To, Moves
      <4>2. q \notin troubled
        BY <2>1, <2>2 DEF Clean, ReportsOf, Shell
      <4>3. run[q][o].pc = "decided"
        BY <2>1, <3>2, <4>2 DEF Hooked
      <4>4. Shell(q)' = Shell(q) /\ (Latest(q)' <=> Latest(q))
        BY <2>1 DEF Shell, Latest, ReportsOf
      <4> QED BY <2>1, <2>2, <4>1, <4>3, <4>4 DEF Recalls, Saved
    <3> QED BY <3>1, <3>2
  <2> QED BY <1>b, <2>1, <2>2
<1>3. ASSUME NEW i \in DOMAIN cases, NEW f \in Fixes, Keeps(i, f) PROVE Recalled'
  <2>1. /\ reports' = reports /\ recent' = recent /\ run' = run /\ troubled' = troubled
        /\ DOMAIN cases' = DOMAIN cases
        /\ \A j \in DOMAIN cases : cases'[j].report = cases[j].report
    BY <1>3 DEF Keeps
  <2>2. \A q \in DOMAIN reports, o \in Paths : Recalls(q, o) => Recalls(q, o)'
    BY <2>1, RecallsSame
  <2> QED BY <1>b, <2>1, <2>2
<1>4. ASSUME reports' = reports, recent' = recent, run' = run, cases' = cases,
             troubled' = troubled
      PROVE  Recalled'
  <2>1. \A q \in DOMAIN reports, o \in Paths : Recalls(q, o) => Recalls(q, o)'
    BY <1>4, RecallsSame
  <2> QED BY <1>b, <1>4, <2>1
<1>5. MarkModelFix => Recalled'
  BY <1>4 DEF MarkModelFix, history
<1>6. UNCHANGED vars => Recalled'
  BY <1>4 DEF vars, store, history
<1> QED BY <1>1, <1>2, <1>3, <1>5, <1>6

LEMMA OncePerFailureHolds ==
  ASSUME Typed, Hooked, Cased, Recalled PROVE OncePerFailure
<1> SUFFICES ASSUME NEW i \in DOMAIN cases, NEW j \in DOMAIN cases, i # j,
                    Clean(Shell(cases[j].report))
             PROVE  /\ cases[i].report # cases[j].report
                    /\ Before(cases[i].report, cases[j].report) => cases[i].what # cases[j].what
  BY DEF OncePerFailure, Shell
<1>1. /\ Placed(i) /\ Placed(j) /\ Single(i, j) /\ cases[i].by \in Paths /\ cases[j].by \in Paths
  BY CasedParts, Listed
<1>2. cases[i].report # cases[j].report
  <2> SUFFICES ASSUME cases[i].report = cases[j].report PROVE FALSE
    OBVIOUS
  <2>1. PICK r \in DOMAIN reports : r = cases[j].report
    BY <1>1 DEF Placed
  <2>2. r \notin troubled
    BY <2>1 DEF Clean, ReportsOf, Shell
  <2>3. OnePath(r)
    BY <2>2 DEF Hooked
  <2>4. cases[i].by = cases[j].by
    BY <1>1, <2>1, <2>3 DEF OnePath, Placed
  <2> QED BY <1>1, <2>4 DEF Single
<1>3. New(cases[j].report)
  BY DEF Recalled
<1> QED BY <1>1, <1>2, <1>3 DEF New, Placed

(***************************************************************************)
(* What the book counts.                                                   *)
(***************************************************************************)
Widens ==
  \A shape, command :
    /\ Lessons(shape, command) \subseteq Lessons(shape, command)'
    /\ Lessons(shape, command) \intersect Finished
         \subseteq (Lessons(shape, command) \intersect Finished)'

LEMMA LessonsFinite ==
  ASSUME Typed
  PROVE  \A shape, command :
           /\ IsFiniteSet(Lessons(shape, command) \intersect Finished)
           /\ IsFiniteSet(Lessons(shape, command))
           /\ Cardinality(Lessons(shape, command) \intersect Finished) \in Nat
           /\ Cardinality(Lessons(shape, command) \intersect Finished)
                <= Cardinality(Lessons(shape, command))
<1>1. IsFiniteSet(DOMAIN reports)
  <2>1. DOMAIN reports = 1 .. Len(reports) /\ Len(reports) \in Nat
    BY Numbered
  <2> QED BY <2>1, FS_Interval
<1>2. ASSUME NEW shape, NEW command
      PROVE  /\ IsFiniteSet(Lessons(shape, command) \intersect Finished)
             /\ IsFiniteSet(Lessons(shape, command))
             /\ Cardinality(Lessons(shape, command) \intersect Finished) \in Nat
             /\ Cardinality(Lessons(shape, command) \intersect Finished)
                  <= Cardinality(Lessons(shape, command))
  <2>1. Lessons(shape, command) \subseteq DOMAIN reports
    BY DEF Lessons
  <2>2. IsFiniteSet(Lessons(shape, command))
    BY <1>1, <2>1, FS_Subset
  <2>3. /\ IsFiniteSet(Lessons(shape, command) \intersect Finished)
        /\ Cardinality(Lessons(shape, command) \intersect Finished)
             <= Cardinality(Lessons(shape, command))
    BY <2>2, FS_Subset
  <2> QED BY <2>2, <2>3, FS_CardinalityType
<1> QED BY <1>2

LEMMA CountedWidens ==
  ASSUME Typed, Typed', Widens, NEW b \in Books, Counted(b)
  PROVE  \A i \in DOMAIN b :
           b[i].times <= Cardinality(Lessons(b[i].shape, b[i].command)' \intersect Finished')
<1> SUFFICES ASSUME NEW i \in DOMAIN b
             PROVE  b[i].times
                      <= Cardinality(Lessons(b[i].shape, b[i].command)' \intersect Finished')
  OBVIOUS
<1>0. b[i] \in Lesson
  BY DEF Books
<1>1. PICK n \in Nat : n = b[i].times
  BY <1>0 DEF Lesson
<1>2. PICK shape \in What, command \in Passing : shape = b[i].shape /\ command = b[i].command
  BY <1>0 DEF Lesson
<1>3. n <= Cardinality(Lessons(shape, command) \intersect Finished)
  BY <1>1, <1>2 DEF Counted
<1>4. Lessons(shape, command) \intersect Finished
        \subseteq Lessons(shape, command)' \intersect Finished'
  BY DEF Widens
<1>5. IsFiniteSet(Lessons(shape, command)' \intersect Finished')
  <2>1. DOMAIN reports' = 1 .. Len(reports') /\ Len(reports') \in Nat
    BY DEF Typed
  <2>2. IsFiniteSet(DOMAIN reports')
    BY <2>1, FS_Interval
  <2>3. Lessons(shape, command)' \intersect Finished' \subseteq DOMAIN reports'
    BY DEF Lessons
  <2> QED BY <2>2, <2>3, FS_Subset
<1>6. PICK S : S = Lessons(shape, command) \intersect Finished
  OBVIOUS
<1>7. PICK T : T = Lessons(shape, command)' \intersect Finished'
  OBVIOUS
<1>8. Cardinality(S) <= Cardinality(T) /\ Cardinality(S) \in Nat /\ Cardinality(T) \in Nat
  BY <1>4, <1>5, <1>6, <1>7, FS_Subset, FS_CardinalityType
<1> QED BY <1>1, <1>2, <1>3, <1>6, <1>7, <1>8

\* A path that is about to teach, after a step that lets none get there.
Teaching == {"taken", "storeBook"}

LEMMA TaughtKept ==
  ASSUME Typed, Typed', Taught, Widens, troubled' = {} => troubled = {}, book' = book,
         \A q \in DOMAIN reports', o \in Paths :
           run'[q][o].pc \in Teaching => q \in DOMAIN reports /\ run'[q][o] = run[q][o]
  PROVE  Taught'
<1> SUFFICES ASSUME troubled' = {}
             PROVE  /\ Counted(book)'
                    /\ \A q \in DOMAIN reports', o \in Paths :
                         /\ run'[q][o].pc \in Teaching =>
                              q \in Lessons(run[q][o].shape, run[q][o].fix.command)'
                         /\ run'[q][o].pc = "storeBook" => Counted(run[q][o].book)'
  BY DEF Taught, Teaching
<1>1. Counted(book)'
  <2>1. book \in Books /\ Counted(book)
    BY DEF Typed, Taught
  <2> QED BY <2>1, CountedWidens DEF Counted
<1>2. ASSUME NEW q \in DOMAIN reports', NEW o \in Paths, run'[q][o].pc \in Teaching
      PROVE  /\ q \in Lessons(run[q][o].shape, run[q][o].fix.command)'
             /\ run'[q][o].pc = "storeBook" => Counted(run[q][o].book)'
  <2>1. q \in DOMAIN reports /\ run'[q][o] = run[q][o]
    BY <1>2
  <2>2. q \in Lessons(run[q][o].shape, run[q][o].fix.command)
    BY <1>2, <2>1 DEF Taught, Teaching
  <2>3. PICK shape, command : shape = run[q][o].shape /\ command = run[q][o].fix.command
    OBVIOUS
  <2>4. q \in Lessons(shape, command)'
    BY <2>2, <2>3 DEF Widens
  <2>5. q \in Lessons(run[q][o].shape, run[q][o].fix.command)'
    BY <2>1, <2>3, <2>4
  <2>6. PICK h \in Held : h = run[q][o]
    BY <2>1, HeldAt, Numbered
  <2>7. ASSUME run'[q][o].pc = "storeBook" PROVE Counted(run[q][o].book)'
    <3>1. h.book \in Books /\ Counted(h.book)
      BY <2>1, <2>6, <2>7 DEF Taught, Held
    <3>2. run'[q][o].book = h.book
      BY <2>1, <2>6
    <3> QED BY <3>1, <3>2, CountedWidens DEF Counted
  <2> QED BY <2>5, <2>7
<1> QED BY <1>1, <1>2 DEF Teaching

LEMMA WidensStep ==
  ASSUME Typed, NEW r \in DOMAIN reports, NEW p \in Paths, Step(r, p)
  PROVE  Widens
<1>1. PICK u \in Held : To(r, p, u) /\ <<run[r][p].pc, u.pc>> \in Turns
  BY StepTurns
<1>2. reports' = reports /\ DOMAIN reports \subseteq Reports
  BY StepTurns, Numbered
<1>3. run[r][p].pc \notin {"decided", "over"}
  BY <1>1 DEF Turns
<1>4. Finished \subseteq Finished'
  BY <1>1, <1>2, <1>3 DEF Finished, To, Moves
<1>5. \A shape, command : Lessons(shape, command)' = Lessons(shape, command)
  BY <1>2 DEF Lessons, Before
<1> QED BY <1>4, <1>5 DEF Widens

LEMMA TaughtStore ==
  ASSUME Typed, Typed', Hooked, Learning, Taught, troubled' = {}, troubled = {},
         NEW r \in DOMAIN reports, NEW p \in Paths, StoreBook(r, p)
  PROVE  Counted(book)'
<1>0. r \in Reports /\ reports' = reports /\ Step(r, p)
  BY Numbered DEF StoreBook, Outside, Step
<1>h. PICK h \in Held : h = run[r][p]
  BY <1>0, HeldAt
<1>1. h.pc = "storeBook" /\ h.shape \in What /\ h.fix.command \in Passing /\ h.book \in Books
  BY <1>h DEF StoreBook, At, Learning, Held
<1>2. PICK shape \in What, command \in Passing : shape = h.shape /\ command = h.fix.command
  BY <1>1
<1>3. book' = Accept(h.book, shape, command)
  BY <1>h, <1>2 DEF StoreBook
<1>4. r \in Lessons(shape, command) /\ Counted(h.book)
  BY <1>h, <1>1, <1>2 DEF Taught
<1>5. PICK S : S = Lessons(shape, command) \intersect Finished
  OBVIOUS
<1>6. PICK T : T = Lessons(shape, command)' \intersect Finished'
  OBVIOUS
<1>7. r \notin S
  BY <1>0, <1>h, <1>1, <1>5 DEF Hooked, OnePath, Finished
<1>8. Widens
  BY <1>0, WidensStep
<1>9. r \in T
  <2>1. PICK u \in Held : To(r, p, u) /\ u.pc = "decided"
    BY <1>0, GoesTo DEF StoreBook, Pcs, To, Typed_run
  <2>2. r \in Finished'
    BY <1>0, <2>1 DEF Finished, To, Moves
  <2> QED BY <1>4, <1>6, <1>8, <2>2 DEF Widens
<1>10. S \union {r} \subseteq T
  BY <1>5, <1>6, <1>8, <1>9 DEF Widens
<1>11. IsFiniteSet(T) /\ IsFiniteSet(S)
  <2>1. DOMAIN reports' = 1 .. Len(reports') /\ Len(reports') \in Nat
    BY DEF Typed
  <2>2. IsFiniteSet(DOMAIN reports')
    BY <2>1, FS_Interval
  <2>3. T \subseteq DOMAIN reports'
    BY <1>6 DEF Lessons
  <2>4. IsFiniteSet(T)
    BY <2>2, <2>3, FS_Subset
  <2> QED BY <1>10, <2>4, FS_Subset
<1>12. /\ Cardinality(S) \in Nat /\ Cardinality(T) \in Nat
       /\ Cardinality(S) + 1 <= Cardinality(T)
  <2>1. IsFiniteSet(S \union {r}) /\ Cardinality(S \union {r}) = Cardinality(S) + 1
    BY <1>7, <1>11, FS_AddElement
  <2>2. Cardinality(S \union {r}) <= Cardinality(T)
    BY <1>10, <1>11, FS_Subset
  <2> QED BY <1>11, <2>1, <2>2, FS_CardinalityType
<1>13. PICK b : b = Accept(h.book, shape, command)
  OBVIOUS
<1>14. ASSUME NEW i \in DOMAIN b
       PROVE  b[i].times <= Cardinality(Lessons(b[i].shape, b[i].command)' \intersect Finished')
  <2>1. \/ \E j \in DOMAIN h.book : b[i] = h.book[j]
        \/ /\ b[i].shape = shape /\ b[i].command = command
           /\ \/ b[i].times = 1
              \/ \E j \in DOMAIN h.book : /\ h.book[j].shape = shape
                                          /\ h.book[j].command = command
                                          /\ b[i].times = h.book[j].times + 1
    BY <1>1, <1>13, Accepted
  <2>2. CASE \E j \in DOMAIN h.book : b[i] = h.book[j]
    <3>1. \A j \in DOMAIN h.book :
            h.book[j].times
              <= Cardinality(Lessons(h.book[j].shape, h.book[j].command)' \intersect Finished')
      BY <1>1, <1>4, <1>8, CountedWidens
    <3> QED BY <2>2, <3>1
  <2>3. CASE /\ b[i].shape = shape /\ b[i].command = command
             /\ b[i].times = 1
    <3>1. b[i].times <= Cardinality(T)
      BY <1>12, <2>3
    <3> QED BY <1>6, <2>3, <3>1
  <2>4. ASSUME NEW j \in DOMAIN h.book, b[i].shape = shape, b[i].command = command,
               h.book[j].shape = shape, h.book[j].command = command,
               b[i].times = h.book[j].times + 1
        PROVE  b[i].times
                 <= Cardinality(Lessons(b[i].shape, b[i].command)' \intersect Finished')
    <3>1. h.book[j] \in Lesson
      BY <1>1 DEF Books
    <3>2. PICK n \in Nat : n = h.book[j].times
      BY <3>1 DEF Lesson
    <3>3. n <= Cardinality(S)
      BY <1>4, <1>5, <2>4, <3>2 DEF Counted
    <3>4. b[i].times <= Cardinality(T)
      BY <1>12, <2>4, <3>2, <3>3
    <3> QED BY <1>6, <2>4, <3>4
  <2> QED BY <2>1, <2>2, <2>3, <2>4
<1> QED BY <1>3, <1>13, <1>14 DEF Counted

LEMMA TaughtStep ==
  ASSUME Typed, Typed', Hooked, Cased, Learning, Recalled, Taught,
         NEW r \in DOMAIN reports, NEW p \in Paths, Step(r, p)
  PROVE  Taught'
<1> SUFFICES ASSUME troubled' = {} PROVE Taught'
  BY DEF Taught
<1>0. /\ reports' = reports /\ DOMAIN reports \subseteq Reports /\ r \in Reports
      /\ troubled = {}
  BY StepTurns, Numbered
<1>h. PICK h \in Held : h = run[r][p]
  BY HeldAt, <1>0
<1>1. PICK u \in Held : To(r, p, u) /\ <<h.pc, u.pc>> \in Turns
  BY <1>h, StepTurns
<1>2. /\ run'[r][p] = u /\ \A v \in Held : To(r, p, v) => v = u
      /\ \A q \in Reports, o \in Paths : q # r \/ o # p => run'[q][o] = run[q][o]
  BY <1>0, <1>1 DEF To, Moves
<1>3. Widens
  BY WidensStep
<1>4. \A s : Clean(s)
  BY <1>0 DEF Clean
<1>5. /\ Counted(book)
      /\ h.pc \in Teaching => r \in Lessons(h.shape, h.fix.command)
  BY <1>0, <1>h DEF Taught, Teaching
<1>6. ASSUME Counted(book)', u.pc \in Teaching => r \in Lessons(u.shape, u.fix.command),
             u.pc = "storeBook" => Counted(u.book)'
      PROVE  Taught'
  <2>1. ASSUME NEW q \in DOMAIN reports, NEW o \in Paths
        PROVE  /\ run'[q][o].pc \in Teaching =>
                    q \in Lessons(run[q][o].shape, run[q][o].fix.command)'
               /\ run'[q][o].pc = "storeBook" => Counted(run[q][o].book)'
    <3>1. CASE q = r /\ o = p
      <4>1. \A shape, command : r \in Lessons(shape, command) => r \in Lessons(shape, command)'
        BY <1>3 DEF Widens
      <4> QED BY <1>2, <1>6, <3>1, <4>1
    <3>2. CASE q # r \/ o # p
      <4>1. PICK v \in Held : v = run[q][o] /\ v = run'[q][o]
        BY <1>0, <1>2, <3>2, HeldAt
      <4>2. v.pc \in Teaching => q \in Lessons(v.shape, v.fix.command)'
        BY <1>0, <1>3, <4>1 DEF Taught, Teaching, Widens
      <4>3. ASSUME v.pc = "storeBook" PROVE Counted(v.book)'
        <5>1. v.book \in Books /\ Counted(v.book)
          BY <1>0, <4>1, <4>3 DEF Taught, Held
        <5>2. run'[q][o].book = v.book
          BY <4>1
        <5>3. PICK b \in Books : b = v.book
          BY <5>1
        <5>4. \A i \in DOMAIN b :
                b[i].times <= Cardinality(Lessons(b[i].shape, b[i].command)' \intersect Finished')
          BY <1>3, <5>1, <5>3, CountedWidens
        <5> QED BY <5>3, <5>4 DEF Counted
      <4> QED BY <4>1, <4>2, <4>3
    <3> QED BY <3>1, <3>2
  <2> QED BY <1>0, <1>6, <2>1 DEF Taught, Teaching
<1>7. ASSUME book' = book PROVE Counted(book)'
  <2>1. book \in Books
    BY DEF Typed
  <2> QED BY <1>3, <1>5, <1>7, <2>1, CountedWidens DEF Counted
<1>8. CASE LearnFrom(r, p)
  <2>1. h.pc = "learn" /\ book' = book
    BY <1>8, <1>h DEF LearnFrom, At, store
  <2>2. PICK v \in Held : /\ To(r, p, v)
           /\ \/ v.pc = "decided"
              \/ /\ v.pc = "taken"
                 /\ \E i \in LastCase(reports[r].shell) :
                      /\ Takes(i, reports[r].what, Previous(run[r][p].recent))
                      /\ v.shape = cases[i].what /\ v.fix = cases[i].fix
    BY <1>8, LearnsTo
  <2>3. /\ u.pc # "storeBook"
        /\ u.pc = "taken" => /\ u.shape = Previous(h.recent)
                             /\ u.fix.command = reports[r].what
    BY <1>2, <1>h, <2>2 DEF Takes
  <2>4. Precedes(r, Previous(h.recent)) /\ Previous(h.recent) \in Failing
    BY <1>4, <1>h, <2>1 DEF Recalled, Recalls, Learning
  <2>5. \E q \in DOMAIN reports : Before(q, r) /\ Previous(h.recent) = reports[q].what
    BY <2>4, TriageAssumption DEF Precedes
  <2>6. u.pc \in Teaching => r \in Lessons(u.shape, u.fix.command)
    BY <2>3, <2>5 DEF Lessons, Teaching
  <2> QED BY <1>6, <1>7, <2>1, <2>3, <2>6
<1>9. CASE MarkTaken(r, p)
  <2>1. h.pc = "taken" /\ book' = book
    BY <1>9, <1>h DEF MarkTaken, At
  <2>2. PICK v \in Held : /\ To(r, p, v)
           /\ \/ v.pc = "decided"
              \/ v.pc = "storeBook" /\ v.book = book /\ v.shape = h.shape /\ v.fix = h.fix
    BY <1>9, <1>h, MarksTo
  <2>3. /\ u.pc \in Teaching => u.shape = h.shape /\ u.fix = h.fix
        /\ u.pc = "storeBook" => u.book = book
    BY <1>2, <2>2 DEF Teaching
  <2>4. u.pc = "storeBook" => Counted(u.book)'
    <3> SUFFICES ASSUME u.pc = "storeBook" PROVE Counted(u.book)'
      OBVIOUS
    <3>1. u.book = book'
      BY <2>1, <2>3
    <3> QED BY <1>7, <2>1, <3>1 DEF Counted
  <2> QED BY <1>5, <1>6, <1>7, <2>1, <2>3, <2>4 DEF Teaching
<1>10. CASE StoreBook(r, p)
  <2>1. PICK v \in Held : To(r, p, v) /\ v.pc = "decided"
    BY <1>0, <1>10, GoesTo DEF StoreBook, Pcs, To, Typed_run
  <2>2. u.pc = "decided"
    BY <1>2, <2>1
  <2>3. Counted(book)'
    BY <1>0, <1>10, TaughtStore
  <2> QED BY <1>6, <2>2, <2>3 DEF Teaching
<1>11. CASE ~LearnFrom(r, p) /\ ~MarkTaken(r, p) /\ ~StoreBook(r, p)
  <2>1. ~StoreError(r, p)
    BY DEF StoreError
  <2>2. h.pc \notin {"learn", "taken", "storeBook"} /\ book' = book
    BY <1>11, <1>h, <2>1 DEF Step, Load, Record, Suggest, SaveCase, MarkOffered, At, store
  <2>3. u.pc \notin Teaching
    BY <1>1, <2>2 DEF Turns, Teaching
  <2> QED BY <1>6, <1>7, <2>2, <2>3 DEF Teaching
<1> QED BY <1>8, <1>9, <1>10, <1>11

LEMMA TaughtOthers ==
  ASSUME Typed, Typed', Hooked, Taught
  PROVE  /\ \A s \in Shells, what \in What, r \in Reports, p \in Paths, u \in Held :
              Begins(s, what, r, p, u) => Taught'
         /\ \A s \in Shells, r \in DOMAIN reports, u \in Held : Gives(s, r, u) => Taught'
         /\ \A r \in DOMAIN reports, p \in Paths, u \in Held : Answers(r, p, u) => Taught'
         /\ \A i \in DOMAIN cases, f \in Fixes : Keeps(i, f) => Taught'
         /\ MarkModelFix => Taught'
         /\ UNCHANGED vars => Taught'
<1>0. DOMAIN reports \subseteq Reports /\ "local" \in Paths
  BY Numbered DEF Paths
<1>1. ASSUME NEW s \in Shells, NEW what \in What, NEW r \in Reports, NEW p \in Paths,
             NEW u \in Held, Begins(s, what, r, p, u)
      PROVE  Taught'
  <2>1. /\ To(r, p, u) /\ u.pc = "load" /\ r \notin DOMAIN reports /\ book' = book
        /\ DOMAIN reports' = DOMAIN reports \union {r} /\ troubled' = troubled
        /\ \A q \in DOMAIN reports : reports'[q] = reports[q]
    BY <1>1 DEF Begins
  <2>2. \A q \in DOMAIN reports, o \in Paths : run'[q][o] = run[q][o]
    BY <1>0, <2>1 DEF To, Moves
  <2>3. \A q, x \in DOMAIN reports : Before(q, x)' <=> Before(q, x)
    BY <1>1, Grown
  <2>4. Finished \subseteq Finished'
    BY <2>1, <2>2 DEF Finished
  <2>5. ASSUME NEW shape, NEW command
        PROVE  Lessons(shape, command) \subseteq Lessons(shape, command)'
    BY <2>1, <2>3 DEF Lessons
  <2>6. Widens
    BY <2>4, <2>5 DEF Widens
  <2>7. ASSUME NEW q \in DOMAIN reports', NEW o \in Paths, run'[q][o].pc \in Teaching
        PROVE  q \in DOMAIN reports /\ run'[q][o] = run[q][o]
    <3>1. q # r
      <4>1. run'[r][o].pc \in {"load", "idle"}
        BY <2>1 DEF To, Moves, Hooked
      <4> QED BY <2>7, <4>1 DEF Teaching
    <3> QED BY <2>1, <2>2, <3>1
  <2> QED BY <2>1, <2>6, <2>7, TaughtKept
<1>2. ASSUME NEW s \in Shells, NEW r \in DOMAIN reports, NEW u \in Held, Gives(s, r, u)
      PROVE  Taught'
  BY <1>2 DEF Gives, Taught
<1>3. ASSUME reports' = reports, book' = book, troubled' = troubled,
             \A q \in Reports, o \in Paths :
               \/ run'[q][o] = run[q][o]
               \/ run'[q][o].pc = "over"
      PROVE  Taught'
  <2>1. Finished \subseteq Finished'
    BY <1>0, <1>3 DEF Finished
  <2>2. \A shape, command : Lessons(shape, command)' = Lessons(shape, command)
    BY <1>3 DEF Lessons, Before
  <2>3. Widens
    BY <2>1, <2>2 DEF Widens
  <2>4. \A q \in DOMAIN reports', o \in Paths :
           run'[q][o].pc \in Teaching => q \in DOMAIN reports /\ run'[q][o] = run[q][o]
    BY <1>0, <1>3 DEF Teaching
  <2> QED BY <1>3, <2>3, <2>4, TaughtKept
<1>4. ASSUME NEW r \in DOMAIN reports, NEW p \in Paths, NEW u \in Held, Answers(r, p, u)
      PROVE  Taught'
  <2>1. \A q \in Reports, o \in Paths : run'[q][o] = run[q][o] \/ run'[q][o].pc = "over"
    BY <1>4 DEF Answers, To, Moves
  <2> QED BY <1>3, <1>4, <2>1 DEF Answers
<1>5. ASSUME NEW i \in DOMAIN cases, NEW f \in Fixes, Keeps(i, f) PROVE Taught'
  BY <1>3, <1>5 DEF Keeps
<1>6. MarkModelFix => Taught'
  BY <1>3 DEF MarkModelFix, history
<1>7. UNCHANGED vars => Taught'
  BY <1>3 DEF vars, store, history
<1> QED BY <1>1, <1>2, <1>4, <1>5, <1>6, <1>7

(***************************************************************************)
(* What is credited to a source.                                           *)
(***************************************************************************)
\* The case of a failure says it for the ones that repeat it.
Rooted(q) ==
  \E i \in CasesOf(Shell(q)) :
    /\ cases[i].report <= q
    /\ \A x \in ReportsOf(Shell(q)) :
         cases[i].report <= x /\ x <= q => reports[x].what = reports[q].what

Fixed(x)  == {i \in DOMAIN cases : cases[i].fix.source = x /\ cases[i].fix.command # None}
Marks(i)  == run[cases[i].report][cases[i].by].pc # "offered"
Credit(x) == {i \in Fixed(x) : Marks(i)}
Spent     == {"storeBook", "decided", "over"}
UsedAt(i) ==
  \E r \in ReportsOf(Shell(cases[i].report)) :
    /\ cases[i].report < r /\ reports[r].what \in Passing
    /\ \E p \in Paths : run[r][p].pc \in Spent
Used(x)   == {i \in Fixed(x) : UsedAt(i)}

\* Until it is counted as an offer, a case proposes what its path holds.
Proposed ==
  \A i \in DOMAIN cases :
    ~Marks(i) => /\ cases[i].fix = run[cases[i].report][cases[i].by].fix
                 /\ cases[i].fix # NoFix
Ordered ==
  \A i, j \in DOMAIN cases :
    i < j /\ Shell(cases[i].report) = Shell(cases[j].report)
      => cases[i].report < cases[j].report
Offered(x) == score["offered"][x] + (IF x = "model" THEN unmarked ELSE 0)
Billed == \A x \in Source : Cardinality(Credit(x)) <= Offered(x)
Roots ==
  \A q \in DOMAIN reports : reports[q].what \in Failing /\ hook[Shell(q)] # q => Rooted(q)
\* The case whose fix path p of report r takes: only failures came since.
TakenFrom(r, p, i) ==
  /\ cases[i].fix = run[r][p].fix /\ cases[i].fix.command # None /\ cases[i].report < r
  /\ \A x \in ReportsOf(Shell(r)) :
       cases[i].report <= x /\ x < r => reports[x].what \in Failing
Takings ==
  \A r \in DOMAIN reports, p \in Paths :
    run[r][p].pc = "taken" => \E i \in CasesOf(Shell(r)) : TakenFrom(r, p, i)
Paid == \A x \in Source : score["taken"][x] <= Cardinality(Used(x))

Credits ==
  /\ Proposed
  /\ troubled = {} => /\ Ordered /\ Billed
                      /\ Silenced = {} => Roots /\ Takings /\ Paid

LEMMA SomeCases ==
  ASSUME Typed
  PROVE  \A x : /\ IsFiniteSet(Credit(x)) /\ Cardinality(Credit(x)) \in Nat
                /\ IsFiniteSet(Used(x)) /\ Cardinality(Used(x)) \in Nat
<1>1. IsFiniteSet(DOMAIN cases)
  <2>1. DOMAIN cases = 1 .. Len(cases) /\ Len(cases) \in Nat
    BY Listed
  <2> QED BY <2>1, FS_Interval
<1>2. \A x : Credit(x) \subseteq DOMAIN cases /\ Used(x) \subseteq DOMAIN cases
  BY DEF Credit, Used, Fixed
<1>3. \A x : IsFiniteSet(Credit(x)) /\ IsFiniteSet(Used(x))
  BY <1>1, <1>2, FS_Subset
<1> QED BY <1>3, FS_CardinalityType

\* Credited from what the invariant counts.
LEMMA CreditedHolds ==
  ASSUME Typed, Hooked, Cased, Credits
  PROVE  TakenWasOffered
<1> SUFFICES ASSUME troubled = {}, Silenced = {} PROVE Credited
  BY DEF TakenWasOffered
<1>0. \A s : Clean(s)
  BY DEF Clean
<1>1. \A x \in Source : Used(x) \subseteq Credit(x)
  <2> SUFFICES ASSUME NEW x \in Source, NEW i \in Used(x) PROVE Marks(i)
    BY DEF Used, Credit
  <2>1. PICK r \in ReportsOf(Shell(cases[i].report)) : cases[i].report < r
    BY DEF Used, UsedAt
  <2>2. PICK q \in DOMAIN reports, p \in Paths : q = cases[i].report /\ p = cases[i].by
    BY CasedParts, Listed DEF Used, Fixed, Placed
  <2>3. r \in Nat /\ q \in Nat /\ ~(r <= q)
    BY <2>1, <2>2, Numbered DEF ReportsOf, Reports
  <2>4. ~Latest(q)
    BY <2>1, <2>2, <2>3 DEF Latest
  <2>5. run[q][p].pc \in Still
    BY <1>0, <2>4, OneMoves
  <2> QED BY <2>2, <2>5 DEF Marks, Still
<1>2. \A x \in Source : Cardinality(Used(x)) <= Cardinality(Credit(x))
  BY <1>1, SomeCases, FS_Subset
<1>3. ASSUME NEW x \in Source PROVE score["taken"][x] <= Offered(x)
  <2>a. /\ score["taken"][x] \in Nat /\ score["offered"][x] \in Nat /\ unmarked \in Nat
        /\ Cardinality(Used(x)) \in Nat /\ Cardinality(Credit(x)) \in Nat
    BY SomeCases DEF Typed, Cards
  <2>b. Offered(x) \in Nat
    BY <2>a DEF Offered
  <2>1. PICK a \in Nat, b \in Nat, c \in Nat, d \in Nat :
          /\ a = score["taken"][x] /\ b = Cardinality(Used(x))
          /\ c = Cardinality(Credit(x)) /\ d = Offered(x)
    BY <2>a, <2>b
  <2>2. a <= b /\ b <= c /\ c <= d
    BY <1>2, <2>1 DEF Credits, Billed, Paid
  <2> QED BY <2>1, <2>2
<1>4. /\ score["offered"]["rule"] \in Nat /\ score["offered"]["learned"] \in Nat
      /\ score["offered"]["model"] \in Nat
  BY DEF Typed, Cards, Source
<1>5. /\ Offered("rule") = score["offered"]["rule"]
      /\ Offered("learned") = score["offered"]["learned"]
      /\ Offered("model") = score["offered"]["model"] + unmarked
  BY <1>4 DEF Offered
<1> QED BY <1>3, <1>5 DEF Credited, Source

(***************************************************************************)
(* What every step keeps of the commands that ended and of the cases.      *)
(***************************************************************************)
Extends ==
  /\ DOMAIN reports \subseteq DOMAIN reports'
  /\ \A q \in DOMAIN reports : reports'[q] = reports[q]
  /\ \A y \in DOMAIN reports' : y \in DOMAIN reports \/ \A q \in DOMAIN reports : q < y
  /\ DOMAIN cases \subseteq DOMAIN cases'
  /\ \A i \in DOMAIN cases :
       /\ cases'[i].report = cases[i].report
       /\ cases'[i].fix = cases[i].fix \/ cases[i].fix = NoFix

LEMMA StaysKept ==
  ASSUME Typed, Typed', Cased, Extends
  PROVE  /\ \A q \in DOMAIN reports :
              /\ Shell(q)' = Shell(q) /\ ReportsOf(Shell(q)) \subseteq ReportsOf(Shell(q))'
              /\ CasesOf(Shell(q)) \subseteq CasesOf(Shell(q))'
              /\ \A y \in DOMAIN reports' : y <= q => y \in DOMAIN reports
              /\ \A y \in ReportsOf(Shell(q))' : y <= q => y \in ReportsOf(Shell(q))
              /\ \A y \in DOMAIN reports' : Before(y, q)' => y \in DOMAIN reports /\ Before(y, q)
<1>0. /\ \A q \in DOMAIN reports : q \in Nat
      /\ DOMAIN reports = 1 .. Len(reports) /\ Len(reports) \in Nat
      /\ \A i \in DOMAIN cases : cases[i].report \in DOMAIN reports
  BY Numbered, CasedParts DEF Reports, Placed
<1> SUFFICES ASSUME NEW q \in DOMAIN reports
             PROVE  /\ Shell(q)' = Shell(q) /\ ReportsOf(Shell(q)) \subseteq ReportsOf(Shell(q))'
                    /\ CasesOf(Shell(q)) \subseteq CasesOf(Shell(q))'
                    /\ \A y \in DOMAIN reports' : y <= q => y \in DOMAIN reports
                    /\ \A y \in ReportsOf(Shell(q))' : y <= q => y \in ReportsOf(Shell(q))
                    /\ \A y \in DOMAIN reports' :
                         Before(y, q)' => y \in DOMAIN reports /\ Before(y, q)
  OBVIOUS
<1>1. Shell(q)' = Shell(q)
  BY DEF Extends, Shell
<1>a. PICK s : s = Shell(q) /\ s = Shell(q)'
  BY <1>1
<1>2. ReportsOf(s) \subseteq ReportsOf(s)' /\ CasesOf(s) \subseteq CasesOf(s)'
  BY <1>0 DEF Extends, ReportsOf, CasesOf
<1>3. ASSUME NEW y \in DOMAIN reports', y <= q PROVE y \in DOMAIN reports
  <2>1. DOMAIN reports' = 1 .. Len(reports')
    BY DEF Typed
  <2>2. q < y => ~(y <= q)
    BY <1>0, <2>1
  <2> QED BY <1>3, <2>2 DEF Extends
<1>4. ASSUME NEW y \in ReportsOf(s)', y <= q PROVE y \in ReportsOf(s)
  BY <1>3, <1>4 DEF ReportsOf, Extends
<1>5. ASSUME NEW y \in DOMAIN reports', Before(y, q)' PROVE y \in DOMAIN reports /\ Before(y, q)
  <2>1. y \in DOMAIN reports
    <3>1. y \in DOMAIN reports \/ (q < y /\ y < q)
      BY <1>5 DEF Extends, Before
    <3>2. DOMAIN reports' = 1 .. Len(reports')
      BY DEF Typed
    <3> QED BY <1>0, <1>5, <3>1, <3>2
  <2>2. \A x \in y + 1 .. q - 1 : x \in DOMAIN reports /\ reports'[x] = reports[x]
    BY <1>0, <2>1 DEF Extends
  <2> QED BY <1>5, <2>1, <2>2 DEF Before, Extends
<1> QED BY <1>1, <1>a, <1>2, <1>3, <1>4, <1>5

LEMMA RootedKept ==
  ASSUME Typed, Typed', Cased, Extends, NEW q \in DOMAIN reports, Rooted(q)
  PROVE  Rooted(q)'
<1>1. PICK i \in CasesOf(Shell(q)) :
        /\ cases[i].report <= q
        /\ \A x \in ReportsOf(Shell(q)) :
             cases[i].report <= x /\ x <= q => reports[x].what = reports[q].what
  BY DEF Rooted
<1>2. i \in DOMAIN cases /\ cases'[i].report = cases[i].report
  BY DEF Extends, CasesOf
<1>3. i \in CasesOf(Shell(q))'
  BY StaysKept
<1>4. ASSUME NEW x \in ReportsOf(Shell(q))', cases'[i].report <= x, x <= q
      PROVE  reports'[x].what = reports'[q].what
  <2>1. x \in ReportsOf(Shell(q))
    BY <1>4, StaysKept
  <2>2. reports'[x] = reports[x] /\ reports'[q] = reports[q]
    BY <2>1 DEF ReportsOf, Extends
  <2> QED BY <1>1, <1>2, <1>4, <2>1, <2>2
<1> QED BY <1>1, <1>2, <1>3, <1>4 DEF Rooted

LEMMA TakenKept ==
  ASSUME Typed, Typed', Cased, Extends, NEW r \in DOMAIN reports, NEW p \in Paths,
         run'[r][p] = run[r][p], NEW i \in CasesOf(Shell(r)), TakenFrom(r, p, i)
  PROVE  i \in CasesOf(Shell(r))' /\ TakenFrom(r, p, i)'
<1>1. i \in DOMAIN cases /\ cases'[i].report = cases[i].report
  BY DEF Extends, CasesOf
<1>2. i \in CasesOf(Shell(r))'
  BY StaysKept
<1>3. cases'[i].fix = cases[i].fix
  BY <1>1 DEF TakenFrom, Extends, NoFix
<1>4. ASSUME NEW x \in ReportsOf(Shell(r))', cases'[i].report <= x, x < r
      PROVE  reports'[x].what \in Failing
  <2>0. x \in Nat /\ r \in Nat
    BY Numbered DEF ReportsOf, Reports, Typed
  <2>1. x <= r
    BY <1>4, <2>0
  <2>2. x \in ReportsOf(Shell(r))
    BY <2>1, StaysKept
  <2>3. reports'[x] = reports[x]
    BY <2>2 DEF ReportsOf, Extends
  <2> QED BY <1>1, <1>4, <2>2, <2>3 DEF TakenFrom
<1> QED BY <1>1, <1>2, <1>3, <1>4 DEF TakenFrom

LEMMA UsedGrows ==
  ASSUME Typed, Typed', Cased, Extends,
         \A q \in DOMAIN reports, o \in Paths :
           run[q][o].pc \in Spent => run'[q][o].pc \in Spent
  PROVE  \A x : Used(x) \subseteq Used(x)'
<1> SUFFICES ASSUME NEW x, NEW i \in Used(x) PROVE i \in Used(x)'
  OBVIOUS
<1>1. i \in DOMAIN cases /\ i \in Fixed(x) /\ UsedAt(i) /\ cases[i].report \in DOMAIN reports
  BY CasedParts DEF Used, Fixed, Placed
<1>2. i \in Fixed(x)'
  BY <1>1 DEF Fixed, Extends, NoFix
<1>3. PICK r \in ReportsOf(Shell(cases[i].report)) :
        /\ cases[i].report < r /\ reports[r].what \in Passing
        /\ \E p \in Paths : run[r][p].pc \in Spent
  BY <1>1 DEF UsedAt
<1>4. r \in DOMAIN reports /\ reports'[r] = reports[r] /\ cases'[i].report = cases[i].report
  BY <1>1, <1>3 DEF Extends, ReportsOf
<1>5. PICK q \in DOMAIN reports : q = cases[i].report /\ q = cases'[i].report
  BY <1>1, <1>4
<1>6. r \in ReportsOf(Shell(q))'
  BY <1>3, <1>5, StaysKept
<1>7. UsedAt(i)'
  BY <1>3, <1>4, <1>5, <1>6 DEF UsedAt
<1> QED BY <1>2, <1>7 DEF Used

LEMMA SilencedGrows ==
  ASSUME Typed, Typed', Cased, Extends, NEW q \in Silenced, ~HasCase(q)', hook'[Shell(q)] # q
  PROVE  q \in Silenced'
<1>1. /\ q \in DOMAIN reports /\ reports[q].what \in Failing
      /\ \A x \in ReportsOf(Shell(q)) : Before(x, q) => reports[x].what # reports[q].what
  BY DEF Silenced, Shell
<1>2. Shell(q)' = Shell(q)
  BY <1>1, StaysKept
<1>3. ASSUME NEW x \in ReportsOf(Shell(q))', Before(x, q)'
      PROVE  reports'[x].what # reports'[q].what
  <2>1. x \in DOMAIN reports /\ Before(x, q)
    BY <1>1, <1>3, StaysKept DEF ReportsOf
  <2>2. x \in ReportsOf(Shell(q))
    BY <2>1 DEF Before, ReportsOf, Shell
  <2>3. reports'[x] = reports[x] /\ reports'[q] = reports[q]
    BY <1>1, <2>1 DEF Extends
  <2> QED BY <1>1, <2>1, <2>2, <2>3
<1>4. q \in DOMAIN reports' /\ reports'[q] = reports[q] /\ reports'[q].shell = Shell(q)'
  BY <1>1 DEF Extends, Shell
<1> QED BY <1>1, <1>2, <1>3, <1>4 DEF Silenced

LEMMA StepExtends ==
  ASSUME Typed, Cased, NEW r \in DOMAIN reports, NEW p \in Paths, Step(r, p)
  PROVE  /\ Extends /\ \A i \in DOMAIN cases : cases'[i] = cases[i]
         /\ ~SaveCase(r, p) => cases' = cases
<1>1. reports' = reports
  BY StepTurns
<1>2. ~SaveCase(r, p) => cases' = cases
  BY DEF Step, Load, Record, Suggest, MarkOffered, LearnFrom, MarkTaken, StoreBook, StoreError,
         store
<1>3. SaveCase(r, p) => /\ DOMAIN cases \subseteq DOMAIN cases'
                        /\ \A i \in DOMAIN cases : cases'[i] = cases[i]
  BY SavesTo DEF Appends
<1> QED BY <1>1, <1>2, <1>3 DEF Extends

\* An offer is counted by the path that made it, and by no other step of a path.
LEMMA MarksStep ==
  ASSUME Typed, Cased, NEW r \in DOMAIN reports, NEW p \in Paths, Step(r, p),
         NEW i \in DOMAIN cases
  PROVE  /\ Marks(i) => Marks(i)'
         /\ Marks(i)' /\ ~Marks(i) => /\ cases[i].report = r /\ cases[i].by = p
                                      /\ run[r][p].pc = "offered"
         /\ ~Marks(i)' => run'[cases[i].report][cases[i].by] = run[cases[i].report][cases[i].by]
<1>1. PICK u \in Held : To(r, p, u) /\ <<run[r][p].pc, u.pc>> \in Turns
  BY StepTurns
<1>2. PICK q \in DOMAIN reports, o \in Paths : q = cases[i].report /\ o = cases[i].by
  BY CasedParts, Listed DEF Placed
<1>3. run[q][o].pc \in {"offered", "decided", "over"} /\ q \in Reports
  BY <1>2, CasedParts, Numbered DEF Placed
<1>4. cases'[i] = cases[i]
  BY StepExtends
<1>5. CASE q = r /\ o = p
  <2>1. run[r][p].pc = "offered" /\ u.pc = "decided"
    BY <1>1, <1>3, <1>5 DEF Turns
  <2>2. run'[r][p] = u
    BY <1>1, <1>3, <1>5 DEF To, Moves
  <2> QED BY <1>2, <1>4, <1>5, <2>1, <2>2 DEF Marks
<1>6. CASE q # r \/ o # p
  <2>1. run'[q][o] = run[q][o]
    BY <1>1, <1>3, <1>6 DEF To, Moves
  <2> QED BY <1>2, <1>4, <2>1 DEF Marks
<1> QED BY <1>5, <1>6

LEMMA SavedCase ==
  ASSUME Typed, NEW r \in DOMAIN reports, NEW p \in Paths, SaveCase(r, p)
  PROVE  \E n \in Nat, c \in Said :
           /\ Appends(r, p, n, c) /\ run[r][p].pc = "case"
           /\ run'[r][p].fix = c.fix
           /\ run'[r][p].pc = IF c.fix = NoFix THEN "decided" ELSE "offered"
<1>1. PICK n \in Nat, c \in Said : Appends(r, p, n, c)
  BY SavesTo
<1>2. c.fix = run[r][p].fix /\ r \in Reports
  BY <1>1, Numbered DEF Appends
<1>3. PICK d \in Pcs : d = IF c.fix = NoFix THEN "decided" ELSE "offered"
  BY DEF Pcs
<1>4. Goes(r, p, d)
  BY <1>2, <1>3 DEF SaveCase
<1>5. PICK u \in Held : To(r, p, u) /\ u.pc = d /\ u.fix = run[r][p].fix
  BY <1>2, <1>4, GoesTo DEF To, Typed_run
<1>6. run'[r][p] = u
  BY <1>2, <1>5 DEF To, Moves
<1> QED BY <1>1, <1>2, <1>3, <1>5, <1>6 DEF SaveCase, At

LEMMA ProposedStep ==
  ASSUME Typed, Cased, Proposed, NEW r \in DOMAIN reports, NEW p \in Paths, Step(r, p)
  PROVE  Proposed'
<1>1. ASSUME NEW i \in DOMAIN cases, ~Marks(i)'
      PROVE  /\ cases'[i].fix = run'[cases'[i].report][cases'[i].by].fix
             /\ cases'[i].fix # NoFix
  <2>1. ~Marks(i) /\ run'[cases[i].report][cases[i].by] = run[cases[i].report][cases[i].by]
    BY <1>1, MarksStep
  <2>2. cases'[i] = cases[i]
    BY StepExtends
  <2> QED BY <2>1, <2>2 DEF Proposed
<1>2. CASE SaveCase(r, p)
  <2>1. PICK n \in Nat, c \in Said :
           /\ Appends(r, p, n, c)
           /\ run'[r][p].fix = c.fix
           /\ run'[r][p].pc = IF c.fix = NoFix THEN "decided" ELSE "offered"
    BY <1>2, SavedCase
  <2>2. /\ DOMAIN cases' = DOMAIN cases \union {n} /\ cases'[n] = c /\ c.report = r /\ c.by = p
    BY <2>1 DEF Appends
  <2>3. ~Marks(n)' => /\ cases'[n].fix = run'[cases'[n].report][cases'[n].by].fix
                      /\ cases'[n].fix # NoFix
    BY <2>1, <2>2 DEF Marks
  <2> QED BY <1>1, <2>2, <2>3 DEF Proposed
<1>3. CASE ~SaveCase(r, p)
  <2>1. cases' = cases
    BY <1>3, StepExtends
  <2> QED BY <1>1, <2>1 DEF Proposed
<1> QED BY <1>2, <1>3

LEMMA OrderedStep ==
  ASSUME Typed, Hooked, Cased, Ordered, troubled = {}, NEW r \in DOMAIN reports, NEW p \in Paths,
         Step(r, p)
  PROVE  Ordered'
<1>0. reports' = reports
  BY StepTurns
<1>1. CASE cases' = cases
  BY <1>0, <1>1 DEF Ordered, Shell
<1>2. CASE SaveCase(r, p)
  <2>1. PICK n \in Nat, c \in Said : Appends(r, p, n, c) /\ run[r][p].pc = "case"
    BY <1>2, SavedCase
  <2>2. /\ DOMAIN cases' = DOMAIN cases \union {n} /\ cases'[n] = c /\ c.report = r
        /\ \A i \in DOMAIN cases : cases'[i] = cases[i] /\ i < n
        /\ DOMAIN cases \subseteq Nat
    BY <2>1, Listed DEF Appends
  <2>3. ASSUME NEW i \in DOMAIN cases, Shell(cases[i].report) = Shell(r)
        PROVE  cases[i].report < r
    <3>1. PICK q \in DOMAIN reports, o \in Paths : q = cases[i].report /\ o = cases[i].by
      BY CasedParts, Listed DEF Placed
    <3>2. run[q][o].pc \in {"offered", "decided", "over"}
      BY <3>1, CasedParts DEF Placed
    <3>3. Latest(r) /\ \A x \in Paths : x # p => run[r][x].pc = "idle"
      BY <2>1, OneMoves DEF Still, Clean
    <3>4. q # r
      BY <2>1, <3>2, <3>3
    <3>5. q <= r
      BY <2>3, <3>1, <3>3 DEF Latest, ReportsOf, Shell
    <3>6. q \in Nat /\ r \in Nat
      BY Numbered DEF Reports
    <3> QED BY <3>1, <3>4, <3>5, <3>6
  <2>4. ASSUME NEW i \in DOMAIN cases', NEW j \in DOMAIN cases', i < j,
               Shell(cases[i].report)' = Shell(cases[j].report)'
        PROVE  cases'[i].report < cases'[j].report
    <3>1. CASE j = n
      <4>1. i \in DOMAIN cases
        BY <2>2, <2>4, <3>1
      <4> QED BY <1>0, <2>2, <2>3, <2>4, <3>1, <4>1 DEF Shell
    <3>2. CASE j \in DOMAIN cases
      <4>1. i # n
        BY <2>2, <2>4, <3>2
      <4> QED BY <1>0, <2>2, <2>4, <3>2, <4>1 DEF Ordered, Shell
    <3> QED BY <2>2, <3>1, <3>2
  <2> QED BY <2>4 DEF Ordered
<1> QED BY <1>1, <1>2, StepExtends

LEMMA BilledStep ==
  ASSUME Typed, Typed', Cased, Proposed, Billed, NEW r \in DOMAIN reports, NEW p \in Paths,
         Step(r, p)
  PROVE  Billed'
<1> SUFFICES ASSUME NEW x \in Source PROVE Cardinality(Credit(x)') <= Offered(x)'
  BY DEF Billed
<1>0. /\ r \in Reports /\ unmarked' = unmarked
      /\ IsFiniteSet(Credit(x)) /\ Cardinality(Credit(x)) \in Nat
      /\ Cardinality(Credit(x)) <= Offered(x)
      /\ score["offered"][x] \in Nat /\ unmarked \in Nat /\ score \in Cards
  BY SomeCases, StepTurns, Numbered DEF Billed, Typed, Cards
<1>h. PICK h \in Held : h = run[r][p]
  BY HeldAt, <1>0
<1>1. ASSUME Credit(x)' \subseteq Credit(x), score'["offered"][x] >= score["offered"][x],
             score'["offered"][x] \in Nat
      PROVE  Cardinality(Credit(x)') <= Offered(x)'
  <2>1. Cardinality(Credit(x)') <= Cardinality(Credit(x)) /\ Cardinality(Credit(x)') \in Nat
    BY <1>0, <1>1, FS_Subset, FS_CardinalityType
  <2> QED BY <1>0, <1>1, <2>1 DEF Offered
<1>2. ASSUME NEW i \in DOMAIN cases, i \in Credit(x)'
      PROVE  i \in Fixed(x) /\ (h.pc = "offered" \/ Marks(i))
  BY <1>2, <1>h, StepExtends, MarksStep DEF Credit, Fixed
<1>3. CASE MarkOffered(r, p)
  <2>1. h.pc = "offered" /\ cases' = cases
    BY <1>3, <1>h DEF MarkOffered, At
  <2>2. PICK y \in Source : y = h.fix.source
    BY <1>h DEF Held, Fixes
  <2>3. score' = Tally(score, "offered", y)
    BY <1>3, <1>h, <2>2 DEF MarkOffered, Marked
  <2>4. score'["offered"][x] = score["offered"][x] + (IF x = y THEN 1 ELSE 0)
    <3>1. "offered" \in {"offered", "taken"}
      OBVIOUS
    <3>2. \A k \in {"offered", "taken"}, z \in Source :
            Tally(score, "offered", y)[k][z]
              = score[k][z] + (IF k = "offered" /\ z = y THEN 1 ELSE 0)
      BY <1>0, <3>1, Tallied
    <3> QED BY <2>3, <3>1, <3>2
  <2>5. CASE Credit(x)' \subseteq Credit(x)
    BY <1>0, <1>1, <2>4, <2>5
  <2>6. CASE \E i \in DOMAIN cases : i \in Credit(x)' /\ i \notin Credit(x)
    <3>1. PICK i \in DOMAIN cases : i \in Credit(x)' /\ i \notin Credit(x)
      BY <2>6
    <3>2. i \in Fixed(x) /\ ~Marks(i) /\ Marks(i)'
      BY <1>2, <3>1 DEF Credit
    <3>3. cases[i].report = r /\ cases[i].by = p
      BY <3>2, MarksStep
    <3>4. x = y
      BY <1>h, <2>2, <3>2, <3>3 DEF Proposed, Fixed
    <3>5. Credit(x)' \subseteq Credit(x) \union {i}
      <4> SUFFICES ASSUME NEW j \in Credit(x)', j \notin Credit(x) PROVE j = i
        OBVIOUS
      <4>1. j \in DOMAIN cases
        BY <2>1 DEF Credit, Fixed
      <4>2. ~Marks(j) /\ Marks(j)'
        BY <1>2, <4>1 DEF Credit
      <4>3. cases[j].report = r /\ cases[j].by = p
        BY <4>1, <4>2, MarksStep
      <4> QED BY <3>3, <4>1, <4>3, CasedParts DEF Single
    <3>6. /\ IsFiniteSet(Credit(x) \union {i})
          /\ Cardinality(Credit(x) \union {i}) = Cardinality(Credit(x)) + 1
      BY <1>0, <3>1, FS_AddElement
    <3>7. /\ Cardinality(Credit(x)') <= Cardinality(Credit(x)) + 1
          /\ Cardinality(Credit(x)') \in Nat
      BY <3>5, <3>6, FS_Subset, FS_CardinalityType
    <3> QED BY <1>0, <2>4, <3>4, <3>7 DEF Offered
  <2> QED BY <2>1, <2>5, <2>6 DEF Credit, Fixed
<1>4. CASE ~MarkOffered(r, p)
  <2>1. h.pc # "offered"
    BY <1>4, <1>h DEF Step, Load, Record, Suggest, SaveCase, LearnFrom, MarkTaken, StoreBook,
                      StoreError, At
  <2>2. score'["offered"][x] = score["offered"][x]
    <3>1. CASE MarkTaken(r, p)
      <4>1. PICK y \in Source : y = h.fix.source
        BY <1>h DEF Held, Fixes
      <4>2. score' = Tally(score, "taken", y)
        BY <1>h, <3>1, <4>1 DEF MarkTaken, Marked
      <4>3. \A k \in {"offered", "taken"}, z \in Source :
              Tally(score, "taken", y)[k][z]
                = score[k][z] + (IF k = "taken" /\ z = y THEN 1 ELSE 0)
        BY <1>0, Tallied
      <4>4. Tally(score, "taken", y)["offered"][x] = score["offered"][x] + 0
        BY <4>3
      <4> QED BY <1>0, <4>2, <4>4
    <3>2. CASE ~MarkTaken(r, p)
      BY <1>4, <3>2 DEF Step, Load, Record, Suggest, SaveCase, LearnFrom, StoreBook, StoreError,
                        store
    <3> QED BY <3>1, <3>2
  <2>3. Credit(x)' \subseteq Credit(x)
    <3>1. \A i \in DOMAIN cases : i \in Credit(x)' => i \in Credit(x)
      BY <1>2, <2>1 DEF Credit
    <3>2. CASE SaveCase(r, p)
      <4>1. PICK n \in Nat, c \in Said :
              /\ Appends(r, p, n, c)
              /\ run'[r][p].pc = IF c.fix = NoFix THEN "decided" ELSE "offered"
        BY <3>2, SavedCase
      <4>2. /\ DOMAIN cases' = DOMAIN cases \union {n} /\ cases'[n] = c /\ c.report = r
            /\ c.by = p
        BY <4>1 DEF Appends
      <4>3. n \notin Credit(x)'
        BY <4>1, <4>2 DEF Credit, Fixed, Marks, NoFix
      <4> QED BY <3>1, <4>2, <4>3 DEF Credit, Fixed
    <3>3. CASE cases' = cases
      BY <3>1, <3>3 DEF Credit, Fixed
    <3> QED BY <3>2, <3>3, StepExtends
  <2> QED BY <1>0, <1>1, <2>2, <2>3
<1> QED BY <1>3, <1>4

LEMMA SilencedStep ==
  ASSUME Typed, Typed', Hooked, Cased, troubled = {}, NEW r \in DOMAIN reports, NEW p \in Paths,
         Step(r, p)
  PROVE  Silenced \subseteq Silenced'
<1> SUFFICES ASSUME NEW q \in Silenced PROVE q \in Silenced'
  OBVIOUS
<1>1. hook' = hook /\ Extends
  BY StepTurns, StepExtends
<1>2. ~HasCase(q) /\ hook[Shell(q)] # q
  BY DEF Silenced, Shell
<1>3. q # r
  <2>1. run[r][p].pc \notin Still
    BY StepTurns DEF Turns, Still
  <2> QED BY <1>2, <2>1, OneMoves DEF Clean
<1>4. ~HasCase(q)'
  <2>1. CASE cases' = cases
    BY <1>2, <2>1 DEF HasCase
  <2>2. CASE SaveCase(r, p)
    <3>1. PICK n \in Nat, c \in Said : Appends(r, p, n, c)
      BY <2>2, SavesTo
    <3> QED BY <1>2, <1>3, <3>1 DEF HasCase, Appends
  <2> QED BY <2>1, <2>2, StepExtends
<1> QED BY <1>1, <1>2, <1>4, SilencedGrows

LEMMA RootsStep ==
  ASSUME Typed, Typed', Cased, Roots, NEW r \in DOMAIN reports, NEW p \in Paths, Step(r, p)
  PROVE  Roots'
<1>1. reports' = reports /\ hook' = hook /\ Extends
  BY StepTurns, StepExtends
<1>2. ASSUME NEW q \in DOMAIN reports, reports[q].what \in Failing, hook[Shell(q)] # q
      PROVE  Rooted(q)'
  BY <1>1, <1>2, RootedKept DEF Roots
<1> QED BY <1>1, <1>2 DEF Roots, Shell

\* A take is of a case that only failures came after.
LEMMA LearnsFromRoot ==
  ASSUME Typed, Hooked, Cased, Learning, Recalled, Ordered, Roots, troubled = {},
         NEW r \in DOMAIN reports, NEW p \in Paths, run[r][p].pc = "learn",
         NEW i \in LastCase(reports[r].shell),
         Takes(i, reports[r].what, Previous(run[r][p].recent))
  PROVE  /\ i \in CasesOf(Shell(r)) /\ cases[i].report < r /\ cases[i].fix.command # None
         /\ \A x \in ReportsOf(Shell(r)) :
              cases[i].report <= x /\ x < r => reports[x].what \in Failing
<1>0. /\ \A q \in DOMAIN reports : q \in Nat
      /\ \A s : Clean(s)
  BY Numbered DEF Reports, Clean
<1>1. /\ i \in DOMAIN cases /\ i \in CasesOf(Shell(r)) /\ \A j \in CasesOf(Shell(r)) : j <= i
      /\ Shell(cases[i].report) = Shell(r) /\ \A j \in CasesOf(Shell(r)) : j \in DOMAIN cases
      /\ \A j \in CasesOf(Shell(r)) : Shell(cases[j].report) = Shell(r)
  BY DEF LastCase, CasesOf, Shell
<1>2. PICK y \in DOMAIN reports : y = cases[i].report /\ reports[y].what = cases[i].what
  BY <1>1, CasedParts DEF Placed
<1>3. /\ reports[r].what \in Passing /\ Previous(run[r][p].recent) \in Failing
      /\ Precedes(r, Previous(run[r][p].recent))
  BY <1>0 DEF Learning, Recalled, Recalls
<1>4. cases[i].what \in Failing /\ cases[i].fix.command = reports[r].what
  BY <1>3 DEF Takes
<1>5. PICK q \in DOMAIN reports : Before(q, r) /\ reports[q].what \in Failing
  BY <1>3, TriageAssumption DEF Precedes
<1>6. Latest(r) /\ hook[Shell(r)] = r /\ Shell(q) = Shell(r) /\ q < r
  BY <1>0, <1>5, OneMoves DEF Still, Before, Shell
<1>7. y < r
  <2>1. y <= r
    BY <1>1, <1>2, <1>6 DEF Latest, ReportsOf, Shell
  <2>2. y # r
    BY <1>2, <1>3, <1>4, TriageAssumption
  <2> QED BY <1>0, <2>1, <2>2
<1>8. Rooted(q)
  BY <1>0, <1>5, <1>6 DEF Roots
<1>9. PICK j \in CasesOf(Shell(r)) :
        /\ cases[j].report <= q
        /\ \A x \in ReportsOf(Shell(r)) :
             cases[j].report <= x /\ x <= q => reports[x].what = reports[q].what
  BY <1>6, <1>8 DEF Rooted
<1>10. PICK z \in DOMAIN reports : z = cases[j].report
  BY <1>1, CasedParts DEF Placed
<1>11. z <= y
  <2>1. j \in Nat /\ i \in Nat /\ j <= i
    BY <1>1, Listed
  <2>2. CASE j = i
    BY <1>0, <1>2, <1>10, <2>2
  <2>3. CASE j < i
    <3>1. z < y
      BY <1>1, <1>2, <1>10, <2>3 DEF Ordered
    <3> QED BY <1>0, <3>1
  <2> QED BY <2>1, <2>2, <2>3
<1>12. ASSUME NEW x \in ReportsOf(Shell(r)), y <= x, x < r PROVE reports[x].what \in Failing
  <2>1. x \in DOMAIN reports /\ x \in Nat /\ reports[x].shell = reports[r].shell
    BY <1>0 DEF ReportsOf, Shell
  <2>2. x <= q
    <3>1. x \notin q + 1 .. r - 1
      BY <1>5, <2>1 DEF Before
    <3> QED BY <1>0, <1>12, <2>1, <3>1
  <2>3. z <= x
    BY <1>0, <1>11, <1>12, <2>1
  <2> QED BY <1>5, <1>9, <1>10, <2>2, <2>3
<1>13. cases[i].fix.command # None
  BY <1>3, <1>4, TriageAssumption
<1> QED BY <1>1, <1>2, <1>7, <1>12, <1>13

LEMMA TakingsStep ==
  ASSUME Typed, Typed', Hooked, Cased, Learning, Recalled, Ordered, Roots, Takings,
         troubled' = {}, troubled = {}, NEW r \in DOMAIN reports, NEW p \in Paths, Step(r, p)
  PROVE  Takings'
<1>0. /\ reports' = reports /\ r \in Reports /\ DOMAIN reports \subseteq Reports /\ Extends
      /\ \A q : Shell(q)' = Shell(q)
  BY StepTurns, StepExtends, Numbered DEF Shell
<1>1. PICK u \in Held : To(r, p, u) /\ <<run[r][p].pc, u.pc>> \in Turns
  BY StepTurns
<1>2. /\ run'[r][p] = u /\ \A v \in Held : To(r, p, v) => v = u
      /\ \A q \in Reports, o \in Paths : q # r \/ o # p => run'[q][o] = run[q][o]
  BY <1>0, <1>1 DEF To, Moves
<1>3. ASSUME NEW q \in DOMAIN reports, NEW o \in Paths, q # r \/ o # p,
             run'[q][o].pc = "taken"
      PROVE  \E i \in CasesOf(Shell(q))' : TakenFrom(q, o, i)'
  <2>1. run'[q][o] = run[q][o]
    BY <1>0, <1>2, <1>3
  <2>2. PICK i \in CasesOf(Shell(q)) : TakenFrom(q, o, i)
    BY <1>3, <2>1 DEF Takings
  <2> QED BY <1>0, <2>1, <2>2, TakenKept
<1>4. ASSUME u.pc = "taken" PROVE \E i \in CasesOf(Shell(r))' : TakenFrom(r, p, i)'
  <2>1. run[r][p].pc = "learn"
    BY <1>1, <1>4 DEF Turns
  <2>2. LearnFrom(r, p)
    BY <2>1 DEF Step, Load, Record, Suggest, SaveCase, MarkOffered, MarkTaken, StoreBook,
               StoreError, At
  <2>3. PICK v \in Held : /\ To(r, p, v)
          /\ \/ v.pc = "decided"
             \/ /\ v.pc = "taken"
                /\ \E i \in LastCase(reports[r].shell) :
                     /\ Takes(i, reports[r].what, Previous(run[r][p].recent))
                     /\ v.shape = cases[i].what /\ v.fix = cases[i].fix
    BY <2>2, LearnsTo
  <2>4. PICK i \in LastCase(reports[r].shell) :
          /\ Takes(i, reports[r].what, Previous(run[r][p].recent))
          /\ u.fix = cases[i].fix
    BY <1>2, <1>4, <2>3
  <2>5. /\ i \in CasesOf(Shell(r)) /\ cases[i].report < r /\ cases[i].fix.command # None
        /\ \A x \in ReportsOf(Shell(r)) :
             cases[i].report <= x /\ x < r => reports[x].what \in Failing
    BY <2>1, <2>4, LearnsFromRoot
  <2>6. cases' = cases
    BY <2>2 DEF LearnFrom, store
  <2>7. CasesOf(Shell(r))' = CasesOf(Shell(r)) /\ ReportsOf(Shell(r))' = ReportsOf(Shell(r))
    BY <1>0, <2>6 DEF CasesOf, ReportsOf, Shell
  <2>8. TakenFrom(r, p, i)'
    BY <1>0, <1>2, <2>4, <2>5, <2>6, <2>7 DEF TakenFrom
  <2> QED BY <2>5, <2>7, <2>8
<1> QED BY <1>0, <1>2, <1>3, <1>4 DEF Takings

LEMMA SpentStep ==
  ASSUME Typed, NEW r \in DOMAIN reports, NEW p \in Paths, Step(r, p)
  PROVE  \A q \in DOMAIN reports, o \in Paths :
           run[q][o].pc \in Spent => run'[q][o].pc \in Spent
<1>1. PICK u \in Held : To(r, p, u) /\ <<run[r][p].pc, u.pc>> \in Turns
  BY StepTurns
<1>2. run[r][p].pc \in Spent => u.pc \in Spent
  BY <1>1 DEF Turns, Spent
<1> QED BY <1>1, <1>2, Numbered DEF To, Moves

LEMMA PaidStep ==
  ASSUME Typed, Typed', Hooked, Cased, Learning, Takings, Paid, troubled = {}, troubled' = {},
         NEW r \in DOMAIN reports, NEW p \in Paths, Step(r, p)
  PROVE  Paid'
<1> SUFFICES ASSUME NEW x \in Source PROVE score'["taken"][x] <= Cardinality(Used(x)')
  BY DEF Paid
<1>0. /\ r \in Reports /\ reports' = reports /\ score \in Cards
      /\ IsFiniteSet(Used(x)) /\ Cardinality(Used(x)) \in Nat
      /\ score["taken"][x] \in Nat /\ score["taken"][x] <= Cardinality(Used(x))
  BY SomeCases, StepTurns, Numbered DEF Paid, Typed, Cards
<1>h. PICK h \in Held : h = run[r][p]
  BY HeldAt, <1>0
<1>1. Used(x) \subseteq Used(x)'
  BY StepExtends, SpentStep, UsedGrows
<1>2. IsFiniteSet(Used(x)')
  <2>1. DOMAIN cases' = 1 .. Len(cases') /\ Len(cases') \in Nat
    BY DEF Typed
  <2>2. IsFiniteSet(DOMAIN cases')
    BY <2>1, FS_Interval
  <2>3. Used(x)' \subseteq DOMAIN cases'
    BY DEF Used, Fixed
  <2> QED BY <2>2, <2>3, FS_Subset
<1>3. PICK U : U = Used(x)'
  OBVIOUS
<1>4. Cardinality(Used(x)) <= Cardinality(U) /\ Cardinality(U) \in Nat
  BY <1>1, <1>2, <1>3, FS_Subset, FS_CardinalityType
<1>5. CASE ~MarkTaken(r, p)
  <2>1. score'["taken"][x] = score["taken"][x]
    <3>1. CASE MarkOffered(r, p)
      <4>1. PICK y \in Source : y = h.fix.source
        BY <1>h DEF Held, Fixes
      <4>2. score' = Tally(score, "offered", y)
        BY <1>h, <3>1, <4>1 DEF MarkOffered, Marked
      <4>3. \A k \in {"offered", "taken"}, z \in Source :
              Tally(score, "offered", y)[k][z]
                = score[k][z] + (IF k = "offered" /\ z = y THEN 1 ELSE 0)
        BY <1>0, Tallied
      <4>4. Tally(score, "offered", y)["taken"][x] = score["taken"][x] + 0
        BY <4>3
      <4> QED BY <1>0, <4>2, <4>4
    <3>2. CASE ~MarkOffered(r, p)
      BY <1>5, <3>2 DEF Step, Load, Record, Suggest, SaveCase, LearnFrom, StoreBook, StoreError,
                        store
    <3> QED BY <3>1, <3>2
  <2> QED BY <1>0, <1>3, <1>4, <2>1
<1>6. CASE MarkTaken(r, p)
  <2>1. h.pc = "taken" /\ reports[r].what \in Passing /\ cases' = cases
    BY <1>6, <1>h DEF MarkTaken, At, Learning
  <2>2. PICK y \in Source : y = h.fix.source
    BY <1>h DEF Held, Fixes
  <2>3. score' = Tally(score, "taken", y)
    BY <1>6, <1>h, <2>2 DEF MarkTaken, Marked
  <2>4. score'["taken"][x] = score["taken"][x] + (IF x = y THEN 1 ELSE 0)
    <3>1. "taken" \in {"offered", "taken"}
      OBVIOUS
    <3>2. \A k \in {"offered", "taken"}, z \in Source :
            Tally(score, "taken", y)[k][z]
              = score[k][z] + (IF k = "taken" /\ z = y THEN 1 ELSE 0)
      BY <1>0, <3>1, Tallied
    <3> QED BY <2>3, <3>1, <3>2
  <2>5. CASE x # y
    BY <1>0, <1>3, <1>4, <2>4, <2>5
  <2>6. CASE x = y
    <3>1. PICK i \in CasesOf(Shell(r)) : TakenFrom(r, p, i)
      BY <1>h, <2>1 DEF Takings
    <3>2. i \in DOMAIN cases /\ Shell(cases[i].report) = Shell(r)
      BY DEF CasesOf, Shell
    <3>3. i \in Fixed(x)
      BY <1>h, <2>2, <2>6, <3>1, <3>2 DEF TakenFrom, Fixed
    <3>4. Latest(r) /\ \A o \in Paths : o # p => run[r][o].pc = "idle"
      BY <1>h, <2>1, OneMoves DEF Still, Clean
    <3>5. ~UsedAt(i)
      <4> SUFFICES ASSUME NEW q \in ReportsOf(Shell(r)), cases[i].report < q,
                          reports[q].what \in Passing, NEW o \in Paths, run[q][o].pc \in Spent
                   PROVE  FALSE
        BY <3>2 DEF UsedAt
      <4>1. q # r
        BY <1>h, <2>1, <3>4 DEF Spent
      <4>2. q \in Nat /\ r \in Nat /\ q <= r /\ cases[i].report \in Nat
        <5>1. q \in DOMAIN reports /\ cases[i].report \in DOMAIN reports
          BY <3>2, CasedParts DEF ReportsOf, Placed
        <5> QED BY <3>4, <5>1, Numbered DEF Latest, Reports
      <4>3. cases[i].report <= q /\ q < r
        BY <4>1, <4>2
      <4>4. reports[q].what \in Failing
        BY <3>1, <4>3 DEF TakenFrom
      <4> QED BY <4>4, TriageAssumption
    <3>6. UsedAt(i)'
      <4>1. PICK u \in Held : To(r, p, u) /\ u.pc \in {"decided", "storeBook"}
        BY <1>6, MarksTo
      <4>2. run'[r][p].pc \in Spent
        BY <1>0, <4>1 DEF To, Moves, Spent
      <4>3. r \in ReportsOf(Shell(r)) /\ cases[i].report < r
        BY <3>1 DEF ReportsOf, Shell, TakenFrom
      <4>4. r \in ReportsOf(Shell(cases[i].report))'
        BY <1>0, <2>1, <3>2, <4>3 DEF ReportsOf, Shell
      <4> QED BY <1>0, <2>1, <4>2, <4>3, <4>4 DEF UsedAt
    <3>7. i \in U /\ i \notin Used(x)
      BY <1>3, <2>1, <3>3, <3>5, <3>6 DEF Used, Fixed
    <3>8. /\ IsFiniteSet(Used(x) \union {i})
          /\ Cardinality(Used(x) \union {i}) = Cardinality(Used(x)) + 1
      BY <1>0, <3>7, FS_AddElement
    <3>9. Used(x) \union {i} \subseteq U
      BY <1>1, <1>3, <3>7
    <3>10. Cardinality(Used(x)) + 1 <= Cardinality(U)
      BY <1>2, <1>3, <3>8, <3>9, FS_Subset
    <3> QED BY <1>0, <1>3, <1>4, <2>4, <2>6, <3>10
  <2> QED BY <2>5, <2>6
<1> QED BY <1>5, <1>6

LEMMA CreditsStep ==
  ASSUME Typed, Typed', Hooked, Cased, Learning, Recalled, Credits, NEW r \in DOMAIN reports,
         NEW p \in Paths, Step(r, p)
  PROVE  Credits'
<1>1. Proposed'
  BY ProposedStep DEF Credits
<1>2. ASSUME troubled' = {}
      PROVE  Ordered' /\ Billed' /\ (Silenced' = {} => Roots' /\ Takings' /\ Paid')
  <2>1. troubled = {} /\ Proposed /\ Ordered /\ Billed
    BY <1>2, StepTurns DEF Credits
  <2>2. Ordered' /\ Billed'
    BY <2>1, OrderedStep, BilledStep
  <2>3. ASSUME Silenced' = {} PROVE Roots' /\ Takings' /\ Paid'
    <3>1. Silenced = {}
      BY <2>1, <2>3, SilencedStep
    <3>2. Roots /\ Takings /\ Paid
      BY <2>1, <3>1 DEF Credits
    <3> QED BY <1>2, <2>1, <3>2, RootsStep, TakingsStep, PaidStep
  <2> QED BY <2>2, <2>3
<1> QED BY <1>1, <1>2 DEF Credits

LEMMA RootsKept ==
  ASSUME Typed, Typed', Cased, Extends, Roots,
         \A q \in DOMAIN reports' :
           hook'[Shell(q)'] # q => q \in DOMAIN reports /\ hook[Shell(q)] # q
  PROVE  Roots'
<1>1. ASSUME NEW q \in DOMAIN reports', reports'[q].what \in Failing, hook'[Shell(q)'] # q
      PROVE  Rooted(q)'
  <2>1. q \in DOMAIN reports /\ hook[Shell(q)] # q /\ reports'[q] = reports[q]
    BY <1>1 DEF Extends
  <2>2. Rooted(q)
    BY <1>1, <2>1 DEF Roots
  <2> QED BY <2>1, <2>2, RootedKept
<1> QED BY <1>1 DEF Roots

LEMMA TakingsKept ==
  ASSUME Typed, Typed', Cased, Extends, Takings,
         \A q \in DOMAIN reports', o \in Paths :
           run'[q][o].pc = "taken" => q \in DOMAIN reports /\ run'[q][o] = run[q][o]
  PROVE  Takings'
<1>1. ASSUME NEW q \in DOMAIN reports', NEW o \in Paths, run'[q][o].pc = "taken"
      PROVE  \E i \in CasesOf(Shell(q))' : TakenFrom(q, o, i)'
  <2>1. q \in DOMAIN reports /\ run'[q][o] = run[q][o]
    BY <1>1
  <2>2. PICK i \in CasesOf(Shell(q)) : TakenFrom(q, o, i)
    BY <1>1, <2>1 DEF Takings
  <2> QED BY <2>1, <2>2, TakenKept
<1> QED BY <1>1 DEF Takings

LEMMA PaidKept ==
  ASSUME Typed, Typed', Cased, Extends, Paid, score'["taken"] = score["taken"],
         \A q \in DOMAIN reports, o \in Paths :
           run[q][o].pc \in Spent => run'[q][o].pc \in Spent
  PROVE  Paid'
<1> SUFFICES ASSUME NEW x \in Source PROVE score'["taken"][x] <= Cardinality(Used(x)')
  BY DEF Paid
<1>1. Used(x) \subseteq Used(x)'
  BY UsedGrows
<1>2. IsFiniteSet(Used(x)')
  <2>1. DOMAIN cases' = 1 .. Len(cases') /\ Len(cases') \in Nat
    BY DEF Typed
  <2>2. IsFiniteSet(DOMAIN cases')
    BY <2>1, FS_Interval
  <2>3. Used(x)' \subseteq DOMAIN cases'
    BY DEF Used, Fixed
  <2> QED BY <2>2, <2>3, FS_Subset
<1>3. PICK U : U = Used(x)'
  OBVIOUS
<1>4. /\ Cardinality(Used(x)) <= Cardinality(U) /\ Cardinality(U) \in Nat
      /\ Cardinality(Used(x)) \in Nat
  BY <1>1, <1>2, <1>3, SomeCases, FS_Subset, FS_CardinalityType
<1>5. score["taken"][x] \in Nat /\ score["taken"][x] <= Cardinality(Used(x))
  BY DEF Paid, Typed, Cards
<1> QED BY <1>3, <1>4, <1>5

\* When no case is made and no offer counted.
LEMMA BilledKept ==
  ASSUME Billed, cases' = cases, \A i \in DOMAIN cases : Marks(i)' <=> Marks(i),
         \A x \in Source : Offered(x)' = Offered(x)
  PROVE  Billed'
<1>1. \A x : Credit(x)' = Credit(x)
  BY DEF Credit, Fixed
<1> QED BY <1>1 DEF Billed

LEMMA CreditsBegins ==
  ASSUME Typed, Typed', Hooked, Cased, Credits, NEW s \in Shells, NEW what \in What,
         NEW r \in Reports, NEW p \in Paths, NEW u \in Held, Begins(s, what, r, p, u)
  PROVE  Credits'
<1>1. /\ To(r, p, u) /\ u.pc = "load" /\ hook[s] = 0 /\ hook' = [hook EXCEPT ![s] = r]
      /\ DOMAIN reports' = DOMAIN reports \union {r} /\ troubled' = troubled
      /\ r \notin DOMAIN reports /\ cases' = cases /\ score' = score /\ unmarked' = unmarked
      /\ \A q \in DOMAIN reports : q < r /\ reports'[q] = reports[q]
  BY DEF Begins
<1>0. /\ DOMAIN reports \subseteq Reports /\ \A q \in DOMAIN reports : q # 0 /\ Shell(q) \in Shells
      /\ \A i \in DOMAIN cases : cases[i].report \in DOMAIN reports /\ cases[i].by \in Paths
  BY Numbered, Listed, CasedParts DEF Reports, Shell, Placed
<1>2. Extends
  BY <1>1 DEF Extends
<1>3. \A q \in DOMAIN reports : Shell(q)' = Shell(q) /\ q # r
  BY <1>1 DEF Shell
<1>4. \A q \in DOMAIN reports, o \in Paths : run'[q][o] = run[q][o]
  BY <1>0, <1>1 DEF To, Moves
<1>5. \A o \in Paths : run'[r][o].pc \in {"load", "idle"}
  BY <1>1 DEF To, Moves, Hooked
<1>6. \A t \in Shells : hook'[t] = IF t = s THEN r ELSE hook[t]
  BY <1>1 DEF Typed
<1>7. \A i \in DOMAIN cases : /\ Marks(i)' <=> Marks(i)
                              /\ run'[cases[i].report][cases[i].by]
                                   = run[cases[i].report][cases[i].by]
  BY <1>0, <1>1, <1>4 DEF Marks
<1>8. Proposed'
  BY <1>1, <1>7 DEF Credits, Proposed
<1>9. ASSUME troubled' = {} PROVE Ordered' /\ Billed'
  <2>1. Ordered /\ Billed
    BY <1>1, <1>9 DEF Credits
  <2>2. Ordered'
    BY <1>0, <1>1, <1>3, <2>1 DEF Ordered
  <2>3. \A x \in Source : Offered(x)' = Offered(x)
    BY <1>1 DEF Offered
  <2> QED BY <1>1, <1>7, <2>1, <2>2, <2>3, BilledKept
<1>10. ASSUME troubled' = {}, Silenced' = {} PROVE Roots' /\ Takings' /\ Paid'
  <2>1. Silenced \subseteq Silenced'
    <3> SUFFICES ASSUME NEW q \in Silenced PROVE q \in Silenced'
      OBVIOUS
    <3>1. q \in DOMAIN reports /\ ~HasCase(q) /\ hook[Shell(q)] # q
      BY DEF Silenced, Shell
    <3>2. ~HasCase(q)' /\ hook'[Shell(q)] # q
      BY <1>0, <1>1, <1>3, <1>6, <3>1 DEF HasCase
    <3> QED BY <1>2, <3>2, SilencedGrows
  <2>2. Roots /\ Takings /\ Paid
    BY <1>1, <1>10, <2>1 DEF Credits
  <2>3. Shell(r)' = s
    BY DEF Begins, Shell
  <2>4. Roots'
    <3>1. ASSUME NEW q \in DOMAIN reports', hook'[Shell(q)'] # q
          PROVE  q \in DOMAIN reports /\ hook[Shell(q)] # q
      <4>1. q # r
        BY <1>6, <2>3, <3>1
      <4>2. q \in DOMAIN reports
        BY <1>1, <4>1
      <4> QED BY <1>0, <1>1, <1>3, <1>6, <3>1, <4>2
    <3> QED BY <1>2, <2>2, <3>1, RootsKept
  <2>5. Takings'
    <3>1. ASSUME NEW q \in DOMAIN reports', NEW o \in Paths, run'[q][o].pc = "taken"
          PROVE  q \in DOMAIN reports /\ run'[q][o] = run[q][o]
      <4>1. q # r
        BY <1>5, <3>1
      <4> QED BY <1>1, <1>4, <4>1
    <3> QED BY <1>2, <2>2, <3>1, TakingsKept
  <2>6. Paid'
    BY <1>1, <1>2, <1>4, <2>2, PaidKept
  <2> QED BY <2>4, <2>5, <2>6
<1> QED BY <1>8, <1>9, <1>10 DEF Credits

LEMMA CreditsGives ==
  ASSUME Typed, Hooked, Cased, Credits, NEW s \in Shells, NEW r \in DOMAIN reports,
         NEW u \in Held, Gives(s, r, u)
  PROVE  Credits'
<1>1. /\ cases' = cases /\ troubled' # {} /\ run[r]["local"].pc = "idle"
      /\ \A q \in Reports, o \in Paths : q # r \/ o # "local" => run'[q][o] = run[q][o]
  BY DEF Gives, To, Moves
<1>2. ASSUME NEW i \in DOMAIN cases
      PROVE  run'[cases[i].report][cases[i].by] = run[cases[i].report][cases[i].by]
  <2>1. cases[i].report \in Reports /\ cases[i].by \in Paths
    BY Listed
  <2>2. cases[i].report # r \/ cases[i].by # "local"
    BY <1>1, CasedParts DEF Placed
  <2> QED BY <1>1, <2>1, <2>2
<1>3. Proposed'
  BY <1>1, <1>2 DEF Credits, Proposed, Marks
<1> QED BY <1>1, <1>3 DEF Credits

LEMMA CreditsAnswers ==
  ASSUME Typed, Typed', Hooked, Cased, Credits, NEW r \in DOMAIN reports, NEW p \in Paths,
         NEW u \in Held, Answers(r, p, u)
  PROVE  Credits'
<1>1. /\ To(r, p, u) /\ u.pc = "over" /\ run[r][p].pc \in {"decided", "failed"}
      /\ reports' = reports /\ troubled' = troubled /\ cases' = cases /\ score' = score
      /\ unmarked' = unmarked
  BY DEF Answers
<1>0. /\ DOMAIN reports \subseteq Reports /\ r \in Reports /\ Shell(r) \in Shells
      /\ \A q \in DOMAIN reports : q # 0 /\ Shell(q) \in Shells
      /\ \A i \in DOMAIN cases : cases[i].report \in DOMAIN reports /\ cases[i].by \in Paths
  BY Numbered, Listed, CasedParts DEF Reports, Shell, Placed
<1>2. Extends
  BY <1>1 DEF Extends
<1>3. /\ run'[r][p] = u
      /\ \A q \in Reports, o \in Paths : q # r \/ o # p => run'[q][o] = run[q][o]
  BY <1>0, <1>1 DEF To, Moves
<1>4. \A t \in Shells : \/ hook'[t] = hook[t]
                       \/ (t = Shell(r) /\ hook'[t] = 0 /\ hook[t] = r)
  <2>1. p = "local" => hook[Shell(r)] = r
    BY <1>1 DEF Hooked, Still
  <2>2. CASE hook' = [hook EXCEPT ![Shell(r)] = 0] /\ hook[Shell(r)] = r
    <3>1. \A t \in Shells : hook'[t] = IF t = Shell(r) THEN 0 ELSE hook[t]
      BY <2>2 DEF Typed
    <3> QED BY <2>2, <3>1
  <2> QED BY <2>1, <2>2 DEF Answers, Paths
<1>5. ASSUME NEW i \in DOMAIN cases
      PROVE  /\ Marks(i)' <=> Marks(i)
             /\ ~Marks(i)' => run'[cases[i].report][cases[i].by]
                                = run[cases[i].report][cases[i].by]
  <2>1. CASE cases[i].report = r /\ cases[i].by = p
    BY <1>1, <1>3, <2>1 DEF Marks
  <2>2. CASE cases[i].report # r \/ cases[i].by # p
    BY <1>0, <1>1, <1>3, <2>2 DEF Marks
  <2> QED BY <2>1, <2>2
<1>6. Proposed'
  BY <1>1, <1>5 DEF Credits, Proposed
<1>7. ASSUME troubled' = {} PROVE Ordered' /\ Billed'
  <2>1. Ordered /\ Billed
    BY <1>1, <1>7 DEF Credits
  <2>2. Ordered'
    BY <1>1, <2>1 DEF Ordered, Shell
  <2>3. \A x \in Source : Offered(x)' = Offered(x)
    BY <1>1 DEF Offered
  <2> QED BY <1>1, <1>5, <2>1, <2>2, <2>3, BilledKept
<1>8. ASSUME troubled' = {}, Silenced' = {} PROVE Roots' /\ Takings' /\ Paid'
  <2>1. Silenced \subseteq Silenced'
    <3> SUFFICES ASSUME NEW q \in Silenced PROVE q \in Silenced'
      OBVIOUS
    <3>1. q \in DOMAIN reports /\ ~HasCase(q) /\ hook[Shell(q)] # q
      BY DEF Silenced, Shell
    <3>2. ~HasCase(q)' /\ hook'[Shell(q)] # q
      BY <1>0, <1>1, <1>4, <3>1 DEF HasCase
    <3> QED BY <1>2, <3>2, SilencedGrows
  <2>2. Roots /\ Takings /\ Paid
    BY <1>1, <1>8, <2>1 DEF Credits
  <2>3. ASSUME NEW q \in DOMAIN reports', reports'[q].what \in Failing, hook'[Shell(q)'] # q
        PROVE  Rooted(q)'
    <3>0. q \in DOMAIN reports /\ Shell(q)' = Shell(q) /\ Shell(q) \in Shells
      BY <1>0, <1>1 DEF Shell
    <3>1. CASE hook[Shell(q)] # q
      BY <1>1, <1>2, <2>2, <2>3, <3>0, <3>1, RootedKept DEF Roots
    <3>2. CASE hook[Shell(q)] = q
      <4>1. CASE HasCase(q)
        <5>1. PICK i \in DOMAIN cases : cases[i].report = q
          BY <4>1 DEF HasCase
        <5>2. i \in CasesOf(Shell(q))
          BY <3>0, <5>1 DEF CasesOf, Shell
        <5>3. \A x \in ReportsOf(Shell(q)) : q <= x /\ x <= q => reports[x].what = reports[q].what
          <6>1. \A x \in ReportsOf(Shell(q)) : x \in Nat
            BY <1>0 DEF ReportsOf, Reports
          <6>2. q \in Nat /\ q <= q
            BY <1>0, <3>0 DEF Reports
          <6> QED BY <6>1, <6>2
        <5>4. q <= q
          BY <1>0, <3>0 DEF Reports
        <5>5. Rooted(q)
          BY <5>1, <5>2, <5>3, <5>4 DEF Rooted
        <5> QED BY <1>2, <3>0, <5>5, RootedKept
      <4>2. CASE ~HasCase(q)
        <5>1. \E x \in ReportsOf(Shell(q)) : Before(x, q) /\ reports[x].what = reports[q].what
          <6>1. ~HasCase(q)' /\ ReportsOf(Shell(q))' = ReportsOf(Shell(q))
            BY <1>1, <4>2 DEF HasCase, ReportsOf, Shell
          <6>2. q \notin Silenced'
            BY <1>8
          <6> QED BY <1>1, <2>3, <3>0, <4>2, <6>1, <6>2
                 DEF Silenced, Shell, HasCase, Before, ReportsOf
        <5>2. PICK x \in ReportsOf(Shell(q)) : Before(x, q) /\ reports[x].what = reports[q].what
          BY <5>1
        <5>3. /\ x \in DOMAIN reports /\ Shell(x) = Shell(q) /\ x \in Nat /\ q \in Nat /\ x < q
              /\ \A y \in x + 1 .. q - 1 : reports[y].shell # reports[q].shell
          BY <1>0, <3>0, <5>2 DEF ReportsOf, Shell, Before, Reports
        <5>4. Rooted(x)
          BY <1>1, <2>2, <2>3, <3>2, <5>2, <5>3 DEF Roots
        <5>5. PICK i \in CasesOf(Shell(q)) :
                /\ cases[i].report <= x
                /\ \A y \in ReportsOf(Shell(q)) :
                     cases[i].report <= y /\ y <= x => reports[y].what = reports[x].what
          BY <5>3, <5>4 DEF Rooted
        <5>6. cases[i].report \in Nat
          BY <1>0 DEF CasesOf, Reports
        <5>7. ASSUME NEW y \in ReportsOf(Shell(q)), cases[i].report <= y, y <= q
              PROVE  reports[y].what = reports[q].what
          <6>1. y \in DOMAIN reports /\ y \in Nat /\ reports[y].shell = reports[q].shell
            BY <1>0 DEF ReportsOf, Shell, Reports
          <6>2. y <= x \/ y = q
            BY <5>3, <5>7, <6>1
          <6> QED BY <5>2, <5>5, <5>7, <6>2
        <5>8. Rooted(q)
          BY <5>3, <5>5, <5>6, <5>7 DEF Rooted
        <5> QED BY <1>2, <3>0, <5>8, RootedKept
      <4> QED BY <4>1, <4>2
    <3> QED BY <3>1, <3>2
  <2>4. Roots'
    BY <2>3 DEF Roots
  <2>5. Takings'
    <3>1. \A q \in DOMAIN reports', o \in Paths :
            run'[q][o].pc = "taken" => q \in DOMAIN reports /\ run'[q][o] = run[q][o]
      BY <1>0, <1>1, <1>3
    <3> QED BY <1>2, <2>2, <3>1, TakingsKept
  <2>6. Paid'
    <3>1. \A q \in DOMAIN reports, o \in Paths :
            run[q][o].pc \in Spent => run'[q][o].pc \in Spent
      BY <1>0, <1>1, <1>3 DEF Spent
    <3> QED BY <1>1, <1>2, <2>2, <3>1, PaidKept
  <2> QED BY <2>4, <2>5, <2>6
<1> QED BY <1>6, <1>7, <1>8 DEF Credits

\* Steps that change neither what ended, nor the paths, nor a prompt.
LEMMA CreditsModel ==
  ASSUME Typed, Typed', Cased, Credits, Extends, reports' = reports, run' = run, hook' = hook,
         troubled' = troubled, score'["taken"] = score["taken"], DOMAIN cases' = DOMAIN cases,
         \A i \in DOMAIN cases : cases'[i].by = cases[i].by, Billed => Billed'
  PROVE  Credits'
<1>1. \A i \in DOMAIN cases : cases'[i].report = cases[i].report /\ (Marks(i)' <=> Marks(i))
  BY DEF Extends, Marks
<1>2. Proposed'
  BY <1>1 DEF Credits, Proposed, Extends
<1>3. ASSUME troubled' = {} PROVE Ordered'
  BY <1>1, <1>3 DEF Credits, Ordered, Shell
<1>4. ASSUME troubled' = {}, Silenced' = {} PROVE Roots' /\ Takings' /\ Paid'
  <2>1. \A q : Shell(q)' = Shell(q)
    BY DEF Shell
  <2>2. Silenced \subseteq Silenced'
    <3> SUFFICES ASSUME NEW q \in Silenced PROVE q \in Silenced'
      OBVIOUS
    <3>1. ~HasCase(q) /\ hook[Shell(q)] # q
      BY DEF Silenced, Shell
    <3>2. ~HasCase(q)'
      BY <1>1, <3>1 DEF HasCase
    <3> QED BY <3>1, <3>2, SilencedGrows
  <2>3. Roots /\ Takings /\ Paid
    BY <1>4, <2>2 DEF Credits
  <2> QED BY <2>1, <2>3, RootsKept, TakingsKept, PaidKept
<1> QED BY <1>2, <1>3, <1>4 DEF Credits

LEMMA CreditsOthers ==
  ASSUME Typed, Typed', Hooked, Cased, Credits
  PROVE  /\ \A i \in DOMAIN cases, f \in Fixes : Keeps(i, f) => Credits'
         /\ MarkModelFix => Credits'
         /\ UNCHANGED vars => Credits'
<1>1. ASSUME NEW i \in DOMAIN cases, NEW f \in Fixes, Keeps(i, f) PROVE Credits'
  <2>1. /\ cases[i].fix = NoFix /\ f.source = "model" /\ f.command \in Passing
        /\ reports' = reports /\ hook' = hook /\ run' = run /\ score' = score
        /\ troubled' = troubled /\ unmarked' = unmarked + 1 /\ DOMAIN cases' = DOMAIN cases
        /\ \A j \in DOMAIN cases :
             /\ cases'[j].report = cases[j].report /\ cases'[j].by = cases[j].by
             /\ cases'[j].fix = IF j = i THEN f ELSE cases[j].fix
    BY <1>1 DEF Keeps
  <2>2. Extends
    BY <2>1 DEF Extends
  <2>3. ASSUME Billed PROVE Billed'
    <3> SUFFICES ASSUME NEW x \in Source PROVE Cardinality(Credit(x)') <= Offered(x)'
      BY DEF Billed
    <3>0. /\ Cardinality(Credit(x)) <= Offered(x) /\ Cardinality(Credit(x)) \in Nat
          /\ IsFiniteSet(Credit(x)) /\ score["offered"][x] \in Nat /\ unmarked \in Nat
      BY <2>3, SomeCases DEF Billed, Typed, Cards
    <3>1. \A j \in DOMAIN cases : Marks(j)' <=> Marks(j)
      BY <2>1 DEF Marks
    <3>2. Credit(x)' \subseteq Credit(x) \union {i}
      BY <2>1, <3>1 DEF Credit, Fixed
    <3>3. CASE x = "model"
      <4>1. i \notin Credit(x)
        BY <2>1 DEF Credit, Fixed, NoFix
      <4>2. /\ IsFiniteSet(Credit(x) \union {i})
            /\ Cardinality(Credit(x) \union {i}) = Cardinality(Credit(x)) + 1
        BY <3>0, <4>1, FS_AddElement
      <4>3. /\ Cardinality(Credit(x)') <= Cardinality(Credit(x)) + 1
            /\ Cardinality(Credit(x)') \in Nat
        BY <3>2, <4>2, FS_Subset, FS_CardinalityType
      <4> QED BY <2>1, <3>0, <3>3, <4>3 DEF Offered
    <3>4. CASE x # "model"
      <4>1. i \notin Credit(x)'
        BY <2>1, <3>4 DEF Credit, Fixed
      <4>2. Credit(x)' \subseteq Credit(x)
        BY <3>2, <4>1
      <4>3. Cardinality(Credit(x)') <= Cardinality(Credit(x)) /\ Cardinality(Credit(x)') \in Nat
        BY <3>0, <4>2, FS_Subset, FS_CardinalityType
      <4> QED BY <2>1, <3>0, <3>4, <4>3 DEF Offered
    <3> QED BY <3>3, <3>4
  <2> QED BY <2>1, <2>2, <2>3, CreditsModel
<1>2. ASSUME MarkModelFix PROVE Credits'
  <2>1. /\ reports' = reports /\ hook' = hook /\ run' = run /\ cases' = cases
        /\ troubled' = troubled /\ unmarked' = unmarked - 1 /\ unmarked > 0
        /\ score' = Tally(score, "offered", "model") /\ score \in Cards /\ unmarked \in Nat
    BY <1>2 DEF MarkModelFix, Marked, history, Typed
  <2>2. Extends
    BY <2>1 DEF Extends
  <2>3. \A k \in {"offered", "taken"}, z \in Source :
          Tally(score, "offered", "model")[k][z]
            = score[k][z] + (IF k = "offered" /\ z = "model" THEN 1 ELSE 0)
    BY <2>1, Tallied DEF Source
  <2>4. score'["taken"] = score["taken"]
    BY <2>1 DEF Tally, Cards
  <2>5. ASSUME NEW x \in Source PROVE Offered(x)' = Offered(x)
    <3>1. score["offered"][x] \in Nat
      BY <2>1 DEF Cards
    <3>2. score'["offered"][x] = score["offered"][x] + (IF x = "model" THEN 1 ELSE 0)
      BY <2>1, <2>3
    <3> QED BY <2>1, <3>1, <3>2 DEF Offered
  <2>6. Billed => Billed'
    <3>1. \A i \in DOMAIN cases : Marks(i)' <=> Marks(i)
      BY <2>1 DEF Marks
    <3> QED BY <2>1, <2>5, <3>1, BilledKept
  <2> QED BY <2>1, <2>2, <2>4, <2>6, CreditsModel
<1>3. ASSUME UNCHANGED vars PROVE Credits'
  <2>1. /\ reports' = reports /\ hook' = hook /\ run' = run /\ cases' = cases
        /\ troubled' = troubled /\ unmarked' = unmarked /\ score' = score
    BY <1>3 DEF vars, store, history
  <2>2. Extends
    BY <2>1 DEF Extends
  <2>3. Billed => Billed'
    <3>1. \A i \in DOMAIN cases : Marks(i)' <=> Marks(i)
      BY <2>1 DEF Marks
    <3>2. \A x \in Source : Offered(x)' = Offered(x)
      BY <2>1 DEF Offered
    <3> QED BY <2>1, <3>1, <3>2, BilledKept
  <2> QED BY <2>1, <2>2, <2>3, CreditsModel
<1> QED BY <1>1, <1>2, <1>3

(***************************************************************************)
(* The invariant holds at first, and every step keeps it.                  *)
(***************************************************************************)
Inv == Typed /\ Hooked /\ Learning /\ Cased /\ Recalled /\ Taught /\ Credits

LEMMA InvInit == Init => Inv
<1> SUFFICES ASSUME Init PROVE Inv
  OBVIOUS
<1>1. Typed
  BY TypedInit
<1>2. /\ reports = << >> /\ cases = << >> /\ book = << >> /\ DOMAIN reports = {}
      /\ DOMAIN cases = {} /\ DOMAIN book = {} /\ troubled = {}
  <2>1. DOMAIN << >> = {}
    OBVIOUS
  <2> QED BY <2>1 DEF Init, NoFile
<1>3. \A s : ReportsOf(s) = {}
  BY <1>2 DEF ReportsOf
<1>4. Hooked
  <2>1. \A r \in Reports, p \in Paths : run[r][p].pc = "idle"
    BY IdleHeld DEF Init
  <2>2. \A s \in Shells : hook[s] = 0
    BY DEF Init
  <2> QED BY <1>2, <1>3, <2>1, <2>2 DEF Hooked, Waiting
<1>5. Learning /\ Cased
  BY <1>2 DEF Learning, Cased, OfferedIsShown
<1>6. Recalled
  <2>1. \A s \in Shells : recent[s] = << >>
    BY DEF Init, NewSession
  <2> QED BY <1>2, <2>1 DEF Recalled, Previous
<1>7. Taught
  BY <1>2 DEF Taught, Counted
<1>8. Credits
  <2>1. score["taken"] = [x \in Source |-> 0] /\ score["offered"] = [x \in Source |-> 0]
    BY DEF Init, NewCard
  <2>2. \A x : Credit(x) = {} /\ Used(x) = {}
    BY <1>2 DEF Credit, Used, Fixed
  <2>3. \A x \in Source : Offered(x) = 0
    BY <2>1 DEF Offered, Init
  <2>4. Billed /\ Paid
    BY <2>1, <2>2, <2>3, FS_EmptySet DEF Billed, Paid
  <2> QED BY <1>2, <2>4 DEF Credits, Proposed, Ordered, Roots, Takings
<1> QED BY <1>1, <1>4, <1>5, <1>6, <1>7, <1>8 DEF Inv

LEMMA InvNext == Inv /\ [Next]_vars => Inv'
<1> SUFFICES ASSUME Typed, Hooked, Learning, Cased, Recalled, Taught, Credits, [Next]_vars
             PROVE  Inv'
  BY DEF Inv
<1>0. Quiet
  BY QuietNext
<1>1. ASSUME NEW s \in Shells, NEW what \in What, Report(s, what) PROVE Inv'
  <2>1. PICK r \in Reports, p \in Paths, u \in Held : Begins(s, what, r, p, u)
    BY <1>1, ReportTo
  <2>2. Typed'
    BY <2>1, TypedOthers
  <2> QED BY <1>0, <2>1, <2>2, HookedBegins, LearningOthers, CasedOthers, RecalledBegins,
             TaughtOthers, CreditsBegins DEF Inv
<1>2. ASSUME NEW s \in Shells, GiveUp(s) PROVE Inv'
  <2>1. PICK r \in DOMAIN reports, u \in Held : Gives(s, r, u)
    BY <1>2, GivesUpTo DEF Gives
  <2>2. Typed'
    BY <2>1, TypedOthers
  <2> QED BY <1>0, <2>1, <2>2, HookedGives, LearningOthers, CasedOthers, RecalledOthers,
             TaughtOthers, CreditsGives DEF Inv
<1>3. ASSUME NEW r \in DOMAIN reports, AnswerHook(r) \/ DecideHere(r) PROVE Inv'
  <2>1. PICK p \in Paths, u \in Held : Answers(r, p, u)
    BY <1>3, AnswersTo
  <2>2. Typed'
    BY <2>1, TypedOthers
  <2> QED BY <1>0, <2>1, <2>2, HookedAnswers, LearningOthers, CasedOthers, RecalledOthers,
             TaughtOthers, CreditsAnswers DEF Inv
<1>4. ASSUME NEW r \in DOMAIN reports, NEW p \in Paths, Step(r, p) PROVE Inv'
  <2>1. Typed'
    BY <1>4, TypedStep
  <2> QED BY <1>0, <1>4, <2>1, HookedStep, LearningStep, CasedStep, RecalledStep, TaughtStep,
             CreditsStep DEF Inv
<1>5. ASSUME NEW s \in Shells, NEW command \in Passing, KeepModelFix(s, command) PROVE Inv'
  <2>1. PICK i \in DOMAIN cases, f \in Fixes : Keeps(i, f)
    BY <1>5, KeepsTo
  <2>2. Typed'
    BY <2>1, TypedOthers
  <2>3. reports' = reports /\ hook' = hook /\ run' = run /\ troubled' = troubled
    BY <2>1 DEF Keeps
  <2> QED BY <1>0, <2>1, <2>2, <2>3, HookedSame, LearningOthers, CasedOthers, RecalledOthers,
             TaughtOthers, CreditsOthers DEF Inv
<1>6. CASE MarkModelFix
  <2>1. Typed'
    BY <1>6, TypedOthers
  <2>2. reports' = reports /\ hook' = hook /\ run' = run /\ troubled' = troubled
    BY <1>6 DEF MarkModelFix, history
  <2> QED BY <1>0, <1>6, <2>1, <2>2, HookedSame, LearningOthers, CasedOthers, RecalledOthers,
             TaughtOthers, CreditsOthers DEF Inv
<1>7. CASE UNCHANGED vars
  <2>1. Typed'
    BY <1>7, TypedOthers
  <2>2. reports' = reports /\ hook' = hook /\ run' = run /\ troubled' = troubled
    BY <1>7 DEF vars, history
  <2> QED BY <1>0, <1>7, <2>1, <2>2, HookedSame, LearningOthers, CasedOthers, RecalledOthers,
             TaughtOthers, CreditsOthers DEF Inv
<1> QED BY <1>1, <1>2, <1>3, <1>4, <1>5, <1>6, <1>7 DEF Next

LEMMA InvAlways == Spec => []Inv
<1>1. Init => Inv
  BY InvInit
<1>2. Inv /\ [Next]_vars => Inv'
  BY InvNext
<1> QED BY <1>1, <1>2, PTL DEF Spec

(***************************************************************************)
(* While no answer comes late, what the daemon's path and the hook's own   *)
(* path do to one store, call by call, makes one case of a failure, and    *)
(* none of the one that only repeats it (is_duplicate over what the        *)
(* session remembers).                                                     *)
(***************************************************************************)
THEOREM SaidOnce == Spec => []OncePerFailure
<1>1. Inv => OncePerFailure
  BY OncePerFailureHolds DEF Inv
<1> QED BY <1>1, InvAlways, PTL

(***************************************************************************)
(* What became a case is printed at the prompt it came from, whichever     *)
(* process decided: a prompt that is back without its bubble had no case,  *)
(* or its answer was late.                                                 *)
(***************************************************************************)
THEOREM BubbleShown == Spec => []OfferedIsShown
<1>1. Inv => OfferedIsShown
  BY DEF Inv, Cased
<1> QED BY <1>1, InvAlways, PTL

(***************************************************************************)
(* The file of learned fixes is loaded by one call and stored by another,  *)
(* from any shell at once; it may lose a lesson, and counts none twice.    *)
(***************************************************************************)
THEOREM LearnedFromUser == Spec => []NeverOvertaught
<1>1. Inv => NeverOvertaught
  <2> SUFFICES ASSUME Inv, troubled = {}, NEW i \in DOMAIN book
               PROVE  book[i].times <= Cardinality(Lessons(book[i].shape, book[i].command))
    BY DEF NeverOvertaught
  <2>1. Typed /\ Counted(book) /\ book[i] \in Lesson
    BY DEF Inv, Taught, Typed, Books
  <2>2. PICK n \in Nat : n = book[i].times
    BY <2>1 DEF Lesson
  <2>3. PICK L : L = Lessons(book[i].shape, book[i].command)
    OBVIOUS
  <2>4. /\ n <= Cardinality(L \intersect Finished) /\ IsFiniteSet(L)
        /\ Cardinality(L \intersect Finished) \in Nat
        /\ Cardinality(L \intersect Finished) <= Cardinality(L)
    BY <2>1, <2>2, <2>3, LessonsFinite DEF Counted
  <2>5. Cardinality(L) \in Nat
    BY <2>4, FS_CardinalityType
  <2> QED BY <2>2, <2>3, <2>4, <2>5
<1> QED BY <1>1, InvAlways, PTL

(***************************************************************************)
(* The scoreboard is a ledger of lines appended by several processes, and  *)
(* a take is credited to whatever the last case proposed.  Where no answer *)
(* was late and no failure was silenced, a source is credited with no more *)
(* takes than offers, for each take is of a case of its own.               *)
(***************************************************************************)
THEOREM FairScore == Spec => []TakenWasOffered
<1>1. Inv => TakenWasOffered
  BY CreditedHolds DEF Inv
<1> QED BY <1>1, InvAlways, PTL

(***************************************************************************)
(* Corrections: the bubble at the prompt and `kintsu fix` later read the   *)
(* same rules in the same order, on whatever machine and output.           *)
(***************************************************************************)
LEMMA FirstOfTwo ==
  ASSUME NEW a, NEW b
  PROVE  FirstOf(<<a, b>>) = IF a # {} THEN a ELSE b
<1> DEFINE I == {i \in 1 .. Len(<<a, b>>) : <<a, b>>[i] # {}}
<1>1. FirstOf(<<a, b>>) = IF (IF I # {} THEN Min(I) ELSE 0) = 0 THEN {}
                          ELSE <<a, b>>[IF I # {} THEN Min(I) ELSE 0]
  BY DEF FirstOf, SelectInSeq
<1>2. I = (IF a # {} THEN {1} ELSE {}) \union (IF b # {} THEN {2} ELSE {})
  BY Len(<<a, b>>) = 2
<1>3. CASE a # {}
  <2>1. 1 \in I /\ \A i \in I : 1 <= i /\ i \in {1, 2}
    BY <1>2, <1>3
  <2>2. Min(I) = 1
    BY <2>1 DEF Min
  <2> QED BY <1>1, <1>3, <2>1, <2>2
<1>4. CASE a = {} /\ b # {}
  <2>1. I = {2}
    BY <1>2, <1>4
  <2>2. Min(I) = 2
    BY <2>1 DEF Min
  <2> QED BY <1>1, <1>4, <2>1, <2>2
<1>5. CASE a = {} /\ b = {}
  BY <1>1, <1>2, <1>5
<1> QED BY <1>3, <1>4, <1>5

LEMMA FirstOfThree ==
  ASSUME NEW a, NEW b, NEW c
  PROVE  FirstOf(<<a, b, c>>) = IF a # {} THEN a ELSE IF b # {} THEN b ELSE c
<1> DEFINE I == {i \in 1 .. Len(<<a, b, c>>) : <<a, b, c>>[i] # {}}
<1>1. FirstOf(<<a, b, c>>) = IF (IF I # {} THEN Min(I) ELSE 0) = 0 THEN {}
                             ELSE <<a, b, c>>[IF I # {} THEN Min(I) ELSE 0]
  BY DEF FirstOf, SelectInSeq
<1>2. I = (IF a # {} THEN {1} ELSE {}) \union (IF b # {} THEN {2} ELSE {})
            \union (IF c # {} THEN {3} ELSE {})
  BY Len(<<a, b, c>>) = 3
<1>3. CASE a # {}
  <2>1. 1 \in I /\ \A i \in I : 1 <= i /\ i \in {1, 2, 3}
    BY <1>2, <1>3
  <2>2. Min(I) = 1
    BY <2>1 DEF Min
  <2> QED BY <1>1, <1>3, <2>1, <2>2
<1>4. CASE a = {} /\ b # {}
  <2>1. 2 \in I /\ \A i \in I : 2 <= i /\ i \in {2, 3}
    BY <1>2, <1>4
  <2>2. Min(I) = 2
    BY <2>1 DEF Min
  <2> QED BY <1>1, <1>4, <2>1, <2>2
<1>5. CASE a = {} /\ b = {} /\ c # {}
  <2>1. I = {3}
    BY <1>2, <1>5
  <2>2. Min(I) = 3
    BY <2>1 DEF Min
  <2> QED BY <1>1, <1>5, <2>1, <2>2
<1>6. CASE a = {} /\ b = {} /\ c = {}
  BY <1>1, <1>2, <1>6
<1> QED BY <1>3, <1>4, <1>5, <1>6

\* What the prompt offers, and what `kintsu fix` knows of an output.
OnLine(e, x) == SuggestFix(x, GatherFacts(e, x))
AtPrompt(e, x) == FirstOf(<<OnLine(e, x), UserTaught(e, x.line)>>)
OnOutput(e, x, lines) ==
  LET said == UNION {Remarks(l) : l \in lines}
  IN  SuggestFixFromOutput(x, GatherOutputFacts(e, x, said), said)

LEMMA WhatIsOffered ==
  /\ AtPrompt(env, outcome) = IF OnLine(env, outcome) # {} THEN OnLine(env, outcome)
                              ELSE UserTaught(env, outcome.line)
  /\ \A lines : KnownOf(lines) =
       IF OnLine(env, outcome) # {} THEN OnLine(env, outcome)
       ELSE IF OnOutput(env, outcome, lines) # {} THEN OnOutput(env, outcome, lines)
       ELSE UserTaught(env, outcome.line)
<1>1. AtPrompt(env, outcome) = IF OnLine(env, outcome) # {} THEN OnLine(env, outcome)
                               ELSE UserTaught(env, outcome.line)
  BY FirstOfTwo DEF AtPrompt
<1>2. ASSUME NEW lines
      PROVE  KnownOf(lines) =
               IF OnLine(env, outcome) # {} THEN OnLine(env, outcome)
               ELSE IF OnOutput(env, outcome, lines) # {} THEN OnOutput(env, outcome, lines)
               ELSE UserTaught(env, outcome.line)
  <2>1. KnownOf(lines) = FirstOf(<<OnLine(env, outcome), OnOutput(env, outcome, lines),
                                   UserTaught(env, outcome.line)>>)
    BY DEF KnownOf, RuleFix, OnLine, OnOutput
  <2> QED BY <2>1, FirstOfThree
<1> QED BY <1>1, <1>2

\* The bubble has what the prompt offered, or, when that was nothing and the
\* output was read, what the output gave.
OffersSame ==
  /\ env \in Worlds /\ phase \in {"failed", "shown", "asked"}
  /\ phase # "failed" =>
       \/ bubble = AtPrompt(env, outcome)
       \/ read /\ AtPrompt(env, outcome) = {} /\ bubble = KnownOf(output)
  /\ phase = "asked" => offer = FirstOf(<<KnownOf(output), bubble>>)

LEMMA SameStarts == FirstFailure => OffersSame
BY DEF FirstFailure, OffersSame

LEMMA SameStep == OffersSame /\ [CorrectNext]_correctVars => OffersSame'
<1> SUFFICES ASSUME OffersSame, [CorrectNext]_correctVars PROVE OffersSame'
  OBVIOUS
<1>1. ASSUME env' = env, outcome' = outcome
      PROVE  /\ AtPrompt(env, outcome)' = AtPrompt(env, outcome)
             /\ output' = output => KnownOf(output)' = KnownOf(output)
             /\ KnownOf(output)' = KnownOf(output')
  BY <1>1 DEF KnownOf, AtPrompt, OnLine
<1>2. CASE UNCHANGED correctVars
  BY <1>1, <1>2 DEF correctVars, OffersSame
<1>3. CASE AtThePrompt
  <2>1. env' = env /\ outcome' = outcome /\ phase' = "shown" /\ bubble' = AtPrompt(env, outcome)
    BY <1>3 DEF AtThePrompt, AtPrompt, OnLine
  <2> QED BY <1>1, <2>1 DEF OffersSame
<1>4. CASE Capturing
  <2>1. /\ env' = env /\ outcome' = outcome /\ phase = "shown" /\ phase' = phase
        /\ ~read /\ read'
        /\ bubble' = IF bubble = {} /\ output' # {} THEN KnownOf(output') ELSE bubble
    BY <1>4 DEF Capturing
  <2>2. bubble = AtPrompt(env, outcome)
    BY <2>1 DEF OffersSame
  <2> QED BY <1>1, <2>1, <2>2 DEF OffersSame
<1>5. CASE AskToFix
  <2>1. /\ env' = env /\ outcome' = outcome /\ phase = "shown" /\ phase' = "asked"
        /\ output' = output /\ read' = read /\ bubble' = bubble
        /\ offer' = FirstOf(<<KnownOf(output), bubble>>)
    BY <1>5 DEF AskToFix
  <2> QED BY <1>1, <2>1 DEF OffersSame
<1>6. CASE Take
  BY <1>6 DEF Take, Fresh, OffersSame
<1> QED BY <1>2, <1>3, <1>4, <1>5, <1>6 DEF CorrectNext

LEMMA SameAgrees == OffersSame => OneMind
<1> SUFFICES ASSUME OffersSame, phase = "asked", bubble # {}
             PROVE  offer = bubble \/ \E fix \in bubble : fix.rule = "learned"
  BY DEF OneMind
<1>1. offer = IF KnownOf(output) # {} THEN KnownOf(output) ELSE bubble
  BY FirstOfTwo DEF OffersSame
<1>2. CASE bubble = KnownOf(output)
  BY <1>1, <1>2
<1>3. CASE bubble = AtPrompt(env, outcome) /\ OnLine(env, outcome) # {}
  <2>1. bubble = OnLine(env, outcome) /\ KnownOf(output) = OnLine(env, outcome)
    BY <1>3, WhatIsOffered
  <2> QED BY <1>1, <2>1
<1>4. CASE bubble = AtPrompt(env, outcome) /\ OnLine(env, outcome) = {}
  <2>1. bubble = UserTaught(env, outcome.line)
    BY <1>4, WhatIsOffered
  <2>2. PICK taught \in env.taught : taught.fix \in bubble
    BY <2>1 DEF UserTaught
  <2> QED BY <2>2, CorrectionsAssumption DEF OffersSame
<1> QED BY <1>2, <1>3, <1>4 DEF OffersSame

\* Whatever the machine, the line and what the tools print: `kintsu fix` offers
\* what the bubble did, or the user had taught the bubble's.
THEOREM SameOffer == CorrectSpec => []OneMind
<1> QED BY SameStarts, SameStep, SameAgrees, PTL DEF CorrectSpec
=============================================================================
