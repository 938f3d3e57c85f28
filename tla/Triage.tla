------------------------------- MODULE Triage -------------------------------
(***************************************************************************)
(* What a hook reports and what becomes of it.  The hook sends the command *)
(* that ended to the daemon and waits for a short budget; when no daemon   *)
(* answers in time it triages the command itself, on the same store, and   *)
(* the daemon's thread knows nothing of it.  A report is thus triaged once *)
(* or twice, and the two runs interleave call by call of the store.        *)
(*                                                                         *)
(* src/use_cases/triage.rs, the client's side in src/app/hooks.rs, the     *)
(* learned fixes in src/entities/learned.rs with their file, and the       *)
(* scoreboard.  What follows an offer is module Answers.                   *)
(***************************************************************************)
EXTENDS Naturals, Sequences, FiniteSets, SequencesExt

CONSTANTS
  Shells,      \* interactive shells
  Failing,     \* commands that fail, with their status: fingerprints
  Passing,     \* commands that succeed
  Ruled,       \* failures a built-in rule fixes
  Cure,        \* Cure[f]: the command that rule proposes
  PreTyped,    \* those of them it fixes surely enough to pre-type the command
  None,        \* no fix, no command
  Capacity,    \* RECENT_CAPACITY: commands a session remembers
  BookSize,    \* LearnedBook::CAPACITY
  MaxReports,  \* bound: commands that end
  MaxTroubled, \* bound: how many went wrong before no other command ends
  Scenes       \* which shells are open, what is typed in them and what may go wrong

ASSUME TriageAssumption ==
  /\ Failing \intersect Passing = {} /\ None \notin Failing \union Passing
  /\ Ruled \subseteq Failing
  /\ Cure \in [Ruled -> Passing] /\ PreTyped \subseteq Ruled
  /\ Capacity \in Nat \ {0} /\ BookSize \in Nat \ {0} /\ MaxReports \in Nat
  /\ MaxTroubled \in Nat
  /\ Scenes \subseteq [open : SUBSET Shells, typed : SUBSET (Failing \union Passing),
                       storeFails : BOOLEAN, late : BOOLEAN, silent : BOOLEAN]

VARIABLES
  scene,     \* the scene, which does not change
  reports,   \* the commands that ended, in order, with their shell
  hook,      \* hook[s]: the report the prompt of s waits for, or 0
  run,       \* run[r][p]: how far path p is with report r, and what it holds
  recent,    \* recent[s]: the commands recorded for the session, newest last
  cases,     \* the cases saved, the last one last
  book,      \* the learned fixes, the one taken last at the end
  score,     \* offers and takes per source
  unmarked,  \* offers of models saved and not on the scoreboard yet
  shown,     \* reports whose bubble the shell printed with the decision
  troubled   \* reports whose hook gave up waiting, or that the store failed

store   == <<recent, cases, book, score>>
history == <<shown, troubled>>
vars    == <<scene, reports, hook, run, store, unmarked, history>>

Paths   == {"daemon", "local"}
Reports == 1 .. MaxReports
What    == Failing \union Passing
Source  == {"rule", "learned", "model"}
NoFix   == [command |-> None, source |-> "rule"]
Fixes   == [command : Passing \union {None}, source : Source]

StoreFails == scene.storeFails \* the store may be unavailable
GivesUp    == scene.late       \* a daemon may answer too late or with an error
Silent     == scene.silent     \* ui.mode is silent: decisions print nothing

\* LearnedFix::MINIMUM_ACCEPTANCES
MinimumAcceptances == 2

Idle == [pc |-> "idle", recent |-> << >>, shape |-> None, fix |-> NoFix, book |-> << >>]

\* Session::new: it remembers nothing.
NewSession == << >>
\* JsonLearnedFixes::load, when there is no file yet.
NoFile == << >>
\* score: a card of counts per source, on which each event is tallied.
NewCard == [kind \in {"offered", "taken"} |-> [x \in Source |-> 0]]
Tally(card, kind, source) == [card EXCEPT ![kind][source] = @ + 1]

Init ==
  /\ scene \in Scenes
  /\ reports  = << >>
  /\ hook     = [s \in Shells |-> 0]
  /\ run      = [r \in Reports |-> [p \in Paths |-> Idle]]
  /\ recent   = [s \in Shells |-> NewSession]
  /\ cases    = << >>
  /\ book     = NoFile
  /\ score    = NewCard
  /\ unmarked = 0
  /\ shown    = {}
  /\ troubled = {}
-----------------------------------------------------------------------------
(***************************************************************************)
(* Pure parts.                                                             *)
(***************************************************************************)
\* Session::remember
Remember(q, what) ==
  LET longer == Append(q, what) IN
  IF Len(longer) > Capacity THEN Tail(longer) ELSE longer

Previous(q) == IF q = << >> THEN None ELSE Last(q)

\* The same failure twice in a row is said once.
SaysItAgain(what, previous) == FALSE
IsDuplicate(what, previous) == what = previous

\* CaseStore::last of a session, as a set of at most one.
CasesOf(s) == {i \in DOMAIN cases : reports[cases[i].report].shell = s}
LastCase(s) == {i \in CasesOf(s) : \A j \in CasesOf(s) : j <= i}

\* proposal_taken, for the case of the failure that came just before.
Takes(i, what, previous) ==
  cases[i].what = previous /\ cases[i].fix.command = what

\* teaches: a built-in rule's fix that is pre-typed anyway does not.
Teaches(what, fix) == fix.source = "rule" => what \notin PreTyped

\* LearnedBook::recall, accept: the first entry of a shape is the one counted.
Entries(b, shape) == {i \in DOMAIN b : b[i].shape = shape}
Position(b, shape) == CHOOSE i \in Entries(b, shape) : \A j \in Entries(b, shape) : i <= j
Times(b, shape, command) ==
  IF Entries(b, shape) # {} /\ b[Position(b, shape)].command = command
  THEN b[Position(b, shape)].times ELSE 0
Accept(b, shape, command) ==
  LET others == IF Entries(b, shape) = {} THEN b ELSE RemoveAt(b, Position(b, shape))
      longer == Append(others, [shape |-> shape, command |-> command,
                                times |-> Times(b, shape, command) + 1])
  IN  IF Len(longer) > BookSize THEN Tail(longer) ELSE longer

\* learned_fix
Learned(what) ==
  LET known == {i \in Entries(book, what) : book[i].times >= MinimumAcceptances}
  IN  {[command |-> book[i].command, source |-> "learned"] : i \in known}

\* suggest_fix, then what the user taught.
SuggestedFor(what) ==
  IF what \in Ruled THEN [command |-> Cure[what], source |-> "rule"]
  ELSE IF Learned(what) # {} THEN CHOOSE fix \in Learned(what) : TRUE
  ELSE NoFix

Marked(kind, source) == score' = Tally(score, kind, source)
-----------------------------------------------------------------------------
(***************************************************************************)
(* The shell.                                                              *)
(***************************************************************************)
\* TriageInput: of what the hook sends, its shell and what tells commands apart.
Ended(s, what) == [shell |-> s, what |-> what]

\* A command ends; the daemon reads the frame, or there is none to read it.
Report(s, what) ==
  LET r == Len(reports) + 1 IN
  /\ s \in scene.open /\ what \in scene.typed
  /\ hook[s] = 0 /\ r \in Reports /\ Cardinality(troubled) < MaxTroubled
  /\ reports' = Append(reports, Ended(s, what))
  /\ hook' = [hook EXCEPT ![s] = r]
  /\ \E p \in Paths : run' = [run EXCEPT ![r][p].pc = "load"]
  /\ UNCHANGED <<scene, store, unmarked, history>>

\* The hook waits for the daemon, and for nothing else.
Waits(s) == hook[s] # 0 /\ run[hook[s]]["local"].pc = "idle"

\* The budget ran out, the daemon went away or answered an error: the hook
\* decides itself.
GivesUpOnError(s) ==
  /\ GivesUp /\ Waits(s) /\ run[hook[s]]["daemon"].pc = "failed"
  /\ run' = [run EXCEPT ![hook[s]]["local"].pc = "load"]
  /\ troubled' = troubled \union {hook[s]}
  /\ UNCHANGED <<scene, reports, hook, store, unmarked, shown>>
GiveUp(s) ==
  /\ GivesUp /\ Waits(s)
  /\ run' = [run EXCEPT ![hook[s]]["local"].pc = "load"]
  /\ troubled' = troubled \union {hook[s]}
  /\ UNCHANGED <<scene, reports, hook, store, unmarked, shown>>
-----------------------------------------------------------------------------
(***************************************************************************)
(* Triage::run of report r on path p.                                      *)
(***************************************************************************)
At(r, p, pc) == run[r][p].pc = pc
Goes(r, p, pc) == run' = [run EXCEPT ![r][p].pc = pc]
Outside == UNCHANGED <<scene, reports, hook, unmarked, history>>

Load(r, p) ==
  /\ At(r, p, "load")
  /\ run' = [run EXCEPT ![r][p].pc = "save", ![r][p].recent = recent[reports[r].shell]]
  /\ Outside /\ UNCHANGED store

Decision(what, previous) ==
  CASE what \in Passing -> IF previous \in Failing THEN "learn" ELSE "decided"
    [] IsDuplicate(what, previous) -> "decided"
    [] OTHER -> "ignores"

\* What was loaded, with the command appended, replaces what is stored.
Record(r, p) ==
  LET what == reports[r].what
      previous == Previous(run[r][p].recent) IN
  /\ At(r, p, "save")
  /\ recent' = [recent EXCEPT ![reports[r].shell] = Remember(run[r][p].recent, what)]
  /\ Goes(r, p, Decision(what, previous))
  /\ Outside /\ UNCHANGED <<cases, book, score>>

\* The quiet settings and the ignore list are not this module's: they
\* silence the failure or they do not.  Then the rules are asked.
Suggest(r, p) ==
  /\ At(r, p, "ignores")
  /\ \/ Goes(r, p, "decided")
     \/ run' = [run EXCEPT ![r][p].pc = "case", ![r][p].fix = SuggestedFor(reports[r].what)]
  /\ Outside /\ UNCHANGED store

SaveCase(r, p) ==
  /\ At(r, p, "case")
  /\ cases' = Append(cases, [report |-> r, by |-> p, what |-> reports[r].what,
                             fix |-> run[r][p].fix])
  /\ Goes(r, p, IF run[r][p].fix = NoFix THEN "decided" ELSE "offered")
  /\ Outside /\ UNCHANGED <<recent, book, score>>

\* A mark is one line appended to the ledger; failures are counted there
\* too, which nothing here depends on.
OffersUnmarked(r, p) ==
  /\ At(r, p, "offered")
  /\ Goes(r, p, "decided")
  /\ Outside /\ UNCHANGED store
MarkOffered(r, p) ==
  /\ At(r, p, "offered")
  /\ Marked("offered", run[r][p].fix.source)
  /\ Goes(r, p, "decided")
  /\ Outside /\ UNCHANGED <<recent, cases, book>>

(***************************************************************************)
(* learn: a success right after a failure.  The last case is read, then    *)
(* the take is counted, then the book is loaded, changed and stored.       *)
(***************************************************************************)
LearnFrom(r, p) ==
  LET taken == {i \in LastCase(reports[r].shell) :
                  Takes(i, reports[r].what, Previous(run[r][p].recent))} IN
  /\ At(r, p, "learn")
  /\ \/ taken = {} /\ Goes(r, p, "decided")
     \/ \E i \in taken :
          run' = [run EXCEPT ![r][p].pc = "taken", ![r][p].shape = cases[i].what,
                             ![r][p].fix = cases[i].fix]
  /\ Outside /\ UNCHANGED store

\* (The mark is the ledger's alone: it is one step with reading the book.)
MarkTaken(r, p) ==
  /\ At(r, p, "taken")
  /\ Marked("taken", run[r][p].fix.source)
  /\ IF Teaches(run[r][p].shape, run[r][p].fix)
     THEN run' = [run EXCEPT ![r][p].pc = "storeBook", ![r][p].book = book]
     ELSE Goes(r, p, "decided")
  /\ Outside /\ UNCHANGED <<recent, cases, book>>

StoresAgain(r, p) ==
  LET mine(b) == Accept(b, run[r][p].shape, run[r][p].fix.command) IN
  /\ At(r, p, "storeBook")
  /\ book' = IF book = run[r][p].book THEN mine(book) ELSE mine(mine(book))
  /\ Goes(r, p, "decided")
  /\ Outside /\ UNCHANGED <<recent, cases, score>>
StoreBook(r, p) ==
  /\ At(r, p, "storeBook")
  /\ book' = Accept(run[r][p].book, run[r][p].shape, run[r][p].fix.command)
  /\ Goes(r, p, "decided")
  /\ Outside /\ UNCHANGED <<recent, cases, score>>

\* A call that fails ends the run with an error, but for a lesson, which is
\* dropped.
StoreError(r, p) ==
  /\ StoreFails
  /\ \/ \E pc \in {"load", "save", "ignores", "case"} : At(r, p, pc) /\ Goes(r, p, "failed")
     \/ \E pc \in {"learn", "taken", "storeBook"} : At(r, p, pc) /\ Goes(r, p, "decided")
  /\ troubled' = troubled \union {r}
  /\ UNCHANGED <<scene, reports, hook, store, unmarked, shown>>

(***************************************************************************)
(* The answer.  The daemon's reaches the hook that still waits for it, and *)
(* nobody otherwise; an error makes the hook give up, or says nothing.     *)
(***************************************************************************)
Offers(r, p) == {i \in DOMAIN cases : cases[i].report = r /\ cases[i].by = p}
PrintsFixes(r, p) ==
  shown' = shown \union {cases[i].report : i \in {j \in Offers(r, p) : cases[j].fix # NoFix}}
Prints(r, p) ==
  shown' = IF Silent THEN shown ELSE shown \union {cases[i].report : i \in Offers(r, p)}

Over(r, p) == run' = [run EXCEPT ![r][p] = [Idle EXCEPT !.pc = "over"]]

AnswerHook(r) ==
  LET s == reports[r].shell IN
  /\ At(r, "daemon", "decided")
  /\ IF hook[s] = r /\ Waits(s)
     THEN hook' = [hook EXCEPT ![s] = 0] /\ Prints(r, "daemon")
     ELSE UNCHANGED <<hook, shown>>
  /\ Over(r, "daemon")
  /\ UNCHANGED <<scene, reports, store, unmarked, troubled>>

DecideHere(r) ==
  LET s == reports[r].shell IN
  /\ \/ At(r, "local", "decided") /\ Prints(r, "local")
     \/ At(r, "local", "failed") /\ UNCHANGED shown
  /\ hook' = [hook EXCEPT ![s] = 0]
  /\ Over(r, "local")
  /\ UNCHANGED <<scene, reports, store, unmarked, troubled>>
-----------------------------------------------------------------------------
(***************************************************************************)
(* Module Answers, seen from here: a model's fix is kept with the last     *)
(* case of a shell, then counted as an offer.                              *)
(***************************************************************************)
KeepModelFix(s, command) ==
  /\ \E i \in LastCase(s) :
       /\ cases[i].fix = NoFix
       /\ cases' = [cases EXCEPT ![i].fix = [command |-> command, source |-> "model"]]
  /\ unmarked' = unmarked + 1
  /\ UNCHANGED <<scene, reports, hook, run, recent, book, score, history>>

MarkModelFix ==
  /\ unmarked > 0
  /\ Marked("offered", "model")
  /\ unmarked' = unmarked - 1
  /\ UNCHANGED <<scene, reports, hook, run, recent, cases, book, history>>
-----------------------------------------------------------------------------
Step(r, p) ==
  \/ Load(r, p) \/ Record(r, p) \/ Suggest(r, p)
  \/ SaveCase(r, p) \/ MarkOffered(r, p)
  \/ LearnFrom(r, p) \/ MarkTaken(r, p) \/ StoreBook(r, p)
  \/ StoreError(r, p)

Next ==
  \/ \E s \in Shells : GiveUp(s) \/ \E what \in What : Report(s, what)
  \/ \E r \in DOMAIN reports : AnswerHook(r) \/ DecideHere(r) \/ \E p \in Paths : Step(r, p)
  \/ MarkModelFix \/ \E s \in Shells, command \in Passing : KeepModelFix(s, command)

Spec == Init /\ [][Next]_vars

\* The hook's timeout runs out and its own process runs on; the daemon may
\* hang for ever.
HookGoesOn(s) ==
  \/ GiveUp(s)
  \/ hook[s] # 0 /\ (Step(hook[s], "local") \/ DecideHere(hook[s]))
FairSpec == Spec /\ \A s \in Shells : WF_vars(HookGoesOn(s))
-----------------------------------------------------------------------------

ReportsOf(s) == {r \in DOMAIN reports : reports[r].shell = s}
Before(q, r) ==
  /\ q < r /\ reports[q].shell = reports[r].shell
  /\ \A x \in q + 1 .. r - 1 : reports[x].shell # reports[r].shell
Clean(s) == ReportsOf(s) \intersect troubled = {}

(***************************************************************************)
(* While no answer comes late, a failure becomes one case, and the same    *)
(* failure twice in a row does too.                                        *)
(***************************************************************************)
OncePerFailure ==
  \A i, j \in DOMAIN cases :
    LET q == cases[i].report
        r == cases[j].report IN
    Clean(reports[r].shell) /\ i # j =>
      /\ q # r
      /\ Before(q, r) => cases[i].what # cases[j].what

(***************************************************************************)
(* Whatever became a case is said at the prompt it came from, but in the   *)
(* silent mode: when the prompt is back and its answer was not late, the   *)
(* bubble is there.                                                        *)
(***************************************************************************)
OfferedIsShown ==
  ~Silent => \A i \in DOMAIN cases :
    LET r == cases[i].report IN
    r \notin troubled /\ hook[reports[r].shell] # r => r \in shown

\* The times the user ran command right after failing with shape.
Lessons(shape, command) ==
  {r \in DOMAIN reports :
     /\ reports[r].what = command
     /\ \E q \in DOMAIN reports : Before(q, r) /\ reports[q].what = shape}

(***************************************************************************)
(* No fix is learned but from the user, however the shells interleave      *)
(* between reading the one book and replacing it: while no answer was late *)
(* and no call failed, it counts no more takes of a fix for a failure than *)
(* there were.  What two shells store at once may lose a take.             *)
(***************************************************************************)
NeverOvertaught ==
  troubled = {} =>
    \A i \in DOMAIN book :
      book[i].times <= Cardinality(Lessons(book[i].shape, book[i].command))

HasCase(r) == \E i \in DOMAIN cases : cases[i].report = r

\* Failures nothing was said of though no other came just before: the
\* settings or the ignore list silenced them.
Silenced ==
  {r \in DOMAIN reports :
     /\ reports[r].what \in Failing
     /\ ~HasCase(r) /\ hook[reports[r].shell] # r
     /\ \A q \in ReportsOf(reports[r].shell) : Before(q, r) => reports[q].what # reports[r].what}

(***************************************************************************)
(* A source is never credited with more takes than its offers, once the    *)
(* offers saved are counted: `kintsu stats` rates none above one.          *)
(***************************************************************************)
Credited ==
  /\ score["taken"]["rule"] <= score["offered"]["rule"]
  /\ score["taken"]["learned"] <= score["offered"]["learned"]
  /\ score["taken"]["model"] <= score["offered"]["model"] + unmarked
TakenWasOffered == troubled = {} /\ Silenced = {} => Credited

(***************************************************************************)
(* The prompt comes back, also when the daemon hangs, in the scenes in     *)
(* which it may be late.                                                   *)
(***************************************************************************)
PromptReturns == \A s \in Shells : GivesUp /\ hook[s] # 0 ~> hook[s] = 0
=============================================================================
