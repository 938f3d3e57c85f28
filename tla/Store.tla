------------------------------- MODULE Store -------------------------------
(***************************************************************************)
(* The state directory: one SQLite file with the failures of every shell   *)
(* and the ignore list, which the daemon and every `kintsu` command open   *)
(* for themselves.  The first to open it creates the tables and imports    *)
(* the JSON files of older versions, which it moves aside before the       *)
(* transaction commits.                                                    *)
(*                                                                         *)
(* src/adapters/gateways/sqlite_state.rs, json_state.rs.  A transaction    *)
(* takes effect at once; what a process does between two of them, and      *)
(* inside the one that imports, is a step of its own.                      *)
(***************************************************************************)
EXTENDS Naturals, Sequences, SequencesExt

CONSTANTS
  Shells,
  Procs,      \* processes that open the store
  Kept,       \* KEPT_CASES
  Old,        \* Old[i]: shell and command of the i-th oldest case on JSON file
  LastSaved,  \* the one that last.json repeats
  OldIgnores, \* the entries of ignore.json
  Corrupt,    \* files that may turn out unreadable
  MaxEnds,    \* bound: processes that end
  None        \* no process, no shell

ASSUME StoreAssumption ==
  /\ None \notin Procs \union Shells
  /\ Old \in Seq(ToSet(Old)) /\ OldIgnores \in Seq(ToSet(OldIgnores))
  /\ Kept \in Nat \ {0}
  /\ LastSaved \in DOMAIN Old
  /\ Corrupt \subseteq 0 .. Len(Old) + 1
  /\ MaxEnds \in Nat

VARIABLES
  version,  \* PRAGMA user_version
  lock,     \* the process inside the transaction that creates the tables
  conn,     \* conn[p]: how far p is with opening the store
  files,    \* the JSON files not yet moved aside
  unread,   \* those that cannot be read
  batch,    \* batch[p]: what p imports, before it commits
  facts,    \* facts[c]: the shell and the command of case c
  rows,     \* rows[c]: the seq of a case that is kept
  list,     \* the ignore list
  (* what happened *)
  log,      \* the cases in the order they were saved
  ends,     \* processes that ended
  cut       \* a process died after it moved files aside and before it committed

opening == <<version, lock, conn, files, unread, batch, ends, cut>>
stored  == <<facts, rows, list, log>>
storeVars == <<opening, stored>>

\* The JSON files, in the order they are moved: last.json, the case of each
\* shell, ignore.json.
LastFile    == 0
IgnoreFile  == Len(Old) + 1
Files       == LastFile .. IgnoreFile
Readable(F) == F \ unread
\* CaseDto::into_case, IgnoreDto::into_entry: a file that cannot be read, or made
\* a case or entries of, is one that is not there.
IntoCases(F)   == Readable(F) \ {IgnoreFile}
IntoEntries(F) == IF IgnoreFile \in Readable(F) THEN OldIgnores ELSE << >>
Nothing     == [cases |-> << >>, list |-> << >>]

\* Before the first start: JSON files, some of them possibly corrupt.
StoreInit ==
  /\ version = 0
  /\ lock = None
  /\ conn = [p \in Procs |-> "closed"]
  /\ files = Files
  /\ unread \in {{}, Corrupt}
  /\ batch = [p \in Procs |-> Nothing]
  /\ facts = Old
  /\ rows = << >>
  /\ list = << >>
  /\ log = << >>
  /\ ends = 0
  /\ cut = FALSE
-----------------------------------------------------------------------------
(***************************************************************************)
(* Cases.                                                                  *)
(***************************************************************************)
Seqs(R) == {R[c] : c \in DOMAIN R}
TopSeq(R) == IF R = << >> THEN 0 ELSE CHOOSE n \in Seqs(R) : \A m \in Seqs(R) : m <= n

\* write_case: the next seq, new or saved again, and no more than Kept seqs.
KeepsSeq(R, c) ==
  LET new == IF c \in DOMAIN R THEN R[c] ELSE TopSeq(R) + 1
      all == [d \in DOMAIN R \union {c} |-> IF d = c THEN new ELSE R[d]]
  IN [d \in {e \in DOMAIN all : all[e] + Kept > TopSeq(all)} |-> all[d]]
Written(R, c) ==
  LET new == TopSeq(R) + 1
      all == [d \in DOMAIN R \union {c} |-> IF d = c THEN new ELSE R[d]]
  IN [d \in {e \in DOMAIN all : all[e] + Kept > new} |-> all[d]]

\* CaseStore::last, of a shell or overall; 0 when there is none.
OfShell(s) == {c \in DOMAIN rows : s = None \/ facts[c].shell = s}
Highest(C) == IF C = {} THEN 0 ELSE CHOOSE c \in C : \A d \in C : rows[d] <= rows[c]
LastCase(s) == Highest(OfShell(s))

\* CaseStore::still_current
StillCurrent(c) == LastCase(facts[c].shell) \in {0, c}

Saves(c) == rows' = Written(rows, c) /\ log' = Append(log, c)
-----------------------------------------------------------------------------
(***************************************************************************)
(* Opening.                                                                *)
(***************************************************************************)
\* SqliteState::open, install_schema: the version is read without the lock.
Opens(p) ==
  /\ conn[p] = "closed"
  /\ conn' = [conn EXCEPT ![p] = IF version = 0 THEN "waits" ELSE "open"]
  /\ UNCHANGED <<version, lock, files, unread, batch, ends, cut, stored>>

\* `filter`, in the order of q.
Only(q, S) == FoldLeft(LAMBDA out, x : IF x \in S THEN Append(out, x) ELSE out, << >>, q)

\* JsonState::cases: by age, then once more the one of last.json.
ByAge(F) ==
  Only([i \in DOMAIN Old |-> i], F \union (IF LastFile \in F THEN {LastSaved} ELSE {}))
ImportOrder(F) ==
  Only([i \in DOMAIN Old |-> i], F) \o (IF LastFile \in F THEN <<LastSaved>> ELSE << >>)

\* The version again under the lock, and the files that are there.
Locks(p) ==
  /\ conn[p] = "waits"
  /\ lock = None
  /\ IF version = 0
     THEN /\ lock' = p
          /\ conn' = [conn EXCEPT ![p] = "imports"]
          /\ batch' = [batch EXCEPT ![p] =
               [cases |-> ImportOrder(IntoCases(files)),
                list  |-> IntoEntries(files)]]
     ELSE /\ conn' = [conn EXCEPT ![p] = "open"]
          /\ UNCHANGED <<lock, batch>>
  /\ UNCHANGED <<version, files, unread, ends, cut, stored>>

\* busy_timeout: the lock was held too long; the next use opens again.
TimesOut(p) ==
  /\ conn[p] = "waits"
  /\ lock # None
  /\ conn' = [conn EXCEPT ![p] = "closed"]
  /\ UNCHANGED <<version, lock, files, unread, batch, ends, cut, stored>>

\* import_json moves the files aside one by one.
MovesAside(p) ==
  /\ conn[p] = "imports"
  /\ files # {}
  /\ files' = files \ {CHOOSE f \in files : \A g \in files : f <= g}
  /\ UNCHANGED <<version, lock, conn, unread, batch, ends, cut, stored>>

\* The tables, what was imported and the version, in one commit.
Commits(p) ==
  /\ conn[p] = "imports"
  /\ files = {}
  /\ version' = 1
  /\ rows' = FoldLeft(Written, rows, batch[p].cases)
  /\ log'  = log \o batch[p].cases
  /\ list' = batch[p].list
  /\ lock' = None
  /\ conn' = [conn EXCEPT ![p] = "open"]
  /\ batch' = [batch EXCEPT ![p] = Nothing]
  /\ UNCHANGED <<files, unread, ends, cut, facts>>

\* The process ends or is killed: what it had not committed is rolled back.
Closes(p) ==
  /\ conn[p] # "closed"
  /\ ends < MaxEnds
  /\ ends' = ends + 1
  /\ conn' = [conn EXCEPT ![p] = "closed"]
  /\ lock' = IF lock = p THEN None ELSE lock
  /\ batch' = [batch EXCEPT ![p] = Nothing]
  /\ cut' = (cut \/ (conn[p] = "imports" /\ files # Files))
  /\ UNCHANGED <<version, files, unread, stored>>

Opening(p) == Opens(p) \/ Locks(p) \/ TimesOut(p) \/ MovesAside(p) \/ Commits(p)
=============================================================================
