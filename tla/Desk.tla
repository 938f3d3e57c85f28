-------------------------------- MODULE Desk --------------------------------
(***************************************************************************)
(* What a user says about a failure: silence it, mute everything, click a  *)
(* word of its bubble.  Commands of their own (`kintsu ignore`) and        *)
(* threads of the daemon read and replace one ignore list; the daemon      *)
(* remembers which shell a bubble belongs to; hooks ask whether to speak.  *)
(*                                                                         *)
(* src/use_cases/ignore.rs, entities/ignore.rs, daemon.rs (on_act),        *)
(* gateways/sessions.rs (remember_case) over the store of Store.tla.       *)
(***************************************************************************)
EXTENDS Store, FiniteSets

CONSTANTS
  Daemon, Client, \* the processes: the daemon, and a `kintsu` command
  Commands,       \* Commands[s]: the commands that may fail in s
  Program,        \* Program[c]: its first word
  Dir, Above,     \* Dir[s]: where a shell is; Above[d]: d and what it is in
  Requests,       \* what the user may ask to silence
  Tools,          \* bound: silences and clicks, each made once
  Remembered,     \* REMEMBERED_CASES
  MaxCases,       \* bound: failures offered
  MaxSaves,       \* bound: saves
  MaxTime         \* bound: the clock

ASSUME DeskAssumption ==
  /\ Procs = {Daemon, Client}
  /\ Remembered \in Nat \ {0}
  /\ {MaxCases, MaxSaves, MaxTime} \subseteq Nat

VARIABLES
  now,
  frame,    \* frame[s]: the failure of s that is about to be offered
  late,     \* cases whose late result found them current and saves them next
  shellOf,  \* the registry's map from remembered cases to shells
  newest,   \* the newest case offered by this daemon, 0 when there is none
  run,      \* run[t]: how far a silence or a click is
  (* what happened *)
  kept,     \* entries the user was told of
  dropped,  \* entries gone for a run that read the list before they were there
  acted     \* the last click that was acted on: its case and the one meant

desk == <<now, frame, late, shellOf, newest, run, kept, dropped, acted>>
vars == <<storeVars, desk>>

\* `why` and `fix` are answered, `agent` and `privacy` with a word only.
Actions == {"answer", "ignore", "agent"}
Quiet   == [what |-> None, by |-> None]
Idle    == [stage |-> "idle", by |-> None, shell |-> None, clicked |-> 0,
            action |-> "ignore", entry |-> None, copy |-> << >>]
Done    == [Idle EXCEPT !.stage = "done"]
NoClick == [clicked |-> 0, on |-> 0]
Entry(target, what, scope, of) == [target |-> target, what |-> what, scope |-> scope, of |-> of]

Init ==
  /\ StoreInit
  /\ now = 0
  /\ frame = [s \in Shells |-> Quiet]
  /\ late = {}
  /\ shellOf = << >>
  /\ newest = 0
  /\ run = [t \in Tools |-> Idle]
  /\ kept = {}
  /\ dropped = {}
  /\ acted = NoClick

Usable(p) == conn[p] = "open"
-----------------------------------------------------------------------------
(***************************************************************************)
(* A command fails in a shell.                                             *)
(***************************************************************************)
\* IgnoreEntry::silences, is_expired
Aims(e, what) ==
  \/ e.target = "everything"
  \/ e.target = "program" /\ e.what = Program[what]
  \/ e.target = "command" /\ e.what = what
Reaches(e, s) ==
  \/ e.scope = "everywhere"
  \/ e.scope = "directory" /\ e.of \in Above[Dir[s]]
  \/ e.scope = "session" /\ e.of = s
  \/ e.scope = "until" /\ now < e.of
Silences(e, s, what) == Aims(e, what) /\ Reaches(e, s)
Expired(e) == e.scope = "until" /\ now >= e.of

\* Triage::run up to the ignore list, in the daemon or in the hook itself; a
\* silenced failure leaves nothing behind.
Judges(p, s, what) ==
  /\ Usable(p)
  /\ frame[s] = Quiet
  /\ Len(facts) < Len(Old) + MaxCases
  /\ ~\E i \in DOMAIN list : Silences(list[i], s, what)
  /\ frame' = [frame EXCEPT ![s] = [what |-> what, by |-> p]]
  /\ UNCHANGED <<storeVars, now, late, shellOf, newest, run, kept, dropped, acted>>

\* Sessions::remember_case: some case goes when the map is full.
ForgetsAny(c, s) ==
  \E F \in SUBSET (DOMAIN shellOf \union {c}) :
    /\ Cardinality(F) = IF Cardinality(DOMAIN shellOf) >= Remembered THEN 1 ELSE 0
    /\ shellOf' = [d \in (DOMAIN shellOf \union {c}) \ F |-> IF d = c THEN s ELSE shellOf[d]]
Remembers(c, s) ==
  \E F \in SUBSET DOMAIN shellOf :
    /\ Cardinality(F) = IF Cardinality(DOMAIN shellOf) >= Remembered THEN 1 ELSE 0
    /\ shellOf' = [d \in (DOMAIN shellOf \ F) \union {c} |-> IF d = c THEN s ELSE shellOf[d]]

\* The case is saved and its bubble printed; only the daemon's can be clicked
\* to an end.
Offers(s) ==
  LET c == Len(facts) + 1
  IN /\ frame[s] # Quiet
     /\ Usable(frame[s].by)
     /\ Len(log) < MaxSaves
     /\ facts' = Append(facts, [shell |-> s, what |-> frame[s].what])
     /\ Saves(c)
     /\ IF frame[s].by = Daemon
        THEN Remembers(c, s) /\ newest' = c
        ELSE UNCHANGED <<shellOf, newest>>
     /\ frame' = [frame EXCEPT ![s] = Quiet]
     /\ UNCHANGED <<opening, list, now, late, run, kept, dropped, acted>>

\* A thread of the daemon has a result for a case: two calls of the store.
ChecksLate(c) ==
  /\ Usable(Daemon)
  /\ c \in DOMAIN shellOf \ late
  /\ StillCurrent(c)
  /\ late' = late \union {c}
  /\ UNCHANGED <<storeVars, now, frame, shellOf, newest, run, kept, dropped, acted>>

SavesLate(c) ==
  /\ Usable(Daemon)
  /\ c \in late
  /\ Len(log) < MaxSaves
  /\ Saves(c)
  /\ late' = late \ {c}
  /\ UNCHANGED <<opening, facts, list, now, frame, shellOf, newest, run, kept, dropped, acted>>
-----------------------------------------------------------------------------
(***************************************************************************)
(* The user silences something.                                            *)
(***************************************************************************)
\* Ignore::run: the entry for a request, about the last case of the shell.
TargetOf(r, c) ==
  IF r.target = "everything" THEN None
  ELSE IF r.target = "command" THEN facts[c].what
  ELSE IF r.named # None THEN r.named ELSE Program[facts[c].what]
EntryFor(r, s, c) ==
  Entry(r.target, TargetOf(r, c), r.scope,
        CASE r.scope = "everywhere" -> None
          [] r.scope = "directory"  -> r.dir
          [] r.scope = "session"    -> s
          [] r.scope = "until"      -> now + 1)
NeedsCase(r) == r.target # "everything" /\ r.named = None
ClickedAway == [target |-> "command", named |-> None, scope |-> "everywhere", dir |-> None]

\* `kintsu ignore`, `kintsu mute`, in a hooked shell or outside of one: with
\* no failure to go by, an error.
Asks(t, s, r) ==
  /\ Usable(Client)
  /\ run[t] = Idle
  /\ r.scope = "session" => s # None
  /\ NeedsCase(r) => LastCase(s) # 0
  /\ run' = [run EXCEPT ![t] = [Idle EXCEPT !.stage = "reads", !.by = Client,
                                            !.entry = EntryFor(r, s, LastCase(s))]]
  /\ UNCHANGED <<storeVars, now, frame, late, shellOf, newest, kept, dropped, acted>>

\* The list is read, what expired left out, what is missing added, and all
\* of it written, in two calls of the store.
Reads(t) ==
  /\ run[t].stage = "reads"
  /\ Usable(run[t].by)
  /\ LET alive == Only(list, {e \in ToSet(list) : ~Expired(e)})
         e     == run[t].entry
     IN run' = [run EXCEPT ![t].stage = "replaces",
                           ![t].copy = IF Contains(alive, e) THEN alive ELSE Append(alive, e)]
  /\ UNCHANGED <<storeVars, now, frame, late, shellOf, newest, kept, dropped, acted>>

AloneInIt(t) == list' = <<run[t].entry>>
Replace(t) == list' = run[t].copy
Replaces(t) ==
  /\ run[t].stage = "replaces"
  /\ Usable(run[t].by)
  /\ Replace(t)
  /\ run' = [run EXCEPT ![t] = Done]
  /\ kept' = kept \union {run[t].entry}
  /\ dropped' = (dropped \ {run[t].entry}) \union (ToSet(list) \ ToSet(run[t].copy))
  /\ UNCHANGED <<opening, facts, rows, log, now, frame, late, shellOf, newest, acted>>
-----------------------------------------------------------------------------
(***************************************************************************)
(* The user clicks.                                                        *)
(***************************************************************************)
\* on_act: a case the registry no longer knows is "gone"; the others are
\* answered by a thread, which knows the shell and the action.
Clicks(t, c, a) ==
  /\ conn[Daemon] # "closed"
  /\ run[t] = Idle
  /\ c \in DOMAIN shellOf
  /\ run' = [run EXCEPT ![t] = [Idle EXCEPT !.stage = "acts", !.by = Daemon,
                                !.shell = shellOf[c], !.clicked = c, !.action = a]]
  /\ UNCHANGED <<storeVars, now, frame, late, shellOf, newest, kept, dropped, acted>>

\* The thread acts on the last failure of that shell; `agent` and `privacy`
\* are answered with a word.
LastOfAll(t) == LastCase(None)
On(t) == LastCase(run[t].shell)
Acts(t) ==
  LET c == IF run[t].action = "agent" THEN run[t].clicked ELSE On(t)
  IN /\ run[t].stage = "acts"
     /\ Usable(Daemon)
     /\ acted' = IF c = 0 THEN acted ELSE [clicked |-> run[t].clicked, on |-> c]
     /\ run' = [run EXCEPT ![t] =
          IF run[t].action = "ignore" /\ c # 0
          THEN [@ EXCEPT !.stage = "reads", !.entry = EntryFor(ClickedAway, run[t].shell, c)]
          ELSE Done]
     /\ UNCHANGED <<storeVars, now, frame, late, shellOf, newest, kept, dropped>>
-----------------------------------------------------------------------------
\* A process opens the store, or ends with everything it holds in memory.
StoreOpens(p) == Opening(p) /\ UNCHANGED desk

Ends(p) ==
  /\ Closes(p)
  /\ frame' = [s \in Shells |-> IF frame[s].by = p THEN Quiet ELSE frame[s]]
  /\ run' = [t \in Tools |-> IF run[t].by = p THEN Done ELSE run[t]]
  /\ IF p = Daemon
     THEN late' = {} /\ shellOf' = << >> /\ newest' = 0
     ELSE UNCHANGED <<late, shellOf, newest>>
  /\ UNCHANGED <<now, kept, dropped, acted>>

Tick ==
  /\ now < MaxTime
  /\ now' = now + 1
  /\ UNCHANGED <<storeVars, frame, late, shellOf, newest, run, kept, dropped, acted>>

Next ==
  \/ \E p \in Procs : StoreOpens(p) \/ Ends(p)
  \/ \E p \in Procs, s \in Shells : \E what \in Commands[s] : Judges(p, s, what)
  \/ \E s \in Shells : Offers(s)
  \/ \E c \in DOMAIN facts : ChecksLate(c) \/ SavesLate(c)
  \/ \E t \in Tools, s \in Shells \union {None}, r \in Requests : Asks(t, s, r)
  \/ \E t \in Tools : Reads(t) \/ Replaces(t) \/ Acts(t)
  \/ \E t \in Tools, c \in DOMAIN facts, a \in Actions : Clicks(t, c, a)
  \/ Tick

Spec == Init /\ [][Next]_vars
-----------------------------------------------------------------------------
(***************************************************************************)
(* Properties.                                                             *)
(***************************************************************************)
\* The last case of a shell is the one most recently saved, new or again,
\* among the last Kept saves of all shells, whatever was imported, pruned
\* and saved late (SqliteState::last, write_case).
Newest(s) ==
  {i \in DOMAIN log : i + Kept > Len(log) /\ (s = None \/ facts[log[i]].shell = s)}
LastIsNewest ==
  \A s \in Shells \union {None} :
    LastCase(s) = IF Newest(s) = {} THEN 0 ELSE log[Max(Newest(s))]

\* What the JSON files said is there when the store opens, and the case that
\* was last is last, unless a process died between moving the files aside and
\* the commit: no file is imported twice, none is skipped for another process
\* that came first.
WholeImport ==
  version = 1 /\ ~cut /\ Len(facts) = Len(Old) =>
    /\ LastFile \notin unread => Highest(DOMAIN rows) = LastSaved
    /\ \A i \in DOMAIN Old : i \notin unread => i \in DOMAIN rows

\* What the user silenced and was told of stays silenced, until it expires or
\* a run of Ignore that had read the list before replaces it: no failure it
\* covers is offered, whichever process is asked.
Promised == {e \in kept \ dropped : ~Expired(e)}
Silence ==
  [][\A s \in Shells :
       frame[s] = Quiet /\ frame'[s] # Quiet =>
         ~\E e \in Promised : Silences(e, s, frame'[s].what)]_vars

\* The newest bubble of this daemon can be clicked, however many came before.
NewestAnswers == newest # 0 => newest \in DOMAIN shellOf

\* A click is acted on in the shell of its bubble, about its failure or one
\* that was saved after it.
ActsOnNewer ==
  acted.on # acted.clicked =>
    /\ facts[acted.on].shell = facts[acted.clicked].shell
    /\ \E i, j \in DOMAIN log : i < j /\ log[i] = acted.clicked /\ log[j] = acted.on
=============================================================================
