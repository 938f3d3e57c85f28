------------------------------ MODULE Answers ------------------------------
(***************************************************************************)
(* What happens after a command failed: the daemon keeps the failure as a  *)
(* case, answers the shell at once, and lets background threads read the   *)
(* output, try the rules that read it, ask models, keep what they learn    *)
(* with the case and send it to the shell, which meanwhile types on.       *)
(*                                                                         *)
(* src/daemon.rs (on_command_finished, on_explain, on_act) with the use    *)
(* cases capture, focus, messages, explain, fix_last and the case store.   *)
(* Every call of the store is a transaction of its own; between two calls  *)
(* of a thread anything can happen.                                        *)
(***************************************************************************)
EXTENDS Naturals, Sequences, FiniteSets, SequencesExt

CONSTANTS
  Shells,           \* interactive shells
  Failing, Passing, \* commands with their status: what a fingerprint tells apart
  MaxThreads,       \* bound: background threads, numbered as they start
  MaxCases,         \* bound: failures that are offered
  StoreFails,       \* whether the store may be unavailable
  None              \* no command yet

ASSUME AnswersAssumption ==
  /\ Failing \intersect Passing = {}
  /\ None \notin Failing \union Passing
  /\ MaxCases \in Nat
  /\ MaxThreads \in Nat
  /\ StoreFails \in BOOLEAN

VARIABLES
  (* the store *)
  recent,   \* recent[s]: the last command recorded for the session
  facts,    \* facts[c]: the shell and the command of a case; cases are numbered
  doc,      \* doc[c]: what is kept with it
  last,     \* last[s]: the case of s with the highest sequence number, or 0
  (* the thread that answers the hook of s *)
  frame,    \* frame[s]: how far it is
  offer,    \* offer[s]: the case it offers and what it said about it
  (* the background threads *)
  at,       \* at[w]: how far it is
  task,     \* task[w]: why it was started
  home,     \* home[w]: the shell it answers
  label,    \* label[w]: the case its message will be about, 0 before it is read
  about,    \* about[w]: the case the answer was asked about
  draft,    \* draft[w]: its own copy of the document
  result,   \* result[w]: "fix", "explanation", "note" or "none"
  pending,  \* pending[w]: the bubble said that a model is being asked
  asked,    \* asked[w]: a model was asked, or the word on the spent budget is due
  fresh,    \* fresh[w]: the shell still looked at the case
  failed,   \* failed[w]: the store let it down
  (* the shells *)
  waiting,  \* waiting[s]: messages delivered and not taken
  told,     \* told[s]: bubbles printed, with the command that was last then
  (* what happened *)
  left,     \* cases whose shell ran something else, or failed anew, since
  revived   \* revived[s]: an older case became the last one again

store   == <<recent, facts, doc, last>>
answer  == <<frame, offer>>
copies  == <<label, about, draft, result, pending, asked, fresh, failed>>
threads == <<at, task, home, copies>>
history == <<left, revived>>
vars    == <<store, answer, threads, waiting, told, history>>

What     == Failing \union Passing
Cases    == 1 .. MaxCases
Workers  == 1 .. MaxThreads
Document == [output : BOOLEAN, proposal : {"none", "rule", "late"},
             explained : {"none", "rule", "model"}]
Blank    == [output |-> FALSE, proposal |-> "none", explained |-> "none"]
\* A rule that reads the line knows a fix, or explains, or neither.
Offerable == {Blank, [Blank EXCEPT !.proposal = "rule"], [Blank EXCEPT !.explained = "rule"]}
NoOffer  == [case |-> 0, said |-> Blank, asking |-> FALSE]

Init ==
  /\ recent  = [s \in Shells |-> None]
  /\ facts   = << >>
  /\ doc     = << >>
  /\ last    = [s \in Shells |-> 0]
  /\ frame   = [s \in Shells |-> "idle"]
  /\ offer   = [s \in Shells |-> NoOffer]
  /\ at      = [w \in Workers |-> "free"]
  /\ task    = [w \in Workers |-> "offer"]
  /\ home    = [w \in Workers |-> None]
  /\ label   = [w \in Workers |-> 0]
  /\ about   = [w \in Workers |-> 0]
  /\ draft   = [w \in Workers |-> Blank]
  /\ result  = [w \in Workers |-> "none"]
  /\ pending = [w \in Workers |-> FALSE]
  /\ asked   = [w \in Workers |-> FALSE]
  /\ fresh   = [w \in Workers |-> FALSE]
  /\ failed  = [w \in Workers |-> FALSE]
  /\ waiting = [s \in Shells |-> {}]
  /\ told    = [s \in Shells |-> {}]
  /\ left    = {}
  /\ revived = [s \in Shells |-> FALSE]
-----------------------------------------------------------------------------
(***************************************************************************)
(* The store.                                                              *)
(***************************************************************************)
LastCase(s) == last[s]

\* save_case gives the case the next sequence number, new or saved again.
Newest(s, c) == last' = [last EXCEPT ![s] = c]

\* CaseStore::still_current
StillCurrent(c) == LastCase(facts[c].shell) \in {0, c}

\* Focus::moved_on
AlwaysMovedOn(s, c) == TRUE
MovedOn(s, c) == recent[s] # None /\ recent[s] # facts[c].what

\* Focus::case
Watched(s) == {c \in {LastCase(s)} \ {0} : ~MovedOn(s, c)}

\* Focus::mark_late
Letter(w, c, of, body, late) ==
  [from |-> w, label |-> c, about |-> of, body |-> body, late |-> late]
AsTheyWere(s, M) == M
MarkLate(s, M) ==
  {Letter(m.from, m.label, m.about, m.body, m.late \/ m.label \notin Watched(s)) : m \in M}

\* A bubble is printed under the last command of its shell.
Bubble(s, m, marked) == [msg |-> m, marked |-> marked, under |-> recent[s]]
Shows(s, M, marked) == told' = [told EXCEPT ![s] = @ \union {Bubble(s, m, marked) : m \in M}]
-----------------------------------------------------------------------------
(***************************************************************************)
(* The hook's frame.  A shell has one in flight at a time.                 *)
(***************************************************************************)
\* The cases of s that a command leaves behind.
CasesOf(s) == {c \in DOMAIN facts : facts[c].shell = s}
Leaves(s, what) ==
  /\ left' = left \union {c \in CasesOf(s) : facts[c].what # what}
  /\ UNCHANGED revived

\* A command ended: Triage records it and has nothing to say.
Quiet(s, what) ==
  /\ frame[s] = "idle"
  /\ recent' = [recent EXCEPT ![s] = what]
  /\ frame'  = [frame EXCEPT ![s] = "decided"]
  /\ Leaves(s, what)
  /\ UNCHANGED <<facts, doc, last, offer, threads, waiting, told>>

\* A failure that does not repeat the one before is recorded, then offered.
Fails(s, what) ==
  /\ frame[s] = "idle" /\ what \in Failing /\ what # recent[s]
  /\ Len(facts) < MaxCases
  /\ recent' = [recent EXCEPT ![s] = what]
  /\ frame'  = [frame EXCEPT ![s] = "recorded"]
  /\ Leaves(s, what)
  /\ UNCHANGED <<facts, doc, last, offer, threads, waiting, told>>

\* Messages::fix_candidate, when no rule knew a fix: a model that the settings
\* allow can be reached, or none.
Asking(said) == IF said.proposal = "none" THEN BOOLEAN ELSE {FALSE}

\* The case is saved with what the rules that read the line said, a fix or
\* else an explanation; without a fix a model may be asked for one.
SaveOffer(s) ==
  LET c == Len(facts) + 1 IN
  /\ frame[s] = "recorded" /\ c \in Cases
  /\ facts' = Append(facts, [shell |-> s, what |-> recent[s]])
  /\ Newest(s, c)
  /\ \E said \in Offerable : \E asking \in Asking(said) :
       /\ doc'   = Append(doc, said)
       /\ offer' = [offer EXCEPT ![s] = [case |-> c, said |-> said, asking |-> asking]]
  /\ frame' = [frame EXCEPT ![s] = "decided"]
  /\ left' = left \union CasesOf(s)
  /\ UNCHANGED <<recent, threads, waiting, told, revived>>

\* The hook is answered with an error, and with nothing that waits.
OfferFails(s) ==
  /\ StoreFails /\ frame[s] = "recorded"
  /\ frame' = [frame EXCEPT ![s] = "idle"]
  /\ UNCHANGED <<store, offer, threads, waiting, told, history>>

\* A thread for t starts at step pc, with what it knows from the start.
Start(w, s, t, pc, c) ==
  /\ at[w] = "free" /\ \A v \in 1 .. w - 1 : at[v] # "free"
  /\ at'    = [at EXCEPT ![w] = pc]
  /\ task'  = [task EXCEPT ![w] = t]
  /\ home'  = [home EXCEPT ![w] = s]
  /\ label' = [label EXCEPT ![w] = c]
  /\ about' = [about EXCEPT ![w] = c]
  /\ UNCHANGED <<result, asked, fresh, failed>>

\* The decision goes out with what waited, late when the shell no longer
\* looks at it; as it was when the store cannot tell.  (What is drained is
\* the thread's own until it is sent: draining and sending are one step.)
Reply(s) ==
  /\ frame[s] = "decided"
  /\ \/ Shows(s, MarkLate(s, waiting[s]), TRUE)
     \/ StoreFails /\ Shows(s, waiting[s], FALSE)
  /\ IF offer[s].case = 0
     THEN UNCHANGED threads
     ELSE \E w \in Workers :
            /\ Start(w, s, "offer", "capture", offer[s].case)
            /\ draft'   = [draft EXCEPT ![w] = offer[s].said]
            /\ pending' = [pending EXCEPT ![w] = offer[s].asking]
  /\ waiting' = [waiting EXCEPT ![s] = {}]
  /\ offer'   = [offer EXCEPT ![s] = NoOffer]
  /\ frame'   = [frame EXCEPT ![s] = "idle"]
  /\ UNCHANGED <<store, history>>
-----------------------------------------------------------------------------
(***************************************************************************)
(* What the user asks for: `kintsu why`, or a click on a bubble.           *)
(***************************************************************************)
\* on_explain answers with the model that will be asked, or with an error.
Why(w, s) ==
  /\ LastCase(s) # 0
  /\ Start(w, s, "explain", "label", 0)
  /\ UNCHANGED <<store, answer, draft, pending, waiting, told, history>>

\* Messages::fix_now, and Messages::note with its one line.
FixNow(w, s)    == Start(w, s, "fix", "last", 0)
NoteOn(w, s, c) == Start(w, s, "note", "deliver", c)

\* on_act finds the shell of the clicked case; why and fix then look at the
\* last failure of that shell, the others say a line about the clicked one.
Click(w, c) ==
  LET s == facts[c].shell IN
  /\ \/ Start(w, s, "explain", "label", 0)
     \/ FixNow(w, s)
     \/ NoteOn(w, s, c)
  /\ UNCHANGED <<store, answer, draft, pending, waiting, told, history>>
-----------------------------------------------------------------------------
(***************************************************************************)
(* Steps of the threads.                                                   *)
(***************************************************************************)
Goes(w, pc) == at' = [at EXCEPT ![w] = pc]

\* Nothing but the thread itself changes.
Alone == UNCHANGED <<store, answer, task, home, waiting, told, history>>

\* CaptureOutput::run: read the output, or find none to read.
Capture(w) ==
  /\ at[w] = "capture"
  /\ \/ Goes(w, "rules") /\ UNCHANGED draft
     \/ Goes(w, "checkOutput") /\ draft' = [draft EXCEPT ![w].output = TRUE]
  /\ Alone /\ UNCHANGED <<label, about, result, pending, asked, fresh, failed>>

(***************************************************************************)
(* A late result is kept in two steps: still_current, then save.           *)
(***************************************************************************)
SaveStep == [checkOutput |-> "saveOutput", checkFix |-> "saveFix", checkText |-> "saveText"]
KeptOnly == [checkOutput |-> "rules",      checkFix |-> "done",    checkText |-> "focus"]
After    == [checkOutput |-> "rules",      checkFix |-> "deliver", checkText |-> "focus"]

CheckLast(w) ==
  /\ at[w] \in DOMAIN SaveStep
  /\ Goes(w, IF StillCurrent(about[w]) THEN SaveStep[at[w]] ELSE After[at[w]])
  /\ Alone /\ UNCHANGED copies

\* The thread's own copy replaces what is stored, whatever that became.
Save(w) ==
  /\ \E check \in DOMAIN SaveStep : at[w] = SaveStep[check] /\ Goes(w, After[check])
  /\ doc' = [doc EXCEPT ![about[w]] = draft[w]]
  /\ Newest(home[w], about[w])
  /\ revived' = [revived EXCEPT ![home[w]] = @ \/ about[w] < LastCase(home[w])]
  /\ UNCHANGED <<recent, facts, answer, task, home, copies, waiting, told, left>>

\* Messages::fix_from_output: no fix is looked for when one is known; a rule
\* that reads the output may know one; else a model, when the bubble said so.
ThenAsk(w) == IF pending[w] THEN "ask" ELSE "done"

Rules(w) ==
  /\ at[w] = "rules"
  /\ \/ /\ draft[w].proposal # "none"
        /\ Goes(w, "done") /\ UNCHANGED <<draft, result>>
     \/ /\ draft[w].proposal = "none" /\ draft[w].output
        /\ Goes(w, "focus")
        /\ draft'  = [draft EXCEPT ![w].proposal = "rule"]
        /\ result' = [result EXCEPT ![w] = "fix"]
     \/ /\ draft[w].proposal = "none"
        /\ Goes(w, ThenAsk(w)) /\ UNCHANGED <<draft, result>>
  /\ Alone /\ UNCHANGED <<label, about, pending, asked, fresh, failed>>

\* No model may or can be asked any more: Messages::fix says nothing.
NobodyToAsk(w) ==
  /\ at[w] = "ask" /\ task[w] = "offer"
  /\ Goes(w, "done")
  /\ Alone /\ UNCHANGED copies

SaysNothing(w) ==
  /\ at[w] = "ask"
  /\ Goes(w, "done")
  /\ asked' = [asked EXCEPT ![w] = TRUE]
  /\ Alone /\ UNCHANGED <<label, about, draft, result, pending, fresh, failed>>

\* ask_first came back: with nothing that can be used, or the day's budget
\* is spent and the shell is told so ...
HadNothing(w) ==
  /\ at[w] = "ask"
  /\ Goes(w, IF task[w] = "fix" THEN "deliver" ELSE "focus")
  /\ asked'  = [asked EXCEPT ![w] = TRUE]
  /\ result' = [result EXCEPT ![w] = "note"]
  /\ Alone /\ UNCHANGED <<label, about, draft, pending, fresh, failed>>

\* ... with a fix ...
HadFix(w) ==
  /\ at[w] = "ask" /\ task[w] # "explain"
  /\ Goes(w, IF task[w] = "fix" THEN "checkFix" ELSE "focus")
  /\ asked'  = [asked EXCEPT ![w] = TRUE]
  /\ result' = [result EXCEPT ![w] = "fix"]
  /\ draft'  = [draft EXCEPT ![w].proposal = "late"]
  /\ Alone /\ UNCHANGED <<label, about, pending, fresh, failed>>

\* ... or with an explanation.
HadText(w) ==
  /\ at[w] = "ask" /\ task[w] = "explain"
  /\ Goes(w, "checkText")
  /\ asked'  = [asked EXCEPT ![w] = TRUE]
  /\ result' = [result EXCEPT ![w] = "explanation"]
  /\ draft'  = [draft EXCEPT ![w].explained = "model"]
  /\ Alone /\ UNCHANGED <<label, about, pending, fresh, failed>>

(***************************************************************************)
(* Focus::holds, in two reads: is it still the last case, and was it the   *)
(* last command?                                                           *)
(***************************************************************************)
AfterFocus(w) ==
  IF task[w] = "offer" /\ result[w] = "fix" THEN "checkFix" ELSE "deliver"

Decides(w, yes) ==
  /\ fresh' = [fresh EXCEPT ![w] = yes]
  /\ Goes(w, AfterFocus(w))

FocusCase(w) ==
  /\ at[w] = "focus"
  /\ IF StillCurrent(label[w]) THEN Goes(w, "focusCommand") /\ UNCHANGED fresh
                               ELSE Decides(w, FALSE)
  /\ Alone /\ UNCHANGED <<label, about, draft, result, pending, asked, failed>>

FocusCommand(w) ==
  /\ at[w] = "focusCommand"
  /\ Decides(w, ~MovedOn(home[w], label[w]))
  /\ Alone /\ UNCHANGED <<label, about, draft, result, pending, asked, failed>>

(***************************************************************************)
(* Messages::explain reads the last case three times: to say what the      *)
(* message is about, to see what a rule said, and to ask a model.          *)
(***************************************************************************)
ReadLabel(w) ==
  /\ at[w] = "label"
  /\ label' = [label EXCEPT ![w] = LastCase(home[w])]
  /\ Goes(w, IF LastCase(home[w]) = 0 THEN "done" ELSE "known")
  /\ Alone /\ UNCHANGED <<about, draft, result, pending, asked, fresh, failed>>

ReadKnown(w) ==
  LET c == LastCase(home[w]) IN
  /\ at[w] = "known"
  /\ about' = [about EXCEPT ![w] = c]
  /\ IF doc[c].explained = "rule"
     THEN Goes(w, "focus") /\ result' = [result EXCEPT ![w] = "explanation"]
     ELSE Goes(w, "prepare") /\ UNCHANGED result
  /\ Alone /\ UNCHANGED <<label, draft, pending, asked, fresh, failed>>

\* The models that may see the case, or a word on why there is none.
Prepare(w) ==
  LET c == LastCase(home[w]) IN
  /\ at[w] = "prepare"
  /\ about' = [about EXCEPT ![w] = c]
  /\ draft' = [draft EXCEPT ![w] = doc[c]]
  /\ \/ Goes(w, "ask") /\ UNCHANGED result
     \/ Goes(w, "focus") /\ result' = [result EXCEPT ![w] = "note"]
  /\ Alone /\ UNCHANGED <<label, pending, asked, fresh, failed>>

(***************************************************************************)
(* Messages::fix_now: a rule, or what is kept with the last case, or else  *)
(* a model; or a word that there is no fix.                                *)
(***************************************************************************)
ReadLast(w) ==
  LET c == LastCase(home[w]) IN
  /\ at[w] = "last" /\ c # 0
  /\ label' = [label EXCEPT ![w] = c]
  /\ about' = [about EXCEPT ![w] = c]
  /\ draft' = [draft EXCEPT ![w] = doc[c]]
  /\ \/ /\ doc[c].proposal # "none" \/ doc[c].output
        /\ Goes(w, "deliver") /\ result' = [result EXCEPT ![w] = "fix"]
     \/ /\ doc[c].proposal = "none"
        /\ \/ Goes(w, "ask") /\ UNCHANGED result
           \/ Goes(w, "deliver") /\ result' = [result EXCEPT ![w] = "note"]
  /\ Alone /\ UNCHANGED <<pending, asked, fresh, failed>>

(***************************************************************************)
(* The store is unavailable for one call.  A thread that reads output or   *)
(* answers a click gives up; a rule's fix that cannot be kept leaves room  *)
(* for the model; an explanation that cannot be kept becomes a note.       *)
(***************************************************************************)
Reading  == {"label", "known", "prepare", "last", "focus", "focusCommand"}
Keeping  == {"checkOutput", "saveOutput", "checkFix", "saveFix", "checkText", "saveText"}
Explains == {"known", "prepare", "checkText", "saveText"}

\* The fix in hand is a rule's that read the output.
RuleInHand(w) == task[w] = "offer" /\ result[w] = "fix" /\ ~asked[w]

StoreError(w) ==
  /\ StoreFails /\ at[w] \in Reading \union Keeping
  /\ failed' = [failed EXCEPT ![w] = TRUE]
  /\ \/ /\ at[w] \in Explains
        /\ Goes(w, "focus") /\ result' = [result EXCEPT ![w] = "note"]
     \/ /\ at[w] \notin Explains /\ RuleInHand(w)
        /\ Goes(w, ThenAsk(w)) /\ result' = [result EXCEPT ![w] = "none"]
     \/ /\ at[w] \notin Explains /\ ~RuleInHand(w)
        /\ Goes(w, "done") /\ UNCHANGED result
  /\ Alone /\ UNCHANGED <<label, about, draft, pending, asked, fresh>>

(***************************************************************************)
(* The message goes to the registry of sessions (module Mailbox), where it *)
(* waits for a poll, or in the subscriber's socket; the thread ends.  Only *)
(* what an offer or `why` started can be late.                             *)
(***************************************************************************)
Message(w) ==
  Letter(w, label[w], about[w], IF task[w] = "note" THEN "note" ELSE result[w],
         task[w] \in {"offer", "explain"} /\ ~fresh[w])

TriesOn(w) == IF RuleInHand(w) THEN ThenAsk(w) ELSE "done"
AfterDelivery(w) == "done"

Deliver(w) ==
  /\ at[w] = "deliver"
  /\ waiting' = [waiting EXCEPT ![home[w]] = @ \union {Message(w)}]
  /\ Goes(w, AfterDelivery(w))
  /\ draft'   = [draft EXCEPT ![w] = Blank]
  /\ result'  = [result EXCEPT ![w] = "none"]
  /\ fresh'   = [fresh EXCEPT ![w] = FALSE]
  /\ UNCHANGED <<store, answer, task, home, label, about, pending, asked, failed, told,
                 history>>

\* A poll, or the subscriber, prints what waits as it is.
Poll(s) ==
  /\ waiting[s] # {}
  /\ Shows(s, waiting[s], FALSE)
  /\ waiting' = [waiting EXCEPT ![s] = {}]
  /\ UNCHANGED <<store, answer, threads, history>>
-----------------------------------------------------------------------------
Step(w) ==
  \/ Capture(w) \/ CheckLast(w) \/ Save(w) \/ Rules(w)
  \/ NobodyToAsk(w) \/ HadNothing(w) \/ HadFix(w) \/ HadText(w)
  \/ FocusCase(w) \/ FocusCommand(w)
  \/ ReadLabel(w) \/ ReadKnown(w) \/ Prepare(w) \/ ReadLast(w)
  \/ StoreError(w) \/ Deliver(w)

Frame(s) == SaveOffer(s) \/ OfferFails(s) \/ Reply(s)

Next ==
  \/ \E w \in Workers : Step(w)
  \/ \E s \in Shells : Frame(s) \/ Poll(s)
  \/ \E s \in Shells, what \in What : Quiet(s, what) \/ Fails(s, what)
  \/ \E w \in Workers : \/ \E s \in Shells : Why(w, s)
                        \/ \E c \in DOMAIN facts : Click(w, c)

Spec == Init /\ [][Next]_vars

\* The threads run on; a model answers or its call times out.
FairSpec == Spec /\ \A w \in Workers : WF_vars(Step(w))
-----------------------------------------------------------------------------

\* What shell s was or will be told.
Bubbles(s) == {b.msg : b \in told[s]}
Messages(s) == waiting[s] \union Bubbles(s)
Said(w) == \E s \in Shells : \E m \in Messages(s) : m.from = w

(***************************************************************************)
(* A thread says one thing at most, however its store calls fail: a fix    *)
(* the output gave is not followed by a model's, and nothing follows a fix *)
(* the bubble already had.                                                 *)
(***************************************************************************)
AnsweredOnce ==
  \A w \in Workers :
    /\ Said(w) => at[w] = "done"
    /\ task[w] = "offer" /\ asked[w] => pending[w]

(***************************************************************************)
(* An answer is only called late when its shell ran another command or     *)
(* failed anew since, as long as no older case became the last one again.  *)
(***************************************************************************)
LateOnlyIfLeft ==
  \A s \in Shells : ~revived[s] =>
    \A m \in Messages(s) : m.late => m.label \in left

(***************************************************************************)
(* A bubble printed with the answer to a command is about that command,    *)
(* unless it names another one: bash hears what waited only then.          *)
(***************************************************************************)
DrainedIsCurrent ==
  \A s \in Shells : \A b \in told[s] :
    b.marked /\ ~b.msg.late => facts[b.msg.label].what = b.under

(***************************************************************************)
(* A fix that a model left with a case is on its way to the shell or was   *)
(* said there: `kintsu fix` and the panel never show one out of the blue.  *)
(***************************************************************************)
KeptIsSaid ==
  \A c \in DOMAIN doc : doc[c].proposal = "late" =>
    \E w \in Workers : about[w] = c /\ (at[w] = "deliver" \/ Said(w))

(***************************************************************************)
(* Whoever asked is told: once a model was asked, or the user asked for an *)
(* explanation or a fix, a message comes, unless the store failed.         *)
(***************************************************************************)
Owed(w) == at[w] # "free" /\ (task[w] # "offer" \/ asked[w])

EveryQuestionAnswered ==
  \A w \in Workers : Owed(w) ~> (Said(w) \/ failed[w])
=============================================================================
