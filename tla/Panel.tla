------------------------------- MODULE Panel -------------------------------
(***************************************************************************)
(* `kintsu panel`: the last bubble expanded on the terminal.  One thread   *)
(* draws, drains what arrived and handles a key, in that order, round      *)
(* after round; every question to a model runs in a thread of its own that *)
(* sends its answer, piece by piece, into the panel's channel.             *)
(*                                                                         *)
(* src/app/panel.rs (expand, Asker), adapters/presenters/panel.rs (the     *)
(* view model), adapters/gateways/tty_panel.rs (the loop and the terminal) *)
(* and adapters/controllers/panel_keys.rs.  What is drawn is abstracted to *)
(* the rows it takes; a text is the sequence of its pieces, each with the  *)
(* thread that produced it.  The channel is drained between a frame and a  *)
(* key: an arrival still in it is not told apart from one not yet sent, so *)
(* a thread's send is the panel's receipt, at that point of the round.     *)
(***************************************************************************)
EXTENDS Naturals, Integers, Sequences, FiniteSets, SequencesExt

CONSTANTS
  Models,       \* the models a question may go to, in the order of routing
  Agents,       \* how many command-line agents may be configured
  Screens,      \* terminals: how many rows, and the row of the cursor
  PieceRows,    \* rows one piece of an answer takes
  PrivacyRows,  \* rows of the privacy report
  MaxPieces,    \* bound: pieces one model streams
  MaxThreads,   \* bound: threads that ask
  MaxKeys,      \* bound: keys pressed
  None          \* no model

ASSUME PanelAssumption ==
  /\ Models \in Seq(STRING) /\ Models # << >>
  /\ \A s \in Screens : s.rows \in Nat \ {0} /\ s.top \in 0 .. s.rows - 1
  /\ Agents \subseteq Nat
  /\ {PieceRows, PrivacyRows, MaxPieces, MaxThreads, MaxKeys} \subseteq Nat

VARIABLES
  pc,       \* how far the drawing thread is
  panel,    \* the view model
  screen,   \* the viewport: rows of the terminal, its first row, its height
  tty,      \* what was done to the terminal, and the guards that undo it
  drawn,    \* what the last frame offers to a click and says of Enter
  taken,    \* how it ended: "open", "closed", "inserted", "error"
  keys,     \* keys pressed so far
  asker,    \* asker[w]: how far the thread is, its question, its model, its pieces
  ignores   \* requests written to the ignore list

vars == <<pc, panel, screen, tty, drawn, taken, keys, asker, ignores>>

Workers  == 1 .. MaxThreads
Live(w)  == asker[w].at \notin {"free", "done"}
Sub(a, b) == IF a < b THEN 0 ELSE a - b      \* saturating_sub
CHROME   == 3
MIN_HEIGHT == 6
MAX_HEIGHT == 14
ASKING_ROOM == 6
PAGE     == 5

\* Action::ALL, in the order of the tabs.
ALL == <<"why", "fix", "agent", "ignore", "privacy">>
Action == ToSet(ALL)
-----------------------------------------------------------------------------
(***************************************************************************)
(* A section's answer on its way.                                          *)
(***************************************************************************)
Idle            == [is |-> "idle", of |-> None, text |-> << >>]
Asking(m)       == [is |-> "asking", of |-> m, text |-> << >>]
Streaming(m, t) == [is |-> "streaming", of |-> m, text |-> t]
Ready(m, t)     == [is |-> "ready", of |-> m, text |-> t]
Failed          == [is |-> "failed", of |-> None, text |-> << >>]

\* Piece n of what thread w heard from a model; thread 0 stands for what the
\* case already held, model "rule" for what a rule says.
Piece(w, m, n) == [by |-> w, of |-> m, n |-> n]
Whole(w, m)    == <<Piece(w, m, 1)>>

Settled(l)  == l.is \in {"ready", "failed"}
\* Panel::known_fix
KnownFix(p) == p.fix.is = "ready" /\ p.fix.text # << >>

\* Panel::new: on the fix section when a fix is known, the routed agent focused.
Opened(fix, explanation, canAsk, agents, focus) ==
  [fix |-> fix, explanation |-> explanation, canAsk |-> canAsk,
   agents |-> agents, agentFocus |-> focus,
   choices |-> 5, ignoreFocus |-> 0, ignored |-> FALSE,
   section |-> IF fix = Idle THEN "why" ELSE "fix",
   scroll |-> 0, note |-> "none", help |-> FALSE]

NewPanels ==
  {Opened(fix, explanation, canAsk, agents, Sub(agents, 1)) :
     fix \in {Idle, Ready("rule", Whole(0, "rule"))},
     explanation \in {Idle, Ready("rule", Whole(0, "rule"))},
     canAsk \in BOOLEAN, agents \in Agents}
-----------------------------------------------------------------------------
(***************************************************************************)
(* Keys.  Each is the panel it leaves and the effect it wants outside.     *)
(***************************************************************************)
Then(p, effect) == [panel |-> p, effect |-> effect]
Nothing(p)      == Then(p, "nothing")

AtMost(a, b) == IF a < b THEN a ELSE b
AtLeast(a, b) == IF a < b THEN b ELSE a
StepTo(current, delta, len) == IF len = 0 THEN 0 ELSE (current + delta) % len

\* Panel::enter: an idle section asks its question.
Enter(p, a) ==
  LET q == [p EXCEPT !.section = a, !.scroll = 0, !.note = "none"] IN
  CASE a = "why" /\ p.explanation = Idle        -> Then(q, "explain")
    [] a = "fix" /\ p.fix = Idle /\ p.canAsk    -> Then(q, "fix")
    [] a = "fix" /\ p.fix = Idle /\ ~p.canAsk   -> Nothing([q EXCEPT !.fix = Failed])
    [] OTHER                                    -> Nothing(q)

Neighbour(p, delta) ==
  LET i == CHOOSE i \in 1 .. 5 : ALL[i] = p.section IN ALL[StepTo(i - 1, delta, 5) + 1]

MoveFocus(p, delta) ==
  CASE p.section = "agent" /\ p.agents > 0 ->
         Nothing([p EXCEPT !.agentFocus = StepTo(@, delta, p.agents)])
    [] p.section = "ignore" /\ ~p.ignored ->
         Nothing([p EXCEPT !.ignoreFocus = StepTo(@, delta, p.choices)])
    [] OTHER ->
         Nothing([p EXCEPT !.scroll = IF delta < 0 THEN Sub(@, 1) ELSE @ + 1])

\* Panel::act: Enter inserts, silences, or closes what is silenced.
Act(p) ==
  CASE p.section = "agent"               -> Then(p, IF p.agents > 0 THEN "insert" ELSE "nothing")
    [] p.section = "ignore" /\ p.ignored -> Then(p, "close")
    [] p.section = "ignore"              -> Then(p, "ignore")
    [] OTHER                             -> Then(p, IF KnownFix(p) THEN "insert" ELSE "nothing")

\* The line Effect::Insert carries: the fix, an agent by its name, or whichever
\* agent is the first when there is but one.
Command(what, text, index) == [what |-> what, text |-> text, index |-> index]
TheFix(p)       == Command("fix", p.fix.text, 0)
NamedAgent(i)   == Command("agent", << >>, i)
FirstAgent      == Command("first agent", << >>, 0)
Inserted(p) ==
  CASE p.section = "agent" /\ p.agents > 1 -> NamedAgent(p.agentFocus)
    [] p.section = "agent" /\ p.agents <= 1 -> FirstAgent
    [] OTHER -> TheFix(p)

\* HandOff::pick: without a name, of one agent that is configured that one.
Picked(command) == IF command.what = "first agent" THEN NamedAgent(0) ELSE command

CopyFix(p) == IF KnownFix(p) THEN Then(p, "copy") ELSE Nothing([p EXCEPT !.note = "nothing to copy"])

ClickRow(p, i) ==
  CASE p.section = "agent"  -> Nothing([p EXCEPT !.agentFocus = i])
    [] p.section = "ignore" -> Nothing([p EXCEPT !.ignoreFocus = i])
    [] OTHER                -> Nothing(p)

\* Panel::press, over the keys of key_for.  A click lands where the last frame
\* put a tab or a row of a list, or elsewhere.
Pressed(p) ==
  {Enter(p, a) : a \in Action} \union
  {Enter(p, Neighbour(p, d)) : d \in {-1, 1}} \union
  {MoveFocus(p, d) : d \in {-1, 1}} \union
  {Nothing([p EXCEPT !.scroll = Sub(@, PAGE)]), Nothing([p EXCEPT !.scroll = @ + PAGE])} \union
  {Act(p), CopyFix(p), Then(p, "close"), Nothing([p EXCEPT !.help = ~@])} \union
  {Enter(p, a) : a \in drawn.tabs} \union
  {ClickRow(p, i) : i \in drawn.rows} \union {Nothing(p)}
-----------------------------------------------------------------------------
(***************************************************************************)
(* Arrivals.                                                               *)
(***************************************************************************)
\* A piece of an explanation goes after what the same model said before; it
\* starts afresh after another's, and comes too late for a whole answer.
Appended(l, m, piece) ==
  CASE l.is = "streaming" /\ l.of = m -> Streaming(m, Append(l.text, piece))
    [] l.is = "ready"                 -> l
    [] OTHER                          -> Streaming(m, <<piece>>)

\* Panel::receive
Receive(p, a) ==
  CASE a.kind = "asking" /\ a.ask = "fix"     -> [p EXCEPT !.fix = Asking(a.answer.of)]
    [] a.kind = "asking" /\ a.ask = "explain" -> [p EXCEPT !.explanation = Asking(a.answer.of)]
    [] a.kind = "chunk"  /\ a.ask = "explain" ->
         [p EXCEPT !.explanation = Appended(@, a.answer.of, a.answer.text[1])]
    [] a.kind = "answer" /\ a.ask = "fix"     -> [p EXCEPT !.fix = a.answer]
    [] a.kind = "answer" /\ a.ask = "explain" -> [p EXCEPT !.explanation = a.answer]
-----------------------------------------------------------------------------
(***************************************************************************)
(* The view: how many rows a section takes, and where they stand.          *)
(***************************************************************************)
\* Panel::content, as a number of wrapped rows.
WhyRows(l) ==
  CASE l.is = "idle"                   -> 0
    [] l.is \in {"asking", "failed"}   -> 1
    [] l.is \in {"streaming", "ready"} -> PieceRows * Len(l.text) + 1
FixRows(l) ==
  CASE l.is = "idle" -> 0
    [] l.is = "asking" -> 1
    [] l.is = "ready" /\ l.text # << >> -> 2 + PieceRows
    [] OTHER -> 2
ContentRows(p) ==
  CASE p.section = "why"     -> WhyRows(p.explanation)
    [] p.section = "fix"     -> FixRows(p.fix)
    [] p.section = "agent"   -> IF p.agents = 0 THEN 2 ELSE 1 + p.agents
    [] p.section = "ignore"  -> IF p.ignored THEN 1 ELSE p.choices
    [] p.section = "privacy" -> PrivacyRows

\* Panel::height
Expecting(p) ==
  \/ p.section = "why" /\ p.explanation.is \in {"asking", "idle", "streaming"}
  \/ p.section = "fix" /\ (p.fix.is = "asking" \/ (p.fix.is = "idle" /\ p.canAsk))
Height(p) ==
  LET needed == AtLeast(ContentRows(p), IF Expecting(p) THEN ASKING_ROOM ELSE 3)
  IN  AtMost(AtLeast(CHROME + needed, MIN_HEIGHT), MAX_HEIGHT)

\* tty_panel::run: the closure `fitting`
Fitting(wanted, rows) == AtLeast(AtMost(wanted, Sub(rows, 1)), 1)

\* tty_panel::place_viewport and grown: the screen scrolls by what overflows.
Placed(top, height, rows) == Sub(top, Sub(top + height, rows))

\* Panel::render: the scroll stays on the text, and the rows of a list that are
\* visible can be clicked; a viewport too low draws nothing.
Says(what) == [says |-> what, line |-> Command("none", << >>, 0)]
SaysInserts(command) == [says |-> "insert", line |-> command]
NoFrame == [tabs |-> {}, rows |-> {}, footer |-> Says("blank"), looking |-> TRUE]
ListRows(p) ==
  CASE p.section = "agent"                 -> p.agents
    [] p.section = "ignore" /\ ~p.ignored  -> p.choices
    [] OTHER                               -> 0
ListStart(p) == IF p.section = "agent" THEN 1 ELSE 0
Visible(p, line, height) == line >= p.scroll /\ line - p.scroll < height - CHROME
Clamped(p, height) == [p EXCEPT !.scroll = AtMost(@, Sub(ContentRows(p), height - CHROME))]
\* Panel::footer: a note, the help, or what the section's keys do; an agent is
\* named even when it is the only one.
FooterOfSection(p) ==
  CASE p.section = "agent" /\ p.agentFocus < p.agents  -> SaysInserts(NamedAgent(p.agentFocus))
    [] p.section = "agent" /\ p.agentFocus >= p.agents -> Says("setup")
    [] p.section = "ignore" /\ p.ignored  -> Says("closes")
    [] p.section = "ignore" /\ ~p.ignored -> Says("ignore")
    [] OTHER -> IF KnownFix(p) THEN SaysInserts(TheFix(p)) ELSE Says("keys")
FooterOfAny(p) ==
  IF p.section \notin {"agent", "ignore"} /\ p.fix.is = "ready"
  THEN SaysInserts(TheFix(p)) ELSE FooterOfSection(p)
Footer(p) ==
  IF p.note # "none" THEN Says("note") ELSE IF p.help THEN Says("help") ELSE FooterOfSection(p)

\* (looking is a history: whether a fix was looked for when this was drawn.)
Frame(p, height) ==
  [tabs |-> Action, footer |-> Footer(p),
   looking |-> \E w \in Workers : Live(w) /\ asker[w].ask = "fix",
   rows |-> {i \in 0 .. ListRows(p) - 1 : Visible(p, ListStart(p) + i, height)}]
-----------------------------------------------------------------------------
(***************************************************************************)
(* The threads that ask (Asker::ask).                                      *)
(***************************************************************************)
NoThread == [at |-> "free", ask |-> "fix", try |-> 1, said |-> 0]
Arrival(kind, ask, answer) == [kind |-> kind, ask |-> ask, answer |-> answer]
Send(kind, w, answer) == panel' = Receive(panel, Arrival(kind, asker[w].ask, answer))
GoTo(w, step) == asker' = [asker EXCEPT ![w].at = step]
OnlyThreads == UNCHANGED <<pc, screen, tty, drawn, taken, keys, ignores>>

Free == {w \in Workers : asker[w].at = "free"}
\* Outside: a question gets a thread of its own.
Spawns(ask) ==
  /\ Free # {}
  /\ LET w == CHOOSE w \in Free : TRUE
     IN  asker' = [asker EXCEPT ![w] = [NoThread EXCEPT !.at = "candidate", !.ask = ask]]

\* Its answer ends a thread.
EndsSilently(w, answer) == GoTo(w, "done") /\ UNCHANGED panel
Ends(w, answer) == GoTo(w, "done") /\ Send("answer", w, answer)

\* Explain::candidate, FixLast::candidate: which model is about to be asked, or
\* a rule that knows; without one an explanation ends, and a fix is looked for.
Candidate(w) ==
  /\ asker[w].at = "candidate"
  /\ \/ /\ \E m \in {Models[1]} \union (IF asker[w].ask = "explain" THEN {"rule"} ELSE {}) :
             Send("asking", w, Asking(m))
        /\ GoTo(w, "look")
     \/ /\ asker[w].ask = "explain"
        /\ Ends(w, Failed)
     \/ /\ asker[w].ask = "fix"
        /\ GoTo(w, "look")
        /\ UNCHANGED panel
  /\ OnlyThreads

\* Explain::run_streaming, FixLast::run read the last case again: a rule has
\* answered, or there is nobody to ask any more, or the first model is asked.
RuleKnows(w) ==
  /\ asker[w].at = "look"
  /\ IF asker[w].ask = "explain"
     THEN /\ Send("chunk", w, Streaming("rule", Whole(w, "rule")))
          /\ GoTo(w, "ruled")
     ELSE Ends(w, Ready("rule", Whole(w, "rule")))
  /\ OnlyThreads
Ruled(w) == asker[w].at = "ruled" /\ Ends(w, Ready("rule", Whole(w, "rule"))) /\ OnlyThreads

NobodyToAsk(w) ==
  /\ asker[w].at = "look"
  /\ \/ Ends(w, Failed)
     \/ asker[w].ask = "fix" /\ Ends(w, Ready(None, << >>))
  /\ OnlyThreads

Ask(w) == asker[w].at = "look" /\ GoTo(w, "asks") /\ UNCHANGED panel /\ OnlyThreads

\* ask_first_streaming: a model speaks, and an explanation is shown as it comes.
Speaks(w) ==
  /\ asker[w].at = "asks" /\ asker[w].ask = "explain" /\ asker[w].said < MaxPieces
  /\ asker' = [asker EXCEPT ![w].said = @ + 1]
  /\ LET m == Models[asker[w].try]
     IN  Send("chunk", w, Streaming(m, <<Piece(w, m, asker[w].said + 1)>>))
  /\ OnlyThreads

\* A model that fails, in the middle of its answer even, leaves it to the next.
TriesNext(w) ==
  /\ asker[w].at = "asks" /\ asker[w].try < Len(Models)
  /\ asker' = [asker EXCEPT ![w].try = @ + 1, ![w].said = 0]
  /\ UNCHANGED panel /\ OnlyThreads

\* The whole answer, kept with the case by the use case; a fix may be none, and
\* models that all failed, or a store that refuses, make it an error.
HeardOf(w) ==
  LET m == Models[asker[w].try] IN Ready(m, [n \in 1 .. asker[w].said |-> Piece(w, m, n)])
Answers(w) ==
  /\ asker[w].at = "asks"
  /\ \/ asker[w].ask = "explain" /\ asker[w].said > 0 /\ Ends(w, HeardOf(w))
     \/ asker[w].ask = "fix" /\ \E t \in {<< >>, Whole(w, Models[asker[w].try])} :
                                  Ends(w, Ready(Models[asker[w].try], t))
     \/ Ends(w, Failed)
  /\ OnlyThreads

Asker(w) ==
  \/ Candidate(w) \/ RuleKnows(w) \/ Ruled(w) \/ NobodyToAsk(w)
  \/ Ask(w) \/ Speaks(w) \/ TriesNext(w) \/ Answers(w)
-----------------------------------------------------------------------------
(***************************************************************************)
(* The drawing thread.                                                     *)
(***************************************************************************)
Untouched == [done |-> {}, guards |-> {}]

Init ==
  /\ pc = "focus" /\ taken = "open"
  /\ panel \in NewPanels
  /\ screen \in {[rows |-> s.rows, top |-> s.top, height |-> 0] : s \in Screens}
  /\ tty = Untouched /\ drawn = NoFrame
  /\ keys = 0 /\ ignores = 0
  /\ asker = [w \in Workers |-> NoThread]

\* What goes when a guard is dropped: a Diversion's descriptor, raw mode and the
\* mouse, the cursor that ratatui hid.
UndoesModeOnly(guard) ==
  CASE guard = "viewport" -> {"hidden"} [] OTHER -> {guard}
Undoes(guard) ==
  CASE guard = "raw"      -> {"raw", "mouse"}
    [] guard = "viewport" -> {"hidden"}
    [] OTHER              -> {guard}
Drops(done) ==
  tty' = [done |-> done \ UNION {Undoes(guard) : guard \in tty.guards}, guards |-> {}]

\* Leaving tty_panel::run, by `?` or at its end, drops the guards that were made;
\* the threads that still ask end with the process.
ProcessEnds ==
  /\ pc' = "ended"
  /\ asker' = [w \in Workers |-> NoThread]
  /\ UNCHANGED <<panel, screen, drawn, keys, ignores>>

\* A call that fails: the mouse's is a series of modes, a viewport opened again
\* shows the cursor for a moment, and the last calls give both back.
Halfway ==
  CASE pc = "mouse"             -> {tty.done, tty.done \union {"mouse"}}
    [] pc \in {"draw", "leave"} -> {tty.done \ undone : undone \in SUBSET {"mouse", "hidden"}}
    [] OTHER                    -> {tty.done}
Fails ==
  /\ pc \in {"open", "raw", "place", "viewport", "mouse", "draw", "poll", "leave"}
  /\ taken' = "error" /\ ProcessEnds /\ \E done \in Halfway : Drops(done)

Goes(from, to) == pc = from /\ pc' = to

\* Focus::case: the shell moved on or the store fails, and there is no panel.
NothingToExpand ==
  /\ pc = "focus" /\ taken' \in {"closed", "error"} /\ ProcessEnds /\ Drops(tty.done)

\* Panel::open: the section's own question, before the terminal is touched.
Open ==
  /\ Goes("focus", "open")
  /\ LET entered == Enter(panel, panel.section) IN
     /\ panel' = entered.panel
     /\ IF entered.effect \in {"explain", "fix"} THEN Spawns(entered.effect) ELSE UNCHANGED asker
  /\ UNCHANGED <<screen, tty, drawn, taken, keys, ignores>>

Sets(done, guards) ==
  tty' = [done |-> tty.done \union done, guards |-> tty.guards \union guards]
Divert ==
  /\ Goes("open", "raw")
  /\ \E moved \in SUBSET {"stdin", "stdout"} : Sets(moved, moved)
GoRaw        == Goes("raw", "place")      /\ Sets({"raw"}, {"raw"})
HideCursor   == Goes("viewport", "mouse") /\ Sets({"hidden"}, {"viewport"})
CaptureMouse == Goes("mouse", "draw")     /\ Sets({"mouse"}, {})
Prepare ==
  /\ Divert \/ GoRaw \/ HideCursor \/ CaptureMouse
  /\ UNCHANGED <<panel, screen, drawn, taken, keys, asker, ignores>>

\* The cursor's row is where the panel stands, once there is room below.
Place ==
  /\ Goes("place", "viewport")
  /\ LET height == Fitting(Height(panel), screen.rows) IN
     screen' = [screen EXCEPT !.height = height, !.top = Placed(@, height, screen.rows)]
  /\ UNCHANGED <<panel, tty, drawn, taken, keys, asker, ignores>>

\* The viewport grows with what it shows, never shrinks, and is drawn.
Draw ==
  /\ Goes("draw", "poll")
  /\ LET wanted == Fitting(Height(panel), screen.rows)
         height == AtLeast(screen.height, wanted) IN
     /\ screen' = [screen EXCEPT !.height = height,
                                 !.top = IF wanted > screen.height
                                         THEN Placed(@, height, screen.rows) ELSE @]
     /\ IF height < CHROME
        THEN UNCHANGED <<panel, drawn>>
        ELSE /\ panel' = Clamped(panel, height)
             /\ drawn' = Frame(panel', height)
  /\ UNCHANGED <<tty, taken, keys, asker, ignores>>

\* No key for fifty milliseconds: another round.
NoKey ==
  /\ Goes("poll", "draw")
  /\ UNCHANGED <<panel, screen, tty, drawn, taken, keys, asker, ignores>>

Press ==
  /\ pc = "poll" /\ keys < MaxKeys /\ keys' = keys + 1
  /\ \E pressed \in Pressed(panel) :
     LET effect == pressed.effect IN
     /\ panel' = CASE effect = "copy"   -> [pressed.panel EXCEPT !.note = "copied"]
                   [] effect = "ignore" -> [pressed.panel EXCEPT !.ignored = TRUE]
                   [] OTHER             -> pressed.panel
     /\ IF effect \in {"explain", "fix"} THEN Spawns(effect) ELSE UNCHANGED asker
     /\ ignores' = ignores + (IF effect = "ignore" THEN 1 ELSE 0)
     /\ pc' = IF effect \in {"close", "insert"} THEN "leave" ELSE "draw"
     /\ taken' = CASE effect = "close"  -> "closed"
                   [] effect = "insert" -> "inserted"
                   [] OTHER             -> taken
  /\ UNCHANGED <<screen, tty, drawn>>

\* The mouse and the cursor are given back, the bubble is printed again, the
\* guards are dropped and the process ends.
Leave ==
  /\ pc = "leave" /\ ProcessEnds /\ Drops(tty.done \ {"mouse", "hidden"})
  /\ UNCHANGED taken

Drawing ==
  \/ NothingToExpand \/ Open \/ Prepare \/ Place
  \/ Draw \/ NoKey \/ Press \/ Leave \/ Fails

Next == Drawing \/ (pc = "poll" /\ \E w \in Workers : Asker(w))

Spec == Init /\ [][Next]_vars
-----------------------------------------------------------------------------
(***************************************************************************)
(* Properties.                                                             *)
(***************************************************************************)
Threads(ask) == {w \in Workers : asker[w].at # "free" /\ asker[w].ask = ask}
Asked(ask) == Threads(ask) # {}
Working(ask) == \E w \in Threads(ask) : Live(w)
Loading(ask) == IF ask = "fix" THEN panel.fix ELSE panel.explanation

\* A question does not hang: once its threads ended
\* its section shows an answer or an error, and a section in view that shows
\* nothing is being asked about.  Every early return of a thread must send
\* something (Asker::ask), and a section must ask when it is entered.
NothingHangs ==
  pc = "poll" =>
    /\ \A ask \in {"fix", "explain"} : Asked(ask) /\ ~Working(ask) => Settled(Loading(ask))
    /\ panel.section = "why" => Settled(panel.explanation) \/ Working("explain")
    /\ panel.section = "fix" => Settled(panel.fix) \/ Working("fix")

\* What the footer said Enter will do is what it does on p: the same fix, the same
\* agent.
Keeps(footer, p) ==
  /\ footer.says = "insert" =>
       Act(p).effect = "insert" /\ Picked(Inserted(p)) = Picked(footer.line)
  /\ footer.says = "ignore" => Act(p).effect = "ignore"

\* The footer on the screen keeps its word, also when an answer arrives after it
\* was drawn, but for a fix that was asked for twice and is still looked for.
OfferHolds ==
  pc = "poll" /\ (Cardinality(Threads("fix")) <= 1 \/ ~drawn.looking) =>
    Keeps(drawn.footer, panel)

\* However the panel ends, by a key or by any call that fails, the terminal is
\* as the shell gave it: cooked, its mouse, cursor and descriptors its own.
Restored == pc = "ended" => tty = Untouched
=============================================================================
