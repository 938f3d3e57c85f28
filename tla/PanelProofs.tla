----------------------------- MODULE PanelProofs -----------------------------
(***************************************************************************)
(* Proofs about Panel, for every terminal, every list of models, every     *)
(* number of agents, threads, pieces and keys.                             *)
(***************************************************************************)
EXTENDS Panel, FiniteSetTheorems, TLAPS

(***************************************************************************)
(* What is where.                                                          *)
(***************************************************************************)
Names  == STRING \union {"rule", None}
Pieces == [by : Nat, of : Names, n : Nat]
Loadings ==
  {Idle, Failed} \union [is : {"asking", "streaming", "ready"}, of : Names, text : Seq(Pieces)]

Panels ==
  [fix : Loadings, explanation : Loadings, canAsk : BOOLEAN,
   agents : Agents, agentFocus : Nat, choices : {5}, ignoreFocus : Nat,
   ignored : BOOLEAN, section : Action, scroll : Nat,
   note : {"none", "copied", "nothing to copy"}, help : BOOLEAN]
Questions == {"fix", "explain"}
Threaded ==
  [at : {"free", "candidate", "look", "ruled", "asks", "done"}, ask : Questions,
   try : 1 .. Len(Models), said : Nat]
Viewports == [rows : Nat \ {0}, top : Nat, height : Nat]

Early  == {"focus", "open", "raw", "place"}
Stages == Early \union {"viewport", "mouse", "draw", "poll", "leave", "ended"}

TypeOK ==
  /\ pc \in Stages
  /\ panel \in Panels
  /\ screen \in Viewports
  /\ asker \in [Workers -> Threaded]

\* An index into a list stays on the list, and a row that a click can hit is
\* one of it.
FocusHolds ==
  /\ panel.agentFocus <= Sub(panel.agents, 1)
  /\ panel.ignoreFocus < panel.choices
RowsHold ==
  /\ drawn.tabs \subseteq Action
  /\ pc = "poll" => drawn.rows \subseteq 0 .. ListRows(panel) - 1

\* The viewport stands on the terminal.
OnTerminal == screen.top + screen.height <= screen.rows

\* Before a frame is drawn nothing is offered to a click, and a viewport too low
\* draws none.
BlankAtFirst ==
  /\ pc \in Early => drawn = NoFrame
  /\ screen.height < CHROME => drawn = NoFrame

Frames == TypeOK /\ FocusHolds /\ RowsHold /\ OnTerminal /\ BlankAtFirst
-----------------------------------------------------------------------------
(***************************************************************************)
(* Who is asked, and what a section shows of it.                           *)
(***************************************************************************)
\* Before the panel opens nobody was asked, and the section that is shown has an
\* answer or can ask for one.
Unopened ==
  pc = "focus" =>
    /\ \A w \in Workers : asker[w] = NoThread
    /\ \A ask \in Questions : Loading(ask) = Idle \/ Settled(Loading(ask))
    /\ panel.section \in {"why", "fix"}
    /\ panel.section = "fix" => Settled(panel.fix)

\* A section was never asked about, is being asked about, or is answered.
Told(ask) ==
  Working(ask) \/ Settled(Loading(ask)) \/ (Loading(ask) = Idle /\ ~Asked(ask))
Shows(section, ask) ==
  panel.section = section => Settled(Loading(ask)) \/ Working(ask)
Attended ==
  pc \notin {"focus", "ended"} =>
    (\A ask \in Questions : Told(ask)) /\ Shows("why", "explain") /\ Shows("fix", "fix")

\* One thread looks for a fix: what it finds is the first that is known.
Alone == \A v, w \in Threads("fix") : v = w
FirstFix == Alone /\ Working("fix") => ~KnownFix(panel)

\* A frame remembers whether a fix was looked for, and its footer keeps its word
\* while one thread looks, or none did.
Offered ==
  pc = "poll" =>
    /\ Working("fix") => drawn.looking
    /\ Alone \/ ~drawn.looking => Keeps(drawn.footer, panel)

Talk == Unopened /\ Attended /\ FirstFix
-----------------------------------------------------------------------------
(***************************************************************************)
(* The view model.                                                         *)
(***************************************************************************)
LEMMA FiveSections == Action = {"why", "fix", "agent", "ignore", "privacy"}
<1>1. DOMAIN ALL = 1 .. 5
  BY DEF ALL
<1>2. \A i \in 1 .. 5 : i = 1 \/ i = 2 \/ i = 3 \/ i = 4 \/ i = 5
  OBVIOUS
<1>3. /\ ALL[1] = "why" /\ ALL[2] = "fix" /\ ALL[3] = "agent" /\ ALL[4] = "ignore"
      /\ ALL[5] = "privacy"
  BY DEF ALL
<1> QED BY <1>1, <1>2, <1>3 DEF Action, ToSet

LEMMA LoadingKinds ==
  /\ Idle \in Loadings /\ Failed \in Loadings
  /\ \A m \in Names : Asking(m) \in Loadings
  /\ \A m \in Names, t \in Seq(Pieces) : Streaming(m, t) \in Loadings /\ Ready(m, t) \in Loadings
BY DEF Loadings, Idle, Failed, Asking, Streaming, Ready

LEMMA LoadingShape ==
  ASSUME NEW l \in Loadings
  PROVE  /\ l.is \in {"idle", "asking", "streaming", "ready", "failed"}
         /\ l.of \in Names /\ l.text \in Seq(Pieces)
         /\ l.is = "idle" => l = Idle
         /\ l.is = "streaming" => l = Streaming(l.of, l.text)
<1>1. CASE l \in {Idle, Failed}
  <2>1. << >> \in Seq(Pieces) /\ None \in Names
    BY DEF Names
  <2>2. l.of = None /\ l.text = << >> /\ l.is \in {"idle", "failed"}
    BY <1>1 DEF Idle, Failed
  <2>3. l.is = "idle" => l = Idle
    BY <1>1 DEF Failed
  <2> QED BY <2>1, <2>2, <2>3
<1>2. CASE l \in [is : {"asking", "streaming", "ready"}, of : Names, text : Seq(Pieces)]
  BY <1>2 DEF Streaming
<1> QED BY <1>1, <1>2 DEF Loadings

LEMMA Texts ==
  ASSUME NEW w \in Workers, NEW m \in Names, NEW n \in Nat
  PROVE  Piece(w, m, n) \in Pieces /\ <<Piece(w, m, n)>> \in Seq(Pieces)
BY PanelAssumption DEF PanelAssumption, Piece, Pieces, Workers

\* What no key but a choice, and no arrival, changes.
Chosen(p) == <<p.section, p.agents, p.agentFocus, p.choices, p.ignoreFocus, p.ignored>>
InFocus(p) == p.agentFocus <= Sub(p.agents, 1) /\ p.ignoreFocus < p.choices

\* What a key leaves of what the sections show, and what it asks for.
KeyDoes(p, r) ==
  /\ r.panel \in Panels /\ InFocus(r.panel)
  /\ r.panel.explanation = p.explanation
  /\ r.panel.fix = p.fix \/ (p.fix = Idle /\ r.panel.fix = Failed)
  /\ r.effect = "explain" => p.explanation = Idle
  /\ r.effect = "fix" => p.fix = Idle /\ r.panel.fix = Idle
  /\ r.panel.section = "why" =>
       p.section = "why" \/ p.explanation # Idle \/ r.effect = "explain"
  /\ r.panel.section = "fix" => p.section = "fix" \/ r.panel.fix # Idle \/ r.effect = "fix"

LEMMA StepsStay ==
  ASSUME NEW i \in Nat, NEW n \in Nat, NEW d \in {-1, 1}
  PROVE  StepTo(i, d, n) \in Nat /\ StepTo(i, d, n) <= Sub(n, 1)
<1>1. CASE n = 0
  BY <1>1 DEF StepTo, Sub
<1>2. CASE n # 0
  <2>1. i + d \in Int /\ n \in Nat /\ n > 0
    BY <1>2
  <2>2. (i + d) % n \in 0 .. n - 1
    BY <2>1
  <2> QED BY <1>2, <2>2 DEF StepTo, Sub
<1> QED BY <1>1, <1>2

\* A section that is entered and shows nothing asks.
Inquires(p, r) ==
  /\ r.panel.section = "why" => p.explanation # Idle \/ r.effect = "explain"
  /\ r.panel.section = "fix" => r.panel.fix # Idle \/ r.effect = "fix"

LEMMA Entering ==
  ASSUME NEW p \in Panels, InFocus(p), NEW a \in Action
  PROVE  KeyDoes(p, Enter(p, a)) /\ Inquires(p, Enter(p, a))
<1> DEFINE q == [p EXCEPT !.section = a, !.scroll = 0, !.note = "none"]
           f == [q EXCEPT !.fix = Failed]
<1>1. /\ q \in Panels /\ q.section = a /\ q.explanation = p.explanation /\ q.fix = p.fix
      /\ q.agents = p.agents /\ q.agentFocus = p.agentFocus /\ q.choices = p.choices
      /\ q.ignoreFocus = p.ignoreFocus
  BY DEF Panels
<1> HIDE DEF q
<1>2. /\ f \in Panels /\ f.section = a /\ f.explanation = p.explanation /\ f.fix = Failed
      /\ f.agents = p.agents /\ f.agentFocus = p.agentFocus /\ f.choices = p.choices
      /\ f.ignoreFocus = p.ignoreFocus
  BY <1>1, LoadingKinds DEF Panels
<1> HIDE DEF f
<1>3. InFocus(q) /\ InFocus(f)
  BY <1>1, <1>2 DEF InFocus
<1>4. Failed # Idle
  BY DEF Failed, Idle
<1>5. CASE a = "why" /\ p.explanation = Idle
  <2>1. Enter(p, a) = [panel |-> q, effect |-> "explain"]
    BY <1>5 DEF Enter, Then, q
  <2> QED BY <1>1, <1>3, <1>5, <2>1 DEF KeyDoes, Inquires
<1>6. CASE a = "fix" /\ p.fix = Idle /\ p.canAsk
  <2>1. Enter(p, a) = [panel |-> q, effect |-> "fix"]
    BY <1>6 DEF Enter, Then, q
  <2> QED BY <1>1, <1>3, <1>6, <2>1 DEF KeyDoes, Inquires
<1>7. CASE a = "fix" /\ p.fix = Idle /\ ~p.canAsk
  <2>1. Enter(p, a) = [panel |-> f, effect |-> "nothing"]
    BY <1>7 DEF Enter, Nothing, Then, f, q
  <2> QED BY <1>2, <1>3, <1>4, <1>7, <2>1 DEF KeyDoes, Inquires
<1>8. CASE ~(a = "why" /\ p.explanation = Idle) /\ ~(a = "fix" /\ p.fix = Idle)
  <2>1. Enter(p, a) = [panel |-> q, effect |-> "nothing"]
    BY <1>8 DEF Enter, Nothing, Then, q
  <2> QED BY <1>1, <1>3, <1>8, <2>1 DEF KeyDoes, Inquires
<1> QED BY <1>5, <1>6, <1>7, <1>8
LEMMA Neighbours ==
  ASSUME NEW p \in Panels, NEW d \in {-1, 1}
  PROVE  Neighbour(p, d) \in Action
<1> DEFINE i == CHOOSE i \in 1 .. 5 : ALL[i] = p.section
<1>1. \A n \in 1 .. 5 : ALL[n] \in Action
  <2>1. DOMAIN ALL = 1 .. 5
    BY DEF ALL
  <2> QED BY <2>1 DEF Action, ToSet
<1>2. p.section \in Action
  BY DEF Panels
<1>3. \E n \in 1 .. 5 : ALL[n] = p.section
  <2>1. DOMAIN ALL = 1 .. 5
    BY DEF ALL
  <2> QED BY <1>2, <2>1 DEF Action, ToSet
<1>4. i \in 1 .. 5
  BY <1>3
<1> HIDE DEF i
<1>5. StepTo(i - 1, d, 5) + 1 \in 1 .. 5
  <2>1. StepTo(i - 1, d, 5) \in Nat /\ StepTo(i - 1, d, 5) <= Sub(5, 1)
    <3>1. i - 1 \in Nat /\ 5 \in Nat
      BY <1>4
    <3> QED BY <3>1, StepsStay
  <2> QED BY <2>1 DEF Sub
<1>6. Neighbour(p, d) = ALL[StepTo(i - 1, d, 5) + 1]
  BY DEF Neighbour, i
<1> QED BY <1>1, <1>5, <1>6

\* A key that stays on its section and asks for nothing.
LEMMA Staying ==
  ASSUME NEW p \in Panels, NEW q \in Panels, InFocus(q),
         q.explanation = p.explanation, q.fix = p.fix, q.section = p.section,
         NEW effect, effect \notin {"explain", "fix"}
  PROVE  KeyDoes(p, Then(q, effect))
BY DEF KeyDoes, Then

LEMMA Moving ==
  ASSUME NEW p \in Panels, InFocus(p), NEW d \in {-1, 1}
  PROVE  KeyDoes(p, MoveFocus(p, d))
<1> DEFINE a == [p EXCEPT !.agentFocus = StepTo(@, d, p.agents)]
           i == [p EXCEPT !.ignoreFocus = StepTo(@, d, p.choices)]
           s == [p EXCEPT !.scroll = IF d < 0 THEN Sub(@, 1) ELSE @ + 1]
<1>0. /\ p.agents \in Nat /\ p.choices = 5 /\ p.agentFocus \in Nat /\ p.ignoreFocus \in Nat
      /\ p.scroll \in Nat
  BY PanelAssumption DEF Panels, PanelAssumption
<1>1. /\ StepTo(p.agentFocus, d, p.agents) \in Nat
      /\ StepTo(p.agentFocus, d, p.agents) <= Sub(p.agents, 1)
  BY <1>0, StepsStay
<1>2. StepTo(p.ignoreFocus, d, 5) \in Nat /\ StepTo(p.ignoreFocus, d, 5) < 5
  <2>1. StepTo(p.ignoreFocus, d, 5) \in Nat /\ StepTo(p.ignoreFocus, d, 5) <= Sub(5, 1)
    BY <1>0, StepsStay
  <2> QED BY <2>1 DEF Sub
<1>3. (IF d < 0 THEN Sub(p.scroll, 1) ELSE p.scroll + 1) \in Nat
  BY <1>0 DEF Sub
<1>4. /\ a \in Panels /\ InFocus(a) /\ a.explanation = p.explanation /\ a.fix = p.fix
      /\ a.section = p.section
  BY <1>0, <1>1 DEF Panels, InFocus
<1>5. /\ i \in Panels /\ InFocus(i) /\ i.explanation = p.explanation /\ i.fix = p.fix
      /\ i.section = p.section
  BY <1>0, <1>2 DEF Panels, InFocus
<1>6. /\ s \in Panels /\ InFocus(s) /\ s.explanation = p.explanation /\ s.fix = p.fix
      /\ s.section = p.section
  BY <1>0, <1>3 DEF Panels, InFocus
<1>7. MoveFocus(p, d) \in {Then(a, "nothing"), Then(i, "nothing"), Then(s, "nothing")}
  BY DEF MoveFocus, Nothing
<1> QED BY <1>4, <1>5, <1>6, <1>7, Staying

LEMMA Acting ==
  ASSUME NEW p \in Panels, InFocus(p)
  PROVE  KeyDoes(p, Act(p)) /\ KeyDoes(p, CopyFix(p)) /\ KeyDoes(p, Then(p, "close"))
<1> DEFINE n == [p EXCEPT !.note = "nothing to copy"]
<1>1. /\ n \in Panels /\ InFocus(n) /\ n.explanation = p.explanation /\ n.fix = p.fix
      /\ n.section = p.section
  BY DEF Panels, InFocus
<1>2. \E effect \in {"insert", "nothing", "close", "ignore"} : Act(p) = Then(p, effect)
  BY DEF Act
<1>3. CopyFix(p) = Then(p, "copy") \/ CopyFix(p) = Then(n, "nothing")
  BY DEF CopyFix, Nothing
<1>4. KeyDoes(p, Act(p))
  BY <1>2, Staying
<1>5. KeyDoes(p, CopyFix(p))
  BY <1>1, <1>3, Staying
<1> QED BY <1>4, <1>5, Staying

LEMMA Clicking ==
  ASSUME NEW p \in Panels, InFocus(p), NEW i \in 0 .. ListRows(p) - 1
  PROVE  KeyDoes(p, ClickRow(p, i))
<1> DEFINE a == [p EXCEPT !.agentFocus = i]
           g == [p EXCEPT !.ignoreFocus = i]
<1>0. p.agents \in Nat /\ p.choices = 5
  BY PanelAssumption DEF Panels, PanelAssumption
<1>1. CASE p.section = "agent"
  <2>1. i \in Nat /\ i <= Sub(p.agents, 1)
    BY <1>0, <1>1 DEF ListRows, Sub
  <2>2. /\ a \in Panels /\ InFocus(a) /\ a.explanation = p.explanation /\ a.fix = p.fix
        /\ a.section = p.section
    BY <2>1 DEF Panels, InFocus
  <2>3. ClickRow(p, i) = Then(a, "nothing")
    BY <1>1 DEF ClickRow, Nothing
  <2> QED BY <2>2, <2>3, Staying
<1>2. CASE p.section = "ignore"
  <2>1. i \in Nat /\ i < 5
    BY <1>0, <1>2 DEF ListRows
  <2>2. /\ g \in Panels /\ InFocus(g) /\ g.explanation = p.explanation /\ g.fix = p.fix
        /\ g.section = p.section
    BY <1>0, <2>1 DEF Panels, InFocus
  <2>3. ClickRow(p, i) = Then(g, "nothing")
    BY <1>2 DEF ClickRow, Nothing
  <2> QED BY <2>2, <2>3, Staying
<1>3. CASE p.section \notin {"agent", "ignore"}
  <2>1. ClickRow(p, i) = Then(p, "nothing")
    BY <1>3 DEF ClickRow, Nothing
  <2> QED BY <2>1, Staying
<1> QED BY <1>1, <1>2, <1>3

\* Every key of the panel.
LEMMA Pressing ==
  ASSUME NEW p \in Panels, InFocus(p), drawn.tabs \subseteq Action,
         drawn.rows \subseteq 0 .. ListRows(p) - 1, NEW r \in Pressed(p)
  PROVE  KeyDoes(p, r)
<1> DEFINE up == [p EXCEPT !.scroll = Sub(@, PAGE)]
           down == [p EXCEPT !.scroll = @ + PAGE]
           help == [p EXCEPT !.help = ~@]
<1>1. /\ up \in Panels /\ InFocus(up) /\ up.explanation = p.explanation /\ up.fix = p.fix
      /\ up.section = p.section
  <2>1. p.scroll \in Nat
    BY DEF Panels
  <2>2. Sub(p.scroll, PAGE) \in Nat
    BY <2>1 DEF Sub, PAGE
  <2> QED BY <2>2 DEF Panels, InFocus
<1>2. /\ down \in Panels /\ InFocus(down) /\ down.explanation = p.explanation
      /\ down.fix = p.fix /\ down.section = p.section
  <2>1. p.scroll \in Nat
    BY DEF Panels
  <2>2. p.scroll + PAGE \in Nat
    BY <2>1 DEF PAGE
  <2> QED BY <2>2 DEF Panels, InFocus
<1>3. /\ help \in Panels /\ InFocus(help) /\ help.explanation = p.explanation
      /\ help.fix = p.fix /\ help.section = p.section
  <2>1. p.help \in BOOLEAN
    BY DEF Panels
  <2>2. (~p.help) \in BOOLEAN
    BY <2>1
  <2> QED BY <2>2 DEF Panels, InFocus
<1>4. \/ \E a \in Action : r = Enter(p, a)
      \/ \E d \in {-1, 1} : r = Enter(p, Neighbour(p, d)) \/ r = MoveFocus(p, d)
      \/ r = Then(up, "nothing") \/ r = Then(down, "nothing")
      \/ r = Act(p) \/ r = CopyFix(p) \/ r = Then(p, "close") \/ r = Then(help, "nothing")
      \/ \E i \in 0 .. ListRows(p) - 1 : r = ClickRow(p, i)
      \/ r = Then(p, "nothing")
  BY DEF Pressed, Nothing
<1>5. ASSUME NEW a \in Action, r = Enter(p, a) PROVE KeyDoes(p, r)
  BY <1>5, Entering
<1>6. ASSUME NEW d \in {-1, 1}, r = Enter(p, Neighbour(p, d)) \/ r = MoveFocus(p, d)
      PROVE  KeyDoes(p, r)
  BY <1>6, Entering, Neighbours, Moving
<1>7. KeyDoes(p, Then(up, "nothing")) /\ KeyDoes(p, Then(down, "nothing"))
      /\ KeyDoes(p, Then(help, "nothing")) /\ KeyDoes(p, Then(p, "nothing"))
  BY <1>1, <1>2, <1>3, Staying
<1> QED BY <1>4, <1>5, <1>6, <1>7, Acting, Clicking
-----------------------------------------------------------------------------
(***************************************************************************)
(* The threads that ask.                                                   *)
(***************************************************************************)
LEMMA Spawned ==
  ASSUME asker \in [Workers -> Threaded], NEW ask \in Questions, Spawns(ask)
  PROVE  \E w \in Workers, t \in Threaded :
           /\ asker[w].at = "free" /\ asker' = [asker EXCEPT ![w] = t]
           /\ t.at = "candidate" /\ t.ask = ask
<1> DEFINE w == CHOOSE w \in Free : TRUE
           t == [NoThread EXCEPT !.at = "candidate", !.ask = ask]
<1>1. w \in Workers /\ asker[w].at = "free"
  BY DEF Spawns, Free
<1>2. NoThread \in Threaded
  <2>1. 1 \in 1 .. Len(Models)
    BY PanelAssumption DEF PanelAssumption
  <2> QED BY <2>1 DEF Threaded, NoThread, Questions
<1>3. t \in Threaded /\ t.at = "candidate" /\ t.ask = ask
  BY <1>2 DEF Threaded
<1>4. asker' = [asker EXCEPT ![w] = t]
  BY DEF Spawns
<1> HIDE DEF w, t
<1> QED BY <1>1, <1>3, <1>4

\* What arrives goes to its own section and leaves the rest of the panel alone.
Holds(ask, l) ==
  /\ panel' \in Panels /\ Chosen(panel') = Chosen(panel)
  /\ ask = "fix" => panel'.fix = l /\ panel'.explanation = panel.explanation
  /\ ask = "explain" => panel'.explanation = l /\ panel'.fix = panel.fix

LEMMA Put ==
  ASSUME NEW p \in Panels, NEW l \in Loadings
  PROVE  /\ [p EXCEPT !.fix = l] \in Panels
         /\ [p EXCEPT !.fix = l].fix = l
         /\ [p EXCEPT !.fix = l].explanation = p.explanation
         /\ Chosen([p EXCEPT !.fix = l]) = Chosen(p)
         /\ [p EXCEPT !.explanation = l] \in Panels
         /\ [p EXCEPT !.explanation = l].explanation = l
         /\ [p EXCEPT !.explanation = l].fix = p.fix
         /\ Chosen([p EXCEPT !.explanation = l]) = Chosen(p)
BY DEF Panels, Chosen

LEMMA AskingHeld ==
  ASSUME TypeOK, NEW w \in Workers, NEW m \in Names, Send("asking", w, Asking(m))
  PROVE  Holds(asker[w].ask, Asking(m))
<1>1. panel \in Panels /\ asker[w].ask \in Questions /\ Asking(m) \in Loadings
  BY LoadingKinds DEF TypeOK, Threaded
<1>2. Asking(Asking(m).of) = Asking(m)
  BY DEF Asking
<1>3. panel' = IF asker[w].ask = "fix" THEN [panel EXCEPT !.fix = Asking(m)]
               ELSE [panel EXCEPT !.explanation = Asking(m)]
  BY <1>1, <1>2 DEF Send, Receive, Arrival, Questions
<1> QED BY <1>1, <1>3, Put DEF Holds, Questions

LEMMA AnswerHeld ==
  ASSUME TypeOK, NEW w \in Workers, NEW l \in Loadings, Send("answer", w, l)
  PROVE  Holds(asker[w].ask, l)
<1>1. panel \in Panels /\ asker[w].ask \in Questions
  BY DEF TypeOK, Threaded
<1>2. panel' = IF asker[w].ask = "fix" THEN [panel EXCEPT !.fix = l]
               ELSE [panel EXCEPT !.explanation = l]
  BY <1>1 DEF Send, Receive, Arrival, Questions
<1> QED BY <1>1, <1>2, Put DEF Holds, Questions

LEMMA ChunkHeld ==
  ASSUME TypeOK, NEW w \in Workers, asker[w].ask = "explain", NEW m \in Names,
         NEW piece \in Pieces, Send("chunk", w, Streaming(m, <<piece>>))
  PROVE  \E l \in Loadings : l.is \in {"streaming", "ready"} /\ Holds("explain", l)
<1> DEFINE l == Appended(panel.explanation, m, piece)
<1>1. panel \in Panels /\ panel.explanation \in Loadings
  BY DEF TypeOK, Panels
<1>2. l \in Loadings /\ l.is \in {"streaming", "ready"}
  <2>1. panel.explanation.text \in Seq(Pieces)
    BY <1>1, LoadingShape
  <2>2. Append(panel.explanation.text, piece) \in Seq(Pieces) /\ <<piece>> \in Seq(Pieces)
    BY <2>1
  <2>3. l \in {panel.explanation, Streaming(m, Append(panel.explanation.text, piece)),
               Streaming(m, <<piece>>)}
        /\ (l = panel.explanation => panel.explanation.is \in {"streaming", "ready"})
    BY DEF Appended, Streaming
  <2>4. \A t \in Seq(Pieces) : Streaming(m, t) \in Loadings /\ Streaming(m, t).is = "streaming"
    BY LoadingKinds DEF Streaming
  <2> QED BY <1>1, <2>2, <2>3, <2>4
<1>3. panel' = [panel EXCEPT !.explanation = l]
  <2>1. Streaming(m, <<piece>>).of = m /\ Streaming(m, <<piece>>).text[1] = piece
    BY DEF Streaming
  <2> QED BY <2>1 DEF Send, Receive, Arrival
<1> HIDE DEF l
<1> QED BY <1>1, <1>2, <1>3, Put DEF Holds

\* What a step of a thread does to its section and to itself.
AskerDoes(w) ==
  /\ asker[w].at \notin {"free", "done"}
  /\ \E t \in Threaded : /\ asker' = [asker EXCEPT ![w] = t]
                         /\ t.ask = asker[w].ask /\ t.at # "free"
  /\ \/ panel' = panel /\ asker'[w].at # "done"
     \/ \E l \in Loadings :
          /\ Holds(asker[w].ask, l) /\ l.is # "idle"
          /\ asker'[w].at = "done" => Settled(l)
          /\ asker'[w].at # "done" /\ asker[w].ask = "fix" => l.is = "asking"

LEMMA Thread ==
  ASSUME TypeOK, NEW w \in Workers, NEW step \in {"look", "ruled", "asks", "done"}, GoTo(w, step)
  PROVE  \E t \in Threaded : /\ asker' = [asker EXCEPT ![w] = t]
                             /\ t.ask = asker[w].ask /\ t.at = step
<1> DEFINE t == [asker[w] EXCEPT !.at = step]
<1>1. asker[w] \in Threaded
  BY DEF TypeOK
<1>2. t \in Threaded /\ t.ask = asker[w].ask /\ t.at = step
  BY <1>1 DEF Threaded
<1>3. asker' = [asker EXCEPT ![w] = t]
  BY DEF GoTo
<1> QED BY <1>2, <1>3

\* A thread that ends has answered.
LEMMA Ending ==
  ASSUME TypeOK, NEW w \in Workers, asker[w].at \notin {"free", "done"},
         NEW l \in Loadings, Settled(l), Ends(w, l)
  PROVE  AskerDoes(w)
<1>1. Holds(asker[w].ask, l)
  BY AnswerHeld DEF Ends
<1>2. PICK t \in Threaded : /\ asker' = [asker EXCEPT ![w] = t]
                            /\ t.ask = asker[w].ask /\ t.at = "done"
  BY Thread DEF Ends
<1>3. asker'[w].at = "done"
  BY <1>2 DEF TypeOK
<1> QED BY <1>1, <1>2, <1>3 DEF AskerDoes, Settled

\* One that goes on has shown nothing yet, or that it asks.
LEMMA GoesOn ==
  ASSUME TypeOK, NEW w \in Workers, asker[w].at \notin {"free", "done"},
         NEW t \in Threaded, asker' = [asker EXCEPT ![w] = t], t.ask = asker[w].ask,
         t.at \notin {"free", "done"},
         \/ panel' = panel
         \/ \E l \in Loadings : /\ Holds(asker[w].ask, l) /\ l.is # "idle"
                                /\ asker[w].ask = "fix" => l.is = "asking"
  PROVE  AskerDoes(w)
<1>1. asker'[w].at # "done"
  BY DEF TypeOK
<1> QED BY <1>1 DEF AskerDoes
LEMMA ModelNames ==
  /\ "rule" \in Names /\ None \in Names
  /\ \A i \in 1 .. Len(Models) : Models[i] \in Names
<1>1. Models \in Seq(STRING)
  BY PanelAssumption DEF PanelAssumption
<1>2. \A i \in 1 .. Len(Models) : Models[i] \in STRING
  BY <1>1
<1> QED BY <1>2 DEF Names

\* Each step of a thread.
LEMMA AskerMoves ==
  ASSUME TypeOK, NEW w \in Workers, Asker(w)
  PROVE  AskerDoes(w)
<1> DEFINE t == asker[w]  m == Models[asker[w].try]
<1>0. /\ t \in Threaded /\ t.ask \in Questions /\ t.try \in 1 .. Len(Models) /\ t.said \in Nat
      /\ m \in Names
  BY ModelNames DEF TypeOK, Threaded
<1>1. CASE Candidate(w)
  <2>0. t.at = "candidate"
    BY <1>1 DEF Candidate
  <2>1. CASE /\ \E n \in {Models[1]} \union (IF t.ask = "explain" THEN {"rule"} ELSE {}) :
                  Send("asking", w, Asking(n))
             /\ GoTo(w, "look")
    <3>1. 1 \in 1 .. Len(Models)
      BY PanelAssumption DEF PanelAssumption
    <3>2. PICK n \in Names : Send("asking", w, Asking(n))
      BY <2>1, <3>1, ModelNames
    <3>3. Holds(t.ask, Asking(n)) /\ Asking(n) \in Loadings /\ Asking(n).is = "asking"
      BY <3>2, AskingHeld, LoadingKinds DEF Asking
    <3> QED BY <2>0, <2>1, <3>3, Thread, GoesOn
  <2>2. CASE t.ask = "explain" /\ Ends(w, Failed)
    BY <2>0, <2>2, LoadingKinds, Ending DEF Settled, Failed
  <2>3. CASE GoTo(w, "look") /\ UNCHANGED panel
    BY <2>0, <2>3, Thread, GoesOn
  <2> QED BY <1>1, <2>1, <2>2, <2>3 DEF Candidate
<1>2. CASE RuleKnows(w)
  <2>0. t.at = "look"
    BY <1>2 DEF RuleKnows
  <2>1. CASE t.ask = "explain"
    <3>1. Piece(w, "rule", 1) \in Pieces
      BY Texts, ModelNames
    <3>2. Send("chunk", w, Streaming("rule", <<Piece(w, "rule", 1)>>)) /\ GoTo(w, "ruled")
      BY <1>2, <2>1 DEF RuleKnows, Whole
    <3>3. \E l \in Loadings : l.is \in {"streaming", "ready"} /\ Holds("explain", l)
      BY <2>1, <3>1, <3>2, ModelNames, ChunkHeld
    <3> QED BY <2>0, <2>1, <3>2, <3>3, Thread, GoesOn
  <2>2. CASE t.ask # "explain"
    <3>1. <<Piece(w, "rule", 1)>> \in Seq(Pieces)
      BY Texts, ModelNames
    <3>2. Ready("rule", Whole(w, "rule")) \in Loadings /\ Settled(Ready("rule", Whole(w, "rule")))
      BY <3>1, ModelNames, LoadingKinds DEF Whole, Settled, Ready
    <3> QED BY <1>2, <2>0, <2>2, <3>2, Ending DEF RuleKnows
  <2> QED BY <2>1, <2>2
<1>3. CASE Ruled(w)
  <2>1. <<Piece(w, "rule", 1)>> \in Seq(Pieces)
    BY Texts, ModelNames
  <2>2. Ready("rule", Whole(w, "rule")) \in Loadings /\ Settled(Ready("rule", Whole(w, "rule")))
    BY <2>1, ModelNames, LoadingKinds DEF Whole, Settled, Ready
  <2> QED BY <1>3, <2>2, Ending DEF Ruled
<1>4. CASE NobodyToAsk(w)
  <2>1. << >> \in Seq(Pieces)
    OBVIOUS
  <2>2. Ready(None, << >>) \in Loadings /\ Settled(Ready(None, << >>))
    BY <2>1, ModelNames, LoadingKinds DEF Settled, Ready
  <2>3. Failed \in Loadings /\ Settled(Failed)
    BY LoadingKinds DEF Settled, Failed
  <2> QED BY <1>4, <2>2, <2>3, Ending DEF NobodyToAsk
<1>5. CASE Ask(w)
  BY <1>5, Thread, GoesOn DEF Ask
<1>6. CASE Speaks(w)
  <2> DEFINE u == [t EXCEPT !.said = @ + 1]
  <2>0. t.at = "asks" /\ t.ask = "explain"
    BY <1>6 DEF Speaks
  <2>1. u \in Threaded /\ u.ask = t.ask /\ u.at = t.at
    <3>1. t.said + 1 \in Nat
      BY <1>0
    <3> QED BY <1>0, <3>1 DEF Threaded
  <2>2. asker' = [asker EXCEPT ![w] = u]
    BY <1>6 DEF Speaks
  <2>3. t.said + 1 \in Nat
    BY <1>0
  <2>4. Piece(w, m, t.said + 1) \in Pieces
    BY <1>0, <2>3, Texts
  <2>5. Send("chunk", w, Streaming(m, <<Piece(w, m, t.said + 1)>>))
    BY <1>6 DEF Speaks
  <2> HIDE DEF u
  <2>6. \E l \in Loadings : l.is \in {"streaming", "ready"} /\ Holds("explain", l)
    BY <1>0, <2>0, <2>4, <2>5, ChunkHeld
  <2> QED BY <2>0, <2>1, <2>2, <2>6, GoesOn
<1>7. CASE TriesNext(w)
  <2> DEFINE u == [t EXCEPT !.try = @ + 1, !.said = 0]
  <2>1. u \in Threaded /\ u.ask = t.ask /\ u.at = t.at
    <3>1. t.try + 1 \in 1 .. Len(Models)
      BY <1>0, <1>7, PanelAssumption DEF TriesNext, PanelAssumption
    <3> QED BY <1>0, <3>1 DEF Threaded
  <2>2. asker' = [asker EXCEPT ![w] = u]
    BY <1>7 DEF TriesNext
  <2> HIDE DEF u
  <2> QED BY <1>7, <2>1, <2>2, GoesOn DEF TriesNext
<1>8. CASE Answers(w)
  <2>0. t.at = "asks"
    BY <1>8 DEF Answers
  <2>1. HeardOf(w) \in Loadings /\ Settled(HeardOf(w))
    <3> DEFINE text == [n \in 1 .. t.said |-> Piece(w, m, n)]
    <3>1. \A n \in 1 .. t.said : Piece(w, m, n) \in Pieces
      BY <1>0, Texts
    <3>2. text \in Seq(Pieces)
      BY <1>0, <3>1
    <3>3. HeardOf(w) = Ready(m, text)
      BY DEF HeardOf
    <3> HIDE DEF text
    <3> QED BY <1>0, <3>2, <3>3, LoadingKinds DEF Settled, Ready
  <2>2. \A s \in {<< >>, Whole(w, m)} : Ready(m, s) \in Loadings /\ Settled(Ready(m, s))
    <3>1. << >> \in Seq(Pieces) /\ Whole(w, m) \in Seq(Pieces)
      BY <1>0, Texts DEF Whole
    <3> QED BY <1>0, <3>1, LoadingKinds DEF Settled, Ready
  <2>3. Failed \in Loadings /\ Settled(Failed)
    BY LoadingKinds DEF Settled, Failed
  <2>4. CASE Ends(w, HeardOf(w))
    BY <2>0, <2>1, <2>4, Ending
  <2>5. CASE \E s \in {<< >>, Whole(w, m)} : Ends(w, Ready(m, s))
    BY <2>0, <2>2, <2>5, Ending
  <2>6. CASE Ends(w, Failed)
    BY <2>0, <2>3, <2>6, Ending
  <2> QED BY <1>8, <2>4, <2>5, <2>6 DEF Answers
<1> QED BY <1>1, <1>2, <1>3, <1>4, <1>5, <1>6, <1>7, <1>8 DEF Asker
-----------------------------------------------------------------------------
(***************************************************************************)
(* The drawing thread.                                                     *)
(***************************************************************************)
LEMMA Rows ==
  ASSUME NEW p \in Panels
  PROVE  ContentRows(p) \in Nat /\ Height(p) \in Nat
<1>1. /\ p.fix \in Loadings /\ p.explanation \in Loadings /\ p.agents \in Nat /\ p.choices = 5
      /\ p.section \in {"why", "fix", "agent", "ignore", "privacy"}
  BY FiveSections, PanelAssumption DEF Panels, PanelAssumption
<1>2. PieceRows \in Nat /\ PrivacyRows \in Nat
  BY PanelAssumption DEF PanelAssumption
<1>3. WhyRows(p.explanation) \in Nat
  <2>1. /\ Len(p.explanation.text) \in Nat
        /\ p.explanation.is \in {"idle", "asking", "streaming", "ready", "failed"}
    BY <1>1, LoadingShape
  <2>2. PieceRows * Len(p.explanation.text) \in Nat
    BY <1>2, <2>1
  <2>3. PieceRows * Len(p.explanation.text) + 1 \in Nat
    BY <2>2
  <2> QED BY <2>1, <2>3 DEF WhyRows
<1>4. FixRows(p.fix) \in Nat
  BY <1>2 DEF FixRows
<1>5. ContentRows(p) \in Nat
  BY <1>1, <1>2, <1>3, <1>4 DEF ContentRows
<1>6. Height(p) \in Nat
  BY <1>5 DEF Height, AtLeast, AtMost, CHROME, MIN_HEIGHT, MAX_HEIGHT, ASKING_ROOM
<1> QED BY <1>5, <1>6

LEMMA Fits ==
  ASSUME NEW wanted \in Nat, NEW rows \in Nat \ {0}
  PROVE  Fitting(wanted, rows) \in 1 .. rows
BY DEF Fitting, AtLeast, AtMost, Sub

LEMMA Places ==
  ASSUME NEW top \in Nat, NEW rows \in Nat, NEW height \in Nat, height <= rows
  PROVE  Placed(top, height, rows) \in Nat /\ Placed(top, height, rows) + height <= rows
BY DEF Placed, Sub

\* What each step does to the viewport.
LEMMA Placing ==
  ASSUME TypeOK, OnTerminal, Place
  PROVE  /\ pc = "place" /\ pc' = "viewport"
         /\ screen' \in Viewports /\ OnTerminal'
         /\ UNCHANGED <<panel, tty, drawn, asker>>
<1> DEFINE height == Fitting(Height(panel), screen.rows)
           top == Placed(screen.top, height, screen.rows)
<1>1. screen \in Viewports /\ Height(panel) \in Nat
  BY Rows DEF TypeOK
<1>2. screen.rows \in Nat \ {0} /\ screen.top \in Nat
  BY <1>1 DEF Viewports
<1>3. height \in Nat /\ height <= screen.rows
  BY <1>1, <1>2, Fits
<1>4. top \in Nat /\ top + height <= screen.rows
  BY <1>2, <1>3, Places
<1>5. screen' = [screen EXCEPT !.height = height, !.top = top]
  BY DEF Place
<1> HIDE DEF height, top
<1>6. /\ screen' \in Viewports /\ screen'.rows = screen.rows
      /\ screen'.top = top /\ screen'.height = height
  BY <1>1, <1>3, <1>4, <1>5 DEF Viewports
<1>7. OnTerminal'
  BY <1>4, <1>6 DEF OnTerminal
<1> QED BY <1>6, <1>7 DEF Place, Goes

LEMMA Clamping ==
  ASSUME NEW p \in Panels, NEW height \in Nat, CHROME <= height
  PROVE  /\ Clamped(p, height) \in Panels /\ Chosen(Clamped(p, height)) = Chosen(p)
         /\ Clamped(p, height).fix = p.fix
         /\ Clamped(p, height).explanation = p.explanation
<1> DEFINE scroll == AtMost(p.scroll, Sub(ContentRows(p), height - CHROME))
<1>1. scroll \in Nat
  <2>1. p.scroll \in Nat /\ ContentRows(p) \in Nat /\ height - CHROME \in Nat
    <3>1. ContentRows(p) \in Nat
      BY Rows
    <3>2. height - CHROME \in Nat
      BY DEF CHROME
    <3> QED BY <3>1, <3>2 DEF Panels
  <2> QED BY <2>1 DEF AtMost, Sub
<1>2. Clamped(p, height) = [p EXCEPT !.scroll = scroll]
  BY DEF Clamped
<1> HIDE DEF scroll
<1> QED BY <1>1, <1>2 DEF Panels, Chosen

LEMMA Drawn ==
  ASSUME TypeOK, OnTerminal, BlankAtFirst, Draw
  PROVE  /\ pc = "draw" /\ pc' = "poll"
         /\ screen' \in Viewports /\ OnTerminal'
         /\ panel' \in Panels /\ Chosen(panel') = Chosen(panel)
         /\ panel'.fix = panel.fix /\ panel'.explanation = panel.explanation
         /\ screen'.height < CHROME => screen.height < CHROME
         /\ \/ drawn' = NoFrame /\ screen'.height < CHROME
            \/ drawn' = Frame(panel', screen'.height) /\ CHROME <= screen'.height
         /\ UNCHANGED asker
<1> DEFINE wanted == Fitting(Height(panel), screen.rows)
           height == AtLeast(screen.height, wanted)
           top == IF wanted > screen.height THEN Placed(screen.top, height, screen.rows)
                  ELSE screen.top
<1>1. screen \in Viewports /\ panel \in Panels /\ Height(panel) \in Nat
  BY Rows DEF TypeOK
<1>2. /\ screen.rows \in Nat \ {0} /\ screen.top \in Nat /\ screen.height \in Nat
      /\ screen.top + screen.height <= screen.rows
  BY <1>1 DEF Viewports, OnTerminal
<1>3. wanted \in Nat /\ wanted <= screen.rows
  BY <1>1, <1>2, Fits
<1> HIDE DEF wanted
<1>4. height \in Nat /\ screen.height <= height /\ height <= screen.rows
  BY <1>2, <1>3 DEF AtLeast
<1>5. top \in Nat /\ top + height <= screen.rows
  <2>1. CASE wanted > screen.height
    <3>1. /\ Placed(screen.top, height, screen.rows) \in Nat
          /\ Placed(screen.top, height, screen.rows) + height <= screen.rows
      BY <1>2, <1>4, Places
    <3> QED BY <2>1, <3>1
  <2>2. CASE ~(wanted > screen.height)
    BY <1>2, <1>3, <2>2 DEF AtLeast
  <2> QED BY <2>1, <2>2
<1>6. screen' = [screen EXCEPT !.height = height, !.top = top]
  BY DEF Draw, wanted
<1>7. IF height < CHROME THEN UNCHANGED <<panel, drawn>>
      ELSE panel' = Clamped(panel, height) /\ drawn' = Frame(panel', height)
  BY DEF Draw, wanted
<1> HIDE DEF height, top
<1>8. /\ screen' \in Viewports /\ screen'.rows = screen.rows
      /\ screen'.top = top /\ screen'.height = height
  BY <1>1, <1>4, <1>5, <1>6 DEF Viewports
<1>9. OnTerminal'
  BY <1>5, <1>8 DEF OnTerminal
<1>10. screen'.height < CHROME => screen.height < CHROME
  BY <1>2, <1>4, <1>8 DEF CHROME
<1>11. CASE height < CHROME
  <2>1. drawn' = NoFrame
    BY <1>7, <1>8, <1>10, <1>11 DEF BlankAtFirst
  <2> QED BY <1>1, <1>7, <1>8, <1>9, <1>10, <1>11, <2>1 DEF Draw, Goes
<1>12. CASE ~(height < CHROME)
  <2>1. CHROME <= height
    BY <1>4, <1>12 DEF CHROME
  <2>2. /\ panel' \in Panels /\ Chosen(panel') = Chosen(panel)
        /\ panel'.fix = panel.fix /\ panel'.explanation = panel.explanation
    BY <1>1, <1>4, <1>7, <1>12, <2>1, Clamping
  <2> QED BY <1>7, <1>8, <1>9, <1>10, <1>12, <2>1, <2>2 DEF Draw, Goes
<1> QED BY <1>11, <1>12
LEMMA KeyPressed ==
  ASSUME TypeOK, FocusHolds, RowsHold, Press
  PROVE  \E r : /\ KeyDoes(panel, r) /\ panel' \in Panels /\ InFocus(panel')
                /\ panel'.fix = r.panel.fix /\ panel'.explanation = r.panel.explanation
                /\ panel'.section = r.panel.section
                /\ r.effect = "explain" => Spawns("explain")
                /\ r.effect = "fix" => Spawns("fix")
                /\ r.effect \notin {"explain", "fix"} => UNCHANGED asker
<1>1. PICK r \in Pressed(panel) :
        /\ panel' = CASE r.effect = "copy"   -> [r.panel EXCEPT !.note = "copied"]
                      [] r.effect = "ignore" -> [r.panel EXCEPT !.ignored = TRUE]
                      [] OTHER               -> r.panel
        /\ IF r.effect \in {"explain", "fix"} THEN Spawns(r.effect) ELSE UNCHANGED asker
  BY DEF Press
<1>2. pc = "poll" /\ panel \in Panels
  BY DEF Press, TypeOK
<1>3. KeyDoes(panel, r)
  BY <1>2, Pressing DEF FocusHolds, InFocus, RowsHold
<1>4. r.panel \in Panels /\ InFocus(r.panel)
  BY <1>3 DEF KeyDoes
<1> DEFINE c == [r.panel EXCEPT !.note = "copied"]
           i == [r.panel EXCEPT !.ignored = TRUE]
<1>5. /\ c \in Panels /\ InFocus(c) /\ c.fix = r.panel.fix
      /\ c.explanation = r.panel.explanation /\ c.section = r.panel.section
  BY <1>4 DEF Panels, InFocus
<1>6. /\ i \in Panels /\ InFocus(i) /\ i.fix = r.panel.fix
      /\ i.explanation = r.panel.explanation /\ i.section = r.panel.section
  BY <1>4 DEF Panels, InFocus
<1>7. panel' = c \/ panel' = i \/ panel' = r.panel
  BY <1>1
<1> HIDE DEF c, i
<1>8. /\ panel' \in Panels /\ InFocus(panel') /\ panel'.fix = r.panel.fix
      /\ panel'.explanation = r.panel.explanation /\ panel'.section = r.panel.section
  BY <1>4, <1>5, <1>6, <1>7
<1> QED BY <1>1, <1>3, <1>8

LEMMA PanelOpened ==
  ASSUME TypeOK, FocusHolds, Open
  PROVE  /\ pc = "focus" /\ pc' = "open" /\ UNCHANGED <<screen, tty, drawn>>
         /\ \E r : /\ KeyDoes(panel, r) /\ Inquires(panel, r) /\ panel' = r.panel
                   /\ r.effect = "explain" => Spawns("explain")
                   /\ r.effect = "fix" => Spawns("fix")
                   /\ r.effect \notin {"explain", "fix"} => UNCHANGED asker
<1>1. panel \in Panels /\ panel.section \in Action
  BY DEF TypeOK, Panels
<1>2. /\ KeyDoes(panel, Enter(panel, panel.section))
      /\ Inquires(panel, Enter(panel, panel.section))
  BY <1>1, Entering DEF FocusHolds, InFocus
<1> QED BY <1>2 DEF Open, Goes

\* A question leaves every thread as it was, but one that was free.
LEMMA SpawnTypes ==
  ASSUME TypeOK, NEW ask \in Questions, Spawns(ask)
  PROVE  asker' \in [Workers -> Threaded]
BY Spawned DEF TypeOK

(***************************************************************************)
(* Types, focus, clicks and the viewport.                                  *)
(***************************************************************************)
LEMMA Starts ==
  ASSUME Init
  PROVE  Frames
<1>1. PICK fix \in {Idle, Ready("rule", Whole(0, "rule"))},
           explanation \in {Idle, Ready("rule", Whole(0, "rule"))},
           canAsk \in BOOLEAN, agents \in Agents :
        panel = Opened(fix, explanation, canAsk, agents, Sub(agents, 1))
  BY DEF Init, NewPanels
<1>0. agents \in Nat /\ Sub(agents, 1) \in Nat
  BY PanelAssumption DEF PanelAssumption, Sub
<1>2. fix \in Loadings /\ explanation \in Loadings
  <2>1. Piece(0, "rule", 1) \in Pieces
    BY ModelNames DEF Piece, Pieces
  <2>2. Whole(0, "rule") \in Seq(Pieces)
    BY <2>1 DEF Whole
  <2> QED BY <2>2, LoadingKinds, ModelNames
<1>3. panel \in Panels
  BY <1>0, <1>1, <1>2, FiveSections DEF Opened, Panels
<1>4. FocusHolds
  BY <1>0, <1>1 DEF Opened, FocusHolds
<1>5. screen \in Viewports /\ OnTerminal
  <2>1. PICK s \in Screens : screen = [rows |-> s.rows, top |-> s.top, height |-> 0]
    BY DEF Init
  <2>2. s.rows \in Nat \ {0} /\ s.top \in 0 .. s.rows - 1
    BY PanelAssumption DEF PanelAssumption
  <2> QED BY <2>1, <2>2 DEF Viewports, OnTerminal
<1>6. asker \in [Workers -> Threaded]
  <2>1. 1 \in 1 .. Len(Models)
    BY PanelAssumption DEF PanelAssumption
  <2>2. NoThread \in Threaded
    BY <2>1 DEF Threaded, NoThread, Questions
  <2> QED BY <2>2 DEF Init
<1>7. pc = "focus" /\ drawn = NoFrame
  BY DEF Init
<1> QED BY <1>3, <1>4, <1>5, <1>6, <1>7
        DEF Frames, TypeOK, Stages, Early, RowsHold, BlankAtFirst, NoFrame


LEMMA ProcessEnded ==
  ASSUME Frames, ProcessEnds
  PROVE  Frames'
<1>1. 1 \in 1 .. Len(Models)
  BY PanelAssumption DEF PanelAssumption
<1>2. NoThread \in Threaded
  BY <1>1 DEF Threaded, NoThread, Questions
<1>3. asker' \in [Workers -> Threaded]
  BY <1>2 DEF ProcessEnds
<1> QED BY <1>3 DEF ProcessEnds, Frames, TypeOK, Stages, Early, FocusHolds, RowsHold,
                    OnTerminal, BlankAtFirst

LEMMA FramesKeep ==
  ASSUME Frames, [Next]_vars
  PROVE  Frames'
<1> USE DEF Frames
<1>1. CASE UNCHANGED vars
  BY <1>1 DEF vars, TypeOK, FocusHolds, RowsHold, OnTerminal, BlankAtFirst, ListRows
<1>2. CASE NothingToExpand \/ Leave \/ Fails
  BY <1>2, ProcessEnded DEF NothingToExpand, Leave, Fails
<1>3. CASE Open
  <2>1. PICK r : /\ KeyDoes(panel, r) /\ panel' = r.panel
                 /\ r.effect = "explain" => Spawns("explain")
                 /\ r.effect = "fix" => Spawns("fix")
                 /\ r.effect \notin {"explain", "fix"} => UNCHANGED asker
    BY <1>3, PanelOpened
  <2>2. panel' \in Panels /\ InFocus(panel')
    BY <2>1 DEF KeyDoes
  <2>3. asker' \in [Workers -> Threaded]
    BY <2>1, SpawnTypes DEF Questions, TypeOK
  <2>4. pc = "focus" /\ pc' = "open" /\ UNCHANGED <<screen, tty, drawn>>
    BY <1>3, PanelOpened
  <2> QED BY <2>2, <2>3, <2>4 DEF TypeOK, Stages, Early, FocusHolds, InFocus, RowsHold,
                                  OnTerminal, BlankAtFirst
<1>4. CASE Prepare
  <2>1. /\ pc' \in Stages /\ pc' # "poll" /\ (pc' \in Early => pc \in Early)
        /\ UNCHANGED <<panel, screen, drawn, asker>>
    BY <1>4 DEF Prepare, Divert, GoRaw, HideCursor, CaptureMouse, Goes, Stages, Early
  <2> QED BY <2>1 DEF TypeOK, FocusHolds, RowsHold, OnTerminal, BlankAtFirst
<1>5. CASE Place
  <2>1. /\ pc = "place" /\ pc' = "viewport" /\ screen' \in Viewports /\ OnTerminal'
        /\ UNCHANGED <<panel, tty, drawn, asker>>
    BY <1>5, Placing
  <2> QED BY <2>1 DEF TypeOK, Stages, Early, FocusHolds, RowsHold, BlankAtFirst
<1>6. CASE Draw
  <2>1. /\ pc = "draw" /\ pc' = "poll" /\ screen' \in Viewports /\ OnTerminal'
        /\ panel' \in Panels /\ Chosen(panel') = Chosen(panel) /\ UNCHANGED asker
        /\ \/ drawn' = NoFrame /\ screen'.height < CHROME
           \/ drawn' = Frame(panel', screen'.height) /\ CHROME <= screen'.height
    BY <1>6, Drawn
  <2>2. TypeOK'
    BY <2>1 DEF TypeOK, Stages
  <2>3. FocusHolds'
    BY <2>1 DEF FocusHolds, Chosen
  <2>4. drawn'.tabs \subseteq Action /\ drawn'.rows \subseteq 0 .. ListRows(panel') - 1
    BY <2>1 DEF Frame, NoFrame
  <2>5. BlankAtFirst'
    <3>1. screen'.height \in Nat
      BY <2>1 DEF Viewports
    <3> QED BY <2>1, <3>1 DEF BlankAtFirst, Early, CHROME
  <2> QED BY <2>1, <2>2, <2>3, <2>4, <2>5 DEF RowsHold
<1>7. CASE NoKey
  BY <1>7 DEF NoKey, Goes, TypeOK, Stages, Early, FocusHolds, RowsHold, OnTerminal, BlankAtFirst
<1>8. CASE Press
  <2>1. PICK r : /\ KeyDoes(panel, r) /\ panel' \in Panels /\ InFocus(panel')
                 /\ r.effect = "explain" => Spawns("explain")
                 /\ r.effect = "fix" => Spawns("fix")
                 /\ r.effect \notin {"explain", "fix"} => UNCHANGED asker
    BY <1>8, KeyPressed
  <2>2. asker' \in [Workers -> Threaded]
    BY <2>1, SpawnTypes DEF Questions, TypeOK
  <2>3. pc' \in {"leave", "draw"} /\ UNCHANGED <<screen, drawn>>
    BY <1>8 DEF Press
  <2> QED BY <2>1, <2>2, <2>3 DEF TypeOK, Stages, Early, FocusHolds, InFocus, RowsHold,
                                  OnTerminal, BlankAtFirst
<1>9. ASSUME pc = "poll", NEW w \in Workers, Asker(w) PROVE Frames'
  <2>1. AskerDoes(w)
    BY <1>9, AskerMoves
  <2>2. UNCHANGED <<pc, screen, drawn>>
    BY <1>9 DEF Asker, Candidate, RuleKnows, Ruled, NobodyToAsk, Ask, Speaks, TriesNext,
                Answers, OnlyThreads
  <2>3. panel' \in Panels /\ Chosen(panel') = Chosen(panel)
    BY <2>1 DEF AskerDoes, Holds, TypeOK
  <2>4. asker' \in [Workers -> Threaded]
    BY <2>1 DEF AskerDoes, TypeOK
  <2>5. ListRows(panel') = ListRows(panel)
    BY <2>3 DEF ListRows, Chosen
  <2> QED BY <2>2, <2>3, <2>4, <2>5
          DEF TypeOK, FocusHolds, Chosen, RowsHold, OnTerminal, BlankAtFirst
<1> QED BY <1>1, <1>2, <1>3, <1>4, <1>5, <1>6, <1>7, <1>8, <1>9 DEF Next, Drawing
-----------------------------------------------------------------------------
(***************************************************************************)
(* Questions and answers.                                                  *)
(***************************************************************************)
\* A question that is put leaves the threads of the other one as they are.
LEMMA Questioned ==
  ASSUME TypeOK, NEW ask \in Questions, Spawns(ask)
  PROVE  /\ Working(ask)'
         /\ \A other \in Questions \ {ask} :
              /\ Threads(other)' = Threads(other)
              /\ Working(other)' <=> Working(other)
<1>1. PICK w \in Workers, t \in Threaded :
        /\ asker[w].at = "free" /\ asker' = [asker EXCEPT ![w] = t]
        /\ t.at = "candidate" /\ t.ask = ask
  BY Spawned DEF TypeOK
<1>2. /\ asker'[w] = t
      /\ \A v \in Workers \ {w} : asker'[v] = asker[v]
  BY <1>1 DEF TypeOK
<1>3. Working(ask)'
  BY <1>1, <1>2 DEF Working, Threads, Live
<1>4. ASSUME NEW other \in Questions \ {ask}
      PROVE  Threads(other)' = Threads(other) /\ (Working(other)' <=> Working(other))
  <2>1. w \notin Threads(other) /\ w \notin Threads(other)'
    BY <1>1, <1>2, <1>4 DEF Threads
  <2>2. Threads(other)' = Threads(other)
    BY <1>2, <2>1 DEF Threads
  <2>3. \A v \in Threads(other) : asker'[v] = asker[v]
    BY <1>2, <2>1 DEF Threads
  <2>4. Working(other)' <=> Working(other)
    BY <2>2, <2>3 DEF Working, Live
  <2> QED BY <2>2, <2>4
<1> QED BY <1>3, <1>4

\* A key: what it asks for is being asked about, what was stays so.
Puts(r) ==
  /\ KeyDoes(panel, r)
  /\ panel'.fix = r.panel.fix /\ panel'.explanation = r.panel.explanation
  /\ panel'.section = r.panel.section
  /\ r.effect = "explain" => Spawns("explain")
  /\ r.effect = "fix" => Spawns("fix")
  /\ r.effect \notin {"explain", "fix"} => UNCHANGED asker

LEMMA KeyAsks ==
  ASSUME TypeOK, NEW r, Puts(r)
  PROVE  /\ r.effect = "explain" => Working("explain")'
         /\ r.effect = "fix" => Working("fix")'
         /\ Working("explain") => Working("explain")'
         /\ Working("fix") => Working("fix")'
         /\ r.effect # "explain" => (Asked("explain")' <=> Asked("explain"))
         /\ r.effect # "fix" => /\ Threads("fix")' = Threads("fix")
                                /\ Working("fix")' <=> Working("fix")
<1>1. "fix" \in Questions \ {"explain"} /\ "explain" \in Questions \ {"fix"}
  BY DEF Questions
<1>2. CASE r.effect = "explain"
  BY <1>1, <1>2, Questioned DEF Puts
<1>3. CASE r.effect = "fix"
  BY <1>1, <1>3, Questioned DEF Puts, Asked
<1>4. CASE r.effect \notin {"explain", "fix"}
  BY <1>4 DEF Puts, Working, Threads, Live, Asked
<1> QED BY <1>2, <1>3, <1>4

LEMMA IdleIs == ~Settled(Idle) /\ Settled(Failed) /\ Idle # Failed
BY DEF Settled, Idle, Failed

LEMMA KeyTells ==
  ASSUME TypeOK, NEW r, Puts(r), \A ask \in Questions : Told(ask)
  PROVE  \A ask \in Questions : Told(ask)'
<1>1. Told("explain")'
  <2>1. panel'.explanation = panel.explanation
    BY DEF Puts, KeyDoes
  <2>2. Told("explain")
    BY DEF Questions
  <2> QED BY <2>1, <2>2, KeyAsks DEF Told, Loading
<1>2. Told("fix")'
  <2>1. panel'.fix = panel.fix \/ panel'.fix = Failed
    BY DEF Puts, KeyDoes
  <2>2. Told("fix")
    BY DEF Questions
  <2>3. r.effect # "fix" => (Asked("fix")' <=> Asked("fix"))
    BY KeyAsks DEF Asked
  <2> QED BY <2>1, <2>2, <2>3, KeyAsks, IdleIs DEF Told, Loading
<1> QED BY <1>1, <1>2 DEF Questions

\* What a key puts in view is answered, or asked about.
LEMMA KeyShows ==
  ASSUME TypeOK, NEW r, Puts(r), \A ask \in Questions : Told(ask),
         Inquires(panel, r) \/ (Shows("why", "explain") /\ Shows("fix", "fix"))
  PROVE  Shows("why", "explain")' /\ Shows("fix", "fix")'
<1>1. /\ Told("explain")' /\ Told("fix")'
  BY KeyTells DEF Questions
<1>2. ASSUME panel'.section = "why" PROVE Settled(panel'.explanation) \/ Working("explain")'
  <2>1. CASE panel'.explanation # Idle
    BY <1>1, <2>1 DEF Told, Loading
  <2>2. CASE r.effect = "explain"
    BY <2>2, KeyAsks
  <2>3. CASE panel'.explanation = Idle /\ r.effect # "explain"
    <3>1. panel.section = "why" /\ panel.explanation = Idle /\ ~Inquires(panel, r)
      BY <1>2, <2>3 DEF Puts, KeyDoes, Inquires
    <3>2. Working("explain")
      BY <3>1, IdleIs DEF Shows, Loading
    <3> QED BY <3>2, KeyAsks
  <2> QED BY <2>1, <2>2, <2>3
<1>3. ASSUME panel'.section = "fix" PROVE Settled(panel'.fix) \/ Working("fix")'
  <2>1. CASE panel'.fix # Idle
    BY <1>1, <2>1 DEF Told, Loading
  <2>2. CASE r.effect = "fix"
    BY <2>2, KeyAsks
  <2>3. CASE panel'.fix = Idle /\ r.effect # "fix"
    <3>1. panel.section = "fix" /\ panel.fix = Idle /\ ~Inquires(panel, r)
      BY <1>3, <2>3, IdleIs DEF Puts, KeyDoes, Inquires
    <3>2. Working("fix")
      BY <3>1, IdleIs DEF Shows, Loading
    <3> QED BY <3>2, KeyAsks
  <2> QED BY <2>1, <2>2, <2>3
<1> QED BY <1>2, <1>3 DEF Shows, Loading

LEMMA KeyFirst ==
  ASSUME TypeOK, NEW r, Puts(r), FirstFix
  PROVE  FirstFix'
<1>1. CASE r.effect = "fix"
  <2>1. panel'.fix = Idle
    BY <1>1 DEF Puts, KeyDoes
  <2> QED BY <2>1 DEF FirstFix, KnownFix, Idle
<1>2. CASE r.effect # "fix"
  <2>1. Threads("fix")' = Threads("fix") /\ (Working("fix")' <=> Working("fix"))
    BY <1>2, KeyAsks
  <2>2. panel'.fix = panel.fix \/ panel'.fix = Failed
    BY DEF Puts, KeyDoes
  <2>3. KnownFix(panel)' => KnownFix(panel)
    BY <2>2 DEF KnownFix, Failed
  <2> QED BY <2>1, <2>3 DEF FirstFix, Alone
<1> QED BY <1>1, <1>2

\* A thread: its section shows an answer once it ended, the other is untouched.
LEMMA ThreadsStay ==
  ASSUME TypeOK, NEW w \in Workers, AskerDoes(w)
  PROVE  /\ \A ask \in Questions : Threads(ask)' = Threads(ask)
         /\ Working(asker[w].ask)
         /\ \A ask \in Questions : ask # asker[w].ask => (Working(ask)' <=> Working(ask))
         /\ \A ask \in Questions :
              ask = asker[w].ask /\ asker'[w].at # "done" => Working(ask)'
<1>1. PICK t \in Threaded : /\ asker' = [asker EXCEPT ![w] = t]
                            /\ t.ask = asker[w].ask /\ t.at # "free"
  BY DEF AskerDoes
<1>2. /\ asker'[w] = t /\ asker[w].at \notin {"free", "done"}
      /\ \A v \in Workers \ {w} : asker'[v] = asker[v]
  BY <1>1 DEF TypeOK, AskerDoes
<1>3. ASSUME NEW ask \in Questions PROVE Threads(ask)' = Threads(ask)
  BY <1>1, <1>2 DEF Threads
<1>4. Working(asker[w].ask)
  BY <1>2 DEF Working, Threads, Live
<1>5. ASSUME NEW ask \in Questions, ask # asker[w].ask
      PROVE  Working(ask)' <=> Working(ask)
  <2>1. w \notin Threads(ask)
    BY <1>5 DEF Threads
  <2>2. \A v \in Threads(ask) : asker'[v] = asker[v]
    BY <1>2, <2>1 DEF Threads
  <2>3. Threads(ask)' = Threads(ask)
    BY <1>3
  <2> QED BY <2>2, <2>3 DEF Working, Live
<1>6. ASSUME NEW ask \in Questions, ask = asker[w].ask, asker'[w].at # "done"
      PROVE  Working(ask)'
  <2>1. w \in Threads(ask)
    BY <1>2, <1>6 DEF Threads
  <2> QED BY <1>1, <1>2, <1>3, <1>6, <2>1 DEF Working, Live
<1> QED BY <1>3, <1>4, <1>5, <1>6

LEMMA ThreadTells ==
  ASSUME TypeOK, NEW w \in Workers, AskerDoes(w), \A ask \in Questions : Told(ask),
         Shows("why", "explain"), Shows("fix", "fix")
  PROVE  /\ \A ask \in Questions : Told(ask)'
         /\ Shows("why", "explain")' /\ Shows("fix", "fix")'
<1>1. asker[w].ask \in Questions
  BY DEF TypeOK, Threaded
<1>2. ASSUME NEW ask \in Questions, ask # asker[w].ask
      PROVE  Loading(ask)' = Loading(ask)
  BY <1>1, <1>2 DEF AskerDoes, Holds, Loading, Questions
<1>3. ASSUME NEW ask \in Questions, ask = asker[w].ask
      PROVE  Working(ask)' \/ Settled(Loading(ask))'
  <2>1. CASE asker'[w].at # "done"
    BY <1>3, <2>1, ThreadsStay
  <2>2. CASE asker'[w].at = "done"
    <3>1. PICK l \in Loadings : Holds(ask, l) /\ Settled(l)
      BY <1>3, <2>2 DEF AskerDoes
    <3> QED BY <3>1 DEF Holds, Loading, Questions
  <2> QED BY <2>1, <2>2
<1>4. ASSUME NEW ask \in Questions PROVE Told(ask)'
  <2>1. CASE ask = asker[w].ask
    BY <1>3, <2>1 DEF Told
  <2>2. CASE ask # asker[w].ask
    <3>1. (Working(ask)' <=> Working(ask)) /\ Threads(ask)' = Threads(ask)
      BY <2>2, ThreadsStay
    <3> QED BY <1>2, <2>2, <3>1 DEF Told, Asked
  <2> QED BY <2>1, <2>2
<1>5. panel'.section = panel.section
  BY DEF AskerDoes, Holds, Chosen
<1>6. ASSUME NEW ask \in Questions, Settled(Loading(ask)) \/ Working(ask)
      PROVE  Settled(Loading(ask))' \/ Working(ask)'
  <2>1. CASE ask = asker[w].ask
    BY <1>3, <2>1
  <2>2. CASE ask # asker[w].ask
    <3>1. Working(ask)' <=> Working(ask)
      BY <2>2, ThreadsStay
    <3> QED BY <1>2, <1>6, <2>2, <3>1
  <2> QED BY <2>1, <2>2
<1> QED BY <1>4, <1>5, <1>6 DEF Shows, Questions

LEMMA ThreadFirst ==
  ASSUME TypeOK, NEW w \in Workers, AskerDoes(w), FirstFix
  PROVE  FirstFix'
<1> SUFFICES ASSUME Alone', Working("fix")' PROVE ~KnownFix(panel')
  BY DEF FirstFix
<1>1. Threads("fix")' = Threads("fix")
  BY ThreadsStay DEF Questions
<1>2. Alone
  BY <1>1 DEF Alone
<1>3. CASE asker[w].ask # "fix"
  <2>1. Working("fix")
    BY <1>3, ThreadsStay DEF Questions
  <2>2. asker[w].ask = "explain"
    BY <1>3 DEF TypeOK, Threaded, Questions
  <2>3. panel'.fix = panel.fix
    BY <2>2 DEF AskerDoes, Holds
  <2> QED BY <1>2, <2>1, <2>3 DEF FirstFix, KnownFix
<1>4. CASE asker[w].ask = "fix"
  <2>1. Working("fix") /\ ~KnownFix(panel)
    BY <1>2, <1>4, ThreadsStay DEF FirstFix
  <2>2. PICK v \in Threads("fix")' : asker'[v].at # "done"
    BY DEF Working, Live
  <2>3. w \in Threads("fix")
    BY <1>4 DEF Threads, AskerDoes
  <2>4. v = w
    BY <1>1, <1>2, <2>2, <2>3 DEF Alone
  <2>5. panel' = panel \/ \E l \in Loadings : Holds("fix", l) /\ l.is = "asking"
    BY <1>4, <2>2, <2>4 DEF AskerDoes
  <2> QED BY <2>1, <2>5 DEF Holds, KnownFix
<1> QED BY <1>3, <1>4

\* A footer that is drawn speaks of the panel it is drawn with.
LEMMA FooterKeeps ==
  ASSUME NEW p \in Panels, InFocus(p)
  PROVE  Keeps(Footer(p), p)
<1>1. /\ p.agents \in Nat /\ p.agentFocus \in Nat
      /\ p.section \in {"why", "fix", "agent", "ignore", "privacy"}
  BY FiveSections, PanelAssumption DEF Panels, PanelAssumption
<1>2. CASE p.note # "none" \/ p.help
  BY <1>2 DEF Footer, Says, Keeps
<1>3. CASE ~(p.note # "none" \/ p.help) /\ p.section = "agent" /\ p.agentFocus < p.agents
  <2>1. Footer(p) = SaysInserts(NamedAgent(p.agentFocus))
    BY <1>1, <1>3 DEF Footer, FooterOfSection
  <2>2. Act(p).effect = "insert"
    BY <1>1, <1>3 DEF Act, Then
  <2>3. Picked(NamedAgent(p.agentFocus)) = NamedAgent(p.agentFocus)
    BY DEF Picked, NamedAgent, Command
  <2>4. Picked(Inserted(p)) = NamedAgent(p.agentFocus)
    <3>1. CASE p.agents > 1
      <4>1. Inserted(p) = NamedAgent(p.agentFocus)
        BY <1>1, <1>3, <3>1 DEF Inserted
      <4> QED BY <4>1, <2>3
    <3>2. CASE p.agents <= 1
      <4>1. p.agentFocus = 0
        BY <1>1, <1>3, <3>2
      <4>2. Inserted(p) = FirstAgent
        BY <1>1, <1>3, <3>2 DEF Inserted
      <4>3. Picked(FirstAgent) = NamedAgent(0)
        BY DEF Picked, FirstAgent, Command
      <4> QED BY <4>1, <4>2, <4>3
    <3> QED BY <1>1, <3>1, <3>2
  <2> QED BY <2>1, <2>2, <2>3, <2>4 DEF Keeps, SaysInserts
<1>4. CASE ~(p.note # "none" \/ p.help) /\ p.section = "agent" /\ ~(p.agentFocus < p.agents)
  <2>1. Footer(p) = Says("setup")
    BY <1>1, <1>4 DEF Footer, FooterOfSection
  <2> QED BY <2>1 DEF Keeps, Says
<1>5. CASE ~(p.note # "none" \/ p.help) /\ p.section = "ignore"
  <2>1. CASE p.ignored
    <3>1. Footer(p) = Says("closes")
      BY <1>5, <2>1 DEF Footer, FooterOfSection
    <3> QED BY <3>1 DEF Keeps, Says
  <2>2. CASE ~p.ignored
    <3>1. Footer(p) = Says("ignore")
      BY <1>5, <2>2 DEF Footer, FooterOfSection
    <3>2. Act(p).effect = "ignore"
      BY <1>5, <2>2 DEF Act, Then
    <3> QED BY <3>1, <3>2 DEF Keeps, Says
  <2> QED BY <2>1, <2>2
<1>6. CASE ~(p.note # "none" \/ p.help) /\ p.section \notin {"agent", "ignore"}
  <2>1. Footer(p) = IF KnownFix(p) THEN SaysInserts(TheFix(p)) ELSE Says("keys")
    BY <1>6 DEF Footer, FooterOfSection
  <2>2. Act(p).effect = IF KnownFix(p) THEN "insert" ELSE "nothing"
    BY <1>6 DEF Act, Then
  <2>3. Inserted(p) = TheFix(p)
    BY <1>6 DEF Inserted
  <2> QED BY <2>1, <2>2, <2>3 DEF Keeps, Says, SaysInserts
<1> QED BY <1>2, <1>3, <1>4, <1>5, <1>6

\* A word is kept on every panel with the same choices and the same fix, or when
\* no fix was known.
LEMMA KeepsOn ==
  ASSUME NEW p \in Panels, NEW q, Chosen(p) = Chosen(q), p.fix = q.fix \/ ~KnownFix(p),
         NEW footer, Keeps(footer, p)
  PROVE  Keeps(footer, q)
<1>1. /\ p.section = q.section /\ p.agents = q.agents /\ p.ignored = q.ignored
      /\ p.agentFocus = q.agentFocus /\ p.agents \in Nat
  BY PanelAssumption DEF Chosen, Panels, PanelAssumption
<1>2. CASE p.fix = q.fix
  <2>1. Act(p).effect = Act(q).effect
    BY <1>1, <1>2 DEF Act, Then, KnownFix
  <2>2. Inserted(p) = Inserted(q)
    BY <1>1, <1>2 DEF Inserted, TheFix
  <2> QED BY <2>1, <2>2 DEF Keeps
<1>3. CASE ~KnownFix(p)
  <2>1. ASSUME footer.says = "insert"
        PROVE  Act(q).effect = "insert" /\ Picked(Inserted(q)) = Picked(footer.line)
    <3>1. Act(p).effect = "insert" /\ Picked(Inserted(p)) = Picked(footer.line)
      BY <2>1 DEF Keeps
    <3>2. p.section = "agent"
      BY <1>3, <3>1 DEF Act, Then
    <3>3. Act(q).effect = Act(p).effect
      BY <1>1, <3>2 DEF Act, Then
    <3>4. Inserted(q) = Inserted(p)
      BY <1>1, <3>2 DEF Inserted
    <3> QED BY <3>1, <3>3, <3>4
  <2>2. ASSUME footer.says = "ignore" PROVE Act(q).effect = "ignore"
    <3>1. Act(p).effect = "ignore"
      BY <2>2 DEF Keeps
    <3>2. p.section = "ignore"
      BY <3>1 DEF Act, Then
    <3> QED BY <1>1, <3>1, <3>2 DEF Act, Then
  <2> QED BY <2>1, <2>2 DEF Keeps
<1> QED BY <1>2, <1>3

LEMMA ThreadOffers ==
  ASSUME TypeOK, NEW w \in Workers, AskerDoes(w), FirstFix, Offered, pc = "poll",
         UNCHANGED <<pc, drawn>>
  PROVE  Offered'
<1>1. Threads("fix")' = Threads("fix")
  BY ThreadsStay DEF Questions
<1>2. Alone' <=> Alone
  BY <1>1 DEF Alone
<1>3. Chosen(panel) = Chosen(panel') /\ panel \in Panels
  BY DEF AskerDoes, Holds, TypeOK
<1>4. CASE asker[w].ask = "fix"
  <2>1. drawn.looking
    BY <1>4, ThreadsStay DEF Offered
  <2>2. ASSUME Alone PROVE Keeps(drawn.footer, panel')
    <3>1. ~KnownFix(panel)
      BY <1>4, <2>2, ThreadsStay DEF FirstFix
    <3>2. Keeps(drawn.footer, panel)
      BY <2>2 DEF Offered
    <3> QED BY <1>3, <3>1, <3>2, KeepsOn
  <2> QED BY <1>2, <2>1, <2>2 DEF Offered
<1>5. CASE asker[w].ask # "fix"
  <2>1. asker[w].ask = "explain"
    BY <1>5 DEF TypeOK, Threaded, Questions
  <2>2. panel'.fix = panel.fix
    BY <2>1 DEF AskerDoes, Holds
  <2>3. Working("fix")' <=> Working("fix")
    BY <1>5, ThreadsStay DEF Questions
  <2>4. ASSUME Keeps(drawn.footer, panel) PROVE Keeps(drawn.footer, panel')
    BY <1>3, <2>2, <2>4, KeepsOn
  <2> QED BY <1>2, <2>3, <2>4 DEF Offered
<1> QED BY <1>4, <1>5

(***************************************************************************)
(* The inductive invariant.                                                *)
(***************************************************************************)
IInv == Frames /\ Talk /\ Offered

LEMMA StartsTelling ==
  ASSUME Init
  PROVE  Talk /\ Offered
<1>1. PICK fix \in {Idle, Ready("rule", Whole(0, "rule"))},
           explanation \in {Idle, Ready("rule", Whole(0, "rule"))},
           canAsk \in BOOLEAN, agents \in Agents :
        panel = Opened(fix, explanation, canAsk, agents, Sub(agents, 1))
  BY DEF Init, NewPanels
<1>2. /\ panel.fix = fix /\ panel.explanation = explanation
      /\ panel.section = IF fix = Idle THEN "why" ELSE "fix"
  BY <1>1 DEF Opened
<1>3. Settled(Ready("rule", Whole(0, "rule")))
  BY DEF Settled, Ready
<1>4. asker = [v \in Workers |-> NoThread] /\ pc = "focus"
  BY DEF Init
<1>5. Unopened
  BY <1>2, <1>3, <1>4 DEF Unopened, Loading, Questions
<1>6. ~Working("fix")
  BY <1>4 DEF Working, Live, Threads, NoThread
<1> QED BY <1>4, <1>5, <1>6 DEF Talk, Attended, FirstFix, Offered

\* Nobody was asked yet when the panel opens.
LEMMA Untold ==
  ASSUME Unopened, pc = "focus"
  PROVE  \A ask \in Questions : Told(ask)
<1> SUFFICES ASSUME NEW ask \in Questions PROVE Told(ask)
  OBVIOUS
<1>1. \A w \in Workers : asker[w].at = "free"
  BY DEF Unopened, NoThread
<1>2. ~Asked(ask)
  BY <1>1 DEF Asked, Threads
<1> QED BY <1>2 DEF Unopened, Told

LEMMA TalkKeeps ==
  ASSUME Frames, Talk, Offered, [Next]_vars
  PROVE  Talk' /\ Offered'
<1>0. TypeOK /\ FocusHolds /\ RowsHold /\ OnTerminal /\ BlankAtFirst
      /\ Unopened /\ Attended /\ FirstFix
  BY DEF Frames, Talk
<1>1. ASSUME UNCHANGED <<panel, asker, drawn>>,
             pc' = pc \/ (pc' # "poll" /\ pc \notin {"focus", "ended"} /\ pc' # "focus")
      PROVE  Talk' /\ Offered'
  <2>1. Unopened'
    BY <1>0, <1>1 DEF Unopened, Loading
  <2>2. Attended'
    BY <1>0, <1>1 DEF Attended, Told, Shows, Working, Asked, Threads, Live, Loading
  <2>3. FirstFix' /\ Offered'
    BY <1>0, <1>1 DEF FirstFix, Offered, Alone, Working, Threads, Live
  <2> QED BY <2>1, <2>2, <2>3 DEF Talk
<1>2. CASE ProcessEnds
  <2>1. pc' = "ended" /\ \A w \in Workers : asker'[w] = NoThread
    BY <1>2 DEF ProcessEnds
  <2>2. ~Working("fix")'
    BY <2>1 DEF Working, Live, Threads, NoThread
  <2> QED BY <2>1, <2>2 DEF Talk, Unopened, Attended, FirstFix, Offered
<1>3. CASE Open
  <2>1. PICK r : Puts(r) /\ Inquires(panel, r)
    BY <1>0, <1>3, PanelOpened DEF Puts
  <2>2. pc = "focus" /\ pc' = "open"
    BY <1>3 DEF Open, Goes
  <2>3. \A ask \in Questions : Told(ask)
    BY <1>0, <2>2, Untold
  <2>4. (\A ask \in Questions : Told(ask)') /\ Shows("why", "explain")' /\ Shows("fix", "fix")'
    BY <1>0, <2>1, <2>3, KeyTells, KeyShows
  <2>5. FirstFix'
    BY <1>0, <2>1, KeyFirst
  <2> QED BY <2>2, <2>4, <2>5 DEF Talk, Unopened, Attended, Offered
<1>4. CASE Press
  <2>1. PICK r : Puts(r)
    BY <1>0, <1>4, KeyPressed DEF Puts
  <2>2. pc = "poll" /\ pc' \in {"leave", "draw"}
    BY <1>4 DEF Press
  <2>3. (\A ask \in Questions : Told(ask)) /\ Shows("why", "explain") /\ Shows("fix", "fix")
    BY <1>0, <2>2 DEF Attended
  <2>4. (\A ask \in Questions : Told(ask)') /\ Shows("why", "explain")' /\ Shows("fix", "fix")'
    BY <1>0, <2>1, <2>3, KeyTells, KeyShows
  <2>5. FirstFix'
    BY <1>0, <2>1, KeyFirst
  <2> QED BY <2>2, <2>4, <2>5 DEF Talk, Unopened, Attended, Offered
<1>5. CASE Draw
  <2>1. /\ pc = "draw" /\ pc' = "poll" /\ Chosen(panel') = Chosen(panel) /\ UNCHANGED asker
        /\ panel'.fix = panel.fix /\ panel'.explanation = panel.explanation
        /\ drawn' = NoFrame \/ drawn' = Frame(panel', screen'.height)
    BY <1>0, <1>5, Drawn
  <2>2. panel'.section = panel.section
    BY <2>1 DEF Chosen
  <2>3. Attended'
    BY <1>0, <2>1, <2>2 DEF Attended, Told, Shows, Working, Asked, Threads, Live, Loading
  <2>4. FirstFix'
    BY <1>0, <2>1 DEF FirstFix, Alone, Working, Threads, Live, KnownFix
  <2>5. Keeps(drawn'.footer, panel')
    <3>1. panel' \in Panels /\ InFocus(panel')
      BY <1>0, <1>5, <2>1, Drawn DEF FocusHolds, InFocus, Chosen
    <3>2. Keeps(Says("blank"), panel')
      BY DEF Keeps, Says
    <3> QED BY <2>1, <3>1, <3>2, FooterKeeps DEF NoFrame, Frame
  <2>6. Working("fix")' => drawn'.looking
    <3>1. Working("fix")' => \E w \in Workers : Live(w) /\ asker[w].ask = "fix"
      BY <2>1 DEF Working, Threads, Live
    <3> QED BY <2>1, <3>1 DEF NoFrame, Frame
  <2>7. Offered'
    BY <2>5, <2>6 DEF Offered
  <2> QED BY <2>1, <2>3, <2>4, <2>7 DEF Talk, Unopened
<1>6. ASSUME pc = "poll", NEW w \in Workers, Asker(w) PROVE Talk' /\ Offered'
  <2>1. AskerDoes(w)
    BY <1>0, <1>6, AskerMoves
  <2>2. UNCHANGED <<pc, drawn>>
    BY <1>6 DEF Asker, Candidate, RuleKnows, Ruled, NobodyToAsk, Ask, Speaks, TriesNext,
                Answers, OnlyThreads
  <2>3. (\A ask \in Questions : Told(ask)) /\ Shows("why", "explain") /\ Shows("fix", "fix")
    BY <1>0, <1>6 DEF Attended
  <2>4. (\A ask \in Questions : Told(ask)') /\ Shows("why", "explain")' /\ Shows("fix", "fix")'
    BY <1>0, <2>1, <2>3, ThreadTells
  <2>5. FirstFix' /\ Offered'
    BY <1>0, <1>6, <2>1, <2>2, ThreadFirst, ThreadOffers
  <2> QED BY <1>6, <2>2, <2>4, <2>5 DEF Talk, Unopened, Attended
<1>7. CASE UNCHANGED vars
  BY <1>1, <1>7 DEF vars
<1>8. CASE NothingToExpand \/ Leave \/ Fails
  BY <1>2, <1>8 DEF NothingToExpand, Leave, Fails
<1>9. CASE Prepare \/ Place \/ NoKey
  BY <1>1, <1>9 DEF Prepare, Divert, GoRaw, HideCursor, CaptureMouse, Place, NoKey, Goes
<1> QED BY <1>3, <1>4, <1>5, <1>6, <1>7, <1>8, <1>9 DEF Next, Drawing

LEMMA Invariant == Spec => []IInv
<1>1. Init => IInv
  BY Starts, StartsTelling DEF IInv
<1>2. IInv /\ [Next]_vars => IInv'
  BY FramesKeep, TalkKeeps DEF IInv
<1> QED BY <1>1, <1>2, PTL DEF Spec

(***************************************************************************)
(* The panel keeps its types; a click lands on a row that is there, the    *)
(* agent and the pattern in focus are on their lists, and the viewport     *)
(* stands on the terminal whatever it grows to (tty_panel.rs, Panel::press *)
(* and render).                                                            *)
(***************************************************************************)
THEOREM FramesHold == Spec => []Frames
<1>1. IInv => Frames
  BY DEF IInv
<1> QED BY <1>1, Invariant, PTL

(***************************************************************************)
(* No question hangs: a thread of Asker::ask ends with an answer or an     *)
(* error in its section, and a section that is entered and shows nothing   *)
(* is being asked about, whatever else is asked and answered meanwhile.    *)
(***************************************************************************)
THEOREM NoneHangs == Spec => []NothingHangs
<1>1. IInv => NothingHangs
  <2> SUFFICES ASSUME IInv, pc = "poll" PROVE NothingHangs
    BY DEF NothingHangs
  <2>1. /\ \A ask \in Questions : Told(ask)
        /\ Shows("why", "explain") /\ Shows("fix", "fix")
    BY DEF IInv, Talk, Attended
  <2> QED BY <2>1 DEF NothingHangs, Told, Shows, Questions, Loading
<1> QED BY <1>1, Invariant, PTL

LEMMA AtMostOne == Cardinality(Threads("fix")) <= 1 => Alone
<1>1. IsFiniteSet(Threads("fix"))
  <2>1. IsFiniteSet(Workers)
    <3>1. 1 \in Int /\ MaxThreads \in Int
      BY PanelAssumption DEF PanelAssumption
    <3> QED BY <3>1, FS_Interval DEF Workers
  <2>2. Threads("fix") \in SUBSET Workers
    BY DEF Threads
  <2> QED BY <2>1, <2>2, FS_Subset
<1>2. Cardinality(Threads("fix")) \in Nat
  BY <1>1, FS_CardinalityType
<1>3. CASE Cardinality(Threads("fix")) = 0
  BY <1>1, <1>3, FS_EmptySet DEF Alone
<1>4. CASE Cardinality(Threads("fix")) = 1
  BY <1>1, <1>4, FS_Singleton DEF Alone
<1> QED BY <1>2, <1>3, <1>4

(***************************************************************************)
(* What the footer of the last frame says of Enter is what Enter does, to  *)
(* the fix and the agent it names, also when an answer came after it was   *)
(* drawn, as long as no second thread looks for a fix                      *)
(* (Panel::footer and Panel::act translated apart; a thread asks only for  *)
(* a fix that is not known, and knows it last of all).                     *)
(***************************************************************************)
THEOREM OfferKept == Spec => []OfferHolds
<1>1. IInv => OfferHolds
  BY AtMostOne DEF IInv, Offered, OfferHolds
<1> QED BY <1>1, Invariant, PTL
(***************************************************************************)
(* Every way out gives the terminal back.  Who ends drops its guards, so   *)
(* whatever was done must have its guard by then: the mouse has none of    *)
(* its own and relies on that of raw mode, made two steps before.          *)
(***************************************************************************)
Guarded ==
  /\ tty.done \subseteq UNION {Undoes(guard) : guard \in tty.guards}
  /\ pc \notin {"focus", "open", "raw", "ended"} => "raw" \in tty.guards
  /\ Restored

LEMMA Undone ==
  /\ Undoes("stdin") = {"stdin"} /\ Undoes("stdout") = {"stdout"}
  /\ Undoes("raw") = {"raw", "mouse"} /\ Undoes("viewport") = {"hidden"}
  BY DEF Undoes

\* What is done with a guard for it, or has one, stays guarded.
LEMMA SetsGuarded ==
  ASSUME Guarded, NEW done, NEW guards, Sets(done, guards),
         done \subseteq UNION {Undoes(guard) : guard \in tty.guards \union guards},
         pc' \notin {"focus", "open", "raw", "ended"} => "raw" \in tty.guards \union guards,
         pc' # "ended"
  PROVE  Guarded'
  BY DEF Guarded, Restored, Sets, Undoes

\* What ends leaves nothing.
LEMMA EndsRestored ==
  ASSUME Guarded, NEW done, ProcessEnds, Drops(done),
         done \subseteq UNION {Undoes(guard) : guard \in tty.guards}
  PROVE  Guarded'
<1>1. tty' = Untouched /\ pc' = "ended"
  BY DEF ProcessEnds, Drops, Untouched
<1> QED BY <1>1 DEF Guarded, Restored, Untouched

LEMMA PreparesGuarded ==
  ASSUME Guarded, Prepare
  PROVE  Guarded'
<1>1. CASE Divert
  <2>1. PICK moved \in SUBSET {"stdin", "stdout"} : Sets(moved, moved)
    BY <1>1 DEF Divert
  <2>2. moved \subseteq UNION {Undoes(guard) : guard \in tty.guards \union moved}
    BY <2>1, Undone
  <2>3. pc' = "raw"
    BY <1>1 DEF Divert, Goes
  <2> QED BY <2>1, <2>2, <2>3, SetsGuarded
<1>2. CASE GoRaw
  BY <1>2, Undone, SetsGuarded DEF GoRaw, Goes
<1>3. CASE HideCursor
  <2>1. "raw" \in tty.guards
    BY <1>3 DEF HideCursor, Goes, Guarded
  <2> QED BY <1>3, <2>1, Undone, SetsGuarded DEF HideCursor, Goes
<1>4. CASE CaptureMouse
  <2>1. "raw" \in tty.guards
    BY <1>4 DEF CaptureMouse, Goes, Guarded
  <2> QED BY <1>4, <2>1, Undone, SetsGuarded DEF CaptureMouse, Goes
<1> QED BY <1>1, <1>2, <1>3, <1>4 DEF Prepare

LEMMA EndsGuarded ==
  ASSUME Guarded, NothingToExpand \/ Leave \/ Fails
  PROVE  Guarded'
<1>1. CASE NothingToExpand
  BY <1>1, EndsRestored DEF NothingToExpand, Guarded
<1>2. CASE Leave
  <2>1. tty.done \ {"mouse", "hidden"} \subseteq UNION {Undoes(guard) : guard \in tty.guards}
    BY DEF Guarded
  <2> QED BY <1>2, <2>1, EndsRestored DEF Leave
<1>3. CASE Fails
  <2>1. PICK done \in Halfway : Drops(done)
    BY <1>3 DEF Fails
  <2>2. done \subseteq tty.done \/ (pc = "mouse" /\ done = tty.done \union {"mouse"})
    BY <2>1 DEF Halfway
  <2>3. pc = "mouse" => "mouse" \in UNION {Undoes(guard) : guard \in tty.guards}
    BY Undone DEF Guarded
  <2>4. done \subseteq UNION {Undoes(guard) : guard \in tty.guards}
    BY <2>2, <2>3 DEF Guarded
  <2> QED BY <1>3, <2>1, <2>4, EndsRestored DEF Fails
<1> QED BY <1>1, <1>2, <1>3

\* The others leave the terminal alone: a thread, a frame, a key.
LEMMA OthersGuarded ==
  ASSUME Guarded, UNCHANGED tty,
         \/ UNCHANGED pc
         \/ pc \notin {"focus", "open", "raw", "ended"} /\ pc' # "ended"
         \/ pc = "focus" /\ pc' = "open"
  PROVE  Guarded'
  BY DEF Guarded, Restored

LEMMA TerminalStep == ASSUME Guarded, [Next]_vars PROVE Guarded'
<1>1. CASE Prepare
  BY <1>1, PreparesGuarded
<1>2. CASE NothingToExpand \/ Leave \/ Fails
  BY <1>2, EndsGuarded
<1>3. CASE Open
  BY <1>3, OthersGuarded DEF Open, Goes
<1>4. CASE Place \/ Draw \/ NoKey
  <2>1. /\ pc \in {"place", "draw", "poll"} /\ pc' \in {"viewport", "poll", "draw"}
        /\ UNCHANGED tty
    BY <1>4 DEF Place, Draw, NoKey, Goes
  <2> QED BY <2>1, OthersGuarded
<1>5. CASE Press
  <2>1. pc = "poll" /\ pc' \in {"leave", "draw"} /\ UNCHANGED tty
    BY <1>5 DEF Press
  <2> QED BY <2>1, OthersGuarded
<1>6. CASE \E w \in Workers : Asker(w)
  <2>1. UNCHANGED <<pc, tty>>
    BY <1>6 DEF Asker, Candidate, RuleKnows, Ruled, NobodyToAsk, Ask, Speaks, TriesNext, Answers,
                OnlyThreads
  <2> QED BY <2>1, OthersGuarded
<1>7. CASE UNCHANGED vars
  BY <1>7, OthersGuarded DEF vars
<1> QED BY <1>1, <1>2, <1>3, <1>4, <1>5, <1>6, <1>7 DEF Next, Drawing

\* However the panel ends, by a key or by any call that fails, whatever that call
\* did before it failed, the terminal is as the shell gave it (tty_panel::run and
\* the drops of Diversion and TtyGuard).
THEOREM TerminalBack == Spec => []Restored
<1>1. Init => Guarded
  BY DEF Init, Guarded, Restored, Untouched
<1>2. Guarded /\ [Next]_vars => Guarded'
  BY TerminalStep
<1>3. Guarded => Restored
  BY DEF Guarded
<1> QED BY <1>1, <1>2, <1>3, PTL DEF Spec
=============================================================================
