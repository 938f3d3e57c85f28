---------------------------- MODULE Corrections ----------------------------
(***************************************************************************)
(* A command fails, kintsu proposes another one, and the user runs that:   *)
(* a chain of corrections in one world, where the tools go on saying what  *)
(* they have to say until something changed.                               *)
(*                                                                         *)
(* Composes Rules, OutputRules and Capture the way src/use_cases/triage.rs *)
(* and facts.rs do: the rules on the line when the prompt is drawn, the    *)
(* rules on the output once the terminal gave it.  What the tools say      *)
(* (Complaints) is not in the repository: it is read from what the rules   *)
(* look for.                                                               *)
(***************************************************************************)
EXTENDS OutputRules, Capture, FiniteSets

CONSTANTS
  Worlds,    \* machines and repositories
  TypedLines, \* lines a user types
  MaxTaken,  \* bound: corrections taken in a row
  MaxLines   \* capture.max_lines

\* What the user taught says so of itself (LearnedFix::as_rule).
ASSUME CorrectionsAssumption ==
  \A w \in Worlds : \A taught \in w.taught : taught.fix.rule = "learned"

\* ECHO_MARGIN, fifty lines in the code.
EchoMargin == 3

VARIABLES
  env,     \* the world
  outcome, \* the outcome: line, status, and whether a no-break space is in it
  screen,  \* what the terminal shows
  phase,   \* "failed", "shown" (by a bubble) or "asked" (`kintsu fix`)
  read,    \* whether the terminal was asked for the output
  output,  \* the lines captured
  bubble,  \* the fix the bubble, or the one that came after it, offers
  told,    \* the explanation a rule had instead
  offer,   \* the fix offered last
  trail    \* the lines tried, and the rule that led on from each

correctVars == <<env, outcome, screen, phase, read, output, bubble, told, offer, trail>>
-----------------------------------------------------------------------------
(***************************************************************************)
(* The tools and the shell.                                                *)
(***************************************************************************)
Remark(what, names) == [say |-> what, names |-> names, meant |-> << >>]
DidMean(lines) == [say |-> "did you mean", names |-> << >>, meant |-> lines]
Alone(what, names) == {{Remark(what, names)}}
When(condition, complaints) == IF condition THEN complaints ELSE {}

\* The command that failed: past `sudo` and past the steps put in front of it.
LastCommand(line) ==
  LET steps == {i \in DOMAIN line : line[i] = "&&"} IN
  IF steps = {} THEN line ELSE SubSeq(line, Max(steps) + 1, Len(line))
Plainly(line) == IF Head(line) = "sudo" /\ Len(line) > 1 THEN Tail(line) ELSE line

GitSaysAbout(w, line) ==
  LET sub == SubcommandOf(line)  last == Last(line)
      unknown == {b \in {"main", "master", "topic"} \ w.branches : Contains(line, b)}
  IN  UNION {
    When(sub # "" /\ ~Flag(sub) /\ ~Contains(Git, sub),
         {{Remark("unknown command", <<sub>>), DidMean(said)} :
            said \in {<<<<"status">>>>, <<<<"stash">>, <<"status">>>>, <<<<"git", "add">>>>,
                      <<<<sub>>>>, <<<<"$x">>>>}}),
    When(sub = "push" /\ ~Contains(line, "--set-upstream"),
         Alone("git push --set-upstream", <<"origin", "topic">>)),
    When(sub = "push", Alone("rejected", << >>) \union Alone("publickey", << >>)),
    When(sub = "pull", Alone("no tracking information", <<"topic">>)
                       \union Alone("unrelated histories", << >>)),
    When(sub \in {"checkout", "pull"}, Alone("commit or stash", << >>)),
    When(sub = "checkout" /\ Len(line) = 3,
         {{Remark("pathspec", <<b>>)} : b \in unknown \intersect {last}}),
    When(sub = "switch", {{Remark("invalid reference", <<b>>)} : b \in unknown}),
    When(sub \in {"pull", "fetch"} /\ Len(line) > 3,
         {{Remark("no remote ref", <<b>>)} : b \in unknown}),
    When(sub \in {"log", "diff", "reset"}, {{Remark("unknown revision", <<b>>)} : b \in unknown}),
    When(sub \in {"checkout", "switch"} /\ Len(line) = 4 /\ last \in w.branches,
         Alone("branch already exists", <<last>>)),
    When(sub = "commit", Alone("nothing staged", << >>)),
    When(sub = "commit" /\ ~Flag(last) /\ Len(line) > 2,
         {{Remark("pathspec", <<last>>), Remark("forgot to add", <<last>>)}}),
    When(sub = "commit" /\ Contains(line, "-amend"), Alone("with two dashes", <<"--amend">>)),
    When(sub = "rebase", Alone("nothing left to stage", << >>)),
    When(sub = "rm", Alone("recursively without -r", << >>) \union Alone("use --cached", << >>)),
    Alone("dubious ownership", <<"/srv/app">>)}

ToolsSay(w, line) ==
  LET tool == Program(line) IN
  UNION {
    When(tool = "git", GitSaysAbout(w, line)),
    When(tool \in {"pip", "pip3"}, Alone("externally managed", << >>)),
    When(tool \in {"python3", "pytest"}, Alone("no module", <<"yaml">>)
                                         \union Alone("no module", <<"$(x)">>)),
    When(tool = "npm" /\ Last(line) # "test", {{Remark("unknown command", <<Last(line)>>),
                         DidMean(<<<<"npm", "run", "test">>>>)}}),
    When(tool = "docker", Alone("docker daemon", << >>)),
    When(tool = "cargo", Alone("no linker", << >>)),
    When(tool \in {"mkdir", "cp", "touch"}, Alone("no such file", <<Last(line)>>)),
    When(tool \in {"rm", "grep"}, Alone("is a directory", << >>)),
    When(tool = "cp", Alone("omitting directory", << >>)),
    When(tool = "ssh", Alone("publickey", << >>) \union Alone("host key changed", <<"web">>)),
    When(Contains(line, "-h"), Alone("unknown option", << >>))}

\* Who a tool refuses to run for: the user, root, both or neither.  It says so in
\* one way or another, the second of which pip says unless told --user.
Refusals(w, line) ==
  IF Head(line) = "sudo" THEN When("root" \in w.refuses, Alone("not as root", << >>))
  ELSE When("user" \in w.refuses, Alone("needs root", << >>))
       \union When(\/ "user" \in w.refuses
                   \/ Program(line) \in {"pip", "pip3"} /\ ~Contains(line, "--user"),
                   Alone("permission denied", << >>))

\* Whoever runs it, a tool says what it has to say.
Complaints(w, line) ==
  LET last == LastCommand(line) IN ToolsSay(w, Plainly(last)) \union Refusals(w, last)

\* What the shell can run: names it knows, files here that may be executed.
LocalName(word) == IF StartsWith(word, "./") THEN After(word, "./") ELSE word
Runs(w, word) ==
  \/ word \in w.programs \union w.paths \union ShellNames(w)
  \/ StartsWith(word, "./") /\ LocalName(word) \in DOMAIN w.entries
Refuses(w, word) ==
  StartsWith(word, "./") /\ LocalName(word) \in DOMAIN w.entries /\ ~w.entries[LocalName(word)].exec

\* The ways a line fails: its first word is not found or not executable, or the
\* tool complains, or fails without a word.
Outcome(line, status, unbroken) == [line |-> line, status |-> status, unbroken |-> unbroken]
Dangles(w, word) == \E a \in AliasFacts(w) : a.name = word /\ ~a.found
Failures(w, line, unbroken) ==
  IF unbroken \/ ~Runs(w, Head(line)) \/ Dangles(w, Head(line)) THEN {<<Outcome(line, 127, unbroken), {}>>}
  ELSE IF Refuses(w, Head(line)) THEN {<<Outcome(line, 126, unbroken), {}>>}
  ELSE {<<Outcome(line, 1, unbroken), said>> : said \in Complaints(w, line) \union {{}}}

\* What the terminal shows when it is read: an earlier command, the line behind
\* its prompt, what was printed, the bubble, and the next prompt once it is
\* drawn.
PrintedLine(remark) == Line(<<"tool:", remark.say>>, {remark})
Showing(line, said, prompt) ==
  <<Line(<<"$", "ls">>, {}), Line(<<"src">>, {}), Line(<<"$">> \o line, {})>>
  \o InOrder({PrintedLine(remark) : remark \in said})
  \o <<Line(<<"seam", "exited">>, {}), Blank>>
  \o (IF prompt THEN <<Line(<<"$">>, {})>> ELSE << >>)
-----------------------------------------------------------------------------
Fresh == /\ phase' = "failed" /\ read' = FALSE /\ output' = {}
         /\ bubble' = {} /\ told' = {} /\ offer' = {}

FirstFailure ==
  \E w \in Worlds, line \in TypedLines, unbroken \in BOOLEAN :
    \E failure \in Failures(w, line, unbroken), prompt \in BOOLEAN :
      /\ unbroken => Len(line) > 1
      /\ env = w /\ outcome = failure[1]
      /\ screen = Showing(line, failure[2], prompt)
      /\ phase = "failed" /\ read = FALSE /\ output = {}
      /\ bubble = {} /\ told = {} /\ offer = {} /\ trail = << >>

UserTaught(w, line) == {taught.fix : taught \in {t \in w.taught : t.line = line}}

\* Triage::run: at the prompt, the rules on the line, or what the user taught, or
\* an explanation.
AtThePrompt ==
  LET facts == GatherFacts(env, outcome)
      fix == FirstOf(<<SuggestFix(outcome, facts), UserTaught(env, outcome.line)>>)
  IN  /\ phase = "failed" /\ phase' = "shown"
      /\ bubble' = fix /\ offer' = fix
      /\ told' = IF fix = {} THEN SuggestExplanation(outcome, facts) ELSE {}
      /\ UNCHANGED <<env, outcome, screen, read, output, trail>>

\* CaptureOutput::run in the background, and fix_from_output when the bubble had
\* no fix.  Nothing comes of a terminal that does not answer.
Remarks(lines) == UNION {lines[i].remark : i \in DOMAIN lines}
KnownOf(lines) ==
  RuleFix(env, outcome, UNION {Remarks(l) : l \in lines}, UserTaught(env, outcome.line))
Capturing ==
  /\ phase = "shown" /\ ~read /\ read' = TRUE
  /\ \E shown \in Recent(env.sources, [panes |-> env.panes, shows |-> [s \in env.panes |-> {screen}]],
                         MaxLines + EchoMargin) \union {<< >>} :
       output' = OutputAfter(shown, outcome.line, MaxLines)
  /\ bubble' = IF bubble = {} /\ output' # {} THEN KnownOf(output') ELSE bubble
  /\ offer' = bubble'
  /\ UNCHANGED <<env, outcome, screen, phase, told, trail>>

\* FixLast::known: the rules over again, on what is kept with the case, and else
\* the proposal the case has.
AskToFix ==
  /\ phase = "shown" /\ phase' = "asked"
  /\ offer' = FirstOf(<<KnownOf(output), bubble>>)
  /\ UNCHANGED <<env, outcome, screen, read, output, bubble, told, trail>>

\* The user runs what was offered: it helps, or fails in turn.
Take ==
  /\ Len(trail) < MaxTaken
  /\ \E fix \in offer, prompt \in BOOLEAN :
       \E failure \in Failures(env, fix.line, FALSE) :
         /\ trail' = Append(trail, [line |-> outcome.line, unbroken |-> outcome.unbroken])
         /\ outcome' = failure[1]
         /\ screen' = Showing(fix.line, failure[2], prompt)
  /\ Fresh /\ UNCHANGED env

CorrectNext == AtThePrompt \/ Capturing \/ AskToFix \/ Take
CorrectSpec == FirstFailure /\ [][CorrectNext]_correctVars
-----------------------------------------------------------------------------
(***************************************************************************)
(* Properties.                                                             *)
(***************************************************************************)
\* For a command that was not found the rules on the line propose one that the
\* shell can run, or one whose program they did not change (a program typed twice
\* may be missing, and is proposed once); only what is in a virtual environment,
\* what follows a pasted prompt and what is before a cedilla is not looked up.
\* An alias is never taken for a typo: the bubble says what it lacks.
Unchecked == {"pasted prompt", "venv here", "trailing cedilla"}

\* `kintsu fix` offers what the bubble offered, with the output read or not; only
\* what the user taught gives way, to a rule that reads the output (triage.rs:112
\* asks for it before the output is there, facts.rs:53 after it).
OneMind ==
  phase = "asked" /\ bubble # {} =>
    offer = bubble \/ \E fix \in bubble : fix.rule = "learned"

\* The lines tried from the n-th on, the last of them the one that failed now.
LinesFrom(n) == {trail[i].line : i \in n .. Len(trail)} \union {outcome.line}

\* A correction leads on: in a world that does not change no line comes back, but
\* in two circles that the rules, each of which sees one line, cannot notice.
\* A repository with neither main nor master is asked for the one and the other,
\* and a tool that refuses the user and refuses root is run as the one and the
\* other; nothing else changes on the way round.
NeitherBranch(n) ==
  /\ {"main", "master"} \intersect env.branches = {}
  /\ \A line \in LinesFrom(n) : {"main", "master"} \intersect ToSet(line) # {}
RefusedBothWays(n) ==
  env.refuses = {"user", "root"} /\ \A line \in LinesFrom(n) : Plainly(line) = Plainly(outcome.line)
=============================================================================
