------------------------------ MODULE Capture ------------------------------
(***************************************************************************)
(* Reading what a command printed from the terminal that shows it:         *)
(* src/adapters/gateways/terminals.rs, entities/capture.rs.                *)
(*                                                                         *)
(* A screen is a sequence of lines, a line its words and what it remarks   *)
(* (see OutputRules); a blank line has no words.                           *)
(***************************************************************************)
EXTENDS Naturals, SequencesExt

\* The seam of a bubble, in either alphabet.
Seams == {"seam", "|"}

Line(words, remark) == [words |-> words, remark |-> remark]
Blank == Line(<< >>, {})
Empty(line) == line.words = << >>
IsKintsuLine(line) == ~Empty(line) /\ Head(line.words) \in Seams

\* The sources that could be asked: a source
\* answers with a screen, or with nothing when it fails, takes longer than two
\* seconds, or shows only blanks.
Sources == {"herdr", "tmux", "wezterm", "kitty", "iterm2", "stderr"}
Applies(source, terminal) == source \in terminal.panes \intersect Sources
Answer(terminal, source) ==
  {screen \in terminal.shows[source] : \E i \in DOMAIN screen : ~Empty(screen[i])}

\* TerminalOutput::recent: the first of the configured sources that answers, and
\* the last lines of what it shows.
Recent(sources, terminal, n) ==
  LET asked == SelectSeq(sources, LAMBDA s : /\ Applies(s, terminal)
                                             /\ Answer(terminal, s) # {})
  IN  IF asked = << >> THEN {}
      ELSE {SubSeq(screen, IF Len(screen) > n THEN Len(screen) - n + 1 ELSE 1, Len(screen)) :
              screen \in Answer(terminal, Head(asked))}

\* The echo of a command: the last line that ends with it, or else that holds it.
Ends(line, command) == ~IsKintsuLine(line) /\ IsSuffix(command, line.words)
Holds(line, command) ==
  /\ ~IsKintsuLine(line)
  /\ \E i \in 0 .. Len(line.words) - Len(command) :
       SubSeq(line.words, i + 1, i + Len(command)) = command
Echo(screen, command) ==
  LET ending == SelectLastInSeq(screen, LAMBDA l : Ends(l, command)) IN
  IF ending # 0 THEN ending ELSE SelectLastInSeq(screen, LAMBDA l : Holds(l, command))

\* What is left without the blank lines, and the bubbles, at the end.
Shown(lines) == {i \in DOMAIN lines : ~Empty(lines[i])}
Printed(lines) == {i \in DOMAIN lines : ~Empty(lines[i]) /\ ~IsKintsuLine(lines[i])}

\* output_after
OutputAfter(screen, command, max) ==
  LET after == SubSeq(screen, Echo(screen, command) + 1, Len(screen)) IN
  IF Printed(after) = {} THEN {}
  ELSE LET last  == Max(Printed(after))
           front == Min(Shown(after))
           first == IF last - front + 1 > max THEN last - max + 1 ELSE front
       IN {SubSeq(after, first, last)}
=============================================================================
