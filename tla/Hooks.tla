------------------------------- MODULE Hooks -------------------------------
(***************************************************************************)
(* The screen of one shell and the marker files its hook and the binary    *)
(* share: src/shell/kintsu.{zsh,fish,bash} and hook_notes.rs,              *)
(* and what `kintsu triage`, `why`, `fix`, `pending`, `subscribe` and      *)
(* `panel` print and leave in those files (app/hooks.rs, app/mod.rs,       *)
(* tty_panel.rs).                                                          *)
(*                                                                         *)
(* The screen is a column of rows, tall enough and wide enough; outside of *)
(* a command the cursor is on its last rows, the prompt's.  zsh handles a  *)
(* message when its editor is idle, fish at its prompt or just before it,  *)
(* bash at its next report.  The shells themselves are not in this         *)
(* repository: they draw a prompt where the hook left the cursor.          *)
(***************************************************************************)
EXTENDS Integers, Sequences, SequencesExt

CONSTANTS
  Kinds,        \* the shells to look at
  PromptRows,   \* rows of a prompt
  MaxLines,     \* bound: lines entered
  MaxEnters,    \* bound: empty lines entered
  MaxMessages,  \* bound: messages posted
  MaxBreaks     \* bound: times a subscriber's connection ends

ASSUME HooksAssumption ==
  /\ Kinds \subseteq {"zsh", "fish", "bash"}
  /\ PromptRows \in Nat \ {0}
  /\ {MaxLines, MaxEnters, MaxMessages, MaxBreaks} \subseteq Nat

VARIABLES
  shell,    \* which of Kinds this is
  mode,     \* what it does: prompt, running, ended, deciding, told
  line,     \* the last line entered: plain, or kintsu's why, fix or other
  count,    \* lines entered; the n-th line's rows are numbered n
  enters,
  focused,  \* the last line reported failed, and has a case
  screen,   \* its rows, the top one first
  typed,    \* rows of the text being edited
  seq, pendingSeq,   \* __kintsu_seq, __kintsu_pending_seq
  asking, bubble, ghost,  \* the marker files; the ghost is its line's number
  display,  \* the ghost shown after the cursor (POSTDISPLAY)
  view,     \* the daemon's decision, on its way to `kintsu triage`
  posted,   \* messages posted so far
  waiting,  \* posted, neither sent to a subscriber nor taken
  link,     \* the subscriber: none, starting, live
  breaks,
  child,    \* what the subscriber does with a message it got
  pipe,     \* written by the subscriber, not read by the hook
  crowded,  \* rows were printed under the asking line
  strayed   \* the bubble file does not tell what is above the prompt

files == <<asking, bubble, ghost>>
inner == <<seq, pendingSeq, display>>
daemon == <<view, posted, waiting, link, breaks, child>>
history == <<crowded, strayed>>
vars == <<shell, mode, line, count, enters, focused, screen, typed, files, inner,
          daemon, pipe, history>>
-----------------------------------------------------------------------------
(***************************************************************************)
(* Rows.                                                                   *)
(***************************************************************************)
Output(n)  == <<"output", n>>
Asking(n)  == <<"asking", n>>
Said(n)    == <<"said", n>>
Message(m) == <<"message", m>>
Prompt     == <<"prompt", 0>>
Blank(n)   == <<"blank", n>>
Toast(n)   == <<Said(n), <<"words", n>>>>
IsAsking(row) == row[1] = "asking"

NoFile == <<>>
NoView == [toast |-> << >>, bubbles |-> << >>, pending |-> FALSE, ghost |-> FALSE]

PromptArea(rows) == [i \in 1 .. PromptRows + rows - 1 |-> Prompt]
Texts(messages) == [i \in DOMAIN messages |-> Message(messages[i])]

\* From the line under the screen, up by so many rows, and all below cleared.
Least(a, b) == IF a < b THEN a ELSE b
Cleared(up) == SubSeq(screen, 1, Len(screen) - Least(up, Len(screen)))

\* __kintsu_rows_above
RowsAbove == PromptRows + typed - 1

\* An "asking..." line is on screen, right above this prompt.
AskedEver == pendingSeq # -1
AskedHere == pendingSeq = seq

\* HookNotes::append_bubble
Appended(base, messages) == base \o Texts(messages)
-----------------------------------------------------------------------------
(***************************************************************************)
(* Entering a line.                                                        *)
(***************************************************************************)
Init ==
  /\ shell \in Kinds /\ mode = "prompt" /\ line = "plain" /\ count = 0 /\ enters = 0
  /\ focused = FALSE /\ screen = PromptArea(1) /\ typed = 1
  /\ seq = 1 /\ pendingSeq = -1 /\ display = 0
  /\ asking = FALSE /\ bubble = NoFile /\ ghost = 0
  /\ view = NoView /\ posted = 0 /\ waiting = << >> /\ breaks = 0
  /\ link = "none" /\ child = [at |-> "idle", message |-> 0, base |-> NoFile] /\ pipe = << >>
  /\ crowded = FALSE /\ strayed = FALSE

Edit ==
  /\ mode = "prompt" /\ typed' = 3 - typed
  /\ screen' = Cleared(RowsAbove) \o PromptArea(typed')
  /\ display' = 0
  /\ UNCHANGED <<shell, mode, line, count, enters, focused, files, seq, pendingSeq,
                 daemon, pipe, history>>

\* The row above the prompt is blanked before a command prints under it.
BlankedRow == Len(screen) - RowsAbove
Blanked == IF AskedHere /\ BlankedRow > 0 THEN [screen EXCEPT ![BlankedRow] = Blank(count)] ELSE screen

\* A message in flight is printed after the file was last written.
InFlight == child.at # "idle" \/ pipe # << >>

\* preexec, which bash has not: the bubble is forgotten and the asking line goes.
Preexec ==
  IF shell = "bash" THEN UNCHANGED <<bubble, pendingSeq, screen, crowded, strayed>>
  ELSE /\ bubble' = NoFile
       /\ screen' = Blanked
       /\ pendingSeq' = IF AskedHere THEN -1 ELSE pendingSeq
       /\ crowded' = FALSE /\ strayed' = InFlight

Enter(what) ==
  /\ mode = "prompt" /\ count < MaxLines
  /\ mode' = "running" /\ line' = what /\ count' = count + 1
  /\ Preexec
  /\ display' = 0
  /\ UNCHANGED <<shell, enters, focused, typed, seq, asking, ghost, daemon, pipe>>

\* What the command prints.  `kintsu why` asks the daemon and says so, or answers
\* in place, in bash always; `kintsu fix` answers in place; both may fail.
PlainEnds ==
  /\ line \in {"plain", "other"}
  /\ screen' = Append(screen, Output(count))
  /\ UNCHANGED <<asking, bubble, strayed>>
Asks ==
  /\ line = "why" /\ shell # "bash"
  /\ screen' = Append(screen, Asking(count))
  /\ asking' = TRUE
  /\ UNCHANGED <<bubble, strayed>>
AnswersInPlace ==
  /\ line \in {"why", "fix"}
  /\ screen' = Append(screen, Said(count))
  /\ bubble' = <<Said(count)>>
  /\ strayed' = (strayed \/ asking \/ InFlight)
  /\ UNCHANGED asking
Fails ==
  /\ line \in {"why", "fix"}
  /\ screen' = Append(screen, Output(count))
  /\ strayed' = (strayed \/ bubble # NoFile)
  /\ UNCHANGED <<asking, bubble>>

Ends ==
  /\ mode = "running" /\ mode' = "ended"
  /\ PlainEnds \/ Asks \/ AnswersInPlace \/ Fails
  /\ UNCHANGED <<shell, line, count, enters, focused, typed, ghost, inner, daemon,
                 pipe, crowded>>
-----------------------------------------------------------------------------
(***************************************************************************)
(* The report.  The hook forgets what no longer holds and `kintsu triage`  *)
(* waits for the daemon's decision, or decides alone.                      *)
(***************************************************************************)
\* precmd of zsh counts the prompt, postexec of fish leaves it to fish_prompt.
Counts == IF shell = "zsh" THEN seq' = seq + 1 ELSE UNCHANGED seq

\* __kintsu_subscribe, at most once in 30 s.
Subscribes ==
  IF shell = "zsh" /\ link = "none" THEN link' \in {"none", "starting"} ELSE UNCHANGED link

\* __kintsu_take_marker; bash leaves the marker to its panel.
TakesMarker(left) ==
  IF shell = "bash" THEN asking' = left /\ UNCHANGED pendingSeq
  ELSE /\ asking' = FALSE
       /\ pendingSeq' = IF left THEN seq' + (IF shell = "fish" THEN 1 ELSE 0) ELSE pendingSeq

\* The ghost of an earlier failure goes, in fish and zsh, with every line.
KeepsGhost == ghost
NoGhost == IF shell = "bash" THEN ghost ELSE 0

\* kintsu's own lines are not reported; bash keeps the markers of why and fix.
Forgets == shell = "bash" /\ line \notin {"why", "fix"}
Hook ==
  /\ mode = "ended"
  /\ mode' = IF line = "plain" THEN "deciding" ELSE "told"
  /\ Counts /\ Subscribes
  /\ ghost' = NoGhost
  /\ \/ /\ Forgets
        /\ bubble' = NoFile /\ asking' = FALSE /\ strayed' = FALSE /\ UNCHANGED pendingSeq
     \/ /\ ~Forgets /\ line = "plain"
        /\ UNCHANGED <<bubble, asking, strayed, pendingSeq>>
     \/ /\ ~Forgets /\ line # "plain"
        /\ TakesMarker(asking) /\ UNCHANGED <<bubble, strayed>>
  /\ UNCHANGED <<shell, line, count, enters, focused, screen, typed, display, view,
                 posted, waiting, breaks, child, pipe, crowded>>

\* on_command_finished: a failure is offered, with a fix or with a model being
\* asked or with neither, and what waited comes along.
Decide ==
  /\ mode = "deciding" /\ view = NoView
  /\ \E offered, fix, model \in BOOLEAN :
       /\ fix \/ model => offered
       /\ ~(fix /\ model)
       /\ focused' = offered
       /\ view' = [toast |-> IF offered THEN Toast(count) ELSE << >>,
                   bubbles |-> waiting, pending |-> model, ghost |-> fix]
       /\ view' # NoView
  /\ waiting' = << >>
  /\ UNCHANGED <<shell, mode, line, count, enters, screen, typed, files, inner, posted,
                 link, breaks, child, pipe, history>>

\* `kintsu triage` prints the toast, its asking line last, then the bubbles, and
\* leaves the markers.
Kept == view.toast \o Texts(view.bubbles)
AskingLine == IF view.pending THEN <<Asking(count)>> ELSE << >>
Shows ==
  /\ screen' = screen \o view.toast \o AskingLine \o Texts(view.bubbles)
  /\ bubble' = IF Kept = << >> THEN bubble ELSE Kept
  /\ ghost' = IF view.ghost THEN count ELSE ghost
  /\ TakesMarker(asking \/ view.pending)
  /\ crowded' = (view.pending /\ view.bubbles # << >>)
  /\ strayed' = (strayed \/ InFlight \/ bubble # NoFile)
  /\ view' = NoView

Show ==
  /\ mode = "deciding" /\ view # NoView
  /\ mode' = "told"
  /\ UNCHANGED seq /\ Shows
  /\ UNCHANGED <<shell, line, count, enters, focused, typed, display, posted, waiting,
                 link, breaks, child, pipe>>

\* A command that is not offered and finds nothing waiting; and, without the
\* daemon, the local path: nobody is asked and nothing is drained.
Quiet ==
  /\ mode = "deciding" /\ view = NoView /\ waiting = << >>
  /\ mode' = "told" /\ focused' \in {FALSE, focused}
  /\ UNCHANGED <<shell, line, count, enters, screen, typed, files, inner, daemon, pipe, history>>
Local ==
  /\ mode = "deciding" /\ view = NoView
  /\ mode' = "told" /\ focused' = TRUE
  /\ screen' = screen \o Toast(count)
  /\ bubble' = Toast(count)
  /\ \E fix \in BOOLEAN : ghost' = IF fix /\ shell # "bash" THEN count ELSE ghost
  /\ strayed' = (strayed \/ InFlight \/ bubble # NoFile)
  /\ UNCHANGED <<shell, line, count, enters, typed, asking, inner, daemon, pipe, crowded>>
-----------------------------------------------------------------------------
(***************************************************************************)
(* The prompt.                                                             *)
(***************************************************************************)
\* fish_prompt counts; zsh's line-init takes the ghost.
DrawPrompt ==
  /\ mode = "told" /\ mode' = "prompt"
  /\ screen' = screen \o PromptArea(1) /\ typed' = 1
  /\ IF shell = "zsh" THEN display' = ghost /\ ghost' = 0 ELSE UNCHANGED <<display, ghost>>
  /\ seq' = IF shell = "fish" THEN seq + 1 ELSE seq
  /\ UNCHANGED <<shell, line, count, enters, focused, asking, bubble, pendingSeq,
                 daemon, pipe, history>>

\* An empty Enter puts a prompt between the bubble and the new one.
EmptyEnter ==
  /\ mode = "prompt" /\ typed = 1 /\ enters < MaxEnters
  /\ enters' = enters + 1
  /\ seq' = IF shell = "bash" THEN seq ELSE seq + 1
  /\ bubble' = NoFile
  /\ asking' = IF shell = "bash" THEN FALSE ELSE asking
  /\ ghost' = IF shell = "zsh" THEN 0 ELSE ghost
  /\ display' = 0
  /\ Subscribes
  /\ screen' = screen \o PromptArea(1)
  /\ crowded' = FALSE /\ strayed' = InFlight
  /\ UNCHANGED <<shell, mode, line, count, focused, typed, pendingSeq, view, posted,
                 waiting, breaks, child, pipe>>

\* Tab takes the ghost of an empty line.
GhostOffered == IF shell = "fish" THEN ghost ELSE display
TakeGhost ==
  /\ mode = "prompt" /\ typed = 1 /\ shell # "bash" /\ GhostOffered # 0
  /\ display' = 0
  /\ ghost' = IF shell = "fish" THEN 0 ELSE ghost
  /\ UNCHANGED <<shell, mode, line, count, enters, focused, screen, typed, asking, bubble,
                 seq, pendingSeq, daemon, pipe, history>>
-----------------------------------------------------------------------------
(***************************************************************************)
(* Messages.                                                               *)
(***************************************************************************)
\* A model or a rule answers about a failure of this shell.
Posted ==
  /\ posted < MaxMessages /\ focused
  /\ posted' = posted + 1
  /\ waiting' = Append(waiting, posted')
  /\ UNCHANGED <<shell, mode, line, count, enters, focused, screen, typed, files, inner,
                 view, link, breaks, child, pipe, history>>

\* The subscriber of zsh: it prints a message into the pipe, then reads the
\* bubble file and writes it back with the message under it.
Attach ==
  /\ link = "starting" /\ link' = "live"
  /\ UNCHANGED <<shell, mode, line, count, enters, focused, screen, typed, files, inner,
                 view, posted, waiting, breaks, child, pipe, history>>
Receive ==
  /\ link = "live" /\ waiting # << >> /\ child.at = "idle"
  /\ child' = [at |-> "printed", message |-> Head(waiting), base |-> NoFile]
  /\ pipe' = Append(pipe, Head(waiting))
  /\ waiting' = Tail(waiting)
  /\ UNCHANGED <<shell, mode, line, count, enters, focused, screen, typed, files, inner,
                 view, posted, link, breaks, history>>
ReadBubble ==
  /\ child.at = "printed"
  /\ child' = [at |-> "read", message |-> child.message, base |-> bubble]
  /\ UNCHANGED <<shell, mode, line, count, enters, focused, screen, typed, files, inner,
                 view, posted, waiting, link, breaks, pipe, history>>
WriteBubble ==
  /\ child.at = "read"
  /\ bubble' = Appended(child.base, <<child.message>>)
  /\ child' = [at |-> "idle", message |-> 0, base |-> NoFile]
  /\ UNCHANGED <<shell, mode, line, count, enters, focused, screen, typed, asking, ghost,
                 inner, view, posted, waiting, link, breaks, pipe, history>>
Break ==
  /\ link = "live" /\ child.at = "idle" /\ breaks < MaxBreaks
  /\ link' = "none" /\ breaks' = breaks + 1
  /\ UNCHANGED <<shell, mode, line, count, enters, focused, screen, typed, files, inner,
                 view, posted, waiting, child, pipe, history>>

\* Text lands above the prompt, in place of the asking line when it is there.
LandsAbove(texts) ==
  LET up == RowsAbove + (IF AskedHere THEN 1 ELSE 0) IN
  /\ screen' = Cleared(up) \o texts \o PromptArea(typed)
  /\ pendingSeq' = -1 /\ crowded' = FALSE /\ strayed' = (strayed \/ crowded)

\* __kintsu_deliver: all that came within 0.05 s.
Deliver ==
  /\ shell = "zsh" /\ mode = "prompt" /\ pipe # << >>
  /\ \E n \in 1 .. Len(pipe) :
       /\ LandsAbove(Texts(SubSeq(pipe, 1, n)))
       /\ pipe' = SubSeq(pipe, n + 1, Len(pipe))
  /\ UNCHANGED <<shell, mode, line, count, enters, focused, typed, files, seq, display,
                 daemon>>

\* __kintsu_on_message: `kintsu pending` takes what waits and notes it in the
\* bubble; between a command and its prompt the cursor is under what was printed.
UnderOutput(texts) ==
  LET up == IF pendingSeq = seq + 1 THEN 1 ELSE 0 IN
  /\ screen' = Cleared(up) \o texts
  /\ pendingSeq' = IF up = 1 THEN -1 ELSE pendingSeq
  /\ crowded' = (crowded /\ up = 0) /\ strayed' = (strayed \/ crowded)
OnMessage ==
  /\ shell = "fish" /\ mode \in {"told", "prompt"} /\ waiting # << >>
  /\ bubble' = Appended(bubble, waiting)
  /\ IF mode = "prompt" THEN LandsAbove(Texts(waiting)) ELSE UnderOutput(Texts(waiting))
  /\ waiting' = << >>
  /\ UNCHANGED <<shell, mode, line, count, enters, focused, typed, asking, ghost, seq,
                 display, view, posted, link, breaks, child, pipe>>
-----------------------------------------------------------------------------
(***************************************************************************)
(* The panel: from under the edited text up over the prompt, the asking    *)
(* line and the bubble, and on close the bubble is put back.  Without a    *)
(* failure in focus only the prompt is cleared.                            *)
(***************************************************************************)
AskingOnScreen == IF shell = "bash" THEN asking ELSE AskedHere
AbovePrompt == RowsAbove
Above == RowsAbove + (IF AskingOnScreen THEN 1 ELSE 0)

Panel ==
  LET back == IF focused THEN bubble ELSE << >>
      up == Above + Len(back)
  IN
  /\ mode = "prompt"
  /\ screen' = Cleared(up) \o back \o PromptArea(typed)
  /\ asking' = IF shell = "bash" THEN FALSE ELSE asking
  /\ pendingSeq' = IF shell = "bash" THEN pendingSeq ELSE -1
  /\ crowded' = FALSE /\ strayed' = (strayed \/ InFlight)
  /\ display' = 0
  /\ UNCHANGED <<shell, mode, line, count, enters, focused, typed, bubble, ghost, seq,
                 daemon, pipe>>
-----------------------------------------------------------------------------
Next ==
  \/ Edit \/ (\E what \in {"plain", "why", "fix", "other"} : Enter(what)) \/ EmptyEnter \/ TakeGhost
  \/ Ends \/ Hook \/ Decide \/ Show \/ Quiet \/ Local \/ DrawPrompt
  \/ Posted \/ Attach \/ Receive \/ ReadBubble \/ WriteBubble \/ Break \/ Deliver \/ OnMessage
  \/ Panel

Spec == Init /\ [][Next]_vars
-----------------------------------------------------------------------------
(***************************************************************************)
(* Properties.                                                             *)
(***************************************************************************)
\* A message that lands, and a command that starts, take no row off the screen but
\* the one that said a model was being asked, the last one, as long as nothing was
\* printed under it (__kintsu_deliver, __kintsu_on_message and preexec count rows only).
Printed == IF mode = "prompt" THEN Cleared(RowsAbove) ELSE screen
AskingIsLast(rows) == rows # << >> /\ IsAsking(Last(rows))
OnlyAskingGoes ==
  [][(Deliver \/ OnMessage \/ (mode = "prompt" /\ mode' = "running")) /\ ~crowded =>
       \/ IsPrefix(Printed, screen')
       \/ AskingIsLast(Printed) /\ IsPrefix(Front(Printed), screen')]_vars

\* The panel closes on the screen it opened on, the asking line apart, as long as
\* the bubble file was not overwritten while a message was on its way (the hook
\* counts the rows of the prompt, the panel those of the file).
PanelPutsBack ==
  [][Panel /\ ~strayed /\ ~InFlight =>
       \/ screen' = screen
       \/ \E i \in DOMAIN screen : IsAsking(screen[i]) /\ screen' = RemoveAt(screen, i)]_vars

\* The fix a prompt offers to type is the fix of the line just before it.
GhostIsForLast == mode = "prompt" => GhostOffered \in {0, count}
=============================================================================
