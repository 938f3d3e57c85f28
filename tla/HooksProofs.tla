---------------------------- MODULE HooksProofs ----------------------------
(***************************************************************************)
(* The fix a prompt offers is for the line before it; a message that lands *)
(* takes the asking line and nothing else; and the panel puts back what it *)
(* found: in every shell, with any number of lines, prompts and messages.  *)
(*                                                                         *)
(* The ghost changes hands: from the file to what the prompt shows in zsh, *)
(* while fish keeps it in the file until Tab and bash never looks.  The    *)
(* file may hold an older line's fix only while a command runs and until   *)
(* the hook has seen its end.                                              *)
(*                                                                         *)
(* For the asking line it is enough to know when one is the last row above *)
(* the prompt.  For the panel the screen is cut into what is above the     *)
(* bubble, the two halves of the bubble, the asking line between them, and *)
(* the prompt; what the subscriber has under way counts with the file.     *)
(***************************************************************************)
EXTENDS Hooks, TLAPS

Modes == {"prompt", "running", "ended", "deciding", "told"}

\* Where the ghost may be, per shell and per step of the line.
Fresh(n) == n \in {0, count}
FileFresh == shell # "bash" /\ mode \in {"deciding", "told"} => Fresh(ghost)
FishFresh == shell = "fish" /\ mode = "prompt" => Fresh(ghost)
ZshFresh  == shell = "zsh" /\ mode = "prompt" => Fresh(display)
BashBlind == shell = "bash" => display = 0
GhostInv ==
  /\ shell \in {"zsh", "fish", "bash"} /\ mode \in Modes
  /\ FileFresh /\ FishFresh /\ ZshFresh /\ BashBlind

LEMMA GhostInit == ASSUME HooksAssumption PROVE Init => GhostInv
  BY DEF HooksAssumption, Init, GhostInv, FileFresh, FishFresh, ZshFresh, BashBlind, Fresh, Modes

\* The steps between two prompts.
LEMMA GhostLine ==
  ASSUME GhostInv,
         \/ \E what \in {"plain", "why", "fix", "other"} : Enter(what)
         \/ EmptyEnter \/ Ends \/ Hook \/ Decide \/ Show \/ Quiet \/ Local \/ DrawPrompt
  PROVE  GhostInv'
<1> USE DEF GhostInv, FileFresh, FishFresh, ZshFresh, BashBlind, Fresh, Modes
<1>1. CASE \E what \in {"plain", "why", "fix", "other"} : Enter(what)
  BY <1>1 DEF Enter
<1>2. CASE EmptyEnter  BY <1>2 DEF EmptyEnter
<1>3. CASE Ends        BY <1>3 DEF Ends, inner
<1>4. CASE Hook        BY <1>4 DEF Hook, NoGhost
<1>5. CASE Decide      BY <1>5 DEF Decide, files, inner
<1>6. CASE Show        BY <1>6 DEF Show, Shows
<1>7. CASE Quiet       BY <1>7 DEF Quiet, files, inner
<1>8. CASE Local       BY <1>8 DEF Local, inner
<1>9. CASE DrawPrompt  BY <1>9 DEF DrawPrompt
<1> QED BY <1>1, <1>2, <1>3, <1>4, <1>5, <1>6, <1>7, <1>8, <1>9

\* The steps at a prompt, and those of the messages.
LEMMA GhostPrompt ==
  ASSUME GhostInv,
         \/ Edit \/ TakeGhost \/ Panel \/ Deliver \/ OnMessage
         \/ Posted \/ Attach \/ Receive \/ ReadBubble \/ WriteBubble \/ Break
  PROVE  GhostInv'
<1> USE DEF GhostInv, FileFresh, FishFresh, ZshFresh, BashBlind, Fresh, Modes
<1>1. CASE Edit         BY <1>1 DEF Edit, files
<1>2. CASE TakeGhost    BY <1>2 DEF TakeGhost, GhostOffered
<1>3. CASE Panel        BY <1>3 DEF Panel
<1>4. CASE Deliver      BY <1>4 DEF Deliver, files
<1>5. CASE OnMessage    BY <1>5 DEF OnMessage
<1>6. CASE Posted       BY <1>6 DEF Posted, files, inner
<1>7. CASE Attach       BY <1>7 DEF Attach, files, inner
<1>8. CASE Receive      BY <1>8 DEF Receive, files, inner
<1>9. CASE ReadBubble   BY <1>9 DEF ReadBubble, files, inner
<1>10. CASE WriteBubble BY <1>10 DEF WriteBubble, inner
<1>11. CASE Break       BY <1>11 DEF Break, files, inner
<1> QED BY <1>1, <1>2, <1>3, <1>4, <1>5, <1>6, <1>7, <1>8, <1>9, <1>10, <1>11

LEMMA GhostStep == ASSUME GhostInv, [Next]_vars PROVE GhostInv'
<1>1. CASE UNCHANGED vars
  BY <1>1 DEF vars, files, inner, GhostInv, FileFresh, FishFresh, ZshFresh, BashBlind, Fresh, Modes
<1>2. CASE Next  BY <1>2, GhostLine, GhostPrompt DEF Next
<1> QED BY <1>1, <1>2

LEMMA GhostMeans == GhostInv => GhostIsForLast
  BY DEF GhostInv, FishFresh, ZshFresh, BashBlind, Fresh, GhostIsForLast, GhostOffered

\* The fix that a prompt offers to type (line-init of zsh, Tab of fish) is always
\* that of the last line entered.
THEOREM GhostFollows == ASSUME HooksAssumption PROVE Spec => []GhostIsForLast
<1>1. Init => GhostInv                  BY GhostInit
<1>2. GhostInv /\ [Next]_vars => GhostInv'  BY GhostStep
<1> QED BY <1>1, <1>2, GhostMeans, PTL DEF Spec
-----------------------------------------------------------------------------
(***************************************************************************)
(* Rows, and columns of rows.                                              *)
(***************************************************************************)
Row ==
  {Prompt} \union
  UNION {{Output(n), Asking(n), Said(n), Message(n), Blank(n), <<"words", n>>} : n \in Int}

LEMMA RowsAre ==
  /\ \A n \in Int : /\ Output(n) \in Row /\ Asking(n) \in Row /\ Said(n) \in Row
                    /\ Message(n) \in Row /\ Blank(n) \in Row
                    /\ Toast(n) \in Seq(Row) /\ Toast(n) # << >>
                    /\ IsAsking(Asking(n))
  /\ Prompt \in Row
<1>1. Prompt \in Row
  BY DEF Row
<1>2. \A n \in Int : Output(n) \in Row /\ Asking(n) \in Row /\ Said(n) \in Row
  BY DEF Row
<1>3. \A n \in Int : Message(n) \in Row /\ Blank(n) \in Row /\ <<"words", n>> \in Row
  BY DEF Row
<1>4. \A n \in Int : Toast(n) \in Seq(Row) /\ Toast(n) # << >>
  <2> SUFFICES ASSUME NEW n \in Int PROVE Toast(n) \in Seq(Row) /\ Toast(n) # << >>
    OBVIOUS
  <2>1. PICK first, second : first = Said(n) /\ second = <<"words", n>>
    OBVIOUS
  <2>2. first \in Row /\ second \in Row
    BY <1>2, <1>3, <2>1
  <2>3. <<first, second>> \in Seq(Row) /\ Len(<<first, second>>) = 2
    BY <2>2
  <2>4. Toast(n) = <<first, second>>
    BY <2>1 DEF Toast
  <2>5. Len(<< >>) = 0
    OBVIOUS
  <2> QED BY <2>3, <2>4, <2>5
<1>5. \A n \in Int : IsAsking(Asking(n))
  BY DEF IsAsking, Asking
<1> QED BY <1>1, <1>2, <1>3, <1>4, <1>5

LEMMA Column ==
  ASSUME NEW a \in Seq(Row), NEW b \in Seq(Row)
  PROVE  /\ a \o b \in Seq(Row) /\ Len(a \o b) = Len(a) + Len(b)
         /\ a \o << >> = a /\ << >> \o a = a
         /\ SubSeq(a \o b, 1, Len(a)) = a
<1>1. a \o b \in Seq(Row) /\ Len(a \o b) = Len(a) + Len(b)
  OBVIOUS
<1>2. a \o << >> = a /\ << >> \o a = a
  OBVIOUS
<1>3. SubSeq(a \o b, 1, Len(a)) = a
  <2>1. \A i \in 1 .. Len(a) : (a \o b)[i] = a[i]
    OBVIOUS
  <2> QED BY <1>1, <2>1
<1> QED BY <1>1, <1>2, <1>3

LEMMA Stacked ==
  ASSUME NEW a \in Seq(Row), NEW b \in Seq(Row), NEW c \in Seq(Row)
  PROVE  a \o (b \o c) = (a \o b) \o c
OBVIOUS

\* The same, with columns made of two.
OfThree(x, h, p, b) == (x \o h) \o (p \o b) = (x \o (h \o p)) \o b
OfFour(x, h, m, t, b) == (x \o h) \o (m \o (t \o b)) = ((x \o h) \o (m \o t)) \o b

LEMMA StackedOn ==
  ASSUME NEW x \in Seq(Row), NEW h \in Seq(Row), NEW p \in Seq(Row), NEW b \in Seq(Row)
  PROVE  OfThree(x, h, p, b)
<1>1. x \o (h \o p) = (x \o h) \o p
  BY Stacked
<1>2. PICK u \in Seq(Row) : u = x \o h
  BY Column
<1>3. u \o (p \o b) = (u \o p) \o b
  BY Stacked
<1> QED BY <1>1, <1>2, <1>3 DEF OfThree

LEMMA StackedTwice ==
  ASSUME NEW x \in Seq(Row), NEW h \in Seq(Row), NEW m \in Seq(Row), NEW t \in Seq(Row),
         NEW b \in Seq(Row)
  PROVE  OfFour(x, h, m, t, b)
<1>1. m \o (t \o b) = (m \o t) \o b
  BY Stacked
<1>2. PICK u, v \in Seq(Row) : u = x \o h /\ v = m \o t
  BY Column
<1>3. u \o (v \o b) = (u \o v) \o b
  BY Stacked
<1> QED BY <1>1, <1>2, <1>3 DEF OfFour

LEMMA AtTop == ASSUME NEW a \in Seq(Row), NEW b \in Seq(Row) PROVE IsPrefix(a, a \o b)
<1>1. Len(a) <= Len(a \o b)
  OBVIOUS
<1>2. SubSeq(a, 1, Len(a)) = a
  OBVIOUS
<1> QED BY <1>1, <1>2, Column DEF IsPrefix

LEMMA PromptIs ==
  ASSUME HooksAssumption, NEW rows \in {1, 2}
  PROVE  PromptArea(rows) \in Seq(Row) /\ Len(PromptArea(rows)) = PromptRows + rows - 1
<1>1. PromptRows + rows - 1 \in Nat
  BY DEF HooksAssumption
<1> QED BY <1>1, RowsAre DEF PromptArea

LEMMA TextsAre ==
  ASSUME NEW p \in Seq(Int), NEW q \in Seq(Int)
  PROVE  /\ Texts(p) \in Seq(Row) /\ Len(Texts(p)) = Len(p)
         /\ Texts(p \o q) = Texts(p) \o Texts(q)
<1>1. \A s \in Seq(Int) : Texts(s) \in Seq(Row) /\ Len(Texts(s)) = Len(s)
                           /\ \A i \in 1 .. Len(s) : Texts(s)[i] = Message(s[i])
  <2> SUFFICES ASSUME NEW s \in Seq(Int)
               PROVE  Texts(s) \in Seq(Row) /\ Len(Texts(s)) = Len(s)
                      /\ \A i \in 1 .. Len(s) : Texts(s)[i] = Message(s[i])
    OBVIOUS
  <2>1. DOMAIN s = 1 .. Len(s) /\ Len(s) \in Nat /\ \A i \in 1 .. Len(s) : s[i] \in Int
    OBVIOUS
  <2>2. \A i \in 1 .. Len(s) : Message(s[i]) \in Row
    BY <2>1, RowsAre
  <2>3. Texts(s) = [i \in 1 .. Len(s) |-> Message(s[i])]
    BY <2>1 DEF Texts
  <2> QED BY <2>1, <2>2, <2>3
<1>2. Texts(p \o q) = Texts(p) \o Texts(q)
  <2>1. p \o q \in Seq(Int) /\ Len(p \o q) = Len(p) + Len(q)
    OBVIOUS
  <2>2. /\ Texts(p \o q) \in Seq(Row) /\ Texts(p) \o Texts(q) \in Seq(Row)
        /\ Len(Texts(p \o q)) = Len(p) + Len(q) /\ Len(Texts(p) \o Texts(q)) = Len(p) + Len(q)
    <3>1. Texts(p) \in Seq(Row) /\ Len(Texts(p)) = Len(p)
      BY <1>1
    <3>2. Texts(q) \in Seq(Row) /\ Len(Texts(q)) = Len(q)
      BY <1>1
    <3>3. Texts(p \o q) \in Seq(Row) /\ Len(Texts(p \o q)) = Len(p) + Len(q)
      BY <1>1, <2>1
    <3> QED BY <3>1, <3>2, <3>3, Column
  <2>3. ASSUME NEW i \in 1 .. Len(p) + Len(q)
        PROVE  Texts(p \o q)[i] = (Texts(p) \o Texts(q))[i]
    <3>1. Texts(p \o q)[i] = Message((p \o q)[i])
      BY <1>1, <2>1
    <3>2. CASE i <= Len(p)
      <4>1. (p \o q)[i] = p[i] /\ (Texts(p) \o Texts(q))[i] = Texts(p)[i] /\ i \in 1 .. Len(p)
        BY <1>1, <3>2
      <4> QED BY <1>1, <3>1, <4>1
    <3>3. CASE ~(i <= Len(p))
      <4>1. i - Len(p) \in 1 .. Len(q)
        BY <3>3
      <4>2. (p \o q)[i] = q[i - Len(p)] /\ (Texts(p) \o Texts(q))[i] = Texts(q)[i - Len(p)]
        BY <1>1, <3>3
      <4> QED BY <1>1, <3>1, <4>1, <4>2
    <3> QED BY <3>2, <3>3
  <2> QED BY <2>2, <2>3
<1> QED BY <1>1, <1>2

LEMMA TextOf == Texts(<< >>) = << >> /\ \A m \in Int : Texts(<<m>>) = <<Message(m)>>
<1>1. Texts(<< >>) = << >>
  BY DEF Texts
<1>2. ASSUME NEW m \in Int PROVE Texts(<<m>>) = <<Message(m)>>
  <2>1. DOMAIN <<m>> = {1} /\ <<m>>[1] = m
    OBVIOUS
  <2>2. Texts(<<m>>) = [i \in {1} |-> Message(m)]
    BY <2>1 DEF Texts
  <2>3. <<Message(m)>> = [i \in {1} |-> Message(m)]
    OBVIOUS
  <2> QED BY <2>2, <2>3
<1> QED BY <1>1, <1>2

\* Clearing as many rows as stand below leaves what stands above.
LEMMA ClearedTo ==
  ASSUME NEW a \in Seq(Row), NEW b \in Seq(Row)
  PROVE  /\ Len(b) <= Len(a \o b)
         /\ SubSeq(a \o b, 1, Len(a \o b) - Least(Len(b), Len(a \o b))) = a
<1>1. Len(a \o b) = Len(a) + Len(b) /\ Len(a) \in Nat /\ Len(b) \in Nat
  BY Column
<1>2. Len(b) <= Len(a \o b) /\ Len(a \o b) - Least(Len(b), Len(a \o b)) = Len(a)
  BY <1>1 DEF Least
<1> QED BY <1>2, Column

LEMMA ClearedIs ==
  ASSUME NEW up \in Nat, screen \in Seq(Row), up <= Len(screen)
  PROVE  /\ Cleared(up) \in Seq(Row) /\ Len(Cleared(up)) = Len(screen) - up
         /\ \A i \in 1 .. Len(screen) - up : Cleared(up)[i] = screen[i]
BY DEF Cleared, Least
-----------------------------------------------------------------------------
(***************************************************************************)
(* The screen and the marker files.                                        *)
(***************************************************************************)
\* Whether an asking line is meant to be on screen: the marker says so until the
\* hook has taken it, and always in bash.
Ahead == IF shell = "fish" /\ mode = "told" THEN 1 ELSE 0
Asked ==
  IF shell = "bash" \/ mode \in {"running", "ended", "deciding"} THEN asking
  ELSE pendingSeq = seq + Ahead

Types ==
  /\ shell \in {"zsh", "fish", "bash"} /\ mode \in Modes
  /\ line \in {"plain", "why", "fix", "other"}
  /\ count \in Int /\ posted \in Int /\ seq \in Nat \ {0} /\ pendingSeq \in Int /\ typed \in {1, 2}
  /\ screen \in Seq(Row) /\ bubble \in Seq(Row)
  /\ waiting \in Seq(Int) /\ pipe \in Seq(Int)
Views ==
  /\ view.toast \in Seq(Row) /\ view.bubbles \in Seq(Int)
  /\ view.pending => mode = "deciding" /\ focused /\ view.toast # << >>
Subscriber ==
  /\ child.at \in {"idle", "printed", "read"} /\ child.message \in Int
  /\ child.base \in Seq(Row)
  /\ shell # "zsh" => link = "none" /\ child.at = "idle" /\ pipe = << >>

\* What the numbers of prompts and the flags say of one another.
Counted ==
  /\ shell = "bash" => pendingSeq = -1 /\ seq = 1
  /\ shell # "bash" /\ mode \in {"running", "ended", "deciding"} => pendingSeq < seq
  /\ mode \in {"told", "prompt"} => pendingSeq <= seq + Ahead
Marked ==
  /\ shell # "bash" /\ asking => mode = "ended" /\ line = "why"
  /\ mode = "deciding" => ~asking
  /\ shell # "bash" /\ mode \in {"running", "ended", "deciding"} => ~crowded
  /\ (mode \in {"told", "prompt"} \/ shell = "bash") /\ Asked /\ crowded => focused
  /\ shell = "bash" /\ asking /\ ~strayed => bubble # << >>

LEMMA ViewsInit == Init => Views /\ Subscriber
BY DEF Init, Views, Subscriber, NoView, NoFile

LEMMA FlagsInit == ASSUME HooksAssumption, Init PROVE Types /\ Counted /\ Marked
<1>1. shell \in {"zsh", "fish", "bash"} /\ mode = "prompt" /\ seq = 1 /\ pendingSeq = -1
  BY DEF Init, HooksAssumption
<1>2. Types
  <2>1. screen \in Seq(Row)
    BY PromptIs DEF Init
  <2> QED BY <1>1, <2>1 DEF Init, Types, Modes, NoFile
<1>3. Counted /\ Marked
  BY <1>1 DEF Init, Counted, Marked, Asked, Ahead
<1> QED BY <1>2, <1>3

LEMMA ClearedRows ==
  ASSUME screen \in Seq(Row), NEW up \in Nat
  PROVE  Cleared(up) \in Seq(Row)
BY DEF Cleared, Least

LEMMA PromptUp == ASSUME HooksAssumption, typed \in {1, 2} PROVE RowsAbove \in Nat
BY DEF HooksAssumption, RowsAbove

\* What lands on the screen is rows.
LEMMA Landed ==
  ASSUME HooksAssumption, screen \in Seq(Row), typed \in {1, 2},
         NEW up \in Nat, NEW texts \in Seq(Row), NEW rows \in {1, 2}
  PROVE  /\ Cleared(up) \o texts \in Seq(Row) /\ screen \o texts \in Seq(Row)
         /\ Cleared(up) \o texts \o PromptArea(rows) \in Seq(Row)
         /\ Cleared(up) \o PromptArea(rows) \in Seq(Row)
<1>1. Cleared(up) \in Seq(Row)
  BY ClearedRows
<1>2. PromptArea(rows) \in Seq(Row)
  BY PromptIs
<1>3. Cleared(up) \o texts \in Seq(Row)
  BY <1>1, Column
<1> QED BY <1>1, <1>2, <1>3, Column

LEMMA TypesPrompt ==
  ASSUME HooksAssumption, Types,
         \/ Edit \/ EmptyEnter \/ DrawPrompt \/ TakeGhost \/ Panel
         \/ \E what \in {"plain", "why", "fix", "other"} : Enter(what)
  PROVE  Types'
<1> USE DEF Types, Modes
<1>0. RowsAbove \in Nat /\ Above \in Nat
  BY PromptUp DEF Above
<1>1. CASE Edit
  <2>1. typed' \in {1, 2} /\ screen' = Cleared(RowsAbove) \o PromptArea(typed')
    BY <1>1 DEF Edit
  <2>2. screen' \in Seq(Row)
    BY <1>0, <2>1, ClearedRows, PromptIs, Column
  <2> QED BY <1>1, <2>1, <2>2 DEF Edit, files, daemon, history
<1>2. CASE EmptyEnter
  <2>1. screen' \in Seq(Row)
    BY <1>2, PromptIs, Column DEF EmptyEnter
  <2>2. bubble' \in Seq(Row) /\ seq' \in Nat \ {0}
    BY <1>2 DEF EmptyEnter, NoFile
  <2> QED BY <1>2, <2>1, <2>2 DEF EmptyEnter
<1>3. CASE DrawPrompt
  <2>1. screen' \in Seq(Row)
    BY <1>3, PromptIs, Column DEF DrawPrompt
  <2> QED BY <1>3, <2>1 DEF DrawPrompt, daemon, history
<1>4. CASE TakeGhost
  BY <1>4 DEF TakeGhost, daemon, history
<1>5. CASE Panel
  <2> DEFINE back == IF focused THEN bubble ELSE << >>
  <2>1. back \in Seq(Row) /\ Above + Len(back) \in Nat
    BY <1>0
  <2>2. screen' = Cleared(Above + Len(back)) \o back \o PromptArea(typed)
    BY <1>5 DEF Panel
  <2>3. screen' \in Seq(Row)
    <3> HIDE DEF back
    <3> QED BY <2>1, <2>2, Landed
  <2> QED BY <1>5, <2>3 DEF Panel, daemon
<1>6. CASE \E what \in {"plain", "why", "fix", "other"} : Enter(what)
  <2>1. PICK what \in {"plain", "why", "fix", "other"} : Enter(what)
    BY <1>6
  <2>2. Blanked \in Seq(Row)
    <3>1. PICK row, at : row = Blank(count) /\ at = BlankedRow
      OBVIOUS
    <3>2. row \in Row /\ at \in Int /\ at <= Len(screen)
      BY <1>0, <3>1, RowsAre DEF BlankedRow
    <3>3. ASSUME at > 0 PROVE [screen EXCEPT ![at] = row] \in Seq(Row)
      BY <3>2, <3>3
    <3> QED BY <3>1, <3>3 DEF Blanked
  <2>3. screen' \in Seq(Row) /\ bubble' \in Seq(Row)
    <3>1. screen' \in {screen, Blanked} /\ bubble' \in {bubble, << >>}
      BY <2>1 DEF Enter, Preexec, NoFile
    <3>2. << >> \in Seq(Row)
      OBVIOUS
    <3> QED BY <2>2, <3>1, <3>2
  <2> QED BY <2>1, <2>3 DEF Enter, Preexec, daemon
<1> QED BY <1>1, <1>2, <1>3, <1>4, <1>5, <1>6

LEMMA TypesLine ==
  ASSUME HooksAssumption, Types, Views, Ends \/ Hook \/ Decide \/ Show \/ Quiet \/ Local
  PROVE  Types'
<1> USE DEF Types, Modes
<1>0. \A n \in Int : /\ <<Output(n)>> \in Seq(Row) /\ <<Asking(n)>> \in Seq(Row)
                     /\ <<Said(n)>> \in Seq(Row) /\ Toast(n) \in Seq(Row)
  BY RowsAre
<1>1. CASE Ends
  <2>1. screen' \in Seq(Row)
    <3>1. \A row \in Row : Append(screen, row) \in Seq(Row)
      OBVIOUS
    <3>2. Output(count) \in Row /\ Asking(count) \in Row /\ Said(count) \in Row
      BY RowsAre
    <3> QED BY <1>1, <3>1, <3>2 DEF Ends, PlainEnds, Asks, AnswersInPlace, Fails
  <2>2. bubble' \in Seq(Row)
    BY <1>0, <1>1 DEF Ends, PlainEnds, Asks, AnswersInPlace, Fails
  <2> QED BY <1>1, <2>1, <2>2 DEF Ends, inner, daemon
<1>2. CASE Hook
  <2>1. seq' \in Nat \ {0}
    BY <1>2 DEF Hook, Counts
  <2>2. pendingSeq' \in Int
    BY <1>2, <2>1 DEF Hook, TakesMarker
  <2>3. bubble' \in {bubble, << >>} /\ mode' \in {"deciding", "told"}
    BY <1>2 DEF Hook, NoFile
  <2>4. bubble' \in Seq(Row)
    <3>1. << >> \in Seq(Row)
      OBVIOUS
    <3> QED BY <2>3, <3>1
  <2> QED BY <1>2, <2>1, <2>2, <2>3, <2>4 DEF Hook
<1>3. CASE Decide
  BY <1>3 DEF Decide, files, inner, history
<1>4. CASE Show
  <2>1. AskingLine \in Seq(Row) /\ Texts(view.bubbles) \in Seq(Row)
    BY <1>0, TextsAre DEF AskingLine, Views
  <2>2. screen' \in Seq(Row)
    <3>1. screen' = screen \o view.toast \o AskingLine \o Texts(view.bubbles)
      BY <1>4 DEF Show, Shows
    <3>2. screen \o view.toast \in Seq(Row) /\ view.toast \in Seq(Row)
      BY Column DEF Views
    <3>3. screen \o view.toast \o AskingLine \in Seq(Row)
      BY <2>1, <3>2, Column
    <3> QED BY <2>1, <3>1, <3>3, Column
  <2>3. bubble' \in Seq(Row)
    <3>1. Kept \in Seq(Row)
      BY <2>1, Column DEF Kept, Views
    <3> QED BY <1>4, <3>1 DEF Show, Shows
  <2>4. pendingSeq' \in Int
    BY <1>4 DEF Show, Shows, TakesMarker
  <2> QED BY <1>4, <2>2, <2>3, <2>4 DEF Show
<1>5. CASE Quiet
  BY <1>5 DEF Quiet, files, inner, daemon, history
<1>6. CASE Local
  <2>1. screen' \in Seq(Row) /\ bubble' \in Seq(Row)
    BY <1>0, <1>6, Column DEF Local
  <2> QED BY <1>6, <2>1 DEF Local, inner, daemon
<1> QED BY <1>1, <1>2, <1>3, <1>4, <1>5, <1>6

LEMMA TypesMessages ==
  ASSUME HooksAssumption, Types, Subscriber,
         Posted \/ Attach \/ Receive \/ ReadBubble \/ WriteBubble \/ Break \/ Deliver \/ OnMessage
  PROVE  Types'
<1> USE DEF Types, Modes
<1>1. CASE Posted
  BY <1>1 DEF Posted, files, inner, history
<1>2. CASE Attach \/ ReadBubble \/ Break
  BY <1>2 DEF Attach, ReadBubble, Break, files, inner, history
<1>3. CASE Receive
  BY <1>3 DEF Receive, files, inner, history
<1>4. CASE WriteBubble
  <2>1. bubble' = child.base \o Texts(<<child.message>>)
    BY <1>4 DEF WriteBubble, Appended
  <2>2. <<child.message>> \in Seq(Int)
    BY DEF Subscriber
  <2>3. Texts(<<child.message>>) \in Seq(Row)
    BY <2>2, TextsAre
  <2>4. bubble' \in Seq(Row)
    BY <2>1, <2>3, Column DEF Subscriber
  <2> QED BY <1>4, <2>4 DEF WriteBubble, inner, history
<1>5. CASE Deliver \/ OnMessage
  <2>0. \A up \in Nat, texts \in Seq(Row) :
          /\ Cleared(up) \o texts \in Seq(Row)
          /\ Cleared(up) \o texts \o PromptArea(typed) \in Seq(Row)
    BY Landed
  <2>1. ASSUME NEW p \in Seq(Int), LandsAbove(Texts(p))
        PROVE  screen' \in Seq(Row) /\ pendingSeq' \in Int
    <3>1. PICK up, texts : /\ up = RowsAbove + (IF AskedHere THEN 1 ELSE 0)
                           /\ texts = Texts(p)
      OBVIOUS
    <3>2. texts \in Seq(Row) /\ up \in Nat
      BY <3>1, TextsAre, PromptUp
    <3>3. screen' = Cleared(up) \o texts \o PromptArea(typed) /\ pendingSeq' = -1
      BY <2>1, <3>1 DEF LandsAbove
    <3> QED BY <2>0, <3>2, <3>3
  <2>2. CASE Deliver
    <3>1. PICK n \in 1 .. Len(pipe) :
            LandsAbove(Texts(SubSeq(pipe, 1, n))) /\ pipe' = SubSeq(pipe, n + 1, Len(pipe))
      BY <2>2 DEF Deliver
    <3>2. SubSeq(pipe, 1, n) \in Seq(Int) /\ pipe' \in Seq(Int)
      BY <3>1
    <3> QED BY <2>1, <2>2, <3>1, <3>2 DEF Deliver, files, daemon
  <2>3. CASE OnMessage
    <3>1. Texts(waiting) \in Seq(Row)
      BY TextsAre
    <3>2. bubble' \in Seq(Row) /\ waiting' \in Seq(Int)
      BY <2>3, <3>1, Column DEF OnMessage, Appended
    <3>3. screen' \in Seq(Row) /\ pendingSeq' \in Int
      <4>1. CASE mode = "prompt"
        BY <2>1, <2>3, <4>1 DEF OnMessage
      <4>2. CASE mode # "prompt"
        <5>1. PICK up : /\ up = (IF pendingSeq = seq + 1 THEN 1 ELSE 0)
                        /\ screen' = Cleared(up) \o Texts(waiting)
                        /\ pendingSeq' = IF up = 1 THEN -1 ELSE pendingSeq
          BY <2>3, <4>2 DEF OnMessage, UnderOutput
        <5>2. up \in Nat
          BY <5>1
        <5>3. screen' \in Seq(Row)
          BY <2>0, <3>1, <5>1, <5>2
        <5>4. pendingSeq' \in {-1, pendingSeq}
          BY <5>1
        <5> QED BY <5>3, <5>4
      <4> QED BY <4>1, <4>2
    <3> QED BY <2>3, <3>2, <3>3 DEF OnMessage
  <2> QED BY <1>5, <2>2, <2>3
<1> QED BY <1>1, <1>2, <1>3, <1>4, <1>5
Flags == Types /\ Views /\ Subscriber /\ Counted /\ Marked

LEMMA ViewsStep ==
  ASSUME Types, Views, Next
  PROVE  Views'
<1> USE DEF Views
<1>0. ASSUME view' = NoView PROVE Views'
  <2>1. << >> \in Seq(Row) /\ << >> \in Seq(Int)
    OBVIOUS
  <2> QED BY <1>0, <2>1 DEF NoView
<1>1. CASE Decide
  <2>1. PICK offered, fix, model \in BOOLEAN :
          /\ fix \/ model => offered
          /\ focused' = offered
          /\ view' = [toast |-> IF offered THEN Toast(count) ELSE << >>,
                      bubbles |-> waiting, pending |-> model, ghost |-> fix]
    BY <1>1 DEF Decide
  <2>2. Toast(count) \in Seq(Row) /\ Toast(count) # << >> /\ waiting \in Seq(Int)
    BY RowsAre DEF Types
  <2>3. view'.toast \in Seq(Row) /\ view'.bubbles \in Seq(Int)
    <3>1. view'.toast \in {Toast(count), << >>} /\ view'.bubbles = waiting
      BY <2>1
    <3>2. << >> \in Seq(Row)
      OBVIOUS
    <3> QED BY <2>2, <3>1, <3>2
  <2>4. ASSUME view'.pending PROVE mode' = "deciding" /\ focused' /\ view'.toast # << >>
    <3>1. mode' = "deciding"
      BY <1>1 DEF Decide
    <3>2. model
      BY <2>1, <2>4
    <3> QED BY <2>1, <2>2, <3>1, <3>2
  <2> QED BY <2>3, <2>4
<1>2. CASE Show
  BY <1>0, <1>2 DEF Show, Shows
<1>3. CASE Quiet \/ Local
  BY <1>0, <1>3 DEF Quiet, Local, daemon
<1>4. CASE \/ Edit \/ EmptyEnter \/ TakeGhost \/ Panel \/ Deliver \/ OnMessage
           \/ Posted \/ Attach \/ Receive \/ ReadBubble \/ WriteBubble \/ Break
  BY <1>4 DEF Edit, EmptyEnter, TakeGhost, Panel, Deliver, OnMessage, Posted, Attach, Receive,
              ReadBubble, WriteBubble, Break, daemon
<1>5. CASE \/ Ends \/ Hook \/ DrawPrompt
           \/ (\E what \in {"plain", "why", "fix", "other"} : Enter(what))
  <2>1. view' = view /\ mode # "deciding"
    BY <1>5 DEF Ends, Hook, DrawPrompt, Enter, daemon
  <2> QED BY <2>1
<1> QED BY <1>1, <1>2, <1>3, <1>4, <1>5 DEF Next

LEMMA SubscriberStep ==
  ASSUME Types, Subscriber, Next
  PROVE  Subscriber'
<1> USE DEF Subscriber
<1>1. CASE Receive
  BY <1>1 DEF Receive, Types, NoFile
<1>2. CASE ReadBubble
  BY <1>2 DEF ReadBubble, Types
<1>3. CASE WriteBubble
  BY <1>3 DEF WriteBubble, NoFile
<1>4. CASE Hook \/ EmptyEnter
  BY <1>4 DEF Hook, EmptyEnter, Subscribes
<1>5. CASE Attach \/ Break \/ Posted
  BY <1>5 DEF Attach, Break, Posted
<1>6. CASE Deliver \/ OnMessage
  BY <1>6 DEF Deliver, OnMessage, daemon
<1>7. CASE \/ Edit \/ TakeGhost \/ Panel \/ Ends \/ Decide \/ Show \/ Quiet \/ Local \/ DrawPrompt
           \/ \E what \in {"plain", "why", "fix", "other"} : Enter(what)
  BY <1>7 DEF Edit, TakeGhost, Panel, Ends, Decide, Show, Quiet, Local, DrawPrompt, Enter, daemon
<1> QED BY <1>1, <1>2, <1>3, <1>4, <1>5, <1>6, <1>7 DEF Next

LEMMA CountedStep ==
  ASSUME Types, Counted, Next
  PROVE  Counted'
<1> USE DEF Counted, Ahead, Types, Modes
<1>1. CASE Edit \/ TakeGhost \/ Posted \/ Attach \/ Receive \/ ReadBubble \/ WriteBubble \/ Break
  BY <1>1 DEF Edit, TakeGhost, Posted, Attach, Receive, ReadBubble, WriteBubble, Break, inner
<1>2. CASE Deliver
  BY <1>2 DEF Deliver, LandsAbove
<1>3. CASE OnMessage
  BY <1>3 DEF OnMessage, LandsAbove, UnderOutput
<1>4. CASE Panel
  BY <1>4 DEF Panel
<1>5. CASE EmptyEnter
  BY <1>5 DEF EmptyEnter
<1>6. CASE \E what \in {"plain", "why", "fix", "other"} : Enter(what)
  BY <1>6 DEF Enter, Preexec, AskedHere
<1>7. CASE Ends \/ Decide \/ Quiet \/ Local
  <2>1. seq' = seq /\ pendingSeq' = pendingSeq /\ shell' = shell
    BY <1>7 DEF Ends, Decide, Quiet, Local, inner
  <2>2. \/ mode = "running" /\ mode' = "ended"
        \/ mode = "deciding" /\ mode' \in {"deciding", "told"}
    BY <1>7 DEF Ends, Decide, Quiet, Local
  <2> QED BY <2>1, <2>2
<1>8. CASE Hook
  BY <1>8 DEF Hook, Counts, TakesMarker, Forgets
<1>9. CASE Show
  BY <1>9 DEF Show, Shows, TakesMarker
<1>10. CASE DrawPrompt
  BY <1>10 DEF DrawPrompt
<1> QED BY <1>1, <1>2, <1>3, <1>4, <1>5, <1>6, <1>7, <1>8, <1>9, <1>10 DEF Next

LEMMA MarkedPrompt ==
  ASSUME Types, Counted, Marked,
         \/ Edit \/ EmptyEnter \/ DrawPrompt \/ TakeGhost \/ Panel
         \/ \E what \in {"plain", "why", "fix", "other"} : Enter(what)
  PROVE  Marked'
<1> USE DEF Marked, Asked, Ahead, Types, Modes
<1>1. CASE Edit \/ TakeGhost
  BY <1>1 DEF Edit, TakeGhost, files, inner, history
<1>2. CASE EmptyEnter
  BY <1>2 DEF EmptyEnter, Counted
<1>3. CASE DrawPrompt
  BY <1>3 DEF DrawPrompt, history, Counted
<1>4. CASE Panel
  BY <1>4 DEF Panel, Counted
<1>5. CASE \E what \in {"plain", "why", "fix", "other"} : Enter(what)
  BY <1>5 DEF Enter, Preexec
<1> QED BY <1>1, <1>2, <1>3, <1>4, <1>5

LEMMA MarkedLine ==
  ASSUME Types, Views, Subscriber, Counted, Marked, Ends \/ Hook \/ Decide \/ Show \/ Quiet \/ Local
  PROVE  Marked'
<1> USE DEF Marked, Asked, Ahead, Types, Modes
<1>1. CASE Ends
  <2>1. CASE PlainEnds
    BY <1>1, <2>1 DEF Ends, PlainEnds, inner
  <2>4. CASE Fails
    <3>1. /\ asking' = asking /\ bubble' = bubble /\ crowded' = crowded /\ shell' = shell
          /\ focused' = focused /\ mode' = "ended" /\ mode = "running" /\ line' = line
      BY <1>1, <2>4 DEF Ends, Fails
    <3>2. ~strayed' => ~strayed /\ bubble = << >>
      BY <2>4 DEF Fails, NoFile
    <3> QED BY <3>1, <3>2
  <2>2. CASE Asks
    BY <1>1, <2>2 DEF Ends, Asks, inner
  <2>3. CASE AnswersInPlace
    BY <1>1, <2>3 DEF Ends, AnswersInPlace, inner
  <2> QED BY <1>1, <2>1, <2>2, <2>3, <2>4 DEF Ends
<1>2. CASE Hook
  BY <1>2 DEF Hook, Counts, TakesMarker, Forgets, Counted
<1>3. CASE Decide
  BY <1>3 DEF Decide, files, inner, history
<1>4. CASE Show
  <2>1. ASSUME view.pending PROVE Kept # << >> /\ bubble' = Kept /\ focused
    <3>1. view.toast \in Seq(Row) /\ view.toast # << >> /\ Texts(view.bubbles) \in Seq(Row)
      BY <2>1, TextsAre DEF Views
    <3>2. Len(Kept) = Len(view.toast) + Len(Texts(view.bubbles)) /\ Len(view.toast) > 0
      BY <3>1, Column DEF Kept
    <3>3. Len(Kept) > 0
      <4>1. Len(view.toast) \in Nat /\ Len(Texts(view.bubbles)) \in Nat
        BY <3>1
      <4>2. PICK p, q \in Nat : p = Len(view.toast) /\ q = Len(Texts(view.bubbles))
        BY <4>1
      <4>3. Len(Kept) = p + q /\ p > 0
        BY <3>2, <4>2
      <4> QED BY <4>3
    <3>4. Kept # << >>
      BY <3>3
    <3> QED BY <1>4, <2>1, <3>4 DEF Show, Shows, Views
  <2>2. /\ shell' = shell /\ mode' = "told" /\ mode = "deciding" /\ seq' = seq
        /\ focused' = focused /\ TakesMarker(asking \/ view.pending)
        /\ crowded' = (view.pending /\ view.bubbles # << >>)
    BY <1>4 DEF Show, Shows
  <2>3. crowded' => focused'
    BY <2>1, <2>2
  <2>4. shell = "bash" /\ asking' => bubble' # << >>
    BY <2>1, <2>2 DEF TakesMarker
  <2>5. shell # "bash" => ~asking'
    BY <2>2 DEF TakesMarker
  <2> QED BY <2>2, <2>3, <2>4, <2>5
<1>5. CASE Quiet
  BY <1>5 DEF Quiet, files, inner, history, Counted
<1>6. CASE Local
  BY <1>6 DEF Local, inner, Counted
<1> QED BY <1>1, <1>2, <1>3, <1>4, <1>5, <1>6

LEMMA MarkedMessages ==
  ASSUME Types, Subscriber, Counted, Marked,
         Posted \/ Attach \/ Receive \/ ReadBubble \/ WriteBubble \/ Break \/ Deliver \/ OnMessage
  PROVE  Marked'
<1> USE DEF Marked, Asked, Ahead, Types, Modes
<1>1. CASE Posted \/ Attach \/ Receive \/ ReadBubble \/ Break
  BY <1>1 DEF Posted, Attach, Receive, ReadBubble, Break, files, inner, history
<1>2. CASE WriteBubble
  BY <1>2 DEF WriteBubble, inner, history, Subscriber
<1>3. CASE Deliver
  BY <1>3 DEF Deliver, LandsAbove, files, Counted
<1>4. CASE OnMessage
  BY <1>4 DEF OnMessage, LandsAbove, UnderOutput, Counted
<1> QED BY <1>1, <1>2, <1>3, <1>4

LEMMA FlagsStep == ASSUME HooksAssumption, Flags, [Next]_vars PROVE Flags'
<1> USE DEF Flags
<1>1. CASE UNCHANGED vars
  BY <1>1 DEF vars, files, inner, daemon, history, Types, Views, Subscriber, Counted, Marked,
              Asked, Ahead
<1>2. CASE Next
  <2>1. Types'
    BY <1>2, TypesPrompt, TypesLine, TypesMessages DEF Next
  <2>2. Views' /\ Subscriber' /\ Counted'
    BY <1>2, ViewsStep, SubscriberStep, CountedStep
  <2>3. Marked'
    BY <1>2, MarkedPrompt, MarkedLine, MarkedMessages DEF Next
  <2> QED BY <2>1, <2>2, <2>3
<1> QED BY <1>1, <1>2
-----------------------------------------------------------------------------
(***************************************************************************)
(* The asking line.                                                        *)
(***************************************************************************)
Shape == mode = "prompt" => RowsAbove <= Len(screen)
LastAsks ==
  shell # "bash" /\ mode \in {"ended", "told", "prompt"} /\ Asked /\ ~crowded =>
    AskingIsLast(Printed)
AskingInv == Shape /\ LastAsks

LEMMA PrintedAfter ==
  ASSUME HooksAssumption, NEW a \in Seq(Row), mode' = "prompt", typed' \in {1, 2},
         screen' = a \o PromptArea(typed')
  PROVE  Printed' = a /\ Shape'
<1>1. PICK b : b = PromptArea(typed')
  OBVIOUS
<1>2. b \in Seq(Row) /\ Len(b) = RowsAbove'
  BY <1>1, PromptIs DEF RowsAbove
<1>3. /\ Len(b) <= Len(a \o b)
      /\ SubSeq(a \o b, 1, Len(a \o b) - Least(Len(b), Len(a \o b))) = a
  BY <1>2, ClearedTo
<1>4. screen' = a \o b
  BY <1>1
<1>5. Printed' = SubSeq(screen', 1, Len(screen') - Least(RowsAbove', Len(screen')))
  BY DEF Printed, Cleared
<1> QED BY <1>2, <1>3, <1>4, <1>5 DEF Shape

LEMMA LastIs ==
  ASSUME NEW a \in Seq(Row), NEW row \in Row
  PROVE  /\ Append(a, row) # << >> /\ Last(Append(a, row)) = row
         /\ a \o <<row>> # << >> /\ Last(a \o <<row>>) = row
BY DEF Last

LEMMA AskingInit == ASSUME HooksAssumption, Init PROVE AskingInv
<1>1. RowsAbove = PromptRows /\ Len(screen) = PromptRows /\ PromptRows \in Nat
  <2>1. screen = PromptArea(1) /\ typed = 1 /\ Len(PromptArea(1)) = PromptRows + 1 - 1
    BY PromptIs DEF Init
  <2> QED BY <2>1 DEF RowsAbove, HooksAssumption
<1>2. ~Asked \/ shell = "bash"
  BY DEF Init, Asked, Ahead
<1> QED BY <1>1, <1>2 DEF AskingInv, Shape, LastAsks

LEMMA AskingPrompt ==
  ASSUME HooksAssumption, Flags, AskingInv,
         \/ Edit \/ EmptyEnter \/ DrawPrompt \/ TakeGhost \/ Panel
         \/ \E what \in {"plain", "why", "fix", "other"} : Enter(what)
  PROVE  AskingInv'
<1> USE DEF AskingInv
<1>0. /\ screen \in Seq(Row) /\ typed \in {1, 2} /\ RowsAbove \in Nat /\ Above \in Nat
      /\ seq \in Nat \ {0} /\ pendingSeq \in Int
  BY PromptUp DEF Flags, Types, Above
<1>1. CASE Edit
  <2>1. screen' = Cleared(RowsAbove) \o PromptArea(typed') /\ typed' \in {1, 2}
        /\ mode' = "prompt" /\ mode = "prompt"
    BY <1>0, <1>1 DEF Edit
  <2>2. Cleared(RowsAbove) \in Seq(Row)
    BY <1>0, ClearedRows
  <2>3. Printed' = Cleared(RowsAbove) /\ Shape'
    BY <2>1, <2>2, PrintedAfter
  <2>4. Printed = Cleared(RowsAbove)
    BY <2>1 DEF Printed
  <2>5. UNCHANGED <<shell, mode, asking, seq, pendingSeq, crowded>>
    BY <1>1 DEF Edit, files, history
  <2>6. LastAsks'
    BY <2>3, <2>4, <2>5 DEF LastAsks, Asked, Ahead
  <2> QED BY <2>3, <2>6
<1>2. CASE EmptyEnter
  <2>1. screen' = screen \o PromptArea(typed') /\ typed' = 1 /\ mode' = "prompt" /\ mode = "prompt"
    BY <1>2 DEF EmptyEnter
  <2>2. Shape'
    BY <1>0, <2>1, PrintedAfter
  <2>3. shell' # "bash" => ~Asked'
    <3>0. Ahead = 0 /\ Ahead' = 0
      BY <2>1 DEF Ahead
    <3>1. pendingSeq <= seq
      <4>1. pendingSeq <= seq + Ahead
        BY <2>1 DEF Flags, Counted
      <4> QED BY <1>0, <3>0, <4>1
    <3>2. shell' = shell /\ pendingSeq' = pendingSeq
      BY <1>2 DEF EmptyEnter
    <3>3. shell # "bash" => seq' = seq + 1
      BY <1>2 DEF EmptyEnter
    <3>4. seq + 1 # pendingSeq
      BY <1>0, <3>1
    <3> QED BY <2>1, <3>0, <3>2, <3>3, <3>4, <1>0 DEF Asked
  <2> QED BY <2>2, <2>3 DEF LastAsks
<1>3. CASE DrawPrompt
  <2>1. screen' = screen \o PromptArea(typed') /\ typed' = 1 /\ mode' = "prompt" /\ mode = "told"
    BY <1>3 DEF DrawPrompt
  <2>2. Printed' = screen /\ Shape'
    BY <1>0, <2>1, PrintedAfter
  <2>3. Printed = screen
    BY <2>1 DEF Printed
  <2>4. UNCHANGED <<shell, pendingSeq, crowded>>
        /\ seq' = IF shell = "fish" THEN seq + 1 ELSE seq
    BY <1>3 DEF DrawPrompt, history
  <2>5. shell # "bash" => (Asked' <=> Asked)
    BY <1>0, <2>1, <2>4 DEF Asked, Ahead
  <2> QED BY <2>1, <2>2, <2>3, <2>4, <2>5 DEF LastAsks
<1>4. CASE TakeGhost
  <2>1. UNCHANGED <<shell, mode, screen, typed, asking, seq, pendingSeq, crowded>>
    BY <1>4 DEF TakeGhost, history
  <2> QED BY <2>1 DEF Shape, LastAsks, Asked, Ahead, Printed, Cleared, RowsAbove
<1>5. CASE Panel
  <2>1. PICK back : /\ back = IF focused THEN bubble ELSE << >>
                    /\ screen' = Cleared(Above + Len(back)) \o back \o PromptArea(typed)
    BY <1>5 DEF Panel
  <2>2. back \in Seq(Row)
    <3>1. << >> \in Seq(Row) /\ bubble \in Seq(Row)
      BY DEF Flags, Types
    <3> QED BY <2>1, <3>1
  <2>3. Cleared(Above + Len(back)) \o back \in Seq(Row)
    <3>1. Above + Len(back) \in Nat
      BY <1>0, <2>2
    <3> QED BY <1>0, <2>2, <3>1, Landed
  <2>4. mode' = "prompt" /\ typed' = typed /\ shell' = shell /\ mode = "prompt"
    BY <1>5 DEF Panel
  <2>5. Shape'
    BY <1>0, <2>1, <2>3, <2>4, PrintedAfter
  <2>6. shell # "bash" => ~Asked'
    <3>1. shell # "bash" => pendingSeq' = -1 /\ seq' = seq
      BY <1>5 DEF Panel
    <3> QED BY <1>0, <2>4, <3>1 DEF Asked, Ahead
  <2> QED BY <2>4, <2>5, <2>6 DEF LastAsks
<1>6. CASE \E what \in {"plain", "why", "fix", "other"} : Enter(what)
  BY <1>6 DEF Enter, Shape, LastAsks
<1> QED BY <1>1, <1>2, <1>3, <1>4, <1>5, <1>6

LEMMA AskingLine1 ==
  ASSUME HooksAssumption, Flags, AskingInv, Ends \/ Hook \/ Decide \/ Show \/ Quiet \/ Local
  PROVE  AskingInv'
<1> USE DEF AskingInv
<1>0. /\ screen \in Seq(Row) /\ seq \in Nat \ {0} /\ pendingSeq \in Int /\ count \in Int
      /\ shell \in {"zsh", "fish", "bash"}
  BY DEF Flags, Types
<1>1. mode' # "prompt" /\ shell' = shell
  BY DEF Ends, Hook, Decide, Show, Quiet, Local
<1>2. Shape'
  BY <1>1 DEF Shape
<1>3. CASE Ends
  <2>1. CASE Asks
    <3>1. screen' = Append(screen, Asking(count)) /\ mode' = "ended"
      BY <1>3, <2>1 DEF Ends, Asks
    <3>2. Asking(count) \in Row /\ IsAsking(Asking(count))
      BY <1>0, RowsAre
    <3>3. AskingIsLast(screen')
      BY <1>0, <3>1, <3>2, LastIs DEF AskingIsLast
    <3> QED BY <1>2, <3>1, <3>3 DEF LastAsks, Printed
  <2>2. CASE PlainEnds \/ AnswersInPlace \/ Fails
    <3>1. asking' = asking /\ mode = "running" /\ mode' = "ended"
      BY <1>3, <2>2 DEF Ends, PlainEnds, AnswersInPlace, Fails
    <3>2. shell # "bash" => ~Asked'
      BY <1>1, <3>1 DEF Asked, Flags, Marked
    <3> QED BY <1>1, <1>2, <3>2 DEF LastAsks
  <2> QED BY <1>3, <2>1, <2>2 DEF Ends
<1>4. CASE Hook
  <2>1. screen' = screen /\ crowded' = crowded /\ mode = "ended"
    BY <1>4 DEF Hook
  <2>2. shell # "bash" /\ mode' = "told" /\ Asked' => asking
    <3> SUFFICES ASSUME shell # "bash", mode' = "told", ~asking PROVE ~Asked'
      OBVIOUS
    <3>1. pendingSeq' = pendingSeq /\ seq' \in {seq, seq + 1}
          /\ (shell = "fish" => seq' = seq)
      BY <1>4 DEF Hook, TakesMarker, Forgets, Counts
    <3>2. pendingSeq < seq
      BY <2>1 DEF Flags, Counted
    <3>3. CASE shell = "fish"
      <4>1. Ahead' = 1 /\ seq' = seq
        BY <1>1, <3>1, <3>3 DEF Ahead
      <4>2. pendingSeq' # seq' + Ahead'
        BY <1>0, <3>1, <3>2, <4>1
      <4> QED BY <1>1, <4>2 DEF Asked
    <3>4. CASE shell = "zsh"
      <4>1. Ahead' = 0
        BY <1>1, <3>4 DEF Ahead
      <4>2. pendingSeq' # seq' + Ahead'
        <5>1. \A n \in {seq, seq + 1} : n \in Int /\ pendingSeq < n
          BY <1>0, <3>2
        <5>2. seq' \in Int /\ pendingSeq' < seq'
          BY <3>1, <3>2, <5>1
        <5>3. PICK p, n : p = pendingSeq' /\ n = seq'
          OBVIOUS
        <5>4. p \in Int
          BY <1>0, <3>1, <5>3
        <5>5. n \in Int /\ p < n
          BY <5>2, <5>3
        <5>6. p # n + 0
          BY <5>4, <5>5
        <5> QED BY <4>1, <5>3, <5>6
      <4> QED BY <1>1, <4>2 DEF Asked
    <3> QED BY <1>0, <3>3, <3>4
  <2>3. mode' \in {"deciding", "told"}
    BY <1>4 DEF Hook
  <2>4. shell # "bash" /\ asking => (Asked <=> TRUE)
    BY <2>1 DEF Asked
  <2> QED BY <1>1, <1>2, <2>1, <2>2, <2>3, <2>4 DEF LastAsks, Printed
<1>5. CASE Decide
  BY <1>2, <1>5 DEF Decide, LastAsks
<1>6. CASE Show
  <2>1. /\ mode = "deciding" /\ mode' = "told" /\ seq' = seq /\ ~asking
        /\ crowded' = (view.pending /\ view.bubbles # << >>)
        /\ screen' = screen \o view.toast \o AskingLine \o Texts(view.bubbles)
        /\ TakesMarker(asking \/ view.pending)
    BY <1>6 DEF Show, Shows, Flags, Marked
  <2>2. shell # "bash" /\ ~view.pending => ~Asked'
    <3>1. shell # "bash" /\ ~view.pending => pendingSeq' = pendingSeq /\ pendingSeq < seq
      BY <2>1 DEF TakesMarker, Flags, Counted
    <3> QED BY <1>0, <1>1, <2>1, <3>1 DEF Asked, Ahead
  <2>3. ASSUME view.pending, ~crowded' PROVE AskingIsLast(screen')
    <3>1. view.bubbles = << >>
      BY <2>1, <2>3
    <3>2. Texts(view.bubbles) = << >> /\ AskingLine = <<Asking(count)>>
      BY <2>3, <3>1, TextOf DEF AskingLine
    <3>3. Asking(count) \in Row /\ IsAsking(Asking(count))
      BY <1>0, RowsAre
    <3>4. screen \o view.toast \in Seq(Row)
      BY <1>0, Column DEF Flags, Views
    <3>5. PICK a, row : a = screen \o view.toast /\ row = Asking(count)
      OBVIOUS
    <3>6. screen' = a \o <<row>>
      <4>0. <<row>> \in Seq(Row)
        BY <3>3, <3>5
      <4>1. a \o <<row>> \in Seq(Row)
        BY <3>4, <3>5, <4>0, Column
      <4>2. screen' = (a \o <<row>>) \o << >>
        BY <2>1, <3>2, <3>5
      <4> QED BY <4>1, <4>2, Column
    <3> QED BY <3>3, <3>4, <3>5, <3>6, LastIs DEF AskingIsLast
  <2> QED BY <1>1, <1>2, <2>1, <2>2, <2>3 DEF LastAsks, Printed
<1>7. CASE Quiet \/ Local
  <2>1. /\ mode = "deciding" /\ mode' = "told" /\ seq' = seq /\ pendingSeq' = pendingSeq
    BY <1>7 DEF Quiet, Local, inner
  <2>2. shell # "bash" => ~Asked'
    BY <1>0, <1>1, <2>1 DEF Asked, Ahead, Flags, Counted
  <2> QED BY <1>1, <1>2, <2>2 DEF LastAsks
<1> QED BY <1>3, <1>4, <1>5, <1>6, <1>7

LEMMA AskingMessages ==
  ASSUME HooksAssumption, Flags, AskingInv,
         Posted \/ Attach \/ Receive \/ ReadBubble \/ WriteBubble \/ Break \/ Deliver \/ OnMessage
  PROVE  AskingInv'
<1> USE DEF AskingInv
<1>0. /\ screen \in Seq(Row) /\ typed \in {1, 2} /\ RowsAbove \in Nat
      /\ seq \in Nat \ {0} /\ pendingSeq \in Int /\ pipe \in Seq(Int) /\ waiting \in Seq(Int)
  BY PromptUp DEF Flags, Types
<1>1. CASE Posted \/ Attach \/ Receive \/ ReadBubble \/ WriteBubble \/ Break
  <2>1. UNCHANGED <<shell, mode, screen, typed, asking, seq, pendingSeq, crowded>>
    BY <1>1 DEF Posted, Attach, Receive, ReadBubble, WriteBubble, Break, files, inner, history
  <2> QED BY <2>1 DEF Shape, LastAsks, Asked, Ahead, Printed, Cleared, RowsAbove
<1>2. ASSUME NEW p \in Seq(Int), LandsAbove(Texts(p)), mode = "prompt", mode' = mode,
             shell' = shell, typed' = typed, seq' = seq, shell # "bash"
      PROVE  AskingInv'
  <2>1. PICK up, texts : /\ up = RowsAbove + (IF AskedHere THEN 1 ELSE 0)
                         /\ texts = Texts(p)
    OBVIOUS
  <2>2. up \in Nat /\ texts \in Seq(Row)
    BY <1>0, <2>1, TextsAre
  <2>3. screen' = Cleared(up) \o texts \o PromptArea(typed') /\ pendingSeq' = -1
    BY <1>2, <2>1 DEF LandsAbove
  <2>4. Cleared(up) \o texts \in Seq(Row)
    BY <1>0, <2>2, Landed
  <2>5. Shape'
    BY <1>0, <1>2, <2>3, <2>4, PrintedAfter
  <2>6. ~Asked'
    BY <1>0, <1>2, <2>3 DEF Asked, Ahead
  <2> QED BY <2>5, <2>6 DEF LastAsks
<1>3. CASE Deliver
  <2>1. PICK n \in 1 .. Len(pipe) : LandsAbove(Texts(SubSeq(pipe, 1, n)))
    BY <1>3 DEF Deliver
  <2>2. SubSeq(pipe, 1, n) \in Seq(Int)
    BY <1>0
  <2> QED BY <1>2, <1>3, <2>1, <2>2 DEF Deliver
<1>4. CASE OnMessage /\ mode = "prompt"
  BY <1>0, <1>2, <1>4 DEF OnMessage
<1>5. CASE OnMessage /\ mode # "prompt"
  <2>1. mode = "told" /\ mode' = "told" /\ shell = "fish" /\ shell' = shell /\ seq' = seq
        /\ pendingSeq' = IF pendingSeq = seq + 1 THEN -1 ELSE pendingSeq
    BY <1>5 DEF OnMessage, UnderOutput
  <2>2. ~Asked'
    BY <1>0, <2>1 DEF Asked, Ahead
  <2> QED BY <2>1, <2>2 DEF Shape, LastAsks
<1> QED BY <1>1, <1>3, <1>4, <1>5

LEMMA AskingStep == ASSUME HooksAssumption, Flags, AskingInv, [Next]_vars PROVE AskingInv'
<1>1. CASE UNCHANGED vars
  BY <1>1 DEF vars, files, inner, history, AskingInv, Shape, LastAsks, Asked, Ahead, Printed,
              Cleared, RowsAbove
<1>2. CASE Next
  BY <1>2, AskingPrompt, AskingLine1, AskingMessages DEF Next
<1> QED BY <1>1, <1>2
-----------------------------------------------------------------------------
(***************************************************************************)
(* What lands takes the asking line only.                                  *)
(***************************************************************************)
LEMMA FrontOf ==
  ASSUME NEW up \in Nat, screen \in Seq(Row), up < Len(screen)
  PROVE  Front(Cleared(up)) = Cleared(up + 1)
<1>1. PICK n : n = Len(screen) - up
  OBVIOUS
<1>2. n \in Nat /\ n > 0 /\ n <= Len(screen)
  BY <1>1
<1>3. Cleared(up) = SubSeq(screen, 1, n) /\ Cleared(up + 1) = SubSeq(screen, 1, n - 1)
  BY <1>1 DEF Cleared, Least
<1>4. Len(SubSeq(screen, 1, n)) = n
  BY <1>2
<1>5. SubSeq(SubSeq(screen, 1, n), 1, n - 1) = SubSeq(screen, 1, n - 1)
  BY <1>2
<1> QED BY <1>3, <1>4, <1>5 DEF Front

LEMMA ClearedAtTop ==
  ASSUME screen \in Seq(Row), NEW up \in Nat
  PROVE  IsPrefix(Cleared(up), screen) /\ Cleared(0) = screen
<1>1. PICK n : n = Len(screen) - Least(up, Len(screen))
  OBVIOUS
<1>2. n \in Nat /\ n <= Len(screen)
  BY <1>1 DEF Least
<1>3. Cleared(up) = SubSeq(screen, 1, n) /\ Len(SubSeq(screen, 1, n)) = n
  BY <1>1, <1>2 DEF Cleared
<1>4. Cleared(0) = screen
  BY DEF Cleared, Least
<1> QED BY <1>2, <1>3, <1>4 DEF IsPrefix

Takes == \/ IsPrefix(Printed, screen')
         \/ AskingIsLast(Printed) /\ IsPrefix(Front(Printed), screen')

LEMMA TakesAbove ==
  ASSUME HooksAssumption, Flags, AskingInv, mode = "prompt", shell # "bash", ~crowded,
         NEW p \in Seq(Int), LandsAbove(Texts(p))
  PROVE  Takes
<1>0. /\ screen \in Seq(Row) /\ typed \in {1, 2} /\ RowsAbove \in Nat /\ seq \in Nat
      /\ RowsAbove <= Len(screen)
  BY PromptUp DEF Flags, Types, AskingInv, Shape
<1>1. Printed = Cleared(RowsAbove)
  BY DEF Printed
<1>2. PICK b : b = Texts(p) \o PromptArea(typed)
  OBVIOUS
<1>3. b \in Seq(Row)
  BY <1>0, <1>2, TextsAre, PromptIs, Column
<1>4. \A up \in Nat : (Cleared(up) \o Texts(p)) \o PromptArea(typed) = Cleared(up) \o b
  <2>1. Texts(p) \in Seq(Row) /\ PromptArea(typed) \in Seq(Row)
    BY <1>0, TextsAre, PromptIs
  <2>2. PICK t, q : t = Texts(p) /\ q = PromptArea(typed)
    OBVIOUS
  <2>3. ASSUME NEW up \in Nat PROVE (Cleared(up) \o t) \o q = Cleared(up) \o (t \o q)
    <3>1. PICK c : c = Cleared(up)
      OBVIOUS
    <3>2. c \in Seq(Row) /\ t \in Seq(Row) /\ q \in Seq(Row)
      BY <1>0, <2>1, <2>2, <3>1, ClearedRows
    <3>3. c \o (t \o q) = (c \o t) \o q
      BY <3>2, Stacked
    <3> QED BY <3>1, <3>3
  <2> QED BY <1>2, <2>2, <2>3
<1>5. CASE ~AskedHere
  <2>1. screen' = (Cleared(RowsAbove) \o Texts(p)) \o PromptArea(typed)
    <3>1. RowsAbove + 0 = RowsAbove
      BY <1>0
    <3> QED BY <1>5, <3>1 DEF LandsAbove
  <2>2. screen' = Cleared(RowsAbove) \o b
    BY <1>0, <1>4, <2>1
  <2> QED BY <1>0, <1>1, <1>3, <2>2, ClearedRows, AtTop DEF Takes
<1>6. CASE AskedHere
  <2>1. screen' = Cleared(RowsAbove + 1) \o b
    <3>1. screen' = (Cleared(RowsAbove + 1) \o Texts(p)) \o PromptArea(typed)
      BY <1>6 DEF LandsAbove
    <3>2. RowsAbove + 1 \in Nat
      BY <1>0
    <3> QED BY <1>4, <3>1, <3>2
  <2>2. Asked
    <3>1. Ahead = 0 /\ pendingSeq = seq
      BY <1>6 DEF Ahead, AskedHere
    <3> QED BY <1>0, <3>1 DEF Asked
  <2>3. AskingIsLast(Printed)
    BY <2>2 DEF AskingInv, LastAsks
  <2>4. RowsAbove < Len(screen)
    <3>1. Len(Cleared(RowsAbove)) # 0
      BY <1>0, <1>1, <2>3, ClearedRows DEF AskingIsLast
    <3> QED BY <1>0, <3>1, ClearedIs
  <2>5. Front(Printed) = Cleared(RowsAbove + 1)
    BY <1>0, <1>1, <2>4, FrontOf
  <2>6. IsPrefix(Cleared(RowsAbove + 1), screen')
    <3>1. RowsAbove + 1 \in Nat
      BY <1>0
    <3> QED BY <1>0, <1>3, <2>1, <3>1, ClearedRows, AtTop
  <2> QED BY <2>3, <2>5, <2>6 DEF Takes
<1> QED BY <1>5, <1>6

LEMMA TakesUnder ==
  ASSUME HooksAssumption, Flags, AskingInv, mode = "told", shell = "fish", ~crowded,
         NEW p \in Seq(Int), UnderOutput(Texts(p))
  PROVE  Takes
<1>0. screen \in Seq(Row) /\ Printed = screen /\ Texts(p) \in Seq(Row)
  BY TextsAre DEF Flags, Types, Printed
<1>1. CASE pendingSeq # seq + 1
  <2>1. screen' = Cleared(0) \o Texts(p)
    BY <1>1 DEF UnderOutput
  <2>2. Cleared(0) = screen
    BY <1>0, ClearedAtTop
  <2> QED BY <1>0, <2>1, <2>2, AtTop DEF Takes
<1>2. CASE pendingSeq = seq + 1
  <2>1. screen' = Cleared(1) \o Texts(p)
    BY <1>2 DEF UnderOutput
  <2>2. AskingIsLast(Printed)
    BY <1>2 DEF AskingInv, LastAsks, Asked, Ahead
  <2>3. Front(screen) = Cleared(1)
    <3>1. Len(screen) > 0
      BY <1>0, <2>2 DEF AskingIsLast
    <3>2. Front(Cleared(0)) = Cleared(0 + 1)
      BY <1>0, <3>1, FrontOf
    <3> QED BY <1>0, <3>2, ClearedAtTop
  <2>4. IsPrefix(Cleared(1), screen')
    BY <1>0, <2>1, ClearedRows, AtTop
  <2> QED BY <1>0, <2>2, <2>3, <2>4 DEF Takes
<1> QED BY <1>1, <1>2

LEMMA TakesEntering ==
  ASSUME HooksAssumption, Flags, AskingInv, ~crowded, NEW what, Enter(what)
  PROVE  Takes
<1>0. /\ screen \in Seq(Row) /\ typed \in {1, 2} /\ RowsAbove \in Nat /\ seq \in Nat
      /\ mode = "prompt" /\ RowsAbove <= Len(screen)
  BY PromptUp DEF Flags, Types, AskingInv, Shape, Enter
<1>1. Printed = Cleared(RowsAbove)
  BY <1>0 DEF Printed
<1>2. CASE screen' = screen
  BY <1>0, <1>1, <1>2, ClearedAtTop DEF Takes
<1>3. CASE screen' # screen
  <2>1. /\ shell # "bash" /\ AskedHere /\ BlankedRow > 0
        /\ screen' = [screen EXCEPT ![BlankedRow] = Blank(count)]
    BY <1>3 DEF Enter, Preexec, Blanked
  <2>2. AskingIsLast(Printed)
    <3>1. Ahead = 0 /\ pendingSeq = seq
      BY <1>0, <2>1 DEF Ahead, AskedHere
    <3>2. Asked
      BY <1>0, <2>1, <3>1 DEF Asked
    <3> QED BY <1>0, <2>1, <3>2 DEF AskingInv, LastAsks
  <2>3. PICK at : at = BlankedRow
    OBVIOUS
  <2>4. at \in Nat /\ at > 0 /\ at <= Len(screen) /\ at = Len(screen) - RowsAbove
    BY <1>0, <2>1, <2>3 DEF BlankedRow
  <2>5. Front(Printed) = Cleared(RowsAbove + 1)
    BY <1>0, <1>1, <2>4, FrontOf
  <2>6. PICK up : up = RowsAbove + 1
    OBVIOUS
  <2>7. up \in Nat /\ up <= Len(screen) /\ Len(screen) - up = at - 1
    BY <1>0, <2>4, <2>6
  <2>8. /\ Cleared(up) \in Seq(Row) /\ Len(Cleared(up)) = at - 1
        /\ \A i \in 1 .. at - 1 : Cleared(up)[i] = screen[i]
    BY <1>0, <2>7, ClearedIs
  <2>9. /\ Len(screen') = Len(screen) /\ DOMAIN screen' = DOMAIN screen
        /\ \A i \in 1 .. at - 1 : screen'[i] = screen[i]
    BY <1>0, <2>1, <2>3, <2>4
  <2>10. screen' \in Seq(Row \union {Blank(count)})
    BY <1>0, <2>1, <2>3, <2>4
  <2>11. Cleared(up) = SubSeq(screen', 1, at - 1)
    BY <2>4, <2>8, <2>9, <2>10
  <2>12. IsPrefix(Cleared(up), screen')
    BY <2>4, <2>8, <2>9, <2>11 DEF IsPrefix
  <2> QED BY <2>2, <2>5, <2>6, <2>12 DEF Takes
<1> QED BY <1>2, <1>3

\* A message that lands and a command that starts take no row off the screen but
\* the one that says that a model is asked, in each shell, however many lines,
\* messages and lost connections there were.
THEOREM AskingGoesAlone == ASSUME HooksAssumption PROVE Spec => OnlyAskingGoes
<1>1. Init => Flags /\ AskingInv
  BY FlagsInit, ViewsInit, AskingInit DEF Flags
<1>2. Flags /\ AskingInv /\ [Next]_vars => Flags' /\ AskingInv'
  BY FlagsStep, AskingStep
<1>3. Flags /\ AskingInv /\ [Next]_vars
        => [(Deliver \/ OnMessage \/ (mode = "prompt" /\ mode' = "running")) /\ ~crowded =>
              \/ IsPrefix(Printed, screen')
              \/ AskingIsLast(Printed) /\ IsPrefix(Front(Printed), screen')]_vars
  <2> SUFFICES ASSUME Flags, AskingInv, Next, ~crowded,
                      Deliver \/ OnMessage \/ (mode = "prompt" /\ mode' = "running")
               PROVE  Takes
    BY DEF Takes
  <2>0. pipe \in Seq(Int) /\ waiting \in Seq(Int)
    BY DEF Flags, Types
  <2>1. CASE Deliver
    <3>1. PICK n \in 1 .. Len(pipe) : LandsAbove(Texts(SubSeq(pipe, 1, n)))
      BY <2>1 DEF Deliver
    <3>2. SubSeq(pipe, 1, n) \in Seq(Int) /\ mode = "prompt" /\ shell # "bash"
      BY <2>0, <2>1 DEF Deliver
    <3> QED BY <3>1, <3>2, TakesAbove
  <2>2. CASE OnMessage
    <3>1. CASE mode = "prompt"
      BY <2>0, <2>2, <3>1, TakesAbove DEF OnMessage
    <3>2. CASE mode # "prompt"
      BY <2>0, <2>2, <3>2, TakesUnder DEF OnMessage
    <3> QED BY <3>1, <3>2
  <2>3. CASE mode = "prompt" /\ mode' = "running"
    <3>1. PICK what : Enter(what)
      BY <2>3 DEF Next, Edit, EmptyEnter, TakeGhost, Ends, Hook, Decide, Show, Quiet, Local,
                  DrawPrompt, Posted, Attach, Receive, ReadBubble, WriteBubble, Break,
                  Deliver, OnMessage, Panel
    <3> QED BY <3>1, TakesEntering
  <2> QED BY <2>1, <2>2, <2>3
<1> QED BY <1>1, <1>2, <1>3, PTL DEF Spec, OnlyAskingGoes
-----------------------------------------------------------------------------
(***************************************************************************)
(* The bubble on the screen.                                               *)
(***************************************************************************)
\* The rows under the cursor's prompt, the row that a message in flight will add to
\* the file, and the file with it.
Below == IF mode = "prompt" THEN PromptArea(typed) ELSE << >>
Coming == IF child.at = "idle" THEN << >> ELSE <<Message(child.message)>>
ToBe == bubble \o Coming

\* The bubble stands right above the prompt, what is still in the pipe apart, and
\* the asking line is in it: under the failure, above what was printed with it.
Parts(above, head, mid, tail) ==
  /\ screen = (above \o head) \o (mid \o (tail \o Below))
  /\ ToBe = (head \o tail) \o Texts(pipe)
  /\ Asked => Len(mid) = 1 /\ IsAsking(mid[1])
  /\ ~Asked => mid = << >>
  /\ ~crowded \/ ~Asked => tail = << >>
Standing == \E above, head, mid, tail \in Seq(Row) : Parts(above, head, mid, tail)

\* bash forgets its bubble after a command, the other shells before.
Claimed == \/ shell # "bash" \/ mode \in {"prompt", "deciding", "told"}
           \/ mode = "ended" /\ line \in {"why", "fix"}
Stands == ~strayed /\ Claimed => Standing
Bare == shell # "bash" /\ mode = "running" /\ ~strayed => ToBe = Texts(pipe)
NotLost == child.at = "read" /\ ~strayed => child.base = bubble
BubbleInv == Stands /\ Bare /\ NotLost

LEMMA Drawn ==
  ASSUME HooksAssumption, Types, Subscriber
  PROVE  /\ Below \in Seq(Row) /\ Coming \in Seq(Row) /\ ToBe \in Seq(Row)
         /\ Texts(pipe) \in Seq(Row)
<1>1. Below \in Seq(Row)
  <2>1. << >> \in Seq(Row) /\ PromptArea(typed) \in Seq(Row)
    BY PromptIs DEF Types
  <2> QED BY <2>1 DEF Below
<1>2. Coming \in Seq(Row)
  <2>1. Message(child.message) \in Row
    BY RowsAre DEF Subscriber
  <2>2. << >> \in Seq(Row) /\ <<Message(child.message)>> \in Seq(Row)
    BY <2>1
  <2> QED BY <2>2 DEF Coming
<1>3. ToBe \in Seq(Row)
  BY <1>2, Column DEF ToBe, Types
<1> QED BY <1>1, <1>2, <1>3, TextsAre DEF Types

LEMMA Nothing == << >> \in Seq(Row) /\ Texts(<< >>) = << >>
BY TextOf

\* Five ways for a step to leave the bubble standing.
LEMMA StandsBare ==
  ASSUME NEW x \in Seq(Row), NEW h \in Seq(Row), NEW b \in Seq(Row),
         screen' = (x \o h) \o b, Below' = b, ToBe' = h \o Texts(pipe)', ~Asked'
  PROVE  Standing'
<1>1. << >> \o (<< >> \o b) = b /\ h \o << >> = h /\ << >> \in Seq(Row)
  BY Column
<1>2. Parts(x, h, << >>, << >>)'
  BY <1>1 DEF Parts
<1> QED BY <1>1, <1>2 DEF Standing

LEMMA StandsAsked ==
  ASSUME NEW x \in Seq(Row), NEW h \in Seq(Row), NEW t \in Seq(Row), NEW b \in Seq(Row),
         NEW row \in Row, IsAsking(row), screen' = (x \o h) \o (<<row>> \o (t \o b)),
         Below' = b, ToBe' = (h \o t) \o Texts(pipe)', Asked', crowded' \/ t = << >>
  PROVE  Standing'
<1>1. <<row>> \in Seq(Row) /\ Len(<<row>>) = 1 /\ <<row>>[1] = row
  OBVIOUS
<1>2. Parts(x, h, <<row>>, t)'
  BY <1>1 DEF Parts
<1> QED BY <1>1, <1>2 DEF Standing

LEMMA StandsStill ==
  ASSUME Standing, Below \in Seq(Row), Texts(pipe) \in Seq(Row),
         NEW b \in Seq(Row), NEW z \in Seq(Row), Below' = b,
         \A c \in Seq(Row) : screen = c \o Below => screen' = c \o b,
         ToBe' = ToBe \o z, Texts(pipe)' = Texts(pipe) \o z,
         Asked' <=> Asked, crowded' <=> crowded
  PROVE  Standing'
<1>1. PICK x, h, m, t \in Seq(Row) : Parts(x, h, m, t)
  BY DEF Standing
<1>2. PICK c : c = (x \o h) \o (m \o t)
  OBVIOUS
<1>3. x \o h \in Seq(Row) /\ m \o t \in Seq(Row) /\ c \in Seq(Row) /\ h \o t \in Seq(Row)
  BY <1>2, Column
<1>4. \A q \in Seq(Row) : (x \o h) \o (m \o (t \o q)) = c \o q
  <2>1. \A q \in Seq(Row) : OfFour(x, h, m, t, q)
    BY StackedTwice
  <2> QED BY <1>2, <2>1 DEF OfFour
<1>5. screen' = (x \o h) \o (m \o (t \o b))
  BY <1>1, <1>3, <1>4 DEF Parts
<1>6. ToBe' = (h \o t) \o Texts(pipe)'
  <2>1. PICK v \in Seq(Row) : v = Texts(pipe)
    OBVIOUS
  <2>2. PICK u \in Seq(Row) : u = h \o t
    BY <1>3
  <2>3. u \o (v \o z) = (u \o v) \o z
    BY Stacked
  <2>4. ToBe = u \o v
    BY <1>1, <2>1, <2>2 DEF Parts
  <2> QED BY <2>1, <2>2, <2>3, <2>4
<1>7. Parts(x, h, m, t)'
  BY <1>1, <1>5, <1>6 DEF Parts
<1> QED BY <1>7 DEF Standing

\* Nothing that the bubble is made of changed.
LEMMA StandsUntouched ==
  ASSUME Standing, Below \in Seq(Row), Texts(pipe) \in Seq(Row), ToBe \in Seq(Row),
         screen' = screen, Below' = Below, ToBe' = ToBe, pipe' = pipe,
         Asked' <=> Asked, crowded' <=> crowded
  PROVE  Standing'
<1>1. << >> \in Seq(Row) /\ ToBe \o << >> = ToBe /\ Texts(pipe) \o << >> = Texts(pipe)
  BY Column, Nothing
<1>2. PICK b, z : b = Below /\ z = << >>
  OBVIOUS
<1>3. Texts(pipe)' = Texts(pipe)
  OBVIOUS
<1> QED BY <1>1, <1>2, <1>3, StandsStill

LEMMA StandsLanded ==
  ASSUME Standing, ~crowded, Below \in Seq(Row), NEW up \in Nat, NEW p \in Seq(Row),
         up = Len(Below) + (IF Asked THEN 1 ELSE 0),
         screen' = Cleared(up) \o (p \o Below), Below' = Below, ~Asked',
         \A h \in Seq(Row) : ToBe = h \o Texts(pipe) => ToBe' = (h \o p) \o Texts(pipe)'
  PROVE  Standing'
<1>1. PICK x, h, m, t \in Seq(Row) : Parts(x, h, m, t)
  BY DEF Standing
<1>2. t = << >>
  BY <1>1 DEF Parts
<1>3. screen = (x \o h) \o (m \o Below) /\ ToBe = h \o Texts(pipe)
  <2>1. << >> \o Below = Below /\ h \o << >> = h
    BY Column
  <2> QED BY <1>1, <1>2, <2>1 DEF Parts
<1>4. PICK u, v, b : u = x \o h /\ v = m \o Below /\ b = Below
  OBVIOUS
<1>5. u \in Seq(Row) /\ v \in Seq(Row) /\ Len(v) = Len(m) + Len(b) /\ h \o p \in Seq(Row)
  BY <1>4, Column
<1>6. up = Len(v)
  <2>1. Len(m) = IF Asked THEN 1 ELSE 0
    BY <1>1 DEF Parts
  <2>2. Len(m) \in Nat /\ Len(b) \in Nat
    BY <1>4
  <2> QED BY <1>4, <1>5, <2>1, <2>2
<1>7. Cleared(up) = u
  BY <1>3, <1>4, <1>5, <1>6, ClearedTo DEF Cleared
<1>8. screen' = (x \o (h \o p)) \o b
  <2>1. (x \o h) \o (p \o b) = (x \o (h \o p)) \o b
    <3>1. PICK q \in Seq(Row) : q = b
      BY <1>4
    <3>2. OfThree(x, h, p, q)
      BY StackedOn
    <3> QED BY <3>1, <3>2 DEF OfThree
  <2> QED BY <1>4, <1>7, <2>1
<1>9. ToBe' = (h \o p) \o Texts(pipe)'
  BY <1>3
<1> QED BY <1>4, <1>5, <1>8, <1>9, StandsBare

LEMMA BubbleInit == ASSUME HooksAssumption, Init PROVE BubbleInv
<1>1. /\ mode = "prompt" /\ typed = 1 /\ screen = PromptArea(1) /\ bubble = << >>
      /\ child.at = "idle" /\ pipe = << >>
  BY DEF Init, NoFile
<1>2. ~Asked
  BY DEF Init, Asked, Ahead
<1>3. Below = screen /\ Below \in Seq(Row)
  BY <1>1, PromptIs DEF Below
<1>4. << >> \in Seq(Row) /\ << >> \o << >> = << >> /\ << >> \o Below = Below
  BY <1>3, Column, Nothing
<1>5. ToBe = << >> /\ Texts(pipe) = << >>
  BY <1>1, <1>4, Nothing DEF ToBe, Coming
<1>6. Parts(<< >>, << >>, << >>, << >>)
  BY <1>2, <1>3, <1>4, <1>5 DEF Parts
<1>7. Standing
  BY <1>4, <1>6 DEF Standing
<1> QED BY <1>1, <1>7 DEF BubbleInv, Stands, Bare, NotLost

\* A bubble that the file was overwritten with is not under a message in flight.
LEMMA NotLostStep ==
  ASSUME Types, Subscriber, NotLost, Next
  PROVE  NotLost'
<1> USE DEF NotLost, InFlight
<1>1. CASE Edit \/ Decide \/ Quiet \/ DrawPrompt \/ TakeGhost \/ Posted \/ Attach \/ Break
  BY <1>1 DEF Edit, Decide, Quiet, DrawPrompt, TakeGhost, Posted, Attach, Break, files, daemon,
              history
<1>2. CASE \E what \in {"plain", "why", "fix", "other"} : Enter(what)
  BY <1>2 DEF Enter, Preexec, daemon
<1>3. CASE EmptyEnter
  BY <1>3 DEF EmptyEnter
<1>4. CASE Ends
  BY <1>4 DEF Ends, PlainEnds, Asks, AnswersInPlace, Fails, daemon
<1>5. CASE Hook
  BY <1>5 DEF Hook, Forgets, Subscriber
<1>6. CASE Show \/ Local
  BY <1>6 DEF Show, Shows, Local, daemon
<1>7. CASE Receive \/ ReadBubble \/ WriteBubble
  BY <1>7 DEF Receive, ReadBubble, WriteBubble, files, history
<1>8. CASE Deliver
  BY <1>8 DEF Deliver, LandsAbove, files, daemon
<1>9. CASE OnMessage
  BY <1>9 DEF OnMessage, Subscriber
<1>10. CASE Panel
  BY <1>10 DEF Panel, daemon
<1> QED BY <1>1, <1>2, <1>3, <1>4, <1>5, <1>6, <1>7, <1>8, <1>9, <1>10 DEF Next

\* What the subscriber does with a message keeps the bubble it will leave.
LEMMA ToBeReceived ==
  ASSUME Types, Subscriber, Receive
  PROVE  /\ Texts(<<Head(waiting)>>) \in Seq(Row)
         /\ ToBe' = ToBe \o Texts(<<Head(waiting)>>)
         /\ Texts(pipe)' = Texts(pipe) \o Texts(<<Head(waiting)>>)
<1>1. /\ waiting # << >> /\ child.at = "idle" /\ bubble' = bubble
      /\ child'.at = "printed" /\ child'.message = Head(waiting)
      /\ pipe' = Append(pipe, Head(waiting))
  BY DEF Receive, files
<1>2. waiting \in Seq(Int) /\ pipe \in Seq(Int) /\ bubble \in Seq(Row)
  BY DEF Types
<1>3. PICK m : m = Head(waiting)
  OBVIOUS
<1>4. m \in Int /\ <<m>> \in Seq(Int)
  BY <1>1, <1>2, <1>3
<1>5. Texts(<<m>>) \in Seq(Row) /\ Texts(<<m>>) = <<Message(m)>>
  BY <1>4, TextsAre, TextOf
<1>6. ToBe = bubble /\ ToBe' = bubble \o <<Message(m)>>
  <2>1. bubble \o << >> = bubble
    BY <1>2, Column, Nothing
  <2> QED BY <1>1, <1>3, <2>1 DEF ToBe, Coming
<1>7. Texts(pipe \o <<m>>) = Texts(pipe) \o Texts(<<m>>)
  BY <1>2, <1>4, TextsAre
<1>8. pipe' = pipe \o <<m>>
  BY <1>1, <1>2, <1>3, <1>4
<1> QED BY <1>3, <1>5, <1>6, <1>7, <1>8

LEMMA ToBeRead ==
  ASSUME Types, Subscriber, NotLost, ~strayed, ReadBubble \/ WriteBubble
  PROVE  ToBe' = ToBe
<1>1. CASE ReadBubble
  BY <1>1 DEF ReadBubble, ToBe, Coming, files
<1>2. CASE WriteBubble
  <2>1. /\ child.at = "read" /\ child.base = bubble /\ child'.at = "idle"
        /\ bubble' = bubble \o Texts(<<child.message>>)
    BY <1>2 DEF WriteBubble, Appended, NotLost
  <2>2. child.message \in Int /\ bubble \in Seq(Row)
    BY DEF Types, Subscriber
  <2>3. Texts(<<child.message>>) = <<Message(child.message)>>
    BY <2>2, TextOf
  <2>4. ToBe = bubble'
    BY <2>1, <2>3 DEF ToBe, Coming
  <2>5. ToBe \in Seq(Row)
    <3>1. <<child.message>> \in Seq(Int)
      BY <2>2
    <3>2. Texts(<<child.message>>) \in Seq(Row)
      BY <3>1, TextsAre
    <3> QED BY <2>1, <2>2, <2>4, <3>2, Column
  <2>6. ToBe' = bubble' \o << >>
    BY <2>1 DEF ToBe, Coming
  <2> QED BY <2>4, <2>5, <2>6, Column, Nothing
<1> QED BY <1>1, <1>2

LEMMA NoneComing ==
  ASSUME ~InFlight, bubble' \in Seq(Row), child' = child, pipe' = pipe
  PROVE  ToBe' = bubble' /\ Texts(pipe)' = << >> /\ (bubble \in Seq(Row) => ToBe = bubble)
<1>1. child.at = "idle" /\ pipe = << >>
  BY DEF InFlight
<1>2. bubble' \o << >> = bubble' /\ (bubble \in Seq(Row) => bubble \o << >> = bubble)
  BY Column, Nothing
<1> QED BY <1>1, <1>2, Nothing DEF ToBe, Coming

\* While a command runs nothing is on screen of the bubble to be.
LEMMA BareStep ==
  ASSUME HooksAssumption, Types, Subscriber, BubbleInv, Next
  PROVE  Bare'
<1> SUFFICES ASSUME shell' # "bash", mode' = "running", ~strayed' PROVE ToBe' = Texts(pipe)'
  BY DEF Bare
<1>1. CASE \E what \in {"plain", "why", "fix", "other"} : Enter(what)
  <2>1. ~InFlight /\ bubble' = << >> /\ child' = child /\ pipe' = pipe
    BY <1>1 DEF Enter, Preexec, NoFile, daemon
  <2>2. << >> \in Seq(Row)
    BY Nothing
  <2> QED BY <2>1, <2>2, NoneComing
<1>2. CASE Posted \/ Attach \/ Break
  <2>1. UNCHANGED <<shell, mode, strayed, bubble, child, pipe>>
    BY <1>2 DEF Posted, Attach, Break, files, history
  <2> QED BY <2>1 DEF BubbleInv, Bare, ToBe, Coming
<1>3. CASE Receive
  <2>1. UNCHANGED <<shell, mode, strayed>>
    BY <1>3 DEF Receive, history
  <2> QED BY <1>3, <2>1, ToBeReceived DEF BubbleInv, Bare
<1>4. CASE ReadBubble \/ WriteBubble
  <2>1. UNCHANGED <<shell, mode, strayed, pipe>>
    BY <1>4 DEF ReadBubble, WriteBubble, history
  <2> QED BY <1>4, <2>1, ToBeRead DEF BubbleInv, Bare
<1>5. CASE \/ Edit \/ EmptyEnter \/ TakeGhost \/ Ends \/ Hook \/ Decide \/ Show \/ Quiet
           \/ Local \/ DrawPrompt \/ Deliver \/ OnMessage \/ Panel
  BY <1>5 DEF Edit, EmptyEnter, TakeGhost, Ends, Hook, Decide, Show, Quiet, Local, DrawPrompt,
              Deliver, OnMessage, Panel
<1> QED BY <1>1, <1>2, <1>3, <1>4, <1>5 DEF Next

\* A message lands on the bubble, in place of the asking line.
LEMMA StandsDelivered ==
  ASSUME HooksAssumption, Flags, Stands, Deliver, ~strayed'
  PROVE  Standing'
<1>0. /\ Below \in Seq(Row) /\ screen \in Seq(Row) /\ typed \in {1, 2} /\ pipe \in Seq(Int)
      /\ seq \in Nat
  BY Drawn DEF Flags, Types
<1>1. PICK n \in 1 .. Len(pipe) : /\ LandsAbove(Texts(SubSeq(pipe, 1, n)))
                                  /\ pipe' = SubSeq(pipe, n + 1, Len(pipe))
  BY DEF Deliver
<1>2. PICK p : p = SubSeq(pipe, 1, n)
  OBVIOUS
<1>3. p \in Seq(Int) /\ pipe' \in Seq(Int) /\ pipe = p \o pipe'
  BY <1>0, <1>1, <1>2
<1>4. /\ mode = "prompt" /\ mode' = mode /\ typed' = typed /\ shell = "zsh" /\ shell' = shell
      /\ seq' = seq /\ bubble' = bubble /\ child' = child
  BY DEF Deliver, files, daemon
<1>5. ~strayed /\ ~crowded /\ pendingSeq' = -1
  BY <1>1 DEF LandsAbove
<1>6. Standing
  BY <1>4, <1>5 DEF Stands, Claimed
<1>7. (Asked <=> AskedHere) /\ ~Asked'
  <2>1. Ahead = 0 /\ Ahead' = 0
    BY <1>4 DEF Ahead
  <2> QED BY <1>0, <1>4, <1>5, <2>1 DEF Asked, AskedHere
<1>8. Below = PromptArea(typed) /\ Below' = Below /\ Len(Below) = RowsAbove
  BY <1>0, <1>4, PromptIs DEF Below, RowsAbove
<1>9. PICK up : up = Len(Below) + (IF Asked THEN 1 ELSE 0)
  OBVIOUS
<1>10. up \in Nat /\ Texts(p) \in Seq(Row) /\ Cleared(up) \in Seq(Row)
  <2>1. up \in Nat
    BY <1>0, <1>9
  <2> QED BY <1>0, <1>3, <2>1, TextsAre, ClearedRows
<1>11. screen' = Cleared(up) \o (Texts(p) \o Below)
  <2>1. screen' = (Cleared(up) \o Texts(p)) \o Below
    BY <1>1, <1>2, <1>7, <1>8, <1>9 DEF LandsAbove
  <2>2. PICK c, q, b \in Seq(Row) : c = Cleared(up) /\ q = Texts(p) /\ b = Below
    BY <1>0, <1>10
  <2>3. c \o (q \o b) = (c \o q) \o b
    BY Stacked
  <2> QED BY <2>1, <2>2, <2>3
<1>12. ASSUME NEW h \in Seq(Row), ToBe = h \o Texts(pipe)
       PROVE  ToBe' = (h \o Texts(p)) \o Texts(pipe)'
  <2>1. PICK q, w \in Seq(Row) : q = Texts(p) /\ w = Texts(pipe')
    BY <1>3, TextsAre
  <2>2. Texts(p \o pipe') = q \o w
    BY <1>3, <2>1, TextsAre
  <2>3. h \o (q \o w) = (h \o q) \o w
    BY Stacked
  <2>4. ToBe' = ToBe /\ Texts(pipe)' = w /\ Texts(pipe) = q \o w
    BY <1>3, <1>4, <2>1, <2>2 DEF ToBe, Coming
  <2> QED BY <1>12, <2>1, <2>3, <2>4
<1> QED BY <1>0, <1>5, <1>6, <1>7, <1>8, <1>9, <1>10, <1>11, <1>12, StandsLanded

LEMMA StandsPending ==
  ASSUME HooksAssumption, Flags, Stands, OnMessage, ~strayed'
  PROVE  Standing'
<1>0. /\ Below \in Seq(Row) /\ screen \in Seq(Row) /\ typed \in {1, 2} /\ waiting \in Seq(Int)
      /\ seq \in Nat \ {0} /\ bubble \in Seq(Row) /\ pendingSeq \in Int
  BY Drawn DEF Flags, Types
<1>1. /\ mode \in {"told", "prompt"} /\ mode' = mode /\ typed' = typed /\ shell = "fish"
      /\ shell' = shell /\ seq' = seq /\ bubble' = bubble \o Texts(waiting) /\ child' = child
      /\ pipe' = pipe
  BY DEF OnMessage, Appended
<1>2. child.at = "idle" /\ pipe = << >>
  BY <1>1 DEF Flags, Subscriber
<1>3. PICK q \in Seq(Row) : q = Texts(waiting)
  BY <1>0, TextsAre
<1>4. ~strayed /\ ~crowded
  BY DEF OnMessage, LandsAbove, UnderOutput
<1>5. Standing
  BY <1>1, <1>4 DEF Stands, Claimed
<1>6. Below' = Below
  BY <1>1 DEF Below
<1>7. PICK up : up = Len(Below) + (IF Asked THEN 1 ELSE 0)
  OBVIOUS
<1>8. up \in Nat /\ Cleared(up) \in Seq(Row)
  <2>1. up \in Nat
    BY <1>0, <1>7
  <2> QED BY <1>0, <2>1, ClearedRows
<1>9. screen' = Cleared(up) \o (q \o Below) /\ ~Asked'
  <2>1. CASE mode = "prompt"
    <3>1. Ahead = 0 /\ Ahead' = 0
      BY <1>1, <2>1 DEF Ahead
    <3>2. pendingSeq' = -1 /\ LandsAbove(Texts(waiting))
      BY <2>1 DEF OnMessage, LandsAbove
    <3>3. (Asked <=> AskedHere) /\ ~Asked'
      BY <1>0, <1>1, <2>1, <3>1, <3>2 DEF Asked, AskedHere
    <3>4. Below = PromptArea(typed) /\ Len(Below) = RowsAbove
      BY <1>0, <2>1, PromptIs DEF Below, RowsAbove
    <3>5. screen' = (Cleared(up) \o q) \o Below
      BY <1>3, <1>7, <3>2, <3>3, <3>4 DEF LandsAbove
    <3>6. PICK c, b \in Seq(Row) : c = Cleared(up) /\ b = Below
      BY <1>0, <1>8
    <3>7. c \o (q \o b) = (c \o q) \o b
      BY Stacked
    <3> QED BY <3>3, <3>5, <3>6, <3>7
  <2>2. CASE mode = "told"
    <3>1. Ahead = 1 /\ Ahead' = 1 /\ Below = << >>
      BY <1>1, <2>2 DEF Ahead, Below
    <3>2. Asked <=> pendingSeq = seq + 1
      BY <1>1, <2>2, <3>1 DEF Asked
    <3>3. up = IF pendingSeq = seq + 1 THEN 1 ELSE 0
      BY <1>7, <3>1, <3>2
    <3>4. screen' = Cleared(up) \o q /\ (pendingSeq' = IF up = 1 THEN -1 ELSE pendingSeq)
      BY <1>3, <2>2, <3>3 DEF OnMessage, UnderOutput
    <3>5. pendingSeq' # seq' + Ahead'
      BY <1>0, <1>1, <3>1, <3>3, <3>4
    <3>6. ~Asked'
      BY <1>1, <2>2, <3>5 DEF Asked
    <3>7. q \o << >> = q
      BY Column, Nothing
    <3> QED BY <3>1, <3>4, <3>6, <3>7
  <2> QED BY <1>1, <2>1, <2>2
<1>10. ASSUME NEW h \in Seq(Row), ToBe = h \o Texts(pipe)
       PROVE  ToBe' = (h \o q) \o Texts(pipe)'
  <2>1. Texts(pipe) = << >> /\ Texts(pipe)' = << >>
    BY <1>1, <1>2, Nothing
  <2>2. h \o << >> = h /\ bubble \o << >> = bubble
    BY <1>0, Column, Nothing
  <2>3. ToBe = bubble /\ ToBe = h
    BY <1>2, <1>10, <2>1, <2>2 DEF ToBe, Coming
  <2>4. h \o q \in Seq(Row) /\ (h \o q) \o << >> = h \o q
    BY Column, Nothing
  <2>5. bubble' = h \o q
    BY <1>1, <1>3, <2>3
  <2>6. ToBe' = (h \o q) \o << >>
    BY <1>1, <1>2, <2>5 DEF ToBe, Coming
  <2> QED BY <2>1, <2>6
<1> QED BY <1>0, <1>3, <1>4, <1>5, <1>6, <1>7, <1>8, <1>9, <1>10, StandsLanded

\* The panel.
LEMMA Joined ==
  ASSUME NEW a \in Seq(Row), NEW b \in Seq(Row)
  PROVE  /\ \A i \in 1 .. Len(a) : (a \o b)[i] = a[i]
         /\ \A i \in 1 .. Len(b) : (a \o b)[Len(a) + i] = b[i]
OBVIOUS

RowWithin(u, m, w, s) == Len(m) = 1 /\ s = u \o (m \o w)

LEMMA Removed ==
  ASSUME NEW u \in Seq(Row), NEW m \in Seq(Row), NEW w \in Seq(Row), NEW s,
         RowWithin(u, m, w, s)
  PROVE  /\ Len(u) + 1 \in DOMAIN s /\ s[Len(u) + 1] = m[1]
         /\ RemoveAt(s, Len(u) + 1) = u \o w
<1>0. Len(m) = 1 /\ s = u \o (m \o w)
  BY DEF RowWithin
<1>1. PICK v \in Seq(Row) : v = m \o w
  BY Column
<1>2. Len(v) = 1 + Len(w) /\ v[1] = m[1]
  <2>1. Len(v) = Len(m) + Len(w)
    BY <1>1, Column
  <2>2. \A i \in 1 .. Len(m) : v[i] = m[i]
    BY <1>1, Joined
  <2> QED BY <1>0, <2>1, <2>2
<1>3. ASSUME NEW i \in 1 .. Len(w) PROVE v[i + 1] = w[i]
  <2>1. \A k \in 1 .. Len(w) : v[Len(m) + k] = w[k]
    BY <1>1, Joined
  <2>2. Len(m) + i = i + 1
    BY <1>0
  <2> QED BY <2>1, <2>2
<1>4. s \in Seq(Row) /\ Len(s) = Len(u) + Len(v)
  <2>1. s = u \o v
    BY <1>0, <1>1
  <2> QED BY <2>1, Column
<1>5. /\ \A i \in 1 .. Len(u) : s[i] = u[i]
      /\ \A i \in 1 .. Len(v) : s[Len(u) + i] = v[i]
  BY <1>0, <1>1, <1>4
<1>6. PICK n \in Nat : n = Len(u)
  OBVIOUS
<1>7. s[n + 1] = m[1] /\ n + 1 \in DOMAIN s
  BY <1>2, <1>4, <1>5, <1>6
<1>8. ASSUME NEW i \in 1 .. Len(w) PROVE s[n + 1 + i] = w[i]
  <2>1. i + 1 \in 1 .. Len(v) /\ n + (i + 1) = n + 1 + i
    BY <1>2
  <2>2. s[n + (i + 1)] = v[i + 1]
    BY <1>5, <1>6, <2>1
  <2> QED BY <1>3, <2>1, <2>2
<1>9. SubSeq(s, 1, n) = u
  BY <1>4, <1>5, <1>6
<1>10. SubSeq(s, n + 2, Len(s)) = w
  <2>1. Len(s) = n + 1 + Len(w)
    BY <1>2, <1>4, <1>6
  <2>2. \A i \in 1 .. Len(w) : s[n + 1 + i] = w[i]
    BY <1>8
  <2>3. Len(SubSeq(s, n + 2, Len(s))) = Len(w)
    <3>1. Len(s) - (n + 2) + 1 = Len(w) /\ Len(w) \in Nat /\ Len(s) \in Nat
      BY <1>4, <2>1
    <3>2. n + 2 \in 1 .. Len(s) + 1
      BY <2>1
    <3> QED BY <1>4, <3>1, <3>2
  <2>4. \A i \in 1 .. Len(w) : SubSeq(s, n + 2, Len(s))[i] = s[n + 1 + i]
    BY <1>4, <2>1
  <2>5. SubSeq(s, n + 2, Len(s)) \in Seq(Row)
    BY <1>4, <2>1
  <2> QED BY <2>2, <2>3, <2>4, <2>5
<1>11. RemoveAt(s, n + 1) = u \o w
  <2>1. (n + 1) - 1 = n /\ (n + 1) + 1 = n + 2
    OBVIOUS
  <2> QED BY <1>9, <1>10, <2>1 DEF RemoveAt
<1> QED BY <1>6, <1>7, <1>11

PutBack == \/ screen' = screen
           \/ \E i \in DOMAIN screen : IsAsking(screen[i]) /\ screen' = RemoveAt(screen, i)

LEMMA PanelBack ==
  ASSUME HooksAssumption, Flags, Stands, Panel, ~strayed, ~InFlight
  PROVE  Standing' /\ PutBack
<1>0. /\ Below \in Seq(Row) /\ screen \in Seq(Row) /\ typed \in {1, 2} /\ bubble \in Seq(Row)
      /\ seq \in Nat \ {0} /\ mode = "prompt" /\ RowsAbove \in Nat
  BY Drawn, PromptUp DEF Flags, Types, Panel
<1>1. PICK x, h, m, t \in Seq(Row) : Parts(x, h, m, t)
  BY <1>0 DEF Stands, Claimed, Standing
<1>2. /\ mode' = mode /\ typed' = typed /\ shell' = shell /\ seq' = seq /\ bubble' = bubble
      /\ child' = child /\ pipe' = pipe
  BY DEF Panel, daemon
<1>3. PICK b \in Seq(Row) : b = Below
  BY <1>0
<1>4. /\ b = PromptArea(typed) /\ Below' = b /\ Len(b) = RowsAbove /\ Below = b
  BY <1>0, <1>2, <1>3, PromptIs DEF Below, RowsAbove
<1>5. Ahead = 0 /\ Ahead' = 0
  BY <1>0, <1>2 DEF Ahead
<1>6. (Asked <=> AskingOnScreen) /\ ~Asked'
  <2>1. CASE shell = "bash"
    BY <1>2, <2>1 DEF Asked, AskingOnScreen, Panel
  <2>2. CASE shell # "bash"
    <3>1. pendingSeq' = -1
      BY <2>2 DEF Panel
    <3>2. Asked <=> pendingSeq = seq
      BY <1>0, <1>5, <2>2 DEF Asked
    <3>3. ~Asked'
      BY <1>0, <1>2, <1>5, <2>2, <3>1 DEF Asked
    <3> QED BY <2>2, <3>2, <3>3 DEF AskingOnScreen, AskedHere
  <2> QED BY <2>1, <2>2
<1>7. Above = Len(b) + Len(m)
  <2>1. Len(m) = IF Asked THEN 1 ELSE 0
    BY <1>1 DEF Parts
  <2> QED BY <1>4, <1>6, <2>1 DEF Above
<1>8. bubble = h \o t /\ Texts(pipe) = << >> /\ ToBe' = bubble
  <2>1. ToBe = bubble /\ Texts(pipe)' = << >> /\ ToBe' = bubble
    BY <1>0, <1>2, NoneComing
  <2>2. h \o t \in Seq(Row) /\ (h \o t) \o << >> = h \o t
    BY Column, Nothing
  <2> QED BY <1>1, <1>2, <2>1, <2>2 DEF Parts
<1>9. PICK g \in Seq(Row) : g = h \o t
  BY Column
<1>10. screen = (x \o h) \o (m \o (t \o b))
  BY <1>1, <1>3 DEF Parts
<1>11. screen' = (x \o g) \o b
  <2>1. CASE focused
    <3>1. screen' = (Cleared(Above + Len(g)) \o g) \o b
      BY <1>4, <1>8, <1>9, <2>1 DEF Panel
    <3>2. PICK w \in Seq(Row) : w = m \o (t \o b)
      BY Column
    <3>3. PICK v \in Seq(Row) : v = h \o w
      BY Column
    <3>4. screen = x \o v
      <4>1. \A q \in Seq(Row) : x \o (h \o q) = (x \o h) \o q
        BY Stacked
      <4> QED BY <1>10, <3>2, <3>3, <4>1
    <3>5. Len(v) = Above + Len(g)
      <4>1. Len(v) = Len(h) + Len(w) /\ Len(g) = Len(h) + Len(t)
        BY <1>9, <3>3, Column
      <4>2. Len(w) = Len(m) + Len(t \o b) /\ Len(t \o b) = Len(t) + Len(b)
        BY <3>2, Column
      <4> QED BY <1>7, <4>1, <4>2
    <3>6. Cleared(Above + Len(g)) = x
      BY <3>4, <3>5, ClearedTo DEF Cleared
    <3> QED BY <3>1, <3>6
  <2>2. CASE ~focused
    <3>1. screen' = (Cleared(Above + Len(<< >>)) \o << >>) \o b
      BY <1>4, <2>2 DEF Panel
    <3>2. t = << >>
      BY <1>0, <1>1, <2>2 DEF Parts, Flags, Marked
    <3>3. g = h /\ t \o b = b
      BY <1>9, <3>2, Column
    <3>4. PICK u, v \in Seq(Row) : u = x \o h /\ v = m \o b
      BY Column
    <3>5. screen = u \o v
      BY <1>10, <3>3, <3>4
    <3>6. Len(v) = Above + Len(<< >>)
      <4>1. Len(v) = Len(m) + Len(b) /\ Len(<< >>) = 0
        BY <3>4, Column
      <4> QED BY <1>7, <4>1
    <3>7. Cleared(Above + Len(<< >>)) = u
      BY <3>5, <3>6, ClearedTo DEF Cleared
    <3>8. u \o << >> = u
      BY Column, Nothing
    <3> QED BY <3>1, <3>3, <3>4, <3>7, <3>8
  <2> QED BY <2>1, <2>2
<1>12. Standing'
  <2>1. ToBe' = g \o Texts(pipe)'
    <3>1. g \o << >> = g
      BY Column, Nothing
    <3> QED BY <1>2, <1>8, <1>9, <3>1
  <2> QED BY <1>4, <1>6, <1>11, <2>1, StandsBare
<1>13. PutBack
  <2>1. PICK u, w \in Seq(Row) : u = x \o h /\ w = t \o b
    BY Column
  <2>2. screen' = u \o w
    <3>1. OfThree(x, h, t, b)
      BY StackedOn
    <3> QED BY <1>9, <1>11, <2>1, <3>1 DEF OfThree
  <2>3. CASE Asked
    <3>1. Len(m) = 1 /\ IsAsking(m[1])
      BY <1>1, <2>3 DEF Parts
    <3>2. RowWithin(u, m, w, screen)
      BY <1>10, <2>1, <3>1 DEF RowWithin
    <3>3. /\ Len(u) + 1 \in DOMAIN screen /\ screen[Len(u) + 1] = m[1]
          /\ RemoveAt(screen, Len(u) + 1) = u \o w
      BY <3>2, Removed
    <3> QED BY <2>2, <3>1, <3>3 DEF PutBack
  <2>4. CASE ~Asked
    <3>1. m = << >>
      BY <1>1, <2>4 DEF Parts
    <3>2. m \o w = w
      BY <3>1, Column
    <3> QED BY <1>10, <2>1, <2>2, <3>2 DEF PutBack
  <2> QED BY <2>3, <2>4
<1> QED BY <1>12, <1>13

LEMMA StandsPanel ==
  ASSUME HooksAssumption, Flags, Stands, Panel, ~strayed'
  PROVE  Standing'
<1>1. ~strayed /\ ~InFlight
  BY DEF Panel
<1> QED BY <1>1, PanelBack

\* The same, when only the rows under the bubble are drawn anew.
LEMMA StandsRedrawn ==
  ASSUME Standing, Below \in Seq(Row), Texts(pipe) \in Seq(Row), ToBe \in Seq(Row),
         NEW b \in Seq(Row), Below' = b,
         \A c \in Seq(Row) : screen = c \o Below => screen' = c \o b,
         ToBe' = ToBe, pipe' = pipe, Asked' <=> Asked, crowded' <=> crowded
  PROVE  Standing'
<1>1. << >> \in Seq(Row) /\ ToBe \o << >> = ToBe /\ Texts(pipe) \o << >> = Texts(pipe)
  BY Column, Nothing
<1>2. PICK z : z = << >>
  OBVIOUS
<1>3. Texts(pipe)' = Texts(pipe)
  OBVIOUS
<1> QED BY <1>1, <1>2, <1>3, StandsStill

\* Nothing of the bubble is left, and the rows below are b.
LEMMA StandsCleared ==
  ASSUME NEW x \in Seq(Row), NEW b \in Seq(Row), screen' = x \o b, Below' = b,
         ToBe' = Texts(pipe)', Texts(pipe)' \in Seq(Row), ~Asked'
  PROVE  Standing'
<1>1. << >> \in Seq(Row) /\ x \o << >> = x /\ << >> \o Texts(pipe)' = Texts(pipe)'
  BY Column, Nothing
<1>2. PICK h \in Seq(Row) : h = << >>
  BY <1>1
<1>3. screen' = (x \o h) \o b /\ ToBe' = h \o Texts(pipe)'
  BY <1>1, <1>2
<1> QED BY <1>3, StandsBare

LEMMA StandsPrompt ==
  ASSUME HooksAssumption, Flags, Flags', BubbleInv, ~strayed', Claimed',
         \/ Edit \/ EmptyEnter \/ DrawPrompt \/ TakeGhost
         \/ \E what \in {"plain", "why", "fix", "other"} : Enter(what)
  PROVE  Standing'
<1>0. /\ Below \in Seq(Row) /\ ToBe \in Seq(Row) /\ Texts(pipe) \in Seq(Row)
      /\ screen \in Seq(Row) /\ typed \in {1, 2} /\ RowsAbove \in Nat /\ bubble \in Seq(Row)
      /\ seq \in Nat \ {0} /\ pendingSeq \in Int /\ screen' \in Seq(Row)
  BY Drawn, PromptUp DEF Flags, Types
<1>e. << >> \in Seq(Row)
  BY Nothing
<1>1. CASE Edit
  <2>1. /\ mode = "prompt" /\ mode' = mode /\ typed' \in {1, 2}
        /\ screen' = Cleared(RowsAbove) \o PromptArea(typed')
        /\ UNCHANGED <<shell, asking, seq, pendingSeq, crowded, strayed, bubble, child, pipe>>
    BY <1>0, <1>1 DEF Edit, files, daemon, history
  <2>2. PICK b \in Seq(Row) : b = PromptArea(typed')
    BY <2>1, PromptIs
  <2>3. Below' = b /\ Len(Below) = RowsAbove
    BY <1>0, <2>1, <2>2, PromptIs DEF Below, RowsAbove
  <2>4. ASSUME NEW c \in Seq(Row), screen = c \o Below PROVE screen' = c \o b
    <3>1. Cleared(RowsAbove) = c
      BY <1>0, <2>3, <2>4, ClearedTo DEF Cleared
    <3> QED BY <2>1, <2>2, <3>1
  <2>5. (Asked' <=> Asked) /\ (crowded' <=> crowded) /\ ToBe' = ToBe /\ pipe' = pipe
    BY <2>1 DEF Asked, Ahead, ToBe, Coming
  <2>6. Standing
    BY <2>1 DEF BubbleInv, Stands, Claimed
  <2> QED BY <1>0, <2>3, <2>4, <2>5, <2>6, StandsRedrawn
<1>2. CASE EmptyEnter
  <2>1. /\ mode = "prompt" /\ mode' = mode /\ typed = 1 /\ typed' = typed
        /\ screen' = screen \o PromptArea(1) /\ bubble' = << >> /\ ~InFlight
        /\ UNCHANGED <<shell, pendingSeq, child, pipe>>
    BY <1>2 DEF EmptyEnter, NoFile
  <2>2. ~Asked'
    <3>0. Ahead = 0 /\ Ahead' = 0
      BY <2>1 DEF Ahead
    <3>1. CASE shell = "bash"
      BY <1>2, <2>1, <3>1 DEF Asked, EmptyEnter
    <3>2. CASE shell # "bash"
      <4>1. pendingSeq <= seq + Ahead /\ seq' = seq + 1
        BY <1>2, <2>1, <3>2 DEF Flags, Counted, EmptyEnter
      <4>2. pendingSeq' # seq' + Ahead'
        BY <1>0, <2>1, <3>0, <4>1
      <4> QED BY <2>1, <3>2, <4>2 DEF Asked
    <3> QED BY <3>1, <3>2
  <2>3. PICK b \in Seq(Row) : b = PromptArea(1)
    BY PromptIs
  <2>4. Below' = b /\ screen' = screen \o b
    BY <2>1, <2>3 DEF Below
  <2>5. ToBe' = << >> /\ Texts(pipe)' = << >>
    BY <1>e, <2>1, NoneComing
  <2> QED BY <1>0, <1>e, <2>2, <2>4, <2>5, StandsCleared
<1>3. CASE DrawPrompt
  <2>1. /\ mode = "told" /\ mode' = "prompt" /\ typed' = 1
        /\ screen' = screen \o PromptArea(1)
        /\ seq' = (IF shell = "fish" THEN seq + 1 ELSE seq)
        /\ UNCHANGED <<shell, asking, pendingSeq, crowded, strayed, bubble, child, pipe>>
    BY <1>3 DEF DrawPrompt, daemon, history
  <2>2. PICK b \in Seq(Row) : b = PromptArea(1)
    BY PromptIs
  <2>3. Below' = b /\ Below = << >>
    BY <2>1, <2>2 DEF Below
  <2>4. ASSUME NEW c \in Seq(Row), screen = c \o Below PROVE screen' = c \o b
    <3>1. c \o << >> = c
      BY Column, Nothing
    <3> QED BY <2>1, <2>2, <2>3, <2>4, <3>1
  <2>5. Asked' <=> Asked
    BY <1>0, <2>1 DEF Asked, Ahead
  <2>6. (crowded' <=> crowded) /\ ToBe' = ToBe /\ pipe' = pipe
    BY <2>1 DEF ToBe, Coming
  <2>7. Standing
    BY <2>1 DEF BubbleInv, Stands, Claimed
  <2> QED BY <1>0, <2>3, <2>4, <2>5, <2>6, <2>7, StandsRedrawn
<1>4. CASE TakeGhost
  <2>1. /\ mode = "prompt"
        /\ UNCHANGED <<shell, mode, screen, typed, asking, seq, pendingSeq, crowded, strayed,
                       bubble, child, pipe>>
    BY <1>4 DEF TakeGhost, daemon, history
  <2>2. Standing
    BY <2>1 DEF BubbleInv, Stands, Claimed
  <2>3. /\ Below' = Below /\ ToBe' = ToBe /\ (Asked' <=> Asked) /\ (crowded' <=> crowded)
        /\ screen' = screen /\ pipe' = pipe
    BY <2>1 DEF Below, ToBe, Coming, Asked, Ahead
  <2> QED BY <1>0, <2>2, <2>3, StandsUntouched
<1>5. CASE \E what \in {"plain", "why", "fix", "other"} : Enter(what)
  <2>1. /\ mode = "prompt" /\ mode' = "running" /\ shell' = shell /\ asking' = asking
        /\ child' = child /\ pipe' = pipe
    BY <1>5 DEF Enter, daemon
  <2>2. shell # "bash"
    BY <2>1 DEF Claimed
  <2>3. bubble' = << >> /\ ~InFlight
    BY <1>5, <2>2 DEF Enter, Preexec, NoFile
  <2>4. ~Asked'
    BY <2>1, <2>2 DEF Asked, Flags, Marked
  <2>5. ToBe' = << >> /\ Texts(pipe)' = << >>
    BY <1>e, <2>1, <2>3, NoneComing
  <2>6. Below' = << >> /\ screen' \o << >> = screen'
    BY <1>0, <1>e, <2>1, Column DEF Below
  <2>7. PICK x \in Seq(Row) : x = screen'
    BY <1>0
  <2>8. screen' = x \o << >>
    BY <2>6, <2>7
  <2> QED BY <1>e, <2>4, <2>5, <2>6, <2>8, StandsCleared
<1> QED BY <1>1, <1>2, <1>3, <1>4, <1>5

LEMMA StandsEnds ==
  ASSUME HooksAssumption, Flags, Flags', BubbleInv, ~strayed', Claimed', Ends
  PROVE  Standing'
<1>0. /\ ToBe \in Seq(Row) /\ Texts(pipe) \in Seq(Row) /\ bubble \in Seq(Row)
      /\ screen \in Seq(Row) /\ screen' \in Seq(Row) /\ count \in Int
  BY Drawn DEF Flags, Types
<1>1. /\ mode = "running" /\ mode' = "ended" /\ shell' = shell /\ line' = line
      /\ child' = child /\ pipe' = pipe
  BY DEF Ends, daemon
<1>2. << >> \in Seq(Row) /\ Below' = << >>
  BY <1>1, Nothing DEF Below
<1>3. PICK y \in Seq(Row) : y = screen'
  BY <1>0
<1>4. screen' = y \o << >>
  BY <1>3, Column, Nothing
<1>5. (Asked' <=> asking') /\ ~strayed
  <2>1. Asked' <=> asking'
    BY <1>1 DEF Asked
  <2>2. ~strayed
    BY DEF Ends, PlainEnds, Asks, AnswersInPlace, Fails
  <2> QED BY <2>1, <2>2
<1>6. shell # "bash" => ~asking /\ ToBe = Texts(pipe)
  BY <1>1, <1>5 DEF Flags, Marked, BubbleInv, Bare
<1>7. CASE PlainEnds
  <2>1. bubble' = bubble /\ asking' = asking /\ shell # "bash"
    BY <1>1, <1>7 DEF PlainEnds, Claimed
  <2>2. ToBe' = Texts(pipe)' /\ Texts(pipe)' \in Seq(Row)
    BY <1>0, <1>1, <1>6, <2>1 DEF ToBe, Coming
  <2> QED BY <1>2, <1>4, <1>5, <1>6, <2>1, <2>2, StandsCleared
<1>8. CASE Asks
  <2>1. /\ bubble' = bubble /\ asking' /\ shell # "bash"
        /\ screen' = Append(screen, Asking(count))
    BY <1>8 DEF Asks
  <2>2. ToBe' = Texts(pipe)' /\ Texts(pipe)' \in Seq(Row)
    BY <1>0, <1>1, <1>6, <2>1 DEF ToBe, Coming
  <2>3. PICK row \in Row : row = Asking(count) /\ IsAsking(row)
    BY <1>0, RowsAre
  <2>4. PICK x, h \in Seq(Row) : x = screen /\ h = << >>
    BY <1>0, <1>2
  <2>5. screen' = (x \o h) \o (<<row>> \o (h \o h))
    <3>1. x \o h = x /\ h \o h = h
      BY <2>4, Column
    <3>2. <<row>> \in Seq(Row)
      OBVIOUS
    <3>3. <<row>> \o << >> = <<row>>
      BY <3>2, Column, Nothing
    <3>4. screen' = x \o <<row>>
      BY <2>1, <2>3, <2>4
    <3> QED BY <2>4, <3>1, <3>3, <3>4
  <2>6. ToBe' = (h \o h) \o Texts(pipe)'
    <3>1. << >> \o << >> = << >> /\ << >> \o Texts(pipe)' = Texts(pipe)'
      BY <1>2, <2>2, Column
    <3> QED BY <2>2, <2>4, <3>1
  <2> QED BY <1>2, <1>5, <2>1, <2>3, <2>4, <2>5, <2>6, StandsAsked
<1>9. CASE AnswersInPlace
  <2>1. /\ bubble' = <<Said(count)>> /\ ~InFlight /\ ~asking'
        /\ screen' = Append(screen, Said(count))
    BY <1>9 DEF AnswersInPlace
  <2>2. PICK row \in Row : row = Said(count)
    BY <1>0, RowsAre
  <2>3. PICK x, h \in Seq(Row) : x = screen /\ h = <<row>>
    <3>1. <<row>> \in Seq(Row)
      OBVIOUS
    <3> QED BY <1>0, <3>1
  <2>4. screen' = (x \o h) \o << >>
    <3>1. screen' = x \o h
      BY <2>1, <2>2, <2>3
    <3>2. (x \o h) \o << >> = x \o h
      BY Column, Nothing
    <3> QED BY <3>1, <3>2
  <2>5. ToBe' = h \o Texts(pipe)'
    <3>1. bubble' \in Seq(Row) /\ bubble' = h
      BY <2>1, <2>2, <2>3
    <3>2. ToBe' = h /\ Texts(pipe)' = << >>
      BY <1>1, <2>1, <3>1, NoneComing
    <3>3. h \o << >> = h
      BY Column, Nothing
    <3> QED BY <3>2, <3>3
  <2> QED BY <1>2, <1>5, <2>1, <2>4, <2>5, StandsBare
<1>10. CASE Fails
  <2>1. bubble = << >> /\ bubble' = bubble /\ asking' = asking
    BY <1>10 DEF Fails, NoFile
  <2>2. ~asking
    BY <1>5, <1>6, <2>1 DEF Flags, Marked
  <2>3. ToBe = Texts(pipe)
    <3>1. CASE shell # "bash"
      BY <1>6, <3>1
    <3>2. CASE shell = "bash"
      <4>1. child.at = "idle" /\ pipe = << >>
        BY <3>2 DEF Flags, Subscriber
      <4>2. << >> \o << >> = << >>
        BY <1>2, Column
      <4> QED BY <2>1, <4>1, <4>2, Nothing DEF ToBe, Coming
    <3> QED BY <3>1, <3>2
  <2>4. ToBe' = Texts(pipe)' /\ Texts(pipe)' \in Seq(Row)
    BY <1>0, <1>1, <2>1, <2>3 DEF ToBe, Coming
  <2> QED BY <1>2, <1>4, <1>5, <2>1, <2>2, <2>4, StandsCleared
<1> QED BY <1>7, <1>8, <1>9, <1>10 DEF Ends

\* The hook's marker says of the prompt to come what the file said.
LEMMA AskedHook ==
  ASSUME Flags, Hook, ~Forgets
  PROVE  Asked' <=> Asked
<1>0. seq \in Nat \ {0} /\ pendingSeq \in Int /\ shell \in {"zsh", "fish", "bash"}
  BY DEF Flags, Types
<1>1. /\ mode = "ended" /\ shell' = shell /\ (Asked <=> asking)
      /\ mode' = IF line = "plain" THEN "deciding" ELSE "told"
  BY DEF Hook, Asked
<1>2. CASE line = "plain"
  BY <1>1, <1>2 DEF Hook, Asked
<1>3. CASE line # "plain" /\ shell = "bash"
  BY <1>1, <1>3 DEF Hook, TakesMarker, Asked
<1>4. CASE line # "plain" /\ shell = "fish"
  <2>1. /\ seq' = seq /\ Ahead' = 1
        /\ pendingSeq' = IF asking THEN seq' + 1 ELSE pendingSeq
    BY <1>1, <1>4 DEF Hook, TakesMarker, Counts, Ahead
  <2>2. pendingSeq < seq
    BY <1>1, <1>4 DEF Flags, Counted
  <2>3. pendingSeq' = seq' + Ahead' <=> asking
    BY <1>0, <2>1, <2>2
  <2> QED BY <1>1, <1>4, <2>3 DEF Asked
<1>5. CASE line # "plain" /\ shell = "zsh"
  <2>1. /\ seq' = seq + 1 /\ Ahead' = 0
        /\ pendingSeq' = IF asking THEN seq' + 0 ELSE pendingSeq
    BY <1>1, <1>5 DEF Hook, TakesMarker, Counts, Ahead
  <2>2. pendingSeq < seq
    BY <1>1, <1>5 DEF Flags, Counted
  <2>3. pendingSeq' = seq' + Ahead' <=> asking
    BY <1>0, <2>1, <2>2
  <2> QED BY <1>1, <1>5, <2>3 DEF Asked
<1> QED BY <1>0, <1>2, <1>3, <1>4, <1>5

LEMMA StandsHook ==
  ASSUME HooksAssumption, Flags, Flags', BubbleInv, ~strayed', Hook
  PROVE  Standing'
<1>0. /\ ToBe \in Seq(Row) /\ Texts(pipe) \in Seq(Row) /\ Below \in Seq(Row)
      /\ screen \in Seq(Row) /\ bubble \in Seq(Row)
  BY Drawn DEF Flags, Types
<1>1. /\ mode = "ended" /\ mode' \in {"deciding", "told"} /\ shell' = shell /\ screen' = screen
      /\ child' = child /\ pipe' = pipe /\ crowded' = crowded
  BY DEF Hook
<1>2. << >> \in Seq(Row) /\ Below = << >> /\ Below' = << >>
  BY <1>1, Nothing DEF Below
<1>3. CASE Forgets
  <2>1. shell = "bash" /\ bubble' = << >> /\ ~asking'
    BY <1>3 DEF Hook, Forgets, NoFile
  <2>2. ~InFlight
    BY <2>1 DEF InFlight, Flags, Subscriber
  <2>3. ToBe' = << >> /\ Texts(pipe)' = << >>
    BY <1>1, <1>2, <2>1, <2>2, NoneComing
  <2>4. ~Asked'
    BY <1>1, <2>1 DEF Asked
  <2>5. PICK x \in Seq(Row) : x = screen
    BY <1>0
  <2>6. screen' = x \o << >>
    BY <1>1, <2>5, Column, Nothing
  <2> QED BY <1>2, <2>3, <2>4, <2>6, StandsCleared
<1>4. CASE ~Forgets
  <2>1. ~strayed /\ bubble' = bubble
    BY <1>4 DEF Hook
  <2>2. Standing
    BY <1>1, <1>4, <2>1 DEF Forgets, BubbleInv, Stands, Claimed
  <2>3. Asked' <=> Asked
    BY <1>4, AskedHook
  <2>4. ToBe' = ToBe
    BY <1>1, <2>1 DEF ToBe, Coming
  <2> QED BY <1>0, <1>1, <1>2, <2>2, <2>3, <2>4, StandsUntouched
<1> QED BY <1>3, <1>4

\* A decision that was not shown asks for nothing.
LEMMA AskedTold ==
  ASSUME Flags, mode = "deciding", mode' = "told", UNCHANGED <<shell, asking, seq, pendingSeq>>
  PROVE  ~Asked /\ ~Asked'
<1>0. seq \in Nat \ {0} /\ pendingSeq \in Int /\ ~asking
  BY DEF Flags, Types, Marked
<1>1. CASE shell = "bash"
  BY <1>0, <1>1 DEF Asked
<1>2. CASE shell # "bash"
  <2>1. pendingSeq < seq /\ Ahead' \in {0, 1}
    BY <1>2 DEF Flags, Counted, Ahead
  <2>2. \A a \in {0, 1} : pendingSeq # seq + a
    BY <1>0, <2>1
  <2>3. pendingSeq' # seq' + Ahead'
    BY <2>1, <2>2
  <2> QED BY <1>0, <1>2, <2>3 DEF Asked
<1> QED BY <1>1, <1>2

LEMMA AskedShown ==
  ASSUME Flags, Show
  PROVE  Asked' <=> view.pending
<1>0. /\ seq \in Nat \ {0} /\ pendingSeq \in Int /\ ~asking /\ mode = "deciding"
      /\ mode' = "told" /\ seq' = seq /\ shell' = shell /\ shell \in {"zsh", "fish", "bash"}
      /\ TakesMarker(asking \/ view.pending)
  BY DEF Flags, Types, Marked, Show, Shows
<1>1. CASE shell = "bash"
  BY <1>0, <1>1 DEF Asked, TakesMarker
<1>2. CASE shell # "bash"
  <2>1. PICK a \in {0, 1} : a = IF shell = "fish" THEN 1 ELSE 0
    OBVIOUS
  <2>2. pendingSeq < seq /\ Ahead' = a
    BY <1>0, <1>2, <2>1 DEF Flags, Counted, Ahead
  <2>3. pendingSeq' = IF view.pending THEN seq + a ELSE pendingSeq
    BY <1>0, <1>2, <2>1 DEF TakesMarker
  <2>4. pendingSeq' = seq' + Ahead' <=> view.pending
    <3>1. pendingSeq # seq + a
      BY <1>0, <2>2
    <3> QED BY <1>0, <2>2, <2>3, <3>1
  <2> QED BY <1>0, <1>2, <2>4 DEF Asked
<1> QED BY <1>1, <1>2

LEMMA StandsShown ==
  ASSUME HooksAssumption, Flags, Flags', Show, ~strayed'
  PROVE  Standing'
<1>0. /\ view.toast \in Seq(Row) /\ view.bubbles \in Seq(Int) /\ screen \in Seq(Row)
      /\ count \in Int
  BY DEF Flags, Views, Types
<1>1. PICK x, h, t \in Seq(Row) : x = screen /\ h = view.toast /\ t = Texts(view.bubbles)
  BY <1>0, TextsAre
<1>2. PICK g \in Seq(Row) : g = h \o t
  BY Column
<1>3. /\ screen' = ((x \o h) \o AskingLine) \o t /\ bubble = << >> /\ ~InFlight
      /\ mode' = "told" /\ child' = child /\ pipe' = pipe
      /\ crowded' = (view.pending /\ view.bubbles # << >>)
  BY <1>1 DEF Show, Shows, NoFile
<1>4. bubble' = g
  <2>1. Kept = g
    BY <1>1, <1>2 DEF Kept
  <2> QED BY <1>3, <2>1 DEF Show, Shows
<1>5. ToBe' = g /\ Texts(pipe)' = << >>
  BY <1>3, <1>4, NoneComing
<1>6. << >> \in Seq(Row) /\ Below' = << >> /\ ToBe' = g \o Texts(pipe)'
  <2>1. g \o << >> = g
    BY Column, Nothing
  <2> QED BY <1>3, <1>5, <2>1, Nothing DEF Below
<1>7. CASE view.pending
  <2>1. PICK row \in Row : row = Asking(count) /\ IsAsking(row)
    BY <1>0, RowsAre
  <2>2. PICK u, r \in Seq(Row) : u = x \o h /\ r = <<row>>
    <3>1. <<row>> \in Seq(Row) /\ x \o h \in Seq(Row)
      BY Column
    <3> QED BY <3>1
  <2>3. screen' = u \o (r \o (t \o << >>))
    <3>1. screen' = (u \o r) \o t
      BY <1>3, <1>7, <2>1, <2>2 DEF AskingLine
    <3>2. u \o (r \o t) = (u \o r) \o t
      BY Stacked
    <3>3. t \o << >> = t
      BY Column, Nothing
    <3> QED BY <3>1, <3>2, <3>3
  <2>4. crowded' \/ t = << >>
    <3>1. view.bubbles = << >> => t = << >>
      BY <1>1, Nothing
    <3> QED BY <1>3, <1>7, <3>1
  <2>5. Asked'
    BY <1>7, AskedShown
  <2>6. ToBe' = (h \o t) \o Texts(pipe)'
    BY <1>2, <1>6
  <2>7. screen' = (x \o h) \o (<<row>> \o (t \o << >>))
    BY <2>2, <2>3
  <2> QED BY <1>6, <2>1, <2>4, <2>5, <2>6, <2>7, StandsAsked
<1>8. CASE ~view.pending
  <2>1. screen' = x \o g
    <3>1. AskingLine = << >>
      BY <1>8 DEF AskingLine
    <3>2. x \o h \in Seq(Row) /\ (x \o h) \o << >> = x \o h
      BY Column, Nothing
    <3>3. \A q \in Seq(Row) : x \o (h \o q) = (x \o h) \o q
      BY Stacked
    <3> QED BY <1>2, <1>3, <3>1, <3>2, <3>3
  <2>2. screen' = (x \o g) \o << >>
    <3>1. x \o g \in Seq(Row) /\ (x \o g) \o << >> = x \o g
      BY Column, Nothing
    <3> QED BY <2>1, <3>1
  <2>3. ~Asked'
    BY <1>8, AskedShown
  <2> QED BY <1>6, <2>2, <2>3, StandsBare
<1> QED BY <1>7, <1>8

LEMMA StandsDecided ==
  ASSUME HooksAssumption, Flags, Flags', BubbleInv, ~strayed', Decide \/ Quiet \/ Local
  PROVE  Standing'
<1>0. /\ ToBe \in Seq(Row) /\ Texts(pipe) \in Seq(Row) /\ Below \in Seq(Row)
      /\ screen \in Seq(Row) /\ count \in Int
  BY Drawn DEF Flags, Types
<1>1. CASE Decide \/ Quiet
  <2>1. /\ mode = "deciding" /\ mode' \in {"deciding", "told"}
        /\ UNCHANGED <<shell, screen, asking, seq, pendingSeq, crowded, strayed, bubble, child,
                       pipe>>
    BY <1>1 DEF Decide, Quiet, files, inner, daemon, history
  <2>2. Standing
    BY <2>1 DEF BubbleInv, Stands, Claimed
  <2>3. Asked' <=> Asked
    <3>1. CASE mode' = "deciding"
      BY <2>1, <3>1 DEF Asked, Ahead
    <3>2. CASE mode' = "told"
      BY <2>1, <3>2, AskedTold
    <3> QED BY <2>1, <3>1, <3>2
  <2>4. /\ Below' = Below /\ ToBe' = ToBe /\ screen' = screen /\ pipe' = pipe
        /\ (crowded' <=> crowded)
    BY <2>1 DEF Below, ToBe, Coming
  <2> QED BY <1>0, <2>2, <2>3, <2>4, StandsUntouched
<1>2. CASE Local
  <2>1. /\ mode = "deciding" /\ mode' = "told" /\ ~InFlight /\ child' = child /\ pipe' = pipe
        /\ bubble' = Toast(count) /\ screen' = screen \o Toast(count)
        /\ UNCHANGED <<shell, asking, seq, pendingSeq>>
    BY <1>2 DEF Local, inner, daemon
  <2>2. PICK x, h \in Seq(Row) : x = screen /\ h = Toast(count)
    BY <1>0, RowsAre
  <2>3. ~Asked'
    BY <2>1, AskedTold
  <2>4. ToBe' = h /\ Texts(pipe)' = << >>
    BY <2>1, <2>2, NoneComing
  <2>5. << >> \in Seq(Row) /\ Below' = << >>
    BY <2>1, Nothing DEF Below
  <2>6. screen' = (x \o h) \o << >>
    <3>1. (x \o h) \o << >> = x \o h
      BY Column, Nothing
    <3> QED BY <2>1, <2>2, <3>1
  <2>7. ToBe' = h \o Texts(pipe)'
    BY <2>4, Column, Nothing
  <2> QED BY <2>3, <2>5, <2>6, <2>7, StandsBare
<1> QED BY <1>1, <1>2

LEMMA StandsReceived ==
  ASSUME HooksAssumption, Flags, Flags', BubbleInv, ~strayed', Claimed',
         Posted \/ Attach \/ Receive \/ ReadBubble \/ WriteBubble \/ Break
  PROVE  Standing'
<1>0. /\ ToBe \in Seq(Row) /\ Texts(pipe) \in Seq(Row) /\ Below \in Seq(Row)
  BY Drawn DEF Flags, Types
<1>1. UNCHANGED <<shell, mode, line, screen, typed, asking, seq, pendingSeq, crowded, strayed>>
  BY DEF Posted, Attach, Receive, ReadBubble, WriteBubble, Break, files, inner, history
<1>2. Standing /\ ~strayed
  BY <1>1 DEF BubbleInv, Stands, Claimed
<1>3. /\ Below' = Below /\ (Asked' <=> Asked) /\ (crowded' <=> crowded) /\ screen' = screen
  BY <1>1 DEF Below, Asked, Ahead
<1>4. CASE Posted \/ Attach \/ Break
  <2>1. ToBe' = ToBe /\ pipe' = pipe
    BY <1>4 DEF Posted, Attach, Break, files, ToBe, Coming
  <2> QED BY <1>0, <1>2, <1>3, <2>1, StandsUntouched
<1>5. CASE ReadBubble \/ WriteBubble
  <2>1. pipe' = pipe
    BY <1>5 DEF ReadBubble, WriteBubble
  <2>2. ToBe' = ToBe
    BY <1>2, <1>5, ToBeRead DEF BubbleInv, Flags
  <2> QED BY <1>0, <1>2, <1>3, <2>1, <2>2, StandsUntouched
<1>6. CASE Receive
  <2>1. PICK z \in Seq(Row) : ToBe' = ToBe \o z /\ Texts(pipe)' = Texts(pipe) \o z
    BY <1>6, ToBeReceived DEF Flags
  <2>2. PICK b \in Seq(Row) : b = Below
    BY <1>0
  <2>3. \A c \in Seq(Row) : screen = c \o Below => screen' = c \o b
    BY <1>3, <2>2
  <2> QED BY <1>0, <1>2, <1>3, <2>1, <2>2, <2>3, StandsStill
<1> QED BY <1>4, <1>5, <1>6

LEMMA BubbleStep ==
  ASSUME HooksAssumption, Flags, Flags', BubbleInv, [Next]_vars
  PROVE  BubbleInv'
<1>1. CASE UNCHANGED vars
  <2>1. UNCHANGED <<shell, mode, line, screen, typed, asking, seq, pendingSeq, crowded, strayed,
                    bubble, child, pipe>>
    BY <1>1 DEF vars, files, inner, daemon, history
  <2>2. /\ Below' = Below /\ ToBe' = ToBe /\ (Asked' <=> Asked) /\ (Claimed' <=> Claimed)
        /\ Texts(pipe)' = Texts(pipe)
    BY <2>1 DEF Below, ToBe, Coming, Asked, Ahead, Claimed
  <2>3. /\ Below \in Seq(Row) /\ ToBe \in Seq(Row) /\ Texts(pipe) \in Seq(Row)
    BY Drawn DEF Flags
  <2>4. Standing => Standing'
    BY <2>1, <2>2, <2>3, StandsUntouched
  <2>5. Stands'
    BY <2>1, <2>2, <2>4 DEF BubbleInv, Stands
  <2> QED BY <2>1, <2>2, <2>5 DEF BubbleInv, Bare, NotLost
<1>2. CASE Next
  <2>1. NotLost' /\ Bare'
    BY <1>2, NotLostStep, BareStep DEF Flags, BubbleInv
  <2>2. ASSUME ~strayed', Claimed' PROVE Standing'
    <3>1. CASE \/ Edit \/ EmptyEnter \/ DrawPrompt \/ TakeGhost
               \/ \E what \in {"plain", "why", "fix", "other"} : Enter(what)
      BY <2>2, <3>1, StandsPrompt
    <3>2. CASE Ends \/ Hook
      BY <2>2, <3>2, StandsEnds, StandsHook
    <3>3. CASE Show \/ Decide \/ Quiet \/ Local
      BY <2>2, <3>3, StandsShown, StandsDecided
    <3>4. CASE Posted \/ Attach \/ Receive \/ ReadBubble \/ WriteBubble \/ Break
      BY <2>2, <3>4, StandsReceived
    <3>5. CASE Deliver \/ OnMessage \/ Panel
      BY <2>2, <3>5, StandsDelivered, StandsPending, StandsPanel DEF BubbleInv
    <3> QED BY <1>2, <3>1, <3>2, <3>3, <3>4, <3>5 DEF Next
  <2> QED BY <2>1, <2>2 DEF BubbleInv, Stands
<1> QED BY <1>1, <1>2

\* The panel closes on the screen it opened on, the asking line apart, as long as
\* the bubble file is the one the screen shows.
THEOREM PanelGivesBack == ASSUME HooksAssumption PROVE Spec => PanelPutsBack
<1>1. Init => Flags /\ BubbleInv
  BY FlagsInit, ViewsInit, BubbleInit DEF Flags
<1>2. Flags /\ BubbleInv /\ [Next]_vars => Flags' /\ BubbleInv'
  BY FlagsStep, BubbleStep
<1>3. Flags /\ BubbleInv /\ [Next]_vars
        => [Panel /\ ~strayed /\ ~InFlight =>
              \/ screen' = screen
              \/ \E i \in DOMAIN screen : IsAsking(screen[i]) /\ screen' = RemoveAt(screen, i)]_vars
  BY PanelBack DEF PutBack, BubbleInv
<1> QED BY <1>1, <1>2, <1>3, PTL DEF Spec, PanelPutsBack
=============================================================================
