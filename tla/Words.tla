------------------------------- MODULE Words -------------------------------
(***************************************************************************)
(* Command lines as sequences of words, and words as strings, for the      *)
(* rules that correct them: src/entities/command.rs, distance.rs, and the  *)
(* helpers of rules.rs and output_rules.rs.  What may be absent is a set   *)
(* of at most one element.                                                 *)
(***************************************************************************)
EXTENDS Naturals, SequencesExt

Letter(word, i) == SubSeq(word, i, i)
StartsWith(word, prefix) == IsPrefix(prefix, word)
EndsWith(word, suffix) ==
  Len(suffix) <= Len(word) /\ SubSeq(word, Len(word) - Len(suffix) + 1, Len(word)) = suffix
After(word, prefix) == SubSeq(word, Len(prefix) + 1, Len(word))
Places(word, piece) ==
  {i \in 1 .. Len(word) : i + Len(piece) - 1 <= Len(word)
                          /\ SubSeq(word, i, i + Len(piece) - 1) = piece}
Within(word, piece) == Places(word, piece) # {}
Flag(word) == StartsWith(word, "-")

\* What stands before and after a piece of a word, for each place it is at,
\* first place first.
Cuts(word, piece) ==
  LET places == SetToSortSeq(Places(word, piece), <) IN
  [n \in DOMAIN places |-> <<SubSeq(word, 1, places[n] - 1),
                             SubSeq(word, places[n] + Len(piece), Len(word))>>]
\* The members of a set, in some order.
InOrder(S) == FoldSet(LAMBDA member, seq : Append(seq, member), << >>, S)
First(seq, Test(_)) ==
  LET i == SelectInSeq(seq, Test) IN IF i = 0 THEN {} ELSE {seq[i]}
-----------------------------------------------------------------------------
\* CommandLine::program, arguments, with_program: `words` take the place of the
\* first word.
Program(line) == Head(line)
WithProgram(line, words) == words \o Tail(line)

\* insert_after, replace_word, position
InsertAfter(line, index, word) == InsertAt(line, index + 1, word)
ReplaceWord(line, index, word) == ReplaceAt(line, index, word)
PositionIn(line, word) == SelectInSeq(line, LAMBDA w : w = word)

\* has_flag: a short flag, alone or among others, or its long form.
HasFlag(line, short, long) ==
  \E w \in ToSet(Tail(line)) :
    w = long \/ (Flag(w) /\ ~StartsWith(w, "--") /\ Within(w, short))

\* first_operand: the first argument that is not a flag.
FirstOperand(line) == First(Tail(line), LAMBDA w : ~Flag(w))
-----------------------------------------------------------------------------
\* edit_distance: row by row, a swap of neighbours costing one.
Cell(a, b, rows, row, i, j) ==
  Min({row[j] + 1, rows[i][j + 1] + 1,
       rows[i][j] + (IF Letter(a, i) = Letter(b, j) THEN 0 ELSE 1)}
      \union IF i > 1 /\ j > 1 /\ SubSeq(a, i - 1, i) = Letter(b, j) \o Letter(b, j - 1)
             THEN {rows[i - 1][j - 1] + 1} ELSE {})
Upto(n) == [k \in 1 .. n |-> k]
EditDistance(a, b) ==
  LET NextRow(rows, i) ==
        Append(rows, FoldLeft(LAMBDA row, j : Append(row, Cell(a, b, rows, row, i, j)),
                              <<i>>, Upto(Len(b))))
      rows == FoldLeft(NextRow, <<[k \in 1 .. Len(b) + 1 |-> k - 1]>>, Upto(Len(a)))
  IN  rows[Len(a) + 1][Len(b) + 1]

\* sorted_letters
Letters(word) == ToBag([i \in 1 .. Len(word) |-> Letter(word, i)])

\* The key of a candidate: its distance, then whether it is other letters.
Key(word, candidate) ==
  2 * EditDistance(word, candidate) + (IF Letters(word) = Letters(candidate) THEN 0 ELSE 1)

\* closest: candidates one after the other, a tie forgotten when a closer one
\* comes.  FirstClosest knows no ties.
NoneYet == [best |-> {}, key |-> 0, tied |-> FALSE]
Compared(word, max, seen, candidate) ==
  LET key == Key(word, candidate) IN
  IF key \div 2 > max \/ (seen.best # {} /\ key > seen.key) THEN seen
  ELSE IF seen.best # {} /\ key = seen.key THEN [seen EXCEPT !.tied = TRUE]
  ELSE [best |-> {candidate}, key |-> key, tied |-> FALSE]
Closest(word, candidates, max) ==
  LET seen == FoldLeft(LAMBDA s, c : Compared(word, max, s, c), NoneYet, candidates) IN
  IF Contains(candidates, word) THEN {word} ELSE IF seen.tied THEN {} ELSE seen.best
=============================================================================
