------------------------------ MODULE LineEdit ------------------------------
(***************************************************************************)
(* The line editor of `uta shell` on a terminal: the keys it knows, its    *)
(* history, and how a line longer than the terminal is redrawn in place.   *)
(* The terminal is modelled by what the control sequences it is sent do.   *)
(***************************************************************************)
EXTENDS Integers, Sequences, SequencesExt, FiniteSetsExt

CONSTANTS Letters,      \* printable runes, " " among them
          Wide,         \* those that take two cells
          Prompt,       \* a sequence of one-cell runes
          Width,        \* of the terminal, which is tall enough not to scroll
          MaxLen,       \* BOUND: runes in a line
          MaxHistory    \* lines the history keeps

VARIABLES
  buf, cur,    \* the line and the runes before the cursor
  hist,        \* the remembered lines
  browsing,    \* histIdx: Len(hist) + 1 is the line being typed
  pending,     \* that line, while another is shown
  curRow,      \* the row redraw left the cursor on, 0 the first of the line
  term,        \* [cell: row -> cells, row, col], rows counted from the line's first
  reading      \* ReadLine is in progress

vars == <<buf, cur, hist, browsing, pending, curRow, term, reading>>

-----------------------------------------------------------------------------
(* The terminal.  A full row leaves the cursor behind its last cell; the   *)
(* next rune goes to the next row.                                         *)

MaxRow == (2 * (Len(Prompt) + MaxLen)) \div Width + 2
Blank == [cell |-> [r \in -MaxRow..MaxRow |-> <<>>], row |-> 0, col |-> 0]
Padded(cells, n) == [i \in 1..n |-> IF i <= Len(cells) THEN cells[i] ELSE " "]

PutRune(t, ch) ==
  LET size == IF ch \in Wide THEN 2 ELSE 1
      wraps == t.col + size > Width
      r == IF wraps THEN t.row + 1 ELSE t.row
      c == IF wraps THEN 0 ELSE t.col
      old == t.cell[r] IN
  [t EXCEPT !.cell[r] = Padded(old, c) \o [i \in 1..size |-> ch] \o SubSeq(old, c + size + 1, Len(old)),
            !.row = r, !.col = c + size]
Write(t, text) ==
  LET written[i \in 0..Len(text)] == IF i = 0 THEN t ELSE PutRune(written[i - 1], text[i])
  IN written[Len(text)]

Return(t) == [t EXCEPT !.col = 0]
NewLine(t) == [t EXCEPT !.col = 0, !.row = @ + 1]
MoveUp(t, n) == [t EXCEPT !.row = @ - n]
MoveDown(t, n) == [t EXCEPT !.row = @ + n]
MoveRight(t, n) == [t EXCEPT !.col = IF @ + n < Width THEN @ + n ELSE Width - 1]
ClearBelow(t) ==
  [t EXCEPT !.cell = [r \in DOMAIN @ |-> IF r < t.row THEN @[r]
                                        ELSE IF r = t.row THEN SubSeq(@[r], 1, t.col) ELSE <<>>]]

-----------------------------------------------------------------------------
(* redraw, with curRow the row it left the cursor on before; it counts     *)
(* runes, not cells.                                                       *)

RowOf(n) == (Len(Prompt) + n) \div Width

\* broken: a line that ends with its row is left there.
Forced_Never(t, line) == t
Forced(t, line) ==
  IF (Len(Prompt) + Len(line)) % Width = 0 THEN NewLine(t) ELSE t

Redrawn(t, from, line, at) ==
  LET painted == Write(ClearBelow(Return(MoveUp(t, from))), Prompt \o line)
      above == MoveUp(Forced(painted, line), RowOf(Len(line)) - RowOf(at)) IN
  MoveRight(Return(above), (Len(Prompt) + at) % Width)

Shows(line, at) ==
  /\ buf' = line /\ cur' = at /\ curRow' = RowOf(at)
  /\ term' = Redrawn(term, curRow, line, at)
  /\ UNCHANGED <<hist, reading>>

-----------------------------------------------------------------------------
(* The keys.                                                               *)

Before == SubSeq(buf, 1, cur)
After == SubSeq(buf, cur + 1, Len(buf))
Stays == UNCHANGED <<browsing, pending>>

Type(ch) ==
  /\ reading /\ Len(buf) < MaxLen
  /\ Shows(Before \o <<ch>> \o After, cur + 1) /\ Stays
Backspace == reading /\ cur > 0 /\ Shows(Front(Before) \o After, cur - 1) /\ Stays
Delete == reading /\ cur < Len(buf) /\ Shows(Before \o Tail(After), cur) /\ Stays
Left == reading /\ cur > 0 /\ Shows(buf, cur - 1) /\ Stays
Right == reading /\ cur < Len(buf) /\ Shows(buf, cur + 1) /\ Stays
Home == reading /\ Shows(buf, 0) /\ Stays
End == reading /\ Shows(buf, Len(buf)) /\ Stays
KillToEnd == reading /\ Shows(Before, cur) /\ Stays
KillToStart == reading /\ Shows(After, 0) /\ Stays

(* Ctrl-W: the blanks before the cursor, then the word before them.        *)
WordStart ==
  LET blank == {i \in 0..cur : \A j \in i + 1..cur : buf[j] = " "}
      end == CHOOSE i \in blank : \A j \in blank : i <= j
      word == {i \in 0..end : \A j \in i + 1..end : buf[j] # " "} IN
  CHOOSE i \in word : \A j \in word : i <= j
KillWord == reading /\ Shows(SubSeq(buf, 1, WordStart) \o After, WordStart) /\ Stays

(* The line being typed is kept when the history is entered; changes made  *)
(* to a remembered line are not.                                           *)
Up ==
  /\ reading /\ browsing > 1 /\ browsing' = browsing - 1
  /\ pending' = IF browsing = Len(hist) + 1 THEN buf ELSE pending
  /\ Shows(hist[browsing - 1], Len(hist[browsing - 1]))
Down ==
  /\ reading /\ browsing <= Len(hist) /\ browsing' = browsing + 1
  /\ LET line == IF browsing = Len(hist) THEN pending ELSE hist[browsing + 1] IN Shows(line, Len(line))
  /\ UNCHANGED pending

ClearScreen ==
  /\ reading /\ term' = Redrawn(Blank, 0, buf, cur) /\ curRow' = RowOf(cur)
  /\ Stays /\ UNCHANGED <<buf, cur, hist, reading>>

(* finishLine, what the key prints and the newline.  The shell remembers a *)
(* line it has read, trimmed, unless it is blank or the last one again.    *)
Finished(text) == NewLine(Return(Write(MoveDown(term, RowOf(Len(buf)) - curRow), text)))

Remembered ==
  LET inked == {i \in DOMAIN buf : buf[i] # " "}
      line == SubSeq(buf, Min(inked), Max(inked)) IN
  IF inked = {} \/ (hist # <<>> /\ Last(hist) = line) THEN hist
  ELSE IF Len(hist) = MaxHistory THEN Append(Tail(hist), line) ELSE Append(hist, line)

Enter ==
  /\ reading /\ reading' = FALSE /\ term' = Finished(<<>>) /\ hist' = Remembered
  /\ UNCHANGED <<buf, cur, browsing, pending, curRow>>
Interrupt ==
  /\ reading /\ reading' = FALSE /\ term' = Finished(<<"^", "C">>)
  /\ UNCHANGED <<buf, cur, hist, browsing, pending, curRow>>
ReadLine ==
  /\ ~ reading /\ reading' = TRUE
  /\ buf' = <<>> /\ cur' = 0 /\ browsing' = Len(hist) + 1 /\ pending' = <<>>
  /\ term' = Redrawn(Blank, 0, <<>>, 0) /\ curRow' = RowOf(0) /\ UNCHANGED hist

Init ==
  /\ buf = <<>> /\ cur = 0 /\ hist = <<>> /\ browsing = 1 /\ pending = <<>>
  /\ term = Redrawn(Blank, 0, <<>>, 0) /\ curRow = RowOf(0) /\ reading = TRUE

Next ==
  \/ \E ch \in Letters : Type(ch)
  \/ Backspace \/ Delete \/ Left \/ Right \/ Home \/ End
  \/ KillToEnd \/ KillToStart \/ KillWord \/ Up \/ Down \/ ClearScreen
  \/ Enter \/ Interrupt \/ ReadLine

Spec == Init /\ [][Next]_vars
-----------------------------------------------------------------------------
(* While a line is edited the terminal shows it, wrapped, with the cursor  *)
(* where the next rune goes and no row of an earlier, longer line left     *)
(* over; what is printed after the line starts below all of it.            *)
(* lineedit.go:158-160: "redrawn in place across its wrapped rows instead  *)
(* of leaving one stale row per keystroke behind".                         *)
CursorAt(t) == IF t.col = Width THEN <<t.row + 1, 0>> ELSE <<t.row, t.col>>
ScreenShowsLine ==
  IF reading
  THEN /\ term.cell = Write(Blank, Prompt \o buf).cell
       /\ CursorAt(term) = CursorAt(Write(Blank, Prompt \o Before))
  ELSE \A r \in DOMAIN term.cell : r >= term.row => term.cell[r] = <<>>
=============================================================================
