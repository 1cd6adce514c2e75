------------------------------- MODULE Console -------------------------------
(***************************************************************************)
(* What darkbox and its two small relatives (tcs_o, cbatbox) share: their  *)
(* input, the console they draw on (lib/core), the origin.                 *)
(*                                                                         *)
(* A character is a string.  An integer is one element of the input, "0",  *)
(* "1", ..., with its sign as the character "-" before it.  Inputs hold no *)
(* NUL and no upper-case letters.                                          *)
(***************************************************************************)
EXTENDS Integers, FiniteSets, Sequences, SequencesExt

CONSTANT MaxInt          \* bound: the integers of the inputs

Quote == "\""
Escape == "\\"
NewLine == "\n"
Space == " "
Spaces == {Space, NewLine, "\t", "\r"}
Eof == "eof"                    \* getchar()'s EOF, and the byte 0xFF it is as a char
Numbers == [n \in 0..MaxInt |-> ToString(n)]
Digits == {Numbers[n] : n \in 0..MaxInt}
NumberOf(c) == CHOOSE n \in 0..MaxInt : Numbers[n] = c
Letters == {"a", "b", "c", "d", "e", "f", "g", "h", "i", "j", "k", "l", "m",
            "n", "o", "p", "q", "r", "s", "t", "u", "v", "w", "x", "y", "z"}

-----------------------------------------------------------------------------
VARIABLES
  in,       \* the input: stdin, or the words of the command line
  at,       \* the position of the next character, or word, to read
  pc,       \* where the program is: "parse" before the next command, "exited"
  origin,   \* origin_x, origin_y
  console   \* the console: its cursor, its colours, its screen (a
            \* function on the cells written to), and out, the characters
            \* written to it in order

\* -1 is the terminal's own colour.
Plain == [fg |-> -1, bg |-> -1, bold |-> FALSE]

Began ==
  /\ at = 1
  /\ pc = "parse"
  /\ origin = <<0, 0>>
  /\ console = [cursor |-> <<0, 0>>, color |-> Plain, screen |-> <<>>, out |-> <<>>]

ConsoleOK == console.cursor \in Nat \X Nat /\ DOMAIN console.screen \subseteq Nat \X Nat

-----------------------------------------------------------------------------
(* Reading.                                                                *)

\* The character at position i; after the last one getchar returns EOF for
\* ever.
Chr(i) == IF i <= Len(in) THEN in[i] ELSE Eof

\* The characters from position i to position j.
Read(i, j) == [k \in 1..(j + 1 - i) |-> Chr(i + k - 1)]

SkipSpaces(i) ==
  CHOOSE j \in i..(Len(in) + i) :
    Chr(j) \notin Spaces /\ \A k \in i..(j - 1) : Chr(k) \in Spaces

Ends(quoted) == IF quoted THEN {Quote} ELSE Spaces

\* strtol on a word, which begins with no space: an integer and what may
\* follow it.
IntegerOf(word) ==
  CASE word = <<>> -> 0
    [] Head(word) \in Digits -> NumberOf(Head(word))
    [] Head(word) = "-" /\ Len(word) > 1 /\ word[2] \in Digits -> -NumberOf(word[2])
    [] OTHER -> 0

-----------------------------------------------------------------------------
(* The console (lib/core/ansi.c and the terminal behind it).               *)

\* Where the cursor is before character i of a text.
CursorAt(con, text, i) ==
  LET newLines == {j \in 1..(i - 1) : text[j] = NewLine}
  IN  IF newLines = {}
      THEN <<con.cursor[1] + i - 1, con.cursor[2]>>
      ELSE <<i - 1 - Max(newLines), con.cursor[2] + Cardinality(newLines)>>

\* Printing a text.
Put(con, text) ==
  LET shown == {i \in DOMAIN text : text[i] # NewLine}
      cells == [i \in shown |-> CursorAt(con, text, i)]
  IN  [con EXCEPT
        !.cursor = CursorAt(con, text, Len(text) + 1),
        !.screen = [p \in Range(cells) \cup DOMAIN @ |->
                      IF \E i \in shown : cells[i] = p
                      THEN <<text[CHOOSE i \in shown : cells[i] = p], con.color>>
                      ELSE @[p]],
        !.out = @ \o text]

\* Mutant of Goto: no test for a position off the screen.
GotoAnywhere(con, x, y) == [con EXCEPT !.cursor = <<x, y>>]

\* A position off the screen is ignored.
Goto(con, x, y) ==
  IF x < 0 \/ y < 0 THEN con ELSE [con EXCEPT !.cursor = <<x, y>>]

\* The terminal stops the cursor at its edges.
Inside(n) == IF n < 0 THEN 0 ELSE n
GotoRelative(con, x, y) ==
  [con EXCEPT !.cursor = <<Inside(@[1] + x), Inside(@[2] + y)>>]

Cleared(con) == [con EXCEPT !.cursor = <<0, 0>>, !.screen = <<>>]

\* putchar(n), n being no printable character.
CharOfCode(n) == "code " \o ToString(n)

\* A colour byte: three bits of each colour; a bright one, also of the
\* background, makes the text bold.
Colored(con, n) ==
  [con EXCEPT !.color = [fg |-> n % 8, bg |-> (n \div 16) % 8,
                         bold |-> n % 16 > 7 \/ (n \div 16) % 16 > 7]]

\* Both colours are reset, bold is not.
ColorReset(con) == [con EXCEPT !.color.fg = -1, !.color.bg = -1]

=============================================================================
