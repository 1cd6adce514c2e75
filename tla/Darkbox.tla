------------------------------- MODULE Darkbox -------------------------------
(***************************************************************************)
(* darkbox as an output server: the stream of commands on its stdin, how   *)
(* it is cut into words, what each letter of a command does to the         *)
(* console, and the encoder (darkbox -e) that wraps a text in commands     *)
(* that display it.                                                        *)
(***************************************************************************)
EXTENDS Figures, Console

CONSTANTS
  Chars,         \* the characters darkbox may be given on stdin
  MaxText,       \* the size of text_buffer (MAX_TEXT_LENGTH)
  MaxCommand     \* the size of command_buffer (MAX_COMMAND_SIZE)

ASSUME DarkboxAssumption == MaxText \in Nat \ {0} /\ MaxCommand \in Nat \ {0}

-----------------------------------------------------------------------------
(* darkbox -e: quote the text, in pieces that fit in text_buffer.          *)

\* Mutant of EncodeChar: the escape character itself is not escaped.
EncodeCharPlain(c) == IF c = Quote THEN <<Escape, c>> ELSE <<c>>

EncodeChar(c) == IF c \in {Quote, Escape} THEN <<Escape, c>> ELSE <<c>>

Open  == <<"-", "d", Space, Quote>>
Close == <<Quote, Space>>

\* Mutant of Break: a piece is one character longer.
BreakLate(i) == i > 1 /\ i % (MaxText + 1) = 1

\* The piece is full before character i (counted from 1).
Break(i) == i > 1 /\ (MaxText = 1 \/ i % MaxText = 1)

\* After a last piece that is full there is an empty one.
Encode(text) ==
  LET piece[i \in 0..Len(text) + 1] ==
        IF i = 0 THEN Open
        ELSE piece[i - 1]
             \o (IF Break(i) THEN Close \o Open ELSE <<>>)
             \o (IF i <= Len(text) THEN EncodeChar(text[i]) ELSE <<Quote>>)
  IN  piece[Len(text) + 1]

-----------------------------------------------------------------------------
VARIABLES
  cmd,      \* the command: its letters, how often, the next letter
  fig,      \* the figure being drawn; pc is "figure" then
  drawn     \* history: the last figure's letter, arguments and cells

vars == <<in, at, pc, cmd, origin, fig, drawn, console>>

NoCommand == [letters |-> <<>>, count |-> 0, next |-> 1]
NoFigure == [kind |-> "none"]

Started ==
  /\ Began
  /\ cmd = NoCommand
  /\ fig = NoFigure
  /\ drawn = [letter |-> "none", args |-> <<>>, cells |-> {}]

Init == in \in Seq(Chars) /\ Started

-----------------------------------------------------------------------------
(* Reading stdin.                                                          *)

Position == Nat \ {0}

\* Mutant of Scan: an escaped character may end the word.
ScanEscapeEnds(quoted, start, max) ==
  LET scan[room \in 0..max] ==
        [k \in Position |->
           IF Chr(k) \in Ends(quoted) \/ room = 0
           THEN [text |-> <<>>, next |-> k + 1]
           ELSE LET rest == scan[room - 1][k + 1]
                IN  [text |-> (IF Chr(k) = Escape THEN <<>> ELSE <<Chr(k)>>) \o rest.text,
                     next |-> rest.next]]
  IN  scan[max][start]

\* The loop of read_string from its first character on, at position k with
\* room in the buffer: the character that stopped it is consumed, the one that
\* no longer fits as well.
Scan(quoted, start, max) ==
  LET scan[room \in 0..max] ==
        [k \in Position |->
           IF Chr(k) \in Ends(quoted) \/ room = 0
           THEN [text |-> <<>>, next |-> k + 1]
           ELSE LET c    == IF Chr(k) = Escape THEN k + 1 ELSE k
                    rest == scan[room - 1][c + 1]
                IN  [text |-> <<Chr(c)>> \o rest.text, next |-> rest.next]]
  IN  scan[max][start]

ReadString(max) ==
  LET first  == SkipSpaces(at)
      quoted == Chr(first) = Quote
  IN  Scan(quoted, IF quoted THEN first + 1 ELSE first, max)

\* read_int from position i: a word, at most MaxText characters of it.
ReadInt(i) ==
  LET first == SkipSpaces(i)
      last  == CHOOSE k \in first..(first + MaxText) :
                 /\ Chr(k) \in Spaces \/ k = first + MaxText
                 /\ \A j \in first..(k - 1) : Chr(j) \notin Spaces
  IN  [value |-> IntegerOf(Read(first, last - 1)),
       next  |-> last + 1]

\* n of them: m from position i on.
ReadInts(n) ==
  LET read[m \in 0..n] ==
        [i \in Position |->
           IF m = 0 THEN [values |-> <<>>, next |-> i]
           ELSE LET v    == ReadInt(i)
                    rest == read[m - 1][v.next]
                IN  [values |-> <<v.value>> \o rest.values, next |-> rest.next]]
  IN  read[n][at]

-----------------------------------------------------------------------------
(* parse_cmd                                                               *)

IsCommand(word) == word # <<>> /\ Head(word) \in {"-", "/"}

Counted(word) == Len(word) > 1 /\ word[2] \in Digits
Count(word) == IF Counted(word) THEN NumberOf(word[2]) ELSE 1
CommandLetters(word) ==
  SubSeq(word, IF Counted(word) THEN 3 ELSE 2, Len(word))

ParseCommand ==
  /\ pc = "parse"
  /\ \E word \in {ReadString(MaxCommand)} :
       LET letters == CommandLetters(word.text)
           valid   == letters # <<>> /\ ToSet(letters) \subseteq Letters
       IN  /\ IsCommand(word.text)
           /\ at' = word.next
           /\ IF valid /\ Count(word.text) > 0
              THEN /\ pc' = "exec"
                   /\ cmd' = [letters |-> letters, count |-> Count(word.text), next |-> 1]
              ELSE UNCHANGED <<pc, cmd>>      \* an error message, or no turn at all
  /\ UNCHANGED <<in, origin, fig, drawn, console>>

LineEnd(k) ==
  CHOOSE end \in k..(k + Len(in)) :
    /\ Chr(end) \in {NewLine, Eof}
    /\ \A j \in k..(end - 1) : Chr(j) \notin {NewLine, Eof}

\* A word that is no command: it is printed, and what follows it up to the
\* end of a line, unless the word holds one; EOF, printed too, ends the program.
Echo ==
  /\ pc = "parse"
  /\ \E word \in {ReadString(MaxCommand)} :
       /\ ~IsCommand(word.text)
       /\ \/ /\ NewLine \in ToSet(word.text)
             /\ console' = Put(console, word.text \o <<Space>>)
             /\ at' = word.next
             /\ UNCHANGED pc
          \/ /\ NewLine \notin ToSet(word.text)
             /\ \E end \in {LineEnd(word.next)} :
                  /\ console' = Put(console, word.text \o <<Space>> \o Read(word.next, end))
                  /\ at' = end + 1
                  /\ pc' = IF Chr(end) = Eof THEN "exited" ELSE "parse"
  /\ UNCHANGED <<in, cmd, origin, fig, drawn>>

-----------------------------------------------------------------------------
(* execute_cmd                                                             *)

Letter == cmd.letters[cmd.next]

\* Mutant of NextLetter: each letter is repeated, not the command.
NextLetterRepeats ==
  /\ cmd' = IF cmd.count > 1
            THEN [cmd EXCEPT !.count = @ - 1]
            ELSE [cmd EXCEPT !.next = @ + 1]
  /\ pc' = IF cmd.next = Len(cmd.letters) /\ cmd.count = 1 THEN "parse" ELSE "exec"

\* Mutant of NextLetter: the turns are not counted.
NextLetterForever ==
  /\ cmd' = [cmd EXCEPT !.next = IF @ < Len(cmd.letters) THEN @ + 1 ELSE 1]
  /\ pc' = "exec"

\* To the next letter, the next turn of the command, or the next command.
NextLetter ==
  /\ cmd' = IF cmd.next < Len(cmd.letters)
            THEN [cmd EXCEPT !.next = @ + 1]
            ELSE [cmd EXCEPT !.next = 1, !.count = @ - 1]
  /\ pc' = IF cmd.next = Len(cmd.letters) /\ cmd.count = 1 THEN "parse" ELSE "exec"

Executes(letters) == pc = "exec" /\ Letter \in letters

\* -d Text
Display ==
  /\ Executes({"d"})
  /\ \E word \in {ReadString(MaxText)} :
       /\ console' = Put(console, word.text)
       /\ at' = word.next
  /\ NextLetter
  /\ UNCHANGED <<in, origin, fig, drawn>>

\* Mutant of Arity: clear takes an argument.
ArityClear(letter) ==
  CASE letter \in {"a", "c", "h", "w", "s"} -> 1
    [] letter \in {"g", "j", "o"} -> 2
    [] letter = "i" -> 3
    [] letter = "l" -> 4
    [] letter = "b" -> 5
    [] OTHER -> 0

\* The integers a letter reads.
Arity(letter) ==
  CASE letter \in {"a", "c", "h", "w"} -> 1
    [] letter \in {"g", "j", "o"} -> 2
    [] letter = "i" -> 3
    [] letter = "l" -> 4
    [] letter = "b" -> 5
    [] OTHER -> 0

\* What the letters other than d, o, q and the figures do to the console;
\* the cursor's visibility (h) and waiting (w) are left out.
Effect(letter, con, v) ==
  CASE letter = "a" -> Put(con, <<CharOfCode(v[1])>>)
    [] letter = "n" -> Put(con, <<NewLine>>)
    [] letter = "c" -> Colored(con, v[1])
    [] letter = "r" -> ColorReset(con)
    [] letter = "g" -> Goto(con, origin[1] + v[1], origin[2] + v[2])
    [] letter = "j" -> GotoRelative(con, v[1], v[2])
    [] letter = "s" -> Cleared(con)
    [] OTHER -> con

Simple ==
  /\ Executes(Letters \ {"d", "q", "l", "b", "i"})
  /\ \E read \in {ReadInts(Arity(Letter))} :
       /\ at' = read.next
       /\ console' = Effect(Letter, console, read.values)
       /\ origin' = IF Letter = "o" THEN read.values ELSE origin
  /\ NextLetter
  /\ UNCHANGED <<in, fig, drawn>>

\* -q
Quit ==
  /\ Executes({"q"})
  /\ pc' = "exited"
  /\ UNCHANGED <<in, at, cmd, origin, fig, drawn, console>>

Figure(letter, v) ==
  CASE letter = "l" -> Line(v[1], v[2], v[3], v[4])
    [] letter = "b" -> Box(v[1], v[2], v[3], v[4], v[5])
    [] letter = "i" -> Circle(v[1], v[2], v[3])

\* -l, -b, -i: read the arguments; a figure without a cell is complete.
StartFigure ==
  /\ Executes({"l", "b", "i"})
  /\ \E read \in {ReadInts(Arity(Letter))} :
       LET f == Figure(Letter, read.values)
       IN  /\ at' = read.next
           /\ drawn' = [letter |-> Letter, args |-> read.values, cells |-> {}]
           /\ IF Empty(f)
              THEN NextLetter /\ UNCHANGED fig
              ELSE fig' = f /\ pc' = "figure" /\ UNCHANGED cmd
  /\ UNCHANGED <<in, origin, console>>

\* One turn of a figure's loop.
Plot ==
  /\ pc = "figure"
  /\ LET cell == Cell(fig)
     IN  IF Plots(fig)
         THEN /\ console' = Put(Goto(console, origin[1] + cell[1], origin[2] + cell[2]), <<Space>>)
              /\ drawn' = [drawn EXCEPT !.cells = @ \cup {cell}]
         ELSE UNCHANGED <<console, drawn>>
  /\ IF AtEnd(fig)
     THEN fig' = NoFigure /\ NextLetter
     ELSE fig' = Advance(fig) /\ UNCHANGED <<pc, cmd>>
  /\ UNCHANGED <<in, at, origin>>

Execute == Display \/ Simple \/ Quit \/ StartFigure \/ Plot

Next == ParseCommand \/ Echo \/ Execute

Spec == Init /\ [][Next]_vars

-----------------------------------------------------------------------------
(* Properties                                                              *)

TypeOK ==
  /\ in \in Seq(Chars)
  /\ at \in Position
  /\ pc \in {"parse", "exec", "figure", "exited"}
  /\ cmd.letters \in Seq(Letters) /\ cmd.count \in 0..MaxInt
  /\ pc \in {"exec", "figure"} => cmd.count > 0 /\ cmd.next \in DOMAIN cmd.letters
  /\ origin \in Int \X Int
  /\ fig.kind \in {"none", "line", "box", "circle"}
  /\ fig.kind = "none" <=> pc # "figure"
  /\ drawn.cells \subseteq Int \X Int
  /\ ConsoleOK

\* A figure that is done is complete and nothing more: a line joins its ends
\* along the ideal line, a box has its border or all its cells, a circle is
\* round and closed, whatever their size, direction and sign.
FigureComplete ==
  pc # "figure" =>
    LET c == drawn.cells
        v == drawn.args
    IN  CASE drawn.letter = "l" -> IsLine(c, v[1], v[2], v[3], v[4])
          [] drawn.letter = "b" -> IsBox(c, v[1], v[2], v[3], v[4], v[5])
          [] drawn.letter = "i" -> IsCircle(c, v[1], v[2], v[3])
          [] OTHER -> TRUE

=============================================================================
