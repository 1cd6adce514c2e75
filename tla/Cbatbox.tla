------------------------------ MODULE Cbatbox ------------------------------
(***************************************************************************)
(* cbatbox on the Windows console: the command line is a program, and the  *)
(* words of it are read one after the other, as they are needed, by        *)
(* GetNextArg_, which ends the program when there is none left.            *)
(***************************************************************************)
EXTENDS Console

VARIABLE last       \* dwXLast, dwYLast: the position of the last goto

Letter == IF at <= Len(in) /\ Len(in[at]) > 1 THEN in[at][2] ELSE "none"

Arity(letter) ==
  CASE letter \in {"a", "c", "d", "h", "p", "w"} -> 1
    [] letter \in {"g", "o"} -> 2
    [] OTHER -> 0

Given(n) == at + n <= Len(in)

Number(k) == IntegerOf(in[at + k])

\* The int stored in pBuf, printed as a string: its bytes up to a zero.
Bytes(n) == <<n % 256, (n \div 256) % 256, (n \div 65536) % 256, (n \div 16777216) % 256>>
Printed(n) ==
  LET zeros == {k \in 1..4 : Bytes(n)[k] = 0} \cup {5}
  IN  [k \in 1..(Min(zeros) - 1) |-> CharOfCode(Bytes(n)[k])]

\* SetConsoleTextAttribute: four bits of each colour.
Attribute(con, n) ==
  [con EXCEPT !.color = [fg |-> n % 16, bg |-> (n \div 16) % 16, bold |-> FALSE]]

\* Where Goto_ goes, on the screen or not.
Target == <<origin[1] + Number(1), origin[2] + Number(2)>>

\* Hiding the cursor (h) or the window (p) and waiting (w) are left out; the
\* three numbers of a mouse report are one character.
Effect(letter, con) ==
  CASE letter = "a" -> Put(con, Printed(Number(1)))
    [] letter = "c" -> Attribute(con, Number(1))
    [] letter = "d" -> Put(con, in[at + 1])
    [] letter = "g" -> Goto(con, Target[1], Target[2])
    [] letter \in {"m", "y"} -> Put(con, <<"report">>)
    [] letter = "n" -> Goto(con, last[1], last[2] + 1)
    [] OTHER -> con

\* Mutant of Moved: a new line is not remembered.
MovedOnce(letter) == IF letter = "g" THEN Target ELSE last

\* A new line is the line below the last goto, or below the last new line.
Moved(letter) ==
  CASE letter = "g" -> Target
    [] letter = "n" -> <<last[1], last[2] + 1>>
    [] OTHER -> last

Execute ==
  /\ pc = "parse" /\ at <= Len(in)
  /\ Letter # "k"
  /\ Given(Arity(Letter))
  /\ at' = at + 1 + Arity(Letter)
  /\ console' = Effect(Letter, console)
  /\ last' = Moved(Letter)
  /\ origin' = IF Letter = "o" THEN <<Number(1), Number(2)>> ELSE origin
  /\ UNCHANGED <<in, pc>>

\* -k ends the program with a key it waits for; -k_ does not wait.
Key ==
  /\ pc = "parse" /\ Letter = "k"
  /\ at' = at + 1
  /\ \/ pc' = "exited"
     \/ Len(in[at]) > 2 /\ in[at][3] = "_" /\ UNCHANGED pc
  /\ UNCHANGED <<in, origin, console, last>>

\* No word left, in front of a command or in its arguments: EndCommand_.
Finish ==
  /\ pc = "parse"
  /\ at > Len(in) \/ ~Given(Arity(Letter))
  /\ pc' = "exited"
  /\ UNCHANGED <<in, at, origin, console, last>>

Next == Execute \/ Key \/ Finish
=============================================================================
