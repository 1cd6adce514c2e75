-------------------------------- MODULE TcsO --------------------------------
(***************************************************************************)
(* tcs_o: darkbox's commands on stdin again, in one small loop: a "-", one *)
(* letter, its arguments; anything else is skipped, and the end of the     *)
(* input, wherever it comes, ends the program at once.                     *)
(***************************************************************************)
EXTENDS Console

CONSTANT MaxText     \* the size of str_buf (STR_BUF_SIZE)

\* read_char_ has met EOF before position next.
PastEnd(next) == next > Len(in) + 1

\* read_str_loop_: an escape makes any character one of the text, also the
\* one that would end it; what no longer fits is consumed.
ReadLoop(quoted, start, max) ==
  LET loop[room \in 0..max] ==
        [k \in Nat |->
           LET c == IF Chr(k) = Escape THEN k + 1 ELSE k
           IN  IF \/ c > Len(in)
                  \/ c = k /\ Chr(k) \in Ends(quoted)
                  \/ room = 0
               THEN [text |-> <<>>, next |-> c + 1]
               ELSE LET rest == loop[room - 1][c + 1]
                    IN  [rest EXCEPT !.text = <<Chr(c)>> \o @]]
  IN  loop[max][start]

\* read_str_ from position i.  The first character of a text without quotes
\* is stored before the loop, an escape too.
ReadStr(i) ==
  LET first == SkipSpaces(i)
      rest  == ReadLoop(FALSE, first + 1, MaxText - 1)
  IN  CASE first > Len(in)    -> [text |-> <<>>, next |-> first + 1]
        [] Chr(first) = Quote -> ReadLoop(TRUE, first + 1, MaxText)
        [] OTHER              -> [rest EXCEPT !.text = <<Chr(first)>> \o @]

\* read_number_, n times from position i.
ReadNumbers(n, i) ==
  LET read[m \in 0..n] ==
        [j \in Nat \ {0} |->
           IF m = 0 \/ PastEnd(j) THEN [values |-> <<>>, next |-> j]
           ELSE LET s == ReadStr(j)
                IN  [read[m - 1][s.next] EXCEPT !.values = <<IntegerOf(s.text)>> \o @]]
  IN  read[n][i]

-----------------------------------------------------------------------------
Letter == Chr(at + 1)

Arity(letter) ==
  CASE letter \in {"a", "c", "w"} -> 1
    [] letter \in {"g", "o"} -> 2
    [] OTHER -> 0

\* What a letter does to the console; waiting (w) is left out.
Effect(letter, con, v) ==
  CASE letter = "a" -> Put(con, <<CharOfCode(v[1])>>)
    [] letter = "n" -> Put(con, <<NewLine>>)
    [] letter = "c" -> Colored(con, v[1])
    [] letter = "g" -> Goto(con, origin[1] + v[1], origin[2] + v[2])
    [] letter = "s" -> Cleared(con)
    [] OTHER -> con

OnCommand(letters) == pc = "parse" /\ Chr(at) = "-" /\ Letter \in letters

\* A character that is no "-".
Skip ==
  /\ pc = "parse"
  /\ at <= Len(in) /\ Chr(at) # "-"
  /\ at' = at + 1
  /\ UNCHANGED <<in, pc, origin, console>>

\* -d Text
Display ==
  /\ OnCommand({"d"})
  /\ \E word \in {ReadStr(at + 2)} :
       /\ ~PastEnd(word.next)
       /\ at' = word.next
       /\ console' = Put(console, word.text)
  /\ UNCHANGED <<in, pc, origin>>

\* A letter that is no command reads and does nothing.
Simple ==
  /\ pc = "parse" /\ Chr(at) = "-" /\ Letter \notin {"d", "q", Eof}
  /\ \E read \in {ReadNumbers(Arity(Letter), at + 2)} :
       /\ ~PastEnd(read.next)
       /\ at' = read.next
       /\ console' = Effect(Letter, console, read.values)
       /\ origin' = IF Letter = "o" THEN read.values ELSE origin
  /\ UNCHANGED <<in, pc>>

EndsInArguments ==
  IF Letter = "d" THEN PastEnd(ReadStr(at + 2).next)
                  ELSE PastEnd(ReadNumbers(Arity(Letter), at + 2).next)

\* -q, and EOF in front of a command, after its "-" or in its arguments.
Exit ==
  /\ pc = "parse"
  /\ \/ at > Len(in)
     \/ Chr(at) = "-" /\ (Letter \in {"q", Eof} \/ EndsInArguments)
  /\ pc' = "exited"
  /\ UNCHANGED <<in, at, origin, console>>

Next == Skip \/ Display \/ Simple \/ Exit
=============================================================================
