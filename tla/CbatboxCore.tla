---------------------------- MODULE CbatboxCore ----------------------------
(***************************************************************************)
(* cbatbox on lib/core: its command line is a program.  The second         *)
(* character of a word is the letter of a command, the words after it are  *)
(* its arguments.  The words are not empty.                                *)
(***************************************************************************)
EXTENDS Console

Letter == IF at <= Len(in) /\ Len(in[at]) > 1 THEN in[at][2] ELSE "none"

Arity(letter) ==
  CASE letter \in {"a", "c", "d", "h", "p", "w"} -> 1
    [] letter \in {"g", "o"} -> 2
    [] OTHER -> 0

\* argc - i < n; i counts from 0.  The command itself is counted with its
\* arguments, so that a single one is never missed.
TooFew(n) == Len(in) - (at - 1) < n

\* The arguments are there.
Given(n) == at + n <= Len(in)

Value(k) == IntegerOf(in[at + k])

\* What a letter does to the console; the cursor's visibility (h), waiting
\* (w) and p, which is ignored, are left out.  The three numbers of a mouse
\* report are one character.
Effect(letter, con) ==
  CASE letter = "a" -> Put(con, <<CharOfCode(Value(1))>>)
    [] letter = "c" -> Colored(con, Value(1))
    [] letter = "d" -> Put(con, in[at + 1])
    [] letter = "g" -> Goto(con, origin[1] + Value(1), origin[2] + Value(2))
    [] letter \in {"m", "y"} -> Put(con, <<"report">>)
    [] letter = "n" -> Put(con, <<NewLine>>)
    [] OTHER -> con

Execute ==
  /\ pc = "parse" /\ at <= Len(in)
  /\ Letter # "k"
  /\ Given(Arity(Letter))
  /\ at' = at + 1 + Arity(Letter)
  /\ console' = Effect(Letter, console)
  /\ origin' = IF Letter = "o" THEN <<Value(1), Value(2)>> ELSE origin
  /\ UNCHANGED <<in, pc>>

\* Arguments are missing: noticed, ignored (p), or NULL is read.
Missing ==
  /\ pc = "parse" /\ at <= Len(in)
  /\ ~Given(Arity(Letter))
  /\ pc' = CASE TooFew(Arity(Letter)) -> "exited"
             [] Letter = "p"          -> "parse"
             [] OTHER                 -> "crashed"
  /\ at' = at + 1 + Arity(Letter)
  /\ UNCHANGED <<in, origin, console>>

\* -k exits with a key it waits for; -k_ does not wait.
Key ==
  /\ pc = "parse" /\ Letter = "k"
  /\ at' = at + 1
  /\ \/ pc' = "exited"
     \/ Len(in[at]) > 2 /\ in[at][3] = "_" /\ UNCHANGED pc
  /\ UNCHANGED <<in, origin, console>>

Finish ==
  /\ pc = "parse" /\ at > Len(in)
  /\ pc' = "exited"
  /\ UNCHANGED <<in, at, origin, console>>

Next == Execute \/ Missing \/ Key \/ Finish
=============================================================================
