------------------------------ MODULE MCDarkbox ------------------------------
(***************************************************************************)
(* Darkbox, tcs_o and the two cbatboxes for TLC: four families of inputs,  *)
(* and what each must do.  The programs are alternatives: each behaviour   *)
(* is one run of one of them, goal.by.                                     *)
(***************************************************************************)
EXTENDS Darkbox

CONSTANTS TextSize, RawSize     \* bounds on the lengths of texts and streams

\* A command fits its buffer, and no number is spelled as a letter is.
ASSUME TextAssumption ==
  /\ TextSize \in Nat
  /\ MaxCommand > 1
  /\ Digits \cap Letters = {}

Spelled(chars, n) == UNION {[1..k -> chars] : k \in 0..n}

Goal(by, kind, text, calls) == [by |-> by, kind |-> kind, text |-> text, calls |-> calls]

\* 1. Any characters at all, also cut anywhere.
Raw == Spelled({"-", "d", "n", "q", Space, NewLine, Quote, Escape}, RawSize)

\* 2. Texts through darkbox -e.
Texts == Spelled({"x", "-", Space, NewLine, Quote, Escape}, TextSize)

\* 3. One figure.
Integer(n) == IF n < 0 THEN <<"-", Numbers[-n]>> ELSE <<Numbers[n]>>

Spaced(words) ==
  LET s[i \in 0..Len(words)] ==
        IF i = 0 THEN <<>> ELSE s[i - 1] \o words[i] \o <<Space>>
  IN  s[Len(words)]

Call(letter, args) == [letter |-> letter, args |-> args]
Arguments(c) ==
  IF c.letter = "d" THEN << <<"x">> >>
                    ELSE [i \in 1..Len(c.args) |-> Integer(c.args[i])]
Command(c) == Spaced(<< <<"-", c.letter>> >> \o Arguments(c))

Figures1 ==
  {Call("l", <<a, b, c, d>>) : a \in {0, 2}, b \in {1, 2}, c \in 0..6, d \in 0..6}
  \cup {Call("l", <<6, 2, c, d>>) : c \in -1..4, d \in -2..6}
  \cup {Call("b", <<1, 0, w, h, hollow>>) : w \in -1..4, h \in -1..4, hollow \in 0..1}
  \cup {Call("i", <<2, 3, r>>) : r \in -1..7}

\* 4. Programs of up to three calls, written as separate commands, as one
\* command with all the letters, or as a repeated command.
Palette ==
  {Call("g", <<1, 2>>), Call("j", <<2, -1>>), Call("o", <<2, 1>>), Call("c", <<9>>),
   Call("d", <<>>), Call("s", <<>>), Call("r", <<>>), Call("n", <<>>),
   Call("a", <<1>>), Call("h", <<1>>),
   Call("b", <<0, 1, 2, 2, 0>>), Call("l", <<0, 2, 2, 0>>)}

Programs == (UNION {[1..n -> Palette] : n \in 1..2})
            \cup {<<p, q, r>> : p \in Palette, q \in Palette,
                                r \in {Call("d", <<>>), Call("b", <<0, 1, 2, 2, 0>>)}}

Separate(p) ==
  LET s[i \in 0..Len(p)] == IF i = 0 THEN <<>> ELSE s[i - 1] \o Command(p[i])
  IN  s[Len(p)]

AllArguments(p) ==
  LET s[i \in 0..Len(p)] == IF i = 0 THEN <<>> ELSE s[i - 1] \o Arguments(p[i])
  IN  s[Len(p)]

Joined(prefix, p) ==
  Spaced(<< prefix \o [i \in 1..Len(p) |-> p[i].letter] >>)

Grouped(p) == Joined(<<"-">>, p) \o Spaced(AllArguments(p))
Twice(p) == Joined(<<"/", Numbers[2]>>, p) \o Spaced(AllArguments(p) \o AllArguments(p))

\* The letters each of the other programs has.
KnownTo(by) ==
  IF by = "tcs_o" THEN {"a", "c", "d", "g", "n", "o", "s"}
                  ELSE {"a", "c", "d", "g", "h", "n", "o"}
ProgramsOf(by) ==
  UNION {[1..n -> {c \in Palette : c.letter \in KnownTo(by)}] : n \in 1..3}

\* The words of a command line.
Words(p) ==
  FlattenSeq([i \in 1..Len(p) |-> << <<"-", p[i].letter>> >> \o Arguments(p[i])])

RawWords ==
  Spelled({<<"-", "d">>, <<"-", "n">>, <<"-", "g">>, <<"-", "k">>, <<"-", "k", "_">>,
           <<"-", "m">>, <<"-", "p">>, <<"-">>, <<"4">>}, RawSize - 1)

VARIABLES
  goal,     \* the program that runs and what its input was made from
  last      \* of Cbatbox

Tcs == INSTANCE TcsO
Core == INSTANCE CbatboxCore
Win == INSTANCE Cbatbox

DarkboxInput ==
  \/ \E s \in Raw : in = s /\ goal = Goal("darkbox", "raw", <<>>, <<>>)
  \/ \E t \in Texts : in = Encode(t) /\ goal = Goal("darkbox", "text", t, <<>>)
  \/ \E c \in Figures1 : in = Command(c) /\ goal = Goal("darkbox", "figure", <<>>, <<>>)
  \/ \E p \in Programs :
       \/ in \in {Separate(p), Grouped(p)} /\ goal = Goal("darkbox", "program", <<>>, p)
       \/ Len(p) = 2 /\ in = Twice(p) /\ goal = Goal("darkbox", "program", <<>>, p \o p)

TcsOInput ==
  \/ \E s \in Raw : in = s /\ goal = Goal("tcs_o", "raw", <<>>, <<>>)
  \/ \E t \in Texts : in = Encode(t) /\ goal = Goal("tcs_o", "text", t, <<>>)
  \/ \E p \in ProgramsOf("tcs_o") :
       in = Separate(p) /\ goal = Goal("tcs_o", "program", <<>>, p)

CbatboxInput(by) ==
  \/ \E s \in RawWords : in = s /\ goal = Goal(by, "raw", <<>>, <<>>)
  \/ \E p \in ProgramsOf(by) : in = Words(p) /\ goal = Goal(by, "program", <<>>, p)

MCInit ==
  /\ DarkboxInput \/ TcsOInput \/ CbatboxInput("cbatbox_core") \/ CbatboxInput("cbatbox")
  /\ last = <<0, 0>>
  /\ Started

DarkboxStep == goal.by = "darkbox" /\ Next /\ UNCHANGED last
TcsOStep == goal.by = "tcs_o" /\ Tcs!Next /\ UNCHANGED <<cmd, fig, drawn, last>>
CoreStep == goal.by = "cbatbox_core" /\ Core!Next /\ UNCHANGED <<cmd, fig, drawn, last>>
WinStep == goal.by = "cbatbox" /\ Win!Next /\ UNCHANGED <<cmd, fig, drawn>>
Stopped == pc \in {"exited", "crashed"} /\ UNCHANGED <<vars, last>>

mcvars == <<vars, last, goal>>
MCNext ==
  (DarkboxStep \/ TcsOStep \/ CoreStep \/ WinStep \/ Stopped) /\ UNCHANGED goal
MCSpec == MCInit /\ [][MCNext]_mcvars /\ WF_mcvars(MCNext)

MCChars ==
  {"x", "d", "n", "q", "g", "j", "o", "c", "s", "r", "a", "h", "b", "l", "i", "-", "/", Space,
   NewLine, Quote, Escape} \cup Digits

\* darkbox may be given all of these, and the arguments used here are integers
\* of the inputs.
ASSUME CharsAssumption == MCChars \subseteq Chars /\ MaxInt \in Nat /\ MaxInt >= 9

-----------------------------------------------------------------------------
\* What a call does, figures by their cells.
Blank(con, org, cells, final) ==
  [con EXCEPT !.screen =
     LET blank == {<<c[1] + org[1], c[2] + org[2]>> : c \in cells}
     IN  [p \in blank \cup DOMAIN @ |-> IF p \in blank THEN <<Space, con.color>> ELSE @[p]],
   !.cursor = <<org[1] + final[1] + 1, org[2] + final[2]>>,
   !.out = @ \o [i \in 1..Cardinality(cells) |-> Space]]

\* A new line of cbatbox is below the last goto, or new line.
Below(s) == <<s.last[1], s.last[2] + 1>>

Apply(s, c) ==
  LET v == c.args
      con == s.con
  IN  CASE c.letter = "o" -> [s EXCEPT !.org = v]
        [] c.letter = "g" ->
             LET to == <<s.org[1] + v[1], s.org[2] + v[2]>>
             IN  [s EXCEPT !.con.cursor = to, !.last = to]
        [] c.letter = "j" ->
             [s EXCEPT !.con = GotoRelative(con, v[1], v[2])]
        [] c.letter = "c" /\ goal.by = "cbatbox" ->
             [s EXCEPT !.con.color = [fg |-> 9, bg |-> 0, bold |-> FALSE]]
        [] c.letter = "c" -> [s EXCEPT !.con.color = [fg |-> 1, bg |-> 0, bold |-> TRUE]]
        [] c.letter = "r" -> [s EXCEPT !.con.color = [Plain EXCEPT !.bold = con.color.bold]]
        [] c.letter = "d" -> [s EXCEPT !.con = Put(con, <<"x">>)]
        [] c.letter = "a" -> [s EXCEPT !.con = Put(con, <<CharOfCode(v[1])>>)]
        [] c.letter = "n" /\ goal.by = "cbatbox" ->
             [s EXCEPT !.con.cursor = Below(s), !.last = Below(s)]
        [] c.letter = "n" -> [s EXCEPT !.con = Put(con, <<NewLine>>)]
        [] c.letter = "s" -> [s EXCEPT !.con = Cleared(con)]
        [] c.letter = "b" ->
             [s EXCEPT !.con = Blank(con, s.org,
                (v[1]..(v[1] + v[3] - 1)) \X (v[2]..(v[2] + v[4] - 1)),
                <<v[1] + v[3] - 1, v[2] + v[4] - 1>>)]
        [] c.letter = "l" ->
             [s EXCEPT !.con = Blank(con, s.org, {<<0, 2>>, <<1, 1>>, <<2, 0>>}, <<2, 0>>)]
        [] OTHER -> s

Meaning(program) ==
  LET s[i \in 0..Len(program)] ==
        IF i = 0
        THEN [org |-> <<0, 0>>, last |-> <<0, 0>>,
              con |-> [cursor |-> <<0, 0>>, color |-> Plain, screen |-> <<>>, out |-> <<>>]]
        ELSE Apply(s[i - 1], program[i])
  IN  s[Len(program)].con

\* What all the programs keep in order; the core cbatbox alone can crash,
\* and only where arguments are missing.
AllTypeOK ==
  /\ goal.by = "darkbox" => TypeOK
  /\ ConsoleOK
  /\ pc = "crashed" => goal.by = "cbatbox_core" /\ goal.kind = "raw"

\* A program's calls have their meanings one after the other, each with its
\* own arguments, whether they are written as separate commands, as the letters
\* of one, or with a count, before what is printed when the stream ends; the
\* calls tcs_o and cbatbox have mean the same there, but for
\* the new line and the bright colours of cbatbox, the Windows console's own.
ProgramMeans ==
  goal.kind = "program" /\ pc = "parse" /\ at > Len(in) => console = Meaning(goal.calls)

\* What darkbox -e makes of a text displays that text: nothing is lost, added
\* or taken for a command, whatever quotes and escapes it holds and wherever
\* the pieces are cut.  At the end of the stream darkbox prints EOF bytes,
\* tcs_o, which reads the same commands, nothing.
TextRoundTrip ==
  goal.kind = "text" /\ pc = "exited" =>
    LET n == Len(goal.text) IN
      /\ IsPrefix(goal.text, console.out)
      /\ \A i \in (n + 1)..Len(console.out) :
           goal.by = "darkbox" /\ console.out[i] \in {Eof, Space}

\* Each program ends when its input does, wherever that is: in the middle of a
\* word, of a quoted text, of the arguments of a command.
AllTerminate == <>(pc \in {"exited", "crashed"})
=============================================================================
