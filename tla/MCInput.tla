------------------------------- MODULE MCInput -------------------------------
(***************************************************************************)
(* InputPrograms for TLC: each program with what its user may do.  The     *)
(* codes expected of the keys are those of the Windows build, 255 and the  *)
(* key's scan code (win_core_i.c).                                         *)
(***************************************************************************)
EXTENDS InputPrograms

Key(code, bytes) == [kind |-> "key", code |-> code, bytes |-> bytes]
Char(c) == Key(c, <<c>>)
Partial(bytes) == [kind |-> "partial", bytes |-> bytes]
MouseEvent(act, button, x, y) ==
  [kind |-> "mouse", act |-> act, button |-> button, x |-> x, y |-> y]

UpArrow    == Key(255 + 72, <<Esc, 91, 65>>)
End        == Key(255 + 79, <<Esc, 79, 70>>)
CtrlRight  == Key(255 + 77, <<Esc, 91, 49, 59, 53, 67>>)
ShiftDel   == Key(255 + 83, <<Esc, 91, 51, 59, 50, 126>>)
F12        == Key(255 + 134, <<Esc, 91, 50, 52, 126>>)
AltUp      == Key(255 + 72, <<Esc, Esc, 91, 65>>)
ShiftTab   == Key(Unknown, <<Esc, 91, 90>>)
EscapeKey  == Partial(<<Esc>>)

Opt(opt, value) == [opt |-> opt, val |-> value]
Y == Value(<<89>>, NotANumber)
N == Value(<<78>>, NotANumber)
AB == Value(<<97, 66>>, NotANumber)             \* aB
E9Y == Value(<<233, 89>>, NotANumber)           \* a key beyond ASCII, then Y
E9 == Value(<<233>>, NotANumber)
One == Value(<<49>>, 1)
PlainWord(value) == Opt("plain", value)

CommandLines ==
  { <<>>,
    <<Opt("cs", NoValue), Opt("c", AB)>>,
    <<Opt("c", NoValue), PlainWord(AB), Opt("n", NoValue)>>,
    <<Opt("t", One), Opt("d", N)>>,
    <<Opt("d", NoValue), PlainWord(Y), Opt("t", NoValue), PlainWord(One)>>,
    <<Opt("d", N)>>, <<Opt("t", Y), Opt("d", N)>>, <<Opt("c", NoValue)>>,
    <<Opt("d", AB), Opt("t", One)>>, <<PlainWord(Y)>>,
    <<Opt("?", NoValue), PlainWord(Y)>>, <<Opt("t", One), Opt("d", Y), Opt("cs", NoValue)>>,
    <<Opt("c", AB), Opt("d", Value(<<98>>, NotANumber)), Opt("t", One)>>,
    <<Opt("c", E9Y)>>, <<Opt("c", E9Y), Opt("d", E9), Opt("t", One)>>,
    <<Opt("c", E9Y), Opt("d", E9), Opt("t", One), Opt("cs", NoValue)>> }

Accepted == {args \in {parse_args(l) : l \in CommandLines} : args.result = "run"}


KeyEvents == {Char(121), UpArrow, End, CtrlRight, ShiftDel, F12, AltUp, ShiftTab}
MouseEvents ==
  {MouseEvent("press", 0, 1, 2), MouseEvent("press", 2, 1, 2), MouseEvent("release", 0, 1, 2),
   MouseEvent("move", 0, 0, 222), MouseEvent("scroll", 1, 90, 0)}
OtherMouseEvents ==
  {MouseEvent("press", 1, 3, 3), MouseEvent("move", 3, 2, 2), MouseEvent("scroll", 0, 2, 2)}
ChoiceEvents == {Char(121), Char(78), Char(97), Char(233), Char(3), End, ShiftTab, EscapeKey}

Prog(name, keyboard, mouse, events, most) ==
  [name |-> name, keyboard |-> keyboard, mouse |-> mouse, on_move |-> TRUE,
   console |-> TRUE, args |-> Defaults, events |-> events, most |-> most]

MCPrograms ==
  {Prog("server", TRUE, TRUE, MouseEvents, 4),
   Prog("server", TRUE, TRUE, KeyEvents \cup MouseEvents \cup OtherMouseEvents, 2),
   Prog("server", TRUE, FALSE, KeyEvents \cup {EscapeKey}, 2),
   Prog("server", FALSE, TRUE, {UpArrow, EscapeKey} \cup MouseEvents, 3),
   Prog("mouse", FALSE, TRUE, {End} \cup MouseEvents, 2),
   [Prog("mouse", FALSE, TRUE, MouseEvents, 2) EXCEPT !.on_move = FALSE],
   Prog("key", TRUE, FALSE, KeyEvents, 2),
   Prog("peek", TRUE, FALSE, {Char(78), ShiftDel, AltUp}, 3)}
  \cup {[Prog("choice", TRUE, FALSE, ChoiceEvents, 3) EXCEPT !.args = args, !.console = console] :
          console \in BOOLEAN, args \in Accepted}
=============================================================================
