------------------------------- MODULE VtKeys -------------------------------
(***************************************************************************)
(* How core_i decodes what a terminal sends (POSIX build): core_getkey as  *)
(* an automaton fed with one byte at a time, and the mouse button of a     *)
(* report.  A byte is an integer; Eof is what getch returns at the end.    *)
(***************************************************************************)
EXTENDS Integers, Sequences

CONSTANT MaxParam      \* bound: parameters are capped at +/- MaxParam

Eof == -1
Esc == 27
Unknown == -1          \* CORE_KEY_UNKNOWN, the same as CORE_KEY_ERROR and Eof
Mouse == -2            \* CORE_KEY_MOUSE

IsAlpha(c) == c \in (65..90) \cup (97..122)
IsSpec(c) == c \in {126, 36, 94}        \* ~ $ ^

\* What the last letter of a sequence means: M, the arrows, F, H, F1 to F4.
entries == {<<77, Mouse>>, <<65, 327>>, <<66, 335>>, <<67, 332>>, <<68, 330>>,
            <<70, 334>>, <<72, 326>>, <<80, 314>>, <<81, 315>>, <<82, 316>>, <<83, 317>>}

\* What the parameter of a sequence ended by ~, $ or ^ means.
spec_entries == {<<2, 326>>, <<3, 338>>, <<5, 328>>, <<6, 336>>, <<7, 334>>, <<8, 326>>,
                 <<15, 318>>, <<17, 319>>, <<18, 320>>, <<19, 321>>, <<20, 322>>,
                 <<21, 323>>, <<23, 388>>, <<24, 389>>}

Lookup(table, c) ==
  IF \E e \in table : e[1] = c THEN (CHOOSE e \in table : e[1] = c)[2] ELSE Unknown

-----------------------------------------------------------------------------
(* core_getkey: at is the getch it waits in ("first" character, after an   *)
(* "esc", after a second one, "alt", in the "params", or "raw" where a     *)
(* program calls getchar itself), or "done" with the key in code.          *)

Awaiting(place) == [at |-> place, param |-> 0, param_readed |-> FALSE, code |-> 0]
Done(code) == [Awaiting("done") EXCEPT !.code = code]

Capped(n) == IF n > MaxParam THEN MaxParam ELSE IF n < -MaxParam THEN -MaxParam ELSE n

\* The loop over the parameters, its test first.
InParams(k, c) ==
  LET readed == k.param_readed \/ c = 59           \* ;
  IN  IF IsSpec(c) THEN Done(Lookup(spec_entries, k.param))
      ELSE IF IsAlpha(c) THEN Done(Lookup(entries, c))
      ELSE [k EXCEPT !.at = "params",
                     !.param_readed = readed,
                     !.param = IF readed THEN @
                               ELSE Capped(IF @ = 0 THEN c - 48 ELSE 10 * @ + c - 48)]

\* [ or O is skipped, once.
Introduced(k, c) ==
  IF c \in {91, 79} THEN [k EXCEPT !.at = "params"] ELSE InParams(k, c)

Feed(k, c) ==
  CASE k.at = "raw"    -> Done(c)
    [] k.at = "first"  -> IF c = Esc THEN [k EXCEPT !.at = "esc"] ELSE Done(c)
    [] k.at = "esc"    -> IF c = Esc THEN [k EXCEPT !.at = "alt"] ELSE Introduced(k, c)
    [] k.at = "alt"    -> Introduced(k, c)
    [] k.at = "params" -> InParams(k, c)

-----------------------------------------------------------------------------
(* tomouse_b: the button of a report's first byte, given the latest one.   *)

NOTHING == 0
LEFT_BUTTON == 1
RIGHT_BUTTON == 2
D_LEFT_BUTTON == 3
D_RIGHT_BUTTON == 4
MIDDLE_BUTTON == 5
SCROLL_UP == 6
SCROLL_DOWN == 7
RELEASE == 8

Bit(n, k) == (n \div 2^k) % 2 = 1

\* Mutant of Click: a third press is a double click as well.
ClickAgain(button, double, latest) == IF latest \in {button, double} THEN double ELSE button

\* A press of a button that has a double click.
Click(button, double, latest) == IF latest = button THEN double ELSE button

tomouse_b(byte, latest) ==
  LET b      == byte - 32
      moving == Bit(b, 5)
      button == CASE b % 4 = 0 -> IF moving THEN LEFT_BUTTON ELSE Click(LEFT_BUTTON, D_LEFT_BUTTON, latest)
                  [] b % 4 = 1 -> MIDDLE_BUTTON
                  [] b % 4 = 2 -> IF moving THEN RIGHT_BUTTON ELSE Click(RIGHT_BUTTON, D_RIGHT_BUTTON, latest)
                  [] b % 4 = 3 -> IF moving THEN NOTHING ELSE RELEASE
  IN  CASE Bit(b, 6)             -> [b |-> IF b % 4 = 1 THEN SCROLL_DOWN ELSE SCROLL_UP,
                                     latest |-> NOTHING]
        [] ~Bit(b, 6) /\ moving  -> [b |-> button, latest |-> RELEASE]
        [] ~Bit(b, 6) /\ ~moving -> [b |-> button, latest |-> IF b % 4 = 3 THEN latest ELSE button]
=============================================================================
