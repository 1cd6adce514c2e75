----------------------------- MODULE ChoiceArgs -----------------------------
(***************************************************************************)
(* choice: what its command line asks for, and which of its keys a key     *)
(* pressed is.  A character is its code; a word of the command line is an  *)
(* option (or "plain", a word without a dash) with the value written after *)
(* a colon, or NoValue.  A value is its characters and, if they are one,   *)
(* its number.                                                             *)
(***************************************************************************)
EXTENDS Integers, Sequences, FiniteSetsExt

Value(chars, number) == [chars |-> chars, number |-> number]
NotANumber == -1
NoValue == Value(<<>>, -2)
Plain(word) == word.opt = "plain"

DEFAULT_KEYS == <<89, 78>>       \* "YN"

NoDefault == 0
Defaults == [keys |-> DEFAULT_KEYS, default_key |-> NoDefault, timeout |-> 0,
             timeout_defined |-> FALSE, case_sensitive |-> FALSE, result |-> "run"]

ToLower(c) == IF c \in 65..90 THEN c + 32 ELSE c

\* The first position of c in str, or 0.
First(positions) == IF positions = {} THEN 0 ELSE Min(positions)
IndexOf(str, c) == First({i \in DOMAIN str : str[i] = c})

\* strchr takes c as a char, and finds the end of the string as well.
strchr(str, c) == IndexOf(Append(str, 0), c % 256)

\* A char is signed: strcasechr compares a negative number with a c above 127.
Signed(c) == IF c > 127 THEN c - 256 ELSE c

strcasechr(str, c) ==
  First({i \in DOMAIN str : ToLower(Signed(str[i])) = ToLower(c)})

s_strchr(str, c, sensitive) == IF sensitive THEN strchr(str, c) ELSE strcasechr(str, c)

-----------------------------------------------------------------------------
\* get_value: the value after the colon, else the next word, else old.
Separate(words, i) == words[i].val = NoValue /\ i < Len(words)

get_value(words, i, old) ==
  IF words[i].val # NoValue THEN words[i].val
  ELSE IF i < Len(words) THEN words[i + 1].val
  ELSE old

\* One option, with the value it takes.
Option(args, opt, value) ==
  CASE opt = "cs" -> [args EXCEPT !.case_sensitive = TRUE]
    [] opt = "c"  -> [args EXCEPT !.keys = value.chars]
    [] opt = "t"  -> IF value.number = NotANumber
                     THEN [args EXCEPT !.result = "error"]
                     ELSE [args EXCEPT !.timeout = value.number, !.timeout_defined = TRUE]
    [] opt = "d"  -> IF value.chars = <<>> THEN args
                     ELSE [args EXCEPT !.default_key = Head(value.chars)]
    [] opt = "?"  -> [args EXCEPT !.result = "help"]
    [] OTHER      -> args                 \* m, n, and letters choice does not know

TakesValue(opt) == opt \in {"c", "t", "d", "m"}

\* What an option without any value leaves.
OldValue(args, opt) == Value(IF opt = "c" THEN args.keys ELSE <<>>, NotANumber)

\* The checks after the last word.
LateChecks(args) ==
  IF \/ args.keys = <<>>
     \/ args.default_key # NoDefault /\ s_strchr(args.keys, args.default_key, args.case_sensitive) = 0
     \/ args.timeout_defined # (args.default_key # NoDefault)
  THEN [args EXCEPT !.result = "error"]
  ELSE args

\* One word after the other; taken: the word was the value of the one before.
parse_args(words) ==
  LET parse[i \in 0..Len(words)] ==
        IF i = 0 THEN [args |-> Defaults, taken |-> FALSE]
        ELSE LET s    == parse[i - 1]
                 opt  == words[i].opt
                 word == get_value(words, i, OldValue(s.args, opt))
             IN  IF s.taken THEN [s EXCEPT !.taken = FALSE]
                 ELSE IF s.args.result # "run" THEN s
                 ELSE IF Plain(words[i]) THEN [s EXCEPT !.args.result = "error"]
                 ELSE [args  |-> Option(s.args, opt, word),
                       taken |-> TakesValue(opt) /\ Separate(words, i)]
      last == parse[Len(words)].args
  IN  IF last.result = "run" THEN LateChecks(last) ELSE last
=============================================================================
