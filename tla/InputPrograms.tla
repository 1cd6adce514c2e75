---------------------------- MODULE InputPrograms ----------------------------
(***************************************************************************)
(* The programs that read the keyboard and the mouse of a terminal:        *)
(*   "server"  darkbox -i: reports every event                             *)
(*   "mouse"   darkbox -m and -y: waits for a mouse event                  *)
(*   "key"     darkbox -k: waits for a key                                 *)
(*   "peek"    darkbox -k_: the key pressed, 0 if there is none            *)
(*   "choice"  choice: waits for one of its keys, or for its time-out      *)
(* (darkbox_i repeats mouse, key and peek).  The user types, the terminal  *)
(* sends bytes, and the program reads them one at a time.                  *)
(***************************************************************************)
EXTENDS VtKeys, ChoiceArgs, FiniteSets, SequencesExt

CONSTANTS
  Programs,        \* the programs as they are started, each with the events its
                   \* user may make and, a bound, how many of them
  WaitsPerSecond,  \* how often choice looks for a key in a second
  Garbage          \* the values an undefined index may have

\* core_getkey after each byte of a sequence.
Fed(bytes) ==
  LET fed[m \in 0..Len(bytes)] ==
        IF m = 0 THEN Awaiting("first") ELSE Feed(fed[m - 1], bytes[m])
  IN  fed

\* What the user does: presses a key whose sequence means its code, as a whole,
\* types anything else, or uses the mouse where a report has room for its place.
IsKey(e) ==
  LET n == Len(e.bytes)
  IN  /\ e.kind = "key" /\ e.code \in Int \ {0, Mouse}
      /\ \A m \in 0..(n - 1) : Fed(e.bytes)[m].at # "done"
      /\ Fed(e.bytes)[n] = Done(e.code)

IsMouse(e) ==
  /\ e.kind = "mouse"
  /\ e.x \in 0..222 /\ e.y \in 0..222
  /\ \/ e.act \in {"press", "release"} /\ e.button \in 0..2
     \/ e.act = "move" /\ e.button \in 0..3
     \/ e.act = "scroll" /\ e.button \in 0..1

IsEvent(e) ==
  \/ IsMouse(e)
  \/ e.kind \in {"key", "partial"} /\ e.bytes \in Seq(0..255) \ {<<>>}

\* What the options leave: all but choice take their input for a console's, and
\* only -i and -m turn the mouse on.
IsProgram(p) ==
  /\ p.most \in Nat /\ p.args.timeout \in Nat /\ p.args.keys \in Seq(1..255)
  /\ \/ p.name = "server" /\ p.console
     \/ p.name = "mouse" /\ p.console /\ p.mouse /\ ~p.keyboard
     \/ p.name \in {"key", "peek"} /\ p.console /\ p.keyboard /\ ~p.mouse
     \/ p.name = "choice" /\ ~p.mouse
  /\ \A e \in p.events : IsEvent(e) /\ (e.kind = "key" => IsKey(e))

ASSUME InputAssumption ==
  /\ MaxParam \in Nat /\ WaitsPerSecond \in Nat
  /\ \A p \in Programs : IsProgram(p)

VARIABLES
  prog,     \* the program
  pc,       \* "run", "key" (in core_getkey or getchar) or "done"
  typed,    \* history: the events, in order
  tty,      \* bytes sent, not yet read
  hungup,   \* the input is at its end
  buffer,   \* stdio's buffer
  feof,     \* stdio has seen the end
  key,      \* core_getkey
  report,   \* the part of a mouse event that is read
  latest,   \* the latest button, for double clicks
  waits,    \* wait_count: the turns choice still waits
  out       \* what was reported, in order

vars == <<prog, pc, typed, tty, hungup, buffer, feof, key, report, latest, waits, out>>

Started(p) ==
  /\ prog = p
  /\ pc = IF p.name \in {"peek", "choice"} THEN "run" ELSE "key"
  /\ typed = <<>>
  /\ tty = <<>>
  /\ hungup = FALSE
  /\ buffer = <<>>
  /\ feof = FALSE
  /\ key = Awaiting(IF p.console THEN "first" ELSE "raw")
  /\ report = <<>>
  /\ latest = IF p.mouse THEN RELEASE ELSE NOTHING
  /\ waits = p.args.timeout * WaitsPerSecond
  /\ out = <<>>

Init == \E p \in Programs : Started(p)

Is(name) == prog.name = name

\* What a script gets of a number that main returns (wait(2)): eight bits.
ExitStatus(n) == n % 256

-----------------------------------------------------------------------------
(* The terminal.                                                           *)

\* What it sends: a key's sequence, or a report of the mouse.
Button(e) == CASE e.act = "release" -> 3
               [] e.act = "press"   -> e.button
               [] e.act = "move"    -> 32 + e.button
               [] e.act = "scroll"  -> 64 + e.button

Sent(e) == IF e.kind = "mouse"
           THEN <<Esc, 91, 77, 32 + Button(e), 33 + e.x, 33 + e.y>>
           ELSE e.bytes

\* It reports the mouse to a program that asked for it, movement to -i and -y.
Reports(e) ==
  e.kind = "mouse" =>
    /\ prog.mouse
    /\ e.act = "move" => prog.on_move

Type ==
  /\ pc # "done" /\ ~hungup
  /\ Len(typed) < prog.most
  /\ \E e \in prog.events :
       /\ Reports(e)
       /\ typed' = Append(typed, e)
       /\ tty' = tty \o Sent(e)
  /\ UNCHANGED <<prog, pc, hungup, buffer, feof, key, report, latest, waits, out>>

HangUp ==
  /\ pc # "done"
  /\ hungup' = TRUE
  /\ UNCHANGED <<prog, pc, typed, tty, buffer, feof, key, report, latest, waits, out>>

-----------------------------------------------------------------------------
(* Reading.                                                                *)

\* core_kbhit: also turns stdio's buffering off, for good.
KbHit == tty # <<>>
Timed == Is("choice") /\ prog.args.default_key # NoDefault
Unbuffered == Is("peek") \/ (Timed /\ prog.console)

\* Mutant of Getchar: kbhit leaves the buffering on.
GetcharBuffered(c) ==
  \/ /\ buffer # <<>>
     /\ c = Head(buffer)
     /\ buffer' = Tail(buffer)
     /\ UNCHANGED <<tty, feof>>
  \/ /\ buffer = <<>> /\ tty # <<>>
     /\ c = Head(tty)
     /\ tty' = <<>> /\ buffer' = Tail(tty)
     /\ UNCHANGED feof
  \/ /\ buffer = <<>> /\ tty = <<>> /\ hungup
     /\ c = Eof
     /\ feof' = TRUE
     /\ UNCHANGED <<buffer, tty>>

\* One getchar: fills the buffer with all there is, or with one byte.
Getchar(c) ==
  \/ /\ buffer # <<>>
     /\ c = Head(buffer)
     /\ buffer' = Tail(buffer)
     /\ UNCHANGED <<tty, feof>>
  \/ /\ buffer = <<>> /\ tty # <<>>
     /\ c = Head(tty)
     /\ IF Unbuffered THEN tty' = Tail(tty) /\ buffer' = <<>>
                      ELSE tty' = <<>> /\ buffer' = Tail(tty)
     /\ UNCHANGED feof
  \/ /\ buffer = <<>> /\ tty = <<>> /\ hungup
     /\ c = Eof
     /\ feof' = TRUE
     /\ UNCHANGED <<buffer, tty>>

Bytes == {Eof} \cup ToSet(buffer) \cup ToSet(tty)

\* A byte that does not complete a key.
ReadPart ==
  /\ pc = "key"
  /\ \E c \in Bytes :
       /\ Getchar(c)
       /\ key' = Feed(key, c)
  /\ key'.at # "done"
  /\ UNCHANGED <<prog, pc, typed, hungup, report, latest, waits, out>>

\* A byte that completes the key k; the next one is read anew.
ReadKey(k) ==
  /\ pc = "key"
  /\ \E c \in Bytes :
       /\ Getchar(c)
       /\ Feed(key, c) = Done(k)
  /\ key' = Awaiting(IF prog.console THEN "first" ELSE "raw")

Keys == {Feed(key, c).code : c \in Bytes}

-----------------------------------------------------------------------------
(* darkbox -i, -m and -y: core_input_get_event and core_get_mouse.         *)

ReadsEvents == prog.name \in {"server", "mouse"}

\* The server goes on until stdio has seen the end; the others end.
Reported(r) ==
  /\ out' = Append(out, r)
  /\ pc' = IF Is("server") /\ ~feof' THEN "key" ELSE "done"

\* A key that begins a mouse event, and the keys read as its button and column.
MouseBegins ==
  /\ ReadsEvents /\ report = <<>>
  /\ ReadKey(Mouse)
  /\ report' = <<Mouse>>
  /\ UNCHANGED <<prog, pc, typed, hungup, latest, waits, out>>

MouseButton ==
  /\ Len(report) = 1
  /\ \E k \in Keys :
       /\ ReadKey(k)
       /\ report' = Append(report, tomouse_b(k, latest).b)
       /\ latest' = tomouse_b(k, latest).latest
  /\ UNCHANGED <<prog, pc, typed, hungup, waits, out>>

MouseColumn ==
  /\ Len(report) = 2
  /\ \E k \in Keys : ReadKey(k) /\ report' = Append(report, k - 33)
  /\ UNCHANGED <<prog, pc, typed, hungup, latest, waits, out>>

\* The row completes the event.
MouseRow ==
  /\ Len(report) = 3
  /\ \E k \in Keys :
       /\ ReadKey(k)
       /\ Reported([type |-> "m", x |-> report[3], y |-> k - 33, b |-> report[2]])
  /\ report' = <<>>
  /\ UNCHANGED <<prog, typed, hungup, latest, waits>>

\* Mutant of KeyRead: the end is looked for only after a report.
KeyReadOn ==
  /\ ReadsEvents /\ report = <<>>
  /\ \E k \in Keys \ {Mouse} :
       /\ ReadKey(k)
       /\ IF prog.keyboard
          THEN Reported([type |-> "k", code |-> k])
          ELSE UNCHANGED <<pc, out>>
  /\ UNCHANGED <<prog, typed, hungup, report, latest, waits>>

\* -i reports keys unless it was started for the mouse only, -m passes over
\* them, for ever when the input is at its end.
KeyRead ==
  /\ ReadsEvents /\ report = <<>>
  /\ \E k \in Keys \ {Mouse} :
       /\ ReadKey(k)
       /\ IF prog.keyboard
          THEN Reported([type |-> "k", code |-> k])
          ELSE /\ pc' = IF Is("server") /\ feof' THEN "done" ELSE "key"
               /\ UNCHANGED out
  /\ UNCHANGED <<prog, typed, hungup, report, latest, waits>>

-----------------------------------------------------------------------------
(* darkbox -k and -k_: the key's code is the exit status.                  *)

Peek ==
  /\ Is("peek") /\ pc = "run"
  /\ IF KbHit THEN pc' = "key" /\ UNCHANGED out
              ELSE pc' = "done" /\ out' = Append(out, [type |-> "k", code |-> 0])
  /\ UNCHANGED <<prog, typed, tty, hungup, buffer, feof, key, report, latest, waits>>

KeyReturned ==
  /\ prog.name \in {"key", "peek"}
  /\ \E k \in Keys : ReadKey(k) /\ Reported([type |-> "k", code |-> ExitStatus(k)])
  /\ UNCHANGED <<prog, typed, hungup, report, latest, waits>>

\* A script calls darkbox -k_ again: a new process, with an empty buffer.
Again ==
  /\ Is("peek") /\ pc = "done" /\ ~feof
  /\ Len(out) <= prog.most
  /\ pc' = "run"
  /\ buffer' = <<>>
  /\ UNCHANGED <<prog, typed, tty, hungup, feof, key, report, latest, waits, out>>

-----------------------------------------------------------------------------
(* choice: run_choice and check_key                                        *)

Answer(index) ==
  /\ pc' = "done"
  /\ out' = <<ExitStatus(index)>>

\* Without a time-out it just waits for a key.
Ask ==
  /\ Is("choice") /\ pc = "run" /\ ~Timed
  /\ pc' = "key"
  /\ UNCHANGED <<prog, typed, tty, hungup, buffer, feof, key, report, latest, waits, out>>

\* Mutant of Turn: only a turn that finds a key counts.
TurnForever ==
  /\ Timed /\ pc = "run" /\ waits > 0
  /\ waits' = IF KbHit THEN waits - 1 ELSE waits
  /\ pc' = IF ~prog.console \/ KbHit THEN "key" ELSE "run"
  /\ UNCHANGED <<prog, typed, tty, hungup, buffer, feof, key, report, latest, out>>

\* A turn of the loop: a key is read if there is one (a file or a pipe always
\* has one), else choice sleeps.  Either way the turn counts.
Turn ==
  /\ Timed /\ pc = "run" /\ waits > 0
  /\ waits' = waits - 1
  /\ pc' = IF ~prog.console \/ KbHit THEN "key" ELSE "run"
  /\ UNCHANGED <<prog, typed, tty, hungup, buffer, feof, key, report, latest, out>>

\* The default's index is looked for with its case; without it, it is that of
\* a NULL pointer.
TimeOut ==
  /\ Timed /\ pc = "run" /\ waits = 0
  /\ LET index == IndexOf(prog.args.keys, prog.args.default_key)
     IN  IF index > 0 THEN Answer(index) ELSE \E g \in Garbage : Answer(g)
  /\ UNCHANGED <<prog, typed, tty, hungup, buffer, feof, key, report, latest, waits>>

\* Mutant of CheckKey: a special key ends it like the end of the input.
CheckKeySpecial ==
  /\ Is("choice")
  /\ \E k \in Keys :
       LET index == s_strchr(prog.args.keys, k, prog.args.case_sensitive)
       IN  /\ ReadKey(k)
           /\ IF k \in {Eof, 3} \/ k > 255 THEN Answer(0)
              ELSE IF index > 0 THEN Answer(index)
              ELSE pc' = "run" /\ UNCHANGED out
  /\ UNCHANGED <<prog, typed, hungup, report, latest, waits>>

\* check_key: the end of the input, which an unknown key looks like, and ^C
\* answer 0; a key that is no choice rings the bell.
CheckKey ==
  /\ Is("choice")
  /\ \E k \in Keys :
       LET index == s_strchr(prog.args.keys, k, prog.args.case_sensitive)
       IN  /\ ReadKey(k)
           /\ IF k \in {Eof, 3} THEN Answer(0)
              ELSE IF index > 0 THEN Answer(index)
              ELSE pc' = "run" /\ UNCHANGED out
  /\ UNCHANGED <<prog, typed, hungup, report, latest, waits>>

-----------------------------------------------------------------------------
Program ==
  \/ ReadPart
  \/ MouseBegins \/ MouseButton \/ MouseColumn \/ MouseRow \/ KeyRead
  \/ Peek \/ KeyReturned
  \/ Ask \/ Turn \/ TimeOut \/ CheckKey

Next == Type \/ HangUp \/ Again \/ Program

Spec == Init /\ [][Next]_vars

\* The program is one thread that only waits for its input.  Nothing makes the
\* user type, hang up, or call it again.
FairSpec == Spec /\ WF_vars(Program)

-----------------------------------------------------------------------------
(* Properties                                                              *)

TypeOK ==
  /\ prog \in Programs
  /\ pc \in {"run", "key", "done"}
  /\ typed \in Seq(prog.events) /\ Len(typed) <= prog.most
  /\ tty \in Seq(0..255) /\ buffer \in Seq(0..255)
  /\ hungup \in BOOLEAN /\ feof \in BOOLEAN
  /\ key \in [at : {"first", "esc", "alt", "params", "raw"}, code : {0},
              param : -MaxParam..MaxParam, param_readed : BOOLEAN]
  /\ report \in Seq(Int) /\ Len(report) <= 3 /\ (report # <<>> => ReadsEvents)
  /\ latest \in 0..8
  /\ waits \in Nat
  /\ Unbuffered => buffer = <<>>

\* In the middle of a sequence: after a lone Escape key, for example.
InSequence == key.at \in {"esc", "alt", "params"}

Presses(e, button) == e.kind = "mouse" /\ e.act = "press" /\ e.button = button

\* The clicks of one button up to event i, without another mouse event but
\* releases between them: every second one is a double click.
Clicks(i) ==
  LET Goes(e) == e.kind = "mouse" => e.act = "release" \/ Presses(e, typed[i].button)
  IN  Cardinality({j \in 1..i : /\ Presses(typed[j], typed[i].button)
                                /\ \A l \in j..i : Goes(typed[l])})

ButtonOf(i) ==
  LET e      == typed[i]
      double == Is("server") /\ e.act = "press" /\ Clicks(i) % 2 = 0
  IN  CASE e.act = "release" -> RELEASE
        [] e.act = "scroll"  -> IF e.button = 0 THEN SCROLL_UP ELSE SCROLL_DOWN
        [] OTHER -> CASE e.button = 0 -> IF double THEN D_LEFT_BUTTON ELSE LEFT_BUTTON
                      [] e.button = 1 -> MIDDLE_BUTTON
                      [] e.button = 2 -> IF double THEN D_RIGHT_BUTTON ELSE RIGHT_BUTTON
                      [] e.button = 3 -> NOTHING

\* -i writes a code as it is; of one that is an exit status the script gets what
\* that keeps: 71, the code of G, for Up (327).
CodeOf(code) == IF prog.name \in {"key", "peek"} THEN ExitStatus(code) ELSE code

ReportOf(i) ==
  LET e == typed[i]
  IN  IF e.kind = "mouse"
      THEN [type |-> "m", x |-> e.x, y |-> e.y, b |-> ButtonOf(i)]
      ELSE [type |-> "k", code |-> CodeOf(e.code)]

\* What the first i events should make it report.
Meanings[i \in 0..Len(typed)] ==
  IF i = 0 THEN <<>>
  ELSE IF typed[i].kind = "mouse" \/ prog.keyboard
  THEN Append(Meanings[i - 1], ReportOf(i))
  ELSE Meanings[i - 1]

\* What the program should report of what the user did.
Meant ==
  LET all == Meanings[Len(typed)]
  IN  IF prog.name \in {"mouse", "key"} /\ all # <<>>
      THEN <<all[1]>> ELSE all

\* What it reported, without what -k_ answers when there is no key.
NoKey == [type |-> "k", code |-> 0]
Told[i \in 0..Len(out)] ==
  IF i = 0 THEN <<>>
  ELSE IF out[i] = NoKey THEN Told[i - 1] ELSE Append(Told[i - 1], out[i])

AllMeant == \A i \in DOMAIN typed : typed[i].kind # "partial"

\* darkbox reports what the user did, each event once and in order: sequences of
\* one to seven bytes, mouse reports, double clicks and plain characters are told
\* apart wherever reading stops and starts again.  A key has its own code from -i;
\* from -k and -k_ it has the low eight bits of it (CodeOf), never 0, which is -k_'s
\* answer when there is no key.
EventsArrive ==
  ~Is("choice") /\ AllMeant =>
    LET reported == Told[Len(out)]
        end      == IF feof /\ prog.keyboard THEN <<[type |-> "k", code |-> CodeOf(Eof)]>> ELSE <<>>
    IN  /\ IsPrefix(reported, Meant \o end)
        /\ tty = <<>> /\ buffer = <<>> => reported = Meant \o end

\* What choice should answer to one event: 0 to ^C and to an unknown key (both
\* end it), none to a key that is no choice.
Matches(i, code) ==
  \/ prog.args.keys[i] = code
  \/ ~prog.args.case_sensitive /\ ToLower(prog.args.keys[i]) = ToLower(code)
IsChoice(e) == \E i \in DOMAIN prog.args.keys : Matches(i, e.code)
Decides(e) == IsChoice(e) \/ e.code \in {3, Unknown}

Answers(index, code) ==
  IF code \in {3, Unknown} THEN index = 0
  ELSE index \in DOMAIN prog.args.keys /\ Matches(index, code)

\* The bytes of the first i events, and whether they were all read.
SentUpTo[i \in 0..Len(typed)] ==
  IF i = 0 THEN <<>> ELSE SentUpTo[i - 1] \o Sent(typed[i])

Consumed(i) ==
  Len(SentUpTo[i]) <= Len(SentUpTo[Len(typed)]) - Len(tty) - Len(buffer)

\* choice answers with the first of its keys that the user pressed before the
\* time-out, with the default after it, with 0 to ^C and at the end of the
\* input: a special key is never taken for a character.  Stated for lists whose
\* places an exit status tells apart, for ASCII lists unless the case matters
\* (strcasechr finds no other key), for a default written as in the list, and for
\* plain characters if the case matters or if they come from a file.
AnswerIsMeant ==
  /\ Is("choice") /\ pc = "done" /\ AllMeant
  /\ Len(prog.args.keys) <= 255
  /\ prog.args.case_sensitive \/ prog.args.keys \in Seq(1..127)
  /\ Timed => prog.args.default_key \in ToSet(prog.args.keys)
  /\ prog.args.case_sensitive \/ ~prog.console =>
       \A i \in DOMAIN typed : typed[i].code \in 1..255
  => LET read == {i \in DOMAIN typed : Consumed(i) /\ Decides(typed[i])}
     IN  IF read # {}
         THEN \E i \in read : Answers(out[1], typed[i].code) /\ \A j \in read : i <= j
         ELSE \/ feof /\ out[1] = 0
              \/ /\ Timed /\ waits = 0
                 /\ out[1] \in DOMAIN prog.args.keys
                 /\ prog.args.keys[out[1]] = prog.args.default_key

\* A program whose input ends ends, but for -m, unless that is within a sequence.
EndsWithInput ==
  <>hungup /\ ~Is("mouse") => <>(pc = "done") \/ <>[]InSequence

\* choice with a time-out on a console ends whatever the user does, unless it
\* waits for the rest of a sequence: every turn counts, also those spent on
\* keys that are no choices.
TimesOut == Timed /\ prog.console => <>(pc = "done") \/ <>[]InSequence

=============================================================================
