----------------------------- MODULE InputProofs -----------------------------
(***************************************************************************)
(* The programs that read the keyboard and the mouse, for any options, any *)
(* keys, any uses of the mouse and any number of them: their types, that   *)
(* darkbox reports what the user did, and that choice answers it.          *)
(***************************************************************************)
EXTENDS InputPrograms, ListLemmas

-----------------------------------------------------------------------------
(* Type correctness.                                                       *)

KeyState == [at : {"first", "esc", "alt", "params", "raw"}, code : {0},
             param : -MaxParam..MaxParam, param_readed : BOOLEAN]

LEMMA LookupInt ==
  ASSUME NEW c
  PROVE  Lookup(entries, c) \in Int /\ Lookup(spec_entries, c) \in Int
<1>1. \A e \in entries : e[2] \in Int
  BY DEF entries, Mouse
<1>2. \A e \in spec_entries : e[2] \in Int
  BY DEF spec_entries
<1> QED BY <1>1, <1>2 DEF Lookup, Unknown

LEMMA AwaitingState ==
  ASSUME NEW place \in {"first", "esc", "alt", "params", "raw"}
  PROVE  Awaiting(place) \in KeyState
BY InputAssumption DEF Awaiting, KeyState

\* A key that is complete has its code, and no state core_getkey waits in is one.
LEMMA DoneIs ==
  ASSUME NEW code
  PROVE  Done(code).at = "done" /\ Done(code).code = code /\ Done(code) \notin KeyState
<1>1. PICK r : r = Awaiting("done")
  OBVIOUS
<1>2. Done(code) = [r EXCEPT !.code = code]
  BY <1>1 DEF Done
<1>3. r.at = "done" /\ DOMAIN r = {"at", "param", "param_readed", "code"}
  BY <1>1 DEF Awaiting
<1>4. Done(code).at = "done" /\ Done(code).code = code
  BY <1>2, <1>3
<1> QED BY <1>4 DEF KeyState

LEMMA CappedRange ==
  ASSUME NEW n \in Int
  PROVE  Capped(n) \in -MaxParam..MaxParam
<1>1. MaxParam \in Nat
  BY InputAssumption
<1> QED BY <1>1 DEF Capped

\* One more byte: another state of core_getkey, or a key.
LEMMA FeedState ==
  ASSUME NEW k \in KeyState, NEW c \in Int
  PROVE  \/ Feed(k, c) \in KeyState
         \/ \E code \in Int : Feed(k, c) = Done(code)
<1>0. MaxParam \in Nat
  BY InputAssumption
<1>1. k.param \in Int /\ k.param_readed \in BOOLEAN
  BY <1>0 DEF KeyState
<1>2. \A at \in {"esc", "alt", "params"} : [k EXCEPT !.at = at] \in KeyState
  BY DEF KeyState
<1>3. \/ InParams(k, c) \in KeyState
      \/ \E code \in Int : InParams(k, c) = Done(code)
  <2>1. CASE IsSpec(c)
    BY <2>1, LookupInt DEF InParams
  <2>2. CASE ~IsSpec(c) /\ IsAlpha(c)
    BY <2>2, LookupInt DEF InParams
  <2>3. CASE ~IsSpec(c) /\ ~IsAlpha(c)
    <3> DEFINE readed == k.param_readed \/ c = 59
               param == IF readed THEN k.param
                        ELSE Capped(IF k.param = 0 THEN c - 48 ELSE 10 * k.param + c - 48)
    <3>1. InParams(k, c) = [k EXCEPT !.at = "params", !.param_readed = readed, !.param = param]
      BY <2>3 DEF InParams
    <3>2. param \in -MaxParam..MaxParam
      <4>1. (IF k.param = 0 THEN c - 48 ELSE 10 * k.param + c - 48) \in Int
        BY <1>1
      <4> QED BY <4>1, CappedRange DEF KeyState
    <3>3. readed \in BOOLEAN
      OBVIOUS
    <3> HIDE DEF readed, param
    <3> QED BY <3>1, <3>2, <3>3 DEF KeyState
  <2> QED BY <2>1, <2>2, <2>3
<1>4. \/ Introduced(k, c) \in KeyState
      \/ \E code \in Int : Introduced(k, c) = Done(code)
  BY <1>2, <1>3 DEF Introduced
<1>5. k.at \in {"first", "esc", "alt", "params", "raw"}
  BY DEF KeyState
<1> QED BY <1>2, <1>3, <1>4, <1>5 DEF Feed

\* What an event sends.
LEMMA SentBytes ==
  ASSUME NEW e, IsEvent(e)
  PROVE  Sent(e) \in Seq(0..255) /\ Sent(e) # <<>> /\ Len(Sent(e)) \in Nat /\ Len(Sent(e)) > 0
<1>1. CASE e.kind = "mouse"
  <2>1. IsMouse(e)
    BY <1>1 DEF IsEvent
  <2>2. Button(e) \in 0..65
    BY <2>1 DEF IsMouse, Button
  <2>3. 32 + Button(e) \in 0..255 /\ 33 + e.x \in 0..255 /\ 33 + e.y \in 0..255
    BY <2>1, <2>2 DEF IsMouse
  <2> HIDE DEF Button
  <2> QED BY <1>1, <2>3 DEF Sent, Esc
<1>2. CASE e.kind # "mouse"
  BY <1>2 DEF IsEvent, IsMouse, Sent
<1> QED BY <1>1, <1>2

LEMMA ProgramIs ==
  ASSUME TypeOK
  PROVE  /\ prog \in Programs /\ IsProgram(prog)
         /\ \A e \in prog.events : IsEvent(e) /\ (e.kind = "key" => IsKey(e))
BY InputAssumption DEF TypeOK, IsProgram

\* getchar returns a byte or the end of the input.
LEMMA GetcharTypes ==
  ASSUME TypeOK, NEW c, Getchar(c)
  PROVE  /\ c \in (0..255) \cup {Eof}
         /\ tty' \in Seq(0..255) /\ buffer' \in Seq(0..255) /\ feof' \in BOOLEAN
         /\ Unbuffered => buffer' = <<>>
<1>1. ASSUME NEW s \in Seq(0..255), s # <<>>
      PROVE  Head(s) \in 0..255 /\ Tail(s) \in Seq(0..255)
  BY <1>1, HeadTailProperties
<1>2. tty \in Seq(0..255) /\ buffer \in Seq(0..255) /\ feof \in BOOLEAN
  BY DEF TypeOK
<1>3. CASE buffer # <<>>
  <2>1. c = Head(buffer) /\ buffer' = Tail(buffer) /\ tty' = tty /\ feof' = feof
    BY <1>3 DEF Getchar
  <2>2. Head(buffer) \in 0..255 /\ Tail(buffer) \in Seq(0..255)
    BY <1>1, <1>2, <1>3
  <2>3. ~Unbuffered
    BY <1>3 DEF TypeOK
  <2> QED BY <1>2, <2>1, <2>2, <2>3
<1>4. CASE buffer = <<>> /\ tty # <<>>
  <2>1. /\ c = Head(tty) /\ feof' = feof
        /\ IF Unbuffered THEN tty' = Tail(tty) /\ buffer' = <<>>
                         ELSE tty' = <<>> /\ buffer' = Tail(tty)
    BY <1>4 DEF Getchar
  <2>2. Head(tty) \in 0..255 /\ Tail(tty) \in Seq(0..255) /\ <<>> \in Seq(0..255)
    BY <1>1, <1>2, <1>4
  <2> QED BY <1>2, <2>1, <2>2
<1>5. CASE buffer = <<>> /\ tty = <<>>
  <2>1. c = Eof /\ feof' = TRUE /\ buffer' = buffer /\ tty' = tty
    BY <1>5 DEF Getchar
  <2> QED BY <1>2, <1>5, <2>1
<1> QED BY <1>3, <1>4, <1>5

\* What ReadKey does: the byte that completes the key, and what is read next.
LEMMA ReadKeyTypes ==
  ASSUME TypeOK, NEW k, ReadKey(k)
  PROVE  /\ k \in Int /\ key' \in KeyState /\ pc = "key"
         /\ tty' \in Seq(0..255) /\ buffer' \in Seq(0..255) /\ feof' \in BOOLEAN
         /\ Unbuffered => buffer' = <<>>
<1>1. PICK c \in Bytes : Getchar(c) /\ Feed(key, c) = Done(k)
  BY DEF ReadKey
<1>2. key' \in KeyState /\ pc = "key"
  BY AwaitingState DEF ReadKey
<1>3. c \in Int
  <2>1. c \in (0..255) \cup {Eof}
    BY <1>1, GetcharTypes
  <2> QED BY <2>1 DEF Eof
<1>4. key \in KeyState
  BY DEF TypeOK, KeyState
<1>5. \E code \in Int : Done(k) = Done(code)
  BY <1>1, <1>3, <1>4, FeedState, DoneIs
<1>6. k \in Int
  BY <1>5, DoneIs
<1> QED BY <1>1, <1>2, <1>6, GetcharTypes

\* What stays as it is between two bytes.
Else == prog' = prog /\ typed' = typed /\ hungup' \in BOOLEAN

\* A step that reads, its report, its latest button and its turns.
LEMMA ReadTypes ==
  ASSUME TypeOK, Else, pc' \in {"run", "key", "done"},
         key' \in KeyState,
         tty' \in Seq(0..255), buffer' \in Seq(0..255), feof' \in BOOLEAN,
         Unbuffered => buffer' = <<>>,
         report' \in Seq(Int), Len(report') <= 3, report' # <<>> => ReadsEvents,
         latest' \in 0..8, waits' \in Nat
  PROVE  TypeOK'
BY DEF TypeOK, Else, KeyState, Unbuffered, ReadsEvents, Timed, Is

LEMMA InitTypeOK == Init => TypeOK
<1> SUFFICES ASSUME NEW p \in Programs, Started(p) PROVE TypeOK
  BY DEF Init
<1>1. prog = p /\ IsProgram(p)
  BY InputAssumption DEF Started
<1>2. p.args.timeout * WaitsPerSecond \in Nat
  <2>1. p.args.timeout \in Nat /\ WaitsPerSecond \in Nat
    BY <1>1, InputAssumption DEF IsProgram
  <2> QED BY <2>1
<1>3. key \in KeyState
  BY AwaitingState DEF Started
<1>4. typed = <<>> /\ tty = <<>> /\ buffer = <<>> /\ report = <<>> /\ hungup = FALSE /\ feof = FALSE
  BY DEF Started
<1>5. typed \in Seq(prog.events) /\ Len(typed) <= prog.most
  BY <1>1, <1>4 DEF IsProgram
<1>6. pc \in {"run", "key", "done"} /\ latest \in 0..8 /\ waits \in Nat
  BY <1>2 DEF Started, RELEASE, NOTHING
<1>7. tty \in Seq(0..255) /\ buffer \in Seq(0..255) /\ report \in Seq(Int) /\ Len(report) <= 3
  BY <1>4
<1>8. hungup \in BOOLEAN /\ feof \in BOOLEAN
  BY <1>4
<1> QED BY <1>1, <1>3, <1>4, <1>5, <1>6, <1>7, <1>8 DEF TypeOK, KeyState

LEMMA TypeTypeOK == TypeOK /\ Type => TypeOK'
<1> SUFFICES ASSUME TypeOK, Type PROVE TypeOK'
  OBVIOUS
<1>1. PICK e \in prog.events : typed' = Append(typed, e) /\ tty' = tty \o Sent(e)
  BY DEF Type
<1>2. Sent(e) \in Seq(0..255)
  BY <1>1, ProgramIs, SentBytes
<1>3. tty \in Seq(0..255) /\ typed \in Seq(prog.events) /\ prog.most \in Nat
  BY ProgramIs DEF TypeOK, IsProgram
<1>4. tty' \in Seq(0..255) /\ typed' \in Seq(prog.events)
  BY <1>1, <1>2, <1>3
<1>5. Len(typed') <= prog.most
  BY <1>1, <1>3 DEF Type
<1>6. UNCHANGED <<prog, pc, hungup, buffer, feof, key, report, latest, waits, out>>
  BY DEF Type
<1> QED BY <1>4, <1>5, <1>6 DEF TypeOK, Unbuffered, ReadsEvents, Timed, Is

\* The steps that read nothing.
LEMMA QuietTypeOK ==
  TypeOK /\ (HangUp \/ Again \/ Peek \/ Ask \/ Turn \/ TimeOut) => TypeOK'
<1> SUFFICES ASSUME TypeOK, HangUp \/ Again \/ Peek \/ Ask \/ Turn \/ TimeOut
             PROVE  TypeOK'
  OBVIOUS
<1>1. /\ UNCHANGED <<prog, typed, tty, feof, key, report, latest>>
      /\ hungup' \in BOOLEAN
      /\ buffer' = buffer \/ buffer' = <<>>
      /\ pc' \in {"run", "key", "done"}
      /\ waits' \in Nat
  <2>1. waits \in Nat /\ hungup \in BOOLEAN /\ pc \in {"run", "key", "done"}
    BY DEF TypeOK
  <2>2. CASE HangUp
    BY <2>1, <2>2 DEF HangUp
  <2>3. CASE Again
    BY <2>1, <2>3 DEF Again
  <2>4. CASE Peek
    BY <2>1, <2>4 DEF Peek
  <2>5. CASE Ask
    BY <2>1, <2>5 DEF Ask
  <2>6. CASE Turn
    BY <2>1, <2>6 DEF Turn
  <2>7. CASE TimeOut
    BY <2>1, <2>7 DEF TimeOut, Answer
  <2> QED BY <2>2, <2>3, <2>4, <2>5, <2>6, <2>7
<1>2. /\ tty \in Seq(0..255) /\ buffer \in Seq(0..255) /\ <<>> \in Seq(0..255)
      /\ feof \in BOOLEAN /\ key \in KeyState
      /\ report \in Seq(Int) /\ Len(report) <= 3 /\ latest \in 0..8
      /\ report # <<>> => ReadsEvents
      /\ Unbuffered => buffer = <<>>
  BY DEF TypeOK, KeyState
<1> QED BY <1>1, <1>2, ReadTypes, ZenonT(60) DEF Else

\* A button the model of core knows.
LEMMA ButtonTypes ==
  ASSUME NEW k \in Int, NEW l \in 0..8
  PROVE  tomouse_b(k, l).b \in 0..8 /\ tomouse_b(k, l).latest \in 0..8
<1> USE DEF NOTHING, LEFT_BUTTON, RIGHT_BUTTON, D_LEFT_BUTTON, D_RIGHT_BUTTON,
            MIDDLE_BUTTON, SCROLL_UP, SCROLL_DOWN, RELEASE
<1>1. (k - 32) % 4 \in 0..3
  OBVIOUS
<1> QED BY <1>1 DEF tomouse_b, Click

LEMMA Appended ==
  ASSUME NEW s \in Seq(Int), NEW v \in Int, NEW t, t = Append(s, v)
  PROVE  /\ t \in Seq(Int) /\ Len(t) = Len(s) + 1 /\ t[Len(s) + 1] = v
         /\ \A i \in 1..Len(s) : t[i] = s[i]
BY AppendProperties

LEMMA ReadTypeOK ==
  TypeOK /\ (ReadPart \/ MouseBegins \/ MouseButton \/ MouseColumn \/ MouseRow \/ KeyRead
             \/ KeyReturned \/ CheckKey) => TypeOK'
<1> SUFFICES ASSUME TypeOK,
                    ReadPart \/ MouseBegins \/ MouseButton \/ MouseColumn \/ MouseRow \/ KeyRead
                    \/ KeyReturned \/ CheckKey
             PROVE  TypeOK'
  OBVIOUS
<1>0. /\ report \in Seq(Int) /\ Len(report) <= 3 /\ latest \in 0..8 /\ waits \in Nat
      /\ hungup \in BOOLEAN
      /\ report # <<>> => ReadsEvents
      /\ pc \in {"run", "key", "done"}
      /\ <<>> \in Seq(Int) /\ Len(<<>>) <= 3
  BY DEF TypeOK
<1>1. CASE ReadPart
  <2>1. PICK c \in Bytes : Getchar(c) /\ key' = Feed(key, c)
    BY <1>1 DEF ReadPart
  <2>2. key \in KeyState /\ hungup \in BOOLEAN
    BY DEF TypeOK, KeyState
  <2>3. c \in Int
    <3>1. c \in (0..255) \cup {Eof}
      BY <2>1, GetcharTypes
    <3> QED BY <3>1 DEF Eof
  <2>4. key' \in KeyState
    BY <1>1, <2>1, <2>2, <2>3, FeedState, DoneIs DEF ReadPart
  <2>5. UNCHANGED <<prog, pc, typed, hungup, report, latest, waits, out>>
    BY <1>1 DEF ReadPart
  <2> QED BY <1>0, <2>1, <2>4, <2>5, GetcharTypes, ReadTypes DEF Else
<1>2. CASE MouseBegins
  <2>1. ReadKey(Mouse) /\ ReadsEvents /\ report' = <<Mouse>>
        /\ UNCHANGED <<prog, pc, typed, hungup, latest, waits>>
    BY <1>2 DEF MouseBegins
  <2>2. report' \in Seq(Int) /\ Len(report') <= 3
    BY <2>1 DEF Mouse
  <2> QED BY <1>0, <2>1, <2>2, ReadKeyTypes, ReadTypes DEF Else
<1>3. CASE MouseButton
  <2>1. PICK k \in Keys : /\ ReadKey(k)
                          /\ report' = Append(report, tomouse_b(k, latest).b)
                          /\ latest' = tomouse_b(k, latest).latest
    BY <1>3 DEF MouseButton
  <2>2. Len(report) = 1 /\ UNCHANGED <<prog, pc, typed, hungup, waits>>
    BY <1>3 DEF MouseButton
  <2>3. k \in Int
    BY <2>1, ReadKeyTypes
  <2>4. tomouse_b(k, latest).b \in 0..8 /\ latest' \in 0..8
    BY <1>0, <2>1, <2>3, ButtonTypes
  <2>5. report' \in Seq(Int) /\ Len(report') = 2
    <3>1. tomouse_b(k, latest).b \in Int /\ report \in Seq(Int) /\ Len(report) = 1
      BY <1>0, <2>2, <2>4
    <3>2. PICK v : v = tomouse_b(k, latest).b
      OBVIOUS
    <3>3. report' = Append(report, v) /\ v \in Int
      BY <2>1, <3>1, <3>2
    <3>4. report' \in Seq(Int) /\ Len(report') = Len(report) + 1
      BY <3>1, <3>3, Appended
    <3> QED BY <3>1, <3>4
  <2>6. ReadsEvents
    <3>1. report # <<>>
      BY <2>2
    <3> QED BY <1>0, <3>1
  <2> QED BY <1>0, <2>1, <2>2, <2>4, <2>5, <2>6, ReadKeyTypes, ReadTypes DEF Else
<1>4. CASE MouseColumn
  <2>1. PICK k \in Keys : ReadKey(k) /\ report' = Append(report, k - 33)
    BY <1>4 DEF MouseColumn
  <2>2. Len(report) = 2 /\ UNCHANGED <<prog, pc, typed, hungup, latest, waits>>
    BY <1>4 DEF MouseColumn
  <2>3. k - 33 \in Int
    BY <2>1, ReadKeyTypes
  <2>5. report' \in Seq(Int) /\ Len(report') = 3
    <3>1. k - 33 \in Int /\ report \in Seq(Int) /\ Len(report) = 2
      BY <1>0, <2>2, <2>3
    <3>2. PICK v : v = k - 33
      OBVIOUS
    <3>3. report' = Append(report, v) /\ v \in Int
      BY <2>1, <2>3, <3>2
    <3>4. report' \in Seq(Int) /\ Len(report') = Len(report) + 1
      BY <3>1, <3>3, Appended
    <3> QED BY <3>1, <3>4
  <2>6. ReadsEvents
    <3>1. report # <<>>
      BY <2>2
    <3> QED BY <1>0, <3>1
  <2> QED BY <1>0, <2>1, <2>2, <2>5, <2>6, ReadKeyTypes, ReadTypes DEF Else
<1>5. CASE MouseRow \/ KeyRead \/ KeyReturned \/ CheckKey
  <2>1. \E k : ReadKey(k)
    BY <1>5 DEF MouseRow, KeyRead, KeyReturned, CheckKey
  <2>2. /\ UNCHANGED <<prog, typed, hungup, latest, waits>>
        /\ report' = <<>> \/ report' = report
        /\ pc' \in {"run", "key", "done"}
    <3>1. CASE MouseRow
      BY <3>1 DEF MouseRow, Reported
    <3>2. CASE KeyRead
      BY <3>2 DEF KeyRead, Reported
    <3>3. CASE KeyReturned
      BY <3>3 DEF KeyReturned, Reported
    <3>4. CASE CheckKey
      BY <3>4 DEF CheckKey, Answer
    <3> QED BY <1>5, <3>1, <3>2, <3>3, <3>4
  <2> QED BY <1>0, <2>1, <2>2, ReadKeyTypes, ReadTypes, ZenonT(60) DEF Else
<1> QED BY <1>1, <1>2, <1>3, <1>4, <1>5

LEMMA NextTypeOK == TypeOK /\ [Next]_vars => TypeOK'
<1>1. TypeOK /\ UNCHANGED vars => TypeOK'
  BY DEF TypeOK, vars, Unbuffered, ReadsEvents, Timed, Is
<1> QED BY <1>1, TypeTypeOK, QuietTypeOK, ReadTypeOK DEF Next, Program

\* The variables have their types, and stdio keeps no byte that kbhit would not
\* see, for any options, keys and uses of the mouse.
THEOREM InputTyped == Spec => []TypeOK
BY InitTypeOK, NextTypeOK, PTL DEF Spec

-----------------------------------------------------------------------------
(* The recursive functions of the module, unrolled.                        *)

SentFacts ==
  /\ SentUpTo \in [0..Len(typed) -> Seq(0..255)]
  /\ SentUpTo[0] = <<>>
  /\ \A i \in 1..Len(typed) : SentUpTo[i] = SentUpTo[i - 1] \o Sent(typed[i])

LEMMA TypedEvents ==
  ASSUME TypeOK, NEW i \in 1..Len(typed)
  PROVE  /\ typed[i] \in prog.events /\ IsEvent(typed[i])
         /\ typed[i].kind = "key" => IsKey(typed[i])
<1>1. typed \in Seq(prog.events)
  BY DEF TypeOK
<1>2. typed[i] \in prog.events
  BY <1>1
<1> QED BY <1>2, ProgramIs

LEMMA SentIs == TypeOK => SentFacts
<1> SUFFICES ASSUME TypeOK PROVE SentFacts
  OBVIOUS
<1> DEFINE n == Len(typed)
           V == Seq(0..255)
           step == [i \in 1..n |-> [s \in V |-> s \o Sent(typed[i])]]
           Longer(h, i) == IF i = 0 THEN <<>> ELSE h \o Sent(typed[i])
<1>1. n \in Nat
  BY DEF TypeOK
<1>2. \A i \in 1..n : Sent(typed[i]) \in V
  BY TypedEvents, SentBytes
<1>3. step \in [1..n -> [V -> V]] /\ <<>> \in V
  BY <1>2
<1>4. PICK f : f \in [0..n -> V] /\ f[0] = <<>> /\ \A i \in 1..n : f[i] = step[i][f[i - 1]]
  <2> HIDE DEF n, V, step
  <2>1. \E f : Solves(f, n, V, <<>>, step)
    BY <1>1, <1>3, Recursion DEF Steps
  <2> QED BY <2>1 DEF Solves
<1>5. \A i \in 1..n : f[i] = f[i - 1] \o Sent(typed[i])
  <2> SUFFICES ASSUME NEW i \in 1..n PROVE f[i] = f[i - 1] \o Sent(typed[i])
    OBVIOUS
  <2>1. f[i - 1] \in V /\ f[i] = step[i][f[i - 1]]
    <3> HIDE DEF n, V, step
    <3> QED BY <1>1, <1>4
  <2> QED BY <2>1
<1>6. f = [i \in 0..n |-> Longer(f[i - 1], i)]
  <2> HIDE DEF n, V, step
  <2>1. ASSUME NEW i \in 0..n PROVE f[i] = Longer(f[i - 1], i)
    <3>1. CASE i = 0
      BY <1>4, <3>1
    <3>2. CASE i # 0
      <4>1. i \in 1..n
        BY <1>1, <3>2
      <4>2. f[i] = f[i - 1] \o Sent(typed[i])
        BY <1>5, <4>1
      <4> QED BY <3>2, <4>2
    <3> QED BY <3>1, <3>2
  <2> HIDE DEF Longer
  <2> QED BY <1>4, <2>1
<1>7. SentUpTo = [i \in 0..n |-> Longer(SentUpTo[i - 1], i)]
  <2> HIDE DEF V, step
  <2> QED BY <1>6, Zenon DEF SentUpTo
<1>8. Solves(SentUpTo, n, V, <<>>, step)
  <2>1. SentUpTo[0] = <<>> /\ SentUpTo = [i \in 0..n |-> SentUpTo[i]]
    <3> HIDE DEF V, step, n
    <3> QED BY <1>1, <1>7
  <2>2. ASSUME NEW i \in 1..n, SentUpTo[i - 1] \in V
        PROVE  SentUpTo[i] = step[i][SentUpTo[i - 1]]
    <3>1. SentUpTo[i] = SentUpTo[i - 1] \o Sent(typed[i])
      <4> HIDE DEF V, step, n
      <4> QED BY <1>1, <1>7
    <3> QED BY <2>2, <3>1
  <2> HIDE DEF V, step, n
  <2> QED BY <1>1, <1>3, <2>1, <2>2, Recursive DEF Steps
<1>9. \A i \in 1..n : SentUpTo[i] = SentUpTo[i - 1] \o Sent(typed[i])
  <2> HIDE DEF V, step, n
  <2> QED BY <1>1, <1>7
<1> QED BY <1>8, <1>9 DEF Solves, SentFacts

FedFacts(f, bytes, n) ==
  f = [m \in 0..n |-> IF m = 0 THEN Awaiting("first") ELSE Feed(f[m - 1], bytes[m])]

LEMMA FedIs ==
  ASSUME NEW bytes, Len(bytes) \in Nat
  PROVE  /\ Fed(bytes)[0] = Awaiting("first")
         /\ \A m \in 1..Len(bytes) : Fed(bytes)[m] = Feed(Fed(bytes)[m - 1], bytes[m])
<1> DEFINE n == Len(bytes)
           S == {m \in 0..n : \E f : FedFacts(f, bytes, m)}
           fed[m \in 0..n] == IF m = 0 THEN Awaiting("first") ELSE Feed(fed[m - 1], bytes[m])
<1>1. 0 \in S
  <2>1. FedFacts([m \in 0..0 |-> Awaiting("first")], bytes, 0)
    BY DEF FedFacts
  <2> QED BY <2>1
<1>2. ASSUME NEW m \in 1..n, m - 1 \in S PROVE m \in S
  <2>1. PICK f : FedFacts(f, bytes, m - 1)
    BY <1>2
  <2> DEFINE g == [i \in 0..m |-> IF i = m THEN Feed(f[m - 1], bytes[m]) ELSE f[i]]
  <2>2. ASSUME NEW i \in 0..m
        PROVE  g[i] = IF i = 0 THEN Awaiting("first") ELSE Feed(g[i - 1], bytes[i])
    <3>1. CASE i = m
      <4>1. g[i - 1] = f[m - 1] /\ i # 0
        BY <3>1
      <4> QED BY <3>1, <4>1
    <3>2. CASE i # m
      <4>1. i \in 0..(m - 1)
        BY <3>2
      <4>2. f[i] = IF i = 0 THEN Awaiting("first") ELSE Feed(f[i - 1], bytes[i])
        BY <2>1, <4>1 DEF FedFacts
      <4>3. i # 0 => g[i - 1] = f[i - 1]
        BY <3>2
      <4> QED BY <3>2, <4>2, <4>3
    <3> QED BY <3>1, <3>2
  <2>3. FedFacts(g, bytes, m)
    <3> HIDE DEF g
    <3>1. g = [i \in 0..m |-> g[i]]
      BY DEF g
    <3> QED BY <2>2, <3>1 DEF FedFacts
  <2> QED BY <2>3
<1>3. PICK f : FedFacts(f, bytes, n)
  <2>1. \A m \in 0..n : m \in S
    <3> HIDE DEF S
    <3> QED BY <1>1, <1>2, UpTo
  <2> QED BY <2>1
<1>4. FedFacts(fed, bytes, n)
  BY <1>3, Zenon DEF FedFacts
<1>5. Fed(bytes) = fed
  BY Zenon DEF Fed
<1> HIDE DEF fed
<1> QED BY <1>4, <1>5 DEF FedFacts

MeaningFacts ==
  /\ Meanings \in [0..Len(typed) -> Seq({ReportOf(i) : i \in 1..Len(typed)})]
  /\ Meanings[0] = <<>>
  /\ \A i \in 1..Len(typed) :
       Meanings[i] = IF typed[i].kind = "mouse" \/ prog.keyboard
                     THEN Append(Meanings[i - 1], ReportOf(i)) ELSE Meanings[i - 1]

LEMMA MeaningsAre == TypeOK => MeaningFacts
<1> SUFFICES ASSUME TypeOK PROVE MeaningFacts
  OBVIOUS
<1> DEFINE n == Len(typed)
           R == {ReportOf(i) : i \in 1..n}
           V == Seq(R)
           Counts(i) == typed[i].kind = "mouse" \/ prog.keyboard
           step == [i \in 1..n |-> [s \in V |-> IF Counts(i) THEN Append(s, ReportOf(i)) ELSE s]]
           Longer(h, i) == IF i = 0 THEN <<>>
                           ELSE IF typed[i].kind = "mouse" \/ prog.keyboard
                           THEN Append(h, ReportOf(i)) ELSE h
<1>1. n \in Nat
  BY DEF TypeOK
<1>2. \A i \in 1..n : ReportOf(i) \in R
  OBVIOUS
<1> HIDE DEF n, R
<1>3. step \in [1..n -> [V -> V]] /\ <<>> \in V
  BY <1>2
<1>4. PICK f : f \in [0..n -> V] /\ f[0] = <<>> /\ \A i \in 1..n : f[i] = step[i][f[i - 1]]
  <2> HIDE DEF V, step
  <2>1. \E f : Solves(f, n, V, <<>>, step)
    BY <1>1, <1>3, Recursion DEF Steps
  <2> QED BY <2>1 DEF Solves
<1>5. \A i \in 1..n : f[i] = IF Counts(i) THEN Append(f[i - 1], ReportOf(i)) ELSE f[i - 1]
  <2> SUFFICES ASSUME NEW i \in 1..n
               PROVE  f[i] = IF Counts(i) THEN Append(f[i - 1], ReportOf(i)) ELSE f[i - 1]
    OBVIOUS
  <2>1. f[i - 1] \in V /\ f[i] = step[i][f[i - 1]]
    <3> HIDE DEF V, step
    <3> QED BY <1>1, <1>4
  <2> QED BY <2>1
<1>6. f = [i \in 0..n |-> Longer(f[i - 1], i)]
  <2> HIDE DEF V, step
  <2>1. ASSUME NEW i \in 0..n PROVE f[i] = Longer(f[i - 1], i)
    <3>1. CASE i = 0
      BY <1>4, <3>1
    <3>2. CASE i # 0
      <4>1. i \in 1..n
        BY <1>1, <3>2
      <4>2. f[i] = IF Counts(i) THEN Append(f[i - 1], ReportOf(i)) ELSE f[i - 1]
        BY <1>5, <4>1
      <4> QED BY <3>2, <4>2
    <3> QED BY <3>1, <3>2
  <2> HIDE DEF Longer
  <2> QED BY <1>4, <2>1
<1>7. Meanings = [i \in 0..n |-> Longer(Meanings[i - 1], i)]
  <2> HIDE DEF V, step
  <2> QED BY <1>6, Zenon DEF Meanings, n
<1>8. \A i \in 1..n : Meanings[i] = IF Counts(i) THEN Append(Meanings[i - 1], ReportOf(i))
                                    ELSE Meanings[i - 1]
  <2> SUFFICES ASSUME NEW i \in 1..n
               PROVE  Meanings[i] = IF Counts(i) THEN Append(Meanings[i - 1], ReportOf(i))
                                    ELSE Meanings[i - 1]
    OBVIOUS
  <2>1. Meanings[i] = Longer(Meanings[i - 1], i)
    <3> HIDE DEF V, step, Longer
    <3> QED BY <1>1, <1>7
  <2> QED BY <1>1, <2>1
<1>9. Solves(Meanings, n, V, <<>>, step)
  <2>1. Meanings[0] = <<>> /\ Meanings = [i \in 0..n |-> Meanings[i]]
    <3> HIDE DEF V, step
    <3> QED BY <1>1, <1>7
  <2>2. ASSUME NEW i \in 1..n, Meanings[i - 1] \in V
        PROVE  Meanings[i] = step[i][Meanings[i - 1]]
    BY <1>8, <2>2
  <2> HIDE DEF V, step
  <2> QED BY <1>1, <1>3, <2>1, <2>2, Recursive DEF Steps
<1>10. Meanings \in [0..n -> V]
  <2> HIDE DEF V, step
  <2> QED BY <1>1, <1>9 DEF Solves
<1> QED BY <1>8, <1>9, <1>10 DEF Solves, MeaningFacts, n, R

Said == [type : {"m"}, x : Int, y : Int, b : Int] \cup [type : {"k"}, code : Int]

\* choice alone reports a number.
OutOK == ~Is("choice") => out \in Seq(Said)

ToldFacts ==
  /\ Told \in [0..Len(out) -> Seq(Said)]
  /\ Told[0] = <<>>
  /\ \A i \in 1..Len(out) :
       Told[i] = IF out[i] = NoKey THEN Told[i - 1] ELSE Append(Told[i - 1], out[i])

LEMMA ToldIs == out \in Seq(Said) => ToldFacts
<1> SUFFICES ASSUME out \in Seq(Said) PROVE ToldFacts
  OBVIOUS
<1> DEFINE n == Len(out)
           V == Seq(Said)
           step == [i \in 1..n |-> [s \in V |-> IF out[i] = NoKey THEN s ELSE Append(s, out[i])]]
           Longer(h, i) == IF i = 0 THEN <<>>
                           ELSE IF out[i] = NoKey THEN h ELSE Append(h, out[i])
<1>1. n \in Nat
  OBVIOUS
<1>2. \A i \in 1..n : out[i] \in Said
  OBVIOUS
<1> HIDE DEF n
<1>3. step \in [1..n -> [V -> V]] /\ <<>> \in V
  BY <1>2
<1>4. PICK f : f \in [0..n -> V] /\ f[0] = <<>> /\ \A i \in 1..n : f[i] = step[i][f[i - 1]]
  <2> HIDE DEF V, step
  <2>1. \E f : Solves(f, n, V, <<>>, step)
    BY <1>1, <1>3, Recursion DEF Steps
  <2> QED BY <2>1 DEF Solves
<1>5. \A i \in 1..n : f[i] = IF out[i] = NoKey THEN f[i - 1] ELSE Append(f[i - 1], out[i])
  <2> SUFFICES ASSUME NEW i \in 1..n
               PROVE  f[i] = IF out[i] = NoKey THEN f[i - 1] ELSE Append(f[i - 1], out[i])
    OBVIOUS
  <2>1. f[i - 1] \in V /\ f[i] = step[i][f[i - 1]]
    <3> HIDE DEF V, step
    <3> QED BY <1>1, <1>4
  <2> QED BY <2>1
<1>6. f = [i \in 0..n |-> Longer(f[i - 1], i)]
  <2> HIDE DEF V, step
  <2>1. ASSUME NEW i \in 0..n PROVE f[i] = Longer(f[i - 1], i)
    <3>1. CASE i = 0
      BY <1>4, <3>1
    <3>2. CASE i # 0
      <4>1. i \in 1..n
        BY <1>1, <3>2
      <4>2. f[i] = IF out[i] = NoKey THEN f[i - 1] ELSE Append(f[i - 1], out[i])
        BY <1>5, <4>1
      <4> QED BY <3>2, <4>2
    <3> QED BY <3>1, <3>2
  <2> HIDE DEF Longer
  <2> QED BY <1>4, <2>1
<1>7. Told = [i \in 0..n |-> Longer(Told[i - 1], i)]
  <2> HIDE DEF V, step
  <2> QED BY <1>6, Zenon DEF Told, n
<1>8. \A i \in 1..n : Told[i] = IF out[i] = NoKey THEN Told[i - 1] ELSE Append(Told[i - 1], out[i])
  <2> SUFFICES ASSUME NEW i \in 1..n
               PROVE  Told[i] = IF out[i] = NoKey THEN Told[i - 1] ELSE Append(Told[i - 1], out[i])
    OBVIOUS
  <2>1. Told[i] = Longer(Told[i - 1], i)
    <3> HIDE DEF V, step, Longer
    <3> QED BY <1>1, <1>7
  <2> QED BY <1>1, <2>1
<1>9. Solves(Told, n, V, <<>>, step)
  <2>1. Told[0] = <<>> /\ Told = [i \in 0..n |-> Told[i]]
    <3> HIDE DEF V, step
    <3> QED BY <1>1, <1>7
  <2>2. ASSUME NEW i \in 1..n, Told[i - 1] \in V
        PROVE  Told[i] = step[i][Told[i - 1]]
    BY <1>8, <2>2
  <2> HIDE DEF V, step
  <2> QED BY <1>1, <1>3, <2>1, <2>2, Recursive DEF Steps
<1>10. Told \in [0..n -> V]
  <2> HIDE DEF V, step
  <2> QED BY <1>1, <1>9 DEF Solves
<1> QED BY <1>8, <1>9, <1>10 DEF Solves, ToldFacts, n

-----------------------------------------------------------------------------
(* The bytes of the events, one after the other.                           *)

Lengths == \A i \in 0..Len(typed) : SentUpTo[i] \in Seq(0..255) /\ Len(SentUpTo[i]) \in Nat

PrefixFacts ==
  \A j \in 0..Len(typed) : \A i \in 0..j :
    /\ Len(SentUpTo[i]) <= Len(SentUpTo[j])
    /\ i < j => Len(SentUpTo[i]) < Len(SentUpTo[j])
    /\ \A k \in 1..Len(SentUpTo[i]) : SentUpTo[j][k] = SentUpTo[i][k]

LEMMA SentLengths == TypeOK => Lengths
<1> SUFFICES ASSUME TypeOK PROVE Lengths
  OBVIOUS
<1>1. SentUpTo \in [0..Len(typed) -> Seq(0..255)]
  BY SentIs DEF SentFacts
<1> QED BY <1>1 DEF Lengths

\* Two sequences, one after the other.
LEMMA Joined ==
  ASSUME NEW a \in Seq(0..255), NEW b \in Seq(0..255), NEW c, c = a \o b
  PROVE  /\ c \in Seq(0..255) /\ Len(c) = Len(a) + Len(b)
         /\ \A k \in 1..Len(a) : c[k] = a[k]
         /\ \A m \in 1..Len(b) : c[Len(a) + m] = b[m]
<1>1. Len(a) \in Nat /\ Len(b) \in Nat
  OBVIOUS
<1>2. /\ a \o b \in Seq(0..255) /\ Len(a \o b) = Len(a) + Len(b)
      /\ \A k \in 1..(Len(a) + Len(b)) :
           (a \o b)[k] = IF k <= Len(a) THEN a[k] ELSE b[k - Len(a)]
  BY ConcatProperties
<1>3. ASSUME NEW m \in 1..Len(b) PROVE c[Len(a) + m] = b[m]
  <2>1. Len(a) + m \in 1..(Len(a) + Len(b)) /\ ~(Len(a) + m <= Len(a)) /\ Len(a) + m - Len(a) = m
    BY <1>1
  <2> QED BY <1>2, <2>1
<1>4. ASSUME NEW k \in 1..Len(a) PROVE c[k] = a[k]
  BY <1>1, <1>2
<1> QED BY <1>2, <1>3, <1>4

\* An event's bytes follow those of the ones before it.
SentAfter(i) ==
  /\ Len(SentUpTo[i - 1]) \in Nat /\ Len(SentUpTo[i]) \in Nat /\ Len(Sent(typed[i])) \in Nat
  /\ Len(SentUpTo[i]) = Len(SentUpTo[i - 1]) + Len(Sent(typed[i]))
  /\ Len(SentUpTo[i - 1]) < Len(SentUpTo[i])
  /\ \A k \in 1..Len(SentUpTo[i - 1]) : SentUpTo[i][k] = SentUpTo[i - 1][k]
  /\ \A m \in 1..Len(Sent(typed[i])) :
       /\ Len(SentUpTo[i - 1]) + m \in 1..Len(SentUpTo[i])
       /\ SentUpTo[i][Len(SentUpTo[i - 1]) + m] = Sent(typed[i])[m]

LEMMA SentJoined ==
  ASSUME TypeOK, NEW i \in 1..Len(typed)
  PROVE  SentAfter(i)
<1>1. i - 1 \in 0..Len(typed) /\ i \in 0..Len(typed)
  BY DEF TypeOK
<1>2. PICK a, b, c : a = SentUpTo[i - 1] /\ b = Sent(typed[i]) /\ c = SentUpTo[i]
  OBVIOUS
<1>3. a \in Seq(0..255) /\ Len(a) \in Nat /\ Len(c) \in Nat
  BY <1>1, <1>2, SentLengths DEF Lengths
<1>4. b \in Seq(0..255) /\ Len(b) \in Nat /\ Len(b) > 0
  BY <1>2, TypedEvents, SentBytes
<1>5. c = a \o b
  BY <1>2, SentIs DEF SentFacts
<1>6. /\ Len(c) = Len(a) + Len(b)
      /\ \A k \in 1..Len(a) : c[k] = a[k]
      /\ \A m \in 1..Len(b) : c[Len(a) + m] = b[m]
  BY <1>3, <1>4, <1>5, Joined
<1>7. Len(a) < Len(c) /\ \A m \in 1..Len(b) : Len(a) + m \in 1..Len(c)
  BY <1>3, <1>4, <1>6
<1> QED BY <1>2, <1>3, <1>4, <1>6, <1>7, Zenon DEF SentAfter

LEMMA SentPrefixes == TypeOK => PrefixFacts
<1> SUFFICES ASSUME TypeOK PROVE PrefixFacts
  OBVIOUS
<1> DEFINE n == Len(typed)
           P(i, j) == /\ Len(SentUpTo[i]) <= Len(SentUpTo[j])
                      /\ i < j => Len(SentUpTo[i]) < Len(SentUpTo[j])
                      /\ \A k \in 1..Len(SentUpTo[i]) : SentUpTo[j][k] = SentUpTo[i][k]
           S == {j \in 0..n : \A i \in 0..j : P(i, j)}
<1>1. n \in Nat /\ \A i \in 0..n : SentUpTo[i] \in Seq(0..255) /\ Len(SentUpTo[i]) \in Nat
  BY SentLengths DEF Lengths, TypeOK
<1>2. 0 \in S
  BY <1>1
<1>3. ASSUME NEW j \in 1..n, j - 1 \in S PROVE j \in S
  <2>1. SentAfter(j)
    BY SentJoined
  <2>2. Len(SentUpTo[j - 1]) \in Nat /\ Len(SentUpTo[j]) \in Nat
        /\ Len(SentUpTo[j - 1]) < Len(SentUpTo[j])
        /\ \A k \in 1..Len(SentUpTo[j - 1]) : SentUpTo[j][k] = SentUpTo[j - 1][k]
    BY <2>1, Zenon DEF SentAfter
  <2>4. ASSUME NEW i \in 0..(j - 1) PROVE P(i, j)
    <3>1. P(i, j - 1)
      BY <1>3
    <3>2. i \in 0..n /\ i < j /\ Len(SentUpTo[i]) \in Nat /\ Len(SentUpTo[j]) \in Nat
      BY <1>1
    <3>3. Len(SentUpTo[i]) < Len(SentUpTo[j])
      BY <2>2, <3>1, <3>2
    <3>4. ASSUME NEW k \in 1..Len(SentUpTo[i]) PROVE SentUpTo[j][k] = SentUpTo[i][k]
      <4>1. k \in 1..Len(SentUpTo[j - 1])
        BY <2>2, <3>1, <3>2
      <4> QED BY <2>2, <3>1, <4>1
    <3> QED BY <3>2, <3>3, <3>4
  <2>5. P(j, j)
    BY <1>1
  <2> HIDE DEF P
  <2>6. \A i \in 0..j : P(i, j)
    BY <2>4, <2>5
  <2> QED BY <2>6
<1>4. \A j \in 0..n : j \in S
  <2> HIDE DEF S
  <2> QED BY <1>1, <1>2, <1>3, UpTo
<1>5. \A j \in 0..n : \A i \in 0..j : P(i, j)
  BY <1>4
<1> QED BY <1>5 DEF PrefixFacts

\* Byte m of event i, in the stream.
Bytewise ==
  \A i \in 1..Len(typed) : \A m \in 1..Len(Sent(typed[i])) :
    /\ Len(SentUpTo[i - 1]) + m <= Len(SentUpTo[Len(typed)])
    /\ SentUpTo[Len(typed)][Len(SentUpTo[i - 1]) + m] = Sent(typed[i])[m]

LEMMA SentBytewise == TypeOK => Bytewise
<1> SUFFICES ASSUME TypeOK, NEW i \in 1..Len(typed), NEW m \in 1..Len(Sent(typed[i]))
             PROVE  /\ Len(SentUpTo[i - 1]) + m <= Len(SentUpTo[Len(typed)])
                    /\ SentUpTo[Len(typed)][Len(SentUpTo[i - 1]) + m] = Sent(typed[i])[m]
  BY DEF Bytewise
<1> DEFINE n == Len(typed)
<1>1. n \in Nat /\ i \in 0..n /\ i - 1 \in 0..n /\ n \in 0..n /\ i \in 0..n
  BY DEF TypeOK
<1>2. Len(SentUpTo[i]) \in Nat /\ Len(SentUpTo[n]) \in Nat
  BY <1>1, SentLengths DEF Lengths
<1>4. /\ Len(SentUpTo[i - 1]) + m \in 1..Len(SentUpTo[i])
      /\ SentUpTo[i][Len(SentUpTo[i - 1]) + m] = Sent(typed[i])[m]
  BY SentJoined DEF SentAfter
<1>5. /\ Len(SentUpTo[i]) <= Len(SentUpTo[n])
      /\ \A k \in 1..Len(SentUpTo[i]) : SentUpTo[n][k] = SentUpTo[i][k]
  <2>1. i \in 0..n /\ n \in 0..n
    BY <1>1
  <2> QED BY <2>1, SentPrefixes DEF PrefixFacts
<1>6. SentUpTo[n][Len(SentUpTo[i - 1]) + m] = Sent(typed[i])[m]
  BY <1>4, <1>5
<1>7. Len(SentUpTo[i - 1]) + m <= Len(SentUpTo[n])
  <2>1. PICK p, q, l : p = Len(SentUpTo[i - 1]) + m /\ q = Len(SentUpTo[i]) /\ l = Len(SentUpTo[n])
    OBVIOUS
  <2>2. p \in 1..q /\ q \in Nat /\ l \in Nat /\ q <= l
    BY <1>2, <1>4, <1>5, <2>1
  <2>3. p <= l
    BY <2>2
  <2> QED BY <2>1, <2>3
<1> QED BY <1>6, <1>7

\* A step types one more event, or none.
Grown == /\ Len(typed) <= Len(typed')
         /\ \A i \in 1..Len(typed) : typed'[i] = typed[i]

LEMMA SentKept ==
  ASSUME TypeOK, TypeOK', Grown
  PROVE  \A i \in 0..Len(typed) : SentUpTo'[i] = SentUpTo[i]
<1> DEFINE n == Len(typed)
           S == {i \in 0..n : SentUpTo'[i] = SentUpTo[i]}
<1>1. n \in Nat /\ Len(typed') \in Nat /\ n <= Len(typed')
  BY DEF TypeOK, Grown
<1>2. SentFacts /\ SentFacts'
  BY SentIs, PTL
<1>3. 0 \in S
  BY <1>1, <1>2 DEF SentFacts
<1>4. ASSUME NEW i \in 1..n, i - 1 \in S PROVE i \in S
  <2>1. i \in 1..Len(typed')
    BY <1>1
  <2>2. SentUpTo'[i] = SentUpTo'[i - 1] \o Sent(typed'[i])
    BY <1>2, <2>1 DEF SentFacts
  <2>3. SentUpTo[i] = SentUpTo[i - 1] \o Sent(typed[i])
    BY <1>2 DEF SentFacts
  <2>4. typed'[i] = typed[i]
    BY DEF Grown
  <2>5. SentUpTo'[i - 1] = SentUpTo[i - 1] /\ i \in 0..n
    BY <1>1, <1>4
  <2>6. SentUpTo'[i] = SentUpTo[i]
    BY <2>2, <2>3, <2>4, <2>5
  <2> QED BY <2>5, <2>6
<1>5. \A i \in 0..n : i \in S
  <2> HIDE DEF S
  <2> QED BY <1>1, <1>3, <1>4, UpTo
<1> QED BY <1>5

-----------------------------------------------------------------------------
(* The bytes of one event, as core_getkey reads them.                      *)

\* The codes of the tables: none is a character, nor 0 as an exit status.
SpecialCode == {Unknown, Mouse} \cup (314..389)

LEMMA LookupSpecial ==
  ASSUME NEW c
  PROVE  Lookup(entries, c) \in SpecialCode /\ Lookup(spec_entries, c) \in SpecialCode
<1>1. \A e \in entries : e[2] \in SpecialCode
  BY DEF entries, SpecialCode
<1>2. \A e \in spec_entries : e[2] \in SpecialCode
  BY DEF spec_entries, SpecialCode
<1> QED BY <1>1, <1>2 DEF Lookup, SpecialCode

\* In a sequence core_getkey comes to no plain character.
LEMMA FeedWithin ==
  ASSUME NEW k \in KeyState, NEW c \in Int, k.at \notin {"first", "raw"}
  PROVE  /\ Feed(k, c).at \notin {"first", "raw"}
         /\ \A code : Feed(k, c) = Done(code) => code \in SpecialCode
<1>1. k.at \in {"esc", "alt", "params"}
  BY DEF KeyState
<1>2. \A at \in {"alt", "params"} : /\ [k EXCEPT !.at = at].at = at
                                   /\ \A code : [k EXCEPT !.at = at] # Done(code)
  BY DoneIs DEF KeyState
<1>3. /\ InParams(k, c).at \notin {"first", "raw"}
      /\ \A code : InParams(k, c) = Done(code) => code \in SpecialCode
  <2>1. CASE IsSpec(c) \/ IsAlpha(c)
    <3>1. \/ InParams(k, c) = Done(Lookup(spec_entries, k.param))
          \/ InParams(k, c) = Done(Lookup(entries, c))
      BY <2>1 DEF InParams
    <3>2. PICK code : InParams(k, c) = Done(code) /\ code \in SpecialCode
      BY <3>1, LookupSpecial
    <3> QED BY <3>2, DoneIs
  <2>2. CASE ~IsSpec(c) /\ ~IsAlpha(c)
    <3>1. InParams(k, c).at = "params"
      BY <2>2 DEF InParams, KeyState
    <3> QED BY <3>1, DoneIs
  <2> QED BY <2>1, <2>2
<1> QED BY <1>1, <1>2, <1>3 DEF Feed, Introduced

LEMMA FirstByte ==
  ASSUME NEW c \in Int
  PROVE  /\ Feed(Awaiting("first"), c).at \notin {"first", "raw"}
         /\ c # Esc => Feed(Awaiting("first"), c) = Done(c)
         /\ c = Esc => Feed(Awaiting("first"), c) = [Awaiting("first") EXCEPT !.at = "esc"]
         /\ Feed(Awaiting("raw"), c) = Done(c)
<1>1. Awaiting("first").at = "first" /\ Awaiting("raw").at = "raw"
  BY DEF Awaiting
<1>2. [Awaiting("first") EXCEPT !.at = "esc"].at = "esc"
  BY DEF Awaiting
<1> QED BY <1>1, <1>2, DoneIs DEF Feed

LEMMA ByteInt ==
  ASSUME NEW s \in Seq(0..255), NEW i \in 1..Len(s)
  PROVE  s[i] \in 0..255 /\ s[i] \in Int
<1>1. s[i] \in 0..255
  <2> DEFINE B == 0..255
  <2>1. s \in Seq(B)
    OBVIOUS
  <2> HIDE DEF B
  <2>2. s[i] \in B
    BY <2>1, ElementOfSeq
  <2> QED BY <2>2 DEF B
<1>2. \A x \in 0..255 : x \in Int
  OBVIOUS
<1> QED BY <1>1, <1>2, Zenon

\* The states on the way through a key's sequence.
LEMMA KeyStates ==
  ASSUME NEW e, IsEvent(e), IsKey(e), NEW m \in 0..(Len(e.bytes) - 1)
  PROVE  /\ Len(e.bytes) \in Nat \ {0}
         /\ Fed(e.bytes)[m] \in KeyState
         /\ m > 0 => Fed(e.bytes)[m].at \notin {"first", "raw"}
<1> DEFINE n == Len(e.bytes)
           S == {i \in 0..(n - 1) : /\ Fed(e.bytes)[i] \in KeyState
                                    /\ i > 0 => Fed(e.bytes)[i].at \notin {"first", "raw"}}
<1>1. e.bytes \in Seq(0..255) /\ n \in Nat /\ n # 0
  <2>1. e.bytes \in Seq(0..255) /\ e.bytes # <<>>
    BY DEF IsEvent, IsKey, IsMouse
  <2> QED BY <2>1
<1>2. 0 \in S
  <2>1. Fed(e.bytes)[0] \in KeyState
    BY <1>1, FedIs, AwaitingState
  <2> QED BY <1>1, <2>1
<1>3. ASSUME NEW i \in 1..(n - 1), i - 1 \in S PROVE i \in S
  <2>0. i \in 1..n /\ i \in 0..(n - 1)
    <3> HIDE DEF n
    <3> QED BY <1>1
  <2>1. i \in 1..n /\ i \in 0..(n - 1) /\ e.bytes[i] \in Int
    BY <1>1, <2>0, ByteInt
  <2>2. Fed(e.bytes)[i] = Feed(Fed(e.bytes)[i - 1], e.bytes[i])
    BY <1>1, <2>1, FedIs
  <2>3. Fed(e.bytes)[i] \in KeyState
    <3>1. Fed(e.bytes)[i].at # "done"
      BY <2>1 DEF IsKey
    <3> QED BY <1>3, <2>1, <2>2, <3>1, FeedState, DoneIs
  <2>4. Fed(e.bytes)[i].at \notin {"first", "raw"}
    <3>1. CASE i - 1 = 0
      <4>1. Fed(e.bytes)[i - 1] = Awaiting("first")
        BY <1>1, <3>1, FedIs
      <4> QED BY <2>1, <2>2, <4>1, FirstByte
    <3>2. CASE i - 1 > 0
      BY <1>3, <2>1, <2>2, <3>2, FeedWithin
    <3> QED BY <3>1, <3>2
  <2> QED BY <2>1, <2>3, <2>4
<1>4. \A i \in 0..(n - 1) : i \in S
  <2>1. n - 1 \in Nat
    BY <1>1
  <2> HIDE DEF S, n
  <2> QED BY <2>1, <1>2, <1>3, UpTo
<1> QED BY <1>1, <1>4

\* A key is one byte, its code, or has a code of the tables.
LEMMA KeyCode ==
  ASSUME NEW e, IsEvent(e), IsKey(e)
  PROVE  \/ e.code \in SpecialCode
         \/ Len(e.bytes) = 1 /\ e.bytes[1] = e.code /\ e.code \in 1..255
<1> SUFFICES ASSUME e.code \notin SpecialCode
             PROVE  Len(e.bytes) = 1 /\ e.bytes[1] = e.code /\ e.code \in 1..255
  OBVIOUS
<1> DEFINE n == Len(e.bytes)
<1>1. e.bytes \in Seq(0..255) /\ n \in Nat /\ n # 0
  <2>1. e.bytes \in Seq(0..255) /\ e.bytes # <<>>
    BY DEF IsEvent, IsKey, IsMouse
  <2> QED BY <2>1
<1>2. n \in 1..n /\ n - 1 \in 0..(n - 1) /\ e.bytes[n] \in Int
  <2>1. n \in 1..n /\ n - 1 \in 0..(n - 1)
    <3> HIDE DEF n
    <3> QED BY <1>1
  <2> QED BY <1>1, <2>1, ByteInt
<1>3. Feed(Fed(e.bytes)[n - 1], e.bytes[n]) = Done(e.code)
  BY <1>1, <1>2, FedIs DEF IsKey
<1>4. Fed(e.bytes)[n - 1] \in KeyState /\ (n - 1 > 0 => Fed(e.bytes)[n - 1].at \notin {"first", "raw"})
  BY <1>2, KeyStates
<1>5. ~(n - 1 > 0)
  <2> SUFFICES ASSUME n - 1 > 0 PROVE FALSE
    OBVIOUS
  <2> HIDE DEF n
  <2> QED BY <1>2, <1>3, <1>4, FeedWithin
<1>6. n = 1
  <2> HIDE DEF n
  <2> QED BY <1>1, <1>5
<1>7. Feed(Awaiting("first"), e.bytes[1]) = Done(e.code) /\ e.bytes[1] \in Int
  <2>1. Fed(e.bytes)[0] = Awaiting("first")
    BY <1>1, FedIs
  <2> QED BY <1>2, <1>3, <1>6, <2>1
<1>8. e.bytes[1] = e.code
  <2>1. CASE e.bytes[1] # Esc
    BY <1>7, <2>1, FirstByte, DoneIs
  <2>2. CASE e.bytes[1] = Esc
    <3>1. [Awaiting("first") EXCEPT !.at = "esc"].at = "esc"
      BY DEF Awaiting
    <3> QED BY <1>7, <2>2, <3>1, FirstByte, DoneIs
  <2> QED BY <2>1, <2>2
<1>9. e.bytes[1] \in 0..255 /\ e.code # 0
  <2>1. 1 \in 1..n
    BY <1>6
  <2>2. e.bytes[1] \in 0..255
    BY <1>1, <2>1, ByteInt
  <2>3. e.code # 0
    BY Zenon DEF IsKey
  <2> QED BY <2>2, <2>3
<1> QED BY <1>6, <1>8, <1>9

\* A plain character is one byte.
LEMMA PlainKey ==
  ASSUME NEW e, IsEvent(e), IsKey(e), e.code \in 1..255
  PROVE  Len(e.bytes) = 1 /\ e.bytes[1] = e.code
<1>1. PICK code : code = e.code /\ code \in 1..255
  OBVIOUS
<1>2. code \notin {-1, -2} \cup (314..389)
  <2>1. code \in Int /\ code >= 1 /\ code <= 255
    BY <1>1
  <2>2. code # -1 /\ code # -2
    BY <1>1
  <2>3. ASSUME code \in 314..389
        PROVE  FALSE
    <3>1. code >= 314
      BY <2>3
    <3> QED BY <2>1, <3>1, SMTT(30)
  <2> QED BY <2>2, <2>3, Zenon
<1>3. e.code \notin SpecialCode
  BY <1>1, <1>2 DEF SpecialCode, Unknown, Mouse
<1> QED BY <1>3, KeyCode

\* The exit status for a key is never that for no key.
LEMMA KeyStatus ==
  ASSUME NEW e, IsEvent(e), IsKey(e)
  PROVE  ExitStatus(e.code) \in 1..255
<1>1. e.code \in SpecialCode \/ e.code \in 1..255
  BY KeyCode
<1>2. e.code \in {-1, -2} \/ e.code \in 314..389 \/ e.code \in 1..255
  BY <1>1 DEF SpecialCode, Unknown, Mouse
<1> QED BY <1>2 DEF ExitStatus

\* A report of the mouse begins with a sequence of its own.
Introduction == <<Esc, 91, 77>>

LEMMA IntroductionFed ==
  /\ Fed(Introduction)[0] = Awaiting("first")
  /\ Fed(Introduction)[1] = Feed(Awaiting("first"), Esc)
  /\ Fed(Introduction)[2] = Feed(Fed(Introduction)[1], 91)
  /\ Fed(Introduction)[1].at = "esc" /\ Fed(Introduction)[2].at = "params"
  /\ Feed(Fed(Introduction)[2], 77) = Done(Mouse)
<1>1. /\ Len(Introduction) = 3
      /\ Introduction[1] = Esc /\ Introduction[2] = 91 /\ Introduction[3] = 77
  BY DEF Introduction
<1>2. /\ Fed(Introduction)[0] = Awaiting("first")
      /\ Fed(Introduction)[1] = Feed(Fed(Introduction)[0], Introduction[1])
      /\ Fed(Introduction)[2] = Feed(Fed(Introduction)[1], Introduction[2])
  <2>1. \A m \in 1..Len(Introduction) :
          Fed(Introduction)[m] = Feed(Fed(Introduction)[m - 1], Introduction[m])
    <3>1. Len(Introduction) \in Nat
      BY <1>1
    <3> QED BY <3>1, FedIs
  <2>2. Fed(Introduction)[0] = Awaiting("first")
    BY <1>1, FedIs
  <2>3. 1 \in 1..Len(Introduction) /\ 2 \in 1..Len(Introduction) /\ 1 - 1 = 0 /\ 2 - 1 = 1
    BY <1>1
  <2> QED BY <2>1, <2>2, <2>3
<1>3. PICK w : w = Awaiting("first")
  OBVIOUS
<1>4. /\ w.at = "first" /\ w.param = 0 /\ w.param_readed = FALSE /\ w.code = 0
      /\ DOMAIN w = {"at", "param", "param_readed", "code"}
  BY <1>3 DEF Awaiting
<1>5. Fed(Introduction)[1] = [w EXCEPT !.at = "esc"]
  BY <1>1, <1>2, <1>3, <1>4 DEF Feed
<1>6. Fed(Introduction)[1].at = "esc"
  BY <1>4, <1>5
<1>7. Fed(Introduction)[2] = [Fed(Introduction)[1] EXCEPT !.at = "params"]
  <2>1. \A v : v.at = "esc" => Feed(v, 91) = [v EXCEPT !.at = "params"]
    BY DEF Feed, Introduced, Esc
  <2> QED BY <1>1, <1>2, <1>6, <2>1
<1>8. Fed(Introduction)[2].at = "params"
  <2>1. DOMAIN Fed(Introduction)[1] = {"at", "param", "param_readed", "code"}
    BY <1>4, <1>5
  <2> QED BY <1>7, <2>1
<1>9. Lookup(entries, 77) = Mouse
  <2>1. <<77, Mouse>> \in entries /\ \A e \in entries : e[1] = 77 => e[2] = Mouse
    BY DEF entries, Mouse
  <2>2. \E e \in entries : e[1] = 77
    BY <2>1
  <2> QED BY <2>1, <2>2 DEF Lookup
<1>10. Feed(Fed(Introduction)[2], 77) = Done(Mouse)
  BY <1>8, <1>9 DEF Feed, InParams, IsSpec, IsAlpha
<1> QED BY <1>1, <1>2, <1>6, <1>8, <1>10

\* core_getkey after r bytes of event e.
Ready == Awaiting(IF prog.console THEN "first" ELSE "raw")

KeyAt(e, r) ==
  IF r = 0 THEN Ready
  ELSE IF e.kind = "mouse" THEN IF r < 3 THEN Fed(Introduction)[r] ELSE Ready
  ELSE Fed(e.bytes)[r]

\* An event that means something to the program.
Legible(e) ==
  /\ IsEvent(e) /\ e.kind # "partial"
  /\ e.kind = "key" => IsKey(e) /\ (prog.console \/ e.code \in 1..255)
  /\ e.kind = "mouse" => prog.console

LEMMA ReportBytes ==
  ASSUME NEW e, IsMouse(e)
  PROVE  /\ Sent(e) = <<Esc, 91, 77, 32 + Button(e), 33 + e.x, 33 + e.y>> /\ Len(Sent(e)) = 6
         /\ Button(e) \in 0..65
         /\ 32 + Button(e) \in 32..97 /\ 33 + e.x \in 33..255 /\ 33 + e.y \in 33..255
<1>1. Button(e) \in 0..65
  BY DEF IsMouse, Button
<1>2. 32 + Button(e) \in 32..97 /\ 33 + e.x \in 33..255 /\ 33 + e.y \in 33..255
  BY <1>1 DEF IsMouse
<1>3. Sent(e) = <<Esc, 91, 77, 32 + Button(e), 33 + e.x, 33 + e.y>>
  BY DEF IsMouse, Sent
<1>4. Len(Sent(e)) = 6
  <2> HIDE DEF Button
  <2> QED BY <1>2, <1>3
<1> QED BY <1>1, <1>2, <1>3, <1>4

\* What the next byte of an event makes of the key.
LEMMA NextByte ==
  ASSUME NEW e, Legible(e), NEW r \in 0..(Len(Sent(e)) - 1)
  PROVE  LET b == Sent(e)[r + 1]
         IN  \/ /\ e.kind = "key" /\ r + 1 < Len(Sent(e))
                /\ Feed(KeyAt(e, r), b) = KeyAt(e, r + 1) /\ KeyAt(e, r + 1).at # "done"
             \/ /\ e.kind = "key" /\ r + 1 = Len(Sent(e))
                /\ Feed(KeyAt(e, r), b) = Done(e.code)
             \/ /\ e.kind = "mouse" /\ r < 2
                /\ Feed(KeyAt(e, r), b) = KeyAt(e, r + 1) /\ KeyAt(e, r + 1).at # "done"
             \/ /\ e.kind = "mouse" /\ r = 2
                /\ Feed(KeyAt(e, r), b) = Done(Mouse) /\ KeyAt(e, 3) = Ready
             \/ /\ e.kind = "mouse" /\ r \in 3..5
                /\ Feed(KeyAt(e, r), b) = Done(b) /\ KeyAt(e, r + 1) = Ready
<1> DEFINE b == Sent(e)[r + 1]
<1>1. e.kind \in {"key", "mouse"}
  BY DEF Legible, IsEvent, IsMouse
<1>2. CASE e.kind = "mouse"
  <2>1. /\ Sent(e) = <<Esc, 91, 77, 32 + Button(e), 33 + e.x, 33 + e.y>> /\ Len(Sent(e)) = 6
        /\ 32 + Button(e) \in 32..97 /\ 33 + e.x \in 33..255 /\ 33 + e.y \in 33..255
    <3>1. IsMouse(e)
      BY <1>2 DEF Legible, IsEvent
    <3> QED BY <3>1, ReportBytes
  <2>2. Ready = Awaiting("first")
    BY <1>2 DEF Ready, Legible
  <2>3. r \in {0, 1, 2, 3, 4, 5}
    BY <2>1
  <2>4. CASE r = 0
    <3>1. b = Esc
      BY <2>1, <2>4
    <3> QED BY <1>2, <2>2, <2>4, <3>1, IntroductionFed DEF KeyAt
  <2>5. CASE r = 1
    <3>1. b = 91
      BY <2>1, <2>5
    <3> QED BY <1>2, <2>5, <3>1, IntroductionFed DEF KeyAt
  <2>6. CASE r = 2
    <3>1. b = 77
      BY <2>1, <2>6
    <3> QED BY <1>2, <2>6, <3>1, IntroductionFed DEF KeyAt
  <2>7. CASE r \in {3, 4, 5}
    <3>1. b \in 32..255
      BY <2>1, <2>7
    <3>2. b \in Int /\ b # Esc
      <4> HIDE DEF b
      <4> QED BY <3>1 DEF Esc
    <3>3. KeyAt(e, r) = Ready /\ KeyAt(e, r + 1) = Ready
      BY <1>2, <2>7 DEF KeyAt
    <3>4. Feed(KeyAt(e, r), b) = Done(b)
      <4> HIDE DEF b
      <4> QED BY <2>2, <3>2, <3>3, FirstByte
    <3>5. r \in 3..5
      BY <2>7
    <3> QED BY <1>2, <3>3, <3>4, <3>5
  <2> QED BY <2>3, <2>4, <2>5, <2>6, <2>7
<1>3. CASE e.kind = "key"
  <2> DEFINE n == Len(e.bytes)
  <2>1. Sent(e) = e.bytes /\ IsKey(e) /\ IsEvent(e)
    BY <1>3 DEF Sent, Legible
  <2>2. n \in Nat /\ n # 0 /\ e.bytes \in Seq(0..255)
    <3>1. e.bytes \in Seq(0..255) /\ e.bytes # <<>>
      BY <1>3, <2>1 DEF IsEvent, IsMouse
    <3> QED BY <3>1
  <2>3. r \in Nat /\ r + 1 \in 1..n /\ r \in 0..(n - 1) /\ r + 1 > 0 /\ r + 1 # 0
    <3>1. r \in 0..(n - 1)
      BY <2>1
    <3> HIDE DEF n
    <3> QED BY <2>2, <3>1
  <2>4. b = e.bytes[r + 1] /\ b \in Int
    BY <2>1, <2>2, <2>3, ByteInt
  <2>5. Fed(e.bytes)[r + 1] = Feed(Fed(e.bytes)[r], b)
    <3>1. (r + 1) - 1 = r
      BY <2>3
    <3> QED BY <2>2, <2>3, <2>4, <3>1, FedIs
  <2>6. KeyAt(e, r + 1) = Fed(e.bytes)[r + 1]
    BY <1>3, <2>3 DEF KeyAt
  <2>7. CASE prog.console
    <3>1. KeyAt(e, r) = Fed(e.bytes)[r]
      BY <1>3, <2>2, <2>7, FedIs DEF KeyAt, Ready
    <3>2. CASE r + 1 < n
      <4>1. r + 1 \in 0..(n - 1)
        <5> HIDE DEF n
        <5> QED BY <2>2, <2>3, <3>2
      <4>2. Fed(e.bytes)[r + 1].at # "done"
        BY <2>1, <4>1 DEF IsKey
      <4> QED BY <1>3, <2>1, <2>5, <2>6, <3>1, <3>2, <4>2
    <3>3. CASE r + 1 = n
      <4>1. Fed(e.bytes)[n] = Done(e.code)
        BY <2>1 DEF IsKey
      <4> QED BY <1>3, <2>1, <2>5, <3>1, <3>3, <4>1
    <3>4. r + 1 < n \/ r + 1 = n
      <4> HIDE DEF n
      <4> QED BY <2>2, <2>3
    <3> QED BY <3>2, <3>3, <3>4
  <2>8. CASE ~prog.console
    <3>1. n = 1 /\ e.bytes[1] = e.code
      BY <1>3, <2>1, <2>8, PlainKey DEF Legible
    <3>2. r = 0
      <4> HIDE DEF n
      <4> QED BY <2>3, <3>1
    <3>3. KeyAt(e, r) = Awaiting("raw") /\ b = e.code
      BY <2>4, <2>8, <3>1, <3>2 DEF KeyAt, Ready
    <3>4. Feed(KeyAt(e, r), b) = Done(e.code)
      <4> HIDE DEF b
      <4> QED BY <2>4, <3>3, FirstByte
    <3> QED BY <1>3, <2>1, <3>1, <3>2, <3>4
  <2> QED BY <2>7, <2>8
<1> QED BY <1>1, <1>2, <1>3

-----------------------------------------------------------------------------
(* What is read of the stream.                                             *)

Queue == buffer \o tty

LEMMA HeadTailOfConcat ==
  ASSUME NEW s \in Seq(0..255), NEW t \in Seq(0..255), s # <<>>
  PROVE  s \o t # <<>> /\ Head(s \o t) = Head(s) /\ Tail(s \o t) = Tail(s) \o t
OBVIOUS

\* getchar takes the first byte that is not read, or finds the end.
LEMMA GetcharTakes ==
  ASSUME TypeOK, NEW b, Getchar(b)
  PROVE  /\ Queue \in Seq(0..255)
         /\ \/ b = Eof /\ Queue = <<>> /\ Queue' = <<>> /\ hungup /\ feof' = TRUE
            \/ Queue # <<>> /\ b = Head(Queue) /\ Queue' = Tail(Queue) /\ feof' = feof
<1>1. buffer \in Seq(0..255) /\ tty \in Seq(0..255)
  BY DEF TypeOK
<1>2. Queue \in Seq(0..255)
  BY <1>1 DEF Queue
<1>3. \A s \in Seq(0..255) : s \o <<>> = s /\ <<>> \o s = s
  OBVIOUS
<1>4. CASE buffer # <<>>
  <2>1. b = Head(buffer) /\ buffer' = Tail(buffer) /\ tty' = tty /\ feof' = feof
    BY <1>4 DEF Getchar
  <2>2. PICK s, t : s = buffer /\ t = tty
    OBVIOUS
  <2>3. s \o t # <<>> /\ Head(s \o t) = Head(s) /\ Tail(s \o t) = Tail(s) \o t
    <3>1. s \in Seq(0..255) /\ t \in Seq(0..255) /\ s # <<>>
      BY <1>1, <1>4, <2>2
    <3> QED BY <3>1, HeadTailOfConcat
  <2> QED BY <1>2, <2>1, <2>2, <2>3 DEF Queue
<1>5. CASE buffer = <<>> /\ tty # <<>>
  <2>1. /\ b = Head(tty) /\ feof' = feof
        /\ \/ tty' = Tail(tty) /\ buffer' = <<>>
           \/ tty' = <<>> /\ buffer' = Tail(tty)
    BY <1>5 DEF Getchar
  <2>2. Tail(tty) \in Seq(0..255)
    BY <1>1, <1>5, HeadTailProperties
  <2>3. Queue = tty /\ Queue' = Tail(tty)
    BY <1>1, <1>3, <1>5, <2>1, <2>2 DEF Queue
  <2> QED BY <1>2, <1>5, <2>1, <2>3
<1>6. CASE buffer = <<>> /\ tty = <<>>
  <2>1. b = Eof /\ feof' = TRUE /\ buffer' = <<>> /\ tty' = <<>> /\ hungup
    BY <1>6 DEF Getchar
  <2>2. <<>> \o <<>> = <<>>
    BY <1>3
  <2> QED BY <1>2, <1>6, <2>1, <2>2 DEF Queue
<1> QED BY <1>4, <1>5, <1>6

\* Of the bytes sent, all but those of q are read: c events and r bytes more.
Stream(c, r, q) ==
  /\ Len(SentUpTo[c]) + r + Len(q) = Len(SentUpTo[Len(typed)])
  /\ \A k \in 1..Len(q) : q[k] = SentUpTo[Len(typed)][Len(SentUpTo[c]) + r + k]

Position(c, r) ==
  /\ c \in 0..Len(typed) /\ r \in Nat
  /\ r > 0 => c + 1 \in 1..Len(typed) /\ r < Len(Sent(typed[c + 1]))

\* The next byte.
LEMMA StreamHead ==
  ASSUME TypeOK, NEW c, NEW r, Position(c, r), NEW q \in Seq(0..255), Stream(c, r, q)
  PROVE  /\ q = <<>> => c = Len(typed) /\ r = 0
         /\ q # <<>> =>
              /\ c + 1 \in 1..Len(typed) /\ r \in 0..(Len(Sent(typed[c + 1])) - 1)
              /\ Head(q) = Sent(typed[c + 1])[r + 1]
              /\ Tail(q) \in Seq(0..255)
              /\ IF r + 1 = Len(Sent(typed[c + 1]))
                 THEN Position(c + 1, 0) /\ Stream(c + 1, 0, Tail(q))
                 ELSE Position(c, r + 1) /\ Stream(c, r + 1, Tail(q))
<1> DEFINE n == Len(typed)
<1>1. n \in Nat /\ c \in 0..n /\ n \in 0..n /\ r \in Nat /\ Len(q) \in Nat
  BY DEF TypeOK, Position
<1>2. PICK p, t : p = Len(SentUpTo[c]) /\ t = Len(SentUpTo[n])
  OBVIOUS
<1>3. p \in Nat /\ t \in Nat /\ p + r + Len(q) = t
  <2>1. p \in Nat /\ t \in Nat
    BY <1>1, <1>2, SentLengths DEF Lengths
  <2> QED BY <1>2, <2>1 DEF Stream
<1>4. ASSUME c = n PROVE r = 0 /\ Len(q) = 0
  <2>1. r = 0
    BY <1>1, <1>4 DEF Position
  <2>2. p = t
    BY <1>2, <1>4
  <2> QED BY <1>1, <1>3, <2>1, <2>2
<1>5. ASSUME c # n
      PROVE  /\ c + 1 \in 1..n /\ r \in 0..(Len(Sent(typed[c + 1])) - 1) /\ r + 1 \in 1..Len(Sent(typed[c + 1]))
             /\ p + r < t
  <2> HIDE DEF n
  <2>1. c + 1 \in 1..n /\ (c + 1) - 1 = c
    BY <1>1, <1>5
  <2>2. PICK l : l = Len(Sent(typed[c + 1]))
    OBVIOUS
  <2>3. l \in Nat /\ l > 0
    BY <2>1, <2>2, TypedEvents, SentBytes DEF n
  <2>4. r < l
    BY <1>1, <2>2, <2>3 DEF Position
  <2>5. r \in 0..(l - 1) /\ r + 1 \in 1..l
    BY <1>1, <2>3, <2>4
  <2>6. p + (r + 1) <= t
    BY <1>2, <2>1, <2>2, <2>5, SentBytewise DEF Bytewise, n
  <2>7. p + r < t
    BY <1>1, <1>3, <2>6
  <2> QED BY <2>1, <2>2, <2>5, <2>7
<1>6. ASSUME q = <<>> PROVE c = n /\ r = 0
  <2>1. Len(q) = 0
    BY <1>6
  <2>2. c = n
    <3> HIDE DEF n
    <3> QED BY <1>1, <1>3, <1>5, <2>1
  <2> QED BY <1>4, <2>2
<1>7. ASSUME q # <<>>
      PROVE  /\ c + 1 \in 1..Len(typed) /\ r \in 0..(Len(Sent(typed[c + 1])) - 1)
             /\ Head(q) = Sent(typed[c + 1])[r + 1]
             /\ Tail(q) \in Seq(0..255)
             /\ IF r + 1 = Len(Sent(typed[c + 1]))
                THEN Position(c + 1, 0) /\ Stream(c + 1, 0, Tail(q))
                ELSE Position(c, r + 1) /\ Stream(c, r + 1, Tail(q))
  <2>1. /\ Tail(q) \in Seq(0..255) /\ Len(Tail(q)) = Len(q) - 1 /\ Len(q) > 0
        /\ Head(q) = q[1] /\ \A k \in 1..Len(Tail(q)) : Tail(q)[k] = q[k + 1]
    BY <1>7, HeadTailProperties
  <2>2. c # n
    <3> HIDE DEF n
    <3> QED BY <1>1, <1>4, <2>1
  <2>3. /\ c + 1 \in 1..n /\ r \in 0..(Len(Sent(typed[c + 1])) - 1)
        /\ r + 1 \in 1..Len(Sent(typed[c + 1])) /\ (c + 1) - 1 = c
    <3>1. (c + 1) - 1 = c
      BY <1>1
    <3> QED BY <1>5, <2>2, <3>1
  <2>4. SentUpTo[n][p + (r + 1)] = Sent(typed[c + 1])[r + 1]
    BY <1>2, <2>3, SentBytewise DEF Bytewise
  <2>5. \A k \in 1..Len(q) : q[k] = SentUpTo[n][p + r + k]
    BY <1>2 DEF Stream
  <2>6. q[1] = Sent(typed[c + 1])[r + 1]
    <3>1. 1 \in 1..Len(q) /\ p + r + 1 = p + (r + 1)
      BY <1>1, <1>3, <2>1
    <3> QED BY <2>4, <2>5, <3>1
  <2>7. PICK s, m : s = Tail(q) /\ m = Len(q)
    OBVIOUS
  <2>8. /\ m \in Nat /\ m > 0 /\ Len(s) = m - 1
        /\ \A k \in 1..Len(s) : s[k] = SentUpTo[n][p + (r + 1) + k]
    <3>1. m \in Nat /\ m > 0 /\ Len(s) = m - 1
      BY <1>1, <2>1, <2>7
    <3>2. ASSUME NEW k \in 1..Len(s) PROVE s[k] = SentUpTo[n][p + (r + 1) + k]
      <4>1. k + 1 \in 1..m /\ p + r + (k + 1) = p + (r + 1) + k
        BY <1>1, <1>3, <3>1
      <4>2. s[k] = q[k + 1]
        BY <2>1, <2>7, <3>2
      <4>3. q[k + 1] = SentUpTo[n][p + r + (k + 1)]
        BY <2>5, <2>7, <4>1
      <4> QED BY <4>1, <4>2, <4>3
    <3> QED BY <3>1, <3>2
  <2>9. p + (r + 1) + Len(s) = t
    <3>1. PICK h : h = Len(s)
      OBVIOUS
    <3>2. h = m - 1 /\ p + r + m = t
      BY <1>3, <2>7, <2>8, <3>1
    <3>3. p + (r + 1) + h = t
      BY <1>1, <1>3, <2>8, <3>2
    <3> QED BY <3>1, <3>3
  <2>10. CASE r + 1 = Len(Sent(typed[c + 1]))
    <3>1. Len(SentUpTo[c + 1]) = p + (r + 1) /\ c + 1 \in 0..n /\ 0 \in Nat
      <4>1. Len(SentUpTo[c + 1]) = p + Len(Sent(typed[c + 1]))
        BY <1>2, <2>3, SentJoined DEF SentAfter
      <4> QED BY <2>3, <2>10, <4>1
    <3>2. PICK w : w = Len(SentUpTo[c + 1])
      OBVIOUS
    <3>3. w + 0 + Len(s) = t
      <4>1. w = p + (r + 1) /\ w + 0 = w
        BY <1>1, <1>3, <3>1, <3>2
      <4> QED BY <2>9, <4>1
    <3>4. ASSUME NEW k \in 1..Len(s) PROVE s[k] = SentUpTo[n][w + 0 + k]
      <4>1. w + 0 + k = p + (r + 1) + k
        BY <1>1, <1>3, <3>1, <3>2
      <4> QED BY <2>8, <4>1
    <3>5. Stream(c + 1, 0, s)
      BY <1>2, <3>2, <3>3, <3>4 DEF Stream
    <3> QED BY <2>1, <2>3, <2>6, <2>7, <2>10, <3>1, <3>5 DEF Position
  <2>11. CASE r + 1 # Len(Sent(typed[c + 1]))
    <3>1. PICK l : l = Len(Sent(typed[c + 1]))
      OBVIOUS
    <3>2. r + 1 \in Nat /\ r + 1 < l
      <4>1. r + 1 \in 1..l /\ r + 1 # l /\ l \in Nat
        BY <2>3, <2>11, <3>1, TypedEvents, SentBytes
      <4> QED BY <1>1, <4>1
    <3>4. Stream(c, r + 1, s)
      BY <1>2, <2>8, <2>9 DEF Stream
    <3> QED BY <1>1, <2>1, <2>3, <2>6, <2>7, <2>11, <3>1, <3>2, <3>4 DEF Position
  <2> QED BY <2>10, <2>11
<1> QED BY <1>6, <1>7

-----------------------------------------------------------------------------
(* Where the program is in what was typed.                                 *)

\* c events are read, and r bytes of the next one.
At(c, r) == Position(c, r) /\ Stream(c, r, Queue) /\ key = KeyAt(typed[c + 1], r)

\* The terminal reports the mouse to a program that asked for it.
TypedReports == \A i \in 1..Len(typed) : Reports(typed[i])

\* The user typed what the program reads.
Usual ==
  /\ AllMeant
  /\ prog.console \/ \A i \in DOMAIN typed : typed[i].code \in 1..255

LEMMA UsualLegible ==
  ASSUME TypeOK, TypedReports, Usual, NEW i \in 1..Len(typed)
  PROVE  /\ Legible(typed[i]) /\ typed[i].kind \in {"key", "mouse"}
         /\ typed[i].kind = "mouse" => prog.mouse /\ IsMouse(typed[i])
<1>1. /\ IsEvent(typed[i]) /\ (typed[i].kind = "key" => IsKey(typed[i]))
  BY TypedEvents
<1>2. i \in DOMAIN typed
  BY DEF TypeOK
<1>3. typed[i].kind # "partial" /\ (prog.console \/ typed[i].code \in 1..255)
  BY <1>2 DEF Usual, AllMeant
<1>4. typed[i].kind = "mouse" => prog.mouse
  BY DEF TypedReports, Reports
<1>5. prog.mouse => prog.console
  BY ProgramIs DEF IsProgram
<1> QED BY <1>1, <1>3, <1>4, <1>5 DEF Legible, IsEvent, IsMouse

\* Where it is does not depend on the variables that a step keeps.
LEMMA PositionKept ==
  ASSUME TypeOK, TypeOK', typed' = typed, prog' = prog,
         NEW c, NEW r, Position(c, r), Stream(c, r, Queue'), key' = KeyAt(typed[c + 1], r)
  PROVE  At(c, r)'
<1>1. \A i \in 0..Len(typed) : SentUpTo'[i] = SentUpTo[i]
  <2>1. Len(typed) \in Nat
    BY DEF TypeOK
  <2>2. Grown
    BY <2>1 DEF Grown
  <2> QED BY <2>2, SentKept
<1>2. c \in 0..Len(typed) /\ Len(typed) \in 0..Len(typed)
  BY DEF TypeOK, Position
<1>3. SentUpTo'[c] = SentUpTo[c] /\ SentUpTo'[Len(typed)] = SentUpTo[Len(typed)] /\ Len(typed') = Len(typed)
  BY <1>1, <1>2
<1>4. Stream(c, r, Queue)'
  BY <1>3, Zenon DEF Stream
<1>5. Position(c, r)'
  BY Zenon DEF Position
<1>6. (key = KeyAt(typed[c + 1], r))'
  BY Zenon DEF KeyAt, Ready
<1> QED BY <1>4, <1>5, <1>6 DEF At

\* One getchar finds the end of the input, or takes the next byte of an event.
FindsEnd(b, c, r) ==
  /\ b = Eof /\ c = Len(typed) /\ r = 0 /\ hungup /\ feof' = TRUE
  /\ Feed(key, b) = Done(Eof)
  /\ Position(c, 0) /\ Stream(c, 0, Queue')

TakesByte(b, c, r) ==
  /\ c + 1 \in 1..Len(typed) /\ r \in 0..(Len(Sent(typed[c + 1])) - 1) /\ feof' = feof
  /\ b = Sent(typed[c + 1])[r + 1]
  /\ IF r + 1 = Len(Sent(typed[c + 1]))
     THEN Position(c + 1, 0) /\ Stream(c + 1, 0, Queue')
     ELSE Position(c, r + 1) /\ Stream(c, r + 1, Queue')

LEMMA GetcharReads ==
  ASSUME TypeOK, TypedReports, Usual, NEW c, NEW r, At(c, r), NEW b, Getchar(b)
  PROVE  FindsEnd(b, c, r) \/ TakesByte(b, c, r)
<1>1. Position(c, r) /\ Stream(c, r, Queue) /\ key = KeyAt(typed[c + 1], r)
  BY DEF At
<1>2. Queue \in Seq(0..255)
  BY GetcharTakes
<1>3. CASE b = Eof /\ Queue = <<>> /\ Queue' = <<>> /\ hungup /\ feof' = TRUE
  <2>1. c = Len(typed) /\ r = 0
    BY <1>1, <1>2, <1>3, StreamHead
  <2>2. key = Ready
    BY <1>1, <2>1 DEF KeyAt
  <2>3. Feed(Ready, Eof) = Done(Eof)
    <3>1. Eof \in Int /\ Eof # Esc
      BY DEF Eof, Esc
    <3> QED BY <3>1, FirstByte DEF Ready
  <2> QED BY <1>1, <1>3, <2>1, <2>2, <2>3 DEF FindsEnd
<1>4. CASE Queue # <<>> /\ b = Head(Queue) /\ Queue' = Tail(Queue) /\ feof' = feof
  <2>1. /\ c + 1 \in 1..Len(typed) /\ r \in 0..(Len(Sent(typed[c + 1])) - 1)
        /\ Head(Queue) = Sent(typed[c + 1])[r + 1]
        /\ IF r + 1 = Len(Sent(typed[c + 1]))
           THEN Position(c + 1, 0) /\ Stream(c + 1, 0, Tail(Queue))
           ELSE Position(c, r + 1) /\ Stream(c, r + 1, Tail(Queue))
    BY <1>1, <1>2, <1>4, StreamHead, ZenonT(60)
  <2>2. PICK q, h : q = Tail(Queue) /\ h = Head(Queue)
    OBVIOUS
  <2>3. b = h /\ Queue' = q /\ feof' = feof
    BY <1>4, <2>2
  <2>4. CASE r + 1 = Len(Sent(typed[c + 1]))
    <3>1. Position(c + 1, 0) /\ Stream(c + 1, 0, Queue')
      BY <2>1, <2>2, <2>3, <2>4
    <3> QED BY <2>1, <2>2, <2>3, <2>4, <3>1 DEF TakesByte
  <2>5. CASE r + 1 # Len(Sent(typed[c + 1]))
    <3>1. Position(c, r + 1) /\ Stream(c, r + 1, Queue')
      BY <2>1, <2>2, <2>3, <2>5
    <3> QED BY <2>1, <2>2, <2>3, <2>5, <3>1 DEF TakesByte
  <2> QED BY <2>4, <2>5
<1>5. \/ b = Eof /\ Queue = <<>> /\ Queue' = <<>> /\ hungup /\ feof' = TRUE
      \/ Queue # <<>> /\ b = Head(Queue) /\ Queue' = Tail(Queue) /\ feof' = feof
  BY GetcharTakes
<1> QED BY <1>3, <1>4, <1>5

LEMMA PartReads ==
  ASSUME TypeOK, TypeOK', TypedReports, Usual, NEW c, NEW r, At(c, r),
         typed' = typed, prog' = prog,
         NEW b, Getchar(b), key' = Feed(key, b), key'.at # "done"
  PROVE  /\ c + 1 \in 1..Len(typed) /\ feof' = feof /\ At(c, r + 1)' /\ r \in Nat
         /\ typed[c + 1].kind = "mouse" => r < 2
<1>1. Feed(key, b) # Done(Eof)
  BY DoneIs
<1>2. TakesByte(b, c, r)
  BY <1>1, GetcharReads DEF FindsEnd
<1>3. PICK e : e = typed[c + 1]
  OBVIOUS
<1>4. Legible(e) /\ key = KeyAt(e, r) /\ r \in Nat /\ r \in 0..(Len(Sent(e)) - 1) /\ b = Sent(e)[r + 1]
  BY <1>2, <1>3, UsualLegible DEF At, Position, TakesByte
<1>5. \A code : Feed(KeyAt(e, r), b) # Done(code)
  BY <1>4, DoneIs
<1>6. /\ r + 1 # Len(Sent(e)) /\ (e.kind = "mouse" => r < 2)
      /\ Feed(KeyAt(e, r), b) = KeyAt(e, r + 1)
  <2>1. CASE e.kind = "key"
    BY <1>4, <1>5, <2>1, NextByte
  <2>2. CASE e.kind = "mouse"
    <3>1. Len(Sent(e)) = 6
      BY <1>2, <1>3, <2>2, UsualLegible, ReportBytes DEF TakesByte
    <3>2. r < 2 /\ Feed(KeyAt(e, r), b) = KeyAt(e, r + 1)
      BY <1>4, <1>5, <2>2, NextByte
    <3> QED BY <1>4, <3>1, <3>2
  <2> QED BY <1>2, <1>3, <2>1, <2>2, UsualLegible DEF TakesByte
<1>7. Position(c, r + 1) /\ Stream(c, r + 1, Queue') /\ key' = KeyAt(typed[c + 1], r + 1)
  BY <1>2, <1>3, <1>4, <1>6 DEF TakesByte
<1> QED BY <1>2, <1>3, <1>4, <1>6, <1>7, PositionKept DEF TakesByte

\* What the key read is: the end, a key, or a part of a report of the mouse.
KeyIsEnd(k, c, r) == k = Eof /\ c = Len(typed) /\ r = 0 /\ hungup /\ feof' = TRUE /\ At(c, 0)'

KeyIsKey(k, c) ==
  /\ c + 1 \in 1..Len(typed) /\ feof' = feof
  /\ typed[c + 1].kind = "key" /\ k = typed[c + 1].code /\ At(c + 1, 0)'

KeyIsPart(k, c, r) ==
  /\ c + 1 \in 1..Len(typed) /\ feof' = feof
  /\ typed[c + 1].kind = "mouse" /\ r \in 2..5
  /\ k = IF r = 2 THEN Mouse ELSE Sent(typed[c + 1])[r + 1]
  /\ IF r = 5 THEN At(c + 1, 0)' ELSE At(c, r + 1)'

LEMMA KeyReads ==
  ASSUME TypeOK, TypeOK', TypedReports, Usual, NEW c, NEW r, At(c, r),
         typed' = typed, prog' = prog, NEW k, ReadKey(k)
  PROVE  KeyIsEnd(k, c, r) \/ KeyIsKey(k, c) \/ KeyIsPart(k, c, r)
<1>1. PICK b : Getchar(b) /\ Feed(key, b) = Done(k)
  BY DEF ReadKey
<1>2. key' = Ready
  BY DEF ReadKey, Ready
<1>3. \A j : KeyAt(typed[j], 0) = Ready
  BY DEF KeyAt
<1>4. CASE FindsEnd(b, c, r)
  <2>1. Done(k) = Done(Eof)
    BY <1>1, <1>4 DEF FindsEnd
  <2>2. k = Eof
    BY <2>1, DoneIs
  <2>3. At(c, 0)'
    BY <1>2, <1>3, <1>4, PositionKept DEF FindsEnd
  <2> QED BY <1>4, <2>2, <2>3 DEF FindsEnd, KeyIsEnd
<1>5. CASE TakesByte(b, c, r)
  <2>1. PICK e : e = typed[c + 1]
    OBVIOUS
  <2>2. Legible(e) /\ key = KeyAt(e, r) /\ r \in Nat /\ r \in 0..(Len(Sent(e)) - 1) /\ b = Sent(e)[r + 1]
    BY <1>5, <2>1, UsualLegible DEF At, Position, TakesByte
  <2>3. CASE e.kind = "key"
    <3>1. r + 1 = Len(Sent(e)) /\ Done(k) = Done(e.code)
      BY <1>1, <2>2, <2>3, NextByte, DoneIs
    <3>2. k = e.code
      BY <3>1, DoneIs
    <3>3. At(c + 1, 0)'
      BY <1>2, <1>3, <1>5, <2>1, <3>1, PositionKept DEF TakesByte
    <3> QED BY <1>5, <2>1, <2>3, <3>2, <3>3 DEF TakesByte, KeyIsKey
  <2>4. CASE e.kind = "mouse"
    <3>1. Len(Sent(e)) = 6
      BY <1>5, <2>1, <2>4, UsualLegible, ReportBytes DEF TakesByte
    <3>2. r \in 2..5 /\ Done(k) = Done(IF r = 2 THEN Mouse ELSE b) /\ (r < 5 => KeyAt(e, r + 1) = Ready)
      <4>1. r = 2 \/ r \in 3..5
        BY <1>1, <2>2, <2>4, NextByte, DoneIs
      <4> QED BY <1>1, <2>2, <2>4, <4>1, NextByte, DoneIs
    <3>3. k = IF r = 2 THEN Mouse ELSE Sent(e)[r + 1]
      BY <2>2, <3>2, DoneIs
    <3>4. r = 5 => At(c + 1, 0)'
      BY <1>2, <1>3, <1>5, <2>1, <3>1, PositionKept DEF TakesByte
    <3>5. r # 5 => At(c, r + 1)'
      <4> SUFFICES ASSUME r # 5 PROVE At(c, r + 1)'
        OBVIOUS
      <4>1. r + 1 # 6 /\ key' = KeyAt(e, r + 1)
        BY <1>2, <2>2, <3>2
      <4> QED BY <1>5, <2>1, <3>1, <4>1, PositionKept DEF TakesByte
    <3> QED BY <1>5, <2>1, <2>4, <3>2, <3>3, <3>4, <3>5 DEF TakesByte, KeyIsPart
  <2>5. e.kind \in {"key", "mouse"}
    BY <1>5, <2>1, UsualLegible DEF TakesByte
  <2> QED BY <2>3, <2>4, <2>5
<1> QED BY <1>1, <1>4, <1>5, GetcharReads

-----------------------------------------------------------------------------
(* Double clicks: what the history says of them, and the latest button.    *)

Marks(i) == typed[i].kind = "mouse" /\ typed[i].act # "release"
Unmarked(i, j) == \A l \in i..j : ~Marks(l)

SameClick(e, button) == e.kind = "mouse" => e.act = "release" \/ Presses(e, button)

Clicked(i) ==
  {j \in 1..i : /\ Presses(typed[j], typed[i].button)
                /\ \A l \in j..i : SameClick(typed[l], typed[i].button)}

LEMMA ClicksIs == ASSUME NEW i PROVE Clicks(i) = Cardinality(Clicked(i))
BY DEF Clicks, Clicked, SameClick

LEMMA ClickedFinite ==
  ASSUME NEW i \in Nat
  PROVE  IsFiniteSet(Clicked(i)) /\ Cardinality(Clicked(i)) \in Nat
<1>1. Clicked(i) \subseteq 1..i
  BY DEF Clicked
<1>2. IsFiniteSet(1..i)
  BY FS_Interval
<1>3. IsFiniteSet(Clicked(i))
  BY <1>1, <1>2, FS_Subset
<1> QED BY <1>3, FS_CardinalityType

\* A press is one click more than the one before it, or the first.
LEMMA ClicksAre ==
  ASSUME NEW i \in Nat \ {0}, typed[i].kind = "mouse", typed[i].act = "press"
  PROVE  /\ Unmarked(1, i - 1) => Clicks(i) = 1
         /\ \A m \in 1..(i - 1) :
              Marks(m) /\ Unmarked(m + 1, i - 1) =>
                IF Presses(typed[m], typed[i].button)
                THEN Clicks(m) \in Nat /\ Clicks(i) = Clicks(m) + 1
                ELSE Clicks(i) = 1
<1>1. i \in Clicked(i)
  <2>1. Presses(typed[i], typed[i].button) /\ SameClick(typed[i], typed[i].button)
    BY DEF Presses, SameClick
  <2>2. i \in 1..i /\ \A l \in i..i : l = i
    OBVIOUS
  <2> QED BY <2>1, <2>2 DEF Clicked
<1>2. ASSUME NEW j \in Clicked(i), j # i PROVE j \in 1..(i - 1) /\ Marks(j)
  BY <1>2 DEF Clicked, Presses, Marks
<1>3. ASSUME Clicked(i) = {i} PROVE Clicks(i) = 1
  BY <1>3, FS_Singleton, ClicksIs
<1>4. ASSUME Unmarked(1, i - 1) PROVE Clicks(i) = 1
  <2>1. Clicked(i) = {i}
    BY <1>1, <1>2, <1>4 DEF Unmarked
  <2> QED BY <1>3, <2>1
<1>5. ASSUME NEW m \in 1..(i - 1), Marks(m), Unmarked(m + 1, i - 1),
             NEW j \in Clicked(i), j # i
      PROVE  j \in 1..m /\ m \in j..i
  <2>1. j \in 1..(i - 1) /\ Marks(j)
    BY <1>2, <1>5
  <2>2. j \notin (m + 1)..(i - 1)
    BY <1>5, <2>1 DEF Unmarked
  <2> QED BY <2>1, <2>2
<1>6. ASSUME NEW m \in 1..(i - 1), Marks(m), Unmarked(m + 1, i - 1),
             ~Presses(typed[m], typed[i].button)
      PROVE  Clicks(i) = 1
  <2>1. ASSUME NEW j \in Clicked(i), j # i PROVE FALSE
    <3>1. m \in j..i
      BY <1>5, <1>6, <2>1
    <3>2. SameClick(typed[m], typed[i].button)
      BY <3>1 DEF Clicked
    <3> QED BY <1>6, <3>2 DEF SameClick, Marks
  <2>2. Clicked(i) = {i}
    BY <1>1, <2>1
  <2> QED BY <1>3, <2>2
<1>7. ASSUME NEW m \in 1..(i - 1), Marks(m), Unmarked(m + 1, i - 1),
             Presses(typed[m], typed[i].button)
      PROVE  Clicks(m) \in Nat /\ Clicks(i) = Clicks(m) + 1
  <2>1. typed[m].button = typed[i].button /\ m \in Nat /\ i \notin 1..m
    BY <1>7 DEF Presses
  <2>2. ASSUME NEW j \in Clicked(i), j # i PROVE j \in Clicked(m)
    <3>1. j \in 1..m
      BY <1>5, <1>7, <2>2
    <3>2. ASSUME NEW l \in j..m PROVE SameClick(typed[l], typed[m].button)
      <4>1. l \in j..i
        BY <3>1
      <4> QED BY <2>1, <4>1 DEF Clicked
    <3> QED BY <2>1, <3>1, <3>2 DEF Clicked
  <2>3. ASSUME NEW j \in Clicked(m) PROVE j \in Clicked(i)
    <3>1. j \in 1..m /\ j \in 1..i /\ Presses(typed[j], typed[i].button)
      BY <2>1 DEF Clicked
    <3>2. ASSUME NEW l \in j..i PROVE SameClick(typed[l], typed[i].button)
      <4>1. CASE l \in j..m
        BY <2>1, <4>1 DEF Clicked
      <4>2. CASE l \in (m + 1)..(i - 1)
        BY <1>7, <4>2 DEF Unmarked, Marks, SameClick
      <4>3. CASE l = i
        BY <1>1, <3>1, <4>3 DEF Clicked
      <4>4. l \in j..m \/ l \in (m + 1)..(i - 1) \/ l = i
        BY <3>1
      <4> QED BY <4>1, <4>2, <4>3, <4>4
    <3> QED BY <3>1, <3>2 DEF Clicked
  <2>4. Clicked(i) = Clicked(m) \cup {i} /\ i \notin Clicked(m)
    <3>1. i \notin Clicked(m)
      BY <2>1 DEF Clicked
    <3>2. \A j : j \in Clicked(i) <=> j \in Clicked(m) \/ j = i
      BY <1>1, <2>2, <2>3
    <3> QED BY <3>1, <3>2
  <2>5. IsFiniteSet(Clicked(m)) /\ Cardinality(Clicked(m)) \in Nat
    BY <2>1, ClickedFinite
  <2>6. Cardinality(Clicked(m) \cup {i}) = Cardinality(Clicked(m)) + 1
    BY <2>4, <2>5, FS_AddElement
  <2> QED BY <2>4, <2>5, <2>6, ClicksIs
<1> QED BY <1>4, <1>6, <1>7

\* The latest button after event i.
Pressed(button, double) ==
  CASE button = 0 -> IF double THEN D_LEFT_BUTTON ELSE LEFT_BUTTON
    [] button = 1 -> MIDDLE_BUTTON
    [] button = 2 -> IF double THEN D_RIGHT_BUTTON ELSE RIGHT_BUTTON
    [] button = 3 -> NOTHING

After(i) == IF typed[i].act = "press" THEN Pressed(typed[i].button, Clicks(i) % 2 = 0)
            ELSE IF typed[i].act = "move" THEN RELEASE ELSE NOTHING

LatestIs(q, button) ==
  \/ Unmarked(1, q) /\ button \in {NOTHING, RELEASE}
  \/ \E m \in 1..q : Marks(m) /\ Unmarked(m + 1, q) /\ button = After(m)

\* tomouse_b, by what the terminal sends.
LEMMA Bits ==
  /\ \A b \in 0..3 : ~Bit(b, 5) /\ ~Bit(b, 6) /\ b % 4 = b
  /\ \A b \in 0..3 : Bit(32 + b, 5) /\ ~Bit(32 + b, 6) /\ (32 + b) % 4 = b
  /\ \A b \in 0..1 : Bit(64 + b, 6) /\ (64 + b) % 4 = b
<1>1. 2^5 = 32 /\ 2^6 = 64
  OBVIOUS
<1> QED BY <1>1 DEF Bit

LEMMA Buttons ==
  ASSUME NEW l
  PROVE  /\ tomouse_b(35, l) = [b |-> RELEASE, latest |-> l]
         /\ \A k \in 0..2 :
              LET button == CASE k = 0 -> Click(LEFT_BUTTON, D_LEFT_BUTTON, l)
                              [] k = 1 -> MIDDLE_BUTTON
                              [] k = 2 -> Click(RIGHT_BUTTON, D_RIGHT_BUTTON, l)
              IN  tomouse_b(32 + k, l) = [b |-> button, latest |-> button]
         /\ \A k \in 0..3 :
              tomouse_b(32 + (32 + k), l) = [b |-> Pressed(k, FALSE), latest |-> RELEASE]
         /\ \A k \in 0..1 :
              tomouse_b(32 + (64 + k), l)
                = [b |-> IF k = 0 THEN SCROLL_UP ELSE SCROLL_DOWN, latest |-> NOTHING]
<1>1. tomouse_b(35, l) = [b |-> RELEASE, latest |-> l]
  <2>1. 35 - 32 = 3 /\ ~Bit(3, 5) /\ ~Bit(3, 6) /\ 3 % 4 = 3
    BY Bits
  <2> QED BY <2>1 DEF tomouse_b
<1>2. ASSUME NEW k \in 0..2
      PROVE  LET button == CASE k = 0 -> Click(LEFT_BUTTON, D_LEFT_BUTTON, l)
                             [] k = 1 -> MIDDLE_BUTTON
                             [] k = 2 -> Click(RIGHT_BUTTON, D_RIGHT_BUTTON, l)
             IN  tomouse_b(32 + k, l) = [b |-> button, latest |-> button]
  <2>1. (32 + k) - 32 = k /\ ~Bit(k, 5) /\ ~Bit(k, 6) /\ k % 4 = k /\ k \in {0, 1, 2}
    BY Bits
  <2>2. CASE k = 0
    BY <2>1, <2>2 DEF tomouse_b
  <2>3. CASE k = 1
    BY <2>1, <2>3 DEF tomouse_b
  <2>4. CASE k = 2
    BY <2>1, <2>4 DEF tomouse_b
  <2> QED BY <2>1, <2>2, <2>3, <2>4
<1>3. ASSUME NEW k \in 0..3
      PROVE  tomouse_b(32 + (32 + k), l) = [b |-> Pressed(k, FALSE), latest |-> RELEASE]
  <2>1. /\ (32 + (32 + k)) - 32 = 32 + k /\ k \in {0, 1, 2, 3}
        /\ Bit(32 + k, 5) /\ ~Bit(32 + k, 6) /\ (32 + k) % 4 = k
    BY Bits
  <2>2. CASE k = 0
    BY <2>1, <2>2 DEF tomouse_b, Pressed
  <2>3. CASE k = 1
    BY <2>1, <2>3 DEF tomouse_b, Pressed
  <2>4. CASE k = 2
    BY <2>1, <2>4 DEF tomouse_b, Pressed
  <2>5. CASE k = 3
    BY <2>1, <2>5 DEF tomouse_b, Pressed
  <2> QED BY <2>1, <2>2, <2>3, <2>4, <2>5
<1>4. ASSUME NEW k \in 0..1
      PROVE  tomouse_b(32 + (64 + k), l)
               = [b |-> IF k = 0 THEN SCROLL_UP ELSE SCROLL_DOWN, latest |-> NOTHING]
  <2>1. /\ (32 + (64 + k)) - 32 = 64 + k /\ k \in {0, 1}
        /\ Bit(64 + k, 6) /\ (64 + k) % 4 = k
    BY Bits
  <2>2. CASE k = 0
    BY <2>1, <2>2 DEF tomouse_b
  <2>3. CASE k = 1
    BY <2>1, <2>3 DEF tomouse_b
  <2> QED BY <2>1, <2>2, <2>3
<1> QED BY <1>1, <1>2, <1>3, <1>4

\* What tomouse_b makes of an event.
PressedNow(button, l) ==
  CASE button = 0 -> Click(LEFT_BUTTON, D_LEFT_BUTTON, l)
    [] button = 1 -> MIDDLE_BUTTON
    [] button = 2 -> Click(RIGHT_BUTTON, D_RIGHT_BUTTON, l)

Decoded(e, l) == tomouse_b(32 + Button(e), l)

LEMMA ButtonBytes ==
  ASSUME NEW e, IsMouse(e), NEW l, NEW r, r = Decoded(e, l)
  PROVE  /\ e.act = "release" => r.b = RELEASE /\ r.latest = l
         /\ e.act = "press" => /\ r.b = PressedNow(e.button, l)
                               /\ r.latest = PressedNow(e.button, l)
         /\ e.act = "move" => r.b = Pressed(e.button, FALSE) /\ r.latest = RELEASE
         /\ e.act = "scroll" => /\ r.b = IF e.button = 0 THEN SCROLL_UP ELSE SCROLL_DOWN
                                /\ r.latest = NOTHING
<1>1. PICK y, k : y = 32 + Button(e) /\ k = e.button
  OBVIOUS
<1>7. r = tomouse_b(y, l)
  BY <1>1 DEF Decoded
<1>2. CASE e.act = "release"
  <2>1. y = 35
    BY <1>1, <1>2 DEF Button
  <2>2. r = [b |-> RELEASE, latest |-> l]
    BY <1>7, <2>1, Buttons
  <2> QED BY <1>2, <2>2
<1>3. CASE e.act = "press"
  <2>1. k \in 0..2 /\ y = 32 + k
    BY <1>1, <1>3 DEF Button, IsMouse
  <2>2. tomouse_b(32 + k, l) = [b |-> PressedNow(k, l), latest |-> PressedNow(k, l)]
    BY <2>1, Buttons DEF PressedNow
  <2>3. r = [b |-> PressedNow(k, l), latest |-> PressedNow(k, l)]
    BY <1>7, <2>1, <2>2
  <2> QED BY <1>1, <1>3, <2>3
<1>4. CASE e.act = "move"
  <2>1. k \in 0..3 /\ y = 32 + (32 + k)
    BY <1>1, <1>4 DEF Button, IsMouse
  <2>2. tomouse_b(32 + (32 + k), l) = [b |-> Pressed(k, FALSE), latest |-> RELEASE]
    BY <2>1, Buttons
  <2>3. r = [b |-> Pressed(k, FALSE), latest |-> RELEASE]
    BY <1>7, <2>1, <2>2
  <2> QED BY <1>1, <1>4, <2>3
<1>5. CASE e.act = "scroll"
  <2>1. k \in 0..1 /\ y = 32 + (64 + k)
    BY <1>1, <1>5 DEF Button, IsMouse
  <2>2. tomouse_b(32 + (64 + k), l)
          = [b |-> IF k = 0 THEN SCROLL_UP ELSE SCROLL_DOWN, latest |-> NOTHING]
    BY <2>1, Buttons
  <2>3. r = [b |-> IF k = 0 THEN SCROLL_UP ELSE SCROLL_DOWN, latest |-> NOTHING]
    BY <1>7, <2>1, <2>2
  <2> QED BY <1>1, <1>5, <2>3
<1>6. e.act \in {"release", "press", "move", "scroll"}
  BY DEF IsMouse
<1> QED BY <1>2, <1>3, <1>4, <1>5, <1>6

\* The button of a report is the one the history asks for, and so is the latest
\* button after it.
LEMMA ButtonStep ==
  ASSUME TypeOK, NEW c \in Nat, c + 1 \in 1..Len(typed), IsMouse(typed[c + 1]),
         LatestIs(c, latest), Is("server") \/ Unmarked(1, c)
  PROVE  /\ Decoded(typed[c + 1], latest).b = ButtonOf(c + 1)
         /\ LatestIs(c + 1, Decoded(typed[c + 1], latest).latest)
<1> DEFINE i == c + 1
           e == typed[i]
<1>0. PICK r : r = Decoded(e, latest)
  OBVIOUS
<1>10. /\ e.act = "release" => r.b = RELEASE /\ r.latest = latest
       /\ e.act = "press" => /\ r.b = PressedNow(e.button, latest)
                             /\ r.latest = PressedNow(e.button, latest)
       /\ e.act = "move" => r.b = Pressed(e.button, FALSE) /\ r.latest = RELEASE
       /\ e.act = "scroll" => /\ r.b = IF e.button = 0 THEN SCROLL_UP ELSE SCROLL_DOWN
                              /\ r.latest = NOTHING
  <2>1. PICK v, l : v = e /\ l = latest
    OBVIOUS
  <2>2. IsMouse(v) /\ r = Decoded(v, l)
    BY <1>0, <2>1
  <2>3. /\ v.act = "release" => r.b = RELEASE /\ r.latest = l
        /\ v.act = "press" => /\ r.b = PressedNow(v.button, l)
                              /\ r.latest = PressedNow(v.button, l)
        /\ v.act = "move" => r.b = Pressed(v.button, FALSE) /\ r.latest = RELEASE
        /\ v.act = "scroll" => /\ r.b = IF v.button = 0 THEN SCROLL_UP ELSE SCROLL_DOWN
                               /\ r.latest = NOTHING
    BY <2>2, ButtonBytes, ZenonT(60)
  <2> HIDE DEF e
  <2> QED BY <2>1, <2>3
<1> USE DEF NOTHING, LEFT_BUTTON, RIGHT_BUTTON, D_LEFT_BUTTON, D_RIGHT_BUTTON,
            MIDDLE_BUTTON, SCROLL_UP, SCROLL_DOWN, RELEASE
<1> SUFFICES r.b = ButtonOf(i) /\ LatestIs(i, r.latest)
  BY <1>0
<1>1. i \in Nat \ {0} /\ i - 1 = c /\ e.kind = "mouse"
  BY DEF IsMouse
<1>2. \A q \in 1..i : q = i \/ q \in 1..c
  OBVIOUS
<1>3. Unmarked(i + 1, i)
  BY DEF Unmarked
<1>4. CASE e.act = "release"
  <2>1. r.b = RELEASE /\ r.latest = latest
    BY <1>10, <1>4
  <2>2. ButtonOf(i) = RELEASE
    BY <1>4 DEF ButtonOf
  <2>3. ~Marks(i)
    BY <1>4 DEF Marks
  <2>4. \A m \in 1..i : Unmarked(m, c) => Unmarked(m, i)
    BY <2>3 DEF Unmarked
  <2>5. LatestIs(i, latest)
    <3>1. CASE Unmarked(1, c) /\ latest \in {NOTHING, RELEASE}
      <4>1. 1 \in 1..i
        BY <1>1
      <4> QED BY <2>4, <3>1, <4>1 DEF LatestIs
    <3>2. ASSUME NEW m \in 1..c, Marks(m) /\ Unmarked(m + 1, c) /\ latest = After(m)
          PROVE  LatestIs(i, latest)
      <4>1. m \in 1..i /\ m + 1 \in 1..i
        BY <1>1
      <4> QED BY <2>4, <3>2, <4>1 DEF LatestIs
    <3> QED BY <3>1, <3>2 DEF LatestIs
  <2> QED BY <2>1, <2>2, <2>5
<1>5. ASSUME Marks(i), NEW button, button = After(i) PROVE LatestIs(i, button)
  <2>1. i \in 1..i
    BY <1>1
  <2> QED BY <1>3, <1>5, <2>1 DEF LatestIs
<1>6. CASE e.act = "move"
  <2>1. e.button \in {0, 1, 2, 3}
    BY <1>6 DEF IsMouse
  <2>2. r.b = Pressed(e.button, FALSE) /\ r.latest = RELEASE
    BY <1>10, <1>6
  <2>3. ButtonOf(i) = Pressed(e.button, FALSE)
    BY <1>6, <2>1 DEF ButtonOf, Pressed
  <2>4. Marks(i) /\ After(i) = RELEASE
    BY <1>1, <1>6 DEF Marks, After
  <2>5. LatestIs(i, RELEASE)
    BY <1>5, <2>4
  <2> QED BY <2>2, <2>3, <2>5
<1>7. CASE e.act = "scroll"
  <2>2. r.b = (IF e.button = 0 THEN SCROLL_UP ELSE SCROLL_DOWN) /\ r.latest = NOTHING
    BY <1>10, <1>7
  <2>3. ButtonOf(i) = IF e.button = 0 THEN SCROLL_UP ELSE SCROLL_DOWN
    BY <1>7 DEF ButtonOf
  <2>4. Marks(i) /\ After(i) = NOTHING
    BY <1>1, <1>7 DEF Marks, After
  <2>5. LatestIs(i, NOTHING)
    BY <1>5, <2>4
  <2> QED BY <2>2, <2>3, <2>5
<1>8. CASE e.act = "press"
  <2> DEFINE double == Clicks(i) % 2 = 0
             new == PressedNow(e.button, latest)
  <2>1. e.button \in {0, 1, 2}
    BY <1>8 DEF IsMouse
  <2>2. r.b = new /\ r.latest = new
    BY <1>10, <1>8
  <2>3. /\ Unmarked(1, c) => Clicks(i) = 1
        /\ \A m \in 1..c :
             Marks(m) /\ Unmarked(m + 1, c) =>
               IF Presses(typed[m], e.button)
               THEN Clicks(m) \in Nat /\ Clicks(i) = Clicks(m) + 1
               ELSE Clicks(i) = 1
    BY <1>1, <1>8, ClicksAre
  <2>4. ASSUME ~double, e.button = 0 => latest # LEFT_BUTTON, e.button = 2 => latest # RIGHT_BUTTON
        PROVE  new = Pressed(e.button, double)
    BY <2>1, <2>4 DEF Pressed, PressedNow, Click
  <2>5. ASSUME Clicks(i) = 1 PROVE ~double
    BY <2>5
  <2>6. ASSUME Unmarked(1, c), latest \in {NOTHING, RELEASE}
        PROVE  new = Pressed(e.button, double)
    <3>1. latest # LEFT_BUTTON /\ latest # RIGHT_BUTTON /\ ~double
      BY <2>3, <2>5, <2>6
    <3> HIDE DEF double, new
    <3> QED BY <2>4, <3>1
  <2>7. ASSUME NEW m \in 1..c, Marks(m), Unmarked(m + 1, c), latest = After(m),
               Presses(typed[m], e.button)
        PROVE  new = Pressed(e.button, double)
    <3>1. Clicks(m) \in Nat /\ Clicks(i) = Clicks(m) + 1
      BY <2>3, <2>7
    <3>2. PICK n : n = Clicks(m)
      OBVIOUS
    <3>3. double <=> ~(n % 2 = 0)
      <4>1. n \in Nat /\ Clicks(i) = n + 1
        BY <3>1, <3>2
      <4>2. (n + 1) % 2 = 0 <=> ~(n % 2 = 0)
        BY <4>1
      <4> QED BY <4>1, <4>2
    <3>4. latest = Pressed(e.button, n % 2 = 0)
      BY <2>7, <3>2 DEF After, Presses
    <3> HIDE DEF double
    <3>5. CASE n % 2 = 0
      BY <2>1, <3>3, <3>4, <3>5 DEF Pressed, PressedNow, Click
    <3>6. CASE ~(n % 2 = 0)
      BY <2>1, <3>3, <3>4, <3>6 DEF Pressed, PressedNow, Click
    <3> QED BY <3>5, <3>6
  <2>8. ASSUME NEW m \in 1..c, Marks(m), Unmarked(m + 1, c), latest = After(m),
               ~Presses(typed[m], e.button)
        PROVE  new = Pressed(e.button, double)
    <3>1. Clicks(i) = 1
      BY <2>3, <2>8
    <3>2. IsMouse(typed[m])
      <4>1. m \in 1..Len(typed)
        BY DEF TypeOK
      <4> QED BY <2>8, <4>1, TypedEvents DEF Marks, IsEvent
    <3>3. CASE typed[m].act = "press"
      <4>1. typed[m].button \in {0, 1, 2} /\ typed[m].button # e.button
        BY <2>8, <3>2, <3>3 DEF IsMouse, Presses
      <4>2. latest = Pressed(typed[m].button, Clicks(m) % 2 = 0)
        BY <2>8, <3>3 DEF After
      <4>3. e.button = 0 => latest # LEFT_BUTTON
        BY <4>1, <4>2 DEF Pressed
      <4>4. e.button = 2 => latest # RIGHT_BUTTON
        BY <4>1, <4>2 DEF Pressed
      <4> QED BY <2>4, <2>5, <3>1, <4>3, <4>4
    <3>4. CASE typed[m].act # "press"
      <4>1. latest \in {NOTHING, RELEASE}
        BY <2>8, <3>4 DEF After
      <4>2. latest # LEFT_BUTTON /\ latest # RIGHT_BUTTON /\ ~double
        BY <2>5, <3>1, <4>1
      <4> HIDE DEF double, new
      <4> QED BY <2>4, <4>2
    <3> QED BY <3>3, <3>4
  <2>9. new = Pressed(e.button, double)
    <3> HIDE DEF double, new
    <3> QED BY <2>6, <2>7, <2>8 DEF LatestIs
  <2>10. ButtonOf(i) = Pressed(e.button, double)
    <3>1. ~Is("server") => ~double
      BY <2>3, <2>5
    <3>2. ButtonOf(i) = Pressed(e.button, Is("server") /\ double)
      BY <1>8, <2>1 DEF ButtonOf, Pressed
    <3> QED BY <3>1, <3>2
  <2>11. Marks(i) /\ After(i) = Pressed(e.button, double)
    BY <1>1, <1>8 DEF Marks, After
  <2>12. LatestIs(i, new)
    <3> HIDE DEF double, new
    <3> QED BY <1>5, <2>9, <2>11
  <2> HIDE DEF double, new
  <2> QED BY <2>2, <2>9, <2>10, <2>12
<1>9. e.act \in {"release", "move", "scroll", "press"}
  BY DEF IsMouse
<1> QED BY <1>4, <1>6, <1>7, <1>8, <1>9

-----------------------------------------------------------------------------
(* What the events mean does not change as the user types on.              *)

LEMMA ClicksKept ==
  ASSUME TypeOK, Grown, NEW i \in 1..Len(typed)
  PROVE  Clicks(i)' = Clicks(i)
<1>1. Len(typed) \in Nat
  BY DEF TypeOK
<1>2. \A j \in 1..i : typed'[j] = typed[j]
  BY <1>1 DEF Grown
<1>3. typed'[i] = typed[i]
  BY <1>1, <1>2
<1>4. ASSUME NEW j \in 1..i
      PROVE  /\ typed'[j] = typed[j]
             /\ \A l \in j..i : typed'[l] = typed[l]
  BY <1>2
<1>5. \A j : j \in Clicked(i)' <=> j \in Clicked(i)
  BY <1>3, <1>4 DEF Clicked
<1>6. Clicked(i)' = Clicked(i)
  BY <1>5
<1>7. Clicks(i)' = Cardinality(Clicked(i)')
  BY DEF Clicks, Clicked, SameClick
<1> QED BY <1>6, <1>7, ClicksIs

LEMMA ReportKept ==
  ASSUME TypeOK, Grown, prog' = prog, NEW i \in 1..Len(typed)
  PROVE  ReportOf(i)' = ReportOf(i)
<1>1. typed'[i] = typed[i]
  BY DEF Grown
<1>2. Clicks(i)' = Clicks(i)
  BY ClicksKept
<1>3. ButtonOf(i)' = ButtonOf(i)
  BY <1>1, <1>2, Zenon DEF ButtonOf, Is
<1>4. \A k : CodeOf(k)' = CodeOf(k)
  BY Zenon DEF CodeOf
<1>5. PICK w : w = ButtonOf(i)
  OBVIOUS
<1>6. ButtonOf(i)' = w
  BY <1>3, <1>5
<1>7. CodeOf(typed[i].code)' = CodeOf(typed[i].code)
  BY <1>1 DEF CodeOf
<1> QED BY <1>1, <1>3, <1>7, Zenon DEF ReportOf

LEMMA MeaningsKept ==
  ASSUME TypeOK, TypeOK', Grown, prog' = prog
  PROVE  \A i \in 0..Len(typed) : Meanings'[i] = Meanings[i]
<1> DEFINE n == Len(typed)
           S == {i \in 0..n : Meanings'[i] = Meanings[i]}
<1>1. n \in Nat /\ Len(typed') \in Nat /\ n <= Len(typed')
  BY DEF TypeOK, Grown
<1>2. MeaningFacts /\ MeaningFacts'
  BY MeaningsAre, PTL
<1>3. 0 \in S
  BY <1>1, <1>2 DEF MeaningFacts
<1>4. ASSUME NEW i \in 1..n, i - 1 \in S PROVE i \in S
  <2>1. i \in 1..Len(typed') /\ i \in 0..n
    BY <1>1
  <2>2. Meanings'[i] = IF typed'[i].kind = "mouse" \/ prog'.keyboard
                       THEN Append(Meanings'[i - 1], ReportOf(i)') ELSE Meanings'[i - 1]
    BY <1>2, <2>1 DEF MeaningFacts
  <2>3. Meanings[i] = IF typed[i].kind = "mouse" \/ prog.keyboard
                      THEN Append(Meanings[i - 1], ReportOf(i)) ELSE Meanings[i - 1]
    BY <1>2 DEF MeaningFacts
  <2>4. typed'[i] = typed[i] /\ ReportOf(i)' = ReportOf(i) /\ prog' = prog
    BY ReportKept DEF Grown
  <2>5. Meanings'[i - 1] = Meanings[i - 1]
    BY <1>4
  <2>6. Meanings'[i] = Meanings[i]
    BY <2>2, <2>3, <2>4, <2>5, Zenon
  <2> QED BY <2>1, <2>6
<1>5. \A i \in 0..n : i \in S
  <2> HIDE DEF S
  <2> QED BY <1>1, <1>3, <1>4, UpTo
<1> QED BY <1>5

LEMMA LatestKept ==
  ASSUME TypeOK, Grown, NEW q \in 0..Len(typed), LatestIs(q, latest')
  PROVE  LatestIs(q, latest)'
<1>1. Len(typed) \in Nat
  BY DEF TypeOK
<1>2. \A i \in 1..q : typed'[i] = typed[i] /\ Marks(i)' = Marks(i)
  BY <1>1 DEF Grown, Marks
<1>3. \A i \in 1..(q + 1) : Unmarked(i, q) => Unmarked(i, q)'
  BY <1>2 DEF Unmarked
<1>4. CASE Unmarked(1, q) /\ latest' \in {NOTHING, RELEASE}
  <2>1. 1 \in 1..(q + 1)
    OBVIOUS
  <2>2. Unmarked(1, q)'
    BY <1>3, <1>4, <2>1
  <2> QED BY <1>4, <2>2 DEF LatestIs
<1>5. ASSUME NEW m \in 1..q, Marks(m), Unmarked(m + 1, q), latest' = After(m)
      PROVE  LatestIs(q, latest)'
  <2>1. m + 1 \in 1..(q + 1) /\ m \in 1..Len(typed)
    BY <1>1
  <2>2. Marks(m)' /\ Unmarked(m + 1, q)' /\ typed'[m] = typed[m]
    BY <1>2, <1>3, <1>5, <2>1
  <2>3. After(m)' = After(m)
    <3>1. Clicks(m)' = Clicks(m)
      BY <2>1, ClicksKept
    <3> QED BY <2>2, <3>1, Zenon DEF After
  <2> QED BY <1>5, <2>2, <2>3 DEF LatestIs
<1> QED BY <1>4, <1>5 DEF LatestIs

\* What a few events mean begins what more of them mean.
MeaningPrefixes ==
  \A j \in 0..Len(typed) : \A i \in 0..j :
    /\ Len(Meanings[i]) <= Len(Meanings[j])
    /\ \A k \in 1..Len(Meanings[i]) : Meanings[j][k] = Meanings[i][k]

LEMMA MeaningsGrow == TypeOK => MeaningPrefixes
<1> SUFFICES ASSUME TypeOK PROVE MeaningPrefixes
  OBVIOUS
<1> DEFINE n == Len(typed)
           R == {ReportOf(i) : i \in 1..n}
           P(i, j) == /\ Len(Meanings[i]) <= Len(Meanings[j])
                      /\ \A k \in 1..Len(Meanings[i]) : Meanings[j][k] = Meanings[i][k]
           S == {j \in 0..n : \A i \in 0..j : P(i, j)}
<1>1. n \in Nat /\ \A i \in 0..n : Meanings[i] \in Seq(R) /\ Len(Meanings[i]) \in Nat
  <2>1. Meanings \in [0..n -> Seq(R)]
    BY MeaningsAre DEF MeaningFacts
  <2>2. n \in Nat
    BY DEF TypeOK
  <2> HIDE DEF R
  <2> QED BY <2>1, <2>2
<1>2. 0 \in S
  BY <1>1
<1>3. ASSUME NEW j \in 1..n, j - 1 \in S PROVE j \in S
  <2>1. PICK a, b : a = Meanings[j - 1] /\ b = Meanings[j]
    OBVIOUS
  <2>2. a \in Seq(R) /\ Len(a) \in Nat /\ Len(b) \in Nat /\ ReportOf(j) \in R
    BY <1>1, <2>1
  <2>3. b = a \/ b = Append(a, ReportOf(j))
    BY <2>1, MeaningsAre DEF MeaningFacts
  <2>4. Len(a) <= Len(b) /\ \A k \in 1..Len(a) : b[k] = a[k]
    <3> HIDE DEF R
    <3> QED BY <2>2, <2>3, AppendProperties
  <2>5. ASSUME NEW i \in 0..(j - 1) PROVE P(i, j)
    <3>1. PICK s : s = Meanings[i]
      OBVIOUS
    <3>2. Len(s) <= Len(a) /\ \A k \in 1..Len(s) : a[k] = s[k]
      BY <1>3, <2>1, <3>1
    <3>3. Len(s) \in Nat
      BY <1>1, <3>1
    <3>4. Len(s) <= Len(b) /\ \A k \in 1..Len(s) : b[k] = s[k]
      BY <2>2, <2>4, <3>2, <3>3
    <3> QED BY <2>1, <3>1, <3>4
  <2>6. P(j, j)
    BY <1>1
  <2> HIDE DEF P
  <2>7. \A i \in 0..j : P(i, j)
    BY <2>5, <2>6
  <2> QED BY <2>7
<1>4. \A j \in 0..n : j \in S
  <2> HIDE DEF S
  <2> QED BY <1>1, <1>2, <1>3, UpTo
<1>5. \A j \in 0..n : \A i \in 0..j : P(i, j)
  BY <1>4
<1> QED BY <1>5 DEF MeaningPrefixes

-----------------------------------------------------------------------------
(* What every run keeps, whatever the user types.                          *)

Kept == TypeOK /\ OutOK /\ TypedReports /\ (feof => hungup)

LEMMA InitKept == Init => Kept
<1> SUFFICES ASSUME NEW p \in Programs, Started(p) PROVE Kept
  BY DEF Init
<1>1. TypeOK
  BY InitTypeOK DEF Init
<1>2. out = <<>> /\ typed = <<>> /\ feof = FALSE
  BY DEF Started
<1>3. OutOK
  BY <1>2 DEF OutOK
<1>4. TypedReports
  BY <1>2 DEF TypedReports
<1> QED BY <1>1, <1>2, <1>3, <1>4 DEF Kept

\* How a step changes what was typed, and the ends of the input.
LEMMA NextTyped ==
  ASSUME Kept, [Next]_vars
  PROVE  /\ prog' = prog /\ Grown /\ TypedReports' /\ (feof' => hungup')
         /\ Type \/ typed' = typed
<1>1. TypeOK /\ TypedReports /\ (feof => hungup)
  BY DEF Kept
<1>2. CASE Type
  <2>1. PICK e \in prog.events : Reports(e) /\ typed' = Append(typed, e)
    BY <1>2 DEF Type
  <2>2. prog' = prog /\ feof' = feof /\ hungup' = hungup
    BY <1>2 DEF Type
  <2>3. typed \in Seq(prog.events) /\ Len(typed) \in Nat
    BY <1>1 DEF TypeOK
  <2>4. /\ Len(typed') = Len(typed) + 1
        /\ \A i \in 1..Len(typed) : typed'[i] = typed[i]
        /\ typed'[Len(typed) + 1] = e
    BY <2>1, <2>3, AppendProperties
  <2>5. Grown
    BY <2>3, <2>4 DEF Grown
  <2>6. ASSUME NEW i \in 1..Len(typed') PROVE Reports(typed[i])'
    <3>1. i \in 1..Len(typed) \/ i = Len(typed) + 1
      BY <2>3, <2>4
    <3>2. Reports(typed'[i])
      BY <1>1, <2>1, <2>4, <3>1 DEF TypedReports
    <3> QED BY <2>2, <3>2 DEF Reports
  <2>7. TypedReports'
    BY <2>6 DEF TypedReports
  <2> QED BY <1>1, <1>2, <2>2, <2>5, <2>7
<1>3. CASE ~Type
  <2>1. typed' = typed /\ prog' = prog
    BY <1>3 DEF Next, HangUp, Again, Program, ReadPart, MouseBegins, MouseButton, MouseColumn,
                MouseRow, KeyRead, Peek, KeyReturned, Ask, Turn, TimeOut, CheckKey, vars
  <2>2. Grown
    <3>1. Len(typed) \in Nat
      BY <1>1 DEF TypeOK
    <3> QED BY <2>1, <3>1 DEF Grown
  <2>3. TypedReports'
    BY <1>1, <2>1 DEF TypedReports, Reports
  <2>4. feof' => hungup'
    <3>1. CASE UNCHANGED feof
      <4>1. hungup' = hungup \/ hungup' = TRUE
        BY <1>3 DEF Next, HangUp, Again, Program, ReadPart, MouseBegins, MouseButton, MouseColumn,
                    MouseRow, KeyRead, Peek, KeyReturned, Ask, Turn, TimeOut, CheckKey, vars
      <4> QED BY <1>1, <3>1, <4>1
    <3>2. CASE ~UNCHANGED feof
      <4>1. /\ \E b : Getchar(b)
            /\ hungup' = hungup
        BY <1>3, <3>2 DEF Next, HangUp, Again, Program, ReadPart, MouseBegins, MouseButton,
                          MouseColumn, MouseRow, KeyRead, Peek, KeyReturned, Ask, Turn, TimeOut,
                          CheckKey, vars, ReadKey
      <4>2. PICK b : Getchar(b)
        BY <4>1
      <4>3. hungup
        BY <3>2, <4>2 DEF Getchar
      <4> QED BY <4>1, <4>3
    <3> QED BY <3>1, <3>2
  <2> QED BY <2>1, <2>2, <2>3, <2>4
<1> QED BY <1>2, <1>3

LEMMA SaidKey == ASSUME NEW k \in Int PROVE [type |-> "k", code |-> k] \in Said
BY DEF Said

LEMMA SaidAppend ==
  ASSUME OutOK, NEW r \in Said, out' = Append(out, r), prog' = prog
  PROVE  OutOK'
<1>1. CASE Is("choice")
  BY <1>1 DEF OutOK, Is
<1>2. CASE ~Is("choice")
  <2>1. out \in Seq(Said)
    BY <1>2 DEF OutOK
  <2>2. Append(out, r) \in Seq(Said)
    BY <2>1, AppendProperties
  <2> QED BY <2>2 DEF OutOK
<1> QED BY <1>1, <1>2

LEMMA NextOutOK ==
  ASSUME Kept, [Next]_vars
  PROVE  OutOK'
<1>1. TypeOK /\ OutOK /\ prog' = prog
  BY NextTyped DEF Kept
<1>2. CASE UNCHANGED out
  BY <1>1, <1>2 DEF OutOK, Is
<1>3. CASE Is("choice")
  BY <1>1, <1>3 DEF OutOK, Is
<1>4. CASE ~UNCHANGED out /\ ~Is("choice")
  <2>1. CASE MouseRow
    <3>1. PICK k \in Keys :
            /\ ReadKey(k)
            /\ out' = Append(out, [type |-> "m", x |-> report[3], y |-> k - 33, b |-> report[2]])
      BY <2>1 DEF MouseRow, Reported
    <3>2. report[2] \in Int /\ report[3] \in Int
      <4>1. report \in Seq(Int) /\ Len(report) = 3
        BY <1>1, <2>1 DEF MouseRow, TypeOK
      <4>2. 2 \in 1..Len(report) /\ 3 \in 1..Len(report)
        BY <4>1
      <4> QED BY <4>1, <4>2, ElementOfSeq
    <3>3. k - 33 \in Int
      BY <1>1, <3>1, ReadKeyTypes
    <3>4. [type |-> "m", x |-> report[3], y |-> k - 33, b |-> report[2]] \in Said
      BY <3>2, <3>3 DEF Said
    <3> QED BY <1>1, <3>1, <3>4, SaidAppend
  <2>2. CASE KeyRead \/ KeyReturned
    <3>1. PICK k \in Keys : /\ ReadKey(k)
                            /\ \/ out' = Append(out, [type |-> "k", code |-> k])
                               \/ out' = Append(out, [type |-> "k", code |-> ExitStatus(k)])
      BY <1>4, <2>2 DEF KeyRead, KeyReturned, Reported
    <3>2. k \in Int /\ ExitStatus(k) \in Int
      BY <1>1, <3>1, ReadKeyTypes DEF ExitStatus
    <3> QED BY <1>1, <3>1, <3>2, SaidKey, SaidAppend
  <2>3. CASE Peek
    <3>1. out' = Append(out, [type |-> "k", code |-> 0])
      BY <1>4, <2>3 DEF Peek
    <3> QED BY <1>1, <3>1, SaidKey, SaidAppend
  <2>4. MouseRow \/ KeyRead \/ KeyReturned \/ Peek
    BY <1>4 DEF Next, Type, HangUp, Again, Program, ReadPart, MouseBegins, MouseButton,
                MouseColumn, Ask, Turn, TimeOut, CheckKey, vars, Timed
  <2> QED BY <2>1, <2>2, <2>3, <2>4
<1> QED BY <1>2, <1>3, <1>4

LEMMA NextKept == Kept /\ [Next]_vars => Kept'
<1> SUFFICES ASSUME Kept, [Next]_vars PROVE Kept'
  OBVIOUS
<1>1. TypeOK'
  BY NextTypeOK DEF Kept
<1> QED BY <1>1, NextTyped, NextOutOK DEF Kept

-----------------------------------------------------------------------------
(* The program follows what was typed.                                     *)

\* The part of a report of the mouse that r bytes make.
ReportIs(c, r, rep) ==
  IF r >= 3 /\ typed[c + 1].kind = "mouse"
  THEN /\ Len(rep) = r - 2
       /\ r >= 4 => rep[2] = ButtonOf(c + 1)
       /\ r >= 5 => rep[3] = typed[c + 1].x
  ELSE rep = <<>>

\* The events whose buttons are decoded.
Seen(c, r) == IF r >= 4 /\ typed[c + 1].kind = "mouse" THEN c + 1 ELSE c

Track(c, r) ==
  /\ At(c, r)
  /\ ReportIs(c, r, report)
  /\ LatestIs(Seen(c, r), latest)
  /\ feof => c = Len(typed)

LEMMA TrackTypes ==
  ASSUME TypeOK, NEW c, NEW r, Position(c, r)
  PROVE  /\ Len(typed) \in Nat /\ c \in Nat /\ c <= Len(typed) /\ r \in Nat
         /\ r > 0 => c + 1 \in 1..Len(typed)
         /\ Seen(c, r) \in 0..Len(typed)
<1>1. Len(typed) \in Nat /\ c \in 0..Len(typed) /\ r \in Nat /\ (r > 0 => c + 1 \in 1..Len(typed))
  BY DEF TypeOK, Position
<1>2. Seen(c, r) \in 0..Len(typed)
  <2>1. CASE r >= 4 /\ typed[c + 1].kind = "mouse"
    <3>1. r > 0 /\ Seen(c, r) = c + 1
      BY <1>1, <2>1 DEF Seen
    <3>2. c + 1 \in 1..Len(typed)
      BY <1>1, <3>1
    <3> QED BY <1>1, <3>1, <3>2
  <2>2. CASE ~(r >= 4 /\ typed[c + 1].kind = "mouse")
    BY <1>1, <2>2, Zenon DEF Seen
  <2> QED BY <2>1, <2>2
<1> QED BY <1>1, <1>2

LEMMA ReportIsKept ==
  ASSUME TypeOK, Grown, prog' = prog, NEW c, NEW r, Position(c, r), ReportIs(c, r, report')
  PROVE  ReportIs(c, r, report)'
<1>1. r \in Nat /\ (r > 0 => c + 1 \in 1..Len(typed))
  BY TrackTypes
<1>2. CASE r >= 3
  <2>1. c + 1 \in 1..Len(typed)
    BY <1>1, <1>2
  <2>2. typed'[c + 1] = typed[c + 1]
    BY <2>1 DEF Grown
  <2>3. ButtonOf(c + 1)' = ButtonOf(c + 1)
    <3>1. PICK i : i = c + 1
      OBVIOUS
    <3>2. Clicks(i)' = Clicks(i) /\ typed'[i] = typed[i]
      BY <2>1, <2>2, <3>1, ClicksKept
    <3>3. ButtonOf(i)' = ButtonOf(i)
      BY <3>2, Zenon DEF ButtonOf, Is
    <3> QED BY <3>1, <3>3
  <2> QED BY <1>2, <2>2, <2>3, Zenon DEF ReportIs
<1>3. CASE ~(r >= 3)
  BY <1>3, Zenon DEF ReportIs
<1> QED BY <1>2, <1>3

\* A step that keeps what is typed comes to a place, with its report and its
\* latest button.
LEMMA TrackKept ==
  ASSUME TypeOK, Grown, prog' = prog, typed' = typed,
         NEW c, NEW r, Position(c, r), At(c, r)', ReportIs(c, r, report'),
         LatestIs(Seen(c, r), latest'), feof' => c = Len(typed)
  PROVE  Track(c, r)'
<1>1. PICK q : q = Seen(c, r)
  OBVIOUS
<1>2. q \in 0..Len(typed) /\ Seen(c, r)' = q
  <2>1. Seen(c, r)' = Seen(c, r)
    BY Zenon DEF Seen
  <2> QED BY <1>1, <2>1, TrackTypes
<1>3. LatestIs(q, latest)'
  BY <1>1, <1>2, LatestKept
<1>4. LatestIs(Seen(c, r), latest)'
  BY <1>2, <1>3, Zenon DEF LatestIs
<1>5. ReportIs(c, r, report)'
  BY ReportIsKept
<1> QED BY <1>4, <1>5 DEF Track

LEMMA QuietTrack ==
  ASSUME TypeOK, TypeOK', Grown, prog' = prog, typed' = typed,
         NEW c, NEW r, Track(c, r),
         Queue' = Queue, key' = key, report' = report, latest' = latest, feof' = feof
  PROVE  Track(c, r)'
<1>1. /\ Position(c, r) /\ Stream(c, r, Queue) /\ key = KeyAt(typed[c + 1], r)
      /\ ReportIs(c, r, report) /\ LatestIs(Seen(c, r), latest) /\ (feof => c = Len(typed))
  BY DEF Track, At
<1>2. Stream(c, r, Queue') /\ key' = KeyAt(typed[c + 1], r)
  BY <1>1
<1>3. At(c, r)'
  BY <1>1, <1>2, PositionKept
<1>4. ReportIs(c, r, report') /\ LatestIs(Seen(c, r), latest')
  BY <1>1
<1> QED BY <1>1, <1>3, <1>4, TrackKept

LEMMA LongerSum ==
  ASSUME NEW p \in Nat, NEW r \in Nat, NEW x \in Nat, NEW y \in Nat, NEW z \in Nat,
         p + r + x = z
  PROVE  p + r + (x + y) = z + y
OBVIOUS

\* What is typed comes after what is not yet read.
LEMMA QueueGrows ==
  ASSUME NEW q \in Seq(0..255), NEW s \in Seq(0..255), NEW a \in Seq(0..255), NEW b, b = a \o s,
         NEW p \in Nat, NEW r \in Nat,
         p + r + Len(q) = Len(a), \A k \in 1..Len(q) : q[k] = a[p + r + k]
  PROVE  /\ p + r + Len(q \o s) = Len(b)
         /\ \A k \in 1..Len(q \o s) : (q \o s)[k] = b[p + r + k]
<1>1. PICK w : w = q \o s
  OBVIOUS
<1>2. PICK x, y, z : x = Len(q) /\ y = Len(s) /\ z = Len(a)
  OBVIOUS
<1>3. x \in Nat /\ y \in Nat /\ z \in Nat /\ p + r + x = z
  BY <1>2
<1>4. /\ Len(w) = x + y /\ (\A k \in 1..x : w[k] = q[k]) /\ \A m \in 1..y : w[x + m] = s[m]
      /\ Len(b) = z + y /\ (\A k \in 1..z : b[k] = a[k]) /\ \A m \in 1..y : b[z + m] = s[m]
  <2>1. /\ Len(w) = Len(q) + Len(s) /\ (\A k \in 1..Len(q) : w[k] = q[k])
        /\ \A m \in 1..Len(s) : w[Len(q) + m] = s[m]
    BY <1>1, Joined
  <2>2. /\ Len(b) = Len(a) + Len(s) /\ (\A k \in 1..Len(a) : b[k] = a[k])
        /\ \A m \in 1..Len(s) : b[Len(a) + m] = s[m]
    BY Joined
  <2> QED BY <1>2, <2>1, <2>2, Zenon
<1>5. ASSUME NEW k \in 1..(x + y) PROVE w[k] = b[p + r + k]
  <2>1. CASE k <= x
    <3>1. k \in 1..x /\ p + r + k \in 1..z
      BY <1>3, <2>1
    <3> QED BY <1>2, <1>4, <3>1
  <2>2. CASE ~(k <= x)
    <3>1. PICK m : m = k - x
      OBVIOUS
    <3>2. m \in 1..y /\ x + m = k /\ z + m = p + r + k
      BY <1>3, <2>2, <3>1
    <3>3. w[x + m] = s[m] /\ b[z + m] = s[m]
      BY <1>4, <3>2
    <3> QED BY <3>2, <3>3
  <2> QED BY <2>1, <2>2
<1>6. p + r + Len(w) = Len(b)
  <2>1. p + r + (x + y) = z + y
    BY <1>3, LongerSum
  <2> QED BY <1>4, <2>1
<1>7. \A k \in 1..Len(w) : w[k] = b[p + r + k]
  BY <1>4, <1>5
<1> QED BY <1>1, <1>6, <1>7

\* The user types one more event.
LEMMA TypeTrack ==
  ASSUME TypeOK, TypeOK', feof => hungup, Grown, Type, NEW c, NEW r, Track(c, r)
  PROVE  Track(c, r)'
<1> DEFINE n == Len(typed)
<1>1. PICK e \in prog.events : typed' = Append(typed, e) /\ tty' = tty \o Sent(e)
  BY DEF Type
<1>2. UNCHANGED <<prog, buffer, feof, key, report, latest>> /\ ~hungup
  BY DEF Type
<1>3. /\ Position(c, r) /\ Stream(c, r, Queue) /\ key = KeyAt(typed[c + 1], r)
      /\ ReportIs(c, r, report) /\ LatestIs(Seen(c, r), latest)
  BY DEF Track, At
<1>4. /\ n \in Nat /\ c \in Nat /\ c <= n /\ r \in Nat /\ (r > 0 => c + 1 \in 1..n)
      /\ Seen(c, r) \in 0..n
  BY <1>3, TrackTypes
<1>5. Len(typed') = n + 1 /\ typed'[n + 1] = e /\ \A i \in 1..n : typed'[i] = typed[i]
  <2>1. typed \in Seq(prog.events)
    BY DEF TypeOK
  <2> QED BY <1>1, <2>1, AppendProperties
<1>6. PICK q, s, a, b : q = Queue /\ s = Sent(e) /\ a = SentUpTo[n] /\ b = SentUpTo'[n + 1]
  OBVIOUS
<1>7. s \in Seq(0..255) /\ q \in Seq(0..255) /\ a \in Seq(0..255) /\ Queue' = q \o s
  <2>1. buffer \in Seq(0..255) /\ tty \in Seq(0..255) /\ s \in Seq(0..255)
    BY <1>1, <1>6, ProgramIs, SentBytes DEF TypeOK
  <2>2. a \in Seq(0..255)
    BY <1>4, <1>6, SentLengths DEF Lengths
  <2>3. buffer' = buffer /\ tty' = tty \o s
    BY <1>1, <1>2, <1>6
  <2> QED BY <1>6, <2>1, <2>2, <2>3, SMTT(30) DEF Queue
<1>8. b = a \o s
  <2>1. SentFacts'
    BY SentIs, PTL
  <2>2. SentUpTo'[n + 1] = SentUpTo'[(n + 1) - 1] \o Sent(typed'[n + 1])
    <3>1. n + 1 \in 1..Len(typed')
      BY <1>4, <1>5
    <3> QED BY <2>1, <3>1 DEF SentFacts
  <2>3. SentUpTo'[n] = SentUpTo[n] /\ (n + 1) - 1 = n
    <3>1. n \in 0..n
      BY <1>4
    <3> QED BY <1>4, <3>1, SentKept
  <2> QED BY <1>5, <1>6, <2>2, <2>3
<1>9. SentUpTo'[c] = SentUpTo[c]
  <2>1. c \in 0..n
    BY <1>4
  <2> QED BY <2>1, SentKept
<1>10. Stream(c, r, Queue)'
  <2>1. PICK p : p = Len(SentUpTo[c])
    OBVIOUS
  <2>2. /\ p + r + Len(q) = Len(a) /\ \A k \in 1..Len(q) : q[k] = a[p + r + k]
    BY <1>3, <1>6, <2>1 DEF Stream
  <2>3. p \in Nat
    <3>1. c \in 0..n
      BY <1>4
    <3> QED BY <2>1, <3>1, SentLengths DEF Lengths
  <2>4. p + r + Len(q \o s) = Len(b) /\ \A k \in 1..Len(q \o s) : (q \o s)[k] = b[p + r + k]
    BY <1>4, <1>7, <1>8, <2>2, <2>3, QueueGrows, SMTT(30)
  <2> QED BY <1>5, <1>6, <1>7, <1>9, <2>1, <2>4 DEF Stream
<1>11. Position(c, r)'
  <2>1. c \in 0..Len(typed')
    BY <1>4, <1>5
  <2>2. r > 0 => c + 1 \in 1..Len(typed') /\ r < Len(Sent(typed'[c + 1]))
    <3> SUFFICES ASSUME r > 0 PROVE c + 1 \in 1..Len(typed') /\ r < Len(Sent(typed'[c + 1]))
      OBVIOUS
    <3>1. c + 1 \in 1..n /\ r < Len(Sent(typed[c + 1]))
      BY <1>3 DEF Position
    <3>2. c + 1 \in 1..Len(typed') /\ typed'[c + 1] = typed[c + 1]
      BY <1>4, <1>5, <3>1
    <3> QED BY <3>1, <3>2
  <2> QED BY <1>4, <2>1, <2>2 DEF Position
<1>12. r > 0 => typed'[c + 1] = typed[c + 1]
  BY <1>4, <1>5
<1>13. key' = KeyAt(typed[c + 1], r)'
  <2>1. CASE r > 0
    BY <1>2, <1>3, <1>12, <2>1, Zenon DEF KeyAt, Ready
  <2>2. CASE r = 0
    BY <1>2, <1>3, <2>2 DEF KeyAt, Ready
  <2> QED BY <1>4, <2>1, <2>2
<1>14. ReportIs(c, r, report)'
  <2>1. ReportIs(c, r, report')
    BY <1>2, <1>3
  <2> QED BY <1>2, <1>3, <2>1, ReportIsKept
<1>15. LatestIs(Seen(c, r), latest)'
  <2>1. PICK v : v = Seen(c, r)
    OBVIOUS
  <2>2. LatestIs(v, latest')
    BY <1>2, <1>3, <2>1
  <2>3. LatestIs(v, latest)'
    BY <1>4, <2>1, <2>2, LatestKept
  <2>4. Seen(c, r)' = v
    <3>1. CASE r > 0
      BY <1>12, <2>1, <3>1, Zenon DEF Seen
    <3>2. CASE r = 0
      BY <2>1, <3>2 DEF Seen
    <3> QED BY <1>4, <3>1, <3>2
  <2> QED BY <2>3, <2>4, Zenon DEF LatestIs
<1>16. feof' => c = Len(typed')
  BY <1>2
<1> QED BY <1>10, <1>11, <1>13, <1>14, <1>15, <1>16 DEF Track, At

-----------------------------------------------------------------------------
(* One lemma for each way to read: where it leads.                         *)

Reads ==
  /\ TypeOK /\ TypeOK' /\ TypedReports /\ Usual /\ Grown
  /\ prog' = prog /\ typed' = typed

LEMMA PositionAgain ==
  ASSUME typed' = typed, NEW c, NEW r, Position(c, r)'
  PROVE  Position(c, r)
BY Zenon DEF Position

LEMMA TrackFacts ==
  ASSUME Reads, NEW c, NEW r, Track(c, r)
  PROVE  /\ At(c, r) /\ Position(c, r) /\ ReportIs(c, r, report)
         /\ LatestIs(Seen(c, r), latest) /\ (feof => c = Len(typed))
         /\ Len(typed) \in Nat /\ c \in Nat /\ c <= Len(typed) /\ r \in Nat
         /\ c + 1 \in 1..Len(typed) =>
              /\ ~feof /\ Legible(typed[c + 1]) /\ typed[c + 1].kind \in {"key", "mouse"}
              /\ typed[c + 1].kind = "mouse" => prog.mouse /\ IsMouse(typed[c + 1])
<1>1. /\ At(c, r) /\ Position(c, r) /\ ReportIs(c, r, report)
      /\ LatestIs(Seen(c, r), latest) /\ (feof => c = Len(typed))
  BY DEF Track, At
<1>2. Len(typed) \in Nat /\ c \in Nat /\ c <= Len(typed) /\ r \in Nat
  BY <1>1, TrackTypes DEF Reads
<1>3. ASSUME c + 1 \in 1..Len(typed)
      PROVE  /\ ~feof /\ Legible(typed[c + 1]) /\ typed[c + 1].kind \in {"key", "mouse"}
             /\ typed[c + 1].kind = "mouse" => prog.mouse /\ IsMouse(typed[c + 1])
  <2>1. ~feof
    BY <1>1, <1>2, <1>3
  <2> QED BY <1>3, <2>1, UsualLegible DEF Reads
<1> QED BY <1>1, <1>2, <1>3

\* Comes to a place, once the parts of the new state are known.
LEMMA ComesTo ==
  ASSUME Reads, NEW c, NEW r, At(c, r)', ReportIs(c, r, report'),
         LatestIs(Seen(c, r), latest'), feof' => c = Len(typed)
  PROVE  Track(c, r)'
<1>1. Position(c, r)'
  BY DEF At
<1>2. Position(c, r)
  BY <1>1, PositionAgain DEF Reads
<1> QED BY <1>2, TrackKept DEF Reads

LEMMA PartTrack ==
  ASSUME Reads, NEW c, NEW r, Track(c, r), ReadPart
  PROVE  feof' = feof /\ Track(c, r + 1)'
<1>1. PICK b \in Bytes : Getchar(b) /\ key' = Feed(key, b)
  BY DEF ReadPart
<1>2. key'.at # "done" /\ report' = report /\ latest' = latest
  BY DEF ReadPart
<1>3. /\ At(c, r) /\ ReportIs(c, r, report) /\ LatestIs(Seen(c, r), latest)
      /\ (feof => c = Len(typed)) /\ r \in Nat
  BY TrackFacts
<1>4. /\ c + 1 \in 1..Len(typed) /\ feof' = feof /\ At(c, r + 1)'
      /\ typed[c + 1].kind = "mouse" => r < 2
  BY <1>1, <1>2, <1>3, PartReads DEF Reads
<1>5. ~(r >= 3 /\ typed[c + 1].kind = "mouse") /\ ~(r + 1 >= 3 /\ typed[c + 1].kind = "mouse")
      /\ ~(r >= 4 /\ typed[c + 1].kind = "mouse") /\ ~(r + 1 >= 4 /\ typed[c + 1].kind = "mouse")
  BY <1>3, <1>4
<1>6. ReportIs(c, r + 1, report')
  BY <1>2, <1>3, <1>5, Zenon DEF ReportIs
<1>7. LatestIs(Seen(c, r + 1), latest')
  <2>1. Seen(c, r) = c /\ Seen(c, r + 1) = c
    BY <1>5, Zenon DEF Seen
  <2> QED BY <1>2, <1>3, <2>1
<1> QED BY <1>3, <1>4, <1>6, <1>7, ComesTo

\* The report is empty until the third byte of a mouse event is read, and then
\* one shorter than what was read after the second.
LEMMA ReportLength ==
  ASSUME NEW c, NEW r \in Nat, ReportIs(c, r, report)
  PROVE  /\ report = <<>> => r < 3 \/ typed[c + 1].kind # "mouse"
         /\ \A m \in 1..3 : Len(report) = m => r = m + 2 /\ typed[c + 1].kind = "mouse"
<1>1. CASE r >= 3 /\ typed[c + 1].kind = "mouse"
  <2>1. Len(report) = r - 2
    BY <1>1 DEF ReportIs
  <2>2. report # <<>>
    BY <1>1, <2>1
  <2> QED BY <1>1, <2>1, <2>2
<1>2. CASE ~(r >= 3 /\ typed[c + 1].kind = "mouse")
  <2>1. report = <<>>
    BY <1>2, Zenon DEF ReportIs
  <2>2. Len(report) = 0
    BY <2>1
  <2> QED BY <1>2, <2>1, <2>2
<1> QED BY <1>1, <1>2

\* A key that is read where a report of the mouse is due.
LEMMA PartOfReport ==
  ASSUME Reads, NEW c, NEW r, Track(c, r), NEW k, ReadKey(k),
         \/ k = Mouse /\ report = <<>>
         \/ Len(report) \in 1..3
  PROVE  /\ c + 1 \in 1..Len(typed) /\ c \in Nat /\ feof' = feof /\ ~feof /\ ~feof'
         /\ typed[c + 1].kind = "mouse" /\ IsMouse(typed[c + 1])
         /\ r = (IF k = Mouse /\ report = <<>> THEN 2 ELSE Len(report) + 2)
         /\ ReportIs(c, r, report) /\ LatestIs(Seen(c, r), latest)
         /\ k = IF r = 2 THEN Mouse ELSE Sent(typed[c + 1])[r + 1]
         /\ IF r = 5 THEN At(c + 1, 0)' ELSE At(c, r + 1)'
<1>1. /\ At(c, r) /\ ReportIs(c, r, report) /\ LatestIs(Seen(c, r), latest)
      /\ c \in Nat /\ r \in Nat
  BY TrackFacts
<1>2. KeyIsEnd(k, c, r) \/ KeyIsKey(k, c) \/ KeyIsPart(k, c, r)
  BY <1>1, KeyReads DEF Reads
<1>3. ~KeyIsEnd(k, c, r)
  <2>1. Eof # Mouse
    BY DEF Eof, Mouse
  <2>2. Len(report) \in 1..3 => r # 0
    BY <1>1, ReportLength
  <2> QED BY <2>1, <2>2 DEF KeyIsEnd
<1>4. ~KeyIsKey(k, c)
  <2> SUFFICES ASSUME KeyIsKey(k, c) PROVE FALSE
    OBVIOUS
  <2>1. c + 1 \in 1..Len(typed) /\ typed[c + 1].kind = "key" /\ k = typed[c + 1].code
    BY DEF KeyIsKey
  <2>2. Legible(typed[c + 1])
    BY <2>1, TrackFacts
  <2>3. k # Mouse
    BY <2>1, <2>2, Zenon DEF Legible, IsKey
  <2>4. ~(Len(report) \in 1..3)
    BY <1>1, <2>1, ReportLength
  <2> QED BY <2>3, <2>4
<1>5. /\ c + 1 \in 1..Len(typed) /\ feof' = feof
      /\ typed[c + 1].kind = "mouse" /\ r \in 2..5
      /\ k = IF r = 2 THEN Mouse ELSE Sent(typed[c + 1])[r + 1]
      /\ IF r = 5 THEN At(c + 1, 0)' ELSE At(c, r + 1)'
  BY <1>2, <1>3, <1>4 DEF KeyIsPart
<1>6. ~feof /\ IsMouse(typed[c + 1])
  BY <1>5, TrackFacts
<1>7. r = (IF k = Mouse /\ report = <<>> THEN 2 ELSE Len(report) + 2)
  <2>1. CASE report = <<>>
    BY <1>1, <1>5, <2>1, ReportLength
  <2>2. CASE report # <<>>
    <3>1. PICK m : m = Len(report)
      OBVIOUS
    <3>2. m \in 1..3
      BY <2>2, <3>1
    <3>3. r = m + 2
      BY <1>1, <3>1, <3>2, ReportLength
    <3> QED BY <2>2, <3>1, <3>3
  <2> QED BY <2>1, <2>2
<1> QED BY <1>1, <1>5, <1>6, <1>7, Zenon

LEMMA BeginsTrack ==
  ASSUME Reads, NEW c, NEW r, Track(c, r), MouseBegins
  PROVE  feof' = feof /\ Track(c, 3)'
<1>1. report = <<>> /\ ReadKey(Mouse) /\ report' = <<Mouse>> /\ latest' = latest
  BY DEF MouseBegins
<1>2. /\ c + 1 \in 1..Len(typed) /\ feof' = feof /\ ~feof' /\ typed[c + 1].kind = "mouse"
      /\ r = 2 /\ LatestIs(Seen(c, r), latest)
      /\ IF r = 5 THEN At(c + 1, 0)' ELSE At(c, r + 1)'
  BY <1>1, PartOfReport
<1>3. At(c, 3)'
  BY <1>2
<1>4. ReportIs(c, 3, report')
  BY <1>1, <1>2 DEF ReportIs
<1>5. LatestIs(Seen(c, 3), latest')
  <2>1. Seen(c, 3) = c /\ Seen(c, r) = c
    BY <1>2 DEF Seen
  <2> QED BY <1>1, <1>2, <2>1
<1> QED BY <1>2, <1>3, <1>4, <1>5, ComesTo

LEMMA ButtonTrack ==
  ASSUME Reads, NEW c, NEW r, Track(c, r), MouseButton, Is("server") \/ Unmarked(1, c)
  PROVE  feof' = feof /\ Track(c, 4)'
<1>1. PICK k \in Keys :
        /\ ReadKey(k)
        /\ report' = Append(report, tomouse_b(k, latest).b)
        /\ latest' = tomouse_b(k, latest).latest
  BY DEF MouseButton
<1>2. Len(report) = 1
  BY DEF MouseButton
<1>3. /\ c + 1 \in 1..Len(typed) /\ c \in Nat /\ feof' = feof /\ ~feof'
      /\ typed[c + 1].kind = "mouse" /\ IsMouse(typed[c + 1]) /\ r = 3
      /\ LatestIs(Seen(c, r), latest)
      /\ k = Sent(typed[c + 1])[4] /\ At(c, 4)'
  <2>1. report # <<>>
    BY <1>2
  <2>2. /\ c + 1 \in 1..Len(typed) /\ c \in Nat /\ feof' = feof /\ ~feof'
        /\ typed[c + 1].kind = "mouse" /\ IsMouse(typed[c + 1])
        /\ r = (IF k = Mouse /\ report = <<>> THEN 2 ELSE Len(report) + 2)
        /\ LatestIs(Seen(c, r), latest)
        /\ k = IF r = 2 THEN Mouse ELSE Sent(typed[c + 1])[r + 1]
        /\ IF r = 5 THEN At(c + 1, 0)' ELSE At(c, r + 1)'
    BY <1>1, <1>2, PartOfReport
  <2>3. r = 3
    BY <1>2, <2>1, <2>2
  <2> QED BY <2>2, <2>3
<1>4. k = 32 + Button(typed[c + 1])
  BY <1>3, ReportBytes
<1>5. tomouse_b(k, latest) = Decoded(typed[c + 1], latest)
  BY <1>4 DEF Decoded
<1>6. LatestIs(c, latest)
  <2>1. Seen(c, r) = c
    BY <1>3 DEF Seen
  <2> QED BY <1>3, <2>1
<1>7. /\ tomouse_b(k, latest).b = ButtonOf(c + 1)
      /\ LatestIs(c + 1, latest')
  <2>1. TypeOK
    BY DEF Reads
  <2> QED BY <1>1, <1>3, <1>5, <1>6, <2>1, ButtonStep
<1>8. ReportIs(c, 4, report')
  <2>1. report \in Seq(Int) /\ report' \in Seq(Int)
    BY DEF Reads, TypeOK
  <2>2. PICK b : b = ButtonOf(c + 1)
    OBVIOUS
  <2>3. report' = Append(report, b) /\ b = tomouse_b(k, latest).b
    BY <1>1, <1>7, <2>2
  <2>4. b \in Int
    <3>1. k \in Int /\ latest \in 0..8
      BY <1>1, ReadKeyTypes DEF Reads, TypeOK
    <3>2. b \in 0..8
      BY <2>3, <3>1, ButtonTypes
    <3> QED BY <3>2
  <2>5. Len(report') = 2 /\ report'[2] = b
    BY <1>2, <2>1, <2>3, <2>4, Appended, SMTT(30)
  <2> QED BY <1>3, <2>2, <2>5 DEF ReportIs
<1>9. LatestIs(Seen(c, 4), latest')
  <2>1. Seen(c, 4) = c + 1
    BY <1>3 DEF Seen
  <2> QED BY <1>7, <2>1
<1> QED BY <1>3, <1>8, <1>9, ComesTo

LEMMA ColumnTrack ==
  ASSUME Reads, NEW c, NEW r, Track(c, r), MouseColumn
  PROVE  feof' = feof /\ Track(c, 5)'
<1>1. PICK k \in Keys : ReadKey(k) /\ report' = Append(report, k - 33)
  BY DEF MouseColumn
<1>2. Len(report) = 2 /\ latest' = latest
  BY DEF MouseColumn
<1>3. /\ c + 1 \in 1..Len(typed) /\ c \in Nat /\ feof' = feof /\ ~feof'
      /\ typed[c + 1].kind = "mouse" /\ IsMouse(typed[c + 1]) /\ r = 4
      /\ ReportIs(c, r, report) /\ LatestIs(Seen(c, r), latest)
      /\ k = Sent(typed[c + 1])[5] /\ At(c, 5)'
  <2>1. report # <<>>
    BY <1>2
  <2>2. /\ c + 1 \in 1..Len(typed) /\ c \in Nat /\ feof' = feof /\ ~feof'
        /\ typed[c + 1].kind = "mouse" /\ IsMouse(typed[c + 1])
        /\ r = (IF k = Mouse /\ report = <<>> THEN 2 ELSE Len(report) + 2)
        /\ ReportIs(c, r, report) /\ LatestIs(Seen(c, r), latest)
        /\ k = IF r = 2 THEN Mouse ELSE Sent(typed[c + 1])[r + 1]
        /\ IF r = 5 THEN At(c + 1, 0)' ELSE At(c, r + 1)'
    BY <1>1, <1>2, PartOfReport
  <2>3. r = 4
    BY <1>2, <2>1, <2>2
  <2> QED BY <2>2, <2>3
<1>4. k = 33 + typed[c + 1].x /\ typed[c + 1].x \in 0..222
  <2>1. typed[c + 1].x \in 0..222
    BY <1>3, Zenon DEF IsMouse
  <2>2. Sent(typed[c + 1])[5] = 33 + typed[c + 1].x
    BY <1>3, ReportBytes
  <2> QED BY <1>3, <2>1, <2>2
<1>5. ReportIs(c, 5, report')
  <2>1. report \in Seq(Int) /\ report' \in Seq(Int)
    BY DEF Reads, TypeOK
  <2>2. PICK b, x : b = ButtonOf(c + 1) /\ x = typed[c + 1].x
    OBVIOUS
  <2>3. report[2] = b
    BY <1>3, <2>2 DEF ReportIs
  <2>4. report' = Append(report, x) /\ x \in Int
    <3>1. x \in 0..222 /\ k = 33 + x
      BY <1>4, <2>2
    <3>2. k - 33 = x
      BY <3>1
    <3> QED BY <1>1, <3>1, <3>2
  <2>5. Len(report') = 3 /\ report'[2] = b /\ report'[3] = x
    <3>1. Len(report') = Len(report) + 1 /\ report'[Len(report) + 1] = x
          /\ \A i \in 1..Len(report) : report'[i] = report[i]
      BY <2>1, <2>4, Appended
    <3>2. 2 \in 1..Len(report) /\ Len(report) + 1 = 3
      BY <1>2
    <3> QED BY <2>3, <3>1, <3>2
  <2> QED BY <1>3, <2>2, <2>5 DEF ReportIs
<1>6. LatestIs(Seen(c, 5), latest')
  <2>1. Seen(c, 5) = c + 1 /\ Seen(c, r) = c + 1
    BY <1>3 DEF Seen
  <2> QED BY <1>2, <1>3, <2>1
<1> QED BY <1>3, <1>5, <1>6, ComesTo

LEMMA RowTrack ==
  ASSUME Reads, NEW c, NEW r, Track(c, r), MouseRow
  PROVE  /\ c + 1 \in 1..Len(typed) /\ ~feof /\ ~feof' /\ typed[c + 1].kind = "mouse"
         /\ Reported(ReportOf(c + 1))
         /\ Track(c + 1, 0)'
<1>1. PICK k \in Keys :
        /\ ReadKey(k)
        /\ Reported([type |-> "m", x |-> report[3], y |-> k - 33, b |-> report[2]])
  BY DEF MouseRow
<1>2. Len(report) = 3 /\ latest' = latest /\ report' = <<>>
  BY DEF MouseRow
<1>3. /\ c + 1 \in 1..Len(typed) /\ c \in Nat /\ ~feof /\ ~feof'
      /\ typed[c + 1].kind = "mouse" /\ IsMouse(typed[c + 1]) /\ r = 5
      /\ ReportIs(c, r, report) /\ LatestIs(Seen(c, r), latest)
      /\ k = Sent(typed[c + 1])[6] /\ At(c + 1, 0)'
  <2>1. report # <<>>
    BY <1>2
  <2>2. /\ c + 1 \in 1..Len(typed) /\ c \in Nat /\ ~feof /\ ~feof'
        /\ typed[c + 1].kind = "mouse" /\ IsMouse(typed[c + 1])
        /\ r = (IF k = Mouse /\ report = <<>> THEN 2 ELSE Len(report) + 2)
        /\ ReportIs(c, r, report) /\ LatestIs(Seen(c, r), latest)
        /\ k = IF r = 2 THEN Mouse ELSE Sent(typed[c + 1])[r + 1]
        /\ IF r = 5 THEN At(c + 1, 0)' ELSE At(c, r + 1)'
    BY <1>1, <1>2, PartOfReport
  <2>3. r = 5
    BY <1>2, <2>1, <2>2
  <2> QED BY <2>2, <2>3
<1>4. k = 33 + typed[c + 1].y /\ typed[c + 1].y \in 0..222
  <2>1. typed[c + 1].y \in 0..222
    BY <1>3, Zenon DEF IsMouse
  <2>2. Sent(typed[c + 1])[6] = 33 + typed[c + 1].y
    BY <1>3, ReportBytes
  <2> QED BY <1>3, <2>1, <2>2
<1>5. k - 33 = typed[c + 1].y
  BY <1>4
<1>6. report[3] = typed[c + 1].x /\ report[2] = ButtonOf(c + 1)
  BY <1>3 DEF ReportIs
<1>7. [type |-> "m", x |-> report[3], y |-> k - 33, b |-> report[2]] = ReportOf(c + 1)
  BY <1>3, <1>5, <1>6, Zenon DEF ReportOf
<1>8. ReportIs(c + 1, 0, report')
  BY <1>2 DEF ReportIs
<1>9. LatestIs(Seen(c + 1, 0), latest')
  <2>1. Seen(c + 1, 0) = c + 1 /\ Seen(c, r) = c + 1
    BY <1>3 DEF Seen
  <2> QED BY <1>2, <1>3, <2>1
<1>10. Track(c + 1, 0)'
  BY <1>3, <1>8, <1>9, ComesTo
<1> QED BY <1>1, <1>3, <1>7, <1>10

\* Another event than one of the mouse leaves the latest button.
LEMMA LatestSkips ==
  ASSUME NEW c \in Nat, NEW l, LatestIs(c, l), typed[c + 1].kind # "mouse"
  PROVE  LatestIs(c + 1, l)
<1>1. ~Marks(c + 1)
  BY DEF Marks
<1>2. ASSUME NEW m \in Nat, Unmarked(m, c) PROVE Unmarked(m, c + 1)
  <2> SUFFICES ASSUME NEW i \in m..(c + 1) PROVE ~Marks(i)
    BY DEF Unmarked
  <2>1. i \in m..c \/ i = c + 1
    OBVIOUS
  <2> QED BY <1>1, <1>2, <2>1 DEF Unmarked
<1>3. CASE Unmarked(1, c) /\ l \in {NOTHING, RELEASE}
  BY <1>2, <1>3 DEF LatestIs
<1>4. CASE \E m \in 1..c : Marks(m) /\ Unmarked(m + 1, c) /\ l = After(m)
  <2>1. PICK m \in 1..c : Marks(m) /\ Unmarked(m + 1, c) /\ l = After(m)
    BY <1>4
  <2>2. m \in 1..(c + 1) /\ m + 1 \in Nat
    BY <2>1
  <2>3. Unmarked(m + 1, c + 1)
    BY <1>2, <2>1, <2>2
  <2> QED BY <2>1, <2>2, <2>3 DEF LatestIs
<1> QED BY <1>3, <1>4 DEF LatestIs

\* A key that is no part of a report of the mouse.
EndsTrack(k, c) == k = Eof /\ c = Len(typed) /\ feof' = TRUE /\ Track(c, 0)'

KeyTracked(k, c) ==
  /\ c + 1 \in 1..Len(typed) /\ ~feof /\ ~feof'
  /\ typed[c + 1].kind = "key" /\ k = typed[c + 1].code /\ Track(c + 1, 0)'

LEMMA KeyTrack ==
  ASSUME Reads, NEW c, NEW r, Track(c, r), NEW k, ReadKey(k), k # Mouse \/ ~prog.mouse,
         report = <<>>, report' = report, latest' = latest
  PROVE  EndsTrack(k, c) \/ KeyTracked(k, c)
<1>1. /\ At(c, r) /\ ReportIs(c, r, report) /\ LatestIs(Seen(c, r), latest)
      /\ c \in Nat /\ r \in Nat /\ Len(typed) \in Nat
  BY TrackFacts
<1>2. KeyIsEnd(k, c, r) \/ KeyIsKey(k, c) \/ KeyIsPart(k, c, r)
  BY <1>1, KeyReads DEF Reads
<1>3. \A d : ReportIs(d, 0, report')
  BY DEF ReportIs
<1>4. \A d : Seen(d, 0) = d
  BY DEF Seen
<1>5. CASE KeyIsEnd(k, c, r)
  <2>1. k = Eof /\ c = Len(typed) /\ r = 0 /\ feof' = TRUE /\ At(c, 0)'
    BY <1>5 DEF KeyIsEnd
  <2>2. ReportIs(c, 0, report') /\ LatestIs(Seen(c, 0), latest')
    BY <1>1, <1>3, <2>1
  <2>3. Track(c, 0)'
    BY <2>1, <2>2, ComesTo
  <2> QED BY <2>1, <2>3 DEF EndsTrack
<1>6. CASE KeyIsKey(k, c)
  <2>1. /\ c + 1 \in 1..Len(typed) /\ feof' = feof
        /\ typed[c + 1].kind = "key" /\ k = typed[c + 1].code /\ At(c + 1, 0)'
    BY <1>6 DEF KeyIsKey
  <2>2. ~feof
    BY <2>1, TrackFacts
  <2>3. Seen(c, r) = c
    BY <2>1, Zenon DEF Seen
  <2>4. LatestIs(c + 1, latest')
    BY <1>1, <2>1, <2>3, LatestSkips
  <2>5. Track(c + 1, 0)'
    BY <1>3, <1>4, <2>1, <2>2, <2>4, ComesTo
  <2> QED BY <2>1, <2>2, <2>5 DEF KeyTracked
<1>7. ~KeyIsPart(k, c, r)
  <2> SUFFICES ASSUME KeyIsPart(k, c, r) PROVE FALSE
    OBVIOUS
  <2>1. /\ c + 1 \in 1..Len(typed) /\ typed[c + 1].kind = "mouse" /\ r \in 2..5
        /\ k = IF r = 2 THEN Mouse ELSE Sent(typed[c + 1])[r + 1]
    BY DEF KeyIsPart
  <2>2. r < 3
    BY <1>1, <2>1, ReportLength
  <2>3. k = Mouse
    BY <2>1, <2>2
  <2>4. prog.mouse
    BY <2>1, TrackFacts
  <2> QED BY <2>3, <2>4
<1> QED BY <1>2, <1>5, <1>6, <1>7

-----------------------------------------------------------------------------
(* What was told: Told over an out that grows.                             *)

LEMMA ToldSame == ASSUME out' = out PROVE Told' = Told
BY Zenon DEF Told

LEMMA ToldMore ==
  ASSUME out \in Seq(Said), NEW said \in Said, out' = Append(out, said)
  PROVE  Told'[Len(out')] = IF said = NoKey THEN Told[Len(out)] ELSE Append(Told[Len(out)], said)
<1> DEFINE n == Len(out)
           S == {i \in 0..n : Told'[i] = Told[i]}
<1>1. /\ n \in Nat /\ out' \in Seq(Said) /\ Len(out') = n + 1 /\ out'[n + 1] = said
      /\ \A i \in 1..n : out'[i] = out[i]
  BY AppendProperties
<1>2. ToldFacts
  BY ToldIs
<1>3. ToldFacts'
  <2>1. (out \in Seq(Said))'
    BY <1>1
  <2> QED BY <2>1, ToldIs, PTL
<1>4. 0 \in S
  BY <1>1, <1>2, <1>3 DEF ToldFacts
<1>5. ASSUME NEW i \in 1..n, i - 1 \in S PROVE i \in S
  <2>1. i \in 1..Len(out') /\ i \in 0..n
    BY <1>1
  <2>2. Told'[i] = IF out'[i] = NoKey THEN Told'[i - 1] ELSE Append(Told'[i - 1], out'[i])
    BY <1>3, <2>1 DEF ToldFacts, NoKey
  <2>3. Told[i] = IF out[i] = NoKey THEN Told[i - 1] ELSE Append(Told[i - 1], out[i])
    BY <1>2 DEF ToldFacts
  <2>4. out'[i] = out[i] /\ Told'[i - 1] = Told[i - 1]
    BY <1>1, <1>5
  <2>5. Told'[i] = Told[i]
    BY <2>2, <2>3, <2>4, Zenon
  <2> QED BY <2>1, <2>5
<1>6. \A i \in 0..n : i \in S
  <2> HIDE DEF S
  <2> QED BY <1>1, <1>4, <1>5, UpTo
<1>7. Told'[n] = Told[n]
  BY <1>1, <1>6
<1>8. n + 1 \in 1..Len(out') /\ (n + 1) - 1 = n
  BY <1>1
<1>9. Told'[n + 1] = IF out'[n + 1] = NoKey THEN Told'[(n + 1) - 1]
                     ELSE Append(Told'[(n + 1) - 1], out'[n + 1])
  BY <1>3, <1>8 DEF ToldFacts, NoKey
<1> QED BY <1>1, <1>7, <1>8, <1>9

-----------------------------------------------------------------------------
(* What is reported is what the events read so far mean.                   *)

EndMark == IF feof /\ prog.keyboard THEN <<[type |-> "k", code |-> CodeOf(Eof)]>> ELSE <<>>

Spoken(c) ==
  /\ Told[Len(out)] = Meanings[c] \o EndMark
  /\ feof /\ prog.keyboard => pc = "done"
  /\ prog.name \in {"mouse", "key"} /\ Meanings[c] # <<>> =>
       pc = "done" /\ ~feof /\ Len(Meanings[c]) = 1

LEMMA MeaningTypes ==
  ASSUME TypeOK, NEW c \in 0..Len(typed)
  PROVE  \E R : /\ Meanings[c] \in Seq(R) /\ \A i \in 1..Len(typed) : ReportOf(i) \in R
                /\ Meanings[c] \o <<>> = Meanings[c]
<1> DEFINE R == {ReportOf(i) : i \in 1..Len(typed)}
<1>1. Meanings[c] \in Seq(R) /\ \A i \in 1..Len(typed) : ReportOf(i) \in R
  BY MeaningsAre DEF MeaningFacts
<1>2. Meanings[c] \o <<>> = Meanings[c]
  <2> HIDE DEF R
  <2> QED BY <1>1, ConcatProperties
<1> HIDE DEF R
<1> QED BY <1>1, <1>2

\* An event adds its report, or is none.
LEMMA MeaningNext ==
  ASSUME TypeOK, NEW c \in Nat, c + 1 \in 1..Len(typed)
  PROVE  Meanings[c + 1] = IF typed[c + 1].kind = "mouse" \/ prog.keyboard
                           THEN Append(Meanings[c], ReportOf(c + 1)) ELSE Meanings[c]
<1>1. Meanings[c + 1] = IF typed[c + 1].kind = "mouse" \/ prog.keyboard
                        THEN Append(Meanings[(c + 1) - 1], ReportOf(c + 1))
                        ELSE Meanings[(c + 1) - 1]
  BY MeaningsAre DEF MeaningFacts
<1>2. (c + 1) - 1 = c
  OBVIOUS
<1> QED BY <1>1, <1>2

LEMMA SaidReport ==
  ASSUME TypeOK, NEW i \in 1..Len(typed), Legible(typed[i])
  PROVE  /\ ReportOf(i) \in Said /\ ReportOf(i) # NoKey
         /\ typed[i].kind = "key" => ReportOf(i) = [type |-> "k", code |-> CodeOf(typed[i].code)]
<1>1. CASE typed[i].kind = "mouse"
  <2>1. IsMouse(typed[i])
    BY <1>1, Zenon DEF Legible, IsEvent
  <2>2. typed[i].x \in Int /\ typed[i].y \in Int
    <3>1. typed[i].x \in 0..222 /\ typed[i].y \in 0..222
      BY <2>1, Zenon DEF IsMouse
    <3>2. \A v \in 0..222 : v \in Int
      OBVIOUS
    <3> QED BY <3>1, <3>2, Zenon
  <2>3. ButtonOf(i) \in Int
    BY <2>1 DEF IsMouse, ButtonOf, RELEASE, SCROLL_UP, SCROLL_DOWN, D_LEFT_BUTTON, LEFT_BUTTON,
                MIDDLE_BUTTON, D_RIGHT_BUTTON, RIGHT_BUTTON, NOTHING
  <2>4. ReportOf(i) = [type |-> "m", x |-> typed[i].x, y |-> typed[i].y, b |-> ButtonOf(i)]
    BY <1>1, Zenon DEF ReportOf
  <2>5. ReportOf(i).type # NoKey.type
    BY <2>4 DEF NoKey
  <2>6. ReportOf(i) \in Said
    BY <2>2, <2>3, <2>4 DEF Said
  <2> QED BY <1>1, <2>5, <2>6
<1>2. CASE typed[i].kind # "mouse"
  <2>1. /\ CodeOf(typed[i].code) \in Int \ {0}
        /\ ReportOf(i) = [type |-> "k", code |-> CodeOf(typed[i].code)]
    <3>1. IsKey(typed[i]) /\ IsEvent(typed[i])
      BY <1>2, Zenon DEF Legible, IsEvent, IsMouse
    <3>2. typed[i].code \in Int \ {0, Mouse}
      BY <3>1, Zenon DEF IsKey
    <3>3. ReportOf(i) = [type |-> "k", code |-> CodeOf(typed[i].code)]
      BY <1>2, Zenon DEF ReportOf
    <3>4. PICK status : status = ExitStatus(typed[i].code) /\ status \in 1..255
      BY <3>1, KeyStatus
    <3>5. status \in Int \ {0}
      <4>1. \A v \in 1..255 : v \in Int /\ v # 0
        OBVIOUS
      <4> QED BY <3>4, <4>1
    <3> QED BY <3>2, <3>3, <3>4, <3>5 DEF CodeOf
  <2>2. ReportOf(i).code # NoKey.code
    BY <2>1 DEF NoKey
  <2> QED BY <2>1, <2>2, SaidKey
<1> QED BY <1>1, <1>2

Speaks ==
  /\ TypeOK /\ TypeOK' /\ Grown /\ prog' = prog
  /\ out \in Seq(Said)

\* Comes to an event, once the parts of the new state are known.
LEMMA SpokenNow ==
  ASSUME Speaks, NEW d \in 0..Len(typed),
         Told'[Len(out')] = Meanings[d] \o EndMark',
         feof' /\ prog.keyboard => pc' = "done",
         prog.name \in {"mouse", "key"} /\ Meanings[d] # <<>> =>
           pc' = "done" /\ ~feof' /\ Len(Meanings[d]) = 1
  PROVE  Spoken(d)'
<1>1. Meanings'[d] = Meanings[d] /\ prog' = prog
  BY MeaningsKept DEF Speaks
<1> QED BY <1>1 DEF Spoken

\* A step that reports nothing and reads no key.
LEMMA SpokenQuiet ==
  ASSUME Speaks, NEW c \in 0..Len(typed), Spoken(c), feof' = feof,
         Told'[Len(out')] = Told[Len(out)],
         pc = "done" => pc' = "done" \/ (~feof /\ prog.name = "peek")
  PROVE  Spoken(c)'
<1>1. EndMark' = EndMark
  BY DEF EndMark, Speaks, CodeOf
<1>2. Told'[Len(out')] = Meanings[c] \o EndMark'
  BY <1>1 DEF Spoken
<1>3. feof' /\ prog.keyboard => pc' = "done"
  BY DEF Spoken
<1>4. prog.name \in {"mouse", "key"} /\ Meanings[c] # <<>> =>
        pc' = "done" /\ ~feof' /\ Len(Meanings[c]) = 1
  BY DEF Spoken
<1> QED BY <1>2, <1>3, <1>4, SpokenNow

\* The next event is reported.
LEMMA SpokenReport ==
  ASSUME Speaks, NEW c \in Nat, c + 1 \in 1..Len(typed), Spoken(c), ~feof, ~feof', pc = "key",
         typed[c + 1].kind = "mouse" \/ prog.keyboard, Legible(typed[c + 1]),
         Reported(ReportOf(c + 1))
  PROVE  Spoken(c + 1)'
<1>1. PICK rep : rep = ReportOf(c + 1)
  OBVIOUS
<1>2. rep \in Said /\ rep # NoKey /\ out' = Append(out, rep)
  BY <1>1, SaidReport DEF Reported, Speaks
<1>3. Told'[Len(out')] = Append(Told[Len(out)], rep)
  BY <1>2, ToldMore DEF Speaks
<1>4. c \in 0..Len(typed) /\ c + 1 \in 0..Len(typed)
  OBVIOUS
<1>5. Told[Len(out)] = Meanings[c] /\ EndMark' = <<>>
  <2>1. Meanings[c] \o <<>> = Meanings[c]
    BY <1>4, MeaningTypes DEF Speaks
  <2> QED BY <2>1 DEF Spoken, EndMark
<1>6. Meanings[c + 1] = Append(Meanings[c], rep)
  BY <1>1, MeaningNext DEF Speaks
<1>7. Told'[Len(out')] = Meanings[c + 1] \o EndMark'
  <2>1. Meanings[c + 1] \o <<>> = Meanings[c + 1]
    BY <1>4, MeaningTypes DEF Speaks
  <2> QED BY <1>3, <1>5, <1>6, <2>1
<1>8. prog.name \in {"mouse", "key"} =>
        pc' = "done" /\ ~feof' /\ Len(Meanings[c + 1]) = 1
  <2> SUFFICES ASSUME prog.name \in {"mouse", "key"}
               PROVE  pc' = "done" /\ Len(Meanings[c + 1]) = 1
    OBVIOUS
  <2>1. Meanings[c] = <<>>
    BY DEF Spoken
  <2>2. Meanings[c + 1] = <<rep>>
    BY <1>6, <2>1
  <2>3. pc' = "done"
    BY DEF Reported, Is
  <2> QED BY <2>2, <2>3
<1> QED BY <1>4, <1>7, <1>8, SpokenNow

\* The next event is a key for a program that reads the mouse only.
LEMMA SpokenPast ==
  ASSUME Speaks, NEW c \in Nat, c + 1 \in 1..Len(typed), Spoken(c), ~feof, ~feof', pc = "key",
         typed[c + 1].kind # "mouse", ~prog.keyboard, out' = out
  PROVE  Spoken(c + 1)'
<1>1. c + 1 \in 0..Len(typed)
  OBVIOUS
<1>2. Meanings[c + 1] = Meanings[c]
  BY MeaningNext DEF Speaks
<1>3. EndMark' = EndMark /\ Told'[Len(out')] = Told[Len(out)]
  BY ToldSame DEF EndMark, Speaks, CodeOf
<1>4. Told'[Len(out')] = Meanings[c + 1] \o EndMark'
  BY <1>2, <1>3 DEF Spoken
<1>5. ~(prog.name \in {"mouse", "key"} /\ Meanings[c + 1] # <<>>)
  BY <1>2 DEF Spoken
<1> QED BY <1>1, <1>4, <1>5, SpokenNow

\* -1 as an exit status.
LEMMA LastStatus ==
  ASSUME NEW x \in Int, x + 1 = 0
  PROVE  x % 256 = 255
<1>1. PICK q, y : q = x \div 256 /\ y = x % 256
  OBVIOUS
<1>2. q \in Int /\ y \in 0..255 /\ x = 256 * q + y
  BY <1>1
<1>3. y = 255
  BY <1>2
<1> QED BY <1>1, <1>3

\* The end of the input, reported to those who wait for a key.
LEMMA SpokenEnd ==
  ASSUME Speaks, NEW c \in 0..Len(typed), Spoken(c), feof', pc = "key",
         IF prog.keyboard THEN Reported([type |-> "k", code |-> CodeOf(Eof)]) ELSE out' = out
  PROVE  Spoken(c)'
<1>1. Meanings[c] \o <<>> = Meanings[c]
  BY MeaningTypes DEF Speaks
<1>2. ~(prog.name \in {"mouse", "key"} /\ Meanings[c] # <<>>)
  BY DEF Spoken
<1>3. CASE prog.keyboard
  <2>1. PICK rep : rep = [type |-> "k", code |-> CodeOf(Eof)]
    OBVIOUS
  <2>2. rep \in Said /\ rep # NoKey
    <3>1. Eof % 256 = 255
      <4>1. Eof \in Int /\ Eof + 1 = 0
        BY DEF Eof
      <4> QED BY <4>1, LastStatus
    <3>2. CodeOf(Eof) \in {-1, 255}
      BY <3>1 DEF CodeOf, ExitStatus, Eof
    <3>3. rep.code # NoKey.code /\ CodeOf(Eof) \in Int
      BY <2>1, <3>2 DEF NoKey
    <3> QED BY <2>1, <3>3, SaidKey
  <2>3. out' = Append(out, rep) /\ pc' = "done"
    BY <1>3, <2>1 DEF Reported
  <2>4. Told'[Len(out')] = Append(Told[Len(out)], rep)
    BY <2>2, <2>3, ToldMore DEF Speaks
  <2>5. Told[Len(out)] = Meanings[c] /\ EndMark' = <<rep>>
    BY <1>1, <1>3, <2>1 DEF Spoken, EndMark, Speaks, CodeOf
  <2>6. Told'[Len(out')] = Meanings[c] \o EndMark'
    <3>1. PICK R : Meanings[c] \in Seq(R)
      BY MeaningTypes DEF Speaks
    <3> QED BY <2>4, <2>5, <3>1
  <2> QED BY <1>2, <2>3, <2>6, SpokenNow
<1>4. CASE ~prog.keyboard
  <2>1. EndMark' = EndMark /\ Told'[Len(out')] = Told[Len(out)]
    BY <1>4, ToldSame DEF EndMark, Speaks, CodeOf
  <2>2. Told'[Len(out')] = Meanings[c] \o EndMark'
    BY <2>1 DEF Spoken
  <2> QED BY <1>2, <1>4, <2>2, SpokenNow
<1> QED BY <1>3, <1>4

\* Nothing to report: no event of the mouse.
LEMMA NoneMeant ==
  ASSUME TypeOK, NEW c \in 0..Len(typed), Meanings[c] = <<>>
  PROVE  Unmarked(1, c)
<1> SUFFICES ASSUME NEW l \in 1..c, typed[l].kind = "mouse" PROVE FALSE
  BY DEF Unmarked, Marks
<1>1. l \in 1..Len(typed) /\ l \in 0..c /\ l - 1 \in Nat /\ l - 1 \in 0..Len(typed) /\ (l - 1) + 1 = l
  BY DEF TypeOK
<1>2. Meanings[l] = Append(Meanings[l - 1], ReportOf(l))
  BY <1>1, MeaningsAre DEF MeaningFacts
<1>3. PICK R : Meanings[l - 1] \in Seq(R) /\ ReportOf(l) \in R
  BY <1>1, MeaningTypes
<1>4. PICK a, b : a = Meanings[l - 1] /\ b = Meanings[l]
  OBVIOUS
<1>5. Len(b) = Len(a) + 1 /\ Len(a) \in Nat
  BY <1>2, <1>3, <1>4, AppendProperties
<1>6. Len(b) <= 0
  BY <1>1, <1>4, MeaningsGrow DEF MeaningPrefixes
<1> QED BY <1>5, <1>6

-----------------------------------------------------------------------------
(* The inductive invariant of the programs that report what they read.     *)

Follows == \E c, r : Track(c, r) /\ Spoken(c)

Tells == ~Is("choice") /\ AllMeant => Follows

LEMMA TrackWithin ==
  ASSUME TypeOK, NEW c, NEW r, Track(c, r)
  PROVE  c \in 0..Len(typed) /\ c \in Nat /\ r \in Nat /\ Len(typed) \in Nat
<1>1. Position(c, r)
  BY DEF Track, At
<1>2. Len(typed) \in Nat /\ c \in Nat /\ c <= Len(typed) /\ r \in Nat
  BY <1>1, TrackTypes
<1> QED BY <1>2

LEMMA MeantBefore == ASSUME TypeOK, TypeOK', Grown, AllMeant' PROVE AllMeant
<1>1. ASSUME NEW i \in DOMAIN typed PROVE typed[i].kind # "partial"
  <2>1. i \in 1..Len(typed) /\ i \in 1..Len(typed')
    <3>1. typed \in Seq(prog.events) /\ typed' \in Seq(prog'.events)
      BY DEF TypeOK
    <3>2. DOMAIN typed = 1..Len(typed) /\ Len(typed) \in Nat /\ Len(typed') \in Nat
      BY <3>1
    <3> QED BY <3>2 DEF Grown
  <2>2. i \in DOMAIN typed'
    BY <2>1 DEF TypeOK
  <2> QED BY <2>1, <2>2 DEF AllMeant, Grown
<1> QED BY <1>1 DEF AllMeant

\* Steps that read nothing.
LEMMA QuietFollows ==
  ASSUME Kept, Kept', Grown, prog' = prog, typed' = typed, ~Is("choice"),
         NEW c, NEW r, Track(c, r), Spoken(c),
         HangUp \/ Again \/ Peek \/ UNCHANGED vars
  PROVE  Follows'
<1>1. key' = key /\ report' = report /\ latest' = latest /\ feof' = feof
  BY DEF HangUp, Again, Peek, vars
<1>2. Queue' = Queue
  <2>1. CASE Again
    <3>1. buffer = <<>>
      BY <2>1 DEF Again, Unbuffered, Kept, TypeOK
    <3> QED BY <2>1, <3>1 DEF Again, Queue
  <2>2. CASE ~Again
    BY <2>2 DEF HangUp, Peek, vars, Queue
  <2> QED BY <2>1, <2>2
<1>3. Track(c, r)'
  BY <1>1, <1>2, QuietTrack DEF Kept
<1>4. out \in Seq(Said)
  BY DEF Kept, OutOK
<1>5. Speaks
  BY <1>4 DEF Speaks, Kept
<1>6. c \in 0..Len(typed)
  BY TrackWithin DEF Kept
<1>7. Told'[Len(out')] = Told[Len(out)]
  <2>1. CASE out' = out
    BY <2>1, ToldSame
  <2>2. CASE out' # out
    <3>1. out' = Append(out, NoKey)
      BY <2>2 DEF HangUp, Again, Peek, vars, NoKey
    <3>2. NoKey \in Said
      BY DEF NoKey, Said
    <3> QED BY <1>4, <3>1, <3>2, ToldMore
  <2> QED BY <2>1, <2>2
<1>8. pc = "done" => pc' = "done" \/ (~feof /\ prog.name = "peek")
  BY DEF HangUp, Again, Peek, vars, Is
<1>9. Spoken(c)'
  BY <1>1, <1>5, <1>6, <1>7, <1>8, SpokenQuiet
<1> QED BY <1>3, <1>9 DEF Follows

\* The user types.
LEMMA TypeFollows ==
  ASSUME Kept, Kept', Grown, prog' = prog, ~Is("choice"),
         NEW c, NEW r, Track(c, r), Spoken(c), Type
  PROVE  Follows'
<1>1. Track(c, r)'
  BY TypeTrack DEF Kept
<1>2. feof' = feof /\ out' = out /\ pc' = pc
  BY DEF Type
<1>3. Speaks
  BY DEF Speaks, Kept, OutOK
<1>4. c \in 0..Len(typed)
  BY TrackWithin DEF Kept
<1>5. Spoken(c)'
  BY <1>2, <1>3, <1>4, ToldSame, SpokenQuiet
<1> QED BY <1>1, <1>5 DEF Follows

\* A byte that completes nothing to report.
LEMMA PartFollows ==
  ASSUME Kept, Reads, ~Is("choice"), NEW c, NEW r, Track(c, r), Spoken(c),
         ReadPart \/ MouseBegins \/ MouseButton \/ MouseColumn
  PROVE  Follows'
<1>1. out' = out /\ pc' = pc
  BY DEF ReadPart, MouseBegins, MouseButton, MouseColumn
<1>2. c \in 0..Len(typed)
  BY TrackWithin DEF Reads
<1>3. feof' = feof /\ \E s : Track(c, s)'
  <2>1. CASE ReadPart
    BY <2>1, PartTrack
  <2>2. CASE MouseBegins
    BY <2>2, BeginsTrack
  <2>3. CASE MouseButton
    <3>1. PICK k \in Keys : ReadKey(k)
      BY <2>3 DEF MouseButton
    <3>2. pc = "key"
      BY <3>1 DEF ReadKey
    <3>3. ReadsEvents
      <4>1. Len(report) = 1
        BY <2>3 DEF MouseButton
      <4>2. report # <<>>
        BY <4>1
      <4> QED BY <4>2 DEF Reads, TypeOK
    <3>4. Is("server") \/ Unmarked(1, c)
      <4> SUFFICES ASSUME ~Is("server") PROVE Unmarked(1, c)
        OBVIOUS
      <4>1. prog.name \in {"mouse", "key"}
        BY <3>3 DEF ReadsEvents, Is
      <4>2. Meanings[c] = <<>>
        BY <3>2, <4>1 DEF Spoken
      <4> QED BY <1>2, <4>2, NoneMeant DEF Reads
    <3> QED BY <2>3, <3>4, ButtonTrack
  <2>4. CASE MouseColumn
    BY <2>4, ColumnTrack
  <2> QED BY <2>1, <2>2, <2>3, <2>4
<1>4. PICK s : Track(c, s)'
  BY <1>3
<1>5. Speaks
  BY DEF Speaks, Kept, Reads, OutOK
<1>6. Spoken(c)'
  BY <1>1, <1>2, <1>3, <1>5, ToldSame, SpokenQuiet
<1> QED BY <1>4, <1>6 DEF Follows

LEMMA RowFollows ==
  ASSUME Kept, Reads, ~Is("choice"), NEW c, NEW r, Track(c, r), Spoken(c), MouseRow
  PROVE  Follows'
<1>1. /\ c + 1 \in 1..Len(typed) /\ ~feof /\ ~feof' /\ typed[c + 1].kind = "mouse"
      /\ Reported(ReportOf(c + 1)) /\ Track(c + 1, 0)'
  BY RowTrack
<1>2. Legible(typed[c + 1]) /\ c \in Nat
  BY <1>1, TrackFacts
<1>3. pc = "key"
  BY DEF MouseRow, ReadKey
<1>4. Speaks
  BY DEF Speaks, Kept, Reads, OutOK
<1>5. Spoken(c + 1)'
  BY <1>1, <1>2, <1>3, <1>4, SpokenReport
<1> QED BY <1>1, <1>5 DEF Follows

\* A key that is no part of a report of the mouse.
LEMMA KeyFollows ==
  ASSUME Kept, Reads, ~Is("choice"), NEW c, NEW r, Track(c, r), Spoken(c),
         KeyRead \/ KeyReturned
  PROVE  Follows'
<1>1. PICK k : /\ ReadKey(k) /\ (k # Mouse \/ ~prog.mouse)
               /\ IF prog.keyboard THEN Reported([type |-> "k", code |-> CodeOf(k)])
                                   ELSE out' = out
  <2>1. CASE KeyRead
    <3>1. \A k : CodeOf(k) = k
      BY <2>1 DEF KeyRead, ReadsEvents, CodeOf
    <3> QED BY <2>1, <3>1 DEF KeyRead
  <2>2. CASE KeyReturned
    <3>1. prog.keyboard /\ ~prog.mouse
      BY <2>2, ProgramIs DEF KeyReturned, IsProgram, Reads
    <3>2. \A k : CodeOf(k) = ExitStatus(k)
      BY <2>2 DEF KeyReturned, CodeOf
    <3> QED BY <2>2, <3>1, <3>2 DEF KeyReturned
  <2> QED BY <2>1, <2>2
<1>2. report = <<>> /\ report' = report /\ latest' = latest
  <2>1. CASE KeyRead
    BY <2>1 DEF KeyRead
  <2>2. CASE KeyReturned
    <3>1. ~ReadsEvents
      BY <2>2 DEF KeyReturned, ReadsEvents
    <3> QED BY <2>2, <3>1 DEF KeyReturned, Reads, TypeOK
  <2> QED BY <2>1, <2>2
<1>3. EndsTrack(k, c) \/ KeyTracked(k, c)
  BY <1>1, <1>2, KeyTrack
<1>4. pc = "key"
  BY <1>1 DEF ReadKey
<1>5. Speaks
  BY DEF Speaks, Kept, Reads, OutOK
<1>6. c \in 0..Len(typed) /\ c \in Nat
  BY TrackWithin DEF Reads
<1>7. CASE EndsTrack(k, c)
  <2>1. Spoken(c)'
    BY <1>1, <1>4, <1>5, <1>6, <1>7, SpokenEnd DEF EndsTrack
  <2> QED BY <1>7, <2>1 DEF EndsTrack, Follows
<1>8. CASE KeyTracked(k, c)
  <2>1. /\ c + 1 \in 1..Len(typed) /\ ~feof /\ ~feof' /\ typed[c + 1].kind = "key"
        /\ k = typed[c + 1].code /\ Track(c + 1, 0)'
    BY <1>8 DEF KeyTracked
  <2>2. Legible(typed[c + 1])
    BY <2>1, TrackFacts
  <2>3. Spoken(c + 1)'
    <3>1. CASE prog.keyboard
      <4>1. ReportOf(c + 1) = [type |-> "k", code |-> CodeOf(k)]
        BY <2>1, <2>2, SaidReport DEF Reads
      <4>2. Reported(ReportOf(c + 1))
        BY <1>1, <3>1, <4>1
      <4> QED BY <1>4, <1>5, <1>6, <2>1, <2>2, <3>1, <4>2, SpokenReport
    <3>2. CASE ~prog.keyboard
      BY <1>1, <1>4, <1>5, <1>6, <2>1, <3>2, SpokenPast
    <3> QED BY <3>1, <3>2
  <2> QED BY <2>1, <2>3 DEF Follows
<1> QED BY <1>3, <1>7, <1>8

LEMMA NextTells ==
  ASSUME Kept, Kept', [Next]_vars, Tells
  PROVE  Tells'
<1>1. prog' = prog /\ Grown /\ (Type \/ typed' = typed)
  BY NextTyped
<1> SUFFICES ASSUME ~Is("choice"), AllMeant' PROVE Follows'
  BY <1>1 DEF Tells, Is
<1>2. TypeOK /\ TypeOK' /\ TypedReports
  BY DEF Kept
<1>3. AllMeant
  BY <1>1, <1>2, MeantBefore
<1>4. Usual
  BY <1>2, <1>3, ProgramIs DEF Usual, IsProgram, Is
<1>5. PICK c, r : Track(c, r) /\ Spoken(c)
  BY <1>3 DEF Tells, Follows
<1>6. CASE Type
  BY <1>1, <1>5, <1>6, TypeFollows
<1>7. CASE ~Type
  <2>1. typed' = typed
    BY <1>1, <1>7
  <2>2. Reads
    BY <1>1, <1>2, <1>4, <2>1 DEF Reads
  <2>3. CASE HangUp \/ Again \/ Peek \/ UNCHANGED vars
    BY <1>1, <1>5, <2>1, <2>3, QuietFollows
  <2>4. CASE ReadPart \/ MouseBegins \/ MouseButton \/ MouseColumn
    BY <1>5, <2>2, <2>4, PartFollows
  <2>5. CASE MouseRow
    BY <1>5, <2>2, <2>5, RowFollows
  <2>6. CASE KeyRead \/ KeyReturned
    BY <1>5, <2>2, <2>6, KeyFollows
  <2>7. ~(Ask \/ Turn \/ TimeOut \/ CheckKey)
    BY DEF Ask, Turn, TimeOut, CheckKey, Timed
  <2> QED BY <1>7, <2>3, <2>4, <2>5, <2>6, <2>7 DEF Next, Program
<1> QED BY <1>6, <1>7

LEMMA InitTrack == ASSUME Init PROVE Track(0, 0) /\ Len(typed) = 0 /\ ~feof
<1>1. PICK p \in Programs : Started(p)
  BY DEF Init
<1>2. TypeOK
  BY InitTypeOK
<1>3. typed = <<>> /\ tty = <<>> /\ buffer = <<>> /\ feof = FALSE /\ report = <<>> /\ prog = p
      /\ key = Awaiting(IF p.console THEN "first" ELSE "raw")
      /\ latest = IF p.mouse THEN RELEASE ELSE NOTHING
  BY <1>1 DEF Started
<1>4. Len(typed) = 0 /\ Queue = <<>> /\ Len(Queue) = 0
  BY <1>3 DEF Queue
<1>5. SentUpTo[0] = <<>>
  BY <1>2, SentIs DEF SentFacts
<1>6. Position(0, 0) /\ Stream(0, 0, Queue)
  BY <1>4, <1>5 DEF Position, Stream
<1>7. key = KeyAt(typed[0 + 1], 0)
  BY <1>3 DEF KeyAt, Ready
<1>8. ReportIs(0, 0, report)
  BY <1>3 DEF ReportIs
<1>9. LatestIs(Seen(0, 0), latest)
  <2>1. Seen(0, 0) = 0
    BY DEF Seen
  <2>2. Unmarked(1, 0)
    BY DEF Unmarked
  <2> QED BY <1>3, <2>1, <2>2 DEF LatestIs
<1> QED BY <1>3, <1>4, <1>6, <1>7, <1>8, <1>9 DEF Track, At

LEMMA InitTells == Init => Tells
<1> SUFFICES ASSUME Init, ~Is("choice") PROVE Follows
  BY DEF Tells
<1>1. Track(0, 0) /\ Len(typed) = 0 /\ ~feof
  BY InitTrack
<1>2. out = <<>> /\ Len(out) = 0
  BY DEF Init, Started
<1>3. Told[0] = <<>>
  <2>1. out \in Seq(Said)
    BY <1>2
  <2> QED BY <2>1, ToldIs DEF ToldFacts
<1>4. Meanings[0] = <<>>
  BY InitTypeOK, MeaningsAre DEF MeaningFacts
<1>5. EndMark = <<>>
  BY <1>1 DEF EndMark
<1>6. Spoken(0)
  BY <1>1, <1>2, <1>3, <1>4, <1>5 DEF Spoken
<1> QED BY <1>1, <1>6 DEF Follows

-----------------------------------------------------------------------------
(* EventsArrive.                                                           *)

LEMMA PrefixBy ==
  ASSUME NEW R, NEW s \in Seq(R), NEW Q, NEW t \in Seq(Q), Len(s) <= Len(t),
         \A k \in 1..Len(s) : t[k] = s[k]
  PROVE  IsPrefix(s, t)
<1> DEFINE a == SubSeq(s, 1, Len(s))
           b == SubSeq(t, 1, Len(s))
<1>1. Len(s) \in Nat /\ Len(t) \in Nat
  OBVIOUS
<1>2. a \in Seq(R) /\ Len(a) = Len(s) /\ \A k \in 1..Len(s) : a[k] = s[k]
  BY <1>1
<1>3. b \in Seq(Q) /\ Len(b) = Len(s) /\ \A k \in 1..Len(s) : b[k] = t[k]
  BY <1>1
<1>4. a = b
  <2> HIDE DEF a, b
  <2>1. DOMAIN a = 1..Len(s) /\ DOMAIN b = 1..Len(s)
    BY <1>2, <1>3
  <2>2. \A k \in 1..Len(s) : a[k] = b[k]
    BY <1>2, <1>3
  <2>3. a = [k \in 1..Len(s) |-> a[k]] /\ b = [k \in 1..Len(s) |-> b[k]]
    BY <1>2, <1>3, <2>1
  <2> QED BY <2>2, <2>3
<1> QED BY <1>4 DEF IsPrefix

LEMMA AllRead ==
  ASSUME TypeOK, NEW c, NEW r, Track(c, r), Queue = <<>>
  PROVE  c = Len(typed)
<1>1. Position(c, r) /\ Stream(c, r, Queue)
  BY DEF Track, At
<1>2. Queue \in Seq(0..255)
  BY DEF TypeOK, Queue
<1> QED BY <1>1, <1>2, StreamHead

LEMMA FollowsArrives ==
  ASSUME TypeOK, NEW c, NEW r, Track(c, r), Spoken(c)
  PROVE  /\ IsPrefix(Told[Len(out)], Meant \o EndMark)
         /\ tty = <<>> /\ buffer = <<>> => Told[Len(out)] = Meant \o EndMark
<1> DEFINE n == Len(typed)
           all == Meanings[n]
           one == prog.name \in {"mouse", "key"} /\ all # <<>>
<1>1. c \in 0..n /\ n \in 0..n /\ n \in Nat
  BY TrackWithin
<1>2. PICK R : Meanings[c] \in Seq(R) /\ Meanings[c] \o <<>> = Meanings[c]
  BY <1>1, MeaningTypes
<1>3. PICK Q : all \in Seq(Q) /\ all \o <<>> = all
  BY <1>1, MeaningTypes
<1>4. feof => c = n
  BY DEF Track
<1>5. Len(Meanings[c]) <= Len(all) /\ \A k \in 1..Len(Meanings[c]) : all[k] = Meanings[c][k]
  BY <1>1, MeaningsGrow DEF MeaningPrefixes
<1>6. tty = <<>> /\ buffer = <<>> => c = n
  BY AllRead DEF Queue
<1>7. Meant = IF one THEN <<all[1]>> ELSE all
  BY DEF Meant
<1>8. EndMark # <<>> => feof /\ prog.keyboard /\ pc = "done"
  BY DEF EndMark, Spoken
<1>9. Told[Len(out)] = Meanings[c] \o EndMark
  BY DEF Spoken
<1> HIDE DEF n, all, one
<1>10. CASE EndMark # <<>>
  <2>1. c = n /\ Meanings[c] = all /\ feof
    BY <1>4, <1>8, <1>10 DEF all
  <2>2. ~one
    BY <2>1 DEF Spoken, one
  <2>3. Told[Len(out)] = Meant \o EndMark
    BY <1>7, <1>9, <2>1, <2>2
  <2>4. \E P : Meant \o EndMark \in Seq(P)
    <3>1. PICK e : EndMark = <<e>>
      BY <1>10 DEF EndMark
    <3>2. Meant \in Seq(Q \cup {e}) /\ EndMark \in Seq(Q \cup {e})
      <4>1. Meant \in Seq(Q)
        BY <1>3, <1>7, <2>2
      <4>2. \A S, T : S \subseteq T => Seq(S) \subseteq Seq(T)
        OBVIOUS
      <4>3. Q \subseteq Q \cup {e}
        OBVIOUS
      <4>4. <<e>> \in Seq(Q \cup {e})
        OBVIOUS
      <4> QED BY <3>1, <4>1, <4>2, <4>3, <4>4, Zenon
    <3>3. Meant \o EndMark \in Seq(Q \cup {e})
      BY <3>2, ConcatProperties
    <3> QED BY <3>3
  <2>5. PICK P, s : s = Meant \o EndMark /\ s \in Seq(P)
    BY <2>4
  <2>6. IsPrefix(s, s)
    <3>1. Len(s) <= Len(s)
      BY <2>5
    <3> QED BY <2>5, <3>1, PrefixBy
  <2> QED BY <2>3, <2>5, <2>6
<1>11. CASE EndMark = <<>>
  <2>1. Told[Len(out)] = Meanings[c]
    BY <1>2, <1>9, <1>11
  <2>2. CASE ~one
    <3>1. Meant \o EndMark = all
      BY <1>3, <1>7, <1>11, <2>2
    <3>2. IsPrefix(Meanings[c], all)
      BY <1>2, <1>3, <1>5, PrefixBy
    <3>3. tty = <<>> /\ buffer = <<>> => Meanings[c] = all
      BY <1>6 DEF all
    <3> QED BY <2>1, <3>1, <3>2, <3>3
  <2>3. CASE one
    <3>1. PICK e : e = all[1]
      OBVIOUS
    <3>2. Meant = <<e>> /\ <<e>> \o EndMark = <<e>>
      BY <1>7, <1>11, <2>3, <3>1
    <3>3. Meanings[c] = <<>> \/ Meanings[c] = <<e>>
      <4> SUFFICES ASSUME Meanings[c] # <<>> PROVE Meanings[c] = <<e>>
        OBVIOUS
      <4>1. Len(Meanings[c]) = 1
        BY <2>3 DEF Spoken, one
      <4>2. all[1] = Meanings[c][1]
        BY <1>5, <4>1
      <4>3. Meanings[c] = <<Meanings[c][1]>>
        BY <1>2, <4>1
      <4> QED BY <3>1, <4>2, <4>3
    <3>4. IsPrefix(Meanings[c], <<e>>)
      <4>1. PICK m, t : m = Meanings[c] /\ t = <<e>>
        OBVIOUS
      <4>2. t \in Seq({e}) /\ Len(t) = 1 /\ m \in Seq(R)
        BY <1>2, <4>1
      <4>3. (m = <<>> /\ Len(m) = 0) \/ m = t
        BY <3>3, <4>1
      <4>4. Len(m) <= Len(t) /\ \A k \in 1..Len(m) : t[k] = m[k]
        <5>1. CASE m = <<>> /\ Len(m) = 0
          <6>1. Len(m) <= Len(t) /\ 1..Len(m) = {}
            BY <4>2, <5>1
          <6> QED BY <6>1
        <5>2. CASE m = t
          <6>1. Len(m) = 1 /\ Len(t) = 1
            BY <4>2, <5>2
          <6>2. Len(m) <= Len(t)
            BY <6>1
          <6> QED BY <5>2, <6>2, Zenon
        <5> QED BY <4>3, <5>1, <5>2
      <4>5. IsPrefix(m, t)
        BY <4>2, <4>4, PrefixBy
      <4> QED BY <4>1, <4>5
    <3>5. tty = <<>> /\ buffer = <<>> => Meanings[c] = <<e>>
      <4> SUFFICES ASSUME c = n PROVE Meanings[c] # <<>>
        BY <1>6, <3>3
      <4> QED BY <2>3 DEF one, all
    <3> QED BY <2>1, <3>2, <3>4, <3>5
  <2> QED BY <2>2, <2>3
<1> QED BY <1>10, <1>11

LEMMA TellsArrives == Kept /\ Tells => EventsArrive
<1> SUFFICES ASSUME Kept, Tells, ~Is("choice"), AllMeant
             PROVE  /\ IsPrefix(Told[Len(out)], Meant \o EndMark)
                    /\ tty = <<>> /\ buffer = <<>> => Told[Len(out)] = Meant \o EndMark
  BY Zenon DEF EventsArrive, EndMark
<1>1. PICK c, r : Track(c, r) /\ Spoken(c)
  BY DEF Tells, Follows
<1> QED BY <1>1, FollowsArrives DEF Kept

\* EventsArrive: the reports of darkbox -i, -m, -y, -k and -k_ are what the user
\* did, each event once and in order, however many events there are, and
\* wherever the reading of one stops and starts again; those of -k and -k_ are
\* the eight bits of the code that an exit status keeps, never 0 for a key.
THEOREM TheEventsArrive == Spec => []EventsArrive
<1>1. Init => Kept /\ Tells
  BY InitKept, InitTells
<1>2. Kept /\ Tells /\ [Next]_vars => (Kept /\ Tells)'
  BY NextKept, NextTells
<1> QED BY <1>1, <1>2, TellsArrives, PTL DEF Spec

-----------------------------------------------------------------------------
(* choice: which of its keys a key is.                                     *)

LEMMA FirstIs ==
  ASSUME NEW P, P \subseteq Nat \ {0}
  PROVE  IF P = {} THEN First(P) = 0 ELSE First(P) \in P /\ First(P) > 0
<1>1. CASE P = {}
  BY <1>1 DEF First
<1>2. CASE P # {}
  <2>1. \E m \in P : \A k \in P : m <= k
    BY <1>2, NatMin
  <2>2. First(P) \in P
    BY <1>2, <2>1 DEF First, Min
  <2>3. \A m \in P : m > 0
    OBVIOUS
  <2> QED BY <1>2, <2>2, <2>3
<1> QED BY <1>1, <1>2

LEMMA IndexIs ==
  ASSUME NEW S, NEW str \in Seq(S), NEW k
  PROVE  /\ (\E i \in DOMAIN str : str[i] = k) =>
              IndexOf(str, k) > 0 /\ IndexOf(str, k) \in DOMAIN str /\ str[IndexOf(str, k)] = k
         /\ ~(\E i \in DOMAIN str : str[i] = k) => IndexOf(str, k) = 0
<1> DEFINE P == {i \in DOMAIN str : str[i] = k}
<1>1. P \subseteq Nat \ {0}
  BY DEF P
<1>2. IF P = {} THEN First(P) = 0 ELSE First(P) \in P /\ First(P) > 0
  <2> HIDE DEF P
  <2> QED BY <1>1, FirstIs
<1>3. IndexOf(str, k) = First(P)
  BY DEF IndexOf
<1> HIDE DEF IndexOf
<1>4. CASE P = {}
  BY <1>2, <1>3, <1>4
<1>5. CASE P # {}
  BY <1>2, <1>3, <1>5
<1> QED BY <1>4, <1>5

\* Without the case, an ASCII key is looked for among lower-case letters.
LEMMA CaseIndexIs ==
  ASSUME NEW str \in Seq(1..127), NEW k
  PROVE  /\ (\E i \in DOMAIN str : ToLower(str[i]) = ToLower(k)) =>
              /\ strcasechr(str, k) > 0 /\ strcasechr(str, k) \in DOMAIN str
              /\ ToLower(str[strcasechr(str, k)]) = ToLower(k)
         /\ ~(\E i \in DOMAIN str : ToLower(str[i]) = ToLower(k)) => strcasechr(str, k) = 0
<1> DEFINE P == {i \in DOMAIN str : ToLower(str[i]) = ToLower(k)}
<1>1. P \subseteq Nat \ {0}
  BY DEF P
<1>2. IF P = {} THEN First(P) = 0 ELSE First(P) \in P /\ First(P) > 0
  <2> HIDE DEF P
  <2> QED BY <1>1, FirstIs
<1>3. strcasechr(str, k) = First(P)
  <2>1. \A i \in DOMAIN str : Signed(str[i]) = str[i]
    <3> SUFFICES ASSUME NEW i \in DOMAIN str PROVE Signed(str[i]) = str[i]
      OBVIOUS
    <3>1. str[i] \in 1..127
      <4> DEFINE ASCII == 1..127
      <4>1. str \in Seq(ASCII) /\ i \in 1..Len(str)
        OBVIOUS
      <4> HIDE DEF ASCII
      <4>2. str[i] \in ASCII
        BY <4>1, ElementOfSeq
      <4> QED BY <4>2 DEF ASCII
    <3>2. \A c \in 1..127 : Signed(c) = c
      BY DEF Signed
    <3> QED BY <3>1, <3>2
  <2>2. {i \in DOMAIN str : ToLower(Signed(str[i])) = ToLower(k)} = P
    BY <2>1
  <2> QED BY <2>2 DEF strcasechr
<1> HIDE DEF strcasechr
<1>4. CASE P = {}
  BY <1>2, <1>3, <1>4
<1>5. CASE P # {}
  BY <1>2, <1>3, <1>5
<1> QED BY <1>4, <1>5

LEMMA WiderSeq ==
  ASSUME NEW S, NEW T, S \subseteq T, NEW s \in Seq(S)
  PROVE  s \in Seq(T)
OBVIOUS

\* strchr does not find the end of the string when it looks for a character.
LEMMA StrchrIs ==
  ASSUME NEW str \in Seq(1..255), NEW k \in 1..255
  PROVE  /\ (\E i \in DOMAIN str : str[i] = k) =>
              strchr(str, k) > 0 /\ strchr(str, k) \in DOMAIN str /\ str[strchr(str, k)] = k
         /\ ~(\E i \in DOMAIN str : str[i] = k) => strchr(str, k) = 0
<1>1. PICK s, n : s = Append(str, 0) /\ n = Len(str)
  OBVIOUS
<1>2. str \in Seq(0..255)
  <2>1. 1..255 \subseteq 0..255
    OBVIOUS
  <2> QED BY <2>1, WiderSeq
<1>3. /\ n \in Nat /\ s \in Seq(0..255) /\ Len(s) = n + 1 /\ s[n + 1] = 0
      /\ \A i \in 1..n : s[i] = str[i]
  BY <1>1, <1>2, AppendProperties
<1>4. k % 256 = k /\ k # 0
  OBVIOUS
<1>5. strchr(str, k) = IndexOf(s, k)
  BY <1>1, <1>4 DEF strchr
<1>6. DOMAIN str = 1..n /\ DOMAIN s = 1..(n + 1)
  BY <1>1, <1>2, <1>3
<1>7. \A i \in DOMAIN s : s[i] = k <=> i \in DOMAIN str /\ str[i] = k
  <2> SUFFICES ASSUME NEW i \in 1..(n + 1) PROVE s[i] = k <=> i \in 1..n /\ str[i] = k
    BY <1>6
  <2>1. CASE i = n + 1
    BY <1>3, <1>4, <2>1
  <2>2. CASE i # n + 1
    <3>1. i \in 1..n
      BY <1>3, <2>2
    <3> QED BY <1>3, <3>1
  <2> QED BY <2>1, <2>2
<1>8. DOMAIN str \subseteq DOMAIN s
  BY <1>3, <1>6
<1>9. /\ (\E i \in DOMAIN s : s[i] = k) =>
           IndexOf(s, k) > 0 /\ IndexOf(s, k) \in DOMAIN s /\ s[IndexOf(s, k)] = k
      /\ ~(\E i \in DOMAIN s : s[i] = k) => IndexOf(s, k) = 0
  BY <1>3, IndexIs
<1>10. PICK x : x = IndexOf(s, k)
  OBVIOUS
<1> QED BY <1>5, <1>7, <1>8, <1>9, <1>10, Zenon

\* Where a key is in the list of keys.
FoundAt(index, k) ==
  IF \E i \in DOMAIN prog.args.keys : Matches(i, k)
  THEN index > 0 /\ index \in DOMAIN prog.args.keys /\ Matches(index, k)
  ELSE index = 0

\* A key that is a choice is found, and one that is none is not.
LEMMA ChoiceFound ==
  ASSUME TypeOK, NEW k \in Int, prog.args.case_sensitive => k \in 1..255,
         prog.args.case_sensitive \/ prog.args.keys \in Seq(1..127),
         NEW index, index = s_strchr(prog.args.keys, k, prog.args.case_sensitive)
  PROVE  FoundAt(index, k)
<1> SUFFICES IF \E i \in DOMAIN prog.args.keys : Matches(i, k)
             THEN index > 0 /\ index \in DOMAIN prog.args.keys /\ Matches(index, k)
             ELSE index = 0
  BY Zenon DEF FoundAt
<1>1. PICK str : str = prog.args.keys
  OBVIOUS
<1>2. str \in Seq(1..255)
  BY <1>1, ProgramIs DEF IsProgram
<1>3. CASE prog.args.case_sensitive
  <2>1. index = strchr(str, k) /\ k \in 1..255
    BY <1>1, <1>3 DEF s_strchr
  <2>2. \A i : Matches(i, k) <=> str[i] = k
    BY <1>1, <1>3, Zenon DEF Matches
  <2>3. /\ (\E i \in DOMAIN str : str[i] = k) => index > 0 /\ index \in DOMAIN str /\ str[index] = k
        /\ ~(\E i \in DOMAIN str : str[i] = k) => index = 0
    BY <1>2, <2>1, StrchrIs, ZenonT(60)
  <2> QED BY <1>1, <2>2, <2>3, Zenon
<1>4. CASE ~prog.args.case_sensitive
  <2>1. index = strcasechr(str, k)
    BY <1>1, <1>4 DEF s_strchr
  <2>2. \A i : Matches(i, k) <=> ToLower(str[i]) = ToLower(k)
    BY <1>1, <1>4, Zenon DEF Matches
  <2>3. /\ (\E i \in DOMAIN str : ToLower(str[i]) = ToLower(k)) =>
             index > 0 /\ index \in DOMAIN str /\ ToLower(str[index]) = ToLower(k)
        /\ ~(\E i \in DOMAIN str : ToLower(str[i]) = ToLower(k)) => index = 0
    <3>1. str \in Seq(1..127)
      BY <1>1, <1>4
    <3> QED BY <2>1, <3>1, CaseIndexIs
  <2> QED BY <1>1, <2>2, <2>3, Zenon
<1> QED BY <1>3, <1>4

-----------------------------------------------------------------------------
(* The inductive invariant of choice.                                      *)

\* None of the first c events decides.
Silent(c) == \A j \in 1..c : ~Decides(typed[j])

\* The answer of an input that decides nothing.
Given(end, left, answer) ==
  \/ end /\ answer = 0
  \/ /\ Timed /\ left = 0
     /\ answer \in DOMAIN prog.args.keys /\ prog.args.keys[answer] = prog.args.default_key

ChosenWith(c, at, end, left, answer) ==
  /\ at # "done" => ~end /\ Silent(c)
  /\ at = "done" =>
       \/ /\ c >= 1 /\ Decides(typed[c]) /\ Silent(c - 1) /\ Answers(answer, typed[c].code)
       \/ Silent(c) /\ Given(end, left, answer)

Chosen(c) == ChosenWith(c, pc, feof, waits, out[1])

\* The keys that AnswerIsMeant is about.
Distinct ==
  /\ AllMeant
  /\ Len(prog.args.keys) <= 255
  /\ prog.args.case_sensitive \/ prog.args.keys \in Seq(1..127)
  /\ Timed => prog.args.default_key \in ToSet(prog.args.keys)
  /\ prog.args.case_sensitive \/ ~prog.console =>
       \A i \in DOMAIN typed : typed[i].code \in 1..255

Picks == Is("choice") /\ Distinct => \E c, r : Track(c, r) /\ Chosen(c)

LEMMA DistinctBefore ==
  ASSUME TypeOK, TypeOK', Grown, prog' = prog, Distinct'
  PROVE  Distinct /\ Usual
<1>1. AllMeant
  BY MeantBefore DEF Distinct
<1>2. ASSUME NEW i \in DOMAIN typed
      PROVE  i \in DOMAIN typed' /\ typed'[i] = typed[i]
  <2>1. typed \in Seq(prog.events) /\ typed' \in Seq(prog'.events)
    BY DEF TypeOK
  <2>2. /\ DOMAIN typed = 1..Len(typed) /\ Len(typed) \in Nat
        /\ DOMAIN typed' = 1..Len(typed') /\ Len(typed') \in Nat
    BY <2>1
  <2> QED BY <2>2 DEF Grown
<1>3. /\ Len(prog.args.keys) <= 255
      /\ prog.args.case_sensitive \/ prog.args.keys \in Seq(1..127)
      /\ Timed => prog.args.default_key \in ToSet(prog.args.keys)
      /\ prog.args.case_sensitive \/ ~prog.console =>
           \A i \in DOMAIN typed : typed[i].code \in 1..255
  BY <1>2, Zenon DEF Distinct, Timed, Is
<1> QED BY <1>1, <1>3 DEF Distinct, Usual

LEMMA ChosenNow ==
  ASSUME Grown, prog' = prog, NEW d \in Nat, d <= Len(typed),
         ChosenWith(d, pc', feof', waits', out'[1])
  PROVE  Chosen(d)'
<1>1. \A e : Decides(e)' <=> Decides(e)
  BY Zenon DEF Decides, IsChoice, Matches
<1>2. \A i, k : Answers(i, k)' <=> Answers(i, k)
  BY Zenon DEF Answers, Matches
<1>3. \A i \in 1..d : typed'[i] = typed[i]
  BY DEF Grown
<1>4. \A c \in Nat : c <= d /\ Silent(c) => Silent(c)'
  <2> SUFFICES ASSUME NEW c \in Nat, c <= d, Silent(c), NEW j \in 1..c
               PROVE  ~Decides(typed[j])'
    BY DEF Silent
  <2>1. ~Decides(typed[j]) /\ j \in 1..d
    BY DEF Silent
  <2>2. typed'[j] = typed[j]
    BY <1>3, <2>1
  <2> QED BY <1>1, <2>1, <2>2
<1>5. \A e, l, a : Given(e, l, a)' <=> Given(e, l, a)
  BY Zenon DEF Given, Timed, Is
<1>6. CASE pc' # "done"
  <2>1. ~feof' /\ Silent(d)'
    BY <1>4, <1>6 DEF ChosenWith
  <2> QED BY <1>6, <2>1 DEF Chosen, ChosenWith
<1>7. CASE pc' = "done"
  <2>1. CASE /\ d >= 1 /\ Decides(typed[d]) /\ Silent(d - 1)
             /\ Answers(out'[1], typed[d].code)
    <3>1. d \in 1..d /\ d - 1 \in Nat /\ d - 1 <= d
      BY <2>1
    <3>2. typed'[d] = typed[d]
      BY <1>3, <3>1
    <3>3. Decides(typed[d])' /\ Answers(out[1], typed[d].code)'
      BY <1>1, <1>2, <2>1, <3>2
    <3>4. Silent(d - 1)'
      BY <1>4, <2>1, <3>1
    <3> QED BY <1>7, <2>1, <3>3, <3>4 DEF Chosen, ChosenWith
  <2>2. CASE Silent(d) /\ Given(feof', waits', out'[1])
    <3>1. Silent(d)' /\ Given(feof, waits, out[1])'
      BY <1>4, <1>5, <2>2
    <3> QED BY <1>7, <3>1 DEF Chosen, ChosenWith
  <2> QED BY <1>7, <2>1, <2>2 DEF ChosenWith
<1> QED BY <1>6, <1>7

\* An exit status tells the places of such a list apart.
LEMMA PlaceStatus ==
  ASSUME TypeOK, Distinct, NEW index \in DOMAIN prog.args.keys \cup {0}
  PROVE  ExitStatus(index) = index
<1>1. prog.args.keys \in Seq(1..255)
  BY ProgramIs DEF IsProgram
<1>2. DOMAIN prog.args.keys = 1..Len(prog.args.keys) /\ Len(prog.args.keys) \in Nat
  BY <1>1
<1>3. index \in 0..255
  <2>1. PICK n : n = Len(prog.args.keys)
    OBVIOUS
  <2>2. n \in Nat /\ n <= 255 /\ index \in (1..n) \cup {0}
    BY <1>2, <2>1 DEF Distinct
  <2> QED BY <2>2
<1> QED BY <1>3 DEF ExitStatus

\* A step that answers nothing and reads no key.
LEMMA ChosenQuiet ==
  ASSUME Grown, prog' = prog, NEW c \in Nat, c <= Len(typed), Chosen(c),
         \/ pc # "done" /\ pc' # "done" /\ feof' = feof
         \/ pc' = pc /\ feof' = feof /\ waits' = waits /\ out' = out
  PROVE  Chosen(c)'
<1>1. ChosenWith(c, pc', feof', waits', out'[1])
  BY DEF Chosen, ChosenWith
<1> QED BY <1>1, ChosenNow

\* The time-out answers with the default.
LEMMA TimeOutChosen ==
  ASSUME Kept, Grown, prog' = prog, NEW c \in Nat, c <= Len(typed), Chosen(c), Distinct, TimeOut
  PROVE  Chosen(c)'
<1>1. PICK index : index = IndexOf(prog.args.keys, prog.args.default_key)
  OBVIOUS
<1>2. prog.args.keys \in Seq(1..255)
  BY ProgramIs DEF IsProgram, Kept
<1>3. \E i \in DOMAIN prog.args.keys : prog.args.keys[i] = prog.args.default_key
  <2>1. prog.args.default_key \in ToSet(prog.args.keys)
    BY DEF Distinct, TimeOut
  <2> QED BY <2>1 DEF ToSet
<1>4. /\ index > 0 /\ index \in DOMAIN prog.args.keys
      /\ prog.args.keys[index] = prog.args.default_key
  BY <1>1, <1>2, <1>3, IndexIs
<1>5. Answer(index) /\ Timed /\ waits = 0 /\ waits' = waits /\ pc = "run"
  BY <1>1, <1>4 DEF TimeOut
<1>6. pc' = "done" /\ out'[1] = index
  <2>1. ExitStatus(index) = index
    BY <1>4, PlaceStatus DEF Kept
  <2> QED BY <1>5, <2>1 DEF Answer
<1>7. Silent(c)
  BY <1>5 DEF Chosen, ChosenWith
<1>8. Given(feof', waits', out'[1])
  BY <1>4, <1>5, <1>6 DEF Given
<1>9. ChosenWith(c, pc', feof', waits', out'[1])
  BY <1>6, <1>7, <1>8 DEF ChosenWith
<1> QED BY <1>9, ChosenNow

\* check_key.
LEMMA CheckKeyChosen ==
  ASSUME Kept, Reads, Distinct, Is("choice"), NEW c, NEW r, Track(c, r), Chosen(c), CheckKey
  PROVE  \E d, s : (Track(d, s) /\ Chosen(d))'
<1> DEFINE keys == prog.args.keys
<1>1. PICK k, index :
        /\ index = s_strchr(keys, k, prog.args.case_sensitive)
        /\ ReadKey(k)
        /\ IF k \in {Eof, 3} THEN Answer(0)
           ELSE IF index > 0 THEN Answer(index)
           ELSE pc' = "run" /\ UNCHANGED out
  BY DEF CheckKey
<1>2. report' = report /\ latest' = latest
  BY DEF CheckKey
<1>3. report = <<>>
  BY DEF ReadsEvents, Is, Reads, TypeOK
<1>4. ~prog.mouse
  BY ProgramIs DEF IsProgram, Is, Reads
<1>5. EndsTrack(k, c) \/ KeyTracked(k, c)
  BY <1>1, <1>2, <1>3, <1>4, KeyTrack
<1>6. c \in Nat /\ c <= Len(typed) /\ Len(typed) \in Nat
  BY TrackWithin DEF Reads
<1>7. pc = "key" /\ ~feof /\ Silent(c)
  <2>1. pc = "key"
    BY <1>1 DEF ReadKey
  <2> QED BY <2>1 DEF Chosen, ChosenWith
<1>8. Grown /\ prog' = prog
  BY DEF Reads
<1>11. ExitStatus(0) = 0
  BY DEF ExitStatus
<1>9. CASE EndsTrack(k, c)
  <2>1. k = Eof /\ feof' = TRUE /\ Track(c, 0)'
    BY <1>9 DEF EndsTrack
  <2>2. pc' = "done" /\ out'[1] = 0
    BY <1>1, <1>11, <2>1 DEF Answer
  <2>3. ChosenWith(c, pc', feof', waits', out'[1])
    BY <1>7, <2>1, <2>2 DEF ChosenWith, Given
  <2>4. Chosen(c)'
    BY <1>6, <1>8, <2>3, ChosenNow
  <2> QED BY <2>1, <2>4
<1>10. CASE KeyTracked(k, c)
  <2>1. /\ c + 1 \in 1..Len(typed) /\ ~feof' /\ typed[c + 1].kind = "key"
        /\ k = typed[c + 1].code /\ Track(c + 1, 0)'
    BY <1>10 DEF KeyTracked
  <2>2. k \in Int
    BY <1>1, ReadKeyTypes DEF Reads
  <2>3. prog.args.case_sensitive => k \in 1..255
    <3>1. c + 1 \in DOMAIN typed
      BY <2>1 DEF Reads, TypeOK
    <3> QED BY <2>1, <3>1 DEF Distinct
  <2>4. IF \E i \in DOMAIN keys : Matches(i, k)
        THEN index > 0 /\ index \in DOMAIN keys /\ Matches(index, k)
        ELSE index = 0
    <3>1. prog.args.case_sensitive \/ keys \in Seq(1..127)
      BY DEF Distinct
    <3>2. TypeOK
      BY Zenon DEF Reads
    <3>3. index = s_strchr(prog.args.keys, k, prog.args.case_sensitive)
      BY <1>1, Zenon
    <3>4. FoundAt(index, k)
      BY <2>2, <2>3, <3>1, <3>2, <3>3, ChoiceFound, Zenon
    <3> QED BY <3>4 DEF FoundAt
  <2>5. PICK e, d : e = typed[c + 1] /\ d = c + 1
    OBVIOUS
  <2>6. k = e.code /\ d \in Nat /\ d <= Len(typed) /\ d >= 1 /\ d - 1 = c /\ e = typed[d]
    BY <1>6, <2>1, <2>5
  <2>7. Decides(e) <=> (\E i \in DOMAIN keys : Matches(i, k)) \/ k \in {3, Unknown}
    BY <2>6, Zenon DEF Decides, IsChoice
  <2>8. Silent(d) <=> ~Decides(e)
    <3>1. \A j \in 1..d : j \in 1..c \/ j = d
      BY <1>6, <2>6
    <3>2. d \in 1..d
      BY <2>6
    <3> QED BY <1>7, <2>6, <3>1, <3>2 DEF Silent
  <2>9. ChosenWith(d, pc', feof', waits', out'[1])
    <3>1. CASE k \in {3, Unknown}
      <4>1. pc' = "done" /\ out'[1] = 0
        BY <1>1, <1>11, <3>1 DEF Answer, Eof, Unknown
      <4>2. Answers(out'[1], k)
        BY <3>1, <4>1 DEF Answers
      <4> QED BY <1>7, <2>6, <2>7, <3>1, <4>1, <4>2 DEF ChosenWith
    <3>2. CASE k \notin {3, Unknown} /\ \E i \in DOMAIN keys : Matches(i, k)
      <4>1. Answer(index)
        BY <1>1, <2>4, <3>2 DEF Eof, Unknown
      <4>2. pc' = "done" /\ out'[1] = index
        <5>1. ExitStatus(index) = index
          BY <2>4, <3>2, PlaceStatus DEF Kept
        <5> QED BY <4>1, <5>1 DEF Answer
      <4>3. Answers(out'[1], k)
        BY <2>4, <3>2, <4>2 DEF Answers
      <4> QED BY <1>7, <2>6, <2>7, <3>2, <4>2, <4>3 DEF ChosenWith
    <3>3. CASE k \notin {3, Unknown} /\ ~(\E i \in DOMAIN keys : Matches(i, k))
      <4>1. index = 0
        BY <2>4, <3>3
      <4>2. pc' = "run"
        BY <1>1, <3>3, <4>1 DEF Eof, Unknown
      <4> QED BY <2>1, <2>7, <2>8, <3>3, <4>2 DEF ChosenWith
    <3> QED BY <3>1, <3>2, <3>3
  <2>10. Chosen(d)'
    BY <1>8, <2>6, <2>9, ChosenNow
  <2> QED BY <2>1, <2>5, <2>10
<1> QED BY <1>5, <1>9, <1>10

LEMMA NextPicks ==
  ASSUME Kept, Kept', [Next]_vars, Picks
  PROVE  Picks'
<1>1. prog' = prog /\ Grown /\ (Type \/ typed' = typed)
  BY NextTyped
<1> SUFFICES ASSUME Is("choice"), Distinct' PROVE \E d, s : (Track(d, s) /\ Chosen(d))'
  BY <1>1 DEF Picks, Is
<1>2. TypeOK /\ TypeOK' /\ TypedReports
  BY DEF Kept
<1>3. Distinct /\ Usual
  BY <1>1, <1>2, DistinctBefore
<1>4. PICK c, r : Track(c, r) /\ Chosen(c)
  BY <1>3 DEF Picks
<1>5. c \in Nat /\ c <= Len(typed)
  BY <1>2, <1>4, TrackWithin
<1>6. CASE Type
  <2>1. Track(c, r)'
    BY <1>1, <1>4, <1>6, TypeTrack DEF Kept
  <2>2. pc' = pc /\ feof' = feof /\ waits' = waits /\ out' = out
    BY <1>6 DEF Type
  <2>3. Chosen(c)'
    BY <1>1, <1>4, <1>5, <2>2, ChosenQuiet
  <2> QED BY <2>1, <2>3
<1>7. CASE ~Type
  <2>1. typed' = typed
    BY <1>1, <1>7
  <2>2. Reads
    BY <1>1, <1>2, <1>3, <2>1 DEF Reads
  <2>3. CASE HangUp \/ Ask \/ Turn \/ TimeOut \/ UNCHANGED vars
    <3>1. /\ Queue' = Queue /\ key' = key /\ report' = report /\ latest' = latest /\ feof' = feof
      BY <2>3 DEF HangUp, Ask, Turn, TimeOut, vars, Queue
    <3>2. Track(c, r)'
      BY <1>1, <1>2, <1>4, <2>1, <3>1, QuietTrack
    <3>3. Chosen(c)'
      <4>1. CASE TimeOut
        BY <1>1, <1>3, <1>4, <1>5, <4>1, TimeOutChosen
      <4>2. CASE ~TimeOut
        <5>1. \/ pc # "done" /\ pc' # "done" /\ feof' = feof
              \/ pc' = pc /\ feof' = feof /\ waits' = waits /\ out' = out
          BY <2>3, <4>2 DEF HangUp, Ask, Turn, vars
        <5> QED BY <1>1, <1>4, <1>5, <5>1, ChosenQuiet
      <4> QED BY <4>1, <4>2
    <3> QED BY <3>2, <3>3
  <2>4. CASE ReadPart
    <3>1. feof' = feof /\ Track(c, r + 1)'
      BY <1>4, <2>2, <2>4, PartTrack
    <3>2. pc = "key" /\ pc' = pc
      BY <2>4 DEF ReadPart
    <3>3. Chosen(c)'
      BY <1>1, <1>4, <1>5, <3>1, <3>2, ChosenQuiet
    <3> QED BY <3>1, <3>3
  <2>5. CASE CheckKey
    BY <1>3, <1>4, <2>2, <2>5, CheckKeyChosen
  <2>6. ~(Again \/ Peek \/ KeyReturned)
    BY DEF Again, Peek, KeyReturned, Is
  <2>7. ~(MouseBegins \/ MouseButton \/ MouseColumn \/ MouseRow \/ KeyRead)
    <3>1. ~ReadsEvents
      BY DEF ReadsEvents, Is
    <3>2. report = <<>> /\ Len(report) = 0
      BY <1>2, <3>1 DEF TypeOK
    <3> QED BY <3>1, <3>2 DEF MouseBegins, MouseButton, MouseColumn, MouseRow, KeyRead
  <2> QED BY <1>7, <2>3, <2>4, <2>5, <2>6, <2>7 DEF Next, Program
<1> QED BY <1>6, <1>7

LEMMA InitPicks == Init => Picks
<1> SUFFICES ASSUME Init, Is("choice") PROVE \E c, r : Track(c, r) /\ Chosen(c)
  BY DEF Picks
<1>1. Track(0, 0) /\ ~feof
  BY InitTrack
<1>2. pc # "done"
  BY DEF Init, Started
<1>3. Chosen(0)
  BY <1>1, <1>2 DEF Chosen, ChosenWith, Silent
<1> QED BY <1>1, <1>3

-----------------------------------------------------------------------------
(* AnswerIsMeant.                                                          *)

\* The events that are read as a whole are those before the place.
LEMMA ConsumedIs ==
  ASSUME TypeOK, NEW c, NEW r, Track(c, r), NEW i \in 1..Len(typed)
  PROVE  Consumed(i) <=> i <= c
<1> DEFINE n == Len(typed)
<1>1. Position(c, r) /\ Stream(c, r, Queue)
  BY DEF Track, At
<1>2. c \in 0..n /\ c \in Nat /\ r \in Nat /\ n \in Nat /\ i \in 0..n
  BY TrackWithin
<1>3. PICK p, q, u, v, t, b : /\ p = Len(SentUpTo[c]) /\ q = Len(SentUpTo[i])
                              /\ u = Len(SentUpTo[n]) /\ v = Len(SentUpTo[c + 1])
                              /\ t = Len(tty) /\ b = Len(buffer)
  OBVIOUS
<1>4. p \in Nat /\ q \in Nat /\ u \in Nat /\ t \in Nat /\ b \in Nat
  <2>1. n \in 0..n
    BY <1>2
  <2>2. p \in Nat /\ q \in Nat /\ u \in Nat
    BY <1>2, <1>3, <2>1, SentLengths DEF Lengths
  <2>3. t \in Nat /\ b \in Nat
    BY <1>3 DEF TypeOK
  <2> QED BY <2>2, <2>3
<1>5. p + r + (b + t) = u
  <2>1. Len(Queue) = b + t
    BY <1>3, ConcatProperties DEF Queue, TypeOK
  <2> QED BY <1>1, <1>3, <2>1 DEF Stream
<1>6. Consumed(i) <=> q <= u - t - b
  BY <1>3 DEF Consumed
<1>7. u - t - b = p + r
  BY <1>2, <1>4, <1>5
<1>8. i <= c => q <= p
  <2> SUFFICES ASSUME i <= c PROVE q <= p
    OBVIOUS
  <2>1. i \in 0..c
    BY <1>2
  <2> QED BY <1>2, <1>3, <2>1, SentPrefixes DEF PrefixFacts
<1>9. c < i => p + r < q
  <2> SUFFICES ASSUME c < i PROVE p + r < q
    OBVIOUS
  <2>1. c + 1 \in 1..n /\ c + 1 \in 0..n /\ c + 1 \in 0..i /\ c \in 0..i /\ (c + 1) - 1 = c
    BY <1>2
  <2>2. v <= q /\ p < q
    BY <1>2, <1>3, <2>1, SentPrefixes DEF PrefixFacts
  <2>3. PICK m : m = Len(Sent(typed[c + 1]))
    OBVIOUS
  <2>4. v = p + m /\ m \in Nat /\ v \in Nat
    <3>1. SentAfter(c + 1)
      BY <2>1, SentJoined
    <3> QED BY <1>3, <2>1, <2>3, <3>1 DEF SentAfter
  <2>5. CASE r = 0
    BY <1>4, <2>2, <2>5
  <2>6. CASE r > 0
    <3>1. r < m
      BY <1>1, <2>3, <2>6 DEF Position
    <3>2. p + r < p + m
      BY <1>2, <1>4, <2>4, <3>1
    <3> QED BY <1>2, <1>4, <2>2, <2>4, <3>2
  <2> QED BY <1>2, <2>5, <2>6
<1> HIDE DEF n
<1>10. q <= p + r <=> i <= c
  <2>1. CASE i <= c
    <3>1. q <= p
      BY <1>8, <2>1
    <3> QED BY <1>2, <1>4, <2>1, <3>1
  <2>2. CASE c < i
    <3>1. p + r < q
      BY <1>9, <2>2
    <3> QED BY <1>2, <1>4, <2>2, <3>1
  <2>3. i \in Nat
    OBVIOUS
  <2> QED BY <1>2, <2>1, <2>2, <2>3
<1> QED BY <1>6, <1>7, <1>10

LEMMA PicksAnswers == Kept /\ Picks => AnswerIsMeant
<1> SUFFICES ASSUME Kept, Picks, Is("choice"), pc = "done", Distinct
             PROVE  LET read == {i \in DOMAIN typed : Consumed(i) /\ Decides(typed[i])}
                    IN  IF read # {}
                        THEN \E i \in read : Answers(out[1], typed[i].code) /\ \A j \in read : i <= j
                        ELSE \/ feof /\ out[1] = 0
                             \/ /\ Timed /\ waits = 0
                                /\ out[1] \in DOMAIN prog.args.keys
                                /\ prog.args.keys[out[1]] = prog.args.default_key
  BY DEF AnswerIsMeant, Distinct
<1> DEFINE read == {i \in DOMAIN typed : Consumed(i) /\ Decides(typed[i])}
<1>1. PICK c, r : Track(c, r) /\ Chosen(c)
  BY DEF Picks
<1>2. TypeOK
  BY DEF Kept
<1>3. c \in Nat /\ c <= Len(typed) /\ Len(typed) \in Nat /\ DOMAIN typed = 1..Len(typed)
  BY <1>1, <1>2, TrackWithin DEF TypeOK
<1>4. \A i \in 1..Len(typed) : i \in read <=> i <= c /\ Decides(typed[i])
  BY <1>1, <1>2, <1>3, ConsumedIs
<1>5. read \subseteq 1..Len(typed)
  BY <1>3
<1> HIDE DEF read
<1>6. CASE c >= 1 /\ Decides(typed[c]) /\ Silent(c - 1) /\ Answers(out[1], typed[c].code)
  <2>1. c \in read
    BY <1>3, <1>4, <1>6
  <2>2. ASSUME NEW j \in read PROVE c <= j
    <3>1. j \in 1..Len(typed) /\ Decides(typed[j])
      BY <1>4, <1>5
    <3>2. ~(j \in 1..(c - 1))
      BY <1>6, <3>1 DEF Silent
    <3> QED BY <1>3, <3>1, <3>2
  <2>3. read # {} /\ \E i \in read : Answers(out[1], typed[i].code) /\ \A j \in read : i <= j
    BY <1>6, <2>1, <2>2
  <2> QED BY <2>3, Zenon DEF read
<1>7. CASE Silent(c) /\ Given(feof, waits, out[1])
  <2>1. read = {}
    <3> SUFFICES ASSUME NEW j \in read PROVE FALSE
      OBVIOUS
    <3>1. j \in 1..Len(typed) /\ Decides(typed[j]) /\ j <= c
      BY <1>4, <1>5
    <3>2. j \in 1..c
      BY <1>3, <3>1
    <3> QED BY <1>7, <3>1, <3>2 DEF Silent
  <2> QED BY <1>7, <2>1, Zenon DEF Given, read
<1> QED BY <1>1, <1>6, <1>7 DEF Chosen, ChosenWith

\* AnswerIsMeant: choice answers with the first of its keys that the user
\* pressed, with 0 to ^C and at the end of the input, and with the default only
\* when none was pressed before the time-out, for every list of up to 255 keys,
\* which have to be ASCII unless the case matters.
THEOREM TheAnswerIsMeant == Spec => []AnswerIsMeant
<1>1. Init => Kept /\ Picks
  BY InitKept, InitPicks
<1>2. Kept /\ Picks /\ [Next]_vars => (Kept /\ Picks)'
  BY NextKept, NextPicks
<1> QED BY <1>1, <1>2, PicksAnswers, PTL DEF Spec
=============================================================================
