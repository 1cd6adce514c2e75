---------------------------- MODULE LaunchProofs ----------------------------
(***************************************************************************)
(* What holds of every set of launches and every command line: parse_args  *)
(* gives a line the meaning it has as a whole, a start that returned left  *)
(* a ready server, and a client is not refused then.                       *)
(***************************************************************************)
EXTENDS Launch, ListLemmas

-----------------------------------------------------------------------------
(* parse_args                                                              *)

\* The loop of parse_args, one word after the other.
LEMMA ParsedStep ==
  ASSUME NEW W, NEW line \in Seq(W)
  PROVE  /\ Parsed(line)[0] = NoArgs
         /\ \A n \in 1..Len(line) :
              Parsed(line)[n] = ParseWord(Parsed(line)[n - 1], line[n])
<1> DEFINE Loop(f, m) ==
             f = [n \in 0..m |-> IF n = 0 THEN NoArgs ELSE ParseWord(f[n - 1], line[n])]
           T == {m \in 0..Len(line) : \A f : ~Loop(f, m)}
<1>1. T = {}
  <2> SUFFICES ASSUME T # {} PROVE FALSE
    OBVIOUS
  <2>1. PICK m \in T : \A k \in T : m <= k
    <3>1. T \subseteq Nat
      OBVIOUS
    <3> QED BY <3>1, NatMin
  <2>2. CASE m = 0
    <3>1. Loop([n \in 0..0 |-> NoArgs], 0)
      OBVIOUS
    <3> QED BY <2>2, <3>1
  <2>3. CASE m > 0
    <3>1. m - 1 \in 0..Len(line) /\ m - 1 \notin T
      <4>1. m \in 0..Len(line) /\ Len(line) \in Nat
        OBVIOUS
      <4>2. m - 1 \in 0..Len(line)
        BY <4>1, <2>3
      <4>3. m - 1 \notin T
        <5> HIDE DEF T
        <5> QED BY <2>1, <4>1
      <4> QED BY <4>2, <4>3
    <3>2. PICK f : Loop(f, m - 1)
      BY <3>1
    <3> DEFINE g == [n \in 0..m |-> IF n = m THEN ParseWord(f[m - 1], line[m]) ELSE f[n]]
    <3>3. ASSUME NEW n \in 0..m
          PROVE  g[n] = IF n = 0 THEN NoArgs ELSE ParseWord(g[n - 1], line[n])
      <4>1. CASE n = m
        <5>1. g[n - 1] = f[m - 1]
          BY <2>3, <4>1, <2>1
        <5> QED BY <5>1, <4>1, <2>3
      <4>2. CASE n # m /\ n # 0
        <5>1. n \in 0..(m - 1) /\ n - 1 \in 0..m /\ n - 1 # m
          BY <4>2, <2>1
        <5>2. f[n] = ParseWord(f[n - 1], line[n])
          BY <5>1, <4>2, <3>2
        <5> QED BY <5>1, <5>2, <4>2
      <4>3. CASE n # m /\ n = 0
        <5>1. f[0] = NoArgs
          BY <3>2, <2>1, <2>3
        <5> QED BY <5>1, <4>3
      <4> QED BY <4>1, <4>2, <4>3
    <3>4. Loop(g, m)
      <4> HIDE DEF g
      <4>1. g = [n \in 0..m |-> g[n]]
        BY DEF g
      <4> QED BY <3>3, <4>1
    <3> QED BY <3>4, <2>1
  <2> QED BY <2>1, <2>2, <2>3
<1>2. \E f : Loop(f, Len(line))
  <2>1. Len(line) \in 0..Len(line)
    OBVIOUS
  <2> QED BY <1>1, <2>1
<1>3. Loop(Parsed(line), Len(line))
  BY <1>2 DEF Parsed
<1> HIDE DEF T
<1> QED
  BY <1>3

\* The records parse_args fills in: words from W, values from V.
ArgsOf(W, V) ==
  [status : {"options", "command", "error"}, id : V, new : BOOLEAN,
   context : BOOLEAN, data : V, command : Seq(W)]

\* What an option of the command line, word w, makes of what is known, a.
OptionRead(a, w, b) ==
  /\ w.opt = "i" /\ w.val = None => b.status = "error"
  /\ w.opt = "i" /\ w.val # None =>
       /\ b.status = "options" /\ b.id = w.val
       /\ b.new = a.new /\ b.context = a.context /\ b.data = a.data
       /\ b.command = a.command
  /\ w.opt = "n" =>
       /\ b.status = "options" /\ b.new = TRUE /\ b.context = TRUE
       /\ b.data = ThreadCount /\ b.id = a.id /\ b.command = a.command
  /\ w.opt = "t" /\ (~a.new \/ w.val = None) => b.status = "error"
  /\ w.opt = "t" /\ a.new /\ w.val # None =>
       /\ b.status = "options" /\ b.data = w.val
       /\ b.new = a.new /\ b.context = a.context /\ b.id = a.id
       /\ b.command = a.command
  /\ w.opt = "c" =>
       /\ b.status = "command" /\ b.context = TRUE /\ b.data = 0
       /\ b.id = a.id /\ b.new = a.new /\ b.command = a.command
  /\ w.opt \notin {"i", "n", "t", "c"} => b = a

LEMMA OptionFields ==
  ASSUME NEW W, NEW V, None \in V, Nat \subseteq V,
         NEW a \in ArgsOf(W, V), a.status = "options", NEW w \in W, w.val \in V
  PROVE  /\ ParseWord(a, w) \in ArgsOf(W, V)
         /\ OptionRead(a, w, ParseWord(a, w))
<1> USE DEF OptionRead
<1>1. ThreadCount \in V /\ 0 \in V
  BY DEF ThreadCount
<1>2. CASE w.opt = "i"
  BY <1>2 DEF ParseWord, ParseId, Bad, ArgsOf
<1>3. CASE w.opt = "n"
  BY <1>1, <1>3 DEF ParseWord, ParseNew, ArgsOf
<1>4. CASE w.opt = "t"
  BY <1>4 DEF ParseWord, ParseThreads, Bad, ArgsOf
<1>5. CASE w.opt = "c"
  BY <1>1, <1>5 DEF ParseWord, ParseCommand, ArgsOf
<1>6. CASE w.opt \notin {"i", "n", "t", "c"}
  BY <1>6 DEF ParseWord
<1> QED BY <1>2, <1>3, <1>4, <1>5, <1>6

\* What a word after -c, w, makes of what is known, a.
CommandRead(a, w, b) ==
  /\ b.status = "command" /\ b.context = a.context /\ b.id = a.id
  /\ b.new = a.new /\ b.data = a.data + 1
  /\ b.command = Append(a.command, w)

LEMMA CommandFields ==
  ASSUME NEW W, NEW V, None \in V, Nat \subseteq V,
         NEW a \in ArgsOf(W, V), a.status = "command", a.data \in Nat,
         NEW w \in W
  PROVE  /\ ParseWord(a, w) \in ArgsOf(W, V)
         /\ CommandRead(a, w, ParseWord(a, w))
<1>1. Append(a.command, w) \in Seq(W) /\ a.data + 1 \in V
  BY DEF ArgsOf
<1>2. ParseWord(a, w) = [a EXCEPT !.command = Append(@, w), !.data = @ + 1]
  BY DEF ParseWord
<1> QED BY <1>1, <1>2 DEF ArgsOf, CommandRead

LEMMA ErrorFields ==
  ASSUME NEW a, NEW w, a.status = "error"
  PROVE  ParseWord(a, w) = a
BY DEF ParseWord

\* What the words before -c mean, read as a whole: the error in the first n of
\* line, the last of them with an option, the ID and the count they give.
WrongIn(line, n) ==
  \E k \in 1..n :
    \/ line[k].opt \in {"i", "t"} /\ line[k].val = None
    \/ line[k].opt = "t" /\ \A j \in 1..n : line[j].opt = "n" => k < j

Latest(line, n, opt, m) ==
  /\ m \in 1..n /\ line[m].opt = opt
  /\ \A k \in 1..n : line[k].opt = opt => k <= m

IdIn(line, n, v) ==
  \/ v = None /\ \A k \in 1..n : line[k].opt # "i"
  \/ \E m \in 1..n : Latest(line, n, "i", m) /\ v = line[m].val

NewIn(line, n) == \E k \in 1..n : line[k].opt = "n"

CountIn(line, n, v) ==
  \/ /\ v = ThreadCount
     /\ \A k \in 1..n : line[k].opt = "t" => \E j \in 1..n : line[j].opt = "n" /\ k < j
  \/ \E m \in 1..n :
       /\ Latest(line, n, "t", m) /\ v = line[m].val
       /\ \A j \in 1..n : line[j].opt = "n" => j < m

Options(line, n, a) ==
  /\ WrongIn(line, n) => a.status = "error"
  /\ ~WrongIn(line, n) =>
       /\ a.status = "options" /\ a.command = <<>>
       /\ IdIn(line, n, a.id)
       /\ a.new = NewIn(line, n) /\ a.context = a.new
       /\ a.new => CountIn(line, n, a.data)

LEMMA OptionsStep ==
  ASSUME NEW W, NEW V, None \in V, Nat \subseteq V,
         NEW line \in Seq(W), NEW n \in 1..Len(line), line[n].opt # "c",
         line[n].val \in V,
         NEW a \in ArgsOf(W, V), Options(line, n - 1, a)
  PROVE  /\ Options(line, n, ParseWord(a, line[n]))
         /\ ParseWord(a, line[n]) \in ArgsOf(W, V)
<1> DEFINE w == line[n]
           b == ParseWord(a, w)
<1>1. n \in Nat /\ n - 1 \in Nat /\ w \in W /\ w.val \in V
  OBVIOUS
<1>2. \A k \in 1..n : k \in 1..(n - 1) \/ k = n
  BY <1>1
<1>3. \A k \in 1..(n - 1) : k \in 1..n /\ k < n
  BY <1>1
<1>4. WrongIn(line, n - 1) => WrongIn(line, n)
  BY <1>2, <1>3 DEF WrongIn
<1>5. WrongIn(line, n) /\ ~WrongIn(line, n - 1) <=>
        /\ ~WrongIn(line, n - 1)
        /\ \/ w.opt \in {"i", "t"} /\ w.val = None
           \/ w.opt = "t" /\ ~NewIn(line, n - 1)
  <2>1. n \in 1..n /\ ~(n < n)
    BY <1>1
  <2> QED BY <1>2, <1>3, <2>1 DEF WrongIn, NewIn
<1>6. CASE WrongIn(line, n - 1)
  <2>1. b = a
    BY <1>6, ErrorFields DEF Options
  <2> QED BY <1>4, <1>6, <2>1 DEF Options
<1>7. CASE ~WrongIn(line, n - 1)
  <2>1. /\ a.status = "options" /\ a.command = <<>>
        /\ IdIn(line, n - 1, a.id)
        /\ a.new = NewIn(line, n - 1) /\ a.context = a.new
        /\ a.new => CountIn(line, n - 1, a.data)
    BY <1>7 DEF Options
  <2>2. b \in ArgsOf(W, V)
    BY <1>1, <2>1, OptionFields
  <2>3. w.opt # "i" => (IdIn(line, n - 1, a.id) => IdIn(line, n, a.id))
    BY <1>2, <1>3 DEF IdIn, Latest
  <2>4. w.opt # "n" => NewIn(line, n) = NewIn(line, n - 1)
    BY <1>2, <1>3 DEF NewIn
  <2>5. w.opt \notin {"n", "t"} =>
          (CountIn(line, n - 1, a.data) => CountIn(line, n, a.data))
    BY <1>2, <1>3 DEF CountIn, Latest
  <2>6. n \in 1..n /\ \A k \in 1..n : k <= n
    BY <1>1
  <2>a. OptionRead(a, w, b)
    BY <1>1, <2>1, OptionFields
  <2>b. w.opt = "i" /\ w.val # None => IdIn(line, n, w.val)
    BY <2>6 DEF IdIn, Latest
  <2>c. w.opt = "n" => NewIn(line, n) /\ CountIn(line, n, ThreadCount)
    BY <1>2, <1>3, <2>6 DEF NewIn, CountIn
  <2>d. w.opt = "t" => CountIn(line, n, w.val)
    BY <1>2, <1>3, <2>6 DEF CountIn, Latest
  <2>e. w.opt # "c"
    OBVIOUS
  <2>f. Options(line, n, b)
    <3> HIDE DEF w, b
    <3> USE DEF OptionRead
    <3>1. WrongIn(line, n) => b.status = "error"
      BY <1>5, <1>7, <2>1, <2>a
    <3>2. ASSUME ~WrongIn(line, n)
          PROVE  /\ b.status = "options" /\ b.command = <<>>
                 /\ IdIn(line, n, b.id)
                 /\ b.new = NewIn(line, n) /\ b.context = b.new
                 /\ b.new => CountIn(line, n, b.data)
      <4>1. CASE w.opt = "i"
        BY <1>5, <1>7, <2>1, <2>4, <2>5, <2>a, <2>b, <3>2, <4>1
      <4>2. CASE w.opt = "n"
        BY <2>1, <2>3, <2>a, <2>c, <4>2, Zenon DEF NewIn
      <4>3. CASE w.opt = "t"
        BY <1>5, <1>7, <2>1, <2>3, <2>4, <2>a, <2>d, <3>2, <4>3
      <4>4. CASE w.opt \notin {"i", "n", "t"}
        BY <2>1, <2>3, <2>4, <2>5, <2>a, <2>e, <4>4
      <4> QED BY <4>1, <4>2, <4>3, <4>4
    <3> QED BY <3>1, <3>2 DEF Options
  <2> QED BY <2>2, <2>f
<1> QED BY <1>6, <1>7

\* The values of a line, and those parse_args makes up itself.
ValuesOf(line) == Nat \cup {None} \cup {line[k].val : k \in 1..Len(line)}

\* Up to -c, what is known is what the words read so far mean.
LEMMA OptionsParsed ==
  ASSUME NEW W, NEW line \in Seq(W), NEW last \in 0..Len(line),
         \A k \in 1..last : line[k].opt # "c"
  PROVE  \A n \in 0..last : /\ Options(line, n, Parsed(line)[n])
                            /\ Parsed(line)[n] \in ArgsOf(W, ValuesOf(line))
<1> DEFINE P(n) == /\ Options(line, n, Parsed(line)[n])
                   /\ Parsed(line)[n] \in ArgsOf(W, ValuesOf(line))
           T == {n \in 0..last : ~P(n)}
<1>0. last \in Nat /\ last <= Len(line) /\ Len(line) \in Nat
  OBVIOUS
<1>1. P(0)
  <2>1. Parsed(line)[0] = NoArgs
    BY ParsedStep
  <2>2. NoArgs \in ArgsOf(W, ValuesOf(line))
    BY DEF NoArgs, ArgsOf, ValuesOf
  <2>3. ~WrongIn(line, 0) /\ IdIn(line, 0, None) /\ NewIn(line, 0) = FALSE
    BY DEF WrongIn, IdIn, NewIn
  <2>4. Options(line, 0, NoArgs)
    BY <2>3 DEF Options, NoArgs
  <2> QED BY <2>1, <2>2, <2>4
<1>2. ASSUME NEW n \in 1..last, P(n - 1) PROVE P(n)
  <2>1. n \in 1..Len(line) /\ line[n].opt # "c"
    BY <1>0
  <2>2. /\ None \in ValuesOf(line) /\ Nat \subseteq ValuesOf(line)
        /\ line[n].val \in ValuesOf(line)
    BY <2>1 DEF ValuesOf
  <2>3. Parsed(line)[n] = ParseWord(Parsed(line)[n - 1], line[n])
    BY <2>1, ParsedStep
  <2> DEFINE a == Parsed(line)[n - 1]
             V == ValuesOf(line)
  <2>4. a \in ArgsOf(W, V) /\ Options(line, n - 1, a)
    BY <1>2
  <2> HIDE DEF a, V
  <2>5. Options(line, n, ParseWord(a, line[n])) /\ ParseWord(a, line[n]) \in ArgsOf(W, V)
    BY <2>1, <2>2, <2>4, OptionsStep DEF V
  <2> QED BY <2>3, <2>5 DEF a, V
<1>3. T = {}
  <2> SUFFICES ASSUME T # {} PROVE FALSE
    OBVIOUS
  <2>1. T \subseteq Nat
    BY <1>0
  <2>2. PICK m \in T : \A k \in T : m <= k
    BY <2>1, NatMin
  <2>3. m \in 0..last /\ ~P(m)
    OBVIOUS
  <2>4. m # 0
    <3> HIDE DEF P
    <3> QED BY <1>1, <2>3
  <2>5. m \in 1..last /\ m - 1 \in 0..last /\ ~(m <= m - 1)
    BY <2>3, <2>4, <1>0
  <2>6. P(m - 1)
    <3> HIDE DEF P
    <3> QED BY <2>2, <2>5
  <2> HIDE DEF P
  <2> QED BY <1>2, <2>3, <2>5, <2>6
<1> HIDE DEF P
<1>4. \A n \in 0..last : P(n)
  BY <1>3
<1> QED BY <1>4 DEF P

\* From -c on, the words are the command.
LEMMA CommandParsed ==
  ASSUME NEW W, NEW line \in Seq(W), NEW cut \in 1..Len(line),
         line[cut].opt = "c", \A k \in 1..(cut - 1) : line[k].opt # "c"
  PROVE  LET a == Parsed(line)[cut - 1]
             b == Parsed(line)[Len(line)]
         IN  /\ WrongIn(line, cut - 1) => b.status = "error"
             /\ ~WrongIn(line, cut - 1) =>
                  /\ b.status = "command" /\ b.context = TRUE
                  /\ b.id = a.id /\ b.new = a.new
                  /\ b.data = Len(line) - cut
                  /\ b.command = SubSeq(line, cut + 1, Len(line))
<1> DEFINE p == Parsed(line)
           a == p[cut - 1]
           V == ValuesOf(line)
<1>0. cut \in Nat /\ cut >= 1 /\ cut <= Len(line) /\ Len(line) \in Nat
  OBVIOUS
<1>1. Options(line, cut - 1, a) /\ a \in ArgsOf(W, V)
  <2>1. cut - 1 \in 0..Len(line) /\ cut - 1 \in 0..(cut - 1)
    BY <1>0
  <2> QED BY <2>1, OptionsParsed
<1>2. \A n \in 1..Len(line) : p[n] = ParseWord(p[n - 1], line[n]) /\ line[n] \in W
  BY ParsedStep
<1>3. None \in V /\ Nat \subseteq V /\ \A n \in 1..Len(line) : line[n].val \in V
  BY DEF ValuesOf
<1> HIDE DEF p, V
<1>4. CASE WrongIn(line, cut - 1)
  <2> DEFINE P(n) == p[n].status = "error"
             T == {n \in cut..Len(line) : ~P(n)}
  <2>1. P(cut - 1)
    BY <1>1, <1>4 DEF Options
  <2>2. ASSUME NEW n \in cut..Len(line), P(n - 1) PROVE P(n)
    <3>1. n \in 1..Len(line)
      BY <1>0
    <3> QED BY <1>2, <2>2, <3>1, ErrorFields
  <2>3. T = {}
    <3> SUFFICES ASSUME T # {} PROVE FALSE
      OBVIOUS
    <3>1. PICK m \in T : \A k \in T : m <= k
      <4>1. T \subseteq Nat
        BY <1>0
      <4> QED BY <4>1, NatMin
    <3>2. m \in cut..Len(line) /\ ~P(m) /\ ~(m <= m - 1)
      BY <1>0
    <3>3. m = cut \/ m - 1 \in cut..Len(line)
      BY <3>2, <1>0
    <3>4. P(m - 1)
      <4> HIDE DEF P
      <4> QED BY <2>1, <3>1, <3>2, <3>3
    <3> HIDE DEF P
    <3> QED BY <2>2, <3>2, <3>4
  <2>4. P(Len(line))
    <3> HIDE DEF P
    <3>1. Len(line) \in cut..Len(line)
      BY <1>0
    <3> QED BY <2>3, <3>1
  <2> QED BY <1>4, <2>4 DEF p
<1>5. CASE ~WrongIn(line, cut - 1)
  <2> DEFINE P(n) ==
        /\ p[n] \in ArgsOf(W, V) /\ p[n].status = "command" /\ p[n].context = TRUE
        /\ p[n].id = a.id /\ p[n].new = a.new /\ p[n].data = n - cut
        /\ p[n].command = SubSeq(line, cut + 1, n)
             T == {n \in cut..Len(line) : ~P(n)}
  <2>1. P(cut)
    <3>1. a.status = "options" /\ a.command = <<>>
      BY <1>1, <1>5 DEF Options
    <3>2. p[cut] = ParseWord(a, line[cut]) /\ line[cut] \in W /\ line[cut].val \in V
      BY <1>0, <1>2, <1>3
    <3>3. p[cut] \in ArgsOf(W, V) /\ OptionRead(a, line[cut], p[cut])
      <4> HIDE DEF a
      <4> QED BY <1>1, <1>3, <3>1, <3>2, OptionFields
    <3>4. SubSeq(line, cut + 1, cut) = <<>> /\ cut - cut = 0
      BY <1>0
    <3> HIDE DEF a
    <3> QED BY <3>1, <3>3, <3>4 DEF OptionRead
  <2>2. ASSUME NEW n \in (cut + 1)..Len(line), P(n - 1) PROVE P(n)
    <3> DEFINE b == p[n - 1]
    <3>1. n \in 1..Len(line) /\ n - 1 \in Nat /\ n - 1 - cut \in Nat /\ (n - 1 - cut) + 1 = n - cut
      BY <1>0
    <3>2. p[n] = ParseWord(b, line[n]) /\ line[n] \in W
      BY <3>1, <1>2
    <3>3. /\ b \in ArgsOf(W, V) /\ b.status = "command" /\ b.context = TRUE
          /\ b.id = a.id /\ b.new = a.new /\ b.data = (n - 1) - cut
          /\ b.command = SubSeq(line, cut + 1, n - 1)
      BY <2>2
    <3>4. Append(SubSeq(line, cut + 1, n - 1), line[n]) = SubSeq(line, cut + 1, n)
      BY <1>0, <3>1
    <3> HIDE DEF a, b
    <3>5. p[n] \in ArgsOf(W, V) /\ CommandRead(b, line[n], p[n])
      <4>1. b.data \in Nat
        BY <3>1, <3>3
      <4> QED BY <1>3, <3>2, <3>3, <4>1, CommandFields
    <3> QED BY <3>1, <3>3, <3>4, <3>5 DEF CommandRead
  <2>3. T = {}
    <3> SUFFICES ASSUME T # {} PROVE FALSE
      OBVIOUS
    <3>1. PICK m \in T : \A k \in T : m <= k
      <4>1. T \subseteq Nat
        BY <1>0
      <4> QED BY <4>1, NatMin
    <3>2. m \in cut..Len(line) /\ ~P(m) /\ ~(m <= m - 1)
      BY <1>0
    <3> HIDE DEF P
    <3>3. m # cut
      BY <2>1, <3>2
    <3>4. m \in (cut + 1)..Len(line) /\ m - 1 \in cut..Len(line)
      BY <3>2, <3>3, <1>0
    <3>5. P(m - 1)
      BY <3>1, <3>2, <3>4
    <3> QED BY <2>2, <3>2, <3>4, <3>5
  <2>4. P(Len(line))
    <3> HIDE DEF P
    <3>1. Len(line) \in cut..Len(line)
      BY <1>0
    <3> QED BY <2>3, <3>1
  <2> QED BY <1>5, <2>4 DEF p
<1> QED BY <1>4, <1>5

\* The options of a line end at its first -c, or with its last word.
LEMMA CutBetween ==
  ASSUME NEW W, NEW line \in Seq(W)
  PROVE  /\ Cut(line) \in 1..(Len(line) + 1)
         /\ \A k \in 1..(Cut(line) - 1) : line[k].opt # "c"
         /\ Cut(line) <= Len(line) => line[Cut(line)].opt = "c"
<1> DEFINE S == At(line, "c")
<1>1. S = {k \in 1..Len(line) : line[k].opt = "c"} /\ Len(line) \in Nat
  BY DEF At
<1>2. CASE S = {}
  BY <1>1, <1>2 DEF Cut
<1>3. CASE S # {}
  <2>1. PICK m \in S : \A k \in S : m <= k
    BY <1>1, <1>3, NatMin
  <2>2. Min(S) \in S /\ \A k \in S : Min(S) <= k
    <3> HIDE DEF S
    <3> QED BY <2>1 DEF Min
  <2>3. Cut(line) = Min(S)
    BY <1>3 DEF Cut
  <2> HIDE DEF S
  <2>4. Cut(line) \in 1..Len(line) /\ line[Cut(line)].opt = "c"
    BY <1>1, <2>2, <2>3
  <2>5. ASSUME NEW k \in 1..(Cut(line) - 1) PROVE line[k].opt # "c"
    <3>1. k \in 1..Len(line) /\ ~(Cut(line) <= k)
      BY <1>1, <2>4
    <3> QED BY <1>1, <2>2, <2>3, <3>1
  <2> QED BY <1>1, <2>4, <2>5
<1> QED BY <1>2, <1>3

\* Why a line of which the first n words are options only shows the help.
NoUse(line, n) ==
  \/ WrongIn(line, n)
  \/ \A k \in 1..n : line[k].opt # "i"
  \/ n + 1 = Len(line)
  \/ n = Len(line) /\ ~NewIn(line, n)

\* What main does, x, with a line of which the first n words are options.
Outcome(line, n, x) ==
  IF NoUse(line, n) THEN x = Help
  ELSE \E m \in 1..n :
         /\ Latest(line, n, "i", m)
         /\ IF NewIn(line, n)
            THEN \E v : /\ x = [kind |-> "server", id |-> line[m].val, count |-> v]
                        /\ n < Len(line) => v = Len(line) - (n + 1)
                        /\ n = Len(line) => CountIn(line, n, v)
            ELSE x = [kind |-> "client", id |-> line[m].val,
                      command |-> SubSeq(line, n + 2, Len(line))]

LEMMA ParseRead ==
  ASSUME NEW W, NEW line \in Seq(W)
  PROVE  Outcome(line, Cut(line) - 1, Parse(line))
<1> DEFINE n == Cut(line) - 1
           a == Parsed(line)[n]
           b == Parsed(line)[Len(line)]
           Useless == \/ b.status = "error"
                      \/ b.status = "command" /\ b.command = <<>>
                      \/ b.id = None
                      \/ ~b.context
           rest == SubSeq(line, n + 2, Len(line))
<1>1. /\ Len(line) \in Nat /\ n \in 0..Len(line)
      /\ \A k \in 1..n : line[k].opt # "c"
      /\ n < Len(line) => n + 1 \in 1..Len(line) /\ line[n + 1].opt = "c"
  BY CutBetween
<1>2. Options(line, n, a)
  <2> HIDE DEF n
  <2>1. n \in 0..n
    BY <1>1
  <2> QED BY <1>1, <2>1, OptionsParsed
<1>3. Parse(line) = IF Useless THEN Help
                    ELSE IF b.new
                         THEN [kind |-> "server", id |-> b.id, count |-> b.data]
                         ELSE [kind |-> "client", id |-> b.id, command |-> b.command]
  BY DEF Parse
<1>4. n < Len(line) =>
        /\ WrongIn(line, n) => b.status = "error"
        /\ ~WrongIn(line, n) =>
             /\ b.status = "command" /\ b.context = TRUE
             /\ b.id = a.id /\ b.new = a.new /\ b.data = Len(line) - (n + 1)
             /\ b.command = rest
  <2> HIDE DEF n
  <2> SUFFICES ASSUME n < Len(line)
               PROVE  /\ WrongIn(line, n) => b.status = "error"
                      /\ ~WrongIn(line, n) =>
                           /\ b.status = "command" /\ b.context = TRUE
                           /\ b.id = a.id /\ b.new = a.new
                           /\ b.data = Len(line) - (n + 1)
                           /\ b.command = rest
    OBVIOUS
  <2>1. PICK c \in 1..Len(line) : c = n + 1
    BY <1>1
  <2>2. c - 1 = n /\ c + 1 = n + 2 /\ line[c].opt = "c"
    BY <1>1, <2>1
  <2>3. \A k \in 1..(c - 1) : line[k].opt # "c"
    BY <1>1, <2>2
  <2>4. LET p == Parsed(line)[c - 1] IN
          /\ WrongIn(line, c - 1) => b.status = "error"
          /\ ~WrongIn(line, c - 1) =>
               /\ b.status = "command" /\ b.context = TRUE
               /\ b.id = p.id /\ b.new = p.new
               /\ b.data = Len(line) - c
               /\ b.command = SubSeq(line, c + 1, Len(line))
    BY <2>2, <2>3, CommandParsed
  <2> HIDE DEF b
  <2> QED BY <2>1, <2>2, <2>4
<1>5. n = Len(line) => b = a
  OBVIOUS
<1>6. n < Len(line) => (rest = <<>> <=> n + 1 = Len(line))
  <2> HIDE DEF n
  <2>1. n < Len(line) => rest \in Seq(W) /\ Len(rest) = Len(line) - (n + 1)
    BY <1>1
  <2> HIDE DEF rest
  <2> QED BY <1>1, <2>1, EmptySeq
<1> HIDE DEF n, a, b, rest
<1>7. n < Len(line) \/ n = Len(line)
  BY <1>1
<1>8. ASSUME ~WrongIn(line, n)
      PROVE  /\ (a.id = None) <=> \A k \in 1..n : line[k].opt # "i"
             /\ a.id # None => \E m \in 1..n : Latest(line, n, "i", m) /\ a.id = line[m].val
  BY <1>2, <1>8 DEF Options, IdIn, Latest, WrongIn
<1>9. CASE WrongIn(line, n)
  <2>1. b.status = "error"
    BY <1>2, <1>4, <1>5, <1>7, <1>9 DEF Options
  <2> QED BY <1>3, <1>9, <2>1 DEF Outcome, NoUse, n
<1>10. CASE ~WrongIn(line, n) /\ n = Len(line)
  <2>1. /\ b.status = "options" /\ b.new = NewIn(line, n) /\ b.context = b.new
        /\ b.new => CountIn(line, n, b.data)
    BY <1>2, <1>5, <1>10 DEF Options
  <2>2. Useless <=> NoUse(line, n)
    BY <1>1, <1>5, <1>8, <1>10, <2>1 DEF NoUse
  <2>3. Outcome(line, n, Parse(line))
    BY <1>1, <1>3, <1>5, <1>8, <1>10, <2>1, <2>2 DEF Outcome, NoUse
  <2> QED BY <2>3 DEF n
<1>11. CASE ~WrongIn(line, n) /\ n < Len(line)
  <2>1. a.new = NewIn(line, n)
    BY <1>2, <1>11 DEF Options
  <2>2. n # Len(line)
    BY <1>1, <1>11
  <2>3. Useless <=> NoUse(line, n)
    BY <1>4, <1>6, <1>8, <1>11, <2>2 DEF NoUse
  <2>4. Outcome(line, n, Parse(line))
    BY <1>3, <1>4, <1>8, <1>11, <2>1, <2>2, <2>3 DEF Outcome, NoUse, rest
  <2> QED BY <2>4 DEF n
<1> QED BY <1>7, <1>9, <1>10, <1>11

LEMMA MaxIs ==
  ASSUME NEW S, S \subseteq Nat, NEW m \in S, \A k \in S : k <= m
  PROVE  Max(S) = m
<1>1. Max(S) \in S /\ \A k \in S : Max(S) >= k
  BY DEF Max
<1> DEFINE x == Max(S)
<1>2. x \in Nat /\ m \in Nat /\ x >= m /\ x <= m
  BY <1>1
<1> HIDE DEF x
<1>3. x = m
  BY <1>2
<1> QED BY <1>3 DEF x

LEMMA MaxWithin ==
  ASSUME NEW n \in Nat, NEW S, S \subseteq 0..n, S # {}
  PROVE  Max(S) \in S
<1> DEFINE T == {n - k : k \in S}
<1>1. T \subseteq Nat /\ T # {}
  <2>1. \A k \in S : k \in 0..n /\ n - k \in Nat
    OBVIOUS
  <2>2. PICK k \in S : TRUE
    OBVIOUS
  <2>3. n - k \in T
    OBVIOUS
  <2> QED BY <2>1, <2>3
<1>2. PICK t \in T : \A k \in T : t <= k
  <2> HIDE DEF T
  <2> QED BY <1>1, NatMin
<1>3. PICK m \in S : t = n - m
  OBVIOUS
<1>4. ASSUME NEW k \in S PROVE k <= m
  <2>1. n - k \in T
    OBVIOUS
  <2>2. t <= n - k /\ k \in 0..n /\ m \in 0..n
    BY <1>2, <2>1
  <2> QED BY <1>3, <2>2
<1>5. S \subseteq Nat
  OBVIOUS
<1>6. Max(S) = m
  BY <1>4, <1>5, MaxIs
<1> QED BY <1>6

\* The meaning of a line in which every count is after a colon; a -t without
\* one is an error.
AsWritten(line) ==
  LET opts == SubSeq(line, 1, Cut(line) - 1)
      command == SubSeq(line, Cut(line) + 1, Len(line))
      ids == At(opts, "i")
      news == At(opts, "n")
      counts == {i \in At(opts, "t") : \A j \in news : j < i}
      wrong == \/ \E i \in ids \cup At(opts, "t") : opts[i].val = None
               \/ \E i \in At(opts, "t") : \A j \in news : i < j
               \/ ids = {}
               \/ Cut(line) <= Len(line) /\ command = <<>>
               \/ news = {} /\ Cut(line) > Len(line)
  IN  IF wrong THEN Help
      ELSE IF news = {}
           THEN [kind |-> "client", id |-> opts[Max(ids)].val,
                 command |-> command]
           ELSE [kind |-> "server", id |-> opts[Max(ids)].val,
                 count |-> IF command # <<>> THEN Len(command)
                           ELSE IF counts = {} THEN ThreadCount
                           ELSE opts[Max(counts)].val]

\* parse_args reads every line that way.
LEMMA ParseIsAsWritten ==
  ASSUME NEW W, NEW line \in Seq(W)
  PROVE  Parse(line) = AsWritten(line)
<1> DEFINE n == Cut(line) - 1
           opts == SubSeq(line, 1, Cut(line) - 1)
           command == SubSeq(line, Cut(line) + 1, Len(line))
           ids == At(opts, "i")
           news == At(opts, "n")
           ts == At(opts, "t")
           counts == {i \in ts : \A j \in news : j < i}
           wrong == \/ \E i \in ids \cup ts : opts[i].val = None
                    \/ \E i \in ts : \A j \in news : i < j
                    \/ ids = {}
                    \/ Cut(line) <= Len(line) /\ command = <<>>
                    \/ news = {} /\ Cut(line) > Len(line)
           count == IF command # <<>> THEN Len(command)
                    ELSE IF counts = {} THEN ThreadCount ELSE opts[Max(counts)].val
<1>1. AsWritten(line) =
        IF wrong THEN Help
        ELSE IF news = {}
             THEN [kind |-> "client", id |-> opts[Max(ids)].val, command |-> command]
             ELSE [kind |-> "server", id |-> opts[Max(ids)].val, count |-> count]
  BY DEF AsWritten
<1>2. Cut(line) \in 1..(Len(line) + 1) /\ Len(line) \in Nat
  BY CutBetween
<1> DEFINE cut == Cut(line)
<1>3. n \in 0..Len(line) /\ cut = n + 1 /\ cut + 1 = n + 2
      /\ (cut > Len(line) <=> n = Len(line)) /\ (cut <= Len(line) <=> n < Len(line))
  BY <1>2
<1>4. opts \in Seq(W) /\ Len(opts) = n /\ \A k \in 1..n : opts[k] = line[k]
  <2>1. opts = SubSeq(line, 1, n)
    OBVIOUS
  <2> HIDE DEF n, opts
  <2>2. n \in Int /\ \A k \in 1..n : line[k] \in W
    BY <1>2, <1>3
  <2>3. /\ opts \in Seq(W)
        /\ Len(opts) = IF 1 <= n THEN n - 1 + 1 ELSE 0
        /\ \A k \in 1..(n - 1 + 1) : opts[k] = line[1 + k - 1]
    BY <2>1, <2>2, SubSeqProperties
  <2> QED BY <1>2, <1>3, <2>3
<1>5. command \in Seq(W) /\ Len(command) = IF n < Len(line) THEN Len(line) - (n + 1) ELSE 0
  <2> HIDE DEF n
  <2> QED BY <1>2, <1>3
<1>6. command = SubSeq(line, n + 2, Len(line))
  BY <1>3
<1>7. Outcome(line, n, Parse(line))
  BY ParseRead
<1> HIDE DEF cut, n, opts, command
<1>8. /\ ids = {k \in 1..n : line[k].opt = "i"}
      /\ news = {k \in 1..n : line[k].opt = "n"}
      /\ ts = {k \in 1..n : line[k].opt = "t"}
  BY <1>4 DEF At
<1>9. command = <<>> <=> (n + 1 = Len(line) \/ n = Len(line))
  BY <1>2, <1>3, <1>5, EmptySeq
<1> HIDE DEF ids, news, ts
<1>10. wrong <=> NoUse(line, n)
  <2>1. (\E i \in ids \cup ts : opts[i].val = None) \/ (\E i \in ts : \A j \in news : i < j)
          <=> WrongIn(line, n)
    BY <1>4, <1>8 DEF WrongIn
  <2>2. ids = {} <=> \A k \in 1..n : line[k].opt # "i"
    BY <1>8
  <2>3. news = {} <=> ~NewIn(line, n)
    BY <1>8 DEF NewIn
  <2>4. Cut(line) <= Len(line) /\ command = <<>> <=> n + 1 = Len(line)
    BY <1>2, <1>3, <1>9 DEF cut
  <2>5. Cut(line) > Len(line) <=> n = Len(line)
    BY <1>3 DEF cut
  <2> QED BY <2>1, <2>2, <2>3, <2>4, <2>5 DEF NoUse
<1>11. CASE NoUse(line, n)
  BY <1>1, <1>7, <1>10, <1>11 DEF Outcome
<1>12. CASE ~NoUse(line, n)
  <2>1. PICK m \in 1..n :
          /\ Latest(line, n, "i", m)
          /\ IF NewIn(line, n)
             THEN \E v : /\ Parse(line) = [kind |-> "server", id |-> line[m].val, count |-> v]
                         /\ n < Len(line) => v = Len(line) - (n + 1)
                         /\ n = Len(line) => CountIn(line, n, v)
             ELSE Parse(line) = [kind |-> "client", id |-> line[m].val,
                                 command |-> SubSeq(line, n + 2, Len(line))]
    BY <1>7, <1>12 DEF Outcome
  <2>2. Max(ids) = m
    <3>1. ids \subseteq Nat /\ m \in ids /\ \A k \in ids : k <= m
      BY <1>8, <2>1 DEF Latest
    <3> QED BY <3>1, MaxIs
  <2>3. opts[Max(ids)].val = line[m].val
    BY <1>4, <2>2
  <2>4. CASE ~NewIn(line, n)
    <3>1. news = {}
      BY <1>8, <2>4 DEF NewIn
    <3> QED BY <1>1, <1>6, <1>10, <1>12, <2>1, <2>3, <2>4, <3>1
  <2>5. CASE NewIn(line, n)
    <3>1. news # {}
      BY <1>8, <2>5 DEF NewIn
    <3>2. PICK v : /\ Parse(line) = [kind |-> "server", id |-> line[m].val, count |-> v]
                   /\ n < Len(line) => v = Len(line) - (n + 1)
                   /\ n = Len(line) => CountIn(line, n, v)
      BY <2>1, <2>5
    <3>3. v = count
      <4>1. CASE n < Len(line)
        <5>1. n + 1 # Len(line) /\ n # Len(line)
          BY <1>2, <1>3, <1>12, <4>1 DEF NoUse
        <5> QED BY <1>5, <1>9, <3>2, <4>1, <5>1
      <4>2. CASE n = Len(line)
        <5>1. command = <<>> /\ CountIn(line, n, v)
          BY <1>9, <3>2, <4>2
        <5>2. counts = {i \in ts : \A j \in news : j < i}
          OBVIOUS
        <5>3. CASE /\ v = ThreadCount
                   /\ \A k \in 1..n : line[k].opt = "t" =>
                        \E j \in 1..n : line[j].opt = "n" /\ k < j
          <6>1. counts = {}
            BY <1>8, <5>3
          <6> QED BY <5>1, <5>3, <6>1
        <5>4. ASSUME NEW t \in 1..n, Latest(line, n, "t", t), v = line[t].val,
                     \A j \in 1..n : line[j].opt = "n" => j < t
              PROVE  v = count
          <6>1. counts \subseteq Nat /\ t \in counts /\ \A k \in counts : k <= t
            BY <1>8, <5>4 DEF Latest
          <6>2. Max(counts) = t
            <7> HIDE DEF counts
            <7> QED BY <6>1, MaxIs
          <6>3. counts # {}
            BY <6>1
          <6> HIDE DEF counts
          <6> QED BY <1>4, <5>1, <5>4, <6>2, <6>3
        <5> HIDE DEF counts, count
        <5> QED BY <5>1, <5>3, <5>4 DEF CountIn
      <4> QED BY <1>3, <4>1, <4>2
    <3> HIDE DEF count
    <3> QED BY <1>1, <1>10, <1>12, <2>3, <3>1, <3>2, <3>3
  <2> QED BY <2>4, <2>5
<1> QED BY <1>11, <1>12

\* That is the meaning of every line but those with a count in a word of its
\* own, which are errors.
LEMMA ParseIsMeaning ==
  ASSUME NEW W, NEW line \in Seq(W)
  PROVE  Parse(line) = IF SeparateCount(line) THEN Help ELSE Meaning(line)
<1> DEFINE opts == SubSeq(line, 1, Cut(line) - 1)
           command == SubSeq(line, Cut(line) + 1, Len(line))
           ids == At(opts, "i")
           news == At(opts, "n")
           ts == At(opts, "t")
           counts == {i \in ts : \A j \in news : j < i}
           bad == \/ \E i \in ts : \A j \in news : i < j
                  \/ ids = {}
                  \/ Cut(line) <= Len(line) /\ command = <<>>
                  \/ news = {} /\ Cut(line) > Len(line)
           unset == \E i \in ids \cup ts : opts[i].val = None
           missing == (\E i \in ids : opts[i].val = None) \/ (\E i \in ts : CountAt(opts, i) = None)
           Args(c) == IF news = {}
                      THEN [kind |-> "client", id |-> opts[Max(ids)].val, command |-> command]
                      ELSE [kind |-> "server", id |-> opts[Max(ids)].val,
                            count |-> IF command # <<>> THEN Len(command)
                                      ELSE IF counts = {} THEN ThreadCount ELSE c]
<1>1. AsWritten(line) = IF unset \/ bad THEN Help ELSE Args(opts[Max(counts)].val)
  BY DEF AsWritten
<1>2. Meaning(line) = IF missing \/ bad THEN Help ELSE Args(CountAt(opts, Max(counts)))
  BY DEF Meaning
<1>3. SeparateCount(line) <=> \E i \in ts : SeparateAt(opts, i)
  BY DEF SeparateCount
<1>4. Parse(line) = AsWritten(line)
  BY ParseIsAsWritten
<1> HIDE DEF opts, command, ids, news, bad
<1>5. CASE SeparateCount(line)
  <2>1. unset
    BY <1>3, <1>5 DEF SeparateAt
  <2> QED BY <1>1, <1>4, <1>5, <2>1
<1>6. CASE ~SeparateCount(line)
  <2>1. \A i \in ts : CountAt(opts, i) = opts[i].val
    BY <1>3, <1>6 DEF CountAt
  <2>2. unset <=> missing
    BY <2>1
  <2>3. CASE counts = {}
    <3>1. Args(opts[Max(counts)].val) = Args(CountAt(opts, Max(counts)))
      BY <2>3
    <3> HIDE DEF Args
    <3> QED BY <1>1, <1>2, <1>4, <1>6, <2>2, <3>1
  <2>4. CASE counts # {}
    <3>1. Max(counts) \in ts
      <4>1. Cut(line) \in 1..(Len(line) + 1) /\ Len(line) \in Nat
        BY CutBetween
      <4>2. opts \in Seq(W)
        <5>1. Cut(line) - 1 <= Len(line)
          BY <4>1
        <5> QED BY <4>1, <5>1 DEF opts
      <4>3. counts \subseteq 0..Len(opts) /\ Len(opts) \in Nat
        BY <4>2 DEF At
      <4> HIDE DEF counts
      <4>4. Max(counts) \in counts
        BY <2>4, <4>3, MaxWithin
      <4> QED BY <4>4 DEF counts
    <3>2. CountAt(opts, Max(counts)) = opts[Max(counts)].val
      BY <2>1, <3>1
    <3> HIDE DEF Args
    <3> QED BY <1>1, <1>2, <1>4, <1>6, <2>2, <3>2
  <2> QED BY <2>3, <2>4
<1> QED BY <1>5, <1>6

\* What main makes of a command line of a launch is one of the Arguments.
LEMMA ParseTyped ==
  ASSUME NEW l \in Launches, NEW line \in CommandLines[l]
  PROVE  Parse(line) \in Arguments
<1> DEFINE n == Cut(line) - 1
<1>1. line \in Seq(LineWord) /\ Len(line) \in Nat /\ Len(line) < MaxUInt /\ MaxUInt \in Nat
      /\ ThreadCount \in 0..MaxUInt
  BY LaunchAssumption DEF ThreadCount
<1>2. Outcome(line, n, Parse(line))
  BY <1>1, ParseRead
<1>3. n \in 0..Len(line)
  BY <1>1, CutBetween
<1> HIDE DEF n
<1>4. CASE NoUse(line, n)
  BY <1>2, <1>4 DEF Outcome, Arguments
<1>5. CASE ~NoUse(line, n)
  <2>1. PICK m \in 1..n :
          /\ Latest(line, n, "i", m)
          /\ IF NewIn(line, n)
             THEN \E v : /\ Parse(line) = [kind |-> "server", id |-> line[m].val, count |-> v]
                         /\ n < Len(line) => v = Len(line) - (n + 1)
                         /\ n = Len(line) => CountIn(line, n, v)
             ELSE Parse(line) = [kind |-> "client", id |-> line[m].val,
                                 command |-> SubSeq(line, n + 2, Len(line))]
    BY <1>2, <1>5 DEF Outcome
  <2>2. \A k \in 1..n : line[k] \in LineWord
    BY <1>1, <1>3
  <2>3. \A k \in 1..n : line[k].opt = "i" /\ line[k].val # None => line[k].val \in Id
    BY <2>2 DEF LineWord
  <2>4. \A k \in 1..n : line[k].opt = "t" /\ line[k].val # None => line[k].val \in 0..MaxUInt
    BY <2>2 DEF LineWord
  <2>5. \A k \in 1..n : line[k].opt \in {"i", "t"} => line[k].val # None
    BY <1>5 DEF NoUse, WrongIn
  <2>6. line[m].val \in Id
    BY <2>1, <2>3, <2>5 DEF Latest
  <2>7. CASE NewIn(line, n)
    <3>1. PICK v : /\ Parse(line) = [kind |-> "server", id |-> line[m].val, count |-> v]
                   /\ n < Len(line) => v = Len(line) - (n + 1)
                   /\ n = Len(line) => CountIn(line, n, v)
      BY <2>1, <2>7
    <3>2. n < Len(line) => v \in 0..MaxUInt
      BY <1>1, <1>3, <3>1
    <3>3. CountIn(line, n, v) => v \in 0..MaxUInt
      BY <1>1, <2>4, <2>5 DEF CountIn, Latest
    <3>4. v \in 0..MaxUInt
      BY <1>1, <1>3, <3>1, <3>2, <3>3
    <3> QED BY <2>6, <3>1, <3>4 DEF Arguments
  <2>8. CASE ~NewIn(line, n)
    <3>1. \A k \in 1..Len(line) : line[k] \in CommandWords
      <4>1. Range(line) \subseteq CommandWords
        BY DEF CommandWords
      <4>2. DOMAIN line = 1..Len(line)
        BY <1>1
      <4> QED BY <4>1, <4>2 DEF Range
    <3>2. n + 2 \in Int /\ Len(line) \in Int
          /\ \A k \in (n + 2)..Len(line) : line[k] \in CommandWords
      BY <1>1, <1>3, <3>1
    <3>3. SubSeq(line, n + 2, Len(line)) \in Seq(CommandWords)
      BY <3>2, SubSeqProperties
    <3> DEFINE c == SubSeq(line, n + 2, Len(line))
    <3>4. Parse(line) = [kind |-> "client", id |-> line[m].val, command |-> c]
      BY <2>1, <2>8
    <3> HIDE DEF c
    <3>5. Parse(line) \in [kind : {"client"}, id : Id, command : Seq(CommandWords)]
      BY <2>6, <3>3, <3>4 DEF c
    <3> QED BY <3>5 DEF Arguments
  <2> QED BY <2>7, <2>8
<1> QED BY <1>4, <1>5

-----------------------------------------------------------------------------
(***************************************************************************)
(* The invariant.  A child exists only under a waiting or returned parent; *)
(* a notice is in the pipe only once every thread runs; and a socket that  *)
(* was bound keeps its path until another server claims the ID.            *)
(***************************************************************************)
InOrder(l) ==
  /\ pc[l] = "start" => child[l] = "none"
  /\ child[l] # "none" => IsServer(l) /\ pc[l] \in {"waiting", "returned"}
  /\ pipe[l] > 0 => child[l] \in {"serving", "stopped"} /\ pc[l] = "waiting"
  /\ pc[l] = "returned" => child[l] \in {"serving", "stopped"}
  /\ child[l] = "serving" => threads[l] = Wanted(l)
  /\ pc[l] = "client" => args[l].kind = "client"
  /\ pc[l] = "connected" => peer[l] \in Launches

Bound == {"listen", "create", "serving", "stopped"}

Named(l) ==
  child[l] \in Bound =>
    \/ path[IdOf(l)] = l
    \/ \E k \in Launches \ {l} : Claims(k, IdOf(l))

IInv ==
  /\ TypeOK
  /\ \A l \in Launches : InOrder(l)
  /\ \A l \in Launches : Named(l)

\* Without a bind or an unlink, every socket keeps its path.
LEMMA NamesKept ==
  ASSUME IInv, path' = path,
         \A k \in Launches : child'[k] \in Bound => child[k] \in Bound,
         \A k \in Launches : child[k] \notin {"none", "unlink"} =>
           child'[k] \notin {"none", "unlink"} /\ args'[k] = args[k]
  PROVE  \A l \in Launches : Named(l)'
<1>1. ASSUME NEW l \in Launches, child'[l] \in Bound PROVE Named(l)'
  <2>1. child[l] \in Bound /\ args'[l] = args[l]
    BY <1>1 DEF Bound
  <2>2. path[IdOf(l)] = l \/ \E k \in Launches \ {l} : Claims(k, IdOf(l))
    BY <2>1 DEF IInv, Named
  <2>3. CASE path[IdOf(l)] = l
    BY <2>1, <2>3 DEF Named, IdOf
  <2>4. ASSUME NEW k \in Launches \ {l}, Claims(k, IdOf(l)) PROVE Named(l)'
    <3>1. child[k] \notin {"none", "unlink"}
      BY <2>4 DEF Claims
    <3> QED BY <2>1, <2>4, <3>1 DEF Named, Claims, IsServer, IdOf
  <2> QED BY <2>2, <2>3, <2>4
<1> QED BY <1>1 DEF Named

LEMMA InitInv ==
  Init => IInv
BY LaunchAssumption
   DEF Init, IInv, TypeOK, InOrder, Named, Bound, PcStates, ChildStates, Arguments

\* A server and a client have an ID.
LEMMA HasId ==
  ASSUME TypeOK, NEW l \in Launches, args[l].kind \in {"server", "client"}
  PROVE  IdOf(l) \in Id
BY DEF TypeOK, Arguments, Help, IdOf

LEMMA MainStep ==
  ASSUME IInv, NEW l \in Launches, NEW line \in CommandLines[l], NEW to,
         Main(l, line, to), UNCHANGED <<threads, pipe, path, peer>>,
         \/ to = "help" /\ UNCHANGED child
         \/ to = "client" /\ Parse(line).kind = "client" /\ UNCHANGED child
         \/ /\ to = "waiting" /\ Parse(line).kind = "server"
            /\ \E c \in {"unlink", "failed"} : child' = [child EXCEPT ![l] = c]
  PROVE  IInv'
<1> USE DEF Main
<1>1. TypeOK /\ (\A k \in Launches : InOrder(k)) /\ Parse(line) \in Arguments
  BY ParseTyped DEF IInv
<1>2. TypeOK'
  BY <1>1 DEF TypeOK, PcStates, ChildStates
<1>3. child[l] = "none" /\ pc[l] = "start"
  BY <1>1 DEF InOrder
<1>4. InOrder(l)'
  BY <1>1, <1>3 DEF InOrder, TypeOK, IsServer, Wanted
<1>5. ASSUME NEW k \in Launches, k # l PROVE InOrder(k)'
  <2>1. /\ pc'[k] = pc[k] /\ child'[k] = child[k] /\ args'[k] = args[k]
        /\ pipe'[k] = pipe[k] /\ threads'[k] = threads[k] /\ peer'[k] = peer[k]
    BY <1>1, <1>5 DEF TypeOK
  <2> QED BY <1>1, <2>1 DEF InOrder, IsServer, Wanted
<1>6. \A k \in Launches : Named(k)'
  <2>1. \A k \in Launches : child'[k] \in Bound => child[k] \in Bound
    BY <1>1 DEF TypeOK, Bound
  <2>2. \A k \in Launches : child[k] \notin {"none", "unlink"} =>
          child'[k] \notin {"none", "unlink"} /\ args'[k] = args[k]
    BY <1>1, <1>3 DEF TypeOK
  <2> QED BY <2>1, <2>2, NamesKept
<1> QED BY <1>2, <1>4, <1>5, <1>6 DEF IInv

\* A step of the server process of l, or of its parent, that leaves the paths.
LEMMA OwnStep ==
  ASSUME IInv, NEW l \in Launches, UNCHANGED <<args, path, peer>>,
         TypeOK', InOrder(l)', child[l] # "none",
         \A k \in Launches \ {l} :
           /\ pc'[k] = pc[k] /\ child'[k] = child[k]
           /\ pipe'[k] = pipe[k] /\ threads'[k] = threads[k],
         child'[l] \in Bound => child[l] \in Bound,
         child[l] # "unlink" => child'[l] \notin {"none", "unlink"}
  PROVE  IInv'
<1>1. \A k \in Launches : InOrder(k)'
  BY DEF IInv, InOrder, IsServer, Wanted
<1>2. \A k \in Launches : Named(k)'
  BY NamesKept
<1> QED BY <1>1, <1>2 DEF IInv

\* A step of the client l alone.
LEMMA ClientStep ==
  ASSUME IInv, NEW l \in Launches, UNCHANGED <<args, child, threads, pipe, path>>,
         TypeOK', child[l] = "none", pc'[l] \in {"connected", "refused", "served"},
         pc'[l] = "connected" => peer'[l] \in Launches,
         \A k \in Launches \ {l} : pc'[k] = pc[k] /\ peer'[k] = peer[k]
  PROVE  IInv'
<1>1. \A k \in Launches : InOrder(k)'
  BY DEF IInv, InOrder, IsServer, Wanted
<1>2. \A k \in Launches : Named(k)'
  BY NamesKept
<1> QED BY <1>1, <1>2 DEF IInv

\* The child of l takes the path of its ID away, or binds it.
LEMMA PathStep ==
  ASSUME IInv, NEW l \in Launches, Unlink(l) \/ Bind(l)
  PROVE  IInv'
<1>0. PICK to, p :
        /\ child[l] \in {"unlink", "bind"} /\ child' = [child EXCEPT ![l] = to]
        /\ path' = [path EXCEPT ![IdOf(l)] = p]
        /\ <<to, p>> \in {<<"bind", None>>, <<"listen", l>>}
        /\ UNCHANGED <<args, pc, threads, pipe, peer>>
  <2>1. CASE Unlink(l)
    BY <2>1 DEF Unlink, Child
  <2>2. CASE Bind(l)
    BY <2>2 DEF Bind, Child
  <2> QED BY <2>1, <2>2
<1>1. TypeOK /\ (\A k \in Launches : InOrder(k)) /\ (\A k \in Launches : Named(k))
  BY DEF IInv
<1>2. IsServer(l) /\ IdOf(l) \in Id
  BY <1>0, <1>1, HasId DEF InOrder, IsServer
<1>3. TypeOK'
  BY <1>0, <1>1, <1>2 DEF TypeOK, ChildStates
<1>4. child'[l] = to /\ \A k \in Launches \ {l} : child'[k] = child[k]
  BY <1>0, <1>1 DEF TypeOK
<1>5. \A k \in Launches : InOrder(k)'
  BY <1>0, <1>1, <1>4 DEF InOrder, IsServer, Wanted
<1>6. Claims(l, IdOf(l))'
  BY <1>0, <1>2, <1>4 DEF Claims, IsServer, IdOf
<1>7. ASSUME NEW k \in Launches PROVE Named(k)'
  <2>1. CASE k = l
    BY <1>0, <1>1, <1>2, <1>4, <2>1 DEF Named, Bound, IdOf, TypeOK
  <2>2. CASE k # l /\ child[k] \in Bound /\ IdOf(k) = IdOf(l)
    BY <1>0, <1>6, <2>2 DEF Named, IdOf
  <2>3. CASE k # l /\ child[k] \in Bound /\ IdOf(k) # IdOf(l)
    <3>1. path'[IdOf(k)] = path[IdOf(k)]
      <4>1. IdOf(k) \in Id
        BY <1>1, <2>3, HasId DEF InOrder, IsServer, Bound
      <4> QED BY <1>0, <1>1, <2>3, <4>1 DEF TypeOK
    <3>2. \A j \in Launches : Claims(j, IdOf(k)) => Claims(j, IdOf(k))'
      BY <1>0, <1>1, <1>4, <2>3 DEF Claims, IsServer, IdOf
    <3> QED BY <1>0, <1>1, <2>3, <3>1, <3>2 DEF Named, IdOf
  <2>4. CASE k # l /\ child[k] \notin Bound
    BY <1>4, <2>4 DEF Named
  <2> QED BY <2>1, <2>2, <2>3, <2>4
<1> QED BY <1>3, <1>5, <1>7 DEF IInv

\* The invariant is inductive.
LEMMA StepInv ==
  ASSUME IInv, [Next]_vars
  PROVE  IInv'
<1>0. TypeOK /\ (\A k \in Launches : InOrder(k))
  BY DEF IInv
<1>1. ASSUME NEW l \in Launches, ShowHelp(l) PROVE IInv'
  BY <1>1, MainStep DEF ShowHelp
<1>2. ASSUME NEW l \in Launches, StartClient(l) PROVE IInv'
  BY <1>2, MainStep DEF StartClient
<1>3. ASSUME NEW l \in Launches, Fork(l) PROVE IInv'
  BY <1>3, MainStep DEF Fork
<1>4. ASSUME NEW l \in Launches, ParentReads(l) PROVE IInv'
  <2> USE DEF ParentReads
  <2>1. TypeOK'
    BY <1>0, <1>4 DEF TypeOK, PcStates
  <2>2. InOrder(l)'
    BY <1>0, <1>4 DEF InOrder, TypeOK, IsServer, Wanted
  <2> QED BY <1>0, <1>4, <2>1, <2>2, OwnStep DEF TypeOK, InOrder
<1>5. ASSUME NEW l \in Launches, Unlink(l) PROVE IInv'
  BY <1>5, PathStep
<1>6. ASSUME NEW l \in Launches, Bind(l) PROVE IInv'
  BY <1>6, PathStep
<1>7. ASSUME NEW l \in Launches, BindFails(l) \/ Listen(l) \/ ThreadFails(l) PROVE IInv'
  <2> USE DEF BindFails, Listen, ThreadFails, Child
  <2>1. TypeOK'
    BY <1>0, <1>7 DEF TypeOK, ChildStates
  <2>2. InOrder(l)'
    BY <1>0, <1>7 DEF InOrder, TypeOK, IsServer, Wanted
  <2>3. /\ child[l] \notin {"none", "unlink"} /\ child'[l] \notin {"none", "unlink"}
        /\ child'[l] \in Bound => child[l] \in Bound
    BY <1>0, <1>7 DEF TypeOK, Bound
  <2> QED BY <1>0, <1>7, <2>1, <2>2, <2>3, OwnStep DEF TypeOK
<1>8. ASSUME NEW l \in Launches, CreateThread(l) PROVE IInv'
  <2> USE DEF CreateThread
  <2>1. TypeOK'
    BY <1>0, <1>8, LaunchAssumption DEF TypeOK
  <2>2. InOrder(l)'
    BY <1>0, <1>8 DEF InOrder, TypeOK, IsServer, Wanted
  <2> QED BY <1>0, <1>8, <2>1, <2>2, OwnStep DEF TypeOK
<1>9. ASSUME NEW l \in Launches, PipeSend(l) PROVE IInv'
  <2> USE DEF PipeSend, Child
  <2>1. pipe[l] = 0 /\ pc[l] = "waiting"
    BY <1>0, <1>9 DEF InOrder, TypeOK
  <2>2. TypeOK'
    BY <1>0, <1>9, <2>1 DEF TypeOK, ChildStates
  <2>3. InOrder(l)'
    BY <1>0, <1>9, <2>1 DEF InOrder, TypeOK, IsServer, Wanted
  <2> QED BY <1>0, <1>9, <2>2, <2>3, OwnStep DEF TypeOK, Bound
<1>10. ASSUME NEW l \in Launches, Connect(l) PROVE IInv'
  <2>1. IdOf(l) \in Id
    <3>1. args[l].kind \in {"server", "client"}
      BY <1>0, <1>10 DEF Connect, InOrder
    <3> QED BY <1>0, <3>1, HasId
  <2>2. path[IdOf(l)] \in Launches
    BY <1>0, <1>10, <2>1 DEF Connect, Reachable, TypeOK
  <2>3. TypeOK' /\ pc'[l] = "connected" /\ peer'[l] \in Launches
    BY <1>0, <1>10, <2>2 DEF Connect, TypeOK, PcStates
  <2>4. child[l] = "none"
    BY <1>0, <1>10 DEF Connect, InOrder
  <2> QED BY <1>0, <1>10, <2>3, <2>4, ClientStep DEF Connect, TypeOK
<1>11. ASSUME NEW l \in Launches, Refused(l) \/ Serve(l) PROVE IInv'
  <2>1. TypeOK'
    BY <1>0, <1>11 DEF Refused, Serve, TypeOK, PcStates
  <2> QED BY <1>0, <1>11, <2>1, ClientStep DEF Refused, Serve, TypeOK, InOrder
<1>12. ASSUME NEW l \in Launches, ServeExit(l) PROVE IInv'
  <2> USE DEF ServeExit
  <2> DEFINE s == peer[l]
  <2>1. s \in Launches /\ child[s] \in {"create", "serving"} /\ child[l] = "none"
    BY <1>0, <1>12 DEF InOrder, Accepts
  <2>2. TypeOK'
    BY <1>0, <1>12 DEF TypeOK, ChildStates, PcStates
  <2>3. /\ child'[s] = "stopped" /\ \A k \in Launches \ {s} : child'[k] = child[k]
        /\ pc'[l] = "served" /\ \A k \in Launches \ {l} : pc'[k] = pc[k]
    BY <1>0, <1>12, <2>1 DEF TypeOK
  <2>4. \A k \in Launches : InOrder(k)'
    BY <1>0, <1>12, <2>1, <2>3 DEF InOrder, IsServer, Wanted
  <2>5. \A k \in Launches : Named(k)'
    BY <1>12, <2>1, <2>3, NamesKept DEF Bound
  <2> QED BY <2>2, <2>4, <2>5 DEF IInv
<1>13. CASE UNCHANGED vars
  BY <1>13 DEF vars, IInv, TypeOK, InOrder, Named, Claims, IsServer, IdOf, Wanted
<1> QED BY <1>1, <1>2, <1>3, <1>4, <1>5, <1>6, <1>7, <1>8, <1>9, <1>10, <1>11, <1>12, <1>13
           DEF Next, Progress

-----------------------------------------------------------------------------
(* What follows.                                                           *)

\* Every variable of every start keeps its type, and no pipe ever holds two
\* notices.
THEOREM LaunchTyped == Spec => []TypeOK
<1>1. Init => IInv
  BY InitInv
<1>2. IInv /\ [Next]_vars => IInv'
  BY StepInv
<1>3. IInv => TypeOK
  BY DEF IInv
<1> QED BY <1>1, <1>2, <1>3, PTL DEF Spec

\* parse_args and main (args_parser.c:26-116, ptnio.c) take from a line of any
\* length, over any words, what the line means as a whole, unless it has the
\* count in a word of its own (the documented "-t thread_count"): such a line
\* is an error.
THEOREM LinesParsed == Spec => []ParseAgrees
<1>1. ParseAgrees
  <2> SUFFICES ASSUME NEW n \in 0..MaxWords, NEW line \in [1..n -> Words]
               PROVE  Parse(line) = IF SeparateCount(line) THEN Help ELSE Meaning(line)
    BY DEF ParseAgrees
  <2>1. n \in Nat
    BY LaunchAssumption
  <2>2. line \in Seq(Words)
    BY <2>1
  <2> QED BY <2>2, ParseIsMeaning
<1> QED BY <1>1, PTL

\* A "ptnio -n" that returned left a server that listens with every thread it
\* was asked for, under its ID or a later claim on it.
THEOREM StartReturnsReady == Spec => []ReadyWhenReturned
<1>1. Init => IInv
  BY InitInv
<1>2. IInv /\ [Next]_vars => IInv'
  BY StepInv
<1>3. IInv => ReadyWhenReturned
  BY DEF IInv, InOrder, Named, Bound, ReadyWhenReturned
<1> QED BY <1>1, <1>2, <1>3, PTL DEF Spec

\* However many launches there are, a client started after "ptnio -n" came back
\* finds its server, unless it was stopped or another one claimed the ID.
THEOREM ReadyServerFound == Spec => NoRefusalWhenReady
<1> DEFINE Ready(l) == \E k \in Launches :
             /\ pc[k] = "returned" /\ child[k] # "stopped"
             /\ IdOf(k) = IdOf(l)
             /\ \A j \in Launches \ {k} : ~Claims(j, IdOf(l))
           Step == \A l \in Launches :
             pc[l] = "client" /\ pc'[l] = "refused" => ~Ready(l)
<1>1. IInv /\ [Next]_vars => [Step]_vars
  <2> SUFFICES ASSUME IInv, [Next]_vars, NEW l \in Launches,
                      pc[l] = "client", pc'[l] = "refused", Ready(l)
               PROVE  FALSE
    OBVIOUS
  <2>1. Refused(l)
    <3>1. pc' # pc
      OBVIOUS
    <3>2. pc \in [Launches -> PcStates]
      BY DEF IInv, TypeOK
    <3>3. PICK k \in Launches : Progress(k) \/ ShowHelp(k) \/ BindFails(k) \/ ThreadFails(k)
      BY <3>1 DEF Next, vars
    <3>4. Refused(k) /\ k = l
      BY <3>2, <3>3 DEF Progress, ShowHelp, BindFails, ThreadFails, Fork, StartClient, Main,
                        ParentReads, Unlink, Bind, Listen, CreateThread, PipeSend,
                        Connect, Refused, Serve, ServeExit
    <3> QED BY <3>4
  <2>2. PICK k \in Launches :
          /\ pc[k] = "returned" /\ child[k] # "stopped" /\ IdOf(k) = IdOf(l)
          /\ \A j \in Launches \ {k} : ~Claims(j, IdOf(l))
    OBVIOUS
  <2>3. child[k] = "serving" /\ path[IdOf(k)] = k
    BY <2>2 DEF IInv, InOrder, Named, Bound
  <2>4. k # None
    BY LaunchAssumption
  <2> QED BY <2>1, <2>2, <2>3, <2>4 DEF Refused, Reachable, Listens
<1>2. IInv /\ [Next]_vars => IInv'
  BY StepInv
<1>3. NoRefusalWhenReady <=> [][Step]_vars
  BY DEF NoRefusalWhenReady
<1>4. Init => IInv
  BY InitInv
<1> HIDE DEF Step
<1> QED BY <1>1, <1>2, <1>3, <1>4, PTL DEF Spec
=============================================================================
