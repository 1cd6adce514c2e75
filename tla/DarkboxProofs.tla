---------------------------- MODULE DarkboxProofs ----------------------------
(***************************************************************************)
(* What holds of darkbox for every stream of characters: a figure that is  *)
(* drawn to its end is complete, whatever its arguments; what darkbox -e   *)
(* makes of a text is shown as that text by darkbox and by tcs_o, for      *)
(* every length of the text and every size of the buffer; and darkbox,     *)
(* tcs_o and the two cbatboxes keep their types on inputs of any length.   *)
(***************************************************************************)
EXTENDS MCDarkbox, ListLemmas

-----------------------------------------------------------------------------
(* Reading: every loop ends, and the program goes on behind what it read.  *)

LEMMA Reads == Eof \notin Spaces
BY DEF Eof, Spaces, NewLine, Space

LEMMA SkipSpacesIs ==
  ASSUME in \in Seq(Chars), NEW i \in Position
  PROVE  SkipSpaces(i) \in Position
<1> DEFINE T == {j \in i..(Len(in) + i) : Chr(j) \notin Spaces}
<1>1. Len(in) \in Nat
  OBVIOUS
<1>2. Len(in) + i \in T
  BY <1>1, Reads DEF Chr, Position
<1>3. T \subseteq Nat
  BY <1>1 DEF Position
<1>4. PICK j \in T : \A k \in T : j <= k
  <2> HIDE DEF T
  <2> QED BY <1>2, <1>3, NatMin
<1>5. ASSUME NEW k \in i..(j - 1) PROVE Chr(k) \in Spaces
  <2>1. k \in i..(Len(in) + i) /\ ~(j <= k)
    BY <1>1, <1>4 DEF Position
  <2> QED BY <1>4, <2>1
<1>6. \E x \in i..(Len(in) + i) :
        Chr(x) \notin Spaces /\ \A k \in i..(x - 1) : Chr(k) \in Spaces
  BY <1>4, <1>5
<1>7. SkipSpaces(i) \in i..(Len(in) + i)
  BY <1>6 DEF SkipSpaces
<1> QED BY <1>1, <1>7 DEF Position

\* The end of the line that Echo prints.
LEMMA LineEndIs ==
  ASSUME in \in Seq(Chars), NEW i \in Position
  PROVE  LineEnd(i) \in Position
<1> DEFINE T == {j \in i..(i + Len(in)) : Chr(j) \in {NewLine, Eof}}
<1>1. Len(in) \in Nat
  OBVIOUS
<1>2. i + Len(in) \in T
  BY <1>1 DEF Chr, Position
<1>3. T \subseteq Nat
  BY <1>1 DEF Position
<1>4. PICK j \in T : \A k \in T : j <= k
  <2> HIDE DEF T
  <2> QED BY <1>2, <1>3, NatMin
<1>5. ASSUME NEW k \in i..(j - 1) PROVE Chr(k) \notin {NewLine, Eof}
  <2>1. k \in i..(i + Len(in)) /\ ~(j <= k)
    BY <1>1, <1>4 DEF Position
  <2> QED BY <1>4, <2>1
<1>6. \E x \in i..(i + Len(in)) :
        Chr(x) \in {NewLine, Eof} /\ \A k \in i..(x - 1) : Chr(k) \notin {NewLine, Eof}
  BY <1>4, <1>5
<1>7. LineEnd(i) \in i..(i + Len(in))
  BY <1>6 DEF LineEnd
<1> QED BY <1>1, <1>7 DEF Position

\* strtol yields an integer.
LEMMA IntegerOfIs ==
  ASSUME NEW word PROVE IntegerOf(word) \in Int
<1>1. ASSUME NEW c \in Digits PROVE NumberOf(c) \in Int /\ -NumberOf(c) \in Int
  <2>1. \E n \in 0..MaxInt : Numbers[n] = c
    BY DEF Digits
  <2>2. NumberOf(c) \in 0..MaxInt
    BY <2>1 DEF NumberOf
  <2> QED BY <2>2
<1> QED BY <1>1 DEF IntegerOf

LEMMA ReadIntIs ==
  ASSUME in \in Seq(Chars), NEW i \in Position
  PROVE  ReadInt(i).value \in Int /\ ReadInt(i).next \in Position
<1> DEFINE first == SkipSpaces(i)
           T == {k \in first..(first + MaxText) : Chr(k) \in Spaces \/ k = first + MaxText}
           final == CHOOSE k \in first..(first + MaxText) :
                     /\ Chr(k) \in Spaces \/ k = first + MaxText
                     /\ \A j \in first..(k - 1) : Chr(j) \notin Spaces
<1>1. first \in Position /\ MaxText \in Nat
  BY SkipSpacesIs, DarkboxAssumption
<1> HIDE DEF first
<1>2. first + MaxText \in T /\ T \subseteq Nat
  BY <1>1 DEF Position
<1>3. PICK k \in T : \A j \in T : k <= j
  <2> HIDE DEF T
  <2> QED BY <1>2, NatMin
<1>4. ASSUME NEW j \in first..(k - 1) PROVE Chr(j) \notin Spaces
  <2>1. j \in first..(first + MaxText) /\ ~(k <= j)
    BY <1>1, <1>3 DEF Position
  <2> QED BY <1>3, <2>1
<1>5. \E x \in first..(first + MaxText) :
        /\ Chr(x) \in Spaces \/ x = first + MaxText
        /\ \A j \in first..(x - 1) : Chr(j) \notin Spaces
  BY <1>3, <1>4
<1>6. final \in first..(first + MaxText)
  BY <1>5
<1>7. final + 1 \in Position
  <2> HIDE DEF final
  <2> QED BY <1>1, <1>6 DEF Position
<1>8. ReadInt(i) = [value |-> IntegerOf(Read(first, final - 1)), next |-> final + 1]
  BY DEF ReadInt, first
<1> HIDE DEF final
<1> QED BY <1>7, <1>8, IntegerOfIs

\* One character more, for Scan: what is read from each position with room for
\* it, after what is read with less room.
Shorter == [k \in Position |-> [text |-> <<>>, next |-> k + 1]]

Longer(quoted, g) ==
  [k \in Position |->
     IF Chr(k) \in Ends(quoted)
     THEN [text |-> <<>>, next |-> k + 1]
     ELSE LET c == IF Chr(k) = Escape THEN k + 1 ELSE k
          IN  [text |-> <<Chr(c)>> \o g[c + 1].text, next |-> g[c + 1].next]]

Scans(quoted, f, max) ==
  f = [room \in 0..max |->
         IF room = 0 THEN Shorter ELSE Longer(quoted, f[room - 1])]

\* Scan is the loop of read_string: its recursion has a solution.
LEMMA ScanSolved ==
  ASSUME NEW quoted, NEW start \in Position, NEW max \in Nat
  PROVE  \E f : Scans(quoted, f, max) /\ Scan(quoted, start, max) = f[max][start]
<1> DEFINE S == {m \in 0..max : \E f : Scans(quoted, f, m)}
<1>1. 0 \in S
  <2>1. Scans(quoted, [room \in 0..0 |-> Shorter], 0)
    BY DEF Scans
  <2> QED BY <2>1
<1>2. ASSUME NEW m \in 1..max, m - 1 \in S PROVE m \in S
  <2>1. PICK f : Scans(quoted, f, m - 1)
    BY <1>2
  <2> DEFINE g == [room \in 0..m |-> IF room = m THEN Longer(quoted, f[m - 1]) ELSE f[room]]
  <2>2. ASSUME NEW room \in 0..m
        PROVE  g[room] = IF room = 0 THEN Shorter ELSE Longer(quoted, g[room - 1])
    <3>1. CASE room = m
      <4>1. g[room - 1] = f[m - 1] /\ room # 0
        BY <3>1
      <4> QED BY <3>1, <4>1
    <3>2. CASE room # m
      <4>1. room \in 0..(m - 1)
        BY <3>2
      <4>2. f[room] = IF room = 0 THEN Shorter ELSE Longer(quoted, f[room - 1])
        BY <2>1, <4>1 DEF Scans
      <4>3. room # 0 => g[room - 1] = f[room - 1]
        BY <3>2
      <4> QED BY <3>2, <4>2, <4>3
    <3> QED BY <3>1, <3>2
  <2>3. Scans(quoted, g, m)
    <3> HIDE DEF g
    <3>1. g = [room \in 0..m |-> g[room]]
      BY DEF g
    <3> QED BY <2>2, <3>1 DEF Scans
  <2> QED BY <2>3
<1>3. PICK f : Scans(quoted, f, max)
  <2>1. \A m \in 0..max : m \in S
    <3> HIDE DEF S
    <3> QED BY <1>1, <1>2, UpTo
  <2> QED BY <2>1
<1> DEFINE scan[room \in 0..max] ==
             [k \in Position |->
                IF Chr(k) \in Ends(quoted) \/ room = 0
                THEN [text |-> <<>>, next |-> k + 1]
                ELSE LET c    == IF Chr(k) = Escape THEN k + 1 ELSE k
                         rest == scan[room - 1][c + 1]
                     IN  [text |-> <<Chr(c)>> \o rest.text, next |-> rest.next]]
           Turn(h, room) ==
             [k \in Position |->
                IF Chr(k) \in Ends(quoted) \/ room = 0
                THEN [text |-> <<>>, next |-> k + 1]
                ELSE LET c    == IF Chr(k) = Escape THEN k + 1 ELSE k
                         rest == h[c + 1]
                     IN  [text |-> <<Chr(c)>> \o rest.text, next |-> rest.next]]
<1>4. ASSUME NEW h, NEW room \in 0..max
      PROVE  Turn(h, room) = IF room = 0 THEN Shorter ELSE Longer(quoted, h)
  BY DEF Shorter, Longer
<1>5. f = [room \in 0..max |-> Turn(f[room - 1], room)]
  <2> HIDE DEF Turn
  <2> QED BY <1>3, <1>4 DEF Scans
<1>6. scan = [room \in 0..max |-> Turn(scan[room - 1], room)]
  BY <1>5, Zenon
<1>7. Scans(quoted, scan, max)
  <2> HIDE DEF Turn, scan
  <2> QED BY <1>4, <1>6 DEF Scans
<1>8. Scan(quoted, start, max) = scan[max][start]
  BY Zenon DEF Scan
<1> HIDE DEF scan
<1> QED BY <1>7, <1>8

LEMMA ScanIs ==
  ASSUME NEW quoted, NEW start \in Position, NEW max \in Nat
  PROVE  Scan(quoted, start, max).next \in Position
<1>1. PICK f : Scans(quoted, f, max) /\ Scan(quoted, start, max) = f[max][start]
  BY ScanSolved
<1> DEFINE S == {room \in 0..max : \A k \in Position : f[room][k].next \in Position}
<1>2. ASSUME NEW room \in 0..max
      PROVE  f[room] = IF room = 0 THEN Shorter ELSE Longer(quoted, f[room - 1])
  BY <1>1 DEF Scans
<1>3. 0 \in S
  <2>1. f[0] = Shorter
    BY <1>2
  <2>2. \A k \in Position : k + 1 \in Position
    BY DEF Position
  <2>3. \A k \in Position : f[0][k].next \in Position
    BY <2>1, <2>2 DEF Shorter
  <2> QED BY <2>3
<1>4. ASSUME NEW room \in 1..max, room - 1 \in S PROVE room \in S
  <2>1. f[room] = Longer(quoted, f[room - 1])
    BY <1>2
  <2>2. \A k \in Position : k + 1 \in Position /\ k + 1 + 1 \in Position
    BY DEF Position
  <2>3. \A k \in Position : f[room - 1][k].next \in Position
    BY <1>4
  <2>4. \A k \in Position : f[room][k].next \in Position
    BY <2>1, <2>2, <2>3 DEF Longer
  <2> QED BY <2>4
<1>5. max \in S
  <2> HIDE DEF S
  <2> QED BY <1>3, <1>4, UpTo
<1> QED BY <1>1, <1>5

LEMMA ReadStringIs ==
  ASSUME in \in Seq(Chars), at \in Position, NEW max \in Nat
  PROVE  ReadString(max).next \in Position
<1>1. SkipSpaces(at) \in Position /\ SkipSpaces(at) + 1 \in Position
  BY SkipSpacesIs DEF Position
<1> QED BY <1>1, ScanIs DEF ReadString

\* One integer more, for ReadInts.
None == [i \in Position |-> [values |-> <<>>, next |-> i]]

OneMore(g) ==
  [i \in Position |->
     LET v == ReadInt(i)
     IN  [values |-> <<v.value>> \o g[v.next].values, next |-> g[v.next].next]]

ReadsInts(f, n) ==
  f = [m \in 0..n |-> IF m = 0 THEN None ELSE OneMore(f[m - 1])]

LEMMA ReadIntsSolved ==
  ASSUME NEW n \in Nat
  PROVE  \E f : ReadsInts(f, n) /\ ReadInts(n) = f[n][at]
<1> DEFINE S == {m \in 0..n : \E f : ReadsInts(f, m)}
<1>1. 0 \in S
  <2>1. ReadsInts([m \in 0..0 |-> None], 0)
    BY DEF ReadsInts
  <2> QED BY <2>1
<1>2. ASSUME NEW m \in 1..n, m - 1 \in S PROVE m \in S
  <2>1. PICK f : ReadsInts(f, m - 1)
    BY <1>2
  <2> DEFINE g == [k \in 0..m |-> IF k = m THEN OneMore(f[m - 1]) ELSE f[k]]
  <2>2. ASSUME NEW k \in 0..m
        PROVE  g[k] = IF k = 0 THEN None ELSE OneMore(g[k - 1])
    <3>1. CASE k = m
      <4>1. g[k - 1] = f[m - 1] /\ k # 0
        BY <3>1
      <4> QED BY <3>1, <4>1
    <3>2. CASE k # m
      <4>1. k \in 0..(m - 1)
        BY <3>2
      <4>2. f[k] = IF k = 0 THEN None ELSE OneMore(f[k - 1])
        BY <2>1, <4>1 DEF ReadsInts
      <4>3. k # 0 => g[k - 1] = f[k - 1]
        BY <3>2
      <4> QED BY <3>2, <4>2, <4>3
    <3> QED BY <3>1, <3>2
  <2>3. ReadsInts(g, m)
    <3> HIDE DEF g
    <3>1. g = [k \in 0..m |-> g[k]]
      BY DEF g
    <3> QED BY <2>2, <3>1 DEF ReadsInts
  <2> QED BY <2>3
<1>3. PICK f : ReadsInts(f, n)
  <2>1. \A m \in 0..n : m \in S
    <3> HIDE DEF S
    <3> QED BY <1>1, <1>2, UpTo
  <2> QED BY <2>1
<1> DEFINE read[m \in 0..n] ==
             [i \in Position |->
                IF m = 0 THEN [values |-> <<>>, next |-> i]
                ELSE LET v    == ReadInt(i)
                         rest == read[m - 1][v.next]
                     IN  [values |-> <<v.value>> \o rest.values, next |-> rest.next]]
           Turn(h, m) ==
             [i \in Position |->
                IF m = 0 THEN [values |-> <<>>, next |-> i]
                ELSE LET v    == ReadInt(i)
                         rest == h[v.next]
                     IN  [values |-> <<v.value>> \o rest.values, next |-> rest.next]]
<1>4. ASSUME NEW h, NEW m \in 0..n
      PROVE  Turn(h, m) = IF m = 0 THEN None ELSE OneMore(h)
  BY DEF None, OneMore
<1>5. f = [m \in 0..n |-> Turn(f[m - 1], m)]
  <2> HIDE DEF Turn
  <2> QED BY <1>3, <1>4 DEF ReadsInts
<1>6. read = [m \in 0..n |-> Turn(read[m - 1], m)]
  BY <1>5, Zenon
<1>7. ReadsInts(read, n)
  <2> HIDE DEF Turn, read
  <2> QED BY <1>4, <1>6 DEF ReadsInts
<1>8. ReadInts(n) = read[n][at]
  BY Zenon DEF ReadInts
<1> HIDE DEF read
<1> QED BY <1>7, <1>8

LEMMA ReadIntsIs ==
  ASSUME in \in Seq(Chars), at \in Position, NEW n \in Nat
  PROVE  /\ ReadInts(n).next \in Position
         /\ ReadInts(n).values \in Seq(Int)
         /\ Len(ReadInts(n).values) = n
<1>1. PICK f : ReadsInts(f, n) /\ ReadInts(n) = f[n][at]
  BY ReadIntsSolved
<1> DEFINE Typed(r, m) == r.next \in Position /\ r.values \in Seq(Int) /\ Len(r.values) = m
           S == {m \in 0..n : \A i \in Position : Typed(f[m][i], m)}
<1>2. ASSUME NEW m \in 0..n
      PROVE  f[m] = IF m = 0 THEN None ELSE OneMore(f[m - 1])
  BY <1>1 DEF ReadsInts
<1>3. 0 \in S
  <2>1. f[0] = None
    BY <1>2
  <2>2. \A i \in Position : f[0][i] = [values |-> <<>>, next |-> i]
    BY <2>1 DEF None
  <2>3. <<>> \in Seq(Int) /\ Len(<<>>) = 0
    OBVIOUS
  <2>4. ASSUME NEW i \in Position PROVE Typed(f[0][i], 0)
    <3>1. ASSUME NEW e, NEW r, r = [values |-> e, next |-> i]
          PROVE  r.values = e /\ r.next = i
      BY <3>1
    <3>2. f[0][i].values = <<>> /\ f[0][i].next = i
      BY <2>2, <3>1
    <3> QED BY <2>3, <3>2
  <2> QED BY <2>4
<1>4. ASSUME NEW m \in 1..n, m - 1 \in S PROVE m \in S
  <2>1. f[m] = OneMore(f[m - 1])
    BY <1>2
  <2>2. ASSUME NEW i \in Position PROVE Typed(f[m][i], m)
    <3> DEFINE v == ReadInt(i)
               rest == f[m - 1][v.next]
    <3>1. v.value \in Int /\ v.next \in Position
      BY ReadIntIs
    <3>2. Typed(rest, m - 1)
      BY <1>4, <3>1
    <3>a. f[m][i] = [values |-> <<v.value>> \o rest.values, next |-> rest.next]
      BY <2>1 DEF OneMore
    <3> HIDE DEF v, rest
    <3>b. ASSUME NEW e, NEW k, NEW r, r = [values |-> e, next |-> k]
          PROVE  r.values = e /\ r.next = k
      BY <3>b
    <3>3. /\ f[m][i].values = <<v.value>> \o rest.values
          /\ f[m][i].next = rest.next
      BY <3>a, <3>b
    <3>4. <<v.value>> \in Seq(Int) /\ Len(<<v.value>>) = 1
      BY <3>1
    <3>5. /\ <<v.value>> \o rest.values \in Seq(Int)
          /\ Len(<<v.value>> \o rest.values) = 1 + (m - 1)
      BY <3>2, <3>4
    <3> QED BY <3>2, <3>3, <3>5
  <2> QED BY <2>2
<1>5. n \in S
  <2> HIDE DEF S, Typed
  <2>1. \A m \in 0..n : m \in S
    BY <1>3, <1>4, UpTo
  <2> QED BY <2>1
<1> QED BY <1>1, <1>5

-----------------------------------------------------------------------------
(* Lines.  n and m are the lengths along the long axis and the short one;  *)
(* after k steps along the former and l along the latter the error term is *)
(* e, which is how far the cell is from the ideal line.                    *)

On(n, m, k, l, e) ==
  /\ k \in 0..n /\ l \in 0..k /\ e \in Nat
  /\ IF n = 0 THEN e = 0 ELSE e < n
  /\ (n \div 2) - e = k * m - l * n

LEMMA HalfOf ==
  ASSUME NEW n \in Nat
  PROVE  /\ n \div 2 \in Nat /\ 2 * (n \div 2) <= n /\ n <= 2 * (n \div 2) + 1
         /\ Half(n) = n \div 2 /\ Half(-n) = -(n \div 2)
<1>1. n \div 2 \in Nat /\ 2 * (n \div 2) <= n /\ n <= 2 * (n \div 2) + 1
  OBVIOUS
<1>2. Half(n) = n \div 2
  BY DEF Half
<1>3. Half(-n) = -(n \div 2)
  BY DEF Half
<1> QED BY <1>1, <1>2, <1>3

LEMMA OnStart ==
  ASSUME NEW n \in Nat, NEW m \in 0..n
  PROVE  On(n, m, 0, 0, n \div 2)
BY HalfOf DEF On

\* A multiple of n that is nearer to 0 than n is 0.
LEMMA SmallMultiple ==
  ASSUME NEW n \in Nat, NEW d \in Int, n * d < n, -n < n * d
  PROVE  d = 0
<1>1. CASE d >= 1
  <2>1. n * (d - 1) >= 0
    BY <1>1
  <2> QED BY <2>1
<1>2. CASE d <= -1
  <2>1. n * (-1 - d) >= 0
    BY <1>2
  <2> QED BY <2>1
<1> QED BY <1>1, <1>2

\* One step along the long axis, with one along the short axis if the error
\* term is used up.
LEMMA OnNext ==
  ASSUME NEW n \in Nat, NEW m \in 0..n, NEW k, NEW l, NEW e, On(n, m, k, l, e), k # n
  PROVE  /\ e < m => On(n, m, k + 1, l + 1, e - m + n)
         /\ e >= m => On(n, m, k + 1, l, e - m)
<1>1. /\ k \in Nat /\ l \in Nat /\ e \in Nat /\ k < n /\ l <= k /\ e < n
      /\ (n \div 2) - e = k * m - l * n
  BY DEF On
<1>2. /\ (k + 1) * m = k * m + m /\ (l + 1) * n = l * n + n
      /\ k * m \in Int /\ l * n \in Int /\ n \div 2 \in Int
  BY <1>1, HalfOf
<1> QED BY <1>1, <1>2 DEF On

\* At the end of the long axis the short one is at its end, too.
LEMMA OnEnd ==
  ASSUME NEW n \in Nat, NEW m \in 0..n, NEW l, NEW e, On(n, m, n, l, e)
  PROVE  l = m
<1>1. l \in 0..n /\ e \in Nat /\ (n \div 2) - e = n * m - l * n
  BY DEF On
<1>2. CASE n = 0
  BY <1>1, <1>2
<1>3. CASE n # 0
  <2>1. n * (m - l) = n * m - l * n /\ e < n
    BY <1>1, <1>3 DEF On
  <2>2. n * (m - l) = (n \div 2) - e /\ n \div 2 \in Nat /\ 2 * (n \div 2) <= n
    BY <1>1, <2>1, HalfOf
  <2>3. n * (m - l) < n /\ -n < n * (m - l)
    <3> DEFINE h == n \div 2
               d == n * (m - l)
    <3>1. d = h - e /\ h \in Nat /\ 2 * h <= n /\ e < n /\ e \in Nat
      BY <1>1, <2>1, <2>2
    <3> HIDE DEF h, d
    <3>2. d < n /\ -n < d
      BY <1>3, <3>1
    <3> QED BY <3>2 DEF d
  <2>4. m - l = 0
    BY <1>1, <2>3, SmallMultiple
  <2> QED BY <1>1, <2>4
<1> QED BY <1>2, <1>3

\* One cell for each step along the long axis.
LEMMA OnOnce ==
  ASSUME NEW n \in Nat, NEW m \in 0..n, NEW k, NEW l, NEW e, On(n, m, k, l, e),
         NEW j, NEW d, On(n, m, k, j, d)
  PROVE  l = j
<1>1. /\ k \in Nat /\ l \in Nat /\ e \in Nat /\ j \in Nat /\ d \in Nat
      /\ (n \div 2) - e = k * m - l * n
      /\ (n \div 2) - d = k * m - j * n
      /\ k <= n /\ l <= k /\ j <= k
  BY DEF On
<1>2. CASE n = 0
  BY <1>1, <1>2
<1>3. CASE n # 0
  <2>1. n * (l - j) = l * n - j * n /\ e < n /\ d < n
    BY <1>1, <1>3 DEF On
  <2>2. n * (l - j) = e - d
    BY <1>1, <2>1, HalfOf
  <2>3. l - j = 0
    BY <1>1, <2>1, <2>2, SmallMultiple
  <2> QED BY <1>1, <2>3
<1> QED BY <1>2, <1>3

\* No cell is farther than half a cell from the line.
LEMMA OnNear ==
  ASSUME NEW n \in Nat, NEW m \in 0..n, NEW k, NEW l, NEW e, On(n, m, k, l, e)
  PROVE  /\ k * m - l * n \in Int
         /\ (k * m - l * n) * 2 <= n /\ -(k * m - l * n) * 2 <= n
BY HalfOf DEF On

\* The line with the arguments v: its two axes, and the cell after k steps
\* along the long one and l along the short one.
Steep(v) == ~(Abs(v[3] - v[1]) > Abs(v[4] - v[2]))
Long(v)  == IF Steep(v) THEN Abs(v[4] - v[2]) ELSE Abs(v[3] - v[1])
Short(v) == IF Steep(v) THEN Abs(v[3] - v[1]) ELSE Abs(v[4] - v[2])

Place(v, k, l) ==
  IF Steep(v)
  THEN <<v[1] + l * Sign(v[3] - v[1]), v[2] + k * Sign(v[4] - v[2])>>
  ELSE <<v[1] + k * Sign(v[3] - v[1]), v[2] + l * Sign(v[4] - v[2])>>

OnLine(v, k, l) == \E e : On(Long(v), Short(v), k, l, e)

\* c holds the cells before that after k steps.
LineCells(v, c, k) ==
  /\ \A p \in c : \E j \in 0..(k - 1), l \in Nat : OnLine(v, j, l) /\ p = Place(v, j, l)
  /\ \A j \in 0..(k - 1) : \E l \in Nat : OnLine(v, j, l) /\ Place(v, j, l) \in c
  /\ k > 0 => Place(v, 0, 0) \in c

LineAfter(v, k, l, e) ==
  [kind |-> "line", x |-> Place(v, k, l)[1], y |-> Place(v, k, l)[2],
   bx |-> v[3], by |-> v[4],
   dx |-> Abs(v[3] - v[1]), dy |-> Abs(v[4] - v[2]),
   sx |-> Sign(v[3] - v[1]), sy |-> Sign(v[4] - v[2]),
   err |-> IF Steep(v) THEN -e ELSE e]

LineSoFar(v, f, c) ==
  \E k, l, e \in Nat :
    /\ On(Long(v), Short(v), k, l, e)
    /\ LineCells(v, c, k)
    /\ f = LineAfter(v, k, l, e)

LEMMA AbsSign ==
  ASSUME NEW d \in Int
  PROVE  /\ Abs(d) \in Nat /\ Sign(d) \in {1, -1} /\ d = Abs(d) * Sign(d)
BY DEF Abs, Sign

LEMMA Args ==
  ASSUME NEW v \in Seq(Int), NEW n \in Nat, Len(v) = n
  PROVE  \A i \in 1..n : v[i] \in Int
OBVIOUS

LEMMA LineArgs ==
  ASSUME NEW v \in Seq(Int), Len(v) = 4
  PROVE  /\ v[1] \in Int /\ v[2] \in Int /\ v[3] \in Int /\ v[4] \in Int
         /\ Abs(v[3] - v[1]) \in Nat /\ Abs(v[4] - v[2]) \in Nat
         /\ Sign(v[3] - v[1]) \in {1, -1} /\ Sign(v[4] - v[2]) \in {1, -1}
         /\ v[3] = v[1] + Abs(v[3] - v[1]) * Sign(v[3] - v[1])
         /\ v[4] = v[2] + Abs(v[4] - v[2]) * Sign(v[4] - v[2])
         /\ Long(v) \in Nat /\ Short(v) \in 0..Long(v)
<1>1. v[1] \in Int /\ v[2] \in Int /\ v[3] \in Int /\ v[4] \in Int
  <2>1. \A i \in 1..4 : v[i] \in Int
    BY Args
  <2> QED BY <2>1
<1>2. /\ v[3] - v[1] \in Int /\ v[4] - v[2] \in Int
  BY <1>1
<1>3. /\ Abs(v[3] - v[1]) \in Nat /\ Sign(v[3] - v[1]) \in {1, -1}
      /\ v[3] - v[1] = Abs(v[3] - v[1]) * Sign(v[3] - v[1])
      /\ Abs(v[4] - v[2]) \in Nat /\ Sign(v[4] - v[2]) \in {1, -1}
      /\ v[4] - v[2] = Abs(v[4] - v[2]) * Sign(v[4] - v[2])
  BY <1>2, AbsSign
<1>4. Long(v) \in Nat /\ Short(v) \in 0..Long(v)
  BY <1>3 DEF Long, Short, Steep
<1>5. \A a, b, d \in Int : b - a = d => b = a + d
  OBVIOUS
<1>6. ASSUME NEW a \in Nat, NEW s \in {1, -1} PROVE a * s \in Int
  BY <1>6
<1>7. /\ Abs(v[3] - v[1]) * Sign(v[3] - v[1]) \in Int
      /\ Abs(v[4] - v[2]) * Sign(v[4] - v[2]) \in Int
  BY <1>3, <1>6
<1> QED BY <1>1, <1>3, <1>4, <1>5, <1>7

\* Signs turn steps into distances and back.
LEMMA SignedSteps ==
  ASSUME NEW s \in {1, -1}, NEW k \in Nat
  PROVE  /\ (k * s) * s = k
         /\ \A j \in Nat : j * s = k * s => j = k
<1>1. CASE s = 1
  BY <1>1
<1>2. CASE s = -1
  BY <1>2
<1> QED BY <1>1, <1>2

LEMMA Moved ==
  ASSUME NEW a \in Int, NEW s \in {1, -1}, NEW k \in Nat
  PROVE  /\ a + k * s \in Int
         /\ a + (k + 1) * s = (a + k * s) + s
         /\ a + 0 * s = a
<1>1. CASE s = 1
  BY <1>1
<1>2. CASE s = -1
  BY <1>2
<1> QED BY <1>1, <1>2

\* Where a line begins and ends, and the cell after the next step.
LEMMA PlaceIs ==
  ASSUME NEW v \in Seq(Int), Len(v) = 4, NEW k \in Nat, NEW l \in Nat
  PROVE  /\ Place(v, 0, 0) = <<v[1], v[2]>>
         /\ Place(v, Long(v), Short(v)) = <<v[3], v[4]>>
         /\ Place(v, k, l) = <<Place(v, k, l)[1], Place(v, k, l)[2]>>
         /\ Place(v, k, l)[1] \in Int /\ Place(v, k, l)[2] \in Int
         /\ Place(v, k + 1, l) =
              IF Steep(v)
              THEN <<Place(v, k, l)[1], Place(v, k, l)[2] + Sign(v[4] - v[2])>>
              ELSE <<Place(v, k, l)[1] + Sign(v[3] - v[1]), Place(v, k, l)[2]>>
         /\ Place(v, k + 1, l + 1) =
              <<Place(v, k, l)[1] + Sign(v[3] - v[1]), Place(v, k, l)[2] + Sign(v[4] - v[2])>>
<1> DEFINE sx == Sign(v[3] - v[1])
           sy == Sign(v[4] - v[2])
<1>1. sx \in {1, -1} /\ sy \in {1, -1} /\ v[1] \in Int /\ v[2] \in Int
  BY LineArgs
<1>2. /\ Place(v, 0, 0) = IF Steep(v) THEN <<v[1] + 0 * sx, v[2] + 0 * sy>>
                                      ELSE <<v[1] + 0 * sx, v[2] + 0 * sy>>
      /\ Place(v, k, l) = IF Steep(v) THEN <<v[1] + l * sx, v[2] + k * sy>>
                                      ELSE <<v[1] + k * sx, v[2] + l * sy>>
      /\ Place(v, k + 1, l) = IF Steep(v) THEN <<v[1] + l * sx, v[2] + (k + 1) * sy>>
                                          ELSE <<v[1] + (k + 1) * sx, v[2] + l * sy>>
      /\ Place(v, k + 1, l + 1) =
           IF Steep(v) THEN <<v[1] + (l + 1) * sx, v[2] + (k + 1) * sy>>
                       ELSE <<v[1] + (k + 1) * sx, v[2] + (l + 1) * sy>>
  BY DEF Place
<1>3. Place(v, Long(v), Short(v)) = <<v[3], v[4]>>
  BY LineArgs DEF Place, Long, Short
<1> HIDE DEF sx, sy
<1>4. /\ v[1] + k * sx \in Int /\ v[1] + (k + 1) * sx = (v[1] + k * sx) + sx
      /\ v[1] + l * sx \in Int /\ v[1] + (l + 1) * sx = (v[1] + l * sx) + sx
      /\ v[1] + 0 * sx = v[1]
  BY <1>1, Moved
<1>5. /\ v[2] + k * sy \in Int /\ v[2] + (k + 1) * sy = (v[2] + k * sy) + sy
      /\ v[2] + l * sy \in Int /\ v[2] + (l + 1) * sy = (v[2] + l * sy) + sy
      /\ v[2] + 0 * sy = v[2]
  BY <1>1, Moved
<1>6. Place(v, 0, 0) = <<v[1], v[2]>>
  BY <1>2, <1>4, <1>5
<1>7. CASE Steep(v)
  <2> DEFINE a == v[1] + l * sx
             b == v[2] + k * sy
  <2>1. /\ Place(v, k, l) = <<a, b>> /\ a \in Int /\ b \in Int
    BY <1>2, <1>4, <1>5, <1>7
  <2>2. v[1] + (l + 1) * sx = a + sx /\ v[2] + (k + 1) * sy = b + sy
    BY <1>4, <1>5
  <2>3. /\ Place(v, k + 1, l) = <<a, b + sy>>
        /\ Place(v, k + 1, l + 1) = <<a + sx, b + sy>>
    BY <1>2, <2>2, <1>7
  <2> HIDE DEF a, b
  <2>4. Place(v, k, l)[1] = a /\ Place(v, k, l)[2] = b
    BY <2>1
  <2> QED BY <1>3, <1>6, <1>7, <2>1, <2>3, <2>4 DEF sx, sy
<1>8. CASE ~Steep(v)
  <2> DEFINE a == v[1] + k * sx
             b == v[2] + l * sy
  <2>1. /\ Place(v, k, l) = <<a, b>> /\ a \in Int /\ b \in Int
    BY <1>2, <1>4, <1>5, <1>8
  <2>2. v[1] + (k + 1) * sx = a + sx /\ v[2] + (l + 1) * sy = b + sy
    BY <1>4, <1>5
  <2>3. /\ Place(v, k + 1, l) = <<a + sx, b>>
        /\ Place(v, k + 1, l + 1) = <<a + sx, b + sy>>
    BY <1>2, <2>2, <1>8
  <2> HIDE DEF a, b
  <2>4. Place(v, k, l)[1] = a /\ Place(v, k, l)[2] = b
    BY <2>1
  <2> QED BY <1>3, <1>6, <1>8, <2>1, <2>3, <2>4 DEF sx, sy
<1> QED BY <1>7, <1>8

LEMMA LineStart ==
  ASSUME NEW v \in Seq(Int), Len(v) = 4
  PROVE  LineSoFar(v, Line(v[1], v[2], v[3], v[4]), {})
<1> DEFINE e == Long(v) \div 2
<1>1. On(Long(v), Short(v), 0, 0, e) /\ e \in Nat
  BY LineArgs, OnStart, HalfOf
<1>2. LineCells(v, {}, 0)
  BY DEF LineCells
<1>3. /\ Half(Abs(v[3] - v[1])) = Abs(v[3] - v[1]) \div 2
      /\ Half(-Abs(v[4] - v[2])) = -(Abs(v[4] - v[2]) \div 2)
  BY LineArgs, HalfOf
<1>4. Place(v, 0, 0)[1] = v[1] /\ Place(v, 0, 0)[2] = v[2]
  <2>1. Place(v, 0, 0) = <<v[1], v[2]>>
    BY PlaceIs
  <2> QED BY <2>1
<1>5. Line(v[1], v[2], v[3], v[4]) = LineAfter(v, 0, 0, e)
  <2>1. CASE Steep(v)
    BY <1>3, <1>4, <2>1 DEF Line, LineAfter, Steep, Long
  <2>2. CASE ~Steep(v)
    BY <1>3, <1>4, <2>2 DEF Line, LineAfter, Steep, Long
  <2> QED BY <2>1, <2>2
<1> HIDE DEF e
<1> QED BY <1>1, <1>2, <1>5 DEF LineSoFar

LEMMA LineCellsMore ==
  ASSUME NEW v, NEW c, NEW k \in Nat, NEW l \in Nat, LineCells(v, c, k), OnLine(v, k, l)
  PROVE  LineCells(v, c \cup {Place(v, k, l)}, k + 1)
<1> DEFINE d == c \cup {Place(v, k, l)}
<1>1. \A j \in 0..k : j \in 0..(k - 1) \/ j = k
  OBVIOUS
<1>2. 0..(k - 1) \subseteq 0..k /\ k \in 0..k /\ (k + 1) - 1 = k
  OBVIOUS
<1>3. \A p \in d : \E j \in 0..k, i \in Nat : OnLine(v, j, i) /\ p = Place(v, j, i)
  BY <1>2 DEF LineCells
<1>4. \A j \in 0..k : \E i \in Nat : OnLine(v, j, i) /\ Place(v, j, i) \in d
  BY <1>1 DEF LineCells
<1>5. Place(v, 0, 0) \in d
  <2>1. CASE k = 0
    <3>1. l = 0
      BY <2>1 DEF OnLine, On
    <3> QED BY <2>1, <3>1
  <2>2. CASE k > 0
    BY <2>2 DEF LineCells
  <2> QED BY <2>1, <2>2
<1> HIDE DEF d
<1>6. LineCells(v, d, k + 1)
  BY <1>2, <1>3, <1>4, <1>5 DEF LineCells
<1> QED BY <1>6 DEF d

\* The fields of a line's state that a turn changes.
LineOf(x, y, bx, by, dx, dy, sx, sy, err) ==
  [kind |-> "line", x |-> x, y |-> y, bx |-> bx, by |-> by,
   dx |-> dx, dy |-> dy, sx |-> sx, sy |-> sy, err |-> err]

LineSet(f, a, b, d) == [f EXCEPT !.x = a, !.y = b, !.err = d]

LEMMA LineExcept ==
  ASSUME NEW x, NEW y, NEW bx, NEW by, NEW dx, NEW dy, NEW sx, NEW sy, NEW err,
         NEW a, NEW b, NEW d, NEW f, f = LineOf(x, y, bx, by, dx, dy, sx, sy, err)
  PROVE  LineSet(f, a, b, d) = LineOf(a, b, bx, by, dx, dy, sx, sy, d)
<1>1. PICK g : g = [f EXCEPT !.x = a]
  OBVIOUS
<1>2. PICK h : h = [g EXCEPT !.y = b]
  OBVIOUS
<1>3. g = LineOf(a, y, bx, by, dx, dy, sx, sy, err)
  BY <1>1 DEF LineOf
<1>4. h = LineOf(a, b, bx, by, dx, dy, sx, sy, err)
  BY <1>2, <1>3 DEF LineOf
<1>5. [h EXCEPT !.err = d] = LineOf(a, b, bx, by, dx, dy, sx, sy, d)
  BY <1>4 DEF LineOf
<1> QED BY <1>1, <1>2, <1>5 DEF LineSet

\* One turn of the line's loop that is not the last.
LEMMA LineMore ==
  ASSUME NEW v \in Seq(Int), Len(v) = 4, NEW f, NEW c, LineSoFar(v, f, c), ~AtEnd(f)
  PROVE  LineSoFar(v, Advance(f), c \cup {Cell(f)})
<1>1. PICK k, l, e \in Nat : /\ On(Long(v), Short(v), k, l, e)
                             /\ LineCells(v, c, k)
                             /\ f = LineAfter(v, k, l, e)
  BY DEF LineSoFar
<1> DEFINE n == Long(v)
           m == Short(v)
           dx == Abs(v[3] - v[1])
           dy == Abs(v[4] - v[2])
           sx == Sign(v[3] - v[1])
           sy == Sign(v[4] - v[2])
           x == Place(v, k, l)[1]
           y == Place(v, k, l)[2]
<1>2. f = [kind |-> "line", x |-> x, y |-> y, bx |-> v[3], by |-> v[4],
           dx |-> dx, dy |-> dy, sx |-> sx, sy |-> sy,
           err |-> IF Steep(v) THEN -e ELSE e]
  BY <1>1 DEF LineAfter
<1>3. /\ dx \in Nat /\ dy \in Nat /\ n \in Nat /\ m \in 0..n
      /\ Steep(v) <=> ~(dx > dy)
      /\ Steep(v) => n = dy /\ m = dx
      /\ ~Steep(v) => n = dx /\ m = dy
      /\ sx \in Int /\ sy \in Int
  <2>1. sx \in {1, -1} /\ sy \in {1, -1}
    BY LineArgs
  <2>2. sx \in Int /\ sy \in Int
    <3> HIDE DEF sx, sy
    <3> QED BY <2>1
  <2> QED BY <2>2, LineArgs DEF Steep, Long, Short
<1>4. /\ x \in Int /\ y \in Int /\ Place(v, k, l) = <<x, y>>
      /\ Place(v, k + 1, l) = IF Steep(v) THEN <<x, y + sy>> ELSE <<x + sx, y>>
      /\ Place(v, k + 1, l + 1) = <<x + sx, y + sy>>
      /\ Place(v, n, m) = <<v[3], v[4]>>
  BY PlaceIs
<1>5. Cell(f) = Place(v, k, l)
  BY <1>2, <1>4 DEF Cell
<1>6. k # n
  <2> SUFFICES ASSUME k = n PROVE FALSE
    OBVIOUS
  <2>1. l = m
    BY <1>1, <1>3, OnEnd
  <2>2. x = v[3] /\ y = v[4]
    BY <1>4, <2>1
  <2> QED BY <1>2, <2>2 DEF AtEnd, LineAtEnd
<1>7. /\ e < m => On(n, m, k + 1, l + 1, e - m + n)
      /\ e >= m => On(n, m, k + 1, l, e - m)
  BY <1>1, <1>3, <1>6, OnNext
<1>8. LineCells(v, c \cup {Cell(f)}, k + 1)
  BY <1>1, <1>5, LineCellsMore DEF OnLine
<1>9. e < n /\ k + 1 \in Nat /\ l + 1 \in Nat
  BY <1>1, <1>6 DEF On
<1> DEFINE right == f.err > -f.dx
           down == f.err < f.dy
           nx == IF right THEN x + sx ELSE x
           ny == IF down THEN y + sy ELSE y
           nerr == f.err - (IF right THEN dy ELSE 0) + (IF down THEN dx ELSE 0)
<1>10. Advance(f) = [kind |-> "line", x |-> nx, y |-> ny, bx |-> v[3], by |-> v[4],
                     dx |-> dx, dy |-> dy, sx |-> sx, sy |-> sy, err |-> nerr]
  <2> DEFINE err == IF Steep(v) THEN -e ELSE e
  <2>1. f = LineOf(x, y, v[3], v[4], dx, dy, sx, sy, err)
    BY <1>2 DEF LineOf
  <2>2. /\ f.kind = "line" /\ f.x = x /\ f.y = y
        /\ f.dx = dx /\ f.dy = dy /\ f.sx = sx /\ f.sy = sy
    BY <1>2
  <2>3. Advance(f) = LineSet(f, nx, ny, nerr)
    BY <2>2, Zenon DEF Advance, LineNext, LineSet
  <2> HIDE DEF x, y, dx, dy, sx, sy, nx, ny, nerr, err
  <2>4. LineSet(f, nx, ny, nerr) = LineOf(nx, ny, v[3], v[4], dx, dy, sx, sy, nerr)
    BY <2>1, LineExcept
  <2> QED BY <2>3, <2>4 DEF LineOf
<1> HIDE DEF x, y, n, m, dx, dy, sx, sy
<1>11. CASE e < m
  <2> DEFINE d == e - m + n
  <2>1. Advance(f) = [kind |-> "line", x |-> x + sx, y |-> y + sy, bx |-> v[3], by |-> v[4],
                      dx |-> dx, dy |-> dy, sx |-> sx, sy |-> sy,
                      err |-> IF Steep(v) THEN -d ELSE d]
    <3>1. CASE Steep(v)
      <4>1. /\ f.err = -e /\ f.dx = m /\ f.dy = n
            /\ -e > -m /\ -e < n /\ ((-e) - n) + m = -d
        BY <1>2, <1>3, <1>9, <1>11, <3>1
      <4>2. nx = x + sx /\ ny = y + sy /\ nerr = -d
        BY <1>3, <3>1, <4>1
      <4> HIDE DEF d, nx, ny, nerr
      <4> QED BY <1>10, <3>1, <4>1, <4>2
    <3>2. CASE ~Steep(v)
      <4>1. /\ f.err = e /\ f.dx = n /\ f.dy = m
            /\ e > -n /\ e < m /\ (e - m) + n = d
        BY <1>2, <1>3, <1>9, <1>11, <3>2
      <4>2. nx = x + sx /\ ny = y + sy /\ nerr = d
        BY <1>3, <3>2, <4>1
      <4> HIDE DEF d, nx, ny, nerr
      <4> QED BY <1>10, <3>2, <4>1, <4>2
    <3> QED BY <3>1, <3>2
  <2>2. d \in Nat
    BY <1>3, <1>9, <1>11
  <2>3. On(Long(v), Short(v), k + 1, l + 1, d)
    BY <1>7, <1>11 DEF n, m
  <2> HIDE DEF d
  <2>4. Place(v, k + 1, l + 1)[1] = x + sx /\ Place(v, k + 1, l + 1)[2] = y + sy
    BY <1>4
  <2>5. Advance(f) = LineAfter(v, k + 1, l + 1, d)
    BY <2>1, <2>4 DEF LineAfter, dx, dy, sx, sy
  <2> QED BY <1>8, <1>9, <2>2, <2>3, <2>5 DEF LineSoFar
<1>12. CASE e >= m
  <2> DEFINE d == e - m
  <2>1. Advance(f) = [kind |-> "line", x |-> IF Steep(v) THEN x ELSE x + sx,
                      y |-> IF Steep(v) THEN y + sy ELSE y, bx |-> v[3], by |-> v[4],
                      dx |-> dx, dy |-> dy, sx |-> sx, sy |-> sy,
                      err |-> IF Steep(v) THEN -d ELSE d]
    <3>1. CASE Steep(v)
      <4>1. /\ f.err = -e /\ f.dx = m /\ f.dy = n
            /\ ~(-e > -m) /\ -e < n /\ ((-e) - 0) + m = -d
        BY <1>2, <1>3, <1>9, <1>12, <3>1
      <4>2. nx = x /\ ny = y + sy /\ nerr = -d
        BY <1>3, <3>1, <4>1
      <4> HIDE DEF d, nx, ny, nerr
      <4> QED BY <1>10, <3>1, <4>1, <4>2
    <3>2. CASE ~Steep(v)
      <4>1. /\ f.err = e /\ f.dx = n /\ f.dy = m
            /\ e > -n /\ ~(e < m) /\ (e - m) + 0 = d
        BY <1>2, <1>3, <1>9, <1>12, <3>2
      <4>2. nx = x + sx /\ ny = y /\ nerr = d
        BY <1>3, <3>2, <4>1
      <4> HIDE DEF d, nx, ny, nerr
      <4> QED BY <1>10, <3>2, <4>1, <4>2
    <3> QED BY <3>1, <3>2
  <2>2. d \in Nat
    BY <1>3, <1>9, <1>12
  <2>3. On(Long(v), Short(v), k + 1, l, d)
    BY <1>7, <1>12 DEF n, m
  <2> HIDE DEF d
  <2>4. /\ Place(v, k + 1, l)[1] = IF Steep(v) THEN x ELSE x + sx
        /\ Place(v, k + 1, l)[2] = IF Steep(v) THEN y + sy ELSE y
    BY <1>4
  <2>5. Advance(f) = LineAfter(v, k + 1, l, d)
    BY <2>1, <2>4 DEF LineAfter, dx, dy, sx, sy
  <2> QED BY <1>8, <1>9, <2>2, <2>3, <2>5 DEF LineSoFar
<1>13. e < m \/ e >= m
  BY <1>3
<1> QED BY <1>11, <1>12, <1>13

\* How far from the ideal line, times the length, whatever the direction.
Ways == {1, -1}
Off(k, m, l, n) == k * m - l * n
Turned(k, m, l, n, s, t) == (k * s) * (m * t) - (l * t) * (n * s)

LEMMA Cross ==
  ASSUME NEW k \in Nat, NEW m \in Nat, NEW l \in Nat, NEW n \in Nat,
         NEW s \in Ways, NEW t \in Ways
  PROVE  \/ Turned(k, m, l, n, s, t) = Off(k, m, l, n)
         \/ Turned(k, m, l, n, s, t) = -Off(k, m, l, n)
<1>1. s = 1 \/ s = -1
  BY DEF Ways
<1>2. t = 1 \/ t = -1
  BY DEF Ways
<1>3. /\ k * 1 = k /\ m * 1 = m /\ l * 1 = l /\ n * 1 = n
      /\ k * (-1) = -k /\ m * (-1) = -m /\ l * (-1) = -l /\ n * (-1) = -n
  OBVIOUS
<1>4. \A a, b \in Int : (-a) * b = -(a * b) /\ a * (-b) = -(a * b) /\ a * b \in Int
  OBVIOUS
<1>5. k * m \in Int /\ l * n \in Int /\ -k \in Int /\ -m \in Int /\ -l \in Int /\ -n \in Int
  BY <1>4
<1>6. CASE s = 1
  <2>1. CASE t = 1
    BY <1>3, <1>6, <2>1 DEF Turned, Off
  <2>2. CASE t = -1
    BY <1>3, <1>4, <1>5, <1>6, <2>2 DEF Turned, Off
  <2> QED BY <1>2, <2>1, <2>2
<1>7. CASE s = -1
  <2>1. CASE t = 1
    BY <1>3, <1>4, <1>5, <1>7, <2>1 DEF Turned, Off
  <2>2. CASE t = -1
    BY <1>3, <1>4, <1>5, <1>7, <2>2 DEF Turned, Off
  <2> QED BY <1>2, <2>1, <2>2
<1> QED BY <1>1, <1>6, <1>7

\* The axis a line is drawn along, where it starts on it, and which way it goes.
Axis(v) == IF Steep(v) THEN 2 ELSE 1
From(v) == IF Steep(v) THEN v[2] ELSE v[1]
Way(v)  == IF Steep(v) THEN Sign(v[4] - v[2]) ELSE Sign(v[3] - v[1])

LEMMA OnIdealLine ==
  ASSUME NEW v \in Seq(Int), Len(v) = 4, NEW k \in Nat, NEW l \in Nat, OnLine(v, k, l),
         NEW p, p = Place(v, k, l)
  PROVE  /\ Abs((p[1] - v[1]) * (v[4] - v[2]) - (p[2] - v[2]) * (v[3] - v[1])) * 2 <= Long(v)
         /\ p[Axis(v)] = From(v) + k * Way(v)
         /\ (p[Axis(v)] - From(v)) * Way(v) = k
<1> DEFINE sx == Sign(v[3] - v[1])
           sy == Sign(v[4] - v[2])
           dx == Abs(v[3] - v[1])
           dy == Abs(v[4] - v[2])
<1>1. /\ v[1] \in Int /\ v[2] \in Int /\ v[3] \in Int /\ v[4] \in Int
      /\ sx \in {1, -1} /\ sy \in {1, -1} /\ dx \in Nat /\ dy \in Nat
      /\ v[3] = v[1] + dx * sx /\ v[4] = v[2] + dy * sy
      /\ Long(v) \in Nat /\ Short(v) \in 0..Long(v)
  BY LineArgs
<1>2. /\ Steep(v) => Long(v) = dy /\ Short(v) = dx /\ p = <<v[1] + l * sx, v[2] + k * sy>>
      /\ ~Steep(v) => Long(v) = dx /\ Short(v) = dy /\ p = <<v[1] + k * sx, v[2] + l * sy>>
  BY DEF Place, Long, Short
<1>3. /\ Axis(v) = IF Steep(v) THEN 2 ELSE 1
      /\ From(v) = IF Steep(v) THEN v[2] ELSE v[1]
      /\ Way(v) = IF Steep(v) THEN sy ELSE sx
  BY DEF Axis, From, Way
<1> HIDE DEF sx, sy, dx, dy
<1>4. ASSUME NEW a \in Nat, NEW s \in {1, -1} PROVE a * s \in Int /\ (a * s) * s = a
  BY <1>4, SignedSteps
<1>5. ASSUME NEW a \in Int, NEW b \in Int, NEW q, q = a + b PROVE q - a = b
  BY <1>5
<1>6. /\ dx * sx \in Int /\ dy * sy \in Int /\ k * sx \in Int /\ l * sx \in Int
      /\ k * sy \in Int /\ l * sy \in Int /\ (k * sx) * sx = k /\ (k * sy) * sy = k
  BY <1>1, <1>4
<1>7. v[3] - v[1] = dx * sx /\ v[4] - v[2] = dy * sy
  BY <1>1, <1>5, <1>6
<1>c. /\ k \in Nat /\ l \in Nat /\ dx \in Nat /\ dy \in Nat
      /\ sx \in Ways /\ sy \in Ways
  BY <1>1 DEF Ways
<1> DEFINE off == k * Short(v) - l * Long(v)
           d == (p[1] - v[1]) * (dy * sy) - (p[2] - v[2]) * (dx * sx)
<1>8. off \in Int /\ off * 2 <= Long(v) /\ -off * 2 <= Long(v)
  <2>1. PICK e : On(Long(v), Short(v), k, l, e)
    BY DEF OnLine
  <2> QED BY <1>1, <2>1, OnNear
<1>9. d = off \/ d = -off
  <2>1. CASE Steep(v)
    <3>1. p[1] - v[1] = l * sx /\ p[2] - v[2] = k * sy
      <4>1. p[1] = v[1] + l * sx /\ p[2] = v[2] + k * sy
        BY <1>2, <2>1
      <4>2. v[1] \in Int /\ v[2] \in Int
        BY <1>1
      <4> QED BY ONLY <1>5, <1>6, <4>1, <4>2, Zenon
    <3>2. d = Turned(l, dy, k, dx, sx, sy)
      BY <3>1 DEF Turned
    <3>3. off = k * dx - l * dy
      BY <1>2, <2>1
    <3>4. k * dx \in Int /\ l * dy \in Int
      BY <1>1
    <3>5. \A a, b \in Int : a - b = -(b - a) /\ -(a - b) = b - a
      OBVIOUS
    <3>6. \/ Turned(l, dy, k, dx, sx, sy) = l * dy - k * dx
          \/ Turned(l, dy, k, dx, sx, sy) = -(l * dy - k * dx)
      BY <1>c, Cross DEF Off
    <3> HIDE DEF d, off
    <3> QED BY <3>2, <3>3, <3>4, <3>5, <3>6
  <2>2. CASE ~Steep(v)
    <3>1. p[1] - v[1] = k * sx /\ p[2] - v[2] = l * sy
      <4>1. p[1] = v[1] + k * sx /\ p[2] = v[2] + l * sy
        BY <1>2, <2>2
      <4>2. v[1] \in Int /\ v[2] \in Int
        BY <1>1
      <4> QED BY ONLY <1>5, <1>6, <4>1, <4>2, Zenon
    <3>2. d = Turned(k, dy, l, dx, sx, sy)
      BY <3>1 DEF Turned
    <3>3. off = k * dy - l * dx
      BY <1>2, <2>2
    <3>6. \/ Turned(k, dy, l, dx, sx, sy) = k * dy - l * dx
          \/ Turned(k, dy, l, dx, sx, sy) = -(k * dy - l * dx)
      BY <1>c, Cross DEF Off
    <3> HIDE DEF d, off
    <3> QED BY <3>2, <3>3, <3>6
  <2> QED BY <2>1, <2>2
<1> HIDE DEF off, d
<1>10. Abs(d) * 2 <= Long(v)
  <2>1. ASSUME NEW n \in Nat, NEW a \in Int, a * 2 <= n, -a * 2 <= n,
               NEW b, b = a \/ b = -a
        PROVE  Abs(b) * 2 <= n
    BY <2>1 DEF Abs
  <2> QED BY <1>1, <1>8, <1>9, <2>1, Zenon
<1>11. p[Axis(v)] = From(v) + k * Way(v)
  BY <1>2, <1>3
<1>12. (p[Axis(v)] - From(v)) * Way(v) = k
  <2>1. p[Axis(v)] - From(v) = k * Way(v)
    <3>1. From(v) \in Int /\ k * Way(v) \in Int
      BY <1>1, <1>3, <1>6
    <3> QED BY <1>5, <1>11, <3>1, Zenon
  <2> QED BY <1>3, <1>6, <2>1
<1> QED BY <1>7, <1>10, <1>11, <1>12 DEF d

\* All cells of the line: what IsLine asks for.
LEMMA LineWhole ==
  ASSUME NEW v \in Seq(Int), Len(v) = 4, NEW c, LineCells(v, c, Long(v) + 1)
  PROVE  IsLine(c, v[1], v[2], v[3], v[4])
<1> DEFINE n == Long(v)
           a == Axis(v)
           Dist(p) == Abs((p[1] - v[1]) * (v[4] - v[2]) - (p[2] - v[2]) * (v[3] - v[1])) * 2
<1>1. n \in Nat /\ Short(v) \in 0..n /\ Way(v) \in {1, -1} /\ From(v) \in Int
  BY LineArgs DEF Way, From
<1>2. n \in 0..n /\ 0 \in 0..n /\ 0..n \subseteq Nat /\ (n + 1) - 1 = n
  BY <1>1
<1>3. ASSUME NEW p \in c
      PROVE  \E j \in 0..n, l \in Nat : OnLine(v, j, l) /\ p = Place(v, j, l)
  BY <1>2 DEF LineCells
<1>4. ASSUME NEW j \in 0..n
      PROVE  \E l \in Nat : OnLine(v, j, l) /\ Place(v, j, l) \in c
  BY <1>2 DEF LineCells
<1>5. <<v[1], v[2]>> \in c
  <2>1. Place(v, 0, 0) = <<v[1], v[2]>>
    BY PlaceIs
  <2>2. n + 1 > 0
    BY <1>1
  <2> QED BY <2>1, <2>2 DEF LineCells
<1>6. <<v[3], v[4]>> \in c
  <2>1. PICK l \in Nat : OnLine(v, n, l) /\ Place(v, n, l) \in c
    BY <1>2, <1>4
  <2>2. l = Short(v)
    <3>1. PICK e : On(n, Short(v), n, l, e)
      BY <2>1 DEF OnLine
    <3> HIDE DEF n
    <3> QED BY <1>1, <3>1, OnEnd
  <2>3. Place(v, Long(v), Short(v)) = <<v[3], v[4]>>
    BY PlaceIs
  <2> QED BY <2>1, <2>2, <2>3
<1>7. ASSUME NEW p \in c
      PROVE  /\ Dist(p) <= n
             /\ (p[a] - From(v)) * Way(v) \in 0..n
             /\ \A q \in c : q[a] = p[a] => q = p
  <2>1. PICK j \in 0..n, l \in Nat : OnLine(v, j, l) /\ p = Place(v, j, l)
    BY <1>3
  <2>2. /\ Dist(p) <= n
        /\ p[a] = From(v) + j * Way(v)
        /\ (p[a] - From(v)) * Way(v) = j
    BY <1>2, <2>1, OnIdealLine
  <2>3. ASSUME NEW q \in c, q[a] = p[a] PROVE q = p
    <3>1. PICK i \in 0..n, m \in Nat : OnLine(v, i, m) /\ q = Place(v, i, m)
      BY <1>3
    <3>2. (q[a] - From(v)) * Way(v) = i
      BY <1>2, <3>1, OnIdealLine
    <3>3. i = j
      BY <2>2, <2>3, <3>2
    <3>4. PICK d : On(n, Short(v), j, l, d)
      BY <2>1 DEF OnLine
    <3>5. PICK e : On(n, Short(v), j, m, e)
      BY <3>1, <3>3 DEF OnLine
    <3> HIDE DEF n
    <3>6. l = m
      BY <1>1, <3>4, <3>5, OnOnce
    <3> QED BY <2>1, <3>1, <3>3, <3>6
  <2> QED BY <2>2, <2>3
<1>8. ASSUME NEW i \in 0..n
      PROVE  \E p \in c : p[a] = From(v) + i * Way(v)
  <2>1. PICK l \in Nat : OnLine(v, i, l) /\ Place(v, i, l) \in c
    BY <1>4
  <2>2. Place(v, i, l)[a] = From(v) + i * Way(v)
    BY <1>2, <2>1, OnIdealLine
  <2> QED BY <2>1, <2>2
<1>9. CASE Steep(v)
  <2>1. a = 2 /\ From(v) = v[2] /\ Way(v) = Sign(v[4] - v[2]) /\ n = Abs(v[4] - v[2])
    BY <1>9 DEF Axis, From, Way, Long
  <2> HIDE DEF a, n
  <2> QED BY <1>5, <1>6, <1>7, <1>8, <1>9, <2>1 DEF IsLine, Steep
<1>10. CASE ~Steep(v)
  <2>1. a = 1 /\ From(v) = v[1] /\ Way(v) = Sign(v[3] - v[1]) /\ n = Abs(v[3] - v[1])
    BY <1>10 DEF Axis, From, Way, Long
  <2> HIDE DEF a, n
  <2> QED BY <1>5, <1>6, <1>7, <1>8, <1>10, <2>1 DEF IsLine, Steep
<1> QED BY <1>9, <1>10

\* The last turn of the line's loop.
LEMMA LineLast ==
  ASSUME NEW v \in Seq(Int), Len(v) = 4, NEW f, NEW c, LineSoFar(v, f, c), AtEnd(f)
  PROVE  IsLine(c \cup {Cell(f)}, v[1], v[2], v[3], v[4])
<1>1. PICK k, l, e \in Nat : /\ On(Long(v), Short(v), k, l, e)
                             /\ LineCells(v, c, k)
                             /\ f = LineAfter(v, k, l, e)
  BY DEF LineSoFar
<1>2. /\ f.kind = "line" /\ f.bx = v[3] /\ f.by = v[4]
      /\ f.x = Place(v, k, l)[1] /\ f.y = Place(v, k, l)[2]
  BY <1>1 DEF LineAfter
<1>3. Place(v, k, l) = <<f.x, f.y>>
  <2>1. Place(v, k, l) = <<Place(v, k, l)[1], Place(v, k, l)[2]>>
    BY PlaceIs
  <2> QED BY <1>2, <2>1
<1>4. Place(v, k, l) = <<v[3], v[4]>>
  BY <1>2, <1>3 DEF AtEnd, LineAtEnd
<1>5. k = Long(v)
  <2>1. /\ Long(v) \in Nat /\ Short(v) \in Nat /\ Way(v) \in {1, -1} /\ From(v) \in Int
    BY LineArgs DEF Way, From
  <2>2. Place(v, k, l)[Axis(v)] = From(v) + k * Way(v)
    BY <1>1, OnIdealLine DEF OnLine
  <2>3. Place(v, k, l)[Axis(v)] = From(v) + Long(v) * Way(v)
    <3>1. CASE Steep(v)
      BY <1>4, <3>1, LineArgs DEF Axis, From, Way, Long
    <3>2. CASE ~Steep(v)
      BY <1>4, <3>2, LineArgs DEF Axis, From, Way, Long
    <3> QED BY <3>1, <3>2
  <2>4. From(v) + k * Way(v) = From(v) + Long(v) * Way(v)
    BY <2>2, <2>3
  <2>5. ASSUME NEW s \in {1, -1}, NEW z \in Int, NEW n \in Nat, z + k * s = z + n * s
        PROVE  k = n
    <3>1. s = 1 \/ s = -1
      OBVIOUS
    <3> QED BY <2>5, <3>1
  <2> QED BY <2>1, <2>4, <2>5
<1>6. Cell(f) = Place(v, k, l)
  BY <1>2, <1>3 DEF Cell
<1>7. LineCells(v, c \cup {Cell(f)}, Long(v) + 1)
  BY <1>1, <1>5, <1>6, LineCellsMore DEF OnLine
<1> QED BY <1>7, LineWhole

-----------------------------------------------------------------------------
(***************************************************************************)
(* Boxes: the cells drawn are those of the box before the next one, column *)
(* by column.                                                              *)
(***************************************************************************)
BoxHas(v, a, b) ==
  /\ a \in v[1]..(v[1] + v[3] - 1)
  /\ b \in v[2]..(v[2] + v[4] - 1)
  /\ v[5] # 0 => \/ a = v[1] \/ a = v[1] + v[3] - 1
                 \/ b = v[2] \/ b = v[2] + v[4] - 1

BoxAfter(v, i, j) ==
  [kind |-> "box", x |-> v[1], y |-> v[2], w |-> v[3], h |-> v[4],
   hollow |-> v[5] # 0, ix |-> i, iy |-> j]

Earlier(a, b, i, j) == a < i \/ (a = i /\ b < j)

\* The columns before i are whole, column i up to row j.
BoxCells(v, c, i, j) ==
  /\ c \subseteq Int \X Int
  /\ \A a, b \in Int : <<a, b>> \in c <=> BoxHas(v, a, b) /\ Earlier(a, b, i, j)

BoxSoFar(v, f, c) ==
  /\ v[3] > 0 /\ v[4] > 0
  /\ \E i \in v[1]..(v[1] + v[3] - 1), j \in v[2]..(v[2] + v[4] - 1) :
       f = BoxAfter(v, i, j) /\ BoxCells(v, c, i, j)

LEMMA BoxArgs ==
  ASSUME NEW v \in Seq(Int), Len(v) = 5
  PROVE  v[1] \in Int /\ v[2] \in Int /\ v[3] \in Int /\ v[4] \in Int /\ v[5] \in Int
<1>1. \A i \in 1..5 : v[i] \in Int
  BY Args
<1> QED BY <1>1

LEMMA BoxFields ==
  ASSUME NEW v, NEW i, NEW j, NEW f, f = BoxAfter(v, i, j)
  PROVE  /\ f.kind = "box" /\ f.x = v[1] /\ f.y = v[2] /\ f.w = v[3] /\ f.h = v[4]
         /\ f.ix = i /\ f.iy = j
BY DEF BoxAfter

LEMMA BoxHollow ==
  ASSUME NEW v, NEW i, NEW j, NEW f, f = BoxAfter(v, i, j)
  PROVE  f.hollow <=> v[5] # 0
BY Zenon DEF BoxAfter

LEMMA BoxDown ==
  ASSUME NEW v, NEW i, NEW j, NEW f, f = BoxAfter(v, i, j), NEW b
  PROVE  [f EXCEPT !.iy = b] = BoxAfter(v, i, b)
BY DEF BoxAfter

BoxSet(f, a, b) == [f EXCEPT !.ix = a, !.iy = b]

LEMMA BoxAcross ==
  ASSUME NEW v, NEW i, NEW j, NEW f, f = BoxAfter(v, i, j), NEW a, NEW b
  PROVE  BoxSet(f, a, b) = BoxAfter(v, a, b)
<1>1. PICK g : g = [f EXCEPT !.ix = a]
  OBVIOUS
<1>2. g = BoxAfter(v, a, j)
  BY <1>1 DEF BoxAfter
<1>3. [g EXCEPT !.iy = b] = BoxAfter(v, a, b)
  BY <1>2, BoxDown
<1> QED BY <1>1, <1>3 DEF BoxSet

LEMMA BoxStart ==
  ASSUME NEW v \in Seq(Int), Len(v) = 5, NEW f, f = Box(v[1], v[2], v[3], v[4], v[5])
  PROVE  /\ Empty(f) => IsBox({}, v[1], v[2], v[3], v[4], v[5])
         /\ ~Empty(f) => BoxSoFar(v, f, {})
<1>1. v[1] \in Int /\ v[2] \in Int /\ v[3] \in Int /\ v[4] \in Int
  BY BoxArgs
<1>2. f = BoxAfter(v, v[1], v[2])
  BY DEF Box, BoxAfter
<1>3. f.kind = "box" /\ f.w = v[3] /\ f.h = v[4]
  BY <1>2, BoxFields
<1>4. Empty(f) <=> v[3] <= 0 \/ v[4] <= 0
  BY <1>3 DEF Empty, BoxEmpty
<1>5. CASE Empty(f)
  <2>1. ASSUME NEW a \in Int, NEW b \in Int, b <= 0 PROVE a..(a + b - 1) = {}
    BY <2>1
  <2>2. (v[1]..(v[1] + v[3] - 1)) = {} \/ (v[2]..(v[2] + v[4] - 1)) = {}
    BY <1>1, <1>4, <1>5, <2>1
  <2>3. (v[1]..(v[1] + v[3] - 1)) \X (v[2]..(v[2] + v[4] - 1)) = {}
    BY <2>2
  <2>4. \A e : {} \ e = {}
    OBVIOUS
  <2>5. IsBox({}, v[1], v[2], v[3], v[4], v[5])
    BY <2>3, <2>4, Zenon DEF IsBox
  <2> QED BY <1>5, <2>5
<1>6. CASE ~Empty(f)
  <2>1. v[3] > 0 /\ v[4] > 0
    BY <1>1, <1>4, <1>6
  <2>2. v[1] \in v[1]..(v[1] + v[3] - 1) /\ v[2] \in v[2]..(v[2] + v[4] - 1)
    BY <1>1, <2>1
  <2>3. BoxCells(v, {}, v[1], v[2])
    <3>1. ASSUME NEW a \in Int, NEW b \in Int, BoxHas(v, a, b)
          PROVE  ~Earlier(a, b, v[1], v[2])
      BY <1>1, <3>1 DEF BoxHas, Earlier
    <3> QED BY <3>1 DEF BoxCells
  <2>4. BoxSoFar(v, f, {})
    BY <1>2, <2>1, <2>2, <2>3 DEF BoxSoFar
  <2> QED BY <1>6, <2>4
<1> QED BY <1>5, <1>6

\* One turn of the box's loop: the cell is drawn if the box has it.
LEMMA BoxTurn ==
  ASSUME NEW v \in Seq(Int), Len(v) = 5, NEW f, NEW c,
         NEW i \in Int, NEW j \in Int, f = BoxAfter(v, i, j),
         i \in v[1]..(v[1] + v[3] - 1), j \in v[2]..(v[2] + v[4] - 1),
         BoxCells(v, c, i, j),
         NEW d, d = IF Plots(f) THEN c \cup {Cell(f)} ELSE c
  PROVE  BoxCells(v, d, i, j + 1)
<1>1. v[1] \in Int /\ v[2] \in Int /\ v[3] \in Int /\ v[4] \in Int
  BY BoxArgs
<1>2. Cell(f) = <<i, j>>
  <2>1. f.kind = "box" /\ f.ix = i /\ f.iy = j
    BY BoxFields
  <2> QED BY <2>1 DEF Cell
<1>3. Plots(f) <=> BoxHas(v, i, j)
  <2>1. /\ f.kind = "box" /\ f.x = v[1] /\ f.y = v[2] /\ f.w = v[3] /\ f.h = v[4]
        /\ f.ix = i /\ f.iy = j
    BY BoxFields
  <2>2. f.hollow <=> v[5] # 0
    BY BoxHollow, Zenon
  <2>3. BoxPlots(f) <=> (f.hollow => \/ i = v[1] \/ i = v[1] + v[3] - 1
                                     \/ j = v[2] \/ j = v[2] + v[4] - 1)
    BY <2>1, Zenon DEF BoxPlots
  <2> QED BY <2>1, <2>2, <2>3, Zenon DEF Plots, BoxHas
<1>4. d \subseteq Int \X Int
  BY <1>2 DEF BoxCells
<1>5. ASSUME NEW a \in Int, NEW b \in Int
      PROVE  <<a, b>> \in d <=> BoxHas(v, a, b) /\ Earlier(a, b, i, j + 1)
  <2>1. Earlier(a, b, i, j + 1) <=> Earlier(a, b, i, j) \/ (a = i /\ b = j)
    BY DEF Earlier
  <2>2. <<a, b>> \in c <=> BoxHas(v, a, b) /\ Earlier(a, b, i, j)
    BY DEF BoxCells
  <2>3. <<a, b>> = <<i, j>> <=> a = i /\ b = j
    OBVIOUS
  <2>4. <<a, b>> \in d <=> <<a, b>> \in c \/ (BoxHas(v, i, j) /\ <<a, b>> = <<i, j>>)
    BY <1>2, <1>3
  <2> QED BY <2>1, <2>2, <2>3, <2>4
<1> QED BY <1>4, <1>5 DEF BoxCells

LEMMA BoxMore ==
  ASSUME NEW v \in Seq(Int), Len(v) = 5, NEW f, NEW c, BoxSoFar(v, f, c), ~AtEnd(f),
         NEW d, d = IF Plots(f) THEN c \cup {Cell(f)} ELSE c
  PROVE  BoxSoFar(v, Advance(f), d)
<1>1. v[1] \in Int /\ v[2] \in Int /\ v[3] \in Int /\ v[4] \in Int
  BY BoxArgs
<1>2. PICK i \in v[1]..(v[1] + v[3] - 1), j \in v[2]..(v[2] + v[4] - 1) :
        f = BoxAfter(v, i, j) /\ BoxCells(v, c, i, j)
  BY DEF BoxSoFar
<1>3. i \in Int /\ j \in Int /\ v[3] > 0 /\ v[4] > 0
  BY <1>1 DEF BoxSoFar
<1>4. BoxCells(v, d, i, j + 1)
  BY <1>2, <1>3, BoxTurn
<1>5. /\ f.kind = "box" /\ f.x = v[1] /\ f.y = v[2] /\ f.w = v[3] /\ f.h = v[4]
      /\ f.ix = i /\ f.iy = j
  BY <1>2, BoxFields
<1>6. CASE j < v[2] + v[4] - 1
  <2>1. Advance(f) = BoxAfter(v, i, j + 1)
    <3>1. Advance(f) = [f EXCEPT !.iy = j + 1]
      BY <1>5, <1>6 DEF Advance, BoxNext
    <3> QED BY <1>2, <3>1, BoxDown
  <2>2. j + 1 \in v[2]..(v[2] + v[4] - 1)
    BY <1>1, <1>2, <1>3, <1>6
  <2> QED BY <1>3, <1>4, <2>1, <2>2 DEF BoxSoFar
<1>7. CASE ~(j < v[2] + v[4] - 1)
  <2>1. Advance(f) = BoxAfter(v, i + 1, v[2])
    <3>1. Advance(f) = BoxSet(f, i + 1, v[2])
      BY <1>5, <1>7, Zenon DEF Advance, BoxNext, BoxSet
    <3> QED BY <1>2, <3>1, BoxAcross
  <2>2. j = v[2] + v[4] - 1
    <3>1. ASSUME NEW lo \in Int, NEW hi \in Int, j \in lo..hi, ~(j < hi) PROVE j = hi
      BY <1>3, <3>1
    <3>2. v[2] + v[4] - 1 \in Int
      BY <1>1
    <3> QED BY <1>1, <1>2, <1>7, <3>1, <3>2, Zenon
  <2>3. i # v[1] + v[3] - 1
    BY <1>5, <2>2 DEF AtEnd, BoxAtEnd
  <2>4. i + 1 \in v[1]..(v[1] + v[3] - 1) /\ v[2] \in v[2]..(v[2] + v[4] - 1)
    <3>1. ASSUME NEW lo \in Int, NEW n \in Int, n > 0, i \in lo..(lo + n - 1),
                 i # lo + n - 1
          PROVE  i + 1 \in lo..(lo + n - 1)
      BY <1>3, <3>1
    <3>2. ASSUME NEW lo \in Int, NEW n \in Int, n > 0 PROVE lo \in lo..(lo + n - 1)
      BY <3>2
    <3> QED BY <1>1, <1>2, <1>3, <2>3, <3>1, <3>2, Zenon
  <2>5. ASSUME NEW a \in Int, NEW b \in Int, BoxHas(v, a, b)
        PROVE  Earlier(a, b, i, j + 1) <=> Earlier(a, b, i + 1, v[2])
    BY <1>1, <1>3, <2>2, <2>5 DEF BoxHas, Earlier
  <2>6. BoxCells(v, d, i + 1, v[2])
    BY <1>4, <2>5 DEF BoxCells
  <2> QED BY <1>3, <2>1, <2>4, <2>6 DEF BoxSoFar
<1> QED BY <1>6, <1>7

LEMMA BoxLast ==
  ASSUME NEW v \in Seq(Int), Len(v) = 5, NEW f, NEW c, BoxSoFar(v, f, c), AtEnd(f),
         NEW d, d = IF Plots(f) THEN c \cup {Cell(f)} ELSE c
  PROVE  IsBox(d, v[1], v[2], v[3], v[4], v[5])
<1>1. v[1] \in Int /\ v[2] \in Int /\ v[3] \in Int /\ v[4] \in Int
  BY BoxArgs
<1>2. PICK i \in v[1]..(v[1] + v[3] - 1), j \in v[2]..(v[2] + v[4] - 1) :
        f = BoxAfter(v, i, j) /\ BoxCells(v, c, i, j)
  BY DEF BoxSoFar
<1>3. i \in Int /\ j \in Int
  BY <1>1
<1>4. BoxCells(v, d, i, j + 1)
  BY <1>2, <1>3, BoxTurn
<1>5. i = v[1] + v[3] - 1 /\ j = v[2] + v[4] - 1
  <2>1. /\ f.kind = "box" /\ f.x = v[1] /\ f.y = v[2] /\ f.w = v[3] /\ f.h = v[4]
        /\ f.ix = i /\ f.iy = j
    BY <1>2, BoxFields
  <2> QED BY <2>1 DEF AtEnd, BoxAtEnd
<1>6. ASSUME NEW a \in Int, NEW b \in Int
      PROVE  <<a, b>> \in d <=> BoxHas(v, a, b)
  <2>1. BoxHas(v, a, b) => Earlier(a, b, i, j + 1)
    BY <1>1, <1>5 DEF BoxHas, Earlier
  <2> QED BY <1>4, <2>1 DEF BoxCells
<1> DEFINE across == v[1]..(v[1] + v[3] - 1)
           down == v[2]..(v[2] + v[4] - 1)
           all == across \X down
           inside == ((v[1] + 1)..(v[1] + v[3] - 2)) \X ((v[2] + 1)..(v[2] + v[4] - 2))
           whole == IF v[5] # 0 THEN all \ inside ELSE all
<1>7. ASSUME NEW a \in Int, NEW b \in Int
      PROVE  <<a, b>> \in whole <=> BoxHas(v, a, b)
  <2>1. <<a, b>> \in all <=> a \in across /\ b \in down
    OBVIOUS
  <2>2. <<a, b>> \in inside <=> /\ a \in (v[1] + 1)..(v[1] + v[3] - 2)
                               /\ b \in (v[2] + 1)..(v[2] + v[4] - 2)
    OBVIOUS
  <2>3. <<a, b>> \in whole <=>
          /\ a \in across /\ b \in down
          /\ v[5] # 0 => ~(/\ a \in (v[1] + 1)..(v[1] + v[3] - 2)
                          /\ b \in (v[2] + 1)..(v[2] + v[4] - 2))
    BY <2>1, <2>2
  <2>4. a \in across /\ b \in down =>
          (~(/\ a \in (v[1] + 1)..(v[1] + v[3] - 2)
             /\ b \in (v[2] + 1)..(v[2] + v[4] - 2)) <=>
             \/ a = v[1] \/ a = v[1] + v[3] - 1
             \/ b = v[2] \/ b = v[2] + v[4] - 1)
    <3>1. ASSUME a \in across
          PROVE  a \notin (v[1] + 1)..(v[1] + v[3] - 2) <=> a = v[1] \/ a = v[1] + v[3] - 1
      <4> DEFINE lo == v[1]
                 n == v[3]
      <4>1. lo \in Int /\ n \in Int /\ a \in lo..(lo + n - 1)
        BY <1>1, <3>1
      <4> HIDE DEF lo, n
      <4>2. a \notin (lo + 1)..(lo + n - 2) <=> a = lo \/ a = lo + n - 1
        BY <4>1
      <4> QED BY <4>2 DEF lo, n
    <3>2. ASSUME b \in down
          PROVE  b \notin (v[2] + 1)..(v[2] + v[4] - 2) <=> b = v[2] \/ b = v[2] + v[4] - 1
      <4> DEFINE lo == v[2]
                 n == v[4]
      <4>1. lo \in Int /\ n \in Int /\ b \in lo..(lo + n - 1)
        BY <1>1, <3>2
      <4> HIDE DEF lo, n
      <4>2. b \notin (lo + 1)..(lo + n - 2) <=> b = lo \/ b = lo + n - 1
        BY <4>1
      <4> QED BY <4>2 DEF lo, n
    <3> QED BY <3>1, <3>2, Zenon
  <2> HIDE DEF whole
  <2> QED BY <2>3, <2>4, Zenon DEF BoxHas
<1>8. whole \subseteq Int \X Int /\ d \subseteq Int \X Int
  BY <1>1, <1>4 DEF BoxCells
<1> HIDE DEF whole
<1>9. d = whole
  <2>1. ASSUME NEW p \in Int \X Int PROVE p \in d <=> p \in whole
    <3>1. PICK a \in Int, b \in Int : p = <<a, b>>
      OBVIOUS
    <3> QED BY <1>6, <1>7, <3>1
  <2> QED BY <1>8, <2>1
<1> QED BY <1>9 DEF whole, IsBox

-----------------------------------------------------------------------------
(***************************************************************************)
(* Circles: the arc of the first octant, whose every point is drawn eight  *)
(* times; the error term says where a point is.                            *)
(***************************************************************************)
ArcPoint(r, m, n, e) ==
  /\ m \in Nat /\ n \in 0..m /\ m <= r
  /\ e = m * m + n * n + 2 * n - r * r
  /\ -2 * m <= e /\ e <= 2 * n + 1
  /\ n = 0 => m = r /\ e = 0

LEMMA ArcStart ==
  ASSUME NEW r \in Nat
  PROVE  ArcPoint(r, r, 0, 0)
<1>1. r * r \in Int /\ 0 * 0 = 0
  OBVIOUS
<1>2. 0 = r * r + 0 * 0 + 2 * 0 - r * r
  BY <1>1
<1> QED BY <1>2 DEF ArcPoint

\* A turn of the arc goes up if the point is not outside, else in; then the
\* next one goes up.
LEMMA ArcTurn ==
  ASSUME NEW r \in Nat, NEW m, NEW n, NEW e, ArcPoint(r, m, n, e)
  PROVE  /\ e <= 0 /\ m >= n + 1 => ArcPoint(r, m, n + 1, e + 2 * (n + 1) + 1)
         /\ e > 0 /\ m - 1 >= n =>
              /\ ArcPoint(r, m - 1, n, e - (2 * (m - 1) + 1))
              /\ e - (2 * (m - 1) + 1) <= 0
<1>1. /\ m \in Nat /\ n \in Nat /\ n <= m /\ m <= r
      /\ e = m * m + n * n + 2 * n - r * r
      /\ -2 * m <= e /\ e <= 2 * n + 1
      /\ n = 0 => m = r /\ e = 0
  BY DEF ArcPoint
<1>2. /\ m * m \in Int /\ n * n \in Int /\ r * r \in Int
      /\ (n + 1) * (n + 1) = n * n + 2 * n + 1
      /\ (m - 1) * (m - 1) = m * m - 2 * m + 1
  BY <1>1
<1> DEFINE mm == m * m
           nn == n * n
           rr == r * r
<1>3. /\ mm \in Int /\ nn \in Int /\ rr \in Int /\ e \in Int
      /\ e = mm + nn + 2 * n - rr
      /\ (n + 1) * (n + 1) = nn + 2 * n + 1
      /\ (m - 1) * (m - 1) = mm - 2 * m + 1
  BY <1>1, <1>2
<1>4. ASSUME e <= 0, m >= n + 1
      PROVE  ArcPoint(r, m, n + 1, e + 2 * (n + 1) + 1)
  <2> HIDE DEF mm, nn, rr
  <2>1. e + 2 * (n + 1) + 1 = mm + (nn + 2 * n + 1) + 2 * (n + 1) - rr
    BY <1>1, <1>3
  <2>2. e + 2 * (n + 1) + 1 = m * m + (n + 1) * (n + 1) + 2 * (n + 1) - r * r
    BY <1>3, <2>1 DEF mm, rr
  <2>3. /\ n + 1 \in 0..m /\ n + 1 # 0
        /\ -2 * m <= e + 2 * (n + 1) + 1 /\ e + 2 * (n + 1) + 1 <= 2 * (n + 1) + 1
    BY <1>1, <1>3, <1>4
  <2> QED BY <1>1, <2>2, <2>3 DEF ArcPoint
<1>5. ASSUME e > 0, m - 1 >= n
      PROVE  /\ ArcPoint(r, m - 1, n, e - (2 * (m - 1) + 1))
             /\ e - (2 * (m - 1) + 1) <= 0
  <2> HIDE DEF mm, nn, rr
  <2>1. e - (2 * (m - 1) + 1) = (mm - 2 * m + 1) + nn + 2 * n - rr
    BY <1>1, <1>3
  <2>2. e - (2 * (m - 1) + 1) = (m - 1) * (m - 1) + n * n + 2 * n - r * r
    BY <1>3, <2>1 DEF nn, rr
  <2>3. /\ m - 1 \in Nat /\ n \in 0..(m - 1) /\ n # 0 /\ m - 1 <= r
        /\ -2 * (m - 1) <= e - (2 * (m - 1) + 1)
        /\ e - (2 * (m - 1) + 1) <= 2 * n + 1
        /\ e - (2 * (m - 1) + 1) <= 0
    BY <1>1, <1>3, <1>5
  <2> QED BY <2>2, <2>3 DEF ArcPoint
<1> QED BY <1>4, <1>5

\* No point is half a cell farther from the centre than the radius, or one and
\* a half nearer.
LEMMA ArcRound ==
  ASSUME NEW r \in Nat, NEW m, NEW n, NEW e, ArcPoint(r, m, n, e)
  PROVE  /\ 4 * (m * m + n * n) < (2 * r + 1) * (2 * r + 1)
         /\ r > 1 => 4 * (m * m + n * n) > (2 * r - 3) * (2 * r - 3)
<1>1. /\ m \in Nat /\ n \in Nat /\ n <= m /\ m <= r
      /\ e = m * m + n * n + 2 * n - r * r
      /\ -2 * m <= e /\ e <= 2 * n + 1
      /\ n = 0 => m = r /\ e = 0
  BY DEF ArcPoint
<1> DEFINE p == m * m + n * n
           rr == r * r
<1>2. /\ p \in Int /\ rr \in Int /\ e \in Int /\ e = p + 2 * n - rr
  BY <1>1
<1>3. /\ (2 * r + 1) * (2 * r + 1) = 4 * rr + 4 * r + 1
      /\ (2 * r - 3) * (2 * r - 3) = 4 * rr - 12 * r + 9
      /\ (3 * r - 2) * (3 * r - 2) = 9 * rr - 12 * r + 4
  OBVIOUS
<1>4. 4 * p < 4 * rr + 4 * r + 1
  <2>1. CASE r = 0
    <3>1. m = 0 /\ n = 0
      BY <1>1, <2>1
    <3> QED BY <2>1, <3>1
  <2>2. CASE r # 0
    <3> HIDE DEF p, rr
    <3>1. p <= rr + 1
      BY <1>1, <1>2
    <3> QED BY <1>2, <2>2, <3>1
  <2> QED BY <2>1, <2>2
<1>5. ASSUME r > 1 PROVE 4 * p > 4 * rr - 12 * r + 9
  <2>1. CASE 2 * (m + n) <= 3 * r - 3
    <3> HIDE DEF p, rr
    <3>1. p >= rr - 2 * (m + n)
      BY <1>1, <1>2
    <3> QED BY <1>1, <1>2, <2>1, <3>1
  <2>2. CASE 2 * (m + n) > 3 * r - 3
    <3> DEFINE s == 2 * (m + n)
               t == 3 * r - 2
    <3>1. s \in Nat /\ t \in Nat /\ s >= t
      BY <1>1, <1>5, <2>2
    <3>2. 8 * p - s * s = 4 * ((m - n) * (m - n)) /\ (m - n) * (m - n) >= 0
      <4>1. m - n \in Int
        BY <1>1
      <4>2. \A d \in Int : d * d >= 0
        OBVIOUS
      <4>3. 8 * p - s * s = 4 * ((m - n) * (m - n))
        BY <1>1
      <4> QED BY <4>1, <4>2, <4>3
    <3>3. \A a, b \in Nat : a >= b => a * a >= b * b
      OBVIOUS
    <3>4. s * s >= t * t
      <4> HIDE DEF s, t
      <4> QED BY <3>1, <3>3
    <3>5. t * t = 9 * rr - 12 * r + 4
      BY <1>3
    <3>6. rr >= 2 * r
      BY <1>5
    <3> DEFINE ss == s * s
               tt == t * t
               dd == (m - n) * (m - n)
    <3>7. ss \in Int /\ tt \in Int /\ dd \in Int
      BY <1>1
    <3>8. 8 * p - ss = 4 * dd /\ dd >= 0 /\ ss >= tt /\ tt = 9 * rr - 12 * r + 4
      BY <3>2, <3>4, <3>5
    <3> HIDE DEF p, rr, s, t, ss, tt, dd
    <3>9. 8 * p >= 9 * rr - 12 * r + 4
      BY <1>2, <3>7, <3>8
    <3> QED BY <1>2, <1>5, <3>6, <3>9
  <2> QED BY <1>1, <2>1, <2>2
<1> QED BY <1>3, <1>4, <1>5

\* The eight plots of a point of the arc, and the cells they draw.
Octant(m, n, k) ==
  << <<m, n>>, <<n, m>>, <<-n, m>>, <<-m, n>>,
     <<-m, -n>>, <<-n, -m>>, <<n, -m>>, <<m, -n>> >>[k]

Mirrors(a, b, m, n) ==
  \/ (Abs(a) = m /\ Abs(b) = n)
  \/ (Abs(a) = n /\ Abs(b) = m)

LEMMA OctantIs ==
  ASSUME NEW m \in Int, NEW n \in Int
  PROVE  /\ Octant(m, n, 1) = <<m, n>> /\ Octant(m, n, 2) = <<n, m>>
         /\ Octant(m, n, 3) = <<-n, m>> /\ Octant(m, n, 4) = <<-m, n>>
         /\ Octant(m, n, 5) = <<-m, -n>> /\ Octant(m, n, 6) = <<-n, -m>>
         /\ Octant(m, n, 7) = <<n, -m>> /\ Octant(m, n, 8) = <<m, -n>>
BY DEF Octant

LEMMA Octants ==
  ASSUME NEW m \in Nat, NEW n \in Nat, NEW a \in Int, NEW b \in Int
  PROVE  Mirrors(a, b, m, n) <=> \E k \in 1..8 : <<a, b>> = Octant(m, n, k)
<1> DEFINE Is(k) == <<a, b>> = Octant(m, n, k)
<1>1. /\ Is(1) <=> a = m /\ b = n
      /\ Is(2) <=> a = n /\ b = m
      /\ Is(3) <=> a = -n /\ b = m
      /\ Is(4) <=> a = -m /\ b = n
      /\ Is(5) <=> a = -m /\ b = -n
      /\ Is(6) <=> a = -n /\ b = -m
      /\ Is(7) <=> a = n /\ b = -m
      /\ Is(8) <=> a = m /\ b = -n
  <2>1. /\ Octant(m, n, 1) = <<m, n>> /\ Octant(m, n, 2) = <<n, m>>
        /\ Octant(m, n, 3) = <<-n, m>> /\ Octant(m, n, 4) = <<-m, n>>
        /\ Octant(m, n, 5) = <<-m, -n>> /\ Octant(m, n, 6) = <<-n, -m>>
        /\ Octant(m, n, 7) = <<n, -m>> /\ Octant(m, n, 8) = <<m, -n>>
    BY OctantIs
  <2>2. \A i, j : <<a, b>> = <<i, j>> <=> a = i /\ b = j
    OBVIOUS
  <2> QED BY <2>1, <2>2
<1> HIDE DEF Is
<1>2. (\E k \in 1..8 : Is(k)) <=>
        \/ Is(1) \/ Is(2) \/ Is(3) \/ Is(4) \/ Is(5) \/ Is(6) \/ Is(7) \/ Is(8)
  <2>1. \A k \in 1..8 : k = 1 \/ k = 2 \/ k = 3 \/ k = 4 \/ k = 5 \/ k = 6 \/ k = 7 \/ k = 8
    OBVIOUS
  <2>2. 1 \in 1..8 /\ 2 \in 1..8 /\ 3 \in 1..8 /\ 4 \in 1..8
    OBVIOUS
  <2>3. 5 \in 1..8 /\ 6 \in 1..8 /\ 7 \in 1..8 /\ 8 \in 1..8
    OBVIOUS
  <2> QED BY <2>1, <2>2, <2>3
<1>3. /\ Abs(a) = m <=> a = m \/ a = -m
      /\ Abs(a) = n <=> a = n \/ a = -n
      /\ Abs(b) = m <=> b = m \/ b = -m
      /\ Abs(b) = n <=> b = n \/ b = -n
  BY DEF Abs
<1>4. Mirrors(a, b, m, n) <=>
        \/ Is(1) \/ Is(2) \/ Is(3) \/ Is(4) \/ Is(5) \/ Is(6) \/ Is(7) \/ Is(8)
  BY <1>1, <1>3 DEF Mirrors
<1> QED BY <1>2, <1>4 DEF Is

CircleAfter(v, m, n, e, o) ==
  [kind |-> "circle", x |-> v[1], y |-> v[2], rx |-> m, ry |-> n, err |-> e,
   octant |-> o]

\* All eight cells of the points in arc, and the first o - 1 of one more.
CircleCells(v, c, arc, m, n, o) ==
  /\ c \subseteq Int \X Int
  /\ \A a, b \in Int :
       <<v[1] + a, v[2] + b>> \in c <=>
         \/ \E q \in arc : Mirrors(a, b, q[1], q[2])
         \/ \E k \in 1..(o - 1) : <<a, b>> = Octant(m, n, k)

\* The arc up to a point: no row and no column left out, and no gap.
Arc(r, arc, m, n, e) ==
  LET all == arc \cup {<<m, n>>}
  IN  /\ ArcPoint(r, m, n, e)
      /\ \A q \in arc : \E i, j, d \in Int : q = <<i, j>> /\ ArcPoint(r, i, j, d)
      /\ <<r, 0>> \in all
      /\ \A i \in 0..n : \E q \in all : q[2] = i
      /\ \A i \in m..r : \E q \in all : q[1] = i
      /\ \A i, j \in Int : <<i, j>> \in arc /\ i > j =>
           \/ <<i, j + 1>> \in all
           \/ <<i - 1, j + 1>> \in all
           \/ i = j + 1
           \/ m = i - 1 /\ n = j /\ e <= 0

CircleSoFar(v, f, c) ==
  /\ v[3] \in Nat
  /\ \E arc, m, n, e : \E o \in 1..8 :
       /\ f = CircleAfter(v, m, n, e, o)
       /\ Arc(v[3], arc, m, n, e)
       /\ CircleCells(v, c, arc, m, n, o)

LEMMA CircleArgs ==
  ASSUME NEW v \in Seq(Int), Len(v) = 3
  PROVE  v[1] \in Int /\ v[2] \in Int /\ v[3] \in Int
<1>1. \A i \in 1..3 : v[i] \in Int
  BY Args
<1> QED BY <1>1

LEMMA CircleFields ==
  ASSUME NEW v, NEW m, NEW n, NEW e, NEW o, NEW f, f = CircleAfter(v, m, n, e, o)
  PROVE  /\ f.kind = "circle" /\ f.x = v[1] /\ f.y = v[2] /\ f.rx = m /\ f.ry = n
         /\ f.err = e /\ f.octant = o
BY DEF CircleAfter

\* The fields of a circle's state that a turn changes.
CircleOctant(f, o) == [f EXCEPT !.octant = o]
CircleUp(f, n, e) == [f EXCEPT !.octant = 1, !.ry = n, !.err = e]
CircleIn(f, m, e) == [f EXCEPT !.octant = 1, !.rx = m, !.err = e]

LEMMA CircleOctantIs ==
  ASSUME NEW v, NEW m, NEW n, NEW e, NEW o, NEW f, f = CircleAfter(v, m, n, e, o), NEW i
  PROVE  CircleOctant(f, i) = CircleAfter(v, m, n, e, i)
BY DEF CircleOctant, CircleAfter

LEMMA CircleExcept ==
  ASSUME NEW v, NEW m, NEW n, NEW e, NEW o, NEW f, f = CircleAfter(v, m, n, e, o),
         NEW i, NEW d
  PROVE  /\ CircleUp(f, i, d) = CircleAfter(v, m, i, d, 1)
         /\ CircleIn(f, i, d) = CircleAfter(v, i, n, d, 1)
<1>2. PICK g : g = [f EXCEPT !.octant = 1]
  OBVIOUS
<1>3. g = CircleAfter(v, m, n, e, 1)
  BY <1>2 DEF CircleAfter
<1>4. PICK up : up = [g EXCEPT !.ry = i]
  OBVIOUS
<1>5. up = CircleAfter(v, m, i, e, 1)
  BY <1>3, <1>4 DEF CircleAfter
<1>6. [up EXCEPT !.err = d] = CircleAfter(v, m, i, d, 1)
  BY <1>5 DEF CircleAfter
<1>7. PICK inner : inner = [g EXCEPT !.rx = i]
  OBVIOUS
<1>8. inner = CircleAfter(v, i, n, e, 1)
  BY <1>3, <1>7 DEF CircleAfter
<1>9. [inner EXCEPT !.err = d] = CircleAfter(v, i, n, d, 1)
  BY <1>8 DEF CircleAfter
<1> QED BY <1>2, <1>4, <1>6, <1>7, <1>9 DEF CircleUp, CircleIn

\* The next point of the arc.
LEMMA ArcMore ==
  ASSUME NEW r \in Nat, NEW arc, NEW m, NEW n, NEW e, Arc(r, arc, m, n, e),
         NEW i \in Nat, NEW j \in Nat, NEW d,
         \/ i = m /\ j = n + 1 /\ e <= 0 /\ d = e + 2 * (n + 1) + 1
         \/ i = m - 1 /\ j = n /\ e > 0 /\ d = e - (2 * (m - 1) + 1),
         i >= j
  PROVE  Arc(r, arc \cup {<<m, n>>}, i, j, d)
<1> DEFINE all == arc \cup {<<m, n>>}
           more == all \cup {<<i, j>>}
<1>1. /\ ArcPoint(r, m, n, e)
      /\ \A q \in arc : \E x, y, z \in Int : q = <<x, y>> /\ ArcPoint(r, x, y, z)
      /\ <<r, 0>> \in all
      /\ \A k \in 0..n : \E q \in all : q[2] = k
      /\ \A k \in m..r : \E q \in all : q[1] = k
      /\ \A x, y \in Int : <<x, y>> \in arc /\ x > y =>
           \/ <<x, y + 1>> \in all
           \/ <<x - 1, y + 1>> \in all
           \/ x = y + 1
           \/ m = x - 1 /\ n = y /\ e <= 0
  BY DEF Arc
<1>2. m \in Nat /\ n \in Nat /\ e \in Int /\ n <= m /\ m <= r
  <2>1. /\ m \in Nat /\ n \in 0..m /\ m <= r
        /\ e = m * m + n * n + 2 * n - r * r
    BY <1>1 DEF ArcPoint
  <2>2. m * m + n * n + 2 * n - r * r \in Int
    BY <2>1
  <2> QED BY <2>1, <2>2
<1>3. ArcPoint(r, i, j, d)
  <2>1. /\ e <= 0 /\ m >= n + 1 => ArcPoint(r, m, n + 1, e + 2 * (n + 1) + 1)
        /\ e > 0 /\ m - 1 >= n => ArcPoint(r, m - 1, n, e - (2 * (m - 1) + 1))
    BY <1>1, ArcTurn
  <2>2. CASE i = m /\ j = n + 1 /\ e <= 0 /\ d = e + 2 * (n + 1) + 1
    BY <2>1, <2>2
  <2>3. CASE i = m - 1 /\ j = n /\ e > 0 /\ d = e - (2 * (m - 1) + 1)
    BY <2>1, <2>3
  <2> QED BY <2>2, <2>3
<1>4. ASSUME NEW q \in all
      PROVE  \E x, y, z \in Int : q = <<x, y>> /\ ArcPoint(r, x, y, z)
  BY <1>1, <1>2
<1>5. <<r, 0>> \in more
  BY <1>1
<1>6. ASSUME NEW k \in 0..j PROVE \E q \in more : q[2] = k
  <2>1. k \in 0..n \/ k = j
    BY <1>2
  <2>2. <<i, j>>[2] = j
    OBVIOUS
  <2> QED BY <1>1, <2>1, <2>2
<1>7. ASSUME NEW k \in i..r PROVE \E q \in more : q[1] = k
  <2>1. k \in m..r \/ k = i
    BY <1>2
  <2>2. <<i, j>>[1] = i
    OBVIOUS
  <2> QED BY <1>1, <2>1, <2>2
<1>8. ASSUME NEW x \in Int, NEW y \in Int, <<x, y>> \in all, x > y
      PROVE  \/ <<x, y + 1>> \in more
             \/ <<x - 1, y + 1>> \in more
             \/ x = y + 1
             \/ i = x - 1 /\ j = y /\ d <= 0
  <2>1. CASE <<x, y>> \in arc
    <3>1. \/ <<x, y + 1>> \in all
          \/ <<x - 1, y + 1>> \in all
          \/ x = y + 1
          \/ m = x - 1 /\ n = y /\ e <= 0
      BY <1>1, <1>8, <2>1
    <3>2. CASE m = x - 1 /\ n = y /\ e <= 0
      <4>1. i = x - 1 /\ j = y + 1
        BY <1>2, <3>2
      <4> QED BY <4>1
    <3> QED BY <3>1, <3>2
  <2>2. CASE <<x, y>> = <<m, n>>
    <3>1. x = m /\ y = n
      BY <2>2
    <3>2. CASE e <= 0
      <4>1. i = x /\ j = y + 1
        BY <1>2, <3>1, <3>2
      <4> QED BY <4>1
    <3>3. CASE e > 0
      <4>1. i = x - 1 /\ j = y /\ d = e - (2 * (m - 1) + 1)
        BY <1>2, <3>1, <3>3
      <4>2. d <= 0
        BY <1>1, <1>2, <3>1, <3>3, <4>1, ArcTurn
      <4> QED BY <4>1, <4>2
    <3> QED BY <1>2, <3>2, <3>3
  <2> QED BY <1>8, <2>1, <2>2
<1> HIDE DEF all
<1>9. Arc(r, all, i, j, d)
  BY <1>3, <1>4, <1>5, <1>6, <1>7, <1>8 DEF Arc
<1> QED BY <1>9 DEF all

LEMMA CircleStart ==
  ASSUME NEW v \in Seq(Int), Len(v) = 3, NEW f, f = Circle(v[1], v[2], v[3])
  PROVE  /\ Empty(f) => IsCircle({}, v[1], v[2], v[3])
         /\ ~Empty(f) => CircleSoFar(v, f, {})
<1>1. v[1] \in Int /\ v[2] \in Int /\ v[3] \in Int
  BY CircleArgs
<1>2. f = CircleAfter(v, v[3], 0, 0, 1)
  BY DEF Circle, CircleAfter
<1>3. f.kind = "circle" /\ f.rx = v[3] /\ f.ry = 0
  BY <1>2, CircleFields
<1>4. Empty(f) <=> v[3] < 0
  BY <1>3 DEF Empty, CircleEmpty
<1>5. CASE Empty(f)
  <2>1. v[3] < 0 /\ 0..v[3] = {}
    BY <1>1, <1>4, <1>5
  <2>2. {<<p[1] - v[1], p[2] - v[2]>> : p \in {}} = {}
    OBVIOUS
  <2>3. {<<p[1], 0>> : p \in {p \in {} : p[2] = 0}} = {}
    OBVIOUS
  <2>4. IsCircle({}, v[1], v[2], v[3])
    BY <2>1, <2>2, <2>3 DEF IsCircle
  <2> QED BY <1>5, <2>4
<1>6. CASE ~Empty(f)
  <2>1. v[3] \in Nat
    BY <1>1, <1>4, <1>6
  <2>2. Arc(v[3], {}, v[3], 0, 0)
    <3>1. ArcPoint(v[3], v[3], 0, 0)
      BY <2>1, ArcStart
    <3>2. <<v[3], 0>>[1] = v[3] /\ <<v[3], 0>>[2] = 0
      OBVIOUS
    <3>3. 0..0 = {0} /\ v[3]..v[3] = {v[3]}
      BY <2>1
    <3> QED BY <3>1, <3>2, <3>3 DEF Arc
  <2>3. CircleCells(v, {}, {}, v[3], 0, 1)
    BY DEF CircleCells
  <2>4. 1 \in 1..8
    OBVIOUS
  <2>5. CircleSoFar(v, f, {})
    BY <1>2, <2>1, <2>2, <2>3, <2>4 DEF CircleSoFar
  <2> QED BY <1>6, <2>5
<1> QED BY <1>5, <1>6

\* One turn of the circle's loop: the cell of the next octant.
LEMMA CircleTurn ==
  ASSUME NEW v \in Seq(Int), Len(v) = 3, NEW f, NEW c, NEW arc,
         NEW m \in Nat, NEW n \in Nat, NEW e, NEW o \in 1..8, f = CircleAfter(v, m, n, e, o),
         CircleCells(v, c, arc, m, n, o)
  PROVE  CircleCells(v, c \cup {Cell(f)}, arc, m, n, o + 1)
<1>1. v[1] \in Int /\ v[2] \in Int
  BY CircleArgs
<1> DEFINE s == Octant(m, n, o)
           d == c \cup {Cell(f)}
<1>2. s = <<s[1], s[2]>> /\ s[1] \in Int /\ s[2] \in Int
  <2>1. /\ Octant(m, n, 1) = <<m, n>> /\ Octant(m, n, 2) = <<n, m>>
        /\ Octant(m, n, 3) = <<-n, m>> /\ Octant(m, n, 4) = <<-m, n>>
        /\ Octant(m, n, 5) = <<-m, -n>> /\ Octant(m, n, 6) = <<-n, -m>>
        /\ Octant(m, n, 7) = <<n, -m>> /\ Octant(m, n, 8) = <<m, -n>>
    BY OctantIs
  <2>2. o = 1 \/ o = 2 \/ o = 3 \/ o = 4 \/ o = 5 \/ o = 6 \/ o = 7 \/ o = 8
    OBVIOUS
  <2>3. -m \in Int /\ -n \in Int /\ m \in Int /\ n \in Int
    OBVIOUS
  <2>4. \E i, j \in Int : Octant(m, n, o) = <<i, j>>
    <3>1. CASE o \in 1..4
      BY <2>1, <2>2, <2>3, <3>1
    <3>2. CASE o \in 5..8
      BY <2>1, <2>2, <2>3, <3>2
    <3> QED BY <2>2, <3>1, <3>2
  <2> QED BY <2>4
<1>3. Cell(f) = <<v[1] + s[1], v[2] + s[2]>>
  <2>1. /\ f.kind = "circle" /\ f.x = v[1] /\ f.y = v[2] /\ f.rx = m /\ f.ry = n
        /\ f.octant = o
    BY CircleFields
  <2>2. OctantCell(f) = <<v[1] + s[1], v[2] + s[2]>>
    BY <2>1, Zenon DEF OctantCell, Octant
  <2> QED BY <2>1, <2>2 DEF Cell
<1> HIDE DEF s
<1>4. d \subseteq Int \X Int
  BY <1>1, <1>2, <1>3 DEF CircleCells
<1>5. ASSUME NEW a \in Int, NEW b \in Int
      PROVE  <<v[1] + a, v[2] + b>> = Cell(f) <=> <<a, b>> = s
  <2>1. <<v[1] + a, v[2] + b>> = Cell(f) <=> a = s[1] /\ b = s[2]
    BY <1>1, <1>2, <1>3
  <2>2. <<a, b>> = <<s[1], s[2]>> <=> a = s[1] /\ b = s[2]
    OBVIOUS
  <2> QED BY <1>2, <2>1, <2>2
<1>6. ASSUME NEW a \in Int, NEW b \in Int
      PROVE  (\E k \in 1..o : <<a, b>> = Octant(m, n, k)) <=>
               \/ \E k \in 1..(o - 1) : <<a, b>> = Octant(m, n, k)
               \/ <<a, b>> = s
  <2>1. \A k : k \in 1..o <=> k \in 1..(o - 1) \/ k = o
    OBVIOUS
  <2> QED BY <2>1 DEF s
<1>7. ASSUME NEW a \in Int, NEW b \in Int
      PROVE  <<v[1] + a, v[2] + b>> \in d <=>
               \/ \E q \in arc : Mirrors(a, b, q[1], q[2])
               \/ \E k \in 1..o : <<a, b>> = Octant(m, n, k)
  <2>1. <<v[1] + a, v[2] + b>> \in d <=>
          <<v[1] + a, v[2] + b>> \in c \/ <<v[1] + a, v[2] + b>> = Cell(f)
    OBVIOUS
  <2>2. <<v[1] + a, v[2] + b>> \in c <=>
          \/ \E q \in arc : Mirrors(a, b, q[1], q[2])
          \/ \E k \in 1..(o - 1) : <<a, b>> = Octant(m, n, k)
    BY Zenon DEF CircleCells
  <2> QED BY <1>5, <1>6, <2>1, <2>2, Zenon
<1> HIDE DEF d
<1>8. (o + 1) - 1 = o
  OBVIOUS
<1>9. CircleCells(v, d, arc, m, n, o + 1)
  BY <1>4, <1>7, <1>8, Zenon DEF CircleCells
<1> QED BY <1>9 DEF d

\* A point with all eight cells is one of the arc's.
LEMMA CirclePoint ==
  ASSUME NEW v, NEW c, NEW arc, NEW m \in Nat, NEW n \in Nat, NEW i, NEW j,
         CircleCells(v, c, arc, m, n, 9)
  PROVE  CircleCells(v, c, arc \cup {<<m, n>>}, i, j, 1)
<1> DEFINE all == arc \cup {<<m, n>>}
<1>1. ASSUME NEW a \in Int, NEW b \in Int
      PROVE  <<v[1] + a, v[2] + b>> \in c <=> \E q \in all : Mirrors(a, b, q[1], q[2])
  <2>1. <<v[1] + a, v[2] + b>> \in c <=>
          \/ \E q \in arc : Mirrors(a, b, q[1], q[2])
          \/ \E k \in 1..(9 - 1) : <<a, b>> = Octant(m, n, k)
    BY Zenon DEF CircleCells
  <2>2. 9 - 1 = 8
    OBVIOUS
  <2>3. Mirrors(a, b, m, n) <=> \E k \in 1..8 : <<a, b>> = Octant(m, n, k)
    BY Octants
  <2>4. <<m, n>>[1] = m /\ <<m, n>>[2] = n
    OBVIOUS
  <2>5. (\E q \in all : Mirrors(a, b, q[1], q[2])) <=>
          \/ \E q \in arc : Mirrors(a, b, q[1], q[2])
          \/ Mirrors(a, b, m, n)
    BY <2>4
  <2> QED BY <2>1, <2>2, <2>3, <2>5
<1> HIDE DEF all
<1>2. ~ \E k \in 1..(1 - 1) : TRUE
  OBVIOUS
<1>3. CircleCells(v, c, all, i, j, 1)
  BY <1>1, <1>2, Zenon DEF CircleCells
<1> QED BY <1>3 DEF all

\* One turn of the circle's loop that is not the last.
LEMMA CircleMore ==
  ASSUME NEW v \in Seq(Int), Len(v) = 3, NEW f, NEW c, CircleSoFar(v, f, c), ~AtEnd(f)
  PROVE  CircleSoFar(v, Advance(f), c \cup {Cell(f)})
<1>1. v[1] \in Int /\ v[2] \in Int /\ v[3] \in Nat
  BY CircleArgs DEF CircleSoFar
<1>2. PICK arc, m, n, e : \E o \in 1..8 :
        /\ f = CircleAfter(v, m, n, e, o)
        /\ Arc(v[3], arc, m, n, e)
        /\ CircleCells(v, c, arc, m, n, o)
  BY DEF CircleSoFar
<1>3. PICK o \in 1..8 :
        /\ f = CircleAfter(v, m, n, e, o)
        /\ Arc(v[3], arc, m, n, e)
        /\ CircleCells(v, c, arc, m, n, o)
  BY <1>2
<1>4. /\ f.kind = "circle" /\ f.x = v[1] /\ f.y = v[2] /\ f.rx = m /\ f.ry = n
      /\ f.err = e /\ f.octant = o
  BY <1>3, CircleFields
<1>5. m \in Nat /\ n \in Nat /\ n <= m /\ e \in Int /\ (n = 0 => m = v[3] /\ e = 0)
  <2>1. /\ m \in Nat /\ n \in 0..m
        /\ e = m * m + n * n + 2 * n - v[3] * v[3]
        /\ n = 0 => m = v[3] /\ e = 0
    BY <1>3 DEF Arc, ArcPoint
  <2>2. m * m + n * n + 2 * n - v[3] * v[3] \in Int
    BY <1>1, <2>1
  <2> QED BY <2>1, <2>2
<1>6. CircleCells(v, c \cup {Cell(f)}, arc, m, n, o + 1)
  BY <1>3, <1>5, CircleTurn
<1>7. CASE o < 8
  <2>1. Advance(f) = CircleOctant(f, o + 1)
    BY <1>4, <1>7, Zenon DEF Advance, CircleNext, CircleOctant
  <2>2. CircleOctant(f, o + 1) = CircleAfter(v, m, n, e, o + 1)
    BY <1>3, CircleOctantIs
  <2>3. o + 1 \in 1..8
    BY <1>7
  <2> QED BY <1>1, <1>3, <1>6, <2>1, <2>2, <2>3 DEF CircleSoFar
<1>8. CASE o = 8
  <2>1. CircleCells(v, c \cup {Cell(f)}, arc, m, n, 9)
    BY <1>6, <1>8
  <2>2. ~(o < 8)
    BY <1>8
  <2>3. Advance(f) = ArcNext(f)
    BY <1>4, <2>2, Zenon DEF Advance, CircleNext
  <2>4. ~CircleEmpty(ArcNext(f))
    BY <1>4, <1>8 DEF AtEnd, CircleAtEnd
  <2>5. 1 \in 1..8
    OBVIOUS
  <2>6. CASE e <= 0
    <3> DEFINE d == e + 2 * (n + 1) + 1
    <3>1. ArcNext(f) = CircleUp(f, n + 1, d)
      BY <1>4, <2>6, Zenon DEF ArcNext, CircleUp
    <3> HIDE DEF d
    <3>2. CircleUp(f, n + 1, d) = CircleAfter(v, m, n + 1, d, 1)
      BY <1>3, CircleExcept
    <3>3. ArcNext(f).rx = m /\ ArcNext(f).ry = n + 1
      BY <3>1, <3>2, CircleFields
    <3>4. m >= n + 1
      BY <1>5, <2>4, <3>3 DEF CircleEmpty
    <3>5. n + 1 \in Nat
      BY <1>5
    <3>6. Arc(v[3], arc \cup {<<m, n>>}, m, n + 1, d)
      BY <1>1, <1>3, <1>5, <2>6, <3>4, <3>5, ArcMore DEF d
    <3>7. CircleCells(v, c \cup {Cell(f)}, arc \cup {<<m, n>>}, m, n + 1, 1)
      BY <1>5, <2>1, CirclePoint
    <3> QED BY <1>1, <2>3, <2>5, <3>1, <3>2, <3>6, <3>7 DEF CircleSoFar
  <2>7. CASE ~(e <= 0)
    <3> DEFINE d == e - (2 * (m - 1) + 1)
    <3>1. ArcNext(f) = CircleIn(f, m - 1, d)
      BY <1>4, <2>7, Zenon DEF ArcNext, CircleIn
    <3> HIDE DEF d
    <3>2. CircleIn(f, m - 1, d) = CircleAfter(v, m - 1, n, d, 1)
      BY <1>3, CircleExcept
    <3>3. ArcNext(f).rx = m - 1 /\ ArcNext(f).ry = n
      BY <3>1, <3>2, CircleFields
    <3>4. m - 1 >= n
      BY <1>5, <2>4, <3>3 DEF CircleEmpty
    <3>5. m - 1 \in Nat /\ e > 0
      BY <1>5, <2>7, <3>4
    <3>6. Arc(v[3], arc \cup {<<m, n>>}, m - 1, n, d)
      BY <1>1, <1>3, <1>5, <3>4, <3>5, ArcMore DEF d
    <3>7. CircleCells(v, c \cup {Cell(f)}, arc \cup {<<m, n>>}, m - 1, n, 1)
      BY <1>5, <2>1, CirclePoint
    <3> QED BY <1>1, <2>3, <2>5, <3>1, <3>2, <3>6, <3>7 DEF CircleSoFar
  <2> QED BY <2>6, <2>7
<1> QED BY <1>7, <1>8

\* The whole arc, up to the diagonal: what IsCircle asks for.
LEMMA CircleWhole ==
  ASSUME NEW v \in Seq(Int), Len(v) = 3, v[3] \in Nat, NEW c, NEW arc, NEW n, NEW e,
         NEW i, NEW j,
         Arc(v[3], arc, n, n, e), CircleCells(v, c, arc \cup {<<n, n>>}, i, j, 1)
  PROVE  IsCircle(c, v[1], v[2], v[3])
<1> DEFINE all == arc \cup {<<n, n>>}
           r == v[3]
           around == {<<p[1] - v[1], p[2] - v[2]>> : p \in c}
<1>1. v[1] \in Int /\ v[2] \in Int /\ r \in Nat
  BY CircleArgs
<1>a. n \in Nat /\ e \in Int
  <2>1. n \in Nat /\ e = n * n + n * n + 2 * n - v[3] * v[3]
    BY DEF Arc, ArcPoint
  <2>2. n * n + n * n + 2 * n - v[3] * v[3] \in Int
    BY <2>1
  <2> QED BY <2>1, <2>2
<1>2. /\ ArcPoint(r, n, n, e) /\ n \in Nat
      /\ \A q \in arc : \E x, y, z \in Int : q = <<x, y>> /\ ArcPoint(r, x, y, z)
      /\ <<r, 0>> \in all
      /\ \A k \in 0..n : \E q \in all : q[2] = k
      /\ \A k \in n..r : \E q \in all : q[1] = k
      /\ \A x, y \in Int : <<x, y>> \in arc /\ x > y =>
           \/ <<x, y + 1>> \in all
           \/ <<x - 1, y + 1>> \in all
           \/ x = y + 1
           \/ n = x - 1 /\ n = y /\ e <= 0
  BY DEF Arc, ArcPoint
<1> HIDE DEF r
<1>3. ASSUME NEW q \in all
      PROVE  \E x, y \in Nat, z \in Int : q = <<x, y>> /\ ArcPoint(r, x, y, z) /\ y <= x
  <2>1. PICK x, y, z \in Int : q = <<x, y>> /\ ArcPoint(r, x, y, z)
    BY <1>2, <1>a
  <2>2. x \in Nat /\ y \in Nat /\ y <= x
    BY <2>1 DEF ArcPoint
  <2> QED BY <2>1, <2>2
<1>4. ASSUME NEW a \in Int, NEW b \in Int
      PROVE  <<a, b>> \in around <=> \E q \in all : Mirrors(a, b, q[1], q[2])
  <2>1. <<a, b>> \in around <=> <<v[1] + a, v[2] + b>> \in c
    <3>1. ASSUME <<v[1] + a, v[2] + b>> \in c PROVE <<a, b>> \in around
      <4> DEFINE p == <<v[1] + a, v[2] + b>>
      <4>1. p[1] - v[1] = a /\ p[2] - v[2] = b
        BY <1>1
      <4> QED BY <3>1, <4>1
    <3>2. ASSUME <<a, b>> \in around PROVE <<v[1] + a, v[2] + b>> \in c
      <4>1. PICK p \in c : <<a, b>> = <<p[1] - v[1], p[2] - v[2]>>
        BY <3>2
      <4>2. PICK x \in Int, y \in Int : p = <<x, y>>
        BY <4>1 DEF CircleCells
      <4>3. a = x - v[1] /\ b = y - v[2]
        BY <4>1, <4>2
      <4>4. x \in Int /\ y \in Int /\ v[1] \in Int /\ v[2] \in Int
        BY <1>1, <4>2
      <4>5. x = v[1] + a /\ y = v[2] + b
        BY <4>3, <4>4
      <4> QED BY <4>1, <4>2, <4>5
    <3> QED BY <3>1, <3>2
  <2>2. <<v[1] + a, v[2] + b>> \in c <=>
          \/ \E q \in all : Mirrors(a, b, q[1], q[2])
          \/ \E k \in 1..(1 - 1) : <<a, b>> = Octant(i, j, k)
    BY Zenon DEF CircleCells
  <2>3. ~ \E k \in 1..(1 - 1) : TRUE
    OBVIOUS
  <2> HIDE DEF all, around
  <2> QED BY <2>1, <2>2, <2>3
<1>5. around \subseteq Int \X Int
  <2>1. ASSUME NEW p \in c PROVE <<p[1] - v[1], p[2] - v[2]>> \in Int \X Int
    <3>1. PICK x \in Int, y \in Int : p = <<x, y>>
      BY <2>1 DEF CircleCells
    <3> QED BY <1>1, <3>1
  <2> QED BY <2>1
<1> HIDE DEF all, around
<1>6. ASSUME NEW a \in Int, NEW b \in Int, <<a, b>> \in around
      PROVE  \E x, y \in Nat, z \in Int :
               /\ <<x, y>> \in all /\ ArcPoint(r, x, y, z) /\ y <= x
               /\ Mirrors(a, b, x, y)
  <2>1. PICK q \in all : Mirrors(a, b, q[1], q[2])
    BY <1>4, <1>6
  <2>2. PICK x \in Nat, y \in Nat, z \in Int : q = <<x, y>> /\ ArcPoint(r, x, y, z) /\ y <= x
    BY <1>3
  <2>3. q[1] = x /\ q[2] = y
    BY <2>2
  <2> QED BY <2>1, <2>2, <2>3
<1>7. ASSUME NEW x, NEW y, <<x, y>> \in all, NEW a \in Int, NEW b \in Int, Mirrors(a, b, x, y)
      PROVE  <<a, b>> \in around
  <2>1. <<x, y>>[1] = x /\ <<x, y>>[2] = y
    OBVIOUS
  <2> QED BY <1>4, <1>7, <2>1
\* Round.
<1>8. ASSUME NEW a \in Int, NEW b \in Int, <<a, b>> \in around
      PROVE  /\ <<b, a>> \in around /\ <<-a, b>> \in around /\ <<a, -b>> \in around
             /\ 4 * (a * a + b * b) < (2 * r + 1) * (2 * r + 1)
             /\ r > 1 => 4 * (a * a + b * b) > (2 * r - 3) * (2 * r - 3)
  <2>1. PICK x \in Nat, y \in Nat, z \in Int :
          /\ <<x, y>> \in all /\ ArcPoint(r, x, y, z) /\ y <= x
          /\ Mirrors(a, b, x, y)
    BY <1>6, <1>8
  <2>2. /\ -a \in Int /\ -b \in Int /\ Abs(-a) = Abs(a) /\ Abs(-b) = Abs(b)
    BY DEF Abs
  <2>3. /\ Mirrors(b, a, x, y) /\ Mirrors(-a, b, x, y) /\ Mirrors(a, -b, x, y)
    BY <2>1, <2>2 DEF Mirrors
  <2>4. <<b, a>> \in around /\ <<-a, b>> \in around /\ <<a, -b>> \in around
    BY <1>7, <2>1, <2>2, <2>3
  <2>5. a * a + b * b = x * x + y * y
    <3>1. \A s \in Int : Abs(s) * Abs(s) = s * s
      BY DEF Abs
    <3>2. a * a = Abs(a) * Abs(a) /\ b * b = Abs(b) * Abs(b)
      BY <3>1
    <3>3. x * x \in Int /\ y * y \in Int
      OBVIOUS
    <3>4. CASE Abs(a) = x /\ Abs(b) = y
      BY <3>2, <3>4
    <3>5. CASE Abs(a) = y /\ Abs(b) = x
      BY <3>2, <3>3, <3>5
    <3> QED BY <2>1, <3>4, <3>5 DEF Mirrors
  <2>6. /\ 4 * (x * x + y * y) < (2 * r + 1) * (2 * r + 1)
        /\ r > 1 => 4 * (x * x + y * y) > (2 * r - 3) * (2 * r - 3)
    BY <1>1, <2>1, ArcRound
  <2> QED BY <2>4, <2>5, <2>6
\* On its own row, the centre's, there is the radius on both sides.
<1>9. \A a \in Int : <<a, 0>> \in around <=> a = r \/ a = -r
  <2>1. ASSUME NEW a \in Int, <<a, 0>> \in around PROVE a = r \/ a = -r
    <3>1. PICK x \in Nat, y \in Nat, z \in Int :
            /\ <<x, y>> \in all /\ ArcPoint(r, x, y, z) /\ y <= x
            /\ Mirrors(a, 0, x, y)
      <4>1. 0 \in Int
        OBVIOUS
      <4> QED BY <1>6, <2>1, <4>1, Zenon
    <3>2. y = 0 => x = r
      BY <3>1 DEF ArcPoint
    <3> QED BY <1>1, <3>1, <3>2 DEF Mirrors, Abs
  <2>2. ASSUME NEW a \in Int, a = r \/ a = -r PROVE <<a, 0>> \in around
    <3>1. Mirrors(a, 0, r, 0)
      BY <1>1, <2>2 DEF Mirrors, Abs
    <3>2. 0 \in Int
      OBVIOUS
    <3> QED BY <1>2, <1>7, <3>1, <3>2, Zenon
  <2> QED BY <2>1, <2>2
\* No row is left out.
<1>10. ASSUME NEW k \in 0..r PROVE \E p \in around : p[2] = k
  <2>1. \E q \in all : q[2] = k \/ q[1] = k
    BY <1>1, <1>2
  <2>2. PICK q \in all : q[2] = k \/ q[1] = k
    BY <2>1
  <2>3. PICK x \in Nat, y \in Nat : q = <<x, y>>
    BY <1>3
  <2>4. Mirrors(x, y, x, y) /\ Mirrors(y, x, x, y)
    BY DEF Mirrors, Abs
  <2>5. <<x, y>> \in around /\ <<y, x>> \in around
    <3>1. x \in Int /\ y \in Int
      OBVIOUS
    <3> QED BY <1>7, <2>2, <2>3, <2>4, <3>1, Zenon
  <2>6. y = k \/ x = k
    BY <2>2, <2>3
  <2>7. <<x, y>>[2] = y /\ <<y, x>>[2] = x
    OBVIOUS
  <2> QED BY <2>5, <2>6, <2>7
\* No gap in the first octant.
<1>11. ASSUME NEW a \in Int, NEW b \in Int, <<a, b>> \in around, a > b, b >= 0
       PROVE  \E s \in Int : <<s, b + 1>> \in around /\ Abs(a - s) <= 1
  <2>1. PICK x \in Nat, y \in Nat, z \in Int :
          /\ <<x, y>> \in all /\ ArcPoint(r, x, y, z) /\ y <= x
          /\ Mirrors(a, b, x, y)
    BY <1>6, <1>11
  <2>2. a = x /\ b = y
    BY <1>11, <2>1 DEF Mirrors, Abs
  <2>3. <<x, y>> \in arc
    <3>1. <<x, y>> # <<n, n>>
      BY <1>11, <2>2
    <3> QED BY <2>1, <3>1 DEF all
  <2>4. \/ <<x, y + 1>> \in all \/ <<x - 1, y + 1>> \in all \/ x = y + 1
    BY <1>2, <1>11, <2>2, <2>3
  <2>5. CASE <<x, y + 1>> \in all
    <3>1. Mirrors(x, y + 1, x, y + 1)
      BY DEF Mirrors, Abs
    <3>2. <<x, y + 1>> \in around
      <4>1. x \in Int /\ y + 1 \in Int
        OBVIOUS
      <4> QED BY <1>7, <2>5, <3>1, <4>1, Zenon
    <3>3. Abs(a - x) <= 1
      BY <2>2 DEF Abs
    <3> QED BY <2>2, <3>2, <3>3
  <2>6. CASE <<x - 1, y + 1>> \in all
    <3>1. Mirrors(x - 1, y + 1, x - 1, y + 1)
      BY <1>11, <2>2 DEF Mirrors, Abs
    <3>2. <<x - 1, y + 1>> \in around
      <4>1. x - 1 \in Int /\ y + 1 \in Int
        OBVIOUS
      <4> QED BY <1>7, <2>6, <3>1, <4>1, Zenon
    <3>3. Abs(a - (x - 1)) <= 1
      BY <2>2 DEF Abs
    <3>4. x - 1 \in Int
      OBVIOUS
    <3> QED BY <2>2, <3>2, <3>3, <3>4
  <2>7. CASE x = y + 1
    <3>1. Mirrors(y, x, x, y)
      BY DEF Mirrors, Abs
    <3>2. <<y, b + 1>> \in around
      BY <1>7, <2>1, <2>2, <2>7, <3>1
    <3>3. Abs(a - y) <= 1
      BY <2>2, <2>7 DEF Abs
    <3> QED BY <2>2, <3>2, <3>3
  <2> QED BY <2>4, <2>5, <2>6, <2>7
<1>12. ASSUME NEW p \in around
       PROVE  /\ {<<p[2], p[1]>>, <<-p[1], p[2]>>, <<p[1], -p[2]>>} \subseteq around
              /\ 4 * (p[1] * p[1] + p[2] * p[2]) < (2 * r + 1) * (2 * r + 1)
              /\ r > 1 => 4 * (p[1] * p[1] + p[2] * p[2]) > (2 * r - 3) * (2 * r - 3)
              /\ p[1] > p[2] /\ p[2] >= 0 =>
                   \E q \in around : q[2] = p[2] + 1 /\ Adjacent(p, q)
  <2>1. PICK a \in Int, b \in Int : p = <<a, b>>
    BY <1>5
  <2>2. p[1] = a /\ p[2] = b
    BY <2>1
  <2>3. ASSUME a > b, b >= 0 PROVE \E q \in around : q[2] = b + 1 /\ Adjacent(p, q)
    <3>1. PICK s \in Int : <<s, b + 1>> \in around /\ Abs(a - s) <= 1
      BY <1>11, <2>1, <2>3
    <3>2. <<s, b + 1>>[1] = s /\ <<s, b + 1>>[2] = b + 1
      OBVIOUS
    <3>3. Abs(b - (b + 1)) <= 1
      BY DEF Abs
    <3>4. Adjacent(p, <<s, b + 1>>)
      BY <2>2, <3>1, <3>2, <3>3, Zenon DEF Adjacent
    <3> QED BY <3>1, <3>2, <3>4
  <2>4. /\ <<b, a>> \in around /\ <<-a, b>> \in around /\ <<a, -b>> \in around
        /\ 4 * (a * a + b * b) < (2 * r + 1) * (2 * r + 1)
        /\ r > 1 => 4 * (a * a + b * b) > (2 * r - 3) * (2 * r - 3)
    BY <1>8, <2>1
  <2> QED BY <2>2, <2>3, <2>4, Zenon
<1>13. {<<p[1], 0>> : p \in {p \in around : p[2] = 0}} = {<<r, 0>>, <<-r, 0>>}
  <2> DEFINE row == {<<p[1], 0>> : p \in {p \in around : p[2] = 0}}
  <2>1. ASSUME NEW q \in row PROVE q \in {<<r, 0>>, <<-r, 0>>}
    <3>1. PICK p \in around : p[2] = 0 /\ q = <<p[1], 0>>
      BY <2>1
    <3>2. PICK a \in Int, b \in Int : p = <<a, b>>
      BY <1>5
    <3>3. b = 0 /\ q = <<a, 0>>
      BY <3>1, <3>2
    <3>4. a = r \/ a = -r
      BY <1>9, <3>2, <3>3
    <3> QED BY <3>3, <3>4
  <2>2. ASSUME NEW a \in {r, -r} PROVE <<a, 0>> \in row
    <3>1. a \in Int
      BY <1>1
    <3>2. <<a, 0>> \in around
      BY <1>9, <2>2, <3>1
    <3>3. <<a, 0>>[1] = a /\ <<a, 0>>[2] = 0
      OBVIOUS
    <3> QED BY <3>2, <3>3
  <2> HIDE DEF row
  <2>3. row = {<<r, 0>>, <<-r, 0>>}
    BY <2>1, <2>2
  <2> QED BY <2>3 DEF row
<1>14. ~(r < 0)
  BY <1>1
<1> QED
  <2>1. /\ \A p \in around :
             /\ {<<p[2], p[1]>>, <<-p[1], p[2]>>, <<p[1], -p[2]>>} \subseteq around
             /\ 4 * (p[1] * p[1] + p[2] * p[2]) < (2 * r + 1) * (2 * r + 1)
             /\ r > 1 => 4 * (p[1] * p[1] + p[2] * p[2]) > (2 * r - 3) * (2 * r - 3)
        /\ \A p \in around : p[1] > p[2] /\ p[2] >= 0 =>
             \E q \in around : q[2] = p[2] + 1 /\ Adjacent(p, q)
        /\ \A k \in 0..r : \E p \in around : p[2] = k
    BY <1>10, <1>12, Zenon
  <2> QED BY <1>13, <1>14, <2>1, Zenon DEF IsCircle, around, r

\* The last turn of the circle's loop.
LEMMA CircleLast ==
  ASSUME NEW v \in Seq(Int), Len(v) = 3, NEW f, NEW c, CircleSoFar(v, f, c), AtEnd(f)
  PROVE  IsCircle(c \cup {Cell(f)}, v[1], v[2], v[3])
<1>1. v[1] \in Int /\ v[2] \in Int /\ v[3] \in Nat
  BY CircleArgs DEF CircleSoFar
<1>2. PICK arc, m, n, e : \E o \in 1..8 :
        /\ f = CircleAfter(v, m, n, e, o)
        /\ Arc(v[3], arc, m, n, e)
        /\ CircleCells(v, c, arc, m, n, o)
  BY DEF CircleSoFar
<1>3. PICK o \in 1..8 :
        /\ f = CircleAfter(v, m, n, e, o)
        /\ Arc(v[3], arc, m, n, e)
        /\ CircleCells(v, c, arc, m, n, o)
  BY <1>2
<1>4. /\ f.kind = "circle" /\ f.rx = m /\ f.ry = n /\ f.err = e /\ f.octant = o
  BY <1>3, CircleFields
<1>5. m \in Nat /\ n \in Nat /\ n <= m /\ e \in Int
  <2>1. /\ m \in Nat /\ n \in 0..m
        /\ e = m * m + n * n + 2 * n - v[3] * v[3]
    BY <1>3 DEF Arc, ArcPoint
  <2>2. m * m + n * n + 2 * n - v[3] * v[3] \in Int
    BY <1>1, <2>1
  <2> QED BY <2>1, <2>2
<1>6. o = 8 /\ CircleEmpty(ArcNext(f))
  BY <1>4 DEF AtEnd, CircleAtEnd
<1>7. m = n
  <2>1. CASE e <= 0
    <3> DEFINE d == e + 2 * (n + 1) + 1
    <3>1. ArcNext(f) = CircleUp(f, n + 1, d)
      BY <1>4, <2>1, Zenon DEF ArcNext, CircleUp
    <3> HIDE DEF d
    <3>2. CircleUp(f, n + 1, d) = CircleAfter(v, m, n + 1, d, 1)
      BY <1>3, CircleExcept
    <3>3. ArcNext(f).rx = m /\ ArcNext(f).ry = n + 1
      BY <3>1, <3>2, CircleFields
    <3> QED BY <1>5, <1>6, <3>3 DEF CircleEmpty
  <2>2. CASE ~(e <= 0)
    <3> DEFINE d == e - (2 * (m - 1) + 1)
    <3>1. ArcNext(f) = CircleIn(f, m - 1, d)
      BY <1>4, <2>2, Zenon DEF ArcNext, CircleIn
    <3> HIDE DEF d
    <3>2. CircleIn(f, m - 1, d) = CircleAfter(v, m - 1, n, d, 1)
      BY <1>3, CircleExcept
    <3>3. ArcNext(f).rx = m - 1 /\ ArcNext(f).ry = n
      BY <3>1, <3>2, CircleFields
    <3> QED BY <1>5, <1>6, <3>3 DEF CircleEmpty
  <2> QED BY <2>1, <2>2
<1>8. CircleCells(v, c \cup {Cell(f)}, arc, m, n, 9)
  <2>1. CircleCells(v, c \cup {Cell(f)}, arc, m, n, o + 1)
    BY <1>3, <1>5, CircleTurn
  <2> QED BY <1>6, <2>1
<1>9. CircleCells(v, c \cup {Cell(f)}, arc \cup {<<m, n>>}, m, n, 1)
  BY <1>5, <1>8, CirclePoint
<1> QED BY <1>1, <1>3, <1>7, <1>9, CircleWhole

-----------------------------------------------------------------------------
(***************************************************************************)
(* Any figure, and the program that draws it.                              *)
(***************************************************************************)
SoFar(letter, v, f, c) ==
  /\ letter = "l" => LineSoFar(v, f, c)
  /\ letter = "b" => BoxSoFar(v, f, c)
  /\ letter = "i" => CircleSoFar(v, f, c)

Whole(letter, v, c) ==
  /\ letter = "l" => IsLine(c, v[1], v[2], v[3], v[4])
  /\ letter = "b" => IsBox(c, v[1], v[2], v[3], v[4], v[5])
  /\ letter = "i" => IsCircle(c, v[1], v[2], v[3])

FigureLetters == {"l", "b", "i"}

LEMMA Arities == Arity("l") = 4 /\ Arity("b") = 5 /\ Arity("i") = 3
BY DEF Arity

LEMMA FigureKind ==
  ASSUME NEW letter \in FigureLetters, NEW v, NEW f, NEW c, SoFar(letter, v, f, c)
  PROVE  /\ letter = "l" => f.kind = "line"
         /\ letter = "b" => f.kind = "box"
         /\ letter = "i" => f.kind = "circle"
<1>1. CASE letter = "l"
  BY <1>1 DEF SoFar, LineSoFar, LineAfter
<1>2. CASE letter = "b"
  <2>1. PICK i, j : f = BoxAfter(v, i, j)
    BY <1>2 DEF SoFar, BoxSoFar
  <2> QED BY <1>2, <2>1, BoxFields
<1>3. CASE letter = "i"
  <2>1. PICK m, n, e, o : f = CircleAfter(v, m, n, e, o)
    BY <1>3 DEF SoFar, CircleSoFar
  <2> QED BY <1>3, <2>1, CircleFields
<1> QED BY <1>1, <1>2, <1>3 DEF FigureLetters

LEMMA FigureStart ==
  ASSUME NEW letter \in FigureLetters, NEW v \in Seq(Int), Len(v) = Arity(letter),
         NEW f, f = Figure(letter, v)
  PROVE  /\ Empty(f) => Whole(letter, v, {})
         /\ ~Empty(f) => SoFar(letter, v, f, {})
<1>1. CASE letter = "l"
  <2>1. f = Line(v[1], v[2], v[3], v[4]) /\ Len(v) = 4
    BY <1>1, Arities DEF Figure
  <2>2. LineSoFar(v, f, {})
    BY <2>1, LineStart
  <2>3. f.kind = "line"
    BY <2>1 DEF Line
  <2>4. ~Empty(f)
    BY <2>3 DEF Empty
  <2> QED BY <1>1, <2>2, <2>4 DEF SoFar
<1>2. CASE letter = "b"
  <2>1. f = Box(v[1], v[2], v[3], v[4], v[5]) /\ Len(v) = 5
    BY <1>2, Arities DEF Figure
  <2>2. /\ Empty(f) => IsBox({}, v[1], v[2], v[3], v[4], v[5])
        /\ ~Empty(f) => BoxSoFar(v, f, {})
    BY <2>1, BoxStart
  <2> QED BY <1>2, <2>2 DEF SoFar, Whole
<1>3. CASE letter = "i"
  <2>1. f = Circle(v[1], v[2], v[3]) /\ Len(v) = 3
    BY <1>3, Arities DEF Figure
  <2>2. /\ Empty(f) => IsCircle({}, v[1], v[2], v[3])
        /\ ~Empty(f) => CircleSoFar(v, f, {})
    BY <2>1, CircleStart
  <2> QED BY <1>3, <2>2 DEF SoFar, Whole
<1> QED BY <1>1, <1>2, <1>3 DEF FigureLetters

\* One turn of a figure's loop.
LEMMA FigureTurn ==
  ASSUME NEW letter \in FigureLetters, NEW v \in Seq(Int), Len(v) = Arity(letter),
         NEW f, NEW c, SoFar(letter, v, f, c),
         NEW d, d = IF Plots(f) THEN c \cup {Cell(f)} ELSE c
  PROVE  /\ AtEnd(f) => Whole(letter, v, d)
         /\ ~AtEnd(f) => SoFar(letter, v, Advance(f), d)
<1>1. CASE letter = "l"
  <2>1. LineSoFar(v, f, c) /\ Len(v) = 4 /\ f.kind = "line"
    BY <1>1, Arities, FigureKind DEF SoFar
  <2>2. d = c \cup {Cell(f)}
    BY <2>1 DEF Plots
  <2>3. AtEnd(f) => IsLine(d, v[1], v[2], v[3], v[4])
    BY <2>1, <2>2, LineLast
  <2>4. ~AtEnd(f) => LineSoFar(v, Advance(f), d)
    BY <2>1, <2>2, LineMore
  <2> QED BY <1>1, <2>3, <2>4 DEF SoFar, Whole
<1>2. CASE letter = "b"
  <2>1. BoxSoFar(v, f, c) /\ Len(v) = 5
    BY <1>2, Arities DEF SoFar
  <2>2. AtEnd(f) => IsBox(d, v[1], v[2], v[3], v[4], v[5])
    BY <2>1, BoxLast
  <2>3. ~AtEnd(f) => BoxSoFar(v, Advance(f), d)
    BY <2>1, BoxMore
  <2> QED BY <1>2, <2>2, <2>3 DEF SoFar, Whole
<1>3. CASE letter = "i"
  <2>1. CircleSoFar(v, f, c) /\ Len(v) = 3 /\ f.kind = "circle"
    BY <1>3, Arities, FigureKind DEF SoFar
  <2>2. d = c \cup {Cell(f)}
    BY <2>1 DEF Plots
  <2>3. AtEnd(f) => IsCircle(d, v[1], v[2], v[3])
    BY <2>1, <2>2, CircleLast
  <2>4. ~AtEnd(f) => CircleSoFar(v, Advance(f), d)
    BY <2>1, <2>2, CircleMore
  <2> QED BY <1>3, <2>3, <2>4 DEF SoFar, Whole
<1> QED BY <1>1, <1>2, <1>3 DEF FigureLetters

\* The history of the last figure: its letter, its arguments, its cells.
Drawing(letter, v, c) == [letter |-> letter, args |-> v, cells |-> c]

LEMMA DrawingCells ==
  ASSUME NEW letter, NEW v, NEW c, NEW w, w = Drawing(letter, v, c), NEW d
  PROVE  /\ w.letter = letter /\ w.args = v /\ w.cells = c
         /\ [w EXCEPT !.cells = d] = Drawing(letter, v, d)
<1>1. w.letter = letter /\ w.args = v /\ w.cells = c
  BY DEF Drawing
<1>2. [w EXCEPT !.cells = d] = Drawing(letter, v, d)
  BY DEF Drawing
<1> QED BY <1>1, <1>2

\* Between the figures the last one is whole; within one the cells drawn are
\* those its loop has come to.
LastFigure ==
  \E letter, v, c :
    /\ drawn = Drawing(letter, v, c)
    /\ letter \in FigureLetters => v \in Seq(Int) /\ Len(v) = Arity(letter)
    /\ pc = "figure" => letter \in FigureLetters /\ SoFar(letter, v, fig, c)
    /\ pc # "figure" => Whole(letter, v, c)

IInv ==
  /\ in \in Seq(Chars)
  /\ at \in Position
  /\ LastFigure

LEMMA InitIInv == Init => IInv
<1> SUFFICES ASSUME Init PROVE IInv
  OBVIOUS
<1>1. /\ in \in Seq(Chars) /\ at = 1 /\ pc = "parse"
      /\ drawn = Drawing("none", <<>>, {})
  BY DEF Init, Started, Began, Drawing
<1>2. at \in Position
  BY <1>1 DEF Position
<1>3. "none" \notin FigureLetters /\ Whole("none", <<>>, {})
  BY DEF FigureLetters, Whole
<1>4. LastFigure
  BY <1>1, <1>3 DEF LastFigure
<1> QED BY <1>1, <1>2, <1>4 DEF IInv

\* What a step outside the figures' loops keeps.
LEMMA NoFigureStep ==
  ASSUME IInv, pc # "figure", UNCHANGED <<in, drawn>>, pc' # "figure", at' \in Position
  PROVE  IInv'
<1>1. PICK letter, v, c :
        /\ drawn = Drawing(letter, v, c)
        /\ letter \in FigureLetters => v \in Seq(Int) /\ Len(v) = Arity(letter)
        /\ Whole(letter, v, c)
  BY DEF IInv, LastFigure
<1>2. LastFigure'
  BY <1>1 DEF LastFigure
<1> QED BY <1>2 DEF IInv

LEMMA NextLetterPc == NextLetter => pc' \in {"parse", "exec"}
BY DEF NextLetter

LEMMA ParseCommandIInv == IInv /\ ParseCommand => IInv'
<1> SUFFICES ASSUME IInv, ParseCommand PROVE IInv'
  OBVIOUS
<1>1. pc = "parse" /\ UNCHANGED <<in, drawn>>
  BY DEF ParseCommand
<1>2. pc' \in {"exec", "parse"}
  BY DEF ParseCommand
<1>3. at' = ReadString(MaxCommand).next
  BY DEF ParseCommand
<1>4. at' \in Position
  BY <1>3, ReadStringIs, DarkboxAssumption DEF IInv
<1> QED BY <1>1, <1>2, <1>4, NoFigureStep

LEMMA EchoIInv == IInv /\ Echo => IInv'
<1> SUFFICES ASSUME IInv, Echo PROVE IInv'
  OBVIOUS
<1> DEFINE word == ReadString(MaxCommand)
<1>1. pc = "parse" /\ UNCHANGED <<in, drawn>>
  BY DEF Echo
<1>2. pc' \in {"exited", "parse"}
  BY DEF Echo
<1>3. at' = word.next \/ at' = LineEnd(word.next) + 1
  BY DEF Echo
<1>4. word.next \in Position
  BY ReadStringIs, DarkboxAssumption DEF IInv
<1> HIDE DEF word
<1>5. LineEnd(word.next) + 1 \in Position
  <2>1. LineEnd(word.next) \in Position
    BY <1>4, LineEndIs DEF IInv
  <2> QED BY <2>1 DEF Position
<1> QED BY <1>1, <1>2, <1>3, <1>4, <1>5, NoFigureStep

LEMMA DisplayIInv == IInv /\ Display => IInv'
<1> SUFFICES ASSUME IInv, Display PROVE IInv'
  OBVIOUS
<1>1. pc = "exec" /\ UNCHANGED <<in, drawn>> /\ NextLetter
  BY DEF Display, Executes
<1>2. at' = ReadString(MaxText).next
  BY DEF Display
<1>3. at' \in Position
  BY <1>2, ReadStringIs, DarkboxAssumption DEF IInv
<1>4. pc' # "figure"
  BY <1>1, NextLetterPc
<1> QED BY <1>1, <1>3, <1>4, NoFigureStep

LEMMA ArityNat == \A letter : Arity(letter) \in Nat
BY DEF Arity

LEMMA SimpleIInv == IInv /\ Simple => IInv'
<1> SUFFICES ASSUME IInv, Simple PROVE IInv'
  OBVIOUS
<1>1. pc = "exec" /\ UNCHANGED <<in, drawn>> /\ NextLetter
  BY DEF Simple, Executes
<1>2. at' = ReadInts(Arity(Letter)).next
  BY DEF Simple
<1>3. at' \in Position
  BY <1>2, ReadIntsIs, ArityNat DEF IInv
<1>4. pc' # "figure"
  BY <1>1, NextLetterPc
<1> QED BY <1>1, <1>3, <1>4, NoFigureStep

LEMMA QuitIInv == IInv /\ Quit => IInv'
<1> SUFFICES ASSUME IInv, Quit PROVE IInv'
  OBVIOUS
<1>1. pc = "exec" /\ UNCHANGED <<in, at, drawn>> /\ pc' = "exited"
  BY DEF Quit, Executes
<1>2. at' \in Position
  BY <1>1 DEF IInv
<1> QED BY <1>1, <1>2, NoFigureStep

LEMMA StartFigureIInv == IInv /\ StartFigure => IInv'
<1> SUFFICES ASSUME IInv, StartFigure PROVE IInv'
  OBVIOUS
<1> DEFINE read == ReadInts(Arity(Letter))
           v == read.values
           f == Figure(Letter, v)
<1>1. /\ Letter \in FigureLetters /\ in' = in
      /\ at' = read.next /\ drawn' = Drawing(Letter, v, {})
      /\ Empty(f) => NextLetter
      /\ ~Empty(f) => fig' = f /\ pc' = "figure"
  BY Zenon DEF StartFigure, Executes, FigureLetters, Drawing
<1>2. read.next \in Position /\ v \in Seq(Int) /\ Len(v) = Arity(Letter)
  BY ReadIntsIs, ArityNat DEF IInv
<1> HIDE DEF read, v, f
<1>3. /\ Empty(f) => Whole(Letter, v, {})
      /\ ~Empty(f) => SoFar(Letter, v, f, {})
  BY <1>1, <1>2, FigureStart DEF f
<1>4. CASE Empty(f)
  <2>1. pc' # "figure"
    BY <1>1, <1>4, NextLetterPc
  <2>2. LastFigure'
    BY <1>1, <1>2, <1>3, <1>4, <2>1, Zenon DEF LastFigure
  <2> QED BY <1>1, <1>2, <2>2 DEF IInv
<1>5. CASE ~Empty(f)
  <2>1. pc' = "figure" /\ fig' = f
    BY <1>1, <1>5
  <2>2. LastFigure'
    BY <1>1, <1>2, <1>3, <1>5, <2>1, Zenon DEF LastFigure
  <2> QED BY <1>1, <1>2, <2>2 DEF IInv
<1> QED BY <1>4, <1>5

LEMMA PlotIInv == IInv /\ Plot => IInv'
<1> SUFFICES ASSUME IInv, Plot PROVE IInv'
  OBVIOUS
<1>1. pc = "figure" /\ UNCHANGED <<in, at>>
  BY DEF Plot
<1>2. PICK letter, v, c :
        /\ drawn = Drawing(letter, v, c)
        /\ letter \in FigureLetters /\ v \in Seq(Int) /\ Len(v) = Arity(letter)
        /\ SoFar(letter, v, fig, c)
  BY <1>1 DEF IInv, LastFigure
<1> DEFINE d == IF Plots(fig) THEN c \cup {Cell(fig)} ELSE c
<1>3. drawn' = Drawing(letter, v, d)
  <2>1. drawn.cells = c
    BY <1>2, DrawingCells
  <2>2. CASE Plots(fig)
    <3>1. drawn' = [drawn EXCEPT !.cells = c \cup {Cell(fig)}]
      BY <2>1, <2>2, Zenon DEF Plot
    <3>2. d = c \cup {Cell(fig)}
      BY <2>2
    <3> HIDE DEF d
    <3>3. [drawn EXCEPT !.cells = d] = Drawing(letter, v, d)
      BY <1>2, DrawingCells
    <3> QED BY <3>1, <3>2, <3>3
  <2>3. CASE ~Plots(fig)
    BY <1>2, <2>3, Zenon DEF Plot
  <2> QED BY <2>2, <2>3
<1>4. /\ AtEnd(fig) => Whole(letter, v, d)
      /\ ~AtEnd(fig) => SoFar(letter, v, Advance(fig), d)
  BY <1>2, FigureTurn
<1> HIDE DEF d
<1>5. CASE AtEnd(fig)
  <2>1. pc' # "figure"
    <3>1. NextLetter
      BY <1>5, Zenon DEF Plot
    <3> QED BY <3>1, NextLetterPc
  <2>2. LastFigure'
    BY <1>2, <1>3, <1>4, <1>5, <2>1, Zenon DEF LastFigure
  <2> QED BY <1>1, <2>2 DEF IInv
<1>6. CASE ~AtEnd(fig)
  <2>1. pc' = "figure" /\ fig' = Advance(fig)
    BY <1>1, <1>6, Zenon DEF Plot
  <2>2. LastFigure'
    BY <1>2, <1>3, <1>4, <1>6, <2>1, Zenon DEF LastFigure
  <2> QED BY <1>1, <2>2 DEF IInv
<1> QED BY <1>5, <1>6

\* Every action keeps the invariant.
LEMMA NextIInv == IInv /\ [Next]_vars => IInv'
<1> SUFFICES ASSUME IInv, [Next]_vars PROVE IInv'
  OBVIOUS
<1>1. CASE UNCHANGED vars
  BY <1>1 DEF vars, IInv, LastFigure
<1> QED BY <1>1, ParseCommandIInv, EchoIInv, DisplayIInv, SimpleIInv, QuitIInv,
           StartFigureIInv, PlotIInv DEF Next, Execute

LEMMA IInvComplete == IInv => FigureComplete
<1> SUFFICES ASSUME IInv, pc # "figure"
             PROVE  FigureComplete
  BY DEF FigureComplete
<1>1. PICK letter, v, c : drawn = Drawing(letter, v, c) /\ Whole(letter, v, c)
  BY DEF IInv, LastFigure
<1>2. drawn.letter = letter /\ drawn.args = v /\ drawn.cells = c
  BY <1>1, DrawingCells
<1> QED BY <1>1, <1>2, Zenon DEF FigureComplete, Whole

-----------------------------------------------------------------------------
\* Whatever is read, a figure that darkbox has drawn to its end is complete and
\* nothing more (execute_cmd's loops of -l, -b and -i): a line has both its
\* ends, one cell for every column (or row) between them and none farther than
\* half a cell from the ideal line; a box its border or all its cells; a circle
\* is symmetric, round and without a gap.
THEOREM FiguresComplete == Spec => []FigureComplete
BY InitIInv, NextIInv, IInvComplete, PTL DEF Spec

-----------------------------------------------------------------------------
(* darkbox -e: where each character of the text is in what it makes.       *)

\* A sequence that grows by a block at a time.
Grows(f, n, V, base, block) ==
  /\ n \in Nat /\ base \in Seq(V) /\ block \in [1..n -> Seq(V)]
  /\ f[0] = base
  /\ \A i \in 1..n : f[i] = f[i - 1] \o block[i]

LEMMA GrowsTypes ==
  ASSUME NEW f, NEW n, NEW V, NEW base, NEW block, Grows(f, n, V, base, block)
  PROVE  \A i \in 0..n : f[i] \in Seq(V)
<1> DEFINE S == {i \in 0..n : f[i] \in Seq(V)}
<1>0. n \in Nat /\ f[0] \in Seq(V)
  BY DEF Grows
<1>1. 0 \in S
  BY <1>0
<1>2. ASSUME NEW i \in 1..n, i - 1 \in S PROVE i \in S
  <2>1. f[i - 1] \in Seq(V) /\ block[i] \in Seq(V) /\ f[i] = f[i - 1] \o block[i]
    BY <1>2 DEF Grows
  <2>2. f[i - 1] \o block[i] \in Seq(V)
    BY <2>1, ConcatProperties
  <2>3. i \in 0..n
    BY <1>0
  <2> QED BY <2>1, <2>2, <2>3
<1>3. \A i \in 0..n : i \in S
  <2> HIDE DEF S
  <2> QED BY <1>0, <1>1, <1>2, UpTo
<1> QED BY <1>3

Added(f, V, block, i) ==
  /\ f[i - 1] \in Seq(V) /\ f[i] \in Seq(V) /\ block[i] \in Seq(V)
  /\ Len(f[i]) = Len(f[i - 1]) + Len(block[i])
  /\ \A k \in 1..Len(f[i - 1]) : f[i][k] = f[i - 1][k]
  /\ \A k \in 1..Len(block[i]) : f[i][Len(f[i - 1]) + k] = block[i][k]

LEMMA GrowsBy ==
  ASSUME NEW f, NEW n, NEW V, NEW base, NEW block, Grows(f, n, V, base, block),
         NEW i \in 1..n
  PROVE  Added(f, V, block, i)
<1>1. n \in Nat /\ i \in 0..n /\ i - 1 \in 0..n
  BY DEF Grows
<1>2. f[i - 1] \in Seq(V) /\ f[i] \in Seq(V)
  BY <1>1, GrowsTypes
<1>3. block[i] \in Seq(V) /\ f[i] = f[i - 1] \o block[i]
  BY DEF Grows
<1> DEFINE a == f[i - 1]
           b == block[i]
<1>4. a \in Seq(V) /\ b \in Seq(V) /\ f[i] = a \o b
  BY <1>2, <1>3
<1> HIDE DEF a, b
<1>5. /\ Len(a \o b) = Len(a) + Len(b) /\ Len(a) \in Nat /\ Len(b) \in Nat
      /\ \A k \in 1..(Len(a) + Len(b)) : (a \o b)[k] = IF k <= Len(a) THEN a[k] ELSE b[k - Len(a)]
  BY <1>4, ConcatProperties
<1>6. \A k \in 1..Len(a) : (a \o b)[k] = a[k]
  BY <1>5
<1>7. ASSUME NEW k \in 1..Len(b) PROVE (a \o b)[Len(a) + k] = b[k]
  <2>1. Len(a) + k \in 1..(Len(a) + Len(b)) /\ ~(Len(a) + k <= Len(a)) /\ (Len(a) + k) - Len(a) = k
    BY <1>5
  <2>2. (a \o b)[Len(a) + k] = b[(Len(a) + k) - Len(a)]
    BY <1>5, <2>1
  <2> QED BY <2>1, <2>2
<1> QED BY <1>2, <1>3, <1>4, <1>5, <1>6, <1>7 DEF a, b, Added

LEMMA GrowsKeeps ==
  ASSUME NEW f, NEW n, NEW V, NEW base, NEW block, Grows(f, n, V, base, block)
  PROVE  \A i \in 0..n : /\ Len(f[i]) <= Len(f[n])
                         /\ \A k \in 1..Len(f[i]) : f[n][k] = f[i][k]
<1> DEFINE Keeps(i, j) == Len(f[i]) <= Len(f[j]) /\ \A k \in 1..Len(f[i]) : f[j][k] = f[i][k]
           S == {j \in 0..n : \A i \in 0..j : Keeps(i, j)}
<1>0. n \in Nat /\ \A i \in 0..n : f[i] \in Seq(V) /\ Len(f[i]) \in Nat
  <2>1. \A i \in 0..n : f[i] \in Seq(V)
    BY GrowsTypes
  <2> QED BY <2>1 DEF Grows
<1>1. 0 \in S
  <2>1. ASSUME NEW i \in 0..0 PROVE Keeps(i, 0)
    BY <1>0
  <2> QED BY <1>0, <2>1
<1>2. ASSUME NEW j \in 1..n, j - 1 \in S PROVE j \in S
  <2>1. ASSUME NEW i \in 0..j PROVE Keeps(i, j)
    <3>1. CASE i = j
      BY <1>0, <3>1
    <3>2. CASE i # j
      <4>1. Keeps(i, j - 1) /\ i \in 0..n /\ j \in 0..n /\ j - 1 \in 0..n
        BY <1>0, <1>2, <3>2
      <4>2. /\ Len(f[j]) = Len(f[j - 1]) + Len(block[j]) /\ block[j] \in Seq(V)
            /\ \A k \in 1..Len(f[j - 1]) : f[j][k] = f[j - 1][k]
        <5>1. Added(f, V, block, j)
          BY GrowsBy
        <5> QED BY <5>1 DEF Added
      <4>3. Len(block[j]) \in Nat /\ Len(f[i]) \in Nat /\ Len(f[j - 1]) \in Nat
        BY <1>0, <4>1, <4>2
      <4>4. \A k \in 1..Len(f[i]) : k \in 1..Len(f[j - 1])
        BY <4>1, <4>3
      <4>5. Len(f[i]) <= Len(f[j])
        <5>1. Len(f[i]) <= Len(f[j - 1]) /\ Len(f[j]) = Len(f[j - 1]) + Len(block[j])
          BY <4>1, <4>2
        <5>2. Len(f[j]) \in Nat
          BY <1>0, <4>1
        <5>3. \A a, b, c, d \in Nat : a <= b /\ d = b + c => a <= d
          OBVIOUS
        <5> QED BY <4>3, <5>1, <5>2, <5>3
      <4>6. ASSUME NEW k \in 1..Len(f[i]) PROVE f[j][k] = f[i][k]
        BY <4>1, <4>2, <4>4
      <4> QED BY <4>5, <4>6
    <3> QED BY <3>1, <3>2
  <2> QED BY <2>1
<1>3. \A j \in 0..n : j \in S
  <2> HIDE DEF S, Keeps
  <2> QED BY <1>0, <1>1, <1>2, UpTo
<1> QED BY <1>0, <1>3

\* The blocks of what it grew to.
Within(f, n, block, i) ==
  /\ Len(f[i - 1]) \in Nat /\ Len(f[i]) \in Nat /\ Len(f[n]) \in Nat
  /\ Len(f[i]) = Len(f[i - 1]) + Len(block[i]) /\ Len(f[i]) <= Len(f[n])
  /\ \A k \in 1..Len(block[i]) : f[n][Len(f[i - 1]) + k] = block[i][k]

LEMMA GrowsTo ==
  ASSUME NEW f, NEW n, NEW V, NEW base, NEW block, Grows(f, n, V, base, block),
         NEW i \in 1..n
  PROVE  Within(f, n, block, i)
<1>0. n \in Nat /\ i \in 0..n /\ n \in 0..n /\ \A j \in 0..n : f[j] \in Seq(V) /\ Len(f[j]) \in Nat
  <2>1. \A j \in 0..n : f[j] \in Seq(V)
    BY GrowsTypes
  <2> QED BY <2>1 DEF Grows
<1>1. /\ f[i - 1] \in Seq(V) /\ f[i] \in Seq(V) /\ block[i] \in Seq(V)
      /\ Len(f[i]) = Len(f[i - 1]) + Len(block[i])
      /\ \A k \in 1..Len(block[i]) : f[i][Len(f[i - 1]) + k] = block[i][k]
  <2>1. Added(f, V, block, i)
    BY GrowsBy
  <2> QED BY <2>1 DEF Added
<1>2. Len(f[i]) <= Len(f[n]) /\ \A k \in 1..Len(f[i]) : f[n][k] = f[i][k]
  BY <1>0, GrowsKeeps
<1>3. Len(f[i - 1]) \in Nat /\ Len(block[i]) \in Nat /\ Len(f[i]) \in Nat
  <2>1. f[i - 1] \in Seq(V) /\ f[i] \in Seq(V) /\ block[i] \in Seq(V)
    BY <1>1
  <2> QED BY <2>1
<1>4. ASSUME NEW k \in 1..Len(block[i]) PROVE f[n][Len(f[i - 1]) + k] = block[i][k]
  <2>1. Len(f[i - 1]) + k \in 1..Len(f[i])
    <3>1. Len(f[i]) = Len(f[i - 1]) + Len(block[i])
      BY <1>1
    <3>2. \A a, b, c \in Nat : c = a + b => \A x \in 1..b : a + x \in 1..c
      OBVIOUS
    <3> QED BY <1>3, <3>1, <3>2
  <2> QED BY <1>1, <1>2, <2>1
<1> QED BY <1>0, <1>1, <1>2, <1>3, <1>4 DEF Within

LEMMA ModAgain ==
  ASSUME NEW n \in Nat \ {0}, NEW a \in Nat PROVE (a + n) % n = a % n
<1> DEFINE q == a \div n
           r == a % n
           p == (a + n) \div n
           s == (a + n) % n
<1>1. q \in Int /\ r \in 0..(n - 1) /\ a = n * q + r
  OBVIOUS
<1>2. p \in Int /\ s \in 0..(n - 1) /\ a + n = n * p + s
  OBVIOUS
<1> HIDE DEF q, r, p, s
<1> DEFINE d == p - q - 1
<1>3. d \in Int /\ n * d = n * p - n * q - n
  BY <1>1, <1>2
<1>4. n * d = r - s /\ n * d < n /\ -n < n * d
  <2>1. n * p \in Int /\ n * q \in Int
    BY <1>1, <1>2
  <2> QED BY <1>1, <1>2, <1>3, <2>1
<1>5. d = 0
  <2> HIDE DEF d
  <2> QED BY <1>3, <1>4, SmallMultiple
<1>6. r = s
  BY <1>1, <1>2, <1>4, <1>5
<1> QED BY <1>6 DEF r, s

\* A full piece after a break is followed by another break.
LEMMA BreakAgain ==
  ASSUME NEW b \in Nat, b = 0 \/ Break(b + 1) PROVE Break(b + MaxText + 1)
<1>0. MaxText \in Nat /\ MaxText > 0
  BY DarkboxAssumption
<1>1. CASE MaxText = 1
  BY <1>0, <1>1 DEF Break
<1>2. CASE MaxText > 1
  <2>1. (b + 1) % MaxText = 1
    <3>1. CASE b = 0
      BY <1>0, <1>2, <3>1
    <3>2. CASE b # 0
      BY <1>2, <3>2 DEF Break
    <3> QED BY <3>1, <3>2
  <2>2. (b + MaxText + 1) % MaxText = (b + 1) % MaxText
    <3>1. (b + 1 + MaxText) % MaxText = (b + 1) % MaxText
      <4>1. MaxText \in Nat \ {0} /\ b + 1 \in Nat
        BY <1>0
      <4> DEFINE a == b + 1
      <4>2. a \in Nat
        BY <4>1
      <4> HIDE DEF a
      <4>3. (a + MaxText) % MaxText = a % MaxText
        BY <4>1, <4>2, ModAgain
      <4> QED BY <4>3 DEF a
    <3>2. b + 1 + MaxText = b + MaxText + 1
      BY <1>0
    <3> QED BY <3>1, <3>2
  <2>3. b + MaxText + 1 > 1
    BY <1>0
  <2> QED BY <2>1, <2>2, <2>3 DEF Break
<1> QED BY <1>0, <1>1, <1>2

BreakMarks(i) == IF Break(i) THEN Close \o Open ELSE <<>>

\* Block i of what is made of text t.
Coded(t, i) == IF i <= Len(t) THEN EncodeChar(t[i]) ELSE <<Quote>>
Block(t, i) == BreakMarks(i) \o Coded(t, i)

LEMMA Marks ==
  Close \o Open = <<Quote, Space, "-", "d", Space, Quote>>
<1> DEFINE V == {"-", "d", Space, Quote}
           both == <<Quote, Space, "-", "d", Space, Quote>>
<1>0. "-" \in V /\ "d" \in V /\ Space \in V /\ Quote \in V
  OBVIOUS
<1> HIDE DEF V
<1>1. Close \in Seq(V) /\ Len(Close) = 2 /\ Close[1] = Quote /\ Close[2] = Space
  BY <1>0 DEF Close
<1>2. /\ Open \in Seq(V) /\ Len(Open) = 4
      /\ Open[1] = "-" /\ Open[2] = "d" /\ Open[3] = Space /\ Open[4] = Quote
  BY <1>0 DEF Open
<1>3. /\ Close \o Open \in Seq(V) /\ Len(Close \o Open) = 6
      /\ \A k \in 1..6 : (Close \o Open)[k] = IF k <= 2 THEN Close[k] ELSE Open[k - 2]
  <2>1. /\ Close \o Open \in Seq(V) /\ Len(Close \o Open) = Len(Close) + Len(Open)
        /\ \A k \in 1..(Len(Close) + Len(Open)) :
             (Close \o Open)[k] = IF k <= Len(Close) THEN Close[k] ELSE Open[k - Len(Close)]
    BY <1>1, <1>2, ConcatProperties
  <2> QED BY <1>1, <1>2, <2>1
<1>4. both \in Seq(V) /\ Len(both) = 6
  BY <1>0
<1>5. ASSUME NEW k \in 1..6 PROVE (Close \o Open)[k] = both[k]
  <2>1. k \in {1, 2, 3, 4, 5, 6}
    OBVIOUS
  <2>2. (Close \o Open)[k] = IF k <= 2 THEN Close[k] ELSE Open[k - 2]
    BY <1>3
  <2> QED BY <1>1, <1>2, <2>1, <2>2
<1> HIDE DEF both
<1>6. Close \o Open = both
  BY <1>3, <1>4, <1>5, SeqEqual
<1> QED BY <1>6 DEF both

Alphabet(V) == "-" \in V /\ "d" \in V /\ Space \in V /\ Quote \in V /\ Escape \in V

LEMMA BlockTypes ==
  ASSUME NEW V, Alphabet(V), NEW t \in Seq(V), NEW i \in 1..(Len(t) + 1)
  PROVE  /\ BreakMarks(i) \in Seq(V)
         /\ Coded(t, i) \in Seq(V)
         /\ Block(t, i) \in Seq(V)
<1>1. "-" \in V /\ "d" \in V /\ Space \in V /\ Quote \in V /\ Escape \in V
  BY DEF Alphabet
<1>2. BreakMarks(i) \in Seq(V)
  <2>1. <<Quote, Space, "-", "d", Space, Quote>> \in Seq(V) /\ <<>> \in Seq(V)
    BY <1>1
  <2> QED BY <2>1, Marks DEF BreakMarks
<1>3. Coded(t, i) \in Seq(V)
  <2>1. CASE i <= Len(t)
    <3>1. t[i] \in V
      <4>1. i \in 1..Len(t)
        BY <2>1
      <4> QED BY <4>1
    <3>2. <<t[i]>> \in Seq(V) /\ <<Escape, t[i]>> \in Seq(V)
      BY <1>1, <3>1
    <3> QED BY <2>1, <3>2 DEF EncodeChar, Coded
  <2>2. CASE ~(i <= Len(t))
    <3>1. <<Quote>> \in Seq(V)
      BY <1>1
    <3> QED BY <2>2, <3>1 DEF Coded
  <2> QED BY <2>1, <2>2
<1> QED BY <1>2, <1>3, ConcatProperties DEF Block

\* The encoder is that growth.
Encodes(f, t, V, block) ==
  /\ Grows(f, Len(t) + 1, V, Open, block)
  /\ \A i \in 1..(Len(t) + 1) : block[i] = Block(t, i)
  /\ Encode(t) = f[Len(t) + 1]

LEMMA EncodeGrows ==
  ASSUME NEW V, Alphabet(V), NEW t \in Seq(V)
  PROVE  \E f, block : Encodes(f, t, V, block)
<1> DEFINE n == Len(t) + 1
           W == Seq(V)
           block == [i \in 1..n |-> Block(t, i)]
           step == [i \in 1..n |-> [s \in W |-> s \o block[i]]]
           More(h, i) == IF i = 0 THEN Open
                         ELSE h \o (IF Break(i) THEN Close \o Open ELSE <<>>)
                                \o (IF i <= Len(t) THEN EncodeChar(t[i]) ELSE <<Quote>>)
<1>1. n \in Nat /\ Len(t) \in Nat
  OBVIOUS
<1>2. \A i \in 1..n : /\ BreakMarks(i) \in W /\ Coded(t, i) \in W
                      /\ block[i] = BreakMarks(i) \o Coded(t, i) /\ block[i] \in W
  <2>1. ASSUME NEW i \in 1..n
        PROVE  /\ BreakMarks(i) \in W /\ Coded(t, i) \in W
               /\ block[i] = BreakMarks(i) \o Coded(t, i) /\ block[i] \in W
    <3>1. BreakMarks(i) \in W /\ Coded(t, i) \in W /\ Block(t, i) \in W
      BY BlockTypes
    <3>2. block[i] = Block(t, i) /\ Block(t, i) = BreakMarks(i) \o Coded(t, i)
      BY DEF Block
    <3> HIDE DEF block, W
    <3> QED BY <3>1, <3>2
  <2> HIDE DEF block, W, n
  <2> QED BY <2>1
<1>3. Open \in W
  BY DEF Open, Alphabet
<1>4. step \in [1..n -> [W -> W]]
  <2>1. \A i \in 1..n : \A s \in W : s \o block[i] \in W
    <3> HIDE DEF block, n, W
    <3>1. ASSUME NEW i \in 1..n, NEW s \in W PROVE s \o block[i] \in W
      <4>1. block[i] \in W
        BY <1>2
      <4> QED BY <4>1, ConcatProperties DEF W
    <3> QED BY <3>1
  <2> HIDE DEF block, W, n
  <2> QED BY <2>1
<1>5. PICK f : f \in [0..n -> W] /\ f[0] = Open /\ \A i \in 1..n : f[i] = step[i][f[i - 1]]
  <2> HIDE DEF n, W, step
  <2>1. \E f : Solves(f, n, W, Open, step)
    BY <1>1, <1>3, <1>4, Recursion DEF Steps
  <2> QED BY <2>1 DEF Solves
<1>6. ASSUME NEW h \in W, NEW i \in 1..n PROVE More(h, i) = h \o block[i]
  <2>1. BreakMarks(i) \in W /\ Coded(t, i) \in W /\ block[i] = BreakMarks(i) \o Coded(t, i)
    <3> HIDE DEF block, W, n
    <3> QED BY <1>2
  <2>2. More(h, i) = (h \o BreakMarks(i)) \o Coded(t, i)
    <3>1. i # 0
      OBVIOUS
    <3> QED BY <3>1, Zenon DEF BreakMarks, Coded
  <2>3. (h \o BreakMarks(i)) \o Coded(t, i) = h \o (BreakMarks(i) \o Coded(t, i))
    BY <2>1, ConcatAssociative
  <2> HIDE DEF More, block
  <2> QED BY <2>1, <2>2, <2>3
<1>7. \A i \in 1..n : f[i - 1] \in W /\ f[i] = f[i - 1] \o block[i]
  <2>1. ASSUME NEW i \in 1..n PROVE f[i - 1] \in W /\ f[i] = f[i - 1] \o block[i]
    <3>1. f[i - 1] \in W /\ f[i] = step[i][f[i - 1]]
      <4> HIDE DEF W, step, n
      <4>1. i - 1 \in 0..n
        BY <1>1
      <4> QED BY <1>5, <4>1
    <3> HIDE DEF block, W
    <3> QED BY <3>1
  <2> HIDE DEF block, W, n
  <2> QED BY <2>1
<1>8. f = [i \in 0..n |-> More(f[i - 1], i)]
  <2> HIDE DEF W, step, block
  <2>1. ASSUME NEW i \in 0..n PROVE f[i] = More(f[i - 1], i)
    <3>1. CASE i = 0
      BY <1>5, <3>1
    <3>2. CASE i # 0
      <4>1. i \in 1..n
        BY <1>1, <3>2
      <4> HIDE DEF More
      <4> QED BY <1>6, <1>7, <4>1
    <3> QED BY <3>1, <3>2
  <2> HIDE DEF More
  <2> QED BY <1>5, <2>1
<1> DEFINE piece[i \in 0..Len(t) + 1] ==
             IF i = 0 THEN Open
             ELSE piece[i - 1]
                  \o (IF Break(i) THEN Close \o Open ELSE <<>>)
                  \o (IF i <= Len(t) THEN EncodeChar(t[i]) ELSE <<Quote>>)
<1>9. piece = [i \in 0..n |-> More(piece[i - 1], i)]
  <2> HIDE DEF W, step, block
  <2> QED BY <1>8, Zenon
<1>10. Encode(t) = piece[n]
  BY Zenon DEF Encode
<1> HIDE DEF piece
<1>11. piece[0] = Open /\ piece = [i \in 0..n |-> piece[i]]
  <2> HIDE DEF W, step, block
  <2> QED BY <1>1, <1>9
<1>12. ASSUME NEW i \in 1..n, piece[i - 1] \in W PROVE piece[i] = piece[i - 1] \o block[i]
  <2>1. i \in 0..n
    BY <1>1
  <2>2. piece[i] = More(piece[i - 1], i)
    <3> HIDE DEF More, W, step, block
    <3> QED BY <1>9, <2>1
  <2> HIDE DEF More, block, W
  <2> QED BY <1>6, <1>12, <2>2
<1>13. ASSUME NEW i \in 1..n, piece[i - 1] \in W PROVE piece[i] = step[i][piece[i - 1]]
  <2>1. piece[i] = piece[i - 1] \o block[i]
    <3> HIDE DEF block, W, n
    <3> QED BY <1>12, <1>13
  <2> HIDE DEF block, W
  <2> QED BY <1>13, <2>1
<1>14. Solves(piece, n, W, Open, step)
  <2> HIDE DEF W, step, n
  <2> QED BY <1>1, <1>3, <1>4, <1>11, <1>13, Recursive DEF Steps
<1>15. \A i \in 1..n : piece[i] = piece[i - 1] \o block[i]
  <2> HIDE DEF W, step, block, n
  <2>1. \A i \in 1..n : piece[i - 1] \in W
    BY <1>1, <1>14 DEF Solves
  <2> QED BY <1>12, <2>1
<1>16. block \in [1..n -> W]
  <2> HIDE DEF W, n
  <2>1. \A i \in 1..n : Block(t, i) \in W
    BY <1>2
  <2> QED BY <2>1
<1>17. Grows(piece, n, V, Open, block)
  <2> HIDE DEF block, n
  <2> QED BY <1>1, <1>3, <1>11, <1>15, <1>16 DEF Grows
<1>18. \A i \in 1..n : block[i] = Block(t, i)
  OBVIOUS
<1> HIDE DEF block
<1>19. Encodes(piece, t, V, block)
  BY <1>10, <1>17, <1>18 DEF Encodes
<1> QED BY <1>19

\* The characters of block i, in s.
Offset(f, i) == Len(f[i - 1]) + (IF Break(i) THEN 6 ELSE 0)

CodedAt(s, t, f, i) ==
  /\ Len(f[i - 1]) \in Nat /\ Len(f[i]) \in Nat /\ Len(f[i]) <= Len(s)
  /\ i <= Len(t) =>
       \/ t[i] \notin {Quote, Escape} /\ s[Offset(f, i) + 1] = t[i] /\ Len(f[i]) = Offset(f, i) + 1
       \/ /\ s[Offset(f, i) + 1] = Escape /\ s[Offset(f, i) + 2] = t[i]
          /\ Len(f[i]) = Offset(f, i) + 2
  /\ i = Len(t) + 1 =>
       s[Offset(f, i) + 1] = Quote /\ Len(f[i]) = Offset(f, i) + 1 /\ Len(s) = Len(f[i])

MarkedAt(s, f, i) ==
  Break(i) => LET m == Len(f[i - 1])
              IN  /\ s[m + 1] = Quote /\ s[m + 2] = Space /\ s[m + 3] = "-"
                  /\ s[m + 4] = "d" /\ s[m + 5] = Space /\ s[m + 6] = Quote

LEMMA CodedIs ==
  ASSUME NEW V, Alphabet(V), NEW t \in Seq(V), NEW i \in 1..(Len(t) + 1)
  PROVE  /\ Coded(t, i) \in Seq(V)
         /\ i <= Len(t) =>
              \/ /\ t[i] \notin {Quote, Escape} /\ Len(Coded(t, i)) = 1 /\ Coded(t, i)[1] = t[i]
              \/ /\ Len(Coded(t, i)) = 2 /\ Coded(t, i)[1] = Escape /\ Coded(t, i)[2] = t[i]
         /\ i = Len(t) + 1 => Len(Coded(t, i)) = 1 /\ Coded(t, i)[1] = Quote
<1>1. Coded(t, i) \in Seq(V)
  BY BlockTypes
<1>2. CASE i <= Len(t)
  <2>1. Coded(t, i) = EncodeChar(t[i]) /\ i # Len(t) + 1
    BY <1>2 DEF Coded
  <2> QED BY <1>1, <1>2, <2>1 DEF EncodeChar
<1>3. CASE i = Len(t) + 1
  <2>1. Coded(t, i) = <<Quote>> /\ ~(i <= Len(t))
    BY <1>3 DEF Coded
  <2> QED BY <1>1, <1>3, <2>1
<1>4. i <= Len(t) \/ i = Len(t) + 1
  OBVIOUS
<1> QED BY <1>2, <1>3, <1>4

LEMMA MarksIs ==
  ASSUME NEW V, Alphabet(V), NEW t \in Seq(V), NEW i \in 1..(Len(t) + 1)
  PROVE  /\ BreakMarks(i) \in Seq(V)
         /\ Len(BreakMarks(i)) = IF Break(i) THEN 6 ELSE 0
         /\ Break(i) =>
              /\ BreakMarks(i)[1] = Quote /\ BreakMarks(i)[2] = Space /\ BreakMarks(i)[3] = "-"
              /\ BreakMarks(i)[4] = "d" /\ BreakMarks(i)[5] = Space /\ BreakMarks(i)[6] = Quote
<1>1. BreakMarks(i) \in Seq(V)
  BY BlockTypes
<1>2. CASE Break(i)
  <2>1. BreakMarks(i) = <<Quote, Space, "-", "d", Space, Quote>>
    BY <1>2, Marks DEF BreakMarks
  <2> QED BY <1>1, <1>2, <2>1
<1>3. CASE ~Break(i)
  <2>1. BreakMarks(i) = <<>>
    BY <1>3 DEF BreakMarks
  <2> QED BY <1>1, <1>3, <2>1
<1> QED BY <1>2, <1>3

LEMMA BlockIs ==
  ASSUME NEW V, Alphabet(V), NEW t \in Seq(V), NEW i \in 1..(Len(t) + 1)
  PROVE  LET m == IF Break(i) THEN 6 ELSE 0
         IN  /\ Len(Block(t, i)) = m + Len(Coded(t, i)) /\ Len(Coded(t, i)) \in Nat
             /\ \A k \in 1..m : Block(t, i)[k] = BreakMarks(i)[k]
             /\ \A k \in 1..Len(Coded(t, i)) : Block(t, i)[m + k] = Coded(t, i)[k]
<1> DEFINE m == IF Break(i) THEN 6 ELSE 0
           x == BreakMarks(i)
           y == Coded(t, i)
<1>1. x \in Seq(V) /\ y \in Seq(V) /\ Len(x) = m
  BY CodedIs, MarksIs
<1>2. m \in Nat
  OBVIOUS
<1>3. Block(t, i) = x \o y
  BY DEF Block
<1> HIDE DEF x, y, m
<1>4. /\ Len(x \o y) = m + Len(y) /\ Len(y) \in Nat
      /\ \A k \in 1..(m + Len(y)) : (x \o y)[k] = IF k <= m THEN x[k] ELSE y[k - m]
  <2>1. /\ Len(x \o y) = Len(x) + Len(y) /\ Len(y) \in Nat
        /\ \A k \in 1..(Len(x) + Len(y)) : (x \o y)[k] = IF k <= Len(x) THEN x[k] ELSE y[k - Len(x)]
    <3>1. Len(y) \in Nat
      BY <1>1
    <3>2. /\ Len(x \o y) = Len(x) + Len(y)
          /\ \A k \in 1..(Len(x) + Len(y)) :
               (x \o y)[k] = IF k <= Len(x) THEN x[k] ELSE y[k - Len(x)]
      BY <1>1, ConcatProperties, Zenon
    <3> QED BY <3>1, <3>2
  <2> QED BY <1>1, <2>1
<1>5. \A k \in 1..m : (x \o y)[k] = x[k]
  BY <1>2, <1>4
<1>6. ASSUME NEW k \in 1..Len(y) PROVE (x \o y)[m + k] = y[k]
  <2>1. m + k \in 1..(m + Len(y)) /\ ~(m + k <= m) /\ (m + k) - m = k
    BY <1>2, <1>4
  <2>2. (x \o y)[m + k] = y[(m + k) - m]
    BY <1>4, <2>1
  <2> QED BY <2>1, <2>2
<1> QED BY <1>3, <1>4, <1>5, <1>6 DEF x, y, m

LEMMA EncodeIs ==
  ASSUME NEW V, Alphabet(V), NEW t \in Seq(V), NEW f, NEW block, Encodes(f, t, V, block),
         NEW i \in 1..(Len(t) + 1)
  PROVE  CodedAt(Encode(t), t, f, i) /\ MarkedAt(Encode(t), f, i)
<1> DEFINE n == Len(t) + 1
           s == Encode(t)
           b == Block(t, i)
           m == IF Break(i) THEN 6 ELSE 0
           h == Len(f[i - 1])
           c == Coded(t, i)
<1>0. i \in 1..n
  OBVIOUS
<1>1. Grows(f, n, V, Open, block) /\ block[i] = b /\ s = f[n]
  BY DEF Encodes
<1>2. /\ Len(f[i - 1]) \in Nat /\ Len(f[i]) \in Nat /\ Len(f[n]) \in Nat
      /\ Len(f[i]) = Len(f[i - 1]) + Len(block[i]) /\ Len(f[i]) <= Len(f[n])
      /\ \A k \in 1..Len(block[i]) : f[n][Len(f[i - 1]) + k] = block[i][k]
  <2> HIDE DEF n
  <2>1. Within(f, n, block, i)
    BY <1>0, <1>1, GrowsTo
  <2> QED BY <2>1 DEF Within
<1>3. /\ Len(b) = m + Len(c) /\ Len(c) \in Nat
      /\ \A k \in 1..m : b[k] = BreakMarks(i)[k]
      /\ \A k \in 1..Len(c) : b[m + k] = c[k]
  BY BlockIs
<1>4. m \in Nat /\ Offset(f, i) = h + m
  BY DEF Offset
<1> HIDE DEF s, b, c, n, m, h
<1>5. h \in Nat /\ Len(f[i]) = h + m + Len(c) /\ Len(f[i]) <= Len(s)
  <2>1. h \in Nat /\ Len(f[i]) = h + Len(b) /\ Len(f[i]) <= Len(s)
    BY <1>1, <1>2 DEF h
  <2>2. Len(b) = m + Len(c) /\ Len(c) \in Nat
    BY <1>3
  <2> QED BY <1>4, <2>1, <2>2
<1>6. \A k \in 1..(m + Len(c)) : s[h + k] = b[k]
  BY <1>1, <1>2, <1>3 DEF h
<1>7. \A k \in 1..m : s[h + k] = BreakMarks(i)[k]
  BY <1>3, <1>4, <1>6
<1>8. ASSUME NEW k \in 1..Len(c) PROVE s[h + m + k] = c[k]
  <2>1. m + k \in 1..(m + Len(c)) /\ h + (m + k) = h + m + k
    <3>1. h \in Nat /\ m \in Nat /\ Len(c) \in Nat
      BY <1>3, <1>4, <1>5
    <3> QED BY <3>1
  <2>2. s[h + (m + k)] = b[m + k]
    BY <1>6, <2>1
  <2> QED BY <1>3, <2>1, <2>2
<1>9. /\ i <= Len(t) =>
           \/ t[i] \notin {Quote, Escape} /\ Len(c) = 1 /\ c[1] = t[i]
           \/ Len(c) = 2 /\ c[1] = Escape /\ c[2] = t[i]
      /\ i = Len(t) + 1 => Len(c) = 1 /\ c[1] = Quote
  BY CodedIs DEF c
<1>10. /\ Len(c) = 1 => s[h + m + 1] = c[1]
       /\ Len(c) = 2 => s[h + m + 1] = c[1] /\ s[h + m + 2] = c[2]
  BY <1>8
<1>11. CodedAt(s, t, f, i)
  <2>1. i = Len(t) + 1 => Len(s) = Len(f[i])
    BY <1>1 DEF n
  <2> QED BY <1>2, <1>4, <1>5, <1>9, <1>10, <2>1 DEF CodedAt, h
<1>12. MarkedAt(s, f, i)
  <2>1. Break(i) => m = 6
    BY DEF m
  <2>2. Break(i) =>
          /\ BreakMarks(i)[1] = Quote /\ BreakMarks(i)[2] = Space /\ BreakMarks(i)[3] = "-"
          /\ BreakMarks(i)[4] = "d" /\ BreakMarks(i)[5] = Space /\ BreakMarks(i)[6] = Quote
    BY MarksIs
  <2>3. Break(i) => \A k \in 1..6 : s[h + k] = BreakMarks(i)[k]
    BY <1>7, <2>1
  <2>4. Break(i) => /\ s[h + 1] = Quote /\ s[h + 2] = Space /\ s[h + 3] = "-"
                    /\ s[h + 4] = "d" /\ s[h + 5] = Space /\ s[h + 6] = Quote
    BY <2>2, <2>3
  <2> QED BY <2>4 DEF MarkedAt, h
<1> QED BY <1>11, <1>12 DEF s

\* The positions e[b], ..., e[l] after the characters of a quoted piece of t, from
\* character b on up to its last character l, which fit the buffer.
Piece(s, t, b, l, e) ==
  /\ b \in Nat /\ l \in b..Len(t) /\ l - b <= MaxText
  /\ \A j \in b..l : e[j] \in Position /\ e[j] <= Len(s)
  /\ \A j \in (b + 1)..l :
       \/ t[j] \notin {Quote, Escape} /\ s[e[j - 1]] = t[j] /\ e[j] = e[j - 1] + 1
       \/ s[e[j - 1]] = Escape /\ s[e[j - 1] + 1] = t[j] /\ e[j] = e[j - 1] + 2
  /\ s[e[l]] = Quote

\* The pieces begin at positions a, and one follows another up to the end.
PieceAt(s, t, a, b) ==
  /\ a[b] \in Position
  /\ s[a[b]] = "-" /\ s[a[b] + 1] = "d" /\ s[a[b] + 2] = Space /\ s[a[b] + 3] = Quote
  /\ \E l, e :
       /\ Piece(s, t, b, l, e) /\ e[b] = a[b] + 4
       /\ \/ l = Len(t) /\ e[l] = Len(s)
          \/ /\ l > b /\ Break(l + 1)
             /\ e[l] + 2 = a[l] /\ s[e[l] + 1] = Space

Pieces(s, t, a) ==
  /\ Len(s) \in Nat /\ a[0] = 1
  /\ \A b \in 0..Len(t) : b = 0 \/ Break(b + 1) => PieceAt(s, t, a, b)

\* Character l is the last one of the piece that begins after character b.
LastOf(l, b, n) ==
  /\ l \in b..n /\ l - b <= MaxText
  /\ \A j \in (b + 2)..l : ~Break(j)
  /\ (l > b /\ Break(l + 1)) \/ (l = n /\ (l = b \/ ~Break(l + 1)))

LEMMA HasLast ==
  ASSUME NEW n \in Nat, NEW b \in 0..n, b = 0 \/ Break(b + 1)
  PROVE  \E l : LastOf(l, b, n)
<1> DEFINE U == {j \in (b + 1)..n : Break(j + 1)}
<1>0. MaxText \in Nat /\ MaxText > 0 /\ b \in Nat
  BY DarkboxAssumption
<1>1. Break(b + MaxText + 1)
  BY <1>0, BreakAgain
<1>2. b + MaxText <= n => b + MaxText \in U
  BY <1>0, <1>1
<1>3. CASE U = {}
  <2>0. \A j \in (b + 1)..n : ~Break(j + 1)
    BY <1>3
  <2>1. n - b <= MaxText
    BY <1>0, <1>1, <2>0
  <2>2. ASSUME NEW j \in (b + 2)..n PROVE ~Break(j)
    <3>1. j - 1 \in (b + 1)..n /\ (j - 1) + 1 = j
      BY <1>0
    <3> QED BY <2>0, <3>1
  <2>3. n = b \/ ~Break(n + 1)
    BY <1>0, <2>0
  <2>4. LastOf(n, b, n)
    BY <1>0, <2>1, <2>2, <2>3 DEF LastOf
  <2> QED BY <2>4
<1>4. CASE U # {}
  <2>1. U \subseteq Nat
    BY <1>0
  <2>2. PICK l \in U : \A k \in U : l <= k
    <3> HIDE DEF U
    <3> QED BY <1>4, <2>1, NatMin
  <2>3. l \in (b + 1)..n /\ Break(l + 1) /\ l > b /\ l \in b..n
    BY <1>0
  <2>4. l - b <= MaxText
    <3>1. b + MaxText <= n => l <= b + MaxText
      BY <1>2, <2>2
    <3> QED BY <1>0, <2>3, <3>1
  <2>5. ASSUME NEW j \in (b + 2)..l PROVE ~Break(j)
    <3>1. j - 1 \in (b + 1)..n /\ (j - 1) + 1 = j /\ ~(l <= j - 1)
      BY <1>0, <2>3
    <3>2. j - 1 \notin U
      <4> HIDE DEF U
      <4> QED BY <2>2, <3>1
    <3> QED BY <3>1, <3>2
  <2>6. LastOf(l, b, n)
    BY <2>3, <2>4, <2>5 DEF LastOf
  <2> QED BY <2>6
<1> QED BY <1>3, <1>4

Begins(f, t) == [b \in 0..Len(t) |-> IF b = 0 THEN 1 ELSE Len(f[b]) + 3]

\* Where the characters of the piece are.
Places(f, t, b, l) ==
  [j \in b..l |-> IF j = b THEN Begins(f, t)[b] + 4 ELSE Len(f[j]) + 1]

LEMMA PieceIs ==
  ASSUME NEW V, Alphabet(V), NEW t \in Seq(V), NEW f, NEW block, Encodes(f, t, V, block),
         NEW b \in 0..Len(t), b = 0 \/ Break(b + 1), NEW l, LastOf(l, b, Len(t)),
         NEW e, e = Places(f, t, b, l)
  PROVE  /\ Piece(Encode(t), t, b, l, e)
         /\ e[l] = IF l > b /\ Break(l + 1) THEN Len(f[l]) + 1 ELSE Offset(f, l + 1) + 1
<1> DEFINE n == Len(t)
           s == Encode(t)
<1>0. n \in Nat /\ b \in Nat /\ l \in b..n /\ l - b <= MaxText /\ l \in Nat
  BY DEF LastOf
<1>1. \A i \in 1..(n + 1) : CodedAt(s, t, f, i) /\ MarkedAt(s, f, i)
  BY EncodeIs
<1>2. Len(f[0]) = 4
  BY DEF Encodes, Grows, Open
<1> HIDE DEF n, s
\* The block of a character is behind the one before it.
<1>3. ASSUME NEW i \in 1..(n + 1)
      PROVE  /\ Len(f[i - 1]) \in Nat /\ Len(f[i]) \in Nat /\ Len(s) \in Nat
             /\ Offset(f, i) + 1 <= Len(f[i]) /\ Len(f[i]) <= Len(s)
             /\ Offset(f, i) = Len(f[i - 1]) + (IF Break(i) THEN 6 ELSE 0)
  <2>1. CodedAt(s, t, f, i)
    BY <1>1
  <2>2. Len(s) \in Nat
    <3>1. CodedAt(s, t, f, n + 1)
      BY <1>0, <1>1
    <3> QED BY <3>1 DEF CodedAt, n
  <2>3. i <= Len(t) \/ i = Len(t) + 1
    BY DEF n
  <2> DEFINE m == IF Break(i) THEN 6 ELSE 0
             o == Offset(f, i)
  <2>4. m \in Nat /\ o = Len(f[i - 1]) + m
    <3>1. m \in Nat
      OBVIOUS
    <3>2. o = Len(f[i - 1]) + m
      BY DEF Offset
    <3> QED BY <3>1, <3>2
  <2>5. /\ Len(f[i - 1]) \in Nat /\ Len(f[i]) \in Nat /\ Len(f[i]) <= Len(s)
        /\ Len(f[i]) = o + 1 \/ Len(f[i]) = o + 2
    <3> HIDE DEF m
    <3> QED BY <2>1, <2>3 DEF CodedAt
  <2> HIDE DEF o, m
  <2>6. o \in Nat
    BY <2>4, <2>5
  <2>7. o + 1 <= Len(f[i])
    BY <2>5, <2>6
  <2> QED BY <2>2, <2>4, <2>5, <2>7 DEF o, m
<1>4. Begins(f, t)[b] + 4 = Offset(f, b + 1) + 1
  <2>1. b + 1 \in 1..(n + 1) /\ (b + 1) - 1 = b /\ b \in 0..n
    BY <1>0
  <2>2. Len(f[b]) \in Nat /\ Offset(f, b + 1) = Len(f[b]) + (IF Break(b + 1) THEN 6 ELSE 0)
    BY <1>3, <2>1
  <2>3. Begins(f, t)[b] = IF b = 0 THEN 1 ELSE Len(f[b]) + 3
    BY <2>1 DEF Begins, n
  <2>4. CASE b = 0
    <3>1. ~Break(b + 1)
      BY <2>4 DEF Break
    <3>2. Begins(f, t)[b] = 1 /\ Len(f[b]) = 4
      BY <1>2, <2>3, <2>4
    <3> QED BY <2>2, <3>1, <3>2
  <2>5. CASE b # 0
    <3>1. Break(b + 1) /\ Begins(f, t)[b] = Len(f[b]) + 3
      BY <2>3, <2>5
    <3> QED BY <2>2, <3>1
  <2> QED BY <2>4, <2>5
\* The place behind character j is where the next one is.
<1>5. ASSUME NEW j \in b..l
      PROVE  /\ j + 1 \in 1..(n + 1) /\ (j + 1) - 1 = j
             /\ e[j] = IF j = b THEN Offset(f, j + 1) + 1 ELSE Len(f[j]) + 1
             /\ e[j] \in Position /\ e[j] <= Len(s)
  <2>1. j + 1 \in 1..(n + 1) /\ (j + 1) - 1 = j
    BY <1>0
  <2>2. e[j] = IF j = b THEN Begins(f, t)[b] + 4 ELSE Len(f[j]) + 1
    BY DEF Places
  <2>3. e[j] = IF j = b THEN Offset(f, j + 1) + 1 ELSE Len(f[j]) + 1
    BY <1>4, <2>2
  <2> DEFINE i == j + 1
             h == Len(f[i - 1])
             o == Offset(f, i)
  <2>4. /\ h \in Nat /\ Len(f[i]) \in Nat /\ Len(s) \in Nat
        /\ o + 1 <= Len(f[i]) /\ Len(f[i]) <= Len(s)
        /\ o = h + (IF Break(i) THEN 6 ELSE 0)
    BY <1>3, <2>1
  <2>5. o \in Nat /\ h <= o
    <3> HIDE DEF i, h, o
    <3>1. o = h \/ o = h + 6
      BY <2>4
    <3> QED BY <2>4, <3>1
  <2>6. Len(f[j]) = h
    BY <2>1
  <2>7. e[j] = o + 1 \/ e[j] = h + 1
    BY <2>3, <2>6
  <2> HIDE DEF i, h, o
  <2>8. e[j] \in Nat /\ e[j] > 0 /\ e[j] <= Len(s)
    <3>1. o + 1 <= Len(f[i]) /\ Len(f[i]) <= Len(s) /\ h \in Nat /\ Len(f[i]) \in Nat /\ Len(s) \in Nat
      BY <2>4
    <3>2. \A x, y, z, u \in Nat : x <= y /\ y + 1 <= z /\ z <= u => x + 1 <= u /\ y + 1 <= u
      OBVIOUS
    <3>3. o + 1 <= Len(s) /\ h + 1 <= Len(s)
      BY <2>5, <3>1, <3>2
    <3> QED BY <2>5, <2>7, <3>1, <3>3
  <2> QED BY <2>1, <2>3, <2>8 DEF Position
<1>6. ASSUME NEW j \in (b + 1)..l
      PROVE  \/ t[j] \notin {Quote, Escape} /\ s[e[j - 1]] = t[j] /\ e[j] = e[j - 1] + 1
             \/ s[e[j - 1]] = Escape /\ s[e[j - 1] + 1] = t[j] /\ e[j] = e[j - 1] + 2
  <2>1. j \in 1..(n + 1) /\ j <= Len(t) /\ j \in b..l /\ j - 1 \in b..l /\ (j - 1) + 1 = j /\ j # b
    BY <1>0 DEF n
  <2>2. e[j] = Len(f[j]) + 1
    BY <1>5, <2>1
  <2>3. e[j - 1] = Offset(f, j) + 1
    <3>1. e[j - 1] = IF j - 1 = b THEN Offset(f, j) + 1 ELSE Len(f[j - 1]) + 1
      BY <1>5, <2>1
    <3>2. CASE j - 1 = b
      BY <3>1, <3>2
    <3>3. CASE j - 1 # b
      <4>1. j \in (b + 2)..l
        BY <1>0, <3>3
      <4>2. ~Break(j)
        BY <4>1 DEF LastOf
      <4>3. Len(f[j - 1]) \in Nat /\ Offset(f, j) = Len(f[j - 1]) + (IF Break(j) THEN 6 ELSE 0)
        BY <1>3, <2>1
      <4> QED BY <3>1, <3>3, <4>2, <4>3
    <3> QED BY <3>2, <3>3
  <2> DEFINE o == Offset(f, j)
  <2>4. o \in Nat
    <3> DEFINE m == IF Break(j) THEN 6 ELSE 0
    <3>1. Len(f[j - 1]) \in Nat /\ o = Len(f[j - 1]) + m
      BY <1>3, <2>1
    <3>2. m \in Nat
      OBVIOUS
    <3> HIDE DEF m, o
    <3> QED BY <3>1, <3>2
  <2>5. \/ t[j] \notin {Quote, Escape} /\ s[o + 1] = t[j] /\ Len(f[j]) = o + 1
        \/ s[o + 1] = Escape /\ s[o + 2] = t[j] /\ Len(f[j]) = o + 2
    <3>1. CodedAt(s, t, f, j)
      BY <1>1, <2>1
    <3> HIDE DEF s
    <3> QED BY <2>1, <3>1 DEF CodedAt
  <2>6. e[j - 1] = o + 1
    BY <2>3
  <2> HIDE DEF o, s
  <2>7. CASE t[j] \notin {Quote, Escape} /\ s[o + 1] = t[j] /\ Len(f[j]) = o + 1
    BY <2>2, <2>4, <2>6, <2>7
  <2>8. CASE s[o + 1] = Escape /\ s[o + 2] = t[j] /\ Len(f[j]) = o + 2
    <3>1. e[j - 1] + 1 = o + 2 /\ e[j] = e[j - 1] + 2
      BY <2>2, <2>4, <2>6, <2>8
    <3> QED BY <2>6, <2>8, <3>1
  <2> QED BY <2>5, <2>7, <2>8
<1>7. e[l] = IF l > b /\ Break(l + 1) THEN Len(f[l]) + 1 ELSE Offset(f, l + 1) + 1
  <2>1. l \in b..l /\ l + 1 \in 1..(n + 1) /\ (l + 1) - 1 = l
    BY <1>0
  <2>2. e[l] = IF l = b THEN Offset(f, l + 1) + 1 ELSE Len(f[l]) + 1
    BY <1>5, <2>1
  <2>3. Len(f[l]) \in Nat /\ Offset(f, l + 1) = Len(f[l]) + (IF Break(l + 1) THEN 6 ELSE 0)
    BY <1>3, <2>1
  <2>4. CASE l = b
    BY <1>0, <2>2, <2>4
  <2>5. CASE l # b /\ Break(l + 1)
    BY <1>0, <2>2, <2>5
  <2>6. CASE l # b /\ ~Break(l + 1)
    <3>1. Offset(f, l + 1) = Len(f[l]) + 0
      BY <2>3, <2>6
    <3>2. e[l] = Len(f[l]) + 1
      BY <2>2, <2>6
    <3> QED BY <2>3, <2>6, <3>1, <3>2
  <2> QED BY <2>4, <2>5, <2>6
<1>8. s[e[l]] = Quote
  <2>1. l + 1 \in 1..(n + 1) /\ (l + 1) - 1 = l
    BY <1>0
  <2>2. CASE l > b /\ Break(l + 1)
    <3>1. MarkedAt(s, f, l + 1) /\ e[l] = Len(f[l]) + 1
      BY <1>1, <1>7, <2>1, <2>2
    <3> QED BY <2>1, <2>2, <3>1 DEF MarkedAt
  <2>3. CASE l = n /\ ~(l > b /\ Break(l + 1))
    <3>1. CodedAt(s, t, f, l + 1) /\ l + 1 = Len(t) + 1 /\ e[l] = Offset(f, l + 1) + 1
      BY <1>1, <1>7, <2>1, <2>3 DEF n
    <3>2. s[Offset(f, l + 1) + 1] = Quote
      BY <3>1 DEF CodedAt
    <3> QED BY <3>1, <3>2
  <2>4. (l > b /\ Break(l + 1)) \/ l = n
    BY DEF LastOf, n
  <2> QED BY <2>2, <2>3, <2>4
<1> QED BY <1>0, <1>5, <1>6, <1>7, <1>8 DEF Piece, n, s

\* What the encoder makes of a text is a series of pieces.
LEMMA EncodePieces ==
  ASSUME NEW V, Alphabet(V), NEW t \in Seq(V)
  PROVE  \E a : Pieces(Encode(t), t, a)
<1>1. PICK f, block : Encodes(f, t, V, block)
  BY EncodeGrows
<1> DEFINE n == Len(t)
           s == Encode(t)
           a == Begins(f, t)
<1>2. n \in Nat /\ \A i \in 1..(n + 1) : CodedAt(s, t, f, i) /\ MarkedAt(s, f, i)
  BY <1>1, EncodeIs
<1>3. /\ Len(f[0]) = 4
      /\ f[0][1] = "-" /\ f[0][2] = "d" /\ f[0][3] = Space /\ f[0][4] = Quote
  BY <1>1 DEF Encodes, Grows, Open
<1>4. s[1] = "-" /\ s[2] = "d" /\ s[3] = Space /\ s[4] = Quote
  <2>1. Grows(f, n + 1, V, Open, block) /\ s = f[n + 1]
    BY <1>1 DEF Encodes
  <2>2. 0 \in 0..(n + 1)
    BY <1>2
  <2>3. \A k \in 1..Len(f[0]) : f[n + 1][k] = f[0][k]
    <3> HIDE DEF n
    <3> QED BY <2>1, <2>2, GrowsKeeps
  <2> HIDE DEF s
  <2>4. s[1] = f[0][1] /\ s[2] = f[0][2] /\ s[3] = f[0][3] /\ s[4] = f[0][4]
    BY <1>3, <2>1, <2>3
  <2> QED BY <1>3, <2>4
<1>5. \A b \in 0..n : a[b] = IF b = 0 THEN 1 ELSE Len(f[b]) + 3
  BY DEF Begins
<1> HIDE DEF n, s, a
<1>6. Len(s) \in Nat
  BY <1>2 DEF CodedAt, n
<1>7. ASSUME NEW b \in 0..n, b = 0 \/ Break(b + 1) PROVE PieceAt(s, t, a, b)
  <2>1. b + 1 \in 1..(n + 1) /\ (b + 1) - 1 = b /\ b \in Nat /\ Len(f[b]) \in Nat
    <3>1. b + 1 \in 1..(n + 1) /\ (b + 1) - 1 = b /\ b \in Nat
      BY <1>2
    <3> QED BY <1>2, <3>1 DEF CodedAt
  <2>2. /\ a[b] \in Position
        /\ s[a[b]] = "-" /\ s[a[b] + 1] = "d" /\ s[a[b] + 2] = Space /\ s[a[b] + 3] = Quote
    <3>1. CASE b = 0
      <4>1. a[b] = 1
        BY <1>5, <3>1
      <4> QED BY <1>4, <4>1 DEF Position
    <3>2. CASE b # 0
      <4> DEFINE m == Len(f[b])
      <4>1. a[b] = m + 3
        BY <1>5, <3>2
      <4>2. /\ s[m + 3] = "-" /\ s[m + 4] = "d" /\ s[m + 5] = Space /\ s[m + 6] = Quote
        <5>1. MarkedAt(s, f, b + 1) /\ Break(b + 1)
          BY <1>2, <1>7, <2>1, <3>2
        <5> QED BY <2>1, <5>1 DEF MarkedAt
      <4>3. m \in Nat
        BY <2>1
      <4> HIDE DEF m
      <4>4. a[b] \in Position /\ a[b] + 1 = m + 4 /\ a[b] + 2 = m + 5 /\ a[b] + 3 = m + 6
        BY <4>1, <4>3 DEF Position
      <4> QED BY <4>1, <4>2, <4>4
    <3> QED BY <3>1, <3>2
  <2>3. PICK l : LastOf(l, b, n)
    BY <1>2, <1>7, HasLast
  <2> DEFINE e == Places(f, t, b, l)
  <2>4. /\ Piece(s, t, b, l, e)
        /\ e[l] = IF l > b /\ Break(l + 1) THEN Len(f[l]) + 1 ELSE Offset(f, l + 1) + 1
    <3>1. LastOf(l, b, Len(t)) /\ b \in 0..Len(t)
      BY <2>3 DEF n
    <3> QED BY <1>1, <1>7, <3>1, PieceIs DEF s
  <2>5. l \in b..n /\ e[b] = a[b] + 4
    <3>1. l \in b..n
      BY <2>3 DEF LastOf
    <3>2. b \in b..l
      BY <2>1, <3>1
    <3> QED BY <3>1, <3>2 DEF Places, a
  <2> HIDE DEF e
  <2>6. l + 1 \in 1..(n + 1) /\ (l + 1) - 1 = l /\ l \in 0..n
    BY <1>2, <2>1, <2>5
  <2>7. CASE l > b /\ Break(l + 1)
    <3>1. e[l] = Len(f[l]) + 1 /\ Len(f[l]) \in Nat
      BY <1>2, <2>4, <2>6, <2>7 DEF CodedAt
    <3>2. a[l] = Len(f[l]) + 3
      BY <1>5, <2>1, <2>6, <2>7
    <3>3. s[Len(f[l]) + 2] = Space
      <4>1. MarkedAt(s, f, l + 1)
        BY <1>2, <2>6
      <4> QED BY <2>6, <2>7, <4>1 DEF MarkedAt
    <3>4. e[l] + 2 = a[l] /\ e[l] + 1 = Len(f[l]) + 2
      BY <3>1, <3>2
    <3> QED BY <2>2, <2>4, <2>5, <2>7, <3>3, <3>4 DEF PieceAt
  <2>8. CASE l = n /\ ~(l > b /\ Break(l + 1))
    <3>1. CodedAt(s, t, f, l + 1) /\ l + 1 = Len(t) + 1 /\ e[l] = Offset(f, l + 1) + 1
      BY <1>2, <2>4, <2>6, <2>8 DEF n
    <3>2. e[l] = Len(s) /\ l = Len(t)
      <4>1. Len(f[l + 1]) = Offset(f, l + 1) + 1 /\ Len(s) = Len(f[l + 1])
        BY <3>1 DEF CodedAt
      <4> QED BY <2>8, <3>1, <4>1 DEF n
    <3> QED BY <2>2, <2>4, <2>5, <3>2 DEF PieceAt
  <2>9. (l > b /\ Break(l + 1)) \/ l = n
    BY <2>3 DEF LastOf
  <2> QED BY <2>7, <2>8, <2>9
<1>8. a[0] = 1
  BY <1>2, <1>5
<1>9. Pieces(s, t, a)
  BY <1>6, <1>7, <1>8 DEF Pieces, n
<1> QED BY <1>9 DEF s

\* f[room][k] is what a loop reads of a quoted text from position k on, with room
\* for so many characters.
Follows(r, c, q) == r.text = <<c>> \o q.text /\ r.next = q.next

Stops(r, k) == r.text = <<>> /\ r.next = k + 1

Quoted(f, max) ==
  \A room \in 0..max, k \in Position :
    k <= Len(in) =>
      /\ in[k] = Quote => Stops(f[room][k], k)
      /\ room > 0 =>
           /\ in[k] \notin {Quote, Escape} => Follows(f[room][k], in[k], f[room - 1][k + 1])
           /\ k < Len(in) /\ in[k] = Escape =>
                Follows(f[room][k], in[k + 1], f[room - 1][k + 2])

\* r has read characters b + 1 to l of text t.
Shown(r, V, t, b, l, next) ==
  /\ r.text \in Seq(V) /\ Len(r.text) = l - b
  /\ \A i \in 1..(l - b) : r.text[i] = t[b + i]
  /\ r.next = next

LEMMA ShownOneMore ==
  ASSUME NEW V, NEW t \in Seq(V), NEW l \in 0..Len(t), NEW j \in 1..l, NEW q, NEW next,
         Shown(q, V, t, j, l, next), NEW r, Follows(r, t[j], q)
  PROVE  Shown(r, V, t, j - 1, l, next)
<1> DEFINE x == <<t[j]>>
           y == q.text
<1>1. Len(t) \in Nat /\ j \in Int /\ l \in Int /\ j <= l /\ 1 <= j /\ t[j] \in V
  OBVIOUS
<1>2. x \in Seq(V) /\ Len(x) = 1 /\ x[1] = t[j]
  BY <1>1
<1>3. y \in Seq(V) /\ Len(y) = l - j /\ (\A i \in 1..(l - j) : y[i] = t[j + i]) /\ q.next = next
  BY DEF Shown
<1>4. r.text = x \o y /\ r.next = next
  BY <1>3 DEF Follows
<1> HIDE DEF x, y
<1>5. /\ x \o y \in Seq(V) /\ Len(x \o y) = 1 + (l - j)
      /\ \A i \in 1..(1 + (l - j)) : (x \o y)[i] = IF i <= 1 THEN x[i] ELSE y[i - 1]
  <2>1. /\ x \o y \in Seq(V) /\ Len(x \o y) = Len(x) + Len(y)
        /\ \A i \in 1..(Len(x) + Len(y)) :
             (x \o y)[i] = IF i <= Len(x) THEN x[i] ELSE y[i - Len(x)]
    BY <1>2, <1>3, ConcatProperties
  <2> QED BY <1>2, <1>3, <2>1
<1>6. ASSUME NEW i \in 1..(l - (j - 1)) PROVE (x \o y)[i] = t[(j - 1) + i]
  <2>1. (x \o y)[i] = IF i <= 1 THEN x[i] ELSE y[i - 1]
    BY <1>1, <1>5
  <2>2. CASE i = 1
    BY <1>1, <1>2, <2>1, <2>2
  <2>3. CASE i # 1
    <3>1. i - 1 \in 1..(l - j) /\ j + (i - 1) = (j - 1) + i
      BY <1>1, <2>3
    <3>2. y[i - 1] = t[j + (i - 1)]
      BY <1>3, <3>1
    <3>3. (x \o y)[i] = y[i - 1]
      BY <2>1, <2>3
    <3> QED BY <3>1, <3>2, <3>3
  <2> QED BY <2>2, <2>3
<1>7. 1 + (l - j) = l - (j - 1)
  BY <1>1
<1> QED BY <1>4, <1>5, <1>6, <1>7 DEF Shown

LEMMA ReadsPiece ==
  ASSUME NEW V, NEW t \in Seq(V), Len(in) \in Nat, NEW b, NEW l, NEW e,
         Piece(in, t, b, l, e), NEW f, NEW max \in Nat, l - b <= max, Quoted(f, max)
  PROVE  Shown(f[max][e[b]], V, t, b, l, e[l] + 1)
<1> DEFINE End == e[l] + 1
           S == {d \in 0..(l - b) :
                   \A room \in d..max : Shown(f[room][e[l - d]], V, t, l - d, l, End)}
<1>0. /\ b \in Nat /\ l \in b..Len(t) /\ Len(t) \in Nat
      /\ \A j \in b..l : e[j] \in Position /\ e[j] <= Len(in)
      /\ in[e[l]] = Quote
  BY DEF Piece
<1>1. 0 \in S
  <2>1. ASSUME NEW room \in 0..max PROVE Shown(f[room][e[l]], V, t, l, l, End)
    <3>1. e[l] \in Position /\ e[l] <= Len(in)
      BY <1>0
    <3>2. f[room][e[l]].text = <<>> /\ f[room][e[l]].next = e[l] + 1
      BY <1>0, <3>1 DEF Quoted, Stops
    <3>3. <<>> \in Seq(V) /\ Len(<<>>) = 0 /\ l - l = 0 /\ \A i \in 1..0 : FALSE
      BY <1>0
    <3> QED BY <3>2, <3>3 DEF Shown
  <2>2. l - 0 = l /\ 0 \in 0..(l - b)
    BY <1>0
  <2> QED BY <2>1, <2>2
<1>2. ASSUME NEW d \in 1..(l - b), d - 1 \in S PROVE d \in S
  <2> DEFINE j == l - (d - 1)
  <2>1. j \in (b + 1)..l /\ j \in 1..l /\ j \in b..l /\ j - 1 \in b..l /\ j - 1 = l - d /\ l \in 0..Len(t)
    BY <1>0
  <2>2. ASSUME NEW room \in d..max PROVE Shown(f[room][e[j - 1]], V, t, j - 1, l, End)
    <3> DEFINE k == e[j - 1]
    <3>1. room - 1 \in (d - 1)..max /\ room \in 0..max /\ room > 0
      BY <1>0
    <3>2. Shown(f[room - 1][e[j]], V, t, j, l, End)
      BY <1>2, <3>1
    <3>3. k \in Position /\ k <= Len(in) /\ e[j] \in Position /\ e[j] <= Len(in)
      <4> HIDE DEF j
      <4> QED BY <1>0, <2>1
    <3> HIDE DEF j, k, End
    <3>4. \/ t[j] \notin {Quote, Escape} /\ in[k] = t[j] /\ e[j] = k + 1
          \/ in[k] = Escape /\ in[k + 1] = t[j] /\ e[j] = k + 2
      BY <2>1 DEF Piece, k
    <3>5. Follows(f[room][k], t[j], f[room - 1][e[j]])
      <4>1. CASE t[j] \notin {Quote, Escape} /\ in[k] = t[j] /\ e[j] = k + 1
        <5>1. Follows(f[room][k], in[k], f[room - 1][k + 1])
          BY <3>1, <3>3, <4>1 DEF Quoted
        <5> QED BY <4>1, <5>1
      <4>2. CASE in[k] = Escape /\ in[k + 1] = t[j] /\ e[j] = k + 2
        <5>1. k < Len(in)
          BY <3>3, <4>2 DEF Position
        <5>2. Follows(f[room][k], in[k + 1], f[room - 1][k + 2])
          BY <3>1, <3>3, <4>2, <5>1 DEF Quoted
        <5> QED BY <4>2, <5>2
      <4> QED BY <3>4, <4>1, <4>2
    <3>6. Shown(f[room][k], V, t, j - 1, l, End)
      BY <2>1, <3>2, <3>5, ShownOneMore
    <3> QED BY <3>6 DEF k
  <2>3. \A room \in d..max : Shown(f[room][e[l - d]], V, t, l - d, l, End)
    <3> HIDE DEF j, End
    <3> QED BY <2>1, <2>2
  <2> QED BY <2>3
<1>3. l - b \in S
  <2>1. l - b \in Nat /\ l - b \in 0..(l - b)
    BY <1>0
  <2> HIDE DEF S
  <2> QED BY <1>1, <1>2, <2>1, UpTo
<1>4. l - (l - b) = b /\ max \in (l - b)..max
  BY <1>0
<1> QED BY <1>3, <1>4

-----------------------------------------------------------------------------
(* darkbox reads the pieces back.                                          *)

LEMMA Distinct ==
  /\ Quote # Escape /\ Quote \notin Spaces /\ Escape \notin Spaces /\ Space \in Spaces
  /\ Quote # Eof /\ "-" # Escape /\ "-" # Quote /\ "d" # Escape
  /\ "-" \notin Spaces /\ "d" \notin Spaces /\ Space # "-" /\ Quote # "-" /\ Eof # "-"
  /\ Eof # Escape /\ Eof # NewLine /\ Eof # "/"
BY Zenon DEF Quote, Escape, Spaces, Space, NewLine, Eof

\* What a turn of the loop makes of the character at position k.
LEMMA LongerAt ==
  ASSUME NEW quoted, NEW g, NEW k \in Position
  PROVE  /\ Stops(Shorter[k], k)
         /\ Chr(k) \in Ends(quoted) => Stops(Longer(quoted, g)[k], k)
         /\ Chr(k) \notin Ends(quoted) =>
              /\ Chr(k) # Escape => Follows(Longer(quoted, g)[k], Chr(k), g[k + 1])
              /\ Chr(k) = Escape => Follows(Longer(quoted, g)[k], Chr(k + 1), g[k + 2])
<1> DEFINE r == Longer(quoted, g)[k]
           c == IF Chr(k) = Escape THEN k + 1 ELSE k
<1>1. Stops(Shorter[k], k)
  <2> DEFINE s == Shorter[k]
  <2>1. s = [text |-> <<>>, next |-> k + 1]
    BY DEF Shorter
  <2> HIDE DEF s
  <2>2. Stops(s, k)
    BY <2>1 DEF Stops
  <2> QED BY <2>2 DEF s
<1>2. r = IF Chr(k) \in Ends(quoted)
          THEN [text |-> <<>>, next |-> k + 1]
          ELSE [text |-> <<Chr(c)>> \o g[c + 1].text, next |-> g[c + 1].next]
  BY Zenon DEF Longer
<1>3. k + 1 + 1 = k + 2
  BY DEF Position
<1>4. CASE Chr(k) \in Ends(quoted)
  <2>1. r = [text |-> <<>>, next |-> k + 1]
    BY <1>2, <1>4
  <2> HIDE DEF r
  <2>2. Stops(r, k)
    BY <2>1 DEF Stops
  <2> QED BY <1>1, <1>4, <2>2 DEF r
<1>5. CASE Chr(k) \notin Ends(quoted) /\ Chr(k) # Escape
  <2>1. r = [text |-> <<Chr(k)>> \o g[k + 1].text, next |-> g[k + 1].next]
    BY <1>2, <1>5
  <2> HIDE DEF r
  <2>2. Follows(r, Chr(k), g[k + 1])
    BY <2>1 DEF Follows
  <2> QED BY <1>1, <1>5, <2>2 DEF r
<1>6. CASE Chr(k) \notin Ends(quoted) /\ Chr(k) = Escape
  <2>1. r = [text |-> <<Chr(k + 1)>> \o g[k + 2].text, next |-> g[k + 2].next]
    BY <1>2, <1>3, <1>6
  <2> HIDE DEF r
  <2>2. Follows(r, Chr(k + 1), g[k + 2])
    BY <2>1 DEF Follows
  <2> QED BY <1>1, <1>6, <2>2 DEF r
<1> QED BY <1>4, <1>5, <1>6

LEMMA ScanQuoted ==
  ASSUME Len(in) \in Nat, NEW start \in Position, NEW max \in Nat
  PROVE  \E f : Quoted(f, max) /\ Scan(TRUE, start, max) = f[max][start]
<1>1. PICK f : Scans(TRUE, f, max) /\ Scan(TRUE, start, max) = f[max][start]
  BY ScanSolved
<1>2. ASSUME NEW room \in 0..max, NEW k \in Position, k <= Len(in)
      PROVE  /\ in[k] = Quote => Stops(f[room][k], k)
             /\ room > 0 =>
                  /\ in[k] \notin {Quote, Escape} =>
                       Follows(f[room][k], in[k], f[room - 1][k + 1])
                  /\ k < Len(in) /\ in[k] = Escape =>
                       Follows(f[room][k], in[k + 1], f[room - 1][k + 2])
  <2>1. /\ room = 0 => f[room] = Shorter
        /\ room > 0 => f[room] = Longer(TRUE, f[room - 1])
    BY <1>1 DEF Scans
  <2>2. Chr(k) = in[k] /\ (k < Len(in) => Chr(k + 1) = in[k + 1])
    <3>1. k < Len(in) => k + 1 <= Len(in)
      BY DEF Position
    <3> QED BY <1>2, <3>1 DEF Chr
  <2>3. Ends(TRUE) = {Quote}
    BY DEF Ends
  <2>4. ASSUME in[k] = Quote PROVE Stops(f[room][k], k)
    <3>1. Chr(k) \in Ends(TRUE)
      BY <2>2, <2>3, <2>4
    <3>2. CASE room = 0
      <4>1. Stops(Shorter[k], k)
        BY LongerAt
      <4> QED BY <2>1, <3>2, <4>1
    <3>3. CASE room > 0
      <4> DEFINE g == f[room - 1]
      <4>1. Stops(Longer(TRUE, g)[k], k)
        BY <3>1, LongerAt
      <4> QED BY <2>1, <3>3, <4>1
    <3> QED BY <3>2, <3>3
  <2>5. ASSUME room > 0, in[k] \notin {Quote, Escape}
        PROVE  Follows(f[room][k], in[k], f[room - 1][k + 1])
    <3>1. Follows(Longer(TRUE, f[room - 1])[k], Chr(k), f[room - 1][k + 1])
      BY <2>2, <2>3, <2>5, LongerAt
    <3> QED BY <2>1, <2>2, <2>5, <3>1
  <2>6. ASSUME room > 0, k < Len(in), in[k] = Escape
        PROVE  Follows(f[room][k], in[k + 1], f[room - 1][k + 2])
    <3>1. Follows(Longer(TRUE, f[room - 1])[k], Chr(k + 1), f[room - 1][k + 2])
      BY <2>2, <2>3, <2>6, Distinct, LongerAt
    <3> QED BY <2>1, <2>2, <2>6, <3>1
  <2> QED BY <2>4, <2>5, <2>6
<1>3. Quoted(f, max)
  BY <1>2 DEF Quoted
<1> QED BY <1>1, <1>3

\* One space at most is skipped in front of a word.
LEMMA SkipSpacesTo ==
  ASSUME Len(in) \in Nat, NEW i \in Position, NEW j,
         j = i \/ (j = i + 1 /\ i <= Len(in) /\ Chr(i) \in Spaces), Chr(j) \notin Spaces
  PROVE  SkipSpaces(i) = j
<1> DEFINE First(x) == Chr(x) \notin Spaces /\ \A k \in i..(x - 1) : Chr(k) \in Spaces
<1>0. i \in Nat /\ i > 0 /\ j \in i..(Len(in) + i)
  BY DEF Position
<1>1. First(j)
  BY <1>0
<1>2. ASSUME NEW x \in i..(Len(in) + i), First(x) PROVE x = j
  <2>1. ~(x < j)
    <3>1. x < j => x = i /\ j = i + 1
      BY <1>0
    <3> QED BY <1>2, <3>1
  <2>2. ~(j < x)
    <3>1. j < x => j \in i..(x - 1)
      BY <1>0
    <3> QED BY <1>2, <3>1
  <2> QED BY <1>0, <2>1, <2>2
<1>3. SkipSpaces(i) = CHOOSE x \in i..(Len(in) + i) : First(x)
  BY DEF SkipSpaces
<1> HIDE DEF First
<1> QED BY <1>0, <1>1, <1>2, <1>3

\* The command in front of a piece, after a space at most.
CommandAt(j) ==
  /\ j \in Position /\ j + 3 <= Len(in)
  /\ in[j] = "-" /\ in[j + 1] = "d" /\ in[j + 2] = Space /\ in[j + 3] = Quote

LEMMA CommandChars ==
  ASSUME Len(in) \in Nat, NEW j, CommandAt(j)
  PROVE  /\ Chr(j) = "-" /\ Chr(j + 1) = "d" /\ Chr(j + 2) = Space /\ Chr(j + 3) = Quote
         /\ j \in Position /\ j + 1 \in Position /\ j + 2 \in Position /\ j + 3 \in Position
         /\ j + 4 \in Position
BY DEF CommandAt, Chr, Position

LEMMA ReadsCommand ==
  ASSUME Len(in) \in Nat, at \in Position, NEW j, CommandAt(j),
         j = at \/ (j = at + 1 /\ at <= Len(in) /\ Chr(at) = Space)
  PROVE  /\ ReadString(MaxCommand).text = <<"-", "d">>
         /\ ReadString(MaxCommand).next = j + 3
<1> DEFINE M == MaxCommand
<1>0. M \in Nat /\ M > 1
  BY DarkboxAssumption, TextAssumption
<1>1. /\ Chr(j) = "-" /\ Chr(j + 1) = "d" /\ Chr(j + 2) = Space
      /\ j \in Position /\ j + 1 \in Position /\ j + 2 \in Position
  BY CommandChars
<1>2. SkipSpaces(at) = j
  BY <1>1, Distinct, SkipSpacesTo
<1>3. ReadString(M) = Scan(FALSE, j, M)
  BY <1>1, <1>2, Distinct DEF ReadString
<1>4. PICK f : Scans(FALSE, f, M) /\ Scan(FALSE, j, M) = f[M][j]
  BY <1>0, <1>1, ScanSolved
<1>5. Ends(FALSE) = Spaces
  BY DEF Ends
<1> HIDE DEF M
<1>6. /\ f[M] = Longer(FALSE, f[M - 1]) /\ f[M - 1] = Longer(FALSE, f[M - 2])
      /\ f[M - 2] = IF M - 2 = 0 THEN Shorter ELSE Longer(FALSE, f[M - 3])
  <2>1. /\ M \in 0..M /\ M - 1 \in 0..M /\ M - 2 \in 0..M /\ M # 0 /\ M - 1 # 0
        /\ (M - 1) - 1 = M - 2 /\ (M - 2) - 1 = M - 3
    BY <1>0
  <2> QED BY <1>4, <2>1 DEF Scans
<1>7. f[M - 2][j + 2].text = <<>> /\ f[M - 2][j + 2].next = j + 3
  <2>1. j + 2 + 1 = j + 3
    BY <1>1 DEF Position
  <2>2. Chr(j + 2) \in Ends(FALSE)
    BY <1>1, <1>5, Distinct
  <2>3. CASE M - 2 = 0
    <3>1. Stops(Shorter[j + 2], j + 2)
      BY <1>1, LongerAt
    <3> QED BY <1>6, <2>1, <2>3, <3>1 DEF Stops
  <2>4. CASE M - 2 # 0
    <3> DEFINE g == f[M - 3]
    <3>1. Stops(Longer(FALSE, g)[j + 2], j + 2)
      BY <1>1, <2>2, LongerAt
    <3> QED BY <1>6, <2>1, <2>4, <3>1 DEF Stops
  <2> QED BY <2>3, <2>4
<1>8. Follows(f[M - 1][j + 1], "d", f[M - 2][j + 2])
  <2>1. j + 1 + 1 = j + 2
    BY <1>1 DEF Position
  <2>2. Chr(j + 1) \notin Ends(FALSE) /\ Chr(j + 1) # Escape
    BY <1>1, <1>5, Distinct
  <2>3. Follows(Longer(FALSE, f[M - 2])[j + 1], Chr(j + 1), f[M - 2][j + 1 + 1])
    BY <1>1, <2>2, LongerAt
  <2> QED BY <1>1, <1>6, <2>1, <2>3
<1>9. Follows(f[M][j], "-", f[M - 1][j + 1])
  <2>1. Chr(j) \notin Ends(FALSE) /\ Chr(j) # Escape
    BY <1>1, <1>5, Distinct
  <2>2. Follows(Longer(FALSE, f[M - 1])[j], Chr(j), f[M - 1][j + 1])
    BY <1>1, <2>1, LongerAt
  <2> QED BY <1>1, <1>6, <2>2
<1>10. <<"-">> \o (<<"d">> \o <<>>) = <<"-", "d">>
  <2>1. <<"d">> \o <<>> = <<"d">>
    OBVIOUS
  <2>2. <<"-">> \o <<"d">> = <<"-", "d">>
    <3> DEFINE V == {"-", "d"}
               x == <<"-">>
               y == <<"d">>
               z == <<"-", "d">>
    <3>1. /\ x \in Seq(V) /\ Len(x) = 1 /\ x[1] = "-" /\ y \in Seq(V) /\ Len(y) = 1 /\ y[1] = "d"
          /\ z \in Seq(V) /\ Len(z) = 2 /\ z[1] = "-" /\ z[2] = "d"
      OBVIOUS
    <3> HIDE DEF V, x, y, z
    <3>2. /\ x \o y \in Seq(V) /\ Len(x \o y) = 2
          /\ \A i \in 1..2 : (x \o y)[i] = IF i <= 1 THEN x[i] ELSE y[i - 1]
      BY <3>1, ConcatProperties
    <3>3. \A i \in 1..2 : (x \o y)[i] = z[i]
      BY <3>1, <3>2
    <3>4. x \o y = z
      BY <3>1, <3>2, <3>3, SeqEqual
    <3> QED BY <3>4 DEF x, y, z
  <2> QED BY <2>1, <2>2
<1>11. f[M][j].text = <<"-", "d">> /\ f[M][j].next = j + 3
  BY <1>7, <1>8, <1>9, <1>10 DEF Follows
<1> QED BY <1>3, <1>4, <1>11 DEF M

\* The text of a piece.
LEMMA ReadsText ==
  ASSUME NEW V, NEW t \in Seq(V), Len(in) \in Nat, NEW j, CommandAt(j), at = j + 3,
         NEW b, NEW l, NEW e, Piece(in, t, b, l, e), e[b] = j + 4
  PROVE  Shown(ReadString(MaxText), V, t, b, l, e[l] + 1)
<1>1. Chr(j + 3) = Quote /\ j \in Position /\ j + 3 \in Position /\ j + 4 \in Position
  BY CommandChars
<1>2. SkipSpaces(at) = j + 3
  BY <1>1, Distinct, SkipSpacesTo
<1>3. j + 3 + 1 = j + 4
  BY <1>1 DEF Position
<1>4. ReadString(MaxText) = Scan(TRUE, j + 4, MaxText)
  BY <1>1, <1>2, <1>3 DEF ReadString
<1>5. MaxText \in Nat
  BY DarkboxAssumption
<1>6. PICK f : Quoted(f, MaxText) /\ Scan(TRUE, j + 4, MaxText) = f[MaxText][j + 4]
  BY <1>1, <1>5, ScanQuoted
<1>7. l - b <= MaxText
  BY DEF Piece
<1>8. Shown(f[MaxText][e[b]], V, t, b, l, e[l] + 1)
  BY <1>5, <1>6, <1>7, ReadsPiece
<1> QED BY <1>4, <1>6, <1>8

\* Behind the last character there are EOFs only.
LEMMA ReadsEof ==
  ASSUME Len(in) \in Nat, at = Len(in) + 1
  PROVE  LET word == ReadString(MaxCommand)
         IN  word.text \in Seq({Eof}) /\ word.text # <<>> /\ word.next \in Position /\ word.next > Len(in)
<1> DEFINE M == MaxCommand
           Rest(r, n) == r.text \in Seq({Eof}) /\ Len(r.text) = n /\ r.next \in Position /\ r.next > Len(in)
<1>0. M \in Nat /\ M > 0
  BY DarkboxAssumption
<1>1. \A k \in Position : k > Len(in) => Chr(k) = Eof
  BY DEF Chr, Position
<1>2. at \in Position /\ Chr(at) = Eof
  BY <1>1 DEF Position
<1>3. ReadString(M) = Scan(FALSE, at, M)
  <2>1. SkipSpaces(at) = at
    BY <1>2, Reads, SkipSpacesTo
  <2> QED BY <1>2, <2>1, Distinct DEF ReadString
<1>4. PICK f : Scans(FALSE, f, M) /\ Scan(FALSE, at, M) = f[M][at]
  BY <1>0, <1>2, ScanSolved
<1> DEFINE S == {m \in 0..M : \A k \in Position : k > Len(in) => Rest(f[m][k], m)}
<1> HIDE DEF M
<1>5. f[0] = Shorter /\ \A m \in 1..M : f[m] = Longer(FALSE, f[m - 1])
  BY <1>0, <1>4 DEF Scans
<1>6. 0 \in S
  <2>1. ASSUME NEW k \in Position, k > Len(in) PROVE Rest(f[0][k], 0)
    <3>1. f[0][k].text = <<>> /\ f[0][k].next = k + 1
      BY <1>5, LongerAt DEF Stops
    <3>2. k + 1 \in Position /\ k + 1 > Len(in)
      BY <2>1 DEF Position
    <3> QED BY <3>1, <3>2
  <2> QED BY <1>0, <2>1
<1>7. ASSUME NEW m \in 1..M, m - 1 \in S PROVE m \in S
  <2>1. ASSUME NEW k \in Position, k > Len(in) PROVE Rest(f[m][k], m)
    <3>1. k + 1 \in Position /\ k + 1 > Len(in)
      BY <2>1 DEF Position
    <3> DEFINE r == f[m - 1][k + 1]
    <3>2. Rest(r, m - 1)
      BY <1>7, <3>1
    <3>3. Chr(k) = Eof /\ Eof \notin Ends(FALSE)
      BY <1>1, <2>1, Reads DEF Ends
    <3>4. f[m][k].text = <<Eof>> \o r.text /\ f[m][k].next = r.next
      <4>1. Follows(Longer(FALSE, f[m - 1])[k], Eof, r)
        BY <3>3, Distinct, LongerAt
      <4> QED BY <1>5, <4>1 DEF Follows
    <3> HIDE DEF r
    <3>5. <<Eof>> \in Seq({Eof}) /\ Len(<<Eof>>) = 1
      OBVIOUS
    <3>6. <<Eof>> \o r.text \in Seq({Eof}) /\ Len(<<Eof>> \o r.text) = 1 + (m - 1)
      <4>1. r.text \in Seq({Eof}) /\ Len(r.text) = m - 1
        BY <3>2
      <4> QED BY <3>5, <4>1, ConcatProperties
    <3>7. 1 + (m - 1) = m
      OBVIOUS
    <3> QED BY <3>2, <3>4, <3>6, <3>7
  <2> HIDE DEF Rest
  <2> QED BY <2>1
<1>8. M \in S
  <2> HIDE DEF S
  <2> QED BY <1>0, <1>6, <1>7, UpTo
<1>9. Rest(f[M][at], M)
  <2>1. at > Len(in)
    OBVIOUS
  <2> HIDE DEF Rest
  <2> QED BY <1>2, <1>8, <2>1
<1>10. f[M][at].text # <<>>
  BY <1>0, <1>9
<1> QED BY <1>3, <1>4, <1>9, <1>10 DEF M

\* What a program prints is appended to what is out.
LEMMA ExceptOut ==
  ASSUME NEW con, "out" \in DOMAIN con, NEW x, NEW y, NEW text,
         NEW c1, c1 = [con EXCEPT !.cursor = x],
         NEW c2, c2 = [c1 EXCEPT !.screen = y],
         NEW c3, c3 = [c2 EXCEPT !.out = @ \o text]
  PROVE  "out" \in DOMAIN c3 /\ c3.out = con.out \o text
<1>1. "out" \in DOMAIN c1 /\ c1.out = con.out
  OBVIOUS
<1>2. "out" \in DOMAIN c2 /\ c2.out = con.out
  BY <1>1
<1> QED BY <1>2

LEMMA PutOut ==
  ASSUME NEW con, "out" \in DOMAIN con, NEW text
  PROVE  "out" \in DOMAIN Put(con, text) /\ Put(con, text).out = con.out \o text
<1> DEFINE shown == {i \in DOMAIN text : text[i] # NewLine}
           cells == [i \in shown |-> CursorAt(con, text, i)]
           c1 == [con EXCEPT !.cursor = CursorAt(con, text, Len(text) + 1)]
           new == [p \in Range(cells) \cup DOMAIN c1.screen |->
                     IF \E i \in shown : cells[i] = p
                     THEN <<text[CHOOSE i \in shown : cells[i] = p], con.color>>
                     ELSE c1.screen[p]]
           c2 == [c1 EXCEPT !.screen = new]
           c3 == [c2 EXCEPT !.out = @ \o text]
<1>1. Put(con, text) = c3
  BY Zenon DEF Put
<1>2. "out" \in DOMAIN c3 /\ c3.out = con.out \o text
  <2> HIDE DEF shown, cells, new
  <2> QED BY ExceptOut, Zenon
<1> HIDE DEF c3
<1> QED BY <1>1, <1>2

-----------------------------------------------------------------------------
(* tcs_o reads them back as well.                                          *)

LEMMA SameConsole ==
  /\ \A i : Tcs!Chr(i) = Chr(i)
  /\ \A i : Tcs!SkipSpaces(i) = SkipSpaces(i)
  /\ Tcs!Escape = Escape /\ Tcs!Quote = Quote /\ Tcs!Eof = Eof /\ Tcs!Ends(TRUE) = {Quote}
<1>1. \A i : Tcs!Chr(i) = Chr(i)
  BY Zenon DEF Tcs!Chr, Chr, Tcs!Eof, Eof
<1>2. \A i : Tcs!SkipSpaces(i) = SkipSpaces(i)
  BY Zenon DEF Tcs!SkipSpaces, SkipSpaces, Tcs!Chr, Chr, Tcs!Eof, Eof, Tcs!Spaces, Spaces,
               Tcs!Space, Space, Tcs!NewLine, NewLine
<1>3. Tcs!Escape = Escape /\ Tcs!Quote = Quote /\ Tcs!Eof = Eof /\ Tcs!Ends(TRUE) = {Quote}
  BY Zenon DEF Tcs!Escape, Tcs!Quote, Escape, Quote, Tcs!Ends, Tcs!Eof, Eof
<1> QED BY <1>1, <1>2, <1>3

LEMMA TcsPutOut ==
  ASSUME NEW con, "out" \in DOMAIN con, NEW text
  PROVE  "out" \in DOMAIN Tcs!Put(con, text) /\ Tcs!Put(con, text).out = con.out \o text
<1>1. Tcs!Put(con, text) = Put(con, text)
  BY Zenon DEF Tcs!Put, Put, Tcs!CursorAt, CursorAt, Tcs!Max, Max, Tcs!Range, Range,
               Tcs!Cardinality, Cardinality, Tcs!NewLine, NewLine
<1> QED BY <1>1, PutOut

\* One turn of the loop of read_str_loop_, where g reads the rest with less room.
LoopTurn(quoted, g, room) ==
  [k \in Nat |->
     LET c == IF Tcs!Chr(k) = Tcs!Escape THEN k + 1 ELSE k
     IN  IF \/ c > Len(in)
            \/ c = k /\ Tcs!Chr(k) \in Tcs!Ends(quoted)
            \/ room = 0
         THEN [text |-> <<>>, next |-> c + 1]
         ELSE LET rest == g[c + 1]
              IN  [rest EXCEPT !.text = <<Tcs!Chr(c)>> \o @]]

\* What is read from stdin: its characters, and EOF behind them.
Written == {Chr(k) : k \in Nat}

LoopResults == [Nat -> [text : Seq(Written), next : Position]]

LEMMA LoopTurnIs ==
  ASSUME NEW quoted, NEW g, NEW room \in Nat, room = 0 \/ g \in LoopResults
  PROVE  LoopTurn(quoted, g, room) \in LoopResults
<1> DEFINE R == [text : Seq(Written), next : Position]
           C(k) == IF Tcs!Chr(k) = Tcs!Escape THEN k + 1 ELSE k
           Stop(k) == C(k) > Len(in) \/ (C(k) = k /\ Tcs!Chr(k) \in Tcs!Ends(quoted)) \/ room = 0
           Done(k) == [text |-> <<>>, next |-> C(k) + 1]
           More(k) == [g[C(k) + 1] EXCEPT !.text = <<Tcs!Chr(C(k))>> \o @]
<1>1. ASSUME NEW k \in Nat PROVE C(k) \in Nat /\ C(k) + 1 \in Nat /\ C(k) + 1 \in Position
  BY DEF Position
<1>2. LoopTurn(quoted, g, room) = [k \in Nat |-> IF Stop(k) THEN Done(k) ELSE More(k)]
  BY Zenon DEF LoopTurn
<1>3. ASSUME NEW k \in Nat PROVE Done(k) \in R
  <2>1. <<>> \in Seq(Written)
    OBVIOUS
  <2> HIDE DEF C
  <2> QED BY <1>1, <2>1
<1>4. ASSUME NEW k \in Nat, ~Stop(k) PROVE More(k) \in R
  <2>1. g \in LoopResults
    BY <1>4
  <2> DEFINE rest == g[C(k) + 1]
             x == Tcs!Chr(C(k))
  <2>2. rest \in R
    <3> HIDE DEF C
    <3> QED BY <1>1, <2>1 DEF LoopResults
  <2>3. x \in Written
    <3>1. x = Chr(C(k))
      BY SameConsole
    <3> HIDE DEF C, x
    <3> QED BY <1>1, <3>1 DEF Written
  <2> HIDE DEF C, x, rest
  <2>4. <<x>> \o rest.text \in Seq(Written)
    <3>1. <<x>> \in Seq(Written) /\ rest.text \in Seq(Written)
      BY <2>2, <2>3
    <3> QED BY <3>1, ConcatProperties
  <2>5. [rest EXCEPT !.text = <<x>> \o @] \in R
    BY <2>2, <2>4
  <2> QED BY <2>5 DEF rest, x
<1> HIDE DEF Stop, Done, More, R
<1>5. \A k \in Nat : (IF Stop(k) THEN Done(k) ELSE More(k)) \in R
  BY <1>3, <1>4
<1> QED BY <1>2, <1>5 DEF LoopResults, R

\* What a turn makes of the character at position k of a quoted text.
LEMMA LoopTurnAt ==
  ASSUME Len(in) \in Nat, NEW g, NEW room \in Nat, room = 0 \/ g \in LoopResults,
         NEW k \in Position, k <= Len(in), NEW r, r = LoopTurn(TRUE, g, room)[k]
  PROVE  /\ in[k] = Quote => Stops(r, k)
         /\ room > 0 =>
              /\ in[k] \notin {Quote, Escape} => Follows(r, in[k], g[k + 1])
              /\ k < Len(in) /\ in[k] = Escape => Follows(r, in[k + 1], g[k + 2])
<1> DEFINE c == IF Tcs!Chr(k) = Tcs!Escape THEN k + 1 ELSE k
           rest == g[c + 1]
           more == [rest EXCEPT !.text = <<Tcs!Chr(c)>> \o @]
<1>0. k \in Nat /\ k + 1 + 1 = k + 2
  BY DEF Position
<1>1. r = IF c > Len(in) \/ (c = k /\ Tcs!Chr(k) \in Tcs!Ends(TRUE)) \/ room = 0
          THEN [text |-> <<>>, next |-> c + 1]
          ELSE more
  BY <1>0, Zenon DEF LoopTurn
<1>2. Tcs!Chr(k) = in[k] /\ Tcs!Escape = Escape /\ Tcs!Ends(TRUE) = {Quote}
  BY SameConsole DEF Chr
<1>3. ASSUME g \in LoopResults, c \in Nat PROVE Follows(more, Tcs!Chr(c), rest)
  <2>1. rest \in [text : Seq(Written), next : Position]
    <3> HIDE DEF c
    <3>1. c + 1 \in Nat
      BY <1>3
    <3>2. \A h \in LoopResults, j \in Nat : h[j] \in [text : Seq(Written), next : Position]
      BY DEF LoopResults
    <3> QED BY <1>3, <3>1, <3>2
  <2> HIDE DEF rest, c
  <2> QED BY <2>1 DEF Follows
<1>4. ASSUME in[k] = Quote PROVE Stops(r, k)
  <2>1. c = k
    BY <1>2, <1>4, Distinct
  <2>2. r = [text |-> <<>>, next |-> k + 1]
    BY <1>1, <1>2, <1>4, <2>1
  <2>3. \A x : x = [text |-> <<>>, next |-> k + 1] => Stops(x, k)
    BY DEF Stops
  <2> QED BY <2>2, <2>3
<1>5. ASSUME room > 0, in[k] \notin {Quote, Escape} PROVE Follows(r, in[k], g[k + 1])
  <2>1. c = k /\ c \in Nat /\ ~(c > Len(in))
    BY <1>0, <1>2, <1>5
  <2>2. r = more
    <3>1. ~(Tcs!Chr(k) \in Tcs!Ends(TRUE)) /\ ~(room = 0)
      <4>1. in[k] \notin {Quote}
        BY <1>5
      <4>2. ~(Tcs!Chr(k) \in Tcs!Ends(TRUE))
        BY <1>2, <4>1, Zenon
      <4>3. ~(room = 0)
        BY <1>5
      <4> QED BY <4>2, <4>3
    <3> HIDE DEF c, more
    <3> QED BY <1>1, <2>1, <3>1
  <2>3. Follows(more, Tcs!Chr(c), rest)
    BY <1>3, <1>5, <2>1
  <2> HIDE DEF more, c
  <2> QED BY <1>2, <2>1, <2>2, <2>3
<1>6. ASSUME room > 0, k < Len(in), in[k] = Escape PROVE Follows(r, in[k + 1], g[k + 2])
  <2>1. c = k + 1 /\ c \in Nat /\ ~(c > Len(in)) /\ c # k
    BY <1>0, <1>2, <1>6
  <2>2. r = more
    <3>1. ~(room = 0) /\ ~(c = k)
      BY <1>0, <1>6, <2>1
    <3> HIDE DEF c, more
    <3> QED BY <1>1, <2>1, <3>1
  <2>3. Follows(more, Tcs!Chr(c), rest)
    BY <1>3, <1>6, <2>1
  <2>4. Tcs!Chr(c) = in[k + 1]
    <3> HIDE DEF c
    <3> QED BY <2>1, SameConsole DEF Chr
  <2> HIDE DEF more, c
  <2> QED BY <1>0, <2>1, <2>2, <2>3, <2>4
<1> QED BY <1>4, <1>5, <1>6

\* The loop of read_str_loop_ is the recursion of its turns.
LoopTurns(quoted, f, max) ==
  \A room \in 0..max :
    f[room] \in LoopResults /\ f[room] = LoopTurn(quoted, f[room - 1], room)

LEMMA LoopSolved ==
  ASSUME NEW quoted, NEW start, NEW max \in Nat
  PROVE  \E f : LoopTurns(quoted, f, max) /\ Tcs!ReadLoop(quoted, start, max) = f[max][start]
<1> DEFINE W == LoopResults
           base == LoopTurn(quoted, 0, 0)
           step == [i \in 1..max |-> [g \in W |-> LoopTurn(quoted, g, i)]]
<1>1. base \in W
  BY LoopTurnIs
<1>2. step \in [1..max -> [W -> W]]
  <2>1. ASSUME NEW i \in 1..max, NEW g \in W PROVE LoopTurn(quoted, g, i) \in W
    <3>1. i \in Nat
      OBVIOUS
    <3> QED BY <3>1, LoopTurnIs
  <2> HIDE DEF W
  <2> QED BY <2>1
<1>3. \A g : LoopTurn(quoted, g, 0) = base
  BY Zenon DEF LoopTurn
<1>4. PICK f : f \in [0..max -> W] /\ f[0] = base /\ \A i \in 1..max : f[i] = step[i][f[i - 1]]
  <2> HIDE DEF W, step, base
  <2>1. \E f : Solves(f, max, W, base, step)
    BY <1>1, <1>2, Recursion DEF Steps
  <2> QED BY <2>1 DEF Solves
<1>5. f = [room \in 0..max |-> LoopTurn(quoted, f[room - 1], room)]
  <2> HIDE DEF base, W
  <2>1. ASSUME NEW room \in 0..max PROVE f[room] = LoopTurn(quoted, f[room - 1], room)
    <3>1. CASE room = 0
      BY <1>3, <1>4, <3>1
    <3>2. CASE room # 0
      <4>1. room \in 1..max /\ room - 1 \in 0..max
        BY <3>2
      <4>2. f[room - 1] \in W
        BY <1>4, <4>1
      <4> QED BY <1>4, <4>1, <4>2
    <3> QED BY <3>1, <3>2
  <2> HIDE DEF step
  <2> QED BY <1>4, <2>1
<1> DEFINE loop[room \in 0..max] ==
             [k \in Nat |->
                LET c == IF Tcs!Chr(k) = Tcs!Escape THEN k + 1 ELSE k
                IN  IF \/ c > Len(in)
                       \/ c = k /\ Tcs!Chr(k) \in Tcs!Ends(quoted)
                       \/ room = 0
                    THEN [text |-> <<>>, next |-> c + 1]
                    ELSE LET rest == loop[room - 1][c + 1]
                         IN  [rest EXCEPT !.text = <<Tcs!Chr(c)>> \o @]]
<1>6. loop = [room \in 0..max |-> LoopTurn(quoted, loop[room - 1], room)]
  <2> HIDE DEF W, base, step
  <2> QED BY <1>5, Zenon DEF LoopTurn
<1>7. Tcs!ReadLoop(quoted, start, max) = loop[max][start]
  BY Zenon DEF Tcs!ReadLoop
<1> HIDE DEF loop
<1>8. Solves(loop, max, W, base, step)
  <2>1. loop[0] = base /\ loop = [room \in 0..max |-> loop[room]]
    <3> HIDE DEF base
    <3> QED BY <1>3, <1>6
  <2>2. ASSUME NEW i \in 1..max, loop[i - 1] \in W PROVE loop[i] = step[i][loop[i - 1]]
    <3> HIDE DEF W
    <3>1. loop[i] = LoopTurn(quoted, loop[i - 1], i)
      BY <1>6
    <3> QED BY <2>2, <3>1
  <2> HIDE DEF W, base, step
  <2> QED BY <1>1, <1>2, <2>1, <2>2, Recursive DEF Steps
<1>9. \A room \in 0..max : loop[room] \in W
  <2> HIDE DEF W, base, step
  <2> QED BY <1>8 DEF Solves
<1>10. \A room \in 0..max : loop[room] = LoopTurn(quoted, loop[room - 1], room)
  BY <1>6
<1>11. LoopTurns(quoted, loop, max)
  BY <1>9, <1>10 DEF LoopTurns
<1> QED BY <1>7, <1>11

LEMMA LoopQuoted ==
  ASSUME Len(in) \in Nat, NEW start \in Position, NEW max \in Nat
  PROVE  \E f : Quoted(f, max) /\ Tcs!ReadLoop(TRUE, start, max) = f[max][start]
<1>1. PICK loop : LoopTurns(TRUE, loop, max) /\ Tcs!ReadLoop(TRUE, start, max) = loop[max][start]
  BY LoopSolved
<1>2. ASSUME NEW room \in 0..max, NEW k \in Position, k <= Len(in)
       PROVE  /\ in[k] = Quote => Stops(loop[room][k], k)
              /\ room > 0 =>
                   /\ in[k] \notin {Quote, Escape} =>
                        Follows(loop[room][k], in[k], loop[room - 1][k + 1])
                   /\ k < Len(in) /\ in[k] = Escape =>
                        Follows(loop[room][k], in[k + 1], loop[room - 1][k + 2])
  <2> DEFINE g == loop[room - 1]
             r == loop[room][k]
  <2>1. r = LoopTurn(TRUE, g, room)[k]
    BY <1>1 DEF LoopTurns
  <2>2. room \in Nat /\ (room = 0 \/ g \in LoopResults)
    <3>1. room # 0 => room - 1 \in 0..max
      OBVIOUS
    <3>2. \A m \in 0..max : loop[m] \in LoopResults
      BY <1>1 DEF LoopTurns
    <3> QED BY <3>1, <3>2
  <2> HIDE DEF g, r
  <2>3. /\ in[k] = Quote => Stops(r, k)
        /\ room > 0 =>
             /\ in[k] \notin {Quote, Escape} => Follows(r, in[k], g[k + 1])
             /\ k < Len(in) /\ in[k] = Escape => Follows(r, in[k + 1], g[k + 2])
    BY <1>2, <2>1, <2>2, LoopTurnAt
  <2> QED BY <2>3 DEF g, r
<1>3. Quoted(loop, max)
  BY <1>2 DEF Quoted
<1> QED BY <1>1, <1>3

\* The text of a piece.
LEMMA TcsReadsText ==
  ASSUME NEW V, NEW t \in Seq(V), Len(in) \in Nat, NEW j, CommandAt(j),
         NEW b, NEW l, NEW e, Piece(in, t, b, l, e), e[b] = j + 4
  PROVE  Shown(Tcs!ReadStr(j + 2), V, t, b, l, e[l] + 1)
<1>1. /\ Chr(j + 2) = Space /\ Chr(j + 3) = Quote
      /\ j \in Position /\ j + 2 \in Position /\ j + 3 \in Position /\ j + 4 \in Position
  BY CommandChars
<1>2. j + 2 <= Len(in) /\ j + 3 <= Len(in) /\ j + 2 + 1 = j + 3 /\ j + 3 + 1 = j + 4
  BY <1>1 DEF Position, CommandAt
<1>3. Tcs!SkipSpaces(j + 2) = j + 3
  BY <1>1, <1>2, Distinct, SkipSpacesTo, SameConsole
<1>4. Tcs!ReadStr(j + 2) = Tcs!ReadLoop(TRUE, j + 4, MaxText)
  <2>1. ~(j + 3 > Len(in)) /\ Tcs!Chr(j + 3) = Tcs!Quote
    BY <1>1, <1>2, SameConsole DEF Position
  <2> QED BY <1>2, <1>3, <2>1 DEF Tcs!ReadStr
<1>5. MaxText \in Nat
  BY DarkboxAssumption
<1>6. PICK f : Quoted(f, MaxText) /\ Tcs!ReadLoop(TRUE, j + 4, MaxText) = f[MaxText][j + 4]
  BY <1>1, <1>5, LoopQuoted
<1>7. l - b <= MaxText
  BY DEF Piece
<1>8. Shown(f[MaxText][e[b]], V, t, b, l, e[l] + 1)
  BY <1>5, <1>6, <1>7, ReadsPiece
<1> QED BY <1>4, <1>6, <1>8

-----------------------------------------------------------------------------
(* What is out while a text is read: the pieces read so far.               *)

TextChars == {"x", "-", "d", Space, NewLine, Quote, Escape}

\* The first n characters of the text are out.
OutIs(n) ==
  /\ "out" \in DOMAIN console
  /\ console.out \in Seq(TextChars) /\ Len(console.out) = n
  /\ \A i \in 1..n : console.out[i] = goal.text[i]

AtPiece(b) ==
  b \in 0..Len(goal.text) /\ (b = 0 \/ Break(b + 1)) /\ OutIs(b)

\* In front of position j, or of the space before it.
Before(j) ==
  j = at \/ (j = at + 1 /\ at \in Position /\ at <= Len(in) /\ in[at] = Space)

ShowsText ==
  LET n == Len(goal.text) IN
    /\ IsPrefix(goal.text, console.out)
    /\ \A i \in (n + 1)..Len(console.out) :
         goal.by = "darkbox" /\ console.out[i] \in {Eof, Space}

DisplayCommand == [letters |-> <<"d">>, count |-> 1, next |-> 1]

Progress(a) ==
  \/ pc = "parse" /\ \E b : AtPiece(b) /\ Before(a[b])
  \/ /\ pc = "exec" /\ goal.by = "darkbox" /\ cmd = DisplayCommand
     /\ \E b : AtPiece(b) /\ at = a[b] + 3
  \/ pc = "parse" /\ at = Len(in) + 1 /\ OutIs(Len(goal.text))
  \/ pc = "exited" /\ ShowsText

\* The inductive invariant: the input is a series of pieces, and the program is at
\* one of them with the text before it shown, or behind the last one.
TextInv ==
  goal.kind = "text" =>
    /\ goal.by \in {"darkbox", "tcs_o"}
    /\ goal.text \in Seq(TextChars)
    /\ \E a : Pieces(in, goal.text, a) /\ Progress(a)

LEMMA EncodedText ==
  ASSUME NEW t \in Texts
  PROVE  t \in Seq(TextChars) /\ \E a : Pieces(Encode(t), t, a)
<1>1. t \in Seq(TextChars)
  <2> DEFINE S == {"x", "-", Space, NewLine, Quote, Escape}
  <2>1. PICK k \in 0..TextSize : t \in [1..k -> S]
    BY DEF Texts, Spelled
  <2>2. k \in Nat /\ S \subseteq TextChars
    BY TextAssumption DEF TextChars
  <2>3. t \in [1..k -> TextChars]
    <3> HIDE DEF S
    <3> QED BY <2>1, <2>2
  <2> QED BY <2>2, <2>3
<1>2. Alphabet(TextChars)
  BY DEF Alphabet, TextChars
<1> QED BY <1>1, <1>2, EncodePieces

LEMMA InitTextInv == MCInit => TextInv
<1> SUFFICES ASSUME MCInit, goal.kind = "text"
             PROVE  /\ goal.by \in {"darkbox", "tcs_o"}
                    /\ goal.text \in Seq(TextChars)
                    /\ \E a : Pieces(in, goal.text, a) /\ Progress(a)
  BY DEF TextInv
<1>1. /\ pc = "parse" /\ at = 1
      /\ console = [cursor |-> <<0, 0>>, color |-> Plain, screen |-> <<>>, out |-> <<>>]
  BY DEF MCInit, Started, Began
<1>2. PICK t \in Texts : in = Encode(t) /\ goal.text = t /\ goal.by \in {"darkbox", "tcs_o"}
  <2>1. CASE DarkboxInput
    <3>1. PICK t \in Texts : in = Encode(t) /\ goal = Goal("darkbox", "text", t, <<>>)
      BY <2>1 DEF DarkboxInput, Goal
    <3> QED BY <3>1 DEF Goal
  <2>2. CASE TcsOInput
    <3>1. PICK t \in Texts : in = Encode(t) /\ goal = Goal("tcs_o", "text", t, <<>>)
      BY <2>2 DEF TcsOInput, Goal
    <3> QED BY <3>1 DEF Goal
  <2>3. ASSUME NEW by, CbatboxInput(by) PROVE FALSE
    BY <2>3 DEF CbatboxInput, Goal
  <2> QED BY <2>1, <2>2, <2>3 DEF MCInit
<1>3. goal.text \in Seq(TextChars) /\ \E a : Pieces(in, goal.text, a)
  BY <1>2, EncodedText
<1>4. PICK a : Pieces(in, goal.text, a)
  BY <1>3
<1>5. OutIs(0)
  BY <1>1 DEF OutIs
<1>6. AtPiece(0) /\ Before(a[0])
  <2>1. 0 \in 0..Len(goal.text)
    BY <1>3
  <2> QED BY <1>1, <1>4, <1>5, <2>1 DEF AtPiece, Before, Pieces
<1> QED BY <1>1, <1>2, <1>3, <1>4, <1>6 DEF Progress

\* A piece, and where it ends.
EndsAt(a, b, l, e) ==
  /\ Piece(in, goal.text, b, l, e) /\ e[b] = a[b] + 4
  /\ \/ l = Len(goal.text) /\ e[l] = Len(in)
     \/ l > b /\ Break(l + 1) /\ e[l] + 2 = a[l] /\ in[e[l] + 1] = Space

LEMMA PieceEnds ==
  ASSUME NEW a, Pieces(in, goal.text, a), goal.text \in Seq(TextChars),
         NEW b \in 0..Len(goal.text), b = 0 \/ Break(b + 1)
  PROVE  CommandAt(a[b]) /\ \E l, e : EndsAt(a, b, l, e)
<1>1. PieceAt(in, goal.text, a, b) /\ Len(in) \in Nat
  BY DEF Pieces
<1>2. PICK l, e : EndsAt(a, b, l, e)
  BY <1>1 DEF PieceAt, EndsAt
<1>3. a[b] + 3 <= Len(in)
  <2>1. b \in b..l /\ \A j \in b..l : e[j] \in Position /\ e[j] <= Len(in)
    BY <1>2 DEF EndsAt, Piece
  <2>2. a[b] \in Nat /\ a[b] + 4 <= Len(in)
    BY <1>1, <1>2, <2>1 DEF PieceAt, Position, EndsAt
  <2> QED BY <1>1, <2>2
<1>4. CommandAt(a[b])
  BY <1>1, <1>3 DEF PieceAt, CommandAt
<1> QED BY <1>2, <1>4

\* Either program after a piece: what it read is out, and it is in front of the next
\* piece or at the end.
LEMMA AfterPiece ==
  ASSUME NEW a, Pieces(in, goal.text, a), goal.text \in Seq(TextChars),
         NEW b, AtPiece(b), NEW l, NEW e, EndsAt(a, b, l, e),
         NEW word, Shown(word, TextChars, goal.text, b, l, e[l] + 1),
         "out" \in DOMAIN console', console'.out = console.out \o word.text,
         at' = word.next, pc' = "parse", UNCHANGED <<in, goal>>
  PROVE  Progress(a)'
<1> DEFINE t == goal.text
           x == console.out
           y == word.text
<1>1. /\ Len(t) \in Nat /\ Len(in) \in Nat /\ b \in Nat /\ l \in b..Len(t) /\ l \in Nat
      /\ e[l] \in Position /\ e[l] <= Len(in) /\ at' = e[l] + 1
  BY DEF Pieces, EndsAt, Piece, Shown
<1>2. OutIs(l)'
  <2>1. x \in Seq(TextChars) /\ Len(x) = b /\ \A i \in 1..b : x[i] = t[i]
    BY DEF AtPiece, OutIs
  <2>2. y \in Seq(TextChars) /\ Len(y) = l - b /\ \A i \in 1..(l - b) : y[i] = t[b + i]
    BY DEF Shown
  <2> HIDE DEF t, x, y
  <2>3. /\ x \o y \in Seq(TextChars) /\ Len(x \o y) = l
        /\ \A i \in 1..l : (x \o y)[i] = IF i <= b THEN x[i] ELSE y[i - b]
    <3>1. /\ x \o y \in Seq(TextChars) /\ Len(x \o y) = Len(x) + Len(y)
          /\ \A i \in 1..(Len(x) + Len(y)) :
               (x \o y)[i] = IF i <= Len(x) THEN x[i] ELSE y[i - Len(x)]
      BY <2>1, <2>2, ConcatProperties
    <3>2. Len(x) + Len(y) = l
      BY <1>1, <2>1, <2>2
    <3> QED BY <2>1, <3>1, <3>2
  <2>4. ASSUME NEW i \in 1..l PROVE (x \o y)[i] = t[i]
    <3>1. CASE i <= b
      <4>1. i \in 1..b /\ (x \o y)[i] = IF i <= b THEN x[i] ELSE y[i - b]
        BY <1>1, <2>3, <3>1
      <4> QED BY <2>1, <3>1, <4>1
    <3>2. CASE ~(i <= b)
      <4>1. i - b \in 1..(l - b) /\ b + (i - b) = i
        BY <1>1, <3>2
      <4>2. (x \o y)[i] = y[i - b]
        BY <2>3, <3>2
      <4>3. y[i - b] = t[b + (i - b)]
        BY <2>2, <4>1
      <4> QED BY <4>1, <4>2, <4>3
    <3> QED BY <3>1, <3>2
  <2>5. console'.out = x \o y /\ goal'.text = t
    BY DEF x, y, t
  <2> QED BY <2>3, <2>4, <2>5 DEF OutIs
<1>3. CASE l = Len(t) /\ e[l] = Len(in)
  BY <1>1, <1>2, <1>3 DEF Progress
<1>4. CASE l > b /\ Break(l + 1) /\ e[l] + 2 = a[l] /\ in[e[l] + 1] = Space
  <2>1. l \in 0..Len(t) /\ CommandAt(a[l])
    <3>1. l \in 0..Len(t)
      BY <1>1
    <3> QED BY <1>4, <3>1, PieceEnds
  <2>2. AtPiece(l)'
    BY <1>2, <1>4, <2>1 DEF AtPiece, Break
  <2>3. a[l] = at' + 1 /\ at' \in Position /\ at' <= Len(in) /\ in[at'] = Space
    <3> DEFINE p == e[l]
    <3>1. p \in Nat /\ at' = p + 1 /\ a[l] = p + 2 /\ a[l] + 3 <= Len(in)
      <4>1. p \in Nat /\ at' = p + 1 /\ p + 2 = a[l]
        BY <1>1, <1>4 DEF Position
      <4>2. a[l] + 3 <= Len(in)
        BY <2>1 DEF CommandAt
      <4> QED BY <4>1, <4>2
    <3>2. in[p + 1] = Space
      BY <1>4
    <3> HIDE DEF p
    <3>3. p + 1 \in Position /\ p + 1 <= Len(in) /\ a[l] = p + 1 + 1
      BY <1>1, <3>1 DEF Position
    <3> QED BY <3>1, <3>2, <3>3
  <2>4. Before(a[l])'
    BY <2>3 DEF Before
  <2> QED BY <2>2, <2>4 DEF Progress
<1> QED BY <1>3, <1>4 DEF EndsAt

LEMMA PrefixIs ==
  ASSUME NEW V, NEW t \in Seq(V), NEW o \in Seq(V), Len(t) <= Len(o),
         \A i \in 1..Len(t) : o[i] = t[i]
  PROVE  IsPrefix(t, o)
<1> DEFINE n == Len(t)
           p == SubSeq(t, 1, n)
           q == SubSeq(o, 1, n)
<1>1. n \in Nat /\ \A i \in 1..n : t[i] \in V /\ o[i] \in V
  OBVIOUS
<1>2. (IF 1 <= n THEN n - 1 + 1 ELSE 0) = n /\ n - 1 + 1 = n /\ \A i \in 1..n : 1 + i - 1 = i
  BY <1>1
<1>3. p \in Seq(V) /\ Len(p) = n /\ \A i \in 1..n : p[i] = t[i]
  <2> HIDE DEF n
  <2>1. /\ p \in Seq(V) /\ Len(p) = IF 1 <= n THEN n - 1 + 1 ELSE 0
        /\ \A i \in 1..(n - 1 + 1) : p[i] = t[1 + i - 1]
    BY <1>1, SubSeqProperties
  <2> HIDE DEF p
  <2> QED BY <1>2, <2>1
<1>4. q \in Seq(V) /\ Len(q) = n /\ \A i \in 1..n : q[i] = o[i]
  <2> HIDE DEF n
  <2>1. /\ q \in Seq(V) /\ Len(q) = IF 1 <= n THEN n - 1 + 1 ELSE 0
        /\ \A i \in 1..(n - 1 + 1) : q[i] = o[1 + i - 1]
    BY <1>1, SubSeqProperties
  <2> HIDE DEF q
  <2> QED BY <1>2, <2>1
<1> HIDE DEF p, q
<1>5. p = q
  <2>1. \A i \in 1..Len(p) : p[i] = q[i]
    BY <1>3, <1>4
  <2> QED BY <1>3, <1>4, <2>1, SeqEqual
<1> QED BY <1>5 DEF IsPrefix, p, q

\* What darkbox prints at the end of the stream.
LEMMA EndShown ==
  ASSUME OutIs(Len(goal.text)), goal.text \in Seq(TextChars), goal.by = "darkbox",
         NEW z \in Seq({Eof, Space}), console'.out = console.out \o z, UNCHANGED goal
  PROVE  ShowsText'
<1> DEFINE t == goal.text
           n == Len(t)
           x == console.out
           W == TextChars \cup {Eof}
<1>1. n \in Nat /\ x \in Seq(TextChars) /\ Len(x) = n /\ \A i \in 1..n : x[i] = t[i]
  BY DEF OutIs
<1>2. t \in Seq(W) /\ x \in Seq(W) /\ z \in Seq(W)
  <2>1. TextChars \subseteq W /\ {Eof, Space} \subseteq W
    BY DEF TextChars
  <2>2. t \in Seq(TextChars)
    OBVIOUS
  <2> HIDE DEF W, x, t
  <2>3. \A A : A \subseteq W => \A s \in Seq(A) : s \in Seq(W)
    OBVIOUS
  <2> QED BY <1>1, <2>1, <2>2, <2>3
<1>3. Len(z) \in Nat /\ \A i \in 1..Len(z) : z[i] \in {Eof, Space}
  OBVIOUS
<1> HIDE DEF t, n, x, W
<1>4. /\ x \o z \in Seq(W) /\ Len(x \o z) = n + Len(z)
      /\ \A i \in 1..(n + Len(z)) : (x \o z)[i] = IF i <= n THEN x[i] ELSE z[i - n]
  BY <1>1, <1>2, ConcatProperties
<1>5. IsPrefix(t, x \o z)
  <2>1. Len(t) <= Len(x \o z) /\ \A i \in 1..Len(t) : (x \o z)[i] = t[i]
    <3>1. n <= n + Len(z) /\ \A i \in 1..n : (x \o z)[i] = x[i]
      BY <1>1, <1>3, <1>4
    <3> QED BY <1>1, <1>4, <3>1 DEF n
  <2> QED BY <1>2, <1>4, <2>1, PrefixIs
<1>6. ASSUME NEW i \in (n + 1)..Len(x \o z) PROVE (x \o z)[i] \in {Eof, Space}
  <2>1. i \in 1..(n + Len(z)) /\ ~(i <= n) /\ i - n \in 1..Len(z)
    BY <1>1, <1>3, <1>4
  <2>2. (x \o z)[i] = z[i - n]
    BY <1>4, <2>1
  <2> QED BY <1>3, <2>1, <2>2
<1>7. console'.out = x \o z /\ goal'.text = t /\ n = Len(t) /\ goal'.by = "darkbox"
  BY DEF x, t, n
<1> QED BY <1>5, <1>6, <1>7 DEF ShowsText

LEMMA TcsEndShown ==
  ASSUME OutIs(Len(goal.text)), goal.text \in Seq(TextChars), UNCHANGED <<console, goal>>
  PROVE  ShowsText'
<1>1. /\ Len(goal.text) \in Nat /\ console.out \in Seq(TextChars)
      /\ Len(console.out) = Len(goal.text)
      /\ \A i \in 1..Len(goal.text) : console.out[i] = goal.text[i]
  BY DEF OutIs
<1>2. IsPrefix(goal.text, console.out)
  BY <1>1, PrefixIs
<1>3. (Len(goal.text) + 1)..Len(console.out) = {}
  BY <1>1
<1>4. ShowsText
  BY <1>2, <1>3 DEF ShowsText
<1> QED BY <1>4 DEF ShowsText

\* darkbox: the command in front of a piece is parsed.
LEMMA DisplayWord ==
  ASSUME NEW word, word = <<"-", "d">>
  PROVE  /\ IsCommand(word) /\ CommandLetters(word) = <<"d">> /\ Count(word) = 1
         /\ ToSet(<<"d">>) \subseteq Letters
<1>1. "d" \in Letters /\ "d" \notin Digits
  BY TextAssumption DEF Letters
<1>2. ~Counted(word)
  BY <1>1 DEF Counted
<1>3. CommandLetters(word) = <<"d">>
  <2> DEFINE V == {"-", "d"}
             q == SubSeq(word, 2, Len(word))
             d == <<"d">>
  <2>1. word \in Seq(V) /\ Len(word) = 2 /\ word[2] = "d"
    OBVIOUS
  <2>2. q = SubSeq(word, 2, 2)
    BY <2>1
  <2>3. \A i \in 2..2 : word[i] \in V
    BY <2>1
  <2>4. /\ q \in Seq(V) /\ Len(q) = IF 2 <= 2 THEN 2 - 2 + 1 ELSE 0
        /\ \A i \in 1..(2 - 2 + 1) : q[i] = word[2 + i - 1]
    <3> HIDE DEF V, q
    <3> QED BY <2>2, <2>3, SubSeqProperties
  <2>5. d \in Seq(V) /\ Len(d) = 1 /\ d[1] = "d"
    OBVIOUS
  <2> HIDE DEF q, d, V
  <2>6. Len(q) = 1 /\ \A i \in 1..Len(q) : q[i] = d[i]
    BY <2>1, <2>4, <2>5
  <2>7. q = d
    BY <2>4, <2>5, <2>6, SeqEqual
  <2> QED BY <1>2, <2>7 DEF CommandLetters, q, d
<1>4. IsCommand(word) /\ Count(word) = 1
  <2>1. word # <<>> /\ Head(word) = "-"
    OBVIOUS
  <2> QED BY <1>2, <2>1 DEF IsCommand, Count
<1>5. ToSet(<<"d">>) \subseteq Letters
  BY <1>1 DEF ToSet
<1> QED BY <1>3, <1>4, <1>5

\* The only steps where a command is read, and where one is executed.
LEMMA ParseSteps == pc = "parse" /\ Next => ParseCommand \/ Echo
BY DEF Next, Execute, Executes, Display, Simple, Quit, StartFigure, Plot

LEMMA DisplaySteps == pc = "exec" /\ cmd = DisplayCommand /\ Next => Display
<1>1. cmd = DisplayCommand => Letter = "d"
  BY DEF Letter, DisplayCommand
<1> QED BY <1>1 DEF Next, ParseCommand, Echo, Execute, Executes, Simple, Quit, StartFigure, Plot

LEMMA ParsePiece ==
  ASSUME NEW a, Pieces(in, goal.text, a), goal.text \in Seq(TextChars), goal.by = "darkbox",
         at \in Position, pc = "parse", NEW b, AtPiece(b), Before(a[b]), Next, UNCHANGED goal
  PROVE  Progress(a)'
<1> DEFINE word == ReadString(MaxCommand)
<1>1. CommandAt(a[b]) /\ Len(in) \in Nat
  BY PieceEnds DEF AtPiece, Pieces
<1>2. word.text = <<"-", "d">> /\ word.next = a[b] + 3
  <2>1. a[b] = at \/ (a[b] = at + 1 /\ at <= Len(in) /\ Chr(at) = Space)
    BY DEF Before, Chr
  <2> QED BY <1>1, <2>1, ReadsCommand
<1>3. ~Echo
  <2> HIDE DEF word
  <2>1. Echo => ~IsCommand(word.text)
    BY DEF Echo, word
  <2> QED BY <1>2, <2>1, DisplayWord
<1>4. /\ pc' = "exec" /\ at' = a[b] + 3 /\ cmd' = DisplayCommand /\ UNCHANGED <<in, console>>
  <2> DEFINE letters == CommandLetters(word.text)
             valid == letters # <<>> /\ ToSet(letters) \subseteq Letters
  <2>1. ParseCommand
    BY <1>3, ParseSteps
  <2>2. /\ at' = word.next
        /\ IF valid /\ Count(word.text) > 0
           THEN /\ pc' = "exec"
                /\ cmd' = [letters |-> letters, count |-> Count(word.text), next |-> 1]
           ELSE UNCHANGED <<pc, cmd>>
        /\ UNCHANGED <<in, console>>
    BY <2>1 DEF ParseCommand
  <2> HIDE DEF word
  <2>3. letters = <<"d">> /\ Count(word.text) = 1 /\ ToSet(letters) \subseteq Letters
    BY <1>2, DisplayWord
  <2>4. valid /\ Count(word.text) > 0
    BY <2>3
  <2> HIDE DEF letters, valid
  <2> QED BY <1>2, <2>2, <2>3, <2>4 DEF DisplayCommand
<1>5. AtPiece(b)'
  BY <1>4 DEF AtPiece, OutIs, Break
<1> QED BY <1>4, <1>5 DEF Progress

\* darkbox: the piece is displayed.
LEMMA DisplayPiece ==
  ASSUME NEW a, Pieces(in, goal.text, a), goal.text \in Seq(TextChars),
         pc = "exec", cmd = DisplayCommand, NEW b, AtPiece(b), at = a[b] + 3,
         Next, UNCHANGED goal
  PROVE  Progress(a)'
<1> DEFINE word == ReadString(MaxText)
<1>1. Display
  BY DisplaySteps
<1>2. CommandAt(a[b]) /\ Len(in) \in Nat
  BY PieceEnds DEF AtPiece, Pieces
<1>3. PICK l, e : EndsAt(a, b, l, e)
  BY PieceEnds DEF AtPiece
<1>4. Shown(word, TextChars, goal.text, b, l, e[l] + 1)
  BY <1>2, <1>3, ReadsText DEF EndsAt
<1>5. console' = Put(console, word.text) /\ at' = word.next /\ UNCHANGED in
  BY <1>1 DEF Display
<1>6. pc' = "parse"
  <2>1. cmd.next = Len(cmd.letters) /\ cmd.count = 1
    BY DEF DisplayCommand
  <2> QED BY <1>1, <2>1 DEF Display, NextLetter
<1> HIDE DEF word
<1>7. "out" \in DOMAIN console' /\ console'.out = console.out \o word.text
  <2>1. "out" \in DOMAIN console
    BY DEF AtPiece, OutIs
  <2> QED BY <1>5, <2>1, PutOut
<1> QED BY <1>3, <1>4, <1>5, <1>6, <1>7, AfterPiece

\* darkbox at the end of the stream prints EOFs and stops.
LEMMA EchoEof ==
  ASSUME Len(in) \in Nat, goal.text \in Seq(TextChars), goal.by = "darkbox",
         pc = "parse", at = Len(in) + 1, OutIs(Len(goal.text)), Next, UNCHANGED goal
  PROVE  pc' = "exited" /\ ShowsText'
<1> DEFINE word == ReadString(MaxCommand)
           end == LineEnd(word.next)
           first == word.text \o <<Space>>
           z == first \o Read(word.next, end)
           E == {Eof, Space}
<1>1. word.text \in Seq({Eof}) /\ word.text # <<>> /\ word.next \in Position /\ word.next > Len(in)
  BY ReadsEof
<1>2. word.text[1] = Eof /\ ~IsCommand(word.text) /\ NewLine \notin ToSet(word.text)
  <2> DEFINE s == word.text
  <2>1. s \in Seq({Eof}) /\ s # <<>>
    BY <1>1
  <2> HIDE DEF s
  <2>2. Len(s) \in Nat /\ Len(s) # 0 /\ \A i \in 1..Len(s) : s[i] = Eof
    BY <2>1
  <2>3. s[1] = Eof /\ Head(s) = s[1]
    BY <2>1, <2>2
  <2>4. DOMAIN s = 1..Len(s)
    BY <2>1
  <2> QED BY <2>2, <2>3, <2>4, Distinct DEF IsCommand, ToSet, s
<1> HIDE DEF word
<1>3. Echo
  BY <1>2, ParseSteps DEF ParseCommand, word
<1>4. \A k \in Position : k > Len(in) => Chr(k) = Eof
  BY DEF Chr, Position
<1>5. end \in Nat /\ end >= word.next /\ Chr(end) = Eof
  <2> DEFINE k == word.next
             Is(x) == Chr(x) \in {NewLine, Eof} /\ \A j \in k..(x - 1) : Chr(j) \notin {NewLine, Eof}
  <2>1. k \in k..(k + Len(in)) /\ Is(k)
    BY <1>1, <1>4 DEF Position
  <2>2. end = CHOOSE x \in k..(k + Len(in)) : Is(x)
    BY Zenon DEF LineEnd
  <2> HIDE DEF Is, end
  <2>3. end \in k..(k + Len(in))
    BY <2>1, <2>2
  <2>4. end \in Position /\ end > Len(in) /\ end >= k
    BY <1>1, <2>3 DEF Position
  <2> QED BY <1>4, <2>4 DEF Position
<1>6. console' = Put(console, z) /\ pc' = "exited"
  <2>1. \/ NewLine \in ToSet(word.text)
        \/ \E x \in {LineEnd(word.next)} :
             /\ console' = Put(console, word.text \o <<Space>> \o Read(word.next, x))
             /\ pc' = IF Chr(x) = Eof THEN "exited" ELSE "parse"
    BY <1>3 DEF Echo, word
  <2>2. /\ console' = Put(console, word.text \o <<Space>> \o Read(word.next, end))
        /\ pc' = IF Chr(end) = Eof THEN "exited" ELSE "parse"
    BY <1>2, <2>1
  <2> QED BY <1>5, <2>2
<1>7. z \in Seq(E)
  <2>1. Read(word.next, end) \in Seq(E)
    <3> DEFINE m == end + 1 - word.next
    <3>1. m \in Nat
      BY <1>1, <1>5 DEF Position
    <3>2. ASSUME NEW k \in 1..m PROVE Chr(word.next + k - 1) \in E
      <4>1. word.next + k - 1 \in Position /\ word.next + k - 1 > Len(in)
        BY <1>1 DEF Position
      <4> QED BY <1>4, <4>1
    <3>3. Read(word.next, end) = [k \in 1..m |-> Chr(word.next + k - 1)]
      BY DEF Read
    <3> HIDE DEF m, E
    <3> QED BY <3>1, <3>2, <3>3
  <2>2. word.text \in Seq(E) /\ <<Space>> \in Seq(E)
    <3>1. {Eof} \subseteq E /\ Space \in E
      OBVIOUS
    <3> HIDE DEF E
    <3> QED BY <1>1, <3>1
  <2>3. first \in Seq(E)
    <3> HIDE DEF E
    <3> QED BY <2>2, ConcatProperties
  <2> HIDE DEF E, first, end
  <2> QED BY <2>1, <2>3, ConcatProperties
<1> HIDE DEF z
<1>8. console'.out = console.out \o z
  <2>1. "out" \in DOMAIN console
    BY DEF OutIs
  <2> QED BY <1>6, <2>1, PutOut
<1> QED BY <1>6, <1>7, <1>8, EndShown

\* tcs_o: the space in front of a piece is skipped, the piece displayed.
LEMMA TcsPiece ==
  ASSUME NEW a, Pieces(in, goal.text, a), goal.text \in Seq(TextChars), pc = "parse",
         NEW b, AtPiece(b), Before(a[b]), Tcs!Next, UNCHANGED goal
  PROVE  Progress(a)'
<1>1. CommandAt(a[b]) /\ Len(in) \in Nat
  BY PieceEnds DEF AtPiece, Pieces
<1>2. PICK l, e : EndsAt(a, b, l, e)
  BY PieceEnds DEF AtPiece
<1>3. CASE a[b] = at
  <2> DEFINE word == Tcs!ReadStr(at + 2)
  <2>1. at \in Position /\ at + 3 <= Len(in) /\ in[at] = "-" /\ in[at + 1] = "d"
    BY <1>1, <1>3 DEF CommandAt
  <2>2. at <= Len(in) /\ at + 1 <= Len(in)
    BY <1>1, <2>1 DEF Position
  <2>3. Tcs!Chr(at) = "-" /\ Tcs!Letter = "d"
    BY <2>1, <2>2, SameConsole DEF Chr, Tcs!Letter
  <2>4. Shown(word, TextChars, goal.text, b, l, e[l] + 1)
    BY <1>1, <1>2, <1>3, TcsReadsText DEF EndsAt
  <2>5. ~Tcs!PastEnd(word.next)
    <3>1. word.next = e[l] + 1 /\ e[l] \in Position /\ e[l] <= Len(in)
      <4>1. l \in b..l
        BY <1>2 DEF EndsAt, Piece
      <4> QED BY <1>2, <2>4, <4>1 DEF Shown, EndsAt, Piece
    <3> HIDE DEF word
    <3> QED BY <1>1, <3>1 DEF Tcs!PastEnd, Position
  <2> HIDE DEF word
  <2>6. ~Tcs!Skip
    BY <2>3 DEF Tcs!Skip
  <2>7. ~Tcs!Simple
    BY <2>3 DEF Tcs!Simple
  <2>8. ~Tcs!Exit
    <3>1. "d" # "q" /\ "d" # Tcs!Eof
      BY Zenon DEF Tcs!Eof
    <3>2. ~(at > Len(in))
      BY <1>1, <2>1, <2>2 DEF Position
    <3> QED BY <2>3, <2>5, <3>1, <3>2 DEF Tcs!Exit, Tcs!EndsInArguments, word
  <2>9. Tcs!Display
    BY <2>6, <2>7, <2>8 DEF Tcs!Next
  <2>10. at' = word.next /\ console' = Tcs!Put(console, word.text) /\ UNCHANGED <<in, pc>>
    BY <2>9 DEF Tcs!Display, word
  <2>11. "out" \in DOMAIN console' /\ console'.out = console.out \o word.text
    <3>1. "out" \in DOMAIN console
      BY DEF AtPiece, OutIs
    <3> QED BY <2>10, <3>1, TcsPutOut
  <2> QED BY <1>2, <2>4, <2>10, <2>11, AfterPiece
<1>4. CASE a[b] # at
  <2>1. a[b] = at + 1 /\ at \in Position /\ at <= Len(in) /\ in[at] = Space
    BY <1>4 DEF Before
  <2>2. Tcs!Chr(at) # "-"
    BY <2>1, SameConsole, Distinct DEF Chr
  <2>3. Tcs!Skip
    <3>1. ~(at > Len(in))
      BY <1>1, <2>1 DEF Position
    <3> QED BY <2>2, <3>1 DEF Tcs!Next, Tcs!Display, Tcs!OnCommand, Tcs!Simple, Tcs!Exit
  <2>4. at' = at + 1 /\ UNCHANGED <<in, pc, console>>
    BY <2>3 DEF Tcs!Skip
  <2>5. AtPiece(b)' /\ Before(a[b])'
    BY <2>1, <2>4 DEF AtPiece, OutIs, Before, Break
  <2> QED BY <2>4, <2>5 DEF Progress
<1> QED BY <1>3, <1>4

LEMMA TcsEnd ==
  ASSUME Len(in) \in Nat, goal.text \in Seq(TextChars), pc = "parse", at = Len(in) + 1,
         OutIs(Len(goal.text)), Tcs!Next, UNCHANGED goal
  PROVE  pc' = "exited" /\ ShowsText'
<1>1. Tcs!Chr(at) # "-" /\ ~(at <= Len(in))
  BY SameConsole, Distinct DEF Chr
<1>2. Tcs!Exit
  BY <1>1 DEF Tcs!Next, Tcs!Skip, Tcs!Display, Tcs!OnCommand, Tcs!Simple
<1>3. pc' = "exited" /\ UNCHANGED console
  BY <1>2 DEF Tcs!Exit
<1> QED BY <1>3, TcsEndShown

\* In which of the places of Progress a step is taken.
LEMMA ProgressNext ==
  ASSUME NEW a, Pieces(in, goal.text, a), Progress(a), goal.text \in Seq(TextChars),
         (goal.by = "darkbox" /\ Next) \/ (goal.by = "tcs_o" /\ Tcs!Next), UNCHANGED goal
  PROVE  Progress(a)' /\ UNCHANGED in
<1>0. Len(in) \in Nat /\ UNCHANGED in
  <2>1. Next => UNCHANGED in
    BY DEF Next, ParseCommand, Echo, Execute, Display, Simple, Quit, StartFigure, Plot
  <2>2. Tcs!Next => UNCHANGED in
    BY DEF Tcs!Next, Tcs!Skip, Tcs!Display, Tcs!Simple, Tcs!Exit
  <2> QED BY <2>1, <2>2 DEF Pieces
<1>1. CASE pc = "parse" /\ \E b : AtPiece(b) /\ Before(a[b])
  <2>1. PICK b : AtPiece(b) /\ Before(a[b])
    BY <1>1
  <2>2. at \in Position
    <3>1. CommandAt(a[b])
      BY <2>1, PieceEnds DEF AtPiece
    <3> QED BY <2>1, <3>1 DEF Before, CommandAt
  <2> QED BY <1>0, <1>1, <2>1, <2>2, ParsePiece, TcsPiece
<1>2. CASE /\ pc = "exec" /\ goal.by = "darkbox" /\ cmd = DisplayCommand
           /\ \E b : AtPiece(b) /\ at = a[b] + 3
  <2>1. Next
    BY <1>2
  <2> QED BY <1>0, <1>2, <2>1, DisplayPiece
<1>3. CASE pc = "parse" /\ at = Len(in) + 1 /\ OutIs(Len(goal.text))
  <2>1. pc' = "exited" /\ ShowsText'
    BY <1>0, <1>3, EchoEof, TcsEnd
  <2> QED BY <1>0, <2>1 DEF Progress
<1>4. CASE pc = "exited" /\ ShowsText
  <2>1. ~Next
    BY <1>4 DEF Next, ParseCommand, Echo, Execute, Executes, Display, Simple, Quit, StartFigure, Plot
  <2>2. ~Tcs!Next
    BY <1>4 DEF Tcs!Next, Tcs!Skip, Tcs!Display, Tcs!OnCommand, Tcs!Simple, Tcs!Exit
  <2> QED BY <2>1, <2>2
<1> QED BY <1>1, <1>2, <1>3, <1>4 DEF Progress

LEMMA ProgressKept ==
  ASSUME NEW a, Progress(a), UNCHANGED <<vars, goal>>
  PROVE  Progress(a)'
BY DEF Progress, AtPiece, OutIs, Before, ShowsText, Break, vars

LEMMA NextTextInv == TextInv /\ [MCNext]_mcvars => TextInv'
<1> SUFFICES ASSUME TextInv, [MCNext]_mcvars, goal'.kind = "text"
             PROVE  /\ goal'.by \in {"darkbox", "tcs_o"}
                    /\ goal'.text \in Seq(TextChars)
                    /\ (\E a : Pieces(in, goal.text, a) /\ Progress(a))'
  BY DEF TextInv
<1>1. UNCHANGED goal
  BY DEF MCNext, mcvars
<1>2. /\ goal.by \in {"darkbox", "tcs_o"} /\ goal.text \in Seq(TextChars)
      /\ \E a : Pieces(in, goal.text, a) /\ Progress(a)
  BY <1>1 DEF TextInv
<1>3. PICK a : Pieces(in, goal.text, a) /\ Progress(a)
  BY <1>2
<1>4. \/ goal.by = "darkbox" /\ Next
      \/ goal.by = "tcs_o" /\ Tcs!Next
      \/ UNCHANGED <<vars, goal>>
  BY <1>1, <1>2 DEF MCNext, DarkboxStep, TcsOStep, CoreStep, WinStep, Stopped, mcvars
<1>5. Progress(a)' /\ UNCHANGED in
  <2>1. CASE (goal.by = "darkbox" /\ Next) \/ (goal.by = "tcs_o" /\ Tcs!Next)
    BY <1>1, <1>2, <1>3, <2>1, ProgressNext
  <2>2. CASE UNCHANGED <<vars, goal>>
    BY <1>3, <2>2, ProgressKept DEF vars
  <2> QED BY <1>4, <2>1, <2>2
<1>6. Pieces(in, goal.text, a)'
  BY <1>1, <1>3, <1>5 DEF Pieces, PieceAt, Piece, Break
<1> QED BY <1>1, <1>2, <1>5, <1>6

LEMMA TextInvShows == TextInv => TextRoundTrip
<1>1. ASSUME TextInv, goal.kind = "text", pc = "exited" PROVE ShowsText
  BY <1>1 DEF TextInv, Progress
<1> QED BY <1>1 DEF TextRoundTrip, ShowsText

\* The text that is encoded is the text that is shown: darkbox and tcs_o read what
\* darkbox -e writes as that text, whatever its length, its characters (those that
\* quoting treats alike are one) and the size of the buffer that collects it.
THEOREM TextsAreShown == MCSpec => []TextRoundTrip
<1>1. TextInv /\ [MCNext]_mcvars => TextInv'
  BY NextTextInv
<1> QED BY <1>1, InitTextInv, TextInvShows, PTL DEF MCSpec

-----------------------------------------------------------------------------
(* The types of what the four programs draw.                               *)

ConIs(con) ==
  /\ {"cursor", "color", "screen", "out"} \subseteq DOMAIN con
  /\ con.cursor \in Nat \X Nat /\ DOMAIN con.screen \subseteq Nat \X Nat

LEMMA MaxOf ==
  ASSUME NEW n \in Nat, NEW S, S \subseteq 1..n, S # {}
  PROVE  Max(S) \in S
<1> DEFINE T == {n - s : s \in S}
<1>1. T \subseteq Nat /\ T # {}
  OBVIOUS
<1>2. PICK m \in T : \A k \in T : m <= k
  <2> HIDE DEF T
  <2> QED BY <1>1, NatMin
<1>3. PICK s \in S : m = n - s
  OBVIOUS
<1>4. \A y \in S : s >= y
  <2> SUFFICES ASSUME NEW y \in S PROVE s >= y
    OBVIOUS
  <2>1. n - y \in T
    OBVIOUS
  <2>2. n - s <= n - y
    BY <1>2, <1>3, <2>1
  <2> QED BY <2>2
<1>5. \E x \in S : \A y \in S : x >= y
  BY <1>4
<1> QED BY <1>5 DEF Max

LEMMA CursorAtIs ==
  ASSUME NEW con, ConIs(con), NEW text, NEW i \in Position
  PROVE  CursorAt(con, text, i) \in Nat \X Nat
<1> DEFINE newLines == {j \in 1..(i - 1) : text[j] = NewLine}
<1>1. newLines \subseteq 1..(i - 1) /\ i - 1 \in Nat
  BY DEF Position
<1>2. Cardinality(newLines) \in Nat
  <2>1. IsFiniteSet(1..(i - 1))
    BY <1>1, FS_Interval
  <2>2. IsFiniteSet(newLines)
    BY <1>1, <2>1, FS_Subset
  <2> QED BY <2>2, FS_CardinalityType
<1>3. newLines # {} => Max(newLines) \in 1..(i - 1)
  <2> HIDE DEF newLines
  <2> QED BY <1>1, MaxOf
<1>4. CursorAt(con, text, i) =
        IF newLines = {}
        THEN <<con.cursor[1] + i - 1, con.cursor[2]>>
        ELSE <<i - 1 - Max(newLines), con.cursor[2] + Cardinality(newLines)>>
  BY Zenon DEF CursorAt
<1>5. con.cursor[1] \in Nat /\ con.cursor[2] \in Nat
  BY DEF ConIs
<1> HIDE DEF newLines
<1>6. CASE newLines = {}
  <2>1. con.cursor[1] + i - 1 \in Nat
    BY <1>1, <1>5 DEF Position
  <2> QED BY <1>4, <1>5, <1>6, <2>1
<1>7. CASE newLines # {}
  <2> DEFINE m == Max(newLines)
             c == Cardinality(newLines)
  <2>1. m \in 1..(i - 1) /\ c \in Nat
    BY <1>2, <1>3, <1>7
  <2>2. CursorAt(con, text, i) = <<i - 1 - m, con.cursor[2] + c>>
    BY <1>4, <1>7
  <2> HIDE DEF m, c
  <2>3. i - 1 - m \in Nat /\ con.cursor[2] + c \in Nat
    BY <1>1, <1>5, <2>1 DEF Position
  <2> QED BY <2>2, <2>3
<1> QED BY <1>6, <1>7

LEMMA ExceptIs ==
  ASSUME NEW con, ConIs(con), NEW x \in Nat \X Nat, NEW y, DOMAIN y \subseteq Nat \X Nat,
         NEW text, NEW c1, c1 = [con EXCEPT !.cursor = x],
         NEW c2, c2 = [c1 EXCEPT !.screen = y],
         NEW c3, c3 = [c2 EXCEPT !.out = @ \o text]
  PROVE  ConIs(c3)
<1>1. /\ {"cursor", "color", "screen", "out"} \subseteq DOMAIN c1
      /\ c1.cursor = x
  BY DEF ConIs
<1>2. /\ {"cursor", "color", "screen", "out"} \subseteq DOMAIN c2
      /\ c2.cursor = x /\ c2.screen = y
  BY <1>1
<1>3. /\ {"cursor", "color", "screen", "out"} \subseteq DOMAIN c3
      /\ c3.cursor = x /\ c3.screen = y
  BY <1>2
<1> QED BY <1>3 DEF ConIs

LEMMA PutIs ==
  ASSUME NEW con, ConIs(con), NEW V, NEW text \in Seq(V)
  PROVE  ConIs(Put(con, text))
<1> DEFINE shown == {i \in DOMAIN text : text[i] # NewLine}
           cells == [i \in shown |-> CursorAt(con, text, i)]
           x == CursorAt(con, text, Len(text) + 1)
           c1 == [con EXCEPT !.cursor = x]
           new == [p \in Range(cells) \cup DOMAIN c1.screen |->
                     IF \E i \in shown : cells[i] = p
                     THEN <<text[CHOOSE i \in shown : cells[i] = p], con.color>>
                     ELSE c1.screen[p]]
           c2 == [c1 EXCEPT !.screen = new]
           c3 == [c2 EXCEPT !.out = @ \o text]
<1>1. Put(con, text) = c3
  BY Zenon DEF Put
<1>2. Len(text) + 1 \in Position /\ \A i \in DOMAIN text : i \in Position
  BY DEF Position
<1>3. x \in Nat \X Nat
  BY <1>2, CursorAtIs
<1>4. DOMAIN c1.screen \subseteq Nat \X Nat
  <2> HIDE DEF x
  <2>1. c1.screen = con.screen
    OBVIOUS
  <2> QED BY <2>1 DEF ConIs
<1>5. Range(cells) \subseteq Nat \X Nat
  <2>1. \A i \in shown : cells[i] \in Nat \X Nat
    BY <1>2, CursorAtIs
  <2>2. DOMAIN cells = shown
    OBVIOUS
  <2> HIDE DEF cells, shown
  <2> QED BY <2>1, <2>2 DEF Range
<1>6. DOMAIN new \subseteq Nat \X Nat
  <2>1. DOMAIN new = Range(cells) \cup DOMAIN c1.screen
    BY Zenon
  <2> HIDE DEF new, c1, cells
  <2> QED BY <1>4, <1>5, <2>1
<1>7. ConIs(c3)
  <2> HIDE DEF x, new
  <2> QED BY <1>3, <1>6, ExceptIs
<1> HIDE DEF c3
<1> QED BY <1>1, <1>7

LEMMA MovedIs ==
  ASSUME NEW con, ConIs(con)
  PROVE  /\ \A x, y \in Int : ConIs(Goto(con, x, y)) /\ ConIs(GotoRelative(con, x, y))
         /\ ConIs(Cleared(con))
<1>1. ASSUME NEW p \in Nat \X Nat PROVE ConIs([con EXCEPT !.cursor = p])
  BY DEF ConIs
<1>2. ASSUME NEW x \in Int, NEW y \in Int PROVE ConIs(Goto(con, x, y))
  <2>1. CASE x < 0 \/ y < 0
    BY <2>1 DEF Goto
  <2>2. CASE ~(x < 0 \/ y < 0)
    <3>1. <<x, y>> \in Nat \X Nat
      BY <2>2
    <3>2. Goto(con, x, y) = [con EXCEPT !.cursor = <<x, y>>]
      BY <2>2 DEF Goto
    <3> QED BY <1>1, <3>1, <3>2
  <2> QED BY <2>1, <2>2
<1>3. ASSUME NEW x \in Int, NEW y \in Int PROVE ConIs(GotoRelative(con, x, y))
  <2> DEFINE p == <<Inside(con.cursor[1] + x), Inside(con.cursor[2] + y)>>
  <2>1. p \in Nat \X Nat
    BY DEF ConIs, Inside
  <2>2. GotoRelative(con, x, y) = [con EXCEPT !.cursor = p]
    BY DEF GotoRelative
  <2> HIDE DEF p
  <2> QED BY <1>1, <2>1, <2>2
<1>4. ConIs(Cleared(con))
  <2>1. <<0, 0>> \in Nat \X Nat /\ DOMAIN <<>> \subseteq Nat \X Nat
    OBVIOUS
  <2>2. Cleared(con) = [[con EXCEPT !.cursor = <<0, 0>>] EXCEPT !.screen = <<>>]
    BY Zenon DEF Cleared
  <2> QED BY <2>1, <2>2 DEF ConIs
<1> QED BY <1>2, <1>3, <1>4

LEMMA ColorIs ==
  ASSUME NEW con, ConIs(con)
  PROVE  /\ \A color : ConIs([con EXCEPT !.color = color])
         /\ \A n : ConIs(Colored(con, n))
         /\ ConIs(ColorReset(con))
<1>1. ASSUME NEW color PROVE ConIs([con EXCEPT !.color = color])
  BY DEF ConIs
<1>2. ASSUME NEW n PROVE ConIs(Colored(con, n))
  <2>1. \E color : Colored(con, n) = [con EXCEPT !.color = color]
    BY Zenon DEF Colored
  <2> QED BY <1>1, <2>1
<1>3. ConIs(ColorReset(con))
  BY DEF ConIs, ColorReset
<1> QED BY <1>1, <1>2, <1>3

\* The cell a figure comes to.
LEMMA FigureCell ==
  ASSUME NEW letter \in FigureLetters, NEW v \in Seq(Int), Len(v) = Arity(letter),
         NEW f, NEW c, SoFar(letter, v, f, c)
  PROVE  Cell(f) \in Int \X Int
<1>1. CASE letter = "l"
  <2>1. Len(v) = 4
    BY <1>1, Arities
  <2>2. PICK k, l, e \in Nat : f = LineAfter(v, k, l, e)
    BY <1>1 DEF SoFar, LineSoFar
  <2> DEFINE x == Place(v, k, l)[1]
             y == Place(v, k, l)[2]
  <2>3. x \in Int /\ y \in Int
    BY <2>1, PlaceIs
  <2>4. f.kind = "line" /\ f.x = x /\ f.y = y
    BY <2>2 DEF LineAfter
  <2>5. Cell(f) = <<x, y>>
    BY <2>4 DEF Cell
  <2> HIDE DEF x, y
  <2> QED BY <2>3, <2>5
<1>2. CASE letter = "b"
  <2>1. v[1] \in Int /\ v[2] \in Int /\ v[3] \in Int /\ v[4] \in Int
    BY <1>2, Arities, BoxArgs
  <2>2. PICK i \in v[1]..(v[1] + v[3] - 1), j \in v[2]..(v[2] + v[4] - 1) : f = BoxAfter(v, i, j)
    BY <1>2 DEF SoFar, BoxSoFar
  <2>3. i \in Int /\ j \in Int
    BY <2>1
  <2>4. f.kind = "box" /\ f.ix = i /\ f.iy = j
    BY <2>2, BoxFields
  <2>5. Cell(f) = <<i, j>>
    BY <2>4 DEF Cell
  <2> QED BY <2>3, <2>5
<1>3. CASE letter = "i"
  <2>1. Len(v) = 3
    BY <1>3, Arities
  <2>2. PICK arc, m, n, e :
          \E o \in 1..8 : /\ f = CircleAfter(v, m, n, e, o)
                          /\ Arc(v[3], arc, m, n, e)
                          /\ CircleCells(v, c, arc, m, n, o)
    BY <1>3 DEF SoFar, CircleSoFar
  <2>3. PICK o \in 1..8 : f = CircleAfter(v, m, n, e, o) /\ CircleCells(v, c, arc, m, n, o)
    BY <2>2
  <2>4. m \in Nat /\ n \in Nat
    BY <2>2 DEF Arc, ArcPoint
  <2>5. CircleCells(v, c \cup {Cell(f)}, arc, m, n, o + 1)
    BY <2>1, <2>3, <2>4, CircleTurn
  <2> QED BY <2>5 DEF CircleCells
<1> QED BY <1>1, <1>2, <1>3 DEF FigureLetters

LEMMA ScanText ==
  ASSUME NEW quoted, NEW start \in Position, NEW max \in Nat
  PROVE  Scan(quoted, start, max).text \in Seq(Written)
<1>1. PICK f : Scans(quoted, f, max) /\ Scan(quoted, start, max) = f[max][start]
  BY ScanSolved
<1> DEFINE S == {room \in 0..max : \A k \in Position : f[room][k].text \in Seq(Written)}
<1>2. ASSUME NEW room \in 0..max
      PROVE  f[room] = IF room = 0 THEN Shorter ELSE Longer(quoted, f[room - 1])
  BY <1>1 DEF Scans
<1>3. <<>> \in Seq(Written)
  OBVIOUS
<1>4. 0 \in S
  <2>1. f[0] = Shorter
    BY <1>2
  <2>2. \A k \in Position : f[0][k].text = <<>>
    BY <2>1, LongerAt DEF Stops
  <2>3. \A k \in Position : f[0][k].text \in Seq(Written)
    BY <1>3, <2>2
  <2> QED BY <2>3
<1>5. ASSUME NEW room \in 1..max, room - 1 \in S PROVE room \in S
  <2>1. f[room] = Longer(quoted, f[room - 1])
    BY <1>2
  <2> DEFINE g == f[room - 1]
  <2>2. \A k \in Position : g[k].text \in Seq(Written)
    BY <1>5
  <2> HIDE DEF g
  <2>3. ASSUME NEW c \in Nat, NEW k \in Position PROVE <<Chr(c)>> \o g[k].text \in Seq(Written)
    <3>1. <<Chr(c)>> \in Seq(Written)
      BY DEF Written
    <3> QED BY <2>2, <3>1, ConcatProperties
  <2>4. ASSUME NEW k \in Position PROVE Longer(quoted, g)[k].text \in Seq(Written)
    <3>1. k \in Nat /\ k + 1 \in Nat /\ k + 1 \in Position /\ k + 2 \in Position
      BY DEF Position
    <3> DEFINE r == Longer(quoted, g)[k]
    <3>2. CASE Chr(k) \in Ends(quoted)
      <4>1. Stops(r, k)
        BY <3>2, LongerAt
      <4> QED BY <1>3, <4>1 DEF Stops
    <3>3. CASE Chr(k) \notin Ends(quoted) /\ Chr(k) # Escape
      <4>1. Follows(r, Chr(k), g[k + 1])
        BY <3>3, LongerAt
      <4> QED BY <2>3, <3>1, <4>1 DEF Follows
    <3>4. CASE Chr(k) \notin Ends(quoted) /\ Chr(k) = Escape
      <4>1. Follows(r, Chr(k + 1), g[k + 2])
        BY <3>4, LongerAt
      <4>2. k + 2 = (k + 1) + 1 /\ k + 1 \in Position
        BY <3>1
      <4> QED BY <2>3, <3>1, <4>1, <4>2 DEF Follows
    <3> QED BY <3>2, <3>3, <3>4
  <2>5. \A k \in Position : f[room][k].text \in Seq(Written)
    BY <2>1, <2>4 DEF g
  <2> QED BY <2>5
<1>6. max \in S
  <2> HIDE DEF S
  <2> QED BY <1>4, <1>5, UpTo
<1> QED BY <1>1, <1>6

LEMMA ReadStringText ==
  ASSUME in \in Seq(Chars), at \in Position, NEW max \in Nat
  PROVE  ReadString(max).text \in Seq(Written)
<1>1. SkipSpaces(at) \in Position /\ SkipSpaces(at) + 1 \in Position
  BY SkipSpacesIs DEF Position
<1> QED BY <1>1, ScanText DEF ReadString

LEMMA Effects ==
  ASSUME NEW letter, NEW con, ConIs(con), origin \in Int \X Int,
         NEW v \in Seq(Int), Len(v) = Arity(letter)
  PROVE  ConIs(Effect(letter, con, v))
<1>1. origin[1] \in Int /\ origin[2] \in Int
  OBVIOUS
<1>2. CASE letter = "a"
  <2> DEFINE t == <<CharOfCode(v[1])>>
  <2>1. t \in Seq({CharOfCode(v[1])})
    OBVIOUS
  <2>2. Effect(letter, con, v) = Put(con, t)
    BY <1>2 DEF Effect
  <2> HIDE DEF t
  <2> QED BY <2>1, <2>2, PutIs
<1>3. CASE letter = "n"
  <2>1. <<NewLine>> \in Seq({NewLine})
    OBVIOUS
  <2>2. Effect(letter, con, v) = Put(con, <<NewLine>>)
    BY <1>3 DEF Effect
  <2> QED BY <2>1, <2>2, PutIs
<1>4. CASE letter = "g" \/ letter = "j"
  <2>1. Len(v) = 2
    BY <1>4 DEF Arity
  <2>2. v[1] \in Int /\ v[2] \in Int
    BY <2>1
  <2>3. origin[1] + v[1] \in Int /\ origin[2] + v[2] \in Int
    BY <1>1, <2>2
  <2>4. Effect(letter, con, v) \in {Goto(con, origin[1] + v[1], origin[2] + v[2]),
                                     GotoRelative(con, v[1], v[2])}
    BY <1>4 DEF Effect
  <2> QED BY <2>2, <2>3, <2>4, MovedIs
<1>5. CASE letter \notin {"a", "n", "g", "j"}
  <2>1. Effect(letter, con, v) \in {Colored(con, v[1]), ColorReset(con), Cleared(con), con}
    BY <1>5, Zenon DEF Effect
  <2> QED BY <2>1, ColorIs, MovedIs
<1> QED BY <1>2, <1>3, <1>4, <1>5

-----------------------------------------------------------------------------
(* The types of darkbox.                                                   *)

CommandOK ==
  /\ cmd \in [letters : Seq(Letters), count : 0..MaxInt, next : Nat]
  /\ pc \in {"exec", "figure"} => cmd.count > 0 /\ cmd.next \in DOMAIN cmd.letters

DrawingOK ==
  /\ pc # "figure" => fig = NoFigure
  /\ drawn.cells \subseteq Int \X Int

\* The inductive invariant: a command that runs has a letter and a turn left, and
\* there is a figure exactly while one is drawn.
DarkboxInv ==
  /\ IInv
  /\ pc \in {"parse", "exec", "figure", "exited"}
  /\ CommandOK /\ DrawingOK
  /\ origin \in Int \X Int
  /\ ConIs(console)

LEMMA DarkboxInvTyped == DarkboxInv => TypeOK
<1> SUFFICES ASSUME DarkboxInv PROVE TypeOK
  OBVIOUS
<1>1. /\ in \in Seq(Chars) /\ at \in Position /\ pc \in {"parse", "exec", "figure", "exited"}
      /\ origin \in Int \X Int /\ drawn.cells \subseteq Int \X Int /\ ConsoleOK
  BY DEF DarkboxInv, IInv, DrawingOK, ConIs, ConsoleOK
<1>2. /\ cmd.letters \in Seq(Letters) /\ cmd.count \in 0..MaxInt
      /\ pc \in {"exec", "figure"} => cmd.count > 0 /\ cmd.next \in DOMAIN cmd.letters
  BY DEF DarkboxInv, CommandOK
<1>3. /\ fig.kind \in {"none", "line", "box", "circle"}
      /\ fig.kind = "none" <=> pc # "figure"
  <2>1. CASE pc # "figure"
    BY <2>1 DEF DarkboxInv, DrawingOK, NoFigure
  <2>2. CASE pc = "figure"
    <3>1. PICK letter, v, c : letter \in FigureLetters /\ SoFar(letter, v, fig, c)
      BY <2>2 DEF DarkboxInv, IInv, LastFigure
    <3>2. fig.kind \in {"line", "box", "circle"}
      BY <3>1, FigureKind DEF FigureLetters
    <3> QED BY <2>2, <3>2
  <2> QED BY <2>1, <2>2
<1> QED BY <1>1, <1>2, <1>3 DEF TypeOK

LEMMA DarkboxStarts == in \in Seq(Chars) /\ Started => DarkboxInv
<1> SUFFICES ASSUME in \in Seq(Chars), Started PROVE DarkboxInv
  OBVIOUS
<1>1. IInv
  BY InitIInv DEF Init
<1>2. /\ pc = "parse" /\ cmd = NoCommand /\ fig = NoFigure /\ origin = <<0, 0>>
      /\ drawn = [letter |-> "none", args |-> <<>>, cells |-> {}]
      /\ console = [cursor |-> <<0, 0>>, color |-> Plain, screen |-> <<>>, out |-> <<>>]
  BY DEF Started, Began
<1>3. CommandOK
  <2>1. <<>> \in Seq(Letters) /\ 0 \in 0..MaxInt
    BY CharsAssumption
  <2> QED BY <1>2, <2>1 DEF CommandOK, NoCommand
<1>4. DrawingOK
  BY <1>2 DEF DrawingOK
<1>5. ConIs(console)
  BY <1>2 DEF ConIs
<1> QED BY <1>1, <1>2, <1>3, <1>4, <1>5 DEF DarkboxInv

LEMMA NextLetterOK ==
  ASSUME CommandOK, pc \in {"exec", "figure"}, NextLetter
  PROVE  CommandOK' /\ pc' \in {"parse", "exec"}
<1>1. /\ cmd.letters \in Seq(Letters) /\ cmd.count \in 1..MaxInt /\ cmd.next \in 1..Len(cmd.letters)
      /\ cmd \in [letters : Seq(Letters), count : 0..MaxInt, next : Nat]
  BY DEF CommandOK
<1>2. Len(cmd.letters) \in Nat /\ MaxInt \in Nat
  BY <1>1, CharsAssumption
<1>3. CASE cmd.next < Len(cmd.letters)
  <2>1. cmd' = [cmd EXCEPT !.next = @ + 1]
    BY <1>3 DEF NextLetter
  <2>2. /\ cmd'.letters = cmd.letters /\ cmd'.count = cmd.count /\ cmd'.next = cmd.next + 1
        /\ cmd' \in [letters : Seq(Letters), count : 0..MaxInt, next : Nat]
    BY <1>1, <1>2, <2>1
  <2> QED BY <1>1, <1>2, <1>3, <2>2 DEF CommandOK, NextLetter
<1>4. CASE cmd.next = Len(cmd.letters)
  <2>1. cmd' = [cmd EXCEPT !.next = 1, !.count = @ - 1]
    BY <1>1, <1>4 DEF NextLetter
  <2>2. cmd.count - 1 \in 0..MaxInt
    BY <1>1, <1>2
  <2>3. /\ cmd'.letters = cmd.letters /\ cmd'.count = cmd.count - 1 /\ cmd'.next = 1
        /\ cmd' \in [letters : Seq(Letters), count : 0..MaxInt, next : Nat]
    BY <1>1, <2>1, <2>2
  <2>4. pc' = IF cmd.count = 1 THEN "parse" ELSE "exec"
    BY <1>4 DEF NextLetter
  <2>5. 1 \in 1..Len(cmd.letters)
    BY <1>1, <1>2
  <2> QED BY <1>1, <1>2, <2>3, <2>4, <2>5 DEF CommandOK
<1> QED BY <1>1, <1>2, <1>3, <1>4

LEMMA WordLetters ==
  ASSUME NEW V, NEW word \in Seq(V), IsCommand(word),
         NEW letters, letters = CommandLetters(word), ToSet(letters) \subseteq Letters
  PROVE  letters \in Seq(Letters) /\ Count(word) \in 0..MaxInt
<1>1. Len(word) \in Nat /\ Len(word) > 0
  BY DEF IsCommand
<1>2. letters \in Seq(V)
  <2>1. CASE Counted(word)
    <3>1. letters = SubSeq(word, 3, Len(word)) /\ Len(word) > 1
      BY <2>1 DEF CommandLetters, Counted
    <3> QED BY <1>1, <3>1
  <2>2. CASE ~Counted(word)
    <3>1. letters = SubSeq(word, 2, Len(word))
      BY <2>2 DEF CommandLetters
    <3> QED BY <1>1, <3>1
  <2> QED BY <2>1, <2>2
<1>3. letters \in Seq(Letters)
  <2>1. Len(letters) \in Nat /\ DOMAIN letters = 1..Len(letters)
    BY <1>2
  <2>2. \A i \in 1..Len(letters) : letters[i] \in Letters
    BY <2>1 DEF ToSet
  <2>3. letters = [i \in 1..Len(letters) |-> letters[i]]
    BY <1>2
  <2> HIDE DEF Letters
  <2> QED BY <2>1, <2>2, <2>3
<1>4. Count(word) \in 0..MaxInt
  <2>1. CASE Counted(word)
    <3>1. \E n \in 0..MaxInt : Numbers[n] = word[2]
      BY <2>1 DEF Counted, Digits
    <3>2. NumberOf(word[2]) \in 0..MaxInt
      BY <3>1 DEF NumberOf
    <3> QED BY <2>1, <3>2 DEF Count
  <2>2. CASE ~Counted(word)
    BY <2>2, CharsAssumption DEF Count
  <2> QED BY <2>1, <2>2
<1> QED BY <1>3, <1>4

LEMMA PairOfInts ==
  ASSUME NEW v \in Seq(Int), Len(v) = 2
  PROVE  v \in Int \X Int
<1>1. v[1] \in Int /\ v[2] \in Int
  OBVIOUS
<1>2. v \in [1..2 -> Int] /\ <<v[1], v[2]>> \in [1..2 -> Int]
  <2>1. <<v[1], v[2]>> \in Seq(Int) /\ Len(<<v[1], v[2]>>) = 2
    BY <1>1
  <2> QED BY <2>1
<1>3. \A i \in 1..2 : v[i] = <<v[1], v[2]>>[i]
  OBVIOUS
<1>4. v = <<v[1], v[2]>>
  BY <1>2, <1>3
<1> QED BY <1>1, <1>4

LEMMA ParseCommandTypes == DarkboxInv /\ ParseCommand => DarkboxInv'
<1> SUFFICES ASSUME DarkboxInv, ParseCommand PROVE DarkboxInv'
  OBVIOUS
<1> DEFINE word == ReadString(MaxCommand)
           letters == CommandLetters(word.text)
           valid == letters # <<>> /\ ToSet(letters) \subseteq Letters
<1>1. /\ pc = "parse" /\ IsCommand(word.text) /\ UNCHANGED <<in, origin, fig, drawn, console>>
      /\ IF valid /\ Count(word.text) > 0
         THEN /\ pc' = "exec"
              /\ cmd' = [letters |-> letters, count |-> Count(word.text), next |-> 1]
         ELSE UNCHANGED <<pc, cmd>>
  BY Zenon DEF ParseCommand
<1>2. IInv'
  BY ParseCommandIInv DEF DarkboxInv
<1>3. word.text \in Seq(Written)
  BY ReadStringText, DarkboxAssumption DEF DarkboxInv, IInv
<1>4. CommandOK' /\ pc' \in {"parse", "exec"}
  <2>1. CASE valid /\ Count(word.text) > 0
    <3> DEFINE n == Count(word.text)
    <3>1. letters \in Seq(Letters) /\ n \in 0..MaxInt /\ n > 0 /\ letters # <<>>
      BY <1>1, <1>3, <2>1, WordLetters
    <3>2. pc' = "exec" /\ cmd' = [letters |-> letters, count |-> n, next |-> 1]
      BY <1>1, <2>1
    <3> HIDE DEF word, letters, n
    <3>3. cmd' \in [letters : Seq(Letters), count : 0..MaxInt, next : Nat]
      BY <3>1, <3>2
    <3>4. cmd'.letters = letters /\ cmd'.count = n /\ cmd'.next = 1 /\ 1 \in DOMAIN letters
      BY <3>1, <3>2
    <3> QED BY <3>1, <3>2, <3>3, <3>4 DEF CommandOK
  <2>2. CASE ~(valid /\ Count(word.text) > 0)
    <3>1. UNCHANGED <<pc, cmd>>
      BY <1>1, <2>2
    <3> QED BY <1>1, <3>1 DEF CommandOK, DarkboxInv
  <2> QED BY <2>1, <2>2
<1>5. DrawingOK'
  BY <1>1, <1>4 DEF DrawingOK, DarkboxInv
<1> QED BY <1>1, <1>2, <1>4, <1>5 DEF DarkboxInv

LEMMA EchoTypes == DarkboxInv /\ Echo => DarkboxInv'
<1> SUFFICES ASSUME DarkboxInv, Echo PROVE DarkboxInv'
  OBVIOUS
<1> DEFINE word == ReadString(MaxCommand)
<1>1. /\ pc = "parse" /\ UNCHANGED <<in, cmd, origin, fig, drawn>> /\ pc' \in {"parse", "exited"}
      /\ \/ console' = Put(console, word.text \o <<Space>>)
         \/ console' = Put(console, word.text \o <<Space>> \o Read(word.next, LineEnd(word.next)))
  BY Zenon DEF Echo
<1>2. IInv'
  BY EchoIInv DEF DarkboxInv
<1>3. word.text \in Seq(Written) /\ word.next \in Position
  BY ReadStringText, ReadStringIs, DarkboxAssumption DEF DarkboxInv, IInv
<1>4. ConIs(console')
  <2> DEFINE V == Written \cup {Space}
             end == LineEnd(word.next)
             rest == Read(word.next, end)
  <2> HIDE DEF word
  <2>1. word.text \o <<Space>> \in Seq(V)
    <3>1. word.text \in Seq(V) /\ <<Space>> \in Seq(V)
      BY <1>3
    <3> QED BY <3>1, ConcatProperties
  <2>2. rest \in Seq(V)
    <3>1. end \in Position /\ word.next \in Position
      BY <1>3, LineEndIs DEF DarkboxInv, IInv
    <3> HIDE DEF end
    <3> DEFINE a == word.next
               n == end + 1 - a
    <3>2. a \in Nat /\ a > 0 /\ n \in Int
      BY <3>1 DEF Position
    <3>3. \A k \in 1..n : Chr(a + k - 1) \in V
      <4>1. \A k \in 1..n : a + k - 1 \in Nat
        BY <3>2
      <4> QED BY <4>1 DEF Written
    <3>4. rest = [k \in 1..n |-> Chr(a + k - 1)]
      BY Zenon DEF Read
    <3> HIDE DEF a, n, V, rest
    <3>5. CASE n \in Nat
      BY <3>3, <3>4, <3>5
    <3>6. CASE n \notin Nat
      <4>1. 1..n = 1..0
        BY <3>2, <3>6
      <4>2. rest = [k \in 1..0 |-> Chr(a + k - 1)]
        BY <3>4, <4>1
      <4> QED BY <4>2
    <3> QED BY <3>5, <3>6
  <2> DEFINE front == word.text \o <<Space>>
  <2> HIDE DEF V, rest, front
  <2>3. front \o rest \in Seq(V)
    BY <2>1, <2>2, ConcatProperties DEF front
  <2>4. console' = Put(console, front) \/ console' = Put(console, front \o rest)
    BY <1>1 DEF front, rest
  <2> QED BY <2>1, <2>3, <2>4, PutIs DEF DarkboxInv, front
<1>5. CommandOK' /\ DrawingOK'
  BY <1>1 DEF CommandOK, DrawingOK, DarkboxInv
<1> QED BY <1>1, <1>2, <1>4, <1>5 DEF DarkboxInv

LEMMA DisplayTypes == DarkboxInv /\ Display => DarkboxInv'
<1> SUFFICES ASSUME DarkboxInv, Display PROVE DarkboxInv'
  OBVIOUS
<1> DEFINE word == ReadString(MaxText)
<1>1. /\ pc = "exec" /\ UNCHANGED <<in, origin, fig, drawn>> /\ NextLetter
      /\ console' = Put(console, word.text)
  BY Zenon DEF Display, Executes
<1>2. IInv'
  BY DisplayIInv DEF DarkboxInv
<1>3. word.text \in Seq(Written)
  BY ReadStringText, DarkboxAssumption DEF DarkboxInv, IInv
<1>4. ConIs(console')
  <2> HIDE DEF word
  <2> QED BY <1>1, <1>3, PutIs DEF DarkboxInv
<1>5. CommandOK' /\ pc' \in {"parse", "exec"}
  BY <1>1, NextLetterOK DEF DarkboxInv
<1>6. DrawingOK'
  BY <1>1, <1>5 DEF DrawingOK, DarkboxInv
<1> QED BY <1>1, <1>2, <1>4, <1>5, <1>6 DEF DarkboxInv

LEMMA SimpleTypes == DarkboxInv /\ Simple => DarkboxInv'
<1> SUFFICES ASSUME DarkboxInv, Simple PROVE DarkboxInv'
  OBVIOUS
<1> DEFINE v == ReadInts(Arity(Letter)).values
<1>1. /\ pc = "exec" /\ UNCHANGED <<in, fig, drawn>> /\ NextLetter
      /\ console' = Effect(Letter, console, v)
      /\ origin' = IF Letter = "o" THEN v ELSE origin
  BY Zenon DEF Simple, Executes
<1>2. IInv'
  BY SimpleIInv DEF DarkboxInv
<1>3. v \in Seq(Int) /\ Len(v) = Arity(Letter)
  BY ReadIntsIs, ArityNat DEF DarkboxInv, IInv
<1> HIDE DEF v
<1>4. ConIs(console')
  BY <1>1, <1>3, Effects DEF DarkboxInv
<1>5. CommandOK' /\ pc' \in {"parse", "exec"}
  BY <1>1, NextLetterOK DEF DarkboxInv
<1>6. DrawingOK'
  BY <1>1, <1>5 DEF DrawingOK, DarkboxInv
<1>7. origin' \in Int \X Int
  <2>1. CASE Letter = "o"
    <3>1. Len(v) = 2 /\ origin' = v
      BY <1>1, <1>3, <2>1 DEF Arity
    <3> QED BY <1>3, <3>1, PairOfInts
  <2>2. CASE Letter # "o"
    BY <1>1, <2>2 DEF DarkboxInv
  <2> QED BY <2>1, <2>2
<1> QED BY <1>1, <1>2, <1>4, <1>5, <1>6, <1>7 DEF DarkboxInv

LEMMA QuitTypes == DarkboxInv /\ Quit => DarkboxInv'
<1> SUFFICES ASSUME DarkboxInv, Quit PROVE DarkboxInv'
  OBVIOUS
<1>1. pc = "exec" /\ pc' = "exited" /\ UNCHANGED <<cmd, origin, fig, drawn, console>>
  BY DEF Quit, Executes
<1>2. IInv'
  BY QuitIInv DEF DarkboxInv
<1> QED BY <1>1, <1>2 DEF DarkboxInv, CommandOK, DrawingOK

LEMMA StartFigureTypes == DarkboxInv /\ StartFigure => DarkboxInv'
<1> SUFFICES ASSUME DarkboxInv, StartFigure PROVE DarkboxInv'
  OBVIOUS
<1> DEFINE v == ReadInts(Arity(Letter)).values
           f == Figure(Letter, v)
<1>1. /\ pc = "exec" /\ UNCHANGED <<origin, console>>
      /\ drawn' = Drawing(Letter, v, {})
      /\ Empty(f) => NextLetter /\ UNCHANGED fig
      /\ ~Empty(f) => pc' = "figure" /\ UNCHANGED cmd
  BY Zenon DEF StartFigure, Executes, Drawing
<1>2. IInv'
  BY StartFigureIInv DEF DarkboxInv
<1> HIDE DEF v, f
<1>3. drawn'.cells = {}
  BY <1>1, DrawingCells
<1>4. CASE Empty(f)
  <2>1. CommandOK' /\ pc' \in {"parse", "exec"}
    BY <1>1, <1>4, NextLetterOK DEF DarkboxInv
  <2>2. DrawingOK'
    BY <1>1, <1>3, <1>4, <2>1 DEF DrawingOK, DarkboxInv
  <2> QED BY <1>1, <1>2, <2>1, <2>2 DEF DarkboxInv
<1>5. CASE ~Empty(f)
  <2>1. pc' = "figure" /\ UNCHANGED cmd
    BY <1>1, <1>5
  <2>2. CommandOK' /\ DrawingOK'
    BY <1>1, <1>3, <2>1 DEF CommandOK, DrawingOK, DarkboxInv
  <2> QED BY <1>1, <1>2, <2>1, <2>2 DEF DarkboxInv
<1> QED BY <1>4, <1>5

LEMMA PlotTypes == DarkboxInv /\ Plot => DarkboxInv'
<1> SUFFICES ASSUME DarkboxInv, Plot PROVE DarkboxInv'
  OBVIOUS
<1> DEFINE cell == Cell(fig)
           to == Goto(console, origin[1] + cell[1], origin[2] + cell[2])
<1>1. /\ pc = "figure" /\ UNCHANGED <<in, at, origin>>
      /\ Plots(fig) => /\ console' = Put(to, <<Space>>)
                       /\ drawn' = [drawn EXCEPT !.cells = @ \cup {cell}]
      /\ ~Plots(fig) => UNCHANGED <<console, drawn>>
      /\ AtEnd(fig) => fig' = NoFigure /\ NextLetter
      /\ ~AtEnd(fig) => UNCHANGED <<pc, cmd>>
  BY Zenon DEF Plot
<1>2. IInv'
  BY PlotIInv DEF DarkboxInv
<1>3. PICK letter, v, c :
        /\ drawn = Drawing(letter, v, c)
        /\ letter \in FigureLetters /\ v \in Seq(Int) /\ Len(v) = Arity(letter)
        /\ SoFar(letter, v, fig, c)
  BY <1>1 DEF DarkboxInv, IInv, LastFigure
<1>4. cell \in Int \X Int
  BY <1>3, FigureCell
<1> HIDE DEF cell
<1>5. ConIs(console')
  <2>1. origin[1] + cell[1] \in Int /\ origin[2] + cell[2] \in Int
    BY <1>4 DEF DarkboxInv
  <2>2. ConIs(to)
    BY <2>1, MovedIs DEF DarkboxInv
  <2>3. <<Space>> \in Seq({Space})
    OBVIOUS
  <2> HIDE DEF to
  <2>4. ConIs(Put(to, <<Space>>))
    BY <2>2, <2>3, PutIs
  <2> QED BY <1>1, <2>4 DEF DarkboxInv
<1>6. drawn'.cells \subseteq Int \X Int
  <2>1. drawn.cells = c /\ c \subseteq Int \X Int
    BY <1>3, DrawingCells DEF DarkboxInv, DrawingOK
  <2>2. CASE Plots(fig)
    <3> DEFINE d == c \cup {cell}
    <3>1. drawn' = [drawn EXCEPT !.cells = d] /\ d \subseteq Int \X Int
      BY <1>1, <1>4, <2>1, <2>2
    <3> HIDE DEF d
    <3>2. drawn' = Drawing(letter, v, d)
      BY <1>3, <3>1, DrawingCells
    <3>3. drawn'.cells = d
      BY <3>2, DrawingCells
    <3> QED BY <3>1, <3>3
  <2>3. CASE ~Plots(fig)
    BY <1>1, <2>1, <2>3
  <2> QED BY <2>2, <2>3
<1>7. CASE AtEnd(fig)
  <2>1. CommandOK' /\ pc' \in {"parse", "exec"}
    BY <1>1, <1>7, NextLetterOK DEF DarkboxInv
  <2>2. DrawingOK'
    BY <1>1, <1>6, <1>7 DEF DrawingOK
  <2> QED BY <1>1, <1>2, <1>5, <2>1, <2>2 DEF DarkboxInv
<1>8. CASE ~AtEnd(fig)
  <2>1. UNCHANGED <<pc, cmd>>
    BY <1>1, <1>8
  <2>2. CommandOK' /\ DrawingOK'
    BY <1>1, <1>6, <2>1 DEF CommandOK, DrawingOK, DarkboxInv
  <2> QED BY <1>1, <1>2, <1>5, <2>1, <2>2 DEF DarkboxInv
<1> QED BY <1>7, <1>8

LEMMA NextDarkboxInv == DarkboxInv /\ [Next]_vars => DarkboxInv'
<1> SUFFICES ASSUME DarkboxInv, [Next]_vars PROVE DarkboxInv'
  OBVIOUS
<1>1. CASE UNCHANGED vars
  <2>1. IInv'
    BY <1>1, NextIInv DEF DarkboxInv
  <2> QED BY <1>1, <2>1 DEF vars, DarkboxInv, CommandOK, DrawingOK
<1> QED BY <1>1, ParseCommandTypes, EchoTypes, DisplayTypes, SimpleTypes, QuitTypes,
           StartFigureTypes, PlotTypes DEF Next, Execute

-----------------------------------------------------------------------------
(* The types of tcs_o.                                                     *)

LEMMA TcsConsole ==
  ASSUME NEW con
  PROVE  /\ \A text : Tcs!Put(con, text) = Put(con, text)
         /\ \A x, y : Tcs!Goto(con, x, y) = Goto(con, x, y)
         /\ \A n : Tcs!Colored(con, n) = Colored(con, n) /\ Tcs!CharOfCode(n) = CharOfCode(n)
         /\ Tcs!Cleared(con) = Cleared(con)
<1>1. \A text : Tcs!Put(con, text) = Put(con, text)
  BY Zenon DEF Tcs!Put, Put, Tcs!CursorAt, CursorAt, Tcs!Max, Max, Tcs!Range, Range,
               Tcs!Cardinality, Cardinality, Tcs!NewLine, NewLine
<1>2. \A x, y : Tcs!Goto(con, x, y) = Goto(con, x, y)
  BY Zenon DEF Tcs!Goto, Goto
<1>3. \A n : Tcs!Colored(con, n) = Colored(con, n)
  BY Zenon DEF Tcs!Colored, Colored
<1>4. \A n : Tcs!CharOfCode(n) = CharOfCode(n)
  BY Zenon DEF Tcs!CharOfCode, CharOfCode
<1>5. Tcs!Cleared(con) = Cleared(con)
  BY Zenon DEF Tcs!Cleared, Cleared
<1> QED BY <1>1, <1>2, <1>3, <1>4, <1>5

LEMMA TcsIntegers == \A word : Tcs!IntegerOf(word) = IntegerOf(word)
BY Zenon DEF Tcs!IntegerOf, IntegerOf, Tcs!Digits, Digits, Tcs!Numbers, Numbers,
             Tcs!NumberOf, NumberOf

LEMMA ReadLoopIs ==
  ASSUME NEW quoted, NEW start \in Nat, NEW max \in Nat
  PROVE  Tcs!ReadLoop(quoted, start, max) \in [text : Seq(Written), next : Position]
<1>1. PICK f : LoopTurns(quoted, f, max) /\ Tcs!ReadLoop(quoted, start, max) = f[max][start]
  BY LoopSolved
<1>2. f[max] \in LoopResults
  BY <1>1 DEF LoopTurns
<1> QED BY <1>1, <1>2 DEF LoopResults, Written

LEMMA ReadStrIs ==
  ASSUME in \in Seq(Chars), NEW i \in Position
  PROVE  Tcs!ReadStr(i).text \in Seq(Written) /\ Tcs!ReadStr(i).next \in Position
<1> DEFINE first == SkipSpaces(i)
           rest == Tcs!ReadLoop(FALSE, first + 1, MaxText - 1)
           R == [text : Seq(Written), next : Position]
<1>1. first \in Nat /\ first + 1 \in Nat /\ first + 1 \in Position /\ MaxText - 1 \in Nat /\ MaxText \in Nat
  BY SkipSpacesIs, DarkboxAssumption DEF Position
<1>2. Tcs!ReadStr(i) = CASE first > Len(in)    -> [text |-> <<>>, next |-> first + 1]
                         [] Chr(first) = Quote -> Tcs!ReadLoop(TRUE, first + 1, MaxText)
                         [] OTHER              -> [rest EXCEPT !.text = <<Chr(first)>> \o @]
  BY SameConsole, Zenon DEF Tcs!ReadStr
<1>3. rest \in R /\ Tcs!ReadLoop(TRUE, first + 1, MaxText) \in R
  <2> HIDE DEF first
  <2> QED BY <1>1, ReadLoopIs
<1> HIDE DEF first, rest
<1>4. [text |-> <<>>, next |-> first + 1] \in R
  <2>1. <<>> \in Seq(Written)
    OBVIOUS
  <2> QED BY <1>1, <2>1
<1>5. [rest EXCEPT !.text = <<Chr(first)>> \o @] \in R
  <2>1. <<Chr(first)>> \in Seq(Written) /\ rest.text \in Seq(Written)
    <3>1. Chr(first) \in Written
      BY <1>1 DEF Written
    <3>2. rest.text \in Seq(Written)
      BY <1>3
    <3> QED BY <3>1, <3>2
  <2>2. <<Chr(first)>> \o rest.text \in Seq(Written)
    BY <2>1, ConcatProperties
  <2> DEFINE t == <<Chr(first)>> \o rest.text
  <2>3. t \in Seq(Written)
    BY <2>2
  <2> HIDE DEF t
  <2>4. [rest EXCEPT !.text = t] \in R
    BY <1>3, <2>3
  <2> QED BY <2>4 DEF t
<1>6. Tcs!ReadStr(i) \in R
  <2> HIDE DEF R
  <2>1. CASE first > Len(in)
    <3>1. Chr(first) # Quote
      <4>1. ~(first <= Len(in))
        BY <1>1, <2>1
      <4>2. Chr(first) = Eof
        BY <4>1, Zenon DEF Chr
      <4> QED BY <4>2, Distinct
    <3>2. Tcs!ReadStr(i) = [text |-> <<>>, next |-> first + 1]
      BY <1>2, <2>1, <3>1
    <3> QED BY <1>4, <3>2
  <2>2. CASE ~(first > Len(in)) /\ Chr(first) = Quote
    BY <1>2, <1>3, <2>2
  <2>3. CASE ~(first > Len(in)) /\ Chr(first) # Quote
    BY <1>2, <1>5, <2>3
  <2> QED BY <2>1, <2>2, <2>3
<1> QED BY <1>6

\* One number more, where g reads the rest.
NumbersTurn(g, m) ==
  [j \in Nat \ {0} |->
     IF m = 0 \/ Tcs!PastEnd(j) THEN [values |-> <<>>, next |-> j]
     ELSE LET s == Tcs!ReadStr(j)
          IN  [g[s.next] EXCEPT !.values = <<Tcs!IntegerOf(s.text)>> \o @]]

NumberResults == [Position -> [values : Seq(Int), next : Position]]

NumbersTurns(f, n) ==
  \A m \in 0..n : f[m] \in NumberResults /\ f[m] = NumbersTurn(f[m - 1], m)

LEMMA NumbersTurnIs ==
  ASSUME in \in Seq(Chars), NEW g, NEW m \in Nat, m = 0 \/ g \in NumberResults
  PROVE  NumbersTurn(g, m) \in NumberResults
<1> DEFINE R == [values : Seq(Int), next : Position]
           Stop(j) == m = 0 \/ Tcs!PastEnd(j)
           Done(j) == [values |-> <<>>, next |-> j]
           More(j) == [g[Tcs!ReadStr(j).next] EXCEPT !.values = <<Tcs!IntegerOf(Tcs!ReadStr(j).text)>> \o @]
<1>1. NumbersTurn(g, m) = [j \in Position |-> IF Stop(j) THEN Done(j) ELSE More(j)]
  BY Zenon DEF NumbersTurn, Position
<1>2. ASSUME NEW j \in Position PROVE Done(j) \in R
  <2>1. <<>> \in Seq(Int)
    OBVIOUS
  <2> QED BY <2>1
<1>3. ASSUME NEW j \in Position, ~Stop(j) PROVE More(j) \in R
  <2> DEFINE s == Tcs!ReadStr(j)
             n == Tcs!IntegerOf(s.text)
             rest == g[s.next]
  <2>1. n \in Int /\ s.next \in Position
    BY ReadStrIs, TcsIntegers, IntegerOfIs
  <2> HIDE DEF s, n
  <2>2. rest \in R
    BY <1>3, <2>1 DEF NumberResults
  <2> HIDE DEF rest
  <2> DEFINE t == <<n>> \o rest.values
  <2>3. t \in Seq(Int)
    <3>1. <<n>> \in Seq(Int) /\ rest.values \in Seq(Int)
      BY <2>1, <2>2
    <3> QED BY <3>1, ConcatProperties
  <2> HIDE DEF t
  <2>4. [rest EXCEPT !.values = t] \in R
    BY <2>2, <2>3
  <2> QED BY <2>4 DEF s, n, rest, t
<1> HIDE DEF Stop, Done, More, R
<1>4. \A j \in Position : (IF Stop(j) THEN Done(j) ELSE More(j)) \in R
  BY <1>2, <1>3
<1> QED BY <1>1, <1>4 DEF NumberResults, R

\* read_number_'s repetition is the recursion of its turns.
LEMMA NumbersSolved ==
  ASSUME in \in Seq(Chars), NEW n \in Nat, NEW i
  PROVE  \E f : NumbersTurns(f, n) /\ Tcs!ReadNumbers(n, i) = f[n][i]
<1> DEFINE W == NumberResults
           base == NumbersTurn(0, 0)
           step == [m \in 1..n |-> [g \in W |-> NumbersTurn(g, m)]]
<1>1. base \in W
  BY NumbersTurnIs
<1>2. step \in [1..n -> [W -> W]]
  <2>1. ASSUME NEW m \in 1..n, NEW g \in W PROVE NumbersTurn(g, m) \in W
    <3>1. m \in Nat
      OBVIOUS
    <3> QED BY <3>1, NumbersTurnIs
  <2> HIDE DEF W
  <2> QED BY <2>1
<1>3. \A g : NumbersTurn(g, 0) = base
  BY Zenon DEF NumbersTurn
<1>4. PICK f : f \in [0..n -> W] /\ f[0] = base /\ \A m \in 1..n : f[m] = step[m][f[m - 1]]
  <2> HIDE DEF W, step, base
  <2>1. \E f : Solves(f, n, W, base, step)
    BY <1>1, <1>2, Recursion DEF Steps
  <2> QED BY <2>1 DEF Solves
<1>5. f = [m \in 0..n |-> NumbersTurn(f[m - 1], m)]
  <2> HIDE DEF base, W
  <2>1. ASSUME NEW m \in 0..n PROVE f[m] = NumbersTurn(f[m - 1], m)
    <3>1. CASE m = 0
      BY <1>3, <1>4, <3>1
    <3>2. CASE m # 0
      <4>1. m \in 1..n /\ m - 1 \in 0..n
        BY <3>2
      <4>2. f[m - 1] \in W
        BY <1>4, <4>1
      <4> QED BY <1>4, <4>1, <4>2
    <3> QED BY <3>1, <3>2
  <2> HIDE DEF step
  <2> QED BY <1>4, <2>1
<1> DEFINE read[m \in 0..n] ==
             [j \in Nat \ {0} |->
                IF m = 0 \/ Tcs!PastEnd(j) THEN [values |-> <<>>, next |-> j]
                ELSE LET s == Tcs!ReadStr(j)
                     IN  [read[m - 1][s.next] EXCEPT !.values = <<Tcs!IntegerOf(s.text)>> \o @]]
<1>6. read = [m \in 0..n |-> NumbersTurn(read[m - 1], m)]
  <2> HIDE DEF W, base, step
  <2> QED BY <1>5, Zenon DEF NumbersTurn
<1>7. Tcs!ReadNumbers(n, i) = read[n][i]
  BY Zenon DEF Tcs!ReadNumbers
<1> HIDE DEF read
<1>8. Solves(read, n, W, base, step)
  <2>1. read[0] = base /\ read = [m \in 0..n |-> read[m]]
    <3> HIDE DEF base
    <3> QED BY <1>3, <1>6
  <2>2. ASSUME NEW m \in 1..n, read[m - 1] \in W PROVE read[m] = step[m][read[m - 1]]
    <3> HIDE DEF W
    <3>1. read[m] = NumbersTurn(read[m - 1], m)
      BY <1>6
    <3> QED BY <2>2, <3>1
  <2> HIDE DEF W, base, step
  <2> QED BY <1>1, <1>2, <2>1, <2>2, Recursive DEF Steps
<1>9. \A m \in 0..n : read[m] \in W
  <2> HIDE DEF W, base, step
  <2> QED BY <1>8 DEF Solves
<1>10. NumbersTurns(read, n)
  BY <1>6, <1>9 DEF NumbersTurns
<1> QED BY <1>7, <1>10

\* All numbers are read, unless the input ends before.
LEMMA ReadNumbersIs ==
  ASSUME in \in Seq(Chars), NEW n \in Nat, NEW i \in Position,
         NEW read, read = Tcs!ReadNumbers(n, i)
  PROVE  /\ read.next \in Position /\ read.values \in Seq(Int)
         /\ ~Tcs!PastEnd(read.next) => Len(read.values) = n
<1>1. PICK f : NumbersTurns(f, n) /\ Tcs!ReadNumbers(n, i) = f[n][i]
  BY NumbersSolved
<1>2. \A m \in 0..n : f[m] \in NumberResults
  BY <1>1 DEF NumbersTurns
<1> DEFINE Whole1(r, m) == ~Tcs!PastEnd(r.next) => Len(r.values) = m
           S == {m \in 0..n : \A j \in Position : Whole1(f[m][j], m)}
<1>3. 0 \in S
  <2>1. f[0] = NumbersTurn(f[0 - 1], 0)
    BY <1>1 DEF NumbersTurns
  <2>2. ASSUME NEW j \in Position PROVE f[0][j].values = <<>>
    BY <2>1 DEF NumbersTurn, Position
  <2>3. \A j \in Position : Whole1(f[0][j], 0)
    BY <2>2
  <2> QED BY <2>3
<1>4. ASSUME NEW m \in 1..n, m - 1 \in S PROVE m \in S
  <2> DEFINE g == f[m - 1]
  <2>1. f[m] = NumbersTurn(g, m)
    BY <1>1 DEF NumbersTurns
  <2>2. g \in NumberResults /\ \A j \in Position : Whole1(g[j], m - 1)
    BY <1>2, <1>4
  <2> HIDE DEF g
  <2>3. ASSUME NEW j \in Position PROVE Whole1(f[m][j], m)
    <3>1. CASE Tcs!PastEnd(j)
      BY <2>1, <3>1 DEF NumbersTurn, Position
    <3>2. CASE ~Tcs!PastEnd(j)
      <4> DEFINE s == Tcs!ReadStr(j)
                 x == Tcs!IntegerOf(s.text)
                 rest == g[s.next]
      <4>1. s.next \in Position /\ x \in Int
        BY ReadStrIs, TcsIntegers, IntegerOfIs
      <4>2. f[m][j] = [rest EXCEPT !.values = <<x>> \o @]
        <5>1. m # 0 /\ j \in Nat \ {0}
          BY DEF Position
        <5> QED BY <2>1, <3>2, <5>1, Zenon DEF NumbersTurn
      <4> HIDE DEF s, x
      <4>3. rest \in [values : Seq(Int), next : Position] /\ Whole1(rest, m - 1)
        BY <2>2, <4>1 DEF NumberResults
      <4> HIDE DEF rest
      <4>4. f[m][j].next = rest.next /\ f[m][j].values = <<x>> \o rest.values
        BY <4>2, <4>3
      <4>5. Len(<<x>> \o rest.values) = 1 + Len(rest.values) /\ Len(rest.values) \in Nat
        <5>1. <<x>> \in Seq(Int) /\ rest.values \in Seq(Int) /\ Len(<<x>>) = 1
          BY <4>1, <4>3
        <5> QED BY <5>1, ConcatProperties
      <4> QED BY <4>3, <4>4, <4>5
    <3> QED BY <3>1, <3>2
  <2> QED BY <2>3
<1>5. \A m \in 0..n : m \in S
  <2> HIDE DEF S
  <2> QED BY <1>3, <1>4, UpTo
<1>6. f[n][i] \in [values : Seq(Int), next : Position]
  BY <1>2 DEF NumberResults
<1>7. Whole1(f[n][i], n)
  BY <1>5
<1> QED BY <1>1, <1>6, <1>7

\* What tcs_o keeps in order; its origin is two numbers once it has been set.
TcsInv ==
  /\ in \in Seq(Chars) /\ at \in Position
  /\ pc \in {"parse", "exited"}
  /\ origin \in Int \X Int
  /\ ConIs(console)

LEMMA TcsEffects ==
  ASSUME NEW letter, NEW con, ConIs(con), origin \in Int \X Int,
         NEW v \in Seq(Int), Len(v) = Tcs!Arity(letter)
  PROVE  ConIs(Tcs!Effect(letter, con, v))
<1>1. origin[1] \in Int /\ origin[2] \in Int
  OBVIOUS
<1>2. CASE letter = "a"
  <2> DEFINE t == <<CharOfCode(v[1])>>
  <2>1. t \in Seq({CharOfCode(v[1])})
    OBVIOUS
  <2>2. Tcs!Effect(letter, con, v) = Put(con, t)
    <3>1. Tcs!Effect(letter, con, v) = Tcs!Put(con, <<Tcs!CharOfCode(v[1])>>)
      BY <1>2 DEF Tcs!Effect
    <3> QED BY <3>1, TcsConsole, Zenon
  <2> HIDE DEF t
  <2> QED BY <2>1, <2>2, PutIs
<1>3. CASE letter = "n"
  <2>1. <<NewLine>> \in Seq({NewLine})
    OBVIOUS
  <2>2. Tcs!Effect(letter, con, v) = Put(con, <<NewLine>>)
    <3>1. Tcs!Effect(letter, con, v) = Tcs!Put(con, <<Tcs!NewLine>>)
      BY <1>3 DEF Tcs!Effect
    <3>2. Tcs!NewLine = NewLine
      BY DEF Tcs!NewLine, NewLine
    <3> QED BY <3>1, <3>2, TcsConsole, Zenon
  <2> QED BY <2>1, <2>2, PutIs
<1>4. CASE letter = "g"
  <2>1. Len(v) = 2
    BY <1>4 DEF Tcs!Arity
  <2>2. v[1] \in Int /\ v[2] \in Int
    BY <2>1
  <2>3. origin[1] + v[1] \in Int /\ origin[2] + v[2] \in Int
    BY <1>1, <2>2
  <2>4. Tcs!Effect(letter, con, v) = Tcs!Goto(con, origin[1] + v[1], origin[2] + v[2])
    BY <1>4 DEF Tcs!Effect
  <2>5. Tcs!Effect(letter, con, v) = Goto(con, origin[1] + v[1], origin[2] + v[2])
    BY <2>4, TcsConsole, Zenon
  <2> QED BY <2>3, <2>5, MovedIs
<1>5. CASE letter \notin {"a", "n", "g"}
  <2>1. Tcs!Effect(letter, con, v) \in {Tcs!Colored(con, v[1]), Tcs!Cleared(con), con}
    BY <1>5, Zenon DEF Tcs!Effect
  <2>2. Tcs!Colored(con, v[1]) = Colored(con, v[1]) /\ Tcs!Cleared(con) = Cleared(con)
    BY TcsConsole, Zenon
  <2> QED BY <2>1, <2>2, ColorIs, MovedIs
<1> QED BY <1>2, <1>3, <1>4, <1>5

LEMMA NextTcsInv == TcsInv /\ Tcs!Next => TcsInv'
<1> SUFFICES ASSUME TcsInv, Tcs!Next PROVE TcsInv'
  OBVIOUS
<1>0. /\ in \in Seq(Chars) /\ at \in Position /\ at \in Nat /\ at + 1 \in Position
      /\ at + 2 \in Position /\ origin \in Int \X Int /\ ConIs(console)
      /\ pc \in {"parse", "exited"}
  BY DEF TcsInv, Position
<1>1. CASE Tcs!Skip
  <2>1. at' = at + 1 /\ UNCHANGED <<in, pc, origin, console>>
    BY <1>1 DEF Tcs!Skip
  <2> QED BY <1>0, <2>1 DEF TcsInv, ConIs
<1>2. CASE Tcs!Display
  <2>1. PICK word : /\ word = Tcs!ReadStr(at + 2) /\ at' = word.next
                    /\ console' = Tcs!Put(console, word.text)
    BY <1>2 DEF Tcs!Display
  <2>2. UNCHANGED <<in, pc, origin>>
    BY <1>2 DEF Tcs!Display
  <2>3. word.text \in Seq(Written) /\ word.next \in Position
    BY <1>0, <2>1, ReadStrIs
  <2>4. console' = Put(console, word.text)
    BY <2>1, TcsConsole, Zenon
  <2>5. ConIs(console')
    BY <1>0, <2>3, <2>4, PutIs
  <2> QED BY <1>0, <2>1, <2>2, <2>3, <2>5 DEF TcsInv, ConIs
<1>3. CASE Tcs!Simple
  <2> DEFINE n == Tcs!Arity(Tcs!Letter)
  <2>1. PICK read : /\ read = Tcs!ReadNumbers(n, at + 2) /\ ~Tcs!PastEnd(read.next)
                    /\ at' = read.next
                    /\ console' = Tcs!Effect(Tcs!Letter, console, read.values)
                    /\ origin' = IF Tcs!Letter = "o" THEN read.values ELSE origin
    BY <1>3 DEF Tcs!Simple
  <2>2. UNCHANGED <<in, pc>>
    BY <1>3 DEF Tcs!Simple
  <2>3. n \in Nat /\ (Tcs!Letter = "o" => n = 2)
    BY DEF Tcs!Arity
  <2>4. read.next \in Position /\ read.values \in Seq(Int) /\ Len(read.values) = n
    <3> HIDE DEF n
    <3> QED BY <1>0, <2>1, <2>3, ReadNumbersIs
  <2>5. ConIs(console')
    <3>1. ConIs(Tcs!Effect(Tcs!Letter, console, read.values))
      BY <1>0, <2>4, TcsEffects
    <3> QED BY <2>1, <3>1
  <2>6. origin' \in Int \X Int
    <3>1. CASE Tcs!Letter = "o"
      <4>1. read.values \in Int \X Int
        BY <2>3, <2>4, <3>1, PairOfInts
      <4> QED BY <2>1, <3>1, <4>1
    <3>2. CASE Tcs!Letter # "o"
      BY <1>0, <2>1, <3>2
    <3> QED BY <3>1, <3>2
  <2> QED BY <1>0, <2>1, <2>2, <2>4, <2>5, <2>6 DEF TcsInv, ConIs
<1>4. CASE Tcs!Exit
  <2>1. pc' = "exited" /\ UNCHANGED <<in, at, origin, console>>
    BY <1>4 DEF Tcs!Exit
  <2> QED BY <1>0, <2>1 DEF TcsInv, ConIs
<1> QED BY <1>1, <1>2, <1>3, <1>4 DEF Tcs!Next

-----------------------------------------------------------------------------
(* The types of cbatbox on lib/core, and why a whole program never crashes it. *)

LEMMA CoreConsole ==
  ASSUME NEW con
  PROVE  /\ \A text : Core!Put(con, text) = Put(con, text)
         /\ \A x, y : Core!Goto(con, x, y) = Goto(con, x, y)
         /\ \A n : Core!Colored(con, n) = Colored(con, n)
         /\ \A word : Core!IntegerOf(word) = IntegerOf(word)
<1>1. \A text : Core!Put(con, text) = Put(con, text)
  BY Zenon DEF Core!Put, Put, Core!CursorAt, CursorAt, Core!Max, Max, Core!Range, Range,
               Core!Cardinality, Cardinality, Core!NewLine, NewLine
<1>2. \A x, y : Core!Goto(con, x, y) = Goto(con, x, y)
  BY Zenon DEF Core!Goto, Goto
<1>3. \A n : Core!Colored(con, n) = Colored(con, n)
  BY Zenon DEF Core!Colored, Colored
<1>4. \A word : Core!IntegerOf(word) = IntegerOf(word)
  BY Zenon DEF Core!IntegerOf, IntegerOf, Core!Digits, Digits, Core!Numbers, Numbers,
               Core!NumberOf, NumberOf
<1> QED BY <1>1, <1>2, <1>3, <1>4

\* Printing what is no text of the input.
LEMMA PutOne ==
  ASSUME NEW con, ConIs(con), NEW c PROVE ConIs(Put(con, <<c>>))
<1>1. <<c>> \in Seq({c})
  OBVIOUS
<1> QED BY <1>1, PutIs

\* The characters of the words of a command line.
WordChars == MCChars \cup {"k", "_", "m", "p", "4"}

LEMMA CoreEffects ==
  ASSUME in \in Seq(Seq(WordChars)), at \in Position, at <= Len(in), NEW letter,
         Core!Given(Core!Arity(letter)), origin \in Int \X Int, NEW con, ConIs(con)
  PROVE  ConIs(Core!Effect(letter, con))
<1>1. \A k : Core!Value(k) \in Int
  BY CoreConsole, IntegerOfIs DEF Core!Value
<1>2. CASE letter = "a"
  <2>1. Core!Effect(letter, con) = Core!Put(con, <<Core!CharOfCode(Core!Value(1))>>)
    BY <1>2 DEF Core!Effect
  <2>2. Core!Effect(letter, con) = Put(con, <<Core!CharOfCode(Core!Value(1))>>)
    BY <2>1, CoreConsole, Zenon
  <2> QED BY <2>2, PutOne
<1>3. CASE letter = "n" \/ letter \in {"m", "y"}
  <2>1. \E c : Core!Effect(letter, con) = Core!Put(con, <<c>>)
    BY <1>3 DEF Core!Effect
  <2>2. \E c : Core!Effect(letter, con) = Put(con, <<c>>)
    BY <2>1, CoreConsole, Zenon
  <2> QED BY <2>2, PutOne
<1>4. CASE letter = "d"
  <2>1. at + 1 \in 1..Len(in)
    BY <1>4 DEF Core!Given, Core!Arity, Position
  <2>2. in[at + 1] \in Seq(WordChars)
    BY <2>1
  <2>3. Core!Effect(letter, con) = Core!Put(con, in[at + 1])
    BY <1>4 DEF Core!Effect
  <2>4. Core!Effect(letter, con) = Put(con, in[at + 1])
    BY <2>3, CoreConsole, Zenon
  <2> QED BY <2>2, <2>4, PutIs
<1>5. CASE letter = "g"
  <2> DEFINE x == origin[1] + Core!Value(1)
             y == origin[2] + Core!Value(2)
  <2>1. x \in Int /\ y \in Int
    BY <1>1
  <2>2. Core!Effect(letter, con) = Core!Goto(con, x, y)
    BY <1>5 DEF Core!Effect
  <2> HIDE DEF x, y
  <2>3. Core!Effect(letter, con) = Goto(con, x, y)
    BY <2>2, CoreConsole, Zenon
  <2> QED BY <2>1, <2>3, MovedIs
<1>6. CASE letter \notin {"a", "n", "m", "y", "d", "g"}
  <2>1. Core!Effect(letter, con) \in {Core!Colored(con, Core!Value(1)), con}
    BY <1>6, Zenon DEF Core!Effect
  <2>2. Core!Colored(con, Core!Value(1)) = Colored(con, Core!Value(1))
    BY CoreConsole, Zenon
  <2> QED BY <2>1, <2>2, ColorIs
<1> QED BY <1>2, <1>3, <1>4, <1>5, <1>6

\* The words of a program are those of its calls, one call after the other, each with
\* its arguments.
CallWords(p, f, block) ==
  /\ Grows(f, Len(p), Seq(WordChars), <<>>, block)
  /\ \A i \in 1..Len(p) :
       /\ p[i].letter \in KnownTo("cbatbox_core")
       /\ Len(block[i]) = 1 + Core!Arity(p[i].letter)
       /\ block[i][1] = <<"-", p[i].letter>>

\* In front of a call, or behind the last one.
AtCall ==
  \E p, f, block : /\ CallWords(p, f, block) /\ in = f[Len(p)]
                   /\ \E i \in 0..Len(p) : at = Len(f[i]) + 1

CoreInv ==
  /\ in \in Seq(Seq(WordChars)) /\ at \in Position
  /\ pc \in {"parse", "exited", "crashed"}
  /\ origin \in Int \X Int
  /\ ConIs(console)
  /\ goal.kind # "raw" => AtCall /\ pc # "crashed"

\* A call is whole, and behind it is the next one.
LEMMA CallIsWhole ==
  ASSUME in \in Seq(Seq(WordChars)), AtCall, at <= Len(in)
  PROVE  /\ Core!Given(Core!Arity(Core!Letter)) /\ Core!Letter # "k"
         /\ \A next : next = at + 1 + Core!Arity(Core!Letter) /\ at' = next /\ in' = in => AtCall'
<1>1. PICK p, f, block : /\ CallWords(p, f, block) /\ in = f[Len(p)]
                         /\ \E i \in 0..Len(p) : at = Len(f[i]) + 1
  BY DEF AtCall
<1> DEFINE n == Len(p)
<1>2. PICK i \in 0..n : at = Len(f[i]) + 1
  BY <1>1
<1>3. n \in Nat /\ Len(in) \in Nat /\ Grows(f, n, Seq(WordChars), <<>>, block) /\ in = f[n]
  BY <1>1 DEF CallWords, Grows
<1>4. i \in Nat /\ i <= n /\ \A j \in 0..n : Len(f[j]) \in Nat
  <2>1. \A j \in 0..n : f[j] \in Seq(Seq(WordChars))
    <3> HIDE DEF n
    <3> QED BY <1>3, GrowsTypes
  <2> QED BY <1>3, <2>1
<1>5. i + 1 \in 1..n
  <2>1. i # n
    BY <1>2, <1>3, <1>4
  <2> QED BY <1>3, <1>4, <2>1
<1>6. Within(f, n, block, i + 1)
  <2> HIDE DEF n
  <2> QED BY <1>3, <1>5, GrowsTo
<1>7. (i + 1) - 1 = i
  BY <1>4
<1>8. /\ Len(f[i + 1]) = Len(f[i]) + Len(block[i + 1]) /\ Len(f[i + 1]) <= Len(in)
      /\ \A k \in 1..Len(block[i + 1]) : in[Len(f[i]) + k] = block[i + 1][k]
  BY <1>3, <1>6, <1>7 DEF Within
<1> DEFINE l == p[i + 1].letter
<1>9. /\ l \in KnownTo("cbatbox_core") /\ Len(block[i + 1]) = 1 + Core!Arity(l)
      /\ block[i + 1][1] = <<"-", l>>
  BY <1>1, <1>5 DEF CallWords
<1>10. Core!Arity(l) \in Nat
  BY DEF Core!Arity
<1> HIDE DEF l, n
<1>11. in[at] = <<"-", l>>
  <2>1. 1 \in 1..Len(block[i + 1])
    BY <1>9, <1>10
  <2> QED BY <1>2, <1>8, <1>9, <2>1
<1>12. Core!Letter = l
  BY <1>11 DEF Core!Letter
<1>13. Core!Given(Core!Arity(l)) /\ at + 1 + Core!Arity(l) = Len(f[i + 1]) + 1
  <2>1. \A a, b, c, d, m \in Nat : c = a + b /\ b = 1 + d /\ c <= m =>
          (a + 1) + d <= m /\ ((a + 1) + 1) + d = c + 1
    OBVIOUS
  <2>2. i \in 0..n /\ i + 1 \in 0..n /\ Len(block[i + 1]) \in Nat
    BY <1>2, <1>3, <1>5, <1>9, <1>10
  <2>3. Len(f[i]) \in Nat /\ Len(f[i + 1]) \in Nat
    BY <1>4, <2>2
  <2> DEFINE a == Len(f[i])
             b == Len(block[i + 1])
             c == Len(f[i + 1])
             d == Core!Arity(l)
             m == Len(in)
  <2>4. /\ a \in Nat /\ b \in Nat /\ c \in Nat /\ d \in Nat /\ m \in Nat
        /\ c = a + b /\ b = 1 + d /\ c <= m /\ at = a + 1
    BY <1>2, <1>3, <1>8, <1>9, <1>10, <2>2, <2>3
  <2> HIDE DEF a, b, c, d, m
  <2>5. at + d <= m /\ at + 1 + d = c + 1
    BY <2>1, <2>4
  <2> QED BY <2>5 DEF Core!Given, c, d, m
<1>14. l # "k"
  BY <1>9 DEF KnownTo
<1>15. ASSUME at' = at + 1 + Core!Arity(l), in' = in PROVE AtCall'
  <2>1. i + 1 \in 0..n /\ at' = Len(f[i + 1]) + 1
    BY <1>3, <1>5, <1>13, <1>15
  <2> QED BY <1>1, <1>15, <2>1 DEF AtCall, n
<1> QED BY <1>12, <1>13, <1>14, <1>15

LEMMA NextCoreInv == CoreInv /\ Core!Next /\ UNCHANGED goal => CoreInv'
<1> SUFFICES ASSUME CoreInv, Core!Next, UNCHANGED goal PROVE CoreInv'
  OBVIOUS
<1>0. /\ in \in Seq(Seq(WordChars)) /\ at \in Position /\ at + 1 \in Position
      /\ \A letter : at + 1 + Core!Arity(letter) \in Position
      /\ origin \in Int \X Int /\ ConIs(console) /\ pc \in {"parse", "exited", "crashed"}
      /\ goal.kind # "raw" => AtCall /\ pc # "crashed"
  BY DEF CoreInv, Position, Core!Arity
<1>1. CASE Core!Execute
  <2>1. /\ at' = at + 1 + Core!Arity(Core!Letter) /\ UNCHANGED <<in, pc>>
        /\ at <= Len(in) /\ Core!Given(Core!Arity(Core!Letter))
        /\ console' = Core!Effect(Core!Letter, console)
        /\ origin' = IF Core!Letter = "o" THEN <<Core!Value(1), Core!Value(2)>> ELSE origin
    BY <1>1 DEF Core!Execute
  <2>2. ConIs(console')
    <3>1. ConIs(Core!Effect(Core!Letter, console))
      BY <1>0, <2>1, CoreEffects
    <3> QED BY <2>1, <3>1
  <2>3. origin' \in Int \X Int
    <3>1. Core!Value(1) \in Int /\ Core!Value(2) \in Int
      BY CoreConsole, IntegerOfIs DEF Core!Value
    <3> QED BY <1>0, <2>1, <3>1
  <2>4. goal.kind # "raw" => AtCall'
    BY <1>0, <2>1, CallIsWhole
  <2>5. at' \in Position
    BY <1>0, <2>1
  <2> QED BY <1>0, <2>1, <2>2, <2>3, <2>4, <2>5 DEF CoreInv, ConIs
<1>2. CASE Core!Missing
  <2>1. /\ at' = at + 1 + Core!Arity(Core!Letter) /\ UNCHANGED <<in, origin, console>>
        /\ at <= Len(in) /\ ~Core!Given(Core!Arity(Core!Letter))
        /\ pc' \in {"parse", "exited", "crashed"}
    BY <1>2 DEF Core!Missing
  <2>2. goal.kind = "raw"
    BY <1>0, <2>1, CallIsWhole
  <2>3. at' \in Position
    BY <1>0, <2>1
  <2> QED BY <1>0, <2>1, <2>2, <2>3 DEF CoreInv, ConIs
<1>3. CASE Core!Key
  <2>1. /\ at' = at + 1 /\ UNCHANGED <<in, origin, console>> /\ Core!Letter = "k"
        /\ pc' \in {"exited", "parse"}
    BY <1>3 DEF Core!Key
  <2>2. at <= Len(in)
    BY <2>1 DEF Core!Letter
  <2>3. goal.kind = "raw"
    BY <1>0, <2>1, <2>2, CallIsWhole
  <2> QED BY <1>0, <2>1, <2>3 DEF CoreInv, ConIs
<1>4. CASE Core!Finish
  <2>1. pc' = "exited" /\ UNCHANGED <<in, at, origin, console>>
    BY <1>4 DEF Core!Finish
  <2> QED BY <1>0, <2>1 DEF CoreInv, ConIs, AtCall
<1> QED BY <1>1, <1>2, <1>3, <1>4 DEF Core!Next

-----------------------------------------------------------------------------
(* The types of cbatbox on the Windows console.                            *)

LEMMA WinConsole ==
  ASSUME NEW con
  PROVE  /\ \A text : Win!Put(con, text) = Put(con, text)
         /\ \A x, y : Win!Goto(con, x, y) = Goto(con, x, y)
         /\ \A word : Win!IntegerOf(word) = IntegerOf(word)
<1>1. \A text : Win!Put(con, text) = Put(con, text)
  BY Zenon DEF Win!Put, Put, Win!CursorAt, CursorAt, Win!Max, Max, Win!Range, Range,
               Win!Cardinality, Cardinality, Win!NewLine, NewLine
<1>2. \A x, y : Win!Goto(con, x, y) = Goto(con, x, y)
  BY Zenon DEF Win!Goto, Goto
<1>3. \A word : Win!IntegerOf(word) = IntegerOf(word)
  BY Zenon DEF Win!IntegerOf, IntegerOf, Win!Digits, Digits, Win!Numbers, Numbers,
               Win!NumberOf, NumberOf
<1> QED BY <1>1, <1>2, <1>3

\* The bytes up to the first zero are a text.
LEMMA PrintedIs ==
  ASSUME NEW n PROVE \E V : Win!Printed(n) \in Seq(V)
<1> DEFINE zeros == {k \in 1..4 : Win!Bytes(n)[k] = 0} \cup {5}
<1>1. zeros \subseteq Nat /\ zeros # {}
  OBVIOUS
<1>2. PICK m \in zeros : \A k \in zeros : m <= k
  <2> HIDE DEF zeros
  <2> QED BY <1>1, NatMin
<1>3. Win!Min(zeros) \in zeros
  <2>1. \E x \in zeros : \A y \in zeros : x <= y
    BY <1>2
  <2> HIDE DEF zeros
  <2> QED BY <2>1 DEF Win!Min
<1>4. Win!Min(zeros) - 1 \in Nat
  BY <1>3
<1> DEFINE V == {Win!CharOfCode(Win!Bytes(n)[k]) : k \in 1..4}
           last1 == Win!Min(zeros) - 1
<1>5. last1 \in Nat /\ last1 <= 4
  BY <1>3
<1>6. Win!Printed(n) = [k \in 1..last1 |-> Win!CharOfCode(Win!Bytes(n)[k])]
  BY Zenon DEF Win!Printed
<1>7. \A k \in 1..last1 : Win!CharOfCode(Win!Bytes(n)[k]) \in V
  <2> HIDE DEF last1
  <2> QED BY <1>5
<1> HIDE DEF last1, V
<1>8. Win!Printed(n) \in [1..last1 -> V]
  BY <1>6, <1>7
<1>9. Win!Printed(n) \in Seq(V)
  BY <1>5, <1>8
<1> QED BY <1>9

LEMMA WinEffects ==
  ASSUME in \in Seq(Seq(WordChars)), at \in Position, at <= Len(in), NEW letter,
         Win!Given(Win!Arity(letter)), origin \in Int \X Int, last \in Int \X Int,
         NEW con, ConIs(con)
  PROVE  ConIs(Win!Effect(letter, con))
<1>1. /\ \A k : Win!Number(k) \in Int
      /\ last[1] \in Int /\ last[2] + 1 \in Int
  <2>1. \A k : Win!Number(k) \in Int
    BY WinConsole, IntegerOfIs DEF Win!Number
  <2>2. last[1] \in Int /\ last[2] + 1 \in Int
    OBVIOUS
  <2> QED BY <2>1, <2>2
<1>2. CASE letter = "a"
  <2>1. PICK V : Win!Printed(Win!Number(1)) \in Seq(V)
    BY PrintedIs
  <2>2. Win!Effect(letter, con) = Win!Put(con, Win!Printed(Win!Number(1)))
    BY <1>2 DEF Win!Effect
  <2>3. Win!Effect(letter, con) = Put(con, Win!Printed(Win!Number(1)))
    BY <2>2, WinConsole, Zenon
  <2> QED BY <2>1, <2>3, PutIs
<1>3. CASE letter \in {"m", "y"}
  <2>1. Win!Effect(letter, con) = Win!Put(con, <<"report">>)
    BY <1>3 DEF Win!Effect
  <2>2. Win!Effect(letter, con) = Put(con, <<"report">>)
    BY <2>1, WinConsole, Zenon
  <2> QED BY <2>2, PutOne
<1>4. CASE letter = "d"
  <2>1. at + 1 \in 1..Len(in)
    BY <1>4 DEF Win!Given, Win!Arity, Position
  <2>2. in[at + 1] \in Seq(WordChars)
    BY <2>1
  <2>3. Win!Effect(letter, con) = Win!Put(con, in[at + 1])
    BY <1>4 DEF Win!Effect
  <2>4. Win!Effect(letter, con) = Put(con, in[at + 1])
    BY <2>3, WinConsole, Zenon
  <2> QED BY <2>2, <2>4, PutIs
<1>5. CASE letter = "g" \/ letter = "n"
  <2>1. Win!Target[1] \in Int /\ Win!Target[2] \in Int
    BY <1>1 DEF Win!Target
  <2>2. \/ Win!Effect(letter, con) = Win!Goto(con, Win!Target[1], Win!Target[2])
        \/ Win!Effect(letter, con) = Win!Goto(con, last[1], last[2] + 1)
    BY <1>5 DEF Win!Effect
  <2>3. \/ Win!Effect(letter, con) = Goto(con, Win!Target[1], Win!Target[2])
        \/ Win!Effect(letter, con) = Goto(con, last[1], last[2] + 1)
    BY <2>2, WinConsole, Zenon
  <2> QED BY <1>1, <2>1, <2>3, MovedIs
<1>6. CASE letter \notin {"a", "m", "y", "d", "g", "n"}
  <2>1. Win!Effect(letter, con) \in {Win!Attribute(con, Win!Number(1)), con}
    BY <1>6, Zenon DEF Win!Effect
  <2>2. ConIs(Win!Attribute(con, Win!Number(1)))
    <3>1. PICK color : Win!Attribute(con, Win!Number(1)) = [con EXCEPT !.color = color]
      BY Zenon DEF Win!Attribute
    <3>2. ConIs([con EXCEPT !.color = color])
      BY ColorIs
    <3> QED BY <3>1, <3>2, Zenon
  <2> QED BY <2>1, <2>2
<1> QED BY <1>2, <1>3, <1>4, <1>5, <1>6

WinInv ==
  /\ in \in Seq(Seq(WordChars)) /\ at \in Position
  /\ pc \in {"parse", "exited"}
  /\ origin \in Int \X Int /\ last \in Int \X Int
  /\ ConIs(console)

LEMMA NextWinInv == WinInv /\ Win!Next => WinInv'
<1> SUFFICES ASSUME WinInv, Win!Next PROVE WinInv'
  OBVIOUS
<1>0. /\ in \in Seq(Seq(WordChars)) /\ at \in Position /\ at + 1 \in Position
      /\ \A letter : at + 1 + Win!Arity(letter) \in Position
      /\ origin \in Int \X Int /\ last \in Int \X Int /\ ConIs(console)
      /\ pc \in {"parse", "exited"}
  BY DEF WinInv, Position, Win!Arity
<1>1. CASE Win!Execute
  <2>1. /\ at' = at + 1 + Win!Arity(Win!Letter) /\ UNCHANGED <<in, pc>>
        /\ at <= Len(in) /\ Win!Given(Win!Arity(Win!Letter))
        /\ console' = Win!Effect(Win!Letter, console)
        /\ last' = Win!Moved(Win!Letter)
        /\ origin' = IF Win!Letter = "o" THEN <<Win!Number(1), Win!Number(2)>> ELSE origin
    BY <1>1 DEF Win!Execute
  <2>2. ConIs(console')
    <3>1. ConIs(Win!Effect(Win!Letter, console))
      BY <1>0, <2>1, WinEffects
    <3> QED BY <2>1, <3>1
  <2>3. \A k : Win!Number(k) \in Int
    BY WinConsole, IntegerOfIs DEF Win!Number
  <2>4. origin' \in Int \X Int
    BY <1>0, <2>1, <2>3
  <2>5. last' \in Int \X Int
    <3>1. Win!Target \in Int \X Int /\ <<last[1], last[2] + 1>> \in Int \X Int
      BY <1>0, <2>3 DEF Win!Target
    <3>2. Win!Moved(Win!Letter) \in {Win!Target, <<last[1], last[2] + 1>>, last}
      BY Zenon DEF Win!Moved
    <3> QED BY <1>0, <2>1, <3>1, <3>2
  <2>6. at' \in Position
    BY <1>0, <2>1
  <2> QED BY <1>0, <2>1, <2>2, <2>4, <2>5, <2>6 DEF WinInv, ConIs
<1>2. CASE Win!Key
  <2>1. at' = at + 1 /\ UNCHANGED <<in, origin, console, last>> /\ pc' \in {"exited", "parse"}
    BY <1>2 DEF Win!Key
  <2> QED BY <1>0, <2>1 DEF WinInv, ConIs
<1>3. CASE Win!Finish
  <2>1. pc' = "exited" /\ UNCHANGED <<in, at, origin, console, last>>
    BY <1>3 DEF Win!Finish
  <2> QED BY <1>0, <2>1 DEF WinInv, ConIs
<1> QED BY <1>1, <1>2, <1>3 DEF Win!Next

-----------------------------------------------------------------------------
(* The inputs: characters that the programs read.                          *)

LEMMA SpelledIs ==
  ASSUME NEW V, NEW n, NEW s \in Spelled(V, n), NEW W, V \subseteq W
  PROVE  s \in Seq(W)
<1>1. PICK k \in 0..n : s \in [1..k -> V]
  BY DEF Spelled
<1>2. k \in Nat /\ s \in [1..k -> W]
  BY <1>1
<1> QED BY <1>2

\* A concatenation of blocks grows by them.
LEMMA Concatenation ==
  ASSUME NEW n \in Nat, NEW V, NEW block \in [1..n -> Seq(V)]
  PROVE  \E f : Grows(f, n, V, <<>>, block) /\ f = [i \in 0..n |-> f[i]]
<1> DEFINE W == Seq(V)
           step == [i \in 1..n |-> [s \in W |-> s \o block[i]]]
<1>1. <<>> \in W
  OBVIOUS
<1>2. step \in [1..n -> [W -> W]]
  <2>1. ASSUME NEW i \in 1..n, NEW s \in W PROVE s \o block[i] \in W
    <3>1. block[i] \in Seq(V)
      OBVIOUS
    <3> QED BY <3>1, ConcatProperties
  <2> HIDE DEF W
  <2> QED BY <2>1
<1>3. Steps(n, W, <<>>, step)
  <2> HIDE DEF W, step
  <2> QED BY <1>1, <1>2 DEF Steps
<1>4. \A i \in 1..n, s \in W : step[i][s] = s \o block[i]
  <2> HIDE DEF W
  <2> QED OBVIOUS
<1> HIDE DEF W, step
<1>5. PICK f : Solves(f, n, W, <<>>, step)
  BY <1>3, Recursion
<1>6. ASSUME NEW i \in 1..n PROVE f[i] = f[i - 1] \o block[i]
  <2>1. i \in 1..n /\ i - 1 \in 0..n
    OBVIOUS
  <2>2. f[i] = step[i][f[i - 1]] /\ f[i - 1] \in W
    BY <1>5, <2>1 DEF Solves
  <2> QED BY <1>4, <2>2
<1> QED BY <1>1, <1>5, <1>6 DEF Grows, Solves, W

\* FlattenSeq begins with the first block.
LEMMA FlattenGrows ==
  ASSUME NEW n \in Nat, NEW V, NEW block \in [1..n -> Seq(V)]
  PROVE  \E f : Grows(f, n, V, <<>>, block) /\ FlattenSeq(block) = f[n]
<1>1. block \in Seq(Seq(V)) /\ Len(block) = n
  OBVIOUS
<1>2. PICK f : Grows(f, n, V, <<>>, block)
  BY Concatenation
<1>3. \A i \in 1..n : block[i] \in Seq(V) /\ <<>> \o block[i] = block[i]
  <2>1. ASSUME NEW i \in 1..n PROVE block[i] \in Seq(V) /\ <<>> \o block[i] = block[i]
    <3>1. block[i] \in Seq(V)
      OBVIOUS
    <3> QED BY <3>1, ConcatEmptySeq
  <2> QED BY <2>1
<1>4. CASE n = 0
  <2>1. FlattenSeq(block) = block /\ block = <<>>
    BY <1>1, <1>4 DEF FlattenSeq
  <2>2. f[0] = <<>>
    BY <1>2 DEF Grows
  <2> QED BY <1>2, <1>4, <2>1, <2>2
<1>5. CASE n # 0
  <2> DEFINE More(h, i) == IF i = 1 THEN block[i] ELSE h[i - 1] \o block[i]
             h0 == [i \in 1..n |-> f[i]]
             flatten[i \in 1..Len(block)] ==
               IF i = 1 THEN block[i] ELSE flatten[i - 1] \o block[i]
  <2>1. h0 = [i \in 1..n |-> More(h0, i)]
    <3>1. ASSUME NEW i \in 1..n PROVE f[i] = More(h0, i)
      <4>1. f[i] = f[i - 1] \o block[i] /\ f[0] = <<>>
        BY <1>2 DEF Grows
      <4>2. CASE i = 1
        <5>1. f[i - 1] = <<>>
          BY <4>1, <4>2
        <5> QED BY <1>3, <4>1, <4>2, <5>1
      <4>3. CASE i # 1
        <5>1. i - 1 \in 1..n
          BY <4>3
        <5> QED BY <4>1, <4>3, <5>1
      <4> QED BY <4>2, <4>3
    <3> HIDE DEF More
    <3> QED BY <3>1
  <2>2. flatten = [i \in 1..n |-> More(flatten, i)]
    <3> HIDE DEF h0
    <3> QED BY <1>1, <2>1, Zenon
  <2>3. FlattenSeq(block) = flatten[n]
    BY <1>1, <1>5, Zenon DEF FlattenSeq
  <2> HIDE DEF flatten
  <2> DEFINE g == [i \in 0..n |-> IF i = 0 THEN <<>> ELSE flatten[i]]
  <2>4. g[0] = <<>> /\ g = [i \in 0..n |-> g[i]]
    OBVIOUS
  <2>5. ASSUME NEW i \in 1..n PROVE g[i] = g[i - 1] \o block[i]
    <3>1. flatten[i] = More(flatten, i) /\ g[i] = flatten[i]
      <4>1. flatten[i] = More(flatten, i)
        <5> HIDE DEF More
        <5> QED BY <2>2
      <4>2. g[i] = flatten[i]
        OBVIOUS
      <4> QED BY <4>1, <4>2
    <3>2. CASE i = 1
      <4>1. g[i - 1] = <<>>
        BY <3>2
      <4> QED BY <1>3, <3>1, <3>2, <4>1
    <3>3. CASE i # 1
      <4>1. g[i - 1] = flatten[i - 1]
        BY <3>3
      <4> QED BY <3>1, <3>3, <4>1
    <3> QED BY <3>2, <3>3
  <2>6. g[n] = flatten[n]
    BY <1>5
  <2> HIDE DEF g
  <2>7. Grows(g, n, V, <<>>, block)
    <3>1. <<>> \in Seq(V)
      OBVIOUS
    <3> QED BY <2>4, <2>5, <3>1 DEF Grows
  <2> QED BY <2>3, <2>6, <2>7
<1> QED BY <1>4, <1>5

CallOK(c) == c.letter \in MCChars /\ c.args \in Seq(-9..9)

LEMMA IntegerIs == \A n \in -9..9 : Integer(n) \in Seq(MCChars)
<1> SUFFICES ASSUME NEW n \in -9..9 PROVE Integer(n) \in Seq(MCChars)
  OBVIOUS
<1>1. \A k \in 0..9 : Numbers[k] \in MCChars
  <2>1. \A k \in 0..9 : k \in 0..MaxInt
    BY CharsAssumption
  <2>2. \A k \in 0..MaxInt : Numbers[k] \in Digits
    BY DEF Digits
  <2>3. Digits \subseteq MCChars
    BY DEF MCChars
  <2> QED BY <2>1, <2>2, <2>3
<1>2. "-" \in MCChars
  BY DEF MCChars
<1>3. CASE n < 0
  <2>1. Numbers[-n] \in MCChars
    BY <1>1, <1>3
  <2>2. Integer(n) = <<"-", Numbers[-n]>>
    BY <1>3, Zenon DEF Integer
  <2> QED BY <1>2, <2>1, <2>2
<1>4. CASE ~(n < 0)
  <2>1. Numbers[n] \in MCChars
    BY <1>1, <1>4
  <2>2. Integer(n) = <<Numbers[n]>>
    BY <1>4, Zenon DEF Integer
  <2> QED BY <2>1, <2>2
<1> QED BY <1>3, <1>4

LEMMA ArgumentsIs ==
  ASSUME NEW c, CallOK(c)
  PROVE  /\ Arguments(c) \in Seq(Seq(MCChars))
         /\ Len(Arguments(c)) = IF c.letter = "d" THEN 1 ELSE Len(c.args)
<1>1. CASE c.letter = "d"
  <2>1. <<"x">> \in Seq(MCChars)
    BY DEF MCChars
  <2>2. Arguments(c) = << <<"x">> >>
    BY <1>1, Zenon DEF Arguments
  <2> HIDE DEF MCChars
  <2> QED BY <1>1, <2>1, <2>2
<1>2. CASE c.letter # "d"
  <2>1. Arguments(c) = [i \in 1..Len(c.args) |-> Integer(c.args[i])]
    BY <1>2, Zenon DEF Arguments
  <2>2. Len(c.args) \in Nat /\ \A i \in 1..Len(c.args) : c.args[i] \in -9..9
    <3> DEFINE R == -9..9
    <3>1. c.args \in Seq(R)
      BY DEF CallOK
    <3> HIDE DEF R
    <3>2. Len(c.args) \in Nat /\ \A i \in 1..Len(c.args) : c.args[i] \in R
      BY <3>1
    <3> QED BY <3>2 DEF R
  <2>3. \A i \in 1..Len(c.args) : Integer(c.args[i]) \in Seq(MCChars)
    BY <2>2, IntegerIs
  <2> DEFINE W == Seq(MCChars)
  <2>4. Arguments(c) \in [1..Len(c.args) -> W]
    <3> HIDE DEF W
    <3>1. \A i \in 1..Len(c.args) : Integer(c.args[i]) \in W
      BY <2>3 DEF W
    <3> QED BY <2>1, <3>1
  <2> HIDE DEF W
  <2>5. Arguments(c) \in Seq(W) /\ Len(Arguments(c)) = Len(c.args)
    BY <2>2, <2>4
  <2> QED BY <1>2, <2>5 DEF W
<1> QED BY <1>1, <1>2

LEMMA SpacedIs ==
  ASSUME NEW V, Space \in V, NEW words \in Seq(Seq(V))
  PROVE  Spaced(words) \in Seq(V)
<1> DEFINE n == Len(words)
           W == Seq(V)
           step == [i \in 1..n |-> [h \in W |-> h \o words[i] \o <<Space>>]]
           More(h, i) == IF i = 0 THEN <<>> ELSE h \o words[i] \o <<Space>>
<1>1. n \in Nat /\ <<>> \in W
  OBVIOUS
<1>2. step \in [1..n -> [W -> W]]
  <2>1. ASSUME NEW i \in 1..n, NEW h \in W PROVE h \o words[i] \o <<Space>> \in W
    <3>1. words[i] \in Seq(V) /\ <<Space>> \in Seq(V)
      OBVIOUS
    <3>2. h \o words[i] \in Seq(V)
      BY <3>1, ConcatProperties
    <3> QED BY <3>1, <3>2, ConcatProperties
  <2> HIDE DEF W, n
  <2> QED BY <2>1
<1>3. Steps(n, W, <<>>, step)
  <2> HIDE DEF W, step, n
  <2> QED BY <1>1, <1>2 DEF Steps
<1>4. \A i \in 1..n, h \in W : step[i][h] = More(h, i)
  <2> HIDE DEF W
  <2> QED BY <1>1
<1> HIDE DEF step
<1>5. PICK f : Solves(f, n, W, <<>>, step)
  BY <1>3, Recursion
<1>6. f = [i \in 0..n |-> More(f[i - 1], i)]
  <2> HIDE DEF W, n
  <2>1. ASSUME NEW i \in 0..n PROVE f[i] = More(f[i - 1], i)
    <3>1. CASE i = 0
      BY <1>5, <3>1 DEF Solves
    <3>2. CASE i # 0
      <4>1. i \in 1..n /\ i - 1 \in 0..n
        BY <1>1, <3>2
      <4>2. f[i] = step[i][f[i - 1]] /\ f[i - 1] \in W
        BY <1>5, <4>1 DEF Solves
      <4> HIDE DEF More
      <4> QED BY <1>4, <4>1, <4>2
    <3> QED BY <3>1, <3>2
  <2> HIDE DEF More
  <2> QED BY <1>5, <2>1 DEF Solves
<1> DEFINE s[i \in 0..Len(words)] ==
             IF i = 0 THEN <<>> ELSE s[i - 1] \o words[i] \o <<Space>>
<1>7. s = [i \in 0..n |-> More(s[i - 1], i)]
  <2> HIDE DEF W
  <2> QED BY <1>6, Zenon
<1>8. Spaced(words) = s[n]
  BY Zenon DEF Spaced
<1> HIDE DEF s
<1>9. Solves(s, n, W, <<>>, step)
  <2> HIDE DEF W, n
  <2>1. s[0] = <<>> /\ s = [i \in 0..n |-> s[i]]
    BY <1>1, <1>7
  <2>2. ASSUME NEW i \in 1..n, s[i - 1] \in W PROVE s[i] = step[i][s[i - 1]]
    <3>1. s[i] = More(s[i - 1], i)
      <4> HIDE DEF More
      <4>1. i \in 0..n
        BY <1>1
      <4> QED BY <1>7, <4>1
    <3> HIDE DEF More
    <3> QED BY <1>4, <2>2, <3>1
  <2> QED BY <1>3, <2>1, <2>2, Recursive
<1>10. s[n] \in W
  <2> HIDE DEF W, n
  <2> QED BY <1>1, <1>9 DEF Solves
<1> QED BY <1>8, <1>10

LEMMA CommandIs ==
  ASSUME NEW c, CallOK(c) PROVE Command(c) \in Seq(MCChars)
<1> DEFINE W == Seq(MCChars)
<1>1. <<"-", c.letter>> \in W
  BY DEF CallOK, MCChars
<1>2. Arguments(c) \in Seq(W)
  BY ArgumentsIs
<1>3. << <<"-", c.letter>> >> \o Arguments(c) \in Seq(W)
  <2> HIDE DEF W
  <2>1. << <<"-", c.letter>> >> \in Seq(W)
    BY <1>1
  <2> QED BY <1>2, <2>1, ConcatProperties
<1>4. Space \in MCChars
  BY DEF MCChars
<1> QED BY <1>3, <1>4, SpacedIs DEF Command

Calls(n) == [1..n -> {c \in Palette \cup Figures1 : CallOK(c)}]

LEMMA SeparateIs ==
  ASSUME NEW n \in Nat, NEW p \in Calls(n) PROVE Separate(p) \in Seq(MCChars)
<1> DEFINE block == [i \in 1..n |-> Command(p[i])]
           V == MCChars
<1>0. Len(p) = n
  BY DEF Calls
<1>1. \A i \in 1..n : Command(p[i]) \in Seq(V)
  <2>1. \A i \in 1..n : CallOK(p[i])
    BY DEF Calls
  <2> QED BY <2>1, CommandIs
<1> HIDE DEF V
<1>2. block \in [1..n -> Seq(V)]
  BY <1>1
<1> DEFINE s[i \in 0..Len(p)] == IF i = 0 THEN <<>> ELSE s[i - 1] \o Command(p[i])
<1>3. \A i \in 1..n : block[i] = Command(p[i])
  OBVIOUS
<1> HIDE DEF block
<1>4. \E f : f = [i \in 0..n |-> IF i = 0 THEN <<>> ELSE f[i - 1] \o Command(p[i])]
  <2>1. PICK f : Grows(f, n, V, <<>>, block) /\ f = [i \in 0..n |-> f[i]]
    BY <1>2, Concatenation
  <2>2. f[0] = <<>> /\ \A i \in 1..n : f[i] = f[i - 1] \o Command(p[i])
    <3>1. f[0] = <<>> /\ \A i \in 1..n : f[i] = f[i - 1] \o block[i]
      BY <2>1 DEF Grows
    <3> QED BY <1>3, <3>1
  <2>3. ASSUME NEW i \in 0..n PROVE f[i] = IF i = 0 THEN <<>> ELSE f[i - 1] \o Command(p[i])
    <3>1. CASE i = 0
      BY <2>2, <3>1
    <3>2. CASE i # 0
      <4>1. i \in 1..n
        BY <3>2
      <4> QED BY <2>2, <3>2, <4>1
    <3> QED BY <3>1, <3>2
  <2> QED BY <2>1, <2>3
<1>5. s = [i \in 0..n |-> IF i = 0 THEN <<>> ELSE s[i - 1] \o Command(p[i])]
  BY <1>0, <1>4, Zenon
<1>6. Separate(p) = s[n]
  BY <1>0, Zenon DEF Separate
<1> HIDE DEF s
<1>7. Grows(s, n, V, <<>>, block)
  <2>1. s[0] = <<>> /\ \A i \in 1..n : s[i] = s[i - 1] \o block[i]
    BY <1>3, <1>5
  <2>2. <<>> \in Seq(V)
    OBVIOUS
  <2> QED BY <1>2, <2>1, <2>2 DEF Grows
<1> QED BY <1>6, <1>7, GrowsTypes DEF V

LEMMA AllArgumentsIs ==
  ASSUME NEW n \in Nat, NEW p \in Calls(n) PROVE AllArguments(p) \in Seq(Seq(MCChars))
<1> DEFINE block == [i \in 1..n |-> Arguments(p[i])]
           V == Seq(MCChars)
<1>0. Len(p) = n
  BY DEF Calls
<1>1. \A i \in 1..n : Arguments(p[i]) \in Seq(V)
  <2>1. \A i \in 1..n : CallOK(p[i])
    BY DEF Calls
  <2> QED BY <2>1, ArgumentsIs
<1> HIDE DEF V
<1>2. block \in [1..n -> Seq(V)]
  BY <1>1
<1> DEFINE s[i \in 0..Len(p)] == IF i = 0 THEN <<>> ELSE s[i - 1] \o Arguments(p[i])
<1>3. \A i \in 1..n : block[i] = Arguments(p[i])
  OBVIOUS
<1> HIDE DEF block
<1>4. \E f : f = [i \in 0..n |-> IF i = 0 THEN <<>> ELSE f[i - 1] \o Arguments(p[i])]
  <2>1. PICK f : Grows(f, n, V, <<>>, block) /\ f = [i \in 0..n |-> f[i]]
    BY <1>2, Concatenation
  <2>2. f[0] = <<>> /\ \A i \in 1..n : f[i] = f[i - 1] \o Arguments(p[i])
    <3>1. f[0] = <<>> /\ \A i \in 1..n : f[i] = f[i - 1] \o block[i]
      BY <2>1 DEF Grows
    <3> QED BY <1>3, <3>1
  <2>3. ASSUME NEW i \in 0..n PROVE f[i] = IF i = 0 THEN <<>> ELSE f[i - 1] \o Arguments(p[i])
    <3>1. CASE i = 0
      BY <2>2, <3>1
    <3>2. CASE i # 0
      <4>1. i \in 1..n
        BY <3>2
      <4> QED BY <2>2, <3>2, <4>1
    <3> QED BY <3>1, <3>2
  <2> QED BY <2>1, <2>3
<1>5. s = [i \in 0..n |-> IF i = 0 THEN <<>> ELSE s[i - 1] \o Arguments(p[i])]
  BY <1>0, <1>4, Zenon
<1>6. AllArguments(p) = s[n]
  BY <1>0, Zenon DEF AllArguments
<1> HIDE DEF s
<1>7. Grows(s, n, V, <<>>, block)
  <2>1. s[0] = <<>> /\ \A i \in 1..n : s[i] = s[i - 1] \o block[i]
    BY <1>3, <1>5
  <2>2. <<>> \in Seq(V)
    OBVIOUS
  <2> QED BY <1>2, <2>1, <2>2 DEF Grows
<1> QED BY <1>6, <1>7, GrowsTypes DEF V

LEMMA JoinedIs ==
  ASSUME NEW n \in Nat, NEW p \in Calls(n), NEW prefix \in Seq(MCChars)
  PROVE  Joined(prefix, p) \in Seq(MCChars)
<1> DEFINE letters == [i \in 1..Len(p) |-> p[i].letter]
           V == MCChars
<1>1. Len(p) = n /\ \A i \in 1..n : p[i].letter \in V
  BY DEF Calls, CallOK
<1>2. prefix \in Seq(V) /\ Space \in V
  BY DEF MCChars
<1> HIDE DEF V
<1>3. letters \in Seq(V)
  BY <1>1
<1> HIDE DEF letters
<1>4. prefix \o letters \in Seq(V)
  BY <1>2, <1>3, ConcatProperties
<1>5. <<prefix \o letters>> \in Seq(Seq(V))
  BY <1>4
<1>6. Spaced(<<prefix \o letters>>) \in Seq(V)
  BY <1>2, <1>5, SpacedIs
<1> QED BY <1>6, Zenon DEF Joined, letters, V

LEMMA GroupedIs ==
  ASSUME NEW n \in Nat, NEW p \in Calls(n)
  PROVE  Grouped(p) \in Seq(MCChars) /\ Twice(p) \in Seq(MCChars)
<1> DEFINE a == AllArguments(p)
           V == MCChars
<1>1. Space \in V /\ <<"-">> \in Seq(V) /\ <<"/", Numbers[2]>> \in Seq(V)
  <2>1. 2 \in 0..MaxInt
    BY CharsAssumption
  <2>2. Numbers[2] \in Digits
    BY <2>1 DEF Digits
  <2> QED BY <2>2 DEF MCChars
<1>2. a \in Seq(Seq(V))
  BY AllArgumentsIs
<1>3. a \o a \in Seq(Seq(V))
  <2> HIDE DEF a, V
  <2> QED BY <1>2, ConcatProperties
<1>4. Spaced(a) \in Seq(V) /\ Spaced(a \o a) \in Seq(V)
  <2> HIDE DEF a, V
  <2> QED BY <1>1, <1>2, <1>3, SpacedIs
<1>5. Joined(<<"-">>, p) \in Seq(V) /\ Joined(<<"/", Numbers[2]>>, p) \in Seq(V)
  BY <1>1, JoinedIs
<1> HIDE DEF V
<1>6. Joined(<<"-">>, p) \o Spaced(a) \in Seq(V) /\ Joined(<<"/", Numbers[2]>>, p) \o Spaced(a \o a) \in Seq(V)
  <2> HIDE DEF a
  <2> QED BY <1>4, <1>5, ConcatProperties
<1> QED BY <1>6, Zenon DEF Grouped, Twice, V

LEMMA CallsOK == \A c \in Palette \cup Figures1 : CallOK(c)
<1> DEFINE R == -9..9
<1>0. \A l \in {"g", "j", "o", "c", "d", "s", "r", "n", "a", "h", "b", "l", "i"} : l \in MCChars
  BY DEF MCChars
<1>1. ASSUME NEW c \in Palette PROVE CallOK(c)
  <2>1. /\ c.letter \in {"g", "j", "o", "c", "d", "s", "r", "n", "a", "h", "b", "l"}
        /\ \/ c.args = <<>>
           \/ c.args \in {<<1, 2>>, <<2, -1>>, <<2, 1>>}
           \/ c.args \in {<<9>>, <<1>>}
           \/ c.args \in {<<0, 1, 2, 2, 0>>, <<0, 2, 2, 0>>}
    BY DEF Palette, Call
  <2>2. c.args \in Seq(R)
    <3>1. 0 \in R /\ 1 \in R /\ 2 \in R /\ 9 \in R /\ -1 \in R
      OBVIOUS
    <3> HIDE DEF R
    <3>2. <<>> \in Seq(R) /\ <<9>> \in Seq(R) /\ <<1>> \in Seq(R)
      BY <3>1
    <3>3. <<1, 2>> \in Seq(R) /\ <<2, -1>> \in Seq(R) /\ <<2, 1>> \in Seq(R)
      BY <3>1
    <3>4. <<0, 1, 2, 2, 0>> \in Seq(R) /\ <<0, 2, 2, 0>> \in Seq(R)
      BY <3>1
    <3> QED BY <2>1, <3>2, <3>3, <3>4, Zenon
  <2> QED BY <1>0, <2>1, <2>2 DEF CallOK
<1>2. ASSUME NEW c \in Figures1 PROVE CallOK(c)
  <2>1. /\ c.letter \in {"b", "l", "i"}
        /\ \/ \E x, y, w, h, v \in R : c.args = <<x, y, w, h, v>>
           \/ \E x, y, z, v \in R : c.args = <<x, y, z, v>>
           \/ \E x, y, z \in R : c.args = <<x, y, z>>
    <3> DEFINE
      A1 == {Call("l", <<a, b, z, d>>) : a \in {0, 2}, b \in {1, 2}, z \in 0..6, d \in 0..6}
      A2 == {Call("l", <<6, 2, z, d>>) : z \in -1..4, d \in -2..6}
      A3 == {Call("b", <<1, 0, w, h, hollow>>) : w \in -1..4, h \in -1..4, hollow \in 0..1}
      A4 == {Call("i", <<2, 3, r>>) : r \in -1..7}
    <3>1. CASE c \in A1
      <4>1. PICK a \in {0, 2}, b \in {1, 2}, z \in 0..6, d \in 0..6 : c = Call("l", <<a, b, z, d>>)
        BY <3>1
      <4>2. a \in R /\ b \in R /\ z \in R /\ d \in R
        OBVIOUS
      <4>3. c.letter = "l" /\ c.args = <<a, b, z, d>>
        BY <4>1 DEF Call
      <4> HIDE DEF R
      <4> QED BY <4>2, <4>3
    <3>2. CASE c \in A2
      <4>1. PICK z \in -1..4, d \in -2..6 : c = Call("l", <<6, 2, z, d>>)
        BY <3>2
      <4>2. 6 \in R /\ 2 \in R /\ z \in R /\ d \in R
        OBVIOUS
      <4>3. c.letter = "l" /\ c.args = <<6, 2, z, d>>
        BY <4>1 DEF Call
      <4> HIDE DEF R
      <4> QED BY <4>2, <4>3
    <3>3. CASE c \in A3
      <4>1. PICK w \in -1..4, h \in -1..4, hollow \in 0..1 : c = Call("b", <<1, 0, w, h, hollow>>)
        BY <3>3
      <4>2. 1 \in R /\ 0 \in R /\ w \in R /\ h \in R /\ hollow \in R
        OBVIOUS
      <4>3. c.letter = "b" /\ c.args = <<1, 0, w, h, hollow>>
        BY <4>1 DEF Call
      <4> HIDE DEF R
      <4> QED BY <4>2, <4>3
    <3>4. CASE c \in A4
      <4>1. PICK r \in -1..7 : c = Call("i", <<2, 3, r>>)
        BY <3>4
      <4>2. 2 \in R /\ 3 \in R /\ r \in R
        OBVIOUS
      <4>3. c.letter = "i" /\ c.args = <<2, 3, r>>
        BY <4>1 DEF Call
      <4> HIDE DEF R
      <4> QED BY <4>2, <4>3
    <3>5. c \in A1 \/ c \in A2 \/ c \in A3 \/ c \in A4
      <4>1. Figures1 = A1 \cup A2 \cup A3 \cup A4
        BY DEF Figures1
      <4> HIDE DEF A1, A2, A3, A4
      <4> QED BY <4>1
    <3> HIDE DEF R, A1, A2, A3, A4
    <3> QED BY <3>1, <3>2, <3>3, <3>4, <3>5, Zenon
  <2>2. c.args \in Seq(R)
    <3> HIDE DEF R
    <3>1. CASE \E x, y, w, h, v \in R : c.args = <<x, y, w, h, v>>
      <4>1. PICK x \in R, y \in R, w \in R, h \in R, v \in R : c.args = <<x, y, w, h, v>>
        BY <3>1
      <4>2. <<x, y, w, h, v>> \in Seq(R)
        OBVIOUS
      <4> QED BY <4>1, <4>2
    <3>2. CASE \E x, y, z, v \in R : c.args = <<x, y, z, v>>
      <4>1. PICK x \in R, y \in R, z \in R, v \in R : c.args = <<x, y, z, v>>
        BY <3>2
      <4>2. <<x, y, z, v>> \in Seq(R)
        OBVIOUS
      <4> QED BY <4>1, <4>2
    <3>3. CASE \E x, y, z \in R : c.args = <<x, y, z>>
      <4>1. PICK x \in R, y \in R, z \in R : c.args = <<x, y, z>>
        BY <3>3
      <4>2. <<x, y, z>> \in Seq(R)
        OBVIOUS
      <4> QED BY <4>1, <4>2
    <3> QED BY <2>1, <3>1, <3>2, <3>3
  <2> QED BY <1>0, <2>1, <2>2 DEF CallOK
<1> QED BY <1>1, <1>2

\* What is typed into darkbox and tcs_o.
LEMMA TextInputs == \A t \in Texts : Encode(t) \in Seq(MCChars)
<1> SUFFICES ASSUME NEW t \in Texts PROVE Encode(t) \in Seq(MCChars)
  OBVIOUS
<1> DEFINE S == {"x", "-", Space, NewLine, Quote, Escape}
           V == MCChars
<1>1. S \subseteq V /\ Alphabet(V)
  BY DEF MCChars, Alphabet
<1>2. t \in Spelled(S, TextSize)
  BY DEF Texts
<1> HIDE DEF S, V
<1>3. t \in Seq(V)
  BY <1>1, <1>2, SpelledIs
<1>4. PICK f, block : Encodes(f, t, V, block)
  BY <1>1, <1>3, EncodeGrows
<1>5. Grows(f, Len(t) + 1, V, Open, block) /\ Encode(t) = f[Len(t) + 1]
  BY <1>4 DEF Encodes
<1>6. Len(t) + 1 \in 0..(Len(t) + 1)
  BY <1>3
<1> QED BY <1>5, <1>6, GrowsTypes DEF V

LEMMA ProgramInputs ==
  ASSUME NEW n \in Nat, NEW p, p \in [1..n -> Palette]
  PROVE  /\ Separate(p) \in Seq(MCChars)
         /\ Grouped(p) \in Seq(MCChars) /\ Twice(p) \in Seq(MCChars)
<1>1. p \in Calls(n)
  <2>1. \A c \in Palette : c \in {d \in Palette \cup Figures1 : CallOK(d)}
    BY CallsOK
  <2> QED BY <2>1 DEF Calls
<1> QED BY <1>1, SeparateIs, GroupedIs

LEMMA StreamInputs ==
  MCInit /\ goal.by \in {"darkbox", "tcs_o"} => in \in Seq(Chars)
<1> SUFFICES ASSUME MCInit, goal.by \in {"darkbox", "tcs_o"} PROVE in \in Seq(MCChars)
  BY CharsAssumption
<1>1. ASSUME NEW s \in Raw PROVE s \in Seq(MCChars)
  <2> DEFINE S == {"-", "d", "n", "q", Space, NewLine, Quote, Escape}
  <2>1. S \subseteq MCChars
    BY DEF MCChars
  <2> HIDE DEF S
  <2>2. s \in Spelled(S, RawSize)
    BY DEF Raw, S
  <2> QED BY <2>1, <2>2, SpelledIs
<1>2. CASE DarkboxInput
  <2>1. CASE \E s \in Raw : in = s
    BY <1>1, <2>1
  <2>2. CASE \E t \in Texts : in = Encode(t)
    BY <2>2, TextInputs
  <2>3. CASE \E c \in Figures1 : in = Command(c)
    BY <2>3, CallsOK, CommandIs
  <2>4. CASE \E p \in Programs : in \in {Separate(p), Grouped(p), Twice(p)}
    <3>1. PICK p \in Programs : in \in {Separate(p), Grouped(p), Twice(p)}
      BY <2>4
    <3>2. \E n \in Nat : p \in [1..n -> Palette]
      <4>1. CASE \E n \in 1..2 : p \in [1..n -> Palette]
        BY <4>1
      <4>2. CASE \E a, b, c \in Palette : p = <<a, b, c>>
        <5>1. p \in [1..3 -> Palette]
          BY <4>2
        <5> QED BY <5>1
      <4>3. {Call("d", <<>>), Call("b", <<0, 1, 2, 2, 0>>)} \subseteq Palette
        BY DEF Palette
      <4> DEFINE Last3 == {Call("d", <<>>), Call("b", <<0, 1, 2, 2, 0>>)}
                 A == UNION {[1..n -> Palette] : n \in 1..2}
                 B == {<<a, b, c>> : a \in Palette, b \in Palette, c \in Last3}
      <4>4. p \in A \/ p \in B
        <5>1. Programs = A \cup B
          BY DEF Programs
        <5> HIDE DEF A, B
        <5> QED BY <3>1, <5>1
      <4> HIDE DEF Last3
      <4>5. p \in B => \E a, b, c \in Palette : p = <<a, b, c>>
        <5> HIDE DEF Palette
        <5>1. Last3 \subseteq Palette
          BY <4>3 DEF Last3
        <5> QED BY <5>1
      <4>6. p \in A => \E n \in 1..2 : p \in [1..n -> Palette]
        OBVIOUS
      <4> HIDE DEF A, B
      <4> QED BY <4>1, <4>2, <4>4, <4>5, <4>6
    <3> QED BY <3>1, <3>2, ProgramInputs
  <2> QED BY <1>2, <2>1, <2>2, <2>3, <2>4, Zenon DEF DarkboxInput
<1>3. CASE TcsOInput
  <2>1. CASE \E s \in Raw : in = s
    BY <1>1, <2>1
  <2>2. CASE \E t \in Texts : in = Encode(t)
    BY <2>2, TextInputs
  <2>3. CASE \E p \in ProgramsOf("tcs_o") : in = Separate(p)
    <3>1. PICK p \in ProgramsOf("tcs_o") : in = Separate(p)
      BY <2>3
    <3>2. PICK n \in 1..3 : p \in [1..n -> {c \in Palette : c.letter \in KnownTo("tcs_o")}]
      BY <3>1 DEF ProgramsOf
    <3>3. n \in Nat /\ p \in [1..n -> Palette]
      BY <3>2
    <3> QED BY <3>1, <3>3, ProgramInputs
  <2> QED BY <1>3, <2>1, <2>2, <2>3, Zenon DEF TcsOInput
<1>4. ASSUME NEW by \in {"cbatbox_core", "cbatbox"}, CbatboxInput(by) PROVE FALSE
  <2>1. goal.by = by
    BY <1>4 DEF CbatboxInput, Goal
  <2> QED BY <2>1
<1> QED BY <1>2, <1>3, <1>4 DEF MCInit

\* What the command line of a cbatbox is.
LEMMA WordInputs ==
  ASSUME NEW by, CbatboxInput(by), KnownTo(by) = KnownTo("cbatbox_core"), at = 1
  PROVE  /\ goal.by = by /\ in \in Seq(Seq(WordChars))
         /\ goal.kind # "raw" => AtCall
<1> DEFINE V == Seq(WordChars)
<1>1. CASE \E s \in RawWords : in = s /\ goal = Goal(by, "raw", <<>>, <<>>)
  <2> DEFINE S == {<<"-", "d">>, <<"-", "n">>, <<"-", "g">>, <<"-", "k">>, <<"-", "k", "_">>,
                   <<"-", "m">>, <<"-", "p">>, <<"-">>, <<"4">>}
  <2>1. {"-", "d", "n", "g", "k", "_", "m", "p", "4"} \subseteq WordChars
    BY DEF WordChars, MCChars
  <2>2. S \subseteq V
    <3> DEFINE W == WordChars
    <3>1. "-" \in W /\ "d" \in W /\ "n" \in W /\ "g" \in W /\ "k" \in W /\ "_" \in W
      BY <2>1
    <3>2. "m" \in W /\ "p" \in W /\ "4" \in W
      BY <2>1
    <3> HIDE DEF W
    <3>3. \A a \in W : <<a>> \in Seq(W)
      OBVIOUS
    <3>4. \A a, b \in W : <<a, b>> \in Seq(W)
      OBVIOUS
    <3>5. \A a, b, c \in W : <<a, b, c>> \in Seq(W)
      OBVIOUS
    <3> QED BY <3>1, <3>2, <3>3, <3>4, <3>5, Zenon DEF W
  <2> HIDE DEF S, V
  <2>3. in \in Spelled(S, RawSize - 1) /\ goal.by = by /\ goal.kind = "raw"
    <3>1. in \in RawWords /\ goal = Goal(by, "raw", <<>>, <<>>)
      BY <1>1
    <3>2. RawWords = Spelled(S, RawSize - 1)
      BY Zenon DEF RawWords, S
    <3>3. goal.by = by /\ goal.kind = "raw"
      BY <3>1 DEF Goal
    <3> QED BY <3>1, <3>2, <3>3
  <2>4. in \in Seq(V)
    BY <2>2, <2>3, SpelledIs
  <2> QED BY <2>3, <2>4 DEF V
<1>2. CASE \E p \in ProgramsOf(by) : in = Words(p) /\ goal = Goal(by, "program", <<>>, p)
  <2>1. PICK p \in ProgramsOf(by) : in = Words(p) /\ goal = Goal(by, "program", <<>>, p)
    BY <1>2
  <2>2. PICK n \in 1..3 : p \in [1..n -> {c \in Palette : c.letter \in KnownTo(by)}]
    BY <2>1 DEF ProgramsOf
  <2> DEFINE block == [i \in 1..n |-> << <<"-", p[i].letter>> >> \o Arguments(p[i])]
  <2>3. n \in Nat /\ Len(p) = n
    BY <2>2
  <2>4. ASSUME NEW i \in 1..n
        PROVE  /\ p[i].letter \in KnownTo("cbatbox_core")
               /\ << <<"-", p[i].letter>> >> \o Arguments(p[i]) \in Seq(V)
               /\ Len(<< <<"-", p[i].letter>> >> \o Arguments(p[i])) = 1 + Core!Arity(p[i].letter)
               /\ (<< <<"-", p[i].letter>> >> \o Arguments(p[i]))[1] = <<"-", p[i].letter>>
    <3> DEFINE c == p[i]
               a == << <<"-", c.letter>> >>
               b == Arguments(c)
    <3>1. c \in Palette /\ c.letter \in KnownTo("cbatbox_core")
      BY <2>2
    <3>2. CallOK(c)
      BY <3>1, CallsOK
    <3>3. (IF c.letter = "d" THEN 1 ELSE Len(c.args)) = Core!Arity(c.letter)
      <4>1. \/ c.letter \in {"g", "o"} /\ c.args \in {<<1, 2>>, <<2, 1>>}
            \/ c.letter \in {"a", "c", "h"} /\ c.args \in {<<9>>, <<1>>}
            \/ c.letter \in {"d", "n"} /\ c.args = <<>>
        <5>1. c.letter \in {"a", "c", "d", "g", "h", "n", "o"}
          BY <3>1 DEF KnownTo
        <5> HIDE DEF c
        <5> QED BY <3>1, <5>1 DEF Palette, Call
      <4> HIDE DEF c
      <4>2. CASE c.letter \in {"g", "o"} /\ c.args \in {<<1, 2>>, <<2, 1>>}
        <5>1. Core!Arity(c.letter) = 2 /\ Len(c.args) = 2
          BY <4>2 DEF Core!Arity
        <5> QED BY <4>2, <5>1
      <4>3. CASE c.letter \in {"a", "c", "h"} /\ c.args \in {<<9>>, <<1>>}
        <5>1. Core!Arity(c.letter) = 1 /\ Len(c.args) = 1
          BY <4>3 DEF Core!Arity
        <5> QED BY <4>3, <5>1
      <4>4. CASE c.letter \in {"d", "n"} /\ c.args = <<>>
        BY <4>4 DEF Core!Arity
      <4> QED BY <4>1, <4>2, <4>3, <4>4
    <3> HIDE DEF c
    <3>4. b \in Seq(Seq(MCChars)) /\ Len(b) = Core!Arity(c.letter)
      BY <3>2, <3>3, ArgumentsIs
    <3>5. MCChars \subseteq WordChars
      BY DEF WordChars
    <3>6. b \in Seq(V)
      <4> HIDE DEF b
      <4>1. Seq(MCChars) \subseteq V
        BY <3>5
      <4> HIDE DEF V
      <4> QED BY <3>4, <4>1
    <3>7. a \in Seq(V) /\ Len(a) = 1 /\ a[1] = <<"-", c.letter>>
      <4>1. c.letter \in WordChars /\ "-" \in WordChars
        BY <3>2, <3>5 DEF CallOK, MCChars
      <4>2. <<"-", c.letter>> \in V
        BY <4>1
      <4> HIDE DEF V
      <4> QED BY <4>2
    <3> HIDE DEF a, b, V
    <3>8. /\ a \o b \in Seq(V) /\ Len(a \o b) = Len(a) + Len(b) /\ (a \o b)[1] = a[1]
      BY <3>6, <3>7, ConcatProperties
    <3> QED BY <3>1, <3>4, <3>7, <3>8 DEF a, b, c
  <2>5. block \in [1..n -> Seq(V)]
    <3> HIDE DEF V
    <3> QED BY <2>4
  <2>6. in = FlattenSeq(block)
    BY <2>1, <2>3, Zenon DEF Words
  <2>7. \A i \in 1..n : /\ Len(block[i]) = 1 + Core!Arity(p[i].letter)
                        /\ block[i][1] = <<"-", p[i].letter>>
    BY <2>4
  <2> HIDE DEF block, V
  <2>8. PICK f : Grows(f, n, V, <<>>, block) /\ FlattenSeq(block) = f[n]
    BY <2>3, <2>5, FlattenGrows
  <2>9. CallWords(p, f, block)
    BY <2>3, <2>4, <2>7, <2>8 DEF CallWords, V
  <2>10. 0 \in 0..Len(p) /\ at = Len(f[0]) + 1
    BY <2>3, <2>8 DEF Grows
  <2>11. AtCall
    BY <2>3, <2>6, <2>8, <2>9, <2>10 DEF AtCall
  <2>12. in \in Seq(V)
    <3>1. n \in 0..n
      BY <2>3
    <3> QED BY <2>6, <2>8, <3>1, GrowsTypes
  <2>13. goal.by = by
    BY <2>1 DEF Goal
  <2> QED BY <2>11, <2>12, <2>13 DEF V
<1> QED BY <1>1, <1>2 DEF CbatboxInput

-----------------------------------------------------------------------------
(* All four programs.                                                      *)

AllInv ==
  /\ goal.by \in {"darkbox", "tcs_o", "cbatbox_core", "cbatbox"}
  /\ goal.by = "darkbox" => DarkboxInv
  /\ goal.by = "tcs_o" => TcsInv
  /\ goal.by = "cbatbox_core" => CoreInv
  /\ goal.by = "cbatbox" => WinInv

LEMMA BeganTypes ==
  ASSUME Began
  PROVE  /\ at = 1 /\ at \in Position /\ pc = "parse" /\ origin \in Int \X Int
         /\ ConIs(console)
BY DEF Began, Position, ConIs

LEMMA InitAllInv == MCInit => AllInv
<1> SUFFICES ASSUME MCInit PROVE AllInv
  OBVIOUS
<1>1. Started /\ Began /\ last = <<0, 0>>
  BY DEF MCInit, Started
<1>2. /\ at = 1 /\ at \in Position /\ pc = "parse" /\ origin \in Int \X Int
      /\ ConIs(console) /\ last \in Int \X Int
  BY <1>1, BeganTypes
<1>3. CASE DarkboxInput \/ TcsOInput
  <2>1. goal.by \in {"darkbox", "tcs_o"}
    BY <1>3 DEF DarkboxInput, TcsOInput, Goal
  <2>2. in \in Seq(Chars)
    BY <2>1, StreamInputs
  <2>3. DarkboxInv /\ TcsInv
    BY <1>1, <1>2, <2>2, DarkboxStarts DEF TcsInv
  <2> QED BY <2>1, <2>3 DEF AllInv
<1>4. CASE CbatboxInput("cbatbox_core")
  <2>1. /\ goal.by = "cbatbox_core" /\ in \in Seq(Seq(WordChars))
        /\ goal.kind # "raw" => AtCall
    BY <1>2, <1>4, WordInputs
  <2> QED BY <1>2, <2>1 DEF AllInv, CoreInv
<1>5. CASE CbatboxInput("cbatbox")
  <2>1. KnownTo("cbatbox") = KnownTo("cbatbox_core")
    BY DEF KnownTo
  <2>2. goal.by = "cbatbox" /\ in \in Seq(Seq(WordChars))
    BY <1>2, <1>5, <2>1, WordInputs
  <2> QED BY <1>2, <2>2 DEF AllInv, WinInv
<1> QED BY <1>3, <1>4, <1>5 DEF MCInit

LEMMA NextAllInv == AllInv /\ [MCNext]_mcvars => AllInv'
<1> SUFFICES ASSUME AllInv, [MCNext]_mcvars PROVE AllInv'
  OBVIOUS
<1>1. CASE DarkboxStep /\ UNCHANGED goal
  <2>1. goal.by = "darkbox" /\ Next
    BY <1>1 DEF DarkboxStep
  <2>2. DarkboxInv'
    BY <2>1, NextDarkboxInv DEF AllInv
  <2> QED BY <1>1, <2>1, <2>2 DEF AllInv
<1>2. CASE TcsOStep /\ UNCHANGED goal
  <2>1. goal.by = "tcs_o" /\ Tcs!Next
    BY <1>2 DEF TcsOStep
  <2>2. TcsInv'
    BY <2>1, NextTcsInv DEF AllInv
  <2> QED BY <1>2, <2>1, <2>2 DEF AllInv
<1>3. CASE CoreStep /\ UNCHANGED goal
  <2>1. goal.by = "cbatbox_core" /\ Core!Next
    BY <1>3 DEF CoreStep
  <2>2. CoreInv'
    BY <1>3, <2>1, NextCoreInv DEF AllInv
  <2> QED BY <1>3, <2>1, <2>2 DEF AllInv
<1>4. CASE WinStep /\ UNCHANGED goal
  <2>1. goal.by = "cbatbox" /\ Win!Next
    BY <1>4 DEF WinStep
  <2>2. WinInv'
    BY <2>1, NextWinInv DEF AllInv
  <2> QED BY <1>4, <2>1, <2>2 DEF AllInv
<1>5. CASE Stopped \/ UNCHANGED mcvars
  <2>1. UNCHANGED <<vars, last>> \/ UNCHANGED mcvars
    BY <1>5 DEF Stopped
  <2>2. UNCHANGED vars /\ UNCHANGED last
    BY <2>1, Zenon DEF mcvars
  <2>3. UNCHANGED goal
    BY <1>5, Zenon DEF MCNext, mcvars
  <2>4. DarkboxInv => DarkboxInv'
    BY <2>2, NextDarkboxInv
  <2>5. /\ UNCHANGED in /\ UNCHANGED at /\ UNCHANGED pc /\ UNCHANGED origin
        /\ UNCHANGED console
    BY <2>2 DEF vars
  <2>6. (TcsInv => TcsInv') /\ (WinInv => WinInv')
    BY <2>2, <2>5 DEF TcsInv, WinInv, ConIs
  <2>7. CoreInv => CoreInv'
    <3>1. AtCall => AtCall'
      BY <2>5 DEF AtCall
    <3> QED BY <2>3, <2>5, <3>1 DEF CoreInv, ConIs
  <2> QED BY <2>3, <2>4, <2>6, <2>7 DEF AllInv
<1> QED BY <1>1, <1>2, <1>3, <1>4, <1>5 DEF MCNext

LEMMA AllInvTyped == AllInv => AllTypeOK
<1> SUFFICES ASSUME AllInv PROVE AllTypeOK
  OBVIOUS
<1>1. goal.by = "darkbox" => TypeOK
  BY DarkboxInvTyped DEF AllInv
<1>2. ConsoleOK
  <2>1. ConIs(console)
    BY DEF AllInv, DarkboxInv, TcsInv, CoreInv, WinInv
  <2> QED BY <2>1 DEF ConIs, ConsoleOK
<1>3. pc = "crashed" => goal.by = "cbatbox_core" /\ goal.kind = "raw"
  BY DEF AllInv, DarkboxInv, TcsInv, CoreInv, WinInv
<1> QED BY <1>1, <1>2, <1>3 DEF AllTypeOK

\* Whatever the input, every one of the four programs keeps its state in order: the
\* cursor and the cells on the screen, darkbox's command with a letter and a turn
\* left, its figure only while one is drawn; and only cbatbox on lib/core crashes,
\* where arguments are missing (its commands count themselves with them), never on
\* a program that is whole.
THEOREM AllTyped == MCSpec => []AllTypeOK
BY InitAllInv, NextAllInv, AllInvTyped, PTL DEF MCSpec
=============================================================================
