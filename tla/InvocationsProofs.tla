--------------------------- MODULE InvocationsProofs ---------------------------
(***************************************************************************)
(* For any number of processes and any lines: one process at most is       *)
(* Buckey, a running Buckey finds its temporary directory again, and the   *)
(* lines that command lines send are passed on as they were typed.         *)
(***************************************************************************)
EXTENDS Invocations, SequenceTheorems, TLAPS

-----------------------------------------------------------------------------
(* A text that is cut into lines                                           *)

\* The text is the lines of L after the k-th, one after the other: b[j] is where
\* the j-th of them ends.
Cut(text, L, k) ==
    \E b \in [k .. Len(L) -> 0 .. Len(text)] :
        /\ b[k] = 0
        /\ b[Len(L)] = Len(text)
        /\ \A i, j \in k .. Len(L) : i <= j => b[i] <= b[j]
        /\ \A j \in k + 1 .. Len(L) :
              /\ b[j] = b[j - 1] + Len(L[j])
              /\ \A i \in 1 .. Len(L[j]) : text[b[j - 1] + i] = L[j][i]

\* A line ends with the only end of a line in it.
IsLine(line) == line # <<>> /\ \A i \in 1 .. Len(line) : line[i] = NewLine <=> i = Len(line)

\* Nothing sent is cut into no lines.
LEMMA CutNothing == Cut(<<>>, <<>>, 0)
<1> DEFINE b == [j \in 0 .. 0 |-> 0]
<1>1. Len(<<>>) = 0
  OBVIOUS
<1>2. b \in [0 .. 0 -> 0 .. 0] /\ b[0] = 0
  OBVIOUS
<1>3. \A i, j \in 0 .. 0 : i <= j => b[i] <= b[j]
  OBVIOUS
<1> HIDE DEF b
<1> QED
  BY <1>1, <1>2, <1>3 DEF Cut

\* Where the elements of two sequences are that are put one after the other.
LEMMA ConcatAt ==
    ASSUME NEW S, NEW x \in Seq(S), NEW y \in Seq(S)
    PROVE  /\ x \o y \in Seq(S)
           /\ Len(x \o y) = Len(x) + Len(y)
           /\ \A i \in 1 .. Len(x) : (x \o y)[i] = x[i]
           /\ \A i \in 1 .. Len(y) : (x \o y)[Len(x) + i] = y[i]
<1> DEFINE z == x \o y
<1>1. /\ z \in Seq(S) /\ Len(z) = Len(x) + Len(y)
      /\ \A i \in 1 .. Len(x) + Len(y) : z[i] = IF i <= Len(x) THEN x[i] ELSE y[i - Len(x)]
  BY ConcatProperties
<1>2. Len(x) \in Nat /\ Len(y) \in Nat
  BY LenProperties
<1> HIDE DEF z
<1>3. ASSUME NEW i \in 1 .. Len(x) PROVE z[i] = x[i]
  <2>1. i \in 1 .. Len(x) + Len(y) /\ i <= Len(x)
    BY <1>2
  <2> QED
    BY <1>1, <2>1
<1>4. ASSUME NEW i \in 1 .. Len(y) PROVE z[Len(x) + i] = y[i]
  <2> DEFINE j == Len(x) + i
  <2>1. j \in 1 .. Len(x) + Len(y) /\ ~(j <= Len(x)) /\ j - Len(x) = i
    BY <1>2
  <2> HIDE DEF j
  <2>2. z[j] = y[i]
    BY <1>1, <2>1
  <2> QED
    BY <2>2 DEF j
<1> QED
  BY <1>1, <1>3, <1>4 DEF z

\* Which two of three texts are put together first makes no difference.
LEMMA Regrouped ==
    \A u, v, w \in Seq(Characters) : (u \o v) \o w = u \o (v \o w)
<1> DEFINE S == Characters
<1> SUFFICES ASSUME NEW u \in Seq(S), NEW v \in Seq(S), NEW w \in Seq(S)
             PROVE  (u \o v) \o w = u \o (v \o w)
  OBVIOUS
<1> HIDE DEF S
<1> QED
  OBVIOUS

\* The characters of a text in the order they are read, whatever is read of it so far.
LEMMA ReadOn ==
    \A x, y, z \in Seq(Characters) : y # <<>> =>
        x \o (y \o z) = Append(x, Head(y)) \o (Tail(y) \o z)
<1> DEFINE S == Characters
<1> SUFFICES ASSUME NEW x \in Seq(S), NEW y \in Seq(S), NEW z \in Seq(S), y # <<>>
             PROVE  x \o (y \o z) = Append(x, Head(y)) \o (Tail(y) \o z)
  OBVIOUS
<1> HIDE DEF S
<1> DEFINE h == <<Head(y)>>
           t == Tail(y)
<1>1. Head(y) \in S /\ t \in Seq(S) /\ h \in Seq(S)
  BY HeadTailProperties
<1>2. y = h \o t
  <2>1. Len(y) \in Nat \ {0}
    BY EmptySeq
  <2>2. SubSeq(y, 1, Len(y)) = <<y[1]>> \o SubSeq(y, 1 + 1, Len(y))
    BY <2>1, SubSeqRecursiveFirst
  <2>3. SubSeq(y, 1, Len(y)) = y
    BY SubSeqFull
  <2>4. Tail(y) = SubSeq(y, 2, Len(y))
    BY TailIsSubSeq
  <2>5. Head(y) = y[1] /\ 1 + 1 = 2
    OBVIOUS
  <2> QED
    BY <2>2, <2>3, <2>4, <2>5
<1>3. Append(x, Head(y)) = x \o h
  BY <1>1, AppendIsConcat
<1> HIDE DEF h, t
<1> DEFINE Same(u, v, w) == (u \o v) \o w = u \o (v \o w)
<1>4. \A u, v, w \in Seq(S) : Same(u, v, w)
  BY Regrouped, Zenon DEF S
<1>5. t \o z \in Seq(S)
  BY <1>1, ConcatProperties
<1> HIDE DEF Same
<1>6. Same(x, h, t \o z) /\ Same(h, t, z)
  BY <1>1, <1>4, <1>5
<1> QED
  BY <1>2, <1>3, <1>6 DEF Same, t

\* A line more at the end.
LEMMA CutGrows ==
    ASSUME NEW S, NEW text \in Seq(S), NEW L \in Seq(Seq(S)), NEW k \in 0 .. Len(L),
           NEW line \in Seq(S), Cut(text, L, k)
    PROVE  Cut(text \o line, Append(L, line), k)
<1>1. PICK b \in [k .. Len(L) -> 0 .. Len(text)] :
        /\ b[k] = 0
        /\ b[Len(L)] = Len(text)
        /\ \A i, j \in k .. Len(L) : i <= j => b[i] <= b[j]
        /\ \A j \in k + 1 .. Len(L) :
              /\ b[j] = b[j - 1] + Len(L[j])
              /\ \A i \in 1 .. Len(L[j]) : text[b[j - 1] + i] = L[j][i]
  BY DEF Cut
<1> DEFINE T == text \o line
           M == Append(L, line)
           n == Len(L)
           c == [j \in k .. n + 1 |-> IF j = n + 1 THEN Len(T) ELSE b[j]]
<1>2. /\ T \in Seq(S) /\ Len(T) = Len(text) + Len(line)
      /\ \A i \in 1 .. Len(text) : T[i] = text[i]
      /\ \A i \in 1 .. Len(line) : T[Len(text) + i] = line[i]
  BY ConcatAt
<1>3. /\ Len(M) = n + 1 /\ M[n + 1] = line
      /\ \A j \in 1 .. n : M[j] = L[j]
  OBVIOUS
<1>4. Len(text) \in Nat /\ Len(line) \in Nat /\ n \in Nat /\ k \in Nat /\ k <= n
  OBVIOUS
<1>5. \A j \in 1 .. n : Len(L[j]) \in Nat
  BY ElementOfSeq, LenProperties
<1> HIDE DEF T, M, n
<1>6. c \in [k .. n + 1 -> 0 .. Len(T)]
  BY <1>1, <1>2, <1>4 DEF n
<1>7. c[k] = 0 /\ c[n + 1] = Len(T) /\ c[n] = Len(text)
  BY <1>1, <1>4 DEF n
<1>8. ASSUME NEW i \in k .. n + 1, NEW j \in k .. n + 1, i <= j PROVE c[i] <= c[j]
  <2>1. CASE j = n + 1
    BY <1>2, <1>4, <1>6, <2>1
  <2>2. CASE j # n + 1
    BY <1>1, <1>4, <1>8, <2>2 DEF n
  <2> QED
    BY <2>1, <2>2
<1>9. ASSUME NEW j \in k + 1 .. n + 1
      PROVE  /\ c[j] = c[j - 1] + Len(M[j])
             /\ \A i \in 1 .. Len(M[j]) : T[c[j - 1] + i] = M[j][i]
  <2>1. CASE j = n + 1
    <3>1. c[j - 1] = Len(text) /\ M[j] = line
      BY <1>3, <1>4, <1>7, <2>1
    <3> QED
      BY <1>2, <1>4, <1>7, <2>1, <3>1
  <2>2. CASE j # n + 1
    <3>1. j \in k + 1 .. n /\ j \in 1 .. n /\ j - 1 \in k .. n /\ j \in k .. n
      BY <1>4, <2>2
    <3>2. c[j] = b[j] /\ c[j - 1] = b[j - 1] /\ M[j] = L[j]
      BY <1>3, <1>4, <2>2, <3>1
    <3>3. b[j] = b[j - 1] + Len(L[j])
      BY <1>1, <3>1 DEF n
    <3>4. b[j] \in 0 .. Len(text) /\ b[j - 1] \in 0 .. Len(text)
      BY <1>1, <3>1 DEF n
    <3>5. ASSUME NEW i \in 1 .. Len(L[j]) PROVE T[b[j - 1] + i] = L[j][i]
      <4>1. b[j - 1] + i \in 1 .. Len(text)
        <5> DEFINE from == b[j - 1]
                   to   == b[j]
                   m    == Len(L[j])
        <5>1. /\ m \in Nat /\ from \in Nat /\ to \in Nat /\ i \in 1 .. m
              /\ to = from + m /\ to <= Len(text)
          BY <1>4, <1>5, <3>1, <3>3, <3>4
        <5> HIDE DEF from, to, m
        <5>2. from + i \in 1 .. Len(text)
          BY <1>4, <5>1
        <5> QED
          BY <5>2 DEF from
      <4>2. text[b[j - 1] + i] = L[j][i]
        BY <1>1, <3>1 DEF n
      <4> QED
        BY <1>2, <4>1, <4>2
    <3> QED
      BY <3>2, <3>3, <3>5
  <2> QED
    BY <2>1, <2>2
<1> HIDE DEF c
<1>10. Cut(T, M, k)
  <2>1. Len(M) = n + 1
    BY <1>3
  <2>2. c \in [k .. Len(M) -> 0 .. Len(T)] /\ c[k] = 0 /\ c[Len(M)] = Len(T)
    BY <1>6, <1>7, <2>1
  <2>3. \A i, j \in k .. Len(M) : i <= j => c[i] <= c[j]
    BY <1>8, <2>1
  <2>4. \A j \in k + 1 .. Len(M) :
              /\ c[j] = c[j - 1] + Len(M[j])
              /\ \A i \in 1 .. Len(M[j]) : T[c[j - 1] + i] = M[j][i]
    BY <1>9, <2>1
  <2> HIDE DEF T, M
  <2> QED
    BY <2>2, <2>3, <2>4 DEF Cut
<1> QED
  BY <1>10 DEF T, M

\* What is read as a line is the first line there is, and what follows it is cut
\* into the rest of them.
LEMMA CutPasses ==
    ASSUME NEW S, NEW text \in Seq(S), NEW L \in Seq(Seq(S)), NEW k \in 0 .. Len(L),
           NEW line \in Seq(S), IsLine(line), \A j \in 1 .. Len(L) : IsLine(L[j]),
           Cut(line \o text, L, k)
    PROVE  k < Len(L) /\ L[k + 1] = line /\ Cut(text, L, k + 1)
<1> DEFINE T == line \o text
           n == Len(L)
<1>1. PICK b \in [k .. Len(L) -> 0 .. Len(T)] :
        /\ b[k] = 0
        /\ b[Len(L)] = Len(T)
        /\ \A i, j \in k .. Len(L) : i <= j => b[i] <= b[j]
        /\ \A j \in k + 1 .. Len(L) :
              /\ b[j] = b[j - 1] + Len(L[j])
              /\ \A i \in 1 .. Len(L[j]) : T[b[j - 1] + i] = L[j][i]
  BY DEF Cut
<1>2. /\ T \in Seq(S) /\ Len(T) = Len(line) + Len(text)
      /\ \A i \in 1 .. Len(line) : T[i] = line[i]
      /\ \A i \in 1 .. Len(text) : T[Len(line) + i] = text[i]
  BY ConcatAt
<1>3. n \in Nat /\ k \in Nat /\ k <= n /\ Len(text) \in Nat /\ Len(line) \in Nat \ {0}
  BY EmptySeq DEF IsLine
<1>4. ASSUME NEW j \in 1 .. n PROVE L[j] \in Seq(S) /\ Len(L[j]) \in Nat \ {0}
  <2>1. L[j] \in Seq(S) /\ L[j] # <<>>
    BY DEF IsLine
  <2> QED
    BY <2>1, EmptySeq
<1> HIDE DEF T, n
<1>5. k < n
  BY <1>1, <1>2, <1>3 DEF n
<1> DEFINE first == L[k + 1]
<1>6. /\ first \in Seq(S) /\ Len(first) \in Nat \ {0}
      /\ \A i \in 1 .. Len(first) : first[i] = NewLine <=> i = Len(first)
  BY <1>3, <1>4, <1>5 DEF IsLine, n
<1>7. b[k + 1] = Len(first) /\ \A i \in 1 .. Len(first) : T[i] = first[i]
  <2>1. k + 1 \in k + 1 .. Len(L) /\ k + 1 - 1 = k
    BY <1>3, <1>5 DEF n
  <2>2. b[k + 1] = b[k] + Len(first)
    BY <1>1, <2>1
  <2>3. ASSUME NEW j \in k + 1 .. Len(L), j = k + 1
        PROVE  \A i \in 1 .. Len(L[j]) : T[b[j - 1] + i] = L[j][i]
    BY <1>1
  <2>4. b[k] = 0
    BY <1>1
  <2>5. ASSUME NEW i \in 1 .. Len(first) PROVE T[i] = first[i]
    <3>1. 0 + i = i
      BY <1>6
    <3>2. T[b[k] + i] = first[i]
      <4> DEFINE j == k + 1
      <4>1. j \in k + 1 .. Len(L) /\ j = k + 1 /\ j - 1 = k /\ first = L[j]
        BY <2>1 DEF first
      <4> HIDE DEF j
      <4> QED
        BY <2>3, <4>1
    <3> QED
      BY <2>4, <3>1, <3>2
  <2> QED
    BY <1>6, <2>2, <2>4, <2>5
<1>8. \A i \in 1 .. Len(line) : line[i] = NewLine <=> i = Len(line)
  BY DEF IsLine
<1> HIDE DEF first
<1>9. Len(first) = Len(line)
  <2>1. CASE Len(first) < Len(line)
    <3>1. Len(first) \in 1 .. Len(first) /\ Len(first) \in 1 .. Len(line) /\ Len(first) # Len(line)
      BY <1>3, <1>6, <2>1
    <3>2. T[Len(first)] = NewLine
      BY <1>6, <1>7, <3>1
    <3>3. T[Len(first)] = line[Len(first)]
      BY <1>2, <3>1
    <3> QED
      BY <1>8, <3>1, <3>2, <3>3
  <2>2. CASE Len(line) < Len(first)
    <3>1. Len(line) \in 1 .. Len(first) /\ Len(line) \in 1 .. Len(line) /\ Len(first) # Len(line)
      BY <1>3, <1>6, <2>2
    <3>2. T[Len(line)] = NewLine
      BY <1>2, <1>8, <3>1
    <3>3. T[Len(line)] = first[Len(line)]
      BY <1>7, <3>1
    <3> QED
      BY <1>6, <3>1, <3>2, <3>3
  <2> QED
    BY <1>3, <1>6, <2>1, <2>2
<1>10. first = line
  <2>1. \A i \in 1 .. Len(line) : first[i] = line[i]
    BY <1>2, <1>7, <1>9
  <2> QED
    BY <1>6, <1>9, <2>1, SeqEqual
<1> DEFINE c == [j \in k + 1 .. n |-> b[j] - Len(line)]
<1>11. \A j \in k + 1 .. n : b[j] \in Nat /\ Len(line) <= b[j] /\ b[j] <= Len(T)
  BY <1>1, <1>2, <1>3, <1>7, <1>9 DEF n
<1>12. c \in [k + 1 .. n -> 0 .. Len(text)]
  BY <1>2, <1>3, <1>11
<1>13. c[k + 1] = 0 /\ c[n] = Len(text)
  <2>1. c[k + 1] = b[k + 1] - Len(line) /\ c[n] = b[n] - Len(line)
    BY <1>3, <1>5
  <2>2. b[n] = Len(T)
    BY <1>1 DEF n
  <2> QED
    BY <1>2, <1>3, <1>7, <1>9, <2>1, <2>2
<1>14. ASSUME NEW i \in k + 1 .. n, NEW j \in k + 1 .. n, i <= j PROVE c[i] <= c[j]
  <2>1. b[i] <= b[j]
    BY <1>1, <1>3, <1>14 DEF n
  <2> QED
    BY <1>3, <1>11, <2>1
<1>15. ASSUME NEW j \in k + 2 .. n
       PROVE  /\ c[j] = c[j - 1] + Len(L[j])
              /\ \A i \in 1 .. Len(L[j]) : text[c[j - 1] + i] = L[j][i]
  <2>1. j \in k + 1 .. Len(L) /\ j - 1 \in k + 1 .. n /\ j \in k + 1 .. n /\ j \in 1 .. n
    BY <1>3 DEF n
  <2>2. b[j] = b[j - 1] + Len(L[j])
    BY <1>1, <2>1
  <2>3. c[j] = b[j] - Len(line) /\ c[j - 1] = b[j - 1] - Len(line)
    BY <2>1
  <2>4. /\ b[j - 1] \in Nat /\ Len(line) <= b[j - 1]
        /\ b[j] \in Nat /\ b[j] <= Len(T)
    BY <1>11, <2>1
  <2>5. Len(L[j]) \in Nat
    BY <1>4, <2>1
  <2> HIDE DEF c
  <2> DEFINE x == b[j - 1]
             y == b[j]
             l == Len(line)
             m == Len(L[j])
  <2>6. /\ x \in Nat /\ y \in Nat /\ l \in Nat /\ m \in Nat /\ Len(text) \in Nat
        /\ Len(T) = l + Len(text) /\ y = x + m /\ y <= Len(T) /\ l <= x
        /\ c[j] = y - l /\ c[j - 1] = x - l
    BY <1>2, <1>3, <2>2, <2>3, <2>4, <2>5
  <2>7. ASSUME NEW i \in 1 .. Len(L[j]) PROVE text[c[j - 1] + i] = L[j][i]
    <3>1. i \in 1 .. m
      OBVIOUS
    <3>2. c[j - 1] + i \in 1 .. Len(text) /\ l + (c[j - 1] + i) = x + i
      <4> HIDE DEF x, y, l, m
      <4> QED
        BY <2>6, <3>1
    <3>3. T[b[j - 1] + i] = L[j][i]
      BY <1>1, <2>1
    <3>4. T[Len(line) + (c[j - 1] + i)] = text[c[j - 1] + i]
      BY <1>2, <3>2
    <3> QED
      BY <3>2, <3>3, <3>4
  <2>8. c[j] = c[j - 1] + m
    <3> HIDE DEF x, y, l, m
    <3> QED
      BY <2>6
  <2> QED
    BY <2>7, <2>8
<1>16. Cut(text, L, k + 1)
  <2> HIDE DEF c
  <2>1. k + 1 + 1 = k + 2
    BY <1>3
  <2> QED
    BY <1>12, <1>13, <1>14, <1>15, <2>1 DEF Cut, n
<1> QED
  BY <1>5, <1>10, <1>16 DEF n, first


-----------------------------------------------------------------------------
USE ReaderAssumption, InvocationsAssumption

-----------------------------------------------------------------------------
(* The lock and the directories                                            *)

\* The part of TypeOK that is about the processes.
PlacesOK ==
    /\ at \in [Processes -> Places]
    /\ role \in [Processes -> AllRoles]
    /\ lock \in Processes \cup {Nobody}
    /\ dirs \in SUBSET {"core", "tmp"}

\* Where a process has the lock.
Holding == {"fork", "parent", "init", "up"}

LockOK == \A p \in Processes : at[p] \in Holding => lock = p

\* Where a process relies on the temporary directory.
Relying == Holding \cup {"ready", "child"}

TempOK ==
    (\E p \in Processes : at[p] \in Relying) =>
        \/ "tmp" \in dirs
        \/ \E q \in Processes : at[q] \in {"checkTmp", "makeTmp", "cut"}

ProcessInv == PlacesOK /\ LockOK /\ TempOK

\* What a step does to one process: it goes from here to there, and gets the
\* lock only if nobody has it.
Moves(p, there) ==
    /\ at' = [at EXCEPT ![p] = there]
    /\ there \in Places
    /\ lock' = lock \/ (lock = Nobody /\ lock' = p) \/ (lock = p /\ lock' = Nobody /\ there \notin Holding)
    /\ there \in Holding => lock' = p

\* A move of one process keeps the lock with who holds it.
LEMMA MoveKeepsLock ==
    ASSUME PlacesOK, LockOK, NEW p \in Processes, NEW there, Moves(p, there)
    PROVE  LockOK'
<1> SUFFICES ASSUME NEW q \in Processes, at'[q] \in Holding PROVE lock' = q
  BY DEF LockOK
<1>1. CASE q = p
  BY <1>1 DEF Moves, PlacesOK
<1>2. CASE q # p
  <2>1. lock = q
    BY <1>2 DEF Moves, PlacesOK, LockOK
  <2> QED
    BY <2>1, <1>2 DEF Moves
<1> QED
  BY <1>1, <1>2

\* A move does not lose the temporary directory, unless it removes it and goes
\* on to create it.
LEMMA MoveKeepsTemp ==
    ASSUME PlacesOK, TempOK, NEW p \in Processes, NEW there, Moves(p, there),
           at[p] \in {"checkTmp", "makeTmp", "cut"} =>
                there \in {"checkTmp", "makeTmp", "cut"} \/ "tmp" \in dirs',
           there \in Relying => at[p] \in Relying \/ "tmp" \in dirs',
           "tmp" \in dirs => "tmp" \in dirs' \/ there = "checkTmp"
    PROVE  TempOK'
<1> SUFFICES ASSUME NEW q \in Processes, at'[q] \in Relying, "tmp" \notin dirs'
             PROVE  \E r \in Processes : at'[r] \in {"checkTmp", "makeTmp", "cut"}
  BY DEF TempOK
<1>1. at'[p] = there /\ \A r \in Processes : r # p => at'[r] = at[r]
  BY DEF Moves, PlacesOK
<1>2. at[q] \in Relying
  BY <1>1
<1>3. CASE "tmp" \in dirs
  BY <1>3, <1>1
<1>4. CASE "tmp" \notin dirs
  <2>1. PICK r \in Processes : at[r] \in {"checkTmp", "makeTmp", "cut"}
    BY <1>2, <1>4 DEF TempOK
  <2> QED
    BY <2>1, <1>1
<1> QED
  BY <1>3, <1>4

\* One process moves.
LEMMA MoveOK ==
    ASSUME ProcessInv, NEW p \in Processes, NEW there, Moves(p, there), PlacesOK',
           at[p] \in {"checkTmp", "makeTmp", "cut"} =>
                there \in {"checkTmp", "makeTmp", "cut"} \/ "tmp" \in dirs',
           there \in Relying => at[p] \in Relying \/ "tmp" \in dirs',
           "tmp" \in dirs => "tmp" \in dirs' \/ there = "checkTmp"
    PROVE  ProcessInv'
<1>1. LockOK'
  BY MoveKeepsLock DEF ProcessInv
<1>2. TempOK'
  BY MoveKeepsTemp DEF ProcessInv
<1> QED
  BY <1>1, <1>2 DEF ProcessInv

\* The end of a process, and a step that leaves the processes where they are.
LEMMA ExitOK ==
    ASSUME ProcessInv, NEW p \in Processes, NEW place \in {"over", "cut"}, Exit(p, place),
           UNCHANGED <<role, dirs>>,
           at[p] \in {"checkTmp", "makeTmp", "cut"} => place = "cut" \/ "tmp" \in dirs
    PROVE  ProcessInv'
<1>1. Moves(p, place)
  BY DEF Exit, Goto, Moves, Holding, Places, ProcessInv, PlacesOK
<1>2. PlacesOK'
  BY <1>1 DEF Exit, Moves, ProcessInv, PlacesOK
<1>3. place \notin Relying
  BY DEF Relying, Holding
<1> QED
  BY <1>1, <1>2, <1>3, MoveOK

LEMMA StayOK ==
    ASSUME ProcessInv, UNCHANGED <<at, role, lock, dirs>> PROVE ProcessInv'
<1> QED
  BY DEF ProcessInv, PlacesOK, LockOK, TempOK

\* Every action keeps the lock with one process and the directory in sight.
LEMMA ProcessStep == ProcessInv /\ [Next]_vars => ProcessInv'
<1> SUFFICES ASSUME ProcessInv, [Next]_vars PROVE ProcessInv'
  OBVIOUS
<1> USE DEF Places, SettingUp, Holding, Relying, Goto
<1>0. PlacesOK /\ LockOK /\ TempOK
  BY DEF ProcessInv
<1>1. ASSUME NEW p \in Processes, NEW r \in Roles, Invoke(p, r) PROVE ProcessInv'
  <2> DEFINE there == IF r = "stranger" THEN "connect" ELSE "core"
  <2>1. Moves(p, there)
    BY <1>1 DEF Invoke, Moves
  <2>2. PlacesOK'
    BY <1>0, <1>1 DEF Invoke, PlacesOK
  <2>3. dirs' = dirs /\ at[p] = "unborn" /\ there \notin Relying
    BY <1>1 DEF Invoke
  <2> HIDE DEF there
  <2> QED
    BY <2>1, <2>2, <2>3, MoveOK
<1>2. ASSUME NEW p \in Processes, SetUpDirectories(p) PROVE ProcessInv'
  <2>1. ASSUME Test(p, "core", "core", "oldTmp", "makeCore") PROVE ProcessInv'
    <3>1. PICK there \in {"oldTmp", "makeCore"} : at' = [at EXCEPT ![p] = there]
      BY <2>1 DEF Test
    <3>2. at[p] = "core" /\ UNCHANGED <<role, lock, dirs>>
      BY <2>1 DEF Test
    <3>3. Moves(p, there) /\ PlacesOK'
      BY <1>0, <3>1, <3>2 DEF Moves, PlacesOK
    <3> QED
      BY <3>2, <3>3, MoveOK
  <2>2. ASSUME Test(p, "oldTmp", "tmp", "removeTmp", "makeTmp") PROVE ProcessInv'
    <3>1. PICK there \in {"removeTmp", "makeTmp"} : at' = [at EXCEPT ![p] = there]
      BY <2>2 DEF Test
    <3>2. at[p] = "oldTmp" /\ UNCHANGED <<role, lock, dirs>>
      BY <2>2 DEF Test
    <3>3. Moves(p, there) /\ PlacesOK'
      BY <1>0, <3>1, <3>2 DEF Moves, PlacesOK
    <3> QED
      BY <3>2, <3>3, MoveOK
  <2>3. ASSUME Create(p, "makeCore", "core", "oldTmp") PROVE ProcessInv'
    <3>1. CASE "core" \in dirs
      <4>1. Exit(p, "over") /\ UNCHANGED <<role, dirs>> /\ at[p] = "makeCore"
        BY <2>3, <3>1 DEF Create
      <4> QED
        BY <4>1, ExitOK
    <3>2. CASE "core" \notin dirs
      <4>1. /\ at' = [at EXCEPT ![p] = "oldTmp"] /\ dirs' = dirs \cup {"core"}
            /\ UNCHANGED <<role, lock>> /\ at[p] = "makeCore"
        BY <2>3, <3>2 DEF Create
      <4>2. Moves(p, "oldTmp") /\ PlacesOK'
        BY <1>0, <4>1 DEF Moves, PlacesOK
      <4> QED
        BY <4>1, <4>2, MoveOK
    <3> QED
      BY <3>1, <3>2
  <2>4. ASSUME RemoveTmp(p) PROVE ProcessInv'
    <3>1. Moves(p, "checkTmp") /\ PlacesOK' /\ at[p] = "removeTmp"
      BY <1>0, <2>4 DEF RemoveTmp, Moves, PlacesOK
    <3> QED
      BY <3>1, MoveOK
  <2>5. ASSUME CheckTmp(p) PROVE ProcessInv'
    <3>1. CASE "tmp" \in dirs
      <4>1. Exit(p, "over") /\ UNCHANGED <<role, dirs>>
        BY <2>5, <3>1 DEF CheckTmp
      <4> QED
        BY <4>1, <3>1, ExitOK
    <3>2. CASE "tmp" \notin dirs
      <4>1. Moves(p, "makeTmp") /\ PlacesOK' /\ at[p] = "checkTmp" /\ dirs' = dirs
        BY <1>0, <2>5, <3>2 DEF CheckTmp, Moves, PlacesOK
      <4> QED
        BY <4>1, MoveOK
    <3> QED
      BY <3>1, <3>2
  <2>6. ASSUME Create(p, "makeTmp", "tmp", "ready") PROVE ProcessInv'
    <3>1. CASE "tmp" \in dirs
      <4>1. Exit(p, "over") /\ UNCHANGED <<role, dirs>>
        BY <2>6, <3>1 DEF Create
      <4> QED
        BY <4>1, <3>1, ExitOK
    <3>2. CASE "tmp" \notin dirs
      <4>1. /\ at' = [at EXCEPT ![p] = "ready"] /\ dirs' = dirs \cup {"tmp"}
            /\ UNCHANGED <<role, lock>> /\ at[p] = "makeTmp"
        BY <2>6, <3>2 DEF Create
      <4>2. Moves(p, "ready") /\ PlacesOK'
        BY <1>0, <4>1 DEF Moves, PlacesOK
      <4> QED
        BY <4>1, <4>2, MoveOK
    <3> QED
      BY <3>1, <3>2
  <2> QED
    BY <1>2, <2>1, <2>2, <2>3, <2>4, <2>5, <2>6 DEF SetUpDirectories
<1>3. ASSUME NEW p \in Processes, TryLock(p) PROVE ProcessInv'
  <2>1. PICK there \in {"connect", "fork", "init"} : at' = [at EXCEPT ![p] = there]
    BY <1>3 DEF TryLock
  <2>2. at[p] = "ready" /\ UNCHANGED <<role, dirs>>
    BY <1>3 DEF TryLock
  <2>3. Moves(p, there)
    BY <1>0, <1>3, <2>1 DEF TryLock, Moves, PlacesOK
  <2>4. PlacesOK'
    BY <1>0, <1>3, <2>1, <2>2 DEF TryLock, PlacesOK
  <2> QED
    BY <2>2, <2>3, <2>4, MoveOK
<1>4. ASSUME NEW p \in Processes, NEW q \in Processes, Fork(p, q) PROVE ProcessInv'
  <2>1. /\ at[p] = "fork" /\ at[q] = "unborn" /\ UNCHANGED <<lock, dirs>>
        /\ at'[p] = "parent" /\ at'[q] = "child"
        /\ \A r \in Processes \ {p, q} : at'[r] = at[r]
    BY <1>0, <1>4 DEF Fork, PlacesOK
  <2>2. PlacesOK'
    BY <1>0, <1>4 DEF Fork, PlacesOK, AllRoles
  <2>3. LockOK'
    BY <1>0, <2>1 DEF LockOK
  <2>4. TempOK'
    BY <1>0, <2>1 DEF TempOK
  <2> QED
    BY <2>2, <2>3, <2>4 DEF ProcessInv
<1>5. ASSUME NEW p \in Processes, ParentExits(p) PROVE ProcessInv'
  <2>1. Exit(p, "over") /\ UNCHANGED <<role, dirs>> /\ at[p] \in {"fork", "parent"}
    BY <1>5 DEF ParentExits
  <2> QED
    BY <2>1, ExitOK
<1>6. ASSUME NEW p \in Processes, ChildLocks(p) PROVE ProcessInv'
  <2>1. at[p] = "child" /\ UNCHANGED <<role, dirs>>
    BY <1>6 DEF ChildLocks
  <2>2. CASE lock = Nobody
    <3>1. Moves(p, "init") /\ PlacesOK'
      BY <1>0, <1>6, <2>2 DEF ChildLocks, Moves, PlacesOK
    <3> QED
      BY <3>1, <2>1, MoveOK
  <2>3. CASE lock # Nobody
    BY <1>6, <2>1, <2>3, ExitOK DEF ChildLocks
  <2> QED
    BY <2>2, <2>3
<1>7. ASSUME NEW p \in Processes, MakeBuckey(p) PROVE ProcessInv'
  <2>1. at[p] = "init" /\ at' = [at EXCEPT ![p] = "up"] /\ UNCHANGED <<role, lock, dirs>>
    BY <1>7 DEF MakeBuckey
  <2>2. Moves(p, "up") /\ PlacesOK'
    BY <1>0, <2>1 DEF Moves, PlacesOK, LockOK
  <2> QED
    BY <2>1, <2>2, MoveOK
<1>8. ASSUME NEW p \in Processes, RequestStop(p) PROVE ProcessInv'
  BY <1>8, StayOK DEF RequestStop, processVars
<1>9. ASSUME NEW p \in Processes, BuckeyEnds(p) PROVE ProcessInv'
  <2>1. Exit(p, "over") /\ UNCHANGED <<role, dirs>> /\ at[p] = "up"
    BY <1>9 DEF BuckeyEnds
  <2> QED
    BY <2>1, ExitOK
<1>10. ASSUME NEW p \in Processes, Die(p) PROVE ProcessInv'
  <2>1. PICK place \in {"over", "cut"} :
            /\ Exit(p, place)
            /\ at[p] \in {"checkTmp", "makeTmp"} => place = "cut"
    BY <1>10 DEF Die
  <2>2. UNCHANGED <<role, dirs>> /\ at[p] # "cut"
    BY <1>10 DEF Die
  <2> QED
    BY <2>1, <2>2, ExitOK
<1>11. ASSUME NEW p \in Processes, Connect(p) PROVE ProcessInv'
  <2>1. at[p] = "connect" /\ UNCHANGED <<role, dirs>>
    BY <1>11 DEF Connect
  <2>2. CASE reading
    <3>1. at' = [at EXCEPT ![p] = "client"] /\ UNCHANGED lock
      BY <1>11, <2>2 DEF Connect
    <3>2. Moves(p, "client") /\ PlacesOK'
      BY <1>0, <2>1, <3>1 DEF Moves, PlacesOK
    <3> QED
      BY <2>1, <3>2, MoveOK
  <2>3. CASE ~reading
    BY <1>11, <2>1, <2>3, ExitOK DEF Connect
  <2> QED
    BY <2>2, <2>3
<1>12. ASSUME NEW p \in Processes, Send(p) PROVE ProcessInv'
  <2>1. PICK line : Put(p, line)
    BY <1>12 DEF Send
  <2>2. at[p] = "client" /\ UNCHANGED <<role, dirs>>
    BY <1>12 DEF Send
  <2>3. Exit(p, "over") \/ UNCHANGED <<at, lock>>
    BY <2>1 DEF Put
  <2>4. CASE Exit(p, "over")
    BY <2>2, <2>4, ExitOK
  <2>5. CASE UNCHANGED <<at, lock>>
    BY <2>2, <2>5, StayOK
  <2> QED
    BY <2>3, <2>4, <2>5
<1>13. ASSUME NEW p \in Processes, Leave(p) PROVE ProcessInv'
  <2>1. Exit(p, "over") /\ UNCHANGED <<role, dirs>> /\ at[p] = "client"
    BY <1>13 DEF Leave
  <2> QED
    BY <2>1, ExitOK
<1>14. CASE (ReaderNext /\ UNCHANGED processVars) \/ UNCHANGED vars
  BY <1>14, StayOK DEF vars, processVars
<1> QED
  BY <1>1, <1>2, <1>3, <1>4, <1>5, <1>6, <1>7, <1>8, <1>9, <1>10, <1>11, <1>12, <1>13, <1>14
  DEF Next, ProcessNext

\* The places of the processes, the lock and the directories fit together.
THEOREM ProcessesOK == Spec => []ProcessInv
<1>1. Init => ProcessInv
  <2> SUFFICES ASSUME Init PROVE ProcessInv
    OBVIOUS
  <2>1. PlacesOK
    BY DEF Init, PlacesOK, Places, AllRoles
  <2>2. \A p \in Processes : at[p] = "unborn"
    BY DEF Init
  <2> QED
    BY <2>1, <2>2 DEF ProcessInv, LockOK, TempOK, Holding, Relying
<1> QED
  BY <1>1, ProcessStep, PTL DEF Spec

\* However many processes are invoked, fork and die: one at most is Buckey.
THEOREM OnlyOneBuckey == Spec => []OneBuckey
<1>1. ProcessInv => OneBuckey
  BY DEF ProcessInv, LockOK, Holding, OneBuckey
<1> QED
  BY <1>1, ProcessesOK, PTL

\* However many invocations remove the temporary directory: while a Buckey runs
\* it is there, or a process is about to create it or died in between.
THEOREM TempDirIsBack == Spec => []TempDirReturns
<1>1. ProcessInv => TempDirReturns
  BY DEF ProcessInv, TempOK, Relying, Holding, TempDirReturns
<1> QED
  BY <1>1, ProcessesOK, PTL

-----------------------------------------------------------------------------
(* Types                                                                   *)

\* What is passed on of a line is a line.
LEMMA PassOnType ==
    ASSUME NEW line \in Seq(Characters), line # <<>> PROVE PassOn(line) \in Seq(Characters)
<1>1. Space \in Characters
  BY DEF Characters
<1>2. [line EXCEPT ![1] = Space] \in Seq(Characters)
  BY <1>1
<1> QED
  BY <1>2 DEF PassOn

\* An element more.
LEMMA AppendType ==
    ASSUME NEW S, NEW q \in Seq(S), NEW x \in S PROVE Append(q, x) \in Seq(S) /\ Append(q, x) # <<>>
<1> QED
  OBVIOUS

\* Nothing received and nothing to be accepted is of the types.
LEMMA EmptyType == ASSUME NEW S PROVE <<>> \in Seq(S)
<1> QED
  OBVIOUS

\* The reader's steps keep the types of what it keeps.
LEMMA ReaderStep == ReaderTypeOK /\ ReaderNext => ReaderTypeOK'
<1> SUFFICES ASSUME ReaderTypeOK, ReaderNext PROVE ReaderTypeOK'
  OBVIOUS
<1> DEFINE Lines == Seq(Characters)
<1> USE DEF ReaderTypeOK, socketVars, lineVars
<1>1. CASE Accept
  <2>1. Head(backlog) \in Processes /\ Tail(backlog) \in Seq(Processes)
    BY <1>1 DEF Accept
  <2> QED
    BY <1>1, <2>1 DEF Accept
<1>2. CASE Receive
  <2> DEFINE have == stream[socket2Handle]
             n == IF Len(have) < BufferSize THEN Len(have) ELSE BufferSize
  <2>1. socket2Handle \in Processes
    BY <1>2 DEF Receive, Serving
  <2>2. have \in Seq(Characters) /\ Len(have) \in Nat
    BY <2>1
  <2>3. n \in 0 .. Len(have)
    BY <2>2
  <2>4. SubSeq(have, 1, n) \in Seq(Characters) /\ SubSeq(have, n + 1, Len(have)) \in Seq(Characters)
    BY <2>2, <2>3
  <2>5. readBuffer' = SubSeq(have, 1, n)
    BY <1>2 DEF Receive
  <2>6. stream' = [stream EXCEPT ![socket2Handle] = SubSeq(have, n + 1, Len(have))]
    BY <1>2 DEF Receive
  <2> HIDE DEF n, have
  <2>7. stream' \in [Processes -> Seq(Characters)]
    BY <2>4, <2>6
  <2> QED
    BY <1>2, <2>4, <2>5, <2>7 DEF Receive
<1>3. CASE ReadCharacter
  <2> DEFINE line == Append(s, Head(readBuffer))
  <2>1. Head(readBuffer) \in Characters /\ Tail(readBuffer) \in Lines
    BY <1>3 DEF ReadCharacter
  <2>2. line \in Lines /\ line # <<>>
    <3>1. s \in Lines
      OBVIOUS
    <3> QED
      BY <2>1, <3>1, AppendType
  <2>3. PassOn(line) \in Lines
    BY <2>2, PassOnType
  <2>4. s' \in {<<>>, line} /\ readBuffer' \in {<<>>, Tail(readBuffer)}
    BY <1>3 DEF ReadCharacter
  <2>5. currentReadSize' \in Nat
    BY <1>3 DEF ReadCharacter
  <2>6. \/ passed' = [passed EXCEPT ![socket2Handle] = Append(@, PassOn(line))]
        \/ passed' = passed
    BY <1>3 DEF ReadCharacter
  <2> HIDE DEF line
  <2>7. passed' \in [Processes -> Seq(Lines)]
    <3> HIDE DEF Lines
    <3>1. passed \in [Processes -> Seq(Lines)]
      BY DEF Lines
    <3>2. ASSUME NEW p \in Processes PROVE Append(passed[p], PassOn(line)) \in Seq(Lines)
      BY <2>3, <3>1
    <3> QED
      BY <2>6, <3>1, <3>2
  <2>8. s' \in Lines /\ readBuffer' \in Lines
    BY <2>1, <2>2, <2>4, EmptyType
  <2>9. UNCHANGED <<killed, reading, backlog, closed, socket2Handle, stream>>
    BY <1>3 DEF ReadCharacter
  <2> HIDE DEF Lines
  <2>10. passed' \in [Processes -> Seq(Seq(Characters))] /\ s' \in Seq(Characters)
         /\ readBuffer' \in Seq(Characters)
    BY <2>7, <2>8 DEF Lines
  <2>11. /\ killed \in BOOLEAN /\ reading \in BOOLEAN /\ backlog \in Seq(Processes)
         /\ closed \in SUBSET Processes /\ socket2Handle \in Processes \cup {Nobody}
         /\ stream \in [Processes -> Seq(Characters)]
    OBVIOUS
  <2> QED
    <3> DEFINE Strings == Seq(Characters)
               Histories == [Processes -> Seq(Seq(Characters))]
               Queues == Seq(Processes)
    <3>1. /\ stream' \in [Processes -> Strings] /\ readBuffer' \in Strings /\ s' \in Strings
          /\ passed' \in Histories /\ backlog' \in Queues
      BY <2>9, <2>10, <2>11
    <3> SUFFICES /\ killed' \in BOOLEAN /\ reading' \in BOOLEAN /\ closed' \in SUBSET Processes
                 /\ socket2Handle' \in Processes \cup {Nobody} /\ currentReadSize' \in Nat
      BY <3>1
    <3> HIDE DEF Strings, Histories, Queues
    <3> QED
      BY <2>5, <2>9, <2>11
<1>4. CASE HangUp
  BY <1>4 DEF HangUp
<1>5. CASE ReaderEnds
  <2>1. UNCHANGED <<killed, closed, socket2Handle, stream, readBuffer, s, currentReadSize, passed>>
    BY <1>5 DEF ReaderEnds
  <2>2. reading' = FALSE /\ backlog' = <<>>
    BY <1>5 DEF ReaderEnds
  <2>3. backlog' \in Seq(Processes)
    BY <2>2, EmptyType
  <2> QED
    BY <2>1, <2>2, <2>3
<1> QED
  BY <1>1, <1>2, <1>3, <1>4, <1>5 DEF ReaderNext

\* What the processes do to a connection keeps the types, too.
LEMMA SendStep ==
    ASSUME TypeOK, NEW p \in Processes, Send(p)
    PROVE  ReaderTypeOK' /\ sent' \in [Processes -> Seq(Seq(Characters))]
<1> DEFINE Lines == Seq(Characters)
<1>1. PICK line \in Lines : Put(p, line)
  <2>1. CASE role[p] = "stranger"
    BY <2>1 DEF Send
  <2>2. CASE role[p] # "stranger"
    <3>1. PICK words \in Typed : Put(p, Append(Text(p, words), NewLine))
      BY <2>2 DEF Send
    <3>2. words \in Seq(Letters \cup {Colon})
      OBVIOUS
    <3>3. words \in Lines
      BY <3>2 DEF Characters
    <3>4. Colon \in Characters /\ NewLine \in Characters
      BY DEF Characters
    <3>5. <<Colon>> \in Lines
      BY <3>4
    <3>6. <<Colon>> \o words \in Lines
      BY <3>3, <3>5
    <3>7. Text(p, words) \in Lines
      BY <3>3, <3>6 DEF Text
    <3>8. Append(Text(p, words), NewLine) \in Lines
      BY <3>4, <3>7
    <3> QED
      BY <3>1, <3>8
  <2> QED
    BY <2>1, <2>2
<1>2. UNCHANGED <<killed, reading, backlog, socket2Handle, readBuffer, s, currentReadSize, passed>>
  BY DEF Send, lineVars
<1>3. closed' \in SUBSET Processes
  BY <1>1 DEF Put, Exit, TypeOK, ReaderTypeOK
<1>4. stream' \in [Processes -> Lines]
  <2>1. stream \in [Processes -> Lines] /\ stream[p] \o line \in Lines
    BY DEF TypeOK, ReaderTypeOK
  <2>2. stream' = [stream EXCEPT ![p] = stream[p] \o line] \/ stream' = stream
    BY <1>1 DEF Put
  <2> HIDE DEF Lines
  <2> QED
    BY <2>1, <2>2
<1>5. sent' \in [Processes -> Seq(Lines)]
  <2>1. sent \in [Processes -> Seq(Lines)] /\ Append(sent[p], line) \in Seq(Lines)
    BY DEF TypeOK
  <2>2. sent' = [sent EXCEPT ![p] = Append(sent[p], line)] \/ sent' = sent
    BY <1>1 DEF Put
  <2> HIDE DEF Lines
  <2> QED
    BY <2>1, <2>2
<1> QED
  BY <1>2, <1>3, <1>4, <1>5 DEF TypeOK, ReaderTypeOK

\* The processes, the lock, the directories and the reader's state are of their
\* declared types in every run, for any processes and lines.
THEOREM TypeCorrect == Spec => []TypeOK
<1> DEFINE Histories == sent \in [Processes -> Seq(Seq(Characters))]
<1>1. TypeOK <=> ReaderTypeOK /\ PlacesOK /\ Histories
  BY DEF TypeOK, PlacesOK
<1>2. Init => ReaderTypeOK /\ Histories
  <2> SUFFICES ASSUME Init PROVE ReaderTypeOK /\ Histories
    OBVIOUS
  <2> DEFINE Lines == Seq(Characters)
             LineSeqs == Seq(Seq(Characters))
             Queues == Seq(Processes)
  <2>1. <<>> \in Lines /\ <<>> \in LineSeqs /\ <<>> \in Queues
    BY EmptyType
  <2> SUFFICES /\ stream \in [Processes -> Lines] /\ readBuffer \in Lines /\ s \in Lines
               /\ passed \in [Processes -> LineSeqs] /\ sent \in [Processes -> LineSeqs]
               /\ backlog \in Queues
    BY DEF Init, ReaderInit, ReaderTypeOK
  <2> HIDE DEF Lines, LineSeqs, Queues
  <2> QED
    BY <2>1 DEF Init, ReaderInit
<1>3. TypeOK /\ PlacesOK' /\ [Next]_vars => TypeOK'
  <2> SUFFICES ASSUME TypeOK, PlacesOK', [Next]_vars PROVE ReaderTypeOK' /\ Histories'
    BY DEF TypeOK, PlacesOK
  <2>1. CASE ReaderNext /\ UNCHANGED processVars
    BY <2>1, ReaderStep DEF processVars, TypeOK
  <2>2. ASSUME NEW p \in Processes, Send(p) PROVE ReaderTypeOK' /\ Histories'
    BY <2>2, SendStep
  <2>3. ASSUME NEW p \in Processes, Connect(p) PROVE ReaderTypeOK' /\ Histories'
    <3>1. Append(backlog, p) \in Seq(Processes)
      BY DEF TypeOK, ReaderTypeOK
    <3> QED
      BY <3>1, <2>3 DEF Connect, Exit, TypeOK, ReaderTypeOK, lineVars
  <2>4. ASSUME NEW p \in Processes,
               \/ \E r \in Roles : Invoke(p, r)
               \/ SetUpDirectories(p) \/ TryLock(p)
               \/ \E q \in Processes : Fork(p, q)
               \/ ParentExits(p) \/ ChildLocks(p) \/ RequestStop(p) \/ Leave(p)
        PROVE  ReaderTypeOK' /\ Histories'
    <3>1. /\ UNCHANGED <<reading, backlog, socket2Handle, stream, readBuffer, s>>
          /\ UNCHANGED <<currentReadSize, passed, sent>>
      BY <2>4 DEF Invoke, SetUpDirectories, Test, Create, RemoveTmp, CheckTmp, TryLock, Fork,
                  ParentExits, ChildLocks, RequestStop, Leave, readerVars, socketVars, lineVars,
                  processVars
    <3>2. closed' = closed \/ closed' = closed \cup {p}
      BY <2>4 DEF Invoke, SetUpDirectories, Test, Create, RemoveTmp, CheckTmp, TryLock, Fork, Exit,
                  ParentExits, ChildLocks, RequestStop, Leave, readerVars, socketVars
    <3>3. killed' = killed \/ killed' = TRUE
      BY <2>4 DEF Invoke, SetUpDirectories, Test, Create, RemoveTmp, CheckTmp, TryLock, Fork,
                  ParentExits, ChildLocks, RequestStop, Leave, readerVars, socketVars
    <3> QED
      BY <3>1, <3>2, <3>3 DEF TypeOK, ReaderTypeOK
  <2>5. ASSUME NEW p \in Processes, MakeBuckey(p) PROVE ReaderTypeOK' /\ Histories'
    <3>1. /\ killed' = FALSE /\ reading' = TRUE /\ socket2Handle' = Nobody
          /\ backlog' = <<>> /\ readBuffer' = <<>> /\ s' = <<>>
          /\ currentReadSize' = 0 /\ UNCHANGED <<stream, closed, passed, sent>>
      BY <2>5 DEF MakeBuckey, MakeServerSocket
    <3>2. readBuffer' \in Seq(Characters) /\ s' \in Seq(Characters)
      BY <3>1, EmptyType
    <3>3. backlog' \in Seq(Processes)
      BY <3>1, EmptyType
    <3> QED
      BY <3>1, <3>2, <3>3 DEF TypeOK, ReaderTypeOK
  <2>6. ASSUME NEW p \in Processes, BuckeyEnds(p) \/ Die(p) PROVE ReaderTypeOK' /\ Histories'
    <3>1. UNCHANGED <<killed, stream, readBuffer, s, currentReadSize, passed, sent>>
      BY <2>6 DEF BuckeyEnds, Die, lineVars
    <3>2. closed' = closed \cup {p}
      BY <2>6 DEF BuckeyEnds, Die, Exit
    <3>3. \/ reading' = FALSE /\ backlog' = <<>> /\ socket2Handle' = Nobody
          \/ UNCHANGED <<reading, backlog, socket2Handle>>
      BY <2>6 DEF BuckeyEnds, Die, NoServer
    <3>4. backlog' \in Seq(Processes) /\ socket2Handle' \in Processes \cup {Nobody}
      <4>1. backlog \in Seq(Processes) /\ socket2Handle \in Processes \cup {Nobody}
        BY DEF TypeOK, ReaderTypeOK
      <4>2. <<>> \in Seq(Processes)
        BY EmptyType
      <4> HIDE DEF Histories
      <4> QED
        BY <3>3, <4>1, <4>2
    <3>5. reading' \in BOOLEAN
      BY <3>3 DEF TypeOK, ReaderTypeOK
    <3> QED
      BY <3>1, <3>2, <3>4, <3>5 DEF TypeOK, ReaderTypeOK
  <2>7. CASE UNCHANGED vars
    BY <2>7 DEF vars, readerVars, socketVars, lineVars, processVars, TypeOK, ReaderTypeOK
  <2> QED
    BY <2>1, <2>2, <2>3, <2>4, <2>5, <2>6, <2>7 DEF Next, ProcessNext
<1>4. ProcessInv => PlacesOK
  BY DEF ProcessInv
<1> HIDE DEF Histories
<1> QED
  BY <1>1, <1>2, <1>3, <1>4, ProcessesOK, PTL DEF Spec

-----------------------------------------------------------------------------
(* The lines arrive                                                        *)

\* Before a process is connected there is nothing of it.
Early == Places \ {"client", "over", "cut"}

Fresh ==
    \A p \in Processes : at[p] \in Early =>
        p \notin Connected /\ sent[p] = <<>> /\ passed[p] = <<>> /\ stream[p] = <<>>

\* A connection waits once, and the reader is between two buffers when it has none.
QueueOK ==
    /\ \A i, j \in DOMAIN backlog : backlog[i] = backlog[j] => i = j
    /\ \A i \in DOMAIN backlog : backlog[i] # socket2Handle /\ passed[backlog[i]] = <<>>
    /\ reading /\ socket2Handle = Nobody => readBuffer = <<>>

\* The reader has not met a line that was too long, after which it passes on nothing.
Whole == currentReadSize <= MaxCommandSize

LineSoFar == Whole => \A i \in 1 .. Len(s) : s[i] # NewLine

OwnLines ==
    \A p \in Processes : ~Strange(p) => \A k \in 1 .. Len(sent[p]) : IsLine(sent[p][k])

\* What a command line sent is passed on, or it is in the line so far, the
\* buffer and the stream, in this order.
StreamsOK ==
    \A p \in Processes : ~Strange(p) =>
        /\ p = socket2Handle /\ Whole =>
              Cut(s \o (readBuffer \o stream[p]), sent[p], Len(passed[p]))
        /\ \A i \in DOMAIN backlog : backlog[i] = p => Cut(stream[p], sent[p], 0)

LinesInv == Fresh /\ QueueOK /\ LineSoFar /\ OwnLines /\ LinesArrive /\ StreamsOK

\* A step that sends, receives, reads and accepts nothing: connections may go.
LEMMA QuietStep ==
    ASSUME LinesInv, TypeOK, UNCHANGED <<stream, passed, sent, readBuffer, s, currentReadSize>>,
           \A p \in Processes : at'[p] \in Early => at[p] \in Early,
           \A p \in Processes : role'[p] # role[p] => at[p] \in Early,
           backlog' \in {backlog, <<>>}, socket2Handle' \in {socket2Handle, Nobody},
           reading' /\ socket2Handle' = Nobody => readBuffer = <<>>
    PROVE  LinesInv'
<1>1. Fresh /\ QueueOK /\ LineSoFar /\ OwnLines /\ LinesArrive /\ StreamsOK
  BY DEF LinesInv
<1>2. DOMAIN <<>> = {} /\ Len(<<>>) = 0
  OBVIOUS
<1>3. \A k \in DOMAIN backlog' : k \in DOMAIN backlog /\ backlog'[k] = backlog[k]
  BY <1>2
<1>4. \A p \in Processes : p \in Connected' => p \in Connected
  BY <1>3 DEF Connected
<1>5. Fresh'
  BY <1>1, <1>4 DEF Fresh
<1>6. QueueOK'
  <2>1. \A i \in DOMAIN backlog' : backlog'[i] # socket2Handle' /\ passed'[backlog'[i]] = <<>>
    <3>1. \A i \in DOMAIN backlog : backlog[i] \in Processes
      BY DEF TypeOK, ReaderTypeOK
    <3> QED
      BY <1>1, <1>3, <3>1 DEF QueueOK
  <2>2. \A i, j \in DOMAIN backlog' : backlog'[i] = backlog'[j] => i = j
    BY <1>1, <1>3 DEF QueueOK
  <2> QED
    BY <2>1, <2>2 DEF QueueOK
<1>7. LineSoFar'
  BY <1>1 DEF LineSoFar, Whole
<1>8. ASSUME NEW p \in Processes, ~Strange(p)'
      PROVE  ~Strange(p) \/ (p \notin Connected /\ sent[p] = <<>> /\ passed[p] = <<>>)
  BY <1>1, <1>8 DEF Fresh, Strange
<1>9. OwnLines'
  BY <1>1, <1>2, <1>8 DEF OwnLines
<1>10. LinesArrive'
  BY <1>1, <1>2, <1>8 DEF LinesArrive
<1>11. StreamsOK'
  <2> SUFFICES ASSUME NEW p \in Processes, ~Strange(p)'
               PROVE  /\ p = socket2Handle' /\ Whole' =>
                            Cut(s \o (readBuffer \o stream[p]), sent[p], Len(passed[p]))
                      /\ \A i \in DOMAIN backlog' : backlog'[i] = p => Cut(stream[p], sent[p], 0)
    BY DEF StreamsOK
  <2>1. CASE ~Strange(p)
    <3>1. p = socket2Handle' => p = socket2Handle
      OBVIOUS
    <3>2. Whole' => Whole
      BY DEF Whole
    <3>3. /\ p = socket2Handle /\ Whole =>
                Cut(s \o (readBuffer \o stream[p]), sent[p], Len(passed[p]))
          /\ \A i \in DOMAIN backlog : backlog[i] = p => Cut(stream[p], sent[p], 0)
      BY <1>1, <2>1 DEF StreamsOK
    <3> QED
      BY <1>3, <3>1, <3>2, <3>3
  <2>2. CASE p \notin Connected
    <3>1. p \notin Connected'
      BY <1>4, <2>2
    <3> QED
      BY <3>1 DEF Connected
  <2> QED
    BY <1>8, <2>1, <2>2
<1> QED
  BY <1>5, <1>6, <1>7, <1>9, <1>10, <1>11 DEF LinesInv

\* A new Buckey begins with no connection and an empty line.
LEMMA MakeStep ==
    ASSUME LinesInv, TypeOK, NEW p \in Processes, MakeBuckey(p) PROVE LinesInv'
<1>1. Fresh /\ OwnLines /\ LinesArrive
  BY DEF LinesInv
<1>2. /\ at[p] = "init" /\ at' = [at EXCEPT ![p] = "up"]
      /\ backlog' = <<>> /\ socket2Handle' = Nobody /\ readBuffer' = <<>> /\ s' = <<>>
      /\ UNCHANGED <<stream, passed, sent, role>>
  BY DEF MakeBuckey, MakeServerSocket, Goto
<1>3. DOMAIN <<>> = {} /\ Len(<<>>) = 0
  OBVIOUS
<1>4. \A q \in Processes : q \notin Connected'
  BY <1>2, <1>3 DEF Connected
<1>5. \A q \in Processes : at'[q] \in Early => at[q] \in Early
  BY <1>2 DEF Early, Places, SettingUp, TypeOK
<1>6. Fresh'
  BY <1>1, <1>2, <1>4, <1>5 DEF Fresh
<1>7. QueueOK' /\ LineSoFar'
  BY <1>2, <1>3 DEF QueueOK, LineSoFar
<1>8. OwnLines' /\ LinesArrive'
  BY <1>1, <1>2 DEF OwnLines, LinesArrive, Strange
<1>9. StreamsOK'
  BY <1>4 DEF StreamsOK, Connected
<1> QED
  BY <1>6, <1>7, <1>8, <1>9 DEF LinesInv

\* A connection more waits to be accepted, of which nothing was sent.
LEMMA ConnectStep ==
    ASSUME LinesInv, TypeOK, NEW p \in Processes, Connect(p), reading PROVE LinesInv'
<1>1. Fresh /\ QueueOK /\ LineSoFar /\ OwnLines /\ LinesArrive /\ StreamsOK
  BY DEF LinesInv
<1>2. /\ at[p] = "connect" /\ at' = [at EXCEPT ![p] = "client"]
      /\ backlog' = Append(backlog, p)
      /\ UNCHANGED <<reading, socket2Handle, stream, readBuffer, s, currentReadSize, passed, sent, role>>
  BY DEF Connect, Goto, lineVars
<1> DEFINE n == Len(backlog) + 1
<1>3. /\ DOMAIN backlog' = 1 .. n /\ DOMAIN backlog = 1 .. n - 1 /\ n \in Nat /\ backlog'[n] = p
      /\ \A i \in 1 .. n - 1 : backlog'[i] = backlog[i] /\ backlog[i] \in Processes
  <2>1. backlog \in Seq(Processes)
    BY DEF TypeOK, ReaderTypeOK
  <2> QED
    BY <1>2, <2>1
<1> HIDE DEF n
<1>4. p \notin Connected /\ sent[p] = <<>> /\ passed[p] = <<>> /\ stream[p] = <<>>
  BY <1>1, <1>2 DEF Fresh, Early, Places, SettingUp
<1>5. \A q \in Processes : q \in Connected' => q \in Connected \/ q = p
  BY <1>2, <1>3 DEF Connected
<1>6. Fresh'
  <2>1. \A q \in Processes : at'[q] \in Early => at[q] \in Early /\ q # p
    BY <1>2 DEF Early, Places, TypeOK
  <2> QED
    BY <1>1, <1>2, <1>5, <2>1 DEF Fresh
<1>7. QueueOK'
  <2>1. \A i \in 1 .. n - 1 : backlog[i] # p
    BY <1>3, <1>4 DEF Connected
  <2>2. \A i, j \in DOMAIN backlog' : backlog'[i] = backlog'[j] => i = j
    BY <1>1, <1>3, <2>1 DEF QueueOK
  <2>3. p # socket2Handle
    BY <1>4 DEF Connected
  <2>4. ASSUME NEW i \in DOMAIN backlog'
        PROVE  backlog'[i] # socket2Handle' /\ passed'[backlog'[i]] = <<>>
    <3>1. CASE i = n
      BY <1>2, <1>3, <1>4, <2>3, <3>1
    <3>2. CASE i \in 1 .. n - 1
      BY <1>1, <1>2, <1>3, <3>2 DEF QueueOK
    <3> QED
      BY <1>3, <3>1, <3>2
  <2> QED
    BY <1>1, <1>2, <2>2, <2>4 DEF QueueOK
<1>8. LineSoFar' /\ OwnLines' /\ LinesArrive'
  BY <1>1, <1>2 DEF LineSoFar, Whole, OwnLines, LinesArrive, Strange
<1>9. StreamsOK'
  <2> SUFFICES ASSUME NEW q \in Processes, ~Strange(q)
               PROVE  /\ q = socket2Handle /\ Whole =>
                            Cut(s \o (readBuffer \o stream[q]), sent[q], Len(passed[q]))
                      /\ \A i \in 1 .. n : backlog'[i] = q => Cut(stream[q], sent[q], 0)
    BY <1>2, <1>3 DEF StreamsOK, Strange, Whole
  <2>1. /\ q = socket2Handle /\ Whole =>
                Cut(s \o (readBuffer \o stream[q]), sent[q], Len(passed[q]))
        /\ \A i \in 1 .. n - 1 : backlog[i] = q => Cut(stream[q], sent[q], 0)
    BY <1>1, <1>3 DEF StreamsOK
  <2>2. Cut(stream[p], sent[p], 0)
    BY <1>4, CutNothing
  <2> QED
    BY <1>3, <2>1, <2>2
<1> QED
  BY <1>6, <1>7, <1>8, <1>9 DEF LinesInv

\* Who waited longest is served, from the beginning of what it sent.
LEMMA AcceptStep ==
    ASSUME LinesInv, TypeOK, Accept, UNCHANGED processVars PROVE LinesInv'
<1>1. Fresh /\ QueueOK /\ LineSoFar /\ OwnLines /\ LinesArrive /\ StreamsOK
  BY DEF LinesInv
<1> DEFINE h == Head(backlog)
<1>2. /\ reading /\ socket2Handle = Nobody
      /\ socket2Handle' = h /\ backlog' = Tail(backlog) /\ s' = <<>>
      /\ UNCHANGED <<reading, stream, readBuffer, currentReadSize, passed, at, role, sent>>
  BY DEF Accept, processVars
<1>3. /\ DOMAIN backlog = 1 .. Len(backlog) /\ Len(backlog) \in Nat \ {0}
      /\ DOMAIN backlog' = 1 .. Len(backlog) - 1
      /\ h = backlog[1] /\ \A i \in DOMAIN backlog' : backlog'[i] = backlog[i + 1]
      /\ \A i \in DOMAIN backlog : backlog[i] \in Processes
  <2>1. backlog \in Seq(Processes) /\ backlog # <<>>
    BY DEF TypeOK, ReaderTypeOK, Accept
  <2> QED
    BY <1>2, <2>1
<1> HIDE DEF h
<1>4. readBuffer = <<>> /\ h \in Processes /\ passed[h] = <<>>
  BY <1>1, <1>2, <1>3 DEF QueueOK
<1>5. \A q \in Processes : q \in Connected' => q \in Connected
  BY <1>2, <1>3 DEF Connected
<1>6. Fresh'
  BY <1>1, <1>2, <1>5 DEF Fresh
<1>7. QueueOK'
  <2>1. \A i, j \in DOMAIN backlog' : backlog'[i] = backlog'[j] => i = j
    <3> SUFFICES ASSUME NEW i \in DOMAIN backlog', NEW j \in DOMAIN backlog', backlog'[i] = backlog'[j]
                 PROVE  i = j
      OBVIOUS
    <3>1. i + 1 \in DOMAIN backlog /\ j + 1 \in DOMAIN backlog /\ i \in Int /\ j \in Int
      BY <1>3
    <3>2. i + 1 = j + 1
      BY <1>1, <1>3, <3>1 DEF QueueOK
    <3> QED
      BY <3>1, <3>2
  <2>2. ASSUME NEW i \in DOMAIN backlog'
        PROVE  backlog'[i] # socket2Handle' /\ passed'[backlog'[i]] = <<>>
    <3>1. i + 1 \in DOMAIN backlog /\ 1 \in DOMAIN backlog /\ i + 1 # 1
      BY <1>3
    <3>2. backlog[i + 1] # backlog[1] /\ passed[backlog[i + 1]] = <<>>
      BY <1>1, <3>1 DEF QueueOK
    <3> QED
      BY <1>2, <1>3, <3>2
  <2>3. socket2Handle' # Nobody
    BY <1>2, <1>4
  <2> QED
    BY <2>1, <2>2, <2>3 DEF QueueOK
<1>8. LineSoFar' /\ OwnLines' /\ LinesArrive'
  <2>1. Len(<<>>) = 0
    OBVIOUS
  <2> QED
    BY <1>1, <1>2, <2>1 DEF LineSoFar, OwnLines, LinesArrive, Strange
<1>9. StreamsOK'
  <2> SUFFICES ASSUME NEW p \in Processes, ~Strange(p)
               PROVE  /\ p = h => Cut(<<>> \o (readBuffer \o stream[p]), sent[p], Len(passed[p]))
                      /\ \A i \in DOMAIN backlog' : backlog'[i] = p => Cut(stream[p], sent[p], 0)
    BY <1>2 DEF StreamsOK, Strange, Whole
  <2>1. \A i \in DOMAIN backlog : backlog[i] = p => Cut(stream[p], sent[p], 0)
    BY <1>1 DEF StreamsOK
  <2>2. \A i \in DOMAIN backlog' : i + 1 \in DOMAIN backlog
    BY <1>3
  <2>3. ASSUME p = h PROVE Cut(<<>> \o (readBuffer \o stream[p]), sent[p], Len(passed[p]))
    <3>1. stream[p] \in Seq(Characters)
      BY DEF TypeOK, ReaderTypeOK
    <3>2. <<>> \o (<<>> \o stream[p]) = stream[p]
      BY <3>1, ConcatEmptySeq
    <3>3. Len(passed[p]) = 0
      BY <1>4, <2>3
    <3>4. Cut(stream[p], sent[p], 0)
      BY <1>3, <2>1, <2>3
    <3> QED
      BY <1>4, <3>2, <3>3, <3>4
  <2> QED
    BY <1>3, <2>1, <2>2, <2>3
<1> QED
  BY <1>6, <1>7, <1>8, <1>9 DEF LinesInv

\* What is received goes from the stream to the buffer.
LEMMA ReceiveStep ==
    ASSUME LinesInv, TypeOK, Receive, UNCHANGED processVars PROVE LinesInv'
<1>1. Fresh /\ QueueOK /\ LineSoFar /\ OwnLines /\ LinesArrive /\ StreamsOK
  BY DEF LinesInv
<1> DEFINE h == socket2Handle
           have == stream[h]
           n == IF Len(have) < BufferSize THEN Len(have) ELSE BufferSize
<1>2. /\ reading /\ h # Nobody /\ readBuffer = <<>>
      /\ readBuffer' = SubSeq(have, 1, n)
      /\ stream' = [stream EXCEPT ![h] = SubSeq(have, n + 1, Len(have))]
      /\ UNCHANGED <<reading, backlog, socket2Handle, s, currentReadSize, passed, at, role, sent>>
  BY DEF Receive, Serving, processVars, socketVars
<1>3. h \in Processes /\ have \in Seq(Characters) /\ stream \in [Processes -> Seq(Characters)]
  BY <1>2 DEF TypeOK, ReaderTypeOK
<1>4. n \in 0 .. Len(have) /\ Len(have) \in Nat
  BY <1>3
<1> HIDE DEF n
<1>5. SubSeq(have, 1, n) \o SubSeq(have, n + 1, Len(have)) = have
  <2>1. SubSeq(have, 1, n) \o SubSeq(have, n + 1, Len(have)) = SubSeq(have, 1, Len(have))
    <3>1. 1 \in 1 .. Len(have) + 1 /\ n \in 1 - 1 .. Len(have) /\ Len(have) \in n .. Len(have)
      BY <1>4
    <3> HIDE DEF have
    <3> QED
      BY <1>3, <3>1, ConcatAdjacentSubSeq
  <2> QED
    BY <1>3, <2>1, SubSeqFull
<1>6. /\ stream'[h] = SubSeq(have, n + 1, Len(have))
      /\ \A q \in Processes : q # h => stream'[q] = stream[q]
  BY <1>2, <1>3
<1> HIDE DEF have
<1>7. h \in Connected /\ Connected' = Connected
  BY <1>2 DEF Connected
<1>8. Fresh'
  BY <1>1, <1>2, <1>6, <1>7 DEF Fresh
<1>9. QueueOK' /\ LineSoFar' /\ OwnLines' /\ LinesArrive'
  BY <1>1, <1>2 DEF QueueOK, LineSoFar, Whole, OwnLines, LinesArrive, Strange
<1>10. StreamsOK'
  <2> SUFFICES ASSUME NEW p \in Processes, ~Strange(p)
               PROVE  /\ p = h /\ Whole =>
                            Cut(s \o (readBuffer' \o stream'[p]), sent[p], Len(passed[p]))
                      /\ \A i \in DOMAIN backlog : backlog[i] = p => Cut(stream'[p], sent[p], 0)
    BY <1>2 DEF StreamsOK, Strange, Whole
  <2>1. /\ p = h /\ Whole => Cut(s \o (readBuffer \o stream[p]), sent[p], Len(passed[p]))
        /\ \A i \in DOMAIN backlog : backlog[i] = p => Cut(stream[p], sent[p], 0)
    BY <1>1 DEF StreamsOK
  <2>2. readBuffer \o have = have
    BY <1>2, <1>3, ConcatEmptySeq
  <2>3. readBuffer' \o stream'[h] = have
    BY <1>2, <1>5, <1>6
  <2>4. \A i \in DOMAIN backlog : backlog[i] # h
    BY <1>1 DEF QueueOK
  <2> QED
    BY <1>6, <2>1, <2>2, <2>3, <2>4 DEF have
<1> QED
  BY <1>8, <1>9, <1>10 DEF LinesInv

\* A character: it belongs to the line so far, ends it, or is one too many.
LEMMA CharacterStep ==
    ASSUME LinesInv, TypeOK, ReadCharacter, UNCHANGED processVars PROVE LinesInv'
<1>1. Fresh /\ QueueOK /\ LineSoFar /\ OwnLines /\ LinesArrive /\ StreamsOK
  BY DEF LinesInv
<1> DEFINE h == socket2Handle
           c == Head(readBuffer)
           line == Append(s, c)
           over == currentReadSize + 1 > MaxCommandSize
           ends == c = NewLine /\ ~over
<1>2. /\ reading /\ readBuffer # <<>>
      /\ readBuffer' = IF over THEN <<>> ELSE Tail(readBuffer)
      /\ s' = IF ends THEN <<>> ELSE line
      /\ currentReadSize' = IF ends THEN 0 ELSE currentReadSize + 1
      /\ passed' = IF ends THEN [passed EXCEPT ![h] = Append(@, PassOn(line))] ELSE passed
      /\ UNCHANGED <<reading, backlog, socket2Handle, stream, at, role, sent>>
  BY DEF ReadCharacter, processVars, socketVars
<1>3. /\ s \in Seq(Characters) /\ readBuffer \in Seq(Characters)
      /\ \A p \in Processes : stream[p] \in Seq(Characters) /\ sent[p] \in Seq(Seq(Characters))
      /\ passed \in [Processes -> Seq(Seq(Characters))]
      /\ currentReadSize \in Nat /\ MaxCommandSize \in Nat
  BY DEF TypeOK, ReaderTypeOK
<1>4. h \in Processes
  BY <1>1, <1>2 DEF QueueOK, TypeOK, ReaderTypeOK
<1>5. c \in Characters /\ Tail(readBuffer) \in Seq(Characters)
  BY <1>2, <1>3, HeadTailProperties
<1>6. /\ line \in Seq(Characters) /\ line # <<>> /\ Len(line) = Len(s) + 1
      /\ line[Len(s) + 1] = c /\ \A i \in 1 .. Len(s) : line[i] = s[i]
  BY <1>3, <1>5, AppendProperties
<1>7. ~over => Whole
  BY <1>3 DEF Whole
<1>8. \A q \in Processes : q # h => passed'[q] = passed[q]
  BY <1>2, <1>3
<1>9. h \in Connected /\ Connected' = Connected
  BY <1>2 DEF Connected
<1>10. Len(s) \in Nat
  BY <1>3
<1> HIDE DEF c, line
<1>11. Fresh'
  BY <1>1, <1>2, <1>8, <1>9 DEF Fresh
<1>12. QueueOK'
  <2>1. \A i \in DOMAIN backlog : backlog[i] \in Processes
    BY DEF TypeOK, ReaderTypeOK
  <2>2. h # Nobody
    BY <1>4
  <2> QED
    BY <1>1, <1>2, <1>8, <2>1, <2>2 DEF QueueOK
<1>13. OwnLines'
  BY <1>1, <1>2 DEF OwnLines, Strange
<1>14. CASE over
  <2>1. passed' = passed /\ ~Whole'
    BY <1>2, <1>3, <1>14 DEF Whole
  <2>2. LineSoFar'
    BY <2>1 DEF LineSoFar
  <2>3. LinesArrive'
    BY <1>1, <1>2, <2>1 DEF LinesArrive, Strange
  <2>4. StreamsOK'
    BY <1>1, <1>2, <2>1 DEF StreamsOK, Strange
  <2> QED
    BY <1>11, <1>12, <1>13, <2>2, <2>3, <2>4 DEF LinesInv
<1>15. CASE ~over
  <2> DEFINE text(p) == line \o (Tail(readBuffer) \o stream[p])
  <2>1. ASSUME NEW p \in Processes, ~Strange(p)
        PROVE  /\ p = h => Cut(text(p), sent[p], Len(passed[p]))
               /\ \A i \in DOMAIN backlog : backlog[i] = p => Cut(stream[p], sent[p], 0)
    <3>1. s \o (readBuffer \o stream[p]) = text(p)
      <4>1. s \in Seq(Characters) /\ readBuffer \in Seq(Characters) /\ readBuffer # <<>>
            /\ stream[p] \in Seq(Characters)
        BY <1>2, <1>3
      <4> DEFINE Same(x, y, z) == x \o (y \o z) = Append(x, Head(y)) \o (Tail(y) \o z)
      <4>2. \A x, y, z \in Seq(Characters) : y # <<>> => Same(x, y, z)
        BY ReadOn
      <4> HIDE DEF Same
      <4>3. Same(s, readBuffer, stream[p])
        BY <4>1, <4>2
      <4> QED
        BY <4>3 DEF Same, line, c
    <3> HIDE DEF text
    <3>2. Whole
      BY <1>7, <1>15
    <3> QED
      BY <1>1, <2>1, <3>1, <3>2 DEF StreamsOK
  <2>2. readBuffer' = Tail(readBuffer)
    BY <1>2, <1>15
  <2>3. \A i \in 1 .. Len(s) : s[i] # NewLine
    BY <1>1, <1>7, <1>15 DEF LineSoFar
  <2>4. CASE c # NewLine
    <3>1. s' = line /\ passed' = passed
      BY <1>2, <2>4
    <3>2. LineSoFar'
      <4>1. \A i \in 1 .. Len(line) : line[i] # NewLine
        BY <1>6, <1>10, <2>3, <2>4
      <4> QED
        BY <3>1, <4>1 DEF LineSoFar
    <3>3. LinesArrive'
      BY <1>1, <1>2, <3>1 DEF LinesArrive, Strange
    <3>4. StreamsOK'
      BY <1>2, <2>1, <2>2, <3>1 DEF StreamsOK, Strange
    <3> QED
      BY <1>11, <1>12, <1>13, <3>2, <3>3, <3>4 DEF LinesInv
  <2>5. CASE c = NewLine
    <3>1. s' = <<>> /\ passed' = [passed EXCEPT ![h] = Append(@, PassOn(line))]
      BY <1>2, <1>15, <2>5
    <3>2. LineSoFar'
      <4>1. Len(<<>>) = 0
        OBVIOUS
      <4> QED
        BY <3>1, <4>1 DEF LineSoFar
    <3>3. IsLine(line)
      BY <1>6, <1>10, <2>3, <2>5 DEF IsLine
    <3> DEFINE k == Len(passed[h])
               rest == Tail(readBuffer) \o stream[h]
    <3>4. PassOn(line) \in Seq(Characters)
      BY <1>6, PassOnType
    <3>5. /\ passed[h] \in Seq(Seq(Characters)) /\ k \in Nat
          /\ passed'[h] = Append(passed[h], PassOn(line))
      BY <1>3, <1>4, <3>1
    <3>6. /\ Len(passed'[h]) = k + 1 /\ passed'[h][k + 1] = PassOn(line)
          /\ \A j \in 1 .. k : passed'[h][j] = passed[h][j]
          /\ DOMAIN passed'[h] = 1 .. k + 1 /\ DOMAIN passed[h] = 1 .. k
      <4> HIDE DEF k
      <4>1. DOMAIN passed'[h] = 1 .. Len(passed'[h]) /\ DOMAIN passed[h] = 1 .. Len(passed[h])
        <5>1. Append(passed[h], PassOn(line)) \in Seq(Seq(Characters))
          BY <3>4, <3>5, AppendProperties
        <5> QED
          BY <3>5, <5>1, LenProperties
      <4> QED
        BY <3>4, <3>5, <4>1, AppendProperties DEF k
    <3> HIDE DEF k
    <3>7. ASSUME ~Strange(h)
          PROVE  k < Len(sent[h]) /\ sent[h][k + 1] = line /\ Cut(rest, sent[h], k + 1)
      <4>1. Cut(line \o rest, sent[h], k)
        BY <1>4, <2>1, <3>7 DEF k
      <4>2. k \in 0 .. Len(sent[h])
        <5>1. k <= Len(sent[h])
          BY <1>1, <1>4, <3>7 DEF LinesArrive, k
        <5>2. Len(sent[h]) \in Nat
          BY <1>3, <1>4, LenProperties
        <5> QED
          BY <3>5, <5>1, <5>2
      <4>3. \A j \in 1 .. Len(sent[h]) : IsLine(sent[h][j])
        BY <1>1, <1>4, <3>7 DEF OwnLines
      <4>4. rest \in Seq(Characters) /\ sent[h] \in Seq(Seq(Characters))
        BY <1>3, <1>4, <1>5, ConcatProperties
      <4> HIDE DEF rest
      <4> QED
        BY <1>6, <3>3, <4>1, <4>2, <4>3, <4>4, CutPasses
    <3>8. LinesArrive'
      <4> SUFFICES ASSUME NEW p \in Processes, ~Strange(p)
                   PROVE  /\ Len(passed'[p]) <= Len(sent[p])
                          /\ \A j \in DOMAIN passed'[p] : passed'[p][j] = PassOn(sent[p][j])
        BY <1>2 DEF LinesArrive, Strange
      <4>1. /\ Len(passed[p]) <= Len(sent[p])
            /\ \A j \in DOMAIN passed[p] : passed[p][j] = PassOn(sent[p][j])
        BY <1>1 DEF LinesArrive
      <4>2. CASE p # h
        BY <1>8, <4>1, <4>2
      <4>3. CASE p = h
        <5>1. k + 1 <= Len(sent[h]) /\ sent[h][k + 1] = line
          <6>1. Len(sent[h]) \in Nat
            BY <1>3, <1>4, LenProperties
          <6> QED
            BY <3>5, <3>7, <4>3, <6>1
        <5>2. ASSUME NEW j \in 1 .. k + 1 PROVE passed'[h][j] = PassOn(sent[h][j])
          <6>1. CASE j = k + 1
            BY <3>6, <5>1, <6>1
          <6>2. CASE j \in 1 .. k
            BY <3>6, <4>1, <4>3, <6>2
          <6>3. k \in Nat
            BY <3>5
          <6>4. j = k + 1 \/ j \in 1 .. k
            BY <6>3
          <6> QED
            BY <6>1, <6>2, <6>4
        <5> QED
          BY <3>6, <4>3, <5>1, <5>2
      <4> QED
        BY <4>2, <4>3
    <3>9. StreamsOK'
      <4> SUFFICES ASSUME NEW p \in Processes, ~Strange(p)
                   PROVE  /\ p = h =>
                                Cut(<<>> \o (Tail(readBuffer) \o stream[p]), sent[p], Len(passed'[p]))
                          /\ \A i \in DOMAIN backlog : backlog[i] = p => Cut(stream[p], sent[p], 0)
        BY <1>2, <2>2, <3>1 DEF StreamsOK, Strange
      <4>1. <<>> \o rest = rest
        <5>1. rest \in Seq(Characters)
          BY <1>3, <1>4, <1>5, ConcatProperties
        <5> HIDE DEF rest
        <5> QED
          BY <5>1, ConcatEmptySeq
      <4>2. p = h => Cut(<<>> \o (Tail(readBuffer) \o stream[p]), sent[p], Len(passed'[p]))
        BY <3>6, <3>7, <4>1
      <4> QED
        BY <2>1, <4>2
    <3> QED
      BY <1>11, <1>12, <1>13, <3>2, <3>8, <3>9 DEF LinesInv
  <2> QED
    BY <2>4, <2>5
<1> QED
  BY <1>14, <1>15

\* What a command line sends ends with the only end of a line in it.
LEMMA TypedIsLine ==
    ASSUME NEW p \in Processes, NEW words \in Typed
    PROVE  LET line == Append(Text(p, words), NewLine)
           IN  line \in Seq(Characters) /\ IsLine(line)
<1> DEFINE T == Letters \cup {Colon}
           text == Text(p, words)
           line == Append(text, NewLine)
<1>1. text \in Seq(T)
  <2>1. words \in Seq(T)
    OBVIOUS
  <2>2. <<Colon>> \in Seq(T)
    OBVIOUS
  <2>3. <<Colon>> \o words \in Seq(T)
    BY <2>1, <2>2, ConcatProperties
  <2> QED
    BY <2>1, <2>3 DEF Text
<1>2. T \subseteq Characters /\ NewLine \in Characters /\ NewLine \notin T
  BY DEF Characters
<1> HIDE DEF T, text
<1>3. text \in Seq(Characters)
  BY <1>1, <1>2, SeqMonotonic
<1>4. /\ line \in Seq(Characters) /\ line # <<>> /\ Len(line) = Len(text) + 1
      /\ line[Len(text) + 1] = NewLine /\ \A i \in 1 .. Len(text) : line[i] = text[i]
  BY <1>2, <1>3, AppendProperties
<1>5. \A i \in 1 .. Len(text) : text[i] # NewLine
  BY <1>1, <1>2, ElementOfSeq
<1>6. Len(text) \in Nat
  BY <1>3, LenProperties
<1> HIDE DEF line
<1>7. ASSUME NEW i \in 1 .. Len(line) PROVE line[i] = NewLine <=> i = Len(line)
  <2>1. i = Len(text) + 1 \/ i \in 1 .. Len(text)
    BY <1>4, <1>6
  <2>2. CASE i = Len(text) + 1
    BY <1>4, <2>2
  <2>3. CASE i \in 1 .. Len(text)
    <3>1. i # Len(line)
      BY <1>4, <1>6, <2>3
    <3> QED
      BY <1>4, <1>5, <2>3, <3>1
  <2> QED
    BY <2>1, <2>2, <2>3
<1>8. IsLine(line)
  BY <1>4, <1>7 DEF IsLine
<1> QED
  BY <1>4, <1>8 DEF line, text

\* A line more is sent: it follows what is not read yet.
LEMMA PutStep ==
    ASSUME LinesInv, TypeOK, NEW p \in Processes, NEW line \in Seq(Characters),
           ~Strange(p) => IsLine(line), at[p] = "client", p \in Connected, Put(p, line),
           UNCHANGED <<reading, backlog, socket2Handle, readBuffer, s, currentReadSize, passed, role>>
    PROVE  LinesInv'
<1>1. Fresh /\ QueueOK /\ LineSoFar /\ OwnLines /\ LinesArrive /\ StreamsOK
  BY DEF LinesInv
<1>2. /\ stream \in [Processes -> Seq(Characters)] /\ sent \in [Processes -> Seq(Seq(Characters))]
      /\ s \in Seq(Characters) /\ readBuffer \in Seq(Characters)
      /\ passed \in [Processes -> Seq(Seq(Characters))]
  BY DEF TypeOK, ReaderTypeOK
<1>3. /\ stream' = [stream EXCEPT ![p] = @ \o line]
      /\ sent' = [sent EXCEPT ![p] = Append(@, line)]
      /\ at' = [at EXCEPT ![p] = "over"] \/ at' = at
  BY DEF Put, Exit, Goto
<1>4. /\ stream'[p] = stream[p] \o line /\ sent'[p] = Append(sent[p], line)
      /\ \A q \in Processes : q # p => stream'[q] = stream[q] /\ sent'[q] = sent[q]
  BY <1>2, <1>3
<1>5. Connected' = Connected
  BY DEF Connected
<1>6. Fresh'
  <2>1. \A q \in Processes : at'[q] \in Early => at[q] \in Early /\ q # p
    BY <1>3 DEF Early, Places, TypeOK
  <2> QED
    BY <1>1, <1>4, <1>5, <2>1 DEF Fresh
<1>7. QueueOK' /\ LineSoFar'
  BY <1>1 DEF QueueOK, LineSoFar, Whole
<1> DEFINE n == Len(sent[p])
           k == Len(passed[p])
<1>8. /\ n \in Nat /\ Len(sent'[p]) = n + 1 /\ sent'[p][n + 1] = line
      /\ \A i \in 1 .. n : sent'[p][i] = sent[p][i]
  <2>1. sent[p] \in Seq(Seq(Characters))
    BY <1>2
  <2> QED
    BY <1>4, <2>1, AppendProperties, LenProperties
<1>9. k \in Nat /\ DOMAIN passed[p] = 1 .. k
  BY <1>2
<1>10. ~Strange(p) => k <= n
  BY <1>1 DEF LinesArrive
<1> HIDE DEF n, k
<1>11. OwnLines'
  <2> SUFFICES ASSUME NEW q \in Processes, ~Strange(q)
               PROVE  \A i \in 1 .. Len(sent'[q]) : IsLine(sent'[q][i])
    BY DEF OwnLines, Strange
  <2>1. \A i \in 1 .. Len(sent[q]) : IsLine(sent[q][i])
    BY <1>1 DEF OwnLines
  <2>2. CASE q # p
    BY <1>4, <2>1, <2>2
  <2>3. CASE q = p
    <3>1. IsLine(line)
      BY <2>3
    <3>2. \A i \in 1 .. n + 1 : i = n + 1 \/ i \in 1 .. n
      BY <1>8
    <3> QED
      BY <1>8, <2>1, <2>3, <3>1, <3>2 DEF n
  <2> QED
    BY <2>2, <2>3
<1>12. LinesArrive'
  <2> SUFFICES ASSUME NEW q \in Processes, ~Strange(q)
               PROVE  /\ Len(passed[q]) <= Len(sent'[q])
                      /\ \A j \in DOMAIN passed[q] : passed[q][j] = PassOn(sent'[q][j])
    BY DEF LinesArrive, Strange
  <2>1. /\ Len(passed[q]) <= Len(sent[q])
        /\ \A j \in DOMAIN passed[q] : passed[q][j] = PassOn(sent[q][j])
    BY <1>1 DEF LinesArrive
  <2>2. CASE q # p
    BY <1>4, <2>1, <2>2
  <2>3. CASE q = p
    <3>1. k <= n + 1 /\ \A j \in 1 .. k : j \in 1 .. n
      BY <1>8, <1>9, <1>10, <2>3
    <3>2. Len(passed[q]) <= Len(sent'[q])
      BY <1>8, <2>3, <3>1 DEF k
    <3> QED
      BY <1>8, <1>9, <2>1, <2>3, <3>1, <3>2
  <2> QED
    BY <2>2, <2>3
<1>13. StreamsOK'
  <2> SUFFICES ASSUME NEW q \in Processes, ~Strange(q)
               PROVE  /\ q = socket2Handle /\ Whole =>
                            Cut(s \o (readBuffer \o stream'[q]), sent'[q], Len(passed[q]))
                      /\ \A i \in DOMAIN backlog : backlog[i] = q => Cut(stream'[q], sent'[q], 0)
    BY DEF StreamsOK, Strange, Whole
  <2>1. /\ q = socket2Handle /\ Whole =>
                Cut(s \o (readBuffer \o stream[q]), sent[q], Len(passed[q]))
        /\ \A i \in DOMAIN backlog : backlog[i] = q => Cut(stream[q], sent[q], 0)
    BY <1>1 DEF StreamsOK
  <2>2. CASE q # p
    BY <1>4, <2>1, <2>2
  <2>3. CASE q = p
    <3> DEFINE st == stream[p]
               text == s \o (readBuffer \o st)
    <3>1. st \in Seq(Characters) /\ sent[p] \in Seq(Seq(Characters))
      BY <1>2
    <3>2. readBuffer \o st \in Seq(Characters) /\ text \in Seq(Characters)
      <4> HIDE DEF st
      <4>1. readBuffer \o st \in Seq(Characters)
        BY <1>2, <3>1, ConcatProperties
      <4> QED
        BY <1>2, <4>1, ConcatProperties
    <3>3. s \o (readBuffer \o (st \o line)) = text \o line
      <4> HIDE DEF st
      <4> DEFINE Same(u, v, w) == (u \o v) \o w = u \o (v \o w)
      <4>1. \A u, v, w \in Seq(Characters) : Same(u, v, w)
        BY Regrouped, Zenon
      <4> HIDE DEF Same
      <4>2. Same(readBuffer, st, line) /\ Same(s, readBuffer \o st, line)
        BY <1>2, <3>1, <3>2, <4>1
      <4> QED
        BY <4>2 DEF Same
    <3>4. k \in 0 .. Len(sent[p]) /\ 0 \in 0 .. Len(sent[p])
      BY <1>8, <1>9, <1>10, <2>3 DEF n
    <3> HIDE DEF st, text
    <3>5. Cut(text, sent[p], k) => Cut(text \o line, Append(sent[p], line), k)
      BY <3>1, <3>2, <3>4, CutGrows
    <3>6. Cut(st, sent[p], 0) => Cut(st \o line, Append(sent[p], line), 0)
      BY <3>1, <3>4, CutGrows
    <3> QED
      BY <1>4, <2>1, <2>3, <3>3, <3>5, <3>6 DEF st, text, k
  <2> QED
    BY <2>2, <2>3
<1> QED
  BY <1>6, <1>7, <1>11, <1>12, <1>13 DEF LinesInv

\* The steps of the processes other than Send, Connect and MakeBuckey leave the
\* lines alone.
LEMMA OtherStep ==
    ASSUME LinesInv, TypeOK, NEW p \in Processes,
           \/ \E r \in Roles : Invoke(p, r)
           \/ SetUpDirectories(p) \/ TryLock(p)
           \/ \E q \in Processes : Fork(p, q)
           \/ ParentExits(p) \/ ChildLocks(p)
           \/ RequestStop(p) \/ BuckeyEnds(p) \/ Die(p) \/ Leave(p)
    PROVE  LinesInv'
<1> USE DEF Early, Places, SettingUp, Exit, Goto
<1>1. UNCHANGED <<stream, passed, sent, readBuffer, s, currentReadSize>>
  BY DEF Invoke, SetUpDirectories, Test, Create, RemoveTmp, CheckTmp, TryLock, Fork, ParentExits,
         ChildLocks, RequestStop, BuckeyEnds, Die, Leave, readerVars, lineVars, processVars
<1>2. \/ UNCHANGED <<reading, backlog, socket2Handle>>
      \/ reading' = FALSE /\ backlog' = <<>> /\ socket2Handle' = Nobody
  BY DEF Invoke, SetUpDirectories, Test, Create, RemoveTmp, CheckTmp, TryLock, Fork, ParentExits,
         ChildLocks, RequestStop, BuckeyEnds, Die, Leave, NoServer, readerVars, socketVars
<1>3. /\ \A q \in Processes : at'[q] \in Early => at[q] \in Early
      /\ \A q \in Processes : role'[q] # role[q] => at[q] \in Early
  <2>0. at \in [Processes -> Places] /\ role \in [Processes -> AllRoles]
    BY DEF TypeOK
  <2>1. ASSUME NEW r \in Roles, Invoke(p, r) PROVE <1>3
    BY <2>0, <2>1 DEF Invoke
  <2>2. CASE SetUpDirectories(p)
    BY <2>0, <2>2 DEF SetUpDirectories, Test, Create, RemoveTmp, CheckTmp, readerVars
  <2>3. CASE TryLock(p)
    BY <2>0, <2>3 DEF TryLock
  <2>4. ASSUME NEW q \in Processes, Fork(p, q) PROVE <1>3
    BY <2>0, <2>4 DEF Fork
  <2>5. CASE ParentExits(p) \/ ChildLocks(p) \/ Leave(p)
    BY <2>0, <2>5 DEF ParentExits, ChildLocks, Leave
  <2>6. CASE RequestStop(p)
    BY <2>6 DEF RequestStop, processVars
  <2>7. CASE BuckeyEnds(p) \/ Die(p)
    BY <2>0, <2>7 DEF BuckeyEnds, Die
  <2> QED
    BY <2>1, <2>2, <2>3, <2>4, <2>5, <2>6, <2>7
<1>4. reading' /\ socket2Handle' = Nobody => readBuffer = <<>>
  BY <1>2 DEF LinesInv, QueueOK
<1>5. backlog' \in {backlog, <<>>} /\ socket2Handle' \in {socket2Handle, Nobody}
  BY <1>2
<1> QED
  BY <1>1, <1>3, <1>4, <1>5, QuietStep

\* Every action keeps what is known of the lines.
LEMMA LinesStep == LinesInv /\ TypeOK /\ [Next]_vars => LinesInv'
<1> SUFFICES ASSUME LinesInv, TypeOK, [Next]_vars PROVE LinesInv'
  OBVIOUS
<1>1. ASSUME NEW p \in Processes, Connect(p) PROVE LinesInv'
  <2>1. CASE reading
    BY <1>1, <2>1, ConnectStep
  <2>2. CASE ~reading
    <3>1. /\ at[p] = "connect" /\ at' = [at EXCEPT ![p] = "over"]
          /\ UNCHANGED <<stream, passed, sent, readBuffer, s, currentReadSize, role>>
          /\ UNCHANGED <<reading, backlog, socket2Handle>>
      BY <1>1, <2>2 DEF Connect, Exit, Goto, lineVars
    <3>2. \A q \in Processes : at'[q] \in Early => at[q] \in Early
      BY <3>1 DEF Early, TypeOK
    <3> QED
      BY <2>2, <3>1, <3>2, QuietStep
  <2> QED
    BY <2>1, <2>2
<1>2. ASSUME NEW p \in Processes, Send(p) PROVE LinesInv'
  <2>1. /\ at[p] = "client"
        /\ UNCHANGED <<reading, backlog, socket2Handle, readBuffer, s, currentReadSize, passed, role>>
    BY <1>2 DEF Send, lineVars
  <2>2. PICK line \in Seq(Characters) : Put(p, line) /\ (~Strange(p) => IsLine(line))
    <3>1. CASE Strange(p)
      BY <1>2, <3>1 DEF Send, Strange
    <3>2. CASE ~Strange(p)
      <4>1. PICK words \in Typed : Put(p, Append(Text(p, words), NewLine))
        BY <1>2, <3>2 DEF Send, Strange
      <4> DEFINE line == Append(Text(p, words), NewLine)
      <4>2. line \in Seq(Characters) /\ IsLine(line)
        BY TypedIsLine
      <4> QED
        BY <4>1, <4>2
    <3> QED
      BY <3>1, <3>2
  <2>3. CASE p \in Connected
    BY <2>1, <2>2, <2>3, PutStep
  <2>4. CASE p \notin Connected
    <3>1. at' = [at EXCEPT ![p] = "over"] /\ UNCHANGED <<stream, sent>>
      BY <2>2, <2>4 DEF Put, Exit, Goto
    <3>2. \A q \in Processes : at'[q] \in Early => at[q] \in Early
      BY <3>1 DEF Early, TypeOK
    <3>3. reading' /\ socket2Handle' = Nobody => readBuffer = <<>>
      BY <2>1 DEF LinesInv, QueueOK
    <3> QED
      BY <2>1, <3>1, <3>2, <3>3, QuietStep
  <2> QED
    BY <2>3, <2>4
<1>3. ASSUME NEW p \in Processes, MakeBuckey(p) PROVE LinesInv'
  BY <1>3, MakeStep
<1>4. ASSUME NEW p \in Processes,
             \/ \E r \in Roles : Invoke(p, r)
             \/ SetUpDirectories(p) \/ TryLock(p)
             \/ \E q \in Processes : Fork(p, q)
             \/ ParentExits(p) \/ ChildLocks(p)
             \/ RequestStop(p) \/ BuckeyEnds(p) \/ Die(p) \/ Leave(p)
      PROVE  LinesInv'
  BY <1>4, OtherStep
<1>5. ASSUME ReaderNext, UNCHANGED processVars PROVE LinesInv'
  <2>1. CASE Accept
    BY <1>5, <2>1, AcceptStep
  <2>2. CASE Receive
    BY <1>5, <2>2, ReceiveStep
  <2>3. CASE ReadCharacter
    BY <1>5, <2>3, CharacterStep
  <2>4. CASE HangUp \/ ReaderEnds
    <3>1. /\ UNCHANGED <<stream, passed, sent, readBuffer, s, currentReadSize, at, role>>
          /\ readBuffer = <<>>
          /\ backlog' \in {backlog, <<>>} /\ socket2Handle' \in {socket2Handle, Nobody}
      BY <1>5, <2>4 DEF HangUp, ReaderEnds, Serving, lineVars, processVars
    <3> QED
      BY <3>1, QuietStep
  <2> QED
    BY <1>5, <2>1, <2>2, <2>3, <2>4 DEF ReaderNext
<1>6. CASE UNCHANGED vars
  <2>1. /\ UNCHANGED <<stream, passed, sent, readBuffer, s, currentReadSize, at, role>>
        /\ UNCHANGED <<reading, backlog, socket2Handle>>
    BY <1>6 DEF vars, readerVars, socketVars, lineVars, processVars
  <2>2. reading' /\ socket2Handle' = Nobody => readBuffer = <<>>
    BY <2>1 DEF LinesInv, QueueOK
  <2> QED
    BY <2>1, <2>2, QuietStep
<1> QED
  BY <1>1, <1>2, <1>3, <1>4, <1>5, <1>6 DEF Next, ProcessNext

\* Where what was sent is: passed on, or in the line so far, the buffer and the
\* stream of its connection, in this order, for any processes and lines.
THEOREM LinesInvariance == Spec => []LinesInv
<1>1. Init => LinesInv
  <2> SUFFICES ASSUME Init PROVE LinesInv
    OBVIOUS
  <2>1. /\ backlog = <<>> /\ socket2Handle = Nobody /\ readBuffer = <<>> /\ s = <<>>
        /\ \A p \in Processes : stream[p] = <<>> /\ passed[p] = <<>> /\ sent[p] = <<>>
    BY DEF Init, ReaderInit
  <2>2. DOMAIN <<>> = {} /\ Len(<<>>) = 0
    OBVIOUS
  <2>3. \A p \in Processes : p \notin Connected
    BY <2>1, <2>2 DEF Connected
  <2>4. Fresh
    BY <2>1, <2>3 DEF Fresh
  <2>5. QueueOK /\ LineSoFar /\ OwnLines
    BY <2>1, <2>2 DEF QueueOK, LineSoFar, OwnLines
  <2>6. LinesArrive
    BY <2>1, <2>2 DEF LinesArrive
  <2>7. StreamsOK
    BY <2>3 DEF StreamsOK, Connected
  <2> QED
    BY <2>4, <2>5, <2>6, <2>7 DEF LinesInv
<1> QED
  BY <1>1, LinesStep, TypeCorrect, PTL DEF Spec

\* However the stream is cut by the buffer, and whatever other programs sent
\* before: the reader passes on what a command line sent, line by line, in order.
THEOREM LinesDoArrive == Spec => []LinesArrive
<1>1. LinesInv => LinesArrive
  BY DEF LinesInv
<1> QED
  BY <1>1, LinesInvariance, PTL

=============================================================================
