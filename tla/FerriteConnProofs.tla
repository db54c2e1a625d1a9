-------------------------- MODULE FerriteConnProofs --------------------------
(***************************************************************************)
(* Proofs about a connection to either edition of ferrite, for every       *)
(* limit, every size of the buffers and every stream of bytes, however the *)
(* network cuts it up.                                                     *)
(***************************************************************************)
EXTENDS MCFerriteConn, FiniteSetTheorems, TLAPS

(***************************************************************************)
(* What a stream of bytes means.                                           *)
(***************************************************************************)

\* No newline among the n bytes of s that follow the first i.
Unbroken(s, i, n) == \A j \in i + 1 .. i + n : s[j] # Newline

\* The sequence e holds the first lines of s, none longer than n, and the
\* last of them ends at byte i.
LinesTo(s, e, i, n) ==
  /\ e \in Seq(Seq(Byte))
  /\ EndsAt(s, i, Len(e))
  /\ \A k \in 1..Len(e) :
       /\ Len(e[k]) <= n
       /\ \E a, c \in 0..Len(s) : /\ EndsAt(s, a, k - 1) /\ EndsAt(s, c, k)
                                  /\ e[k] = SubSeq(s, a + 1, c - 1)

\* A set of natural numbers has a least element.
LEMMA Least ==
  ASSUME NEW S \in SUBSET Nat, S # {}
  PROVE  \E n \in S : \A m \in S : n <= m
<1>1. PICK n \in S : \A m \in S : ~(<<m, n>> \in OpToRel(<, Nat))
  BY NatLessThanWellFounded, WFMin
<1>2. ASSUME NEW m \in S, m < n PROVE FALSE
  <2>1. <<m, n>> \in Nat \X Nat
    OBVIOUS
  <2>2. <<m, n>> \in OpToRel(<, Nat)
    BY <1>2, <2>1 DEF OpToRel
  <2>. QED
    BY <1>1, <2>2
<1>3. S \subseteq Nat
  OBVIOUS
<1>. QED
  BY <1>2, <1>3

\* The search finds the first newline, if there is one.
LEMMA FirstNewline ==
  ASSUME NEW s \in Seq(Byte), NEW from \in Nat \ {0}
  PROVE  LET end == NewlineAt(s, from)
         IN  \/ end = 0 /\ \A j \in from..Len(s) : s[j] # Newline
             \/ /\ end \in from..Len(s) /\ s[end] = Newline
                /\ \A j \in from..(end - 1) : s[j] # Newline
<1>. DEFINE at == {i \in from..Len(s) : s[i] = Newline}
<1>1. CASE at = {}
  <2>1. NewlineAt(s, from) = 0
    BY <1>1 DEF NewlineAt
  <2>. QED
    BY <1>1, <2>1
<1>2. CASE at # {}
  <2>1. at \in SUBSET Nat
    OBVIOUS
  <2>2. \E n \in at : \A m \in at : n <= m
    BY <1>2, <2>1, Least
  <2>3. NewlineAt(s, from) = Min(at)
    BY <1>2 DEF NewlineAt
  <2>4. Min(at) \in at /\ \A m \in at : Min(at) <= m
    BY <2>2 DEF Min
  <2>5. ASSUME NEW j \in from..(Min(at) - 1) PROVE s[j] # Newline
    <3>1. j \in from..Len(s) /\ j < Min(at)
      BY <2>1, <2>4
    <3>2. j \notin at
      BY <2>1, <2>4, <3>1
    <3>. QED
      BY <3>1, <3>2
  <2>6. Min(at) \in from..Len(s) /\ s[Min(at)] = Newline
    BY <2>4
  <2>. HIDE DEF at
  <2>. QED
    BY <2>3, <2>5, <2>6
<1>. QED
  BY <1>1, <1>2

\* The newlines of a prefix can be counted, and a longer prefix has no fewer.
LEMMA NewlinesType ==
  ASSUME NEW s, NEW i \in Nat
  PROVE  /\ IsFiniteSet({j \in 1..i : s[j] = Newline})
         /\ Newlines(s, i) \in Nat
<1>1. IsFiniteSet(1..i)
  BY FS_Interval
<1>2. IsFiniteSet({j \in 1..i : s[j] = Newline})
  BY <1>1, FS_Subset
<1>. QED
  BY <1>2, FS_CardinalityType DEF Newlines

LEMMA NewlinesMonotone ==
  ASSUME NEW s, NEW i \in Nat, NEW j \in Nat, i <= j
  PROVE  Newlines(s, i) <= Newlines(s, j)
<1>1. {l \in 1..i : s[l] = Newline} \in SUBSET {l \in 1..j : s[l] = Newline}
  OBVIOUS
<1>2. IsFiniteSet({l \in 1..j : s[l] = Newline})
  BY NewlinesType
<1>. QED
  BY <1>1, <1>2, FS_Subset DEF Newlines

\* The next newline ends the next line.
LEMMA EndAdvance ==
  ASSUME NEW s, NEW i \in Nat, NEW j \in Nat, i < j, s[j] = Newline,
         \A l \in i + 1 .. j - 1 : s[l] # Newline
  PROVE  Newlines(s, j) = Newlines(s, i) + 1
<1>. DEFINE A == {l \in 1..i : s[l] = Newline}
<1>1. {l \in 1..j : s[l] = Newline} = A \union {j}
  OBVIOUS
<1>2. IsFiniteSet(A)
  BY NewlinesType
<1>4. j \notin A
  OBVIOUS
<1>3. Cardinality(A \union {j}) = Cardinality(A) + 1
  BY <1>2, <1>4, FS_AddElement
<1>. QED
  BY <1>1, <1>3 DEF Newlines

\* A line ends at one place.
LEMMA EndUnique ==
  ASSUME NEW s \in Seq(Byte), NEW k, NEW i, NEW j, EndsAt(s, i, k), EndsAt(s, j, k)
  PROVE  i = j
<1>1. ASSUME NEW a \in 0..Len(s), NEW c \in 0..Len(s), a < c, s[c] = Newline
      PROVE  Newlines(s, a) # Newlines(s, c)
  <2>1. Newlines(s, a) <= Newlines(s, c - 1)
    BY <1>1, NewlinesMonotone
  <2>2. Newlines(s, c) = Newlines(s, c - 1) + 1
    BY <1>1, EndAdvance
  <2>3. a \in Nat /\ c - 1 \in Nat
    BY <1>1
  <2>4. Newlines(s, a) \in Nat /\ Newlines(s, c - 1) \in Nat
    BY <2>3, NewlinesType
  <2>. QED
    BY <2>1, <2>2, <2>4
<1>2. i \in 0..Len(s) /\ j \in 0..Len(s) /\ Newlines(s, i) = Newlines(s, j)
  BY DEF EndsAt
<1>3. ~(i < j)
  BY <1>1, <1>2 DEF EndsAt
<1>4. ~(j < i)
  BY <1>1, <1>2 DEF EndsAt
<1>. QED
  BY <1>2, <1>3, <1>4

LEMMA LineEndIs ==
  ASSUME NEW s \in Seq(Byte), NEW k, NEW i, EndsAt(s, i, k)
  PROVE  LineEnd(s, k) = i
<1>1. i \in 0..Len(s)
  BY DEF EndsAt
<1>2. \A j \in 0..Len(s) : EndsAt(s, j, k) => j = i
  BY EndUnique
<1>. QED
  BY <1>1, <1>2 DEF LineEnd

\* What comes later changes neither where a line ends nor what it is.
LEMMA EndStable ==
  ASSUME NEW s \in Seq(Byte), NEW b \in Byte, NEW k, NEW i, EndsAt(s, i, k)
  PROVE  EndsAt(Append(s, b), i, k)
<1>1. i \in 0..Len(s)
  BY DEF EndsAt
<1>2. \A j \in 1..i : Append(s, b)[j] = s[j]
  BY <1>1
<1>3. {j \in 1..i : Append(s, b)[j] = Newline} = {j \in 1..i : s[j] = Newline}
  BY <1>2
<1>4. Newlines(Append(s, b), i) = Newlines(s, i)
  BY <1>3 DEF Newlines
<1>5. i # 0 => Append(s, b)[i] = s[i]
  BY <1>1
<1>. QED
  BY <1>1, <1>4, <1>5 DEF EndsAt

\* Nothing has been executed yet.
LEMMA LinesStart ==
  ASSUME NEW s \in Seq(Byte), NEW n
  PROVE  LinesTo(s, <<>>, 0, n)
<1>1. {j \in 1..0 : s[j] = Newline} = {}
  OBVIOUS
<1>2. Newlines(s, 0) = 0
  BY <1>1, FS_EmptySet DEF Newlines
<1>3. <<>> \in Seq(Seq(Byte)) /\ Len(<<>>) = 0
  OBVIOUS
<1>. QED
  BY <1>2, <1>3 DEF LinesTo, EndsAt

LEMMA LinesStable ==
  ASSUME NEW s \in Seq(Byte), NEW b \in Byte, NEW e, NEW i, NEW n, LinesTo(s, e, i, n)
  PROVE  LinesTo(Append(s, b), e, i, n)
<1>. DEFINE t == Append(s, b)
<1>1. e \in Seq(Seq(Byte)) /\ EndsAt(t, i, Len(e))
  BY EndStable DEF LinesTo
<1>2. ASSUME NEW k \in 1..Len(e)
      PROVE  /\ Len(e[k]) <= n
             /\ \E a, c \in 0..Len(t) : /\ EndsAt(t, a, k - 1) /\ EndsAt(t, c, k)
                                        /\ e[k] = SubSeq(t, a + 1, c - 1)
  <2>1. PICK a \in 0..Len(s) : \E c \in 0..Len(s) :
               EndsAt(s, a, k - 1) /\ EndsAt(s, c, k) /\ e[k] = SubSeq(s, a + 1, c - 1)
    BY DEF LinesTo
  <2>2. PICK c \in 0..Len(s) :
               EndsAt(s, a, k - 1) /\ EndsAt(s, c, k) /\ e[k] = SubSeq(s, a + 1, c - 1)
    BY <2>1
  <2>3. SubSeq(t, a + 1, c - 1) = SubSeq(s, a + 1, c - 1)
    OBVIOUS
  <2>4. EndsAt(t, a, k - 1) /\ EndsAt(t, c, k)
    BY <2>2, EndStable
  <2>5. a \in 0..Len(t) /\ c \in 0..Len(t)
    OBVIOUS
  <2>6. Len(e[k]) <= n
    BY DEF LinesTo
  <2>. QED
    BY <2>2, <2>3, <2>4, <2>5, <2>6
<1>. QED
  BY <1>1, <1>2 DEF LinesTo

\* The bytes up to the next newline are the next line.
LEMMA LinesAdvance ==
  ASSUME NEW s \in Seq(Byte), NEW e, NEW i \in Nat, NEW n, LinesTo(s, e, i, n),
         NEW j \in i + 1 .. Len(s), s[j] = Newline, Unbroken(s, i, j - 1 - i),
         j - 1 - i <= n
  PROVE  LinesTo(s, Append(e, SubSeq(s, i + 1, j - 1)), j, n)
<1>. DEFINE line == SubSeq(s, i + 1, j - 1)
            f == Append(e, line)
<1>1. e \in Seq(Seq(Byte)) /\ EndsAt(s, i, Len(e))
  BY DEF LinesTo
<1>2. line \in Seq(Byte) /\ Len(line) = j - 1 - i
  OBVIOUS
<1>3. f \in Seq(Seq(Byte)) /\ Len(f) = Len(e) + 1 /\ f[Len(e) + 1] = line
  BY <1>1, <1>2
<1>4. Newlines(s, j) = Newlines(s, i) + 1
  BY EndAdvance DEF Unbroken
<1>5. EndsAt(s, j, Len(e) + 1)
  BY <1>1, <1>4 DEF EndsAt
<1>6. ASSUME NEW k \in 1..Len(e)
      PROVE  f[k] = e[k]
  BY <1>1
<1>7. ASSUME NEW k \in 1..Len(f)
      PROVE  /\ Len(f[k]) <= n
             /\ \E a, c \in 0..Len(s) : /\ EndsAt(s, a, k - 1) /\ EndsAt(s, c, k)
                                        /\ f[k] = SubSeq(s, a + 1, c - 1)
  <2>1. CASE k = Len(e) + 1
    <3>1. i \in 0..Len(s) /\ j \in 0..Len(s)
      OBVIOUS
    <3>2. EndsAt(s, i, k - 1) /\ EndsAt(s, j, k) /\ f[k] = SubSeq(s, i + 1, j - 1)
      BY <1>1, <1>3, <1>5, <2>1
    <3>3. Len(f[k]) <= n
      BY <1>2, <1>3, <2>1
    <3>. QED
      BY <3>1, <3>2, <3>3
  <2>2. CASE k \in 1..Len(e)
    BY <1>6, <2>2 DEF LinesTo
  <2>3. k = Len(e) + 1 \/ k \in 1..Len(e)
    <3>. HIDE DEF f
    <3>. QED
      BY <1>1, <1>3
  <2>. QED
    BY <2>1, <2>2, <2>3
<1>. QED
  BY <1>3, <1>5, <1>7 DEF LinesTo

\* Some first bytes of what is buffered, in the stream.
LEMMA BytesTaken ==
  ASSUME NEW s \in Seq(Byte), NEW c \in Nat, NEW a \in c..Len(s), NEW m \in 0..(a - c)
  PROVE  SubSeq(SubSeq(s, c + 1, a), 1, m) = SubSeq(s, c + 1, c + m)
<1>. DEFINE t == SubSeq(s, c + 1, a)
            u == SubSeq(t, 1, m)
            v == SubSeq(s, c + 1, c + m)
<1>1. t \in Seq(Byte) /\ Len(t) = a - c /\ \A j \in 1..(a - c) : t[j] = s[c + j]
  OBVIOUS
<1>2. u \in Seq(Byte) /\ Len(u) = m /\ \A j \in 1..m : u[j] = t[j]
  BY <1>1
<1>3. v \in Seq(Byte) /\ Len(v) = m /\ \A j \in 1..m : v[j] = s[c + j]
  OBVIOUS
<1>4. \A j \in 1..m : u[j] = v[j]
  <2>. HIDE DEF t, u, v
  <2>. QED
    BY <1>1, <1>2, <1>3
<1>5. u = v
  <2>. HIDE DEF t, u, v
  <2>. QED
    BY <1>2, <1>3, <1>4
<1>. QED
  BY <1>5

\* Taking the buffered bytes up to the first newline takes the next line.
LEMMA LineTaken ==
  ASSUME NEW s \in Seq(Byte), NEW e, NEW c \in Nat, NEW a \in c..Len(s), NEW n,
         LinesTo(s, e, c, n), NEW end \in 1..(a - c), s[c + end] = Newline,
         Unbroken(s, c, end - 1), end - 1 <= n
  PROVE  LinesTo(s, Append(e, SubSeq(SubSeq(s, c + 1, a), 1, end - 1)), c + end, n)
<1>. DEFINE j == c + end
<1>1. j \in c + 1 .. Len(s) /\ j - 1 - c = end - 1 /\ c + (end - 1) = j - 1
  OBVIOUS
<1>2. end - 1 \in 0..(a - c)
  OBVIOUS
<1>3. SubSeq(SubSeq(s, c + 1, a), 1, end - 1) = SubSeq(s, c + 1, j - 1)
  BY <1>1, <1>2, BytesTaken
<1>4. LinesTo(s, Append(e, SubSeq(s, c + 1, j - 1)), j, n)
  BY <1>1, LinesAdvance
<1>. QED
  BY <1>3, <1>4

\* Lines that were found one after the other are the lines of the stream.
LEMMA LinesOf ==
  ASSUME NEW s \in Seq(Byte), NEW e, NEW i, NEW n, LinesTo(s, e, i, n)
  PROVE  /\ Len(Lines(s)) = Newlines(s, Len(s))
         /\ Len(e) <= Len(Lines(s))
         /\ \A k \in 1..Len(e) : e[k] = Lines(s)[k]
<1>0. Len(s) \in Nat
  OBVIOUS
<1>1. Newlines(s, Len(s)) \in Nat
  BY <1>0, NewlinesType
<1>2. Len(Lines(s)) = Newlines(s, Len(s))
  BY <1>1 DEF Lines
<1>3. e \in Seq(Seq(Byte)) /\ i \in 0..Len(s) /\ Newlines(s, i) = Len(e)
  BY DEF LinesTo, EndsAt
<1>4. Len(e) <= Len(Lines(s))
  BY <1>2, <1>3, NewlinesMonotone
<1>5. ASSUME NEW k \in 1..Len(e)
      PROVE  e[k] = Lines(s)[k]
  <2>1. PICK a \in 0..Len(s) : \E c \in 0..Len(s) :
               EndsAt(s, a, k - 1) /\ EndsAt(s, c, k) /\ e[k] = SubSeq(s, a + 1, c - 1)
    BY DEF LinesTo
  <2>2. PICK c \in 0..Len(s) :
               EndsAt(s, a, k - 1) /\ EndsAt(s, c, k) /\ e[k] = SubSeq(s, a + 1, c - 1)
    BY <2>1
  <2>3. LineEnd(s, k - 1) = a /\ LineEnd(s, k) = c
    BY <2>2, LineEndIs
  <2>4. k \in 1..Newlines(s, Len(s))
    BY <1>1, <1>2, <1>3, <1>4
  <2>. QED
    BY <2>2, <2>3, <2>4 DEF Lines
<1>. QED
  BY <1>2, <1>4, <1>5

LEMMA LinesArePrefix ==
  ASSUME NEW s \in Seq(Byte), NEW e, NEW i, NEW n, LinesTo(s, e, i, n)
  PROVE  IsPrefix(e, Lines(s))
<1>1. Len(e) <= Len(Lines(s)) /\ \A k \in 1..Len(e) : e[k] = Lines(s)[k]
  BY LinesOf
<1>2. e \in Seq(Seq(Byte)) /\ Len(s) \in Nat
  BY DEF LinesTo
<1>3. Newlines(s, Len(s)) \in Nat
  BY <1>2, NewlinesType
<1>4. SubSeq(e, 1, Len(e)) = [k \in 1..Len(e) |-> e[k]]
  BY <1>2
<1>5. SubSeq(Lines(s), 1, Len(e)) = [k \in 1..Len(e) |-> Lines(s)[k]]
  BY <1>1, <1>2, <1>3 DEF Lines
<1>. QED
  BY <1>1, <1>4, <1>5 DEF IsPrefix

\* Where no line ends any more the stream is unfinished.
LEMMA LastLine ==
  ASSUME NEW s \in Seq(Byte), NEW k, NEW i, EndsAt(s, i, k), Unbroken(s, i, Len(s) - i)
  PROVE  Newlines(s, Len(s)) = k /\ Unfinished(s) = SubSeq(s, i + 1, Len(s))
<1>1. i \in 0..Len(s) /\ Newlines(s, i) = k
  BY DEF EndsAt
<1>2. {j \in 1..Len(s) : s[j] = Newline} = {j \in 1..i : s[j] = Newline}
  BY <1>1 DEF Unbroken
<1>3. Newlines(s, Len(s)) = k
  BY <1>1, <1>2 DEF Newlines
<1>. QED
  BY <1>3, LineEndIs DEF Unfinished

\* Where the next m bytes hold no newline, the line that begins there, or
\* what there is of it, is at least that long.
LEMMA NextIsLong ==
  ASSUME NEW s \in Seq(Byte), NEW e, NEW i, NEW n, LinesTo(s, e, i, n),
         NEW m \in Nat, i + m <= Len(s), Unbroken(s, i, m)
  PROVE  LET line == Append(Lines(s), Unfinished(s))[Len(e) + 1]
         IN  Len(line) \in Nat /\ Len(line) >= m
<1>. DEFINE later == {j \in i + 1 .. Len(s) : s[j] = Newline}
<1>1. i \in 0..Len(s) /\ EndsAt(s, i, Len(e)) /\ Len(e) \in Nat
  BY DEF LinesTo, EndsAt
<1>2. Newlines(s, Len(s)) \in Nat /\ Len(Lines(s)) = Newlines(s, Len(s))
  BY LinesOf, NewlinesType
<1>3. CASE later = {}
  <2>1. Unbroken(s, i, Len(s) - i)
    BY <1>1, <1>3 DEF Unbroken
  <2>2. Newlines(s, Len(s)) = Len(e) /\ Unfinished(s) = SubSeq(s, i + 1, Len(s))
    BY <1>1, <2>1, LastLine
  <2>3. Len(SubSeq(s, i + 1, Len(s))) = Len(s) - i
    BY <1>1
  <2>4. Append(Lines(s), Unfinished(s))[Len(e) + 1] = Unfinished(s)
    <3>1. Lines(s) = [k \in 1..Len(e) |-> SubSeq(s, LineEnd(s, k - 1) + 1, LineEnd(s, k) - 1)]
      BY <2>2 DEF Lines
    <3>. QED
      BY <1>1, <3>1
  <2>5. Len(Unfinished(s)) = Len(s) - i
    BY <2>2, <2>3
  <2>. QED
    BY <1>1, <2>4, <2>5
<1>4. CASE later # {}
  <2>1. later \in SUBSET Nat
    BY <1>1
  <2>2. PICK j \in later : \A l \in later : j <= l
    BY <1>4, <2>1, Least
  <2>3. j \in i + 1 .. Len(s) /\ s[j] = Newline /\ Unbroken(s, i, j - 1 - i)
    BY <1>1, <2>2 DEF Unbroken
  <2>4. j > i + m
    BY <1>1, <2>3 DEF Unbroken
  <2>5. Newlines(s, j) = Len(e) + 1
    BY <1>1, <2>3, EndAdvance DEF EndsAt, Unbroken
  <2>6. EndsAt(s, j, Len(e) + 1)
    BY <1>1, <2>3, <2>5 DEF EndsAt
  <2>7. LineEnd(s, Len(e)) = i /\ LineEnd(s, Len(e) + 1) = j
    BY <1>1, <2>6, LineEndIs
  <2>8. Len(e) + 1 <= Newlines(s, Len(s))
    BY <1>1, <2>3, <2>5, NewlinesMonotone
  <2>9. Lines(s)[Len(e) + 1] = SubSeq(s, i + 1, j - 1)
    <3>1. PICK k \in 1..Newlines(s, Len(s)) : k = Len(e) + 1
      BY <1>1, <1>2, <2>8
    <3>2. Lines(s)[k] = SubSeq(s, LineEnd(s, k - 1) + 1, LineEnd(s, k) - 1)
      BY DEF Lines
    <3>3. k - 1 = Len(e)
      BY <1>1, <3>1
    <3>. QED
      BY <2>7, <3>1, <3>2, <3>3
  <2>10. Append(Lines(s), Unfinished(s))[Len(e) + 1] = Lines(s)[Len(e) + 1]
    BY <1>1, <1>2, <2>8 DEF Lines
  <2>11. Len(SubSeq(s, i + 1, j - 1)) = j - 1 - i
    BY <1>1, <2>3
  <2>. QED
    BY <1>1, <2>3, <2>4, <2>9, <2>10, <2>11
<1>. QED
  BY <1>3, <1>4

-----------------------------------------------------------------------------
(***************************************************************************)
(* The inductive invariant: how far the framing is in the stream, and what *)
(* has become of the replies.                                              *)
(***************************************************************************)
WireTypeOK ==
  /\ sent \in Seq(Byte) /\ eof \in BOOLEAN /\ gone \in BOOLEAN /\ unread \in Nat
  /\ arrived \in 0..Len(sent) /\ consumed \in 0..arrived
  /\ executed \in Seq(Seq(Byte))
  /\ answers \in Seq(Int) /\ pending \in Seq(Int) /\ reply \in Int
  /\ why \in {"open", "shutdown", "idle", "client", "line_too_long", "slow_reader"}

\* While a reply is being written, it is the next one or the last one.
Owed ==
  /\ \A k \in DOMAIN Written : Written[k] = k
  /\ why = "open" => reply = Len(executed) /\ Len(Written) + 1 = Len(executed)
  /\ why # "open" => reply \in {LineTooLong, ShuttingDown}
  /\ Len(pending) <= MaxUnflushed

\* Otherwise a connection that goes on owes none.
Settled ==
  /\ AnswersInOrder
  /\ why = "open" => Len(Written) = Len(executed)
  /\ Len(pending) <= MaxUnflushed

\* v2: a reply is only unflushed at the top of the loop when another line waits.
V2Loop ==
  /\ pc \in {"stop?", "decode", "read", "feed", "make_room", "flush", "last_flush", "closed"}
  /\ pc \in {"stop?", "decode", "read", "flush"} => why = "open"
  /\ pc \in {"last_flush", "closed"} => why # "open"
  /\ pc = "read" => pending = <<>> /\ arrived - consumed <= MaxLine
  /\ pc \in {"stop?", "decode"} /\ pending # <<>>
       => ~Unbroken(sent, consumed, arrived - consumed)

\* The lines before consumed are executed, and scanned skips no newline.
V2Framed ==
  /\ LinesTo(sent, executed, consumed, MaxLine)
  /\ scanned \in 0..(arrived - consumed) /\ Unbroken(sent, consumed, scanned)
  /\ arrived - consumed <= MaxLine + ReadSize
  /\ why = "line_too_long" => /\ consumed + (MaxLine + 1) <= Len(sent)
                              /\ Unbroken(sent, consumed, MaxLine + 1)

V2Inv == /\ V2Loop /\ V2Framed
         /\ pc \in {"feed", "make_room"} => Owed
         /\ pc \notin {"feed", "make_room"} => Settled

\* v1: a reply is only unflushed in a read when the next request has begun.
\* Here scanned is the length of the line under way, taken.
V1Loop ==
  /\ pc \in {"read", "write", "make_room", "flush", "last_flush", "closed"}
  /\ pc \in {"read", "flush"} => why = "open"
  /\ pc \in {"last_flush", "closed"} => why # "open"
  /\ scanned \in 0..MaxLine
  /\ pc \in {"write", "make_room", "flush"} => scanned = 0
  /\ pc = "read" /\ pending # <<>> => scanned > 0 \/ consumed < arrived
  /\ scanned + (arrived - consumed) <= MaxLine + ReadSize

\* The line under way began where the last executed one ended.
V1Between ==
  /\ why # "line_too_long" /\ scanned <= consumed
  /\ LinesTo(sent, executed, consumed - scanned, MaxLine - 1)
  /\ Unbroken(sent, consumed - scanned, scanned)

\* The stream has ended and its last bytes have been executed too.
V1Fragment ==
  /\ why # "line_too_long" /\ eof /\ consumed = Len(sent) /\ scanned = 0
  /\ \E i \in 0..Len(sent) :
       /\ executed # <<>> /\ i < Len(sent)
       /\ LinesTo(sent, Front(executed), i, MaxLine - 1)
       /\ Unbroken(sent, i, Len(sent) - i)
       /\ Last(executed) = SubSeq(sent, i + 1, Len(sent))

\* The line that was refused is as long as the limit.
V1Refused ==
  /\ why = "line_too_long" /\ pc # "read"
  /\ \E i \in 0..Len(sent) :
       /\ LinesTo(sent, executed, i, MaxLine - 1)
       /\ i + MaxLine <= Len(sent) /\ Unbroken(sent, i, MaxLine)

V1Inv == /\ V1Loop
         /\ V1Between \/ V1Fragment \/ V1Refused
         /\ pc \in {"write", "make_room"} => Owed
         /\ pc \notin {"write", "make_room"} => Settled

ConnInv == /\ WireTypeOK /\ edition \in {"v1", "v2"}
           /\ edition = "v1" => V1Inv
           /\ edition = "v2" => V2Inv

-----------------------------------------------------------------------------
(***************************************************************************)
(* Steps that both editions take.                                          *)
(***************************************************************************)

\* What is in the server's buffer.
LEMMA BufferedIs ==
  ASSUME WireTypeOK
  PROVE  /\ Buffered \in Seq(Byte) /\ Len(Buffered) = arrived - consumed
         /\ \A j \in 1..(arrived - consumed) : Buffered[j] = sent[consumed + j]
         /\ Buffered = <<>> <=> arrived = consumed
<1>0. arrived \in 0..Len(sent) /\ consumed \in 0..arrived
  BY DEF WireTypeOK
<1>2. sent \in Seq(Byte)
  BY DEF WireTypeOK
<1>1. arrived \in Nat /\ consumed \in Nat /\ consumed <= arrived /\ arrived <= Len(sent)
  BY <1>0, <1>2
<1>3. Buffered \in Seq(Byte) /\ Len(Buffered) = arrived - consumed
  BY <1>1, <1>2 DEF Buffered
<1>4. \A j \in 1..(arrived - consumed) : Buffered[j] = sent[consumed + j]
  BY <1>1, <1>2 DEF Buffered
<1>5. Buffered = <<>> <=> Len(Buffered) = 0
  BY <1>3
<1>. QED
  BY <1>1, <1>3, <1>4, <1>5

\* Both editions see the stream and the socket as this module does.
LEMMA SameWire ==
  /\ V1!WireInit <=> WireInit
  /\ V2!WireInit <=> WireInit
  /\ V1!Buffered = Buffered
  /\ V2!Buffered = Buffered
  /\ V1!Arrival <=> Arrival
  /\ V2!Arrival <=> Arrival
  /\ V1!EndOfStream <=> EndOfStream
  /\ V1!Flushing <=> Flushing
  /\ V2!Flushing <=> Flushing
  /\ V1!PutOnSocket <=> PutOnSocket
  /\ V2!PutOnSocket <=> PutOnSocket
BY DEF V1!WireInit, V2!WireInit, WireInit, V1!Buffered, V2!Buffered, Buffered,
       V1!Arrival, V2!Arrival, Arrival, V1!EndOfStream, EndOfStream,
       V1!Flushing, V2!Flushing, Flushing, V1!PutOnSocket, V2!PutOnSocket, PutOnSocket

LEMMA SameSearch ==
  ASSUME NEW s, NEW from
  PROVE  V1!NewlineAt(s, from) = NewlineAt(s, from) /\ V2!NewlineAt(s, from) = NewlineAt(s, from)
BY DEF V1!NewlineAt, V2!NewlineAt, NewlineAt, V1!Newline, V2!Newline, Newline,
       V1!Min, V2!Min, Min

LEMMA SameReply ==
  ASSUME NEW full, NEW next
  PROVE  /\ V1!BufferReply(full, next) <=> BufferReply(full, next)
         /\ V2!BufferReply(full, next) <=> BufferReply(full, next)
BY DEF V1!BufferReply, V2!BufferReply, BufferReply

\* Where the replies stay as they are, so does what is owed.
LEMMA OwedKept ==
  ASSUME Owed, Written' = Written, Len(pending') <= MaxUnflushed,
         UNCHANGED <<executed, reply, why>>
  PROVE  Owed'
BY DEF Owed

LEMMA SettledKept ==
  ASSUME Settled, Written' = Written, Len(pending') <= MaxUnflushed,
         UNCHANGED <<executed, why>>
  PROVE  Settled'
BY DEF Settled, AnswersInOrder

LEMMA WrittenSame ==
  ASSUME UNCHANGED <<answers, pending>>
  PROVE  Written' = Written /\ pending' = pending
BY DEF Written

\* A connection that ends keeps the order of its replies.
LEMMA SettledClosed ==
  ASSUME Owed \/ (Settled /\ why = "open"), why' # "open", UNCHANGED <<answers, pending>>
  PROVE  Settled'
<1>1. Written' = Written /\ pending' = pending
  BY WrittenSame
<1>2. \A k \in DOMAIN Written : Written[k] = k
  BY DEF Owed, Settled, AnswersInOrder
<1>. QED
  BY <1>1, <1>2 DEF Owed, Settled, AnswersInOrder

\* A line was executed, or refused: its reply is owed.
LEMMA OwedAfterLine ==
  ASSUME WireTypeOK, Settled, why = "open", UNCHANGED <<answers, pending>>,
         \/ /\ \E line : executed' = Append(executed, line)
            /\ reply' = Len(executed) + 1 /\ why' = why
         \/ reply' \in {LineTooLong, ShuttingDown} /\ why' # "open"
  PROVE  Owed'
<1>1. Written' = Written /\ pending' = pending
  BY WrittenSame
<1>2. \A k \in DOMAIN Written : Written[k] = k
  BY DEF Settled, AnswersInOrder
<1>3. Len(Written) = Len(executed) /\ Len(pending) <= MaxUnflushed
  BY DEF Settled
<1>4. ASSUME NEW line, executed' = Append(executed, line)
      PROVE  Len(executed') = Len(executed) + 1
  BY <1>4 DEF WireTypeOK
<1>5. CASE reply' \in {LineTooLong, ShuttingDown} /\ why' # "open"
  BY <1>1, <1>2, <1>3, <1>5 DEF Owed
<1>6. CASE /\ \E line : executed' = Append(executed, line)
           /\ reply' = Len(executed) + 1 /\ why' = why
  BY <1>1, <1>2, <1>3, <1>4, <1>6 DEF Owed
<1>. QED
  BY <1>5, <1>6

\* The reply goes to the end of the buffer, or the buffer is written out first.
LEMMA ReplyBuffered ==
  ASSUME WireTypeOK, Owed, NEW next, BufferReply(Len(pending) >= MaxUnflushed, next)
  PROVE  /\ WireTypeOK'
         /\ (pc' = "make_room" /\ Owed') \/ (pc' = next /\ Settled')
<1>1. CASE Len(pending) >= MaxUnflushed
  <2>1. pc' = "make_room" /\ UNCHANGED <<pending, reply>>
    BY <1>1 DEF BufferReply
  <2>2. UNCHANGED <<sent, eof, gone, unread, arrived, consumed, executed, answers, why>>
    BY DEF BufferReply
  <2>3. Written' = Written
    BY <2>1, <2>2 DEF Written
  <2>4. Owed'
    BY <2>1, <2>2, <2>3, OwedKept DEF Owed
  <2>5. WireTypeOK'
    BY <2>1, <2>2 DEF WireTypeOK
  <2>. QED
    BY <2>1, <2>4, <2>5
<1>2. CASE ~(Len(pending) >= MaxUnflushed)
  <2>1. pending' = Append(pending, reply) /\ reply' = 0 /\ pc' = next
    BY <1>2 DEF BufferReply
  <2>2. UNCHANGED <<sent, eof, gone, unread, arrived, consumed, executed, answers, why>>
    BY DEF BufferReply
  <2>3. answers \in Seq(Int) /\ pending \in Seq(Int) /\ reply \in Int
    BY DEF WireTypeOK
  <2>4. /\ Written \in Seq(Int) /\ Written' \in Seq(Int)
        /\ Len(Written') = Len(Written) + 1
        /\ Written'[Len(Written) + 1] = reply
        /\ \A k \in 1..Len(Written) : Written'[k] = Written[k]
    BY <2>1, <2>2, <2>3 DEF Written
  <2>5. AnswersInOrder'
    <3>. SUFFICES ASSUME NEW k \in 1..(Len(Written) + 1)
                  PROVE  \/ Written'[k] = k
                         \/ /\ Written'[k] \in {LineTooLong, ShuttingDown}
                            /\ k = Len(Written') /\ why' # "open"
      BY <2>4 DEF AnswersInOrder
    <3>0. \A j \in 1..Len(Written) : Written[j] = j
      BY <2>4 DEF Owed
    <3>1. CASE k \in 1..Len(Written)
      BY <2>4, <3>0, <3>1
    <3>2. CASE k = Len(Written) + 1 /\ why = "open"
      BY <2>4, <3>2 DEF Owed
    <3>3. CASE k = Len(Written) + 1 /\ why # "open"
      BY <2>2, <2>4, <3>3 DEF Owed
    <3>. QED
      BY <2>4, <3>1, <3>2, <3>3
  <2>6. Len(pending') <= MaxUnflushed
    BY <1>2, <2>1, <2>3, WireAssumption
  <2>7. why' = "open" => Len(Written') = Len(executed')
    BY <2>2, <2>4 DEF Owed
  <2>8. Settled'
    BY <2>5, <2>6, <2>7 DEF Settled
  <2>9. pending' \in Seq(Int) /\ reply' \in Int
    BY <2>1, <2>3
  <2>. QED
    BY <2>1, <2>2, <2>8, <2>9 DEF WireTypeOK
<1>. QED
  BY <1>1, <1>2

\* A flush moves a reply without reordering them.
LEMMA ReplyMoved ==
  ASSUME WireTypeOK, PutOnSocket, Len(pending) <= MaxUnflushed
  PROVE  WireTypeOK' /\ Written' = Written /\ Len(pending') <= MaxUnflushed
<1>1. /\ answers \in Seq(Int) /\ pending \in Seq(Int) /\ pending # <<>>
      /\ answers' = Append(answers, Head(pending)) /\ pending' = Tail(pending)
  BY DEF WireTypeOK, PutOnSocket
<1>2. /\ answers' \in Seq(Int) /\ pending' \in Seq(Int)
      /\ Len(answers') = Len(answers) + 1 /\ Len(pending') = Len(pending) - 1
      /\ Len(pending) \in Nat
  BY <1>1
<1>3. Written' = Written
  <2>1. Written \in Seq(Int) /\ Written' \in Seq(Int) /\ Len(Written') = Len(Written)
    BY <1>1, <1>2 DEF Written
  <2>2. ASSUME NEW k \in 1..Len(Written)
        PROVE  Written'[k] = Written[k]
    <3>1. CASE k \in 1..Len(answers)
      BY <1>1, <1>2, <3>1 DEF Written
    <3>2. CASE k = Len(answers) + 1
      <4>1. Written'[k] = answers'[k]
        BY <1>1, <1>2, <3>2 DEF Written
      <4>2. answers'[k] = Head(pending)
        BY <1>1, <3>2
      <4>3. Written[k] = pending[1]
        BY <1>1, <1>2, <3>2 DEF Written
      <4>4. Head(pending) = pending[1]
        BY <1>1
      <4>. QED
        BY <4>1, <4>2, <4>3, <4>4
    <3>3. CASE k > Len(answers) + 1
      <4>1. Written'[k] = pending'[k - Len(answers) - 1]
        BY <1>1, <1>2, <2>1, <3>3 DEF Written
      <4>2. pending'[k - Len(answers) - 1] = pending[k - Len(answers)]
        BY <1>1, <1>2, <3>3 DEF Written
      <4>3. Written[k] = pending[k - Len(answers)]
        BY <1>1, <1>2, <3>3 DEF Written
      <4>. QED
        BY <4>1, <4>2, <4>3
    <3>4. Len(answers) \in Nat
      BY <1>1
    <3>. QED
      BY <3>1, <3>2, <3>3, <3>4
  <2>. QED
    BY <2>1, <2>2
<1>4. Len(pending') <= MaxUnflushed
  BY <1>2, WireAssumption
<1>5. unread \in Nat /\ unread' = unread + 1
  BY DEF WireTypeOK, PutOnSocket
<1>6. UNCHANGED <<sent, eof, gone, arrived, consumed, executed, reply, why>>
  BY DEF PutOnSocket
<1>7. unread' \in Nat
  BY <1>5
<1>8. WireTypeOK'
  BY <1>2, <1>6, <1>7 DEF WireTypeOK
<1>. QED
  BY <1>3, <1>4, <1>8

-----------------------------------------------------------------------------
(***************************************************************************)
(* The client's steps.                                                     *)
(***************************************************************************)
LEMMA UnbrokenStable ==
  ASSUME NEW s \in Seq(Byte), NEW b \in Byte, NEW i \in Nat, NEW n \in Int, i + n <= Len(s)
  PROVE  Unbroken(Append(s, b), i, n) <=> Unbroken(s, i, n)
<1>1. \A j \in i + 1 .. i + n : Append(s, b)[j] = s[j]
  OBVIOUS
<1>. QED
  BY <1>1 DEF Unbroken

\* A byte more in the stream.
LEMMA SendKeeps ==
  ASSUME ConnInv, NEW b \in Byte, ClientSends(b), UNCHANGED <<edition, stop, scanned>>
  PROVE  ConnInv'
<1>. DEFINE t == Append(sent, b)
<1>a. sent \in Seq(Byte) /\ arrived \in 0..Len(sent) /\ consumed \in 0..arrived
  BY DEF ConnInv, WireTypeOK
<1>b. /\ sent' = t /\ ~eof
      /\ UNCHANGED <<eof, gone, unread, arrived, consumed, executed, answers, pending,
                     reply, why, pc, edition, scanned>>
  BY DEF ClientSends, serverside
<1>c. t \in Seq(Byte) /\ Len(t) = Len(sent) + 1 /\ Len(sent) \in Nat
  BY <1>a
<1>1. /\ sent \in Seq(Byte) /\ sent' = t /\ t \in Seq(Byte) /\ Len(t) = Len(sent) + 1
      /\ Len(sent) \in Nat /\ ~eof
      /\ UNCHANGED <<eof, gone, unread, arrived, consumed, executed, answers, pending,
                     reply, why, pc, edition, scanned>>
  BY <1>a, <1>b, <1>c
<1>2. /\ arrived \in 0..Len(sent) /\ consumed \in 0..arrived
      /\ arrived \in Nat /\ consumed \in Nat /\ arrived \in 0..Len(t)
  BY <1>a, <1>c
<1>3. WireTypeOK'
  BY <1>1, <1>2 DEF ConnInv, WireTypeOK
<1>4. Written' = Written /\ pending' = pending
  BY <1>1, WrittenSame
<1>5. (Owed => Owed') /\ (Settled => Settled')
  BY <1>1, <1>4 DEF Owed, Settled, AnswersInOrder
<1>6. ASSUME edition = "v2" PROVE V2Inv'
  <2>1. V2Inv
    BY <1>6 DEF ConnInv
  <2>2. V2Loop'
    <3>1. Unbroken(t, consumed, arrived - consumed) <=> Unbroken(sent, consumed, arrived - consumed)
      BY <1>1, <1>2, UnbrokenStable
    <3>. QED
      BY <1>1, <2>1, <3>1 DEF V2Inv, V2Loop
  <2>3. V2Framed'
    <3>1. LinesTo(t, executed, consumed, MaxLine)
      BY <1>1, <2>1, LinesStable DEF V2Inv, V2Framed
    <3>a. scanned \in 0..(arrived - consumed) /\ Unbroken(sent, consumed, scanned)
      BY <2>1 DEF V2Inv, V2Framed
    <3>b. scanned \in Int /\ consumed + scanned <= Len(sent)
      BY <1>1, <1>2, <3>a
    <3>2. Unbroken(t, consumed, scanned)
      BY <1>1, <1>2, <3>a, <3>b, UnbrokenStable
    <3>3. ASSUME consumed + (MaxLine + 1) <= Len(sent), Unbroken(sent, consumed, MaxLine + 1)
          PROVE  consumed + (MaxLine + 1) <= Len(t) /\ Unbroken(t, consumed, MaxLine + 1)
      BY <1>1, <1>2, <3>3, UnbrokenStable, WireAssumption
    <3>. QED
      BY <1>1, <2>1, <3>1, <3>2, <3>3 DEF V2Inv, V2Framed
  <2>. QED
    BY <1>1, <1>5, <2>1, <2>2, <2>3 DEF V2Inv
<1>7. ASSUME edition = "v1" PROVE V1Inv'
  <2>1. V1Inv
    BY <1>7 DEF ConnInv
  <2>2. V1Loop'
    BY <1>1, <2>1 DEF V1Inv, V1Loop
  <2>3. ASSUME V1Between PROVE V1Between'
    <3>1. LinesTo(t, executed, consumed - scanned, MaxLine - 1)
      BY <1>1, <2>3, LinesStable DEF V1Between
    <3>a. scanned \in 0..MaxLine /\ scanned <= consumed
      BY <2>1, <2>3 DEF V1Between, V1Inv, V1Loop
    <3>b. scanned \in Int /\ consumed - scanned \in Nat /\ consumed - scanned + scanned <= Len(sent)
      BY <1>1, <1>2, <3>a, WireAssumption
    <3>2. Unbroken(t, consumed - scanned, scanned)
      BY <1>1, <2>3, <3>b, UnbrokenStable DEF V1Between
    <3>. QED
      BY <1>1, <2>3, <3>1, <3>2 DEF V1Between
  <2>4. ~V1Fragment
    BY <1>1 DEF V1Fragment
  <2>5. ASSUME V1Refused PROVE V1Refused'
    <3>1. PICK i \in 0..Len(sent) : /\ LinesTo(sent, executed, i, MaxLine - 1)
                                    /\ i + MaxLine <= Len(sent) /\ Unbroken(sent, i, MaxLine)
      BY <2>5 DEF V1Refused
    <3>2. LinesTo(t, executed, i, MaxLine - 1)
      BY <1>1, <3>1, LinesStable
    <3>3. Unbroken(t, i, MaxLine)
      BY <1>1, <3>1, UnbrokenStable, WireAssumption
    <3>4. i \in 0..Len(t) /\ i + MaxLine <= Len(t)
      BY <1>1, <3>1, WireAssumption
    <3>. QED
      BY <1>1, <2>5, <3>2, <3>3, <3>4 DEF V1Refused
  <2>. QED
    BY <1>1, <1>5, <2>1, <2>2, <2>3, <2>4, <2>5 DEF V1Inv
<1>. QED
  BY <1>1, <1>3, <1>6, <1>7 DEF ConnInv

\* What only the client sees does not matter to the server's invariant.
LEMMA RestKeeps ==
  ASSUME ConnInv, WireTypeOK', eof => eof',
         UNCHANGED <<sent, arrived, consumed, executed, answers, pending, reply, why, pc,
                     edition, scanned>>
  PROVE  ConnInv'
<1>1. (Owed => Owed') /\ (Settled => Settled')
  BY DEF Owed, Settled, AnswersInOrder, Written
<1>2. V2Inv => V2Inv'
  BY <1>1 DEF V2Inv, V2Loop, V2Framed
<1>3. (V1Between => V1Between') /\ (V1Fragment => V1Fragment') /\ (V1Refused => V1Refused')
  BY DEF V1Between, V1Fragment, V1Refused
<1>4. V1Inv => V1Inv'
  BY <1>1, <1>3 DEF V1Inv, V1Loop
<1>. QED
  BY <1>2, <1>4 DEF ConnInv

LEMMA ClientKeeps ==
  ASSUME ConnInv, ClientStep
  PROVE  ConnInv'
<1>1. UNCHANGED <<edition, stop, scanned>>
  BY DEF ClientStep
<1>2. ASSUME NEW b \in Byte, ClientSends(b) PROVE ConnInv'
  BY <1>1, <1>2, SendKeeps
<1>3. ASSUME ClientReads PROVE ConnInv'
  <2>a. unread \in Nat /\ unread > 0 /\ unread' = unread - 1
    BY <1>3 DEF ClientReads, ConnInv, WireTypeOK
  <2>1. unread' \in Nat
    BY <2>a
  <2>2. WireTypeOK'
    BY <1>3, <2>1 DEF ClientReads, serverside, ConnInv, WireTypeOK
  <2>. QED
    BY <1>1, <1>3, <2>2, RestKeeps DEF ClientReads, serverside
<1>4. ASSUME ClientHalfCloses PROVE ConnInv'
  <2>1. WireTypeOK'
    BY <1>4 DEF ClientHalfCloses, serverside, ConnInv, WireTypeOK
  <2>. QED
    BY <1>1, <1>4, <2>1, RestKeeps DEF ClientHalfCloses, serverside
<1>5. ASSUME ClientVanishes PROVE ConnInv'
  <2>1. WireTypeOK'
    BY <1>5 DEF ClientVanishes, serverside, ConnInv, WireTypeOK
  <2>. QED
    BY <1>1, <1>5, <2>1, RestKeeps DEF ClientVanishes, serverside
<1>. QED
  BY <1>2, <1>3, <1>4, <1>5 DEF ClientStep, Client

-----------------------------------------------------------------------------
(***************************************************************************)
(* The task of ferrite v2.                                                 *)
(***************************************************************************)
LEMMA V2FramedKept ==
  ASSUME V2Framed, UNCHANGED <<sent, arrived, consumed, executed, scanned>>,
         why' = why \/ why' # "line_too_long"
  PROVE  V2Framed'
BY DEF V2Framed

LEMMA WireTypeKept ==
  ASSUME WireTypeOK, UNCHANGED <<sent, eof, gone, unread, arrived, consumed, executed, answers, pending>>,
         reply' \in Int,
         why' \in {"open", "shutdown", "idle", "client", "line_too_long", "slow_reader"}
  PROVE  WireTypeOK'
BY DEF WireTypeOK

\* decode: the line, the limit or the wait for more.
LEMMA V2DecodeKeeps ==
  ASSUME WireTypeOK, V2Inv, V2!Decode
  PROVE  WireTypeOK' /\ V2Inv'
<1>. DEFINE end == NewlineAt(Buffered, scanned + 1)
            n == arrived - consumed
<1>1. /\ sent \in Seq(Byte) /\ Len(sent) \in Nat /\ arrived \in Nat /\ consumed \in Nat
      /\ consumed <= arrived /\ arrived <= Len(sent)
  <2>1. sent \in Seq(Byte) /\ arrived \in 0..Len(sent) /\ consumed \in 0..arrived
    BY DEF WireTypeOK
  <2>. QED
    BY <2>1
<1>0. n \in Nat /\ n <= Len(sent) - consumed /\ MaxLine \in Nat /\ ReadSize \in Nat
  BY <1>1, WireAssumption
<1>2. /\ pc = "decode" /\ why = "open" /\ Settled
      /\ pending # <<>> => ~Unbroken(sent, consumed, n)
  BY DEF V2!Decode, V2Inv, V2Loop
<1>3. /\ UNCHANGED <<sent, eof, gone, unread, arrived, answers, pending>>
  BY DEF V2!Decode, V2!streams
<1>4. scanned \in 0..n /\ Unbroken(sent, consumed, scanned) /\ LinesTo(sent, executed, consumed, MaxLine)
  BY DEF V2Inv, V2Framed
<1>5. /\ Buffered \in Seq(Byte) /\ Len(Buffered) = n
      /\ \A j \in 1..n : Buffered[j] = sent[consumed + j]
  BY BufferedIs
<1>6. V2!NewlineAt(V2!Buffered, scanned + 1) = end /\ V2!Buffered = Buffered
  BY SameWire, SameSearch
<1>7. \/ end = 0 /\ \A j \in scanned + 1 .. n : Buffered[j] # Newline
      \/ /\ end \in scanned + 1 .. n /\ Buffered[end] = Newline
         /\ \A j \in scanned + 1 .. end - 1 : Buffered[j] # Newline
  <2>1. scanned + 1 \in Nat \ {0}
    BY <1>1, <1>4
  <2>. QED
    BY <1>5, <2>1, FirstNewline
<1>8. ASSUME NEW m \in 0..n, \A j \in scanned + 1 .. m : Buffered[j] # Newline
      PROVE  Unbroken(sent, consumed, m)
  <2>. SUFFICES ASSUME NEW j \in consumed + 1 .. consumed + m PROVE sent[j] # Newline
    BY DEF Unbroken
  <2>1. CASE j <= consumed + scanned
    BY <1>1, <1>4, <2>1 DEF Unbroken
  <2>2. CASE j > consumed + scanned
    <3>1. j - consumed \in scanned + 1 .. m /\ j - consumed \in 1..n
      BY <1>1, <1>4, <2>2
    <3>2. Buffered[j - consumed] = sent[consumed + (j - consumed)]
      BY <1>5, <3>1
    <3>3. consumed + (j - consumed) = j
      BY <1>1
    <3>. QED
      BY <1>8, <3>1, <3>2, <3>3
  <2>. QED
    BY <1>1, <1>4, <2>1, <2>2
<1>a. n = arrived - consumed
  OBVIOUS
<1>. HIDE DEF end, n
<1>9. ASSUME reply' = LineTooLong, why' = "line_too_long", pc' = "feed",
             UNCHANGED <<consumed, executed>>,
             NEW sc \in 0..n, scanned' = sc, Unbroken(sent, consumed, sc),
             MaxLine + 1 <= n, Unbroken(sent, consumed, MaxLine + 1)
      PROVE  WireTypeOK' /\ V2Inv'
  <2>a. reply' = LineTooLong
    BY <1>9
  <2>b. MaxLine + 1 <= n
    BY <1>9
  <2>0. reply' \in Int /\ reply' \in {LineTooLong, ShuttingDown}
    BY <2>a DEF LineTooLong
  <2>1. WireTypeOK'
    BY <1>3, <1>9, <2>0, WireTypeKept
  <2>2. Owed'
    BY <1>2, <1>3, <1>9, OwedAfterLine
  <2>3. consumed + (MaxLine + 1) <= Len(sent)
    BY <1>0, <1>1, <1>a, <2>b
  <2>4. V2Framed'
    BY <1>3, <1>9, <1>a, <2>3 DEF V2Inv, V2Framed
  <2>5. V2Loop'
    BY <1>9 DEF V2Loop
  <2>. QED
    BY <1>9, <2>1, <2>2, <2>4, <2>5 DEF V2Inv
<1>10. CASE end # 0 /\ end - 1 > MaxLine
  <2>1. scanned' = 0 /\ V2!TooLong
    BY <1>6, <1>10 DEF V2!Decode
  <2>2. /\ reply' = LineTooLong /\ why' = "line_too_long" /\ pc' = "feed"
        /\ UNCHANGED <<consumed, executed>>
    BY <2>1 DEF V2!TooLong, V2!LineTooLong, LineTooLong
  <2>3. end - 1 \in 0..n /\ MaxLine + 1 <= end - 1 /\ MaxLine \in Nat
    BY <1>0, <1>4, <1>7, <1>10
  <2>4. Unbroken(sent, consumed, end - 1)
    BY <1>7, <1>8, <1>10, <2>3
  <2>5. Unbroken(sent, consumed, MaxLine + 1) /\ Unbroken(sent, consumed, 0)
    BY <1>1, <2>3, <2>4 DEF Unbroken
  <2>6. MaxLine + 1 <= n /\ 0 \in 0..n
    BY <1>0, <2>3
  <2>. QED
    BY <1>9, <2>1, <2>2, <2>5, <2>6
<1>11. CASE end # 0 /\ ~(end - 1 > MaxLine)
  <2>1. scanned' = 0 /\ V2!TakeLine(end)
    BY <1>6, <1>11 DEF V2!Decode
  <2>2. /\ consumed' = consumed + end
        /\ executed' = Append(executed, SubSeq(Buffered, 1, end - 1))
        /\ reply' = Len(executed) + 1 /\ pc' = "feed" /\ why' = why
    BY <1>6, <2>1 DEF V2!TakeLine
  <2>3. end \in 1..n /\ end - 1 \in 0..n /\ end - 1 <= MaxLine /\ MaxLine \in Nat
    BY <1>0, <1>4, <1>7, <1>11
  <2>4. Unbroken(sent, consumed, end - 1)
    BY <1>7, <1>8, <1>11, <2>3
  <2>5. sent[consumed + end] = Newline /\ arrived \in consumed..Len(sent)
    BY <1>1, <1>5, <1>7, <1>11, <1>a, <2>3
  <2>6. LinesTo(sent, Append(executed, SubSeq(SubSeq(sent, consumed + 1, arrived), 1, end - 1)),
                consumed + end, MaxLine)
    <3>. QED
      BY <1>1, <1>4, <1>a, <2>3, <2>4, <2>5, LineTaken
  <2>8. LinesTo(sent, executed', consumed', MaxLine)
    BY <2>2, <2>6 DEF Buffered
  <2>9. consumed' \in 0..arrived /\ 0 \in 0..(arrived - consumed')
    BY <1>1, <1>a, <2>2, <2>3
  <2>10. executed' \in Seq(Seq(Byte)) /\ reply' \in Int
    <3>1. executed \in Seq(Seq(Byte))
      BY DEF WireTypeOK
    <3>2. Len(executed) + 1 \in Int
      BY <3>1
    <3>. QED
      BY <2>2, <2>8, <3>2 DEF LinesTo
  <2>11. WireTypeOK'
    BY <1>2, <1>3, <2>2, <2>9, <2>10 DEF WireTypeOK
  <2>12. Owed'
    BY <1>2, <1>3, <2>2, OwedAfterLine
  <2>13. V2Framed'
    <3>1. Unbroken(sent, consumed + end, 0)
      BY <1>1, <2>3 DEF Unbroken
    <3>a. arrived - consumed <= MaxLine + ReadSize
      BY DEF V2Inv, V2Framed
    <3>2. arrived - (consumed + end) <= MaxLine + ReadSize
      BY <1>0, <1>1, <2>3, <3>a
    <3>. QED
      BY <1>2, <1>3, <2>1, <2>2, <2>8, <2>9, <3>1, <3>2 DEF V2Framed
  <2>14. V2Loop'
    BY <2>2 DEF V2Loop
  <2>. QED
    BY <2>2, <2>11, <2>12, <2>13, <2>14 DEF V2Inv
<1>12. CASE end = 0
  <2>1. Unbroken(sent, consumed, n) /\ pending = <<>>
    <3>1. \A j \in scanned + 1 .. n : Buffered[j] # Newline
      BY <1>4, <1>7, <1>12
    <3>2. n \in 0..n
      BY <1>0
    <3>3. Unbroken(sent, consumed, n)
      BY <1>8, <3>1, <3>2
    <3>. QED
      BY <1>2, <3>3
  <2>2. CASE n > MaxLine
    <3>0. Len(V2!Buffered) = n /\ ~(n <= MaxLine)
      BY <1>0, <1>5, <1>6, <2>2
    <3>1. V2!TooLong /\ scanned' = scanned
      BY <1>6, <1>12, <2>2, <3>0 DEF V2!Decode
    <3>2. /\ reply' = LineTooLong /\ why' = "line_too_long" /\ pc' = "feed"
          /\ UNCHANGED <<consumed, executed>>
      BY <3>1 DEF V2!TooLong, V2!LineTooLong, LineTooLong
    <3>3. MaxLine + 1 <= n
      BY <1>0, <2>2
    <3>4. Unbroken(sent, consumed, MaxLine + 1)
      BY <1>0, <1>1, <2>1, <3>3 DEF Unbroken
    <3>. QED
      BY <1>4, <1>9, <3>1, <3>2, <3>3, <3>4
  <2>3. CASE n <= MaxLine
    <3>1. /\ scanned' = n /\ pc' = "read"
          /\ UNCHANGED <<consumed, executed, reply, why>>
      BY <1>1, <1>5, <1>6, <1>12, <2>3, WireAssumption DEF V2!Decode
    <3>2. WireTypeOK'
      BY <1>3, <3>1, WireTypeKept DEF WireTypeOK
    <3>3. Settled'
      BY <1>2, <1>3, <3>1, WrittenSame, SettledKept DEF Settled
    <3>4. scanned' \in 0..n
      BY <1>0, <3>1
    <3>5. V2Framed'
      BY <1>2, <1>3, <2>1, <3>1, <3>4, <1>a DEF V2Inv, V2Framed
    <3>6. V2Loop'
      BY <1>2, <1>3, <1>a, <2>1, <2>3, <3>1 DEF V2Loop
    <3>. QED
      BY <3>1, <3>2, <3>3, <3>5, <3>6 DEF V2Inv
  <2>. QED
    BY <1>0, <2>2, <2>3
<1>. QED
  BY <1>10, <1>11, <1>12

\* A read adds at most ReadSize bytes to a buffer that holds no whole line.
LEMMA V2ReadKeeps ==
  ASSUME WireTypeOK, V2Inv, V2!Read
  PROVE  WireTypeOK' /\ V2Inv'
<1>1. /\ sent \in Seq(Byte) /\ Len(sent) \in Nat /\ arrived \in Nat /\ consumed \in Nat
      /\ consumed <= arrived /\ arrived <= Len(sent)
  <2>1. sent \in Seq(Byte) /\ arrived \in 0..Len(sent) /\ consumed \in 0..arrived
    BY DEF WireTypeOK
  <2>. QED
    BY <2>1
<1>2. /\ pc = "read" /\ pc' = "decode"
      /\ UNCHANGED <<sent, eof, gone, unread, consumed, executed, answers, pending,
                     reply, why, stop, scanned>>
  BY DEF V2!Read
<1>3. why = "open" /\ pending = <<>> /\ arrived - consumed <= MaxLine /\ Settled
  BY <1>2 DEF V2Inv, V2Loop
<1>4. PICK n \in 1..ReadSize : arrived + n <= Len(sent) /\ arrived' = arrived + n
  BY SameWire DEF V2!Read, Arrival
<1>5. MaxLine \in Nat /\ ReadSize \in Nat
  BY WireAssumption
<1>6. /\ arrived + n \in 0..Len(sent) /\ consumed \in 0..(arrived + n)
      /\ arrived + n - consumed <= MaxLine + ReadSize
  BY <1>1, <1>3, <1>4, <1>5
<1>7. WireTypeOK'
  BY <1>2, <1>4, <1>6 DEF WireTypeOK
<1>8. V2Framed'
  <2>1. /\ LinesTo(sent, executed, consumed, MaxLine)
        /\ scanned \in 0..(arrived - consumed) /\ Unbroken(sent, consumed, scanned)
    BY DEF V2Inv, V2Framed
  <2>2. scanned \in 0..(arrived + n - consumed)
    BY <1>1, <1>4, <1>5, <2>1
  <2>3. LinesTo(sent', executed', consumed', MaxLine) /\ Unbroken(sent', consumed', scanned')
    BY <1>2, <2>1
  <2>a. PICK a, c, m : a = arrived' /\ c = consumed' /\ m = scanned'
    OBVIOUS
  <2>b. a = arrived + n /\ c = consumed /\ m = scanned
    BY <1>2, <1>4, <2>a
  <2>c. m \in 0..(a - c) /\ a - c <= MaxLine + ReadSize
    BY <1>1, <1>4, <1>5, <1>6, <2>2, <2>b
  <2>4. scanned' \in 0..(arrived' - consumed')
    BY <2>a, <2>c
  <2>5. arrived' - consumed' <= MaxLine + ReadSize
    BY <2>a, <2>c
  <2>6. why' # "line_too_long"
    BY <1>2, <1>3
  <2>. QED
    BY <2>3, <2>4, <2>5, <2>6 DEF V2Framed
<1>9. V2Loop'
  BY <1>2, <1>3 DEF V2Loop
<1>10. Settled'
  BY <1>2, <1>3, WrittenSame, SettledKept DEF Settled
<1>. QED
  BY <1>2, <1>7, <1>8, <1>9, <1>10 DEF V2Inv

\* The reply to a line is flushed unless a whole line waits behind it.
LEMMA V2FeedKeeps ==
  ASSUME WireTypeOK, V2Inv, V2!Feed
  PROVE  WireTypeOK' /\ V2Inv'
<1>1. /\ pc = "feed" /\ scanned' = scanned
      /\ BufferReply(Len(pending) >= MaxUnflushed, V2!AfterFeed)
  BY SameReply DEF V2!Feed
<1>2. Owed
  BY <1>1 DEF V2Inv
<1>3. WireTypeOK' /\ ((pc' = "make_room" /\ Owed') \/ (pc' = V2!AfterFeed /\ Settled'))
  BY <1>1, <1>2, ReplyBuffered
<1>4. UNCHANGED <<sent, arrived, consumed, executed, why>>
  BY <1>1 DEF BufferReply
<1>5. V2Framed'
  BY <1>1, <1>4, V2FramedKept DEF V2Inv
<1>6. /\ V2!AfterFeed \in {"last_flush", "stop?", "flush"}
      /\ V2!AfterFeed = "last_flush" <=> why # "open"
      /\ V2!AfterFeed = "stop?" => V2!MoreWaiting
  BY DEF V2!AfterFeed
<1>7. V2!MoreWaiting => ~Unbroken(sent, consumed, arrived - consumed)
  <2>1. HAVE V2!MoreWaiting
  <2>2. NewlineAt(Buffered, 1) # 0
    BY <2>1, SameWire, SameSearch DEF V2!MoreWaiting
  <2>3. /\ Buffered \in Seq(Byte) /\ Len(Buffered) = arrived - consumed
        /\ \A j \in 1..(arrived - consumed) : Buffered[j] = sent[consumed + j]
    BY BufferedIs
  <2>4. PICK j \in 1..Len(Buffered) : Buffered[j] = Newline
    BY <2>2, <2>3, FirstNewline
  <2>5. consumed \in Nat /\ arrived \in Int
    <3>1. sent \in Seq(Byte) /\ arrived \in 0..Len(sent) /\ consumed \in 0..arrived
      BY DEF WireTypeOK
    <3>. QED
      BY <3>1
  <2>6. /\ consumed + j \in consumed + 1 .. consumed + (arrived - consumed)
        /\ sent[consumed + j] = Newline
    BY <2>3, <2>4, <2>5
  <2>. QED
    BY <2>6 DEF Unbroken
<1>8. V2Loop'
  BY <1>3, <1>4, <1>6, <1>7 DEF V2Loop
<1>. QED
  BY <1>3, <1>5, <1>6, <1>8 DEF V2Inv

\* The steps of the task keep its invariant.
LEMMA V2Keeps ==
  ASSUME WireTypeOK, V2Inv, V2!Server \/ V2!IdleTimeout \/ V2!Cancel
  PROVE  WireTypeOK' /\ V2Inv'
<1>. DEFINE Good == WireTypeOK' /\ V2Inv'
<1>a. reply \in Int /\ why \in {"open", "shutdown", "idle", "client", "line_too_long", "slow_reader"}
  BY DEF WireTypeOK
<1>b. V2Loop /\ V2Framed
  BY DEF V2Inv
<1>1. ASSUME V2!CheckStop PROVE Good
  <2>1. /\ pc = "stop?" /\ UNCHANGED <<sent, eof, gone, unread, arrived, consumed, executed, answers,
                                       pending, scanned>>
    BY <1>1 DEF V2!CheckStop, V2!streams
  <2>2. why = "open" /\ Settled
    BY <2>1 DEF V2Inv, V2Loop
  <2>3. CASE pc' = "feed" /\ reply' = ShuttingDown /\ why' = "shutdown"
    <3>1. WireTypeOK'
      BY <2>1, <2>3, WireTypeKept DEF ShuttingDown
    <3>2. Owed'
      BY <2>1, <2>2, <2>3, OwedAfterLine
    <3>3. V2Framed'
      BY <1>b, <2>1, <2>3, V2FramedKept
    <3>4. V2Loop'
      BY <2>1, <2>3 DEF V2Loop
    <3>. QED
      BY <2>3, <3>1, <3>2, <3>3, <3>4 DEF V2Inv
  <2>4. CASE pc' = "decode" /\ UNCHANGED <<reply, why>>
    <3>1. WireTypeOK'
      BY <1>a, <2>1, <2>4, WireTypeKept
    <3>2. Settled'
      BY <2>1, <2>2, <2>4, WrittenSame, SettledKept DEF Settled
    <3>3. V2Framed'
      BY <1>b, <2>1, <2>4, V2FramedKept
    <3>4. V2Loop'
      BY <1>b, <2>1, <2>2, <2>4 DEF V2Loop
    <3>. QED
      BY <2>4, <3>1, <3>2, <3>3, <3>4 DEF V2Inv
  <2>. QED
    BY <1>1, <2>3, <2>4 DEF V2!CheckStop, V2!ShuttingDown, ShuttingDown
<1>2. ASSUME V2!WokenByStop PROVE Good
  <2>1. /\ pc = "read" /\ pc' = "stop?"
        /\ UNCHANGED <<sent, eof, gone, unread, arrived, consumed, executed, answers, pending,
                       reply, why, scanned>>
    BY <1>2 DEF V2!WokenByStop, V2!streams
  <2>2. why = "open" /\ pending = <<>> /\ Settled
    BY <2>1 DEF V2Inv, V2Loop
  <2>3. WireTypeOK'
    BY <1>a, <2>1, WireTypeKept
  <2>4. Settled'
    BY <2>1, <2>2, WrittenSame, SettledKept DEF Settled
  <2>5. V2Framed'
    BY <1>b, <2>1, V2FramedKept
  <2>6. V2Loop'
    BY <2>1, <2>2 DEF V2Loop
  <2>. QED
    BY <2>1, <2>3, <2>4, <2>5, <2>6 DEF V2Inv
<1>3. ASSUME NEW reason \in {"idle", "client", "slow_reader", "shutdown", "line_too_long"},
             pc \in {"read", "make_room", "flush", "last_flush"},
             pc' = "closed", why' = reason, why = "open" \/ reason = why,
             UNCHANGED <<sent, eof, gone, unread, arrived, consumed, executed, answers, pending,
                         reply, scanned>>,
             why = "open" => reason # "line_too_long"
      PROVE  Good
  <2>1. WireTypeOK'
    BY <1>a, <1>3, WireTypeKept
  <2>2. Settled'
    <3>1. CASE why = "open"
      <4>1. Owed \/ Settled
        BY DEF V2Inv
      <4>. QED
        BY <1>3, <3>1, <4>1, SettledClosed
    <3>2. CASE why # "open" /\ pc # "make_room"
      <4>1. Settled /\ why' = why
        BY <1>3, <3>2 DEF V2Inv
      <4>. QED
        BY <1>3, <4>1, WrittenSame, SettledKept DEF Settled
    <3>3. CASE why # "open" /\ pc = "make_room"
      <4>1. Owed
        BY <3>3 DEF V2Inv
      <4>. QED
        BY <1>3, <4>1, SettledClosed
    <3>. QED
      BY <3>1, <3>2, <3>3
  <2>3. V2Framed'
    BY <1>b, <1>3, V2FramedKept
  <2>4. V2Loop'
    BY <1>3 DEF V2Loop
  <2>. QED
    BY <1>3, <2>1, <2>2, <2>3, <2>4 DEF V2Inv
<1>4. ASSUME V2!IdleTimeout PROVE Good
  <2>1. /\ pc = "read" /\ pc' = "closed" /\ why' = "idle" /\ why = "open"
        /\ UNCHANGED <<sent, eof, gone, unread, arrived, consumed, executed, answers, pending,
                       reply, scanned>>
    BY <1>4, <1>b DEF V2!IdleTimeout, V2!Close, V2!streams, V2Loop
  <2>. QED
    BY <1>3, <2>1
<1>5. ASSUME V2!ReadEnds PROVE Good
  <2>1. /\ pc = "read" /\ pc' = "closed" /\ why' = "client" /\ why = "open"
        /\ UNCHANGED <<sent, eof, gone, unread, arrived, consumed, executed, answers, pending,
                       reply, scanned>>
    BY <1>5, <1>b DEF V2!ReadEnds, V2!Close, V2!streams, V2Loop
  <2>. QED
    BY <1>3, <2>1
<1>6. ASSUME V2!WriteFails PROVE Good
  <2>1. /\ pc \in {"make_room", "flush", "last_flush"} /\ pc' = "closed"
        /\ UNCHANGED <<sent, eof, gone, unread, arrived, consumed, executed, answers, pending,
                       reply, scanned>>
    BY <1>6 DEF V2!WriteFails, V2!Flushing, V2!Close, V2!streams
  <2>2. \/ why # "open" /\ why' = why
        \/ why = "open" /\ why' = "client"
        \/ why = "open" /\ why' = "slow_reader"
    BY <1>6 DEF V2!WriteFails, V2!Close
  <2>3. CASE why # "open"
    BY <1>3, <1>a, <2>1, <2>2, <2>3
  <2>4. CASE why = "open"
    BY <1>3, <2>1, <2>2, <2>4
  <2>. QED
    BY <2>3, <2>4
<1>7. ASSUME V2!Write PROVE Good
  <2>1. PutOnSocket /\ scanned' = scanned
    BY <1>7, SameWire DEF V2!Write
  <2>2. /\ pc \in {"make_room", "flush", "last_flush"} /\ pc' = pc
        /\ UNCHANGED <<sent, arrived, consumed, executed, reply, why>>
    BY <2>1 DEF PutOnSocket, Flushing
  <2>3. Len(pending) <= MaxUnflushed
    BY DEF V2Inv, Owed, Settled
  <2>4. WireTypeOK' /\ Written' = Written /\ Len(pending') <= MaxUnflushed
    BY <2>1, <2>3, ReplyMoved
  <2>5. (Owed => Owed') /\ (Settled => Settled')
    BY <2>2, <2>4, OwedKept, SettledKept
  <2>6. V2Framed'
    BY <1>b, <2>1, <2>2, V2FramedKept
  <2>7. V2Loop'
    BY <1>b, <2>2 DEF V2Loop
  <2>. QED
    BY <2>2, <2>4, <2>5, <2>6, <2>7 DEF V2Inv
<1>8. ASSUME V2!FlushDone PROVE Good
  <2>1. /\ pc \in {"make_room", "flush", "last_flush"} /\ pending = <<>>
        /\ UNCHANGED <<sent, eof, gone, unread, arrived, consumed, executed, answers, pending,
                       reply, why, scanned>>
    BY <1>8 DEF V2!FlushDone, V2!Flushing, V2!streams
  <2>2. \/ pc = "make_room" /\ pc' = "feed"
        \/ pc = "flush" /\ pc' = "stop?"
        \/ pc = "last_flush" /\ pc' = "closed"
    BY <1>8, <2>1 DEF V2!FlushDone
  <2>3. WireTypeOK'
    BY <1>a, <2>1, WireTypeKept
  <2>4. (Owed => Owed') /\ (Settled => Settled')
    BY <2>1, WrittenSame, OwedKept, SettledKept DEF Owed, Settled
  <2>5. V2Framed'
    BY <1>b, <2>1, V2FramedKept
  <2>6. V2Loop'
    BY <1>b, <2>1, <2>2 DEF V2Loop
  <2>. QED
    BY <2>2, <2>3, <2>4, <2>5, <2>6 DEF V2Inv
<1>9. ASSUME V2!Cancel PROVE Good
  <2>1. UNCHANGED <<sent, eof, gone, unread, arrived, consumed, executed, answers, pending,
                    reply, why, pc, scanned>>
    BY <1>9 DEF V2!Cancel, V2!wirevars
  <2>2. WireTypeOK'
    BY <1>a, <2>1, WireTypeKept
  <2>3. (Owed => Owed') /\ (Settled => Settled')
    BY <2>1, WrittenSame, OwedKept, SettledKept DEF Owed, Settled
  <2>4. V2Framed' /\ V2Loop'
    BY <1>b, <2>1, V2FramedKept DEF V2Loop
  <2>. QED
    BY <2>1, <2>2, <2>3, <2>4 DEF V2Inv
<1>. QED
  BY <1>1, <1>2, <1>4, <1>5, <1>6, <1>7, <1>8, <1>9, V2ReadKeeps, V2DecodeKeeps, V2FeedKeeps
     DEF V2!Server

-----------------------------------------------------------------------------
(***************************************************************************)
(* The worker of ferrite v1.                                               *)
(***************************************************************************)

\* Two stretches without a newline, one after the other.
LEMMA UnbrokenJoin ==
  ASSUME NEW s, NEW i \in Nat, NEW a \in Nat, NEW c \in Nat, Unbroken(s, i, a),
         \A j \in i + a + 1 .. i + a + c : s[j] # Newline,
         NEW m \in Int, m <= a + c
  PROVE  Unbroken(s, i, m)
BY DEF Unbroken

\* The line under way is refused.
LEMMA V1Refuses ==
  ASSUME WireTypeOK, V1Inv, pc = "read", NEW c \in consumed..arrived, consumed' = c,
         UNCHANGED <<sent, eof, gone, unread, arrived, executed, answers, pending>>,
         scanned' = 0, pc' = "write", reply' = LineTooLong, why' = "line_too_long",
         V1Refused'
  PROVE  WireTypeOK' /\ V1Inv'
<1>1. /\ sent \in Seq(Byte) /\ Len(sent) \in Nat /\ arrived \in Nat /\ consumed \in Nat
      /\ consumed <= arrived /\ arrived <= Len(sent)
  <2>1. sent \in Seq(Byte) /\ arrived \in 0..Len(sent) /\ consumed \in 0..arrived
    BY DEF WireTypeOK
  <2>. QED
    BY <2>1
<1>2. /\ why = "open" /\ Settled /\ scanned \in 0..MaxLine
      /\ scanned + (arrived - consumed) <= MaxLine + ReadSize
  BY DEF V1Inv, V1Loop
<1>3. MaxLine \in Nat /\ ReadSize \in Nat
  BY WireAssumption
<1>4. c \in 0..arrived /\ 0 + (arrived - c) <= MaxLine + ReadSize
  BY <1>1, <1>2, <1>3
<1>5. reply' \in Int /\ reply' \in {LineTooLong, ShuttingDown}
  BY DEF LineTooLong
<1>6. WireTypeOK'
  BY <1>4, <1>5 DEF WireTypeOK
<1>7. Owed'
  BY <1>2, <1>5, OwedAfterLine
<1>8. V1Loop'
  <2>1. 0 \in 0..MaxLine
    BY <1>3
  <2>2. scanned' + (arrived' - consumed') <= MaxLine + ReadSize
    BY <1>4
  <2>. QED
    BY <2>1, <2>2 DEF V1Loop
<1>. QED
  BY <1>6, <1>7, <1>8 DEF V1Inv

\* What read_until returned is executed.
LEMMA V1Executes ==
  ASSUME WireTypeOK, V1Inv, pc = "read", NEW c \in consumed..arrived, consumed' = c,
         NEW line \in Seq(Byte), executed' = Append(executed, line),
         UNCHANGED <<sent, eof, gone, unread, arrived, answers, pending, why>>,
         scanned' = 0, pc' = "write", reply' = Len(executed) + 1,
         V1Between' \/ V1Fragment'
  PROVE  WireTypeOK' /\ V1Inv'
<1>1. /\ sent \in Seq(Byte) /\ Len(sent) \in Nat /\ arrived \in Nat /\ consumed \in Nat
      /\ consumed <= arrived /\ arrived <= Len(sent)
  <2>1. sent \in Seq(Byte) /\ arrived \in 0..Len(sent) /\ consumed \in 0..arrived
    BY DEF WireTypeOK
  <2>. QED
    BY <2>1
<1>2. /\ why = "open" /\ Settled /\ scanned \in 0..MaxLine
      /\ scanned + (arrived - consumed) <= MaxLine + ReadSize
  BY DEF V1Inv, V1Loop
<1>3. MaxLine \in Nat /\ ReadSize \in Nat
  BY WireAssumption
<1>4. c \in 0..arrived /\ 0 + (arrived - c) <= MaxLine + ReadSize
  BY <1>1, <1>2, <1>3
<1>5. executed' \in Seq(Seq(Byte)) /\ reply' \in Int
  <2>1. executed \in Seq(Seq(Byte))
    BY DEF WireTypeOK
  <2>2. Append(executed, line) \in Seq(Seq(Byte)) /\ Len(executed) + 1 \in Int
    BY <2>1
  <2>. QED
    BY <2>2
<1>6. WireTypeOK'
  BY <1>4, <1>5 DEF WireTypeOK
<1>7. Owed'
  BY <1>2, OwedAfterLine
<1>8. V1Loop'
  <2>1. 0 \in 0..MaxLine
    BY <1>3
  <2>2. scanned' + (arrived' - consumed') <= MaxLine + ReadSize
    BY <1>4
  <2>. QED
    BY <2>1, <2>2 DEF V1Loop
<1>. QED
  BY <1>6, <1>7, <1>8 DEF V1Inv

\* The connection ends, or stays what it is.
LEMMA V1Ends ==
  ASSUME WireTypeOK, V1Inv, pc \in {"read", "make_room", "flush", "last_flush"},
         UNCHANGED <<sent, eof, gone, unread, arrived, consumed, executed, answers, pending,
                     reply, scanned>>,
         pc' \in {"last_flush", "closed"},
         NEW reason \in {"idle", "client"}, why' = IF why = "open" THEN reason ELSE why
  PROVE  WireTypeOK' /\ V1Inv'
<1>1. reply \in Int /\ why \in {"open", "shutdown", "idle", "client", "line_too_long", "slow_reader"}
  BY DEF WireTypeOK
<1>2. WireTypeOK'
  BY <1>1, WireTypeKept
<1>3. why' # "open" /\ (why' = why \/ why' # "line_too_long")
  OBVIOUS
<1>4. Settled'
  <2>1. CASE why = "open" \/ pc = "make_room"
    <3>1. Owed \/ (Settled /\ why = "open")
      BY <2>1 DEF V1Inv
    <3>. QED
      BY <1>3, <3>1, SettledClosed
  <2>2. CASE why # "open" /\ pc # "make_room"
    <3>1. Settled /\ why' = why
      BY <2>2 DEF V1Inv
    <3>. QED
      BY <3>1, WrittenSame, SettledKept DEF Settled
  <2>. QED
    BY <2>1, <2>2
<1>5. V1Between' \/ V1Fragment' \/ V1Refused'
  <2>1. V1Between \/ V1Fragment \/ V1Refused
    BY DEF V1Inv
  <2>2. V1Between => V1Between'
    BY <1>3 DEF V1Between
  <2>3. V1Fragment => V1Fragment'
    BY <1>3 DEF V1Fragment
  <2>4. V1Refused => V1Refused'
    BY DEF V1Refused
  <2>. QED
    BY <2>1, <2>2, <2>3, <2>4
<1>6. V1Loop'
  BY <1>3 DEF V1Inv, V1Loop
<1>. QED
  BY <1>2, <1>4, <1>5, <1>6 DEF V1Inv

\* A line without its terminator.
LEMMA CutLast ==
  ASSUME NEW s \in Seq(Byte), NEW i \in Nat, NEW j \in i + 1 .. Len(s)
  PROVE  /\ SubSeq(s, i + 1, j) \in Seq(Byte)
         /\ V1!Last(SubSeq(s, i + 1, j)) = s[j]
         /\ V1!Front(SubSeq(s, i + 1, j)) = SubSeq(s, i + 1, j - 1)
<1>. DEFINE t == SubSeq(s, i + 1, j)
<1>1. t \in Seq(Byte) /\ Len(t) = j - i /\ \A k \in 1..(j - i) : t[k] = s[i + k]
  OBVIOUS
<1>2. t[j - i] = s[j]
  BY <1>1
<1>3. SubSeq(t, 1, j - i - 1) = SubSeq(s, i + 1, j - 1)
  <2>1. j \in i..Len(s) /\ j - i - 1 \in 0..(j - i) /\ i + (j - i - 1) = j - 1
    OBVIOUS
  <2>. QED
    BY <2>1, BytesTaken
<1>. QED
  BY <1>1, <1>2, <1>3 DEF V1!Last, V1!Front

\* read_until: the line, the limit, or all there is.
LEMMA V1ReadKeeps ==
  ASSUME WireTypeOK, V1Inv, V1!ReadUntil, UNCHANGED stop
  PROVE  WireTypeOK' /\ V1Inv'
<1>. DEFINE end == NewlineAt(Buffered, 1)
            n == arrived - consumed
            start == consumed - scanned
            allowed == MaxLine + 1 - scanned
<1>1. /\ sent \in Seq(Byte) /\ Len(sent) \in Nat /\ arrived \in Nat /\ consumed \in Nat
      /\ consumed <= arrived /\ arrived <= Len(sent)
  <2>1. sent \in Seq(Byte) /\ arrived \in 0..Len(sent) /\ consumed \in 0..arrived
    BY DEF WireTypeOK
  <2>. QED
    BY <2>1
<1>2. /\ Buffered \in Seq(Byte) /\ Len(Buffered) = n
      /\ \A j \in 1..n : Buffered[j] = sent[consumed + j]
      /\ Buffered = <<>> <=> arrived = consumed
  BY BufferedIs
<1>3. /\ V1!Buffered = Buffered /\ V1!NewlineAt(Buffered, 1) = end /\ V1!Allowed = allowed
      /\ V1!Newline = Newline /\ V1!LineTooLong = LineTooLong
  BY SameWire, SameSearch DEF V1!Allowed, V1!Newline, Newline, V1!LineTooLong, LineTooLong
<1>4. /\ pc = "read" /\ Buffered # <<>>
      /\ UNCHANGED <<sent, eof, gone, unread, arrived, answers, pending>>
  BY <1>3 DEF V1!ReadUntil, V1!streams
<1>5. /\ why = "open" /\ Settled /\ scanned \in 0..MaxLine
      /\ scanned + (arrived - consumed) <= MaxLine + ReadSize
  BY <1>4 DEF V1Inv, V1Loop
<1>6. V1Between
  <2>1. consumed # Len(sent)
    BY <1>1, <1>2, <1>4
  <2>. QED
    BY <1>4, <2>1 DEF V1Inv, V1Fragment, V1Refused
<1>7. MaxLine \in Nat /\ ReadSize \in Nat
  BY WireAssumption
<1>8. /\ scanned <= consumed /\ LinesTo(sent, executed, start, MaxLine - 1)
      /\ Unbroken(sent, start, scanned)
  BY <1>6 DEF V1Between
<1>9. /\ start \in Nat /\ start + scanned = consumed /\ n \in Nat \ {0} /\ n <= Len(sent) - consumed
      /\ arrived = consumed + n /\ scanned \in Nat /\ allowed \in Nat \ {0}
      /\ scanned + allowed = MaxLine + 1
  BY <1>1, <1>2, <1>4, <1>5, <1>7, <1>8
<1>10. \/ end = 0 /\ \A j \in 1..n : Buffered[j] # Newline
       \/ /\ end \in 1..n /\ Buffered[end] = Newline
          /\ \A j \in 1..(end - 1) : Buffered[j] # Newline
  BY <1>2, FirstNewline
<1>. HIDE DEF end, n, start, allowed
<1>11. ASSUME NEW m \in 0..n, \A j \in 1..m : Buffered[j] # Newline, NEW l \in Int, l <= scanned + m
       PROVE  Unbroken(sent, start, l)
  <2>1. \A j \in start + scanned + 1 .. start + scanned + m : sent[j] # Newline
    <3>. SUFFICES ASSUME NEW j \in consumed + 1 .. consumed + m PROVE sent[j] # Newline
      BY <1>9
    <3>1. j - consumed \in 1..m /\ j - consumed \in 1..n /\ consumed + (j - consumed) = j
      BY <1>1, <1>9, <1>11
    <3>. QED
      BY <1>2, <1>11, <3>1
  <2>2. m \in Nat
    BY <1>9, <1>11
  <2>. QED
    BY <1>8, <1>9, <1>11, <2>1, <2>2, UnbrokenJoin
<1>12. ASSUME NEW e \in 1..n, e = allowed, consumed' = consumed + e, V1!HandleLine(scanned + e),
              \A j \in 1..(e - 1) : Buffered[j] # Newline
       PROVE  WireTypeOK' /\ V1Inv'
  <2>a. e = allowed
    BY <1>12
  <2>1. scanned + e > MaxLine
    BY <1>7, <1>9, <2>a
  <2>2. /\ scanned' = 0 /\ pc' = "write" /\ reply' = LineTooLong /\ why' = "line_too_long"
        /\ UNCHANGED executed
    BY <1>3, <1>12, <2>1 DEF V1!HandleLine
  <2>3. consumed + e \in consumed..arrived
    BY <1>1, <1>9
  <2>4. Unbroken(sent, start, MaxLine)
    <3>1. e - 1 \in 0..n /\ MaxLine \in Int /\ MaxLine <= scanned + (e - 1)
      BY <1>7, <1>9, <2>a
    <3>. QED
      BY <1>11, <1>12, <3>1
  <2>5. start \in 0..Len(sent) /\ start + MaxLine <= Len(sent)
    BY <1>1, <1>7, <1>9, <2>a
  <2>6. V1Refused'
    BY <1>4, <1>8, <2>2, <2>4, <2>5 DEF V1Refused
  <2>. QED
    BY <1>4, <1>12, <2>2, <2>3, <2>6, V1Refuses
<1>13. CASE end \in 1..allowed /\ scanned + end <= MaxLine
  <2>a. end \in 1..n /\ Buffered[end] = Newline /\ \A j \in 1..(end - 1) : Buffered[j] # Newline
    BY <1>10, <1>13
  <2>b. scanned + end <= MaxLine
    BY <1>13
  <2>1. consumed' = consumed + end /\ V1!HandleLine(scanned + end)
    BY <1>3, <1>10, <1>13 DEF V1!ReadUntil
  <2>. DEFINE stop1 == consumed + end
              line == SubSeq(sent, start + 1, stop1)
  <2>2. stop1 - (scanned + end) = start /\ stop1 \in start + 1 .. Len(sent) /\ stop1 \in consumed..arrived
    BY <1>1, <1>9, <2>a
  <2>3. sent[stop1] = Newline
    BY <1>2, <2>a
  <2>4. V1!Last(line) = Newline /\ V1!Front(line) = SubSeq(sent, start + 1, stop1 - 1)
    BY <1>1, <1>9, <2>2, <2>3, CutLast
  <2>5. /\ scanned' = 0 /\ pc' = "write" /\ why' = why
        /\ executed' = Append(executed, SubSeq(sent, start + 1, stop1 - 1))
        /\ reply' = Len(executed) + 1
    <3>1. consumed' = stop1 /\ sent' = sent /\ ~(scanned + end > MaxLine)
      BY <1>4, <1>7, <1>9, <2>1, <2>a, <2>b
    <3>2. SubSeq(sent, consumed' - (scanned + end) + 1, consumed') = line
      BY <2>2, <3>1
    <3>. HIDE DEF line, stop1
    <3>. QED
      BY <1>3, <2>1, <2>4, <3>1, <3>2 DEF V1!HandleLine
  <2>6. Unbroken(sent, start, stop1 - 1 - start)
    <3>1. end - 1 \in 0..n /\ stop1 - 1 - start \in Int /\ stop1 - 1 - start <= scanned + (end - 1)
      BY <1>1, <1>9, <2>a
    <3>. QED
      BY <1>11, <2>a, <3>1
  <2>7. stop1 - 1 - start <= MaxLine - 1
    BY <1>1, <1>7, <1>9, <2>a, <2>b
  <2>. HIDE DEF stop1, line
  <2>8. LinesTo(sent, Append(executed, SubSeq(sent, start + 1, stop1 - 1)), stop1, MaxLine - 1)
    BY <1>1, <1>8, <1>9, <2>2, <2>3, <2>6, <2>7, LinesAdvance
  <2>9. V1Between'
    <3>1. PICK c \in Nat : c = stop1
      BY <1>1, <2>2
    <3>2. consumed' = c /\ c - 0 = c /\ 0 <= c /\ Unbroken(sent, c, 0)
      BY <2>1, <3>1 DEF stop1, Unbroken
    <3>3. LinesTo(sent', executed', consumed' - scanned', MaxLine - 1)
      BY <1>4, <2>5, <2>8, <3>1, <3>2
    <3>4. Unbroken(sent', consumed' - scanned', scanned')
      BY <1>4, <2>5, <3>2
    <3>. QED
      BY <1>5, <2>5, <3>2, <3>3, <3>4 DEF V1Between
  <2>10. SubSeq(sent, start + 1, stop1 - 1) \in Seq(Byte)
    BY <1>1, <1>9, <2>2
  <2>. QED
    BY <1>4, <2>1, <2>2, <2>5, <2>9, <2>10, V1Executes DEF stop1
<1>14. CASE end \in 1..allowed /\ ~(scanned + end <= MaxLine)
  <2>1. end = allowed /\ end \in 1..n /\ \A j \in 1..(end - 1) : Buffered[j] # Newline
    <3>1. end \in 1..n /\ \A j \in 1..(end - 1) : Buffered[j] # Newline
      BY <1>10, <1>14
    <3>2. end = allowed
      BY <1>7, <1>9, <1>14
    <3>. QED
      BY <3>1, <3>2
  <2>2. consumed' = consumed + end /\ V1!HandleLine(scanned + end)
    BY <1>3, <1>10, <1>14 DEF V1!ReadUntil
  <2>. QED
    BY <1>12, <2>1, <2>2
<1>15. CASE end \notin 1..allowed /\ n >= allowed
  <2>1. allowed \in 1..n /\ \A j \in 1..(allowed - 1) : Buffered[j] # Newline
    BY <1>9, <1>10, <1>15
  <2>2. consumed' = consumed + allowed /\ V1!HandleLine(scanned + allowed)
    BY <1>2, <1>3, <1>9, <1>15 DEF V1!ReadUntil
  <2>. QED
    BY <1>12, <2>1, <2>2
<1>16. CASE end = 0 /\ n < allowed
  <2>1. /\ consumed' = consumed + n /\ scanned' = scanned + n
        /\ UNCHANGED <<executed, reply, why, pc>>
    BY <1>2, <1>3, <1>9, <1>16 DEF V1!ReadUntil
  <2>2. PICK c \in Nat, t \in Nat : c = consumed + n /\ t = scanned + n
    BY <1>1, <1>9
  <2>3. Unbroken(sent, start, t)
    <3>1. n \in 0..n /\ t <= scanned + n
      BY <1>9, <2>2
    <3>2. \A j \in 1..n : Buffered[j] # Newline
      BY <1>9, <1>10, <1>16
    <3>. QED
      BY <1>11, <3>1, <3>2
  <2>4. consumed' = c /\ scanned' = t
    BY <2>1, <2>2
  <2>5. /\ c \in 0..arrived /\ t \in 0..MaxLine /\ t > 0 /\ t <= c /\ c - t = start
        /\ t + (arrived - c) <= MaxLine + ReadSize
    BY <1>1, <1>5, <1>7, <1>8, <1>9, <1>16, <2>2
  <2>6. WireTypeOK'
    BY <1>4, <2>1, <2>4, <2>5 DEF WireTypeOK
  <2>7. V1Between'
    <3>1. LinesTo(sent, executed, c - t, MaxLine - 1) /\ Unbroken(sent, c - t, t)
      BY <1>8, <2>3, <2>5
    <3>. QED
      BY <1>4, <1>5, <2>1, <2>4, <2>5, <3>1 DEF V1Between
  <2>8. Settled'
    BY <1>4, <1>5, <2>1, WrittenSame, SettledKept DEF Settled
  <2>9. V1Loop'
    BY <1>4, <1>5, <2>1, <2>4, <2>5 DEF V1Loop
  <2>. QED
    BY <1>4, <2>1, <2>6, <2>7, <2>8, <2>9 DEF V1Inv
<1>. QED
  <2>1. end \in 1..allowed \/ (end \notin 1..allowed /\ n >= allowed) \/ (end = 0 /\ n < allowed)
    BY <1>3, <1>2, <1>9, <1>10
  <2>. QED
    BY <1>13, <1>14, <1>15, <1>16, <2>1

\* The last element of a sequence, and what comes before it.
LEMMA AppendEnds ==
  ASSUME NEW S, NEW e \in Seq(S), NEW x \in S
  PROVE  Append(e, x) # <<>> /\ Front(Append(e, x)) = e /\ Last(Append(e, x)) = x
<1>. DEFINE f == Append(e, x)
<1>1. f \in Seq(S) /\ Len(f) = Len(e) + 1 /\ f[Len(e) + 1] = x /\ \A k \in 1..Len(e) : f[k] = e[k]
  OBVIOUS
<1>. HIDE DEF f
<1>2. Len(e) \in Nat /\ Len(f) - 1 = Len(e) /\ Len(f) # 0
  BY <1>1
<1>3. f # <<>> /\ f[Len(f)] = x
  BY <1>1, <1>2
<1>4. SubSeq(f, 1, Len(e)) = e
  <2>1. Len(e) \in 0..Len(f)
    BY <1>1, <1>2
  <2>2. /\ SubSeq(f, 1, Len(e)) \in Seq(S) /\ Len(SubSeq(f, 1, Len(e))) = Len(e)
        /\ \A k \in 1..Len(e) : SubSeq(f, 1, Len(e))[k] = f[k]
    BY <1>1, <1>2, <2>1
  <2>. QED
    BY <1>1, <2>2
<1>5. Front(f) = e /\ Last(f) = x
  BY <1>2, <1>3, <1>4 DEF Front, Last
<1>. QED
  BY <1>3, <1>5 DEF f

LEMMA FrontLast ==
  ASSUME NEW S, NEW f \in Seq(S), f # <<>>
  PROVE  /\ f = Append(Front(f), Last(f))
         /\ Len(Front(f)) = Len(f) - 1 /\ \A k \in 1..(Len(f) - 1) : Front(f)[k] = f[k]
<1>1. Len(f) \in Nat /\ Len(f) # 0
  OBVIOUS
<1>2. PICK n \in Nat : Len(f) = n + 1 /\ Len(f) - 1 = n
  BY <1>1
<1>3. Front(f) = SubSeq(f, 1, n) /\ Last(f) = f[n + 1]
  BY <1>2 DEF Front, Last
<1>4. /\ SubSeq(f, 1, n) \in Seq(S) /\ Len(SubSeq(f, 1, n)) = n
      /\ \A k \in 1..n : SubSeq(f, 1, n)[k] = f[k]
  BY <1>2
<1>5. f[n + 1] \in S
  BY <1>2
<1>6. f = Append(SubSeq(f, 1, n), f[n + 1])
  BY <1>2, <1>4, <1>5
<1>. QED
  BY <1>2, <1>3, <1>4, <1>6

\* At the end of the stream, what read_until has is handled like a line.
LEMMA V1EofKeeps ==
  ASSUME WireTypeOK, V1Inv, V1!ReadEof, UNCHANGED stop
  PROVE  WireTypeOK' /\ V1Inv'
<1>1. /\ sent \in Seq(Byte) /\ Len(sent) \in Nat /\ arrived \in Nat /\ consumed \in Nat
      /\ consumed <= arrived /\ arrived <= Len(sent)
  <2>1. sent \in Seq(Byte) /\ arrived \in 0..Len(sent) /\ consumed \in 0..arrived
    BY DEF WireTypeOK
  <2>. QED
    BY <2>1
<1>2. pc = "read" /\ Buffered = <<>> /\ eof /\ arrived = Len(sent)
  BY SameWire DEF V1!ReadEof, EndOfStream
<1>3. consumed = Len(sent)
  BY <1>1, <1>2, BufferedIs
<1>4. /\ why = "open" /\ Settled /\ scanned \in 0..MaxLine
  BY <1>2 DEF V1Inv, V1Loop
<1>5. CASE scanned = 0
  <2>1. /\ pc' = "last_flush" /\ why' = "client"
        /\ UNCHANGED <<sent, eof, gone, unread, arrived, consumed, executed, answers, pending,
                       reply, scanned>>
    BY <1>5 DEF V1!ReadEof, V1!Return, V1!streams
  <2>. QED
    BY <1>2, <1>4, <2>1, V1Ends
<1>6. CASE scanned # 0
  <2>1. /\ V1!HandleLine(scanned)
        /\ UNCHANGED <<sent, eof, gone, unread, arrived, consumed, answers, pending>>
    BY <1>6 DEF V1!ReadEof, V1!streams
  <2>2. V1Between
    BY <1>2, <1>6 DEF V1Inv, V1Fragment, V1Refused
  <2>3. /\ MaxLine \in Nat /\ scanned \in Nat /\ scanned > 0 /\ ~(scanned > MaxLine)
    BY <1>4, <1>6, WireAssumption
  <2>4. /\ scanned <= consumed /\ LinesTo(sent, executed, consumed - scanned, MaxLine - 1)
        /\ Unbroken(sent, consumed - scanned, scanned)
    BY <2>2 DEF V1Between
  <2>5. PICK i \in Nat : i = consumed - scanned
    BY <1>1, <2>3, <2>4
  <2>6. /\ consumed \in i + 1 .. Len(sent) /\ i \in 0..Len(sent) /\ i < Len(sent)
        /\ scanned = Len(sent) - i /\ i + scanned = consumed
    BY <1>1, <1>3, <2>3, <2>4, <2>5
  <2>. DEFINE line == SubSeq(sent, i + 1, consumed)
  <2>7. line \in Seq(Byte) /\ V1!Last(line) = sent[consumed]
    BY <1>1, <2>6, CutLast
  <2>8. sent[consumed] # Newline
    BY <1>1, <2>3, <2>4, <2>5, <2>6 DEF Unbroken
  <2>9. /\ scanned' = 0 /\ pc' = "write" /\ why' = why
        /\ executed' = Append(executed, line) /\ reply' = Len(executed) + 1
    <3>1. SubSeq(sent, consumed' - scanned + 1, consumed') = line
      BY <2>1, <2>5
    <3>2. V1!Newline = Newline
      BY DEF V1!Newline, Newline
    <3>. HIDE DEF line
    <3>. QED
      BY <2>1, <2>3, <2>7, <2>8, <3>1, <3>2 DEF V1!HandleLine
  <2>10. V1Fragment'
    <3>1. executed \in Seq(Seq(Byte))
      BY DEF WireTypeOK
    <3>2. /\ Append(executed, line) # <<>>
          /\ Front(Append(executed, line)) = executed
          /\ Last(Append(executed, line)) = line
      BY <2>7, <3>1, AppendEnds
    <3>3. LinesTo(sent, executed, i, MaxLine - 1) /\ Unbroken(sent, i, Len(sent) - i)
      BY <2>4, <2>5, <2>6
    <3>. QED
      BY <1>2, <1>3, <1>4, <2>1, <2>6, <2>9, <3>2, <3>3 DEF V1Fragment
  <2>11. consumed \in consumed..arrived
    BY <1>1
  <2>. HIDE DEF line
  <2>. QED
    BY <1>2, <2>1, <2>7, <2>9, <2>10, <2>11, V1Executes
<1>. QED
  BY <1>5, <1>6

\* The reply to a line is flushed unless a byte waits behind it.
LEMMA V1WriteKeeps ==
  ASSUME WireTypeOK, V1Inv, V1!WriteReply
  PROVE  WireTypeOK' /\ V1Inv'
<1>1. /\ pc = "write" /\ scanned' = scanned
      /\ BufferReply(Len(pending) >= MaxUnflushed, V1!AfterWrite)
  BY SameReply DEF V1!WriteReply
<1>2. Owed
  BY <1>1 DEF V1Inv
<1>3. WireTypeOK' /\ ((pc' = "make_room" /\ Owed') \/ (pc' = V1!AfterWrite /\ Settled'))
  BY <1>1, <1>2, ReplyBuffered
<1>4. UNCHANGED <<sent, eof, arrived, consumed, executed, why>>
  BY <1>1 DEF BufferReply
<1>5. /\ V1!AfterWrite \in {"last_flush", "read", "flush"}
      /\ V1!AfterWrite = "last_flush" <=> why # "open"
      /\ V1!AfterWrite = "read" => Buffered # <<>>
  BY SameWire DEF V1!AfterWrite
<1>6. Buffered # <<>> => consumed < arrived
  <2>1. arrived \in 0..Len(sent) /\ consumed \in 0..arrived /\ sent \in Seq(Byte)
    BY DEF WireTypeOK
  <2>. QED
    BY <2>1, BufferedIs
<1>7. V1Between' \/ V1Fragment' \/ V1Refused'
  <2>1. V1Between => V1Between'
    BY <1>1, <1>4 DEF V1Between
  <2>2. V1Fragment => V1Fragment'
    BY <1>1, <1>4 DEF V1Fragment
  <2>3. V1Refused => V1Refused'
    BY <1>3, <1>4, <1>5 DEF V1Refused
  <2>. QED
    BY <2>1, <2>2, <2>3 DEF V1Inv
<1>8. V1Loop'
  BY <1>1, <1>3, <1>4, <1>5, <1>6 DEF V1Inv, V1Loop
<1>. QED
  BY <1>3, <1>5, <1>7, <1>8 DEF V1Inv

\* The steps of the worker, and its read timeout, keep the invariant of v1.
LEMMA V1Keeps ==
  ASSUME WireTypeOK, V1Inv, V1!Worker \/ V1!IdleTimeout, UNCHANGED stop
  PROVE  WireTypeOK' /\ V1Inv'
<1>. DEFINE Good == WireTypeOK' /\ V1Inv'
<1>a. reply \in Int /\ why \in {"open", "shutdown", "idle", "client", "line_too_long", "slow_reader"}
  BY DEF WireTypeOK
<1>b. V1Loop /\ (V1Between \/ V1Fragment \/ V1Refused)
  BY DEF V1Inv
<1>c. ASSUME UNCHANGED <<sent, eof, consumed, executed, why, scanned>>, pc' = pc \/ pc' # "read"
      PROVE  V1Between' \/ V1Fragment' \/ V1Refused'
  <2>1. V1Between => V1Between'
    BY <1>c DEF V1Between
  <2>2. V1Fragment => V1Fragment'
    BY <1>c DEF V1Fragment
  <2>3. V1Refused => V1Refused'
    BY <1>c DEF V1Refused
  <2>. QED
    BY <1>b, <2>1, <2>2, <2>3
<1>1. ASSUME V1!Fill PROVE Good
  <2>1. /\ pc = "read" /\ Buffered = <<>>
        /\ UNCHANGED <<sent, eof, gone, unread, answers, pending, consumed, executed, reply, why,
                       pc, scanned>>
    BY <1>1, SameWire DEF V1!Fill, V1!streams
  <2>2. PICK n \in 1..ReadSize : arrived + n <= Len(sent) /\ arrived' = arrived + n
    BY <1>1, SameWire DEF V1!Fill, Arrival
  <2>3. /\ sent \in Seq(Byte) /\ Len(sent) \in Nat /\ arrived \in Nat /\ consumed \in Nat
        /\ consumed = arrived /\ MaxLine \in Nat /\ ReadSize \in Nat
    <3>1. sent \in Seq(Byte) /\ arrived \in 0..Len(sent) /\ consumed \in 0..arrived
      BY DEF WireTypeOK
    <3>. QED
      BY <2>1, <3>1, BufferedIs, WireAssumption
  <2>4. PICK a \in Nat : a = arrived + n
    BY <2>3
  <2>5. scanned \in 0..MaxLine /\ why = "open" /\ Settled
    BY <2>1 DEF V1Inv, V1Loop
  <2>6. /\ a \in 0..Len(sent) /\ consumed \in 0..a /\ consumed < a
        /\ scanned + (a - consumed) <= MaxLine + ReadSize
    BY <2>2, <2>3, <2>4, <2>5
  <2>7. WireTypeOK'
    BY <2>1, <2>2, <2>4, <2>6 DEF WireTypeOK
  <2>8. Settled'
    BY <2>1, <2>5, WrittenSame, SettledKept DEF Settled
  <2>9. V1Loop'
    BY <2>1, <2>2, <2>4, <2>5, <2>6 DEF V1Loop
  <2>10. V1Between' \/ V1Fragment' \/ V1Refused'
    BY <1>c, <2>1
  <2>. QED
    BY <2>1, <2>7, <2>8, <2>9, <2>10 DEF V1Inv
<1>2. ASSUME V1!ReadFails PROVE Good
  <2>1. /\ pc = "read" /\ pc' = "last_flush" /\ why' = "client" /\ why = "open"
        /\ UNCHANGED <<sent, eof, gone, unread, arrived, consumed, executed, answers, pending,
                       reply, scanned>>
    BY <1>2, <1>b DEF V1!ReadFails, V1!Return, V1!streams, V1Loop
  <2>. QED
    BY <2>1, V1Ends
<1>3. ASSUME V1!IdleTimeout PROVE Good
  <2>1. /\ pc = "read" /\ pc' = "last_flush" /\ why' = "idle" /\ why = "open"
        /\ UNCHANGED <<sent, eof, gone, unread, arrived, consumed, executed, answers, pending,
                       reply, scanned>>
    BY <1>3, <1>b DEF V1!IdleTimeout, V1!Return, V1!streams, V1Loop
  <2>. QED
    BY <2>1, V1Ends
<1>4. ASSUME V1!WriteFails PROVE Good
  <2>1. /\ pc \in {"make_room", "flush", "last_flush"} /\ pc' = "closed"
        /\ why' = IF why = "open" THEN "client" ELSE why
        /\ UNCHANGED <<sent, eof, gone, unread, arrived, consumed, executed, answers, pending,
                       reply, scanned>>
    BY <1>4 DEF V1!WriteFails, V1!Flushing, V1!streams
  <2>. QED
    BY <2>1, V1Ends
<1>5. ASSUME V1!Write PROVE Good
  <2>1. PutOnSocket /\ scanned' = scanned
    BY <1>5, SameWire DEF V1!Write
  <2>2. /\ pc \in {"make_room", "flush", "last_flush"} /\ pc' = pc
        /\ UNCHANGED <<sent, eof, arrived, consumed, executed, reply, why>>
    BY <2>1 DEF PutOnSocket, Flushing
  <2>3. Len(pending) <= MaxUnflushed
    BY DEF V1Inv, Owed, Settled
  <2>4. WireTypeOK' /\ Written' = Written /\ Len(pending') <= MaxUnflushed
    BY <2>1, <2>3, ReplyMoved
  <2>5. (Owed => Owed') /\ (Settled => Settled')
    BY <2>2, <2>4, OwedKept, SettledKept
  <2>6. V1Between' \/ V1Fragment' \/ V1Refused'
    BY <1>c, <2>1, <2>2
  <2>7. V1Loop'
    BY <1>b, <2>1, <2>2 DEF V1Loop
  <2>. QED
    BY <2>2, <2>4, <2>5, <2>6, <2>7 DEF V1Inv
<1>6. ASSUME V1!FlushDone PROVE Good
  <2>1. /\ pc \in {"make_room", "flush", "last_flush"} /\ pending = <<>>
        /\ UNCHANGED <<sent, eof, gone, unread, arrived, consumed, executed, answers, pending,
                       reply, why, scanned>>
    BY <1>6 DEF V1!FlushDone, V1!Flushing, V1!streams
  <2>2. \/ pc = "make_room" /\ pc' = "write"
        \/ pc = "flush" /\ pc' = "read"
        \/ pc = "last_flush" /\ pc' = "closed"
    BY <1>6, <2>1 DEF V1!FlushDone
  <2>3. WireTypeOK'
    BY <1>a, <2>1, WireTypeKept
  <2>4. (Owed => Owed') /\ (Settled => Settled')
    BY <2>1, WrittenSame, OwedKept, SettledKept DEF Owed, Settled
  <2>5. V1Between' \/ V1Fragment' \/ V1Refused'
    <3>1. CASE pc = "flush"
      <4>1. why = "open"
        BY <1>b, <3>1 DEF V1Loop
      <4>2. V1Between \/ V1Fragment
        BY <1>b, <4>1 DEF V1Refused
      <4>. QED
        BY <2>1, <4>2 DEF V1Between, V1Fragment
    <3>2. CASE pc # "flush"
      BY <1>c, <2>1, <2>2, <3>2
    <3>. QED
      BY <3>1, <3>2
  <2>6. V1Loop'
    BY <1>b, <2>1, <2>2 DEF V1Loop
  <2>. QED
    BY <2>2, <2>3, <2>4, <2>5, <2>6 DEF V1Inv
<1>. QED
  BY <1>1, <1>2, <1>3, <1>4, <1>5, <1>6, V1ReadKeeps, V1EofKeeps, V1WriteKeeps DEF V1!Worker

-----------------------------------------------------------------------------
(***************************************************************************)
(* The theorems.                                                           *)
(***************************************************************************)

\* Both editions start with nothing read and nothing owed.
LEMMA ConnInvInit == Init => ConnInv
<1>. SUFFICES ASSUME Init PROVE ConnInv
  OBVIOUS
<1>1. WireInit
  BY SameWire DEF Init, V1!Init, V2!Init
<1>2. sent = <<>> /\ sent \in Seq(Byte) /\ Len(sent) = 0
  BY <1>1 DEF WireInit
<1>3. /\ eof = FALSE /\ gone = FALSE /\ unread = 0 /\ arrived = 0 /\ consumed = 0
      /\ executed = <<>> /\ answers = <<>> /\ pending = <<>> /\ reply = 0 /\ why = "open"
  BY <1>1 DEF WireInit
<1>4. 0 \in 0..0 /\ 0 \in Nat /\ 0 \in Int
  OBVIOUS
<1>5. WireTypeOK
  <2>1. sent \in Seq(Byte) /\ arrived \in 0..Len(sent) /\ consumed \in 0..arrived
    BY <1>2, <1>3, <1>4
  <2>2. executed \in Seq(Seq(Byte)) /\ answers \in Seq(Int) /\ pending \in Seq(Int)
    BY <1>3
  <2>3. eof \in BOOLEAN /\ gone \in BOOLEAN
    BY <1>3, Zenon
  <2>4. unread \in Nat /\ reply \in Int
    BY <1>3, <1>4
  <2>. QED
    BY <1>3, <2>1, <2>2, <2>3, <2>4 DEF WireTypeOK
<1>6. Settled
  <2>1. Written = <<>>
    BY <1>3 DEF Written
  <2>2. Len(pending) <= MaxUnflushed
    BY <1>3, WireAssumption
  <2>. QED
    BY <1>3, <2>1, <2>2 DEF Settled, AnswersInOrder
<1>7. Unbroken(sent, 0, 0)
  BY DEF Unbroken
<1>8. MaxLine \in Nat /\ ReadSize \in Nat
  BY WireAssumption
<1>9. CASE edition = "v1" /\ V1!Init
  <2>1. pc = "read" /\ scanned = 0
    BY <1>9 DEF V1!Init
  <2>2. LinesTo(sent, executed, consumed - scanned, MaxLine - 1)
    <3>1. consumed - scanned = 0
      BY <1>3, <2>1
    <3>. QED
      BY <1>2, <1>3, <3>1, LinesStart
  <2>3. V1Between
    BY <1>3, <1>7, <2>1, <2>2 DEF V1Between
  <2>4. V1Loop
    BY <1>3, <1>8, <2>1 DEF V1Loop
  <2>. QED
    BY <1>5, <1>6, <1>9, <2>1, <2>3, <2>4 DEF ConnInv, V1Inv
<1>10. CASE edition = "v2" /\ V2!Init
  <2>1. pc = "stop?" /\ scanned = 0
    BY <1>10 DEF V2!Init
  <2>2. LinesTo(sent, executed, consumed, MaxLine)
    BY <1>2, <1>3, LinesStart
  <2>3. V2Framed
    BY <1>3, <1>7, <1>8, <2>1, <2>2 DEF V2Framed
  <2>4. V2Loop
    BY <1>3, <2>1 DEF V2Loop
  <2>. QED
    BY <1>5, <1>6, <1>10, <2>1, <2>3, <2>4 DEF ConnInv, V2Inv
<1>. QED
  BY <1>9, <1>10 DEF Init

\* Every step keeps the invariant.
LEMMA ConnInvStep == ConnInv /\ [Next]_mcvars => ConnInv'
<1>. SUFFICES ASSUME ConnInv, [Next]_mcvars PROVE ConnInv'
  OBVIOUS
<1>1. ASSUME Worker \/ ReadTimeout PROVE ConnInv'
  BY <1>1, V1Keeps DEF Worker, ReadTimeout, ConnInv
<1>2. ASSUME Task \/ Timer PROVE ConnInv'
  BY <1>2, V2Keeps DEF Task, Timer, ConnInv
<1>3. ASSUME UNCHANGED mcvars PROVE ConnInv'
  <2>1. UNCHANGED <<sent, eof, gone, unread, arrived, consumed, executed, answers, pending,
                    reply, why, pc, edition, scanned>>
    BY <1>3 DEF mcvars, wirevars
  <2>2. WireTypeOK'
    BY <2>1 DEF ConnInv, WireTypeOK
  <2>. QED
    BY <2>1, <2>2, RestKeeps
<1>. QED
  BY <1>1, <1>2, <1>3, ClientKeeps DEF Next

THEOREM ConnInvariant == Spec => []ConnInv
<1>1. Init => ConnInv
  BY ConnInvInit
<1>2. ConnInv /\ [Next]_mcvars => ConnInv'
  BY ConnInvStep
<1>. QED
  BY <1>1, <1>2, PTL DEF Spec

\* Both editions' modules mean by the stream and by the replies what this one does.
LEMMA SameMeaning ==
  /\ V1!Lines(sent) = Lines(sent) /\ V2!Lines(sent) = Lines(sent)
  /\ V1!Unfinished(sent) = Unfinished(sent) /\ V2!Unfinished(sent) = Unfinished(sent)
  /\ V1!NextLine = NextLine /\ V2!NextLine = NextLine
  /\ V1!Written = Written /\ V2!Written = Written
  /\ V1!AnswersInOrder <=> AnswersInOrder
  /\ V2!AnswersInOrder <=> AnswersInOrder
<1>1. V1!Newline = Newline /\ V2!Newline = Newline
  BY DEF V1!Newline, V2!Newline, Newline
<1>2. ASSUME NEW i
      PROVE  V1!Newlines(sent, i) = Newlines(sent, i) /\ V2!Newlines(sent, i) = Newlines(sent, i)
  <2>1. /\ V1!Cardinality({j \in 1..i : sent[j] = Newline}) = Cardinality({j \in 1..i : sent[j] = Newline})
        /\ V2!Cardinality({j \in 1..i : sent[j] = Newline}) = Cardinality({j \in 1..i : sent[j] = Newline})
    BY Zenon DEF V1!Cardinality, V2!Cardinality, Cardinality
  <2>. QED
    BY <1>1, <2>1 DEF V1!Newlines, V2!Newlines, Newlines
<1>3. ASSUME NEW i, NEW k
      PROVE  /\ V1!EndsAt(sent, i, k) <=> EndsAt(sent, i, k)
             /\ V2!EndsAt(sent, i, k) <=> EndsAt(sent, i, k)
  BY <1>1, <1>2 DEF V1!EndsAt, V2!EndsAt, EndsAt
<1>4. \A k : V1!LineEnd(sent, k) = LineEnd(sent, k) /\ V2!LineEnd(sent, k) = LineEnd(sent, k)
  BY <1>3 DEF V1!LineEnd, V2!LineEnd, LineEnd
<1>5. V1!Lines(sent) = Lines(sent) /\ V2!Lines(sent) = Lines(sent)
  BY <1>2, <1>4 DEF V1!Lines, V2!Lines, Lines
<1>6. V1!Unfinished(sent) = Unfinished(sent) /\ V2!Unfinished(sent) = Unfinished(sent)
  BY <1>2, <1>4 DEF V1!Unfinished, V2!Unfinished, Unfinished
<1>7. V1!NextLine = NextLine /\ V2!NextLine = NextLine
  BY <1>5, <1>6 DEF V1!NextLine, V2!NextLine, NextLine
<1>8. V1!Written = Written /\ V2!Written = Written
  BY DEF V1!Written, V2!Written, Written
<1>9. (V1!AnswersInOrder <=> AnswersInOrder) /\ (V2!AnswersInOrder <=> AnswersInOrder)
  BY <1>8 DEF V1!AnswersInOrder, V2!AnswersInOrder, AnswersInOrder, V1!LineTooLong, V2!LineTooLong,
         LineTooLong, V1!ShuttingDown, V2!ShuttingDown, ShuttingDown
<1>. QED
  BY <1>5, <1>6, <1>7, <1>8, <1>9

\* The fragment that v1 executes is what is left of the stream.
LEMMA FragmentIs ==
  ASSUME WireTypeOK, V1Fragment
  PROVE  /\ eof /\ executed = Append(Lines(sent), Unfinished(sent)) /\ Unfinished(sent) # <<>>
         /\ Lines(sent) = Front(executed)
<1>1. sent \in Seq(Byte) /\ Len(sent) \in Nat /\ executed \in Seq(Seq(Byte))
  BY DEF WireTypeOK
<1>2. PICK i \in 0..Len(sent) :
        /\ executed # <<>> /\ i < Len(sent)
        /\ LinesTo(sent, Front(executed), i, MaxLine - 1)
        /\ Unbroken(sent, i, Len(sent) - i)
        /\ Last(executed) = SubSeq(sent, i + 1, Len(sent))
  BY DEF V1Fragment
<1>3. Front(executed) \in Seq(Seq(Byte)) /\ EndsAt(sent, i, Len(Front(executed)))
  BY <1>2 DEF LinesTo
<1>4. /\ Newlines(sent, Len(sent)) = Len(Front(executed))
      /\ Unfinished(sent) = Last(executed)
  BY <1>1, <1>2, <1>3, LastLine
<1>5. /\ Len(Lines(sent)) = Len(Front(executed))
      /\ \A k \in 1..Len(Front(executed)) : Front(executed)[k] = Lines(sent)[k]
  BY <1>1, <1>2, <1>4, LinesOf
<1>6. Lines(sent) = Front(executed)
  <2>1. Lines(sent) = [k \in 1..Len(Front(executed)) |->
                         SubSeq(sent, LineEnd(sent, k - 1) + 1, LineEnd(sent, k) - 1)]
    BY <1>4 DEF Lines
  <2>2. Front(executed) = [k \in 1..Len(Front(executed)) |-> Front(executed)[k]]
    BY <1>3
  <2>. QED
    BY <1>5, <2>1, <2>2
<1>7. executed = Append(Front(executed), Last(executed))
  BY <1>1, <1>2, FrontLast
<1>8. Unfinished(sent) # <<>>
  <2>1. Len(SubSeq(sent, i + 1, Len(sent))) = Len(sent) - i /\ Len(sent) - i # 0
    BY <1>1, <1>2
  <2>2. SubSeq(sent, i + 1, Len(sent)) # <<>>
    BY <1>1, <2>1
  <2>. QED
    BY <1>2, <1>4, <2>2
<1>. QED
  BY <1>4, <1>6, <1>7, <1>8 DEF V1Fragment

\* What read_until and the codec have taken and executed is line by line what
\* the client sent, however the bytes arrived; in v1 the unterminated bytes
\* before the end of the stream may follow as one request more.
THEOREM ExecutedAreRequestsAlways == Spec => []ExecutedAreRequests
<1>1. ConnInv => ExecutedAreRequests
  <2>. SUFFICES ASSUME ConnInv PROVE ExecutedAreRequests
    OBVIOUS
  <2>1. sent \in Seq(Byte) /\ Len(sent) \in Nat
    BY DEF ConnInv, WireTypeOK
  <2>2. V1!Lines(sent) = Lines(sent) /\ V2!Lines(sent) = Lines(sent) /\ V1!Unfinished(sent) = Unfinished(sent)
    BY SameMeaning
  <2>3. ASSUME edition = "v2" PROVE V2!ExecutedAreLines
    <3>1. IsPrefix(executed, Lines(sent))
      BY <2>1, <2>3, LinesArePrefix DEF ConnInv, V2Inv, V2Framed
    <3>. QED
      BY <2>2, <3>1 DEF V2!ExecutedAreLines, V2!IsPrefix, IsPrefix
  <2>4. ASSUME edition = "v1" PROVE V1!ExecutedLinesOrLastFragment
    <3>1. CASE V1Between \/ V1Refused
      <4>1. IsPrefix(executed, Lines(sent))
        BY <2>1, <3>1, LinesArePrefix DEF V1Between, V1Refused
      <4>. QED
        BY <2>2, <4>1 DEF V1!ExecutedLinesOrLastFragment, V1!ExecutedAreLines, V1!IsPrefix, IsPrefix
    <3>2. CASE V1Fragment
      <4>1. eof /\ executed = Append(Lines(sent), Unfinished(sent)) /\ Unfinished(sent) # <<>>
        BY <2>1, <3>2, FragmentIs DEF ConnInv
      <4>. QED
        BY <2>2, <4>1 DEF V1!ExecutedLinesOrLastFragment
    <3>. QED
      BY <2>4, <3>1, <3>2 DEF ConnInv, V1Inv
  <2>. QED
    BY <2>3, <2>4 DEF ExecutedAreRequests, V1Promises, V2Promises
<1>. QED
  BY <1>1, ConnInvariant, PTL

\* A connection is cut for a line over its edition's limit exactly at the
\* first such line, and no such line is executed: whichever path of the
\* framing found it, and in pieces of whatever size it arrived.
THEOREM LengthLimitExactAlways == Spec => []LengthLimitExact
<1>1. ConnInv => LengthLimitExact
  <2>. SUFFICES ASSUME ConnInv PROVE LengthLimitExact
    OBVIOUS
  <2>1. sent \in Seq(Byte) /\ Len(sent) \in Nat /\ MaxLine \in Nat
    BY WireAssumption DEF ConnInv, WireTypeOK
  <2>2. /\ V1!Lines(sent) = Lines(sent)
        /\ V1!NextLine = NextLine /\ V2!NextLine = NextLine
    BY SameMeaning
  <2>3. executed \in Seq(Seq(Byte)) /\ \A k \in DOMAIN executed : executed[k] \in Seq(Byte)
    BY DEF ConnInv, WireTypeOK
  <2>4. ASSUME edition = "v2" PROVE V2!LengthLimitExact
    <3>1. V2Framed
      BY <2>4 DEF ConnInv, V2Inv
    <3>2. \A k \in DOMAIN executed : Len(executed[k]) <= MaxLine
      BY <2>3, <3>1 DEF V2Framed, LinesTo
    <3>3. ASSUME why = "line_too_long" PROVE Len(NextLine) > MaxLine
      <4>1. MaxLine + 1 \in Nat
        BY <2>1
      <4>2. Len(NextLine) \in Nat /\ Len(NextLine) >= MaxLine + 1
        BY <2>1, <3>1, <3>3, <4>1, NextIsLong DEF V2Framed, NextLine
      <4>. QED
        BY <2>1, <4>2
    <3>. QED
      BY <2>2, <3>2, <3>3 DEF V2!LengthLimitExact
  <2>5. ASSUME edition = "v1" PROVE V1!LengthLimitExact
    <3>1. V1Between \/ V1Fragment \/ V1Refused
      BY <2>5 DEF ConnInv, V1Inv
    <3>2. ASSUME NEW k \in DOMAIN executed, k <= Len(Lines(sent)) PROVE Len(executed[k]) < MaxLine
      <4>1. CASE V1Between \/ V1Refused
        <5>1. PICK i : LinesTo(sent, executed, i, MaxLine - 1)
          BY <4>1 DEF V1Between, V1Refused
        <5>2. k \in 1..Len(executed) /\ Len(executed[k]) \in Nat
          BY <2>3
        <5>3. Len(executed[k]) <= MaxLine - 1
          BY <5>1, <5>2 DEF LinesTo
        <5>. QED
          BY <2>1, <5>2, <5>3
      <4>2. CASE V1Fragment
        <5>2. PICK i : LinesTo(sent, Front(executed), i, MaxLine - 1)
          BY <4>2 DEF V1Fragment
        <5>3. executed # <<>> /\ executed \in Seq(Seq(Byte)) /\ Lines(sent) = Front(executed)
          BY <2>3, <4>2, FragmentIs DEF V1Fragment, ConnInv
        <5>4. /\ Len(Front(executed)) = Len(executed) - 1
              /\ \A l \in 1..(Len(executed) - 1) : Front(executed)[l] = executed[l]
          BY <5>3, FrontLast
        <5>5. k \in 1..Len(Front(executed)) /\ k \in 1..(Len(executed) - 1)
          BY <3>2, <5>3, <5>4
        <5>6. Len(Front(executed)[k]) <= MaxLine - 1
          BY <5>2, <5>5 DEF LinesTo
        <5>7. executed[k] = Front(executed)[k]
          BY <5>4, <5>5
        <5>8. Len(executed[k]) \in Nat
          BY <2>3
        <5>. QED
          BY <2>1, <5>6, <5>7, <5>8
      <4>. QED
        BY <3>1, <4>1, <4>2
    <3>3. ASSUME why = "line_too_long" PROVE Len(NextLine) >= MaxLine
      <4>1. V1Refused
        BY <3>1, <3>3 DEF V1Between, V1Fragment
      <4>. QED
        BY <2>1, <4>1, NextIsLong DEF V1Refused, NextLine
    <3>. QED
      BY <2>2, <3>2, <3>3 DEF V1!LengthLimitExact
  <2>. QED
    BY <2>4, <2>5 DEF LengthLimitExact, V1Promises, V2Promises
<1>. QED
  BY <1>1, ConnInvariant, PTL

\* No reply stays in the server's buffer while the server waits for the
\* client; in v1, unless the client has begun another request.
THEOREM NothingWithheldAlways == Spec => []NothingWithheld
<1>1. ConnInv => NothingWithheld
  <2>. SUFFICES ASSUME ConnInv PROVE NothingWithheld
    OBVIOUS
  <2>1. ASSUME pending = <<>>, Settled, why = "open" PROVE Len(answers) = Len(executed)
    <3>1. Written = answers
      BY <2>1 DEF Written, ConnInv, WireTypeOK
    <3>. QED
      BY <2>1, <3>1 DEF Settled
  <2>2. ASSUME edition = "v2" PROVE V2!NothingWithheld
    BY <2>1, <2>2 DEF V2!NothingWithheld, ConnInv, V2Inv, V2Loop
  <2>3. ASSUME edition = "v1" PROVE V1!NothingWithheld
    <3>. SUFFICES ASSUME pc = "read", scanned = 0, Buffered = <<>>
                  PROVE  pending = <<>> /\ Len(answers) = Len(executed)
      BY SameWire DEF V1!NothingWithheld
    <3>1. consumed = arrived /\ arrived \in Int
      <4>1. sent \in Seq(Byte) /\ arrived \in 0..Len(sent) /\ WireTypeOK
        BY DEF ConnInv, WireTypeOK
      <4>. QED
        BY <4>1, BufferedIs
    <3>2. V1Loop /\ Settled
      BY <2>3 DEF ConnInv, V1Inv
    <3>3. pending = <<>> /\ why = "open"
      BY <3>1, <3>2 DEF V1Loop
    <3>. QED
      BY <2>1, <3>2, <3>3
  <2>. QED
    BY <2>2, <2>3 DEF NothingWithheld, V1Promises, V2Promises
<1>. QED
  BY <1>1, ConnInvariant, PTL

\* Replies leave once each, in the order of their requests, and the buffers
\* stay within their bounds, whichever flush moves the replies.
THEOREM RepliesInOrderAlways == Spec => []RepliesInOrder
<1>1. ConnInv => RepliesInOrder
  <2>. SUFFICES ASSUME ConnInv PROVE RepliesInOrder
    OBVIOUS
  <2>1. WireTypeOK
    BY DEF ConnInv
  <2>2. Owed \/ Settled
    BY DEF ConnInv, V1Inv, V2Inv
  <2>3. AnswersInOrder /\ Len(pending) <= MaxUnflushed
    BY <2>2 DEF Owed, Settled, AnswersInOrder
  <2>4. Len(Buffered) = arrived - consumed
    BY <2>1, BufferedIs
  <2>5. ASSUME edition = "v2" PROVE V2!RepliesInOrder
    <3>1. why = "open" /\ pc \notin {"make_room", "feed"} => Len(Written) = Len(executed)
      BY <2>5 DEF ConnInv, V2Inv, Settled
    <3>2. Len(Buffered) <= MaxLine + ReadSize
      BY <2>4, <2>5 DEF ConnInv, V2Inv, V2Framed
    <3>. QED
      BY <2>3, <3>1, <3>2, SameWire, SameMeaning DEF V2!RepliesInOrder
  <2>6. ASSUME edition = "v1" PROVE V1!RepliesInOrder
    <3>1. why = "open" /\ pc \notin {"make_room", "write"} => Len(Written) = Len(executed)
      BY <2>6 DEF ConnInv, V1Inv, Settled
    <3>2. scanned + Len(Buffered) <= MaxLine + ReadSize
      BY <2>4, <2>6 DEF ConnInv, V1Inv, V1Loop
    <3>. QED
      BY <2>3, <3>1, <3>2, SameWire, SameMeaning DEF V1!RepliesInOrder
  <2>. QED
    BY <2>5, <2>6 DEF RepliesInOrder, V1Promises, V2Promises
<1>. QED
  BY <1>1, ConnInvariant, PTL
=============================================================================
