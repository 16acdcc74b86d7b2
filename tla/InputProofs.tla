------------------------------ MODULE InputProofs ------------------------------
(***************************************************************************)
(* Theorems about the parts of the program that read something, of which the *)
(* run of MCInput states the same within its bounds: for texts, requests,    *)
(* headers, command lines and scripts of any length.                        *)
(***************************************************************************)
EXTENDS MCInput, RecvStringProofs, SequenceTheorems, FiniteSetTheorems, TLAPS

QP == INSTANCE QueryStringProofs WITH Keys <- QueryKeys, MaxParams <- MaxQueryParams
Ext == INSTANCE SequencesExt

-------------------------------------------------------------------------------
(* The script: what is in the buffer is what came since the last go.         *)

BufferInv == mybuf = from

LEMMA BufferStep ==
    ASSUME BufferInv, [MCNext]_all
    PROVE  BufferInv'
  <1> USE DEF BufferInv
  <1>1. CASE UNCHANGED script BY <1>1 DEF script
  <1>2. CASE S!Next
    <2>1. ASSUME NEW line \in S!TextLines, S!Text(line) PROVE BufferInv'
      BY <2>1 DEF S!Text
    <2>2. ASSUME NEW piece \in S!Pieces, S!Load(piece) PROVE BufferInv'
      BY <2>2 DEF S!Load
    <2>3. CASE S!LoadFails BY <2>3 DEF S!LoadFails, S!buffer
    <2>4. CASE S!Reset BY <2>4 DEF S!Reset
    <2>5. CASE S!Go BY <2>5 DEF S!Go
    <2>6. CASE S!Exit BY <2>6 DEF S!Exit, S!buffer
    <2> QED BY <1>2, <2>1, <2>2, <2>3, <2>4, <2>5, <2>6 DEF S!Next
  <1> QED BY <1>1, <1>2 DEF MCNext, all

\* A go runs the lines that came since the go or reset before it, all of them and
\* in their order, whatever was loaded, kept or run before (main.c 180-257).
THEOREM RunsSinceGoHolds == MCSpec => RunsSinceGo
  <1>1. MCInit => BufferInv
    BY DEF MCInit, S!Init, BufferInv
  <1>2. BufferInv /\ [MCNext]_all => BufferInv'
    BY BufferStep
  <1>3. BufferInv /\ [MCNext]_all => [S!Go => ran'.text = from]_(S!vars)
    <2>1. ASSUME BufferInv, S!Go PROVE ran'.text = from
      <3>1. PICK word : ran' = [what |-> IF S!First \in S!Kinds \ {"text"} THEN S!First ELSE "query",
                               text |-> mybuf, param |-> word]
        BY <2>1 DEF S!Go
      <3> QED BY <2>1, <3>1 DEF BufferInv
    <2> QED BY <2>1
  <1> QED
    BY <1>1, <1>2, <1>3, PTL DEF MCSpec, RunsSinceGo, S!RunsSinceGo

-------------------------------------------------------------------------------
(* Question marks outside quotes. *)

Alphabet == {"'", "?", "x"}

\* As many quotes among the first k characters as close them.
Even(t, k) == P!Quotes(SubSeq(t, 1, k)) % 2 = 0
QuotesTo(t, k) == {m \in 1 .. k : t[m] = "'"}

LEMMA CardinalityInP == \A T : P!Cardinality(T) = Cardinality(T)
  BY Zenon DEF P!Cardinality, Cardinality

LEMMA Prefix ==
    ASSUME NEW A, NEW t \in Seq(A), NEW k \in 0 .. Len(t)
    PROVE  /\ SubSeq(t, 1, k) \in Seq(A) /\ Len(SubSeq(t, 1, k)) = k
           /\ DOMAIN SubSeq(t, 1, k) = 1 .. k
           /\ \A m \in 1 .. k : SubSeq(t, 1, k)[m] = t[m]
  <1>1. PICK n : n = Len(t) /\ n \in Nat
    OBVIOUS
  <1>2. \A m \in 1 .. k : t[m] \in A
    OBVIOUS
  <1>3. PICK u : u = SubSeq(t, 1, k)
    OBVIOUS
  <1>4. u \in Seq(A)
    BY <1>2, <1>3, SubSeqProperties
  <1>5. Len(u) = k
    BY <1>2, <1>3, SubSeqProperties
  <1>6. \A m \in 1 .. k : u[m] = t[m]
    BY <1>2, <1>3, SubSeqProperties
  <1> QED
    BY <1>3, <1>4, <1>5, <1>6

LEMMA QuotesUpto ==
    ASSUME NEW t \in Seq(Alphabet), NEW k \in 0 .. Len(t)
    PROVE  /\ P!Quotes(SubSeq(t, 1, k)) = Cardinality(QuotesTo(t, k))
           /\ IsFiniteSet(QuotesTo(t, k)) /\ Cardinality(QuotesTo(t, k)) \in Nat
  <1>1. PICK u : u = SubSeq(t, 1, k) /\ DOMAIN u = 1 .. k /\ \A m \in 1 .. k : u[m] = t[m]
    BY Prefix
  <1>2. {m \in DOMAIN u : u[m] = "'"} = QuotesTo(t, k)
    BY <1>1 DEF QuotesTo
  <1>3. IsFiniteSet(1 .. k)
    BY FS_Interval
  <1>4. IsFiniteSet(QuotesTo(t, k)) /\ Cardinality(QuotesTo(t, k)) \in Nat
    BY <1>3, FS_Subset, FS_CardinalityType DEF QuotesTo
  <1>5. P!Quotes(u) = Cardinality({m \in DOMAIN u : u[m] = "'"})
    BY CardinalityInP DEF P!Quotes
  <1> QED
    BY <1>1, <1>2, <1>4, <1>5

LEMMA EvenAtStart ==
    ASSUME NEW t \in Seq(Alphabet)
    PROVE  Even(t, 0)
  <1>1. QuotesTo(t, 0) = {}
    BY DEF QuotesTo
  <1>2. P!Quotes(SubSeq(t, 1, 0)) = 0
    BY <1>1, QuotesUpto, FS_EmptySet
  <1> QED
    BY <1>2 DEF Even

LEMMA EvenNext ==
    ASSUME NEW t \in Seq(Alphabet), NEW k \in 0 .. Len(t) - 1
    PROVE  Even(t, k + 1) <=> (Even(t, k) <=> t[k + 1] # "'")
  <1>1. k \in 0 .. Len(t) /\ k + 1 \in 0 .. Len(t)
    OBVIOUS
  <1>2. PICK c, d : /\ c = P!Quotes(SubSeq(t, 1, k)) /\ c = Cardinality(QuotesTo(t, k)) /\ c \in Nat
                    /\ d = P!Quotes(SubSeq(t, 1, k + 1)) /\ d = Cardinality(QuotesTo(t, k + 1))
                    /\ IsFiniteSet(QuotesTo(t, k))
    BY <1>1, QuotesUpto
  <1>3. CASE t[k + 1] = "'"
    <2>1. QuotesTo(t, k + 1) = QuotesTo(t, k) \cup {k + 1} /\ k + 1 \notin QuotesTo(t, k)
      BY <1>3 DEF QuotesTo
    <2>2. d = c + 1
      BY <1>2, <2>1, FS_AddElement
    <2> QED
      BY <1>2, <1>3, <2>2 DEF Even
  <1>4. CASE t[k + 1] # "'"
    <2>1. QuotesTo(t, k + 1) = QuotesTo(t, k)
      BY <1>4 DEF QuotesTo
    <2> QED
      BY <1>2, <1>4, <2>1 DEF Even
  <1> QED
    BY <1>3, <1>4

Marks(t) == P!Placeholders(t)

LEMMA MarksAre ==
    ASSUME NEW t \in Seq(Alphabet), NEW k \in 1 .. Len(t)
    PROVE  k \in Marks(t) <=> (t[k] = "?" /\ Even(t, k - 1))
  <1>1. k - 1 \in 0 .. Len(t) - 1 /\ (k - 1) + 1 = k /\ k \in DOMAIN t
    OBVIOUS
  <1>2. Even(t, k) <=> (Even(t, k - 1) <=> t[k] # "'")
    BY <1>1, EvenNext
  <1>3. k \in Marks(t) <=> (t[k] = "?" /\ Even(t, k))
    BY <1>1 DEF Marks, P!Placeholders, Even
  <1> QED
    BY <1>2, <1>3

\* What is behind the first p characters.
Behind(t, p) == SubSeq(t, p + 1, Len(t))

LEMMA Suffix ==
    ASSUME NEW A, NEW t \in Seq(A), NEW p \in 0 .. Len(t)
    PROVE  /\ Behind(t, p) \in Seq(A) /\ Len(Behind(t, p)) = Len(t) - p
           /\ \A m \in 1 .. Len(t) - p : Behind(t, p)[m] = t[p + m]
  <1>1. PICK n : n = Len(t) /\ n \in Nat
    OBVIOUS
  <1>2. p + 1 \in Int /\ n \in Int /\ \A m \in p + 1 .. n : t[m] \in A
    BY <1>1
  <1>3. PICK u : u = SubSeq(t, p + 1, n)
    OBVIOUS
  <1>4. u \in Seq(A)
    BY <1>2, <1>3, SubSeqProperties
  <1>5. Len(u) = IF p + 1 <= n THEN n - (p + 1) + 1 ELSE 0
    BY <1>2, <1>3, SubSeqProperties
  <1>6. \A m \in 1 .. n - (p + 1) + 1 : u[m] = t[(p + 1) + m - 1]
    BY <1>2, <1>3, SubSeqProperties
  <1>7. n - (p + 1) + 1 = n - p /\ \A m \in Int : (p + 1) + m - 1 = p + m
    BY <1>1
  <1> QED
    BY <1>1, <1>3, <1>4, <1>5, <1>6, <1>7 DEF Behind

LEMMA EvenBehind ==
    ASSUME NEW t \in Seq(Alphabet), NEW p \in 0 .. Len(t), Even(t, p)
    PROVE  \A k \in 0 .. Len(t) - p : Even(Behind(t, p), k) <=> Even(t, p + k)
  <1>1. PICK n, u : /\ n = Len(t) /\ n \in Nat /\ u = Behind(t, p)
                    /\ u \in Seq(Alphabet) /\ Len(u) = n - p
                    /\ \A m \in 1 .. n - p : u[m] = t[p + m]
    <2>1. Len(t) \in Nat
      OBVIOUS
    <2>2. Behind(t, p) \in Seq(Alphabet) /\ Len(Behind(t, p)) = Len(t) - p
      BY Suffix
    <2>3. \A m \in 1 .. Len(t) - p : Behind(t, p)[m] = t[p + m]
      BY Suffix
    <2> QED
      BY <2>1, <2>2, <2>3, Zenon
  <1> DEFINE T == {k \in 0 .. n - p : ~ (Even(u, k) <=> Even(t, p + k))}
  <1>2. SUFFICES ASSUME T # {} PROVE FALSE
    BY <1>1
  <1>3. PICK k \in T : \A m \in T : ~ (m < k)
    <2>1. T \subseteq Nat
      BY <1>1
    <2> HIDE DEF T
    <2> QED
      BY <1>2, <2>1, QP!LeastNumber
  <1>4. k \in 0 .. n - p /\ ~ (Even(u, k) <=> Even(t, p + k))
    BY <1>3
  <1>5. k # 0
    <2>1. Even(u, 0)
      BY <1>1, EvenAtStart
    <2>2. p + 0 = p
      OBVIOUS
    <2> QED
      BY <1>4, <2>1, <2>2
  <1>6. PICK j : /\ j = k - 1 /\ j \in 0 .. n - p /\ j \in 0 .. Len(u) - 1 /\ j < k /\ j + 1 = k
                 /\ p + j \in 0 .. Len(t) - 1 /\ (p + j) + 1 = p + k /\ k \in 1 .. n - p
    <2>1. PICK j : j = k - 1
      OBVIOUS
    <2>2. p \in 0 .. n
      BY <1>1
    <2>3. k \in 1 .. n - p /\ j \in 0 .. n - p - 1 /\ p + j \in 0 .. n - 1 /\ (p + j) + 1 = p + k
      BY <1>1, <1>4, <1>5, <2>1, <2>2
    <2> QED
      BY <1>1, <2>1, <2>3
  <1>7. Even(u, j) <=> Even(t, p + j)
    BY <1>3, <1>6
  <1>8. Even(u, j + 1) <=> (Even(u, j) <=> u[j + 1] # "'")
    BY <1>1, <1>6, EvenNext
  <1>9. Even(t, (p + j) + 1) <=> (Even(t, p + j) <=> t[(p + j) + 1] # "'")
    BY <1>6, EvenNext
  <1>10. u[k] = t[p + k]
    BY <1>1, <1>6
  <1> QED
    BY <1>4, <1>6, <1>7, <1>8, <1>9, <1>10, Zenon

LEMMA MarksBehind ==
    ASSUME NEW t \in Seq(Alphabet), NEW p \in 0 .. Len(t), Even(t, p)
    PROVE  \A k \in 1 .. Len(t) - p : k \in Marks(Behind(t, p)) <=> p + k \in Marks(t)
  <1>1. PICK n, u : /\ n = Len(t) /\ n \in Nat /\ u = Behind(t, p)
                    /\ u \in Seq(Alphabet) /\ Len(u) = n - p
                    /\ \A m \in 1 .. n - p : u[m] = t[p + m]
    <2>1. Len(t) \in Nat
      OBVIOUS
    <2>2. Behind(t, p) \in Seq(Alphabet) /\ Len(Behind(t, p)) = Len(t) - p
      BY Suffix
    <2>3. \A m \in 1 .. Len(t) - p : Behind(t, p)[m] = t[p + m]
      BY Suffix
    <2> QED
      BY <2>1, <2>2, <2>3, Zenon
  <1>2. SUFFICES ASSUME NEW k \in 1 .. n - p PROVE k \in Marks(u) <=> p + k \in Marks(t)
    BY <1>1
  <1>3. PICK j : j = k - 1 /\ j \in 0 .. Len(t) - p /\ p + j = (p + k) - 1
    BY <1>1
  <1>4. Even(u, k - 1) <=> Even(t, (p + k) - 1)
    BY <1>1, <1>3, EvenBehind
  <1>5. k \in Marks(u) <=> (u[k] = "?" /\ Even(u, k - 1))
    BY <1>1, MarksAre
  <1>6. p + k \in Marks(t) <=> (t[p + k] = "?" /\ Even(t, (p + k) - 1))
    <2>1. p + k \in 1 .. Len(t)
      BY <1>1
    <2> QED
      BY <2>1, MarksAre
  <1>7. u[k] = t[p + k]
    BY <1>1
  <1> QED
    BY <1>4, <1>5, <1>6, <1>7

\* Where the search from character k on would stop, quoted or not there.
Hits(t, k, q) ==
    {j \in k .. Len(t) - 1 : t[j + 1] = "?" /\ ((Even(t, j + 1) <=> Even(t, k)) <=> ~ q)}
Stop(t, k, q) ==
    IF Hits(t, k, q) = {} THEN -1
    ELSE CHOOSE j \in Hits(t, k, q) : \A m \in Hits(t, k, q) : ~ (m < j)

Now(t, k, q) == q # (t[k + 1] = "'")

LEMMA HitsNext ==
    ASSUME NEW t \in Seq(Alphabet), NEW k \in 0 .. Len(t) - 1, NEW q \in BOOLEAN
    PROVE  Hits(t, k, q) = Hits(t, k + 1, Now(t, k, q))
                            \cup (IF ~ Now(t, k, q) /\ t[k + 1] = "?" THEN {k} ELSE {})
  <1>1. PICK n, w : n = Len(t) /\ n \in Nat /\ w = Now(t, k, q) /\ w \in BOOLEAN
    <2>1. Len(t) \in Nat
      OBVIOUS
    <2>2. Now(t, k, q) \in BOOLEAN
      BY Zenon DEF Now
    <2> QED
      BY <2>1, <2>2, Zenon
  <1>2. w <=> (q <=> t[k + 1] # "'")
    BY <1>1 DEF Now
  <1>3. Even(t, k + 1) <=> (Even(t, k) <=> t[k + 1] # "'")
    BY EvenNext
  <1>4. ASSUME NEW j PROVE j \in Hits(t, k, q) <=>
                             j \in Hits(t, k + 1, w) \/ (j = k /\ ~ w /\ t[k + 1] = "?")
    <2>1. CASE j = k
      <3>1. j \notin Hits(t, k + 1, w)
        BY <1>1, <2>1 DEF Hits
      <3>2. j \in Hits(t, k, q) <=> t[k + 1] = "?" /\ ((Even(t, k + 1) <=> Even(t, k)) <=> ~ q)
        BY <1>1, <2>1 DEF Hits
      <3> QED
        BY <1>2, <1>3, <2>1, <3>1, <3>2, Zenon
    <2>2. CASE j # k
      <3>1. j \in k .. n - 1 <=> j \in k + 1 .. n - 1
        BY <1>1, <2>2
      <3>2. ((Even(t, j + 1) <=> Even(t, k)) <=> ~ q) <=> ((Even(t, j + 1) <=> Even(t, k + 1)) <=> ~ w)
        BY <1>2, <1>3, Zenon
      <3> QED
        BY <1>1, <2>2, <3>1, <3>2, Zenon DEF Hits
    <2> QED
      BY <2>1, <2>2
  <1> QED
    BY <1>1, <1>4

LEMMA StopNext ==
    ASSUME NEW t \in Seq(Alphabet), NEW k \in 0 .. Len(t) - 1, NEW q \in BOOLEAN
    PROVE  Stop(t, k, q) = IF ~ Now(t, k, q) /\ t[k + 1] = "?" THEN k
                           ELSE Stop(t, k + 1, Now(t, k, q))
  <1>1. PICK a, b, w : a = Hits(t, k, q) /\ b = Hits(t, k + 1, w) /\ w = Now(t, k, q)
    OBVIOUS
  <1>2. CASE ~ w /\ t[k + 1] = "?"
    <2>1. a = b \cup {k}
      BY <1>1, <1>2, HitsNext
    <2>2. b \subseteq k + 1 .. Len(t) - 1
      BY <1>1 DEF Hits
    <2>3. k \in a /\ (\A m \in a : ~ (m < k)) /\ \A j \in a : (\A m \in a : ~ (m < j)) => j = k
      BY <2>1, <2>2
    <2>4. (CHOOSE j \in a : \A m \in a : ~ (m < j)) = k
      BY <2>3, Zenon
    <2> QED
      BY <1>1, <1>2, <2>3, <2>4 DEF Stop
  <1>3. CASE ~ (~ w /\ t[k + 1] = "?")
    <2>1. a = b \cup (IF ~ w /\ t[k + 1] = "?" THEN {k} ELSE {})
      BY <1>1, HitsNext, Zenon
    <2>2. a = b
      BY <1>3, <2>1
    <2> QED
      BY <1>1, <1>3, <2>2 DEF Stop
  <1> QED
    BY <1>2, <1>3

LEMMA StopLast ==
    ASSUME NEW t \in Seq(Alphabet), NEW q
    PROVE  Stop(t, Len(t), q) = -1
  <1>1. Hits(t, Len(t), q) = {}
    BY DEF Hits
  <1> QED
    BY <1>1 DEF Stop

\* The function of find_placeholder.
ScanAt(t, f, k, quoted) ==
    IF k = Len(t) THEN -1
    ELSE LET now == quoted # (t[k + 1] = "'")
         IN  IF ~ now /\ t[k + 1] = "?" THEN k ELSE f[k + 1][now]
IsScan(t, f) == f = [k \in 0 .. Len(t) |-> [quoted \in BOOLEAN |-> ScanAt(t, f, k, quoted)]]

LEMMA ScanFound ==
    ASSUME NEW t, NEW g, IsScan(t, g)
    PROVE  \E f : IsScan(t, f) /\ P!find_placeholder(t) = f[0][FALSE]
  BY Zenon DEF IsScan, ScanAt, P!find_placeholder

LEMMA ScanExists ==
    ASSUME NEW t \in Seq(Alphabet)
    PROVE  \E g : IsScan(t, g)
  <1>1. PICK n : n = Len(t) /\ n \in Nat
    OBVIOUS
  <1> DEFINE g == [k \in 0 .. n |-> [quoted \in BOOLEAN |-> Stop(t, k, quoted)]]
  <1>2. ASSUME NEW k \in 0 .. n, NEW quoted \in BOOLEAN
        PROVE  g[k][quoted] = ScanAt(t, g, k, quoted)
    <2>1. g[k][quoted] = Stop(t, k, quoted)
      BY <1>2
    <2>2. CASE k = n
      BY <1>1, <2>1, <2>2, StopLast DEF ScanAt
    <2>3. CASE k # n
      <3>1. k \in 0 .. Len(t) - 1 /\ k + 1 \in 0 .. n
        BY <1>1, <2>3
      <3>2. Now(t, k, quoted) \in BOOLEAN
        BY Zenon DEF Now
      <3>3. g[k + 1][Now(t, k, quoted)] = Stop(t, k + 1, Now(t, k, quoted))
        BY <3>1, <3>2
      <3> HIDE DEF g
      <3>4. ScanAt(t, g, k, quoted) = IF ~ Now(t, k, quoted) /\ t[k + 1] = "?" THEN k
                                      ELSE g[k + 1][Now(t, k, quoted)]
        BY <1>1, <2>3, Zenon DEF ScanAt, Now
      <3> QED
        BY <2>1, <3>1, <3>3, <3>4, StopNext, Zenon
    <2> QED
      BY <2>2, <2>3
  <1>3. g = [k \in 0 .. n |-> [quoted \in BOOLEAN |-> g[k][quoted]]]
    OBVIOUS
  <1> HIDE DEF g
  <1>4. IsScan(t, g)
    <2>1. ASSUME NEW k \in 0 .. n
          PROVE  [quoted \in BOOLEAN |-> g[k][quoted]] = [quoted \in BOOLEAN |-> ScanAt(t, g, k, quoted)]
      BY <1>2, <2>1, Zenon
    <2>2. [k \in 0 .. n |-> [quoted \in BOOLEAN |-> g[k][quoted]]]
            = [k \in 0 .. n |-> [quoted \in BOOLEAN |-> ScanAt(t, g, k, quoted)]]
      BY <2>1, Zenon
    <2> QED
      BY <1>1, <1>3, <2>2, Zenon DEF IsScan
  <1> QED
    BY <1>4

LEMMA ScanStops ==
    ASSUME NEW t \in Seq(Alphabet), NEW f, IsScan(t, f)
    PROVE  f[0][FALSE] = Stop(t, 0, FALSE)
  <1>1. PICK n : n = Len(t) /\ n \in Nat
    OBVIOUS
  <1>2. \A k \in 0 .. n : \A q \in BOOLEAN : f[k][q] = ScanAt(t, f, k, q)
    <2>1. TAKE k \in 0 .. n
    <2>2. f[k] = [quoted \in BOOLEAN |-> ScanAt(t, f, k, quoted)]
      BY <1>1, Zenon DEF IsScan
    <2> QED
      BY <2>2, Zenon
  <1> DEFINE T == {d \in 0 .. n : \E q \in BOOLEAN : f[n - d][q] # Stop(t, n - d, q)}
  <1>3. T = {}
    <2> SUFFICES ASSUME T # {} PROVE FALSE
      OBVIOUS
    <2>1. PICK d \in T : \A m \in T : ~ (m < d)
      <3>1. T \subseteq Nat
        BY <1>1
      <3> HIDE DEF T
      <3> QED
        BY <3>1, QP!LeastNumber
    <2>2. PICK k, q : k = n - d /\ k \in 0 .. n /\ q \in BOOLEAN /\ f[k][q] # Stop(t, k, q)
      BY <1>1, <2>1
    <2>3. f[k][q] = ScanAt(t, f, k, q)
      BY <1>2, <2>2
    <2>4. k # n
      BY <1>1, <2>2, <2>3, StopLast DEF ScanAt
    <2>5. d - 1 \in 0 .. n /\ d - 1 < d /\ n - (d - 1) = k + 1 /\ k \in 0 .. Len(t) - 1
      BY <1>1, <2>1, <2>2, <2>4
    <2>6. Now(t, k, q) \in BOOLEAN
      BY Zenon DEF Now
    <2>7. f[k + 1][Now(t, k, q)] = Stop(t, k + 1, Now(t, k, q))
      BY <2>1, <2>5, <2>6
    <2>8. ScanAt(t, f, k, q) = IF ~ Now(t, k, q) /\ t[k + 1] = "?" THEN k
                               ELSE f[k + 1][Now(t, k, q)]
      BY <1>1, <2>4, Zenon DEF ScanAt, Now
    <2>9. Stop(t, k, q) = IF ~ Now(t, k, q) /\ t[k + 1] = "?" THEN k
                          ELSE Stop(t, k + 1, Now(t, k, q))
      BY <2>2, <2>5, StopNext
    <2> QED
      BY <2>2, <2>3, <2>7, <2>8, <2>9
  <1>4. n \in 0 .. n /\ n - n = 0 /\ FALSE \in BOOLEAN
    BY <1>1
  <1> QED
    BY <1>3, <1>4

\* The first placeholder, counted from 0, or -1: there is none.
LEMMA FindPlaceholder ==
    ASSUME NEW t \in Seq(Alphabet)
    PROVE  \/ P!find_placeholder(t) = -1 /\ \A k \in 1 .. Len(t) : k \notin Marks(t)
           \/ /\ P!find_placeholder(t) \in 0 .. Len(t) - 1
              /\ P!find_placeholder(t) + 1 \in Marks(t)
              /\ \A k \in 1 .. P!find_placeholder(t) : k \notin Marks(t)
  <1>1. P!find_placeholder(t) = Stop(t, 0, FALSE)
    BY ScanExists, ScanFound, ScanStops
  <1>0. Len(t) \in Nat
    OBVIOUS
  <1>2. PICK n, a : n = Len(t) /\ n \in Nat /\ a = Hits(t, 0, FALSE)
    BY <1>0, Zenon
  <1>3. \A k \in 1 .. n : k \in Marks(t) <=> k - 1 \in a
    <2> TAKE k \in 1 .. n
    <2>1. PICK j : j = k - 1 /\ j \in 0 .. n - 1 /\ j + 1 = k
      BY <1>2
    <2>2. Even(t, j + 1) <=> (Even(t, j) <=> t[j + 1] # "'")
      BY <1>2, <2>1, EvenNext
    <2>3. j \in a <=> t[j + 1] = "?" /\ (Even(t, j + 1) <=> Even(t, 0))
      BY <1>2, <2>1 DEF Hits
    <2>4. k \in Marks(t) <=> t[k] = "?" /\ Even(t, k - 1)
      BY <1>2, MarksAre
    <2> QED
      BY <2>1, <2>2, <2>3, <2>4, EvenAtStart
  <1>4. a \subseteq 0 .. n - 1
    BY <1>2 DEF Hits
  <1>5. CASE a = {}
    <2>1. \A k \in 1 .. n : k \notin Marks(t)
      BY <1>3, <1>5
    <2> QED
      BY <1>1, <1>2, <1>5, <2>1 DEF Stop
  <1>6. CASE a # {}
    <2>1. \E j \in a : \A m \in a : ~ (m < j)
      <3>1. 0 .. n - 1 \subseteq Nat
        BY <1>2
      <3>2. a \subseteq Nat
        BY <1>4, <3>1, Zenon
      <3> QED
        BY <1>6, <3>2, QP!LeastNumber, Zenon
    <2>2. PICK r : r = Stop(t, 0, FALSE) /\ r \in a /\ \A m \in a : ~ (m < r)
      BY <1>2, <1>6, <2>1, Zenon DEF Stop
    <2>3. r \in 0 .. n - 1 /\ r + 1 \in 1 .. n /\ (r + 1) - 1 = r
      <3>1. r \in 0 .. n - 1
        BY <1>4, <2>2, Zenon
      <3> QED
        BY <1>2, <3>1
    <2>4. ASSUME NEW k \in 1 .. r PROVE k \notin Marks(t)
      <3>1. k \in 1 .. n /\ k - 1 < r
        BY <1>2, <2>3
      <3>2. k - 1 \notin a
        BY <2>2, <3>1, Zenon
      <3> QED
        BY <1>3, <3>1, <3>2
    <2> QED
      BY <1>1, <1>2, <1>3, <2>2, <2>3, <2>4
  <1> QED
    BY <1>5, <1>6

-------------------------------------------------------------------------------
(* A sequence of sequences put together: a recursive definition.            *)

\* F has what the first ones come to, one after the other.
Strung(seqs, F) ==
    /\ F[0] = <<>>
    /\ \A k \in 1 .. Len(seqs) : F[k] = F[k - 1] \o seqs[k]

LEMMA StrungExists ==
    ASSUME NEW A, NEW N \in Nat, NEW seqs \in [1 .. N -> Seq(A)]
    PROVE  \E F \in [0 .. N -> Seq(A)] : Strung(seqs, F)
  <1> DEFINE Some(n) == \E F \in [0 .. n -> Seq(A)] :
                            F[0] = <<>> /\ \A k \in 1 .. n : F[k] = F[k - 1] \o seqs[k]
  <1> DEFINE T == {n \in 0 .. N : ~ Some(n)}
  <1>1. T = {}
    <2>0. T \subseteq Nat
      <3> HIDE DEF Some
      <3> QED
        OBVIOUS
    <2> SUFFICES ASSUME T # {} PROVE FALSE
      OBVIOUS
    <2>1. PICK n \in T : \A m \in T : ~ (m < n)
      <3> HIDE DEF T
      <3> QED
        BY <2>0, QP!LeastNumber
    <2>2. n \in 0 .. N /\ ~ Some(n)
      BY <2>1
    <2>3. n # 0
      <3>1. Some(0)
        <4> DEFINE F == [k \in 0 .. 0 |-> <<>>]
        <4>1. F \in [0 .. 0 -> Seq(A)] /\ F[0] = <<>> /\ 1 .. 0 = {}
          OBVIOUS
        <4> HIDE DEF F
        <4> QED
          BY <4>1
      <3> QED
        BY <2>2, <3>1
    <2>4. n - 1 \in 0 .. N /\ n - 1 < n /\ n \in 1 .. N
      BY <2>2, <2>3
    <2>5. Some(n - 1)
      BY <2>1, <2>4
    <2>6. PICK F \in [0 .. n - 1 -> Seq(A)] :
              F[0] = <<>> /\ \A k \in 1 .. n - 1 : F[k] = F[k - 1] \o seqs[k]
      BY <2>5
    <2>7. PICK z : z = F[n - 1] \o seqs[n] /\ z \in Seq(A)
      <3>1. F[n - 1] \in Seq(A) /\ seqs[n] \in Seq(A)
        BY <2>4, <2>6
      <3> QED
        BY <3>1, ConcatProperties
    <2> DEFINE G == [k \in 0 .. n |-> IF k = n THEN z ELSE F[k]]
    <2>8. G \in [0 .. n -> Seq(A)] /\ G[0] = <<>>
      BY <2>4, <2>6, <2>7
    <2>9. \A k \in 1 .. n : G[k] = G[k - 1] \o seqs[k]
      <3> TAKE k \in 1 .. n
      <3>1. G[k - 1] = F[k - 1]
        BY <2>4
      <3>2. CASE k = n
        <4>1. G[k] = z
          BY <3>2
        <4> QED
          BY <2>7, <3>1, <3>2, <4>1
      <3>3. CASE k # n
        <4>1. G[k] = F[k] /\ k \in 1 .. n - 1
          BY <2>4, <3>3
        <4> QED
          BY <2>6, <3>1, <4>1
      <3> QED
        BY <3>2, <3>3
    <2> HIDE DEF G
    <2> QED
      BY <2>2, <2>8, <2>9
  <1>2. Some(N)
    <2>1. N \in 0 .. N
      OBVIOUS
    <2> HIDE DEF Some
    <2> QED
      BY <1>1, <2>1
  <1>3. Len(seqs) = N
    OBVIOUS
  <1> HIDE DEF T
  <1> QED
    BY <1>2, <1>3 DEF Strung

\* The function of FlattenSeq.
IsFlatten(seqs, g) ==
    g = [e \in 1 .. Len(seqs) |-> IF e = 1 THEN seqs[e] ELSE g[e - 1] \o seqs[e]]

LEMMA FlattenFound ==
    ASSUME NEW seqs, Len(seqs) # 0, NEW g, IsFlatten(seqs, g)
    PROVE  \E f : IsFlatten(seqs, f) /\ Ext!FlattenSeq(seqs) = f[Len(seqs)]
  BY Zenon DEF IsFlatten, Ext!FlattenSeq

LEMMA FlattenStrung ==
    ASSUME NEW A, NEW N \in Nat, NEW seqs \in [1 .. N -> Seq(A)],
           NEW F \in [0 .. N -> Seq(A)], Strung(seqs, F)
    PROVE  Ext!FlattenSeq(seqs) = F[N]
  <1>1. Len(seqs) = N /\ seqs \in Seq(Seq(A))
    OBVIOUS
  <1>2. CASE N = 0
    <2>1. seqs = <<>>
      BY <1>1, <1>2, EmptySeq
    <2> QED
      BY <1>1, <1>2, <2>1 DEF Ext!FlattenSeq, Strung
  <1>3. CASE N # 0
    <2>1. \A k \in 1 .. N : F[k] = F[k - 1] \o seqs[k]
      BY <1>1 DEF Strung
    <2>2. F[1] = seqs[1]
      <3>1. 1 \in 1 .. N /\ 1 - 1 = 0 /\ seqs[1] \in Seq(A)
        BY <1>3
      <3>2. <<>> \o seqs[1] = seqs[1]
        BY <3>1, ConcatEmptySeq
      <3> QED
        BY <2>1, <3>1, <3>2 DEF Strung
    <2> DEFINE g == [e \in 1 .. N |-> F[e]]
    <2>3. ASSUME NEW e \in 1 .. N PROVE F[e] = IF e = 1 THEN seqs[e] ELSE g[e - 1] \o seqs[e]
      <3>1. CASE e = 1
        BY <2>2, <3>1
      <3>2. CASE e # 1
        <4>1. e - 1 \in 1 .. N
          BY <3>2
        <4>2. g[e - 1] = F[e - 1]
          BY <4>1
        <4> QED
          BY <2>1, <3>2, <4>2
      <3> QED
        BY <3>1, <3>2
    <2>4. g = [e \in 1 .. N |-> IF e = 1 THEN seqs[e] ELSE g[e - 1] \o seqs[e]]
      BY <2>3, Zenon
    <2> HIDE DEF g
    <2>5. PICK f : IsFlatten(seqs, f) /\ Ext!FlattenSeq(seqs) = f[Len(seqs)]
      BY <1>1, <1>3, <2>4, FlattenFound DEF IsFlatten
    <2>6. \A e \in 1 .. N : f[e] = IF e = 1 THEN seqs[e] ELSE f[e - 1] \o seqs[e]
      BY <1>1, <2>5 DEF IsFlatten
    <2> DEFINE T == {e \in 1 .. N : f[e] # F[e]}
    <2>7. T = {}
      <3> SUFFICES ASSUME T # {} PROVE FALSE
        OBVIOUS
      <3>1. PICK e \in T : \A m \in T : ~ (m < e)
        <4>1. T \subseteq Nat
          OBVIOUS
        <4> HIDE DEF T
        <4> QED
          BY <4>1, QP!LeastNumber
      <3>2. e \in 1 .. N /\ f[e] # F[e]
        BY <3>1
      <3>3. e # 1
        BY <2>2, <2>6, <3>2
      <3>4. e - 1 \in 1 .. N /\ e - 1 < e
        BY <3>2, <3>3
      <3>5. f[e - 1] = F[e - 1]
        BY <3>1, <3>4
      <3> QED
        BY <2>1, <2>6, <3>2, <3>3, <3>5
    <2>8. N \in 1 .. N
      BY <1>3
    <2> QED
      BY <1>1, <2>5, <2>7, <2>8
  <1> QED
    BY <1>2, <1>3

Over(A, a) == a \in Seq(A)
Glue(a, b, c) == c = a \o b

LEMMA OneLonger ==
    ASSUME NEW A, NEW a, NEW b, NEW c, Over(A, a), Over(A, b), Over(A, c),
           NEW x, Glue(a, b, x), NEW y, Glue(x, c, y), NEW z, Glue(b, c, z)
    PROVE  Glue(a, z, y)
  BY ConcatAssociative DEF Over, Glue

\* Where every one is a single item of text, they come to that text.
StrungOver(A, N, seqs, F, t) ==
    /\ N \in Nat /\ seqs \in [1 .. N -> Seq(A)]
    /\ F \in [0 .. N -> Seq(A)] /\ Strung(seqs, F)
    /\ t \in Seq(A) /\ Len(t) = N
Within(p, r, N) == p \in 0 .. N /\ r \in p .. N
Single(seqs, t, p, r) == \A k \in p + 1 .. r : seqs[k] = <<t[k]>>

LEMMA StrungText ==
    ASSUME NEW A, NEW N, NEW seqs, NEW F, NEW t, StrungOver(A, N, seqs, F, t),
           NEW p, NEW r, Within(p, r, N), Single(seqs, t, p, r)
    PROVE  Glue(F[p], SubSeq(t, p + 1, r), F[r])
  <1>0. /\ p \in 0 .. N /\ r \in p .. N
        /\ N \in Nat /\ t \in Seq(A) /\ Len(t) = N /\ t \in [1 .. N -> A] /\ Len(seqs) = N
        /\ F \in [0 .. N -> Seq(A)] /\ Strung(seqs, F)
    BY DEF StrungOver, Within
  <1> DEFINE T == {d \in 0 .. r - p : F[p + d] # F[p] \o SubSeq(t, p + 1, p + d)}
  <1>1. T = {}
    <2> SUFFICES ASSUME T # {} PROVE FALSE
      OBVIOUS
    <2>1. PICK d \in T : \A m \in T : ~ (m < d)
      <3>1. T \subseteq Nat
        BY <1>0
      <3> HIDE DEF T
      <3> QED
        BY <3>1, QP!LeastNumber
    <2>2. d \in 0 .. r - p /\ F[p + d] # F[p] \o SubSeq(t, p + 1, p + d)
      BY <2>1
    <2>3. d # 0
      <3>1. SubSeq(t, p + 1, p + 0) = <<>>
        BY <1>0, SubSeqEmpty
      <3>2. F[p] \in Seq(A) /\ p + 0 = p
        BY <1>0
      <3>3. F[p] \o <<>> = F[p]
        BY <3>2, ConcatEmptySeq
      <3> QED
        BY <2>2, <3>1, <3>2, <3>3
    <2>4. PICK k, j : /\ k = p + d /\ j = k - 1 /\ j = p + (d - 1) /\ d - 1 \in 0 .. r - p /\ d - 1 < d
                      /\ k \in p + 1 .. r /\ k \in 1 .. N /\ j \in 0 .. N /\ p + 1 \in 1 .. N
      <3>1. PICK k, j : k = p + d /\ j = p + (d - 1)
        OBVIOUS
      <3>2. p \in Nat /\ r \in Nat /\ p <= r /\ r <= N /\ d \in Nat /\ d <= r - p /\ d # 0
        BY <1>0, <2>2, <2>3
      <3>3. /\ j = k - 1 /\ d - 1 \in 0 .. r - p /\ d - 1 < d
            /\ k \in p + 1 .. r /\ k \in 1 .. N /\ j \in 0 .. N /\ p + 1 \in 1 .. N
        BY <1>0, <3>1, <3>2
      <3> QED
        BY <3>1, <3>3
    <2>5. F[j] = F[p] \o SubSeq(t, p + 1, j)
      BY <2>1, <2>4
    <2>6. F[k] = F[j] \o <<t[k]>>
      <3>1. F[k] = F[k - 1] \o seqs[k]
        BY <1>0, <2>4 DEF Strung
      <3> QED
        BY <2>4, <3>1 DEF Single
    <2>7. SubSeq(t, p + 1, k) = SubSeq(t, p + 1, j) \o <<t[k]>>
      <3>1. p + 1 \in 1 .. Len(t) /\ k \in p + 1 .. Len(t)
        BY <1>0, <2>4
      <3>2. SubSeq(t, p + 1, k) = SubSeq(t, p + 1, k - 1) \o <<t[k]>>
        BY <1>0, <3>1, SubSeqRecursiveSecond
      <3> QED
        BY <2>4, <3>2
    <2>8. F[p] \in Seq(A) /\ SubSeq(t, p + 1, j) \in Seq(A) /\ <<t[k]>> \in Seq(A)
      <3>1. t[k] \in A /\ \A e \in p + 1 .. j : t[e] \in A
        BY <1>0, <2>4
      <3>2. SubSeq(t, p + 1, j) \in Seq(A)
        BY <2>4, <3>1, SubSeqProperties
      <3>3. F[p] \in Seq(A)
        BY <1>0
      <3> QED
        BY <3>1, <3>2, <3>3
    <2>9. F[k] = F[p] \o SubSeq(t, p + 1, k)
      <3>1. PICK a, b, c, x, y, z :
                /\ a = F[p] /\ b = SubSeq(t, p + 1, j) /\ c = <<t[k]>>
                /\ x = F[j] /\ y = F[k] /\ z = SubSeq(t, p + 1, k)
        OBVIOUS
      <3>2. a \in Seq(A) /\ b \in Seq(A) /\ c \in Seq(A)
        BY <2>8, <3>1, Zenon
      <3>3. x = a \o b /\ y = x \o c /\ z = b \o c
        BY <2>5, <2>6, <2>7, <3>1, Zenon
      <3>4. Glue(a, z, y)
        <4>1. Over(A, a) /\ Over(A, b) /\ Over(A, c)
          BY <3>2, Zenon DEF Over
        <4>2. Glue(a, b, x) /\ Glue(x, c, y) /\ Glue(b, c, z)
          BY <3>3, Zenon DEF Glue
        <4> QED
          BY <4>1, <4>2, OneLonger
      <3> QED
        BY <3>1, <3>4, Zenon DEF Glue
    <2> QED
      BY <2>2, <2>4, <2>9
  <1>2. r - p \in 0 .. r - p /\ p + (r - p) = r
    BY <1>0
  <1> QED
    BY <1>1, <1>2 DEF Glue

-------------------------------------------------------------------------------
(* The placeholders of the query, and what they are replaced by.           *)

TextTypes ==
    /\ sql \in Seq(Alphabet) /\ params \in Seq(BOOLEAN)
    /\ sql # <<>>

MarksTo(k) == {m \in Marks(sql) : m <= k}

LEMMA OrdinalIs ==
    ASSUME TextTypes, NEW k
    PROVE  /\ P!Ordinal(k) = Cardinality(MarksTo(k)) /\ IsFiniteSet(MarksTo(k))
           /\ Cardinality(MarksTo(k)) \in Nat
           /\ IsFiniteSet(Marks(sql)) /\ Marks(sql) \subseteq 1 .. Len(sql)
           /\ Cardinality(Marks(sql)) \in Nat
  <1>1. P!Ordinal(k) = Cardinality(MarksTo(k))
    BY CardinalityInP, Zenon DEF P!Ordinal, MarksTo, Marks
  <1>2. Marks(sql) \subseteq 1 .. Len(sql)
    BY DEF TextTypes, Marks, P!Placeholders
  <1>3. IsFiniteSet(1 .. Len(sql))
    BY FS_Interval DEF TextTypes
  <1>4. IsFiniteSet(Marks(sql))
    BY <1>2, <1>3, FS_Subset
  <1>5. IsFiniteSet(MarksTo(k))
    BY <1>4, FS_Subset DEF MarksTo
  <1> QED
    BY <1>1, <1>2, <1>4, <1>5, FS_CardinalityType

LEMMA OrdinalNext ==
    ASSUME TextTypes, NEW p \in 0 .. Len(sql), NEW r \in Marks(sql), p < r,
           \A k \in p + 1 .. r - 1 : k \notin Marks(sql)
    PROVE  P!Ordinal(r) = P!Ordinal(p) + 1
  <1>1. Marks(sql) \subseteq 1 .. Len(sql)
    BY OrdinalIs
  <1>2. PICK n : n = Len(sql) /\ n \in Nat
    BY DEF TextTypes
  <1>3. ASSUME NEW m PROVE m \in MarksTo(r) <=> m \in MarksTo(p) \cup {r}
    BY <1>1, <1>2 DEF MarksTo
  <1>4. MarksTo(r) = MarksTo(p) \cup {r} /\ r \notin MarksTo(p)
    BY <1>1, <1>2, <1>3 DEF MarksTo
  <1> QED
    BY <1>4, OrdinalIs, FS_AddElement

LEMMA OrdinalLast ==
    ASSUME TextTypes, NEW p \in 0 .. Len(sql),
           \A k \in p + 1 .. Len(sql) : k \notin Marks(sql)
    PROVE  P!Ordinal(p) = Cardinality(Marks(sql))
  <1>1. Marks(sql) \subseteq 1 .. Len(sql)
    BY OrdinalIs
  <1>2. PICK n : n = Len(sql) /\ n \in Nat
    BY DEF TextTypes
  <1>3. MarksTo(p) = Marks(sql)
    BY <1>1, <1>2 DEF MarksTo
  <1> QED
    BY <1>3, OrdinalIs

LEMMA OrdinalAfter ==
    ASSUME TextTypes, NEW p \in 0 .. Len(sql), NEW r \in Marks(sql), p < r
    PROVE  /\ P!Ordinal(p) < P!Ordinal(r) /\ P!Ordinal(r) <= Cardinality(Marks(sql))
  <1>1. Marks(sql) \subseteq 1 .. Len(sql)
    BY OrdinalIs
  <1>2. PICK n : n = Len(sql) /\ n \in Nat
    BY DEF TextTypes
  <1>3. MarksTo(p) \cup {r} \subseteq MarksTo(r) /\ r \notin MarksTo(p) /\ MarksTo(r) \subseteq Marks(sql)
    BY <1>1, <1>2 DEF MarksTo
  <1>4. Cardinality(MarksTo(p) \cup {r}) = Cardinality(MarksTo(p)) + 1
    BY <1>3, OrdinalIs, FS_AddElement
  <1>5. Cardinality(MarksTo(p) \cup {r}) <= Cardinality(MarksTo(r))
    BY <1>3, OrdinalIs, FS_Subset
  <1>6. Cardinality(MarksTo(r)) <= Cardinality(Marks(sql))
    BY <1>3, OrdinalIs, FS_Subset
  <1>7. PICK a, b, c : a = Cardinality(MarksTo(p)) /\ b = Cardinality(MarksTo(r)) /\ c = Cardinality(Marks(sql))
                       /\ a \in Nat /\ b \in Nat /\ c \in Nat
    BY OrdinalIs
  <1> QED
    BY <1>4, <1>5, <1>6, <1>7, OrdinalIs

\* No placeholder before the first character.
LEMMA OrdinalNone ==
    ASSUME TextTypes
    PROVE  P!Ordinal(0) = 0
  <1>1. MarksTo(0) = {}
    <2>1. Marks(sql) \subseteq 1 .. Len(sql) /\ Len(sql) \in Nat
      BY OrdinalIs DEF TextTypes
    <2> QED
      BY <2>1 DEF MarksTo
  <1> QED
    BY <1>1, OrdinalIs, FS_EmptySet

LEMMA NextMark ==
    ASSUME TextTypes, NEW p \in 0 .. Len(sql), p # 0 => p \in Marks(sql),
           NEW f, f = P!find_placeholder(SubSeq(sql, p + 1, Len(sql)))
    PROVE  \/ f = -1 /\ \A k \in p + 1 .. Len(sql) : k \notin Marks(sql)
           \/ /\ f \in 0 .. Len(sql) - p - 1 /\ p + f + 1 \in Marks(sql)
              /\ \A k \in p + 1 .. p + f : k \notin Marks(sql)
  <1>1. sql \in Seq(Alphabet) /\ Len(sql) \in Nat
    BY DEF TextTypes
  <1>2. Even(sql, p)
    <2>1. CASE p = 0
      BY <1>1, <2>1, EvenAtStart
    <2>2. CASE p # 0
      <3>1. p \in 1 .. Len(sql) /\ p - 1 \in 0 .. Len(sql) - 1 /\ (p - 1) + 1 = p
        BY <1>1, <2>2
      <3>2. sql[p] = "?" /\ Even(sql, p - 1)
        BY <1>1, <2>2, <3>1, MarksAre
      <3>3. Even(sql, (p - 1) + 1) <=> (Even(sql, p - 1) <=> sql[(p - 1) + 1] # "'")
        BY <1>1, <3>1, EvenNext
      <3> QED
        BY <3>1, <3>2, <3>3
    <2> QED
      BY <2>1, <2>2
  <1>3. PICK n, t : n = Len(sql) /\ n \in Nat /\ t = Behind(sql, p) /\ t \in Seq(Alphabet) /\ Len(t) = n - p
    <2>1. Behind(sql, p) \in Seq(Alphabet) /\ Len(Behind(sql, p)) = Len(sql) - p
      BY <1>1, Suffix
    <2> QED
      BY <1>1, <2>1, Zenon
  <1>4. ASSUME NEW k \in 1 .. n - p PROVE k \in Marks(t) <=> p + k \in Marks(sql)
    BY <1>1, <1>2, <1>3, MarksBehind
  <1>5. f = P!find_placeholder(t)
    BY <1>3, Zenon DEF Behind
  <1>6. \/ f = -1 /\ \A k \in 1 .. n - p : k \notin Marks(t)
        \/ f \in 0 .. n - p - 1 /\ f + 1 \in Marks(t) /\ \A k \in 1 .. f : k \notin Marks(t)
    <2>1. \/ f = -1 /\ \A k \in 1 .. Len(t) : k \notin Marks(t)
          \/ f \in 0 .. Len(t) - 1 /\ f + 1 \in Marks(t) /\ \A k \in 1 .. f : k \notin Marks(t)
      BY <1>3, <1>5, FindPlaceholder
    <2> QED
      BY <1>3, <2>1
  <1>7. CASE f = -1 /\ \A k \in 1 .. n - p : k \notin Marks(t)
    <2>1. ASSUME NEW k \in p + 1 .. n PROVE k \notin Marks(sql)
      <3>1. k - p \in 1 .. n - p /\ p + (k - p) = k
        BY <1>3
      <3> QED
        BY <1>4, <1>7, <3>1
    <2> QED
      BY <1>3, <1>7, <2>1
  <1>8. CASE f \in 0 .. n - p - 1 /\ f + 1 \in Marks(t) /\ \A k \in 1 .. f : k \notin Marks(t)
    <2>1. ASSUME NEW k \in p + 1 .. p + f PROVE k \notin Marks(sql)
      <3>1. k - p \in 1 .. n - p /\ k - p \in 1 .. f /\ p + (k - p) = k
        BY <1>3, <1>8
      <3> QED
        BY <1>4, <1>8, <3>1
    <2>2. f + 1 \in 1 .. n - p /\ p + (f + 1) = p + f + 1
      BY <1>3, <1>8
    <2>3. p + f + 1 \in Marks(sql)
      BY <1>4, <1>8, <2>2
    <2> QED
      BY <1>3, <1>8, <2>1, <2>3
  <1> QED
    BY <1>6, <1>7, <1>8

Output == Alphabet \cup {"magic"} \cup {P!Value(n) : n \in Nat}

\* What becomes of the character k.
Item(k) ==
    IF k \in Marks(sql) /\ P!Ordinal(k) <= Len(params) THEN P!Quoted(P!Ordinal(k)) ELSE <<sql[k]>>
Items == [k \in DOMAIN sql |-> Item(k)]

\* What becomes of the characters up to k.
Prefixes == CHOOSE F \in [0 .. Len(sql) -> Seq(Output)] : Strung(Items, F)
Before == IF P!WithMagic THEN <<"magic">> ELSE <<>>

LEMMA QuotedType ==
    ASSUME TextTypes, NEW n \in 1 .. Len(params)
    PROVE  P!Quoted(n) \in Seq(Output)
  <1>1. n \in Nat
    OBVIOUS
  <1>2. P!Value(n) \in Output /\ "'" \in Output
    BY <1>1 DEF Output, Alphabet
  <1> HIDE DEF Output
  <1>3. \A y \in Output : <<"'", y, "'">> \in Seq(Output) /\ <<y>> \in Seq(Output)
    BY <1>2
  <1> QED
    BY <1>2, <1>3, Zenon DEF P!Quoted

LEMMA ItemType ==
    ASSUME TextTypes
    PROVE  Items \in [1 .. Len(sql) -> Seq(Output)]
  <1>1. ASSUME NEW k \in 1 .. Len(sql) PROVE Item(k) \in Seq(Output)
    <2>1. CASE k \in Marks(sql) /\ P!Ordinal(k) <= Len(params)
      <3>1. P!Ordinal(0) < P!Ordinal(k) /\ P!Ordinal(0) = 0
        <4>1. Len(sql) \in Nat /\ 0 \in 0 .. Len(sql) /\ 0 < k
          BY DEF TextTypes
        <4> QED
          BY <2>1, <4>1, OrdinalAfter, OrdinalNone
      <3>2. P!Ordinal(k) \in 1 .. Len(params)
        <4>1. P!Ordinal(k) \in Nat /\ Len(params) \in Nat
          BY OrdinalIs DEF TextTypes
        <4> QED
          BY <2>1, <3>1, <4>1
      <3> QED
        BY <2>1, <3>2, QuotedType DEF Item
    <2>2. CASE ~ (k \in Marks(sql) /\ P!Ordinal(k) <= Len(params))
      <3>1. sql[k] \in Output
        BY DEF TextTypes, Output
      <3>2. Item(k) = <<sql[k]>>
        BY <2>2, Zenon DEF Item
      <3> HIDE DEF Output
      <3> QED
        BY <3>1, <3>2
    <2> QED
      BY <2>1, <2>2
  <1>2. DOMAIN sql = 1 .. Len(sql)
    BY DEF TextTypes
  <1>3. [k \in 1 .. Len(sql) |-> Item(k)] \in [1 .. Len(sql) -> Seq(Output)]
    BY <1>1, Zenon
  <1> QED
    BY <1>2, <1>3, Zenon DEF Items

LEMMA FlattenInP == \A x : P!FlattenSeq(x) = Ext!FlattenSeq(x)
  BY Zenon DEF P!FlattenSeq, Ext!FlattenSeq

LEMMA PrefixesAre ==
    ASSUME TextTypes
    PROVE  /\ Prefixes \in [0 .. Len(sql) -> Seq(Output)] /\ Strung(Items, Prefixes)
           /\ P!Replaced = Prefixes[Len(sql)]
  <1>1. PICK n : n = Len(sql) /\ n \in Nat
    BY DEF TextTypes
  <1>2. Items \in [1 .. n -> Seq(Output)]
    BY <1>1, ItemType
  <1>3. \E F \in [0 .. n -> Seq(Output)] : Strung(Items, F)
    BY <1>1, <1>2, StrungExists
  <1>4. PICK F : F = Prefixes /\ F \in [0 .. n -> Seq(Output)] /\ Strung(Items, F)
    BY <1>1, <1>3, Zenon DEF Prefixes
  <1>5. Ext!FlattenSeq(Items) = F[n]
    BY <1>1, <1>2, <1>4, FlattenStrung
  <1>6. P!Replaced = Ext!FlattenSeq(Items)
    <2>1. P!Replaced = P!FlattenSeq(Items)
      BY Zenon DEF P!Replaced, Items, Item, Marks
    <2> QED
      BY <2>1, FlattenInP, Zenon
  <1> QED
    BY <1>1, <1>4, <1>5, <1>6

\* A stretch of the text that stays as it is.
LEMMA TextBetween ==
    ASSUME TextTypes, NEW p \in 0 .. Len(sql), NEW r \in p .. Len(sql),
           \A k \in p + 1 .. r : Item(k) = <<sql[k]>>
    PROVE  /\ Prefixes[r] = Prefixes[p] \o SubSeq(sql, p + 1, r)
           /\ SubSeq(sql, p + 1, r) \in Seq(Output)
  <1>1. PICK n, F : n = Len(sql) /\ n \in Nat /\ F = Prefixes
    <2>1. Len(sql) \in Nat
      BY DEF TextTypes
    <2> QED
      BY <2>1, Zenon
  <1>2. Items \in [1 .. n -> Seq(Output)] /\ F \in [0 .. n -> Seq(Output)] /\ Strung(Items, F)
    BY <1>1, ItemType, PrefixesAre
  <1>3. sql \in Seq(Output)
    BY SeqMonotonic DEF TextTypes, Output
  <1>4. \A k \in p + 1 .. r : Items[k] = <<sql[k]>>
    <2> TAKE k \in p + 1 .. r
    <2>1. k \in DOMAIN sql
      BY <1>1 DEF TextTypes
    <2> QED
      BY <2>1, Zenon DEF Items
  <1>5. F[r] = F[p] \o SubSeq(sql, p + 1, r)
    <2>1. PICK t, q, A : t = sql /\ q = Items /\ A = Output
      BY Zenon
    <2>2. StrungOver(A, n, q, F, t)
      <3>1. Len(t) = n /\ t \in Seq(A)
        BY <1>1, <1>3, <2>1, Zenon
      <3>2. q \in [1 .. n -> Seq(A)] /\ F \in [0 .. n -> Seq(A)] /\ Strung(q, F)
        BY <1>2, <2>1, Zenon
      <3> QED
        BY <1>1, <3>1, <3>2, Zenon DEF StrungOver
    <2>3. Single(q, t, p, r) /\ Within(p, r, n)
      BY <1>1, <1>4, <2>1, Zenon DEF Single, Within
    <2>4. Glue(F[p], SubSeq(t, p + 1, r), F[r])
      BY <2>2, <2>3, StrungText
    <2> QED
      BY <2>1, <2>4, Zenon DEF Glue
  <1>6. SubSeq(sql, p + 1, r) \in Seq(Output)
    <2>1. p + 1 \in Int /\ r \in Int /\ \A k \in p + 1 .. r : sql[k] \in Output
      <3>1. \A k \in p + 1 .. r : k \in 1 .. Len(sql)
        BY <1>1
      <3> QED
        BY <1>1, <1>3, <3>1
    <2> QED
      BY <2>1, SubSeqProperties
  <1> QED
    BY <1>1, <1>5, <1>6, Zenon

\* There is a place for each of n parameters, or for none.
Placed(n) == Marks(sql) = {} \/ n <= Cardinality(Marks(sql))

\* Where the loop has come to, and what it has made of the text before.
TextInv ==
    /\ TextTypes
    /\ i \in 0 .. Len(params) /\ pos \in 0 .. Len(sql) /\ (pos # 0 => pos \in Marks(sql))
    /\ params_pc = "loop" /\ Placed(i) =>
          /\ sb = Before \o Prefixes[pos]
          /\ Marks(sql) # {} => P!Ordinal(pos) = i
    /\ params_pc # "loop" /\ Placed(Len(params)) => sb = Before \o Prefixes[Len(sql)]
    /\ params_pc = "done" /\ ~ named => to_driver = sb

LEMMA TextStays ==
    ASSUME P!input' = P!input
    PROVE  /\ sql' = sql /\ params' = params /\ named' = named
           /\ TextTypes' = TextTypes /\ Prefixes' = Prefixes /\ Before' = Before
           /\ \A n : Placed(n)' = Placed(n) /\ P!Ordinal(n)' = P!Ordinal(n)
           /\ Marks(sql)' = Marks(sql)
  <1>1. sql' = sql /\ params' = params /\ nomagic' = nomagic /\ named' = named
    BY DEF P!input
  <1>2. TextTypes' = TextTypes
    BY <1>1 DEF TextTypes
  <1>3. Before' = Before
    BY <1>1 DEF Before, P!WithMagic
  <1>4. Marks(sql)' = Marks(sql)
    BY <1>1
  <1>5. ASSUME NEW n PROVE Placed(n)' = Placed(n) /\ P!Ordinal(n)' = P!Ordinal(n)
    BY <1>1 DEF Placed, P!Ordinal
  <1>6. Items' = Items
    BY <1>1, Zenon DEF Items, Item, P!Quoted, P!Ordinal
  <1>7. Prefixes' = Prefixes
    BY <1>1, <1>6, Zenon DEF Prefixes
  <1> QED
    BY <1>1, <1>2, <1>3, <1>4, <1>5, <1>7

LEMMA TwoLonger ==
    ASSUME NEW A, NEW a, NEW b, NEW c, NEW d, Over(A, a), Over(A, b), Over(A, c), Over(A, d),
           NEW e, Glue(b, c, e), NEW g, Glue(e, d, g)
    PROVE  Glue(a, g, ((a \o b) \o c) \o d)
  <1>1. PICK x, y : x = a \o b /\ y = x \o c
    OBVIOUS
  <1>2. Over(A, x) /\ Over(A, y) /\ Over(A, e)
    BY <1>1, ConcatProperties DEF Over, Glue
  <1>3. Glue(a, e, y)
    BY <1>1, OneLonger DEF Glue
  <1>4. PICK z : z = y \o d
    OBVIOUS
  <1>5. Glue(y, d, z)
    BY <1>4 DEF Glue
  <1>6. Glue(a, g, z)
    BY <1>2, <1>3, <1>5, OneLonger
  <1> QED
    BY <1>1, <1>4, <1>6

LEMMA BeforeType == Over(Output, Before)
  <1>1. "magic" \in Output
    BY DEF Output
  <1>2. <<"magic">> \in Seq(Output) /\ <<>> \in Seq(Output)
    BY <1>1
  <1> QED
    BY <1>2, Zenon DEF Over, Before

LEMMA UnmarkedItem ==
    ASSUME TextTypes, NEW p, NEW r, \A k \in p + 1 .. r : k \notin Marks(sql)
    PROVE  \A k \in p + 1 .. r : Item(k) = <<sql[k]>>
  BY Zenon DEF Item

LEMMA ResolveStep ==
    ASSUME TextInv, P!Resolve
    PROVE  TextInv'
  <1>1. PICK f : f = P!find_placeholder(SubSeq(sql, pos + 1, Len(sql)))
    OBVIOUS
  <1>2. /\ params_pc = "loop" /\ i < Len(params) /\ i' = i + 1
        /\ P!input' = P!input /\ params_pc' = params_pc /\ to_driver' = to_driver
    BY Zenon DEF P!Resolve
  <1>3. \/ pos + f = -1 /\ pos' = pos /\ sb' = sb
        \/ /\ pos + f # -1 /\ pos' = pos + f + 1
           /\ sb' = sb \o SubSeq(sql, pos + 1, IF pos + f < pos THEN Len(sql) ELSE pos + f)
                      \o P!Quoted(i + 1)
    BY <1>1, Zenon DEF P!Resolve
  <1>4. /\ TextTypes /\ i \in 0 .. Len(params) /\ pos \in 0 .. Len(sql)
        /\ (pos # 0 => pos \in Marks(sql)) /\ Len(params) \in Nat /\ Len(sql) \in Nat
        /\ Placed(i) => sb = Before \o Prefixes[pos] /\ (Marks(sql) # {} => P!Ordinal(pos) = i)
    BY <1>2 DEF TextInv, TextTypes
  <1>5. /\ Marks(sql) \subseteq 1 .. Len(sql) /\ Cardinality(Marks(sql)) \in Nat
    BY <1>4, OrdinalIs
  <1>6. \/ f = -1 /\ \A k \in pos + 1 .. Len(sql) : k \notin Marks(sql)
        \/ /\ f \in 0 .. Len(sql) - pos - 1 /\ pos + f + 1 \in Marks(sql)
           /\ \A k \in pos + 1 .. pos + f : k \notin Marks(sql)
    BY <1>1, <1>4, NextMark
  <1>7. SUFFICES /\ pos' \in 0 .. Len(sql) /\ (pos' # 0 => pos' \in Marks(sql))
                 /\ Placed(i + 1) => /\ sb' = Before \o Prefixes[pos']
                                     /\ Marks(sql) # {} => P!Ordinal(pos') = i + 1
    <2>1. i + 1 \in 0 .. Len(params)
      BY <1>2, <1>4
    <2> QED
      BY <1>2, <1>4, <2>1, TextStays DEF TextInv
  <1>8. CASE f = -1 /\ pos = 0
    <2>1. pos' = 0 /\ sb' = sb
      BY <1>3, <1>8
    <2>2. Marks(sql) = {}
      BY <1>4, <1>5, <1>6, <1>8
    <2> QED
      BY <1>4, <1>8, <2>1, <2>2 DEF Placed
  <1>9. CASE f = -1 /\ pos # 0
    <2>1. pos' = pos
      <3>1. pos + f # -1 /\ pos + f + 1 = pos
        BY <1>4, <1>9
      <3> QED
        BY <1>3, <3>1, Zenon
    <2>2. P!Ordinal(pos) = Cardinality(Marks(sql))
      BY <1>4, <1>6, <1>9, OrdinalLast
    <2>3. ~ Placed(i + 1)
      <3>1. PICK c : c = Cardinality(Marks(sql)) /\ c \in Nat
        BY <1>5
      <3>2. Marks(sql) # {}
        BY <1>4, <1>9
      <3>3. Placed(i + 1) => i + 1 <= c /\ i <= c
        BY <1>4, <3>1, <3>2 DEF Placed
      <3>4. i <= c => i = c
        BY <1>4, <2>2, <3>1, <3>2 DEF Placed
      <3> QED
        BY <1>4, <3>1, <3>3, <3>4
    <2> QED
      BY <1>4, <1>9, <2>1, <2>3
  <1>10. CASE f # -1
    <2>1. PICK r : /\ r = pos + f /\ r \in pos .. Len(sql) /\ r + 1 \in Marks(sql) /\ r + 1 \in 1 .. Len(sql)
                   /\ \A k \in pos + 1 .. r : k \notin Marks(sql)
      BY <1>4, <1>5, <1>6, <1>10
    <2>2. pos' = r + 1 /\ sb' = (sb \o SubSeq(sql, pos + 1, r)) \o P!Quoted(i + 1)
      <3>1. pos + f # -1 /\ pos + f = r /\ ~ (r < pos) /\ pos + f + 1 = r + 1
        BY <1>4, <2>1
      <3>2. sb' = sb \o SubSeq(sql, pos + 1, r) \o P!Quoted(i + 1)
        BY <1>3, <3>1, Zenon
      <3> QED
        BY <1>3, <3>1, <3>2, Zenon
    <2>3. ASSUME Placed(i + 1) PROVE sb' = Before \o Prefixes[r + 1] /\ P!Ordinal(r + 1) = i + 1
      <3>1. Marks(sql) # {} /\ Placed(i)
        BY <1>4, <1>5, <2>1, <2>3 DEF Placed
      <3>2. sb = Before \o Prefixes[pos] /\ P!Ordinal(pos) = i
        BY <1>4, <3>1
      <3>3. P!Ordinal(r + 1) = i + 1
        <4>1. pos < r + 1 /\ (r + 1) - 1 = r
          BY <1>4, <2>1
        <4> QED
          BY <1>4, <2>1, <3>2, <4>1, OrdinalNext
      <3>4. /\ Prefixes[r] = Prefixes[pos] \o SubSeq(sql, pos + 1, r)
            /\ SubSeq(sql, pos + 1, r) \in Seq(Output)
        <4>1. \A k \in pos + 1 .. r : Item(k) = <<sql[k]>>
          BY <1>4, <2>1, UnmarkedItem
        <4> QED
          BY <1>4, <2>1, <4>1, TextBetween
      <3>5. Prefixes[r + 1] = Prefixes[r] \o P!Quoted(i + 1)
        <4>1. Items[r + 1] = P!Quoted(i + 1)
          <5>1. r + 1 \in DOMAIN sql /\ i + 1 <= Len(params)
            BY <1>2, <1>4, <2>1 DEF TextTypes
          <5> QED
            BY <2>1, <3>3, <5>1, Zenon DEF Items, Item
        <4>2. Len(Items) = Len(sql)
          BY <1>4, ItemType
        <4>3. (r + 1) - 1 = r
          BY <1>4, <2>1
        <4> QED
          BY <1>4, <2>1, <4>1, <4>2, <4>3, PrefixesAre DEF Strung
      <3>6. Over(Output, Prefixes[pos]) /\ Over(Output, P!Quoted(i + 1))
        <4>1. Prefixes[pos] \in Seq(Output)
          BY <1>4, PrefixesAre
        <4>2. i + 1 \in 1 .. Len(params)
          BY <1>2, <1>4
        <4> QED
          BY <1>4, <4>1, <4>2, QuotedType DEF Over
      <3>7. Glue(Before, Prefixes[r + 1],
                 ((Before \o Prefixes[pos]) \o SubSeq(sql, pos + 1, r)) \o P!Quoted(i + 1))
        <4>1. Glue(Prefixes[pos], SubSeq(sql, pos + 1, r), Prefixes[r])
          BY <3>4 DEF Glue
        <4>2. Glue(Prefixes[r], P!Quoted(i + 1), Prefixes[r + 1])
          BY <3>5 DEF Glue
        <4>3. Over(Output, SubSeq(sql, pos + 1, r))
          BY <3>4 DEF Over
        <4> QED
          BY <3>6, <4>1, <4>2, <4>3, BeforeType, TwoLonger
      <3> QED
        BY <2>2, <3>2, <3>3, <3>7, Zenon DEF Glue
    <2>4. r + 1 \in 0 .. Len(sql)
      BY <1>4, <2>1
    <2> QED
      BY <2>1, <2>2, <2>3, <2>4, Zenon
  <1> QED
    BY <1>8, <1>9, <1>10

LEMMA ResolveEndStep ==
    ASSUME TextInv, P!ResolveEnd
    PROVE  TextInv'
  <1>1. /\ params_pc = "loop" /\ i = Len(params) /\ sb' = sb \o SubSeq(sql, pos + 1, Len(sql))
        /\ P!input' = P!input /\ params_pc' = "send" /\ i' = i /\ pos' = pos
    BY Zenon DEF P!ResolveEnd
  <1>2. /\ TextTypes /\ i \in 0 .. Len(params) /\ pos \in 0 .. Len(sql)
        /\ (pos # 0 => pos \in Marks(sql)) /\ Len(params) \in Nat /\ Len(sql) \in Nat
        /\ Placed(i) => sb = Before \o Prefixes[pos] /\ (Marks(sql) # {} => P!Ordinal(pos) = i)
    BY <1>1 DEF TextInv, TextTypes
  <1>3. SUFFICES ASSUME Placed(Len(params)) PROVE sb' = Before \o Prefixes[Len(sql)]
    BY <1>1, <1>2, TextStays DEF TextInv
  <1>4. sb = Before \o Prefixes[pos] /\ (Marks(sql) # {} => P!Ordinal(pos) = i)
    BY <1>1, <1>2, <1>3
  <1>5. ASSUME NEW k \in pos + 1 .. Len(sql) PROVE Item(k) = <<sql[k]>>
    <2>1. CASE k \notin Marks(sql)
      BY <2>1, Zenon DEF Item
    <2>2. CASE k \in Marks(sql)
      <3>1. P!Ordinal(pos) < P!Ordinal(k) /\ P!Ordinal(pos) = Len(params)
        <4>1. pos < k
          BY <1>2
        <4> QED
          BY <1>1, <1>2, <1>4, <2>2, <4>1, OrdinalAfter
      <3>2. P!Ordinal(k) \in Nat
        BY <1>2, OrdinalIs
      <3>3. ~ (P!Ordinal(k) <= Len(params))
        BY <1>2, <3>1, <3>2
      <3> QED
        BY <3>3, Zenon DEF Item
    <2> QED
      BY <2>1, <2>2
  <1>6. PICK n : n = Len(sql) /\ n \in pos .. Len(sql)
    BY <1>2
  <1>7. /\ Prefixes[n] = Prefixes[pos] \o SubSeq(sql, pos + 1, n)
        /\ SubSeq(sql, pos + 1, n) \in Seq(Output)
    BY <1>2, <1>5, <1>6, TextBetween
  <1>8. Prefixes[pos] \in Seq(Output)
    BY <1>2, PrefixesAre
  <1>9. PICK a, b, c, x, y, z : /\ a = Before /\ b = Prefixes[pos] /\ c = SubSeq(sql, pos + 1, n)
                                /\ x = a \o b /\ y = x \o c /\ z = Prefixes[n]
    OBVIOUS
  <1>10. Glue(a, z, y)
    <2>1. Over(Output, a) /\ Over(Output, b) /\ Over(Output, c)
      BY <1>7, <1>8, <1>9, BeforeType, Zenon DEF Over
    <2>2. Glue(a, b, x) /\ Glue(x, c, y) /\ Glue(b, c, z)
      BY <1>7, <1>9, Zenon DEF Glue
    <2> QED
      BY <2>1, <2>2, OneLonger
  <1> QED
    BY <1>1, <1>4, <1>6, <1>9, <1>10, Zenon DEF Glue

LEMMA SendStep ==
    ASSUME TextInv, P!Send
    PROVE  TextInv'
  <1>1. /\ params_pc = "send" /\ params_pc' = "done" /\ (~ named => to_driver' = sb)
        /\ P!input' = P!input /\ i' = i /\ pos' = pos /\ sb' = sb
    BY DEF P!Send
  <1> QED
    BY <1>1, TextStays DEF TextInv

ParamsInv == IF part = "params" THEN TextInv ELSE params_pc = "loop"

LEMMA MostParams == MaxText \in Nat \ {0} /\ MaxParams \in Nat
  <1>1. IsFiniteSet(Values) /\ P!Cardinality(Values) = Cardinality(Values)
    BY CardinalityInP, PartsAssumption, Zenon DEF P!ParamsAssumption, P!IsFiniteSet, IsFiniteSet
  <1>2. Cardinality(Values) \in Nat
    BY <1>1, FS_CardinalityType
  <1> QED
    BY <1>1, <1>2, PartsAssumption DEF P!ParamsAssumption

LEMMA BoundedInP ==
    ASSUME NEW A, NEW n \in Nat, NEW x \in P!BoundedSeq(A, n)
    PROVE  x \in Seq(A) /\ Len(x) <= n
  BY DEF P!BoundedSeq, P!SeqOf

LEMMA ParamsStart == MCInit => ParamsInv
  <1> SUFFICES ASSUME MCInit PROVE ParamsInv
    OBVIOUS
  <1>1. CASE part # "params"
    BY <1>1 DEF MCInit, TextAtRest, ParamsInv
  <1>2. CASE part = "params"
    <2>1. P!Init
      BY <1>2 DEF MCInit
    <2>2. MaxText \in Nat /\ MaxParams \in Nat
      BY MostParams
    <2>3. TextTypes
      <3>1. sql \in Seq(Alphabet) /\ sql # <<>>
        BY <2>1, <2>2, BoundedInP DEF P!Init, P!Texts, Alphabet
      <3>2. params \in Seq(BOOLEAN) /\ Len(params) <= MaxParams
        BY <2>1, <2>2, BoundedInP DEF P!Init
      <3>3. Len(params) \in Nat
        BY <3>2, LenProperties
      <3> QED
        BY <2>2, <3>1, <3>2, <3>3 DEF TextTypes
    <2>4. sb = Before /\ i = 0 /\ pos = 0 /\ params_pc = "loop"
      BY <2>1 DEF P!Init, Before
    <2>5. Before \o Prefixes[0] = Before
      <3>1. Prefixes[0] = <<>>
        BY <2>3, PrefixesAre DEF Strung
      <3> QED
        BY <3>1, BeforeType, ConcatEmptySeq DEF Over
    <2>6. Len(params) \in Nat /\ Len(sql) \in Nat
      BY <2>3, LenProperties DEF TextTypes
    <2> QED
      BY <1>2, <2>3, <2>4, <2>5, <2>6, OrdinalNone DEF ParamsInv, TextInv
  <1> QED
    BY <1>1, <1>2

LEMMA ParamsStep == ParamsInv /\ [MCNext]_all => ParamsInv'
  <1> SUFFICES ASSUME ParamsInv, [MCNext]_all PROVE ParamsInv'
    OBVIOUS
  <1>1. CASE part' = part /\ UNCHANGED text
    <2>1. TextInv => TextInv'
      BY <1>1, TextStays DEF TextInv, text, P!input
    <2> QED
      BY <1>1, <2>1 DEF ParamsInv, text
  <1>2. CASE part = "params" /\ part' = part /\ P!Next
    BY <1>2, ResolveStep, ResolveEndStep, SendStep DEF ParamsInv, P!Next
  <1> QED
    BY <1>1, <1>2 DEF MCNext, all

\* Each parameter takes the place of its own question mark, in whatever place
\* quotes and question marks stand, and the driver gets that text when the request
\* names no connection (db.c 589-622, 782-816).
THEOREM ParamsResolvedHolds == MCSpec => []ParamsResolved
  <1>1. ParamsInv => ParamsResolved
    <2> SUFFICES ASSUME ParamsInv PROVE ParamsResolved
      OBVIOUS
    <2>1. CASE part # "params"
      BY <2>1 DEF ParamsInv, ParamsResolved, P!ResolvesPlaceholders, P!DriverGetsResolved
    <2>2. CASE part = "params"
      <3>1. TextInv
        BY <2>2 DEF ParamsInv
      <3>2. P!DriverGetsResolved
        BY <3>1 DEF TextInv, P!DriverGetsResolved
      <3>3. P!Reference = Before \o Prefixes[Len(sql)]
        <4>1. TextTypes
          BY <3>1 DEF TextInv
        <4> QED
          BY <4>1, PrefixesAre, Zenon DEF P!Reference, Before
      <3>4. P!Placeholders(sql) = {} \/ Len(params) =< P!Cardinality(P!Placeholders(sql)) => Placed(Len(params))
        BY CardinalityInP, Zenon DEF Placed, Marks
      <3>5. P!ResolvesPlaceholders
        BY <3>1, <3>3, <3>4 DEF TextInv, P!ResolvesPlaceholders
      <3> QED
        BY <3>2, <3>5 DEF ParamsResolved
    <2> QED
      BY <2>1, <2>2
  <1> QED
    BY <1>1, ParamsStart, ParamsStep, PTL DEF MCSpec

-------------------------------------------------------------------------------
(* The headers: the loop over the parts of their list.                     *)

ListTypes ==
    /\ Len(parts) \in Nat \ {0} /\ MaxHeaders \in Nat
    /\ \A p \in 1 .. Len(parts) : Len(parts[p]) \in 0 .. MaxHeaders

\* The headers that are taken for a key: those of that name, or of a shorter one
\* that begins it.
Matching(q) == {w \in H!Places : H!Begins(H!HeaderAt(w).key, q)}

LEMMA MatchingNames ==
    ASSUME NEW q
    PROVE  Matching(q) = H!Named(q) \cup H!Shorter(q)
  <1>1. H!Begins(q, q)
    BY DEF H!Begins
  <1> QED
    BY <1>1, Zenon DEF Matching, H!Named, H!Shorter

\* The ones of them behind the first k ones of a part.
Later(q, p, k) == {w \in Matching(q) : w[1] > p \/ (w[1] = p /\ w[2] > k)}
Least(W, w) == w \in W /\ \A x \in W : ~ H!Before(x, w)
FirstIn(W) == IF W = {} THEN H!None ELSE H!HeaderAt(CHOOSE w : Least(W, w)).value
FirstOf(q, p, k) == FirstIn(Later(q, p, k))

LEMMA MatchingPlace ==
    ASSUME ListTypes, NEW q, NEW w \in Matching(q)
    PROVE  /\ w = <<w[1], w[2]>> /\ w[1] \in 1 .. Len(parts) /\ w[2] \in 1 .. MaxHeaders
           /\ w[2] <= Len(parts[w[1]])
  BY DEF Matching, H!Places

LEMMA OneLeast ==
    ASSUME ListTypes, NEW q, NEW W, W \subseteq Matching(q), NEW x, NEW y, Least(W, x), Least(W, y)
    PROVE  x = y
  <1>1. x \in W /\ y \in W /\ ~ H!Before(x, y) /\ ~ H!Before(y, x)
    BY DEF Least
  <1>2. /\ x = <<x[1], x[2]>> /\ x[1] \in Int /\ x[2] \in Int
        /\ y = <<y[1], y[2]>> /\ y[1] \in Int /\ y[2] \in Int
    <2>1. x \in Matching(q) /\ y \in Matching(q)
      BY <1>1
    <2>2. PICK n : n = Len(parts) /\ n \in Nat
      BY DEF ListTypes
    <2> QED
      BY <2>1, <2>2, MatchingPlace DEF ListTypes
  <1>3. x[1] = y[1] /\ x[2] = y[2]
    BY <1>1, <1>2 DEF H!Before
  <1> QED
    BY <1>2, <1>3, Zenon

LEMMA ChosenLeast ==
    ASSUME ListTypes, NEW q, NEW W, W \subseteq Matching(q), NEW x, Least(W, x)
    PROVE  (CHOOSE w : Least(W, w)) = x
  <1>1. Least(W, CHOOSE w : Least(W, w))
    BY Zenon
  <1> QED
    BY <1>1, OneLeast

LEMMA FirstIsHere ==
    ASSUME ListTypes, NEW q, NEW p \in 1 .. Len(parts), NEW k \in 0 .. MaxHeaders,
           k < Len(parts[p]), H!Begins(parts[p][k + 1].key, q)
    PROVE  FirstOf(q, p, k) = parts[p][k + 1].value
  <1>1. PICK w : w = <<p, k + 1>> /\ w[1] = p /\ w[2] = k + 1 /\ H!HeaderAt(w) = parts[p][k + 1]
    <2>1. H!HeaderAt(<<p, k + 1>>) = parts[p][k + 1]
      BY DEF H!HeaderAt
    <2>2. PICK w : w = <<p, k + 1>>
      OBVIOUS
    <2>3. w[1] = p /\ w[2] = k + 1
      BY <2>2
    <2> QED
      BY <2>1, <2>2, <2>3, Zenon
  <1>2. w \in Matching(q)
    <2>1. w \in (1 .. Len(parts)) \X (1 .. MaxHeaders) /\ w[2] <= Len(parts[w[1]])
      BY <1>1 DEF ListTypes
    <2> QED
      BY <1>1, <2>1 DEF Matching, H!Places
  <1>3. Least(Later(q, p, k), w)
    <2>1. w \in Later(q, p, k)
      BY <1>1, <1>2 DEF Later
    <2>2. ASSUME NEW x \in Later(q, p, k) PROVE ~ H!Before(x, w)
      <3>1. x[1] \in Int /\ x[2] \in Int
        BY MatchingPlace DEF Later, ListTypes
      <3>2. x[1] > p \/ (x[1] = p /\ x[2] > k)
        BY DEF Later
      <3> QED
        BY <1>1, <3>1, <3>2 DEF H!Before
    <2> QED
      BY <2>1, <2>2 DEF Least
  <1>4. (CHOOSE x : Least(Later(q, p, k), x)) = w
    <2>1. Later(q, p, k) \subseteq Matching(q)
      BY DEF Later
    <2> QED
      BY <1>3, <2>1, ChosenLeast
  <1>5. Later(q, p, k) # {}
    BY <1>3 DEF Least
  <1> QED
    BY <1>1, <1>4, <1>5, Zenon DEF FirstOf, FirstIn

LEMMA LaterSame ==
    ASSUME ListTypes, NEW q, NEW p \in 1 .. Len(parts), NEW k \in 0 .. MaxHeaders
    PROVE  /\ k < Len(parts[p]) /\ ~ H!Begins(parts[p][k + 1].key, q) =>
                 Later(q, p, k) = Later(q, p, k + 1)
           /\ k >= Len(parts[p]) => Later(q, p, k) = Later(q, p + 1, 0)
           /\ k >= Len(parts[p]) /\ p = Len(parts) => Later(q, p, k) = {}
  <1>1. PICK n : n = Len(parts) /\ n \in Nat
    BY DEF ListTypes
  <1>2. PICK m : m = Len(parts[p]) /\ m \in Nat
    BY DEF ListTypes
  <1>3. ASSUME NEW w \in Matching(q)
        PROVE  /\ w = <<w[1], w[2]>> /\ w[1] \in 1 .. n /\ w[2] \in Nat \ {0} /\ (w[1] = p => w[2] <= m)
               /\ H!Begins(parts[w[1]][w[2]].key, q)
    <2>1. MaxHeaders \in Nat
      BY DEF ListTypes
    <2>2. H!Begins(parts[w[1]][w[2]].key, q)
      BY DEF Matching, H!HeaderAt
    <2> QED
      BY <1>1, <1>2, <2>1, <2>2, MatchingPlace
  <1>4. ASSUME k < m, ~ H!Begins(parts[p][k + 1].key, q), NEW w \in Matching(q)
        PROVE  (w[1] > p \/ (w[1] = p /\ w[2] > k)) <=> (w[1] > p \/ (w[1] = p /\ w[2] > k + 1))
    <2>1. ~ (w[1] = p /\ w[2] = k + 1)
      BY <1>3, <1>4, Zenon
    <2> QED
      BY <1>1, <1>3, <2>1
  <1>5. ASSUME k >= m, NEW w \in Matching(q)
        PROVE  (w[1] > p \/ (w[1] = p /\ w[2] > k)) <=> (w[1] > p + 1 \/ (w[1] = p + 1 /\ w[2] > 0))
    BY <1>1, <1>2, <1>3, <1>5
  <1>6. ASSUME k >= m, p = n, NEW w \in Matching(q)
        PROVE  ~ (w[1] > p \/ (w[1] = p /\ w[2] > k))
    BY <1>1, <1>2, <1>3, <1>6
  <1> QED
    BY <1>1, <1>2, <1>4, <1>5, <1>6, Zenon DEF Later

LEMMA FirstNext ==
    ASSUME ListTypes, NEW q, NEW p \in 1 .. Len(parts), NEW k \in 0 .. MaxHeaders
    PROVE  FirstOf(q, p, k) = IF k < Len(parts[p])
                              THEN IF H!Begins(parts[p][k + 1].key, q)
                                   THEN parts[p][k + 1].value ELSE FirstOf(q, p, k + 1)
                              ELSE IF p = Len(parts) THEN H!None ELSE FirstOf(q, p + 1, 0)
  <1>1. ~ (k < Len(parts[p])) => k >= Len(parts[p])
    BY DEF ListTypes
  <1>2. CASE k < Len(parts[p]) /\ H!Begins(parts[p][k + 1].key, q)
    BY <1>2, FirstIsHere, Zenon
  <1>3. CASE k < Len(parts[p]) /\ ~ H!Begins(parts[p][k + 1].key, q)
    <2>1. Later(q, p, k + 1) = Later(q, p, k)
      BY <1>3, LaterSame
    <2>2. FirstOf(q, p, k) = FirstOf(q, p, k + 1)
      BY <2>1 DEF FirstOf
    <2> QED
      BY <1>3, <2>2, Zenon
  <1>4. CASE ~ (k < Len(parts[p])) /\ p # Len(parts)
    <2>1. Later(q, p + 1, 0) = Later(q, p, k)
      BY <1>1, <1>4, LaterSame
    <2>2. FirstOf(q, p, k) = FirstOf(q, p + 1, 0)
      BY <2>1 DEF FirstOf
    <2> QED
      BY <1>4, <2>2, Zenon
  <1>5. CASE ~ (k < Len(parts[p])) /\ p = Len(parts)
    BY <1>1, <1>5, LaterSame, Zenon DEF FirstOf, FirstIn
  <1> QED
    BY <1>2, <1>3, <1>4, <1>5

\* The function of get_header_value.
FindAt(q, f, p, k) ==
    IF k < Len(parts[p])
    THEN IF H!Begins(parts[p][k + 1].key, q)
         THEN parts[p][k + 1].value ELSE f[p][k + 1]
    ELSE IF p = Len(parts) THEN H!None ELSE f[p + 1][0]
IsFind(q, f) == f = [p \in 1 .. Len(parts) |-> [k \in 0 .. MaxHeaders |-> FindAt(q, f, p, k)]]

LEMMA FindFound ==
    ASSUME NEW q, NEW g, IsFind(q, g)
    PROVE  \E f : IsFind(q, f) /\ H!get_header_value(q) = f[1][0]
  BY Zenon DEF IsFind, FindAt, H!get_header_value

LEMMA FindExists ==
    ASSUME ListTypes, NEW q
    PROVE  \E g : IsFind(q, g)
  <1>1. PICK n : n = Len(parts) /\ n \in Nat
    BY DEF ListTypes
  <1> DEFINE g == [p \in 1 .. n |-> [k \in 0 .. MaxHeaders |-> FirstOf(q, p, k)]]
  <1>2. ASSUME NEW p \in 1 .. n, NEW k \in 0 .. MaxHeaders
        PROVE  g[p][k] = FindAt(q, g, p, k)
    <2>1. g[p][k] = FirstOf(q, p, k)
      OBVIOUS
    <2>2. k < Len(parts[p]) => k + 1 \in 0 .. MaxHeaders /\ g[p][k + 1] = FirstOf(q, p, k + 1)
      BY <1>1 DEF ListTypes
    <2>3. p # n => p + 1 \in 1 .. n /\ 0 \in 0 .. MaxHeaders /\ g[p + 1][0] = FirstOf(q, p + 1, 0)
      BY <1>1 DEF ListTypes
    <2> HIDE DEF g
    <2>4. FindAt(q, g, p, k) = IF k < Len(parts[p])
                               THEN IF H!Begins(parts[p][k + 1].key, q)
                                    THEN parts[p][k + 1].value ELSE FirstOf(q, p, k + 1)
                               ELSE IF p = n THEN H!None ELSE FirstOf(q, p + 1, 0)
      BY <1>1, <2>2, <2>3, Zenon DEF FindAt
    <2> QED
      BY <1>1, <2>1, <2>4, FirstNext, Zenon
  <1>3. g = [p \in 1 .. n |-> [k \in 0 .. MaxHeaders |-> g[p][k]]]
    OBVIOUS
  <1> HIDE DEF g
  <1>4. ASSUME NEW p \in 1 .. n
        PROVE  [k \in 0 .. MaxHeaders |-> g[p][k]] = [k \in 0 .. MaxHeaders |-> FindAt(q, g, p, k)]
    BY <1>2, Zenon
  <1>5. [p \in 1 .. n |-> [k \in 0 .. MaxHeaders |-> g[p][k]]]
          = [p \in 1 .. n |-> [k \in 0 .. MaxHeaders |-> FindAt(q, g, p, k)]]
    BY <1>4, Zenon
  <1> QED
    BY <1>1, <1>3, <1>5, Zenon DEF IsFind

LEMMA FindFirst ==
    ASSUME ListTypes, NEW q, NEW f, IsFind(q, f)
    PROVE  f[1][0] = FirstOf(q, 1, 0)
  <1>1. PICK n, m : n = Len(parts) /\ n \in Nat \ {0} /\ m = MaxHeaders /\ m \in Nat
    <2>1. Len(parts) \in Nat \ {0} /\ MaxHeaders \in Nat
      BY DEF ListTypes
    <2> QED
      BY <2>1, Zenon
  <1>2. \A p \in 1 .. n : \A k \in 0 .. m : f[p][k] = FindAt(q, f, p, k)
    <2>1. TAKE p \in 1 .. n
    <2>2. f[p] = [k \in 0 .. m |-> FindAt(q, f, p, k)]
      BY <1>1, Zenon DEF IsFind
    <2> QED
      BY <2>2, Zenon
  <1> DEFINE Wrong(p, k) == f[p][k] # FirstOf(q, p, k)
  <1> DEFINE T == {d \in 0 .. n - 1 : \E k \in 0 .. m : Wrong(n - d, k)}
  <1>3. T = {}
    <2> SUFFICES ASSUME T # {} PROVE FALSE
      OBVIOUS
    <2>1. PICK d \in T : \A x \in T : ~ (x < d)
      <3>1. T \subseteq Nat
        <4> HIDE DEF Wrong
        <4> QED
          BY <1>1
      <3> HIDE DEF T
      <3> QED
        BY <3>1, QP!LeastNumber
    <2>2. PICK p : p = n - d /\ p \in 1 .. n
      BY <1>1, <2>1
    <2>3. p # n => \A k \in 0 .. m : ~ Wrong(p + 1, k)
      <3> HIDE DEF Wrong
      <3>1. p # n => d - 1 \in 0 .. n - 1 /\ d - 1 < d /\ n - (d - 1) = p + 1
        BY <1>1, <2>1, <2>2
      <3>2. p # n => d - 1 \notin T
        BY <2>1, <3>1
      <3> QED
        BY <3>1, <3>2
    <2> DEFINE U == {c \in 0 .. m : Wrong(p, m - c)}
    <2>4. U # {}
      <3> HIDE DEF Wrong
      <3>1. PICK k \in 0 .. m : Wrong(p, k)
        BY <2>1, <2>2
      <3>2. m - k \in 0 .. m /\ m - (m - k) = k
        BY <1>1
      <3> QED
        BY <3>1, <3>2
    <2>5. PICK c \in U : \A x \in U : ~ (x < c)
      <3>1. U \subseteq Nat
        <4> HIDE DEF Wrong
        <4> QED
          BY <1>1
      <3> HIDE DEF U
      <3> QED
        BY <2>4, <3>1, QP!LeastNumber
    <2>6. PICK k : k = m - c /\ k \in 0 .. m /\ Wrong(p, k)
      BY <1>1, <2>5
    <2>7. k < Len(parts[p]) => ~ Wrong(p, k + 1)
      <3> HIDE DEF Wrong
      <3>1. Len(parts[p]) \in 0 .. m
        BY <1>1, <2>2 DEF ListTypes
      <3>2. k < Len(parts[p]) => c - 1 \in 0 .. m /\ c - 1 < c /\ m - (c - 1) = k + 1
        BY <1>1, <2>5, <2>6, <3>1
      <3>3. k < Len(parts[p]) => c - 1 \notin U
        BY <2>5, <3>2
      <3> QED
        BY <3>2, <3>3
    <2>8. f[p][k] = FindAt(q, f, p, k)
      BY <1>2, <2>2, <2>6, Zenon
    <2>9. 0 \in 0 .. m
      BY <1>1
    <2>10. FindAt(q, f, p, k) = FirstOf(q, p, k)
      <3>1. FirstOf(q, p, k) = IF k < Len(parts[p])
                              THEN IF H!Begins(parts[p][k + 1].key, q)
                                   THEN parts[p][k + 1].value ELSE FirstOf(q, p, k + 1)
                              ELSE IF p = Len(parts) THEN H!None ELSE FirstOf(q, p + 1, 0)
        BY <1>1, <2>2, <2>6, FirstNext
      <3>2. p # n => f[p + 1][0] = FirstOf(q, p + 1, 0)
        BY <2>3, <2>9
      <3>3. k < Len(parts[p]) => f[p][k + 1] = FirstOf(q, p, k + 1)
        BY <2>7
      <3> QED
        BY <1>1, <3>1, <3>2, <3>3, Zenon DEF FindAt
    <2> QED
      BY <2>6, <2>8, <2>10
  <1>4. n - 1 \in 0 .. n - 1 /\ n - (n - 1) = 1 /\ 0 \in 0 .. m
    BY <1>1
  <1> QED
    BY <1>3, <1>4

LEMMA HeaderFound ==
    ASSUME ListTypes, NEW q
    PROVE  /\ Matching(q) = {} => H!get_header_value(q) = H!None
           /\ \A x \in Matching(q) : (\A y \in Matching(q) : ~ H!Before(y, x)) =>
                  H!get_header_value(q) = H!HeaderAt(x).value
  <1>1. H!get_header_value(q) = FirstOf(q, 1, 0)
    BY FindExists, FindFound, FindFirst
  <1>2. Later(q, 1, 0) = Matching(q)
    <2>1. ASSUME NEW w \in Matching(q) PROVE w[1] > 1 \/ (w[1] = 1 /\ w[2] > 0)
      <3>1. PICK n : n = Len(parts) /\ n \in Nat /\ MaxHeaders \in Nat
        BY DEF ListTypes
      <3> QED
        BY <3>1, MatchingPlace
    <2> QED
      BY <2>1, Zenon DEF Later
  <1>3. ASSUME NEW x \in Matching(q), \A y \in Matching(q) : ~ H!Before(y, x)
        PROVE  H!get_header_value(q) = H!HeaderAt(x).value
    <2>1. Least(Matching(q), x)
      BY <1>3 DEF Least
    <2>2. (CHOOSE w : Least(Matching(q), w)) = x
      BY <2>1, ChosenLeast
    <2>3. Matching(q) # {}
      BY <1>3
    <2> QED
      BY <1>1, <1>2, <2>2, <2>3, Zenon DEF FirstOf, FirstIn
  <1>4. Matching(q) = {} => H!get_header_value(q) = H!None
    BY <1>1, <1>2, Zenon DEF FirstOf, FirstIn
  <1> QED
    BY <1>3, <1>4

LEMMA LeastExists ==
    ASSUME ListTypes, NEW q, Matching(q) # {}
    PROVE  \E x \in Matching(q) : \A y \in Matching(q) : ~ H!Before(y, x)
  <1>1. \A w \in Matching(q) : w[1] \in Nat /\ w[2] \in Nat
    <2> TAKE w \in Matching(q)
    <2>1. PICK n : n = Len(parts) /\ n \in Nat /\ MaxHeaders \in Nat
      BY DEF ListTypes
    <2> QED
      BY <2>1, MatchingPlace
  <1> DEFINE T == {w[1] : w \in Matching(q)}
  <1>2. PICK a \in T : \A m \in T : ~ (m < a)
    <2>1. T \subseteq Nat /\ T # {}
      BY <1>1
    <2> HIDE DEF T
    <2> QED
      BY <2>1, QP!LeastNumber
  <1> DEFINE W == {w \in Matching(q) : w[1] = a}
  <1> DEFINE U == {w[2] : w \in W}
  <1>3. PICK b \in U : \A m \in U : ~ (m < b)
    <2>1. U \subseteq Nat /\ U # {}
      BY <1>1, <1>2
    <2> HIDE DEF U
    <2> QED
      BY <2>1, QP!LeastNumber
  <1>4. PICK x \in Matching(q) : x[1] = a /\ x[2] = b
    BY <1>3
  <1>5. ASSUME NEW y \in Matching(q) PROVE ~ H!Before(y, x)
    <2>1. ~ (y[1] < a)
      BY <1>2
    <2>2. y[1] = a => ~ (y[2] < b)
      BY <1>3
    <2> QED
      BY <1>4, <2>1, <2>2 DEF H!Before
  <1> QED
    BY <1>4, <1>5

HttpInv == ListTypes /\ (content_type = "application/json" => H!accepts_application_json)

LEMMA BoundedInH ==
    ASSUME NEW A, NEW n \in Nat, NEW x \in H!BoundedSeq(A, n)
    PROVE  x \in Seq(A) /\ Len(x) \in 0 .. n
  BY DEF H!BoundedSeq, H!SeqOf

LEMMA HttpStart == MCInit => HttpInv
  <1> SUFFICES ASSUME MCInit PROVE HttpInv
    OBVIOUS
  <1>1. MaxHeaders \in Nat
    BY PartsAssumption DEF H!HttpAssumption
  <1>2. CASE part # "http"
    <2>1. parts = <<<<>>>> /\ content_type = "none"
      BY <1>2 DEF MCInit, HttpAtRest
    <2>2. ListTypes
      BY <1>1, <2>1 DEF ListTypes
    <2> QED
      BY <2>1, <2>2 DEF HttpInv
  <1>3. CASE part = "http"
    <2>1. parts \in H!Lists /\ content_type = "none"
      BY <1>3 DEF MCInit, H!Init
    <2>2. ListTypes
      <3>1. ASSUME NEW g \in H!BoundedSeq(H!Headers, MaxHeaders), parts = <<g>> PROVE ListTypes
        <4>1. Len(g) \in 0 .. MaxHeaders
          BY <1>1, BoundedInH
        <4> QED
          BY <1>1, <3>1, <4>1 DEF ListTypes
      <3>2. ASSUME NEW g \in H!BoundedSeq(H!Headers, MaxHeaders), Len(g) > 1,
                   parts = <<SubSeq(g, 1, 1), SubSeq(g, 2, Len(g))>>
            PROVE  ListTypes
        <4>1. PICK n : n = Len(g) /\ n \in 0 .. MaxHeaders /\ n > 1 /\ g \in Seq(H!Headers)
          BY <1>1, <3>2, BoundedInH
        <4>2. Len(SubSeq(g, 1, 1)) = 1 /\ Len(SubSeq(g, 2, n)) = n - 1
          <5>1. \A c \in 1 .. n : g[c] \in H!Headers
            BY <4>1
          <5>2. n \in Int /\ 1 \in Int /\ 2 \in Int /\ (\A c \in 1 .. 1 : g[c] \in H!Headers)
                /\ (\A c \in 2 .. n : g[c] \in H!Headers)
            BY <1>1, <4>1, <5>1
          <5>3. Len(SubSeq(g, 1, 1)) = IF 1 <= 1 THEN 1 - 1 + 1 ELSE 0
            BY <5>2, SubSeqProperties
          <5>4. Len(SubSeq(g, 2, n)) = IF 2 <= n THEN n - 2 + 1 ELSE 0
            BY <5>2, SubSeqProperties
          <5> QED
            BY <1>1, <4>1, <5>3, <5>4
        <4>3. PICK a, b : parts = <<a, b>> /\ Len(a) = 1 /\ Len(b) = n - 1
          BY <3>2, <4>1, <4>2, Zenon
        <4>4. Len(parts) = 2 /\ parts[1] = a /\ parts[2] = b
          BY <4>3
        <4>5. 1 \in 0 .. MaxHeaders /\ n - 1 \in 0 .. MaxHeaders
          BY <1>1, <4>1
        <4>6. ASSUME NEW p \in 1 .. Len(parts) PROVE Len(parts[p]) \in 0 .. MaxHeaders
          <5>1. p = 1 \/ p = 2
            BY <4>4
          <5> QED
            BY <4>3, <4>4, <4>5, <5>1, Zenon
        <4>7. Len(parts) \in Nat \ {0}
          BY <4>4
        <4> QED
          BY <1>1, <4>6, <4>7 DEF ListTypes
      <3> QED
        BY <2>1, <3>1, <3>2, Zenon DEF H!Lists
    <2> QED
      BY <2>1, <2>2 DEF HttpInv
  <1> QED
    BY <1>2, <1>3

LEMMA HttpStep == HttpInv /\ [MCNext]_all => HttpInv'
  <1> SUFFICES ASSUME HttpInv, [MCNext]_all PROVE HttpInv'
    OBVIOUS
  <1>1. ASSUME parts' = parts PROVE ListTypes' /\ H!accepts_application_json' = H!accepts_application_json
    BY <1>1 DEF HttpInv, ListTypes, H!accepts_application_json, H!get_header_value
  <1>2. CASE UNCHANGED http
    BY <1>1, <1>2 DEF HttpInv, http
  <1>3. CASE H!Next
    <2>1. parts' = parts /\ (content_type' = content_type
             \/ content_type' = IF H!accepts_application_json THEN "application/json" ELSE "text/plain")
      BY <1>3, Zenon DEF H!Next, H!Handler, H!Callback, H!NotAllowed, H!Declined, H!Forbidden, H!Refuse,
            H!ReadBody, H!BodyFails, H!BodyHandler, H!NoBuffer, H!Send, H!input
    <2> QED
      BY <1>1, <2>1 DEF HttpInv
  <1> QED
    BY <1>2, <1>3 DEF MCNext, all

\* A header is found in whatever part of the list it is, unless one with a
\* shorter name that begins it comes first, and an answer is sent as
\* application/json only to a client that lists that very type in its Accept, or
\* that sent such a shorter one (ngx_http_dbrelay_module.c 185-242).
THEOREM HeadersHeededHolds == MCSpec => []HeadersHeeded
  <1>1. HttpInv => HeadersHeeded
    <2> SUFFICES ASSUME HttpInv PROVE HeadersHeeded
      OBVIOUS
    <2>1. ListTypes
      BY DEF HttpInv
    <2>2. H!FindsHeader
      <3>1. ASSUME NEW q
            PROVE  /\ H!Named(q) \cup H!Shorter(q) = {} => H!get_header_value(q) = H!None
                   /\ \A x \in H!Named(q) :
                         (\A y \in H!Named(q) \cup H!Shorter(q) : ~ H!Before(y, x)) =>
                             H!get_header_value(q) = H!HeaderAt(x).value
        <4>1. \A x \in H!Named(q) : x \in Matching(q)
          BY MatchingNames
        <4> QED
          BY <2>1, <4>1, HeaderFound, MatchingNames
      <3> QED
        BY <3>1 DEF H!FindsHeader
    <2>3. ASSUME content_type = "application/json", H!Shorter("Accept") = {}
          PROVE  \E place \in H!Named("Accept") : \E item \in H!Range(H!HeaderAt(place).value) :
                     item.word = "application/json"
      <3>0. Matching("Accept") = H!Named("Accept")
        BY <2>3, MatchingNames
      <3>1. PICK val, n : /\ val = H!get_header_value("Accept") /\ n \in DOMAIN val
                          /\ val[n] = [word |-> "application/json", alone |-> TRUE]
        BY <2>3, Zenon DEF HttpInv, H!accepts_application_json, H!Is
      <3>2. Matching("Accept") # {}
        <4> SUFFICES ASSUME Matching("Accept") = {} PROVE FALSE
          OBVIOUS
        <4>1. val = <<>>
          BY <2>1, <3>1, HeaderFound DEF H!None
        <4> QED
          BY <3>1, <4>1
      <3>3. PICK x \in Matching("Accept") : \A y \in Matching("Accept") : ~ H!Before(y, x)
        BY <2>1, <3>2, LeastExists
      <3>4. val = H!HeaderAt(x).value
        BY <2>1, <3>1, <3>3, HeaderFound
      <3>5. val[n] \in H!Range(H!HeaderAt(x).value)
        BY <3>1, <3>4, Zenon DEF H!Range
      <3>6. val[n].word = "application/json"
        BY <3>1
      <3> QED
        BY <3>0, <3>3, <3>5, <3>6, Zenon
    <2> QED
      BY <2>2, <2>3 DEF HeadersHeeded, H!JsonOnlyIfListed
  <1> QED
    BY <1>1, HttpStart, HttpStep, PTL DEF MCSpec

-------------------------------------------------------------------------------
(* The command line: what is put together stands one after the other.      *)

\* Every item of the first m ones has its place in what they come to.
Placing(seqs, F, m) ==
    \A n \in 1 .. m : \A c \in 1 .. Len(seqs[n]) :
        Len(F[n - 1]) + c <= Len(F[m]) /\ F[m][Len(F[n - 1]) + c] = seqs[n][c]

LEMMA PlacingNext ==
    ASSUME NEW A, NEW seqs, NEW F, NEW m \in Nat, Placing(seqs, F, m),
           \A n \in 0 .. m : F[n] \in Seq(A), seqs[m + 1] \in Seq(A),
           F[m + 1] = F[m] \o seqs[m + 1]
    PROVE  Placing(seqs, F, m + 1)
  <1>1. PICK a, b, z : a = F[m] /\ b = seqs[m + 1] /\ z = F[m + 1]
    OBVIOUS
  <1>2. a \in Seq(A) /\ b \in Seq(A) /\ z = a \o b
    BY <1>1
  <1>3. PICK la, lb : la = Len(a) /\ lb = Len(b) /\ la \in Nat /\ lb \in Nat
    <2>1. Len(a) \in Nat /\ Len(b) \in Nat
      BY <1>2
    <2> QED
      BY <2>1, Zenon
  <1>4. /\ Len(z) = la + lb
        /\ \A e \in 1 .. la + lb : z[e] = IF e <= la THEN a[e] ELSE b[e - la]
    BY <1>2, <1>3, ConcatProperties
  <1>5. ASSUME NEW n \in 1 .. m + 1, NEW c \in 1 .. Len(seqs[n])
        PROVE  Len(F[n - 1]) + c <= Len(z) /\ z[Len(F[n - 1]) + c] = seqs[n][c]
    <2>1. CASE n = m + 1
      <3>1. n - 1 = m /\ c \in 1 .. lb
        BY <1>1, <1>3, <2>1
      <3>2. la + c \in 1 .. la + lb /\ ~ (la + c <= la) /\ (la + c) - la = c /\ la + c <= la + lb
        BY <1>3, <3>1
      <3>3. z[la + c] = b[c]
        BY <1>4, <3>2
      <3> QED
        BY <1>1, <1>3, <1>4, <2>1, <3>1, <3>2, <3>3
    <2>2. CASE n # m + 1
      <3>1. n \in 1 .. m /\ n - 1 \in 0 .. m
        BY <2>2
      <3>2. PICK e : e = Len(F[n - 1]) + c /\ e <= la /\ a[e] = seqs[n][c]
        BY <1>1, <1>3, <3>1 DEF Placing
      <3>3. e \in 1 .. la + lb
        <4>1. Len(F[n - 1]) \in Nat
          BY <3>1
        <4>2. c \in Int /\ c >= 1
          OBVIOUS
        <4> QED
          BY <1>3, <3>2, <4>1, <4>2
      <3>4. z[e] = a[e] /\ e <= Len(z)
        BY <1>3, <1>4, <3>2, <3>3
      <3> QED
        BY <3>2, <3>4
    <2> QED
      BY <2>1, <2>2
  <1> QED
    BY <1>1, <1>5 DEF Placing

LEMMA StrungPlaces ==
    ASSUME NEW A, NEW N \in Nat, NEW seqs \in [1 .. N -> Seq(A)],
           NEW F \in [0 .. N -> Seq(A)], Strung(seqs, F)
    PROVE  Placing(seqs, F, N)
  <1> DEFINE T == {m \in 0 .. N : ~ Placing(seqs, F, m)}
  <1>0. Len(seqs) = N
    OBVIOUS
  <1>1. T = {}
    <2> SUFFICES ASSUME T # {} PROVE FALSE
      OBVIOUS
    <2>1. PICK m \in T : \A x \in T : ~ (x < m)
      <3>1. T \subseteq Nat
        OBVIOUS
      <3> HIDE DEF T
      <3> QED
        BY <3>1, QP!LeastNumber
    <2>2. m \in 0 .. N /\ ~ Placing(seqs, F, m)
      BY <2>1
    <2>3. m # 0
      <3>1. Placing(seqs, F, 0)
        BY DEF Placing
      <3> QED
        BY <2>2, <3>1
    <2>4. PICK l : l \in Nat /\ m = l + 1 /\ l \in 0 .. N /\ l < m /\ l + 1 \in 1 .. N /\ (l + 1) - 1 = l
      <3>1. m - 1 \in Nat /\ m = (m - 1) + 1 /\ m - 1 \in 0 .. N /\ m - 1 < m
            /\ (m - 1) + 1 \in 1 .. N /\ ((m - 1) + 1) - 1 = m - 1
        BY <2>2, <2>3
      <3> QED
        BY <3>1
    <2>5. Placing(seqs, F, l)
      BY <2>1, <2>4
    <2>6. F[l + 1] = F[l] \o seqs[l + 1]
      BY <1>0, <2>4 DEF Strung
    <2>7. (\A n \in 0 .. l : F[n] \in Seq(A)) /\ seqs[l + 1] \in Seq(A)
      BY <2>4
    <2>8. Placing(seqs, F, l + 1)
      BY <2>4, <2>5, <2>6, <2>7, PlacingNext
    <2> QED
      BY <2>2, <2>4, <2>8
  <1>2. N \in 0 .. N
    OBVIOUS
  <1> QED
    BY <1>1, <1>2

\* And every place has its item.
Covered(seqs, F, m) ==
    \A e \in 1 .. Len(F[m]) : \E n \in 1 .. m : \E c \in 1 .. Len(seqs[n]) : e = Len(F[n - 1]) + c

LEMMA CoveredNext ==
    ASSUME NEW A, NEW seqs, NEW F, NEW m \in Nat, Covered(seqs, F, m),
           F[m] \in Seq(A), seqs[m + 1] \in Seq(A), F[m + 1] = F[m] \o seqs[m + 1]
    PROVE  Covered(seqs, F, m + 1)
  <1>1. PICK a, b : a = F[m] /\ b = seqs[m + 1]
    OBVIOUS
  <1>2. PICK la, lb \in Nat : la = Len(a) /\ lb = Len(b) /\ Len(F[m + 1]) = la + lb
    <2>1. a \in Seq(A) /\ b \in Seq(A)
      BY <1>1
    <2>2. Len(a) \in Nat /\ Len(b) \in Nat /\ Len(a \o b) = Len(a) + Len(b)
      BY <2>1, ConcatProperties
    <2> QED
      BY <1>1, <2>2
  <1>3. ASSUME NEW e \in 1 .. la + lb
        PROVE  \E n \in 1 .. m + 1 : \E c \in 1 .. Len(seqs[n]) : e = Len(F[n - 1]) + c
    <2>1. CASE e <= la
      <3>1. e \in 1 .. Len(F[m])
        BY <1>1, <1>2, <2>1
      <3>2. PICK n \in 1 .. m : \E c \in 1 .. Len(seqs[n]) : e = Len(F[n - 1]) + c
        BY <3>1, Zenon DEF Covered
      <3>3. n \in 1 .. m + 1
        OBVIOUS
      <3> QED
        BY <3>2, <3>3
    <2>2. CASE ~ (e <= la)
      <3>1. PICK c : c \in 1 .. lb /\ e = la + c
        <4>1. e - la \in 1 .. lb /\ e = la + (e - la)
          BY <2>2
        <4> QED
          BY <4>1
      <3>2. m + 1 \in 1 .. m + 1 /\ (m + 1) - 1 = m
        OBVIOUS
      <3>3. c \in 1 .. Len(seqs[m + 1]) /\ e = Len(F[(m + 1) - 1]) + c
        BY <1>1, <1>2, <3>1, <3>2
      <3> QED
        BY <3>2, <3>3, Zenon
    <2> QED
      BY <2>1, <2>2
  <1>4. 1 .. Len(F[m + 1]) = 1 .. la + lb
    BY <1>2, Zenon
  <1> QED
    BY <1>3, <1>4, Zenon DEF Covered

LEMMA StrungCovered ==
    ASSUME NEW A, NEW N \in Nat, NEW seqs \in [1 .. N -> Seq(A)],
           NEW F \in [0 .. N -> Seq(A)], Strung(seqs, F)
    PROVE  Covered(seqs, F, N)
  <1> DEFINE T == {m \in 0 .. N : ~ Covered(seqs, F, m)}
  <1>0. Len(seqs) = N /\ F[0] = <<>>
    BY DEF Strung
  <1>1. T = {}
    <2> SUFFICES ASSUME T # {} PROVE FALSE
      OBVIOUS
    <2>1. PICK m \in T : \A x \in T : ~ (x < m)
      <3>1. T \subseteq Nat
        OBVIOUS
      <3> HIDE DEF T
      <3> QED
        BY <3>1, QP!LeastNumber
    <2>2. m \in 0 .. N /\ ~ Covered(seqs, F, m)
      BY <2>1
    <2>3. m # 0
      <3>1. Len(F[0]) = 0
        BY <1>0
      <3>2. Covered(seqs, F, 0)
        BY <3>1 DEF Covered
      <3> QED
        BY <2>2, <3>2
    <2>4. PICK l : l \in Nat /\ m = l + 1 /\ l \in 0 .. N /\ l < m /\ l + 1 \in 1 .. N /\ (l + 1) - 1 = l
      <3>1. m - 1 \in Nat /\ m = (m - 1) + 1 /\ m - 1 \in 0 .. N /\ m - 1 < m
            /\ (m - 1) + 1 \in 1 .. N /\ ((m - 1) + 1) - 1 = m - 1
        BY <2>2, <2>3
      <3> QED
        BY <3>1
    <2>5. Covered(seqs, F, l)
      BY <2>1, <2>4
    <2>6. F[l + 1] = F[l] \o seqs[l + 1]
      BY <1>0, <2>4 DEF Strung
    <2>7. F[l] \in Seq(A) /\ seqs[l + 1] \in Seq(A)
      BY <2>4
    <2>8. Covered(seqs, F, l + 1)
      BY <2>4, <2>5, <2>6, <2>7, CoveredNext
    <2> QED
      BY <2>2, <2>4, <2>8
  <1>2. N \in 0 .. N
    OBVIOUS
  <1> QED
    BY <1>1, <1>2

\* Where each has two items.
Twos(seqs, N) == \A n \in 1 .. N : Len(seqs[n]) = 2

LEMMA StrungTwos ==
    ASSUME NEW A, NEW N \in Nat, NEW seqs \in [1 .. N -> Seq(A)],
           NEW F \in [0 .. N -> Seq(A)], Strung(seqs, F), Twos(seqs, N)
    PROVE  \A m \in 0 .. N : Len(F[m]) = 2 * m
  <1> DEFINE T == {m \in 0 .. N : Len(F[m]) # 2 * m}
  <1>0. Len(seqs) = N /\ F[0] = <<>>
    BY DEF Strung
  <1>1. T = {}
    <2> SUFFICES ASSUME T # {} PROVE FALSE
      OBVIOUS
    <2>1. PICK m \in T : \A x \in T : ~ (x < m)
      <3>1. T \subseteq Nat
        OBVIOUS
      <3> HIDE DEF T
      <3> QED
        BY <3>1, QP!LeastNumber
    <2>2. m \in 0 .. N /\ Len(F[m]) # 2 * m
      BY <2>1
    <2>3. m # 0
      BY <1>0, <2>2
    <2>4. m - 1 \in 0 .. N /\ m - 1 < m /\ m \in 1 .. N
      BY <2>2, <2>3
    <2>5. Len(F[m - 1]) = 2 * (m - 1)
      BY <2>1, <2>4
    <2>6. F[m] = F[m - 1] \o seqs[m]
      BY <1>0, <2>4 DEF Strung
    <2>7. F[m - 1] \in Seq(A) /\ seqs[m] \in Seq(A) /\ Len(seqs[m]) = 2
      BY <2>4 DEF Twos
    <2>8. Len(F[m]) = Len(F[m - 1]) + 2
      <3>1. PICK a, b : a = F[m - 1] /\ b = seqs[m]
        OBVIOUS
      <3>2. Len(a \o b) = Len(a) + Len(b)
        BY <2>7, <3>1, ConcatProperties
      <3> QED
        BY <2>6, <2>7, <3>1, <3>2
    <2>9. 2 * (m - 1) + 2 = 2 * m
      BY <2>2
    <2> QED
      BY <2>2, <2>5, <2>8, <2>9
  <1> QED
    BY <1>1
LEMMA FlattenInO == \A x : O!FlattenSeq(x) = Ext!FlattenSeq(x)
  BY Zenon DEF O!FlattenSeq, Ext!FlattenSeq

\* The options that the usage line means as getopt takes them.
Taken == {"h", "p", "u", "w", "c", "t", "d", "f"}

\* N options, each with its value.
Line(words, N) ==
    /\ Len(words) = 2 * N /\ DOMAIN words = 1 .. 2 * N
    /\ \A n \in 1 .. N : \E o \in Taken : words[2 * n - 1] = O!Option(o) /\ words[2 * n] = O!Value(o)
    /\ \A n, m \in 1 .. N : words[2 * n - 1] = words[2 * m - 1] => n = m

AllOptions == O!Required \cup O!Optional
Vocabulary == {O!Option(o) : o \in AllOptions} \cup {O!Value(o) : o \in AllOptions}

\* No option stands in two places.
OnceEach == \A o : \A e, f \in 1 .. Len(argv) : argv[e] = O!Option(o) /\ argv[f] = O!Option(o) => e = f

LEMMA WrittenType ==
    ASSUME NEW A, NEW o, O!Option(o) \in A, O!Value(o) \in A
    PROVE  /\ O!Written(o) \in Seq(A) /\ Len(O!Written(o)) \in 1 .. 2 /\ O!Written(o)[1] = O!Option(o)
           /\ o # "v" => Len(O!Written(o)) = 2 /\ O!Written(o)[2] = O!Value(o)
           /\ \A c \in 2 .. Len(O!Written(o)) : O!Written(o)[c] = O!Value(o)
  <1>1. PICK a, b : a = O!Option(o) /\ b = O!Value(o)
    BY Zenon
  <1>2. O!Written(o) = IF o = "v" THEN <<a>> ELSE <<a, b>>
    BY <1>1 DEF O!Written
  <1> QED
    BY <1>1, <1>2

\* The place e holds the option o of the line.
Holds(order, F, N, e, o) == \E n \in 1 .. N : order[n] = o /\ e = Len(F[n - 1]) + 1

LEMMA LineWritten ==
    ASSUME NEW N \in Nat, NEW order \in [1 .. N -> AllOptions],
           \A n, m \in 1 .. N : n # m => order[n] # order[m],
           argv = O!FlattenSeq([n \in DOMAIN order |-> O!Written(order[n])])
    PROVE  /\ argv \in Seq(Vocabulary) /\ OnceEach
           /\ O!UsedOptions \cap {"l", "v"} = {} => Line(argv, N)
  <1>1. PICK A : A = Vocabulary
    OBVIOUS
  <1>2. PICK seqs : seqs = [n \in 1 .. N |-> O!Written(order[n])]
    OBVIOUS
  <1>3. ASSUME NEW n \in 1 .. N
        PROVE  /\ seqs[n] \in Seq(A) /\ Len(seqs[n]) \in 1 .. 2 /\ seqs[n][1] = O!Option(order[n])
               /\ order[n] # "v" => Len(seqs[n]) = 2 /\ seqs[n][2] = O!Value(order[n])
               /\ \A c \in 2 .. Len(seqs[n]) : seqs[n][c] = O!Value(order[n])
    <2>1. order[n] \in AllOptions /\ seqs[n] = O!Written(order[n])
      BY <1>2
    <2>2. O!Option(order[n]) \in A /\ O!Value(order[n]) \in A
      BY <1>1, <2>1 DEF Vocabulary
    <2> QED
      BY <2>1, <2>2, WrittenType, Zenon
  <1>4. seqs \in [1 .. N -> Seq(A)] /\ DOMAIN order = 1 .. N
    BY <1>2, <1>3
  <1>5. PICK F \in [0 .. N -> Seq(A)] : Strung(seqs, F)
    BY <1>4, StrungExists
  <1>6. argv = F[N]
    <2>1. argv = Ext!FlattenSeq(seqs)
      BY <1>2, <1>4, FlattenInO, Zenon
    <2> QED
      BY <1>4, <1>5, <2>1, FlattenStrung
  <1>7. argv \in Seq(A)
    BY <1>5, <1>6
  <1>8. Placing(seqs, F, N)
    BY <1>4, <1>5, StrungPlaces
  <1>9. ASSUME O!UsedOptions \cap {"l", "v"} = {} PROVE Line(argv, N)
    <2>1. ASSUME NEW n \in 1 .. N PROVE order[n] \in Taken
      <3>1. PICK e : e = Len(F[n - 1]) + 1 /\ e \in 1 .. Len(argv) /\ argv[e] = O!Option(order[n])
        <4>1. 1 \in 1 .. Len(seqs[n]) /\ n - 1 \in 0 .. N
          <5>2. \A m \in 1 .. 2 : 1 \in 1 .. m
            OBVIOUS
          <5>3. n - 1 \in 0 .. N
            OBVIOUS
          <5> QED
            BY <1>3, <5>2, <5>3, Zenon
        <4>2. Len(F[n - 1]) + 1 <= Len(argv) /\ argv[Len(F[n - 1]) + 1] = seqs[n][1]
          BY <1>6, <1>8, <4>1 DEF Placing
        <4>3. Len(F[n - 1]) \in Nat /\ Len(argv) \in Nat
          BY <1>5, <1>7, <4>1
        <4>4. Len(F[n - 1]) + 1 \in 1 .. Len(argv)
          BY <4>2, <4>3
        <4> QED
          BY <1>3, <4>2, <4>4, Zenon
      <3>2. O!Option(order[n]) \in O!Range(argv)
        <4>1. e \in DOMAIN argv
          BY <1>7, <3>1
        <4> QED
          BY <3>1, <4>1, Zenon DEF O!Range
      <3>3. order[n] \in AllOptions
        OBVIOUS
      <3>4. order[n] \in O!UsedOptions
        BY <3>2, <3>3 DEF O!UsedOptions, AllOptions
      <3>5. order[n] \notin {"l", "v"}
        BY <1>9, <3>4
      <3> QED
        BY <3>3, <3>5 DEF AllOptions, O!Required, O!Optional, Taken
    <2>2. \A n \in 1 .. N : Len(seqs[n]) = 2 /\ seqs[n][2] = O!Value(order[n])
      BY <1>3, <2>1 DEF Taken
    <2>3. \A m \in 0 .. N : Len(F[m]) = 2 * m
      <3>1. Twos(seqs, N)
        BY <2>2 DEF Twos
      <3> QED
        BY <1>4, <1>5, <3>1, StrungTwos
    <2>4. ASSUME NEW n \in 1 .. N
          PROVE  argv[2 * n - 1] = O!Option(order[n]) /\ argv[2 * n] = O!Value(order[n])
      <3>1. n - 1 \in 0 .. N /\ 2 * (n - 1) + 1 = 2 * n - 1 /\ 2 * (n - 1) + 2 = 2 * n
        OBVIOUS
      <3>2. Len(F[n - 1]) = 2 * (n - 1)
        BY <2>3, <3>1
      <3>3. 1 \in 1 .. Len(seqs[n]) /\ 2 \in 1 .. Len(seqs[n])
        BY <2>2
      <3>4. F[N][2 * (n - 1) + 1] = seqs[n][1] /\ F[N][2 * (n - 1) + 2] = seqs[n][2]
        BY <1>8, <3>2, <3>3 DEF Placing
      <3> QED
        BY <1>3, <1>6, <2>2, <3>1, <3>4
    <2>5. ASSUME NEW n \in 1 .. N, NEW m \in 1 .. N, argv[2 * n - 1] = argv[2 * m - 1]
          PROVE  n = m
      <3>1. O!Option(order[n]) = O!Option(order[m])
        BY <2>4, <2>5
      <3>2. order[n] = order[m]
        BY <3>1 DEF O!Option
      <3> QED
        BY <3>2
    <2>6. Len(argv) = 2 * N /\ DOMAIN argv = 1 .. 2 * N
      <3>1. Len(argv) = 2 * N
        BY <1>6, <2>3
      <3>2. DOMAIN argv = 1 .. Len(argv)
        BY <1>7
      <3> QED
        BY <3>1, <3>2, Zenon
    <2> QED
      BY <2>1, <2>4, <2>5, <2>6 DEF Line
  <1>10. ASSUME NEW o, NEW e \in 1 .. Len(argv), argv[e] = O!Option(o)
         PROVE  Holds(order, F, N, e, o)
    <2>1. PICK n \in 1 .. N : \E c \in 1 .. Len(seqs[n]) : e = Len(F[n - 1]) + c
      <3>1. Covered(seqs, F, N)
        BY <1>4, <1>5, StrungCovered
      <3> QED
        BY <1>6, <3>1, Zenon DEF Covered
    <2>2. PICK c \in 1 .. Len(seqs[n]) : e = Len(F[n - 1]) + c
      BY <2>1
    <2>3. seqs[n][c] = O!Option(o)
      BY <1>6, <1>8, <1>10, <2>2, Zenon DEF Placing
    <2>4. c = 1
      <3>1. O!Option(o) # O!Value(order[n])
        BY DEF O!Option, O!Value
      <3>2. c \notin 2 .. Len(seqs[n])
        BY <1>3, <2>3, <3>1, Zenon
      <3>3. PICK l : l = Len(seqs[n]) /\ l \in 1 .. 2
        BY <1>3, Zenon
      <3>4. c \in 1 .. l /\ c \notin 2 .. l
        BY <3>2, <3>3, Zenon
      <3> QED
        BY <3>3, <3>4
    <2>5. O!Option(order[n]) = O!Option(o)
      BY <1>3, <2>3, <2>4, Zenon
    <2>6. order[n] = o
      BY <2>5 DEF O!Option
    <2> QED
      BY <2>2, <2>4, <2>6, Zenon DEF Holds
  <1>11. OnceEach
    <2> SUFFICES ASSUME NEW o, NEW e \in 1 .. Len(argv), NEW f \in 1 .. Len(argv),
                        argv[e] = O!Option(o), argv[f] = O!Option(o)
                 PROVE  e = f
      BY DEF OnceEach
    <2>1. PICK n \in 1 .. N : order[n] = o /\ e = Len(F[n - 1]) + 1
      <3>1. Holds(order, F, N, e, o)
        BY <1>10
      <3> QED
        BY <3>1, Zenon DEF Holds
    <2>2. PICK m \in 1 .. N : order[m] = o /\ f = Len(F[m - 1]) + 1
      <3>1. Holds(order, F, N, f, o)
        BY <1>10
      <3> QED
        BY <3>1, Zenon DEF Holds
    <2>3. n = m
      BY <2>1, <2>2
    <2> QED
      BY <2>1, <2>2, <2>3
  <1> QED
    BY <1>1, <1>7, <1>9, <1>11

LEMMA Halves ==
    ASSUME NEW N \in Nat, NEW e \in 1 .. 2 * N
    PROVE  \E n \in 1 .. N : e = 2 * n - 1 \/ e = 2 * n
  <1>1. PICK n : n = (e + 1) \div 2
    OBVIOUS
  <1>2. n \in 1 .. N /\ (e = 2 * n - 1 \/ e = 2 * n)
    BY <1>1
  <1> QED
    BY <1>2

\* The first k options of the line.
Seen(o, k) == \E n \in 1 .. k : argv[2 * n - 1] = O!Option(o)

\* What populate_request has got from the first k of N options.
Parsed(N, k) ==
    /\ Line(argv, N) /\ optind = 2 * k
    /\ field = [o \in AllOptions |-> IF Seen(o, k) THEN O!Value(o) ELSE O!Unset]
    /\ required = (IF Seen("u", k) THEN 1 ELSE 0) + (IF Seen("h", k) THEN 1 ELSE 0)
    /\ options_pc = "getopt" \/ (k = N /\ options_pc = IF required < 2 THEN "usage" ELSE "run")

\* The invariant of the command line.
OptionsInv ==
    O!UsedOptions \cap {"l", "v"} = {} => \E N \in Nat : \E k \in 0 .. N : Parsed(N, k)

LEMMA OptionNames == \A o, p : /\ O!Option(o) = O!Option(p) => o = p
                               /\ O!Option(o) # O!Value(p) /\ O!Value(o) # O!Unset
                               /\ O!Option(o)[1] = "option" /\ O!Option(o)[2] = o
  BY DEF O!Option, O!Value, O!Unset

LEMMA SeenNext ==
    ASSUME NEW N \in Nat, NEW k \in 0 .. N, k < N, Line(argv, N), NEW o, argv[2 * k + 1] = O!Option(o)
    PROVE  /\ ~ Seen(o, k)
           /\ \A p : Seen(p, k + 1) <=> Seen(p, k) \/ p = o
  <1>1. k + 1 \in 1 .. N /\ 2 * (k + 1) - 1 = 2 * k + 1 /\ k + 1 \in 1 .. k + 1
    OBVIOUS
  <1>2. \A n \in 1 .. k : n \in 1 .. N /\ n # k + 1 /\ n \in 1 .. k + 1
    OBVIOUS
  <1>3. argv[2 * (k + 1) - 1] = O!Option(o)
    BY <1>1
  <1>4. ASSUME Seen(o, k) PROVE FALSE
    <2>1. PICK n \in 1 .. k : argv[2 * n - 1] = O!Option(o)
      BY <1>4, Zenon DEF Seen
    <2>2. n = k + 1
      BY <1>1, <1>2, <1>3, <2>1, Zenon DEF Line
    <2> QED
      BY <1>2, <2>2
  <1>5. ASSUME NEW p, Seen(p, k + 1) PROVE Seen(p, k) \/ p = o
    <2>1. PICK n \in 1 .. k + 1 : argv[2 * n - 1] = O!Option(p)
      BY <1>5, Zenon DEF Seen
    <2>2. n \in 1 .. k \/ n = k + 1
      OBVIOUS
    <2>3. CASE n \in 1 .. k
      BY <2>1, <2>3, Zenon DEF Seen
    <2>4. CASE n = k + 1
      BY <1>3, <2>1, <2>4, OptionNames, Zenon
    <2> QED
      BY <2>2, <2>3, <2>4
  <1>6. ASSUME NEW p, Seen(p, k) \/ p = o PROVE Seen(p, k + 1)
    BY <1>1, <1>2, <1>3, <1>6, Zenon DEF Seen
  <1> QED
    BY <1>4, <1>5, <1>6

LEMMA OptionsStep ==
    ASSUME OptionsInv, O!Next
    PROVE  OptionsInv'
  <1> SUFFICES ASSUME O!UsedOptions \cap {"l", "v"} = {}
               PROVE  \E N \in Nat : \E k \in 0 .. N : Parsed(N, k)'
    <2>1. argv' = argv
      BY Zenon DEF O!Next, O!Known, O!Skipped, O!GetoptEnds
    <2>2. O!UsedOptions' = O!UsedOptions
      BY <2>1, Zenon DEF O!UsedOptions, O!Range
    <2> QED
      BY <2>2, Zenon DEF OptionsInv
  <1>0. PICK N \in Nat : \E k \in 0 .. N : Parsed(N, k)
    BY Zenon DEF OptionsInv
  <1>1. PICK k \in 0 .. N : Parsed(N, k)
    BY <1>0
  <1>2. Line(argv, N) /\ optind = 2 * k /\ Len(argv) = 2 * N
    BY <1>1, Zenon DEF Parsed, Line
  <1>3. options_pc = "getopt"
    BY Zenon DEF O!Next, O!Known, O!Skipped, O!GetoptEnds
  <1>4. ASSUME k < N
        PROVE  \E o \in Taken : O!Word = O!Option(o) /\ argv[optind + 2] = O!Value(o)
    <2>1. k + 1 \in 1 .. N /\ 2 * (k + 1) - 1 = 2 * k + 1 /\ 2 * (k + 1) = 2 * k + 2
      BY <1>4
    <2>2. PICK o \in Taken : argv[2 * (k + 1) - 1] = O!Option(o) /\ argv[2 * (k + 1)] = O!Value(o)
      BY <1>2, <2>1, Zenon DEF Line
    <2> QED
      BY <1>2, <2>1, <2>2, Zenon DEF O!Word
  <1>5. CASE O!Known
    <2>1. k < N
      <3>1. 2 * k + 1 < 2 * N
        BY <1>2, <1>5 DEF O!Known
      <3> QED
        BY <3>1
    <2>2. PICK o \in Taken : O!Word = O!Option(o) /\ argv[optind + 2] = O!Value(o)
      BY <1>4, <2>1
    <2>3. argv[2 * k + 1] = O!Option(o)
      BY <1>2, <2>2, Zenon DEF O!Word
    <2>4. /\ ~ Seen(o, k)
          /\ \A p : Seen(p, k + 1) <=> Seen(p, k) \/ p = o
      BY <1>2, <2>1, <2>3, SeenNext
    <2>5. O!Word[2] = o
      BY <2>2, OptionNames, Zenon
    <2>6. o # "v" /\ o \in AllOptions
      BY DEF Taken, AllOptions, O!Required, O!Optional
    <2>7. argv' = argv /\ options_pc' = options_pc /\ optind' = 2 * (k + 1)
      BY <1>2, <1>5 DEF O!Known
    <2>8. field' = [field EXCEPT ![o] = O!Value(o)]
      BY <1>5, <2>2, <2>5, <2>6, Zenon DEF O!Known
    <2>9. field' = [p \in AllOptions |-> IF Seen(p, k + 1) THEN O!Value(p) ELSE O!Unset]
      <3>1. field = [p \in AllOptions |-> IF Seen(p, k) THEN O!Value(p) ELSE O!Unset]
        BY <1>1, Zenon DEF Parsed
      <3> QED
        BY <2>4, <2>8, <3>1
    <2>10. required' = (IF Seen("u", k + 1) THEN 1 ELSE 0) + (IF Seen("h", k + 1) THEN 1 ELSE 0)
      <3>1. required = (IF Seen("u", k) THEN 1 ELSE 0) + (IF Seen("h", k) THEN 1 ELSE 0)
        BY <1>1, Zenon DEF Parsed
      <3>2. required' = IF o \in {"u", "h"} THEN required + 1 ELSE required
        BY <1>5, <2>5, Zenon DEF O!Known, O!Required
      <3> QED
        BY <2>4, <3>1, <3>2
    <2>11. Parsed(N, k + 1)'
      <3>1. \A p : Seen(p, k + 1)' <=> Seen(p, k + 1)
        BY <2>7, Zenon DEF Seen
      <3>2. Line(argv, N)'
        BY <1>2, <2>7, Zenon DEF Line
      <3>3. field' = [p \in AllOptions |-> IF Seen(p, k + 1)' THEN O!Value(p) ELSE O!Unset]
        BY <2>9, <3>1
      <3> QED
        BY <1>3, <2>7, <2>10, <3>1, <3>2, <3>3, Zenon
           DEF Parsed, O!Value, O!Unset, AllOptions, O!Required, O!Optional
    <2>12. k + 1 \in 0 .. N
      BY <2>1
    <2> QED
      BY <2>11, <2>12
  <1>6. CASE O!Skipped
    <2>1. k < N
      <3>1. 2 * k < 2 * N
        BY <1>2, <1>6 DEF O!Skipped
      <3> QED
        BY <3>1
    <2>2. PICK o \in Taken : O!Word = O!Option(o)
      BY <1>4, <2>1
    <2>3. O!Word[1] = "option" /\ O!Word[2] = o
      BY <2>2, OptionNames, Zenon
    <2>4. o \in O!takes_value
      BY DEF Taken, O!takes_value
    <2>5. optind + 1 = Len(argv)
      BY <1>6, <2>3, <2>4, Zenon DEF O!Skipped
    <2>6. 2 * k + 1 = 2 * N
      BY <1>2, <2>5
    <2> QED
      BY <2>6
  <1>7. CASE O!GetoptEnds
    <2>1. k = N
      <3>1. 2 * k = 2 * N
        BY <1>2, <1>7 DEF O!GetoptEnds
      <3> QED
        BY <3>1
    <2>2. /\ argv' = argv /\ optind' = optind /\ field' = field /\ required' = required
          /\ options_pc' = IF required < 2 THEN "usage" ELSE "run"
      BY <1>7, Zenon DEF O!GetoptEnds
    <2>3. \A p : Seen(p, k)' <=> Seen(p, k)
      BY <2>2, Zenon DEF Seen
    <2>4. field' = [p \in AllOptions |-> IF Seen(p, k)' THEN O!Value(p) ELSE O!Unset]
      <3>1. field = [p \in AllOptions |-> IF Seen(p, k) THEN O!Value(p) ELSE O!Unset]
        BY <1>1, Zenon DEF Parsed
      <3> QED
        BY <2>2, <2>3, <3>1
    <2>5. required' = (IF Seen("u", k)' THEN 1 ELSE 0) + (IF Seen("h", k)' THEN 1 ELSE 0)
      <3>1. required = (IF Seen("u", k) THEN 1 ELSE 0) + (IF Seen("h", k) THEN 1 ELSE 0)
        BY <1>1, Zenon DEF Parsed
      <3> QED
        BY <2>2, <2>3, <3>1
    <2>6. Line(argv, N)' /\ optind' = 2 * k /\ options_pc' = IF required' < 2 THEN "usage" ELSE "run"
      BY <1>2, <2>2, Zenon DEF Line
    <2>7. Parsed(N, k)'
      BY <2>1, <2>4, <2>5, <2>6, Zenon DEF Parsed, O!Value, O!Unset, AllOptions, O!Required, O!Optional
    <2> QED
      BY <2>7
  <1> QED
    BY <1>5, <1>6, <1>7 DEF O!Next

\* What the invariant says once the options are through.
LEMMA OptionsUsage ==
    ASSUME OptionsInv
    PROVE  O!UsageHolds
  <1> SUFFICES ASSUME O!UsedOptions \cap {"l", "v"} = {}
               PROVE  /\ options_pc = "run" => O!Required \subseteq O!UsedOptions
                      /\ options_pc = "usage" => ~ (O!Required \subseteq O!UsedOptions)
                      /\ options_pc = "run" => \A o \in O!UsedOptions : field[o] = O!Value(o)
    BY Zenon DEF O!UsageHolds
  <1>0. PICK N \in Nat : \E k \in 0 .. N : Parsed(N, k)
    BY Zenon DEF OptionsInv
  <1>1. PICK k \in 0 .. N : Parsed(N, k)
    BY <1>0
  <1>2. CASE options_pc = "getopt"
    BY <1>2
  <1>3. CASE options_pc # "getopt"
    <2>1. k = N /\ options_pc = (IF required < 2 THEN "usage" ELSE "run") /\ Line(argv, N) /\ Len(argv) = 2 * N
      BY <1>1, <1>3, Zenon DEF Parsed, Line
    <2>2. ASSUME NEW o \in O!UsedOptions PROVE Seen(o, N)
      <3>1. PICK e \in DOMAIN argv : argv[e] = O!Option(o)
        BY Zenon DEF O!UsedOptions, O!Range
      <3>2. CASE e \in 1 .. 2 * N
        <4>1. PICK n \in 1 .. N : e = 2 * n - 1 \/ e = 2 * n
          BY <3>2, Halves
        <4>2. PICK p : argv[2 * n] = O!Value(p)
          BY <2>1, Zenon DEF Line
        <4>3. e # 2 * n
          BY <3>1, <4>2, OptionNames, Zenon
        <4> QED
          BY <3>1, <4>1, <4>3, Zenon DEF Seen
      <3> QED
        BY <2>1, <3>2, Zenon DEF Line
    <2>3. ASSUME NEW o \in AllOptions, Seen(o, N) PROVE o \in O!UsedOptions
      BY <2>1, <2>3 DEF Seen, O!UsedOptions, AllOptions, O!Range
    <2>4. required = (IF Seen("u", N) THEN 1 ELSE 0) + (IF Seen("h", N) THEN 1 ELSE 0)
      BY <1>1, <2>1, Zenon DEF Parsed
    <2>5. "u" \in AllOptions /\ "h" \in AllOptions /\ O!Required = {"u", "h"}
      BY DEF AllOptions, O!Required
    <2>6. required < 2 <=> ~ (O!Required \subseteq O!UsedOptions)
      BY <2>2, <2>3, <2>4, <2>5
    <2>7. \A o \in O!UsedOptions : field[o] = O!Value(o)
      <3>1. field = [o \in AllOptions |-> IF Seen(o, N) THEN O!Value(o) ELSE O!Unset]
        BY <1>1, <2>1, Zenon DEF Parsed
      <3>2. O!UsedOptions \subseteq AllOptions
        BY DEF O!UsedOptions, AllOptions
      <3> QED
        BY <2>2, <3>1, <3>2
    <2> QED
      BY <2>1, <2>6, <2>7
  <1> QED
    BY <1>2, <1>3

LEMMA CardinalityInO == \A T : O!Cardinality(T) = Cardinality(T)
  BY Zenon DEF O!Cardinality, Cardinality

LEMMA OptionsFinite == IsFiniteSet(AllOptions)
  <1>1. ASSUME NEW T, IsFiniteSet(T), NEW x PROVE IsFiniteSet(T \cup {x})
    BY <1>1, FS_AddElement
  <1>2. IsFiniteSet({"u"}) /\ IsFiniteSet({"c"})
    BY FS_Singleton
  <1>3. IsFiniteSet({"u"} \cup {"h"} \cup {"c"} \cup {"d"} \cup {"f"})
    BY <1>1, <1>2
  <1>4. IsFiniteSet({"u"} \cup {"h"} \cup {"c"} \cup {"d"} \cup {"f"} \cup {"l"} \cup {"p"} \cup {"t"} \cup {"v"} \cup {"w"})
    BY <1>1, <1>3
  <1>5. AllOptions = {"u"} \cup {"h"} \cup {"c"} \cup {"d"} \cup {"f"} \cup {"l"} \cup {"p"} \cup {"t"} \cup {"v"} \cup {"w"}
    BY DEF AllOptions, O!Required, O!Optional
  <1> QED
    BY <1>4, <1>5

\* The options in whatever order they are written.
LEMMA OrderType ==
    ASSUME NEW used, used \subseteq AllOptions, NEW order \in O!SetToSeqs(used)
    PROVE  \E N \in Nat : /\ order \in [1 .. N -> AllOptions]
                          /\ \A n, m \in 1 .. N : n # m => order[n] # order[m]
  <1>1. PICK N : N = Cardinality(used) /\ N \in Nat
    BY OptionsFinite, FS_Subset, FS_CardinalityType
  <1>2. order \in [1 .. N -> used] /\ \A n, m \in 1 .. N : n # m => order[n] # order[m]
    <2>1. O!Cardinality(used) = N
      BY <1>1, CardinalityInO
    <2> QED
      BY <2>1, Zenon DEF O!SetToSeqs
  <1>3. order \in [1 .. N -> AllOptions]
    BY <1>2
  <1> QED
    BY <1>1, <1>2, <1>3

LEMMA LinesAre ==
    ASSUME argv \in O!Lines
    PROVE  /\ argv \in Seq(Vocabulary) /\ OnceEach
           /\ \E N \in Nat : O!UsedOptions \cap {"l", "v"} = {} => Line(argv, N)
  <1>1. PICK used : /\ used \in {O!Required \cup g : g \in {h \in SUBSET Given : O!Cardinality(h) =< MaxGiven}}
                                     \cup {{"u"}, {"h"}, {}}
                    /\ argv \in {O!FlattenSeq([n \in DOMAIN order |-> O!Written(order[n])]) : order \in O!SetToSeqs(used)}
    BY Zenon DEF O!Lines
  <1>2. PICK order \in O!SetToSeqs(used) : argv = O!FlattenSeq([n \in DOMAIN order |-> O!Written(order[n])])
    BY <1>1
  <1>3. used \subseteq AllOptions
    <2>1. Given \subseteq O!Optional
      BY PartsAssumption DEF O!OptionsAssumption
    <2>2. used \subseteq O!Required \cup Given \/ used \subseteq O!Required
      BY <1>1 DEF O!Required
    <2> QED
      BY <2>1, <2>2 DEF AllOptions
  <1>4. PICK N \in Nat : /\ order \in [1 .. N -> AllOptions]
                         /\ \A n, m \in 1 .. N : n # m => order[n] # order[m]
    BY <1>3, OrderType
  <1> QED
    BY <1>2, <1>4, LineWritten

LEMMA OptionsStart == MCInit => OptionsInv
  <1> SUFFICES ASSUME MCInit, O!UsedOptions \cap {"l", "v"} = {}
               PROVE  \E N \in Nat : \E k \in 0 .. N : Parsed(N, k)
    BY Zenon DEF OptionsInv
  <1>1. optind = 0 /\ required = 0 /\ options_pc = "getopt" /\ field = [o \in AllOptions |-> O!Unset]
    BY DEF MCInit, O!Init, OptionsAtRest, AllOptions
  <1>2. \E N \in Nat : Line(argv, N)
    <2>1. CASE part = "options"
      <3>1. argv \in O!Lines
        BY <2>1 DEF MCInit, O!Init
      <3> QED
        BY <3>1, LinesAre
    <2>2. CASE part # "options"
      <3>1. argv = <<>>
        BY <2>2 DEF MCInit, OptionsAtRest
      <3>2. Line(argv, 0)
        BY <3>1 DEF Line
      <3> QED
        BY <3>2
    <2> QED
      BY <2>1, <2>2
  <1>3. PICK N \in Nat : Line(argv, N)
    BY <1>2
  <1>4. \A o : ~ Seen(o, 0)
    BY DEF Seen
  <1>5. 2 * 0 = 0 /\ 0 \in 0 .. N
    OBVIOUS
  <1>6. field = [o \in AllOptions |-> IF Seen(o, 0) THEN O!Value(o) ELSE O!Unset]
    BY <1>1, <1>4
  <1>7. Parsed(N, 0)
    BY <1>1, <1>3, <1>4, <1>5, <1>6 DEF Parsed
  <1> QED
    BY <1>5, <1>7

LEMMA OptionsStays == OptionsInv /\ [MCNext]_all => OptionsInv'
  <1> SUFFICES ASSUME OptionsInv, [MCNext]_all PROVE OptionsInv'
    OBVIOUS
  <1>1. CASE UNCHANGED options
    <2>1. /\ argv' = argv /\ optind' = optind /\ field' = field /\ required' = required
          /\ options_pc' = options_pc
      BY <1>1 DEF options
    <2>2. O!UsedOptions' = O!UsedOptions
      BY <2>1, Zenon DEF O!UsedOptions, O!Range
    <2>3. ASSUME NEW N, NEW k, Parsed(N, k) PROVE Parsed(N, k)'
      <3>1. \A p : Seen(p, k)' <=> Seen(p, k)
        BY <2>1, Zenon DEF Seen
      <3>2. Line(argv, N)' <=> Line(argv, N)
        BY <2>1, Zenon DEF Line
      <3>3. [o \in AllOptions |-> IF Seen(o, k) THEN O!Value(o) ELSE O!Unset]
            = [o \in AllOptions |-> IF Seen(o, k)' THEN O!Value(o) ELSE O!Unset]
        BY <3>1
      <3> QED
        BY <2>1, <2>3, <3>1, <3>2, <3>3, Zenon
           DEF Parsed, O!Value, O!Unset, AllOptions, O!Required, O!Optional
    <2> QED
      BY <2>2, <2>3, Zenon DEF OptionsInv
  <1>2. CASE O!Next
    BY <1>2, OptionsStep
  <1> QED
    BY <1>1, <1>2 DEF MCNext, all

-------------------------------------------------------------------------------
(* The fields of a request, for which QueryStringProofs has the invariant.   *)

LEMMA QuerySets ==
    /\ Q!Cells = QP!Cells /\ Q!Fields = QP!Fields /\ Q!Pairs = QP!Pairs
    /\ \A ps : Q!Encoded(ps) = QP!Encoded(ps)
  <1>1. Q!Cells = QP!Cells /\ Q!Fields = QP!Fields /\ Q!Strings = QP!Strings
    BY DEF Q!Cells, QP!Cells, Q!Fields, QP!Fields, Q!Strings, QP!Strings
  <1>2. Q!Pairs = QP!Pairs
    BY <1>1, Zenon DEF Q!Pairs, QP!Pairs
  <1>3. \A p : Q!Text(p) = QP!Text(p)
    BY Zenon DEF Q!Text, QP!Text
  <1>4. \A ps : Q!Encoded(ps) = QP!Encoded(ps)
    BY <1>3, Zenon DEF Q!Encoded, QP!Encoded
  <1> QED
    BY <1>1, <1>2, <1>4

LEMMA QueryRoom == Q!Room = QP!Room
  BY Zenon DEF Q!Room, QP!Room

LEMMA QueryInit == Q!Init => QP!Init
  BY QuerySets, Zenon DEF Q!Init, QP!Init

LEMMA QueryStored ==
    /\ \A t : Q!Unescaped(t) = QP!Unescaped(t) /\ Q!Truncated(t) = QP!Truncated(t)
    /\ \A cells : Q!WriteValue(cells) <=> QP!WriteValue(cells)
  <1>1. \A t : Q!Unescape(t) = QP!Unescape(t) /\ Q!Truncated(t) = QP!Truncated(t)
    BY Zenon DEF Q!Unescape, QP!Unescape, Q!Truncated, QP!Truncated
  <1>2. \A t : Q!Unescaped(t) = QP!Unescaped(t)
    BY <1>1, Zenon DEF Q!Unescaped, QP!Unescaped
  <1>3. \A cells : Q!StringIn(cells) = QP!StringIn(cells)
    BY QuerySets, Zenon DEF Q!StringIn, QP!StringIn
  <1>4. \A cells : Q!UnescapedIn(cells) = QP!UnescapedIn(cells)
    BY QuerySets, <1>1, <1>3, Zenon DEF Q!UnescapedIn, QP!UnescapedIn
  <1>5. \A t, flag : Q!HasFlag(t, flag) <=> QP!HasFlag(t, flag)
    BY Zenon DEF Q!HasFlag, QP!HasFlag
  <1>6. \A k : Q!ParamNumber(k) = QP!ParamNumber(k) /\ Q!Param(k) = QP!Param(k)
    BY Zenon DEF Q!ParamNumber, QP!ParamNumber, Q!Param, QP!Param
  <1>7. \A k, t : Q!Stored(k, t) = QP!Stored(k, t)
    BY <1>1, <1>5, <1>6, Zenon DEF Q!Stored, QP!Stored
  <1>8. \A cells : Q!WriteValue(cells) <=> QP!WriteValue(cells)
    BY <1>2, <1>3, <1>4, <1>7, Zenon DEF Q!WriteValue, QP!WriteValue
  <1> QED
    BY <1>1, <1>2, <1>8

LEMMA QueryNext == Q!Next => QP!Next
  <1>1. Q!PairEnd => QP!PairEnd
    BY QueryStored, QueryRoom, Zenon DEF Q!PairEnd, QP!PairEnd, Q!Char, QP!Char
  <1>2. Q!Equals => QP!Equals
    BY Zenon DEF Q!Equals, QP!Equals, Q!Char, QP!Char
  <1>3. Q!KeyChar => QP!KeyChar
    BY Zenon DEF Q!KeyChar, QP!KeyChar, Q!Other, QP!Other
  <1>4. Q!ValueChar => QP!ValueChar
    BY QueryRoom, Zenon DEF Q!ValueChar, QP!ValueChar, Q!Other, QP!Other
  <1>5. Q!LastLine = QP!LastLine
    BY Zenon DEF Q!LastLine, QP!LastLine
  <1>6. Q!BeforeValue <=> QP!BeforeValue
    BY <1>5, Zenon DEF Q!BeforeValue, QP!BeforeValue
  <1>7. Q!Finish => QP!Finish
    <2>1. Q!Ended = QP!Ended
      BY QuerySets, <1>5, Zenon DEF Q!Ended, QP!Ended
    <2> QED
      BY QueryStored, QueryRoom, <1>6, <2>1, Zenon DEF Q!Finish, QP!Finish
  <1>8. Q!Overrun => QP!Overrun
    BY QueryRoom, <1>6, Zenon DEF Q!Overrun, QP!Overrun, Q!Other, QP!Other, Q!Char, QP!Char
  <1> QED
    BY <1>1, <1>2, <1>3, <1>4, <1>7, <1>8, Zenon DEF Q!Next, QP!Next

\* The invariant of the fields.
FieldsInv ==
    IF part = "query" THEN QP!QueryInv
                      ELSE at = "read" /\ fields = [f \in Q!Fields |-> <<"unset">>]

LEMMA FieldsStart == MCInit => FieldsInv
  <1>1. QP!QueryAssumption
    BY PartsAssumption DEF Q!QueryAssumption, QP!QueryAssumption
  <1>2. QP!Init => QP!QueryInv
    BY <1>1, QP!InitQuery
  <1> QED
    BY <1>2, QueryInit, Zenon DEF MCInit, QueryAtRest, FieldsInv

LEMMA FieldsStep == FieldsInv /\ [MCNext]_all => FieldsInv'
  <1> SUFFICES ASSUME FieldsInv, [MCNext]_all PROVE FieldsInv'
    OBVIOUS
  <1>1. QP!QueryAssumption
    BY PartsAssumption DEF Q!QueryAssumption, QP!QueryAssumption
  <1>2. CASE part' = part /\ UNCHANGED query
    <2>1. CASE part = "query"
      <3>1. UNCHANGED QP!vars
        BY <1>2 DEF query, QP!vars
      <3>2. QP!QueryInv'
        BY <1>1, <2>1, <3>1, QP!QueryStep DEF FieldsInv
      <3> QED
        BY <1>2, <2>1, <3>2 DEF FieldsInv
    <2>2. CASE part # "query"
      BY <1>2, <2>2, Zenon DEF FieldsInv, query, Q!Fields
    <2> QED
      BY <2>1, <2>2
  <1>3. CASE part = "query" /\ part' = part /\ Q!Next
    <2>1. QP!QueryInv'
      BY <1>1, <1>3, QueryNext, QP!QueryStep DEF FieldsInv
    <2> QED
      BY <1>3, <2>1 DEF FieldsInv
  <1> QED
    BY <1>2, <1>3 DEF MCNext, all

LEMMA FieldsMean == FieldsInv => Q!FieldsAsSent /\ Q!NothingStale /\ Q!OverrunOnlyIf
  <1> SUFFICES ASSUME FieldsInv PROVE Q!FieldsAsSent /\ Q!NothingStale /\ Q!OverrunOnlyIf
    OBVIOUS
  <1>1. CASE part = "query"
    <2>1. QP!FieldsAsSent /\ QP!NothingStale /\ QP!OverrunOnlyIf
      BY <1>1, QP!QueryFields, QP!QueryClean DEF FieldsInv
    <2>2. Q!NothingStale
      BY <2>1, QuerySets, Zenon DEF Q!NothingStale, QP!NothingStale
    <2>3. /\ \A f : Q!LastPair(f) = QP!LastPair(f)
          /\ \A str, last : Q!Kept(str, last) = QP!Kept(str, last)
      BY Zenon DEF Q!LastPair, QP!LastPair, Q!Kept, QP!Kept
    <2>4. Q!FieldsAsSent
      BY <2>1, <2>3, QueryStored, Zenon DEF Q!FieldsAsSent, QP!FieldsAsSent
    <2>5. Q!OverrunOnlyIf
      BY <2>1, Zenon DEF Q!OverrunOnlyIf, QP!OverrunOnlyIf
    <2> QED
      BY <2>2, <2>4, <2>5
  <1>2. CASE part # "query"
    <2>1. at = "read" /\ fields = [f \in Q!Fields |-> <<"unset">>]
      BY <1>2 DEF FieldsInv
    <2> QED
      BY <2>1 DEF Q!FieldsAsSent, Q!NothingStale, Q!OverrunOnlyIf
  <1> QED
    BY <1>1, <1>2

\* Each plain field of a request that was read to its end and last sent with a
\* value has that value, and no field anything that lay in the buffers; the
\* options of a command line that the usage line allows, without -l and -v, have
\* their own values (ngx 603-833, main.c 53-111).
THEOREM FieldsAsSentOfInput == MCSpec => []FieldsAsSent
  <1>1. OptionsInv /\ FieldsInv => FieldsAsSent
    BY OptionsUsage, FieldsMean, Zenon DEF FieldsAsSent
  <1> QED
    BY <1>1, OptionsStart, OptionsStays, FieldsStart, FieldsStep, PTL DEF MCSpec

\* The parser of fields leaves its buffers only for what is too long, or for an
\* empty value at the end of an address; for a posted value never (ngx 689-833).
THEOREM OverrunOnlyIfOfInput == MCSpec => []OverrunOnlyIf
  <1>1. FieldsInv => OverrunOnlyIf
    BY FieldsMean, Zenon DEF OverrunOnlyIf
  <1> QED
    BY <1>1, FieldsStart, FieldsStep, PTL DEF MCSpec

-------------------------------------------------------------------------------
(* The types: the socket has those of RecvStringProofs.                    *)

LEMMA SocketStays == RecvInv /\ [MCNext]_all => RecvInv'
  BY StepRecv DEF MCNext, all

\* Before its end a request has no status, and was run when its buffer is due.
HttpTypes ==
    /\ H!TypeOK
    /\ http_pc # "end" =>
          status = "none" /\ runs = IF http_pc \in {"buffer", "dropped"} THEN 1 ELSE 0

LEMMA ListsType ==
    ASSUME MaxHeaders \in Nat, NEW l \in H!Lists
    PROVE  l \in Seq(Seq(H!Headers))
  <1>1. \A a, b \in Seq(H!Headers) : <<a>> \in Seq(Seq(H!Headers)) /\ <<a, b>> \in Seq(Seq(H!Headers))
    OBVIOUS
  <1>2. ASSUME NEW g \in H!BoundedSeq(H!Headers, MaxHeaders)
        PROVE  g \in Seq(H!Headers)
    BY BoundedInH
  <1>3. ASSUME NEW g \in Seq(H!Headers), Len(g) > 1
        PROVE  SubSeq(g, 1, 1) \in Seq(H!Headers) /\ SubSeq(g, 2, Len(g)) \in Seq(H!Headers)
    <2>1. PICK n : n = Len(g) /\ n \in Nat /\ n > 1 /\ \A c \in 1 .. n : g[c] \in H!Headers
      BY <1>3
    <2>2. (\A c \in 1 .. 1 : g[c] \in H!Headers) /\ (\A c \in 2 .. n : g[c] \in H!Headers)
      BY <2>1
    <2> QED
      BY <2>1, <2>2, SubSeqProperties
  <1> QED
    BY <1>1, <1>2, <1>3 DEF H!Lists

LEMMA HttpTypesStart == MCInit => HttpTypes
  <1> SUFFICES ASSUME MCInit PROVE HttpTypes
    OBVIOUS
  <1>1. CASE part # "http"
    <2>1. /\ method = "GET" /\ uri = "ok" /\ parts = <<<<>>>> /\ origins = <<>>
          /\ http_pc = "handler" /\ status = "none" /\ content_type = "none" /\ runs = 0
      BY <1>1 DEF MCInit, HttpAtRest
    <2>2. H!Range(origins) = {}
      BY <2>1 DEF H!Range
    <2> QED
      BY <2>1, <2>2 DEF HttpTypes, H!TypeOK
  <1>2. CASE part = "http"
    <2>1. /\ method \in {"GET", "HEAD", "POST", "PUT"} /\ uri \in {"ok", "slash", "zero"}
          /\ parts \in H!Lists
          /\ origins \in {<<>>, <<"one">>, <<"two", "one">>, <<"*">>}
          /\ http_pc = "handler" /\ status = "none" /\ content_type = "none" /\ runs = 0
      BY <1>2 DEF MCInit, H!Init
    <2>2. H!Range(origins) \subseteq {"one", "two", "*"}
      BY <2>1 DEF H!Range
    <2>3. parts \in Seq(Seq(H!Headers))
      BY <2>1, ListsType, PartsAssumption DEF H!HttpAssumption
    <2> QED
      BY <2>1, <2>2, <2>3 DEF HttpTypes, H!TypeOK
  <1> QED
    BY <1>1, <1>2

LEMMA HttpTypesStep == HttpTypes /\ [MCNext]_all => HttpTypes'
  <1> SUFFICES ASSUME HttpTypes, [MCNext]_all PROVE HttpTypes'
    OBVIOUS
  <1>0. ASSUME method' = method, uri' = uri, parts' = parts, origins' = origins
        PROVE  H!Range(origins)' = H!Range(origins)
    BY <1>0 DEF H!Range
  <1>1. CASE UNCHANGED http
    BY <1>0, <1>1 DEF http, HttpTypes, H!TypeOK, H!Headers, H!Items, H!BoundedSeq, H!SeqOf
  <1>2. CASE H!Next
    <2>1. method' = method /\ uri' = uri /\ parts' = parts /\ origins' = origins
      BY <1>2 DEF H!Next, H!Handler, H!Callback, H!NotAllowed, H!Declined, H!Forbidden, H!Refuse,
         H!ReadBody, H!BodyFails, H!BodyHandler, H!NoBuffer, H!Send, H!input
    <2>2. /\ method' \in {"GET", "HEAD", "POST", "PUT"} /\ uri' \in {"ok", "slash", "zero"}
          /\ parts' \in Seq(Seq(H!Headers)) /\ H!Range(origins)' \subseteq {"one", "two", "*"}
      BY <1>0, <2>1 DEF HttpTypes, H!TypeOK
    <2>3. /\ http_pc' \in {"handler", "body", "buffer", "dropped", "end"}
          /\ status' \in {"none", "405", "declined", "403", "400", "200"}
          /\ content_type' \in {"none", "application/json", "text/plain"}
          /\ runs' \in 0 .. 1 /\ (status' = "200" <=> (http_pc' = "end" /\ runs' = 1))
          /\ http_pc' # "end" =>
                status' = "none" /\ runs' = IF http_pc' \in {"buffer", "dropped"} THEN 1 ELSE 0
      <3> USE DEF HttpTypes, H!TypeOK
      <3>1. CASE H!NotAllowed BY <3>1 DEF H!NotAllowed, H!Refuse
      <3>2. CASE H!Declined BY <3>2 DEF H!Declined, H!Refuse
      <3>3. CASE H!Forbidden BY <3>3 DEF H!Forbidden, H!Refuse
      <3>4. CASE H!ReadBody BY <3>4 DEF H!ReadBody
      <3>5. CASE H!BodyFails BY <3>5 DEF H!BodyFails
      <3>6. CASE H!BodyHandler BY <3>6 DEF H!BodyHandler
      <3>7. CASE H!NoBuffer BY <3>7 DEF H!NoBuffer
      <3>8. CASE H!Send BY <3>8 DEF H!Send
      <3> QED
        BY <1>2, <3>1, <3>2, <3>3, <3>4, <3>5, <3>6, <3>7, <3>8 DEF H!Next, H!Handler, H!Callback
    <2>4. H!Headers' = H!Headers
      BY DEF H!Headers, H!Items, H!BoundedSeq, H!SeqOf
    <2> QED
      BY <2>2, <2>3, <2>4 DEF HttpTypes, H!TypeOK
  <1> QED
    BY <1>1, <1>2 DEF MCNext, all

\* The places of the parser of fields, at rest as well.
PlacesInv == FieldsInv /\ (part # "query" => Q!TypeOK)

LEMMA PlacesStart == MCInit => PlacesInv
  <1> SUFFICES ASSUME MCInit, part # "query" PROVE Q!TypeOK
    BY FieldsStart DEF PlacesInv
  <1>1. /\ input = <<"sql">> /\ s = 1 /\ target = "key" /\ v = 0 /\ at = "read"
        /\ value = [c \in Q!Cells |-> "stale"] /\ fields = [f \in Q!Fields |-> <<"unset">>]
    BY DEF MCInit, QueryAtRest
  <1>2. 0 \in Q!Cells
    <2>1. MaxPairs \in Nat /\ MaxValue \in Nat
      BY PartsAssumption DEF Q!QueryAssumption
    <2>2. PICK n : n = MaxPairs * (MaxValue + 3) /\ n \in Nat
      BY <2>1
    <2> QED
      BY <2>2 DEF Q!Cells
  <1> QED
    BY <1>1, <1>2 DEF Q!TypeOK

LEMMA PlacesStep == PlacesInv /\ [MCNext]_all => PlacesInv'
  <1> SUFFICES ASSUME PlacesInv, [MCNext]_all, part' # "query" PROVE Q!TypeOK'
    BY FieldsStep DEF PlacesInv
  <1>1. part' = part /\ UNCHANGED query
    BY DEF MCNext, all
  <1> QED
    BY <1>1 DEF PlacesInv, Q!TypeOK, query, Q!Cells, Q!Fields

LEMMA PlacesMean == PlacesInv => Q!TypeOK
  <1> SUFFICES ASSUME PlacesInv, part = "query" PROVE Q!TypeOK
    BY DEF PlacesInv
  <1>1. QP!QueryAssumption
    BY PartsAssumption DEF Q!QueryAssumption, QP!QueryAssumption
  <1>2. QP!TypeOK
    BY <1>1, QP!QueryTypes DEF PlacesInv, FieldsInv
  <1> QED
    BY <1>2, QuerySets, Zenon DEF Q!TypeOK, QP!TypeOK

Written == Alphabet \cup {"magic"} \cup {P!Value(n) : n \in 1 .. MaxParams}

\* The types of the loop over the parameters.
TextKinds ==
    /\ sql \in P!Texts /\ params \in P!BoundedSeq(BOOLEAN, MaxParams)
    /\ nomagic \in BOOLEAN /\ named \in BOOLEAN
    /\ i \in 0 .. Len(params) /\ pos \in 0 .. Len(sql)
    /\ params_pc \in {"loop", "send", "done"}
    /\ sb \in Seq(Written)

KindsInv == ParamsInv /\ TextKinds

LEMMA PieceType ==
    ASSUME NEW A, NEW t \in Seq(A), NEW p \in 0 .. Len(t), NEW r \in 0 .. Len(t)
    PROVE  SubSeq(t, p + 1, r) \in Seq(A)
  <1>1. PICK n : n = Len(t) /\ n \in Nat /\ \A c \in 1 .. n : t[c] \in A
    OBVIOUS
  <1>2. p + 1 \in Int /\ r \in Int /\ \A c \in p + 1 .. r : t[c] \in A
    BY <1>1
  <1> QED
    BY <1>2, SubSeqProperties

LEMMA KindsStart == MCInit => KindsInv
  <1> SUFFICES ASSUME MCInit PROVE TextKinds
    BY ParamsStart DEF KindsInv
  <1>1. MaxText \in Nat \ {0} /\ MaxParams \in Nat
    BY MostParams
  <1>2. CASE part # "params"
    <2>1. /\ sql = <<"x">> /\ params = <<>> /\ nomagic = FALSE /\ named = FALSE
          /\ i = 0 /\ pos = 0 /\ sb = <<"magic">> /\ params_pc = "loop"
      BY <1>2 DEF MCInit, TextAtRest
    <2>2. sql \in P!Texts
      <3>1. <<"x">> \in [1 .. 1 -> {"'", "?", "x"}] /\ 1 \in 0 .. MaxText
        BY <1>1
      <3> QED
        BY <2>1, <3>1, Zenon DEF P!Texts, P!BoundedSeq, P!SeqOf
    <2>3. params \in P!BoundedSeq(BOOLEAN, MaxParams)
      <3>1. <<>> \in [1 .. 0 -> BOOLEAN] /\ 0 \in 0 .. MaxParams
        BY <1>1
      <3> QED
        BY <2>1, <3>1, Zenon DEF P!BoundedSeq, P!SeqOf
    <2>4. sb \in Seq(Written)
      <3>1. "magic" \in Written
        BY DEF Written
      <3> QED
        BY <2>1, <3>1
    <2>5. i \in 0 .. Len(params) /\ pos \in 0 .. Len(sql)
      <3>1. Len(params) = 0 /\ Len(sql) = 1
        BY <2>1
      <3>2. 0 \in 0 .. 0 /\ 0 \in 0 .. 1
        OBVIOUS
      <3> QED
        BY <2>1, <3>1, <3>2, Zenon
    <2>6. params_pc \in {"loop", "send", "done"} /\ nomagic \in BOOLEAN /\ named \in BOOLEAN
      BY <2>1
    <2> QED
      BY <2>2, <2>3, <2>4, <2>5, <2>6, Zenon DEF TextKinds
  <1>3. CASE part = "params"
    <2>1. P!Init
      BY <1>3 DEF MCInit
    <2>2. sql \in P!Texts /\ params \in P!BoundedSeq(BOOLEAN, MaxParams)
      BY <2>1 DEF P!Init
    <2>3. Len(sql) \in Nat /\ Len(params) \in Nat
      <3>1. sql \in Seq({"'", "?", "x"}) /\ params \in Seq(BOOLEAN)
        BY <1>1, <2>2, BoundedInP DEF P!Texts
      <3> QED
        BY <3>1
    <2>4. sb \in Seq(Written)
      <3>1. "magic" \in Written
        BY DEF Written
      <3>2. <<"magic">> \in Seq(Written) /\ <<>> \in Seq(Written)
        BY <3>1
      <3> QED
        BY <2>1, <3>2 DEF P!Init
    <2> QED
      BY <2>1, <2>2, <2>3, <2>4 DEF P!Init, TextKinds
  <1> QED
    BY <1>2, <1>3

LEMMA KindsResolve ==
    ASSUME TextInv, TextKinds, P!Resolve
    PROVE  sb' \in Seq(Written)
  <1>1. /\ sql \in Seq(Alphabet) /\ Len(sql) \in Nat /\ Len(params) \in Nat /\ Len(params) <= MaxParams
        /\ MaxParams \in Nat /\ TextTypes /\ pos \in 0 .. Len(sql) /\ i \in 0 .. Len(params)
        /\ (pos # 0 => pos \in Marks(sql))
    <2>1. MaxParams \in Nat
      BY PartsAssumption DEF P!ParamsAssumption
    <2>2. Len(params) <= MaxParams
      BY <2>1, BoundedInP DEF TextKinds
    <2> QED
      BY <2>1, <2>2 DEF TextInv, TextTypes
  <1>2. PICK f : f = P!find_placeholder(SubSeq(sql, pos + 1, Len(sql)))
    OBVIOUS
  <1>3. i < Len(params)
    BY DEF P!Resolve
  <1>4. \/ sb' = sb
        \/ /\ pos + f # -1
           /\ sb' = sb \o SubSeq(sql, pos + 1, IF pos + f < pos THEN Len(sql) ELSE pos + f)
                      \o P!Quoted(i + 1)
    BY <1>2, Zenon DEF P!Resolve
  <1>5. f = -1 \/ f \in 0 .. Len(sql) - pos - 1
    BY <1>1, <1>2, NextMark
  <1>6. PICK r : r = (IF pos + f < pos THEN Len(sql) ELSE pos + f) /\ r \in 0 .. Len(sql)
    BY <1>1, <1>5
  <1>7. SubSeq(sql, pos + 1, r) \in Seq(Written)
    <2>1. SubSeq(sql, pos + 1, r) \in Seq(Alphabet)
      BY <1>1, <1>6, PieceType
    <2>2. Alphabet \subseteq Written
      BY DEF Written
    <2> HIDE DEF Written, Alphabet
    <2> QED
      BY <2>1, <2>2
  <1>8. P!Quoted(i + 1) \in Seq(Written)
    <2>1. PICK y : y = P!Value(i + 1)
      OBVIOUS
    <2>2. y \in Written /\ "'" \in Written
      <3>1. i + 1 \in 1 .. MaxParams
        BY <1>1, <1>3
      <3> QED
        BY <2>1, <3>1 DEF Written, Alphabet
    <2>3. <<"'", y, "'">> \in Seq(Written) /\ <<y>> \in Seq(Written)
      BY <2>2
    <2> QED
      BY <2>1, <2>3, Zenon DEF P!Quoted
  <1>9. CASE sb' = sb
    BY <1>9 DEF TextKinds
  <1>10. CASE sb' = sb \o SubSeq(sql, pos + 1, r) \o P!Quoted(i + 1)
    <2>1. PICK a, b, c \in Seq(Written) : a = sb /\ b = SubSeq(sql, pos + 1, r) /\ c = P!Quoted(i + 1)
      BY <1>7, <1>8 DEF TextKinds
    <2>2. a \o b \o c \in Seq(Written)
      BY <2>1, ConcatProperties
    <2> QED
      BY <1>10, <2>1, <2>2
  <1> QED
    BY <1>4, <1>6, <1>9, <1>10

LEMMA KindsStep == KindsInv /\ [MCNext]_all => KindsInv'
  <1> SUFFICES ASSUME KindsInv, [MCNext]_all PROVE KindsInv'
    OBVIOUS
  <1>1. ParamsInv /\ ParamsInv' /\ TextKinds
    BY ParamsStep DEF KindsInv
  <1>2. CASE UNCHANGED text
    BY <1>1, <1>2
       DEF KindsInv, TextKinds, text, Written, P!Texts, P!BoundedSeq, P!SeqOf, P!Value, Alphabet
  <1>3. CASE part = "params" /\ part' = part /\ P!Next
    <2>1. TextInv /\ TextInv'
      BY <1>1, <1>3 DEF ParamsInv
    <2>2. sql' = sql /\ params' = params /\ nomagic' = nomagic /\ named' = named
      BY <1>3 DEF P!Next, P!Resolve, P!ResolveEnd, P!Send, P!input
    <2>3. /\ sql' \in P!Texts /\ params' \in P!BoundedSeq(BOOLEAN, MaxParams)
          /\ nomagic' \in BOOLEAN /\ named' \in BOOLEAN
          /\ i' \in 0 .. Len(params') /\ pos' \in 0 .. Len(sql')
      BY <1>1, <2>1, <2>2 DEF TextKinds, TextInv
    <2>4. params_pc' \in {"loop", "send", "done"}
      BY <1>1, <1>3 DEF TextKinds, P!Next, P!Resolve, P!ResolveEnd, P!Send
    <2>5. sb' \in Seq(Written)
      <3>1. CASE P!Resolve
        BY <1>1, <2>1, <3>1, KindsResolve
      <3>2. CASE P!ResolveEnd
        <4>1. sb' = sb \o SubSeq(sql, pos + 1, Len(sql))
          BY <3>2 DEF P!ResolveEnd
        <4>2. SubSeq(sql, pos + 1, Len(sql)) \in Seq(Alphabet)
          <5>1. sql \in Seq(Alphabet) /\ pos \in 0 .. Len(sql) /\ Len(sql) \in 0 .. Len(sql)
            BY <2>1 DEF TextInv, TextTypes
          <5> QED
            BY <5>1, PieceType
        <4>3. PICK a, b : /\ a = sb /\ b = SubSeq(sql, pos + 1, Len(sql))
                          /\ a \in Seq(Written) /\ b \in Seq(Written)
          <5>1. Alphabet \subseteq Written
            BY DEF Written
          <5>2. \A y : y \in Seq(Alphabet) => y \in Seq(Written)
            <6> HIDE DEF Written, Alphabet
            <6> QED
              BY <5>1
          <5>3. sb \in Seq(Written) /\ SubSeq(sql, pos + 1, Len(sql)) \in Seq(Written)
            BY <1>1, <4>2, <5>2, Zenon DEF TextKinds
          <5> QED
            BY <5>3, Zenon
        <4>4. a \o b \in Seq(Written)
          BY <4>3, ConcatProperties
        <4> QED
          BY <4>1, <4>3, <4>4
      <3>3. CASE P!Send
        BY <1>1, <3>3 DEF TextKinds, P!Send
      <3> QED
        BY <1>3, <3>1, <3>2, <3>3 DEF P!Next
    <2>6. TextKinds'
      BY <2>3, <2>4, <2>5 DEF TextKinds, Written, P!Texts, P!BoundedSeq, P!SeqOf, P!Value, Alphabet
    <2> QED
      BY <1>1, <2>6 DEF KindsInv
  <1> QED
    BY <1>2, <1>3 DEF MCNext, all

LEMMA KindsMean == KindsInv => P!TypeOK
  <1> SUFFICES ASSUME TextKinds PROVE P!TypeOK
    BY DEF KindsInv
  <1>1. P!Range(sb) \subseteq Written
    BY DEF TextKinds, P!Range
  <1>2. Written = {"'", "?", "x", "magic"} \cup {P!Value(n) : n \in 1 .. MaxParams}
    BY DEF Written, Alphabet
  <1> QED
    BY <1>1, <1>2 DEF TextKinds, P!TypeOK

\* Where an option has its value, getopt has been.
Been(o) == \E e \in 1 .. optind : argv[e] = O!Option(o)
Count(o) == IF field[o] # O!Unset THEN 1 ELSE 0

\* The options that getopt has gone through, on any line.
WordsInv ==
    /\ argv \in Seq(Vocabulary) /\ OnceEach
    /\ optind \in 0 .. Len(argv)
    /\ DOMAIN field = AllOptions
    /\ \A o \in AllOptions : field[o] \in {O!Unset} \cup O!Range(argv) /\ (field[o] # O!Unset => Been(o))
    /\ required = Count("u") + Count("h")
    /\ options_pc \in {"getopt", "usage", "run"} /\ (options_pc = "run" => required = 2)

LEMMA WordsStart == MCInit => WordsInv
  <1> SUFFICES ASSUME MCInit PROVE WordsInv
    OBVIOUS
  <1>1. optind = 0 /\ required = 0 /\ options_pc = "getopt" /\ field = [o \in AllOptions |-> O!Unset]
    BY DEF MCInit, O!Init, OptionsAtRest, AllOptions
  <1>2. argv \in Seq(Vocabulary) /\ OnceEach
    <2>1. CASE part = "options"
      <3>1. argv \in O!Lines
        BY <2>1 DEF MCInit, O!Init
      <3> QED
        BY <3>1, LinesAre
    <2>2. CASE part # "options"
      <3>1. argv = <<>>
        BY <2>2 DEF MCInit, OptionsAtRest
      <3> QED
        BY <3>1 DEF OnceEach
    <2> QED
      BY <2>1, <2>2
  <1>3. optind \in 0 .. Len(argv)
    <2>1. Len(argv) \in Nat
      BY <1>2
    <2> QED
      BY <1>1, <2>1
  <1>4. DOMAIN field = AllOptions /\ \A o \in AllOptions : field[o] = O!Unset
    BY <1>1
  <1>5. Count("u") = 0 /\ Count("h") = 0
    BY <1>4 DEF Count, AllOptions, O!Required
  <1> QED
    BY <1>1, <1>2, <1>3, <1>4, <1>5 DEF WordsInv

LEMMA WordsStay ==
    ASSUME WordsInv, argv' = argv, field' = field, required' = required, optind' \in optind .. Len(argv),
           options_pc' = options_pc \/ (options_pc' = IF required < 2 THEN "usage" ELSE "run")
    PROVE  WordsInv'
  <1>1. PICK n : n = Len(argv) /\ n \in Nat /\ optind \in 0 .. n /\ optind' \in optind .. n
    BY DEF WordsInv
  <1>2. 1 .. optind \subseteq 1 .. optind' /\ optind' \in 0 .. n
    BY <1>1
  <1>3. \A o : Been(o) => Been(o)'
    BY <1>2, Zenon DEF Been
  <1>4. Count("u")' = Count("u") /\ Count("h")' = Count("h")
    BY Zenon DEF Count, O!Unset
  <1>5. Count("u") \in 0 .. 1 /\ Count("h") \in 0 .. 1
    BY DEF Count
  <1>6. options_pc' \in {"getopt", "usage", "run"} /\ (options_pc' = "run" => required' = 2)
    BY <1>5 DEF WordsInv
  <1>7. argv' \in Seq(Vocabulary)' /\ OnceEach' /\ DOMAIN field' = AllOptions'
    BY Zenon DEF WordsInv, Vocabulary, OnceEach, AllOptions, O!Required, O!Optional, O!Option, O!Value
  <1>8. \A o \in AllOptions' : /\ field'[o] \in {O!Unset} \cup O!Range(argv)'
                               /\ field'[o] # O!Unset => Been(o)'
    BY <1>3, Zenon DEF WordsInv, AllOptions, O!Required, O!Optional, O!Range
  <1>9. optind' \in 0 .. Len(argv')
    BY <1>1, <1>2, Zenon
  <1>10. required' = Count("u")' + Count("h")'
    BY <1>4 DEF WordsInv
  <1> QED
    BY <1>6, <1>7, <1>8, <1>9, <1>10, Zenon DEF WordsInv, O!Unset

LEMMA WordsKnown ==
    ASSUME WordsInv, O!Known
    PROVE  WordsInv'
  <1>1. PICK n : n = Len(argv) /\ n \in Nat /\ optind \in 0 .. n /\ optind + 1 < n
                 /\ DOMAIN argv = 1 .. n /\ \A e \in 1 .. n : argv[e] \in Vocabulary
    BY DEF WordsInv, O!Known
  <1>2. optind + 1 \in 1 .. n /\ optind + 2 \in 1 .. n /\ optind + 2 \in 0 .. n
    BY <1>1
  <1>3. PICK o \in AllOptions : O!Word = O!Option(o)
    <2>1. O!Word \in Vocabulary /\ O!Word[1] = "option"
      BY <1>1, <1>2 DEF O!Word, O!Known
    <2>2. ASSUME NEW o, O!Word = O!Value(o) PROVE FALSE
      <3>1. O!Value(o)[1] = "value"
        BY DEF O!Value
      <3> QED
        BY <2>1, <2>2, <3>1
    <2> QED
      BY <2>1, <2>2, Zenon DEF Vocabulary
  <1>4. O!Word[2] = o /\ argv[optind + 1] = O!Option(o)
    BY <1>3, OptionNames, Zenon DEF O!Word
  <1>5. PICK w : w = argv[optind + 2] /\ w \in O!Range(argv) /\ w # O!Unset
    <2>1. argv[optind + 2] \in Vocabulary /\ argv[optind + 2] \in O!Range(argv)
      BY <1>1, <1>2 DEF O!Range
    <2>2. \A x \in Vocabulary : x # O!Unset
      BY DEF Vocabulary, O!Option, O!Value, O!Unset
    <2> QED
      BY <2>1, <2>2
  <1>6. /\ argv' = argv /\ options_pc' = options_pc /\ optind' = optind + 2 /\ options_pc = "getopt"
        /\ field' = IF o = "v" THEN field ELSE [field EXCEPT ![o] = w]
        /\ required' = IF o \in {"u", "h"} THEN required + 1 ELSE required
    BY <1>4, <1>5, Zenon DEF O!Known, O!Required
  <1>7. DOMAIN field' = AllOptions
        /\ \A p \in AllOptions : field'[p] = IF o # "v" /\ p = o THEN w ELSE field[p]
    BY <1>6 DEF WordsInv
  <1>8. Been(o)' /\ \A p : Been(p) => Been(p)'
    <2>1. 1 .. optind \subseteq 1 .. optind + 2 /\ optind + 1 \in 1 .. optind + 2
      BY <1>1
    <2> QED
      BY <1>4, <1>6, <2>1, Zenon DEF Been, O!Option
  <1>9. field[o] = O!Unset
    <2>1. ~ Been(o)
      <3> SUFFICES ASSUME NEW e \in 1 .. optind, argv[e] = O!Option(o) PROVE FALSE
        BY DEF Been
      <3>1. e \in 1 .. n /\ e # optind + 1
        BY <1>1
      <3>2. e = optind + 1
        BY <1>1, <1>2, <1>4, <3>1, Zenon DEF WordsInv, OnceEach
      <3> QED
        BY <3>1, <3>2
    <2> QED
      BY <2>1 DEF WordsInv
  <1>10. required' = Count("u")' + Count("h")'
    <2>1. "u" \in AllOptions /\ "h" \in AllOptions
      BY DEF AllOptions, O!Required
    <2>2. Count("u")' = (IF o = "u" THEN 1 ELSE Count("u")) /\ Count("h")' = (IF o = "h" THEN 1 ELSE Count("h"))
      BY <1>5, <1>7, <2>1 DEF Count, O!Unset
    <2>3. (o = "u" => Count("u") = 0) /\ (o = "h" => Count("h") = 0) /\ Count("u") \in 0 .. 1 /\ Count("h") \in 0 .. 1
      BY <1>9 DEF Count
    <2>4. required = Count("u") + Count("h")
      BY DEF WordsInv
    <2> QED
      BY <1>6, <2>2, <2>3, <2>4
  <1>11. \A p \in AllOptions : /\ field'[p] \in {O!Unset} \cup O!Range(argv)'
                               /\ field'[p] # O!Unset => Been(p)'
    <2>1. O!Range(argv)' = O!Range(argv)
      BY <1>6, Zenon DEF O!Range
    <2> QED
      BY <1>5, <1>7, <1>8, <2>1, Zenon DEF WordsInv
  <1>12. argv' \in Seq(Vocabulary)' /\ OnceEach' /\ DOMAIN field' = AllOptions' /\ AllOptions' = AllOptions
    BY <1>6, <1>7, Zenon
       DEF WordsInv, Vocabulary, OnceEach, AllOptions, O!Required, O!Optional, O!Option, O!Value
  <1>13. optind' \in 0 .. Len(argv')
    BY <1>1, <1>2, <1>6, Zenon
  <1>14. options_pc' \in {"getopt", "usage", "run"} /\ (options_pc' = "run" => required' = 2)
    BY <1>6
  <1> QED
    BY <1>10, <1>11, <1>12, <1>13, <1>14, Zenon DEF WordsInv, O!Unset

LEMMA WordsStep == WordsInv /\ [MCNext]_all => WordsInv'
  <1> SUFFICES ASSUME WordsInv, [MCNext]_all PROVE WordsInv'
    OBVIOUS
  <1>0. Len(argv) \in Nat /\ optind \in 0 .. Len(argv)
    BY DEF WordsInv
  <1>1. CASE UNCHANGED options
    <2>1. optind' \in optind .. Len(argv) /\ argv' = argv /\ field' = field /\ required' = required
          /\ options_pc' = options_pc
      BY <1>0, <1>1 DEF options
    <2> QED
      BY <2>1, WordsStay
  <1>2. CASE O!Known
    BY <1>2, WordsKnown
  <1>3. CASE O!Skipped
    <2>1. optind' \in optind .. Len(argv) /\ argv' = argv /\ field' = field /\ required' = required
          /\ options_pc' = options_pc
      BY <1>0, <1>3 DEF O!Skipped
    <2> QED
      BY <2>1, WordsStay
  <1>4. CASE O!GetoptEnds
    <2>1. optind' \in optind .. Len(argv) /\ argv' = argv /\ field' = field /\ required' = required
          /\ options_pc' = IF required < 2 THEN "usage" ELSE "run"
      BY <1>0, <1>4 DEF O!GetoptEnds
    <2> QED
      BY <2>1, WordsStay
  <1> QED
    BY <1>1, <1>2, <1>3, <1>4 DEF MCNext, all, O!Next

LEMMA WordsMean == WordsInv => O!TypeOK
  <1> SUFFICES ASSUME WordsInv PROVE O!TypeOK
    OBVIOUS
  <1>1. O!Cardinality(O!Required) = 2
    <2>1. IsFiniteSet({"u"}) /\ Cardinality({"u"}) = 1
      BY FS_Singleton
    <2>2. Cardinality({"u"} \cup {"h"}) = 2
      <3>1. Cardinality({"u"} \cup {"h"}) = IF "h" \in {"u"} THEN Cardinality({"u"}) ELSE Cardinality({"u"}) + 1
        BY <2>1, FS_AddElement
      <3> QED
        BY <2>1, <3>1
    <2>3. O!Required = {"u"} \cup {"h"}
      BY DEF O!Required
    <2> QED
      BY <2>2, <2>3, CardinalityInO
  <1>2. Count("u") \in 0 .. 1 /\ Count("h") \in 0 .. 1 /\ required = Count("u") + Count("h")
    BY DEF WordsInv, Count
  <1>3. required \in 0 .. 2
    BY <1>2
  <1>4. options_pc = "run" => field["u"] # O!Unset /\ field["h"] # O!Unset
    <2>1. options_pc = "run" => required = 2
      BY DEF WordsInv
    <2>2. required = 2 => Count("u") = 1 /\ Count("h") = 1
      BY <1>2
    <2> QED
      BY <2>1, <2>2 DEF Count
  <1> QED
    BY <1>1, <1>3, <1>4 DEF WordsInv, O!TypeOK, O!Required

\* A function on numbers that begins at a base and of which each value is got
\* from the one before it.
Grown(N, base, h, f) == f[0] = base /\ \A k \in 1 .. N : f[k] = h[k][f[k - 1]]

LEMMA GrownExists ==
    ASSUME NEW N \in Nat, NEW base \in Nat, NEW h \in [1 .. N -> [Nat -> Nat]]
    PROVE  \E f \in [0 .. N -> Nat] : Grown(N, base, h, f)
  <1> DEFINE Some(n) == \E f \in [0 .. n -> Nat] : f[0] = base /\ \A k \in 1 .. n : f[k] = h[k][f[k - 1]]
  <1> DEFINE T == {n \in 0 .. N : ~ Some(n)}
  <1>1. T = {}
    <2>0. T \subseteq Nat
      <3> HIDE DEF Some
      <3> QED
        OBVIOUS
    <2> SUFFICES ASSUME T # {} PROVE FALSE
      OBVIOUS
    <2>1. PICK n \in T : \A m \in T : ~ (m < n)
      <3> HIDE DEF T
      <3> QED
        BY <2>0, QP!LeastNumber
    <2>2. n \in 0 .. N /\ ~ Some(n)
      BY <2>1
    <2>3. n # 0
      <3>1. Some(0)
        <4> DEFINE f == [k \in 0 .. 0 |-> base]
        <4>1. f \in [0 .. 0 -> Nat] /\ f[0] = base /\ 1 .. 0 = {}
          OBVIOUS
        <4> HIDE DEF f
        <4> QED
          BY <4>1
      <3> QED
        BY <2>2, <3>1
    <2>4. n - 1 \in 0 .. N /\ n - 1 < n /\ n \in 1 .. N
      BY <2>2, <2>3
    <2>5. PICK f \in [0 .. n - 1 -> Nat] : f[0] = base /\ \A k \in 1 .. n - 1 : f[k] = h[k][f[k - 1]]
      BY <2>1, <2>4
    <2>6. PICK z : z = h[n][f[n - 1]] /\ z \in Nat
      <3>1. f[n - 1] \in Nat /\ h[n] \in [Nat -> Nat]
        BY <2>4, <2>5
      <3> QED
        BY <3>1
    <2> DEFINE g == [k \in 0 .. n |-> IF k = n THEN z ELSE f[k]]
    <2>7. g \in [0 .. n -> Nat] /\ g[0] = base
      <3>1. \A k \in 0 .. n : k = n \/ k \in 0 .. n - 1
        BY <2>2
      <3>2. \A k \in 0 .. n : g[k] \in Nat
        BY <2>5, <2>6, <3>1
      <3>3. 0 \in 0 .. n /\ g[0] = f[0]
        BY <2>2, <2>3
      <3> QED
        BY <2>5, <3>2, <3>3
    <2>8. \A k \in 1 .. n : g[k] = h[k][g[k - 1]]
      <3> TAKE k \in 1 .. n
      <3>1. g[k - 1] = f[k - 1]
        BY <2>4
      <3>2. CASE k = n
        <4>1. g[k] = z
          BY <3>2
        <4> QED
          BY <2>6, <3>1, <3>2, <4>1
      <3>3. CASE k # n
        <4>1. g[k] = f[k] /\ k \in 1 .. n - 1
          BY <2>4, <3>3
        <4> QED
          BY <2>5, <3>1, <4>1
      <3> QED
        BY <3>2, <3>3
    <2> HIDE DEF g
    <2> QED
      BY <2>2, <2>7, <2>8
  <1>2. Some(N)
    <2>1. N \in 0 .. N
      OBVIOUS
    <2> HIDE DEF Some
    <2> QED
      BY <1>1, <2>1
  <1> HIDE DEF T
  <1> QED
    BY <1>2 DEF Grown

-------------------------------------------------------------------------------
(* The bytes of a text. *)

Lines == S!TextLines \cup {S!Newline}

\* The function of Bytes, and what it comes to.
IsSum(t, f) == f = [n \in 0 .. Len(t) |-> IF n = 0 THEN 0 ELSE f[n - 1] + t[n].len]
Sums(t, f) ==
    /\ f \in [0 .. Len(t) -> Nat] /\ f[0] = 0
    /\ \A n \in 1 .. Len(t) : f[n] = f[n - 1] + t[n].len

LEMMA SumFound ==
    ASSUME NEW t, NEW g, IsSum(t, g)
    PROVE  \E f : IsSum(t, f) /\ S!Bytes(t) = f[Len(t)]
  BY Zenon DEF IsSum, S!Bytes

LEMMA LineLengths == \A x \in Lines : x.len \in Nat
  <1> SUFFICES ASSUME NEW x \in Lines PROVE x.len \in Nat
    OBVIOUS
  <1>1. CASE x \in S!TextLines
    <2>1. x.len \in Lengths
      BY <1>1 DEF S!TextLines
    <2> QED
      BY <2>1, PartsAssumption DEF S!ScriptAssumption
  <1>2. CASE x = S!Newline
    <2>1. x.len = 1
      BY <1>2 DEF S!Newline
    <2> QED
      BY <2>1
  <1> QED
    BY <1>1, <1>2 DEF Lines

LEMMA BytesAre ==
    ASSUME NEW t \in Seq(Lines)
    PROVE  \E f : Sums(t, f) /\ S!Bytes(t) = f[Len(t)]
  <1>1. PICK N : N = Len(t) /\ N \in Nat
    OBVIOUS
  <1>2. \A n \in 1 .. N : t[n].len \in Nat
    <2>1. \A n \in 1 .. N : t[n] \in Lines
      BY <1>1
    <2> QED
      BY <2>1, LineLengths
  <1> DEFINE h == [n \in 1 .. N |-> [a \in Nat |-> a + t[n].len]]
  <1>3. h \in [1 .. N -> [Nat -> Nat]] /\ \A n \in 1 .. N : \A a \in Nat : h[n][a] = a + t[n].len
    BY <1>2
  <1>4. PICK g \in [0 .. N -> Nat] : Grown(N, 0, h, g)
    <2>1. 0 \in Nat
      OBVIOUS
    <2> HIDE DEF h
    <2> QED
      BY <1>1, <1>3, <2>1, GrownExists
  <1> HIDE DEF h
  <1>5. g[0] = 0 /\ \A n \in 1 .. N : g[n] = g[n - 1] + t[n].len
    <2>1. \A n \in 1 .. N : n - 1 \in 0 .. N
      BY <1>1
    <2>2. \A n \in 1 .. N : g[n - 1] \in Nat
      BY <1>4, <2>1
    <2> QED
      BY <1>3, <1>4, <2>2 DEF Grown
  <1>6. IsSum(t, g)
    <2>1. \A n \in 0 .. N : g[n] = IF n = 0 THEN 0 ELSE g[n - 1] + t[n].len
      <3> TAKE n \in 0 .. N
      <3>1. n = 0 \/ n \in 1 .. N
        BY <1>1
      <3> QED
        BY <1>5, <3>1
    <2>2. g = [n \in 0 .. N |-> g[n]]
      BY <1>4
    <2>3. [n \in 0 .. N |-> g[n]] = [n \in 0 .. N |-> IF n = 0 THEN 0 ELSE g[n - 1] + t[n].len]
      BY <2>1, Zenon
    <2> QED
      BY <1>1, <2>2, <2>3, Zenon DEF IsSum
  <1>7. PICK f : IsSum(t, f) /\ S!Bytes(t) = f[Len(t)]
    BY <1>6, SumFound
  <1>8. DOMAIN f = 0 .. N /\ f[0] = 0 /\ \A n \in 1 .. N : f[n] = f[n - 1] + t[n].len
    <2>1. f = [n \in 0 .. N |-> IF n = 0 THEN 0 ELSE f[n - 1] + t[n].len]
      BY <1>1, <1>7 DEF IsSum
    <2>2. \A n \in 0 .. N : f[n] = IF n = 0 THEN 0 ELSE f[n - 1] + t[n].len
      BY <2>1, Zenon
    <2>3. DOMAIN f = 0 .. N
      BY <2>1, Zenon
    <2>4. 0 \in 0 .. N /\ \A n \in 1 .. N : n \in 0 .. N /\ n # 0
      BY <1>1
    <2> QED
      BY <2>2, <2>3, <2>4, Zenon
  <1>9. \A n \in 0 .. N : f[n] = g[n]
    <2> DEFINE T == {n \in 0 .. N : f[n] # g[n]}
    <2> SUFFICES ASSUME T # {} PROVE FALSE
      OBVIOUS
    <2>1. PICK n \in T : \A m \in T : ~ (m < n)
      <3>1. T \subseteq Nat
        OBVIOUS
      <3> HIDE DEF T
      <3> QED
        BY <3>1, QP!LeastNumber
    <2>2. n \in 1 .. N /\ n - 1 \in 0 .. N /\ n - 1 < n
      <3>1. n \in 0 .. N /\ n # 0
        BY <1>5, <1>8, <2>1
      <3> QED
        BY <1>1, <3>1
    <2>3. f[n - 1] = g[n - 1]
      BY <2>1, <2>2
    <2> QED
      BY <1>5, <1>8, <2>1, <2>2, <2>3
  <1>10. f = [n \in 0 .. N |-> f[n]]
    <2>1. f = [n \in 0 .. N |-> IF n = 0 THEN 0 ELSE f[n - 1] + t[n].len]
      BY <1>1, <1>7 DEF IsSum
    <2> QED
      BY <2>1
  <1>11. f \in [0 .. N -> Nat]
    BY <1>4, <1>9, <1>10
  <1> QED
    BY <1>1, <1>7, <1>8, <1>11 DEF Sums

LEMMA BytesJoined ==
    ASSUME NEW t \in Seq(Lines), NEW u \in Seq(Lines)
    PROVE  /\ S!Bytes(t) \in Nat /\ S!Bytes(u) \in Nat
           /\ t \o u \in Seq(Lines) /\ S!Bytes(t \o u) = S!Bytes(t) + S!Bytes(u)
  <1>1. PICK M, N : M = Len(t) /\ N = Len(u) /\ M \in Nat /\ N \in Nat
    <2>1. Len(t) \in Nat /\ Len(u) \in Nat
      OBVIOUS
    <2> QED
      BY <2>1, Zenon
  <1>2. PICK w : w = t \o u /\ w \in Seq(Lines) /\ Len(w) = M + N
                 /\ (\A n \in 1 .. M : w[n] = t[n]) /\ \A n \in 1 .. N : w[M + n] = u[n]
    <2>1. t \o u \in Seq(Lines) /\ Len(t \o u) = M + N
      BY <1>1
    <2>2. (\A n \in 1 .. M : (t \o u)[n] = t[n]) /\ \A n \in 1 .. N : (t \o u)[M + n] = u[n]
      BY <1>1
    <2> QED
      BY <2>1, <2>2
  <1>3. PICK f : Sums(t, f) /\ S!Bytes(t) = f[Len(t)]
    BY BytesAre
  <1>4. PICK g : Sums(u, g) /\ S!Bytes(u) = g[Len(u)]
    BY BytesAre
  <1>5. PICK F : Sums(w, F) /\ S!Bytes(w) = F[Len(w)]
    BY <1>2, BytesAre
  <1>6. /\ f \in [0 .. M -> Nat] /\ f[0] = 0 /\ \A n \in 1 .. M : f[n] = f[n - 1] + t[n].len
        /\ g \in [0 .. N -> Nat] /\ g[0] = 0 /\ \A n \in 1 .. N : g[n] = g[n - 1] + u[n].len
        /\ F \in [0 .. M + N -> Nat] /\ F[0] = 0 /\ \A n \in 1 .. M + N : F[n] = F[n - 1] + w[n].len
    BY <1>1, <1>2, <1>3, <1>4, <1>5 DEF Sums
  <1>7. \A n \in 0 .. M : F[n] = f[n]
    <2> DEFINE T == {n \in 0 .. M : F[n] # f[n]}
    <2> SUFFICES ASSUME T # {} PROVE FALSE
      OBVIOUS
    <2>1. PICK n \in T : \A m \in T : ~ (m < n)
      <3>1. T \subseteq Nat
        OBVIOUS
      <3> HIDE DEF T
      <3> QED
        BY <3>1, QP!LeastNumber
    <2>2. n \in 1 .. M /\ n - 1 \in 0 .. M /\ n - 1 < n /\ n \in 1 .. M + N
      BY <1>1, <1>6, <2>1
    <2>3. F[n - 1] = f[n - 1]
      BY <2>1, <2>2
    <2>4. F[n] = F[n - 1] + w[n].len /\ f[n] = f[n - 1] + t[n].len /\ w[n] = t[n]
      BY <1>2, <1>6, <2>2
    <2> QED
      BY <2>1, <2>3, <2>4
  <1>8. \A n \in 0 .. N : F[M + n] = f[M] + g[n]
    <2> DEFINE T == {n \in 0 .. N : F[M + n] # f[M] + g[n]}
    <2> SUFFICES ASSUME T # {} PROVE FALSE
      OBVIOUS
    <2>1. PICK n \in T : \A m \in T : ~ (m < n)
      <3>1. T \subseteq Nat
        OBVIOUS
      <3> HIDE DEF T
      <3> QED
        BY <3>1, QP!LeastNumber
    <2>2. n \in 0 .. N /\ F[M + n] # f[M] + g[n]
      BY <2>1
    <2>3. f[M] \in Nat /\ F[M] = f[M]
      BY <1>1, <1>6, <1>7
    <2>4. n # 0
      BY <1>1, <1>6, <2>2, <2>3
    <2>5. PICK k, j : /\ k = M + n /\ j = n - 1 /\ k \in 1 .. M + N /\ n \in 1 .. N /\ j \in 0 .. N /\ j < n
                      /\ k - 1 = M + j
      BY <1>1, <2>2, <2>4
    <2>6. F[M + j] = f[M] + g[j]
      BY <2>1, <2>5
    <2>7. F[k] = F[k - 1] + w[k].len /\ g[n] = g[j] + u[n].len /\ w[k] = u[n]
      BY <1>2, <1>6, <2>5
    <2>8. g[j] \in Nat /\ u[n].len \in Nat
      <3>1. u[n] \in Lines
        BY <1>1, <2>5
      <3> QED
        BY <1>6, <2>5, <3>1, LineLengths
    <2>9. PICK a, b, c, d : a = f[M] /\ b = g[j] /\ c = u[n].len /\ d = F[k] /\ a \in Nat /\ b \in Nat /\ c \in Nat
      BY <2>3, <2>8
    <2>10. d = (a + b) + c /\ g[n] = b + c
      BY <2>5, <2>6, <2>7, <2>9
    <2>11. (a + b) + c = a + (b + c)
      <3>1. \A x, y, z \in Nat : (x + y) + z = x + (y + z)
        OBVIOUS
      <3> QED
        BY <2>9, <3>1, Zenon
    <2> QED
      BY <2>2, <2>5, <2>9, <2>10, <2>11, Zenon
  <1>9. f[M] \in Nat /\ g[N] \in Nat /\ F[M + N] = f[M] + g[N]
    <2>1. M \in 0 .. M /\ N \in 0 .. N
      BY <1>1
    <2> QED
      BY <1>6, <1>8, <2>1
  <1> QED
    BY <1>1, <1>2, <1>3, <1>4, <1>5, <1>9

LEMMA BytesNone == S!Bytes(<<>>) = 0
  <1>1. <<>> \in Seq(Lines) /\ Len(<<>>) = 0
    OBVIOUS
  <1>2. PICK f : Sums(<<>>, f) /\ S!Bytes(<<>>) = f[Len(<<>>)]
    BY <1>1, BytesAre
  <1> QED
    BY <1>1, <1>2 DEF Sums

LEMMA BytesOne ==
    ASSUME NEW x \in Lines
    PROVE  <<x>> \in Seq(Lines) /\ S!Bytes(<<x>>) = x.len
  <1>1. PICK t : t = <<x>> /\ t \in Seq(Lines) /\ Len(t) = 1 /\ t[1] = x
    <2>1. <<x>> \in Seq(Lines) /\ Len(<<x>>) = 1 /\ <<x>>[1] = x
      OBVIOUS
    <2> QED
      BY <2>1, Zenon
  <1>2. PICK f : Sums(t, f) /\ S!Bytes(t) = f[Len(t)]
    BY <1>1, BytesAre
  <1>3. 1 \in 1 .. 1 /\ 1 - 1 = 0
    OBVIOUS
  <1>4. f[1] = f[0] + x.len /\ f[0] = 0
    BY <1>1, <1>2, <1>3 DEF Sums
  <1> QED
    BY <1>1, <1>2, <1>4, LineLengths


-------------------------------------------------------------------------------
(* The size of the buffer. *)

\* The function of Doubled.
IsSize(most, f) == f = [n \in 0 .. most |-> IF n = 0 THEN bufsz ELSE 2 * f[n - 1]]

LEMMA SizeFound ==
    ASSUME NEW most, NEW g, IsSize(most, g)
    PROVE  \E f : IsSize(most, f) /\ S!Doubled(most) = {f[n] : n \in 0 .. most}
  BY Zenon DEF IsSize, S!Doubled

LEMMA SizesAre ==
    ASSUME bufsz \in Nat \ {0}, NEW most \in Nat
    PROVE  \E f \in [0 .. most -> Nat] : /\ S!Doubled(most) = {f[n] : n \in 0 .. most}
                                         /\ \A n \in 0 .. most : bufsz + n =< f[n]
  <1> DEFINE h == [n \in 1 .. most |-> [a \in Nat |-> 2 * a]]
  <1>1. h \in [1 .. most -> [Nat -> Nat]] /\ \A n \in 1 .. most : \A a \in Nat : h[n][a] = 2 * a
    OBVIOUS
  <1>2. PICK g \in [0 .. most -> Nat] : Grown(most, bufsz, h, g)
    <2>1. bufsz \in Nat
      OBVIOUS
    <2> HIDE DEF h
    <2> QED
      BY <1>1, <2>1, GrownExists
  <1> HIDE DEF h
  <1>3. g[0] = bufsz /\ \A n \in 1 .. most : g[n] = 2 * g[n - 1]
    <2>1. \A n \in 1 .. most : n - 1 \in 0 .. most
      OBVIOUS
    <2>2. \A n \in 1 .. most : g[n - 1] \in Nat
      BY <1>2, <2>1
    <2> QED
      BY <1>1, <1>2, <2>2 DEF Grown
  <1>4. IsSize(most, g)
    <2>1. \A n \in 0 .. most : g[n] = IF n = 0 THEN bufsz ELSE 2 * g[n - 1]
      <3> TAKE n \in 0 .. most
      <3>1. n = 0 \/ n \in 1 .. most
        OBVIOUS
      <3> QED
        BY <1>3, <3>1
    <2>2. g = [n \in 0 .. most |-> g[n]]
      BY <1>2
    <2>3. [n \in 0 .. most |-> g[n]] = [n \in 0 .. most |-> IF n = 0 THEN bufsz ELSE 2 * g[n - 1]]
      BY <2>1, Zenon
    <2> QED
      BY <2>2, <2>3, Zenon DEF IsSize
  <1>5. PICK f : IsSize(most, f) /\ S!Doubled(most) = {f[n] : n \in 0 .. most}
    BY <1>4, SizeFound
  <1>6. f[0] = bufsz /\ \A n \in 1 .. most : f[n] = 2 * f[n - 1]
    <2>1. f = [n \in 0 .. most |-> IF n = 0 THEN bufsz ELSE 2 * f[n - 1]]
      BY <1>5 DEF IsSize
    <2>2. \A n \in 0 .. most : f[n] = IF n = 0 THEN bufsz ELSE 2 * f[n - 1]
      BY <2>1, Zenon
    <2>3. 0 \in 0 .. most /\ \A n \in 1 .. most : n \in 0 .. most /\ n # 0
      OBVIOUS
    <2> QED
      BY <2>2, <2>3, Zenon
  <1>7. \A n \in 0 .. most : f[n] \in Nat /\ bufsz + n =< f[n]
    <2> DEFINE T == {n \in 0 .. most : ~ (f[n] \in Nat /\ bufsz + n =< f[n])}
    <2> SUFFICES ASSUME T # {} PROVE FALSE
      OBVIOUS
    <2>1. PICK n \in T : \A m \in T : ~ (m < n)
      <3>1. T \subseteq Nat
        OBVIOUS
      <3> HIDE DEF T
      <3> QED
        BY <3>1, QP!LeastNumber
    <2>2. n \in 0 .. most /\ ~ (f[n] \in Nat /\ bufsz + n =< f[n])
      BY <2>1
    <2>3. n # 0
      BY <1>6, <2>2
    <2>4. n \in 1 .. most /\ n - 1 \in 0 .. most /\ n - 1 < n
      BY <2>2, <2>3
    <2>5. f[n - 1] \in Nat /\ bufsz + (n - 1) =< f[n - 1]
      BY <2>1, <2>4
    <2>6. f[n] = 2 * f[n - 1]
      BY <1>6, <2>4
    <2>7. PICK a, b : a = f[n - 1] /\ b = bufsz /\ a \in Nat /\ b \in Nat \ {0} /\ b + (n - 1) =< a
      BY <2>5
    <2>8. 2 * a \in Nat /\ b + n =< 2 * a
      BY <2>4, <2>7
    <2> QED
      BY <2>2, <2>6, <2>7, <2>8
  <1>8. f \in [0 .. most -> Nat]
    <2>1. f = [n \in 0 .. most |-> IF n = 0 THEN bufsz ELSE 2 * f[n - 1]]
      BY <1>5 DEF IsSize
    <2>2. DOMAIN f = 0 .. most /\ f = [n \in DOMAIN f |-> f[n]]
      BY <2>1
    <2> QED
      BY <1>7, <2>2
  <1> QED
    BY <1>5, <1>7, <1>8

LEMMA RoomFits ==
    ASSUME bufsz \in Nat \ {0}, buflen \in Nat, NEW l \in Nat
    PROVE  S!Room(l) \in Nat /\ bufsz =< S!Room(l) /\ buflen + l + 2 =< S!Room(l)
  <1>1. PICK need : need = buflen + l + 2 /\ need \in Nat
    OBVIOUS
  <1>2. PICK f \in [0 .. need -> Nat] : /\ S!Doubled(need) = {f[n] : n \in 0 .. need}
                                        /\ \A n \in 0 .. need : bufsz + n =< f[n]
    BY <1>1, SizesAre
  <1> DEFINE T == {size \in S!Doubled(need) : need =< size}
  <1>3. T \subseteq Nat /\ T # {} /\ \A x \in T : bufsz =< x /\ need =< x
    <2>1. \A n \in 0 .. need : f[n] \in Nat /\ bufsz =< f[n]
      <3> TAKE n \in 0 .. need
      <3>1. f[n] \in Nat /\ bufsz + n =< f[n] /\ n \in Nat
        BY <1>1, <1>2
      <3> QED
        BY <3>1
    <2>2. f[need] \in S!Doubled(need) /\ need =< f[need]
      <3>1. need \in 0 .. need
        BY <1>1
      <3>2. f[need] \in Nat /\ bufsz + need =< f[need]
        BY <1>2, <3>1
      <3>3. need =< f[need]
        BY <1>1, <3>2
      <3> QED
        BY <1>2, <3>1, <3>3
    <2> QED
      BY <1>2, <2>1, <2>2
  <1>4. S!Room(l) = CHOOSE x \in T : \A y \in T : x =< y
    BY <1>1, Zenon DEF S!Room, S!Min
  <1> HIDE DEF T
  <1>5. PICK x \in T : \A y \in T : ~ (y < x)
    BY <1>3, QP!LeastNumber
  <1>6. \A y \in T : x =< y
    BY <1>3, <1>5
  <1>7. S!Room(l) \in T
    BY <1>4, <1>5, <1>6, Zenon
  <1> QED
    BY <1>1, <1>3, <1>7


\* The lines kept are counted in buflen and fit, with their NUL, in bufsz.
BufferIs(b, n, z) ==
    /\ b \in Seq(Lines) /\ n = S!Bytes(b)
    /\ z \in Nat /\ FirstSize =< z /\ n + 1 =< z

\* The states of the script.
ScriptTypes ==
    /\ BufferIs(mybuf, buflen, bufsz)
    /\ request_sql \in {"null", "mybuf", "catalog"} /\ param0 \in {"null", "freed"}
    /\ cmd \in {"", "kill", "tables", "columns", "pkey"}
    /\ count \in 0 .. MaxLines /\ script_pc \in {"read", "exit"}

LEMMA SizesOfScript == FirstSize \in Nat \ {0} /\ MaxLines \in Nat
  BY PartsAssumption DEF S!ScriptAssumption

LEMMA BufferEmpty ==
    ASSUME NEW z \in Nat, FirstSize =< z
    PROVE  BufferIs(<<>>, 0, z)
  <1>1. <<>> \in Seq(Lines) /\ 0 + 1 =< z
    BY SizesOfScript
  <1> QED
    BY <1>1, BytesNone DEF BufferIs

\* With what Room has for a line of that length, its text is added.
LEMMA BufferGrows ==
    ASSUME BufferIs(mybuf, buflen, bufsz), NEW u \in Seq(Lines), NEW l \in Nat, S!Bytes(u) =< l + 1
    PROVE  BufferIs(mybuf \o u, buflen + S!Bytes(u), S!Room(l))
  <1>1. /\ S!Bytes(mybuf) \in Nat /\ S!Bytes(u) \in Nat
        /\ mybuf \o u \in Seq(Lines) /\ S!Bytes(mybuf \o u) = buflen + S!Bytes(u)
        /\ buflen = S!Bytes(mybuf) /\ bufsz \in Nat /\ FirstSize =< bufsz
    BY BytesJoined DEF BufferIs
  <1>2. bufsz \in Nat \ {0}
    BY <1>1, SizesOfScript
  <1>3. S!Room(l) \in Nat /\ bufsz =< S!Room(l) /\ buflen + l + 2 =< S!Room(l)
    BY <1>1, <1>2, RoomFits
  <1>4. PICK a, r : a = S!Bytes(u) /\ r = S!Room(l) /\ a \in Nat /\ a =< l + 1
                    /\ r \in Nat /\ bufsz =< r /\ buflen + l + 2 =< r
    BY <1>1, <1>3
  <1>5. FirstSize =< r /\ (buflen + a) + 1 =< r
    <2>1. PICK b, z, x : /\ b = buflen /\ z = bufsz /\ x = FirstSize
                         /\ b \in Nat /\ z \in Nat /\ x \in Nat /\ x =< z
      BY <1>1, SizesOfScript
    <2>2. a =< l + 1 /\ a \in Nat /\ r \in Nat /\ z =< r /\ b + l + 2 =< r
      BY <1>4, <2>1
    <2>3. x =< r /\ (b + a) + 1 =< r
      BY <2>1, <2>2
    <2> QED
      BY <2>1, <2>3
  <1> QED
    BY <1>1, <1>4, <1>5 DEF BufferIs

LEMMA ScriptStart == MCInit => ScriptTypes
  <1> SUFFICES ASSUME MCInit PROVE ScriptTypes
    OBVIOUS
  <1>1. S!Init
    BY DEF MCInit
  <1>2. mybuf = <<>> /\ buflen = 0 /\ bufsz = FirstSize
    BY <1>1 DEF S!Init
  <1>3. BufferIs(mybuf, buflen, bufsz)
    BY <1>2, SizesOfScript, BufferEmpty
  <1>4. count \in 0 .. MaxLines
    <2>1. 0 \in 0 .. MaxLines
      BY SizesOfScript
    <2> QED
      BY <1>1, <2>1 DEF S!Init
  <1> QED
    BY <1>1, <1>3, <1>4, Zenon DEF S!Init, ScriptTypes

LEMMA ScriptRead ==
    ASSUME ScriptTypes, S!Read
    PROVE  count' \in 0 .. MaxLines
  <1>1. PICK n, m : n = count /\ m = MaxLines /\ n \in 0 .. m /\ m \in Nat /\ n < m
    BY SizesOfScript DEF ScriptTypes, S!Read
  <1>2. n + 1 \in 0 .. m
    BY <1>1
  <1> QED
    BY <1>1, <1>2 DEF S!Read

LEMMA ScriptText ==
    ASSUME ScriptTypes, NEW line \in S!TextLines, S!Text(line)
    PROVE  ScriptTypes'
  <1>1. line \in Lines /\ S!Newline \in Lines /\ S!Newline.len = 1
    BY DEF Lines, S!Newline
  <1>2. PICK u : /\ u = <<line, S!Newline>> /\ u \in Seq(Lines)
                 /\ line.len \in Nat /\ S!Bytes(u) = line.len + 1
    <2>1. <<line>> \in Seq(Lines) /\ S!Bytes(<<line>>) = line.len
      BY <1>1, BytesOne
    <2>2. <<S!Newline>> \in Seq(Lines) /\ S!Bytes(<<S!Newline>>) = 1
      BY <1>1, BytesOne
    <2>3. <<line, S!Newline>> = <<line>> \o <<S!Newline>>
      OBVIOUS
    <2>4. S!Bytes(<<line>> \o <<S!Newline>>) = S!Bytes(<<line>>) + S!Bytes(<<S!Newline>>)
          /\ <<line>> \o <<S!Newline>> \in Seq(Lines)
      BY <2>1, <2>2, BytesJoined
    <2> QED
      BY <1>1, <2>1, <2>2, <2>3, <2>4, LineLengths
  <1>3. BufferIs(mybuf \o u, buflen + S!Bytes(u), S!Room(line.len))
    <2>1. S!Bytes(u) =< line.len + 1
      BY <1>2
    <2> QED
      BY <1>2, <2>1, BufferGrows DEF ScriptTypes
  <1>4. buflen' = buflen + S!Bytes(u)
    <2>1. buflen \in Nat
      BY BytesAre, BytesJoined DEF ScriptTypes, BufferIs
    <2>2. buflen' = buflen + line.len + 1
      BY DEF S!Text
    <2>3. \A x, y \in Nat : x + y + 1 = x + (y + 1)
      OBVIOUS
    <2> QED
      BY <1>2, <2>1, <2>2, <2>3, Zenon
  <1>5. mybuf' = mybuf \o u /\ bufsz' = S!Room(line.len)
    BY <1>2 DEF S!Text
  <1>6. BufferIs(mybuf', buflen', bufsz')
    BY <1>3, <1>4, <1>5
  <1>7. count' \in 0 .. MaxLines
    BY ScriptRead DEF S!Text
  <1> QED
    BY <1>6, <1>7, Zenon
       DEF ScriptTypes, S!Text, S!request, BufferIs, Lines, S!TextLines, S!Newline, S!Kinds, S!Bytes

LEMMA ScriptLoad ==
    ASSUME ScriptTypes, NEW piece \in S!Pieces, S!Load(piece)
    PROVE  ScriptTypes'
  <1>1. piece \in Seq(Lines)
    <2>1. \A line \in S!TextLines : line \in Lines /\ S!Newline \in Lines
      BY DEF Lines
    <2>2. \A line \in S!TextLines : <<line>> \in Seq(Lines) /\ <<line, S!Newline>> \in Seq(Lines)
      BY <2>1
    <2> QED
      BY <2>2 DEF S!Pieces
  <1>2. S!Bytes(piece) \in Nat /\ S!Bytes(piece) =< S!Bytes(piece) + 1
    BY <1>1, BytesJoined
  <1>3. BufferIs(mybuf \o piece, buflen + S!Bytes(piece), S!Room(S!Bytes(piece)))
    BY <1>1, <1>2, BufferGrows DEF ScriptTypes
  <1>4. BufferIs(mybuf', buflen', bufsz')
    BY <1>3 DEF S!Load
  <1>5. count' \in 0 .. MaxLines
    BY ScriptRead DEF S!Load
  <1> QED
    BY <1>4, <1>5, Zenon
       DEF ScriptTypes, S!Load, S!request, BufferIs, Lines, S!TextLines, S!Newline, S!Kinds, S!Bytes

LEMMA ScriptGo ==
    ASSUME ScriptTypes, S!Go
    PROVE  ScriptTypes'
  <1>1. mybuf' = <<>> /\ buflen' = 0 /\ bufsz' = bufsz
    BY DEF S!Go
  <1>2. BufferIs(mybuf', buflen', bufsz')
    BY <1>1, BufferEmpty DEF ScriptTypes, BufferIs
  <1>3. count' \in 0 .. MaxLines /\ script_pc' \in {"read", "exit"}
    BY ScriptRead DEF S!Go, ScriptTypes
  <1>4. cmd' \in {"", "kill", "tables", "columns", "pkey"}
    BY DEF S!Go, S!CmdOf, ScriptTypes
  <1>5. request_sql' \in {"null", "mybuf", "catalog"} /\ param0' \in {"null", "freed"}
    BY DEF S!Go, ScriptTypes
  <1> QED
    BY <1>2, <1>3, <1>4, <1>5, Zenon
       DEF ScriptTypes, BufferIs, Lines, S!TextLines, S!Newline, S!Kinds, S!Bytes

LEMMA ScriptStep == ScriptTypes /\ [MCNext]_all => ScriptTypes'
  <1> SUFFICES ASSUME ScriptTypes, [MCNext]_all PROVE ScriptTypes'
    OBVIOUS
  <1> USE DEF ScriptTypes
  <1>1. CASE UNCHANGED script
    BY <1>1, Zenon DEF script, BufferIs, Lines, S!TextLines, S!Newline, S!Kinds, S!Bytes
  <1>2. ASSUME NEW line \in S!TextLines, S!Text(line) PROVE ScriptTypes'
    BY <1>2, ScriptText
  <1>3. ASSUME NEW piece \in S!Pieces, S!Load(piece) PROVE ScriptTypes'
    BY <1>3, ScriptLoad
  <1>4. CASE S!LoadFails
    <2>1. count' \in 0 .. MaxLines
      BY <1>4, ScriptRead DEF S!LoadFails
    <2> QED
      BY <1>4, <2>1, Zenon
         DEF S!LoadFails, S!buffer, S!request, BufferIs, Lines, S!TextLines, S!Newline, S!Kinds, S!Bytes
  <1>5. CASE S!Reset
    <2>1. count' \in 0 .. MaxLines
      BY <1>5, ScriptRead DEF S!Reset
    <2>2. BufferIs(mybuf', buflen', bufsz')
      <3>1. mybuf' = <<>> /\ buflen' = 0 /\ bufsz' = bufsz
        BY <1>5 DEF S!Reset
      <3> QED
        BY <3>1, BufferEmpty DEF BufferIs
    <2> QED
      BY <1>5, <2>1, <2>2, Zenon
         DEF S!Reset, S!request, BufferIs, Lines, S!TextLines, S!Newline, S!Kinds, S!Bytes
  <1>6. CASE S!Go
    BY <1>6, ScriptGo
  <1>7. CASE S!Exit
    <2>1. request_sql' \in {"null", "mybuf", "catalog"} /\ script_pc' \in {"read", "exit"}
      BY <1>7 DEF S!Exit
    <2> QED
      BY <1>7, <2>1, Zenon
         DEF S!Exit, S!buffer, BufferIs, Lines, S!TextLines, S!Newline, S!Kinds, S!Bytes
  <1> HIDE DEF ScriptTypes
  <1> QED
    BY <1>1, <1>2, <1>3, <1>4, <1>5, <1>6, <1>7, Zenon DEF MCNext, all, S!Next

LEMMA ScriptMeans == ScriptTypes => S!TypeOK /\ S!TextFits
  <1> SUFFICES ASSUME ScriptTypes PROVE S!TypeOK /\ S!TextFits
    OBVIOUS
  <1>1. S!Range(mybuf) \subseteq Lines
    <2>1. \A e \in DOMAIN mybuf : mybuf[e] \in Lines
      <3>1. mybuf \in Seq(Lines)
        BY DEF ScriptTypes, BufferIs
      <3> HIDE DEF Lines
      <3> QED
        BY <3>1
    <2> QED
      BY <2>1, Zenon DEF S!Range
  <1> QED
    BY <1>1 DEF ScriptTypes, BufferIs, S!TypeOK, S!TextFits, Lines

-------------------------------------------------------------------------------
(* The states of all the parts. *)

\* The states that the parts range over: a piece or header or placeholder that
\* was not sent is never held, getopt's index stays on its line, and the text of a
\* script and its NUL are inside the buffer (socket.c, ngx_http_dbrelay_module.c,
\* db.c and main.c 243-256).
THEOREM InputTypesCorrect == MCSpec => []TypesOK
  <1>1. MCInit => RecvInv /\ HttpTypes /\ PlacesInv /\ KindsInv /\ WordsInv /\ ScriptTypes
    <2>1. MCInit => RecvInv
      BY InitRecv DEF MCInit
    <2> QED
      BY <2>1, HttpTypesStart, PlacesStart, KindsStart, WordsStart, ScriptStart
  <1>2. RecvInv /\ [MCNext]_all => RecvInv'
    BY SocketStays
  <1>3. HttpTypes /\ [MCNext]_all => HttpTypes'
    BY HttpTypesStep
  <1>4. PlacesInv /\ [MCNext]_all => PlacesInv'
    BY PlacesStep
  <1>5. KindsInv /\ [MCNext]_all => KindsInv'
    BY KindsStep
  <1>6. WordsInv /\ [MCNext]_all => WordsInv'
    BY WordsStep
  <1>7. ScriptTypes /\ [MCNext]_all => ScriptTypes'
    BY ScriptStep
  <1>8. RecvInv /\ HttpTypes /\ PlacesInv /\ KindsInv /\ WordsInv /\ ScriptTypes => TypesOK
    BY PlacesMean, KindsMean, WordsMean, ScriptMeans DEF TypesOK, RecvInv, HttpTypes
  <1> QED
    BY <1>1, <1>2, <1>3, <1>4, <1>5, <1>6, <1>7, <1>8, PTL DEF MCSpec

\* Strings come out of the socket in order and whole, and the socket implements the
\* stream of pieces, whichever part of the program moves (socket.c 175 to 240).
THEOREM SocketOfInput == MCSpec => []ReturnsNextPiece /\ ImplementsFraming
  <1>1. MCInit => Init
    BY DEF MCInit
  <1>2. [MCNext]_all => [Next]_vars
    BY DEF MCNext, all
  <1>3. RecvInv => ReturnsNextPiece
    BY DEF RecvInv
  <1>4. Init => Stream!Init
    BY DEF Init, Stream!Init
  <1> QED
    BY <1>1, <1>2, <1>3, <1>4, InitRecv, StepRecv, StepFraming, PTL
       DEF MCSpec, ImplementsFraming, Stream!Spec
===============================================================================
