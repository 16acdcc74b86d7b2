--------------------------- MODULE ResponseProofs ---------------------------
(* Theorems about what a request gets back, for any number of results, rows  *)
(* and columns, and for any texts in them.                                   *)
EXTENDS Response, WellFoundedInduction, SequenceTheorems, TLAPS

-----------------------------------------------------------------------------
(* Functions that are defined by recursion on a number: the reader of tokens *)
(* and the writer of members (Json).                                         *)

LEMMA LeastNumber ==
    ASSUME NEW T, T \subseteq Nat, T # {}
    PROVE  \E n \in T : \A m \in T : ~ (m < n)
  <1>1. PICK R, N : /\ IsWellFoundedOn(R, N) /\ N = Nat
                    /\ \A m, n \in Nat : <<m, n>> \in R <=> m < n
    <2> DEFINE Q == OpToRel(<, Nat)
    <2>1. IsWellFoundedOn(Q, Nat)
      BY NatLessThanWellFounded
    <2>2. \A m, n \in Nat : <<m, n>> \in Q <=> m < n
      BY DEF OpToRel
    <2> HIDE DEF Q
    <2> QED
      BY <2>1, <2>2
  <1>2. IsWellFoundedOn(R, N) /\ T \subseteq N
    BY <1>1
  <1>3. \E n \in T : \A m \in T : ~ (<<m, n>> \in R)
    BY <1>2, WFMin
  <1> QED
    BY <1>1, <1>3

\* f has the states of a reader that starts as r and reads n tokens of text.
Reads(r, text, n, f) ==
    f = [k \in 0 .. n |-> IF k = 0 THEN r ELSE Read(f[k - 1], text[k])]

LEMMA ReadsExist ==
    ASSUME NEW r, NEW text, NEW n \in Nat
    PROVE  \E f : Reads(r, text, n, f)
  <1> DEFINE T == {k \in Nat : ~ \E f : Reads(r, text, k, f)}
  <1> SUFFICES ASSUME T # {} PROVE FALSE
    OBVIOUS
  <1>1. PICK k \in T : \A m \in T : ~ (m < k)
    BY LeastNumber
  <1>2. k \in Nat /\ ~ \E f : Reads(r, text, k, f)
    BY <1>1
  <1>3. k # 0
    <2>1. Reads(r, text, 0, [i \in 0 .. 0 |-> r])
      BY DEF Reads
    <2> QED
      BY <1>2, <2>1
  <1>4. k - 1 \in Nat /\ k - 1 < k
    BY <1>2, <1>3
  <1>5. PICK g : Reads(r, text, k - 1, g)
    BY <1>1, <1>4
  <1> DEFINE f == [i \in 0 .. k |-> IF i = k THEN Read(g[k - 1], text[k]) ELSE g[i]]
  <1>6. \A i \in 0 .. k : f[i] = IF i = 0 THEN r ELSE Read(f[i - 1], text[i])
    <2> TAKE i \in 0 .. k
    <2>1. CASE i = k
      BY <1>2, <1>3, <2>1
    <2>2. CASE i # k
      <3>1. i \in 0 .. k - 1 /\ (i # 0 => i - 1 \in 0 .. k /\ i - 1 # k)
        BY <1>2, <2>2
      <3>2. g[i] = IF i = 0 THEN r ELSE Read(g[i - 1], text[i])
        BY <1>5, <3>1 DEF Reads
      <3> QED
        BY <2>2, <3>1, <3>2
    <2> QED
      BY <2>1, <2>2
  <1>7. Reads(r, text, k, f)
    BY <1>6 DEF Reads
  <1> QED
    BY <1>2, <1>7

LEMMA ReadAllReads ==
    ASSUME NEW r, NEW text, Len(text) \in Nat
    PROVE  \E f : Reads(r, text, Len(text), f) /\ ReadAll(r, text) = f[Len(text)]
  <1>1. PICK g : Reads(r, text, Len(text), g)
    BY ReadsExist
  <1> QED
    BY <1>1 DEF Reads, ReadAll

\* Texts of a few tokens.
LEMMA ReadLength ==
    ASSUME NEW r, NEW t
    PROVE  /\ Len(t) = 0 => ReadAll(r, t) = r
           /\ Len(t) = 1 => ReadAll(r, t) = Read(r, t[1])
           /\ Len(t) = 2 => ReadAll(r, t) = Read(Read(r, t[1]), t[2])
  <1> SUFFICES ASSUME Len(t) \in {0, 1, 2}
               PROVE  /\ Len(t) = 0 => ReadAll(r, t) = r
                      /\ Len(t) = 1 => ReadAll(r, t) = Read(r, t[1])
                      /\ Len(t) = 2 => ReadAll(r, t) = Read(Read(r, t[1]), t[2])
    OBVIOUS
  <1>1. Len(t) \in Nat
    OBVIOUS
  <1>2. PICK f : Reads(r, t, Len(t), f) /\ ReadAll(r, t) = f[Len(t)]
    BY <1>1, ReadAllReads
  <1>3. f[0] = r
    BY <1>1, <1>2 DEF Reads
  <1>4. CASE Len(t) = 1
    BY <1>2, <1>3, <1>4 DEF Reads
  <1>5. CASE Len(t) = 2
    <2>1. f[1] = Read(f[0], t[1]) /\ f[2] = Read(f[1], t[2])
      BY <1>2, <1>5 DEF Reads
    <2> QED
      BY <1>2, <1>3, <1>5, <2>1
  <1> QED
    BY <1>2, <1>3, <1>4, <1>5

LEMMA ReadFew ==
    ASSUME NEW r, NEW a
    PROVE  ReadAll(r, <<>>) = r /\ ReadAll(r, <<a>>) = Read(r, a)
  <1>1. Len(<<a>>) = 1 /\ <<a>>[1] = a /\ Len(<<>>) = 0
    OBVIOUS
  <1> QED
    BY <1>1, ReadLength

LEMMA ReadTwo ==
    ASSUME NEW r, NEW a, NEW b
    PROVE  ReadAll(r, <<a, b>>) = Read(Read(r, a), b)
  <1>1. PICK t : t = <<a, b>>
    OBVIOUS
  <1>2. Len(t) = 2 /\ t[1] = a /\ t[2] = b
    BY <1>1
  <1>3. ReadAll(r, t) = Read(Read(r, t[1]), t[2])
    BY <1>2, ReadLength
  <1> QED
    BY <1>1, <1>2, <1>3, Zenon

\* A reader that no token of the text moves.
LEMMA ReadStays ==
    ASSUME NEW r, NEW text, Len(text) \in Nat, \A i \in 1 .. Len(text) : Read(r, text[i]) = r
    PROVE  ReadAll(r, text) = r
  <1>1. PICK f : Reads(r, text, Len(text), f) /\ ReadAll(r, text) = f[Len(text)]
    BY ReadAllReads
  <1> DEFINE T == {k \in 0 .. Len(text) : f[k] # r}
  <1> SUFFICES ASSUME T # {} PROVE FALSE
    BY <1>1
  <1>2. PICK k \in T : \A m \in T : ~ (m < k)
    <2>1. T \subseteq Nat
      OBVIOUS
    <2> HIDE DEF T
    <2> QED
      BY <2>1, LeastNumber
  <1>3. k \in 0 .. Len(text) /\ k # 0
    BY <1>1, <1>2 DEF Reads
  <1>4. f[k - 1] = r /\ f[k] = Read(f[k - 1], text[k])
    BY <1>1, <1>2, <1>3 DEF Reads
  <1> QED
    BY <1>2, <1>3, <1>4

\* Members after members.
Adds(j0, n, f) == f = [k \in 0 .. n |-> IF k = 0 THEN j0 ELSE AddMember(f[k - 1])]

LEMMA AddsExist ==
    ASSUME NEW w, NEW n \in Nat
    PROVE  \E f : Adds(w, n, f)
  <1> DEFINE T == {k \in Nat : ~ \E f : Adds(w, k, f)}
  <1> SUFFICES ASSUME T # {} PROVE FALSE
    OBVIOUS
  <1>1. PICK k \in T : \A m \in T : ~ (m < k)
    BY LeastNumber
  <1>2. k \in Nat /\ ~ \E f : Adds(w, k, f)
    BY <1>1
  <1>3. k # 0
    <2>1. Adds(w, 0, [i \in 0 .. 0 |-> w])
      BY DEF Adds
    <2> QED
      BY <1>2, <2>1
  <1>4. k - 1 \in Nat /\ k - 1 < k
    BY <1>2, <1>3
  <1>5. PICK g : Adds(w, k - 1, g)
    BY <1>1, <1>4
  <1> DEFINE f == [i \in 0 .. k |-> IF i = k THEN AddMember(g[k - 1]) ELSE g[i]]
  <1>6. \A i \in 0 .. k : f[i] = IF i = 0 THEN w ELSE AddMember(f[i - 1])
    <2> TAKE i \in 0 .. k
    <2>1. CASE i = k
      BY <1>2, <1>3, <2>1
    <2>2. CASE i # k
      <3>1. i \in 0 .. k - 1 /\ (i # 0 => i - 1 \in 0 .. k /\ i - 1 # k)
        BY <1>2, <2>2
      <3>2. g[i] = IF i = 0 THEN w ELSE AddMember(g[i - 1])
        BY <1>5, <3>1 DEF Adds
      <3> QED
        BY <2>2, <3>1, <3>2
    <2> QED
      BY <2>1, <2>2
  <1>7. Adds(w, k, f)
    BY <1>6 DEF Adds
  <1> QED
    BY <1>2, <1>7

\* What a member makes of a writer, further members keep.
LEMMA MembersKeep ==
    ASSUME NEW w, NEW n \in Nat, NEW S, w \in S \/ (n > 0 /\ AddMember(w) \in S),
           \A v \in S : AddMember(v) \in S
    PROVE  AddMembers(w, n) \in S
  <1>1. PICK f : Adds(w, n, f) /\ AddMembers(w, n) = f[n]
    <2>1. PICK g : Adds(w, n, g)
      BY AddsExist
    <2> QED
      BY <2>1 DEF Adds, AddMembers
  <1> DEFINE b == IF w \in S THEN 0 ELSE 1
             T == {k \in b .. n : f[k] \notin S}
  <1> SUFFICES ASSUME T # {} PROVE FALSE
    BY <1>1
  <1>2. PICK k \in T : \A m \in T : ~ (m < k)
    <2>1. T \subseteq Nat
      OBVIOUS
    <2> HIDE DEF T
    <2> QED
      BY <2>1, LeastNumber
  <1>3. k \in b .. n /\ f[k] \notin S /\ b \in {0, 1}
    BY <1>2
  <1>4. f[b] \in S
    BY <1>1 DEF Adds
  <1>5. k - 1 \in b .. n /\ k - 1 < k
    BY <1>3, <1>4
  <1>6. f[k - 1] \in S
    BY <1>2, <1>5
  <1>7. f[k] = AddMember(f[k - 1])
    BY <1>1, <1>3, <1>5 DEF Adds
  <1> QED
    BY <1>3, <1>6, <1>7

LEMMA NoMembers == \A w : AddMembers(w, 0) = w
  <1> TAKE w
  <1>1. PICK f : Adds(w, 0, f) /\ AddMembers(w, 0) = f[0]
    <2>1. PICK g : Adds(w, 0, g)
      BY AddsExist
    <2> QED
      BY <2>1 DEF Adds, AddMembers
  <1> QED
    BY <1>1 DEF Adds

-----------------------------------------------------------------------------
(* The writer, between and inside the objects and arrays that are open.      *)

Brackets == {"{", "["}
Reader(o, next, c) == [open |-> o, next |-> next, call |-> c]
Writer(r, s, pending) == [text |-> r, stack |-> s, pending |-> pending]
Idle(r, s) == Writer(r, s, FALSE)
Due(r, s) == Writer(r, s, TRUE)     \* after a key
Before(b) == IF b THEN "comma" ELSE "first"

\* In an object or an array, which has items already if b; those around it are
\* open in o and noted in s.
Box(t, b, o, s, c) == Idle(Reader(<<t>> \o o, Before(b), c), <<b>> \o s)
Obj(b, o, s, c) == Box("{", b, o, s, c)
Arr(b, o, s, c) == Box("[", b, o, s, c)
Keyed(o, s, c) == Due(Reader(<<"{">> \o o, "value", c), <<TRUE>> \o s)

LEMMA Front ==
    ASSUME NEW S, NEW t \in S, NEW o \in Seq(S)
    PROVE  /\ <<t>> \o o \in Seq(S) /\ <<t>> \o o # <<>>
           /\ Head(<<t>> \o o) = t /\ Tail(<<t>> \o o) = o
  OBVIOUS

\* What the tokens of a member do to a reader.
LEMMA ReadTokens ==
    ASSUME NEW o \in Seq(Brackets), NEW c
    PROVE  /\ \A n \in {"first", "key"} :
                 Read(Reader(<<"{">> \o o, n, c), "key") = Reader(<<"{">> \o o, "value", c)
           /\ Read(Reader(<<"{">> \o o, "comma", c), ",") = Reader(<<"{">> \o o, "key", c)
           /\ Read(Reader(<<"[">> \o o, "comma", c), ",") = Reader(<<"[">> \o o, "value", c)
           /\ Read(Reader(<<"{">> \o o, "value", c), "value") = Reader(<<"{">> \o o, "comma", c)
           /\ Read(Reader(<<"{">> \o o, "value", c), "quote") = Reader(<<"{">> \o o, "string", c)
           /\ Read(Reader(<<"{">> \o o, "string", c), "quote") = Reader(<<"{">> \o o, "comma", c)
  <1>1. /\ <<"{">> \o o # <<>> /\ Head(<<"{">> \o o) = "{"
        /\ <<"[">> \o o # <<>> /\ Head(<<"[">> \o o) = "["
    BY Front DEF Brackets
  <1> DEFINE p == <<"{">> \o o
             q == <<"[">> \o o
  <1> HIDE DEF p, q
  <1>2. p # <<>> /\ Head(p) = "{" /\ q # <<>> /\ Head(q) = "["
    BY <1>1 DEF p, q
  <1> USE DEF Read, ReadToken, ReadInString, Reader, WantsValue, WantsKey, Inside, Closes,
              AfterValue, Begin
  <1>3. \A n \in {"first", "key"} : Read(Reader(p, n, c), "key") = Reader(p, "value", c)
    BY <1>2
  <1>4. Read(Reader(p, "comma", c), ",") = Reader(p, "key", c)
    BY <1>2
  <1>5. Read(Reader(q, "comma", c), ",") = Reader(q, "value", c)
    BY <1>2
  <1>6. Read(Reader(p, "value", c), "value") = Reader(p, "comma", c)
    BY <1>2
  <1>7. Read(Reader(p, "value", c), "quote") = Reader(p, "string", c)
    BY <1>2
  <1>8. Read(Reader(p, "string", c), "quote") = Reader(p, "comma", c)
    BY <1>2
  <1> QED
    BY <1>3, <1>4, <1>5, <1>6, <1>7, <1>8 DEF p, q

LEMMA ReadBrackets ==
    ASSUME NEW o \in Seq(Brackets), NEW c, NEW b \in BOOLEAN
    PROVE  /\ \A t \in Brackets :
                 /\ Read(Reader(<<"{">> \o o, "value", c), t)
                        = Reader(<<t>> \o (<<"{">> \o o), "first", c)
                 /\ \A n \in {"first", "value"} :
                       Read(Reader(<<"[">> \o o, n, c), t)
                           = Reader(<<t>> \o (<<"[">> \o o), "first", c)
           /\ o # <<>> => /\ Read(Reader(<<"{">> \o o, Before(b), c), "}") = Reader(o, "comma", c)
                          /\ Read(Reader(<<"[">> \o o, Before(b), c), "]") = Reader(o, "comma", c)
  <1> DEFINE p == <<"{">> \o o
             q == <<"[">> \o o
  <1>1. /\ p # <<>> /\ Head(p) = "{" /\ Tail(p) = o
        /\ q # <<>> /\ Head(q) = "[" /\ Tail(q) = o
    BY Front DEF Brackets
  <1> HIDE DEF p, q
  <1> USE DEF Read, ReadToken, ReadInString, Reader, WantsValue, WantsKey, Inside, Closes,
              AfterValue, Begin, Brackets, Before
  <1>2. \A t \in Brackets : Read(Reader(p, "value", c), t) = Reader(<<t>> \o p, "first", c)
    BY <1>1
  <1>3. \A t \in Brackets, n \in {"first", "value"} :
           Read(Reader(q, n, c), t) = Reader(<<t>> \o q, "first", c)
    <2>1. \A t \in Brackets : Read(Reader(q, "first", c), t) = Reader(<<t>> \o q, "first", c)
      BY <1>1
    <2>2. \A t \in Brackets : Read(Reader(q, "value", c), t) = Reader(<<t>> \o q, "first", c)
      BY <1>1
    <2>3. ASSUME NEW t \in Brackets, NEW n \in {"first", "value"}
          PROVE  Read(Reader(q, n, c), t) = Reader(<<t>> \o q, "first", c)
      <3>1. n = "first" \/ n = "value"
        OBVIOUS
      <3> HIDE DEF Read, ReadToken, ReadInString, Reader, WantsValue, WantsKey, Inside, Closes,
                   AfterValue, Begin, Brackets, Before
      <3> QED
        BY <2>1, <2>2, <3>1
    <2> QED
      BY <2>3
  <1>4. o # <<>> => Read(Reader(p, Before(b), c), "}") = Reader(o, "comma", c)
    BY <1>1
  <1>5. o # <<>> => Read(Reader(q, Before(b), c), "]") = Reader(o, "comma", c)
    BY <1>1
  <1> HIDE DEF Read, ReadToken, ReadInString, Reader, WantsValue, WantsKey, Inside, Closes,
               AfterValue, Begin, Brackets, Before
  <1> QED
    BY <1>2, <1>3, <1>4, <1>5 DEF p, q

LEMMA AppendOne ==
    ASSUME NEW a, NEW b
    PROVE  Append(<<>>, a) = <<a>> /\ Append(<<a>>, b) = <<a, b>>
  <1>1. Append(<<>>, a) = <<a>>
    OBVIOUS
  <1> DEFINE s == Append(<<a>>, b)
             t == <<a, b>>
             S == {a, b}
  <1>2. s \in Seq(S) /\ Len(s) = 2 /\ s[1] = a /\ s[2] = b
    <2>1. <<a>> \in Seq(S) /\ b \in S /\ Len(<<a>>) = 1 /\ <<a>>[1] = a
      OBVIOUS
    <2> QED
      BY <2>1, AppendProperties
  <1>3. t \in Seq(S) /\ Len(t) = 2 /\ t[1] = a /\ t[2] = b
    OBVIOUS
  <1> HIDE DEF s, t, S
  <1>4. \A i \in 1 .. Len(s) : s[i] = t[i]
    <2>1. \A i \in 1 .. Len(s) : i = 1 \/ i = 2
      BY <1>2
    <2> QED
      BY <1>2, <1>3, <2>1
  <1>5. s = t
    BY <1>2, <1>3, <1>4, SeqEqual
  <1> QED
    BY <1>1, <1>5 DEF s, t

\* The tokens of a key, after items or none.
LEMMA ReadKey ==
    ASSUME NEW o \in Seq(Brackets), NEW c
    PROVE  /\ ReadAll(Reader(<<"{">> \o o, "first", c), <<"key">>) = Reader(<<"{">> \o o, "value", c)
           /\ ReadAll(Reader(<<"{">> \o o, "comma", c), <<",", "key">>)
                  = Reader(<<"{">> \o o, "value", c)
  <1> DEFINE r(n) == Reader(<<"{">> \o o, n, c)
  <1>1. /\ Read(r("first"), "key") = r("value") /\ Read(r("comma"), ",") = r("key")
        /\ Read(r("key"), "key") = r("value")
    BY ReadTokens
  <1> HIDE DEF r
  <1>2. ReadAll(r("first"), <<"key">>) = r("value")
    BY <1>1, ReadFew
  <1>3. ReadAll(r("comma"), <<",", "key">>) = r("value")
    <2>1. PICK q, x, y : q = r("comma") /\ x = "," /\ y = "key"
      OBVIOUS
    <2>2. ReadAll(q, <<x, y>>) = Read(Read(q, x), y)
      BY ReadTwo
    <2> QED
      BY <1>1, <2>1, <2>2, Zenon
  <1> QED
    BY <1>2, <1>3 DEF r

\* The operations of a writer.
CommaOf(s) == IF s # <<>> /\ Head(s) THEN <<",">> ELSE <<>>
WithComma(s, t) == Append(CommaOf(s), t)
Counted(s) == IF s = <<>> THEN s ELSE <<TRUE>> \o Tail(s)
Opened(s) == <<FALSE>> \o Counted(s)
Outer(s) == IF s = <<>> THEN s ELSE Tail(s)

LEMMA WriterAddsJson ==
    ASSUME NEW r, NEW s, NEW z, NEW w, w = Writer(r, s, z), NEW t
    PROVE  AddJson(w, t) = Writer(ReadAll(r, t), s, z)
  BY DEF AddJson, Writer

LEMMA AddsJson ==
    ASSUME NEW r, NEW s, NEW t
    PROVE  /\ AddJson(Idle(r, s), t) = Idle(ReadAll(r, t), s)
           /\ AddJson(Due(r, s), t) = Due(ReadAll(r, t), s)
  <1>1. ASSUME NEW z \in BOOLEAN PROVE AddJson(Writer(r, s, z), t) = Writer(ReadAll(r, t), s, z)
    BY WriterAddsJson
  <1> QED
    BY <1>1 DEF Idle, Due

LEMMA WriterCountsItem ==
    ASSUME NEW r, NEW s, NEW z, NEW w, w = Writer(r, s, z)
    PROVE  CountItem(w) = Writer(r, Counted(s), z)
  <1>1. CASE s = <<>>
    BY <1>1 DEF CountItem, Counted, Writer
  <1>2. CASE s # <<>>
    BY <1>2 DEF CountItem, Counted, Writer
  <1> QED
    BY <1>1, <1>2

LEMMA CountsItem ==
    ASSUME NEW r, NEW s
    PROVE  /\ CountItem(Idle(r, s)) = Idle(r, Counted(s))
           /\ CountItem(Due(r, s)) = Due(r, Counted(s))
  <1>1. ASSUME NEW z \in BOOLEAN PROVE CountItem(Writer(r, s, z)) = Writer(r, Counted(s), z)
    BY WriterCountsItem
  <1> QED
    BY <1>1 DEF Idle, Due

LEMMA Commas ==
    ASSUME NEW r, NEW s
    PROVE  Comma(Idle(r, s)) = CommaOf(s) /\ Comma(Due(r, s)) = <<>>
  BY DEF Comma, CommaOf, HasItems, Idle, Due, Writer

LEMMA Fields ==
    ASSUME NEW r, NEW s
    PROVE  /\ Idle(r, s).text = r /\ Idle(r, s).stack = s
           /\ Due(r, s).text = r /\ Due(r, s).stack = s
  <1>1. ASSUME NEW z \in BOOLEAN PROVE Writer(r, s, z).text = r /\ Writer(r, s, z).stack = s
    BY DEF Writer
  <1> QED
    BY <1>1 DEF Idle, Due

\* The last step of an operation.
LEMMA SetsPending ==
    ASSUME NEW r, NEW s
    PROVE  /\ [Idle(r, s) EXCEPT !.pending = TRUE] = Due(r, s)
           /\ [Due(r, s) EXCEPT !.pending = TRUE] = Due(r, s)
           /\ [Due(r, s) EXCEPT !.pending = FALSE] = Idle(r, s)
  <1>1. ASSUME NEW z, NEW x PROVE [Writer(r, s, z) EXCEPT !.pending = x] = Writer(r, s, x)
    BY DEF Writer
  <1>2. ASSUME NEW z PROVE [Writer(r, s, z) EXCEPT !.pending = TRUE] = Writer(r, s, TRUE)
    <2> SUFFICES ASSUME NEW x, x = TRUE PROVE [Writer(r, s, z) EXCEPT !.pending = x] = Writer(r, s, x)
      BY Zenon
    <2> QED
      BY <1>1
  <1>3. ASSUME NEW z PROVE [Writer(r, s, z) EXCEPT !.pending = FALSE] = Writer(r, s, FALSE)
    <2> SUFFICES ASSUME NEW x, x = FALSE PROVE [Writer(r, s, z) EXCEPT !.pending = x] = Writer(r, s, x)
      BY Zenon
    <2> QED
      BY <1>1
  <1> QED
    BY <1>2, <1>3, Zenon DEF Idle, Due

LEMMA SetsStack ==
    ASSUME NEW r, NEW s
    PROVE  [Idle(r, s) EXCEPT !.stack = IF @ = <<>> THEN @ ELSE Tail(@)] = Idle(r, Outer(s))
  <1>1. ASSUME NEW z
        PROVE  [Writer(r, s, z) EXCEPT !.stack = IF @ = <<>> THEN @ ELSE Tail(@)]
                   = Writer(r, Outer(s), z)
    BY DEF Writer, Outer
  <1> QED
    BY <1>1, Zenon DEF Idle

LEMMA OpensIdle ==
    ASSUME NEW r, NEW s, NEW t
    PROVE  Open(Idle(r, s), t) = Idle(ReadAll(r, WithComma(s, t)), Opened(s))
  <1>1. CountItem(Idle(r, s)).stack = Counted(s)
    BY CountsItem, Fields
  <1>2. Idle(r, s).text = r /\ Comma(Idle(r, s)) = CommaOf(s)
    BY Commas, Fields
  <1> QED
    BY <1>1, <1>2 DEF Open, Opened, WithComma, Idle, Writer

LEMMA OpensDue ==
    ASSUME NEW r, NEW s, NEW t
    PROVE  Open(Due(r, s), t) = Idle(Read(r, t), Opened(s))
  <1>1. CountItem(Due(r, s)).stack = Counted(s)
    BY CountsItem, Fields
  <1>2. Due(r, s).text = r /\ Comma(Due(r, s)) = <<>>
    BY Commas, Fields
  <1>3. ReadAll(r, Append(<<>>, t)) = Read(r, t)
    <2>1. Append(<<>>, t) = <<t>>
      BY AppendOne
    <2>2. ReadAll(r, <<t>>) = Read(r, t)
      BY ReadFew
    <2> QED
      BY <2>1, <2>2
  <1> QED
    BY <1>1, <1>2, <1>3 DEF Open, Opened, Idle, Writer

LEMMA ClosesIt ==
    ASSUME NEW r, NEW s, NEW t
    PROVE  Close(Idle(r, s), t) = Idle(Read(r, t), Outer(s))
  <1>1. AddJson(Idle(r, s), <<t>>) = Idle(Read(r, t), s)
    <2>1. ReadAll(r, <<t>>) = Read(r, t)
      BY ReadFew
    <2> QED
      BY <2>1, AddsJson
  <1> QED
    BY <1>1, SetsStack, Zenon DEF Close

LEMMA KeyDue ==
    ASSUME NEW w, NEW k, NEW r, NEW s,
           CountItem(AddJson(w, Append(Comma(w), k))) \in {Idle(r, s), Due(r, s)}
    PROVE  AddKeyAs(w, k) = Due(r, s)
  <1>1. CASE CountItem(AddJson(w, Append(Comma(w), k))) = Idle(r, s)
    BY <1>1, SetsPending, Zenon DEF AddKeyAs
  <1>2. CASE CountItem(AddJson(w, Append(Comma(w), k))) = Due(r, s)
    BY <1>2, SetsPending, Zenon DEF AddKeyAs
  <1> QED
    BY <1>1, <1>2, Zenon

LEMMA AddsKeyAs ==
    ASSUME NEW r, NEW s, NEW k
    PROVE  /\ AddKeyAs(Idle(r, s), k) = Due(ReadAll(r, WithComma(s, k)), Counted(s))
           /\ AddKeyAs(Due(r, s), k) = Due(Read(r, k), Counted(s))
  <1>1. AddKeyAs(Idle(r, s), k) = Due(ReadAll(r, WithComma(s, k)), Counted(s))
    <2>1. AddJson(Idle(r, s), Append(Comma(Idle(r, s)), k))
              = Idle(ReadAll(r, WithComma(s, k)), s)
      BY AddsJson, Commas DEF WithComma
    <2>2. CountItem(AddJson(Idle(r, s), Append(Comma(Idle(r, s)), k)))
              = Idle(ReadAll(r, WithComma(s, k)), Counted(s))
      BY <2>1, CountsItem
    <2> QED
      BY <2>2, KeyDue
  <1>2. AddKeyAs(Due(r, s), k) = Due(Read(r, k), Counted(s))
    <2>1. Append(<<>>, k) = <<k>> /\ ReadAll(r, <<k>>) = Read(r, k)
      BY AppendOne, ReadFew
    <2>2. Append(Comma(Due(r, s)), k) = <<k>>
      BY <2>1, Commas
    <2>3. AddJson(Due(r, s), <<k>>) = Due(Read(r, k), s)
      BY <2>1, AddsJson
    <2>4. CountItem(AddJson(Due(r, s), Append(Comma(Due(r, s)), k)))
              = Due(Read(r, k), Counted(s))
      BY <2>2, <2>3, CountsItem
    <2> QED
      BY <2>4, KeyDue
  <1> QED
    BY <1>1, <1>2

LEMMA AddsKey ==
    ASSUME NEW r, NEW s
    PROVE  /\ AddKey(Idle(r, s)) = Due(ReadAll(r, WithComma(s, "key")), Counted(s))
           /\ AddKey(Due(r, s)) = Due(Read(r, "key"), Counted(s))
  BY AddsKeyAs DEF AddKey

LEMMA AddsMemberAs ==
    ASSUME NEW w, NEW k, NEW v, NEW r, NEW s, AddKeyAs(w, k) = Due(r, s)
    PROVE  AddMemberAs(w, k, v) = Idle(Read(r, v), s)
  <1>1. ReadAll(r, <<v>>) = Read(r, v)
    BY ReadFew
  <1>2. AddJson(AddKeyAs(w, k), <<v>>) = Due(Read(r, v), s)
    BY <1>1, AddsJson
  <1> QED
    BY <1>2, SetsPending, Zenon DEF AddMemberAs

LEMMA AddsMember ==
    ASSUME NEW w, NEW r, NEW s, AddKey(w) = Due(r, s)
    PROVE  AddMember(w) = Idle(Read(r, "value"), s)
  BY AddsMemberAs DEF AddKey, AddMember

-----------------------------------------------------------------------------
(* The operations inside objects and arrays. *)

\* The stack of a writer that has something open.
LEMMA Noted ==
    ASSUME NEW b \in BOOLEAN, NEW s \in Seq(BOOLEAN)
    PROVE  /\ CommaOf(<<b>> \o s) = IF b THEN <<",">> ELSE <<>>
           /\ Counted(<<b>> \o s) = <<TRUE>> \o s
           /\ Outer(<<b>> \o s) = s
  <1> DEFINE st == <<b>> \o s
  <1>1. st # <<>> /\ Head(st) = b /\ Tail(st) = s
    BY Front
  <1> HIDE DEF st
  <1>2. CommaOf(st) = IF b THEN <<",">> ELSE <<>>
    BY <1>1 DEF CommaOf
  <1>3. Counted(st) = <<TRUE>> \o s /\ Outer(st) = s
    BY <1>1 DEF Counted, Outer
  <1> QED
    BY <1>2, <1>3 DEF st

LEMMA KeyInObject ==
    ASSUME NEW o \in Seq(Brackets), NEW s \in Seq(BOOLEAN), NEW c, NEW b \in BOOLEAN
    PROVE  AddKey(Obj(b, o, s, c)) = Keyed(o, s, c)
  <1> DEFINE r(n) == Reader(<<"{">> \o o, n, c)
             st == <<b>> \o s
  <1>1. Counted(st) = <<TRUE>> \o s /\ CommaOf(st) = IF b THEN <<",">> ELSE <<>>
    BY Noted
  <1>2. ReadAll(r(Before(b)), WithComma(st, "key")) = r("value")
    <2>1. CASE b
      <3>1. WithComma(st, "key") = <<",", "key">>
        BY <1>1, <2>1, AppendOne DEF WithComma
      <3>2. Before(b) = "comma"
        BY <2>1 DEF Before
      <3> QED
        BY <3>1, <3>2, ReadKey
    <2>2. CASE ~ b
      <3>1. WithComma(st, "key") = <<"key">>
        BY <1>1, <2>2, AppendOne DEF WithComma
      <3>2. Before(b) = "first"
        BY <2>2 DEF Before
      <3> QED
        BY <3>1, <3>2, ReadKey
    <2> QED
      BY <2>1, <2>2
  <1> HIDE DEF r, st
  <1>3. AddKey(Idle(r(Before(b)), st)) = Due(r("value"), <<TRUE>> \o s)
    BY <1>1, <1>2, AddsKey
  <1> QED
    BY <1>3 DEF r, st, Obj, Box, Keyed

LEMMA MemberInObject ==
    ASSUME NEW o \in Seq(Brackets), NEW s \in Seq(BOOLEAN), NEW c, NEW b \in BOOLEAN
    PROVE  AddMember(Obj(b, o, s, c)) = Obj(TRUE, o, s, c)
  <1> DEFINE r(n) == Reader(<<"{">> \o o, n, c)
  <1>1. AddKey(Obj(b, o, s, c)) = Due(r("value"), <<TRUE>> \o s)
    BY KeyInObject DEF Keyed
  <1>2. Read(r("value"), "value") = r("comma")
    BY ReadTokens
  <1>3. Before(TRUE) = "comma"
    BY DEF Before
  <1> HIDE DEF r
  <1>4. AddMember(Obj(b, o, s, c)) = Idle(r("comma"), <<TRUE>> \o s)
    BY <1>1, <1>2, AddsMember
  <1> QED
    BY <1>3, <1>4 DEF r, Obj, Box

LEMMA MembersInObject ==
    ASSUME NEW o \in Seq(Brackets), NEW s \in Seq(BOOLEAN), NEW c, NEW b \in BOOLEAN,
           NEW n \in Nat
    PROVE  \E e \in BOOLEAN : AddMembers(Obj(b, o, s, c), n) = Obj(e, o, s, c)
  <1> DEFINE S == {Obj(e, o, s, c) : e \in BOOLEAN}
  <1>1. Obj(b, o, s, c) \in S
    OBVIOUS
  <1>2. \A v \in S : AddMember(v) \in S
    BY MemberInObject
  <1> HIDE DEF S
  <1>3. AddMembers(Obj(b, o, s, c), n) \in S
    BY <1>1, <1>2, MembersKeep
  <1> QED
    BY <1>3 DEF S

LEMMA OpensInKey ==
    ASSUME NEW o \in Seq(Brackets), NEW s \in Seq(BOOLEAN), NEW c, NEW t \in Brackets
    PROVE  Open(Keyed(o, s, c), t) = Box(t, FALSE, <<"{">> \o o, <<TRUE>> \o s, c)
  <1> DEFINE r == Reader(<<"{">> \o o, "value", c)
             q == Reader(<<t>> \o (<<"{">> \o o), "first", c)
             st == <<TRUE>> \o s
  <1>1. Counted(st) = st
    BY Noted
  <1>2. Read(r, t) = q
    BY ReadBrackets
  <1>3. Before(FALSE) = "first"
    BY DEF Before
  <1> HIDE DEF r, q, st
  <1>4. Open(Due(r, st), t) = Idle(q, <<FALSE>> \o st)
    BY <1>1, <1>2, OpensDue DEF Opened
  <1> QED
    BY <1>3, <1>4 DEF r, q, st, Keyed, Box

LEMMA OpensItem ==
    ASSUME NEW o \in Seq(Brackets), NEW s \in Seq(BOOLEAN), NEW c, NEW b \in BOOLEAN,
           NEW t \in Brackets
    PROVE  Open(Arr(b, o, s, c), t) = Box(t, FALSE, <<"[">> \o o, <<TRUE>> \o s, c)
  <1> DEFINE r(n) == Reader(<<"[">> \o o, n, c)
             q == Reader(<<t>> \o (<<"[">> \o o), "first", c)
             st == <<b>> \o s
  <1>1. Counted(st) = <<TRUE>> \o s /\ CommaOf(st) = IF b THEN <<",">> ELSE <<>>
    BY Noted
  <1>2. Read(r("first"), t) = q /\ Read(r("value"), t) = q /\ Read(r("comma"), ",") = r("value")
    BY ReadBrackets, ReadTokens
  <1>3. Before(FALSE) = "first" /\ Before(TRUE) = "comma"
    BY DEF Before
  <1> HIDE DEF r, q, st
  <1>4. ReadAll(r(Before(b)), WithComma(st, t)) = q
    <2>1. CASE b
      <3> SUFFICES ASSUME NEW u, u = <<",", t>> PROVE ReadAll(r("comma"), u) = q
        BY <1>1, <1>3, <2>1, AppendOne DEF WithComma
      <3>1. Len(u) = 2 /\ u[1] = "," /\ u[2] = t
        OBVIOUS
      <3>2. ReadAll(r("comma"), u) = Read(Read(r("comma"), u[1]), u[2])
        BY <3>1, ReadLength
      <3> QED
        BY <1>2, <3>1, <3>2
    <2>2. CASE ~ b
      <3>1. WithComma(st, t) = <<t>>
        BY <1>1, <2>2, AppendOne DEF WithComma
      <3>2. ReadAll(r("first"), <<t>>) = Read(r("first"), t)
        BY ReadFew
      <3> QED
        BY <1>2, <1>3, <2>2, <3>1, <3>2
    <2> QED
      BY <2>1, <2>2
  <1>5. Open(Idle(r(Before(b)), st), t) = Idle(q, <<FALSE>> \o (<<TRUE>> \o s))
    BY <1>1, <1>4, OpensIdle DEF Opened
  <1> QED
    BY <1>3, <1>5 DEF r, q, st, Arr, Box

LEMMA ClosesBox ==
    ASSUME NEW o \in Seq(Brackets), NEW s \in Seq(BOOLEAN), NEW c, NEW b \in BOOLEAN, o # <<>>
    PROVE  /\ EndObject(Obj(b, o, s, c)) = Idle(Reader(o, "comma", c), s)
           /\ EndArray(Arr(b, o, s, c)) = Idle(Reader(o, "comma", c), s)
  <1> DEFINE p == Reader(<<"{">> \o o, Before(b), c)
             q == Reader(<<"[">> \o o, Before(b), c)
             r == Reader(o, "comma", c)
             st == <<b>> \o s
  <1>1. Outer(st) = s
    BY Noted
  <1>2. Read(p, "}") = r /\ Read(q, "]") = r
    BY ReadBrackets
  <1> HIDE DEF p, q, r, st
  <1>3. Close(Idle(p, st), "}") = Idle(r, s) /\ Close(Idle(q, st), "]") = Idle(r, s)
    <2>1. Close(Idle(p, st), "}") = Idle(Read(p, "}"), Outer(st))
      BY ClosesIt, Zenon
    <2>2. Close(Idle(q, st), "]") = Idle(Read(q, "]"), Outer(st))
      BY ClosesIt, Zenon
    <2> QED
      BY <1>1, <1>2, <2>1, <2>2, Zenon
  <1> QED
    BY <1>3 DEF p, q, r, st, Obj, Arr, Box, EndObject, EndArray

LEMMA NestsSeq ==
    ASSUME NEW o \in Seq(Brackets), NEW s \in Seq(BOOLEAN), NEW t \in Brackets
    PROVE  /\ <<t>> \o o \in Seq(Brackets) /\ <<t>> \o o # <<>>
           /\ <<TRUE>> \o s \in Seq(BOOLEAN)
  BY Front

LEMMA KeyedOpens ==
    ASSUME NEW o \in Seq(Brackets), NEW s \in Seq(BOOLEAN), NEW c, NEW b \in BOOLEAN
    PROVE  /\ KeyedObject(Obj(b, o, s, c)) = Obj(FALSE, <<"{">> \o o, <<TRUE>> \o s, c)
           /\ KeyedArray(Obj(b, o, s, c)) = Arr(FALSE, <<"{">> \o o, <<TRUE>> \o s, c)
           /\ NewObject(Arr(b, o, s, c)) = Obj(FALSE, <<"[">> \o o, <<TRUE>> \o s, c)
  <1>1. "{" \in Brackets /\ "[" \in Brackets
    BY DEF Brackets
  <1>2. AddKey(Obj(b, o, s, c)) = Keyed(o, s, c)
    BY KeyInObject
  <1>3. Open(Keyed(o, s, c), "{") = Obj(FALSE, <<"{">> \o o, <<TRUE>> \o s, c)
    BY <1>1, OpensInKey DEF Obj
  <1>4. Open(Keyed(o, s, c), "[") = Arr(FALSE, <<"{">> \o o, <<TRUE>> \o s, c)
    BY <1>1, OpensInKey DEF Arr
  <1>5. Open(Arr(b, o, s, c), "{") = Obj(FALSE, <<"[">> \o o, <<TRUE>> \o s, c)
    BY <1>1, OpensItem DEF Obj
  <1> QED
    BY <1>2, <1>3, <1>4, <1>5 DEF KeyedObject, KeyedArray, NewObject, NewArray

LEMMA Ends ==
    ASSUME NEW o \in Seq(Brackets), NEW s \in Seq(BOOLEAN), NEW c, NEW b \in BOOLEAN
    PROVE  /\ EndObject(Obj(b, <<"{">> \o o, <<TRUE>> \o s, c)) = Obj(TRUE, o, s, c)
           /\ EndObject(Obj(b, <<"[">> \o o, <<TRUE>> \o s, c)) = Arr(TRUE, o, s, c)
           /\ EndArray(Arr(b, <<"{">> \o o, <<TRUE>> \o s, c)) = Obj(TRUE, o, s, c)
  <1>1. Before(TRUE) = "comma" /\ "{" \in Brackets /\ "[" \in Brackets
    BY DEF Before, Brackets
  <1>2. /\ EndObject(Obj(b, <<"{">> \o o, <<TRUE>> \o s, c))
               = Idle(Reader(<<"{">> \o o, "comma", c), <<TRUE>> \o s)
        /\ EndArray(Arr(b, <<"{">> \o o, <<TRUE>> \o s, c))
               = Idle(Reader(<<"{">> \o o, "comma", c), <<TRUE>> \o s)
    <2>1. PICK p : p = <<"{">> \o o
      OBVIOUS
    <2>2. p \in Seq(Brackets) /\ p # <<>> /\ <<TRUE>> \o s \in Seq(BOOLEAN)
      BY <1>1, <2>1, NestsSeq
    <2> QED
      BY <2>1, <2>2, ClosesBox
  <1>3. EndObject(Obj(b, <<"[">> \o o, <<TRUE>> \o s, c))
            = Idle(Reader(<<"[">> \o o, "comma", c), <<TRUE>> \o s)
    <2>1. PICK p : p = <<"[">> \o o
      OBVIOUS
    <2>2. p \in Seq(Brackets) /\ p # <<>> /\ <<TRUE>> \o s \in Seq(BOOLEAN)
      BY <1>1, <2>1, NestsSeq
    <2> QED
      BY <2>1, <2>2, ClosesBox
  <1> QED
    BY <1>1, <1>2, <1>3 DEF Obj, Arr, Box

\* The whole response: what it begins with, and the text past its last brace.
Callbacks == {"js_callback", "js_error"}
Object(b, c) == Obj(b, <<>>, <<>>, c)
Last(c) == Reader(<<>>, IF c = "none" THEN "end" ELSE "comma", c)

LEMMA Begins ==
    /\ BeginWith(<<>>) = Object(FALSE, "none")
    /\ \A c \in Callbacks : BeginWith(<<c>>) = Object(FALSE, c)
  <1> DEFINE r(c) == Reader(<<>>, "value", c)
  <1>1. New = Idle(r("none"), <<>>) /\ Begin = r("none")
    BY DEF New, Begin, Reader, Idle, Writer
  <1>2. \A c \in Callbacks : Read(r("none"), c) = r(c)
    <2>1. PICK o : o = <<>>
      OBVIOUS
    <2>2. PICK q : q = Begin
      OBVIOUS
    <2>3. q = Reader(o, "value", "none") /\ Reader(o, "value", "none") = r("none")
      BY <1>1, <2>1, <2>2
    <2>4. q.next = "value" /\ \A c : [q EXCEPT !.call = c] = Reader(o, "value", c)
      BY <2>3 DEF Reader
    <2> HIDE DEF r
    <2>5. ASSUME NEW c \in Callbacks PROVE Read(q, c) = [q EXCEPT !.call = c]
      <3>1. c \notin {"{", "["} /\ c \in {"js_callback", "js_error"}
        BY DEF Callbacks
      <3>2. Read(q, c) = ReadToken(q, c)
        BY <2>4, <3>1 DEF Read
      <3>3. ~ (c \in {"{", "["} /\ WantsValue(q))
        BY <3>1
      <3> HIDE DEF WantsValue
      <3>4. ReadToken(q, c) = [q EXCEPT !.call = c]
        <4>1. CASE c = "js_callback"
          BY <2>2, <4>1 DEF ReadToken, Closes
        <4>2. CASE c = "js_error"
          BY <2>2, <4>2 DEF ReadToken, Closes
        <4> QED
          BY <3>1, <4>1, <4>2
      <3> QED
        BY <3>2, <3>4
    <2> QED
      BY <2>1, <2>3, <2>4, <2>5 DEF r
  <1>3. \A c : Read(r(c), "{") = Reader(<<"{">> \o <<>>, "first", c)
    <2> SUFFICES ASSUME NEW c, NEW o, o = <<>>
                 PROVE  Read(Reader(o, "value", c), "{") = Reader(<<"{">> \o o, "first", c)
      OBVIOUS
    <2> QED
      BY DEF Read, ReadToken, ReadInString, WantsValue, WantsKey, Inside, Closes, AfterValue,
             Reader, Begin
  <1>4. WithComma(<<>>, "{") = <<"{">> /\ Opened(<<>>) = <<FALSE>> \o <<>>
    BY AppendOne DEF WithComma, CommaOf, Opened, Counted
  <1>5. Before(FALSE) = "first"
    BY DEF Before
  <1> HIDE DEF r
  <1>6. ASSUME NEW c PROVE NewObject(Idle(r(c), <<>>)) = Object(FALSE, c)
    <2>1. ReadAll(r(c), <<"{">>) = Reader(<<"{">> \o <<>>, "first", c)
      BY <1>3, ReadFew
    <2>2. Open(Idle(r(c), <<>>), "{")
              = Idle(Reader(<<"{">> \o <<>>, "first", c), <<FALSE>> \o <<>>)
      BY <1>4, <2>1, OpensIdle
    <2> QED
      BY <1>5, <2>2 DEF NewObject, Object, Obj, Box
  <1>7. BeginWith(<<>>) = Object(FALSE, "none")
    <2>1. AddJson(New, <<>>) = Idle(r("none"), <<>>)
      <3>1. ReadAll(r("none"), <<>>) = r("none")
        BY ReadFew
      <3> QED
        BY <1>1, <3>1, AddsJson
    <2> QED
      BY <1>6, <2>1 DEF BeginWith
  <1>8. ASSUME NEW c \in Callbacks PROVE BeginWith(<<c>>) = Object(FALSE, c)
    <2>1. ReadAll(r("none"), <<c>>) = r(c)
      BY <1>2, ReadFew
    <2>2. AddJson(New, <<c>>) = Idle(r(c), <<>>)
      BY <1>1, <2>1, AddsJson
    <2> QED
      BY <1>6, <2>2 DEF BeginWith
  <1> QED
    BY <1>7, <1>8

LEMMA EndsResponse ==
    ASSUME NEW b \in BOOLEAN, NEW c
    PROVE  EndObject(Object(b, c)) = Idle(Last(c), <<>>)
  <1> SUFFICES ASSUME NEW o \in Seq(Brackets), NEW s \in Seq(BOOLEAN), o = <<>>, s = <<>>
               PROVE  EndObject(Obj(b, o, s, c)) = Idle(Last(c), s)
    <2>1. <<>> \in Seq(Brackets) /\ <<>> \in Seq(BOOLEAN)
      OBVIOUS
    <2> QED
      BY <2>1 DEF Object
  <1> DEFINE p == <<"{">> \o o
             r == Reader(p, Before(b), c)
             st == <<b>> \o s
  <1>1. Outer(st) = s
    BY Noted
  <1>2. p # <<>> /\ Head(p) = "{" /\ Tail(p) = <<>>
    BY Front DEF Brackets
  <1> HIDE DEF p
  <1>3. Read(r, "}") = Last(c)
    BY <1>2 DEF Read, ReadToken, Closes, Inside, WantsValue, WantsKey, AfterValue, Reader,
                Before, Last, Begin
  <1> HIDE DEF r, st
  <1>4. Close(Idle(r, st), "}") = Idle(Last(c), s)
    BY <1>1, <1>3, ClosesIt
  <1> QED
    BY <1>4 DEF p, r, st, Obj, Box, EndObject

LEMMA Nothing == <<>> \in Seq(Brackets) /\ <<>> \in Seq(BOOLEAN)
  OBVIOUS

LEMMA AppendsRequest ==
    ASSUME NEW b \in BOOLEAN, NEW c
    PROVE  AppendRequest(Object(b, c)) = Object(TRUE, c)
  <1>1. PICK o, s : o = <<>> /\ s = <<>> /\ o \in Seq(Brackets) /\ s \in Seq(BOOLEAN)
    BY Nothing
  <1>2. \A e : Object(e, c) = Obj(e, o, s, c)
    BY <1>1 DEF Object
  <1>3. KeyedObject(Obj(b, o, s, c)) = Obj(FALSE, <<"{">> \o o, <<TRUE>> \o s, c)
    BY <1>1, KeyedOpens
  <1>4. PICK p, st : /\ p = <<"{">> \o o /\ st = <<TRUE>> \o s
                     /\ p \in Seq(Brackets) /\ st \in Seq(BOOLEAN)
    BY <1>1, NestsSeq DEF Brackets
  <1>5. PICK e \in BOOLEAN : AddMembers(Obj(FALSE, p, st, c), 3) = Obj(e, p, st, c)
    <2>1. PICK n \in Nat : n = 3
      OBVIOUS
    <2>2. \A f \in BOOLEAN : \E e \in BOOLEAN : AddMembers(Obj(f, p, st, c), n) = Obj(e, p, st, c)
      BY <1>4, MembersInObject
    <2> QED
      BY <2>1, <2>2
  <1>6. EndObject(Obj(e, p, st, c)) = Obj(TRUE, o, s, c)
    BY <1>1, <1>4, Ends
  <1> QED
    BY <1>2, <1>3, <1>4, <1>5, <1>6 DEF AppendRequest

LEMMA AppendsLog ==
    ASSUME NEW b \in BOOLEAN, NEW c, NEW n \in Nat
    PROVE  AppendLog(Object(b, c), n) = Idle(Last(c), <<>>)
  <1>1. PICK o, s : o = <<>> /\ s = <<>> /\ o \in Seq(Brackets) /\ s \in Seq(BOOLEAN)
    BY Nothing
  <1>2. \A e : Object(e, c) = Obj(e, o, s, c)
    BY <1>1 DEF Object
  <1>3. KeyedObject(Obj(b, o, s, c)) = Obj(FALSE, <<"{">> \o o, <<TRUE>> \o s, c)
    BY <1>1, KeyedOpens
  <1>4. PICK p, st : /\ p = <<"{">> \o o /\ st = <<TRUE>> \o s
                     /\ p \in Seq(Brackets) /\ st \in Seq(BOOLEAN)
    BY <1>1, NestsSeq DEF Brackets
  <1>5. PICK e \in BOOLEAN : AddMembers(Obj(FALSE, p, st, c), n) = Obj(e, p, st, c)
    <2>1. \A f \in BOOLEAN : \E e \in BOOLEAN : AddMembers(Obj(f, p, st, c), n) = Obj(e, p, st, c)
      BY <1>4, MembersInObject
    <2> QED
      BY <2>1
  <1>6. EndObject(Obj(e, p, st, c)) = Object(TRUE, c)
    <2>1. EndObject(Obj(e, p, st, c)) = Obj(TRUE, o, s, c)
      BY <1>1, <1>4, Ends
    <2> QED
      BY <1>2, <2>1
  <1>7. EndObject(Object(TRUE, c)) = Idle(Last(c), <<>>)
    BY EndsResponse
  <1> QED
    BY <1>2, <1>3, <1>4, <1>5, <1>6, <1>7 DEF AppendLog

\* A text in which raw data got lost stays so.
LEMMA ReadLost ==
    ASSUME NEW text, Len(text) \in Nat
    PROVE  ReadAll(Lost, text) = Lost
  <1>1. \A t : Read(Lost, t) = Lost
    BY DEF Read, Lost
  <1> QED
    BY <1>1, ReadStays

LEMMA ReadRaw ==
    ASSUME NEW r, r.next \notin {"bad", "lost"}
    PROVE  Read(r, "raw") = Lost
  BY DEF Read

LEMMA WithCommaIs ==
    ASSUME NEW s, NEW t
    PROVE  /\ WithComma(s, t) \in {<<t>>, <<",", t>>}
           /\ Len(WithComma(s, t)) \in Nat
  <1>1. WithComma(s, t) \in {<<t>>, <<",", t>>}
    BY AppendOne DEF WithComma, CommaOf
  <1>2. Len(<<t>>) \in Nat /\ Len(<<",", t>>) \in Nat
    OBVIOUS
  <1> QED
    BY <1>1, <1>2

LEMMA CountedSeq ==
    ASSUME NEW s \in Seq(BOOLEAN)
    PROVE  Counted(s) \in Seq(BOOLEAN) /\ Opened(s) \in Seq(BOOLEAN) /\ Outer(s) \in Seq(BOOLEAN)
  <1>1. Counted(s) \in Seq(BOOLEAN) /\ Outer(s) \in Seq(BOOLEAN)
    <2>1. CASE s = <<>>
      BY <2>1 DEF Counted, Outer
    <2>2. CASE s # <<>>
      <3>1. Tail(s) \in Seq(BOOLEAN)
        BY <2>2
      <3>2. <<TRUE>> \o Tail(s) \in Seq(BOOLEAN)
        BY <3>1, Front
      <3> QED
        BY <2>2, <3>1, <3>2 DEF Counted, Outer
    <2> QED
      BY <2>1, <2>2
  <1>2. \A u \in Seq(BOOLEAN) : <<FALSE>> \o u \in Seq(BOOLEAN)
    BY Front
  <1> QED
    BY <1>1, <1>2 DEF Opened

Shaped(w, r, s) == w = Idle(r, s) \/ w = Due(r, s)
Strayed(w) == \E s \in Seq(BOOLEAN) : Shaped(w, Lost, s)

LEMMA SetsAnyStack ==
    ASSUME NEW r, NEW s, NEW z
    PROVE  [Writer(r, s, z) EXCEPT !.stack = IF @ = <<>> THEN @ ELSE Tail(@)]
               = Writer(r, Outer(s), z)
  BY DEF Writer, Outer

LEMMA StrayedIs ==
    ASSUME NEW w, NEW s \in Seq(BOOLEAN), w = Idle(Lost, s) \/ w = Due(Lost, s)
    PROVE  Strayed(w)
  BY DEF Strayed, Shaped

LEMMA StrayedText ==
    ASSUME NEW w, Strayed(w)
    PROVE  w.text = Lost
  BY Fields DEF Strayed, Shaped

LEMMA StrayedJson ==
    ASSUME NEW w, Strayed(w), NEW text, Len(text) \in Nat
    PROVE  Strayed(AddJson(w, text))
  <1>1. PICK s \in Seq(BOOLEAN) : Shaped(w, Lost, s)
    BY DEF Strayed
  <1>2. AddJson(w, text) = Idle(Lost, s) \/ AddJson(w, text) = Due(Lost, s)
    BY <1>1, AddsJson, ReadLost DEF Shaped
  <1> QED
    BY <1>2, StrayedIs

LEMMA StrayedMember ==
    ASSUME NEW w, Strayed(w), NEW k, NEW v
    PROVE  Strayed(AddKeyAs(w, k)) /\ Strayed(AddMemberAs(w, k, v))
  <1>1. PICK s \in Seq(BOOLEAN) : Shaped(w, Lost, s)
    BY DEF Strayed
  <1>2. Read(Lost, k) = Lost /\ Read(Lost, v) = Lost
    BY DEF Read, Lost
  <1>3. ReadAll(Lost, WithComma(s, k)) = Lost
    BY WithCommaIs, ReadLost
  <1>4. AddKeyAs(w, k) = Due(Lost, Counted(s))
    BY <1>1, <1>2, <1>3, AddsKeyAs DEF Shaped
  <1>5. AddMemberAs(w, k, v) = Idle(Lost, Counted(s))
    BY <1>2, <1>4, AddsMemberAs
  <1>6. Counted(s) \in Seq(BOOLEAN)
    BY CountedSeq
  <1> QED
    BY <1>4, <1>5, <1>6, StrayedIs

LEMMA StrayedMembers ==
    ASSUME NEW w, Strayed(w), NEW n \in Nat
    PROVE  Strayed(AddMembers(w, n))
  <1> DEFINE S == {Idle(Lost, u) : u \in Seq(BOOLEAN)} \cup {Due(Lost, u) : u \in Seq(BOOLEAN)}
  <1>1. \A v : v \in S <=> Strayed(v)
    BY DEF Strayed, Shaped
  <1> HIDE DEF S
  <1>2. w \in S /\ \A v \in S : AddMember(v) \in S
    BY <1>1, StrayedMember DEF AddMember
  <1>3. AddMembers(w, n) \in S
    BY <1>2, MembersKeep
  <1> QED
    BY <1>1, <1>3

LEMMA StrayedBrackets ==
    ASSUME NEW w, Strayed(w), NEW t
    PROVE  Strayed(Open(w, t)) /\ Strayed(Close(w, t))
  <1>1. PICK s \in Seq(BOOLEAN) : Shaped(w, Lost, s)
    BY DEF Strayed
  <1>2. Opened(s) \in Seq(BOOLEAN) /\ Outer(s) \in Seq(BOOLEAN)
    BY CountedSeq
  <1>3. Open(w, t) = Idle(Lost, Opened(s))
    <2>1. Read(Lost, t) = Lost
      BY DEF Read, Lost
    <2>2. ReadAll(Lost, WithComma(s, t)) = Lost
      BY WithCommaIs, ReadLost
    <2> QED
      BY <1>1, <2>1, <2>2, OpensIdle, OpensDue DEF Shaped
  <1>4. Close(w, t) = Idle(Lost, Outer(s)) \/ Close(w, t) = Due(Lost, Outer(s))
    <2>1. Len(<<t>>) \in Nat
      OBVIOUS
    <2>2. ReadAll(Lost, <<t>>) = Lost
      BY <2>1, ReadLost
    <2>3. AddJson(w, <<t>>) = Idle(Lost, s) \/ AddJson(w, <<t>>) = Due(Lost, s)
      BY <1>1, <2>2, AddsJson DEF Shaped
    <2>4. ASSUME NEW z
          PROVE  [Writer(Lost, s, z) EXCEPT !.stack = IF @ = <<>> THEN @ ELSE Tail(@)]
                     = Writer(Lost, Outer(s), z)
      BY SetsAnyStack
    <2> QED
      BY <2>3, <2>4, Zenon DEF Close, Idle, Due
  <1> QED
    BY <1>2, <1>3, <1>4, StrayedIs

LEMMA StrayedStays ==
    ASSUME NEW w, Strayed(w)
    PROVE  /\ Strayed(AddKey(w)) /\ Strayed(AddMember(w))
           /\ Strayed(NewObject(w)) /\ Strayed(EndObject(w)) /\ Strayed(EndArray(w))
           /\ Strayed(KeyedObject(w)) /\ Strayed(KeyedArray(w))
  <1>1. Strayed(AddKey(w)) /\ Strayed(AddMember(w))
    BY StrayedMember DEF AddKey, AddMember
  <1>2. ASSUME NEW v, Strayed(v)
        PROVE  Strayed(NewObject(v)) /\ Strayed(NewArray(v)) /\ Strayed(EndObject(v)) /\ Strayed(EndArray(v))
    BY <1>2, StrayedBrackets DEF NewObject, NewArray, EndObject, EndArray
  <1> QED
    BY <1>1, <1>2 DEF KeyedObject, KeyedArray

LEMMA StrayedLog ==
    ASSUME NEW w, Strayed(w), NEW n \in Nat
    PROVE  Strayed(AppendLog(w, n))
  <1>1. Strayed(AddMembers(KeyedObject(w), n))
    BY StrayedStays, StrayedMembers
  <1> QED
    BY <1>1, StrayedStays DEF AppendLog

-----------------------------------------------------------------------------
(* The two writers of a request, by where it is. *)

\* What is open in the data, and what their stack says.
Open1 == <<"{">>
Open2 == <<"[">> \o Open1
Open3 == <<"{">> \o Open2
Open4 == <<"[">> \o Open3
Stack1 == <<TRUE>> \o <<>>
Stack2 == <<TRUE>> \o Stack1
Stack3 == <<TRUE>> \o Stack2

InData(b) == Arr(b, Open1, <<>>, "none")
InList(b) == Arr(b, Open3, Stack2, "none")      \* "fields" or "rows"
InItem(b) == Obj(b, Open4, Stack3, "none")
InCsv == Due(Reader(Open3, "string", "none"), Stack2)
InResult == Obj(TRUE, Open2, Stack1, "none")

\* The list of the connectors, in the status page.
Top1 == <<"{">> \o <<>>
Top2 == <<"{">> \o Top1
InSlots(b) == Arr(b, Top2, Stack2, "none")

LEMMA Levels ==
    /\ Open1 \in Seq(Brackets) /\ Open2 \in Seq(Brackets) /\ Open3 \in Seq(Brackets)
    /\ Open4 \in Seq(Brackets) /\ Open1 # <<>>
    /\ Stack1 \in Seq(BOOLEAN) /\ Stack2 \in Seq(BOOLEAN) /\ Stack3 \in Seq(BOOLEAN)
    /\ <<>> \in Seq(BOOLEAN)
  <1> USE DEF Brackets
  <1>1. Open1 \in Seq(Brackets) /\ Open1 # <<>>
    BY DEF Open1
  <1> HIDE DEF Brackets
  <1>0. ASSUME NEW o \in Seq(Brackets)
        PROVE  <<"{">> \o o \in Seq(Brackets) /\ <<"[">> \o o \in Seq(Brackets)
    <2>1. "{" \in Brackets /\ "[" \in Brackets
      BY DEF Brackets
    <2> QED
      BY <2>1, Front
  <1>2. Open2 \in Seq(Brackets)
    BY <1>0, <1>1 DEF Open2
  <1>3. Open3 \in Seq(Brackets)
    BY <1>0, <1>2 DEF Open3
  <1>4. Open4 \in Seq(Brackets)
    BY <1>0, <1>3 DEF Open4
  <1>5. Stack1 \in Seq(BOOLEAN)
    BY Nothing, NestsSeq DEF Stack1
  <1>6. Stack2 \in Seq(BOOLEAN)
    BY <1>5, NestsSeq DEF Stack2
  <1>7. Stack3 \in Seq(BOOLEAN)
    BY <1>6, NestsSeq DEF Stack3
  <1> QED
    BY <1>1, <1>2, <1>3, <1>4, <1>5, <1>6, <1>7, Nothing

\* The status page.
LEMMA TopLevels ==
    /\ Top1 \in Seq(Brackets) /\ Top2 \in Seq(Brackets)
    /\ Stack1 \in Seq(BOOLEAN) /\ Stack2 \in Seq(BOOLEAN)
  <1>1. "{" \in Brackets
    BY DEF Brackets
  <1>2. Top1 \in Seq(Brackets)
    BY <1>1, Nothing, NestsSeq DEF Top1
  <1>3. Top2 \in Seq(Brackets)
    BY <1>1, <1>2, Nothing, NestsSeq DEF Top2
  <1> QED
    BY <1>2, <1>3, Levels

LEMMA SlotsOpen ==
    KeyedArray(EndObject(AddMembers(KeyedObject(KeyedObject(BeginWith(<<>>))), 2))) = InSlots(FALSE)
  <1>1. BeginWith(<<>>) = Obj(FALSE, <<>>, <<>>, "none")
    BY Begins DEF Object
  <1>2. ASSUME NEW f \in BOOLEAN
        PROVE  KeyedObject(KeyedObject(Obj(f, <<>>, <<>>, "none"))) = Obj(FALSE, Top2, Stack2, "none")
    <2>1. KeyedObject(Obj(f, <<>>, <<>>, "none")) = Obj(FALSE, Top1, Stack1, "none")
      BY Nothing, KeyedOpens DEF Top1, Stack1
    <2>2. \A g \in BOOLEAN : KeyedObject(Obj(g, Top1, Stack1, "none")) = Obj(FALSE, Top2, Stack2, "none")
      BY TopLevels, KeyedOpens DEF Top2, Stack2
    <2> QED
      BY <2>1, <2>2
  <1>3. PICK n \in Nat : n = 2
    OBVIOUS
  <1>4. \A f \in BOOLEAN :
           \E e \in BOOLEAN : AddMembers(Obj(f, Top2, Stack2, "none"), n) = Obj(e, Top2, Stack2, "none")
    BY TopLevels, MembersInObject
  <1>5. \A e \in BOOLEAN : EndObject(Obj(e, Top2, Stack2, "none")) = Obj(TRUE, Top1, Stack1, "none")
    BY TopLevels, Ends DEF Top2, Stack2
  <1>6. \A e \in BOOLEAN : KeyedArray(Obj(e, Top1, Stack1, "none")) = InSlots(FALSE)
    BY TopLevels, KeyedOpens DEF InSlots, Top2, Stack2
  <1>7. KeyedObject(KeyedObject(BeginWith(<<>>))) = Obj(FALSE, Top2, Stack2, "none")
    BY <1>1, <1>2
  <1>8. PICK e \in BOOLEAN : AddMembers(Obj(FALSE, Top2, Stack2, "none"), n) = Obj(e, Top2, Stack2, "none")
    BY <1>4
  <1> QED
    BY <1>3, <1>5, <1>6, <1>7, <1>8

LEMMA SlotAdded ==
    ASSUME NEW b \in BOOLEAN
    PROVE  EndObject(AddMembers(NewObject(InSlots(b)), 13)) = InSlots(TRUE)
  <1>1. PICK o, st : o = <<"[">> \o Top2 /\ st = Stack3 /\ o \in Seq(Brackets) /\ st \in Seq(BOOLEAN)
    BY TopLevels, Levels, NestsSeq DEF Brackets
  <1>2. NewObject(InSlots(b)) = Obj(FALSE, o, st, "none")
    <2>1. PICK p \in Seq(Brackets), t \in Seq(BOOLEAN) : p = Top2 /\ t = Stack2
      BY TopLevels
    <2>2. NewObject(Arr(b, p, t, "none")) = Obj(FALSE, <<"[">> \o p, <<TRUE>> \o t, "none")
      BY KeyedOpens
    <2> QED
      BY <1>1, <2>1, <2>2, Zenon DEF InSlots, Stack3
  <1>3. PICK n \in Nat : n = 13
    OBVIOUS
  <1>4. \A f \in BOOLEAN : \E e \in BOOLEAN : AddMembers(Obj(f, o, st, "none"), n) = Obj(e, o, st, "none")
    BY <1>1, MembersInObject
  <1>5. PICK e \in BOOLEAN : AddMembers(Obj(FALSE, o, st, "none"), n) = Obj(e, o, st, "none")
    BY <1>4
  <1>6. EndObject(Obj(e, o, st, "none")) = InSlots(TRUE)
    BY <1>1, TopLevels, Ends DEF InSlots, Stack3
  <1> QED
    BY <1>2, <1>3, <1>5, <1>6

LEMMA SlotsEnd ==
    ASSUME NEW b \in BOOLEAN
    PROVE  EndObject(EndObject(EndArray(InSlots(b)))) = Idle(Last("none"), <<>>)
  <1>1. EndArray(InSlots(b)) = Obj(TRUE, Top1, Stack1, "none")
    BY TopLevels, Ends DEF InSlots, Top2, Stack2
  <1>2. \A e \in BOOLEAN : EndObject(Obj(e, Top1, Stack1, "none")) = Object(TRUE, "none")
    BY Nothing, Ends DEF Top1, Stack1, Object
  <1>3. \A e \in BOOLEAN : EndObject(Object(e, "none")) = Idle(Last("none"), <<>>)
    BY EndsResponse
  <1> QED
    BY <1>1, <1>2, <1>3

\* The response to a command: an object in the object.
LEMMA CommandAnswer ==
    EndObject(EndObject(AddMembers(KeyedObject(BeginWith(<<>>)), 1))) = Idle(Last("none"), <<>>)
  <1>1. BeginWith(<<>>) = Object(FALSE, "none")
    BY Begins
  <1>2. PICK n \in Nat : n = 1
    OBVIOUS
  <1>3. \A b \in BOOLEAN : AppendLog(Object(b, "none"), n) = Idle(Last("none"), <<>>)
    BY AppendsLog
  <1> QED
    BY <1>1, <1>2, <1>3 DEF AppendLog

LEMMA DataOpens == KeyedArray([New EXCEPT !.text = Members]) = InData(FALSE)
  <1> DEFINE r(n) == Reader(Open1, n, "none")
  <1>1. [New EXCEPT !.text = Members] = Idle(r("first"), <<>>)
    <2>1. New = Idle(Begin, <<>>) /\ Members = r("first")
      BY DEF New, Members, Idle, Writer, Reader, Open1
    <2>2. ASSUME NEW z, NEW q PROVE [Writer(Begin, <<>>, z) EXCEPT !.text = q] = Writer(q, <<>>, z)
      BY DEF Writer
    <2> HIDE DEF r
    <2>3. [Idle(Begin, <<>>) EXCEPT !.text = Members] = Idle(Members, <<>>)
      BY <2>2, Zenon DEF Idle
    <2> QED
      BY <2>1, <2>3
  <1>2. WithComma(<<>>, "key") = <<"key">> /\ Counted(<<>>) = <<>> /\ Opened(<<>>) = <<FALSE>> \o <<>>
    BY AppendOne DEF WithComma, CommaOf, Counted, Opened
  <1>0. Open1 # <<>> /\ Head(Open1) = "{"
    BY DEF Open1
  <1>3. Read(r("first"), "key") = r("value")
    BY <1>0 DEF Read, ReadToken, ReadInString, WantsValue, WantsKey, Inside, Closes, AfterValue,
                Reader, Begin
  <1>4. Read(r("value"), "[") = Reader(<<"[">> \o Open1, "first", "none")
    BY <1>0 DEF Read, ReadToken, ReadInString, WantsValue, WantsKey, Inside, Closes, AfterValue,
                Reader, Begin
  <1>5. Before(FALSE) = "first"
    BY DEF Before
  <1> HIDE DEF r
  <1>6. AddKey(Idle(r("first"), <<>>)) = Due(r("value"), <<>>)
    <2>1. ReadAll(r("first"), <<"key">>) = r("value")
      BY <1>3, ReadFew
    <2> QED
      BY <1>2, <2>1, AddsKey
  <1>7. NewArray(Due(r("value"), <<>>))
            = Idle(Reader(<<"[">> \o Open1, "first", "none"), <<FALSE>> \o <<>>)
    BY <1>2, <1>4, OpensDue DEF NewArray
  <1> QED
    BY <1>1, <1>5, <1>6, <1>7 DEF KeyedArray, InData, Arr, Box

\* A result, its columns, and its rows, in JSON or as CSV.
LEMMA ResultOpens ==
    ASSUME NEW b \in BOOLEAN
    PROVE  KeyedArray(NewObject(InData(b))) = InList(FALSE)
  <1>1. NewObject(Arr(b, Open1, <<>>, "none")) = Obj(FALSE, Open2, Stack1, "none")
    <2>1. PICK o \in Seq(Brackets), s \in Seq(BOOLEAN) : o = Open1 /\ s = <<>>
      BY Levels
    <2>2. NewObject(Arr(b, o, s, "none")) = Obj(FALSE, <<"[">> \o o, <<TRUE>> \o s, "none")
      BY KeyedOpens
    <2> QED
      BY <2>1, <2>2, Zenon DEF Open2, Stack1
  <1>2. ASSUME NEW f \in BOOLEAN
        PROVE  KeyedArray(Obj(f, Open2, Stack1, "none")) = InList(FALSE)
    BY Levels, KeyedOpens DEF InList, Open3, Stack2
  <1> QED
    BY <1>1, <1>2 DEF InData

LEMMA ItemOpens ==
    ASSUME NEW b \in BOOLEAN
    PROVE  NewObject(InList(b)) = InItem(FALSE)
  <1>1. PICK o \in Seq(Brackets), s \in Seq(BOOLEAN) : o = Open3 /\ s = Stack2
    BY Levels
  <1>2. NewObject(Arr(b, o, s, "none")) = Obj(FALSE, <<"[">> \o o, <<TRUE>> \o s, "none")
    BY KeyedOpens
  <1> QED
    BY <1>1, <1>2, Zenon DEF InList, InItem, Open4, Stack3

LEMMA ItemGrows ==
    ASSUME NEW b \in BOOLEAN, NEW n \in Nat
    PROVE  /\ AddMember(InItem(b)) = InItem(TRUE)
           /\ \E e \in BOOLEAN : AddMembers(InItem(b), n) = InItem(e)
  <1>1. AddMember(InItem(b)) = InItem(TRUE)
    BY Levels, MemberInObject DEF InItem
  <1>2. \E e \in BOOLEAN : AddMembers(InItem(b), n) = InItem(e)
    BY Levels, MembersInObject DEF InItem
  <1> QED
    BY <1>1, <1>2

\* A value, whose key or text may be raw.
LEMMA CellGrows ==
    ASSUME NEW b \in BOOLEAN, NEW k \in {"key", "raw"}, NEW v \in {"value", "raw"}
    PROVE  LET w == AddMemberAs(InItem(b), k, v) IN w = InItem(TRUE) \/ Strayed(w)
  <1>1. PICK w : w = AddMemberAs(InItem(b), k, v)
    OBVIOUS
  <1>2. CASE k = "key" /\ v = "value"
    <2>1. w = AddMember(InItem(b))
      BY <1>1, <1>2 DEF AddMember
    <2> QED
      BY <1>1, <2>1, ItemGrows
  <1>3. CASE k = "key" /\ v = "raw"
    <2>1. PICK r, st : r = Reader(<<"{">> \o Open4, "value", "none") /\ st = <<TRUE>> \o Stack3
      OBVIOUS
    <2>2. r.next = "value" /\ st \in Seq(BOOLEAN)
      BY <2>1, Levels, NestsSeq DEF Reader, Brackets
    <2>3. AddKeyAs(InItem(b), k) = Due(r, st)
      BY <1>3, <2>1, Levels, KeyInObject DEF AddKey, InItem, Keyed
    <2>4. w = Idle(Lost, st)
      BY <1>1, <1>3, <2>2, <2>3, AddsMemberAs, ReadRaw
    <2> QED
      BY <1>1, <2>2, <2>4, StrayedIs
  <1>4. CASE k = "raw"
    <2> DEFINE r(n) == Reader(<<"{">> \o Open4, n, "none")
    <2>1. PICK st : st = <<b>> \o Stack3
      OBVIOUS
    <2>2. st \in Seq(BOOLEAN)
      BY <2>1, Levels, Front
    <2>3. Read(r("comma"), ",") = r("key")
      BY Levels, ReadTokens
    <2>4. /\ Read(r("first"), "raw") = Lost /\ Read(r("comma"), "raw") = Lost
          /\ Read(r("key"), "raw") = Lost
      <3>1. ASSUME NEW n \in {"first", "comma", "key"} PROVE Read(r(n), "raw") = Lost
        <4>1. r(n).next = n
          BY DEF Reader
        <4> QED
          BY <4>1, ReadRaw
      <3> QED
        BY <3>1
    <2> HIDE DEF r
    <2>5. ReadAll(r(Before(b)), WithComma(st, "raw")) = Lost
      <3>1. CommaOf(st) = IF b THEN <<",">> ELSE <<>>
        BY <2>1, Levels, Noted
      <3>2. CASE b
        <4>1. WithComma(st, "raw") = <<",", "raw">> /\ Before(b) = "comma"
          BY <3>1, <3>2, AppendOne DEF WithComma, Before
        <4>2. PICK q, x, y : q = r("comma") /\ x = "," /\ y = "raw"
          OBVIOUS
        <4>3. ReadAll(q, <<x, y>>) = Read(Read(q, x), y)
          BY ReadTwo
        <4> QED
          BY <2>3, <2>4, <4>1, <4>2, <4>3, Zenon
      <3>3. CASE ~ b
        <4>1. WithComma(st, "raw") = <<"raw">> /\ Before(b) = "first"
          BY <3>1, <3>3, AppendOne DEF WithComma, Before
        <4>2. ReadAll(r("first"), <<"raw">>) = Lost
          BY <2>4, ReadFew
        <4> QED
          BY <4>1, <4>2
      <3> QED
        BY <3>2, <3>3
    <2>6. InItem(b) = Idle(r(Before(b)), st)
      BY <2>1 DEF r, InItem, Obj, Box
    <2>7. AddKeyAs(InItem(b), k) = Due(Lost, Counted(st))
      BY <1>4, <2>5, <2>6, AddsKeyAs
    <2>8. Read(Lost, v) = Lost
      BY DEF Read, Lost
    <2>9. w = Idle(Lost, Counted(st))
      BY <1>1, <2>7, <2>8, AddsMemberAs
    <2> QED
      BY <1>1, <2>2, <2>9, CountedSeq, StrayedIs
  <1> QED
    BY <1>1, <1>2, <1>3, <1>4

LEMMA ItemEnds ==
    ASSUME NEW b \in BOOLEAN
    PROVE  EndObject(InItem(b)) = InList(TRUE)
  BY Levels, Ends DEF InItem, InList, Open4, Stack3

LEMMA ListEnds ==
    ASSUME NEW b \in BOOLEAN
    PROVE  EndArray(InList(b)) = InResult
  BY Levels, Ends DEF InList, InResult, Open3, Stack2

LEMMA RowsOpen == KeyedArray(InResult) = InList(FALSE)
  <1>1. ASSUME NEW t \in BOOLEAN PROVE KeyedArray(Obj(t, Open2, Stack1, "none")) = InList(FALSE)
    BY Levels, KeyedOpens DEF InList, Open3, Stack2
  <1> QED
    BY <1>1 DEF InResult

LEMMA ResultEnds == EndObject(AddMember(InResult)) = InData(TRUE)
  <1>1. ASSUME NEW t \in BOOLEAN PROVE AddMember(Obj(t, Open2, Stack1, "none")) = InResult
    BY Levels, MemberInObject DEF InResult
  <1>2. ASSUME NEW t \in BOOLEAN
        PROVE  EndObject(Obj(t, Open2, Stack1, "none")) = InData(TRUE)
    BY Levels, Ends DEF InData, Open2, Stack1
  <1> QED
    BY <1>1, <1>2 DEF InResult

LEMMA DataEnd ==
    ASSUME NEW b \in BOOLEAN
    PROVE  EndArray(InData(b)).text = Reader(Open1, "comma", "none")
  <1>1. EndArray(InData(b)) = Idle(Reader(Open1, "comma", "none"), <<>>)
    BY Levels, ClosesBox DEF InData
  <1> QED
    BY <1>1, Fields

\* A string of CSV is written token by token.
LEMMA CsvOpens == AddJson(AddKey(InResult), <<"quote">>) = InCsv
  <1> DEFINE r(n) == Reader(Open3, n, "none")
  <1>1. AddKey(InResult) = Due(r("value"), Stack2)
    <2>1. ASSUME NEW t \in BOOLEAN
          PROVE  AddKey(Obj(t, Open2, Stack1, "none")) = Keyed(Open2, Stack1, "none")
      BY Levels, KeyInObject
    <2> QED
      BY <2>1 DEF InResult, Keyed, Open3, Stack2
  <1>2. Read(r("value"), "quote") = r("string")
    BY Levels, ReadTokens DEF Open3
  <1> HIDE DEF r
  <1>3. ReadAll(r("value"), <<"quote">>) = r("string")
    BY <1>2, ReadFew
  <1>4. AddJson(Due(r("value"), Stack2), <<"quote">>) = Due(r("string"), Stack2)
    BY <1>3, AddsJson
  <1> QED
    BY <1>1, <1>4 DEF InCsv, r

InString == {"text", "escape", ","}

LEMMA CsvGrows ==
    ASSUME NEW text \in Seq(InString)
    PROVE  AddJson(InCsv, text) = InCsv
  <1> DEFINE r == Reader(Open3, "string", "none")
  <1>1. \A t \in InString : Read(r, t) = r
    BY DEF Read, ReadInString, Reader, InString
  <1> HIDE DEF r
  <1>2. Len(text) \in Nat /\ \A i \in 1 .. Len(text) : text[i] \in InString
    OBVIOUS
  <1>3. ReadAll(r, text) = r
    BY <1>1, <1>2, ReadStays
  <1>4. AddJson(Due(r, Stack2), text) = Due(r, Stack2)
    BY <1>3, AddsJson
  <1> QED
    BY <1>4 DEF InCsv, r

LEMMA Tuples ==
    ASSUME NEW S, NEW x \in S, NEW y \in S, NEW z \in S
    PROVE  <<>> \in Seq(S) /\ <<x>> \in Seq(S) /\ <<y, x, z, x, y>> \in Seq(S)
  <1>1. <<x>> \in Seq(S)
    OBVIOUS
  <1>2. <<y, x, z, x, y>> \in Seq(S)
    OBVIOUS
  <1> QED
    BY <1>1, <1>2

LEMMA CsvTokens ==
    ASSUME NEW v \in {"null", "plain", "comma"}, NEW more \in BOOLEAN
    PROVE  CsvValue(v) \o (IF more THEN <<",">> ELSE <<>>) \in Seq(InString)
  <1>1. "text" \in InString /\ "escape" \in InString /\ "," \in InString
    BY DEF InString
  <1>2. CsvValue(v) \in Seq(InString)
    <2>1. CASE v = "null"
      BY <1>1, <2>1, Tuples DEF CsvValue
    <2>2. CASE v = "plain"
      BY <1>1, <2>2, Tuples DEF CsvValue
    <2>3. CASE v = "comma"
      <3>1. PICK x, y, z : x = "text" /\ y = "escape" /\ z = ","
        OBVIOUS
      <3>2. CsvValue(v) = <<y, x, z, x, y>>
        BY <2>3, <3>1 DEF CsvValue
      <3> QED
        BY <1>1, <3>1, <3>2, Tuples
    <2> QED
      BY <2>1, <2>2, <2>3
  <1>3. PICK u : u = IF more THEN <<",">> ELSE <<>>
    OBVIOUS
  <1>4. u \in Seq(InString)
    BY <1>1, <1>3, Tuples
  <1>5. CsvValue(v) \o u \in Seq(InString)
    BY <1>2, <1>4, ConcatProperties
  <1> QED
    BY <1>3, <1>5

LEMMA CsvLength ==
    ASSUME NEW v \in {"null", "plain", "comma", "raw"}, NEW more \in BOOLEAN
    PROVE  Len(CsvValue(v) \o (IF more THEN <<",">> ELSE <<>>)) \in Nat
  <1> DEFINE Tokens == {"text", "escape", ",", "raw"}
  <1>1. /\ <<>> \in Seq(Tokens) /\ <<"text">> \in Seq(Tokens) /\ <<"raw">> \in Seq(Tokens)
        /\ <<",">> \in Seq(Tokens) /\ <<"escape", "text", ",", "text", "escape">> \in Seq(Tokens)
    BY Tuples
  <1>2. CsvValue(v) \in Seq(Tokens)
    BY <1>1 DEF CsvValue
  <1>3. PICK u : u = IF more THEN <<",">> ELSE <<>>
    OBVIOUS
  <1>4. u \in Seq(Tokens)
    BY <1>1, <1>3
  <1>5. CsvValue(v) \o u \in Seq(Tokens)
    BY <1>2, <1>4, ConcatProperties
  <1>6. Len(CsvValue(v) \o u) \in Nat
    <2> HIDE DEF Tokens
    <2> QED
      BY <1>5
  <1> QED
    BY <1>3, <1>6

LEMMA CsvRaw ==
    ASSUME NEW more \in BOOLEAN
    PROVE  Strayed(AddJson(InCsv, CsvValue("raw") \o (IF more THEN <<",">> ELSE <<>>)))
  <1>1. PICK r : r = Reader(Open3, "string", "none")
    OBVIOUS
  <1>2. Read(r, "raw") = Lost
    <2>1. r.next = "string"
      BY <1>1 DEF Reader
    <2> QED
      BY <2>1, ReadRaw
  <1>3. PICK text : text = CsvValue("raw") \o (IF more THEN <<",">> ELSE <<>>)
    OBVIOUS
  <1>4. Len(text) \in {1, 2} /\ text[1] = "raw"
    <2>1. PICK a, u : a = CsvValue("raw") /\ u = IF more THEN <<",">> ELSE <<>>
      OBVIOUS
    <2> DEFINE S == {"raw", ","}
    <2>2. a \in Seq(S) /\ u \in Seq(S) /\ Len(a) = 1 /\ a[1] = "raw" /\ Len(u) \in {0, 1}
      <3>1. a = <<"raw">> /\ (u = <<",">> \/ u = <<>>)
        BY <2>1 DEF CsvValue
      <3>2. ASSUME NEW x PROVE Len(<<x>>) = 1 /\ <<x>>[1] = x
        OBVIOUS
      <3>0. <<"raw">> \in Seq(S) /\ <<",">> \in Seq(S) /\ <<>> \in Seq(S)
        <4>1. "raw" \in S /\ "," \in S
          OBVIOUS
        <4> HIDE DEF S
        <4> QED
          BY <4>1, Tuples
      <3> HIDE DEF S
      <3>4. a \in Seq(S) /\ Len(a) = 1 /\ a[1] = "raw"
        BY <3>0, <3>1, <3>2, Zenon
      <3>5. Len(<<>>) = 0
        OBVIOUS
      <3>3. u \in Seq(S) /\ (Len(u) = 0 \/ Len(u) = 1)
        BY <3>0, <3>1, <3>2, <3>5, Zenon
      <3> QED
        BY <3>3, <3>4
    <2> HIDE DEF S
    <2>3. Len(a \o u) = Len(a) + Len(u) /\ \A i \in 1 .. Len(a) : (a \o u)[i] = a[i]
      <3>1. \A i \in 1 .. Len(a) + Len(u) :
               (a \o u)[i] = IF i <= Len(a) THEN a[i] ELSE u[i - Len(a)]
        BY <2>2, ConcatProperties
      <3>2. Len(a \o u) = Len(a) + Len(u)
        BY <2>2, ConcatProperties
      <3> QED
        BY <2>2, <3>1, <3>2
    <2>4. text = a \o u
      BY <1>3, <2>1
    <2> QED
      BY <2>2, <2>3, <2>4
  <1>5. ReadAll(r, text) = Lost
    <2>1. \A t : Read(Lost, t) = Lost
      BY DEF Read, Lost
    <2>2. Len(text) = 1 => ReadAll(r, text) = Read(r, text[1])
      BY ReadLength
    <2>3. Len(text) = 2 => ReadAll(r, text) = Read(Read(r, text[1]), text[2])
      BY ReadLength
    <2> QED
      BY <1>2, <1>4, <2>1, <2>2, <2>3
  <1>6. AddJson(InCsv, text) = Due(Lost, Stack2)
    BY <1>1, <1>5, AddsJson DEF InCsv
  <1> QED
    BY <1>3, <1>6, Levels, StrayedIs

LEMMA CsvEnds == AddMember(AddJson(InCsv, <<"quote", ",">>)) = InResult
  <1> DEFINE r(n) == Reader(Open3, n, "none")
  <1>1. /\ Read(r("string"), "quote") = r("comma") /\ Read(r("comma"), ",") = r("key")
        /\ Read(r("key"), "key") = r("value") /\ Read(r("value"), "value") = r("comma")
    BY Levels, ReadTokens DEF Open3
  <1>2. Counted(Stack2) = Stack2
    BY Levels, Noted DEF Stack2
  <1> HIDE DEF r
  <1>3. ReadAll(r("string"), <<"quote", ",">>) = r("key")
    <2>1. PICK q, x, y : q = r("string") /\ x = "quote" /\ y = ","
      OBVIOUS
    <2>2. ReadAll(q, <<x, y>>) = Read(Read(q, x), y)
      BY ReadTwo
    <2> QED
      BY <1>1, <2>1, <2>2, Zenon
  <1>4. AddJson(Due(r("string"), Stack2), <<"quote", ",">>) = Due(r("key"), Stack2)
    BY <1>3, AddsJson
  <1>5. AddKey(Due(r("key"), Stack2)) = Due(r("value"), Stack2)
    BY <1>1, <1>2, AddsKey
  <1>6. AddMember(Due(r("key"), Stack2)) = Idle(r("comma"), Stack2)
    BY <1>1, <1>5, AddsMember
  <1>7. Idle(r("comma"), Stack2) = InResult
    <2>1. Before(TRUE) = "comma"
      BY DEF Before
    <2> QED
      BY <2>1 DEF r, InResult, Obj, Box, Open3, Stack2
  <1> QED
    BY <1>4, <1>6, <1>7 DEF InCsv, r

\* The data go into the response.
LEMMA DataGoIn ==
    ASSUME NEW c, NEW text
    PROVE  LET w == AddText(AddJson(Object(TRUE, c), <<",">>), text) IN
           /\ text = Reader(Open1, "comma", "none") => w = Object(TRUE, c)
           /\ text = Lost => Strayed(w)
  <1>1. PICK o, s : o = <<>> /\ s = <<>> /\ o \in Seq(Brackets) /\ s \in Seq(BOOLEAN)
    BY Nothing
  <1> DEFINE p == <<"{">> \o o
             r(n) == Reader(p, n, c)
             st == <<TRUE>> \o s
  <1>2. Object(TRUE, c) = Idle(r("comma"), st)
    <2>1. Before(TRUE) = "comma"
      BY DEF Before
    <2> QED
      BY <1>1, <2>1 DEF Object, Obj, Box
  <1>3. Read(r("comma"), ",") = r("key")
    BY <1>1, ReadTokens
  <1>4. st \in Seq(BOOLEAN)
    BY <1>1, NestsSeq DEF Brackets
  <1>5. WantsKey(r("key")) /\ [r("key") EXCEPT !.next = "comma"] = r("comma")
    <2>1. WantsKey(r("key"))
      BY DEF WantsKey, Reader
    <2>2. [r("key") EXCEPT !.next = "comma"] = r("comma")
      <3> SUFFICES ASSUME NEW m, m = "comma" PROVE [Reader(p, "key", c) EXCEPT !.next = m] = Reader(p, m, c)
        BY Zenon
      <3> HIDE DEF p
      <3> QED
        BY DEF Reader
    <2> QED
      BY <2>1, <2>2
  <1>6. [Members EXCEPT !.next = "comma"] = Reader(Open1, "comma", "none")
    <2>1. Members = Reader(Open1, "first", "none")
      BY DEF Members, Reader, Open1
    <2>2. [Reader(Open1, "first", "none") EXCEPT !.next = "comma"] = Reader(Open1, "comma", "none")
      <3> SUFFICES ASSUME NEW m, m = "comma"
                   PROVE  [Reader(Open1, "first", "none") EXCEPT !.next = m] = Reader(Open1, m, "none")
        BY Zenon
      <3> QED
        BY DEF Reader
    <2> QED
      BY <2>1, <2>2, Zenon
  <1> HIDE DEF r, st
  <1>7. ReadAll(r("comma"), <<",">>) = r("key")
    BY <1>3, ReadFew
  <1>8. AddJson(Object(TRUE, c), <<",">>) = Idle(r("key"), st)
    BY <1>2, <1>7, AddsJson
  <1>9. ASSUME NEW q PROVE [Idle(r("key"), st) EXCEPT !.text = q] = Idle(q, st)
    <2>1. ASSUME NEW z, NEW x PROVE [Writer(x, st, z) EXCEPT !.text = q] = Writer(q, st, z)
      BY DEF Writer
    <2> QED
      BY <2>1, Zenon DEF Idle
  <1>10. Idle(r("key"), st).text = r("key")
    BY Fields
  <1>11. Lost # Reader(Open1, "comma", "none")
    BY DEF Lost, Reader
  <1>12. ASSUME text \in {Lost, Reader(Open1, "comma", "none")}
         PROVE  AddText(Idle(r("key"), st), text)
                    = Idle(IF text = Lost THEN Lost ELSE r("comma"), st)
    <2>1. PICK w : w = Idle(r("key"), st)
      OBVIOUS
    <2>2. PICK u : u = IF text = Lost THEN Lost ELSE r("comma")
      OBVIOUS
    <2>3. (IF ~ WantsKey(w.text) THEN Bad
           ELSE IF text = Lost THEN Lost
           ELSE IF text = [Members EXCEPT !.next = "comma"]
                THEN [w.text EXCEPT !.next = "comma"] ELSE Bad) = u
      BY <1>5, <1>6, <1>10, <1>12, <2>1, <2>2, Zenon
    <2>4. AddText(w, text) = [w EXCEPT !.text = u]
      BY <2>3, Zenon DEF AddText
    <2>5. [w EXCEPT !.text = u] = Idle(u, st)
      BY <1>9, <2>1, Zenon
    <2> QED
      BY <2>1, <2>2, <2>4, <2>5
  <1>13. text = Reader(Open1, "comma", "none")
             => AddText(AddJson(Object(TRUE, c), <<",">>), text) = Object(TRUE, c)
    BY <1>2, <1>8, <1>11, <1>12
  <1>14. text = Lost => Strayed(AddText(AddJson(Object(TRUE, c), <<",">>), text))
    <2>1. text = Lost => AddText(AddJson(Object(TRUE, c), <<",">>), text) = Idle(Lost, st)
      BY <1>8, <1>12
    <2> QED
      BY <1>4, <2>1, StrayedIs
  <1> QED
    BY <1>13, <1>14

-----------------------------------------------------------------------------
(* The invariant. *)

Ruined(w) == w.text = Bad
Ended(c) == Idle(End(c), <<>>)

Places == {"dispatch", "slots", "query", "check", "results", "fields", "rows", "row", "log", "done"}
Exec == {"results", "fields", "rows", "row"}

Asked ==
    /\ request \in RequestKinds /\ failed \in BOOLEAN /\ at \in Places
    /\ at \notin {"dispatch", "slots", "done"} => ~ NoCallback
    /\ at = "slots" => NoCallback
    /\ at \notin {"log", "done"} => ~ failed

OuterWriter ==
    /\ at \in {"check"} \cup Exec => j = Object(TRUE, DataCallback)
    /\ at = "slots" => \E b \in BOOLEAN : j = InSlots(b)
    /\ at = "log" /\ failed => j = Object(TRUE, ErrorCallback)
    /\ at = "log" /\ ~ failed => j = Object(TRUE, DataCallback) \/ Strayed(j)

Answered ==
    at = "done" =>
        IF NoCallback THEN j = Ended("none")
        ELSE IF failed THEN j = Ended(ErrorCallback)
        ELSE \/ j = Ended(DataCallback) \/ Strayed(j)
             \/ Ruined(j) /\ Unopened

DataWriter ==
    /\ at = "results" => Strayed(d) \/ \E b \in BOOLEAN : d = InData(b)
    /\ at = "fields" => Strayed(d) \/ \E b \in BOOLEAN : d = InList(b)
    /\ at = "rows" => \/ Strayed(d)
                      \/ IF request.csv THEN d = InCsv ELSE \E b \in BOOLEAN : d = InList(b)
    /\ at = "row" => \/ Strayed(d)
                     \/ IF request.csv THEN d = InCsv ELSE \E b \in BOOLEAN : d = InItem(b)

ResultColumns == [name : ColumnNames, type : Types]
Result ==
    /\ results \in Nat /\ (at \in {"fields", "rows", "row"} => results > 0)
    /\ cols \in Seq(ResultColumns) /\ col \in 0 .. Len(cols)

ResponseInv == Asked /\ OuterWriter /\ Answered /\ DataWriter /\ Result

\* The end of a response, in a callback or not.
LEMMA EndOf ==
    /\ Last("none") = End("none")
    /\ \A c \in Callbacks : Read(Last(c), ")") = End(c)
    /\ Read(End("none"), ")") = Bad
  <1>1. Last("none") = End("none")
    BY DEF Last, End, Reader
  <1>2. ASSUME NEW c \in Callbacks PROVE Read(Last(c), ")") = End(c)
    <2>1. PICK r : r = Last(c)
      OBVIOUS
    <2>2. r.open = <<>> /\ r.next = "comma" /\ r.call = c
      BY <2>1 DEF Last, Reader, Callbacks
    <2>3. ~ WantsValue(r) /\ ~ WantsKey(r)
      BY <2>2 DEF WantsValue, WantsKey
    <2>4. r # Begin
      BY <2>2 DEF Begin
    <2>5. ReadToken(r, ")") = End(r.call)
      BY <2>2, <2>3, <2>4 DEF ReadToken, Closes
    <2> QED
      BY <2>1, <2>2, <2>5 DEF Read
  <1>3. Read(End("none"), ")") = Bad
    <2>1. PICK r : r = End("none")
      OBVIOUS
    <2>2. r.open = <<>> /\ r.next = "end" /\ r.call = "none"
      BY <2>1 DEF End
    <2>3. ~ WantsValue(r) /\ ~ WantsKey(r)
      BY <2>2 DEF WantsValue, WantsKey
    <2>4. r # Begin
      BY <2>2 DEF Begin
    <2>5. ReadToken(r, ")") = Bad
      BY <2>2, <2>3, <2>4 DEF ReadToken, Closes
    <2> QED
      BY <2>1, <2>2, <2>5 DEF Read
  <1> QED
    BY <1>1, <1>2, <1>3

LEMMA Finishes ==
    ASSUME NEW c \in Callbacks \cup {"none"}, NEW n \in Nat, NEW w,
           w = EndCallback(AppendLog(Object(TRUE, c), n)),
           c # "none" => request.callback \/ request.onerror
    PROVE  /\ (c = "none" => ~ request.callback /\ ~ request.onerror) => w = Ended(c)
           /\ c = "none" /\ (request.callback \/ request.onerror) => Ruined(w)
  <1>1. PICK v : v = AppendLog(Object(TRUE, c), n)
    OBVIOUS
  <1>2. v = Idle(Last(c), <<>>)
    <2>1. \A b \in BOOLEAN : AppendLog(Object(b, c), n) = Idle(Last(c), <<>>)
      BY AppendsLog
    <2> QED
      BY <1>1, <2>1
  <1>3. AddJson(v, <<")">>) = Idle(Read(Last(c), ")"), <<>>)
    <2>1. ReadAll(Last(c), <<")">>) = Read(Last(c), ")")
      BY ReadFew
    <2> QED
      BY <1>2, <2>1, AddsJson
  <1>4. w = IF request.callback \/ request.onerror THEN Idle(Read(Last(c), ")"), <<>>) ELSE v
    BY <1>1, <1>3 DEF EndCallback
  <1>5. CASE c = "none"
    <2>1. CASE request.callback \/ request.onerror
      <3>1. w = Idle(Bad, <<>>)
        BY <1>4, <1>5, <2>1, EndOf
      <3>2. w.text = Bad
        <4>1. ASSUME NEW u PROVE Idle(Bad, u).text = Bad
          BY Fields
        <4> QED
          BY <3>1, <4>1, Zenon
      <3> QED
        BY <1>5, <2>1, <3>2 DEF Ruined
    <2>2. CASE ~ (request.callback \/ request.onerror)
      BY <1>2, <1>4, <1>5, <2>2, EndOf DEF Ended
    <2> QED
      BY <2>1, <2>2
  <1>6. CASE c # "none"
    <2>1. c \in Callbacks /\ w = Idle(Read(Last(c), ")"), <<>>)
      BY <1>4, <1>6
    <2> QED
      BY <1>6, <2>1, EndOf DEF Ended
  <1> QED
    BY <1>5, <1>6

LEMMA StrayedFinish ==
    ASSUME NEW v, Strayed(v), NEW n \in Nat
    PROVE  Strayed(EndCallback(AppendLog(v, n)))
  <1>1. Strayed(AppendLog(v, n))
    BY StrayedLog
  <1>2. Len(<<")">>) \in Nat
    OBVIOUS
  <1>3. Strayed(AddJson(AppendLog(v, n), <<")">>))
    BY <1>1, <1>2, StrayedJson
  <1> QED
    BY <1>1, <1>3 DEF EndCallback

LEMMA CallbackKinds ==
    ASSUME Asked
    PROVE  /\ DataCallback \in Callbacks \cup {"none"} /\ ErrorCallback \in Callbacks \cup {"none"}
           /\ DataCallback = "none" <=> ~ request.callback
           /\ ErrorCallback = "none" <=> ~ request.callback /\ ~ request.onerror
           /\ DataCallback # "js_error"
           /\ request.onerror => ErrorCallback = "js_error"
  BY DEF DataCallback, ErrorCallback, Callbacks

LEMMA Restarts ==
    Restart(Object(TRUE, DataCallback)) = Object(TRUE, ErrorCallback)
  <1>1. CASE request.onerror
    <2>1. BeginWith(<<"js_error">>) = Object(FALSE, "js_error")
      BY Begins DEF Callbacks
    <2>2. \A b \in BOOLEAN : AppendRequest(Object(b, "js_error")) = Object(TRUE, "js_error")
      BY AppendsRequest
    <2> QED
      BY <1>1, <2>1, <2>2 DEF Restart, ErrorCallback
  <1>2. CASE ~ request.onerror
    BY <1>2 DEF Restart, ErrorCallback
  <1> QED
    BY <1>1, <1>2

-----------------------------------------------------------------------------
(* Every step keeps it. *)

LEMMA AskedStep ==
    ASSUME Asked, [Next]_vars
    PROVE  Asked'
  <1> USE DEF Asked, Places, Exec
  <1> DEFINE Same == request' = request /\ (NoCallback' <=> NoCallback)
  <1>0. request' = request => Same
    BY DEF NoCallback, NeedsParam
  <1>1. CASE BadCommand
    BY <1>0, <1>1 DEF BadCommand, Done
  <1>2. CASE Kill
    BY <1>0, <1>2 DEF Kill, Done
  <1>3. CASE Catalog
    <2>1. PICK sql \in BOOLEAN : request' = [request EXCEPT !.sql = sql]
      BY <1>3 DEF Catalog
    <2>2. request' \in RequestKinds /\ request'.cmd = request.cmd /\ request'.param = request.param
      BY <2>1 DEF RequestKinds
    <2> QED
      BY <1>3, <2>2 DEF Catalog, NoCallback, NeedsParam
  <1>4. CASE Status
    BY <1>0, <1>4 DEF Status, NoCallback
  <1>5. CASE StatusSlot
    BY <1>0, <1>5 DEF StatusSlot
  <1>6. CASE StatusEnd
    BY <1>0, <1>6 DEF StatusEnd, Done
  <1>7. CASE Query
    BY <1>0, <1>7 DEF Query, NoCallback, NeedsParam
  <1>8. CASE RunQuery
    BY <1>0, <1>8 DEF RunQuery
  <1>9. CASE CheckFails
    BY <1>0, <1>9 DEF CheckFails, Refuse, Done
  <1>10. CASE NoConnection
    BY <1>0, <1>10 DEF NoConnection, Refuse, Done
  <1>11. CASE HeloFails
    BY <1>0, <1>11 DEF HeloFails, Refuse, Done
  <1>12. CASE Error
    BY <1>0, <1>12 DEF Error
  <1>13. CASE NoInformation
    BY <1>0, <1>13 DEF NoInformation
  <1>14. CASE Log
    BY <1>0, <1>14 DEF Log, Done
  <1>15. CASE ExecQuery
    BY <1>0, <1>15 DEF ExecQuery
  <1>16. CASE HasResults
    BY <1>0, <1>16 DEF HasResults
  <1>17. CASE Column
    BY <1>0, <1>17 DEF Column
  <1>18. CASE FieldsEnd
    BY <1>0, <1>18 DEF FieldsEnd
  <1>19. CASE FetchRow
    BY <1>0, <1>19 DEF FetchRow
  <1>20. CASE Cell
    BY <1>0, <1>20 DEF Cell
  <1>21. CASE RowEnd
    BY <1>0, <1>21 DEF RowEnd
  <1>22. CASE ResultEnd
    BY <1>0, <1>22 DEF ResultEnd
  <1>23. CASE NoMoreResults
    BY <1>0, <1>23 DEF NoMoreResults
  <1>24. CASE UNCHANGED vars
    BY <1>0, <1>24 DEF vars
  <1> QED
    BY <1>1, <1>2, <1>3, <1>4, <1>5, <1>6, <1>7, <1>8, <1>9, <1>10, <1>11, <1>12, <1>13, <1>14, <1>15, <1>16, <1>17, <1>18, <1>19, <1>20, <1>21, <1>22, <1>23, <1>24 DEF Next

LEMMA OuterStep ==
    ASSUME ResponseInv, Next
    PROVE  OuterWriter'
  <1> USE DEF ResponseInv, Asked
  <1>1. CASE BadCommand \/ Kill \/ StatusEnd \/ CheckFails \/ NoConnection \/ HeloFails \/ Log
    <2>1. at' = "done"
      BY <1>1 DEF BadCommand, Kill, StatusEnd, CheckFails, NoConnection, HeloFails, Log, Refuse, Done
    <2> QED
      BY <2>1 DEF OuterWriter, Exec
  <1>2. CASE Catalog \/ Query
    <2>1. at' = "query"
      BY <1>2 DEF Catalog, Query
    <2> QED
      BY <2>1 DEF OuterWriter, Exec
  <1>3. CASE Status
    <2>1. at' = "slots" /\ j' = InSlots(FALSE)
      BY <1>3, SlotsOpen DEF Status
    <2> QED
      BY <2>1 DEF OuterWriter, Exec
  <1>4. CASE StatusSlot
    <2>1. PICK b \in BOOLEAN : j = InSlots(b)
      BY <1>4 DEF OuterWriter, StatusSlot
    <2>2. at' = "slots" /\ (j' = j \/ j' = EndObject(AddMembers(NewObject(j), 13)))
      BY <1>4 DEF StatusSlot
    <2>3. j' = InSlots(b) \/ j' = InSlots(TRUE)
      BY <2>1, <2>2, SlotAdded
    <2>4. \E e \in BOOLEAN : j' = InSlots(e)
      BY <2>3
    <2> QED
      BY <2>2, <2>4 DEF OuterWriter, Exec
  <1>5. CASE RunQuery
    <2>1. request' = request /\ at' = "check"
          /\ j' = AppendRequest(BeginWith(IF request.callback THEN <<"js_callback">> ELSE <<>>))
      BY <1>5 DEF RunQuery
    <2>2. BeginWith(IF request.callback THEN <<"js_callback">> ELSE <<>>) = Object(FALSE, DataCallback)
      BY Begins DEF DataCallback, Callbacks
    <2>3. \A c : AppendRequest(Object(FALSE, c)) = Object(TRUE, c)
      <3>1. \A c : \A b \in BOOLEAN : AppendRequest(Object(b, c)) = Object(TRUE, c)
        BY AppendsRequest
      <3> QED
        BY <3>1
    <2>4. j' = Object(TRUE, DataCallback)
      BY <2>1, <2>2, <2>3
    <2> QED
      BY <2>1, <2>4 DEF OuterWriter, Exec, DataCallback
  <1>6. CASE Error
    <2>1. request' = request /\ at = "check" /\ at' = "log" /\ failed' = TRUE /\ j' = Restart(j)
      BY <1>6 DEF Error
    <2>2. j' = Object(TRUE, ErrorCallback)
      BY <2>1, Restarts DEF OuterWriter
    <2> QED
      BY <2>1, <2>2 DEF OuterWriter, Exec, ErrorCallback, DataCallback
  <1>7. CASE NoInformation
    <2>1. request' = request /\ at = "check" /\ at' = "log" /\ failed' = failed /\ j' = j /\ ~ failed
      BY <1>7 DEF NoInformation
    <2> QED
      BY <2>1 DEF OuterWriter, Exec, DataCallback
  <1>8. CASE ExecQuery \/ HasResults \/ Column \/ FieldsEnd \/ FetchRow \/ Cell \/ RowEnd \/ ResultEnd
    <2>1. request' = request /\ at \in {"check"} \cup Exec /\ at' \in Exec /\ j' = j
      BY <1>8 DEF ExecQuery, HasResults, Column, FieldsEnd, FetchRow, Cell, RowEnd, ResultEnd, Exec
    <2> QED
      BY <2>1 DEF OuterWriter, Exec, DataCallback
  <1>9. CASE NoMoreResults
    <2>1. /\ request' = request /\ at = "results" /\ at' = "log" /\ ~ failed /\ ~ failed'
          /\ j' = AddText(AddJson(j, <<",">>), EndArray(d).text)
      BY <1>9 DEF NoMoreResults, Exec
    <2>2. j = Object(TRUE, DataCallback)
      BY <2>1 DEF OuterWriter, Exec
    <2>3. j' = Object(TRUE, DataCallback) \/ Strayed(j')
      <3>1. CASE Strayed(d)
        <4>1. EndArray(d).text = Lost
          BY <3>1, StrayedStays, StrayedText
        <4> QED
          BY <2>1, <2>2, <4>1, DataGoIn
      <3>2. ASSUME NEW b \in BOOLEAN, d = InData(b)
            PROVE  j' = Object(TRUE, DataCallback)
        <4>1. EndArray(d).text = Reader(Open1, "comma", "none")
          BY <3>2, DataEnd
        <4> QED
          BY <2>1, <2>2, <4>1, DataGoIn
      <3> QED
        BY <2>1, <3>1, <3>2 DEF DataWriter
    <2>4. DataCallback' = DataCallback
      BY <2>1 DEF DataCallback
    <2> QED
      BY <2>1, <2>3, <2>4 DEF OuterWriter, Exec
  <1> QED
    BY <1>1, <1>2, <1>3, <1>4, <1>5, <1>6, <1>7, <1>8, <1>9 DEF Next

LEMMA AnsweredStep ==
    ASSUME ResponseInv, Next
    PROVE  Answered'
  <1> USE DEF ResponseInv
  <1>1. CASE BadCommand \/ Kill
    <2>1. /\ at' = "done" /\ request' = request
          /\ j' = EndObject(EndObject(AddMembers(KeyedObject(BeginWith(<<>>)), 1)))
      BY <1>1 DEF BadCommand, Kill, Done, JsonError
    <2>2. j' = Ended("none")
      BY <2>1, CommandAnswer, EndOf DEF Ended
    <2>3. NoCallback'
      BY <1>1, <2>1 DEF BadCommand, Kill, NoCallback, NeedsParam
    <2> QED
      BY <2>1, <2>2, <2>3 DEF Answered
  <1>2. CASE StatusEnd
    <2>1. /\ at' = "done" /\ at = "slots" /\ request' = request
          /\ j' = EndObject(EndObject(EndArray(j)))
      BY <1>2 DEF StatusEnd, Done
    <2>2. PICK b \in BOOLEAN : j = InSlots(b)
      BY <2>1 DEF OuterWriter
    <2>3. j' = Ended("none")
      BY <2>1, <2>2, SlotsEnd, EndOf DEF Ended
    <2>4. NoCallback'
      BY <2>1 DEF Asked, NoCallback, NeedsParam
    <2> QED
      BY <2>3, <2>4 DEF Answered
  <1>3. CASE CheckFails \/ NoConnection \/ HeloFails
    <2>1. at = "check" /\ Refuse
      BY <1>3 DEF CheckFails, NoConnection, HeloFails
    <2>2. PICK n \in Nat : n = IF request.sql THEN 2 ELSE 1
      OBVIOUS
    <2>3. /\ at' = "done" /\ request' = request /\ failed' = TRUE
          /\ j' = EndCallback(AppendLog(Restart(j), n))
      BY <2>1, <2>2 DEF Refuse, Done
    <2>4. j' = EndCallback(AppendLog(Object(TRUE, ErrorCallback), n))
      BY <2>1, <2>3, Restarts DEF OuterWriter
    <2>5. j' = Ended(ErrorCallback)
      <3>1. PICK c : c = ErrorCallback
        OBVIOUS
      <3>2. /\ c \in Callbacks \cup {"none"}
            /\ c # "none" => request.callback \/ request.onerror
            /\ c = "none" => ~ request.callback /\ ~ request.onerror
        BY <3>1, CallbackKinds
      <3>3. j' = EndCallback(AppendLog(Object(TRUE, c), n))
        BY <2>4, <3>1
      <3>4. j' = Ended(c)
        BY <2>2, <3>2, <3>3, Finishes
      <3> QED
        BY <3>1, <3>4
    <2>6. ErrorCallback' = ErrorCallback /\ ~ NoCallback'
      BY <2>1, <2>3 DEF ErrorCallback, DataCallback, Asked, NoCallback, NeedsParam
    <2> QED
      BY <2>3, <2>5, <2>6 DEF Answered
  <1>4. CASE Log
    <2>1. PICK n \in 0 .. 2 : /\ at = "log" /\ at' = "done" /\ request' = request
                             /\ failed' = failed /\ j' = EndCallback(AppendLog(j, n))
      BY <1>4 DEF Log, Done
    <2>2. n \in Nat
      OBVIOUS
    <2>3. /\ ErrorCallback' = ErrorCallback /\ DataCallback' = DataCallback
          /\ ~ NoCallback' /\ (Unopened' <=> Unopened)
      BY <2>1 DEF ErrorCallback, DataCallback, Asked, NoCallback, NeedsParam, Unopened
    <2>4. CASE failed
      <3>1. j' = EndCallback(AppendLog(Object(TRUE, ErrorCallback), n))
        BY <2>1, <2>4 DEF OuterWriter
      <3>2. j' = Ended(ErrorCallback)
        <4>1. PICK c : c = ErrorCallback
          OBVIOUS
        <4>2. /\ c \in Callbacks \cup {"none"}
              /\ c # "none" => request.callback \/ request.onerror
              /\ c = "none" => ~ request.callback /\ ~ request.onerror
          BY <4>1, CallbackKinds
        <4>3. j' = EndCallback(AppendLog(Object(TRUE, c), n))
          BY <3>1, <4>1
        <4>4. j' = Ended(c)
          BY <2>2, <4>2, <4>3, Finishes
        <4> QED
          BY <4>1, <4>4
      <3> QED
        BY <2>1, <2>3, <2>4, <3>2 DEF Answered
    <2>5. CASE ~ failed /\ j = Object(TRUE, DataCallback)
      <3>1. j' = EndCallback(AppendLog(Object(TRUE, DataCallback), n))
        BY <2>1, <2>5
      <3>3. CASE DataCallback = "none" /\ request.onerror
        <4>1. Ruined(j')
          BY <2>2, <3>1, <3>3, CallbackKinds, Finishes
        <4>2. Unopened
          BY <2>5, <3>3, CallbackKinds DEF Unopened
        <4> QED
          BY <2>1, <2>3, <2>5, <4>1, <4>2 DEF Answered, Ruined
      <3>4. CASE ~ (DataCallback = "none" /\ request.onerror)
        <4>1. j' = Ended(DataCallback)
          BY <2>2, <3>1, <3>4, CallbackKinds, Finishes
        <4> QED
          BY <2>1, <2>3, <2>5, <4>1 DEF Answered
      <3> QED
        BY <3>3, <3>4
    <2>6. CASE ~ failed /\ Strayed(j)
      <3>1. Strayed(j')
        BY <2>1, <2>2, <2>6, StrayedFinish
      <3> QED
        BY <2>1, <2>3, <2>6, <3>1 DEF Answered
    <2> QED
      BY <2>1, <2>4, <2>5, <2>6 DEF OuterWriter
  <1>5. CASE ~ (BadCommand \/ Kill \/ StatusEnd \/ CheckFails \/ NoConnection \/ HeloFails \/ Log)
    <2>1. at' # "done"
      BY <1>5 DEF Next, Catalog, Status, StatusSlot, Query, RunQuery, Error, NoInformation,
                  ExecQuery, HasResults, Column, FieldsEnd, FetchRow, Cell, RowEnd, ResultEnd,
                  NoMoreResults
    <2> QED
      BY <2>1 DEF Answered
  <1> QED
    BY <1>1, <1>2, <1>3, <1>4, <1>5

LEMMA ResultStep ==
    ASSUME ResponseAssumption, ResponseInv, Next
    PROVE  Result'
  <1> USE DEF ResponseInv, Result
  <1>1. CASE HasResults
    <2>1. PICK n \in 0 .. MaxCols : cols' \in [1 .. n -> ResultColumns]
      BY <1>1 DEF HasResults, ResultColumns
    <2>2. n \in Nat
      BY DEF ResponseAssumption
    <2>3. cols' \in Seq(ResultColumns)
      BY <2>1, <2>2, SeqDef
    <2>4. col' = 0 /\ results' = results + 1 /\ at' = "fields"
      BY <1>1 DEF HasResults
    <2>5. col' \in 0 .. Len(cols')
      BY <2>3, <2>4
    <2> QED
      BY <2>3, <2>4, <2>5
  <1>2. CASE Column \/ Cell
    <2>1. /\ cols' = cols /\ results' = results /\ at' = at /\ col' = col + 1 /\ col < Len(cols)
      BY <1>2 DEF Column, Cell
    <2>2. Len(cols) \in Nat
      OBVIOUS
    <2> QED
      BY <2>1, <2>2
  <1>3. CASE FetchRow
    <2>1. cols' = cols /\ results' = results /\ at = "rows" /\ col' = 0
      BY <1>3 DEF FetchRow
    <2>2. Len(cols) \in Nat
      OBVIOUS
    <2> QED
      BY <2>1, <2>2
  <1>4. CASE StatusSlot
    BY <1>4 DEF StatusSlot
  <1>5. CASE FieldsEnd \/ RowEnd \/ ResultEnd \/ NoMoreResults
    BY <1>5 DEF FieldsEnd, RowEnd, ResultEnd, NoMoreResults, answer
  <1>6. CASE BadCommand \/ Kill \/ StatusEnd \/ CheckFails \/ NoConnection \/ HeloFails \/ Log
    BY <1>6 DEF BadCommand, Kill, StatusEnd, CheckFails, NoConnection, HeloFails, Log, Refuse, Done,
                answer
  <1>7. CASE Catalog \/ Status \/ Query \/ RunQuery \/ Error \/ NoInformation \/ ExecQuery
    BY <1>7 DEF Catalog, Status, Query, RunQuery, Error, NoInformation, ExecQuery, answer
  <1> QED
    BY <1>1, <1>2, <1>3, <1>4, <1>5, <1>6, <1>7 DEF Next

LEMMA DataStep ==
    ASSUME ResponseAssumption, ResponseInv, Next
    PROVE  DataWriter'
  <1> USE DEF ResponseInv
  <1>1. CASE ExecQuery
    <2>1. at' = "results" /\ d' = InData(FALSE)
      BY <1>1, DataOpens DEF ExecQuery
    <2> QED
      BY <2>1 DEF DataWriter
  <1>2. CASE HasResults
    <2>1. at = "results" /\ at' = "fields" /\ d' = KeyedArray(NewObject(d))
      BY <1>2 DEF HasResults
    <2>2. Strayed(d) => Strayed(d')
      BY <2>1, StrayedStays
    <2>3. \A b \in BOOLEAN : d = InData(b) => d' = InList(FALSE)
      BY <2>1, ResultOpens
    <2> QED
      BY <2>1, <2>2, <2>3 DEF DataWriter
  <1>3. CASE Column
    <2>1. PICK n \in {2, 5} : d' = EndObject(AddMembers(NewObject(d), n))
      BY <1>3 DEF Column
    <2>2. at = "fields" /\ at' = "fields" /\ n \in Nat
      BY <1>3 DEF Column
    <2>3. Strayed(d) => Strayed(d')
      BY <2>1, <2>2, StrayedStays, StrayedMembers
    <2>4. ASSUME NEW b \in BOOLEAN, d = InList(b) PROVE d' = InList(TRUE)
      <3>1. NewObject(d) = InItem(FALSE)
        BY <2>4, ItemOpens
      <3>2. \A f \in BOOLEAN : \A m \in Nat : \E e \in BOOLEAN : AddMembers(InItem(f), m) = InItem(e)
        BY ItemGrows
      <3>3. PICK e \in BOOLEAN : AddMembers(InItem(FALSE), n) = InItem(e)
        BY <2>2, <3>2
      <3> QED
        BY <2>1, <3>1, <3>3, ItemEnds
    <2> QED
      BY <2>2, <2>3, <2>4 DEF DataWriter
  <1>4. CASE FieldsEnd
    <2>1. /\ at = "fields" /\ at' = "rows" /\ request' = request
          /\ d' = IF request.csv THEN AddJson(AddKey(EndArray(d)), <<"quote">>)
                  ELSE KeyedArray(EndArray(d))
      BY <1>4 DEF FieldsEnd
    <2>2. Strayed(d) => Strayed(d')
      <3>1. Len(<<"quote">>) \in Nat
        OBVIOUS
      <3> QED
        BY <2>1, <3>1, StrayedStays, StrayedJson
    <2>3. \A b \in BOOLEAN : d = InList(b) => EndArray(d) = InResult
      BY ListEnds
    <2>4. ASSUME NEW b \in BOOLEAN, d = InList(b)
          PROVE  IF request.csv THEN d' = InCsv ELSE d' = InList(FALSE)
      BY <2>1, <2>3, <2>4, CsvOpens, RowsOpen
    <2> QED
      BY <2>1, <2>2, <2>4 DEF DataWriter
  <1>5. CASE FetchRow
    <2>1. /\ at = "rows" /\ at' = "row" /\ request' = request
          /\ d' = IF request.csv THEN d ELSE NewObject(d)
      BY <1>5 DEF FetchRow
    <2>2. Strayed(d) => Strayed(d')
      BY <2>1, StrayedStays
    <2>3. \A b \in BOOLEAN : ~ request.csv /\ d = InList(b) => d' = InItem(FALSE)
      BY <2>1, ItemOpens
    <2> QED
      BY <2>1, <2>2, <2>3 DEF DataWriter
  <1>6. CASE Cell
    <2>1. at = "row" /\ at' = "row" /\ request' = request
      BY <1>6 DEF Cell
    <2>2. CASE request.csv
      <3>1. PICK v \in CsvTexts \cup {"null"} :
               d' = AddJson(d, CsvValue(v) \o IF col + 1 # Len(cols) THEN <<",">> ELSE <<>>)
        BY <1>6, <2>2 DEF Cell
      <3>2. PICK more \in BOOLEAN : more = (col + 1 # Len(cols))
        OBVIOUS
      <3>3. PICK text : text = CsvValue(v) \o (IF more THEN <<",">> ELSE <<>>)
        OBVIOUS
      <3>4. d' = AddJson(d, text)
        BY <3>1, <3>2, <3>3
      <3>5. v \in {"null", "plain", "comma", "raw"}
        BY DEF ResponseAssumption
      <3>6. Strayed(d) => Strayed(d')
        <4>1. Len(text) \in Nat
          BY <3>3, <3>5, CsvLength
        <4> QED
          BY <3>4, <4>1, StrayedJson
      <3>7. d = InCsv => d' = InCsv \/ Strayed(d')
        <4>1. CASE v = "raw"
          BY <3>3, <3>4, <4>1, CsvRaw
        <4>2. CASE v # "raw"
          <5>1. text \in Seq(InString)
            BY <3>3, <3>5, <4>2, CsvTokens
          <5> QED
            BY <3>4, <5>1, CsvGrows
        <4> QED
          BY <4>1, <4>2
      <3> QED
        BY <2>1, <2>2, <3>6, <3>7 DEF DataWriter
    <2>3. CASE ~ request.csv
      <3>1. PICK k, v : /\ k \in {"key", "raw"} /\ v \in {"value", "raw"}
                        /\ d' = AddMemberAs(d, k, v)
        BY <1>6, <2>3 DEF Cell, AddCell, KeyToken, ValueTokens
      <3>2. Strayed(d) => Strayed(d')
        BY <3>1, StrayedMember
      <3>3. \A b \in BOOLEAN : d = InItem(b) => d' = InItem(TRUE) \/ Strayed(d')
        BY <3>1, CellGrows
      <3> QED
        BY <2>1, <2>3, <3>2, <3>3 DEF DataWriter
    <2> QED
      BY <2>2, <2>3
  <1>7. CASE RowEnd
    <2>1. /\ at = "row" /\ at' = "rows" /\ request' = request
          /\ d' = IF request.csv THEN AddJson(d, <<"escape">>) ELSE EndObject(d)
      BY <1>7 DEF RowEnd
    <2>2. AddJson(InCsv, <<"escape">>) = InCsv
      <3>1. "escape" \in InString
        BY DEF InString
      <3>2. <<"escape">> \in Seq(InString)
        BY <3>1, Tuples
      <3> QED
        BY <3>2, CsvGrows
    <2>3. Strayed(d) => Strayed(d')
      <3>1. Len(<<"escape">>) \in Nat
        OBVIOUS
      <3> QED
        BY <2>1, <3>1, StrayedStays, StrayedJson
    <2>4. \A b \in BOOLEAN : ~ request.csv /\ d = InItem(b) => d' = InList(TRUE)
      BY <2>1, ItemEnds
    <2> QED
      BY <2>1, <2>2, <2>3, <2>4 DEF DataWriter
  <1>8. CASE ResultEnd
    <2>1. PICK w : /\ w = IF request.csv THEN AddJson(d, <<"quote", ",">>) ELSE EndArray(d)
                   /\ d' = EndObject(AddMember(w))
      BY <1>8 DEF ResultEnd
    <2>2. at = "rows" /\ at' = "results"
      BY <1>8 DEF ResultEnd
    <2>3. Strayed(d) => Strayed(d')
      <3>1. Len(<<"quote", ",">>) \in Nat
        OBVIOUS
      <3>2. Strayed(d) => Strayed(w)
        BY <2>1, <3>1, StrayedStays, StrayedJson
      <3> QED
        BY <2>1, <3>2, StrayedStays
    <2>4. AddMember(InResult) = InResult
      <3>1. \A t \in BOOLEAN : AddMember(Obj(t, Open2, Stack1, "none")) = InResult
        BY Levels, MemberInObject DEF InResult
      <3> QED
        BY <3>1 DEF InResult
    <2>5. request.csv /\ d = InCsv => d' = InData(TRUE)
      BY <2>1, <2>4, CsvEnds, ResultEnds
    <2>6. ASSUME ~ request.csv, NEW b \in BOOLEAN, d = InList(b)
          PROVE  d' = InData(TRUE)
      BY <2>1, <2>6, ListEnds, ResultEnds
    <2> QED
      BY <2>2, <2>3, <2>5, <2>6 DEF DataWriter
  <1>9. CASE ~ (ExecQuery \/ HasResults \/ Column \/ FieldsEnd \/ FetchRow \/ Cell \/ RowEnd \/ ResultEnd)
    <2>1. at' \notin Exec
      BY <1>9 DEF Next, BadCommand, Kill, Catalog, Status, StatusSlot, StatusEnd, Query, RunQuery,
                  CheckFails, NoConnection, HeloFails, Error, NoInformation, Log, NoMoreResults,
                  Refuse, Done, Exec
    <2> QED
      BY <2>1 DEF DataWriter, Exec
  <1> QED
    BY <1>1, <1>2, <1>3, <1>4, <1>5, <1>6, <1>7, <1>8, <1>9

\* A step that changes nothing.
LEMMA ResponseStutter ==
    ASSUME ResponseInv, UNCHANGED vars
    PROVE  ResponseInv'
  <1>1. /\ request' = request /\ at' = at /\ j' = j /\ d' = d /\ failed' = failed
        /\ cols' = cols /\ col' = col /\ results' = results
    BY DEF vars, answer
  <1>2. /\ DataCallback' = DataCallback /\ ErrorCallback' = ErrorCallback
        /\ (NoCallback' <=> NoCallback) /\ (Unopened' <=> Unopened)
    BY <1>1 DEF DataCallback, ErrorCallback, NoCallback, NeedsParam, Unopened
  <1>3. Asked'
    BY AskedStep DEF ResponseInv
  <1>4. OuterWriter'
    BY <1>1, <1>2 DEF ResponseInv, OuterWriter
  <1>5. Answered'
    BY <1>1, <1>2 DEF ResponseInv, Answered, Ruined
  <1>6. DataWriter'
    BY <1>1, <1>2 DEF ResponseInv, DataWriter
  <1>7. Result'
    BY <1>1 DEF ResponseInv, Result
  <1> QED
    BY <1>3, <1>4, <1>5, <1>6, <1>7 DEF ResponseInv

LEMMA ResponseInit == Init => ResponseInv
  <1> SUFFICES ASSUME Init PROVE ResponseInv
    OBVIOUS
  <1> USE DEF Init
  <1>1. Asked
    BY DEF Asked, Places, Exec
  <1>2. OuterWriter /\ Answered /\ DataWriter
    BY DEF OuterWriter, Answered, DataWriter, Exec
  <1>3. Result
    BY DEF Result
  <1> QED
    BY <1>1, <1>2, <1>3 DEF ResponseInv

LEMMA ResponseStep ==
    ASSUME ResponseAssumption, ResponseInv, [Next]_vars
    PROVE  ResponseInv'
  <1>1. CASE Next
    BY <1>1, AskedStep, OuterStep, AnsweredStep, DataStep, ResultStep DEF ResponseInv
  <1>2. CASE UNCHANGED vars
    BY <1>2, ResponseStutter
  <1> QED
    BY <1>1, <1>2

\* The invariant holds in every instance.
LEMMA ResponseInvHolds ==
    ASSUME ResponseAssumption
    PROVE  Spec => []ResponseInv
  <1>1. ResponseInv /\ [Next]_vars => ResponseInv'
    BY ResponseStep
  <1> QED
    BY <1>1, ResponseInit, PTL DEF Spec

LEMMA EndedText ==
    ASSUME NEW c
    PROVE  Ended(c).text.call = c /\ Ended(c).text.next = "end"
  BY Fields DEF Ended, End

LEMMA LostText == Lost.call = "none" /\ Lost.next = "lost" /\ Bad.call = "none"
  BY DEF Lost, Bad

LEMMA ErrorsGoToHandler == ResponseInv => ErrorToHandler
  <1> SUFFICES ASSUME ResponseInv, at = "done", ~ NoCallback
               PROVE  IF failed THEN j.text.call = ErrorCallback ELSE j.text.call # "js_error"
    BY DEF ErrorToHandler
  <1>1. CASE failed
    BY <1>1, EndedText DEF ResponseInv, Answered
  <1>2. CASE ~ failed
    <2>1. j.text.call \in {DataCallback, "none"}
      BY <1>2, EndedText, StrayedText, LostText DEF ResponseInv, Answered, Ruined
    <2>2. DataCallback # "js_error"
      BY DEF DataCallback
    <2> QED
      BY <1>2, <2>1, <2>2
  <1> QED
    BY <1>1, <1>2

\* Whatever its query returns and however it fails, a request for data has its
\* error told in the error handler, or else the callback, that it named
\* (db.c:496), and its data never in the error handler.
THEOREM ErrorToHandlerHolds ==
    ASSUME ResponseAssumption
    PROVE  Spec => []ErrorToHandler
  BY ErrorsGoToHandler, ResponseInvHolds, PTL

LEMMA ResponsesWellFormed == ResponseInv => ResponseWellFormed
  <1> SUFFICES ASSUME ResponseInv, at = "done", ~ Unopened, j.text.next # "lost"
               PROVE  /\ j.text.next = "end"
                      /\ ~ failed /\ ~ NoCallback => j.text.call = DataCallback
    BY DEF ResponseWellFormed
  <1>1. ~ Strayed(j)
    BY StrayedText, LostText
  <1> QED
    BY <1>1, EndedText DEF ResponseInv, Answered

\* Every response is one JSON value, and data are in the callback that the request
\* named (db.c:526 and 647), for any numbers of results, rows and columns: unless
\* raw data got lost in its text, or it is one of the Unopened.
THEOREM ResponseWellFormedHolds ==
    ASSUME ResponseAssumption
    PROVE  Spec => []ResponseWellFormed
  BY ResponsesWellFormed, ResponseInvHolds, PTL

-----------------------------------------------------------------------------
(* The keys of the columns.  m[k] is the highest number given to one of the  *)
(* first k columns; that is the same for "fields" and for every row.         *)

KeyOf(m, name) == IF name = "" THEN ToString(m + 1) ELSE name
MaxOf(m, name) ==
    IF name = "" THEN m + 1 ELSE IF Number(name) > m THEN Number(name) ELSE m
Keys == {ToString(n) : n \in Nat} \cup ColumnNames

NumbersOf(m) ==
    /\ m[0] = 0
    /\ \A k \in 1 .. Len(fields) : /\ m[k] = MaxOf(m[k - 1], cols[k].name)
                                  /\ fields[k] = KeyOf(m[k - 1], cols[k].name)

Sizes ==
    /\ maxcolname \in Nat
    /\ fields \in Seq(Keys) /\ Len(fields) <= Len(cols)
    /\ row \in Seq(Keys) /\ Len(row) <= Len(fields)
    /\ at = "fields" => Len(fields) = col /\ row = <<>>
    /\ at \in {"rows", "row"} => Len(fields) = Len(cols)
    /\ at = "row" => Len(row) = col

Numbering(m) ==
    /\ NumbersOf(m)
    /\ at \in {"fields", "row"} => maxcolname = m[col]
    /\ \A k \in 1 .. Len(row) : row[k] = fields[k]
Numbered == at \in {"fields", "rows", "row"} => \E m : Numbering(m)

KeysInv == Result /\ Sizes /\ Numbered

LEMMA NextKey ==
    ASSUME NEW name \in ColumnNames, maxcolname \in Nat
    PROVE  /\ ColumnKey(name) = KeyOf(maxcolname, name) /\ ColumnKey(name) \in Keys
           /\ NextMax(name) = MaxOf(maxcolname, name) /\ NextMax(name) \in Nat
  <1>1. ColumnKey(name) = KeyOf(maxcolname, name)
    BY DEF ColumnKey, KeyOf
  <1>2. ColumnKey(name) \in Keys
    <2>1. PICK n \in Nat : n = maxcolname + 1
      OBVIOUS
    <2>2. ToString(n) \in Keys /\ ColumnNames \subseteq Keys
      BY DEF Keys
    <2> HIDE DEF Keys
    <2>3. ColumnKey(name) = ToString(n) \/ ColumnKey(name) = name
      BY <2>1 DEF ColumnKey
    <2> QED
      BY <2>2, <2>3
  <1>3. NextMax(name) = MaxOf(maxcolname, name)
    BY DEF NextMax, MaxOf
  <1>4. NextMax(name) \in Nat
    <2>1. PICK k \in Nat : k = Number(name)
      BY DEF Number
    <2>2. NextMax(name) \in {maxcolname + 1, k, maxcolname}
      BY <2>1 DEF NextMax
    <2> QED
      BY <2>2
  <1> QED
    BY <1>1, <1>2, <1>3, <1>4

LEMMA NameOfColumn ==
    ASSUME Result, col < Len(cols)
    PROVE  col \in Nat /\ cols[col + 1].name \in ColumnNames
  <1>1. col \in Nat /\ cols[col + 1] \in ResultColumns
    BY DEF Result
  <1>2. \A k \in ResultColumns : k.name \in ColumnNames
    BY DEF ResultColumns
  <1> QED
    BY <1>1, <1>2

LEMMA SizesStep ==
    ASSUME KeysInv, Next, Result'
    PROVE  Sizes'
  <1> USE DEF KeysInv
  <1>0. Len(cols) \in Nat /\ Len(fields) \in Nat /\ Len(row) \in Nat /\ col \in Nat
    BY DEF Result, Sizes
  <1>1. CASE HasResults
    <2>1. at' = "fields" /\ col' = 0 /\ maxcolname' = 0 /\ fields' = <<>> /\ row' = <<>>
      BY <1>1 DEF HasResults
    <2>2. <<>> \in Seq(Keys) /\ Len(<<>>) = 0
      OBVIOUS
    <2>3. Len(cols') \in Nat
      BY DEF Result
    <2> QED
      BY <2>1, <2>2, <2>3 DEF Sizes
  <1>2. CASE Column
    <2>1. PICK name : name = cols[col + 1].name
      OBVIOUS
    <2>2. /\ at = "fields" /\ at' = "fields" /\ col < Len(cols) /\ col' = col + 1 /\ cols' = cols /\ row' = row
          /\ fields' = Append(fields, ColumnKey(name)) /\ maxcolname' = NextMax(name)
      BY <1>2, <2>1 DEF Column
    <2>3. name \in ColumnNames
      BY <2>1, <2>2, NameOfColumn
    <2>4. ColumnKey(name) \in Keys /\ NextMax(name) \in Nat
      BY <2>3, NextKey DEF Sizes
    <2>5. fields' \in Seq(Keys) /\ Len(fields') = Len(fields) + 1
      BY <2>2, <2>4, AppendProperties DEF Sizes
    <2>6. Len(fields) = col /\ row = <<>>
      BY <2>2 DEF Sizes
    <2> QED
      BY <1>0, <2>2, <2>4, <2>5, <2>6 DEF Sizes
  <1>3. CASE FieldsEnd
    <2>1. /\ at = "fields" /\ at' = "rows" /\ col = Len(cols) /\ cols' = cols /\ row' = row /\ fields' = fields
          /\ maxcolname' = maxcolname /\ col' = col
      BY <1>3 DEF FieldsEnd, answer
    <2> QED
      BY <2>1 DEF Sizes
  <1>4. CASE FetchRow
    <2>1. /\ at = "rows" /\ at' = "row" /\ col' = 0 /\ row' = <<>> /\ maxcolname' = 0 /\ cols' = cols
          /\ fields' = fields
      BY <1>4 DEF FetchRow
    <2>2. <<>> \in Seq(Keys) /\ Len(<<>>) = 0
      OBVIOUS
    <2> QED
      BY <1>0, <2>1, <2>2 DEF Sizes
  <1>5. CASE Cell
    <2>1. PICK name : name = cols[col + 1].name
      OBVIOUS
    <2>2. /\ at = "row" /\ at' = "row" /\ col < Len(cols) /\ col' = col + 1 /\ cols' = cols /\ fields' = fields
          /\ row' = Append(row, ColumnKey(name)) /\ maxcolname' = NextMax(name)
      BY <1>5, <2>1 DEF Cell
    <2>3. name \in ColumnNames
      BY <2>1, <2>2, NameOfColumn
    <2>4. ColumnKey(name) \in Keys /\ NextMax(name) \in Nat
      BY <2>3, NextKey DEF Sizes
    <2>5. row' \in Seq(Keys) /\ Len(row') = Len(row) + 1
      BY <2>2, <2>4, AppendProperties DEF Sizes
    <2>6. Len(row) = col /\ Len(fields) = Len(cols)
      BY <2>2 DEF Sizes
    <2> QED
      BY <1>0, <2>2, <2>4, <2>5, <2>6 DEF Sizes
  <1>6. CASE RowEnd
    <2>1. /\ at = "row" /\ at' = "rows" /\ cols' = cols /\ row' = row /\ fields' = fields
          /\ maxcolname' = maxcolname
      BY <1>6 DEF RowEnd, answer
    <2> QED
      BY <2>1 DEF Sizes
  <1>7. CASE ~ (HasResults \/ Column \/ FieldsEnd \/ FetchRow \/ Cell \/ RowEnd)
    <2>1. /\ at' \notin {"fields", "rows", "row"} /\ cols' = cols /\ fields' = fields /\ row' = row
          /\ maxcolname' = maxcolname
      BY <1>7 DEF Next, BadCommand, Kill, Catalog, Status, StatusSlot, StatusEnd, Query, RunQuery,
                  CheckFails, NoConnection, HeloFails, Error, NoInformation, Log, ExecQuery,
                  ResultEnd, NoMoreResults, Refuse, Done, answer
    <2> QED
      BY <2>1 DEF Sizes
  <1> QED
    BY <1>1, <1>2, <1>3, <1>4, <1>5, <1>6, <1>7

LEMMA NumberedStep ==
    ASSUME KeysInv, Next
    PROVE  Numbered'
  <1> USE DEF KeysInv
  <1>0. Len(cols) \in Nat /\ Len(fields) \in Nat /\ Len(row) \in Nat /\ col \in Nat
    BY DEF Result, Sizes
  <1>1. CASE HasResults
    <2>1. at' = "fields" /\ col' = 0 /\ maxcolname' = 0 /\ Len(fields') = 0 /\ Len(row') = 0
      BY <1>1 DEF HasResults
    <2>2. PICK m : m = [k \in {0} |-> 0]
      OBVIOUS
    <2>3. NumbersOf(m)'
      BY <2>1, <2>2 DEF NumbersOf
    <2> QED
      BY <2>1, <2>2, <2>3 DEF Numbered, Numbering
  <1>2. CASE Column
    <2>1. PICK name : name = cols[col + 1].name
      OBVIOUS
    <2>2. /\ at = "fields" /\ at' = "fields" /\ col < Len(cols) /\ col' = col + 1 /\ cols' = cols /\ row' = row
          /\ fields' = Append(fields, ColumnKey(name)) /\ maxcolname' = NextMax(name)
      BY <1>2, <2>1 DEF Column
    <2>3. name \in ColumnNames
      BY <2>1, <2>2, NameOfColumn
    <2>4. ColumnKey(name) = KeyOf(maxcolname, name) /\ NextMax(name) = MaxOf(maxcolname, name)
          /\ ColumnKey(name) \in Keys
      BY <2>3, NextKey DEF Sizes
    <2>5. Len(fields) = col /\ Len(row) = 0
      BY <2>2 DEF Sizes
    <2>6. PICK m : NumbersOf(m) /\ maxcolname = m[col]
      <3>1. PICK m : Numbering(m)
        BY <2>2 DEF Numbered
      <3> QED
        BY <2>2, <3>1 DEF Numbering
    <2>7. PICK n : n = [k \in 0 .. col + 1 |-> IF k = col + 1 THEN NextMax(name) ELSE m[k]]
      OBVIOUS
    <2>8. /\ Len(fields') = col + 1 /\ fields'[col + 1] = ColumnKey(name)
          /\ \A k \in 1 .. col : fields'[k] = fields[k]
      BY <2>2, <2>4, <2>5, AppendProperties DEF Sizes
    <2>9. n[0] = m[0] /\ n[col + 1] = NextMax(name) /\ \A k \in 1 .. col : n[k] = m[k] /\ n[k - 1] = m[k - 1]
      BY <1>0, <2>7
    <2>10. n[col] = m[col]
      BY <1>0, <2>7
    <2>11. ASSUME NEW k \in 1 .. col + 1
           PROVE  n[k] = MaxOf(n[k - 1], cols[k].name) /\ fields'[k] = KeyOf(n[k - 1], cols[k].name)
      <3>1. CASE k = col + 1
        <4>1. n[k - 1] = maxcolname /\ cols[k].name = name
          BY <1>0, <2>1, <2>6, <2>10, <3>1
        <4> QED
          BY <2>4, <2>8, <2>9, <3>1, <4>1
      <3>2. CASE k # col + 1
        <4>1. k \in 1 .. col /\ k \in 1 .. Len(fields)
          BY <1>0, <2>5, <3>2
        <4>2. m[k] = MaxOf(m[k - 1], cols[k].name) /\ fields[k] = KeyOf(m[k - 1], cols[k].name)
          BY <2>6, <4>1 DEF NumbersOf
        <4> QED
          BY <2>8, <2>9, <4>1, <4>2
      <3> QED
        BY <3>1, <3>2
    <2>12. NumbersOf(n)'
      BY <2>2, <2>6, <2>8, <2>9, <2>11 DEF NumbersOf
    <2>13. maxcolname' = n[col']
      BY <2>2, <2>9
    <2> QED
      BY <2>2, <2>5, <2>12, <2>13 DEF Numbered, Numbering
  <1>3. CASE FieldsEnd \/ RowEnd
    <2>1. /\ at \in {"fields", "row"} /\ at' = "rows" /\ cols' = cols /\ row' = row /\ fields' = fields
      BY <1>3 DEF FieldsEnd, RowEnd, answer
    <2> QED
      BY <2>1 DEF Numbered, Numbering, NumbersOf
  <1>4. CASE FetchRow
    <2>1. /\ at = "rows" /\ at' = "row" /\ col' = 0 /\ Len(row') = 0 /\ maxcolname' = 0 /\ cols' = cols
          /\ fields' = fields
      BY <1>4 DEF FetchRow
    <2>2. PICK m : NumbersOf(m)
      <3>1. PICK m : Numbering(m)
        BY <2>1 DEF Numbered
      <3> QED
        BY <3>1 DEF Numbering
    <2>3. NumbersOf(m)' /\ m[0] = 0
      BY <2>1, <2>2 DEF NumbersOf
    <2> QED
      BY <2>1, <2>3 DEF Numbered, Numbering
  <1>5. CASE Cell
    <2>1. PICK name : name = cols[col + 1].name
      OBVIOUS
    <2>2. /\ at = "row" /\ at' = "row" /\ col < Len(cols) /\ col' = col + 1 /\ cols' = cols /\ fields' = fields
          /\ row' = Append(row, ColumnKey(name)) /\ maxcolname' = NextMax(name)
      BY <1>5, <2>1 DEF Cell
    <2>3. name \in ColumnNames
      BY <2>1, <2>2, NameOfColumn
    <2>4. ColumnKey(name) = KeyOf(maxcolname, name) /\ NextMax(name) = MaxOf(maxcolname, name)
          /\ ColumnKey(name) \in Keys
      BY <2>3, NextKey DEF Sizes
    <2>5. Len(row) = col /\ Len(fields) = Len(cols)
      BY <2>2 DEF Sizes
    <2>6. PICK m : /\ NumbersOf(m) /\ maxcolname = m[col]
                   /\ \A k \in 1 .. Len(row) : row[k] = fields[k]
      <3>1. PICK m : Numbering(m)
        BY <2>2 DEF Numbered
      <3> QED
        BY <2>2, <3>1 DEF Numbering
    <2>7. /\ Len(row') = col + 1 /\ row'[col + 1] = ColumnKey(name)
          /\ \A k \in 1 .. col : row'[k] = row[k]
      BY <2>2, <2>4, <2>5, AppendProperties DEF Sizes
    <2>8. col + 1 \in 1 .. Len(fields) /\ (col + 1) - 1 = col
      BY <1>0, <2>2, <2>5
    <2>9. m[col + 1] = MaxOf(m[col], name) /\ fields[col + 1] = KeyOf(m[col], name)
      BY <2>1, <2>6, <2>8 DEF NumbersOf
    <2>10. \A k \in 1 .. Len(row') : row'[k] = fields[k]
      <3> SUFFICES ASSUME NEW k \in 1 .. col + 1 PROVE row'[k] = fields[k]
        BY <2>7
      <3>1. k = col + 1 \/ k \in 1 .. col
        BY <1>0
      <3> QED
        BY <2>4, <2>5, <2>6, <2>7, <2>9, <3>1
    <2>11. NumbersOf(m)' /\ maxcolname' = m[col']
      BY <2>2, <2>4, <2>6, <2>9 DEF NumbersOf
    <2> QED
      BY <2>2, <2>10, <2>11 DEF Numbered, Numbering
  <1>6. CASE ~ (HasResults \/ Column \/ FieldsEnd \/ FetchRow \/ Cell \/ RowEnd)
    <2>1. at' \notin {"fields", "rows", "row"}
      BY <1>6 DEF Next, BadCommand, Kill, Catalog, Status, StatusSlot, StatusEnd, Query, RunQuery,
                  CheckFails, NoConnection, HeloFails, Error, NoInformation, Log, ExecQuery,
                  ResultEnd, NoMoreResults, Refuse, Done
    <2> QED
      BY <2>1 DEF Numbered, Numbering
  <1> QED
    BY <1>1, <1>2, <1>3, <1>4, <1>5, <1>6

LEMMA KeysStutter ==
    ASSUME KeysInv, UNCHANGED vars
    PROVE  KeysInv'
  <1>1. /\ at' = at /\ cols' = cols /\ col' = col /\ results' = results /\ maxcolname' = maxcolname
        /\ fields' = fields /\ row' = row
    BY DEF vars, answer
  <1>2. Result' /\ Sizes'
    BY <1>1 DEF KeysInv, Result, Sizes
  <1>3. Numbered'
    BY <1>1 DEF KeysInv, Numbered, Numbering, NumbersOf
  <1> QED
    BY <1>2, <1>3 DEF KeysInv

LEMMA KeysInit == Init => KeysInv
  <1> SUFFICES ASSUME Init PROVE KeysInv
    OBVIOUS
  <1>1. Result
    BY ResponseInit DEF ResponseInv
  <1>2. Sizes
    <2>1. <<>> \in Seq(Keys) /\ Len(<<>>) = 0
      OBVIOUS
    <2> QED
      BY <2>1 DEF Init, Sizes
  <1>3. Numbered
    BY DEF Init, Numbered
  <1> QED
    BY <1>1, <1>2, <1>3 DEF KeysInv

LEMMA KeysStep ==
    ASSUME ResponseAssumption, ResponseInv, KeysInv, [Next]_vars
    PROVE  KeysInv'
  <1>1. CASE Next
    BY <1>1, ResultStep, SizesStep, NumberedStep DEF KeysInv
  <1>2. CASE UNCHANGED vars
    BY <1>2, KeysStutter
  <1> QED
    BY <1>1, <1>2

LEMMA KeysInvHolds ==
    ASSUME ResponseAssumption
    PROVE  Spec => []KeysInv
  <1>1. ResponseInv /\ KeysInv /\ [Next]_vars => KeysInv'
    BY KeysStep
  <1> QED
    BY <1>1, KeysInit, ResponseInvHolds, PTL DEF Spec

LEMMA RowKeysMatch == KeysInv => RowKeysMatchFields
  <1> SUFFICES ASSUME KeysInv, at \in {"row", "rows"} PROVE row = SubSeq(fields, 1, Len(row))
    BY DEF RowKeysMatchFields
  <1>1. PICK m : Numbering(m)
    BY DEF KeysInv, Numbered
  <1>2. \A k \in 1 .. Len(row) : row[k] = fields[k]
    BY <1>1 DEF Numbering
  <1>3. row \in Seq(Keys) /\ fields \in Seq(Keys) /\ Len(row) <= Len(fields)
    BY DEF KeysInv, Sizes
  <1>4. PICK s : s = SubSeq(fields, 1, Len(row))
    OBVIOUS
  <1>5. s \in Seq(Keys) /\ Len(s) = Len(row) /\ \A k \in 1 .. Len(s) : s[k] = fields[k]
    BY <1>3, <1>4
  <1>6. row = s
    BY <1>2, <1>3, <1>5, SeqEqual
  <1> QED
    BY <1>4, <1>6

\* The keys of every row are those of "fields", as far as the row has come: the
\* numbers given to columns without a name start anew (db.c:718).
THEOREM RowKeysMatchFieldsHolds ==
    ASSUME ResponseAssumption
    PROVE  Spec => []RowKeysMatchFields
  BY RowKeysMatch, KeysInvHolds, PTL

-----------------------------------------------------------------------------
(* How deep the writers are: the number of objects and arrays that are open  *)
(* is given by the place, whatever was read of the text.                     *)

Depth(w, n) == \E r : \E s \in Seq(BOOLEAN) : Shaped(w, r, s) /\ Len(s) = n

LEMMA SameLength ==
    ASSUME NEW s \in Seq(BOOLEAN)
    PROVE  /\ Len(Counted(s)) = Len(s)
           /\ Len(Opened(s)) = Len(s) + 1
           /\ Len(s) > 0 => Len(Outer(s)) = Len(s) - 1
  <1>1. ASSUME NEW b \in BOOLEAN, NEW u \in Seq(BOOLEAN) PROVE Len(<<b>> \o u) = Len(u) + 1
    OBVIOUS
  <1>2. Len(Counted(s)) = Len(s)
    <2>1. CASE s = <<>>
      BY <2>1 DEF Counted
    <2>2. CASE s # <<>>
      <3>1. Tail(s) \in Seq(BOOLEAN) /\ Len(Tail(s)) = Len(s) - 1 /\ Len(s) \in Nat
        BY <2>2
      <3>2. Len(<<TRUE>> \o Tail(s)) = Len(Tail(s)) + 1
        BY <1>1, <3>1
      <3> QED
        BY <2>2, <3>1, <3>2 DEF Counted
    <2> QED
      BY <2>1, <2>2
  <1>3. Len(Opened(s)) = Len(s) + 1
    BY <1>1, <1>2, CountedSeq DEF Opened
  <1>4. Len(s) > 0 => Len(Outer(s)) = Len(s) - 1
    BY DEF Outer
  <1> QED
    BY <1>2, <1>3, <1>4

LEMMA ShapedIs ==
    ASSUME NEW w, NEW n, NEW r, NEW s \in Seq(BOOLEAN), Len(s) = n, w = Idle(r, s) \/ w = Due(r, s)
    PROVE  Depth(w, n)
  BY DEF Depth, Shaped

LEMMA DepthNew == Depth(New, 0)
  <1>1. New = Idle(Begin, <<>>)
    BY DEF New, Idle, Writer
  <1>2. <<>> \in Seq(BOOLEAN) /\ Len(<<>>) = 0
    OBVIOUS
  <1> QED
    BY <1>1, <1>2, ShapedIs

LEMMA DepthJson ==
    ASSUME NEW w, NEW n, Depth(w, n), NEW t
    PROVE  Depth(AddJson(w, t), n)
  <1>1. PICK r : \E s \in Seq(BOOLEAN) : Shaped(w, r, s) /\ Len(s) = n
    BY DEF Depth
  <1>2. PICK s \in Seq(BOOLEAN) : Shaped(w, r, s) /\ Len(s) = n
    BY <1>1
  <1>3. AddJson(w, t) = Idle(ReadAll(r, t), s) \/ AddJson(w, t) = Due(ReadAll(r, t), s)
    BY <1>2, AddsJson DEF Shaped
  <1> QED
    BY <1>2, <1>3, ShapedIs

LEMMA DepthText ==
    ASSUME NEW w, NEW n, Depth(w, n), NEW text
    PROVE  Depth(AddText(w, text), n)
  <1>1. PICK r : \E s \in Seq(BOOLEAN) : Shaped(w, r, s) /\ Len(s) = n
    BY DEF Depth
  <1>2. PICK s \in Seq(BOOLEAN) : Shaped(w, r, s) /\ Len(s) = n
    BY <1>1
  <1>3. PICK u : AddText(w, text) = [w EXCEPT !.text = u]
    BY DEF AddText
  <1>4. ASSUME NEW z PROVE [Writer(r, s, z) EXCEPT !.text = u] = Writer(u, s, z)
    BY DEF Writer
  <1>5. AddText(w, text) = Idle(u, s) \/ AddText(w, text) = Due(u, s)
    BY <1>2, <1>3, <1>4, Zenon DEF Shaped, Idle, Due
  <1> QED
    BY <1>2, <1>5, ShapedIs

LEMMA DepthKeyAs ==
    ASSUME NEW w, NEW n, Depth(w, n), NEW k, NEW v
    PROVE  /\ Depth(AddKeyAs(w, k), n)
           /\ Depth(AddMemberAs(w, k, v), n)
  <1>1. PICK r : \E s \in Seq(BOOLEAN) : Shaped(w, r, s) /\ Len(s) = n
    BY DEF Depth
  <1>2. PICK s \in Seq(BOOLEAN) : Shaped(w, r, s) /\ Len(s) = n
    BY <1>1
  <1>3. PICK q : AddKeyAs(w, k) = Due(q, Counted(s))
    BY <1>2, AddsKeyAs DEF Shaped
  <1>4. AddMemberAs(w, k, v) = Idle(Read(q, v), Counted(s))
    BY <1>3, AddsMemberAs
  <1>5. Counted(s) \in Seq(BOOLEAN) /\ Len(Counted(s)) = n
    BY <1>2, CountedSeq, SameLength
  <1> QED
    BY <1>3, <1>4, <1>5, ShapedIs

LEMMA DepthKey ==
    ASSUME NEW w, NEW n, Depth(w, n)
    PROVE  /\ Depth(AddKey(w), n)
           /\ Depth(AddMember(w), n)
  BY DepthKeyAs DEF AddKey, AddMember

LEMMA DepthMembers ==
    ASSUME NEW w, NEW n, Depth(w, n), NEW k \in Nat
    PROVE  Depth(AddMembers(w, k), n)
  <1>1. PICK f : Adds(w, k, f) /\ AddMembers(w, k) = f[k]
    <2>1. PICK g : Adds(w, k, g)
      BY AddsExist
    <2> QED
      BY <2>1 DEF Adds, AddMembers
  <1> DEFINE T == {i \in 0 .. k : ~ Depth(f[i], n)}
  <1> SUFFICES ASSUME T # {} PROVE FALSE
    BY <1>1
  <1>2. PICK i \in T : \A m \in T : ~ (m < i)
    <2>1. T \subseteq Nat
      OBVIOUS
    <2> HIDE DEF T
    <2> QED
      BY <2>1, LeastNumber
  <1>3. f[0] = w
    BY <1>1 DEF Adds
  <1>4. i \in 0 .. k /\ i # 0
    BY <1>2, <1>3
  <1>5. f[i] = AddMember(f[i - 1])
    BY <1>1, <1>4 DEF Adds
  <1>6. i - 1 \in 0 .. k /\ i - 1 < i
    BY <1>4
  <1>7. Depth(f[i - 1], n)
    BY <1>2, <1>6
  <1> QED
    BY <1>2, <1>5, <1>7, DepthKey

LEMMA DepthOpen ==
    ASSUME NEW w, NEW n \in Nat, Depth(w, n), NEW t
    PROVE  Depth(Open(w, t), n + 1)
  <1>1. PICK r : \E s \in Seq(BOOLEAN) : Shaped(w, r, s) /\ Len(s) = n
    BY DEF Depth
  <1>2. PICK s \in Seq(BOOLEAN) : Shaped(w, r, s) /\ Len(s) = n
    BY <1>1
  <1>3. PICK q : Open(w, t) = Idle(q, Opened(s))
    BY <1>2, OpensIdle, OpensDue DEF Shaped
  <1>4. Opened(s) \in Seq(BOOLEAN) /\ Len(Opened(s)) = n + 1
    BY <1>2, CountedSeq, SameLength
  <1> QED
    BY <1>3, <1>4, ShapedIs

LEMMA DepthClose ==
    ASSUME NEW w, NEW n \in Nat, Depth(w, n + 1), NEW t
    PROVE  Depth(Close(w, t), n)
  <1>1. PICK r : \E s \in Seq(BOOLEAN) : Shaped(w, r, s) /\ Len(s) = n + 1
    BY DEF Depth
  <1>2. PICK s \in Seq(BOOLEAN) : Shaped(w, r, s) /\ Len(s) = n + 1
    BY <1>1
  <1>3. PICK q : AddJson(w, <<t>>) = Idle(q, s) \/ AddJson(w, <<t>>) = Due(q, s)
    BY <1>2, AddsJson DEF Shaped
  <1>4. ASSUME NEW z
        PROVE  [Writer(q, s, z) EXCEPT !.stack = IF @ = <<>> THEN @ ELSE Tail(@)]
                   = Writer(q, Outer(s), z)
    BY SetsAnyStack
  <1>5. Close(w, t) = Idle(q, Outer(s)) \/ Close(w, t) = Due(q, Outer(s))
    BY <1>3, <1>4, Zenon DEF Close, Idle, Due
  <1>6. Outer(s) \in Seq(BOOLEAN) /\ Len(Outer(s)) = n
    <2>1. PICK l \in Nat : l = Len(s)
      OBVIOUS
    <2>2. l > 0 => Len(Outer(s)) = l - 1
      BY <2>1, SameLength
    <2> QED
      BY <1>2, <2>1, <2>2, CountedSeq
  <1> QED
    BY <1>5, <1>6, ShapedIs

\* The operations that db.c and the module use.
LEMMA DepthBrackets ==
    ASSUME NEW w, NEW n \in Nat, Depth(w, n)
    PROVE  /\ Depth(NewObject(w), n + 1) /\ Depth(NewArray(w), n + 1)
           /\ Depth(KeyedObject(w), n + 1) /\ Depth(KeyedArray(w), n + 1)
           /\ \A m \in Nat : n = m + 1 => Depth(EndObject(w), m) /\ Depth(EndArray(w), m)
  <1>1. Depth(AddKey(w), n)
    BY DepthKey
  <1>2. ASSUME NEW m \in Nat, n = m + 1 PROVE Depth(EndObject(w), m) /\ Depth(EndArray(w), m)
    BY <1>2, DepthClose DEF EndObject, EndArray
  <1> QED
    BY <1>1, <1>2, DepthOpen DEF NewObject, NewArray, KeyedObject, KeyedArray

LEMMA DepthParts ==
    /\ \A c : Depth(BeginWith(c), 1)
    /\ \A w : Depth(w, 1) => Depth(AppendRequest(w), 1) /\ \A n \in Nat : Depth(AppendLog(w, n), 0)
    /\ \A w : Depth(w, 1) => Depth(Restart(w), 1)
    /\ \A w : Depth(w, 0) => Depth(EndCallback(w), 0)
    /\ Depth(JsonError, 0)
  <1>0. 1 = 0 + 1 /\ 2 = 1 + 1 /\ 0 \in Nat /\ 1 \in Nat /\ 2 \in Nat /\ 3 \in Nat
    OBVIOUS
  <1>1. ASSUME NEW c PROVE Depth(BeginWith(c), 1)
    BY <1>0, DepthNew, DepthJson, DepthBrackets DEF BeginWith
  <1>2. ASSUME NEW w, Depth(w, 1), NEW n \in Nat
        PROVE  /\ Depth(EndObject(AddMembers(KeyedObject(w), n)), 1)
               /\ Depth(EndObject(EndObject(AddMembers(KeyedObject(w), n))), 0)
    <2>1. Depth(KeyedObject(w), 2)
      BY <1>0, <1>2, DepthBrackets
    <2>2. Depth(AddMembers(KeyedObject(w), n), 2)
      BY <2>1, DepthMembers
    <2>3. Depth(EndObject(AddMembers(KeyedObject(w), n)), 1)
      BY <1>0, <2>2, DepthBrackets
    <2>4. Depth(EndObject(EndObject(AddMembers(KeyedObject(w), n))), 0)
      BY <1>0, <2>3, DepthBrackets
    <2> QED
      BY <2>3, <2>4
  <1>3. ASSUME NEW w, Depth(w, 1)
        PROVE  Depth(AppendRequest(w), 1) /\ \A n \in Nat : Depth(AppendLog(w, n), 0)
    BY <1>0, <1>2, <1>3 DEF AppendRequest, AppendLog
  <1>4. ASSUME NEW w, Depth(w, 1) PROVE Depth(Restart(w), 1)
    BY <1>1, <1>3, <1>4 DEF Restart
  <1>5. ASSUME NEW w, Depth(w, 0) PROVE Depth(EndCallback(w), 0)
    BY <1>5, DepthJson DEF EndCallback
  <1>6. Depth(JsonError, 0)
    BY <1>0, <1>1, <1>2 DEF JsonError
  <1> QED
    BY <1>1, <1>3, <1>4, <1>5, <1>6

\* db.c has the log open in run_query, the data in exec_query: "results", a
\* result, "fields" or "rows", an object of these.
OuterDepth == IF at \in {"dispatch", "query", "done"} THEN 0 ELSE IF at = "slots" THEN 3 ELSE 1
DataDepth ==
    CASE at = "results" -> 1
      [] at = "fields" -> 3
      [] at = "rows" -> IF request.csv THEN 2 ELSE 3
      [] at = "row" -> IF request.csv THEN 2 ELSE 4
      [] OTHER -> 0
DepthInv == Depth(j, OuterDepth) /\ Depth(d, DataDepth)

LEMMA DataDepths ==
    /\ at \notin Exec => DataDepth = 0
    /\ at = "results" => DataDepth = 1
    /\ at = "fields" => DataDepth = 3
    /\ at = "rows" => DataDepth = IF request.csv THEN 2 ELSE 3
    /\ at = "row" => DataDepth = IF request.csv THEN 2 ELSE 4
  BY DEF DataDepth, Exec

LEMMA OuterDepthStep ==
    ASSUME ResponseAssumption, ResponseInv, DepthInv, Next
    PROVE  Depth(j, OuterDepth)'
  <1>0. 1 = 0 + 1 /\ 2 = 1 + 1 /\ 3 = 2 + 1 /\ 4 = 3 + 1 /\ {0, 1, 2, 3, 4, 13} \subseteq Nat
    OBVIOUS
  <1>1. CASE BadCommand
    BY <1>1, DepthParts DEF BadCommand, Done, OuterDepth
  <1>2. CASE Kill
    <2>1. Depth(KeyedObject(BeginWith(<<>>)), 2)
      BY <1>0, DepthParts, DepthBrackets
    <2>2. Depth(AddMembers(KeyedObject(BeginWith(<<>>)), 1), 2)
      BY <1>0, <2>1, DepthMembers
    <2>3. Depth(EndObject(AddMembers(KeyedObject(BeginWith(<<>>)), 1)), 1)
      BY <1>0, <2>2, DepthBrackets
    <2>4. Depth(EndObject(EndObject(AddMembers(KeyedObject(BeginWith(<<>>)), 1))), 0)
      BY <1>0, <2>3, DepthBrackets
    <2> QED
      BY <1>2, <2>4 DEF Kill, Done, OuterDepth
  <1>3. CASE Catalog \/ Query
    BY <1>3 DEF Catalog, Query, OuterDepth, DepthInv
  <1>4. CASE Status
    <2>1. Depth(KeyedObject(BeginWith(<<>>)), 2)
      BY <1>0, DepthParts, DepthBrackets
    <2>2. Depth(KeyedObject(KeyedObject(BeginWith(<<>>))), 3)
      BY <1>0, <2>1, DepthBrackets
    <2>3. Depth(AddMembers(KeyedObject(KeyedObject(BeginWith(<<>>))), 2), 3)
      BY <1>0, <2>2, DepthMembers
    <2>4. Depth(EndObject(AddMembers(KeyedObject(KeyedObject(BeginWith(<<>>))), 2)), 2)
      BY <1>0, <2>3, DepthBrackets
    <2>5. Depth(j', 3)
      BY <1>0, <1>4, <2>4, DepthBrackets DEF Status
    <2> QED
      BY <1>4, <2>5 DEF Status, OuterDepth
  <1>5. CASE StatusSlot
    <2>1. Depth(j, 3)
      BY <1>5 DEF StatusSlot, DepthInv, OuterDepth
    <2>2. Depth(AddMembers(NewObject(j), 13), 4)
      BY <1>0, <2>1, DepthBrackets, DepthMembers
    <2>3. Depth(EndObject(AddMembers(NewObject(j), 13)), 3)
      BY <1>0, <2>2, DepthBrackets
    <2>4. Depth(j', 3)
      BY <1>5, <2>1, <2>3 DEF StatusSlot
    <2> QED
      BY <1>5, <2>4 DEF StatusSlot, OuterDepth
  <1>6. CASE StatusEnd
    <2>1. Depth(j, 3)
      BY <1>6 DEF StatusEnd, DepthInv, OuterDepth
    <2>2. Depth(EndArray(j), 2)
      BY <1>0, <2>1, DepthBrackets
    <2>3. Depth(EndObject(EndArray(j)), 1)
      BY <1>0, <2>2, DepthBrackets
    <2>4. Depth(EndObject(EndObject(EndArray(j))), 0)
      BY <1>0, <2>3, DepthBrackets
    <2> QED
      BY <1>6, <2>4 DEF StatusEnd, Done, OuterDepth
  <1>7. CASE RunQuery
    <2>1. Depth(j', 1)
      BY <1>7, DepthParts DEF RunQuery
    <2> QED
      BY <1>7, <2>1 DEF RunQuery, OuterDepth
  <1>8. CASE CheckFails \/ NoConnection \/ HeloFails
    <2>1. Depth(j, 1) /\ Refuse
      BY <1>8 DEF CheckFails, NoConnection, HeloFails, DepthInv, OuterDepth
    <2>2. Depth(Restart(j), 1)
      BY <2>1, DepthParts
    <2>3. PICK n \in {1, 2} : n = IF request.sql THEN 2 ELSE 1
      OBVIOUS
    <2>4. n \in Nat
      OBVIOUS
    <2>5. Depth(AppendLog(Restart(j), n), 0)
      BY <2>2, <2>4, DepthParts
    <2>6. Depth(j', 0)
      BY <2>1, <2>3, <2>5, DepthParts DEF Refuse, Done
    <2> QED
      BY <2>1, <2>6 DEF Refuse, Done, OuterDepth
  <1>9. CASE Error \/ NoInformation
    <2>1. Depth(j, 1) /\ at' = "log" /\ (j' = Restart(j) \/ j' = j)
      BY <1>9 DEF Error, NoInformation, DepthInv, OuterDepth
    <2>2. Depth(j', 1)
      BY <2>1, DepthParts
    <2> QED
      BY <2>1, <2>2 DEF OuterDepth
  <1>10. CASE Log
    <2>1. Depth(j, 1)
      BY <1>10 DEF Log, DepthInv, OuterDepth
    <2>2. PICK n \in 0 .. 2 : Done(EndCallback(AppendLog(j, n)))
      BY <1>10 DEF Log
    <2>3. Depth(EndCallback(AppendLog(j, n)), 0)
      BY <2>1, DepthParts
    <2> QED
      BY <2>2, <2>3 DEF Done, OuterDepth
  <1>11. CASE NoMoreResults
    <2>1. Depth(j, 1)
      BY <1>11 DEF NoMoreResults, DepthInv, OuterDepth
    <2>2. Depth(j', 1)
      BY <1>11, <2>1, DepthJson, DepthText DEF NoMoreResults
    <2> QED
      BY <1>11, <2>2 DEF NoMoreResults, OuterDepth
  <1>12. CASE \/ ExecQuery \/ HasResults \/ Column \/ FieldsEnd \/ FetchRow \/ Cell \/ RowEnd
             \/ ResultEnd
    <2>1. at \in Exec \cup {"check"} /\ at' \in Exec /\ j' = j
      BY <1>12 DEF ExecQuery, HasResults, Column, FieldsEnd, FetchRow, Cell, RowEnd, ResultEnd, Exec
    <2> QED
      BY <2>1 DEF DepthInv, OuterDepth, Exec
  <1> QED
    BY <1>1, <1>2, <1>3, <1>4, <1>5, <1>6, <1>7, <1>8, <1>9, <1>10, <1>11, <1>12 DEF Next

LEMMA DataDepthStep ==
    ASSUME ResponseAssumption, ResponseInv, DepthInv, Next
    PROVE  Depth(d, DataDepth)'
  <1>0. 1 = 0 + 1 /\ 2 = 1 + 1 /\ 3 = 2 + 1 /\ 4 = 3 + 1 /\ {0, 1, 2, 3, 4, 5} \subseteq Nat
    OBVIOUS
  <1>d. Depth(d, DataDepth) /\ request.csv \in BOOLEAN
    BY DEF DepthInv, ResponseInv, Asked, RequestKinds
  <1>1. CASE ExecQuery
    <2>1. [New EXCEPT !.text = Members] = Idle(Members, <<>>)
      <3>1. New = Idle(Begin, <<>>)
        BY DEF New, Idle, Writer
      <3>2. ASSUME NEW z, NEW q PROVE [Writer(Begin, <<>>, z) EXCEPT !.text = q] = Writer(q, <<>>, z)
        BY DEF Writer
      <3>3. [Idle(Begin, <<>>) EXCEPT !.text = Members] = Idle(Members, <<>>)
        BY <3>2, Zenon DEF Idle
      <3> QED
        BY <3>1, <3>3
    <2>2. <<>> \in Seq(BOOLEAN) /\ Len(<<>>) = 0
      OBVIOUS
    <2>3. Depth([New EXCEPT !.text = Members], 0)
      BY <2>1, <2>2, ShapedIs
    <2>4. Depth(d', 1)
      BY <1>0, <1>1, <2>3, DepthBrackets DEF ExecQuery
    <2> QED
      BY <1>1, <2>4 DEF ExecQuery, DataDepth
  <1>2. CASE HasResults
    <2>1. Depth(d, 1)
      BY <1>2, <1>d, DataDepths DEF HasResults
    <2>2. Depth(NewObject(d), 2)
      BY <1>0, <2>1, DepthBrackets
    <2>3. Depth(d', 3)
      BY <1>0, <1>2, <2>2, DepthBrackets DEF HasResults
    <2> QED
      BY <1>2, <2>3 DEF HasResults, DataDepth
  <1>3. CASE Column
    <2>1. Depth(d, 3)
      BY <1>3, <1>d, DataDepths DEF Column
    <2>2. PICK n \in {2, 5} : d' = EndObject(AddMembers(NewObject(d), n))
      BY <1>3 DEF Column
    <2>3. Depth(AddMembers(NewObject(d), n), 4)
      BY <1>0, <2>1, DepthBrackets, DepthMembers
    <2>4. Depth(d', 3)
      BY <1>0, <2>2, <2>3, DepthBrackets
    <2> QED
      BY <1>3, <2>4 DEF Column, DataDepth
  <1>4. CASE FieldsEnd
    <2>1. Depth(d, 3)
      BY <1>4, <1>d, DataDepths DEF FieldsEnd
    <2>2. Depth(EndArray(d), 2)
      BY <1>0, <2>1, DepthBrackets
    <2>3. Depth(AddJson(AddKey(EndArray(d)), <<"quote">>), 2)
      BY <2>2, DepthKey, DepthJson
    <2>4. Depth(KeyedArray(EndArray(d)), 3)
      BY <1>0, <2>2, DepthBrackets
    <2>5. Depth(d', IF request.csv THEN 2 ELSE 3)
      BY <1>4, <2>3, <2>4 DEF FieldsEnd
    <2> QED
      BY <1>4, <2>5 DEF FieldsEnd, DataDepth
  <1>5. CASE FetchRow
    <2>1. Depth(d, IF request.csv THEN 2 ELSE 3)
      BY <1>5, <1>d, DataDepths DEF FetchRow
    <2>2. request.csv \/ Depth(NewObject(d), 4)
      BY <1>0, <2>1, DepthBrackets
    <2>3. Depth(d', IF request.csv THEN 2 ELSE 4)
      BY <1>5, <2>1, <2>2 DEF FetchRow
    <2> QED
      BY <1>5, <2>3 DEF FetchRow, DataDepth
  <1>6. CASE Cell
    <2>1. Depth(d, IF request.csv THEN 2 ELSE 4)
      BY <1>6, <1>d, DataDepths DEF Cell
    <2>2. (\E t : d' = AddJson(d, t)) \/ \E k, v : d' = AddMemberAs(d, k, v)
      BY <1>6 DEF Cell, AddCell
    <2>3. Depth(d', IF request.csv THEN 2 ELSE 4)
      BY <2>1, <2>2, DepthKeyAs, DepthJson
    <2> QED
      BY <1>6, <2>3 DEF Cell, DataDepth
  <1>7. CASE RowEnd
    <2>1. Depth(d, IF request.csv THEN 2 ELSE 4)
      BY <1>7, <1>d, DataDepths DEF RowEnd
    <2>2. request.csv \/ Depth(EndObject(d), 3)
      BY <1>0, <2>1, DepthBrackets
    <2>3. Depth(d', IF request.csv THEN 2 ELSE 3)
      BY <1>7, <2>1, <2>2, DepthJson DEF RowEnd
    <2> QED
      BY <1>7, <2>3 DEF RowEnd, DataDepth, answer
  <1>8. CASE ResultEnd
    <2>1. Depth(d, IF request.csv THEN 2 ELSE 3)
      BY <1>8, <1>d, DataDepths DEF ResultEnd
    <2>2. PICK w : /\ w = IF request.csv THEN AddJson(d, <<"quote", ",">>) ELSE EndArray(d)
                   /\ d' = EndObject(AddMember(w))
      BY <1>8 DEF ResultEnd
    <2>3. Depth(w, 2)
      <3>1. request.csv \/ Depth(EndArray(d), 2)
        BY <1>0, <2>1, DepthBrackets
      <3> QED
        BY <2>1, <2>2, <3>1, DepthJson
    <2>5. Depth(AddMember(w), 2)
      BY <2>3, DepthKey
    <2>4. Depth(d', 1)
      BY <1>0, <2>2, <2>5, DepthBrackets
    <2> QED
      BY <1>8, <2>4 DEF ResultEnd, DataDepth
  <1>9. CASE NoMoreResults
    BY <1>9, DepthNew DEF NoMoreResults, DataDepth
  <1>10. CASE ~ (ExecQuery \/ HasResults \/ Column \/ FieldsEnd \/ FetchRow \/ Cell \/ RowEnd
                \/ ResultEnd \/ NoMoreResults)
    <2>1. at \notin Exec /\ at' \notin Exec /\ d' = d
      <3>1. CASE BadCommand \/ Kill \/ Catalog \/ Status \/ StatusSlot \/ StatusEnd \/ Query \/ RunQuery
        BY <3>1 DEF BadCommand, Kill, Catalog, Status, StatusSlot, StatusEnd, Query, RunQuery, Done, Exec
      <3>2. CASE CheckFails \/ NoConnection \/ HeloFails \/ Error \/ NoInformation \/ Log
        BY <3>2 DEF CheckFails, NoConnection, HeloFails, Error, NoInformation, Log, Refuse, Done, Exec
      <3> QED
        BY <1>10, <3>1, <3>2 DEF Next
    <2>2. DataDepth = 0 /\ DataDepth' = 0
      BY <2>1 DEF DataDepth, Exec
    <2> QED
      BY <1>d, <2>1, <2>2
  <1> QED
    BY <1>1, <1>2, <1>3, <1>4, <1>5, <1>6, <1>7, <1>8, <1>9, <1>10

LEMMA DepthInit == Init => DepthInv
  BY DepthNew DEF Init, DepthInv, OuterDepth, DataDepth

LEMMA DepthStep ==
    ASSUME ResponseAssumption, ResponseInv, DepthInv, [Next]_vars
    PROVE  DepthInv'
  <1>1. CASE Next
    BY <1>1, OuterDepthStep, DataDepthStep DEF DepthInv
  <1>2. CASE UNCHANGED vars
    BY <1>2 DEF vars, DepthInv, OuterDepth, DataDepth
  <1> QED
    BY <1>1, <1>2

LEMMA ShallowWriter ==
    ASSUME NEW w, NEW n \in 0 .. 4, Depth(w, n)
    PROVE  DOMAIN w = DOMAIN New /\ Len(w.stack) <= 4
  <1>1. PICK r : \E s \in Seq(BOOLEAN) : Shaped(w, r, s) /\ Len(s) = n
    BY DEF Depth
  <1>2. PICK s \in Seq(BOOLEAN) : Shaped(w, r, s) /\ Len(s) = n
    BY <1>1
  <1>3. ASSUME NEW q, NEW u, NEW z PROVE DOMAIN Writer(q, u, z) = {"text", "stack", "pending"}
    BY DEF Writer
  <1>4. DOMAIN w = {"text", "stack", "pending"} /\ w.stack = s
    <2>1. DOMAIN Idle(r, s) = {"text", "stack", "pending"} /\ DOMAIN Due(r, s) = {"text", "stack", "pending"}
      BY <1>3, Zenon DEF Idle, Due
    <2>2. Idle(r, s).stack = s /\ Due(r, s).stack = s
      BY Fields
    <2> QED
      BY <1>2, <2>1, <2>2, Zenon DEF Shaped
  <1>5. DOMAIN New = {"text", "stack", "pending"}
    BY DEF New
  <1> QED
    BY <1>2, <1>4, <1>5

LEMMA ResponseTypes == ResponseInv /\ KeysInv /\ DepthInv => TypeOK
  <1> SUFFICES ASSUME ResponseInv, KeysInv, DepthInv PROVE TypeOK
    OBVIOUS
  <1>1. request \in RequestKinds /\ failed \in BOOLEAN /\ at \in Places
    BY DEF ResponseInv, Asked
  <1>2. OuterDepth \in 0 .. 4 /\ DataDepth \in 0 .. 4
    <2>1. OuterDepth \in 0 .. 4
      BY DEF OuterDepth
    <2>2. at \notin Exec \/ at \in {"results", "fields", "rows", "row"}
      BY DEF Exec
    <2>3. DataDepth \in {0, 1, 2, 3, 4}
      <3>1. (IF request.csv THEN 2 ELSE 3) \in {2, 3} /\ (IF request.csv THEN 2 ELSE 4) \in {2, 4}
        OBVIOUS
      <3> QED
        BY <2>2, <3>1, DataDepths
    <2> QED
      BY <2>1, <2>3
  <1>3. /\ DOMAIN j = DOMAIN New /\ Len(j.stack) <= 4
        /\ DOMAIN d = DOMAIN New /\ Len(d.stack) <= 4
    BY <1>2, ShallowWriter DEF DepthInv
  <1>4. /\ col \in 0 .. Len(cols) /\ maxcolname \in Nat
        /\ Len(fields) \in 0 .. Len(cols) /\ Len(row) \in 0 .. Len(cols)
    <2>1. Len(cols) \in Nat /\ Len(fields) \in Nat /\ Len(row) \in Nat
      BY DEF KeysInv, Result, Sizes
    <2>2. Len(fields) <= Len(cols) /\ Len(row) <= Len(fields) /\ maxcolname \in Nat
      BY DEF KeysInv, Sizes
    <2>3. col \in 0 .. Len(cols)
      BY DEF KeysInv, Result
    <2> QED
      BY <2>1, <2>2, <2>3
  <1> QED
    BY <1>1, <1>3, <1>4 DEF TypeOK, Places

\* Neither of the two writers of a response has more than four objects and arrays
\* open, at every step and whatever is returned, and no row has more keys than the
\* result has columns.
THEOREM ResponseTypeCorrect ==
    ASSUME ResponseAssumption
    PROVE  Spec => []TypeOK
  <1>1. ResponseInv /\ DepthInv /\ [Next]_vars => DepthInv'
    BY DepthStep
  <1> QED
    BY <1>1, DepthInit, ResponseInvHolds, KeysInvHolds, ResponseTypes, PTL DEF Spec
=============================================================================
