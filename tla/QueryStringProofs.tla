--------------------------- MODULE QueryStringProofs ---------------------------
(***************************************************************************)
(* Theorems about the fields of a request, for any number of fields, values *)
(* of any length, buffers of any size and anything that lay in them: each   *)
(* has what was sent for it, and the parser leaves its buffers only for      *)
(* what is too long or for an empty end.                                    *)
(***************************************************************************)
EXTENDS QueryString, WellFoundedInduction, SequenceTheorems, TLAPS

\* What may be sent.
Symbols == Keys \cup Tokens \cup {"&", "=", "\n"}

\* What characters of a value are, sent and unescaped, and what fields hold.
Glyphs == {"x", ",", "+", "%2B", "%0A", " ", "\n"}
Chars == Glyphs \cup {"unset", "1"}

\* Fields that take their value as it is, or cut to their room.
Plain == {"sql", "sql_user", "param1"}
Cut(f, str) == IF f = "sql_user" THEN Truncated(str) ELSE str

-----------------------------------------------------------------------------
(* Where the fields lie in what is sent. *)

Upto(ps) ==
    LET upto[n \in 1 .. Len(ps)] ==
            IF n = 1 THEN Text(ps[1]) ELSE upto[n - 1] \o <<"&">> \o Text(ps[n])
    IN  upto

\* The place of the first character of each field.
Start == [n \in DOMAIN pairs |-> 1 + Len(Upto(pairs)[n]) - Len(Text(pairs[n]))]
Size(n) == Len(Text(pairs[n]))

\* str stands in the text from a place on.
Stands(str, text, place) == \A k \in 1 .. Len(str) : text[place + k - 1] = str[k]

Newline == way = "post" /\ input[Len(input)] = "\n"

Sent ==
    /\ Start[1] = 1
    /\ \A n \in DOMAIN pairs : /\ Start[n] \in Nat /\ Start[n] + Size(n) - 1 <= Len(input)
                              /\ Stands(Text(pairs[n]), input, Start[n])
    /\ \A n \in 1 .. Len(pairs) - 1 :
          Start[n + 1] = Start[n] + Size(n) + 1 /\ input[Start[n] + Size(n)] = "&"
    /\ \/ Len(input) = Start[Len(pairs)] + Size(Len(pairs)) - 1
       \/ Len(input) = Start[Len(pairs)] + Size(Len(pairs)) /\ Newline

-----------------------------------------------------------------------------
(* The invariant. *)

\* What was made of the fields before n.
Recorded(n) ==
    \A m \in 1 .. n - 1 :
        /\ pairs[m].key \in Plain /\ ~ pairs[m].bare
        /\ \A l \in m + 1 .. n - 1 : pairs[l].key # pairs[m].key
        => fields[pairs[m].key] = Cut(pairs[m].key, Unescaped(pairs[m].val))

AtStart(n) == s = Start[n] /\ target = "key" /\ key = <<>>
AtKey(n) == s = Start[n] + 1 /\ target = "key" /\ key = <<pairs[n].key>>
InValue(n) ==
    /\ ~ pairs[n].bare /\ target = "value" /\ key = <<pairs[n].key>>
    /\ s = Start[n] + 2 + v /\ v <= Len(pairs[n].val)
    /\ \A c \in 0 .. v - 1 : value[c] = pairs[n].val[c + 1]

\* Behind the newline that may follow the last one.
PastKey(n) ==
    /\ n = Len(pairs) /\ pairs[n].bare /\ Newline
    /\ s = Len(input) + 1 /\ target = "key" /\ key = Append(<<pairs[n].key>>, "\n")
PastValue(n) ==
    /\ n = Len(pairs) /\ ~ pairs[n].bare /\ Newline
    /\ s = Len(input) + 1 /\ target = "value" /\ key = <<pairs[n].key>>
    /\ v = Len(pairs[n].val) + 1
    /\ \A c \in 0 .. v - 2 : value[c] = pairs[n].val[c + 1]
    /\ value[v - 1] = "\n"

Here(n) ==
    /\ AtStart(n) \/ AtKey(n) \/ InValue(n) \/ PastKey(n) \/ PastValue(n)
    /\ Recorded(n)

Buffers ==
    /\ way \in {"get", "post"} /\ at \in {"read", "done", "overrun"}
    /\ \E n \in 1 .. MaxPairs : pairs \in [1 .. n -> Pairs]
    /\ input \in Seq(Symbols)
    /\ s \in Nat /\ v \in 0 .. MaxValue + 1 /\ DOMAIN value = Cells
    /\ fields \in [Fields -> Seq(Chars)]
    /\ v > 0 => v + 3 <= s
    /\ at = "read" => \A c \in 0 .. v - 1 : value[c] \in Glyphs

\* A value of an address that came to its end had room for its NUL.
Fitting == way = "get" /\ target = "key" => v < ValueSize

QueryInv ==
    /\ Buffers /\ Sent
    /\ at = "read" => Fitting /\ \E n \in DOMAIN pairs : Here(n)
    /\ at # "read" => target \in {"key", "value"} /\ s \in 1 .. Len(input) + 1
    /\ FieldsAsSent /\ OverrunOnlyIf

-----------------------------------------------------------------------------
(* The text that is sent, field after field: a recursive definition. *)

LEMMA LeastNumber ==
    ASSUME NEW T, T \subseteq Nat, T # {}
    PROVE  \E n \in T : \A m \in T : ~ (m < n)
  <1>1. PICK R, N : /\ IsWellFoundedOn(R, N) /\ N = Nat
                    /\ \A m, n \in Nat : <<m, n>> \in R <=> m < n
    <2> DEFINE Q == OpToRel(<, Nat)
    <2>1. IsWellFoundedOn(Q, Nat)
      BY NatLessThanWellFounded
    <2>2. \A m, n \in Nat : <<m, n>> \in Q <=> m < n
      BY DEF OpToRel
    <2> HIDE DEF Q
    <2> QED
      BY <2>1, <2>2
  <1>2. IsWellFoundedOn(R, N) /\ T \subseteq N
    BY <1>1
  <1>3. \E n \in T : \A m \in T : ~ (<<m, n>> \in R)
    BY <1>2, WFMin
  <1> QED
    BY <1>1, <1>3

\* g has the texts of the first fields, up to n of them.
Grown(ps, n, g) ==
    g = [k \in 1 .. n |-> IF k = 1 THEN Text(ps[1]) ELSE g[k - 1] \o <<"&">> \o Text(ps[k])]

LEMMA GrownExists ==
    ASSUME NEW ps, NEW n \in Nat
    PROVE  \E g : Grown(ps, n, g)
  <1> DEFINE T == {k \in Nat : ~ \E g : Grown(ps, k, g)}
  <1> SUFFICES ASSUME T # {} PROVE FALSE
    OBVIOUS
  <1>1. PICK k \in T : \A m \in T : ~ (m < k)
    BY LeastNumber
  <1>2. k \in Nat /\ ~ \E g : Grown(ps, k, g)
    BY <1>1
  <1>3. k # 0
    <2>1. Grown(ps, 0, [i \in 1 .. 0 |-> ps])
      BY DEF Grown
    <2> QED
      BY <1>2, <2>1
  <1>4. k - 1 \in Nat /\ k - 1 < k
    BY <1>2, <1>3
  <1>5. PICK g : Grown(ps, k - 1, g)
    BY <1>1, <1>4
  <1> DEFINE f == [i \in 1 .. k |-> IF i # k THEN g[i]
                                    ELSE IF k = 1 THEN Text(ps[1])
                                    ELSE g[k - 1] \o <<"&">> \o Text(ps[k])]
  <1>6. \A i \in 1 .. k : f[i] = IF i = 1 THEN Text(ps[1]) ELSE f[i - 1] \o <<"&">> \o Text(ps[i])
    <2> TAKE i \in 1 .. k
    <2>1. CASE i = k
      BY <1>2, <1>3, <2>1
    <2>2. CASE i # k
      <3>1. i \in 1 .. k - 1 /\ (i # 1 => i - 1 \in 1 .. k /\ i - 1 # k)
        BY <1>2, <2>2
      <3>2. g[i] = IF i = 1 THEN Text(ps[1]) ELSE g[i - 1] \o <<"&">> \o Text(ps[i])
        BY <1>5, <3>1 DEF Grown
      <3> QED
        BY <2>2, <3>1, <3>2
    <2> QED
      BY <2>1, <2>2
  <1>7. Grown(ps, k, f)
    BY <1>6 DEF Grown
  <1> QED
    BY <1>2, <1>7

LEMMA EncodedGrows ==
    ASSUME NEW ps, Len(ps) \in Nat
    PROVE  Grown(ps, Len(ps), Upto(ps)) /\ Encoded(ps) = Upto(ps)[Len(ps)]
  <1>1. PICK g : Grown(ps, Len(ps), g)
    BY GrownExists
  <1> QED
    BY <1>1 DEF Grown, Upto, Encoded

LEMMA Glued ==
    ASSUME NEW S, NEW t \in Seq(S), NEW u \in Seq(S)
    PROVE  /\ t \o u \in Seq(S) /\ Len(t \o u) = Len(t) + Len(u)
           /\ \A i \in 1 .. Len(t) : (t \o u)[i] = t[i]
           /\ \A i \in 1 .. Len(u) : (t \o u)[Len(t) + i] = u[i]
  BY ConcatProperties, LenProperties

LEMMA Bounds ==
    ASSUME QueryAssumption
    PROVE  /\ MaxPairs \in Nat /\ MaxValue \in Nat
           /\ ValueSize \in Nat \ {0} /\ FieldLen \in Nat \ {0} /\ MaxParams \in Nat \ {0}
  <1>1. {MaxPairs, MaxValue} \subseteq Nat
    BY DEF QueryAssumption
  <1>2. {ValueSize, FieldLen, MaxParams} \subseteq Nat \ {0}
    BY DEF QueryAssumption
  <1>3. MaxPairs \in Nat /\ MaxValue \in Nat
    BY <1>1, Zenon
  <1>4. ValueSize \in Nat \ {0} /\ FieldLen \in Nat \ {0} /\ MaxParams \in Nat \ {0}
    BY <1>2, Zenon
  <1> QED
    BY <1>3, <1>4

\* One field.
LEMMA PairText ==
    ASSUME QueryAssumption, NEW p \in Pairs
    PROVE  /\ p.key \in Keys /\ p.bare \in BOOLEAN
           /\ p.val \in Seq(Tokens) /\ Len(p.val) <= MaxValue
           /\ Text(p) \in Seq(Symbols)
           /\ Len(Text(p)) = IF p.bare THEN 1 ELSE 2 + Len(p.val)
           /\ Text(p)[1] = p.key
           /\ ~ p.bare => /\ Text(p)[2] = "="
                          /\ \A k \in 1 .. Len(p.val) : Text(p)[k + 2] = p.val[k]
  <1>1. CASE p \in [key : Keys, bare : {TRUE}, val : {<<>>}]
    <2>1. p.key \in Keys /\ p.bare = TRUE /\ p.val = <<>>
      BY <1>1
    <2>2. Text(p) = <<p.key>>
      BY <2>1 DEF Text
    <2>3. <<p.key>> \in Seq(Symbols) /\ Len(<<p.key>>) = 1 /\ <<p.key>>[1] = p.key
      BY <2>1 DEF Symbols
    <2>4. p.val \in Seq(Tokens) /\ Len(p.val) = 0
      BY <2>1, EmptySeq
    <2>5. Text(p) \in Seq(Symbols) /\ Len(Text(p)) = 1 /\ Text(p)[1] = p.key
      BY <2>2, <2>3
    <2>6. 0 <= MaxValue
      BY Bounds
    <2> QED
      BY <2>1, <2>4, <2>5, <2>6
  <1>2. CASE p \in [key : Keys, bare : {FALSE}, val : Strings]
    <2>1. p.key \in Keys /\ p.bare = FALSE /\ p.val \in Strings
      BY <1>2
    <2>2. PICK n \in 0 .. MaxValue : p.val \in [1 .. n -> Tokens]
      BY <2>1 DEF Strings
    <2>3. p.val \in Seq(Tokens) /\ Len(p.val) = n
      <3>1. n \in Nat
        BY Bounds
      <3> QED
        BY <2>2, <3>1, SeqDef, LenProperties
    <2>4. PICK t : t = <<p.key, "=">>
      OBVIOUS
    <2>5. t \in Seq(Symbols) /\ Len(t) = 2 /\ t[1] = p.key /\ t[2] = "="
      BY <2>1, <2>4 DEF Symbols
    <2>6. p.val \in Seq(Symbols)
      BY <2>3 DEF Symbols
    <2>7. Text(p) = t \o p.val
      BY <2>1, <2>4 DEF Text
    <2>8. /\ Text(p) \in Seq(Symbols) /\ Len(Text(p)) = 2 + n
          /\ Text(p)[1] = p.key /\ Text(p)[2] = "="
          /\ \A k \in 1 .. n : Text(p)[2 + k] = p.val[k]
      BY <2>3, <2>5, <2>6, <2>7, Glued
    <2>9. n <= MaxValue
      BY Bounds
    <2>10. \A k \in 1 .. n : Text(p)[k + 2] = p.val[k]
      BY <2>8
    <2> QED
      BY <2>1, <2>3, <2>8, <2>9, <2>10
  <1> QED
    BY <1>1, <1>2 DEF Pairs

\* What one more field adds.
LEMMA ThreeGlued ==
    ASSUME NEW S, NEW t \in Seq(S), NEW a \in Seq(S), NEW u \in Seq(S), Len(a) = 1
    PROVE  /\ t \o a \o u \in Seq(S) /\ Len(t \o a \o u) = Len(t) + 1 + Len(u)
           /\ \A i \in 1 .. Len(t) : (t \o a \o u)[i] = t[i]
           /\ (t \o a \o u)[Len(t) + 1] = a[1]
           /\ \A i \in 1 .. Len(u) : (t \o a \o u)[Len(t) + 1 + i] = u[i]
  <1>1. Len(t) \in Nat /\ Len(u) \in Nat
    BY LenProperties
  <1>2. PICK b \in Seq(S) : /\ b = t \o a /\ Len(b) = Len(t) + 1
                            /\ \A i \in 1 .. Len(t) : b[i] = t[i]
                            /\ b[Len(t) + 1] = a[1]
    <2>1. t \o a \in Seq(S) /\ Len(t \o a) = Len(t) + Len(a)
      BY Glued
    <2>2. \A i \in 1 .. Len(t) : (t \o a)[i] = t[i]
      BY Glued
    <2>3. (t \o a)[Len(t) + 1] = a[1]
      <3>1. \A i \in 1 .. Len(a) : (t \o a)[Len(t) + i] = a[i]
        BY Glued
      <3>2. 1 \in 1 .. Len(a)
        OBVIOUS
      <3> QED
        BY <3>1, <3>2
    <2> QED
      BY <2>1, <2>2, <2>3
  <1>3. b \o u \in Seq(S) /\ Len(b \o u) = Len(b) + Len(u)
    BY Glued
  <1>4. \A i \in 1 .. Len(b) : (b \o u)[i] = b[i]
    BY Glued
  <1>5. \A i \in 1 .. Len(u) : (b \o u)[Len(b) + i] = u[i]
    BY Glued
  <1>6. /\ b \o u \in Seq(S) /\ Len(b \o u) = Len(t) + 1 + Len(u)
        /\ \A i \in 1 .. Len(t) : (b \o u)[i] = t[i]
        /\ (b \o u)[Len(t) + 1] = a[1]
    BY <1>1, <1>2, <1>3, <1>4
  <1>7. \A i \in 1 .. Len(u) : (b \o u)[Len(t) + 1 + i] = u[i]
    BY <1>1, <1>2, <1>5
  <1> QED
    BY <1>2, <1>6, <1>7

LEMMA OneMore ==
    ASSUME NEW t \in Seq(Symbols), NEW u \in Seq(Symbols)
    PROVE  /\ t \o <<"&">> \o u \in Seq(Symbols)
           /\ Len(t \o <<"&">> \o u) = Len(t) + 1 + Len(u)
           /\ \A i \in 1 .. Len(t) : (t \o <<"&">> \o u)[i] = t[i]
           /\ (t \o <<"&">> \o u)[Len(t) + 1] = "&"
           /\ \A i \in 1 .. Len(u) : (t \o <<"&">> \o u)[Len(t) + 1 + i] = u[i]
  <1>1. PICK a : a = <<"&">>
    OBVIOUS
  <1>2. a \in Seq(Symbols) /\ Len(a) = 1 /\ a[1] = "&"
    BY <1>1 DEF Symbols
  <1>3. t \o a \o u \in Seq(Symbols) /\ Len(t \o a \o u) = Len(t) + 1 + Len(u)
    BY <1>2, ThreeGlued
  <1>4. \A i \in 1 .. Len(t) : (t \o a \o u)[i] = t[i]
    BY <1>2, ThreeGlued
  <1>5. (t \o a \o u)[Len(t) + 1] = "&"
    BY <1>2, ThreeGlued
  <1>6. \A i \in 1 .. Len(u) : (t \o a \o u)[Len(t) + 1 + i] = u[i]
    BY <1>2, ThreeGlued
  <1> QED
    BY <1>1, <1>3, <1>4, <1>5, <1>6, Zenon

\* The text up to a field is a sequence of symbols.
LEMMA GrownSeq ==
    ASSUME QueryAssumption, NEW N \in Nat, NEW ps \in [1 .. N -> Pairs], NEW g, Grown(ps, N, g)
    PROVE  \A n \in 1 .. N : g[n] \in Seq(Symbols)
  <1> DEFINE T == {n \in 1 .. N : g[n] \notin Seq(Symbols)}
  <1> SUFFICES ASSUME T # {} PROVE FALSE
    OBVIOUS
  <1>1. PICK n \in T : \A m \in T : ~ (m < n)
    <2>1. T \subseteq Nat
      OBVIOUS
    <2> HIDE DEF T
    <2> QED
      BY <2>1, LeastNumber
  <1>2. n \in 1 .. N /\ g[n] \notin Seq(Symbols) /\ ps[n] \in Pairs
    BY <1>1
  <1>3. Text(ps[n]) \in Seq(Symbols)
    BY <1>2, PairText
  <1>4. g[n] = IF n = 1 THEN Text(ps[1]) ELSE g[n - 1] \o <<"&">> \o Text(ps[n])
    BY <1>2 DEF Grown
  <1>5. n # 1
    BY <1>2, <1>3, <1>4
  <1>6. n - 1 \in 1 .. N /\ n - 1 < n
    BY <1>2, <1>5
  <1>7. g[n - 1] \in Seq(Symbols)
    BY <1>1, <1>6
  <1>8. g[n - 1] \o <<"&">> \o Text(ps[n]) \in Seq(Symbols)
    BY <1>3, <1>7, OneMore
  <1> QED
    BY <1>2, <1>4, <1>5, <1>8

\* What comes after a field.
Joined(ps, g, n) ==
    /\ Len(g[n + 1]) = Len(g[n]) + 1 + Len(Text(ps[n + 1]))
    /\ \A i \in 1 .. Len(g[n]) : g[n + 1][i] = g[n][i]
    /\ g[n + 1][Len(g[n]) + 1] = "&"
    /\ \A i \in 1 .. Len(Text(ps[n + 1])) : g[n + 1][Len(g[n]) + 1 + i] = Text(ps[n + 1])[i]

LEMMA GrownJoins ==
    ASSUME QueryAssumption, NEW N \in Nat, NEW ps \in [1 .. N -> Pairs], NEW g, Grown(ps, N, g),
           NEW n \in 1 .. N - 1
    PROVE  Joined(ps, g, n)
  <1>1. n \in 1 .. N /\ n + 1 \in 1 .. N /\ n + 1 # 1 /\ (n + 1) - 1 = n
    OBVIOUS
  <1>2. ps[n + 1] \in Pairs
    BY <1>1
  <1>3. PICK t : t = Text(ps[n + 1]) /\ t \in Seq(Symbols)
    BY <1>2, PairText
  <1>4. PICK a : a = g[n] /\ a \in Seq(Symbols)
    BY <1>1, GrownSeq
  <1>5. PICK b : b = a \o <<"&">> \o t
    OBVIOUS
  <1>6. Len(b) = Len(a) + 1 + Len(t)
    BY <1>3, <1>4, <1>5, OneMore
  <1>7. \A i \in 1 .. Len(a) : b[i] = a[i]
    BY <1>3, <1>4, <1>5, OneMore
  <1>8. b[Len(a) + 1] = "&"
    BY <1>3, <1>4, <1>5, OneMore
  <1>9. \A i \in 1 .. Len(t) : b[Len(a) + 1 + i] = t[i]
    BY <1>3, <1>4, <1>5, OneMore
  <1>10. g[n + 1] = b
    BY <1>1, <1>3, <1>4, <1>5 DEF Grown
  <1> QED
    BY <1>3, <1>4, <1>6, <1>7, <1>8, <1>9, <1>10 DEF Joined

\* The texts begin alike.
Alike(t, u) == Len(t) <= Len(u) /\ \A i \in 1 .. Len(t) : u[i] = t[i]

LEMMA AlikeAgain ==
    ASSUME NEW a, NEW b, NEW c, {Len(a), Len(b), Len(c)} \subseteq Nat, Alike(a, b), Alike(b, c)
    PROVE  Alike(a, c)
  <1>1. Len(a) \in Nat /\ Len(b) \in Nat /\ Len(c) \in Nat
    OBVIOUS
  <1>2. Len(a) <= Len(b) /\ Len(b) <= Len(c)
    BY DEF Alike
  <1>3. ASSUME NEW i \in 1 .. Len(a) PROVE c[i] = a[i]
    <2>1. i \in 1 .. Len(b)
      BY <1>1, <1>2
    <2> QED
      BY <2>1 DEF Alike
  <1> QED
    BY <1>1, <1>2, <1>3 DEF Alike

LEMMA GrownAlike ==
    ASSUME QueryAssumption, NEW N \in Nat, NEW ps \in [1 .. N -> Pairs], NEW g, Grown(ps, N, g),
           NEW m \in 1 .. N
    PROVE  \A n \in m .. N : Alike(g[m], g[n])
  <1> DEFINE T == {n \in m .. N : ~ Alike(g[m], g[n])}
  <1> SUFFICES ASSUME T # {} PROVE FALSE
    OBVIOUS
  <1>0. \A k \in 1 .. N : Len(g[k]) \in Nat
    BY GrownSeq, LenProperties
  <1>1. PICK n \in T : \A k \in T : ~ (k < n)
    <2>1. T \subseteq Nat
      OBVIOUS
    <2> HIDE DEF T
    <2> QED
      BY <2>1, LeastNumber
  <1>2. n \in m .. N /\ ~ Alike(g[m], g[n])
    BY <1>1
  <1>3. n # m
    BY <1>0, <1>2 DEF Alike
  <1>4. PICK k \in 1 .. N - 1 : n = k + 1 /\ k \in m .. N
    BY <1>2, <1>3
  <1>5. Alike(g[m], g[k])
    BY <1>1, <1>4
  <1>6. Joined(ps, g, k)
    BY <1>4, GrownJoins
  <1>7. ps[n] \in Pairs
    BY <1>2
  <1>8. Len(Text(ps[n])) \in Nat
    BY <1>7, PairText, LenProperties
  <1>9. Alike(g[k], g[n])
    <2>1. \A i \in 1 .. Len(g[k]) : g[n][i] = g[k][i]
      BY <1>4, <1>6 DEF Joined
    <2>2. Len(g[n]) = Len(g[k]) + 1 + Len(Text(ps[n]))
      BY <1>4, <1>6 DEF Joined
    <2>3. Len(g[k]) \in Nat
      BY <1>0, <1>4
    <2>4. Len(g[k]) <= Len(g[n])
      <3>1. \A x, y \in Nat : x <= x + 1 + y
        OBVIOUS
      <3> QED
        BY <1>8, <2>2, <2>3, <3>1, Zenon
    <2> QED
      BY <2>1, <2>4 DEF Alike
  <1>10. Len(g[m]) \in Nat /\ Len(g[k]) \in Nat /\ Len(g[n]) \in Nat
    BY <1>0, <1>2, <1>4
  <1>11. Alike(g[m], g[n])
    BY <1>5, <1>9, <1>10, AlikeAgain
  <1> QED
    BY <1>2, <1>11

\* So the fields lie one behind the other in what is sent.
LEMMA InitSent ==
    ASSUME QueryAssumption, Init
    PROVE  Sent
  <1>1. PICK N \in 1 .. MaxPairs : pairs \in [1 .. N -> Pairs]
    BY DEF Init
  <1>2. N \in Nat /\ N >= 1 /\ Len(pairs) = N /\ DOMAIN pairs = 1 .. N
    BY <1>1, Bounds
  <1>3. PICK g : g = Upto(pairs) /\ Grown(pairs, N, g) /\ Encoded(pairs) = g[N]
    BY <1>2, EncodedGrows
  <1>4. \A n \in 1 .. N : /\ g[n] \in Seq(Symbols) /\ Len(g[n]) \in Nat
                          /\ pairs[n] \in Pairs /\ Text(pairs[n]) \in Seq(Symbols)
                          /\ Size(n) \in Nat /\ Size(n) >= 1
    <2> TAKE n \in 1 .. N
    <2>1. g[n] \in Seq(Symbols)
      BY <1>1, <1>2, <1>3, GrownSeq
    <2>2. pairs[n] \in Pairs
      BY <1>1
    <2>3. Text(pairs[n]) \in Seq(Symbols) /\ Size(n) \in Nat /\ Size(n) >= 1
      BY <2>2, PairText, LenProperties DEF Size
    <2> QED
      BY <2>1, <2>2, <2>3, LenProperties
  <1>5. \A n \in 1 .. N - 1 : Joined(pairs, g, n)
    BY <1>1, <1>2, <1>3, GrownJoins
  <1>6. \A n \in 1 .. N : Start[n] = 1 + Len(g[n]) - Size(n)
    BY <1>2, <1>3 DEF Start, Size
  <1>7. g[1] = Text(pairs[1]) /\ Start[1] = 1
    <2>1. 1 \in 1 .. N
      BY <1>2
    <2>2. g[1] = Text(pairs[1])
      BY <1>3, <2>1 DEF Grown
    <2>3. PICK x \in Nat : x = Len(g[1]) /\ x = Size(1)
      BY <1>4, <2>1, <2>2 DEF Size
    <2>4. Start[1] = 1 + x - x
      BY <1>6, <2>1, <2>3
    <2> QED
      BY <2>2, <2>3, <2>4
  \* Each field ends its text so far, and begins it or follows an "&".
  <1>8. \A n \in 1 .. N : /\ Start[n] \in Nat /\ Start[n] >= 1
                          /\ Len(g[n]) = Start[n] + Size(n) - 1
                          /\ Stands(Text(pairs[n]), g[n], Start[n])
    <2> TAKE n \in 1 .. N
    <2>1. CASE n = 1
      BY <1>4, <1>7, <2>1 DEF Stands, Size
    <2>2. CASE n # 1
      <3>1. PICK m \in 1 .. N - 1 : n = m + 1 /\ m \in 1 .. N
        BY <1>2, <2>2
      <3>2. Len(g[n]) = Len(g[m]) + 1 + Size(n)
        BY <1>5, <3>1 DEF Joined, Size
      <3>3. Start[n] = Len(g[m]) + 2
        <4>1. PICK x \in Nat, z \in Nat : x = Len(g[m]) /\ z = Size(n)
          BY <1>4, <3>1
        <4>2. Start[n] = 1 + (x + 1 + z) - z
          BY <1>6, <3>1, <3>2, <4>1
        <4> QED
          BY <4>1, <4>2
      <3>4. \A i \in 1 .. Size(n) : g[n][Len(g[m]) + 1 + i] = Text(pairs[n])[i]
        BY <1>5, <3>1 DEF Joined, Size
      <3>5. Len(g[m]) \in Nat /\ Size(n) \in Nat
        BY <1>4, <3>1
      <3>6. Stands(Text(pairs[n]), g[n], Start[n])
        <4> SUFFICES ASSUME NEW i \in 1 .. Size(n)
                     PROVE  g[n][Start[n] + i - 1] = Text(pairs[n])[i]
          BY DEF Stands, Size
        <4>1. Start[n] + i - 1 = Len(g[m]) + 1 + i
          BY <3>3, <3>5
        <4> QED
          BY <3>4, <4>1
      <3> QED
        BY <3>2, <3>3, <3>5, <3>6
    <2> QED
      BY <2>1, <2>2
  <1>9. \A n \in 1 .. N - 1 : /\ Start[n + 1] = Start[n] + Size(n) + 1
                              /\ g[n + 1][Start[n] + Size(n)] = "&"
    <2> TAKE n \in 1 .. N - 1
    <2>1. n \in 1 .. N /\ n + 1 \in 1 .. N
      BY <1>2
    <2>2. Len(g[n + 1]) = Len(g[n]) + 1 + Size(n + 1) /\ g[n + 1][Len(g[n]) + 1] = "&"
      BY <1>5 DEF Joined, Size
    <2>3. PICK x \in Nat, y \in Nat, z \in Nat, u \in Nat, t \in Nat :
             /\ x = Len(g[n]) /\ y = Start[n] /\ z = Size(n)
             /\ t = Start[n + 1] /\ u = Size(n + 1)
      BY <1>4, <1>8, <2>1
    <2>4. x = y + z - 1 /\ x + 1 + u = t + u - 1
      BY <1>8, <2>1, <2>2, <2>3
    <2>5. x + 1 = y + z /\ t = y + z + 1
      BY <2>4
    <2> QED
      BY <2>2, <2>3, <2>5
  \* What follows leaves it where it is.
  <1>10. \A n \in 1 .. N : Alike(g[n], g[N])
    BY <1>1, <1>2, <1>3, GrownAlike
  <1>11. PICK newline \in {<<>>, <<"\n">>} : /\ way = "get" => newline = <<>>
                                            /\ input = g[N] \o newline
    BY <1>3 DEF Init
  <1>12. /\ Alike(g[N], input)
         /\ \/ Len(input) = Len(g[N])
            \/ Len(input) = Len(g[N]) + 1 /\ Newline
    <2>1. g[N] \in Seq(Symbols) /\ Len(g[N]) \in Nat
      BY <1>2, <1>4
    <2>2. CASE newline = <<>>
      <3>1. input = g[N]
        BY <1>11, <2>1, <2>2, ConcatEmptySeq
      <3> QED
        BY <2>1, <3>1 DEF Alike
    <2>3. CASE newline # <<>>
      <3>1. newline \in Seq(Symbols) /\ Len(newline) = 1 /\ newline[1] = "\n" /\ way = "post"
        <4>1. newline = <<"\n">>
          BY <1>11, <2>3
        <4>2. PICK c : c = "\n" /\ c \in Symbols
          BY DEF Symbols
        <4>3. <<c>> \in Seq(Symbols) /\ Len(<<c>>) = 1 /\ <<c>>[1] = c
          BY <4>2
        <4>4. way = "post"
          BY <1>11, <2>3 DEF Init
        <4> QED
          BY <4>1, <4>2, <4>3, <4>4
      <3>2. /\ Len(input) = Len(g[N]) + Len(newline)
            /\ \A i \in 1 .. Len(g[N]) : input[i] = g[N][i]
        BY <1>11, <2>1, <3>1, Glued
      <3>3. input[Len(g[N]) + 1] = "\n"
        <4>1. \A i \in 1 .. Len(newline) : input[Len(g[N]) + i] = newline[i]
          <5>1. PICK t : t = g[N] /\ t \in Seq(Symbols)
            BY <2>1
          <5>2. PICK u : u = newline /\ u \in Seq(Symbols)
            BY <3>1
          <5>3. \A i \in 1 .. Len(u) : (t \o u)[Len(t) + i] = u[i]
            BY <5>1, <5>2, Glued
          <5>4. input = t \o u
            BY <1>11, <5>1, <5>2
          <5> QED
            BY <5>1, <5>2, <5>3, <5>4
        <4> QED
          BY <3>1, <4>1
      <3> QED
        BY <2>1, <3>1, <3>2, <3>3 DEF Alike, Newline
    <2> QED
      BY <2>2, <2>3
  <1>13. \A n \in 1 .. N : Len(g[n]) <= Len(input) /\ \A i \in 1 .. Len(g[n]) : input[i] = g[n][i]
    <2> TAKE n \in 1 .. N
    <2>1. Alike(g[n], g[N]) /\ Len(g[n]) \in Nat /\ Len(g[N]) \in Nat /\ Len(input) \in Nat
      BY <1>2, <1>4, <1>10, <1>12
    <2>2. Alike(g[n], input)
      BY <1>12, <2>1, AlikeAgain
    <2> QED
      BY <2>2 DEF Alike
  <1>14. \A n \in 1 .. N : Stands(Text(pairs[n]), input, Start[n])
    <2> SUFFICES ASSUME NEW n \in 1 .. N, NEW i \in 1 .. Size(n)
                 PROVE  input[Start[n] + i - 1] = Text(pairs[n])[i]
      BY DEF Stands, Size
    <2>1. g[n][Start[n] + i - 1] = Text(pairs[n])[i]
      BY <1>8 DEF Stands, Size
    <2>2. Start[n] + i - 1 \in 1 .. Len(g[n])
      BY <1>4, <1>8
    <2> QED
      BY <1>13, <2>1, <2>2
  <1>15. \A n \in 1 .. N - 1 : input[Start[n] + Size(n)] = "&"
    <2> TAKE n \in 1 .. N - 1
    <2>1. n \in 1 .. N /\ n + 1 \in 1 .. N
      BY <1>2
    <2>2. Start[n] + Size(n) \in 1 .. Len(g[n + 1])
      <3>1. PICK y \in Nat, z \in Nat, u \in Nat :
               y = Start[n] /\ z = Size(n) /\ u = Size(n + 1) /\ y >= 1
        BY <1>4, <1>8, <2>1
      <3>2. Len(g[n + 1]) = Start[n + 1] + Size(n + 1) - 1
        BY <1>8, <2>1
      <3>3. Len(g[n + 1]) = (y + z + 1) + u - 1
        BY <1>9, <3>1, <3>2
      <3>4. y + z \in 1 .. (y + z + 1) + u - 1
        BY <3>1
      <3> QED
        BY <3>1, <3>3, <3>4, Zenon
    <2> QED
      BY <1>9, <1>13, <2>1, <2>2
  <1>16. N \in 1 .. N /\ Len(g[N]) = Start[N] + Size(N) - 1 /\ Start[N] \in Nat /\ Size(N) \in Nat
    BY <1>2, <1>4, <1>8
  <1>17. \A n \in 1 .. N : Start[n] \in Nat /\ Start[n] + Size(n) - 1 <= Len(input)
    BY <1>8, <1>13
  <1> QED
    BY <1>2, <1>7, <1>9, <1>12, <1>14, <1>15, <1>16, <1>17 DEF Sent

LEMMA InitSymbols ==
    ASSUME QueryAssumption, Init
    PROVE  input \in Seq(Symbols)
  <1>1. PICK N \in 1 .. MaxPairs : pairs \in [1 .. N -> Pairs]
    BY DEF Init
  <1>2. N \in Nat /\ N >= 1 /\ Len(pairs) = N
    BY <1>1, Bounds
  <1>3. PICK g : Grown(pairs, N, g) /\ Encoded(pairs) = g[N]
    BY <1>2, EncodedGrows
  <1>4. PICK t : t = g[N] /\ t \in Seq(Symbols)
    <2>1. N \in 1 .. N
      BY <1>2
    <2> QED
      BY <1>1, <1>2, <1>3, <2>1, GrownSeq
  <1>5. PICK newline : newline \in {<<>>, <<"\n">>} /\ input = t \o newline
    BY <1>3, <1>4 DEF Init
  <1>6. newline \in Seq(Symbols)
    <2>1. PICK c : c = "\n" /\ c \in Symbols
      BY DEF Symbols
    <2>2. <<c>> \in Seq(Symbols) /\ <<>> \in Seq(Symbols)
      BY <2>1
    <2> QED
      BY <1>5, <2>1, <2>2
  <1>7. t \o newline \in Seq(Symbols)
    BY <1>4, <1>6, Glued
  <1> QED
    BY <1>5, <1>7

LEMMA InitQuery ==
    ASSUME QueryAssumption, Init
    PROVE  QueryInv
  <1>1. Buffers
    <2>1. <<"unset">> \in Seq(Chars)
      <3>1. PICK c : c = "unset" /\ c \in Chars
        BY DEF Chars
      <3>2. <<c>> \in Seq(Chars)
        BY <3>1
      <3> QED
        BY <3>1, <3>2
    <2>2. fields \in [Fields -> Seq(Chars)]
      BY <2>1 DEF Init
    <2>3. DOMAIN value = Cells
      BY DEF Init
    <2>4. /\ way \in {"get", "post"} /\ at = "read" /\ s = 1 /\ v = 0
          /\ \E n \in 1 .. MaxPairs : pairs \in [1 .. n -> Pairs]
      BY DEF Init
    <2>5. v \in 0 .. MaxValue + 1
      BY <2>4, Bounds
    <2> QED
      BY <2>2, <2>3, <2>4, <2>5, InitSymbols DEF Buffers
  <1>2. Sent
    BY InitSent
  <1>3. 1 \in DOMAIN pairs
    BY Bounds DEF Init
  <1>4. AtStart(1) /\ Recorded(1)
    BY <1>2 DEF Init, Sent, AtStart, Recorded
  <1>5. Here(1)
    BY <1>4 DEF Here
  <1>6. at = "read" /\ v = 0
    BY DEF Init
  <1>7. Fitting
    BY <1>6, Bounds DEF Fitting
  <1>8. FieldsAsSent /\ OverrunOnlyIf
    BY <1>6 DEF FieldsAsSent, OverrunOnlyIf
  <1> QED
    BY <1>1, <1>2, <1>3, <1>5, <1>6, <1>7, <1>8 DEF QueryInv

-----------------------------------------------------------------------------
(* What the next character is. *)

LEMMA Place ==
    ASSUME QueryAssumption, Buffers, Sent, NEW n \in DOMAIN pairs
    PROVE  /\ Len(pairs) \in Nat /\ n \in 1 .. Len(pairs) /\ DOMAIN pairs = 1 .. Len(pairs)
           /\ Len(pairs) <= MaxPairs
           /\ pairs[n].key \in Keys /\ pairs[n].bare \in BOOLEAN
           /\ pairs[n].val \in Seq(Tokens) /\ Len(pairs[n].val) \in 0 .. MaxValue
           /\ Start[n] \in Nat /\ Len(input) \in Nat
           /\ Size(n) = (IF pairs[n].bare THEN 1 ELSE 2 + Len(pairs[n].val))
           /\ input[Start[n]] = pairs[n].key
           /\ ~ pairs[n].bare => input[Start[n] + 1] = "="
  <1>1. PICK N \in 1 .. MaxPairs : pairs \in [1 .. N -> Pairs]
    BY DEF Buffers
  <1>2. N \in Nat /\ N <= MaxPairs /\ Len(pairs) = N /\ DOMAIN pairs = 1 .. N
    BY <1>1, Bounds
  <1>3. pairs[n] \in Pairs
    BY <1>1
  <1>4. PICK p \in Pairs : p = pairs[n]
    BY <1>3
  <1>5. PICK t : t = Text(p)
    OBVIOUS
  <1>6. /\ p.key \in Keys /\ p.bare \in BOOLEAN /\ p.val \in Seq(Tokens) /\ Len(p.val) <= MaxValue
        /\ Len(t) = IF p.bare THEN 1 ELSE 2 + Len(p.val)
        /\ t[1] = p.key
        /\ ~ p.bare => t[2] = "="
    BY <1>5, PairText
  <1>7. Len(p.val) \in 0 .. MaxValue
    <2>1. Len(p.val) \in Nat
      BY <1>6, LenProperties
    <2> QED
      BY <1>6, <2>1, Bounds
  <1>8. Start[n] \in Nat /\ Stands(t, input, Start[n])
    BY <1>4, <1>5 DEF Sent
  <1>9. \A k \in 1 .. Len(t) : input[Start[n] + k - 1] = t[k]
    BY <1>8 DEF Stands
  <1>10. 1 \in 1 .. Len(t) /\ (~ p.bare => 2 \in 1 .. Len(t))
    BY <1>6, <1>7
  <1>11. /\ input[Start[n]] = t[1]
         /\ ~ p.bare => input[Start[n] + 1] = t[2]
    <2>1. Start[n] + 1 - 1 = Start[n] /\ Start[n] + 2 - 1 = Start[n] + 1
      BY <1>8
    <2> QED
      BY <1>9, <1>10, <2>1
  <1>12. Len(input) \in Nat
    BY LenProperties DEF Buffers
  <1>13. Size(n) = Len(t)
    BY <1>4, <1>5 DEF Size
  <1> QED
    BY <1>2, <1>4, <1>6, <1>7, <1>8, <1>11, <1>12, <1>13

LEMMA ValueSent ==
    ASSUME QueryAssumption, Buffers, Sent, NEW n \in DOMAIN pairs, ~ pairs[n].bare,
           NEW k \in 1 .. Len(pairs[n].val)
    PROVE  input[Start[n] + 1 + k] = pairs[n].val[k]
  <1>1. PICK N \in 1 .. MaxPairs : pairs \in [1 .. N -> Pairs]
    BY DEF Buffers
  <1>2. PICK p \in Pairs : p = pairs[n]
    BY <1>1
  <1>3. PICK t : t = Text(p)
    OBVIOUS
  <1>4. /\ Len(t) = 2 + Len(p.val)
        /\ \A i \in 1 .. Len(p.val) : t[i + 2] = p.val[i]
    BY <1>2, <1>3, PairText
  <1>5. Start[n] \in Nat /\ \A i \in 1 .. Len(t) : input[Start[n] + i - 1] = t[i]
    BY <1>2, <1>3 DEF Sent, Stands
  <1>6. Len(p.val) \in Nat /\ k \in 1 .. Len(p.val)
    BY <1>2, Place
  <1>7. PICK x \in Nat, m \in Nat : x = Start[n] /\ m = Len(p.val)
    BY <1>5, <1>6
  <1>8. k \in Nat /\ k + 2 \in 1 .. Len(t) /\ x + (k + 2) - 1 = x + 1 + k
    BY <1>4, <1>6, <1>7
  <1>9. input[x + 1 + k] = t[k + 2]
    BY <1>5, <1>7, <1>8
  <1> QED
    BY <1>2, <1>4, <1>6, <1>7, <1>9

LEMMA Following ==
    ASSUME QueryAssumption, Buffers, Sent, NEW n \in DOMAIN pairs, n # Len(pairs)
    PROVE  /\ n + 1 \in DOMAIN pairs /\ Start[n + 1] = Start[n] + Size(n) + 1
           /\ input[Start[n] + Size(n)] = "&" /\ Start[n] + Size(n) <= Len(input)
  <1>1. n \in 1 .. Len(pairs) - 1 /\ n + 1 \in DOMAIN pairs
    BY Place
  <1>2. Start[n + 1] = Start[n] + Size(n) + 1 /\ input[Start[n] + Size(n)] = "&"
    BY <1>1 DEF Sent
  <1>3. Start[n + 1] + Size(n + 1) - 1 <= Len(input)
    BY <1>1 DEF Sent
  <1>4. PICK x \in Nat, y \in Nat, u \in Nat, w \in Nat :
           x = Start[n] /\ y = Size(n) /\ u = Size(n + 1) /\ w = Len(input) /\ u >= 1
    <2>1. Start[n] \in Nat /\ Len(input) \in Nat /\ Size(n) \in Nat
      BY Place
    <2>2. Size(n + 1) \in Nat /\ Size(n + 1) >= 1
      BY <1>1, Place
    <2> QED
      BY <2>1, <2>2
  <1>5. (x + y + 1) + u - 1 <= w
    BY <1>2, <1>3, <1>4
  <1>6. x + y <= w
    BY <1>4, <1>5
  <1> QED
    BY <1>1, <1>2, <1>4, <1>6

LEMMA Distinct ==
    ASSUME QueryAssumption
    PROVE  /\ \A c \in Keys \cup Tokens : c \notin {"&", "=", "\n", "NUL"}
           /\ Tokens \subseteq Glyphs
  BY DEF QueryAssumption, Glyphs

LEMMA KeyNext ==
    ASSUME QueryAssumption, Buffers, Sent, NEW n \in DOMAIN pairs, AtStart(n)
    PROVE  s <= Len(input) /\ input[s] = pairs[n].key
  <1>1. Start[n] + Size(n) - 1 <= Len(input)
    BY DEF Sent
  <1>2. Size(n) \in Nat /\ Size(n) >= 1
    BY Place
  <1> QED
    BY <1>1, <1>2, Place DEF AtStart

\* What may come where a field could end.
Ends(n) ==
    \/ /\ n # Len(pairs) /\ s <= Len(input) /\ input[s] = "&"
       /\ n + 1 \in DOMAIN pairs /\ Start[n + 1] = s + 1
    \/ n = Len(pairs) /\ s = Len(input) /\ Newline
    \/ n = Len(pairs) /\ s = Len(input) + 1

LEMMA FieldEnds ==
    ASSUME QueryAssumption, Buffers, Sent, NEW n \in DOMAIN pairs, s = Start[n] + Size(n)
    PROVE  Ends(n)
  <1>1. CASE n # Len(pairs)
    BY <1>1, Following DEF Ends
  <1>2. CASE n = Len(pairs)
    <2>1. \/ Len(input) = Start[n] + Size(n) - 1
          \/ Len(input) = Start[n] + Size(n) /\ Newline
      BY <1>2 DEF Sent
    <2>2. Start[n] \in Nat /\ Size(n) \in Nat
      BY Place
    <2> QED
      BY <1>2, <2>1, <2>2 DEF Ends
  <1> QED
    BY <1>1, <1>2

LEMMA AfterKey ==
    ASSUME QueryAssumption, Buffers, Sent, NEW n \in DOMAIN pairs, AtKey(n)
    PROVE  \/ ~ pairs[n].bare /\ s <= Len(input) /\ input[s] = "="
           \/ pairs[n].bare /\ Ends(n)
  <1>1. CASE ~ pairs[n].bare
    <2>1. Start[n] + Size(n) - 1 <= Len(input)
      BY DEF Sent
    <2>2. Size(n) = 2 + Len(pairs[n].val) /\ Len(pairs[n].val) \in Nat
      BY <1>1, Place
    <2> QED
      BY <1>1, <2>1, <2>2, Place DEF AtKey
  <1>2. CASE pairs[n].bare
    <2>1. s = Start[n] + Size(n)
      BY <1>2, Place DEF AtKey
    <2> QED
      BY <1>2, <2>1, FieldEnds
  <1> QED
    BY <1>1, <1>2

LEMMA AfterValue ==
    ASSUME QueryAssumption, Buffers, Sent, NEW n \in DOMAIN pairs, InValue(n)
    PROVE  \/ v < Len(pairs[n].val) /\ s <= Len(input) /\ input[s] = pairs[n].val[v + 1]
           \/ v = Len(pairs[n].val) /\ Ends(n)
  <1>1. v \in Nat /\ Len(pairs[n].val) \in Nat /\ v <= Len(pairs[n].val)
    BY Place, Bounds DEF Buffers, InValue
  <1>2. CASE v = Len(pairs[n].val)
    <2>1. s = Start[n] + Size(n)
      <3>1. Start[n] \in Nat /\ Size(n) = 2 + Len(pairs[n].val)
        BY Place DEF InValue
      <3>2. s = Start[n] + 2 + v
        BY DEF InValue
      <3>3. PICK x, l \in Nat : x = Start[n] /\ l = Len(pairs[n].val)
        BY <1>1, <3>1
      <3>4. s = x + 2 + l /\ Size(n) = 2 + l
        BY <1>2, <3>1, <3>2, <3>3, Zenon
      <3> QED
        BY <3>1, <3>3, <3>4
    <2> QED
      BY <1>2, <2>1, FieldEnds
  <1>3. CASE v < Len(pairs[n].val)
    <2>1. v + 1 \in 1 .. Len(pairs[n].val)
      BY <1>1, <1>3
    <2>2. input[Start[n] + 1 + (v + 1)] = pairs[n].val[v + 1]
      BY <2>1, ValueSent DEF InValue
    <2>3. Start[n] + 1 + (v + 1) = s
      <3>1. PICK x \in Nat : x = Start[n]
        BY Place
      <3>2. s = x + 2 + v
        BY <3>1 DEF InValue
      <3> QED
        BY <1>1, <3>1, <3>2
    <2>4. Start[n] + Size(n) - 1 <= Len(input)
      BY DEF Sent
    <2>5. Size(n) = 2 + Len(pairs[n].val)
      BY Place DEF InValue
    <2>6. s <= Len(input)
      BY <1>1, <1>3, <2>3, <2>4, <2>5, Place
    <2> QED
      BY <1>3, <2>2, <2>3, <2>6
  <1> QED
    BY <1>1, <1>2, <1>3

-----------------------------------------------------------------------------
(* What is stored. *)

LEMMA CellsUp ==
    ASSUME QueryAssumption, Buffers
    PROVE  /\ Cells \subseteq Nat /\ v \in Nat /\ v \in Cells
           /\ \A c \in Cells : 0 .. c \subseteq Cells
  <1>1. PICK N \in 1 .. MaxPairs : pairs \in [1 .. N -> Pairs]
    BY DEF Buffers
  <1>2. MaxPairs \in Nat /\ MaxValue \in Nat /\ MaxPairs >= 1
    BY <1>1, Bounds
  <1>3. PICK top \in Nat : top = MaxPairs * (MaxValue + 3) /\ MaxValue + 1 <= top
    <2>1. \A x, y \in Nat : x >= 1 => x * (y + 3) \in Nat /\ y + 1 <= x * (y + 3)
      OBVIOUS
    <2> QED
      BY <1>2, <2>1
  <1>4. Cells = 0 .. top
    BY <1>3 DEF Cells
  <1>5. v \in 0 .. MaxValue + 1
    BY DEF Buffers
  <1> QED
    BY <1>2, <1>3, <1>4, <1>5

\* A string ends at its first NUL.
LEMMA StringUpTo ==
    ASSUME QueryAssumption, Buffers, NEW cells, NEW u \in Cells, cells[u] = "NUL",
           \A c \in 0 .. u - 1 : cells[c] # "NUL"
    PROVE  StringIn(cells) = [k \in 1 .. u |-> cells[k - 1]]
  <1>1. PICK ends : ends = {c \in Cells : cells[c] = "NUL"}
    OBVIOUS
  <1>2. Cells \subseteq Nat
    BY CellsUp
  <1>3. u \in ends /\ \A e \in ends : u <= e
    BY <1>1, <1>2
  <1>4. (CHOOSE c \in ends : \A e \in ends : c <= e) = u
    <2>1. \A c \in ends : (\A e \in ends : c <= e) => c = u
      BY <1>1, <1>2, <1>3
    <2> QED
      BY <1>3, <2>1
  <1>5. ends # {}
    BY <1>3
  <1> QED
    BY <1>1, <1>4, <1>5 DEF StringIn

LEMMA UnescapeType == \A c \in Glyphs : Unescape(c) \in Glyphs
  BY DEF Glyphs, Unescape

LEMMA UnescapedType ==
    ASSUME NEW str \in Seq(Glyphs)
    PROVE  Unescaped(str) \in Seq(Glyphs) /\ Len(Unescaped(str)) = Len(str)
  <1>1. DOMAIN str = 1 .. Len(str) /\ Len(str) \in Nat
    BY LenProperties
  <1>2. Unescaped(str) \in [1 .. Len(str) -> Glyphs]
    BY <1>1, UnescapeType, ElementOfSeq DEF Unescaped
  <1> QED
    BY <1>1, <1>2, SeqDef, LenProperties

LEMMA TruncatedType ==
    ASSUME QueryAssumption, NEW str \in Seq(Chars)
    PROVE  Truncated(str) \in Seq(Chars)
  <1>1. PICK m : m = IF Len(str) < FieldLen THEN Len(str) ELSE FieldLen - 1
    OBVIOUS
  <1>2. m \in 0 .. Len(str)
    BY <1>1, Bounds, LenProperties
  <1>3. SubSeq(str, 1, m) \in Seq(Chars)
    BY <1>2, LenProperties, ElementOfSeq, SubSeqProperties
  <1> QED
    BY <1>1, <1>3 DEF Truncated

\* A key stores its own field, and the others stay as they are.
LEMMA OneField ==
    ASSUME fields \in [Fields -> Seq(Chars)], NEW f, NEW y \in Seq(Chars)
    PROVE  /\ [fields EXCEPT ![f] = y] \in [Fields -> Seq(Chars)]
           /\ f \in Fields => [fields EXCEPT ![f] = y][f] = y
           /\ \A g \in Fields : g # f => [fields EXCEPT ![f] = y][g] = fields[g]
  OBVIOUS

LEMMA WordSeq ==
    /\ <<"1">> \in Seq(Chars) /\ <<"x">> \in Seq(Chars)
    /\ Glyphs \subseteq Chars
  <1>1. PICK a, b : a = "1" /\ b = "x" /\ a \in Chars /\ b \in Chars
    BY DEF Chars, Glyphs
  <1>2. <<a>> \in Seq(Chars) /\ <<b>> \in Seq(Chars)
    BY <1>1
  <1> QED
    BY <1>1, <1>2 DEF Chars

\* The fields that Plain leaves out have other keys, or other words.
LEMMA StoredElsewhere ==
    ASSUME QueryAssumption, fields \in [Fields -> Seq(Chars)],
           NEW k \in Seq(Symbols), NEW str,
           k \notin {<<"sql">>, <<"sql_user">>, <<"param1">>}, str \in Seq(Chars)
    PROVE  \E f, y : /\ Stored(k, str) \in {fields, [fields EXCEPT ![f] = y]}
                     /\ y \in Seq(Chars) /\ f \notin Plain
  <1> DEFINE Elsewhere(f, y) == /\ Stored(k, str) \in {fields, [fields EXCEPT ![f] = y]}
                                /\ y \in Seq(Chars) /\ f \notin Plain
  <1> SUFFICES \E f, y : Elsewhere(f, y)
    OBVIOUS
  <1>1. k # <<"sql">> /\ k # <<"sql_user">> /\ k # <<"param1">>
    OBVIOUS
  <1>2. CASE k = <<"status">>
    <2>1. Stored(k, str) = [fields EXCEPT !["status"] = <<"1">>]
      BY <1>2 DEF Stored
    <2>2. Elsewhere("status", <<"1">>)
      BY <2>1, WordSeq DEF Plain
    <2> HIDE DEF Elsewhere
    <2> QED
      BY <2>2
  <1>3. CASE k = <<"log_level">> /\ str = <<"x">>
    <2>1. Stored(k, str) = [fields EXCEPT !["log_level"] = str]
      BY <1>3 DEF Stored
    <2>2. Elsewhere("log_level", str)
      BY <2>1, WordSeq DEF Plain
    <2> HIDE DEF Elsewhere
    <2> QED
      BY <2>2
  <1>4. CASE k = <<"flags">> /\ HasFlag(str, "x")
    <2>1. Stored(k, str) = [fields EXCEPT !["flags"] = <<"x">>]
      BY <1>4 DEF Stored
    <2>2. Elsewhere("flags", <<"x">>)
      BY <2>1, WordSeq DEF Plain
    <2> HIDE DEF Elsewhere
    <2> QED
      BY <2>2
  <1> DEFINE Numbered == /\ Len(k) = 1 /\ k[1] \in {"param0", "param1", "param3"}
                         /\ ParamNumber(k[1]) \in 1 .. MaxParams
  <1>5. CASE Numbered
    <2>1. k = <<k[1]>>
      <3>1. DOMAIN k = 1 .. 1
        BY <1>5, LenProperties
      <3> QED
        BY <3>1, LenProperties
    <2>2. k[1] # "param1"
      BY <1>1, <2>1
    <2>3. ParamNumber("param0") = 0 /\ ParamNumber("param3") = 3 /\ Param(3) = "param2"
      BY DEF ParamNumber, Param
    <2>4. k[1] = "param3"
      BY <1>5, <2>2, <2>3
    <2>5. /\ k # <<"status">> /\ k # <<"log_level">> /\ k # <<"flags">>
      BY <2>1, <2>4
    <2>6. Stored(k, str) = [fields EXCEPT !["param2"] = str]
      BY <1>1, <1>5, <2>3, <2>4, <2>5 DEF Stored
    <2>7. Elsewhere("param2", str)
      BY <2>6 DEF Plain
    <2> HIDE DEF Elsewhere
    <2> QED
      BY <2>7
  <1>6. CASE /\ k # <<"status">> /\ ~ (k = <<"log_level">> /\ str = <<"x">>)
             /\ ~ (k = <<"flags">> /\ HasFlag(str, "x")) /\ ~ Numbered
    <2>1. Stored(k, str) = fields
      BY <1>1, <1>6 DEF Stored
    <2>2. Elsewhere("status", <<"1">>)
      BY <2>1, WordSeq DEF Plain
    <2> HIDE DEF Elsewhere
    <2> QED
      BY <2>2
  <1> QED
    BY <1>2, <1>3, <1>4, <1>5, <1>6

\* A key stores its own field, and the others stay as they are.
Keeps(k, str, r) ==
    /\ r \in [Fields -> Seq(Chars)]
    /\ \A f \in Plain \cap Keys : r[f] = IF k = <<f>> THEN Cut(f, str) ELSE fields[f]

LEMMA StoredFields ==
    ASSUME QueryAssumption, fields \in [Fields -> Seq(Chars)],
           NEW k \in Seq(Symbols), NEW str \in Seq(Glyphs)
    PROVE  Keeps(k, str, Stored(k, str))
  <1>1. str \in Seq(Chars)
    BY WordSeq, SeqMonotonic
  <1>2. Plain \cap Keys \subseteq Fields
    BY DEF Fields, Plain
  \* One of the three that are stored as they come.
  <1>3. ASSUME NEW f \in Plain, NEW y \in Seq(Chars), y = Cut(f, str), k = <<f>>,
               Stored(k, str) = [fields EXCEPT ![f] = y]
        PROVE  Keeps(k, str, Stored(k, str))
    <2>1. PICK r : r = [fields EXCEPT ![f] = y]
      OBVIOUS
    <2>2. /\ r \in [Fields -> Seq(Chars)] /\ (f \in Fields => r[f] = y)
          /\ \A g \in Fields : g # f => r[g] = fields[g]
      BY <2>1, OneField
    <2>3. \A g : k = <<g>> => g = f
      BY <1>3
    <2> QED
      BY <1>2, <1>3, <2>1, <2>2, <2>3 DEF Keeps
  <1>4. CASE k = <<"sql">>
    <2>1. Stored(k, str) = [fields EXCEPT !["sql"] = str]
      BY <1>4 DEF Stored
    <2>2. "sql" \in Plain /\ Cut("sql", str) = str
      BY DEF Plain, Cut
    <2> QED
      BY <1>1, <1>3, <1>4, <2>1, <2>2
  <1>5. CASE k = <<"sql_user">>
    <2>1. Stored(k, str) = [fields EXCEPT !["sql_user"] = Truncated(str)]
      BY <1>5 DEF Stored
    <2>2. "sql_user" \in Plain /\ Cut("sql_user", str) = Truncated(str)
      BY DEF Plain, Cut
    <2>3. Truncated(str) \in Seq(Chars)
      BY <1>1, TruncatedType
    <2> QED
      BY <1>3, <1>5, <2>1, <2>2, <2>3
  <1>6. CASE k = <<"param1">>
    <2>1. Len(k) = 1 /\ k[1] = "param1" /\ ParamNumber("param1") = 1 /\ Param(1) = "param1"
      BY <1>6 DEF ParamNumber, Param
    <2>2. 1 \in 1 .. MaxParams
      BY Bounds
    <2>3. Stored(k, str) = [fields EXCEPT !["param1"] = str]
      BY <1>6, <2>1, <2>2 DEF Stored
    <2>4. "param1" \in Plain /\ Cut("param1", str) = str
      BY DEF Plain, Cut
    <2> QED
      BY <1>1, <1>3, <1>6, <2>3, <2>4
  <1>7. CASE k \notin {<<"sql">>, <<"sql_user">>, <<"param1">>}
    <2>1. PICK f, y : /\ Stored(k, str) \in {fields, [fields EXCEPT ![f] = y]}
                      /\ y \in Seq(Chars) /\ f \notin Plain
      BY <1>1, <1>7, StoredElsewhere
    <2>2. PICK r : r = [fields EXCEPT ![f] = y]
      OBVIOUS
    <2>3. r \in [Fields -> Seq(Chars)] /\ \A g \in Fields : g # f => r[g] = fields[g]
      BY <2>1, <2>2, OneField
    <2>4. \A g \in Plain : k # <<g>> /\ g # f
      BY <1>7, <2>1 DEF Plain
    <2> QED
      BY <1>2, <2>1, <2>2, <2>3, <2>4 DEF Keeps
  <1> QED
    BY <1>4, <1>5, <1>6, <1>7

-----------------------------------------------------------------------------
(* Each step preserves the invariant. *)

\* What was sent stays.
LEMMA SentStays ==
    ASSUME Sent, UNCHANGED <<way, pairs, input>>
    PROVE  Sent' /\ Start' = Start
  <1>1. Start' = Start
    BY DEF Start
  <1> QED
    BY <1>1 DEF Sent, Newline, Size, Stands

\* The first field starts at 1, and the others behind it.
LEMMA StartsAtOne ==
    ASSUME QueryAssumption, Buffers, Sent, NEW n \in DOMAIN pairs
    PROVE  Start[n] # 0
  <1>1. CASE n = 1
    BY <1>1 DEF Sent
  <1>2. CASE n # 1
    <2>1. PICK m \in DOMAIN pairs : m # Len(pairs) /\ n = m + 1
      <3>1. n \in 1 .. Len(pairs) /\ DOMAIN pairs = 1 .. Len(pairs) /\ Len(pairs) \in Nat
        BY Place
      <3>2. n - 1 \in 1 .. Len(pairs) /\ n - 1 # Len(pairs) /\ n = (n - 1) + 1
        BY <1>2, <3>1
      <3> QED
        BY <3>1, <3>2
    <2>2. Start[n] = Start[m] + Size(m) + 1
      BY <2>1, Following
    <2>3. Start[m] \in Nat /\ Size(m) \in Nat
      BY Place
    <2> QED
      BY <2>2, <2>3
  <1> QED
    BY <1>1, <1>2

LEMMA Moves ==
    ASSUME QueryAssumption, Buffers, UNCHANGED <<way, pairs, input, value, fields, at>>, s' = s + 1,
           v' \in {0, v}
    PROVE  Buffers'
  <1>0. s \in Nat /\ v \in Nat /\ v \in 0 .. MaxValue + 1 /\ 0 \in 0 .. MaxValue + 1
    BY Bounds DEF Buffers
  <1>1. s' \in Nat /\ (v' > 0 => v' + 3 <= s') /\ v' \in 0 .. MaxValue + 1
    <2>1. CASE v' = v
      <3>1. v > 0 => v + 3 <= s
        BY DEF Buffers
      <3> QED
        BY <1>0, <2>1, <3>1
    <2>2. CASE v' = 0
      BY <1>0, <2>2
    <2> QED
      BY <2>1, <2>2
  <1>2. at = "read" => \A c \in 0 .. v' - 1 : value[c] \in Glyphs
    <2>1. CASE v' = v
      BY <2>1 DEF Buffers
    <2>2. CASE v' = 0
      <3>1. 0 .. 0 - 1 = {}
        OBVIOUS
      <3> QED
        BY <2>2, <3>1
    <2> QED
      BY <2>1, <2>2
  <1> QED
    BY <1>1, <1>2 DEF Buffers

LEMMA RecordedStays ==
    ASSUME UNCHANGED <<pairs, fields>>, NEW n, Recorded(n)
    PROVE  Recorded(n)'
  BY DEF Recorded

\* Going on reading, at field n.
LEMMA GoesOn ==
    ASSUME Buffers', Sent', Fitting', at' = "read", NEW n \in DOMAIN pairs, pairs' = pairs, Here(n)'
    PROVE  QueryInv'
  BY DEF QueryInv, FieldsAsSent, OverrunOnlyIf

LEMMA KeyCharStep ==
    ASSUME QueryAssumption, QueryInv, KeyChar
    PROVE  QueryInv'
  <1>1. at = "read" /\ at' = "read" /\ target = "key" /\ s <= Len(input)
    BY DEF KeyChar, Other
  <1>2. PICK n \in DOMAIN pairs : Here(n)
    BY <1>1 DEF QueryInv
  <1>3. Buffers /\ Sent
    BY DEF QueryInv
  <1>4. Buffers' /\ Sent' /\ Start' = Start
    BY <1>3, SentStays, Moves DEF KeyChar
  <1>5. Recorded(n)'
    BY <1>2, RecordedStays DEF KeyChar, Here
  <1>6. s' = s + 1 /\ key' = Append(key, input[s]) /\ target' = "key"
    BY DEF KeyChar
  <1>7. UNCHANGED <<way, pairs, input>>
    BY DEF KeyChar
  <1>12. Fitting'
    BY <1>1, <1>7 DEF QueryInv, Fitting, KeyChar
  <1>8. s \in Nat /\ Len(input) \in Nat
    BY <1>3, Place DEF Buffers
  <1>9. CASE AtStart(n)
    <2>1. key' = <<pairs[n].key>>
      BY <1>3, <1>6, <1>9, KeyNext DEF AtStart
    <2>2. s' = Start[n] + 1
      BY <1>6, <1>9 DEF AtStart
    <2>3. AtKey(n)'
      BY <1>4, <1>6, <1>7, <2>1, <2>2 DEF AtKey
    <2> QED
      BY <1>1, <1>4, <1>5, <1>7, <1>12, <2>3, GoesOn DEF Here
  <1>10. CASE AtKey(n)
    <2>1. input[s] # "&" /\ input[s] # "="
      BY DEF KeyChar, Other
    <2>2. pairs[n].bare /\ n = Len(pairs) /\ s = Len(input) /\ Newline
      BY <1>1, <1>3, <1>8, <1>10, <2>1, AfterKey DEF Ends
    <2>3. key' = Append(<<pairs[n].key>>, "\n")
      BY <1>6, <1>10, <2>2 DEF Newline, AtKey
    <2>4. PastKey(n)'
      BY <1>6, <1>7, <2>2, <2>3 DEF PastKey, Newline
    <2> QED
      BY <1>1, <1>4, <1>5, <1>7, <1>12, <2>4, GoesOn DEF Here
  <1>11. ~ InValue(n) /\ ~ PastKey(n) /\ ~ PastValue(n)
    BY <1>1, <1>8 DEF InValue, PastKey, PastValue
  <1> QED
    BY <1>2, <1>9, <1>10, <1>11 DEF Here

LEMMA EqualsStep ==
    ASSUME QueryAssumption, QueryInv, Equals
    PROVE  QueryInv'
  <1>1. at = "read" /\ at' = "read" /\ s <= Len(input) /\ input[s] = "="
    BY DEF Equals, Char
  <1>2. PICK n \in DOMAIN pairs : Here(n)
    BY <1>1 DEF QueryInv
  <1>3. Buffers /\ Sent
    BY DEF QueryInv
  <1>4. Buffers' /\ Sent' /\ Start' = Start
    BY <1>3, SentStays, Moves DEF Equals
  <1>5. Recorded(n)'
    BY <1>2, RecordedStays DEF Equals, Here
  <1>6. s' = s + 1 /\ key' = key /\ target' = "value" /\ v' = 0
    BY DEF Equals
  <1>7. UNCHANGED <<way, pairs, input>>
    BY DEF Equals
  <1>8. s \in Nat /\ Len(input) \in Nat
    BY <1>3, Place DEF Buffers
  <1>9. ~ AtStart(n)
    <2>1. pairs[n].key \in Keys /\ pairs[n].key # "="
      BY <1>3, Place, Distinct
    <2> QED
      BY <1>1, <1>3, <2>1, KeyNext
  <1>10. ~ Ends(n)
    BY <1>1, <1>8 DEF Ends, Newline
  <1>11. ~ InValue(n)
    <2> SUFFICES ASSUME InValue(n) PROVE FALSE
      OBVIOUS
    <2>1. v < Len(pairs[n].val) /\ input[s] = pairs[n].val[v + 1]
      BY <1>3, <1>10, AfterValue
    <2>2. v + 1 \in 1 .. Len(pairs[n].val) /\ pairs[n].val \in Seq(Tokens)
      BY <1>3, <2>1, Place, CellsUp
    <2>3. input[s] \in Tokens
      BY <2>1, <2>2, ElementOfSeq
    <2> QED
      BY <1>1, <2>3, Distinct
  <1>12. ~ PastKey(n) /\ ~ PastValue(n)
    BY <1>1, <1>8 DEF PastKey, PastValue
  <1>13. AtKey(n)
    BY <1>2, <1>9, <1>11, <1>12 DEF Here
  <1>14. ~ pairs[n].bare
    BY <1>3, <1>10, <1>13, AfterKey
  <1>15. Start[n] \in Nat /\ Len(pairs[n].val) \in Nat
    BY <1>3, Place
  <1>16. s' = Start[n] + 2 + v' /\ v' <= Len(pairs[n].val) /\ 0 .. v' - 1 = {}
    BY <1>6, <1>13, <1>15 DEF AtKey
  <1>17. InValue(n)'
    BY <1>4, <1>6, <1>7, <1>13, <1>14, <1>16 DEF AtKey, InValue
  <1>18. Fitting'
    BY <1>6 DEF Fitting
  <1> QED
    BY <1>1, <1>4, <1>5, <1>7, <1>17, <1>18, GoesOn DEF Here

LEMMA ValueCharStep ==
    ASSUME QueryAssumption, QueryInv, ValueChar
    PROVE  QueryInv'
  <1>1. at = "read" /\ at' = "read" /\ s <= Len(input) /\ target = "value"
    BY DEF ValueChar, Other
  <1>2. PICK n \in DOMAIN pairs : Here(n)
    BY <1>1 DEF QueryInv
  <1>3. Buffers /\ Sent
    BY DEF QueryInv
  <1>4. Sent' /\ Start' = Start
    BY <1>3, SentStays DEF ValueChar
  <1>5. Recorded(n)'
    BY <1>2, RecordedStays DEF ValueChar, Here
  <1>6. /\ s' = s + 1 /\ key' = key /\ target' = "value" /\ v' = v + 1
        /\ value' = [value EXCEPT ![v] = input[s]]
    BY DEF ValueChar
  <1>0. Fitting'
    BY <1>6 DEF Fitting
  <1>7. UNCHANGED <<way, pairs, input, fields>>
    BY DEF ValueChar
  <1>8. s \in Nat /\ Len(input) \in Nat /\ v \in Nat /\ v \in Cells
    BY <1>3, Place, CellsUp DEF Buffers
  <1>9. value'[v] = input[s] /\ \A c \in 0 .. v - 1 : value'[c] = value[c]
    BY <1>3, <1>6, <1>8 DEF Buffers
  <1>10. InValue(n)
    BY <1>1, <1>2, <1>8 DEF Here, AtStart, AtKey, PastKey, PastValue
  <1>11. Start[n] \in Nat /\ Len(pairs[n].val) \in Nat /\ Len(pairs[n].val) <= MaxValue
    BY <1>3, Place, Bounds
  <1>12. v' + 3 <= s' /\ v' \in 0 .. MaxValue + 1 /\ s' \in Nat /\ s' = Start[n] + 2 + v'
    <2>1. PICK x \in Nat, m \in Nat : x = Start[n] /\ m = Len(pairs[n].val) /\ m <= MaxValue
      BY <1>11
    <2>2. s = x + 2 + v /\ v <= m /\ x >= 1
      <3>1. x # 0
        BY <1>3, <2>1, StartsAtOne
      <3> QED
        BY <1>10, <2>1, <3>1 DEF InValue
    <2>3. MaxValue \in Nat
      BY Bounds
    <2>4. \A a, b, c, d \in Nat : c >= 1 /\ b = c + 2 + a =>
             (a + 1) + 3 <= b + 1 /\ b + 1 = c + 2 + (a + 1) /\ b + 1 \in Nat
      OBVIOUS
    <2>5. (v + 1) + 3 <= s + 1 /\ s + 1 = x + 2 + (v + 1) /\ s + 1 \in Nat
      BY <1>8, <2>1, <2>2, <2>4
    <2>6. v <= MaxValue
      BY <1>8, <2>1, <2>2, <2>3
    <2>7. v + 1 \in 0 .. MaxValue + 1
      BY <1>8, <2>3, <2>6
    <2> QED
      BY <1>6, <2>1, <2>5, <2>7
  <1>13. input[s] \in Glyphs => Buffers'
    <2> SUFFICES ASSUME input[s] \in Glyphs PROVE Buffers'
      OBVIOUS
    <2>1. \A c \in 0 .. v - 1 : value[c] \in Glyphs
      BY <1>1, <1>3 DEF Buffers
    <2>2. \A c \in 0 .. v' - 1 : value'[c] \in Glyphs
      BY <1>6, <1>8, <1>9, <2>1
    <2>3. DOMAIN value' = Cells
      BY <1>3, <1>6 DEF Buffers
    <2> QED
      BY <1>1, <1>3, <1>7, <1>12, <2>2, <2>3 DEF Buffers
  <1>14. CASE v < Len(pairs[n].val) /\ input[s] = pairs[n].val[v + 1]
    <2>1. v + 1 \in 1 .. Len(pairs[n].val) /\ pairs[n].val \in Seq(Tokens)
      BY <1>3, <1>8, <1>11, <1>14, Place
    <2>2. input[s] \in Glyphs
      BY <1>14, <2>1, ElementOfSeq, Distinct
    <2>3. \A c \in 0 .. v' - 1 : value'[c] = pairs[n].val[c + 1]
      <3> TAKE c \in 0 .. v' - 1
      <3>1. CASE c = v
        BY <1>9, <1>14, <3>1
      <3>2. CASE c # v
        <4>1. c \in 0 .. v - 1
          BY <1>6, <1>8, <3>2
        <4> QED
          BY <1>9, <1>10, <4>1 DEF InValue
      <3> QED
        BY <3>1, <3>2
    <2>4. s' = Start[n] + 2 + v' /\ v' <= Len(pairs[n].val)
      <3>1. \A a, b \in Nat : a < b => a + 1 <= b
        OBVIOUS
      <3> QED
        BY <1>6, <1>8, <1>11, <1>12, <1>14, <3>1
    <2>5. InValue(n)'
      BY <1>4, <1>6, <1>7, <1>10, <2>3, <2>4 DEF InValue
    <2> QED
      BY <1>0, <1>1, <1>4, <1>5, <1>7, <1>13, <2>2, <2>5, GoesOn DEF Here
  <1>15. CASE v = Len(pairs[n].val) /\ Ends(n)
    <2>1. n = Len(pairs) /\ s = Len(input) /\ Newline
      <3>1. input[s] # "&"
        BY DEF ValueChar, Other
      <3> QED
        BY <1>1, <1>8, <1>15, <3>1 DEF Ends
    <2>2. input[s] = "\n" /\ input[s] \in Glyphs
      BY <2>1 DEF Newline, Glyphs
    <2>3. \A c \in 0 .. v' - 2 : value'[c] = pairs[n].val[c + 1]
      BY <1>6, <1>8, <1>9, <1>10 DEF InValue
    <2>4. value'[v' - 1] = "\n"
      BY <1>6, <1>8, <1>9, <2>2
    <2>5. PastValue(n)'
      BY <1>6, <1>7, <1>8, <1>10, <1>15, <2>1, <2>3, <2>4 DEF InValue, PastValue, Newline
    <2> QED
      BY <1>0, <1>1, <1>4, <1>5, <1>7, <1>13, <2>2, <2>5, GoesOn DEF Here
  <1> QED
    BY <1>3, <1>10, <1>14, <1>15, AfterValue

\* What a cell that is NUL behind characters makes of the buffer.
LEMMA Terminated ==
    ASSUME QueryAssumption, Buffers, NEW cells, NEW u \in Cells, cells[u] = "NUL",
           \A c \in 0 .. u - 1 : cells[c] \in Glyphs
    PROVE  /\ StringIn(cells) \in Seq(Glyphs) /\ Len(StringIn(cells)) = u
           /\ \A k \in 1 .. u : StringIn(cells)[k] = cells[k - 1]
  <1>1. u \in Nat
    BY CellsUp
  <1>2. \A c \in 0 .. u - 1 : cells[c] # "NUL"
    BY DEF Glyphs
  <1>3. StringIn(cells) = [k \in 1 .. u |-> cells[k - 1]]
    BY <1>2, StringUpTo
  <1>4. \A k \in 1 .. u : k - 1 \in 0 .. u - 1
    BY <1>1
  <1>5. StringIn(cells) \in [1 .. u -> Glyphs]
    BY <1>3, <1>4
  <1> QED
    BY <1>1, <1>3, <1>5, SeqDef, LenProperties

\* The string is the value that was sent.
LEMMA ValueRead ==
    ASSUME NEW str \in Seq(Glyphs), NEW val \in Seq(Glyphs), NEW cells, Len(str) = Len(val),
           \A k \in 1 .. Len(str) : str[k] = cells[k - 1],
           \A c \in 0 .. Len(val) - 1 : cells[c] = val[c + 1]
    PROVE  str = val
  <1>1. \A k \in 1 .. Len(str) : str[k] = val[k]
    <2> TAKE k \in 1 .. Len(str)
    <2>1. Len(val) \in Nat /\ k - 1 \in 0 .. Len(val) - 1 /\ (k - 1) + 1 = k
      BY LenProperties
    <2> QED
      BY <2>1
  <1> QED
    BY <1>1, SeqEqual

\* One more field is recorded.
LEMMA RecordedNext ==
    ASSUME QueryAssumption, Buffers, Sent, NEW n \in DOMAIN pairs, Recorded(n), pairs' = pairs,
           NEW str, Keeps(<<pairs[n].key>>, str, fields'),
           ~ pairs[n].bare => str = Unescaped(pairs[n].val)
    PROVE  Recorded(n + 1)'
  <1> SUFFICES ASSUME NEW m \in 1 .. (n + 1) - 1, pairs[m].key \in Plain, ~ pairs[m].bare,
                      \A l \in m + 1 .. (n + 1) - 1 : pairs[l].key # pairs[m].key
               PROVE  fields'[pairs[m].key] = Cut(pairs[m].key, Unescaped(pairs[m].val))
    BY DEF Recorded, Cut, Truncated, Unescaped, Unescape
  <1>1. n \in Nat /\ n \in 1 .. Len(pairs) /\ DOMAIN pairs = 1 .. Len(pairs)
    BY Place
  <1>2. m \in DOMAIN pairs
    BY <1>1, Place
  <1>3. PICK f \in Plain \cap Keys : f = pairs[m].key
    BY <1>2, Place
  <1>4. fields'[f] = IF <<pairs[n].key>> = <<f>> THEN Cut(f, str) ELSE fields[f]
    BY DEF Keeps
  <1>5. CASE m = n
    BY <1>3, <1>4, <1>5
  <1>6. CASE m # n
    <2>1. m \in 1 .. n - 1 /\ n \in m + 1 .. (n + 1) - 1
      BY <1>1, <1>6
    <2>2. pairs[n].key # f
      BY <1>3, <2>1
    <2>3. \A l \in m + 1 .. n - 1 : pairs[l].key # pairs[m].key
      BY <1>1
    <2>4. fields[f] = Cut(f, Unescaped(pairs[m].val))
      BY <1>3, <2>1, <2>3 DEF Recorded
    <2> QED
      BY <1>3, <1>4, <2>2, <2>4
  <1> QED
    BY <1>5, <1>6

LEMMA PairEndStep ==
    ASSUME QueryAssumption, QueryInv, PairEnd
    PROVE  QueryInv'
  <1>1. at = "read" /\ at' = "read" /\ s <= Len(input) /\ input[s] = "&"
    BY DEF PairEnd, Char
  <1>2. PICK n \in DOMAIN pairs : Here(n)
    BY <1>1 DEF QueryInv
  <1>3. Buffers /\ Sent
    BY DEF QueryInv
  <1>4. Sent' /\ Start' = Start
    BY <1>3, SentStays DEF PairEnd
  <1>5. PICK cells : cells = [value EXCEPT ![v] = "NUL"]
    OBVIOUS
  <1>6. /\ s' = s + 1 /\ key' = <<>> /\ target' = "key"
        /\ fields' = Stored(key, Unescaped(StringIn(cells))) /\ value' = UnescapedIn(cells)
    BY <1>5 DEF PairEnd, WriteValue
  <1>7. UNCHANGED <<way, pairs, input, v>>
    BY DEF PairEnd
  <1>8. s \in Nat /\ Len(input) \in Nat /\ v \in Nat /\ v \in Cells
    BY <1>3, Place, CellsUp DEF Buffers
  <1>9. cells[v] = "NUL" /\ \A c \in 0 .. v - 1 : cells[c] = value[c]
    BY <1>3, <1>5, <1>8 DEF Buffers
  <1>10. \A c \in 0 .. v - 1 : cells[c] \in Glyphs
    BY <1>1, <1>3, <1>9 DEF Buffers
  <1>11. PICK str : str = StringIn(cells)
    OBVIOUS
  <1>12. /\ str \in Seq(Glyphs) /\ Len(str) = v
         /\ \A k \in 1 .. v : str[k] = cells[k - 1]
    BY <1>3, <1>8, <1>9, <1>10, <1>11, Terminated
  \* The field that ends here.
  <1>13. ~ AtStart(n)
    <2>1. pairs[n].key \in Keys /\ pairs[n].key # "&"
      BY <1>3, Place, Distinct
    <2> QED
      BY <1>1, <1>3, <2>1, KeyNext
  <1>14. ~ PastKey(n) /\ ~ PastValue(n)
    BY <1>1, <1>8 DEF PastKey, PastValue
  <1>15. \/ AtKey(n) /\ pairs[n].bare /\ Ends(n)
         \/ InValue(n) /\ v = Len(pairs[n].val) /\ Ends(n)
    <2>1. CASE AtKey(n)
      BY <1>1, <1>3, <2>1, AfterKey
    <2>2. CASE InValue(n)
      <3>1. ASSUME v < Len(pairs[n].val), input[s] = pairs[n].val[v + 1] PROVE FALSE
        <4>1. v + 1 \in 1 .. Len(pairs[n].val) /\ pairs[n].val \in Seq(Tokens)
          BY <1>3, <1>8, <3>1, Place
        <4>2. input[s] \in Tokens
          BY <3>1, <4>1, ElementOfSeq
        <4> QED
          BY <1>1, <4>2, Distinct
      <3> QED
        BY <1>3, <2>2, <3>1, AfterValue
    <2> QED
      BY <1>2, <1>13, <1>14, <2>1, <2>2 DEF Here
  <1>16. n + 1 \in DOMAIN pairs /\ Start[n + 1] = s + 1
    <2>1. input[s] # "\n"
      BY <1>1
    <2> QED
      BY <1>1, <1>8, <1>15, <2>1 DEF Ends, Newline
  <1>17. key = <<pairs[n].key>> /\ pairs[n].key \in Keys
    BY <1>3, <1>15, Place DEF AtKey, InValue
  <1>18. ~ pairs[n].bare => str = pairs[n].val
    <2> SUFFICES ASSUME ~ pairs[n].bare PROVE str = pairs[n].val
      OBVIOUS
    <2>1. InValue(n) /\ v = Len(pairs[n].val)
      BY <1>15
    <2>2. pairs[n].val \in Seq(Glyphs)
      BY <1>3, Place, Distinct, SeqMonotonic
    <2>3. PICK val : val = pairs[n].val /\ val \in Seq(Glyphs)
      BY <2>2
    <2>4. Len(str) = Len(val)
      BY <1>12, <2>1, <2>3
    <2>5. \A k \in 1 .. Len(str) : str[k] = cells[k - 1]
      BY <1>12
    <2>6. \A c \in 0 .. v - 1 : cells[c] = val[c + 1]
      BY <1>9, <2>1, <2>3 DEF InValue
    <2>7. \A c \in 0 .. Len(val) - 1 : cells[c] = val[c + 1]
      BY <2>1, <2>3, <2>6
    <2>8. str = val
      BY <1>12, <2>3, <2>4, <2>5, <2>7, ValueRead
    <2> QED
      BY <2>3, <2>8
  <1>19. Keeps(<<pairs[n].key>>, Unescaped(str), fields')
    <2>1. Unescaped(str) \in Seq(Glyphs)
      BY <1>12, UnescapedType
    <2>2. <<pairs[n].key>> \in Seq(Symbols)
      BY <1>17 DEF Symbols
    <2>3. fields \in [Fields -> Seq(Chars)]
      BY <1>3 DEF Buffers
    <2> QED
      BY <1>6, <1>11, <1>17, <2>1, <2>2, <2>3, StoredFields
  <1>20. Recorded(n + 1)'
    <2>1. Recorded(n)
      BY <1>2 DEF Here
    <2> QED
      BY <1>3, <1>7, <1>18, <1>19, <2>1, RecordedNext
  <1>21. Buffers'
    <2>1. fields' \in [Fields -> Seq(Chars)]
      BY <1>19 DEF Keeps
    <2>2. DOMAIN value' = Cells
      BY <1>6 DEF UnescapedIn
    <2>3. \A c \in 0 .. v' - 1 : value'[c] \in Glyphs
      <3> SUFFICES ASSUME NEW c \in 0 .. v - 1 PROVE value'[c] \in Glyphs
        BY <1>7
      <3>1. c \in Cells
        <4>1. c \in 0 .. v
          BY <1>8
        <4> QED
          BY <1>3, <1>8, <4>1, CellsUp
      <3>2. value'[c] \in {cells[c], Unescape(cells[c])}
        BY <1>6, <3>1 DEF UnescapedIn
      <3> QED
        BY <1>10, <3>2, UnescapeType
    <2>4. s' \in Nat /\ (v' > 0 => v' + 3 <= s')
      BY <1>3, <1>6, <1>7, <1>8 DEF Buffers
    <2> QED
      BY <1>1, <1>3, <1>7, <2>1, <2>2, <2>3, <2>4 DEF Buffers
  <1>22. AtStart(n + 1)'
    BY <1>4, <1>6, <1>16 DEF AtStart
  <1>23. Fitting'
    BY <1>7 DEF Fitting, PairEnd, Room
  <1> QED
    BY <1>1, <1>4, <1>7, <1>16, <1>20, <1>21, <1>22, <1>23, GoesOn DEF Here

-----------------------------------------------------------------------------
(* The end of the request. *)

LEMMA LastLineFound ==
    ASSUME v \in Nat
    PROVE  /\ LastLine \in -1 .. v
           /\ \A e \in LastLine + 1 .. v : value[e] = "\n"
           /\ LastLine >= 0 => value[LastLine] # "\n"
  <1> DEFINE Line(c) == /\ \A e \in c + 1 .. v : value[e] = "\n"
                        /\ c >= 0 => value[c] # "\n"
  <1>1. \E c \in -1 .. v : Line(c)
    \* The first place that has newlines from there on.
    <2> DEFINE T == {c \in 0 .. v + 1 : \A e \in c .. v : value[e] = "\n"}
    <2>1. T \subseteq Nat /\ v + 1 \in T
      <3>1. v + 1 .. v = {}
        OBVIOUS
      <3> QED
        BY <3>1
    <2>2. PICK c \in T : \A d \in T : ~ (d < c)
      <3> HIDE DEF T
      <3> QED
        BY <2>1, LeastNumber
    <2>3. c \in 0 .. v + 1 /\ \A e \in c .. v : value[e] = "\n"
      BY <2>2
    <2>4. c - 1 \in -1 .. v /\ (c - 1) + 1 = c
      BY <2>3
    <2>5. ASSUME c - 1 >= 0, value[c - 1] = "\n" PROVE FALSE
      <3>1. \A e \in c - 1 .. v : value[e] = "\n"
        <4> TAKE e \in c - 1 .. v
        <4>1. e = c - 1 \/ e \in c .. v
          BY <2>3
        <4> QED
          BY <2>3, <2>5, <4>1
      <3>2. c - 1 \in T /\ c - 1 < c
        BY <2>3, <2>5, <3>1
      <3> QED
        BY <2>2, <3>2
    <2>6. Line(c - 1)
      BY <2>3, <2>4, <2>5
    <2> HIDE DEF Line
    <2> QED
      BY <2>4, <2>6
  <1>2. LastLine = CHOOSE c \in -1 .. v : Line(c)
    BY DEF LastLine
  <1>3. LastLine \in -1 .. v /\ Line(LastLine)
    <2> HIDE DEF Line
    <2> QED
      BY <1>1, <1>2
  <1> QED
    BY <1>3

\* Where the string ends: at the last character that is no newline or behind it.
EndsAt(u, l) == u = IF l >= 0 /\ (way = "get" \/ l = v) THEN l ELSE l + 1

LEMMA EndedFound ==
    ASSUME QueryAssumption, Buffers, NEW u, EndsAt(u, LastLine)
    PROVE  u \in 0 .. v /\ Ended[u] = "NUL" /\ \A c \in 0 .. u - 1 : Ended[c] = value[c]
  <1>1. PICK l : l = LastLine
    OBVIOUS
  <1>2. v \in Nat /\ l \in -1 .. v
    BY <1>1, CellsUp, LastLineFound
  <1>3. u \in 0 .. v /\ ((u = l /\ (way = "get" \/ l = v)) \/ u = l + 1)
    BY <1>1, <1>2 DEF EndsAt
  <1>4. 0 .. v \subseteq Cells
    BY CellsUp
  <1>5. Ended[u] = "NUL"
    <2>1. u \in Cells /\ (u \in l + 1 .. v \/ (u = l /\ (way = "get" \/ u = v)))
      BY <1>2, <1>3, <1>4
    <2> QED
      BY <1>1, <2>1 DEF Ended
  <1>6. ASSUME NEW c \in 0 .. u - 1 PROVE Ended[c] = value[c]
    <2>1. c \in Cells
      BY <1>2, <1>3, <1>4
    <2>2. c \notin l + 1 .. v
      BY <1>2, <1>3
    <2>3. ~ (c = l /\ (way = "get" \/ c = v))
      BY <1>1, <1>2, <1>3 DEF EndsAt
    <2> QED
      BY <1>1, <2>1, <2>2, <2>3 DEF Ended
  <1> QED
    BY <1>3, <1>5, <1>6

\* The string is what the buffer has up to there.
LEMMA EndedRead ==
    ASSUME QueryAssumption, Buffers, at = "read"
    PROVE  \E u : /\ EndsAt(u, LastLine) /\ u \in 0 .. v
                  /\ StringIn(Ended) \in Seq(Glyphs) /\ Len(StringIn(Ended)) = u
                  /\ \A k \in 1 .. u : StringIn(Ended)[k] = value[k - 1]
  <1>1. PICK u : EndsAt(u, LastLine)
    BY DEF EndsAt
  <1>2. u \in 0 .. v /\ Ended[u] = "NUL" /\ \A c \in 0 .. u - 1 : Ended[c] = value[c]
    BY <1>1, EndedFound
  <1>3. v \in Nat /\ u \in Nat /\ u \in Cells
    BY <1>2, CellsUp
  <1>4. \A c \in 0 .. u - 1 : Ended[c] \in Glyphs
    <2>1. \A c \in 0 .. v - 1 : value[c] \in Glyphs
      BY DEF Buffers
    <2>2. \A c \in 0 .. u - 1 : c \in 0 .. v - 1
      BY <1>2, <1>3
    <2> QED
      BY <1>2, <2>1, <2>2
  <1>5. PICK cells : cells = Ended
    OBVIOUS
  <1>6. /\ StringIn(cells) \in Seq(Glyphs) /\ Len(StringIn(cells)) = u
        /\ \A k \in 1 .. u : StringIn(cells)[k] = cells[k - 1]
    BY <1>2, <1>3, <1>4, <1>5, Terminated
  <1>7. \A k \in 1 .. u : cells[k - 1] = value[k - 1]
    BY <1>2, <1>3, <1>5
  <1> QED
    BY <1>1, <1>2, <1>5, <1>6, <1>7

\* What is kept of a value, before it is unescaped.
Made(str, val) ==
    \/ str = val
    \/ way = "post" /\ str = Append(val, "\n")
    \/ way = "get" /\ val # <<>> /\ str = SubSeq(val, 1, Len(val) - 1)

LEMMA MadeKept ==
    ASSUME NEW str \in Seq(Glyphs), NEW val \in Seq(Glyphs), Made(str, val)
    PROVE  Unescaped(str) \in Kept(Unescaped(val), TRUE)
  <1>1. PICK r : r = Unescaped(val)
    OBVIOUS
  <1>2. PICK l \in Nat : l = Len(val) /\ DOMAIN val = 1 .. l
    BY LenProperties
  <1>3. r \in Seq(Glyphs) /\ Len(r) = l /\ \A k \in 1 .. l : r[k] = Unescape(val[k])
    BY <1>1, <1>2, UnescapedType DEF Unescaped
  <1>4. PICK q : q = Unescaped(str) /\ q \in Seq(Glyphs) /\ Len(q) = Len(str)
    BY UnescapedType
  <1>5. \A k \in 1 .. Len(str) : q[k] = Unescape(str[k])
    BY <1>4, LenProperties DEF Unescaped
  <1>6. CASE str = val
    BY <1>6 DEF Kept
  <1>7. CASE way = "post" /\ str = Append(val, "\n")
    <2>0. "\n" \in Glyphs /\ Unescape("\n") = "\n"
      BY DEF Glyphs, Unescape
    <2>1. PICK c : c = "\n" /\ c \in Glyphs /\ Unescape(c) = c
      BY <2>0, Zenon
    <2>2. Len(str) = l + 1 /\ (\A k \in 1 .. l : str[k] = val[k]) /\ str[l + 1] = c
      BY <1>2, <1>7, <2>1, AppendProperties
    <2>3. PICK a : a = Append(r, c)
      OBVIOUS
    <2>4. a \in Seq(Glyphs) /\ Len(a) = l + 1 /\ (\A k \in 1 .. l : a[k] = r[k]) /\ a[l + 1] = c
      BY <1>3, <2>1, <2>3, AppendProperties
    <2>5. \A k \in 1 .. Len(q) : q[k] = a[k]
      <3> TAKE k \in 1 .. Len(q)
      <3>1. CASE k = l + 1
        BY <1>4, <1>5, <2>1, <2>2, <2>4, <3>1
      <3>2. CASE k # l + 1
        <4>1. k \in 1 .. l
          BY <1>4, <2>2, <3>2
        <4> QED
          BY <1>3, <1>4, <1>5, <2>2, <2>4, <4>1
      <3> QED
        BY <3>1, <3>2
    <2>6. q = a
      BY <1>4, <2>2, <2>4, <2>5, SeqEqual
    <2> QED
      BY <1>1, <1>4, <1>7, <2>1, <2>3, <2>6 DEF Kept
  <1>8. CASE way = "get" /\ val # <<>> /\ str = SubSeq(val, 1, Len(val) - 1)
    <2>1. l >= 1
      BY <1>2, <1>8, EmptySeq
    <2>2. r # <<>>
      BY <1>3, <2>1, EmptySeq
    <2>3. Len(str) = l - 1 /\ \A k \in 1 .. l - 1 : str[k] = val[k]
      BY <1>2, <1>8, <2>1, LenProperties, ElementOfSeq, SubSeqProperties
    <2>4. PICK a : a = SubSeq(r, 1, l - 1)
      OBVIOUS
    <2>5. a \in Seq(Glyphs) /\ Len(a) = l - 1 /\ \A k \in 1 .. l - 1 : a[k] = r[k]
      BY <1>3, <2>1, <2>4, LenProperties, ElementOfSeq, SubSeqProperties
    <2>6. \A k \in 1 .. Len(q) : q[k] = a[k]
      <3> TAKE k \in 1 .. Len(q)
      <3>1. k \in 1 .. l - 1 /\ k \in 1 .. l /\ k \in 1 .. Len(str)
        BY <1>4, <2>1, <2>3
      <3> QED
        BY <1>3, <1>5, <2>3, <2>5, <3>1
    <2>7. q = a
      BY <1>4, <2>3, <2>5, <2>6, SeqEqual
    <2> QED
      BY <1>1, <1>3, <1>4, <1>8, <2>2, <2>4, <2>7 DEF Kept
  <1> QED
    BY <1>6, <1>7, <1>8 DEF Made

\* A string that has the first characters of a value, as many as the end left.
LEMMA StringMade ==
    ASSUME NEW str \in Seq(Glyphs), NEW val \in Seq(Glyphs), NEW u \in Nat, Len(str) = u,
           \A k \in 1 .. u : str[k] = value[k - 1],
           \A c \in 0 .. Len(val) - 1 : value[c] = val[c + 1],
           \/ u = Len(val)
           \/ way = "post" /\ u = Len(val) + 1 /\ value[Len(val)] = "\n"
           \/ way = "get" /\ u + 1 = Len(val)
    PROVE  Made(str, val)
  <1>1. PICK l \in Nat : l = Len(val)
    BY LenProperties
  <1>2. \A k \in 1 .. l : value[k - 1] = val[k]
    <2> TAKE k \in 1 .. l
    <2>1. k - 1 \in 0 .. Len(val) - 1 /\ (k - 1) + 1 = k
      BY <1>1
    <2> QED
      BY <2>1
  <1>3. CASE u = l
    <2>1. \A k \in 1 .. Len(str) : str[k] = val[k]
      BY <1>1, <1>2, <1>3
    <2>2. str = val
      BY <1>1, <1>3, <2>1, SeqEqual
    <2> QED
      BY <2>2 DEF Made
  <1>4. CASE way = "post" /\ u = l + 1 /\ value[l] = "\n"
    <2>1. PICK c : c = "\n" /\ c \in Glyphs
      BY DEF Glyphs
    <2>2. PICK a : a = Append(val, c)
      OBVIOUS
    <2>3. a \in Seq(Glyphs) /\ Len(a) = l + 1 /\ (\A k \in 1 .. l : a[k] = val[k]) /\ a[l + 1] = c
      BY <1>1, <2>1, <2>2, AppendProperties
    <2>4. \A k \in 1 .. Len(str) : str[k] = a[k]
      <3> TAKE k \in 1 .. Len(str)
      <3>1. CASE k = l + 1
        BY <1>1, <1>4, <2>1, <2>3, <3>1
      <3>2. CASE k # l + 1
        <4>1. k \in 1 .. l
          BY <1>4, <3>2
        <4> QED
          BY <1>2, <1>4, <2>3, <4>1
      <3> QED
        BY <3>1, <3>2
    <2>5. str = a
      BY <1>4, <2>3, <2>4, SeqEqual
    <2> QED
      BY <1>4, <2>1, <2>2, <2>5 DEF Made
  <1>5. CASE way = "get" /\ u + 1 = l
    <2>1. l >= 1 /\ val # <<>>
      BY <1>1, <1>5, EmptySeq
    <2>2. PICK a : a = SubSeq(val, 1, l - 1)
      OBVIOUS
    <2>3. a \in Seq(Glyphs) /\ Len(a) = l - 1 /\ \A k \in 1 .. l - 1 : a[k] = val[k]
      BY <1>1, <2>1, <2>2, LenProperties, ElementOfSeq, SubSeqProperties
    <2>4. u = l - 1 /\ Len(str) = Len(a)
      BY <1>5, <2>3
    <2>5. \A k \in 1 .. Len(str) : str[k] = a[k]
      BY <1>2, <2>3, <2>4
    <2>6. str = a
      BY <2>3, <2>4, <2>5, SeqEqual
    <2> QED
      BY <1>1, <1>5, <2>1, <2>2, <2>6 DEF Made
  <1> QED
    BY <1>1, <1>3, <1>4, <1>5

\* At the end of the text the last field is at its end.
Last(n) ==
    \/ AtKey(n) /\ pairs[n].bare
    \/ PastKey(n)
    \/ InValue(n) /\ v = Len(pairs[n].val)
    \/ PastValue(n)

LEMMA LastHere ==
    ASSUME QueryAssumption, Buffers, Sent, s > Len(input), NEW n \in DOMAIN pairs, Here(n)
    PROVE  n = Len(pairs) /\ Last(n)
  <1>1. s \in Nat /\ Len(input) \in Nat
    BY Place DEF Buffers
  <1>2. ~ (s <= Len(input)) /\ s # Len(input)
    BY <1>1
  <1>3. ~ AtStart(n)
    BY <1>2, KeyNext
  <1>4. Ends(n) => n = Len(pairs)
    BY <1>2 DEF Ends
  <1>5. CASE AtKey(n)
    BY <1>2, <1>4, <1>5, AfterKey DEF Last
  <1>6. CASE InValue(n)
    BY <1>2, <1>4, <1>6, AfterValue DEF Last
  <1>7. CASE PastKey(n) \/ PastValue(n)
    BY <1>7 DEF Last, PastKey, PastValue
  <1> QED
    BY <1>3, <1>5, <1>6, <1>7 DEF Here

\* The string that is written at the end is the last value, but for a newline
\* behind it and, in a get, its last character.
LEMMA LastString ==
    ASSUME QueryAssumption, Buffers, Sent, at = "read", NEW n \in DOMAIN pairs,
           Last(n), ~ pairs[n].bare
    PROVE  Made(StringIn(Ended), pairs[n].val)
  <1>1. PICK u : /\ EndsAt(u, LastLine) /\ u \in 0 .. v
                 /\ StringIn(Ended) \in Seq(Glyphs) /\ Len(StringIn(Ended)) = u
                 /\ \A k \in 1 .. u : StringIn(Ended)[k] = value[k - 1]
    BY EndedRead
  <1>2. PICK str \in Seq(Glyphs) : str = StringIn(Ended)
    BY <1>1
  <1>3. PICK val \in Seq(Glyphs) : val = pairs[n].val /\ val \in Seq(Tokens)
    BY Place, Distinct, SeqMonotonic
  <1>4. PICK l : /\ l = LastLine /\ l \in -1 .. v
                 /\ \A e \in l + 1 .. v : value[e] = "\n"
                 /\ l >= 0 => value[l] # "\n"
    BY CellsUp, LastLineFound
  <1>5. PICK m \in Nat : m = Len(val)
    BY LenProperties
  <1>6. v \in Nat /\ u \in Nat
    BY <1>1, CellsUp
  <1>7. u = IF l >= 0 /\ (way = "get" \/ l = v) THEN l ELSE l + 1
    BY <1>1, <1>4 DEF EndsAt
  <1>8. \/ InValue(n) /\ v = m
        \/ PastValue(n) /\ v = m + 1
    <2>1. (InValue(n) /\ v = Len(pairs[n].val)) \/ PastValue(n)
      BY DEF Last, PastKey
    <2>2. PastValue(n) => v = Len(pairs[n].val) + 1
      BY DEF PastValue
    <2>3. Len(pairs[n].val) = m
      BY <1>3, <1>5
    <2>4. ASSUME InValue(n), v = Len(pairs[n].val) PROVE v = m
      BY <2>3, <2>4, Zenon
    <2>5. ASSUME PastValue(n) PROVE v = m + 1
      BY <2>2, <2>3, <2>5
    <2> QED
      BY <2>1, <2>4, <2>5
  <1>9. \A c \in 0 .. m - 1 : value[c] = val[c + 1]
    <2>1. CASE InValue(n) /\ v = m
      BY <1>3, <2>1 DEF InValue
    <2>2. CASE PastValue(n) /\ v = m + 1
      <3>1. 0 .. v - 2 = 0 .. m - 1
        BY <1>5, <2>2
      <3> QED
        BY <1>3, <2>2, <3>1 DEF PastValue
    <2> QED
      BY <1>8, <2>1, <2>2
  \* No character of the value is a newline yet.
  <1>10. \A c \in 0 .. m - 1 : value[c] # "\n"
    <2> TAKE c \in 0 .. m - 1
    <2>1. c + 1 \in 1 .. Len(val)
      BY <1>5
    <2>2. val[c + 1] \in Tokens
      BY <1>3, <2>1, ElementOfSeq
    <2> QED
      BY <1>9, <2>2, Distinct
  <1>11. l >= m - 1
    <2> SUFFICES ASSUME l < m - 1 PROVE FALSE
      BY <1>4, <1>5
    <2>1. m - 1 \in l + 1 .. v /\ m - 1 \in 0 .. m - 1
      BY <1>4, <1>5, <1>6, <1>8
    <2> QED
      BY <1>4, <1>10, <2>1
  <1>12. \/ u = m
         \/ way = "post" /\ u = m + 1 /\ value[m] = "\n"
         \/ way = "get" /\ u + 1 = m
    <2>1. CASE InValue(n) /\ v = m
      <3>1. l \in {m - 1, m}
        BY <1>4, <1>5, <1>11, <2>1
      <3>2. CASE l = m
        BY <1>5, <1>7, <2>1, <3>2
      <3>3. CASE l = m - 1
        BY <1>5, <1>7, <2>1, <3>3
      <3> QED
        BY <3>1, <3>2, <3>3
    <2>2. CASE PastValue(n) /\ v = m + 1
      <3>1. way = "post" /\ value[m] = "\n"
        <4>1. v - 1 = m
          BY <1>5, <2>2
        <4> QED
          BY <2>2, <4>1 DEF PastValue, Newline
      <3>2. l # m
        BY <1>4, <1>5, <3>1
      <3>3. l \in {m - 1, m + 1}
        BY <1>4, <1>5, <1>11, <2>2, <3>2
      <3>4. CASE l = m + 1
        BY <1>5, <1>7, <2>2, <3>1, <3>4
      <3>5. CASE l = m - 1
        BY <1>5, <1>7, <2>2, <3>1, <3>5
      <3> QED
        BY <3>3, <3>4, <3>5
    <2> QED
      BY <1>8, <2>1, <2>2
  <1>13. Len(str) = u /\ \A k \in 1 .. u : str[k] = value[k - 1]
    BY <1>1, <1>2
  <1>14. \A c \in 0 .. Len(val) - 1 : value[c] = val[c + 1]
    BY <1>5, <1>9
  <1>15. \/ u = Len(val)
         \/ way = "post" /\ u = Len(val) + 1 /\ value[Len(val)] = "\n"
         \/ way = "get" /\ u + 1 = Len(val)
    BY <1>5, <1>12
  <1>16. Made(str, val)
    BY <1>6, <1>13, <1>14, <1>15, StringMade
  <1> QED
    BY <1>2, <1>3, <1>16

LEMMA LastPairFound ==
    ASSUME QueryAssumption, Buffers, Sent, NEW f, \E n \in DOMAIN pairs : pairs[n].key = f
    PROVE  /\ LastPair(f) \in DOMAIN pairs /\ pairs[LastPair(f)].key = f
           /\ \A m \in DOMAIN pairs : pairs[m].key = f => m <= LastPair(f)
  <1> DEFINE Of(n) == pairs[n].key = f /\ \A m \in DOMAIN pairs : pairs[m].key = f => m <= n
  <1>1. PICK N \in Nat : N = Len(pairs) /\ DOMAIN pairs = 1 .. N
    BY Place
  <1>2. \E n \in DOMAIN pairs : Of(n)
    \* The one with the fewest behind it.
    <2> DEFINE T == {d \in 0 .. N - 1 : pairs[N - d].key = f}
    <2>1. T # {}
      <3>1. PICK n \in 1 .. N : pairs[n].key = f
        BY <1>1
      <3>2. N - n \in 0 .. N - 1 /\ N - (N - n) = n
        BY <1>1, <3>1
      <3>3. N - n \in T
        BY <3>1, <3>2
      <3> HIDE DEF T
      <3> QED
        BY <3>3
    <2>2. PICK d \in T : \A e \in T : ~ (e < d)
      <3>1. T \subseteq Nat
        OBVIOUS
      <3> HIDE DEF T
      <3> QED
        BY <2>1, <3>1, LeastNumber
    <2>3. d \in 0 .. N - 1 /\ pairs[N - d].key = f /\ N - d \in 1 .. N
      BY <1>1, <2>2
    <2>4. ASSUME NEW m \in 1 .. N, pairs[m].key = f PROVE m <= N - d
      <3>1. N - m \in 0 .. N - 1 /\ N - (N - m) = m
        BY <1>1
      <3>2. N - m \in T
        BY <2>4, <3>1
      <3>3. ~ (N - m < d)
        BY <2>2, <3>2
      <3> QED
        BY <1>1, <2>3, <3>1, <3>3
    <2>5. Of(N - d)
      BY <1>1, <2>3, <2>4
    <2> HIDE DEF Of
    <2> QED
      BY <1>1, <2>3, <2>5
  <1>3. LastPair(f) = CHOOSE n \in DOMAIN pairs : Of(n)
    BY DEF LastPair
  <1>4. LastPair(f) \in DOMAIN pairs /\ Of(LastPair(f))
    <2> HIDE DEF Of
    <2> QED
      BY <1>2, <1>3
  <1> QED
    BY <1>4

\* The fields r are what was sent.
AsSent(r) ==
    \A f \in Plain \cap Keys : \A n \in DOMAIN pairs :
        (\E l \in DOMAIN pairs : pairs[l].key = f) /\ n = LastPair(f) /\ ~ pairs[n].bare =>
            \E str \in Kept(Unescaped(pairs[n].val), n = Len(pairs)) : r[f] = Cut(f, str)

LEMMA AsSentNext ==
    ASSUME QueryAssumption, Buffers, Sent, UNCHANGED <<way, pairs>>, AsSent(fields')
    PROVE  FieldsAsSent'
  <1>1. \A f : LastPair(f)' = LastPair(f)
    BY DEF LastPair
  <1>2. ASSUME NEW q, NEW b PROVE Kept(q, b)' = Kept(q, b)
    BY DEF Kept
  <1>3. ASSUME NEW f \in Plain \cap Keys, \E l \in DOMAIN pairs : pairs[l].key = f,
               NEW n, n = LastPair(f), ~ pairs[n].bare
        PROVE  \E str \in Kept(Unescaped(pairs[n].val), n = Len(pairs)) : fields'[f] = Cut(f, str)
    BY <1>3, LastPairFound DEF AsSent
  <1>4. SUFFICES ASSUME NEW f \in Plain \cap Keys, \E l \in DOMAIN pairs : pairs[l].key = f,
                        NEW n, n = LastPair(f), ~ pairs[n].bare
                 PROVE  \E str \in Kept(Unescaped(pairs[n].val), n = Len(pairs))' :
                            fields'[f] = Cut(f, str)
    BY <1>1 DEF FieldsAsSent, Plain, Cut
  <1>5. Kept(Unescaped(pairs[n].val), n = Len(pairs))' = Kept(Unescaped(pairs[n].val), n = Len(pairs))
    BY DEF Kept, Unescaped, Unescape
  <1> QED
    BY <1>3, <1>4, <1>5

LEMMA FinishStep ==
    ASSUME QueryAssumption, QueryInv, Finish
    PROVE  QueryInv'
  <1>1. at = "read" /\ at' = "done" /\ s > Len(input)
    BY DEF Finish
  <1>2. PICK n \in DOMAIN pairs : Here(n)
    BY <1>1 DEF QueryInv
  <1>3. Buffers /\ Sent
    BY DEF QueryInv
  <1>4. UNCHANGED <<way, pairs, input, s, key, target, v>>
    BY DEF Finish
  <1>5. Sent'
    BY <1>3, <1>4, SentStays
  <1>6. n = Len(pairs) /\ Last(n) /\ Recorded(n)
    BY <1>1, <1>2, <1>3, LastHere DEF Here
  <1>7. PICK str \in Seq(Glyphs) : str = StringIn(Ended)
    BY <1>1, <1>3, EndedRead
  <1>8. fields' = Stored(key, Unescaped(str)) /\ value' = UnescapedIn(Ended)
    BY <1>7 DEF Finish, WriteValue
  <1>9. pairs[n].key \in Keys /\ pairs[n].bare \in BOOLEAN /\ pairs[n].val \in Seq(Glyphs)
    BY <1>3, Place, Distinct, SeqMonotonic
  <1>10. key \in Seq(Symbols) /\ key \in {<<pairs[n].key>>, Append(<<pairs[n].key>>, "\n")}
    <2>1. PICK k : k = pairs[n].key /\ k \in Symbols
      BY <1>9 DEF Symbols
    <2>2. PICK c : c = "\n" /\ c \in Symbols
      BY DEF Symbols
    <2>3. <<k>> \in Seq(Symbols) /\ Append(<<k>>, c) \in Seq(Symbols)
      BY <2>1, <2>2
    <2>4. key \in {<<pairs[n].key>>, Append(<<pairs[n].key>>, "\n")}
      BY <1>6 DEF Last, AtKey, InValue, PastKey, PastValue
    <2> QED
      BY <2>1, <2>2, <2>3, <2>4
  <1>11. Keeps(key, Unescaped(str), fields')
    <2>1. PICK q \in Seq(Glyphs) : q = Unescaped(str)
      BY <1>7, UnescapedType
    <2>2. PICK k \in Seq(Symbols) : k = key
      BY <1>10
    <2>3. fields \in [Fields -> Seq(Chars)]
      BY <1>3 DEF Buffers
    <2>4. Keeps(k, q, Stored(k, q))
      BY <2>3, StoredFields
    <2> QED
      BY <1>8, <2>1, <2>2, <2>4
  <1>12. Buffers'
    <2>1. fields' \in [Fields -> Seq(Chars)]
      BY <1>11 DEF Keeps
    <2>2. DOMAIN value' = Cells
      BY <1>8 DEF UnescapedIn
    <2> QED
      BY <1>1, <1>3, <1>4, <2>1, <2>2 DEF Buffers
  <1>13. s' \in 1 .. Len(input') + 1 /\ target' \in {"key", "value"}
    <2>1. s \in Nat /\ Len(input) \in Nat
      BY <1>3, Place DEF Buffers
    <2>2. target \in {"key", "value"}
      BY <1>6 DEF Last, AtKey, InValue, PastKey, PastValue
    <2>3. s = Len(input) + 1
      <3>1. CASE AtKey(n) /\ pairs[n].bare
        BY <1>1, <1>3, <2>1, <3>1, AfterKey DEF Ends
      <3>2. CASE InValue(n) /\ v = Len(pairs[n].val)
        <4>1. ~ (v < Len(pairs[n].val))
          BY <1>3, <3>2, CellsUp
        <4> QED
          BY <1>1, <1>3, <2>1, <3>2, <4>1, AfterValue DEF Ends
      <3>3. CASE PastKey(n) \/ PastValue(n)
        BY <3>3 DEF PastKey, PastValue
      <3> QED
        BY <1>6, <3>1, <3>2, <3>3 DEF Last
    <2> QED
      BY <1>4, <2>1, <2>2, <2>3
  <1>14. FieldsAsSent'
    <2> SUFFICES ASSUME NEW f \in Plain \cap Keys, \E m \in DOMAIN pairs : pairs[m].key = f,
                        NEW m \in DOMAIN pairs, m = LastPair(f), ~ pairs[m].bare
                 PROVE  \E q \in Kept(Unescaped(pairs[m].val), m = Len(pairs)) :
                            fields'[f] = Cut(f, q)
      <3>1. AsSent(fields')
        BY DEF AsSent
      <3> QED
        BY <1>3, <1>4, <3>1, AsSentNext
    <2>1. /\ m \in DOMAIN pairs /\ pairs[m].key = f
          /\ \A l \in DOMAIN pairs : pairs[l].key = f => l <= m
      BY <1>3, LastPairFound
    <2>2. fields'[f] = IF key = <<f>> THEN Cut(f, Unescaped(str)) ELSE fields[f]
      BY <1>11 DEF Keeps
    <2>3. PICK N \in Nat : N = Len(pairs) /\ N = n /\ DOMAIN pairs = 1 .. N
      BY <1>3, <1>6, Place
    <2>4. CASE m = n
      <3>1. key = <<f>>
        BY <1>6, <2>1, <2>4 DEF Last, InValue, PastKey, PastValue, AtKey
      <3>2. Made(str, pairs[m].val)
        BY <1>1, <1>3, <1>6, <1>7, <2>4, LastString
      <3>3. Unescaped(str) \in Kept(Unescaped(pairs[m].val), TRUE)
        BY <1>9, <2>4, <3>2, MadeKept
      <3>4. m = Len(pairs)
        BY <1>6, <2>4
      <3> QED
        BY <2>2, <3>1, <3>3, <3>4
    <2>5. CASE m # n
      <3>1. m \in 1 .. N - 1 /\ \A l \in m + 1 .. N - 1 : pairs[l].key # pairs[m].key
        BY <2>1, <2>3, <2>5
      <3>2. pairs[n].key # f
        BY <2>1, <2>3, <2>5
      <3>3. fields[f] = Cut(f, Unescaped(pairs[m].val))
        BY <1>6, <2>1, <2>3, <3>1 DEF Recorded
      <3>4. key # <<f>>
        <4>1. <<pairs[n].key>> # <<f>>
          BY <3>2
        <4>2. Append(<<pairs[n].key>>, "\n") # <<f>>
          <5>1. PICK k, c : k = pairs[n].key /\ c = "\n"
            OBVIOUS
          <5>2. Len(Append(<<k>>, c)) = 2 /\ Len(<<f>>) = 1
            OBVIOUS
          <5> QED
            BY <5>1, <5>2
        <4> QED
          BY <1>10, <4>1, <4>2
      <3>5. Unescaped(pairs[m].val) \in Kept(Unescaped(pairs[m].val), m = Len(pairs))
        BY DEF Kept
      <3> QED
        BY <2>2, <3>3, <3>4, <3>5
    <2> QED
      BY <2>4, <2>5
  <1>15. OverrunOnlyIf'
    BY <1>1 DEF OverrunOnlyIf
  <1> QED
    BY <1>1, <1>5, <1>12, <1>13, <1>14, <1>15 DEF QueryInv

LEMMA StutterStep ==
    ASSUME QueryAssumption, QueryInv, UNCHANGED vars
    PROVE  QueryInv'
  <1>1. Buffers'
    BY DEF QueryInv, Buffers, vars
  <1>2. Sent' /\ Start' = Start
    BY SentStays DEF QueryInv, vars
  <1>3. ASSUME NEW n, Here(n) PROVE Here(n)'
    BY <1>2, <1>3 DEF Here, Recorded, AtStart, AtKey, InValue, PastKey, PastValue, Newline, vars
  <1>4. FieldsAsSent'
    <2>1. CASE at = "done"
      <3>1. AsSent(fields)
        BY <2>1 DEF QueryInv, FieldsAsSent, AsSent, Plain, Cut
      <3>2. AsSent(fields')
        BY <3>1 DEF vars
      <3> QED
        BY <3>2, AsSentNext DEF QueryInv, vars
    <2>2. CASE at # "done"
      BY <2>2 DEF FieldsAsSent, vars
    <2> QED
      BY <2>1, <2>2
  <1>5. OverrunOnlyIf'
    BY DEF QueryInv, OverrunOnlyIf, vars
  <1>6. Fitting => Fitting'
    BY DEF Fitting, vars
  <1> QED
    BY <1>1, <1>2, <1>3, <1>4, <1>5, <1>6 DEF QueryInv, vars

-----------------------------------------------------------------------------
(* Outside the buffers. *)

\* Where the parser can be at field n.
LEMMA HereTypes ==
    ASSUME QueryAssumption, Buffers, Sent, NEW n \in DOMAIN pairs, Here(n)
    PROVE  s \in 1 .. Len(input) + 1 /\ target \in {"key", "value"}
  <1>1. s \in Nat /\ Len(input) \in Nat
    BY Place DEF Buffers
  <1>2. target \in {"key", "value"}
    BY DEF Here, AtStart, AtKey, InValue, PastKey, PastValue
  <1>3. PICK x \in Nat : x = Start[n] /\ x # 0
    BY Place, StartsAtOne
  <1>4. CASE AtStart(n)
    BY <1>1, <1>2, <1>3, <1>4, KeyNext DEF AtStart
  <1>5. CASE AtKey(n)
    <2>1. s <= Len(input) + 1
      BY <1>1, <1>5, AfterKey DEF Ends
    <2> QED
      BY <1>1, <1>2, <1>3, <1>5, <2>1 DEF AtKey
  <1>6. CASE InValue(n)
    <2>1. s <= Len(input) + 1
      BY <1>1, <1>6, AfterValue DEF Ends
    <2>2. v \in Nat
      BY CellsUp
    <2>3. s = x + 2 + v
      BY <1>3, <1>6 DEF InValue
    <2> QED
      BY <1>1, <1>2, <1>3, <2>1, <2>2, <2>3
  <1>7. CASE PastKey(n) \/ PastValue(n)
    BY <1>1, <1>2, <1>7 DEF PastKey, PastValue
  <1> QED
    BY <1>4, <1>5, <1>6, <1>7 DEF Here

\* A key that is too long was sent.
LEMMA LongKey ==
    ASSUME QueryAssumption, Buffers, Sent, NEW n \in DOMAIN pairs, Here(n),
           Other, target = "key", input[s] = "long"
    PROVE  pairs[n].key = "long"
  <1>1. s \in Nat /\ Len(input) \in Nat /\ s <= Len(input) /\ input[s] \notin {"&", "=", "\n"}
    BY Place DEF Buffers, Other
  <1>2. ~ AtKey(n)
    <2> SUFFICES ASSUME AtKey(n) PROVE FALSE
      OBVIOUS
    <2>1. Ends(n)
      BY <1>1, AfterKey
    <2> QED
      BY <1>1, <2>1 DEF Ends, Newline
  <1>3. ~ InValue(n) /\ ~ PastKey(n) /\ ~ PastValue(n)
    BY <1>1 DEF InValue, PastKey, PastValue
  <1> QED
    BY <1>2, <1>3, KeyNext DEF Here

\* Only a value of an address finds no room, and it is too long itself.
LEMMA NoRoom ==
    ASSUME QueryAssumption, Buffers, Sent, Fitting, NEW n \in DOMAIN pairs, Here(n), v >= Room
    PROVE  way = "get" /\ Len(pairs[n].val) >= ValueSize
  <1>1. v \in Nat /\ s \in Nat /\ Len(input) \in Nat /\ s <= Len(input) + 1
    BY HereTypes, CellsUp, Place DEF Buffers
  <1>2. way = "get"
    <2> SUFFICES ASSUME way # "get" PROVE FALSE
      OBVIOUS
    <2>1. v >= Len(input)
      BY DEF Room
    <2>2. v > 0 => v + 3 <= s
      BY DEF Buffers
    <2>3. Len(input) # 0
      <3>1. Start[n] + Size(n) - 1 <= Len(input)
        BY DEF Sent
      <3>2. Size(n) \in Nat /\ Size(n) >= 1
        BY Place
      <3>3. PICK x \in Nat, y \in Nat : x = Start[n] /\ y = Size(n) /\ x # 0 /\ y # 0
        BY <3>2, Place, StartsAtOne
      <3> QED
        BY <3>1, <3>3
    <2> QED
      BY <1>1, <2>1, <2>2, <2>3
  <1>3. target = "value" /\ v >= ValueSize
    BY <1>1, <1>2, HereTypes, Bounds DEF Fitting, Room
  <1>4. InValue(n)
    BY <1>2, <1>3 DEF Here, AtStart, AtKey, PastKey, PastValue, Newline
  <1>5. v <= Len(pairs[n].val) /\ Len(pairs[n].val) \in Nat /\ ValueSize \in Nat
    BY <1>4, Place, Bounds DEF InValue
  <1> QED
    BY <1>1, <1>2, <1>3, <1>5

\* Only the newlines before an empty value go on to the first cell.
LEMMA NothingButNewlines ==
    ASSUME QueryAssumption, Buffers, Sent, s > Len(input), NEW n \in DOMAIN pairs, Here(n),
           BeforeValue
    PROVE  n = Len(pairs) /\ way = "get" /\ pairs[n].val = <<>>
  <1>1. n = Len(pairs) /\ Last(n)
    BY LastHere
  <1>2. way = "get" /\ LastLine = -1
    BY DEF BeforeValue
  <1>3. CASE pairs[n].bare
    <2>1. PICK N \in 1 .. MaxPairs : pairs \in [1 .. N -> Pairs]
      BY DEF Buffers
    <2>2. pairs[n] \in Pairs
      BY <2>1
    <2> QED
      BY <1>1, <1>2, <1>3, <2>2 DEF Pairs
  <1>4. CASE ~ pairs[n].bare
    <2>1. InValue(n) /\ v = Len(pairs[n].val)
      BY <1>1, <1>2, <1>4 DEF Last, PastKey, PastValue, Newline
    <2>2. PICK str \in Seq(Tokens) : str = pairs[n].val
      BY Place
    <2> SUFFICES ASSUME str # <<>> PROVE FALSE
      BY <1>1, <1>2, <2>2
    <2>3. PICK m \in Nat : m = Len(str) /\ m # 0
      BY LenProperties, EmptySeq
    <2>4. value[0] = str[1]
      BY <2>1, <2>2, <2>3 DEF InValue
    <2>5. str[1] \in Tokens
      BY <2>3, ElementOfSeq
    <2>6. v \in Nat /\ 0 \in -1 + 1 .. v
      BY CellsUp
    <2>7. value[0] = "\n"
      BY <1>2, <2>6, LastLineFound
    <2> QED
      BY <2>4, <2>5, <2>7, Distinct
  <1> QED
    BY <1>3, <1>4

LEMMA OverrunStep ==
    ASSUME QueryAssumption, QueryInv, Overrun
    PROVE  QueryInv'
  <1>1. at = "read" /\ at' = "overrun"
    BY DEF Overrun, Other, Char
  <1>2. PICK n \in DOMAIN pairs : Here(n)
    BY <1>1 DEF QueryInv
  <1>3. Buffers /\ Sent /\ Fitting
    BY <1>1 DEF QueryInv
  <1>4. UNCHANGED <<way, pairs, input, s, key, target, value, v, fields>>
    BY DEF Overrun
  <1>5. Buffers'
    BY <1>1, <1>3, <1>4 DEF Buffers
  <1>6. Sent'
    BY <1>3, <1>4, SentStays
  <1>7. s' \in 1 .. Len(input') + 1 /\ target' \in {"key", "value"}
    BY <1>2, <1>3, <1>4, HereTypes
  <1>8. FieldsAsSent'
    BY <1>1 DEF FieldsAsSent
  <1>9. \/ pairs[n].key = "long"
        \/ way = "get" /\ Len(pairs[n].val) >= ValueSize
        \/ way = "get" /\ n = Len(pairs) /\ pairs[n].val = <<>>
    <2>1. CASE Other /\ target = "key" /\ input[s] = "long"
      BY <1>2, <1>3, <2>1, LongKey
    <2>2. CASE v >= Room
      BY <1>2, <1>3, <2>2, NoRoom
    <2>3. CASE s > Len(input) /\ BeforeValue
      BY <1>2, <1>3, <2>3, NothingButNewlines
    <2> QED
      BY <2>1, <2>2, <2>3 DEF Overrun
  <1>10. OverrunOnlyIf'
    BY <1>4, <1>9 DEF OverrunOnlyIf
  <1> QED
    BY <1>1, <1>5, <1>6, <1>7, <1>8, <1>10 DEF QueryInv

-----------------------------------------------------------------------------
(* What the invariant says. *)

LEMMA QueryStep ==
    ASSUME QueryAssumption, QueryInv, [Next]_vars
    PROVE  QueryInv'
  BY PairEndStep, EqualsStep, KeyCharStep, ValueCharStep, FinishStep, OverrunStep, StutterStep DEF Next

LEMMA QueryTypes ==
    ASSUME QueryAssumption, QueryInv
    PROVE  TypeOK
  <1>1. Buffers /\ Sent
    BY DEF QueryInv
  <1>5. s \in 1 .. Len(input) + 1 /\ target \in {"key", "value"}
    BY <1>1, HereTypes DEF QueryInv
  <1>6. v \in Cells
    BY <1>1, CellsUp
  <1> QED
    BY <1>1, <1>5, <1>6 DEF TypeOK, Buffers

LEMMA QueryFields == QueryInv => FieldsAsSent /\ OverrunOnlyIf
  BY DEF QueryInv

LEMMA QueryClean == QueryInv => NothingStale
  <1> SUFFICES ASSUME QueryInv, NEW f \in Fields, NEW k \in DOMAIN fields[f]
               PROVE  fields[f][k] # "stale"
    BY DEF NothingStale
  <1>1. fields[f] \in Seq(Chars)
    BY DEF QueryInv, Buffers
  <1>2. fields[f][k] \in Chars
    BY <1>1, LenProperties, ElementOfSeq
  <1> QED
    BY <1>2 DEF Chars, Glyphs

-----------------------------------------------------------------------------
(* The theorems. *)

LEMMA QueryInvHolds ==
    ASSUME QueryAssumption
    PROVE  Spec => []QueryInv
  BY InitQuery, QueryStep, PTL DEF Spec

\* The parser's places stay inside what was sent, whatever the request
\* (ngx_http_dbrelay_module.c:603 to 833).
THEOREM QueryTypeCorrect ==
    ASSUME QueryAssumption
    PROVE  Spec => []TypeOK
  BY QueryTypes, QueryInvHolds, PTL

\* Each of the plain fields of a request that was read to its end and last sent
\* with a value has that value, unescaped once and cut to its room, for any
\* number of fields, values of any length and buffers of any size, although one
\* buffer serves them all and is never cleared (ngx_http_dbrelay_module.c:715 to
\* 732).
THEOREM FieldsAsSentHolds ==
    ASSUME QueryAssumption
    PROVE  Spec => []FieldsAsSent
  BY QueryFields, QueryInvHolds, PTL

\* The parser leaves the buffer for values only for a value in the address that
\* has no room in it, or when the address ends with an empty one; for a posted
\* one never.  It leaves the buffer for keys only for a key that is too long
\* (ngx_http_dbrelay_module.c:689 to 833).
THEOREM OverrunOnlyIfHolds ==
    ASSUME QueryAssumption
    PROVE  Spec => []OverrunOnlyIf
  BY QueryFields, QueryInvHolds, PTL

\* No field has a character that was in the buffers before the request.
THEOREM NothingStaleHolds ==
    ASSUME QueryAssumption
    PROVE  Spec => []NothingStale
  BY QueryClean, QueryInvHolds, PTL

=============================================================================
