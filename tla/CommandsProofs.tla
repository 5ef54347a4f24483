--------------------------- MODULE CommandsProofs ---------------------------
(***************************************************************************)
(* For every message, of any number of words, for any users and for any    *)
(* platforms, parameters, tests and workflows that are known: the command  *)
(* that runs is the one typed, what is launched fits together, and access  *)
(* to GCP is for members. The parts, in their order: induction on numbers; *)
(* what ParseImageInput and Join compute; the table of the commands; what  *)
(* each handler asks the manager for; which command matches, and how its   *)
(* parameters divide the message; the invariant and the theorems.          *)
(***************************************************************************)
EXTENDS Commands, TLAPS, FiniteSetTheorems, WellFoundedInduction, SequenceTheorems

-----------------------------------------------------------------------------
(* Induction. The theorems of the library on induction take the statement  *)
(* as an operator; the one on least elements takes a set, and so induction *)
(* is on the set of the numbers for which the statement holds.             *)

\* A set of natural numbers that is not empty has a least element.
LEMMA LeastNatural ==
    ASSUME NEW T, T \subseteq Nat, T # {}
    PROVE  \E x \in T : \A y \in T : x <= y
<1> DEFINE R == OpToRel(<, Nat)
<1>1. IsWellFoundedOn(R, Nat)  BY NatLessThanWellFounded
<1>2. \A x, y \in Nat : x < y => <<x, y>> \in R  BY DEF OpToRel
<1> HIDE DEF R
<1>3. PICK x \in T : \A y \in T : ~(<<y, x>> \in R)
  BY <1>1, WFMin
<1>4. \A y \in T : ~(y < x)  BY <1>2, <1>3
<1>5. QED  BY <1>4

\* What holds for 0 and with every number below n for the next one holds up
\* to n.
LEMMA Induction ==
    ASSUME NEW n \in Nat, NEW P, 0 \in P,
           \A k \in 0..(n - 1) : k \in P => k + 1 \in P
    PROVE  0..n \subseteq P
<1> DEFINE T == {k \in 0..n : k \notin P}
<1>1. SUFFICES ASSUME T # {} PROVE FALSE
  OBVIOUS
<1>2. T \subseteq Nat  OBVIOUS
<1>3. PICK x \in T : \A y \in T : x <= y  BY <1>1, <1>2, LeastNatural
<1>4. x # 0 /\ x - 1 \in 0..(n - 1)  OBVIOUS
<1>5. x - 1 \in P  BY <1>3, <1>4
<1>6. (x - 1) + 1 \in P  BY <1>4, <1>5
<1>7. QED  BY <1>6

-----------------------------------------------------------------------------
(* ParseImageInput drops the empty parts and nothing else.                 *)

\* A function that counts the parts up as kept of ParseImageInput does.
Keeps(kept, value, m) ==
    kept = [n \in 0..m |->
              IF n = 0 THEN <<>>
              ELSE IF value[n] = <<>> THEN kept[n - 1] ELSE Append(kept[n - 1], value[n])]

\* There is one, for every length.
LEMMA KeepsExists ==
    ASSUME NEW value, NEW m \in Nat
    PROVE  \E kept : Keeps(kept, value, m)
<1> DEFINE P == {k \in Nat : \E kept : Keeps(kept, value, k)}
<1>1. 0 \in P
  <2> DEFINE none == [n \in 0..0 |-> <<>>]
  <2>1. Keeps(none, value, 0)  BY DEF Keeps
  <2>2. QED  BY <2>1
<1>2. ASSUME NEW k \in 0..(m - 1), k \in P
      PROVE  k + 1 \in P
  <2>1. PICK kept : Keeps(kept, value, k)  BY <1>2
  <2> DEFINE more == [n \in 0..(k + 1) |->
                        IF n <= k THEN kept[n]
                        ELSE IF value[n] = <<>> THEN kept[n - 1]
                        ELSE Append(kept[n - 1], value[n])]
  <2>2. Keeps(more, value, k + 1)
    <3>1. \A n \in 0..k : kept[n] = IF n = 0 THEN <<>>
              ELSE IF value[n] = <<>> THEN kept[n - 1] ELSE Append(kept[n - 1], value[n])
      BY <2>1 DEF Keeps
    <3>2. \A n \in 0..(k + 1) : more[n] = IF n = 0 THEN <<>>
              ELSE IF value[n] = <<>> THEN more[n - 1] ELSE Append(more[n - 1], value[n])
      BY <3>1
    <3>3. QED  BY <3>2 DEF Keeps
  <2>3. QED  BY <2>2
<1>3. QED
  <2>1. 0..m \subseteq P
    <3> HIDE DEF P
    <3>1. QED  BY <1>1, <1>2, Induction
  <2>2. QED  BY <2>1

LEMMA ParseImageInputKeeps ==
    ASSUME NEW S, NEW value \in Seq(S)
    PROVE  \E kept : Keeps(kept, value, Len(value)) /\ ParseImageInput(value) = kept[Len(value)]
<1> DEFINE kept == CHOOSE kept : Keeps(kept, value, Len(value))
<1>1. Len(value) \in Nat  OBVIOUS
<1>2. Keeps(kept, value, Len(value))  BY <1>1, KeepsExists
<1>3. ParseImageInput(value) = kept[Len(value)]  BY DEF ParseImageInput, Keeps
<1>4. QED  BY <1>2, <1>3

\* No part that is left is empty, and none comes from nowhere.
LEMMA ParseImageInputType ==
    ASSUME NEW S, NEW value \in Seq(S)
    PROVE  ParseImageInput(value) \in Seq(S \ {<<>>})
<1>1. PICK kept : Keeps(kept, value, Len(value)) /\ ParseImageInput(value) = kept[Len(value)]
  BY ParseImageInputKeeps
<1> DEFINE P == {k \in 0..Len(value) : kept[k] \in Seq(S \ {<<>>})}
<1>2. Len(value) \in Nat  OBVIOUS
<1>3. 0 \in P
  <2>1. kept[0] = <<>>  BY <1>1, <1>2 DEF Keeps
  <2>2. <<>> \in Seq(S \ {<<>>})  BY EmptySeq
  <2>3. 0 \in 0..Len(value)  BY <1>2
  <2>4. QED  BY <2>1, <2>2, <2>3
<1>4. ASSUME NEW k \in 0..(Len(value) - 1), k \in P
      PROVE  k + 1 \in P
  <2>1. kept[k + 1] = IF value[k + 1] = <<>> THEN kept[k] ELSE Append(kept[k], value[k + 1])
    <3>1. k + 1 \in 0..Len(value) /\ k + 1 # 0 /\ (k + 1) - 1 = k  BY <1>2
    <3>2. QED  BY <1>1, <3>1 DEF Keeps
  <2>2. value[k + 1] \in S  BY <1>2
  <2>3. kept[k] \in Seq(S \ {<<>>})  BY <1>4
  <2>4. kept[k + 1] \in Seq(S \ {<<>>})  BY <2>1, <2>2, <2>3
  <2>5. QED  BY <2>4, <1>2
<1>5. 0..Len(value) \subseteq P
  <2> HIDE DEF P
  <2>1. QED  BY <1>2, <1>3, <1>4, Induction
<1>6. QED  BY <1>1, <1>2, <1>5

-----------------------------------------------------------------------------
(* Join: it does not matter which words are joined first.                  *)

\* Values that have a part, and words: each a sequence of parts.
Parts == Seq(STRING)
Words == Seq(Parts) \ {<<>>}

\* Two parts with a blank between them.
Blank(x, y) == x \o y

LEMMA BlankAssociative ==
    ASSUME NEW x \in Parts, NEW y \in Parts, NEW z \in Parts
    PROVE  Blank(x, y) \in Parts /\ Blank(Blank(x, y), z) = Blank(x, Blank(y, z))
<1>1. x \o y \in Parts  BY ConcatProperties DEF Parts
<1>2. (x \o y) \o z = x \o (y \o z)
  <2>1. x \in Seq(STRING) /\ y \in Seq(STRING) /\ z \in Seq(STRING)  BY DEF Parts
  <2>2. QED  BY <2>1, ConcatAssociative
<1>3. QED  BY <1>1, <1>2 DEF Blank

LEMMA FrontProperties ==
    ASSUME NEW v \in Words
    PROVE  /\ Front(v) \in Seq(Parts) /\ Len(Front(v)) = Len(v) - 1
           /\ \A i \in 1..(Len(v) - 1) : Front(v)[i] = v[i]
<1>1. v \in Seq(Parts) /\ Len(v) \in Nat \ {0}  BY EmptySeq DEF Words
<1>2. \A i \in 1..(Len(v) - 1) : v[i] \in Parts  BY <1>1
<1> DEFINE n == Len(v) - 1
<1>3. n \in Nat /\ n - 1 + 1 = n  BY <1>1
<1> HIDE DEF n
<1>4. /\ SubSeq(v, 1, n) \in Seq(Parts)
      /\ Len(SubSeq(v, 1, n)) = IF 1 <= n THEN n - 1 + 1 ELSE 0
      /\ \A i \in 1..(n - 1 + 1) : SubSeq(v, 1, n)[i] = v[1 + i - 1]
  BY <1>2, <1>3, SubSeqProperties DEF n
<1>5. QED  BY <1>3, <1>4 DEF n, Front

\* Glue merges the last part of a value and the first part of a word.
LEMMA GlueProperties ==
    ASSUME NEW v \in Words, NEW w \in Words
    PROVE  /\ Glue(v, w) \in Words
           /\ Len(Glue(v, w)) = Len(v) + Len(w) - 1
           /\ \A i \in 1..(Len(v) + Len(w) - 1) :
                 Glue(v, w)[i] = IF i < Len(v) THEN v[i]
                                 ELSE IF i = Len(v) THEN Blank(v[Len(v)], w[1])
                                 ELSE w[i - Len(v) + 1]
<1> DEFINE f == Front(v)
           m == << Blank(Last(v), Head(w)) >>
           t == Tail(w)
           a == Len(v)
           b == Len(w)
<1>1. v \in Seq(Parts) /\ w \in Seq(Parts) /\ v # <<>> /\ w # <<>>  BY DEF Words
<1>2. a \in Nat \ {0} /\ b \in Nat \ {0}  BY <1>1, EmptySeq
<1>3. f \in Seq(Parts) /\ Len(f) = a - 1 /\ \A i \in 1..(a - 1) : f[i] = v[i]
  BY FrontProperties
<1>4. m \in Seq(Parts) /\ Len(m) = 1 /\ m[1] = Blank(v[a], w[1])
  <2>1. v[a] \in Parts /\ w[1] \in Parts  BY <1>1, <1>2
  <2>2. Blank(v[a], w[1]) \in Parts  BY <2>1, BlankAssociative
  <2>3. Head(w) = w[1] /\ Last(v) = v[a]  BY <1>1, <1>2 DEF Last
  <2>4. m = << Blank(v[a], w[1]) >>  BY <2>3
  <2> HIDE DEF m
  <2>5. QED  BY <2>2, <2>4
<1>5. /\ t \in Seq(Parts) /\ Len(t) = b - 1
      /\ \A i \in 1..(b - 1) : t[i] = w[i + 1]
  BY <1>1, HeadTailProperties
<1>6. Glue(v, w) = (f \o m) \o t  BY <1>1 DEF Glue, Blank
<1> HIDE DEF f, m, t, a, b
<1> DEFINE g == f \o m
<1>7. g \in Seq(Parts) /\ Len(g) = a
      /\ \A i \in 1..a : g[i] = IF i <= a - 1 THEN f[i] ELSE m[i - (a - 1)]
  <2>1. /\ g \in Seq(Parts) /\ Len(g) = Len(f) + Len(m)
        /\ \A i \in 1..(Len(f) + Len(m)) : g[i] = IF i <= Len(f) THEN f[i] ELSE m[i - Len(f)]
    BY <1>3, <1>4, ConcatProperties
  <2> HIDE DEF g
  <2>2. Len(f) + Len(m) = a  BY <1>2, <1>3, <1>4
  <2>3. QED  BY <2>1, <2>2, <1>3
<1> HIDE DEF g
<1> DEFINE h == g \o t
<1>8. /\ h \in Seq(Parts) /\ Len(h) = a + b - 1
      /\ \A i \in 1..(a + b - 1) : h[i] = IF i <= a THEN g[i] ELSE t[i - a]
  <2>1. /\ h \in Seq(Parts) /\ Len(h) = Len(g) + Len(t)
        /\ \A i \in 1..(Len(g) + Len(t)) : h[i] = IF i <= Len(g) THEN g[i] ELSE t[i - Len(g)]
    BY <1>7, <1>5, ConcatProperties
  <2> HIDE DEF h
  <2>2. Len(g) + Len(t) = a + b - 1  BY <1>2, <1>5, <1>7
  <2>3. QED  BY <2>1, <2>2, <1>7
<1>9. Glue(v, w) = h  BY <1>6 DEF h, g
<1> HIDE DEF h
<1>10. h # <<>>  BY <1>2, <1>8
<1>11. ASSUME NEW i \in 1..(a + b - 1)
       PROVE  h[i] = IF i < a THEN v[i] ELSE IF i = a THEN Blank(v[a], w[1]) ELSE w[i - a + 1]
  <2>1. CASE i < a
    <3>1. g[i] = v[i]  BY <2>1, <1>2, <1>3, <1>7
    <3>2. QED  BY <2>1, <3>1, <1>2, <1>8
  <2>2. CASE i = a
    <3>1. g[i] = m[1]  BY <2>2, <1>2, <1>7
    <3>2. QED  BY <2>2, <3>1, <1>2, <1>4, <1>8
  <2>3. CASE i > a
    <3>1. i - a \in 1..(b - 1)  BY <2>3, <1>2
    <3>2. t[i - a] = w[i - a + 1]  BY <3>1, <1>5
    <3>3. QED  BY <2>3, <3>2, <1>2, <1>8
  <2>4. QED  BY <2>1, <2>2, <2>3, <1>2
<1>12. QED
  <2>1. h \in Words  BY <1>8, <1>10 DEF Words
  <2>2. QED  BY <2>1, <1>8, <1>9, <1>11 DEF a, b

LEMMA GlueAssociative ==
    ASSUME NEW u \in Words, NEW v \in Words, NEW w \in Words
    PROVE  Glue(Glue(u, v), w) = Glue(u, Glue(v, w))
<1> DEFINE l == Glue(u, v)
           r == Glue(v, w)
           a == Len(u)
           b == Len(v)
           c == Len(w)
<1>1. a \in Nat \ {0} /\ b \in Nat \ {0} /\ c \in Nat \ {0}
  BY EmptySeq DEF Words
<1>2. /\ l \in Words /\ Len(l) = a + b - 1
      /\ \A i \in 1..(a + b - 1) : l[i] = IF i < a THEN u[i] ELSE IF i = a THEN Blank(u[a], v[1])
                                          ELSE v[i - a + 1]
  BY GlueProperties
<1>3. /\ r \in Words /\ Len(r) = b + c - 1
      /\ \A i \in 1..(b + c - 1) : r[i] = IF i < b THEN v[i] ELSE IF i = b THEN Blank(v[b], w[1])
                                          ELSE w[i - b + 1]
  BY GlueProperties
<1> HIDE DEF l, r
<1> DEFINE L == Glue(l, w)
           R == Glue(u, r)
           n == a + b + c - 2
<1>4. /\ L \in Words /\ Len(L) = n
      /\ \A i \in 1..n : L[i] = IF i < a + b - 1 THEN l[i]
                                ELSE IF i = a + b - 1 THEN Blank(l[a + b - 1], w[1])
                                ELSE w[i - (a + b - 1) + 1]
  <2>1. Len(l) + Len(w) - 1 = n  BY <1>1, <1>2
  <2>2. /\ Len(L) = Len(l) + Len(w) - 1
        /\ \A i \in 1..(Len(l) + Len(w) - 1) :
              L[i] = IF i < Len(l) THEN l[i] ELSE IF i = Len(l) THEN Blank(l[Len(l)], w[1])
                     ELSE w[i - Len(l) + 1]
    BY <1>2, GlueProperties
  <2>3. L \in Words  BY <1>2, GlueProperties
  <2> HIDE DEF L
  <2>4. QED  BY <1>2, <2>1, <2>2, <2>3
<1>5. /\ R \in Words /\ Len(R) = n
      /\ \A i \in 1..n : R[i] = IF i < a THEN u[i] ELSE IF i = a THEN Blank(u[a], r[1])
                                ELSE r[i - a + 1]
  <2>1. Len(u) + Len(r) - 1 = n  BY <1>1, <1>3
  <2>2. /\ Len(R) = Len(u) + Len(r) - 1
        /\ \A i \in 1..(Len(u) + Len(r) - 1) :
              R[i] = IF i < Len(u) THEN u[i] ELSE IF i = Len(u) THEN Blank(u[Len(u)], r[1])
                     ELSE r[i - Len(u) + 1]
    BY <1>3, GlueProperties
  <2>3. R \in Words  BY <1>3, GlueProperties
  <2> HIDE DEF R
  <2>4. QED  BY <1>3, <2>1, <2>2, <2>3
<1>6. u[a] \in Parts /\ v[1] \in Parts /\ v[b] \in Parts /\ w[1] \in Parts
  BY <1>1 DEF Words
<1> HIDE DEF L, R
<1>7. ASSUME NEW i \in 1..n
      PROVE  L[i] = R[i]
  <2> HIDE DEF a, b, c
  <2>1. CASE i < a
    <3>1. L[i] = u[i]  BY <2>1, <1>1, <1>2, <1>4
    <3>2. R[i] = u[i]  BY <2>1, <1>5
    <3>3. QED  BY <3>1, <3>2
  <2>2. CASE i = a /\ b > 1
    <3>1. l[i] = Blank(u[a], v[1])  BY <2>2, <1>1, <1>2
    <3>2. L[i] = l[i]  BY <2>2, <1>1, <1>4
    <3>3. r[1] = v[1]  BY <2>2, <1>1, <1>3
    <3>4. R[i] = Blank(u[a], r[1])  BY <2>2, <1>1, <1>5
    <3>5. QED  BY <3>1, <3>2, <3>3, <3>4
  <2>3. CASE i = a /\ b = 1
    <3>1. l[i] = Blank(u[a], v[1])  BY <2>3, <1>1, <1>2
    <3>2. L[i] = Blank(l[i], w[1])  BY <2>3, <1>1, <1>4
    <3>3. r[1] = Blank(v[1], w[1])  BY <2>3, <1>1, <1>3
    <3>4. R[i] = Blank(u[a], r[1])  BY <2>3, <1>1, <1>5
    <3>5. Blank(Blank(u[a], v[1]), w[1]) = Blank(u[a], Blank(v[1], w[1]))
      <4>1. \A x, y, z \in Parts : Blank(Blank(x, y), z) = Blank(x, Blank(y, z))
        BY BlankAssociative
      <4>2. QED  BY <1>6, <4>1
    <3>6. QED  BY <3>1, <3>2, <3>3, <3>4, <3>5
  <2>4. CASE i > a /\ i < a + b - 1
    <3>1. L[i] = v[i - a + 1]  BY <2>4, <1>1, <1>2, <1>4
    <3>2. i - a + 1 \in 1..(b + c - 1) /\ i - a + 1 < b  BY <2>4, <1>1
    <3>3. r[i - a + 1] = v[i - a + 1]  BY <3>2, <1>3
    <3>4. R[i] = r[i - a + 1]  BY <2>4, <1>1, <1>5
    <3>5. QED  BY <3>1, <3>3, <3>4
  <2>5. CASE i > a /\ i = a + b - 1
    <3>1. l[i] = v[i - a + 1] /\ i - a + 1 = b  BY <2>5, <1>1, <1>2
    <3>2. L[i] = Blank(l[i], w[1])  BY <2>5, <1>1, <1>4
    <3>3. r[b] = Blank(v[b], w[1])  BY <1>1, <1>3
    <3>4. R[i] = r[i - a + 1]  BY <2>5, <1>1, <1>5
    <3>5. QED  BY <3>1, <3>2, <3>3, <3>4
  <2>6. CASE i > a /\ i > a + b - 1
    <3>1. L[i] = w[i - (a + b - 1) + 1]  BY <2>6, <1>1, <1>4
    <3>2. i - a + 1 \in 1..(b + c - 1) /\ i - a + 1 > b  BY <2>6, <1>1
    <3>3. r[i - a + 1] = w[(i - a + 1) - b + 1]  BY <3>2, <1>1, <1>3
    <3>4. R[i] = r[i - a + 1]  BY <2>6, <1>1, <1>5
    <3>5. (i - a + 1) - b + 1 = i - (a + b - 1) + 1  BY <1>1
    <3>6. QED  BY <3>1, <3>3, <3>4, <3>5
  <2>7. QED  BY <2>1, <2>2, <2>3, <2>4, <2>5, <2>6, <1>1
<1>8. L \in Seq(Parts) /\ R \in Seq(Parts)  BY <1>4, <1>5 DEF Words
<1>9. L = R  BY <1>4, <1>5, <1>7, <1>8, SeqEqual
<1>10. QED  BY <1>9 DEF L, R, l, r

\* A function that joins the words up as joined of Join does.
Joins(joined, words, m) ==
    joined = [n \in 0..m |-> IF n = 0 THEN <<>> ELSE Glue(joined[n - 1], words[n])]

LEMMA JoinsExists ==
    ASSUME NEW words, NEW m \in Nat
    PROVE  \E joined : Joins(joined, words, m)
<1> DEFINE P == {k \in Nat : \E joined : Joins(joined, words, k)}
<1>1. 0 \in P
  <2> DEFINE none == [n \in 0..0 |-> <<>>]
  <2>1. Joins(none, words, 0)  BY DEF Joins
  <2>2. QED  BY <2>1
<1>2. ASSUME NEW k \in 0..(m - 1), k \in P
      PROVE  k + 1 \in P
  <2>1. PICK joined : Joins(joined, words, k)  BY <1>2
  <2> DEFINE more == [n \in 0..(k + 1) |->
                        IF n <= k THEN joined[n] ELSE Glue(joined[n - 1], words[n])]
  <2>2. Joins(more, words, k + 1)
    <3>1. \A n \in 0..k : joined[n] = IF n = 0 THEN <<>> ELSE Glue(joined[n - 1], words[n])
      BY <2>1 DEF Joins
    <3>2. \A n \in 0..(k + 1) : more[n] = IF n = 0 THEN <<>> ELSE Glue(more[n - 1], words[n])
      BY <3>1
    <3>3. QED  BY <3>2 DEF Joins
  <2>3. QED  BY <2>2
<1>3. 0..m \subseteq P
  <2> HIDE DEF P
  <2>1. QED  BY <1>1, <1>2, Induction
<1>4. QED  BY <1>3

\* The first n words, joined.
Joined(words, n) == (CHOOSE joined : Joins(joined, words, Len(words)))[n]

LEMMA JoinedSteps ==
    ASSUME NEW S, NEW words \in Seq(S)
    PROVE  /\ Join(words) = Joined(words, Len(words))
           /\ Joined(words, 0) = <<>>
           /\ \A n \in 1..Len(words) : Joined(words, n) = Glue(Joined(words, n - 1), words[n])
<1> DEFINE joined == CHOOSE joined : Joins(joined, words, Len(words))
<1>1. Len(words) \in Nat  OBVIOUS
<1>2. Joins(joined, words, Len(words))  BY <1>1, JoinsExists
<1>3. Join(words) = joined[Len(words)]  BY DEF Join, Joins
<1> HIDE DEF joined
<1>4. joined[0] = <<>>  BY <1>1, <1>2 DEF Joins
<1>5. \A n \in 1..Len(words) : joined[n] = Glue(joined[n - 1], words[n])
  <2>1. \A n \in 1..Len(words) : n \in 0..Len(words) /\ n # 0  BY <1>1
  <2>2. QED  BY <2>1, <1>2 DEF Joins
<1>6. QED  BY <1>3, <1>4, <1>5 DEF Joined, joined

\* Words that are joined are a value with a part.
LEMMA JoinedType ==
    ASSUME NEW words \in Seq(Words), NEW n \in 1..Len(words)
    PROVE  Joined(words, n) \in Words
<1>1. Len(words) \in Nat  OBVIOUS
<1>2. Joined(words, 0) = <<>>  BY JoinedSteps
<1>3. \A k \in 1..Len(words) : Joined(words, k) = Glue(Joined(words, k - 1), words[k])
  BY JoinedSteps
<1>4. \A k \in 1..Len(words) : words[k] \in Words  BY <1>1
<1> DEFINE P == {k \in Nat : k = 0 \/ Joined(words, k) \in Words}
<1>5. 0 \in P  OBVIOUS
<1>6. ASSUME NEW k \in 0..(Len(words) - 1), k \in P
      PROVE  k + 1 \in P
  <2>1. k + 1 \in 1..Len(words) /\ (k + 1) - 1 = k  BY <1>1
  <2>2. Joined(words, k + 1) = Glue(Joined(words, k), words[k + 1])  BY <1>3, <2>1
  <2>3. CASE k = 0
    <3>1. Joined(words, k + 1) = words[k + 1]  BY <1>2, <2>2, <2>3 DEF Glue
    <3>2. QED  BY <1>4, <2>1, <3>1
  <2>4. CASE Joined(words, k) \in Words
    <3>1. Joined(words, k + 1) \in Words  BY <1>4, <2>1, <2>2, <2>4, GlueProperties
    <3>2. QED  BY <3>1
  <2>5. QED  BY <2>3, <2>4, <1>6
<1>7. 0..Len(words) \subseteq P
  <2> HIDE DEF P
  <2>1. QED  BY <1>1, <1>5, <1>6, Induction
<1>8. QED  BY <1>1, <1>7

LEMMA JoinType ==
    ASSUME NEW words \in Seq(Words), words # <<>>
    PROVE  Join(words) \in Words
<1>1. Len(words) \in 1..Len(words)  BY EmptySeq
<1>2. QED  BY <1>1, JoinedType, JoinedSteps

\* Whether the words from the n-th on are joined first or one after the other.
LEMMA JoinTail ==
    ASSUME NEW words \in Seq(Words), NEW n \in 1..Len(words),
           NEW values \in Seq(Words), Len(values) = n,
           \A i \in 1..(n - 1) : values[i] = words[i],
           values[n] = Join(SubSeq(words, n, Len(words)))
    PROVE  Join(values) = Join(words)
<1> DEFINE tail == SubSeq(words, n, Len(words))
           m == Len(words) - n + 1
<1>1. Len(words) \in Nat /\ m \in Nat \ {0} /\ n \in Nat \ {0} /\ n - 1 + m = Len(words)
  OBVIOUS
<1>2. \A i \in 1..Len(words) : words[i] \in Words  BY <1>1
<1>3. /\ tail \in Seq(Words) /\ Len(tail) = m
      /\ \A i \in 1..m : tail[i] = words[n - 1 + i]
  <2>1. /\ tail \in Seq(Words)
        /\ Len(tail) = IF n <= Len(words) THEN Len(words) - n + 1 ELSE 0
        /\ \A i \in 1..(Len(words) - n + 1) : tail[i] = words[n + i - 1]
    <3>1. \A i \in n..Len(words) : words[i] \in Words  BY <1>1, <1>2
    <3>2. QED  BY <1>1, <3>1, SubSeqProperties
  <2> HIDE DEF tail
  <2>2. \A i \in 1..m : n + i - 1 = n - 1 + i  BY <1>1
  <2>3. QED  BY <1>1, <2>1, <2>2
<1> HIDE DEF tail, m
<1>4. /\ Joined(words, 0) = <<>> /\ Join(words) = Joined(words, Len(words))
      /\ \A k \in 1..Len(words) : Joined(words, k) = Glue(Joined(words, k - 1), words[k])
  BY JoinedSteps
<1>5. /\ Joined(values, 0) = <<>> /\ Join(values) = Joined(values, n)
      /\ \A k \in 1..n : Joined(values, k) = Glue(Joined(values, k - 1), values[k])
  BY JoinedSteps
<1>6. /\ Joined(tail, 0) = <<>> /\ Join(tail) = Joined(tail, m)
      /\ \A k \in 1..m : Joined(tail, k) = Glue(Joined(tail, k - 1), tail[k])
  BY <1>3, JoinedSteps
<1>7. Joined(values, n - 1) = Joined(words, n - 1)
  <2> DEFINE P == {k \in Nat : Joined(values, k) = Joined(words, k)}
  <2>1. 0 \in P  BY <1>4, <1>5
  <2>2. ASSUME NEW k \in 0..((n - 1) - 1), k \in P
        PROVE  k + 1 \in P
    <3>1. k + 1 \in 1..(n - 1) /\ k + 1 \in 1..n /\ k + 1 \in 1..Len(words) /\ (k + 1) - 1 = k
      BY <1>1
    <3>2. values[k + 1] = words[k + 1]  BY <3>1
    <3>3. Joined(values, k + 1) = Joined(words, k + 1)  BY <1>4, <1>5, <2>2, <3>1, <3>2
    <3>4. QED  BY <3>1, <3>3
  <2>3. n - 1 \in Nat  BY <1>1
  <2>4. 0..(n - 1) \subseteq P
    <3> HIDE DEF P
    <3>1. QED  BY <2>1, <2>2, <2>3, Induction
  <2>5. QED  BY <2>3, <2>4
<1> DEFINE front == Joined(words, n - 1)
<1>8. front = <<>> \/ front \in Words
  <2>1. CASE n = 1  BY <2>1, <1>4
  <2>2. CASE n # 1
    <3>1. n - 1 \in 1..Len(words)  BY <2>2, <1>1
    <3>2. QED  BY <3>1, JoinedType
  <2>3. QED  BY <2>1, <2>2
<1>9. \A k \in 1..m : Joined(tail, k) \in Words
  BY <1>3, JoinedType
<1> HIDE DEF front
<1>10. Joined(words, Len(words)) = Glue(front, Joined(tail, m))
  <2> DEFINE P == {k \in Nat : Joined(words, n + k) = Glue(front, Joined(tail, k + 1))}
  <2>1. 0 \in P
    <3>1. Joined(tail, 1) = tail[1]
      <4>1. 1 \in 1..m /\ 1 - 1 = 0  BY <1>1
      <4>2. Joined(tail, 1) = Glue(<<>>, tail[1])  BY <1>6, <4>1
      <4>3. QED  BY <4>2 DEF Glue
    <3>2. tail[1] = words[n]  BY <1>1, <1>3
    <3>3. Joined(words, n) = Glue(front, words[n])  BY <1>4 DEF front
    <3>4. n + 0 = n /\ 0 + 1 = 1  BY <1>1
    <3>5. QED  BY <3>1, <3>2, <3>3, <3>4
  <2>2. ASSUME NEW k \in 0..((m - 1) - 1), k \in P
        PROVE  k + 1 \in P
    <3>1. /\ k + 1 \in 1..m /\ k + 2 \in 1..m /\ (k + 2) - 1 = k + 1
          /\ n + k + 1 \in 1..Len(words) /\ (n + k + 1) - 1 = n + k
          /\ n - 1 + (k + 2) = n + k + 1
      BY <1>1
    <3>2. Joined(words, n + k + 1) = Glue(Glue(front, Joined(tail, k + 1)), words[n + k + 1])
      BY <1>4, <2>2, <3>1
    <3>3. tail[k + 2] = words[n + k + 1]  BY <1>3, <3>1
    <3>4. Joined(tail, k + 2) = Glue(Joined(tail, k + 1), words[n + k + 1])
      BY <1>6, <3>1, <3>3
    <3>5. Joined(tail, k + 1) \in Words /\ words[n + k + 1] \in Words  BY <1>2, <1>9, <3>1
    <3>6. Glue(Glue(front, Joined(tail, k + 1)), words[n + k + 1])
             = Glue(front, Glue(Joined(tail, k + 1), words[n + k + 1]))
      <4>1. CASE front = <<>>  BY <4>1 DEF Glue
      <4>2. CASE front \in Words  BY <4>2, <3>5, GlueAssociative
      <4>3. QED  BY <1>8, <4>1, <4>2
    <3>7. Joined(words, n + k + 1) = Glue(front, Joined(tail, k + 2))
      BY <3>2, <3>4, <3>6
    <3>8. n + (k + 1) = n + k + 1 /\ (k + 1) + 1 = k + 2  BY <1>1
    <3>9. QED  BY <3>7, <3>8
  <2>3. m - 1 \in Nat  BY <1>1
  <2>4. 0..(m - 1) \subseteq P
    <3> HIDE DEF P
    <3>1. QED  BY <2>1, <2>2, <2>3, Induction
  <2>5. m - 1 \in P  BY <2>3, <2>4
  <2>6. n + (m - 1) = Len(words) /\ (m - 1) + 1 = m  BY <1>1
  <2>7. QED  BY <2>5, <2>6
<1>11. Joined(values, n) = Glue(front, Joined(tail, m))
  <2>1. values[n] = Joined(tail, m)  BY <1>6 DEF tail
  <2>2. QED  BY <1>1, <1>5, <1>7, <2>1 DEF front
<1>12. QED  BY <1>4, <1>5, <1>10, <1>11

-----------------------------------------------------------------------------
(* The table.                                                              *)

Row(words, parameters, lazy) ==
    [words |-> words, parameters |-> parameters, lazy |-> lazy]

\* The entries of the table, one by one.
LEMMA Entries ==
    /\ SupportedCommands[1] = Row(<<"launch">>,
                                   <<"image_or_version_or_prs", "options">>, FALSE)
    /\ SupportedCommands[2] = Row(<<"rosa", "create">>, <<"version", "duration">>, FALSE)
    /\ SupportedCommands[3] = Row(<<"rosa", "lookup">>, <<"version">>, FALSE)
    /\ SupportedCommands[4] = Row(<<"rosa", "describe">>, <<"cluster">>, FALSE)
    /\ SupportedCommands[5] = Row(<<"list">>, <<>>, FALSE)
    /\ SupportedCommands[6] = Row(<<"done">>, <<>>, FALSE)
    /\ SupportedCommands[7] = Row(<<"refresh">>, <<>>, FALSE)
    /\ SupportedCommands[8] = Row(<<"auth">>, <<>>, FALSE)
    /\ SupportedCommands[9] = Row(<<"test", "upgrade">>, <<"from", "to", "options">>, FALSE)
    /\ SupportedCommands[10] = Row(<<"test">>,
                                   <<"name", "image_or_version_or_prs", "options">>, FALSE)
    /\ SupportedCommands[11] = Row(<<"build">>, <<"pullrequest">>, FALSE)
    /\ SupportedCommands[12] = Row(<<"workflow-launch">>,
                                   <<"name", "image_or_version_or_prs", "parameters">>, FALSE)
    /\ SupportedCommands[13] = Row(<<"workflow-test">>,
                                   <<"name", "image_or_version_or_prs", "parameters">>, FALSE)
    /\ SupportedCommands[14] = Row(<<"workflow-upgrade">>,
                                   <<"name", "from_image_or_version_or_prs",
                                     "to_image_or_version_or_prs", "parameters">>, FALSE)
    /\ SupportedCommands[15] = Row(<<"version">>, <<>>, FALSE)
    /\ SupportedCommands[16] = Row(<<"lookup">>,
                                   <<"image_or_version_or_prs", "architecture">>, FALSE)
    /\ SupportedCommands[17] = Row(<<"catalog", "build">>,
                                   <<"pullrequest", "bundle_name">>, FALSE)
    /\ SupportedCommands[18] = Row(<<"mce", "create">>,
                                   <<"image_or_version_or_prs", "duration", "platform">>, FALSE)
    /\ SupportedCommands[19] = Row(<<"mce", "auth">>, <<"name">>, FALSE)
    /\ SupportedCommands[20] = Row(<<"mce", "delete">>, <<"cluster_name">>, FALSE)
    /\ SupportedCommands[21] = Row(<<"mce", "list">>, <<"all">>, FALSE)
    /\ SupportedCommands[22] = Row(<<"mce", "lookup">>, <<>>, FALSE)
    /\ SupportedCommands[23] = Row(<<"request">>, <<"resource", "justification">>, TRUE)
    /\ SupportedCommands[24] = Row(<<"revoke">>, <<"resource">>, TRUE)
  BY DEF SupportedCommands, Command, Row

LEMMA NumberOfEntries == DOMAIN SupportedCommands = 1..24 /\ Len(SupportedCommands) = 24
  BY DEF SupportedCommands

\* The parameters of a command have different names. Where two commands begin
\* with the same word they have as many words, but for "test upgrade" (9) and
\* "test" (10).
Entry(i) ==
    LET c == SupportedCommands[i]
    IN  /\ DOMAIN c.parameters = 1..Len(c.parameters) /\ Len(c.parameters) \in 0..4
        /\ Len(c.parameters) = 0 => c.parameters = <<>>
        /\ \A h, k \in 1..Len(c.parameters) : c.parameters[h] = c.parameters[k] => h = k
        /\ c.words[1] = "test" => i \in {9, 10}
        /\ Len(c.words) = IF c.words[1] \in {"rosa", "catalog", "mce"} \/ i = 9 THEN 2 ELSE 1

LEMMA EntriesFit == \A i \in 1..24 : Entry(i)
<1>1. Entry(1)
  <2>1. SupportedCommands[1] = Row(<<"launch">>,
                                     <<"image_or_version_or_prs", "options">>, FALSE)
    BY Entries
  <2>2. QED  BY <2>1 DEF Entry, Row
<1>2. Entry(2)
  <2>1. SupportedCommands[2] = Row(<<"rosa", "create">>, <<"version", "duration">>, FALSE)
    BY Entries
  <2>2. QED  BY <2>1 DEF Entry, Row
<1>3. Entry(3)
  <2>1. SupportedCommands[3] = Row(<<"rosa", "lookup">>, <<"version">>, FALSE)
    BY Entries
  <2>2. QED  BY <2>1 DEF Entry, Row
<1>4. Entry(4)
  <2>1. SupportedCommands[4] = Row(<<"rosa", "describe">>, <<"cluster">>, FALSE)
    BY Entries
  <2>2. QED  BY <2>1 DEF Entry, Row
<1>5. Entry(5)
  <2>1. SupportedCommands[5] = Row(<<"list">>, <<>>, FALSE)
    BY Entries
  <2>2. QED  BY <2>1 DEF Entry, Row
<1>6. Entry(6)
  <2>1. SupportedCommands[6] = Row(<<"done">>, <<>>, FALSE)
    BY Entries
  <2>2. QED  BY <2>1 DEF Entry, Row
<1>7. Entry(7)
  <2>1. SupportedCommands[7] = Row(<<"refresh">>, <<>>, FALSE)
    BY Entries
  <2>2. QED  BY <2>1 DEF Entry, Row
<1>8. Entry(8)
  <2>1. SupportedCommands[8] = Row(<<"auth">>, <<>>, FALSE)
    BY Entries
  <2>2. QED  BY <2>1 DEF Entry, Row
<1>9. Entry(9)
  <2>1. SupportedCommands[9] = Row(<<"test", "upgrade">>, <<"from", "to", "options">>, FALSE)
    BY Entries
  <2>2. QED  BY <2>1 DEF Entry, Row
<1>10. Entry(10)
  <2>1. SupportedCommands[10] = Row(<<"test">>,
                                     <<"name", "image_or_version_or_prs", "options">>, FALSE)
    BY Entries
  <2>2. QED  BY <2>1 DEF Entry, Row
<1>11. Entry(11)
  <2>1. SupportedCommands[11] = Row(<<"build">>, <<"pullrequest">>, FALSE)
    BY Entries
  <2>2. QED  BY <2>1 DEF Entry, Row
<1>12. Entry(12)
  <2>1. SupportedCommands[12] = Row(<<"workflow-launch">>,
                                     <<"name", "image_or_version_or_prs", "parameters">>, FALSE)
    BY Entries
  <2>2. QED  BY <2>1 DEF Entry, Row
<1>13. Entry(13)
  <2>1. SupportedCommands[13] = Row(<<"workflow-test">>,
                                     <<"name", "image_or_version_or_prs", "parameters">>, FALSE)
    BY Entries
  <2>2. QED  BY <2>1 DEF Entry, Row
<1>14. Entry(14)
  <2>1. SupportedCommands[14] = Row(<<"workflow-upgrade">>,
                                     <<"name", "from_image_or_version_or_prs",
                                       "to_image_or_version_or_prs", "parameters">>, FALSE)
    BY Entries
  <2>2. QED  BY <2>1 DEF Entry, Row
<1>15. Entry(15)
  <2>1. SupportedCommands[15] = Row(<<"version">>, <<>>, FALSE)
    BY Entries
  <2>2. QED  BY <2>1 DEF Entry, Row
<1>16. Entry(16)
  <2>1. SupportedCommands[16] = Row(<<"lookup">>,
                                     <<"image_or_version_or_prs", "architecture">>, FALSE)
    BY Entries
  <2>2. QED  BY <2>1 DEF Entry, Row
<1>17. Entry(17)
  <2>1. SupportedCommands[17] = Row(<<"catalog", "build">>,
                                     <<"pullrequest", "bundle_name">>, FALSE)
    BY Entries
  <2>2. QED  BY <2>1 DEF Entry, Row
<1>18. Entry(18)
  <2>1. SupportedCommands[18] = Row(<<"mce", "create">>,
                                     <<"image_or_version_or_prs", "duration",
                                       "platform">>, FALSE)
    BY Entries
  <2>2. QED  BY <2>1 DEF Entry, Row
<1>19. Entry(19)
  <2>1. SupportedCommands[19] = Row(<<"mce", "auth">>, <<"name">>, FALSE)
    BY Entries
  <2>2. QED  BY <2>1 DEF Entry, Row
<1>20. Entry(20)
  <2>1. SupportedCommands[20] = Row(<<"mce", "delete">>, <<"cluster_name">>, FALSE)
    BY Entries
  <2>2. QED  BY <2>1 DEF Entry, Row
<1>21. Entry(21)
  <2>1. SupportedCommands[21] = Row(<<"mce", "list">>, <<"all">>, FALSE)
    BY Entries
  <2>2. QED  BY <2>1 DEF Entry, Row
<1>22. Entry(22)
  <2>1. SupportedCommands[22] = Row(<<"mce", "lookup">>, <<>>, FALSE)
    BY Entries
  <2>2. QED  BY <2>1 DEF Entry, Row
<1>23. Entry(23)
  <2>1. SupportedCommands[23] = Row(<<"request">>, <<"resource", "justification">>, TRUE)
    BY Entries
  <2>2. QED  BY <2>1 DEF Entry, Row
<1>24. Entry(24)
  <2>1. SupportedCommands[24] = Row(<<"revoke">>, <<"resource">>, TRUE)
    BY Entries
  <2>2. QED  BY <2>1 DEF Entry, Row
<1>25. QED
  BY <1>1, <1>2, <1>3, <1>4, <1>5, <1>6, <1>7, <1>8, <1>9, <1>10, <1>11, <1>12,
     <1>13, <1>14, <1>15, <1>16, <1>17, <1>18, <1>19, <1>20, <1>21, <1>22, <1>23, <1>24

\* The handler of every command.
LEMMA HandlerOf ==
    ASSUME NEW c, NEW u, NEW p
    PROVE  /\ c.words = <<"launch">> => Handler(c, u, p) = {LaunchCluster(p)}
           /\ c.words = <<"rosa", "create">> => Handler(c, u, p) = {RosaCreate(p)}
           /\ c.words = <<"rosa", "lookup">> => Handler(c, u, p) = {RosaLookup(p)}
           /\ c.words = <<"rosa", "describe">> => Handler(c, u, p) = {RosaDescribe(p)}
           /\ c.words = <<"list">> => Handler(c, u, p) = {[op |-> "ListJobs"]}
           /\ c.words = <<"done">> => Handler(c, u, p) = {[op |-> "TerminateJobForUser"]}
           /\ c.words = <<"refresh">> => Handler(c, u, p) = {[op |-> "SyncJobForUser"]}
           /\ c.words = <<"auth">> => Handler(c, u, p) = Auth
           /\ c.words = <<"test", "upgrade">> => Handler(c, u, p) = {TestUpgrade(p)}
           /\ c.words = <<"test">> => Handler(c, u, p) = {Test(p)}
           /\ c.words = <<"build">> => Handler(c, u, p) = {Build(p)}
           /\ c.words = <<"workflow-launch">> => Handler(c, u, p) = {WorkflowLaunch(p)}
           /\ c.words = <<"workflow-test">> => Handler(c, u, p) = {WorkflowTest(p)}
           /\ c.words = <<"workflow-upgrade">> => Handler(c, u, p) = {WorkflowUpgrade(p)}
           /\ c.words = <<"version">> => Handler(c, u, p) = {None}
           /\ c.words = <<"lookup">> => Handler(c, u, p) = {Lookup(p)}
           /\ c.words = <<"catalog", "build">> => Handler(c, u, p) = {CatalogBuild(p)}
           /\ c.words = <<"mce", "create">> => Handler(c, u, p) = {MceCreate(p)}
           /\ c.words = <<"mce", "auth">> => Handler(c, u, p) = {MceAuth(u, p)}
           /\ c.words = <<"mce", "delete">> => Handler(c, u, p) = {MceDelete(u, p)}
           /\ c.words = <<"mce", "list">> => Handler(c, u, p) = {MceList(u, p)}
           /\ c.words = <<"mce", "lookup">> => Handler(c, u, p) = {[op |-> "ListMceVersions"]}
           /\ c.words = <<"request">> => Handler(c, u, p) = request(u, p)
           /\ c.words = <<"revoke">> => Handler(c, u, p) = Revoke(u, p)
<1>1. c.words = <<"launch">> => Handler(c, u, p) = {LaunchCluster(p)}
  BY DEF Handler
<1>2. c.words = <<"rosa", "create">> => Handler(c, u, p) = {RosaCreate(p)}
  BY DEF Handler
<1>3. c.words = <<"rosa", "lookup">> => Handler(c, u, p) = {RosaLookup(p)}
  BY DEF Handler
<1>4. c.words = <<"rosa", "describe">> => Handler(c, u, p) = {RosaDescribe(p)}
  BY DEF Handler
<1>5. c.words = <<"list">> => Handler(c, u, p) = {[op |-> "ListJobs"]}
  BY DEF Handler
<1>6. c.words = <<"done">> => Handler(c, u, p) = {[op |-> "TerminateJobForUser"]}
  BY DEF Handler
<1>7. c.words = <<"refresh">> => Handler(c, u, p) = {[op |-> "SyncJobForUser"]}
  BY DEF Handler
<1>8. c.words = <<"auth">> => Handler(c, u, p) = Auth
  BY DEF Handler
<1>9. c.words = <<"test", "upgrade">> => Handler(c, u, p) = {TestUpgrade(p)}
  BY DEF Handler
<1>10. c.words = <<"test">> => Handler(c, u, p) = {Test(p)}
  BY DEF Handler
<1>11. c.words = <<"build">> => Handler(c, u, p) = {Build(p)}
  BY DEF Handler
<1>12. c.words = <<"workflow-launch">> => Handler(c, u, p) = {WorkflowLaunch(p)}
  BY DEF Handler
<1>13. c.words = <<"workflow-test">> => Handler(c, u, p) = {WorkflowTest(p)}
  BY DEF Handler
<1>14. c.words = <<"workflow-upgrade">> => Handler(c, u, p) = {WorkflowUpgrade(p)}
  BY DEF Handler
<1>15. c.words = <<"version">> => Handler(c, u, p) = {None}
  BY DEF Handler
<1>16. c.words = <<"lookup">> => Handler(c, u, p) = {Lookup(p)}
  BY DEF Handler
<1>17. c.words = <<"catalog", "build">> => Handler(c, u, p) = {CatalogBuild(p)}
  BY DEF Handler
<1>18. c.words = <<"mce", "create">> => Handler(c, u, p) = {MceCreate(p)}
  BY DEF Handler
<1>19. c.words = <<"mce", "auth">> => Handler(c, u, p) = {MceAuth(u, p)}
  BY DEF Handler
<1>20. c.words = <<"mce", "delete">> => Handler(c, u, p) = {MceDelete(u, p)}
  BY DEF Handler
<1>21. c.words = <<"mce", "list">> => Handler(c, u, p) = {MceList(u, p)}
  BY DEF Handler
<1>22. c.words = <<"mce", "lookup">> => Handler(c, u, p) = {[op |-> "ListMceVersions"]}
  BY DEF Handler
<1>23. c.words = <<"request">> => Handler(c, u, p) = request(u, p)
  BY DEF Handler
<1>24. c.words = <<"revoke">> => Handler(c, u, p) = Revoke(u, p)
  BY DEF Handler
<1>25. QED
  BY <1>1, <1>2, <1>3, <1>4, <1>5, <1>6, <1>7, <1>8, <1>9, <1>10, <1>11, <1>12,
     <1>13, <1>14, <1>15, <1>16, <1>17, <1>18, <1>19, <1>20, <1>21, <1>22, <1>23, <1>24

-----------------------------------------------------------------------------
(* What the handlers ask the manager for.                                  *)

\* LaunchFits for a call and the properties of the command that made it.
Fits(x, p) ==
    (x # None /\ x.op = "LaunchJobForUser") =>
        /\ x.platform = "hypershift-hosted" => x.architecture = "multi"
        /\ \A a \in KnownPlatforms :
              "options" \in DOMAIN p /\ <<a>> \in ToSet(p["options"]) => x.platform = a
        /\ x.type \in {"upgrade", "workflow-upgrade"} => Len(x.inputs) = 2
        /\ x.type = "upgrade" => x.params[<<"test">>] \in UpgradeTests
        /\ x.type = "test" => x.params[<<"test">>] \notin UpgradeTests
        /\ \A i \in 1..Len(x.inputs) : x.inputs[i] # <<>> /\ <<>> \notin ToSet(x.inputs[i])

\* An input is not empty and no part of it is.
Input(from) == from # <<>> /\ <<>> \notin ToSet(from)

LEMMA InputOfParts ==
    ASSUME NEW value \in Seq(Parts), ParseImageInput(value) # <<>>
    PROVE  Input(ParseImageInput(value))
<1>1. ParseImageInput(value) \in Seq(Parts \ {<<>>})  BY ParseImageInputType
<1>2. \A i \in DOMAIN ParseImageInput(value) : ParseImageInput(value)[i] # <<>>
  BY <1>1
<1>3. QED  BY <1>2 DEF Input, ToSet

LEMMA OneInput == ASSUME NEW from PROVE Len(<<from>>) = 1 /\ <<from>>[1] = from
  OBVIOUS

LEMMA TwoInputs ==
    ASSUME NEW from, NEW to
    PROVE  Len(<<from, to>>) = 2 /\ <<from, to>>[1] = from /\ <<from, to>>[2] = to
  OBVIOUS

\* A platform that is typed among the options is the only one, and so the
\* one that is chosen.
LEMMA OnlyPlatform ==
    ASSUME NEW platforms \in SUBSET KnownPlatforms, ~(Cardinality(platforms) > 1),
           NEW a \in platforms
    PROVE  (CHOOSE x \in platforms : TRUE) = a
<1> DEFINE b == CHOOSE x \in platforms : TRUE
<1>1. b \in platforms  OBVIOUS
<1> HIDE DEF b
<1>2. IsFiniteSet(platforms)  BY CommandsAssumption, FS_Subset
<1>3. ASSUME a # b PROVE FALSE
  <2>1. {a, b} \subseteq platforms  BY <1>1
  <2>2. Cardinality({a, b}) = 2
    <3>1. IsFiniteSet({a}) /\ Cardinality({a}) = 1  BY FS_Singleton
    <3>2. b \notin {a}  BY <1>3
    <3>3. Cardinality({a} \cup {b}) = Cardinality({a}) + 1  BY <3>1, <3>2, FS_AddElement
    <3>4. {a} \cup {b} = {a, b}  OBVIOUS
    <3>5. QED  BY <3>1, <3>3, <3>4
  <2>3. Cardinality({a, b}) <= Cardinality(platforms)  BY <1>2, <2>1, FS_Subset
  <2>4. Cardinality(platforms) \in Nat  BY <1>2, FS_CardinalityType
  <2>5. QED  BY <2>2, <2>3, <2>4
<1>4. QED  BY <1>3 DEF b

\* The name of a platform has no "=" in it.
LEMMA PlatformIsKey ==
    ASSUME NEW a \in KnownPlatforms
    PROVE  Key(<<a>>) = <<a>>
<1>1. a \notin DOMAIN KeyOf  BY CommandsAssumption
<1>2. <<a>>[1] = a  OBVIOUS
<1>3. QED  BY <1>1, <1>2 DEF Key, HasKey, Atom

\* Options that are not refused: the platform that was typed, and multi for
\* hypershift-hosted.
OptionsFit(o, value) ==
    /\ o.platform = "hypershift-hosted" => o.architecture = "multi"
    /\ \A a \in KnownPlatforms : <<a>> \in ToSet(value) => o.platform = a

LEMMA ParseOptionsFits ==
    ASSUME NEW value \in Seq(Parts), NEW inputs, NEW jobType,
           ParseOptions(value, inputs, jobType).ok
    PROVE  OptionsFit(ParseOptions(value, inputs, jobType), value)
<1> DEFINE options == {Key(value[i]) : i \in 1..Len(value)}
           platforms == {p \in KnownPlatforms : <<p>> \in options}
           architectures == {a \in KnownArchitectures : <<a>> \in options}
           typed(S) == IF S = {} THEN "" ELSE CHOOSE x \in S : TRUE
           platform == IF platforms # {} THEN typed(platforms)
                       ELSE DefaultPlatform(typed(architectures), inputs, jobType)
           architecture == IF architectures # {} THEN typed(architectures)
                           ELSE IF platform = "hypershift-hosted" THEN "multi" ELSE "amd64"
           rest == options \ {<<x>> : x \in platforms \cup architectures}
           params == [k \in rest |-> ParamsFromAnnotation(value)[k]]
           refused == \/ <<>> \in options
                      \/ Cardinality(platforms) > 1 \/ Cardinality(architectures) > 1
                      \/ ~(rest \subseteq {<<p>> : p \in KnownParameters})
                      \/ ~HostedFits(platform, architecture)
           o == ParseOptions(value, inputs, jobType)
<1>1. o = IF refused THEN Refused
          ELSE [ok |-> TRUE, platform |-> platform, architecture |-> architecture,
                params |-> params]
  BY DEF ParseOptions
<1>2. ~refused => HostedFits(platform, architecture) /\ ~(Cardinality(platforms) > 1)
  OBVIOUS
<1>3. ASSUME NEW a \in KnownPlatforms, <<a>> \in ToSet(value), ~refused
      PROVE  platform = a
  <2>1. PICK i \in DOMAIN value : value[i] = <<a>>  BY <1>3 DEF ToSet
  <2>2. i \in 1..Len(value)  OBVIOUS
  <2>3. <<a>> \in options  BY <2>1, <2>2, PlatformIsKey
  <2>4. a \in platforms  BY <2>3
  <2> HIDE DEF options, platforms
  <2>5. platforms \in SUBSET KnownPlatforms  BY DEF platforms
  <2>6. QED  BY <1>2, <1>3, <2>4, <2>5, OnlyPlatform
<1> HIDE DEF platform, architecture, refused, params, o
<1>4. ~refused
  <2>1. Refused.ok = FALSE  BY DEF Refused
  <2>2. o.ok  BY DEF o
  <2>3. QED  BY <1>1, <2>1, <2>2
<1>5. o.platform = platform /\ o.architecture = architecture  BY <1>1, <1>4
<1>6. QED  BY <1>2, <1>3, <1>4, <1>5 DEF HostedFits, OptionsFit, o

\* With no options the defaults fit.
LEMMA NoOptions ==
    ASSUME NEW inputs, NEW jobType, jobType # "install"
    PROVE  ParseOptions(<<>>, inputs, jobType).platform = "aws"
<1> DEFINE value == <<>>
           options == {Key(value[i]) : i \in 1..Len(value)}
           platforms == {p \in KnownPlatforms : <<p>> \in options}
           architectures == {a \in KnownArchitectures : <<a>> \in options}
           typed(S) == IF S = {} THEN "" ELSE CHOOSE x \in S : TRUE
           platform == IF platforms # {} THEN typed(platforms)
                       ELSE DefaultPlatform(typed(architectures), inputs, jobType)
           architecture == IF architectures # {} THEN typed(architectures)
                           ELSE IF platform = "hypershift-hosted" THEN "multi" ELSE "amd64"
           rest == options \ {<<x>> : x \in platforms \cup architectures}
           params == [k \in rest |-> ParamsFromAnnotation(value)[k]]
           refused == \/ <<>> \in options
                      \/ Cardinality(platforms) > 1 \/ Cardinality(architectures) > 1
                      \/ ~(rest \subseteq {<<p>> : p \in KnownParameters})
                      \/ ~HostedFits(platform, architecture)
           o == ParseOptions(value, inputs, jobType)
<1>1. o = IF refused THEN Refused
          ELSE [ok |-> TRUE, platform |-> platform, architecture |-> architecture,
                params |-> params]
  BY DEF ParseOptions
<1>2. options = {}  OBVIOUS
<1>3. platforms = {} /\ architectures = {} /\ rest = {}  BY <1>2
<1>4. DefaultPlatform(typed(architectures), inputs, jobType) = "aws"  BY DEF DefaultPlatform
<1>5. platform = "aws"  BY <1>3, <1>4
<1> HIDE DEF platform, architecture, params, options, platforms, architectures, rest, o
<1>6. ~refused
  <2>1. Cardinality({}) = 0  BY FS_EmptySet
  <2>2. HostedFits(platform, architecture)  BY <1>5 DEF HostedFits
  <2>3. QED  BY <1>2, <1>3, <2>1, <2>2
<1> HIDE DEF refused
<1>7. o.platform = "aws"  BY <1>1, <1>5, <1>6
<1>8. QED  BY <1>7 DEF o

\* What a platform has to be for the options that were typed.
PlatformTyped(p, platform) ==
    \A a \in KnownPlatforms : "options" \in DOMAIN p /\ <<a>> \in ToSet(p["options"]) => platform = a

LEMMA LaunchOf ==
    ASSUME NEW p, NEW jobType, NEW inputs, NEW how, NEW params, NEW workflow,
           how.platform = "hypershift-hosted" => how.architecture = "multi",
           PlatformTyped(p, how.platform),
           jobType \in {"upgrade", "workflow-upgrade"} => Len(inputs) = 2,
           jobType = "upgrade" => params[<<"test">>] \in UpgradeTests,
           jobType = "test" => params[<<"test">>] \notin UpgradeTests,
           \A i \in 1..Len(inputs) : Input(inputs[i])
    PROVE  Fits(Launch(jobType, inputs, how, params, workflow), p)
<1> DEFINE x == Launch(jobType, inputs, how, params, workflow)
<1>1. /\ x.type = jobType /\ x.inputs = inputs /\ x.params = params
      /\ x.platform = how.platform /\ x.architecture = how.architecture
  BY DEF Launch
<1> HIDE DEF x
<1>2. Fits(x, p)  BY <1>1 DEF Fits, PlatformTyped, Input
<1>3. QED  BY <1>2 DEF x

LEMMA NoneFits == ASSUME NEW p PROVE Fits(None, p)
  BY DEF Fits

\* The test that is chosen is the one the job gets.
LEMMA TestOf ==
    ASSUME NEW test, NEW params
    PROVE  WithTest(params, test)[<<"test">>] = test
  BY DEF WithTest

LEMMA LaunchClusterFits ==
    ASSUME NEW p, p["image_or_version_or_prs"] \in Seq(Parts), p["options"] \in Seq(Parts)
    PROVE  Fits(LaunchCluster(p), p)
<1> DEFINE from == ParseImageInput(p.image_or_version_or_prs)
           inputs == IF from = <<>> THEN <<>> ELSE <<from>>
           o == ParseOptions(p.options, inputs, "install")
<1>1. CASE LaunchCluster(p) = None  BY <1>1, NoneFits
<1>2. CASE o.ok /\ LaunchCluster(p) = Launch("install", inputs, o, o.params, "")
  <2>1. OptionsFit(o, p["options"])
    <3> HIDE DEF inputs
    <3>1. QED  BY <1>2, ParseOptionsFits
  <2>2. /\ o.platform = "hypershift-hosted" => o.architecture = "multi"
        /\ PlatformTyped(p, o.platform)
    <3> HIDE DEF o
    <3>1. QED  BY <2>1 DEF OptionsFit, PlatformTyped
  <2>3. \A i \in 1..Len(inputs) : Input(inputs[i])
    <3>1. CASE from = <<>>  BY <3>1
    <3>2. CASE from # <<>>
      <4>1. Input(from)  BY <3>2, InputOfParts
      <4> HIDE DEF from
      <4>2. inputs = <<from>>  BY <3>2
      <4>3. QED  BY <4>1, <4>2
    <3>3. QED  BY <3>1, <3>2
  <2> HIDE DEF o, inputs
  <2>4. Fits(Launch("install", inputs, o, o.params, ""), p)  BY <2>2, <2>3, LaunchOf
  <2>5. QED  BY <1>2, <2>4
<1>3. QED  BY <1>1, <1>2 DEF LaunchCluster

LEMMA TestUpgradeFits ==
    ASSUME NEW p, p["from"] \in Seq(Parts), p["to"] \in Seq(Parts), p["options"] \in Seq(Parts)
    PROVE  Fits(TestUpgrade(p), p)
<1> DEFINE from == ParseImageInput(p.from)
           to == IF p.to = <<>> THEN from ELSE ParseImageInput(p.to)
           inputs == <<from, to>>
           o == ParseOptions(p.options, inputs, "upgrade")
           test == IF Param(o.params, "test") = "" THEN "e2e-upgrade" ELSE Param(o.params, "test")
           params == WithTest(o.params, test)
<1>1. CASE TestUpgrade(p) = None  BY <1>1, NoneFits
<1>2. CASE /\ o.ok /\ from # <<>> /\ to # <<>> /\ test \in UpgradeTests
           /\ TestUpgrade(p) = Launch("upgrade", inputs, o, params, "")
  <2>1. OptionsFit(o, p["options"])
    <3> HIDE DEF inputs
    <3>1. QED  BY <1>2, ParseOptionsFits
  <2>2. /\ o.platform = "hypershift-hosted" => o.architecture = "multi"
        /\ PlatformTyped(p, o.platform)
    <3> HIDE DEF o
    <3>1. QED  BY <2>1 DEF OptionsFit, PlatformTyped
  <2>3. Input(from) /\ Input(to)  BY <1>2, InputOfParts
  <2>4. params[<<"test">>] \in UpgradeTests
    <3> HIDE DEF test, o
    <3>1. params[<<"test">>] = test  BY TestOf
    <3>2. QED  BY <1>2, <3>1
  <2> HIDE DEF o, from, to, params, test
  <2>5. Len(inputs) = 2 /\ \A i \in 1..Len(inputs) : Input(inputs[i])
    BY <2>3, TwoInputs
  <2> HIDE DEF inputs
  <2>6. Fits(Launch("upgrade", inputs, o, params, ""), p)
    BY <2>2, <2>4, <2>5, LaunchOf
  <2>7. QED  BY <1>2, <2>6
<1>3. QED  BY <1>1, <1>2 DEF TestUpgrade

LEMMA TestFits ==
    ASSUME NEW p, p["image_or_version_or_prs"] \in Seq(Parts), p["options"] \in Seq(Parts)
    PROVE  Fits(Test(p), p)
<1> DEFINE from == ParseImageInput(p.image_or_version_or_prs)
           inputs == <<from>>
           o == ParseOptions(p.options, inputs, "test")
           tests == {t \in KnownTests : p.name = Word(t)}
           test == CHOOSE t \in tests : TRUE
           params == WithTest(o.params, test)
<1>1. CASE Test(p) = None  BY <1>1, NoneFits
<1>2. CASE /\ o.ok /\ from # <<>> /\ test \notin UpgradeTests
           /\ Test(p) = Launch("test", inputs, o, params, "")
  <2>1. OptionsFit(o, p["options"])
    <3> HIDE DEF inputs
    <3>1. QED  BY <1>2, ParseOptionsFits
  <2>2. /\ o.platform = "hypershift-hosted" => o.architecture = "multi"
        /\ PlatformTyped(p, o.platform)
    <3> HIDE DEF o
    <3>1. QED  BY <2>1 DEF OptionsFit, PlatformTyped
  <2>3. Input(from)  BY <1>2, InputOfParts
  <2>4. params[<<"test">>] \notin UpgradeTests
    <3> HIDE DEF test, o
    <3>1. params[<<"test">>] = test  BY TestOf
    <3>2. QED  BY <1>2, <3>1
  <2> HIDE DEF o, from, params, tests, test
  <2>5. \A i \in 1..Len(inputs) : Input(inputs[i])  BY <2>3
  <2> HIDE DEF inputs
  <2>6. Fits(Launch("test", inputs, o, params, ""), p)
    BY <2>2, <2>4, <2>5, LaunchOf
  <2>7. QED  BY <1>2, <2>6
<1>3. QED  BY <1>1, <1>2 DEF Test

\* The launches without options.
LEMMA PlainLaunchFits ==
    ASSUME NEW p, "options" \notin DOMAIN p, NEW jobType \in {"build", "catalog"},
           NEW from, Input(from), NEW params
    PROVE  Fits(Launch(jobType, <<from>>, ParseOptions(<<>>, <<from>>, jobType), params, ""), p)
<1> DEFINE o == ParseOptions(<<>>, <<from>>, jobType)
           inputs == <<from>>
<1>1. o.platform = "aws"  BY NoOptions
<1>2. PlatformTyped(p, o.platform)  BY DEF PlatformTyped
<1>3. \A i \in 1..Len(inputs) : Input(inputs[i])  OBVIOUS
<1> HIDE DEF o, inputs
<1>4. Fits(Launch(jobType, inputs, o, params, ""), p)  BY <1>1, <1>2, <1>3, LaunchOf
<1>5. QED  BY <1>4 DEF o, inputs

LEMMA CatalogBuildFits ==
    ASSUME NEW p, "options" \notin DOMAIN p, p["pullrequest"] \in Seq(Parts)
    PROVE  Fits(CatalogBuild(p), p)
<1> DEFINE from == ParseImageInput(p.pullrequest)
           bundle == ParseImageInput(p.bundle_name)
           o == ParseOptions(<<>>, <<from>>, "catalog")
           params == <<"bundle">> :> bundle[1]
<1>1. CASE CatalogBuild(p) = None  BY <1>1, NoneFits
<1>2. CASE from # <<>> /\ CatalogBuild(p) = Launch("catalog", <<from>>, o, params, "")
  <2>1. Input(from)  BY <1>2, InputOfParts
  <2> HIDE DEF from, params
  <2>2. Fits(Launch("catalog", <<from>>, o, params, ""), p)  BY <2>1, PlainLaunchFits
  <2>3. QED  BY <1>2, <2>2
<1>3. QED  BY <1>1, <1>2 DEF CatalogBuild

LEMMA BuildFits ==
    ASSUME NEW p, "options" \notin DOMAIN p, p["pullrequest"] \in Seq(Parts)
    PROVE  Fits(Build(p), p)
<1> DEFINE from == ParseImageInput(p.pullrequest)
           o == ParseOptions(<<>>, <<from>>, "build")
           params == o.params
<1>1. CASE Build(p) = None  BY <1>1, NoneFits
<1>2. CASE from # <<>> /\ Build(p) = Launch("build", <<from>>, o, params, "")
  <2>1. Input(from)  BY <1>2, InputOfParts
  <2> HIDE DEF from, params
  <2>2. Fits(Launch("build", <<from>>, o, params, ""), p)  BY <2>1, PlainLaunchFits
  <2>3. QED  BY <1>2, <2>2
<1>3. QED  BY <1>1, <1>2 DEF Build

\* The platform of a workflow gets the architecture that it needs.
LEMMA WorkflowFits ==
    ASSUME NEW p, "options" \notin DOMAIN p, NEW inputs, NEW name, NEW parameters,
           NEW jobType \in {"workflow-launch", "workflow-test", "workflow-upgrade"},
           jobType = "workflow-upgrade" => Len(inputs) = 2,
           <<>> \notin ToSet(inputs) => \A i \in 1..Len(inputs) : Input(inputs[i])
    PROVE  Fits(Workflow(jobType, inputs, name, parameters), p)
<1> DEFINE how == GetPlatformArchFromWorkflowConfig(name)
           o == BuildJobParams(parameters)
           x == Workflow(jobType, inputs, name, parameters)
<1>1. CASE x = None  BY <1>1, NoneFits
<1>2. CASE /\ how.ok /\ <<>> \notin ToSet(inputs)
           /\ x = Launch(jobType, inputs, how, o.params, name)
  <2>1. how.platform = "hypershift-hosted" => how.architecture = "multi"
    <3>1. Refused.ok = FALSE  BY DEF Refused
    <3>2. QED  BY <1>2, <3>1 DEF GetPlatformArchFromWorkflowConfig
  <2>2. PlatformTyped(p, how.platform)  BY DEF PlatformTyped
  <2>3. \A i \in 1..Len(inputs) : Input(inputs[i])  BY <1>2
  <2> HIDE DEF how, o, x
  <2>4. Fits(Launch(jobType, inputs, how, o.params, name), p)  BY <2>1, <2>2, <2>3, LaunchOf
  <2>5. QED  BY <1>2, <2>4 DEF x
<1>3. QED  BY <1>1, <1>2 DEF Workflow

LEMMA WorkflowsFit ==
    ASSUME NEW p, "options" \notin DOMAIN p
    PROVE  /\ p["image_or_version_or_prs"] \in Seq(Parts)
                 => Fits(WorkflowLaunch(p), p) /\ Fits(WorkflowTest(p), p)
           /\ p["from_image_or_version_or_prs"] \in Seq(Parts)
              /\ p["to_image_or_version_or_prs"] \in Seq(Parts)
                 => Fits(WorkflowUpgrade(p), p)
<1>1. ASSUME p["image_or_version_or_prs"] \in Seq(Parts)
      PROVE  Fits(WorkflowLaunch(p), p) /\ Fits(WorkflowTest(p), p)
  <2> DEFINE from == ParseImageInput(p.image_or_version_or_prs)
             inputs == <<from>>
  <2>1. from # <<>> => Input(from)  BY <1>1, InputOfParts
  <2> HIDE DEF from
  <2>2. <<>> \notin ToSet(inputs) => from # <<>>  BY DEF ToSet
  <2>3. <<>> \notin ToSet(inputs) => \A i \in 1..Len(inputs) : Input(inputs[i])
    BY <2>1, <2>2, OneInput
  <2> HIDE DEF inputs
  <2>4. \A jobType \in {"workflow-launch", "workflow-test"} :
           Fits(Workflow(jobType, inputs, p.name, p.parameters), p)
    BY <2>3, WorkflowFits
  <2>5. QED  BY <2>4 DEF WorkflowLaunch, WorkflowTest, inputs, from
<1>2. ASSUME p["from_image_or_version_or_prs"] \in Seq(Parts),
             p["to_image_or_version_or_prs"] \in Seq(Parts)
      PROVE  Fits(WorkflowUpgrade(p), p)
  <2> DEFINE from == ParseImageInput(p.from_image_or_version_or_prs)
             to == ParseImageInput(p.to_image_or_version_or_prs)
             inputs == <<from, to>>
  <2>1. (from # <<>> => Input(from)) /\ (to # <<>> => Input(to))  BY <1>2, InputOfParts
  <2> HIDE DEF from, to
  <2>2. <<>> \notin ToSet(inputs) => from # <<>> /\ to # <<>>  BY DEF ToSet
  <2>3. <<>> \notin ToSet(inputs) => \A i \in 1..Len(inputs) : Input(inputs[i])
    BY <2>1, <2>2, TwoInputs
  <2>4. Len(inputs) = 2  BY TwoInputs
  <2> HIDE DEF inputs
  <2>5. Fits(Workflow("workflow-upgrade", inputs, p.name, p.parameters), p)
    BY <2>3, <2>4, WorkflowFits
  <2>6. QED  BY <2>5 DEF WorkflowUpgrade, inputs, from, to
<1>3. QED  BY <1>1, <1>2

\* Access to GCP is for whom the classification calls a member.
Grants(x, u) ==
    (x # None /\ x.op \in {"GrantGCPAccess", "RevokeGCPAccess"}) =>
        ClassifyUserMembership(u, TRUE) = "member"

Outcome(x, u, p) == Fits(x, p) /\ Grants(x, u)

LEMMA LaunchesGrantNothing ==
    ASSUME NEW u, NEW p
    PROVE  /\ Grants(LaunchCluster(p), u) /\ Grants(TestUpgrade(p), u) /\ Grants(Test(p), u)
           /\ Grants(Build(p), u) /\ Grants(CatalogBuild(p), u)
           /\ Grants(WorkflowLaunch(p), u) /\ Grants(WorkflowTest(p), u)
           /\ Grants(WorkflowUpgrade(p), u)
<1>1. \A jobType, inputs, how, params, workflow :
         Launch(jobType, inputs, how, params, workflow).op = "LaunchJobForUser"
  BY DEF Launch
<1>2. \A x : x.op = "LaunchJobForUser" \/ x = None => Grants(x, u)
  BY DEF Grants
<1>3. Grants(LaunchCluster(p), u)  BY <1>1, <1>2 DEF LaunchCluster
<1>4. Grants(TestUpgrade(p), u)
  <2> DEFINE from == ParseImageInput(p.from)
             to == IF p.to = <<>> THEN from ELSE ParseImageInput(p.to)
             o == ParseOptions(p.options, <<from, to>>, "upgrade")
             test == IF Param(o.params, "test") = "" THEN "e2e-upgrade"
                     ELSE Param(o.params, "test")
             launch == Launch("upgrade", <<from, to>>, o, WithTest(o.params, test), "")
  <2>1. TestUpgrade(p) = None \/ TestUpgrade(p) = launch  BY DEF TestUpgrade
  <2> HIDE DEF from, to, o, test
  <2>2. launch.op = "LaunchJobForUser"  BY <1>1
  <2> HIDE DEF launch
  <2>3. QED  BY <1>2, <2>1, <2>2
<1>5. Grants(Test(p), u)  BY <1>1, <1>2 DEF Test
<1>6. Grants(Build(p), u)  BY <1>1, <1>2 DEF Build
<1>7. Grants(CatalogBuild(p), u)  BY <1>1, <1>2 DEF CatalogBuild
<1>8. \A jobType, inputs, name, parameters : Grants(Workflow(jobType, inputs, name, parameters), u)
  BY <1>1, <1>2 DEF Workflow
<1>9. QED
  BY <1>3, <1>4, <1>5, <1>6, <1>7, <1>8 DEF WorkflowLaunch, WorkflowTest, WorkflowUpgrade

LEMMA OthersGrantNothing ==
    ASSUME NEW x, NEW u, NEW p,
           \/ x = None
           \/ x.op \notin {"LaunchJobForUser", "GrantGCPAccess", "RevokeGCPAccess"}
    PROVE  Outcome(x, u, p)
  BY DEF Outcome, Fits, Grants

LEMMA RequestsGrant ==
    ASSUME NEW x, NEW u, NEW p, x \in request(u, p) \cup Revoke(u, p)
    PROVE  Outcome(x, u, p)
<1>1. x \in ForMembers(u, "GrantGCPAccess") \cup ForMembers(u, "RevokeGCPAccess") \cup {None}
  BY DEF request, Revoke
<1>2. CASE x = None  BY <1>2 DEF Outcome, Fits, Grants
<1>3. CASE x # None
  <2>1. /\ ClassifyUserMembership(u, TRUE) = "member"
        /\ x \in {[op |-> "GrantGCPAccess", user |-> u], [op |-> "RevokeGCPAccess", user |-> u]}
    BY <1>1, <1>3 DEF ForMembers
  <2>2. x.op # "LaunchJobForUser"  BY <2>1
  <2>3. QED  BY <2>1, <2>2 DEF Outcome, Fits, Grants
<1>4. QED  BY <1>2, <1>3

\* Whatever was typed: what the handler of a command asks for fits, and
\* access is asked for a member.
LEMMA HandlerOutcome ==
    ASSUME NEW c \in ToSet(SupportedCommands), NEW u,
           NEW p \in [ToSet(c.parameters) -> Seq(Parts)], NEW x \in Handler(c, u, p)
    PROVE  Outcome(x, u, p)
<1>1. PICK i \in 1..24 : c = SupportedCommands[i]  BY NumberOfEntries DEF ToSet
<1>2. CASE i = 1
  <2>1. c.words = <<"launch">> /\ c.parameters = <<"image_or_version_or_prs", "options">>
    BY <1>1, <1>2, Entries DEF Row
  <2>2. x \in {LaunchCluster(p)}  BY <2>1, HandlerOf
  <2>3. /\ p["image_or_version_or_prs"] \in Seq(Parts)
        /\ p["options"] \in Seq(Parts)
    BY <2>1 DEF ToSet
  <2>4. QED  BY <2>2, <2>3, LaunchClusterFits, LaunchesGrantNothing DEF Outcome
<1>3. CASE i = 2
  <2>1. c.words = <<"rosa", "create">>  BY <1>1, <1>3, Entries DEF Row
  <2>2. x \in {RosaCreate(p)}  BY <2>1, HandlerOf
  <2>3. QED  BY <2>2, OthersGrantNothing DEF RosaCreate
<1>4. CASE i = 3
  <2>1. c.words = <<"rosa", "lookup">>  BY <1>1, <1>4, Entries DEF Row
  <2>2. x \in {RosaLookup(p)}  BY <2>1, HandlerOf
  <2>3. QED  BY <2>2, OthersGrantNothing DEF RosaLookup
<1>5. CASE i = 4
  <2>1. c.words = <<"rosa", "describe">>  BY <1>1, <1>5, Entries DEF Row
  <2>2. x \in {RosaDescribe(p)}  BY <2>1, HandlerOf
  <2>3. QED  BY <2>2, OthersGrantNothing DEF RosaDescribe
<1>6. CASE i = 5
  <2>1. c.words = <<"list">>  BY <1>1, <1>6, Entries DEF Row
  <2>2. x \in {[op |-> "ListJobs"]}  BY <2>1, HandlerOf
  <2>3. QED  BY <2>2, OthersGrantNothing
<1>7. CASE i = 6
  <2>1. c.words = <<"done">>  BY <1>1, <1>7, Entries DEF Row
  <2>2. x \in {[op |-> "TerminateJobForUser"]}  BY <2>1, HandlerOf
  <2>3. QED  BY <2>2, OthersGrantNothing
<1>8. CASE i = 7
  <2>1. c.words = <<"refresh">>  BY <1>1, <1>8, Entries DEF Row
  <2>2. x \in {[op |-> "SyncJobForUser"]}  BY <2>1, HandlerOf
  <2>3. QED  BY <2>2, OthersGrantNothing
<1>9. CASE i = 8
  <2>1. c.words = <<"auth">>  BY <1>1, <1>9, Entries DEF Row
  <2>2. x \in Auth  BY <2>1, HandlerOf
  <2>3. QED  BY <2>2, OthersGrantNothing DEF Auth
<1>10. CASE i = 9
  <2>1. c.words = <<"test", "upgrade">> /\ c.parameters = <<"from", "to", "options">>
    BY <1>1, <1>10, Entries DEF Row
  <2>2. x \in {TestUpgrade(p)}  BY <2>1, HandlerOf
  <2>3. /\ p["from"] \in Seq(Parts)
        /\ p["to"] \in Seq(Parts)
        /\ p["options"] \in Seq(Parts)
    BY <2>1 DEF ToSet
  <2>4. QED  BY <2>2, <2>3, TestUpgradeFits, LaunchesGrantNothing DEF Outcome
<1>11. CASE i = 10
  <2>1. c.words = <<"test">> /\ c.parameters = <<"name", "image_or_version_or_prs", "options">>
    BY <1>1, <1>11, Entries DEF Row
  <2>2. x \in {Test(p)}  BY <2>1, HandlerOf
  <2>3. /\ p["image_or_version_or_prs"] \in Seq(Parts)
        /\ p["options"] \in Seq(Parts)
    BY <2>1 DEF ToSet
  <2>4. QED  BY <2>2, <2>3, TestFits, LaunchesGrantNothing DEF Outcome
<1>12. CASE i = 11
  <2>1. c.words = <<"build">> /\ c.parameters = <<"pullrequest">>
    BY <1>1, <1>12, Entries DEF Row
  <2>2. x \in {Build(p)}  BY <2>1, HandlerOf
  <2>3. /\ p["pullrequest"] \in Seq(Parts)
        /\ "options" \notin DOMAIN p
    BY <2>1 DEF ToSet
  <2>4. QED  BY <2>2, <2>3, BuildFits, LaunchesGrantNothing DEF Outcome
<1>13. CASE i = 12
  <2>1. c.words = <<"workflow-launch">> /\ c.parameters = <<"name", "image_or_version_or_prs", "parameters">>
    BY <1>1, <1>13, Entries DEF Row
  <2>2. x \in {WorkflowLaunch(p)}  BY <2>1, HandlerOf
  <2>3. /\ p["image_or_version_or_prs"] \in Seq(Parts)
        /\ "options" \notin DOMAIN p
    BY <2>1 DEF ToSet
  <2>4. QED  BY <2>2, <2>3, WorkflowsFit, LaunchesGrantNothing DEF Outcome
<1>14. CASE i = 13
  <2>1. c.words = <<"workflow-test">> /\ c.parameters = <<"name", "image_or_version_or_prs", "parameters">>
    BY <1>1, <1>14, Entries DEF Row
  <2>2. x \in {WorkflowTest(p)}  BY <2>1, HandlerOf
  <2>3. /\ p["image_or_version_or_prs"] \in Seq(Parts)
        /\ "options" \notin DOMAIN p
    BY <2>1 DEF ToSet
  <2>4. QED  BY <2>2, <2>3, WorkflowsFit, LaunchesGrantNothing DEF Outcome
<1>15. CASE i = 14
  <2>1. /\ c.words = <<"workflow-upgrade">>
        /\ c.parameters = <<"name", "from_image_or_version_or_prs", "to_image_or_version_or_prs", "parameters">>
    BY <1>1, <1>15, Entries DEF Row
  <2>2. x \in {WorkflowUpgrade(p)}  BY <2>1, HandlerOf
  <2>3. /\ p["from_image_or_version_or_prs"] \in Seq(Parts)
        /\ p["to_image_or_version_or_prs"] \in Seq(Parts)
        /\ "options" \notin DOMAIN p
    BY <2>1 DEF ToSet
  <2>4. QED  BY <2>2, <2>3, WorkflowsFit, LaunchesGrantNothing DEF Outcome
<1>16. CASE i = 15
  <2>1. c.words = <<"version">>  BY <1>1, <1>16, Entries DEF Row
  <2>2. x \in {None}  BY <2>1, HandlerOf
  <2>3. QED  BY <2>2, OthersGrantNothing
<1>17. CASE i = 16
  <2>1. c.words = <<"lookup">>  BY <1>1, <1>17, Entries DEF Row
  <2>2. x \in {Lookup(p)}  BY <2>1, HandlerOf
  <2>3. QED  BY <2>2, OthersGrantNothing DEF Lookup
<1>18. CASE i = 17
  <2>1. c.words = <<"catalog", "build">> /\ c.parameters = <<"pullrequest", "bundle_name">>
    BY <1>1, <1>18, Entries DEF Row
  <2>2. x \in {CatalogBuild(p)}  BY <2>1, HandlerOf
  <2>3. /\ p["pullrequest"] \in Seq(Parts)
        /\ "options" \notin DOMAIN p
    BY <2>1 DEF ToSet
  <2>4. QED  BY <2>2, <2>3, CatalogBuildFits, LaunchesGrantNothing DEF Outcome
<1>19. CASE i = 18
  <2>1. c.words = <<"mce", "create">>  BY <1>1, <1>19, Entries DEF Row
  <2>2. x \in {MceCreate(p)}  BY <2>1, HandlerOf
  <2>3. QED  BY <2>2, OthersGrantNothing DEF MceCreate
<1>20. CASE i = 19
  <2>1. c.words = <<"mce", "auth">>  BY <1>1, <1>20, Entries DEF Row
  <2>2. x \in {MceAuth(u, p)}  BY <2>1, HandlerOf
  <2>3. QED  BY <2>2, OthersGrantNothing DEF MceAuth
<1>21. CASE i = 20
  <2>1. c.words = <<"mce", "delete">>  BY <1>1, <1>21, Entries DEF Row
  <2>2. x \in {MceDelete(u, p)}  BY <2>1, HandlerOf
  <2>3. QED  BY <2>2, OthersGrantNothing DEF MceDelete
<1>22. CASE i = 21
  <2>1. c.words = <<"mce", "list">>  BY <1>1, <1>22, Entries DEF Row
  <2>2. x \in {MceList(u, p)}  BY <2>1, HandlerOf
  <2>3. QED  BY <2>2, OthersGrantNothing DEF MceList
<1>23. CASE i = 22
  <2>1. c.words = <<"mce", "lookup">>  BY <1>1, <1>23, Entries DEF Row
  <2>2. x \in {[op |-> "ListMceVersions"]}  BY <2>1, HandlerOf
  <2>3. QED  BY <2>2, OthersGrantNothing
<1>24. CASE i = 23
  <2>1. c.words = <<"request">>  BY <1>1, <1>24, Entries DEF Row
  <2>2. x \in request(u, p)  BY <2>1, HandlerOf
  <2>3. QED  BY <2>2, RequestsGrant
<1>25. CASE i = 24
  <2>1. c.words = <<"revoke">>  BY <1>1, <1>25, Entries DEF Row
  <2>2. x \in Revoke(u, p)  BY <2>1, HandlerOf
  <2>3. QED  BY <2>2, RequestsGrant
<1>26. QED
  BY <1>1, <1>2, <1>3, <1>4, <1>5, <1>6, <1>7, <1>8, <1>9, <1>10, <1>11, <1>12,
     <1>13, <1>14, <1>15, <1>16, <1>17, <1>18, <1>19, <1>20, <1>21, <1>22, <1>23, <1>24, <1>25

-----------------------------------------------------------------------------
(* The command that runs, and its parameters.                              *)

\* The first command of the table that matches.
LEMMA FirstMatch ==
    ASSUME NEW text, Match(text) # None
    PROVE  \E i \in 1..24 : /\ Match(text) = SupportedCommands[i]
                            /\ Matches(SupportedCommands[i], text)
                            /\ \A k \in 1..24 : Matches(SupportedCommands[k], text) => i <= k
<1> DEFINE all == {i \in 1..Len(SupportedCommands) : Matches(SupportedCommands[i], text)}
           first == CHOOSE i \in all : \A k \in all : i <= k
<1>1. all # {} /\ Match(text) = SupportedCommands[first]  BY DEF Match
<1>2. all \subseteq Nat  BY NumberOfEntries
<1>3. first \in all /\ \A k \in all : first <= k
  <2> HIDE DEF all
  <2>1. \E i \in all : \A k \in all : i <= k  BY <1>1, <1>2, LeastNatural
  <2>2. QED  BY <2>1
<1> HIDE DEF first
<1>4. first \in 1..24 /\ Matches(SupportedCommands[first], text)  BY <1>3, NumberOfEntries
<1>5. \A k \in 1..24 : Matches(SupportedCommands[k], text) => first <= k
  BY <1>3, NumberOfEntries
<1>6. QED  BY <1>1, <1>4, <1>5

LEMMA NoMatch ==
    ASSUME NEW text, Match(text) = None, NEW c \in ToSet(SupportedCommands)
    PROVE  ~Matches(c, text)
<1> DEFINE all == {i \in 1..Len(SupportedCommands) : Matches(SupportedCommands[i], text)}
           first == CHOOSE i \in all : \A k \in all : i <= k
<1>1. ASSUME all # {} PROVE FALSE
  <2>1. Match(text) = SupportedCommands[first]  BY <1>1 DEF Match
  <2>2. first \in all
    <3>1. all \subseteq Nat  BY NumberOfEntries
    <3> HIDE DEF all
    <3>2. \E i \in all : \A k \in all : i <= k  BY <1>1, <3>1, LeastNatural
    <3>3. QED  BY <3>2
  <2> HIDE DEF first
  <2>3. SupportedCommands[first] \in ToSet(SupportedCommands)
    BY <2>2, NumberOfEntries DEF ToSet
  <2>4. QED  BY <2>1, <2>3, CommandsAssumption
<1>2. PICK k \in 1..24 : c = SupportedCommands[k]  BY NumberOfEntries DEF ToSet
<1>3. QED  BY <1>1, <1>2, NumberOfEntries

\* No other command that the message begins with has more words.
LEMMA LongestMatch ==
    ASSUME NEW text, NEW i \in 1..24, Matches(SupportedCommands[i], text),
           \A k \in 1..24 : Matches(SupportedCommands[k], text) => i <= k,
           NEW k \in 1..24, Begins(SupportedCommands[k], text)
    PROVE  Len(SupportedCommands[k].words) <= Len(SupportedCommands[i].words)
<1> DEFINE wi == SupportedCommands[i].words
           wk == SupportedCommands[k].words
           li == Len(wi)
           lk == Len(wk)
<1>1. Begins(SupportedCommands[i], text)  BY DEF Matches
<1>2. Entry(i) /\ Entry(k)  BY EntriesFit
<1>3. /\ li = IF wi[1] \in {"rosa", "catalog", "mce"} \/ i = 9 THEN 2 ELSE 1
      /\ lk = IF wk[1] \in {"rosa", "catalog", "mce"} \/ k = 9 THEN 2 ELSE 1
      /\ wi[1] = "test" => i \in {9, 10}
  BY <1>2 DEF Entry
<1>4. wi[1] = wk[1]
  <2>1. \A j \in 1..li : text[j] = Word(wi[j])  BY <1>1 DEF Begins
  <2>2. \A j \in 1..lk : text[j] = Word(wk[j])  BY DEF Begins
  <2> HIDE DEF li, lk, wi, wk
  <2>3. 1 \in 1..li /\ 1 \in 1..lk  BY <1>3
  <2>4. Word(wi[1]) = Word(wk[1])  BY <2>1, <2>2, <2>3
  <2>5. \A a, b : Word(a) = Word(b) => a = b  BY DEF Word
  <2>6. QED  BY <2>4, <2>5
<1>5. SupportedCommands[9] = Row(<<"test", "upgrade">>, <<"from", "to", "options">>, FALSE)
  BY Entries
<1>6. ASSUME lk > li PROVE FALSE
  <2>1. k = 9
    <3> HIDE DEF li, lk, wi, wk
    <3>1. QED  BY <1>3, <1>4, <1>6
  <2>2. wi[1] = "test"  BY <1>4, <1>5, <2>1 DEF Row
  <2>3. i = 10
    <3> HIDE DEF li, lk, wi, wk
    <3>1. i # 9  BY <1>3, <1>6
    <3>2. QED  BY <1>3, <2>2, <3>1
  <2>4. Matches(SupportedCommands[9], text)
    <3>1. ~SupportedCommands[9].lazy /\ SupportedCommands[9].parameters # <<>>
      BY <1>5 DEF Row
    <3>2. QED  BY <2>1, <3>1 DEF Matches
  <2>5. QED  BY <2>3, <2>4
<1>7. lk <= li
  <2> HIDE DEF li, lk, wi, wk
  <2>1. QED  BY <1>3, <1>6
<1>8. QED  BY <1>7

LEMMA RestType ==
    ASSUME NEW c \in ToSet(SupportedCommands), NEW text \in Seq(Words)
    PROVE  Rest(c, text) \in Seq(Words)
<1>1. Len(c.words) \in {1, 2}
  <2>1. PICK i \in 1..24 : c = SupportedCommands[i]  BY NumberOfEntries DEF ToSet
  <2>2. QED  BY <2>1, EntriesFit DEF Entry
<1>2. Len(text) \in Nat  OBVIOUS
<1>3. \A i \in (Len(c.words) + 1)..Len(text) : text[i] \in Words  BY <1>1, <1>2
<1> DEFINE m == Len(c.words) + 1
<1>4. m \in Int  BY <1>1
<1> HIDE DEF m
<1>5. SubSeq(text, m, Len(text)) \in Seq(Words)
  BY <1>2, <1>3, <1>4, SubSeqProperties DEF m
<1>6. QED  BY <1>5 DEF m, Rest

\* How many of the parameters get a value.
Given(c, text) ==
    IF Len(Rest(c, text)) < Len(c.parameters) THEN Len(Rest(c, text)) ELSE Len(c.parameters)

\* The value of every parameter.
LEMMA PropertyOf ==
    ASSUME NEW c \in ToSet(SupportedCommands), NEW text,
           NEW i \in 1..Len(c.parameters)
    PROVE  Properties(c, text)[c.parameters[i]]
              = IF i > Given(c, text) THEN <<>> ELSE Taken(Rest(c, text), Given(c, text), i)
<1>1. PICK k \in 1..24 : c = SupportedCommands[k]  BY NumberOfEntries DEF ToSet
<1>2. /\ DOMAIN c.parameters = 1..Len(c.parameters)
      /\ \A h, j \in 1..Len(c.parameters) : c.parameters[h] = c.parameters[j] => h = j
  BY <1>1, EntriesFit DEF Entry
<1>3. c.parameters[i] \in ToSet(c.parameters)  BY <1>2 DEF ToSet
<1> DEFINE at == CHOOSE h \in 1..Len(c.parameters) : c.parameters[h] = c.parameters[i]
<1>4. at = i  BY <1>2
<1> HIDE DEF at
<1>5. Properties(c, text)[c.parameters[i]]
         = IF at > Given(c, text) THEN <<>> ELSE Taken(Rest(c, text), Given(c, text), at)
  BY <1>3 DEF Properties, Given, at
<1>6. QED  BY <1>4, <1>5

\* A parameter takes in one word, the last one all that are left.
LEMMA TakenType ==
    ASSUME NEW rest \in Seq(Words), NEW n \in 1..Len(rest), NEW i \in 1..n
    PROVE  /\ Taken(rest, n, i) \in Words
           /\ i < n => Taken(rest, n, i) = rest[i]
           /\ i = n => Taken(rest, n, i) = Join(SubSeq(rest, n, Len(rest)))
<1>1. Len(rest) \in Nat /\ n \in Nat \ {0}  OBVIOUS
<1>2. \A k \in 1..Len(rest) : rest[k] \in Words  BY <1>1
<1>3. CASE i < n
  <2>1. rest[i] \in Words  BY <1>1, <1>2
  <2>2. QED  BY <1>3, <2>1 DEF Taken
<1>4. CASE i = n
  <2> DEFINE tail == SubSeq(rest, n, Len(rest))
  <2>1. tail \in Seq(Words) /\ Len(tail) = Len(rest) - n + 1
    <3>1. \A k \in n..Len(rest) : rest[k] \in Words  BY <1>1, <1>2
    <3>2. QED  BY <1>1, <3>1, SubSeqProperties
  <2> HIDE DEF tail
  <2>2. tail # <<>>  BY <1>1, <2>1
  <2>3. Join(tail) \in Words  BY <2>1, <2>2, JoinType
  <2>4. QED  BY <1>4, <2>3 DEF Taken, tail
<1>5. QED  BY <1>3, <1>4

\* Given is a number of parameters and of words.
LEMMA GivenType ==
    ASSUME NEW c \in ToSet(SupportedCommands), NEW text \in Seq(Words)
    PROVE  /\ Len(c.parameters) \in 0..4
           /\ Given(c, text) \in 0..Len(c.parameters)
           /\ Given(c, text) \in 0..Len(Rest(c, text))
<1>1. PICK k \in 1..24 : c = SupportedCommands[k]  BY NumberOfEntries DEF ToSet
<1>2. Len(c.parameters) \in 0..4  BY <1>1, EntriesFit DEF Entry
<1>3. Len(Rest(c, text)) \in Nat  BY RestType
<1>4. QED  BY <1>2, <1>3 DEF Given

LEMMA PropertiesType ==
    ASSUME NEW c \in ToSet(SupportedCommands), NEW text \in Seq(Words)
    PROVE  Properties(c, text) \in [ToSet(c.parameters) -> Seq(Parts)]
<1> DEFINE n == Given(c, text)
           rest == Rest(c, text)
<1>1. rest \in Seq(Words)  BY RestType
<1>2. /\ Len(c.parameters) \in 0..4 /\ n \in 0..Len(c.parameters) /\ n \in 0..Len(rest)
  BY GivenType
<1>3. ASSUME NEW i \in 1..Len(c.parameters)
      PROVE  Properties(c, text)[c.parameters[i]] \in Seq(Parts)
  <2>1. CASE i > n
    <3>1. Properties(c, text)[c.parameters[i]] = <<>>  BY <2>1, PropertyOf
    <3>2. QED  BY <3>1, EmptySeq
  <2>2. CASE ~(i > n)
    <3>1. Properties(c, text)[c.parameters[i]] = Taken(rest, n, i)  BY <2>2, PropertyOf
    <3> HIDE DEF n, rest
    <3>2. i \in 1..n /\ n \in 1..Len(rest)  BY <1>1, <1>2, <2>2
    <3>3. Taken(rest, n, i) \in Words  BY <1>1, <3>2, TakenType
    <3>4. QED  BY <3>1, <3>3 DEF Words
  <2>3. QED  BY <2>1, <2>2
<1>4. \A q \in ToSet(c.parameters) : \E i \in 1..Len(c.parameters) : q = c.parameters[i]
  <2>1. PICK k \in 1..24 : c = SupportedCommands[k]  BY NumberOfEntries DEF ToSet
  <2>2. DOMAIN c.parameters = 1..Len(c.parameters)  BY <2>1, EntriesFit DEF Entry
  <2>3. QED  BY <2>2 DEF ToSet
<1>5. \A q \in ToSet(c.parameters) : Properties(c, text)[q] \in Seq(Parts)
  BY <1>3, <1>4
<1>6. Properties(c, text) = [q \in ToSet(c.parameters) |-> Properties(c, text)[q]]
  BY DEF Properties
<1>7. QED  BY <1>5, <1>6

\* The parameters make up the words that follow the command.
LEMMA ParametersMakeUpRest ==
    ASSUME NEW c \in ToSet(SupportedCommands), NEW text \in Seq(Words), Matches(c, text),
           NEW p, p = Properties(c, text)
    PROVE  \E n \in 0..Len(c.parameters) :
              /\ \A i \in 1..Len(c.parameters) : i <= n <=> p[c.parameters[i]] # <<>>
              /\ Join([i \in 1..n |-> p[c.parameters[i]]]) = Join(Rest(c, text))
              /\ \A i \in 1..(n - 1) : p[c.parameters[i]] \in ToSet(Rest(c, text))
<1> DEFINE n == Given(c, text)
           rest == Rest(c, text)
           values == [i \in 1..n |-> p[c.parameters[i]]]
<1>1. rest \in Seq(Words) /\ Len(rest) \in Nat  BY RestType
<1>2. Len(c.parameters) \in 0..4 /\ n \in 0..Len(c.parameters) /\ n \in 0..Len(rest)
  BY GivenType
<1>3. \A i \in 1..Len(c.parameters) :
         p[c.parameters[i]] = IF i > n THEN <<>> ELSE Taken(rest, n, i)
  BY PropertyOf
<1>4. c.lazy \/ c.parameters = <<>> => Len(rest) <= Len(c.parameters)  BY DEF Matches
<1>5. n = 0 => rest = <<>>
  <2>1. SUFFICES ASSUME n = 0 PROVE Len(rest) = 0  BY <1>1, EmptySeq
  <2>2. CASE Len(c.parameters) = 0
    <3>1. c.parameters = <<>>
      <4>1. PICK k \in 1..24 : c = SupportedCommands[k]  BY NumberOfEntries DEF ToSet
      <4>2. QED  BY <4>1, <2>2, EntriesFit DEF Entry
    <3>2. QED  BY <1>1, <1>4, <2>2, <3>1
  <2>3. CASE Len(c.parameters) # 0  BY <1>1, <1>2, <2>1, <2>3 DEF Given
  <2>4. QED  BY <2>2, <2>3
<1> HIDE DEF n, rest
<1>6. ASSUME NEW i \in 1..n
      PROVE  /\ p[c.parameters[i]] \in Words
             /\ i < n => p[c.parameters[i]] = rest[i]
             /\ i = n => p[c.parameters[i]] = Join(SubSeq(rest, n, Len(rest)))
  <2>1. i \in 1..Len(c.parameters) /\ ~(i > n) /\ n \in 1..Len(rest)  BY <1>1, <1>2
  <2>2. p[c.parameters[i]] = Taken(rest, n, i)  BY <1>3, <2>1
  <2>3. QED  BY <1>1, <2>1, <2>2, TakenType
<1>7. \A i \in 1..Len(c.parameters) : i <= n <=> p[c.parameters[i]] # <<>>
  <2>1. ASSUME NEW i \in 1..Len(c.parameters), i <= n PROVE p[c.parameters[i]] # <<>>
    <3>1. i \in 1..n  BY <1>2, <2>1
    <3>2. QED  BY <1>6, <3>1 DEF Words
  <2>2. ASSUME NEW i \in 1..Len(c.parameters), ~(i <= n) PROVE p[c.parameters[i]] = <<>>
    BY <1>2, <1>3, <2>2
  <2>3. QED  BY <2>1, <2>2
<1>8. Join(values) = Join(rest)
  <2>1. CASE n = 0
    <3>1. values = <<>>  BY <2>1
    <3>2. QED  BY <1>5, <2>1, <3>1
  <2>2. CASE n # 0
    <3>1. n \in 1..Len(rest) /\ n \in Nat  BY <1>1, <1>2, <2>2
    <3>2. values \in Seq(Words) /\ Len(values) = n  BY <1>6, <3>1
    <3>3. \A i \in 1..(n - 1) : values[i] = rest[i]  BY <1>6, <3>1
    <3>4. values[n] = Join(SubSeq(rest, n, Len(rest)))  BY <1>6, <3>1
    <3> HIDE DEF values
    <3>5. QED  BY <1>1, <3>1, <3>2, <3>3, <3>4, JoinTail
  <2>3. QED  BY <2>1, <2>2
<1>9. \A i \in 1..(n - 1) : p[c.parameters[i]] \in ToSet(rest)
  <2>1. ASSUME NEW i \in 1..(n - 1) PROVE p[c.parameters[i]] \in ToSet(rest)
    <3>1. i \in 1..n /\ i < n /\ i \in 1..Len(rest)  BY <1>1, <1>2
    <3>2. p[c.parameters[i]] = rest[i]  BY <1>6, <3>1
    <3>3. DOMAIN rest = 1..Len(rest)  BY <1>1
    <3>4. QED  BY <3>1, <3>2, <3>3 DEF ToSet
  <2>2. QED  BY <2>1
<1>10. QED  BY <1>2, <1>7, <1>8, <1>9 DEF rest

-----------------------------------------------------------------------------
(* The invariant.                                                          *)

\* A command runs once, on the message that was received; until then nothing
\* is recorded and nothing asked for.
Progress ==
    /\ stage \in {"idle", "handle"} => ran = None /\ call = None
    /\ stage # "idle" => message \in [text : Texts, user : Senders, kind : {"dm", "other"}]

CommandInv == Progress /\ RunsWhatWasTyped /\ LaunchFits /\ GrantedToMembers

LEMMA InitCommand == CommandInit => CommandInv
  BY DEF CommandInit, CommandInv, Progress, RunsWhatWasTyped, LaunchFits, GrantedToMembers

\* Steps that only move on.
LEMMA KeepsRun ==
    ASSUME CommandInv, UNCHANGED <<message, ran, call>>, stage' = "post" => stage = "post",
           stage \notin {"idle", "handle"} => stage' \notin {"idle", "handle"}
    PROVE  RunsWhatWasTyped' /\ LaunchFits' /\ GrantedToMembers'
<1>1. RunsWhatWasTyped'  BY DEF CommandInv, RunsWhatWasTyped, ValueAt
<1>2. LaunchFits'  BY DEF CommandInv, LaunchFits
<1>3. GrantedToMembers'  BY DEF CommandInv, GrantedToMembers
<1>4. QED  BY <1>1, <1>2, <1>3

LEMMA ReceiveKeeps == CommandInv /\ Receive => CommandInv'
<1> SUFFICES ASSUME CommandInv, Receive PROVE CommandInv'
  OBVIOUS
<1>1. stage = "idle" /\ stage' = "handle" /\ ran = None /\ ran' = None /\ call' = None
  BY DEF CommandInv, Progress, Receive
<1>2. message' \in [text : Texts, user : Senders, kind : {"dm", "other"}]  BY DEF Receive
<1>3. Progress'  BY <1>1, <1>2 DEF Progress
<1>4. RunsWhatWasTyped' /\ LaunchFits' /\ GrantedToMembers'
  BY <1>1 DEF RunsWhatWasTyped, LaunchFits, GrantedToMembers
<1>5. QED  BY <1>3, <1>4 DEF CommandInv

LEMMA IgnoreKeeps == CommandInv /\ Ignore => CommandInv'
<1> SUFFICES ASSUME CommandInv, Ignore PROVE CommandInv'
  OBVIOUS
<1>1. Progress'  BY DEF CommandInv, Progress, Ignore
<1>2. RunsWhatWasTyped' /\ LaunchFits' /\ GrantedToMembers'  BY KeepsRun DEF Ignore
<1>3. QED  BY <1>1, <1>2 DEF CommandInv

LEMMA HelpKeeps == CommandInv /\ Help => CommandInv'
<1> SUFFICES ASSUME CommandInv, Help PROVE CommandInv'
  OBVIOUS
<1>1. /\ stage = "handle" /\ stage' = "post" /\ ran' = None /\ call' = None
      /\ message' = message /\ message.text[1] = Word("help")
  BY DEF CommandInv, Progress, Help
<1>2. Progress'  BY <1>1 DEF CommandInv, Progress
<1>3. RunsWhatWasTyped' /\ LaunchFits' /\ GrantedToMembers'
  BY <1>1 DEF RunsWhatWasTyped, LaunchFits, GrantedToMembers
<1>4. QED  BY <1>2, <1>3 DEF CommandInv

\* The words of a message are words.
LEMMA MessageType ==
    ASSUME CommandInv, stage = "handle"
    PROVE  message.text \in Seq(Words)
<1>1. message.text \in Texts  BY DEF CommandInv, Progress
<1>2. QED  BY <1>1, CommandsAssumption DEF Words, Parts

\* A message that is not understood has more words than the commands take
\* that it begins with.
LEMMA UnrecognizedKeeps == CommandInv /\ Unrecognized => CommandInv'
<1> SUFFICES ASSUME CommandInv, Unrecognized PROVE CommandInv'
  OBVIOUS
<1>1. /\ stage = "handle" /\ stage' = "post" /\ ran' = None /\ call' = None
      /\ message' = message /\ Match(message.text) = None
  BY DEF CommandInv, Progress, Unrecognized
<1>2. Progress'  BY <1>1 DEF CommandInv, Progress
<1>3. ASSUME NEW c \in ToSet(SupportedCommands), Begins(c, message.text)
      PROVE  /\ c.lazy \/ c.parameters = <<>>
             /\ Len(Rest(c, message.text)) > Len(c.parameters)
  <2>1. ~Matches(c, message.text)  BY <1>1, NoMatch
  <2>2. message.text \in Seq(Words)  BY <1>1, MessageType
  <2>3. Len(Rest(c, message.text)) \in Nat /\ Len(c.parameters) \in Nat
    BY <2>2, RestType, GivenType
  <2>4. QED  BY <1>3, <2>1, <2>3 DEF Matches
<1>4. RunsWhatWasTyped'  BY <1>1, <1>3 DEF RunsWhatWasTyped
<1>5. LaunchFits' /\ GrantedToMembers'  BY <1>1 DEF LaunchFits, GrantedToMembers
<1>6. QED  BY <1>2, <1>4, <1>5 DEF CommandInv

\* Whoever is a member by the lookup with the email is not recorded as a
\* non-member by the lookup without it.
LEMMA MemberIsMember ==
    ASSUME NEW u, NEW m \in MembershipRecorded(u), ClassifyUserMembership(u, TRUE) = "member"
    PROVE  /\ m # "non_member"
           /\ \/ BySlackID[u] \in HybridPlatforms
              \/ BySlackID[u] = None /\ ByEmail[u] \in HybridPlatforms
  BY DEF MembershipRecorded, ClassifyUserMembership

LEMMA MembershipType ==
    ASSUME NEW u, NEW m \in MembershipRecorded(u)
    PROVE  m \in {"member", "non_member", "unknown"}
  BY DEF MembershipRecorded, ClassifyUserMembership

\* A record of a run is not None.
LEMMA RunIsNotNone ==
    ASSUME NEW c \in ToSet(SupportedCommands), NEW p \in [ToSet(c.parameters) -> Seq(Parts)],
           NEW m \in {"member", "non_member", "unknown"}
    PROVE  [command |-> c, properties |-> p, membership |-> m] # None
<1> DEFINE all == UNION {[ToSet(d.parameters) -> Seq(Seq(STRING))] : d \in ToSet(SupportedCommands)}
           r == [command |-> c, properties |-> p, membership |-> m]
<1>1. p \in all  BY DEF Parts
<1>2. Runs = [command : ToSet(SupportedCommands), properties : all,
              membership : {"member", "non_member", "unknown"}]
  BY DEF Runs
<1> HIDE DEF all
<1>3. r \in Runs  BY <1>1, <1>2
<1>4. QED  BY <1>3, CommandsAssumption

LEMMA executeCommandKeeps == CommandInv /\ executeCommand => CommandInv'
<1> SUFFICES ASSUME CommandInv, executeCommand PROVE CommandInv'
  OBVIOUS
<1> DEFINE text == message.text
           u == message.user
           c == Match(text)
           p == Properties(c, text)
<1>1. /\ stage = "handle" /\ stage' = "post" /\ message' = message /\ message.kind = "dm"
      /\ c # None
  BY DEF executeCommand
<1>2. PICK m \in MembershipRecorded(u) :
         /\ ran' = [command |-> c, properties |-> p, membership |-> m]
         /\ call' \in Handler(c, u, p)
  BY DEF executeCommand
<1>3. text \in Seq(Words)  BY <1>1, MessageType
<1>4. PICK i \in 1..24 : /\ c = SupportedCommands[i]
                         /\ Matches(SupportedCommands[i], text)
                         /\ \A k \in 1..24 : Matches(SupportedCommands[k], text) => i <= k
  BY <1>1, FirstMatch
<1> HIDE DEF text, u, c, p
<1>5. c \in ToSet(SupportedCommands) /\ Matches(c, text)
  BY <1>4, NumberOfEntries DEF ToSet
<1>6. p \in [ToSet(c.parameters) -> Seq(Parts)]  BY <1>3, <1>5, PropertiesType DEF p
<1>7. Outcome(call', u, p)
  <2> DEFINE x == call'
  <2>1. x \in Handler(c, u, p)  BY <1>2
  <2> HIDE DEF x
  <2>2. Outcome(x, u, p)  BY <1>5, <1>6, <2>1, HandlerOutcome
  <2>3. QED  BY <2>2 DEF x
<1>8. ran'.command = c /\ ran'.properties = p /\ ran'.membership = m  BY <1>2
<1>9. ran' # None
  <2>1. m \in {"member", "non_member", "unknown"}  BY MembershipType
  <2>2. QED  BY <1>2, <1>5, <1>6, <2>1, RunIsNotNone
<1>10. Progress'  BY <1>1 DEF CommandInv, Progress
<1>11. RunsWhatWasTyped'
  <2>1. Begins(c, text)  BY <1>5 DEF Matches
  <2>2. ASSUME NEW d \in ToSet(SupportedCommands), Begins(d, text)
        PROVE  Len(d.words) <= Len(c.words)
    <3>1. PICK k \in 1..24 : d = SupportedCommands[k]  BY NumberOfEntries DEF ToSet
    <3>2. QED  BY <1>4, <2>2, <3>1, LongestMatch
  <2>3. \E n \in 0..Len(c.parameters) :
           /\ \A j \in 1..Len(c.parameters) : j <= n <=> p[c.parameters[j]] # <<>>
           /\ Join([j \in 1..n |-> p[c.parameters[j]]]) = Join(Rest(c, text))
           /\ \A j \in 1..(n - 1) : p[c.parameters[j]] \in ToSet(Rest(c, text))
    BY <1>3, <1>5, ParametersMakeUpRest DEF p
  <2>4. message'.text = text /\ message'.kind = "dm"  BY <1>1 DEF text
  <2>5. QED  BY <1>5, <1>8, <1>9, <2>1, <2>2, <2>3, <2>4 DEF RunsWhatWasTyped, ValueAt
<1>12. LaunchFits'  BY <1>7, <1>8 DEF Outcome, Fits, LaunchFits
<1>13. GrantedToMembers'
  <2>1. message'.user = u  BY <1>1 DEF u
  <2>2. ASSUME call' # None, call'.op \in {"GrantGCPAccess", "RevokeGCPAccess"}
        PROVE  /\ m # "non_member"
               /\ \/ BySlackID[u] \in HybridPlatforms
                  \/ BySlackID[u] = None /\ ByEmail[u] \in HybridPlatforms
    <3>1. ClassifyUserMembership(u, TRUE) = "member"  BY <1>7, <2>2 DEF Outcome, Grants
    <3>2. QED  BY <3>1, MemberIsMember
  <2>3. QED  BY <1>8, <2>1, <2>2 DEF GrantedToMembers
<1>14. QED  BY <1>10, <1>11, <1>12, <1>13 DEF CommandInv

LEMMA postResponseKeeps == CommandInv /\ postResponse => CommandInv'
<1> SUFFICES ASSUME CommandInv, postResponse PROVE CommandInv'
  OBVIOUS
<1>1. /\ stage = "post" /\ stage' \in {"post", "done", "failed"}
      /\ UNCHANGED <<message, ran, call>>
  BY DEF postResponse
<1>2. Progress'  BY <1>1 DEF CommandInv, Progress
<1>3. RunsWhatWasTyped' /\ LaunchFits' /\ GrantedToMembers'  BY <1>1, KeepsRun
<1>4. QED  BY <1>2, <1>3 DEF CommandInv

LEMMA NextCommand == CommandInv /\ [CommandNext]_commandVars => CommandInv'
<1>1. CommandInv /\ UNCHANGED commandVars => CommandInv'
  <2> SUFFICES ASSUME CommandInv, UNCHANGED commandVars PROVE CommandInv'
    OBVIOUS
  <2>1. Progress'  BY DEF CommandInv, Progress, commandVars
  <2>2. RunsWhatWasTyped' /\ LaunchFits' /\ GrantedToMembers'
    BY KeepsRun DEF commandVars
  <2>3. QED  BY <2>1, <2>2 DEF CommandInv
<1>2. QED
  BY <1>1, ReceiveKeeps, IgnoreKeeps, HelpKeeps, UnrecognizedKeeps, executeCommandKeeps,
     postResponseKeeps DEF CommandNext

LEMMA CommandInvHolds == CommandSpec => []CommandInv
  BY InitCommand, NextCommand, PTL DEF CommandSpec

\* The bot does what was typed, for every message of any length, in whatever
\* way it is punctuated: of the commands that it begins with it runs the one
\* with the most words, and the parameters, joined, are the rest of the
\* message. What it does not understand has too many words.
THEOREM RunsTheCommandTyped == CommandSpec => []RunsWhatWasTyped
<1>1. CommandInv => RunsWhatWasTyped  BY DEF CommandInv
<1>2. QED  BY <1>1, CommandInvHolds, PTL

\* Whatever is typed, what LaunchJobForUser is called with fits: for any
\* platforms, architectures, parameters, tests and workflows that are known.
THEOREM LaunchesFit == CommandSpec => []LaunchFits
<1>1. CommandInv => LaunchFits  BY DEF CommandInv
<1>2. QED  BY <1>1, CommandInvHolds, PTL

\* GCP access is for members of the organization, for any users and any data
\* about employees, and agrees with what is recorded about the user.
THEOREM AccessIsForMembers == CommandSpec => []GrantedToMembers
<1>1. CommandInv => GrantedToMembers  BY DEF CommandInv
<1>2. QED  BY <1>1, CommandInvHolds, PTL
=============================================================================
