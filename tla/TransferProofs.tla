--------------------------- MODULE TransferProofs ---------------------------
(***************************************************************************)
(* For every text, every configuration, every token, every way to cut the  *)
(* stream and every order and loss of the datagrams: the two ends agree on *)
(* the parameters, the signals that are decoded are those that were sent,  *)
(* no symbol is minted twice, a block's source symbols suffice to have it, *)
(* and what is written to the server's socket is what was read from the    *)
(* client's.                                                               *)
(*                                                                         *)
(* The proof is in layers, each with an inductive invariant that rests on  *)
(* those before: Negotiation (the stages of the handshake), Sending (the   *)
(* blocks are what was read), Streaming (the signals in buffer and stream  *)
(* are those not decoded), Minting (the datagrams under way), Copying (the *)
(* reliable copies), Receiving (managers, ready blocks and what is         *)
(* written), Deciding (what a block still lacks) and Counting (the total   *)
(* that is announced).  Together they make the transfer an implementation  *)
(* of ByteStream.  Below them are the codecs: what is written in a layout  *)
(* is read back from a stream that may be cut anywhere.  A definition by   *)
(* recursion is unrolled with the least element of a set of numbers, which *)
(* stands for induction.                                                   *)
(***************************************************************************)
EXTENDS Transfer, SequenceTheorems, FiniteSetTheorems, WellFoundedInduction, TLAPS


-----------------------------------------------------------------------------
(* Induction over data.                                                    *)

\* A set of naturals that is not empty has a least element.
LEMMA LeastElement ==
  ASSUME NEW T \in SUBSET Nat, T # {}
  PROVE  \E x \in T : \A y \in T : x <= y
<1> DEFINE R == OpToRel(<, Nat)
<1>0. R = {p \in Nat \X Nat : p[1] < p[2]}
  BY DEF OpToRel
<1>1. \A y, x \in Nat : y < x => <<y, x>> \in R
  BY <1>0, Zenon
<1>2. IsWellFoundedOn(R, Nat)
  BY NatLessThanWellFounded, Zenon
<1> HIDE DEF R
<1>3. PICK x \in T : \A y \in T : ~ (<<y, x>> \in R)
  BY <1>2, WFMin
<1>4. ASSUME NEW y \in T PROVE x <= y
  <2>1. x \in Nat /\ y \in Nat
    OBVIOUS
  <2>2. ~ (y < x)
    BY <1>1, <1>3, <2>1
  <2> QED
    BY <2>1, <2>2
<1> QED
  BY <1>4

\* Induction, with the property given as the set of the numbers that have it.
LEMMA SetInduction ==
  ASSUME NEW T, 0 \in T, \A n \in Nat : n \in T => n + 1 \in T
  PROVE  \A n \in Nat : n \in T
<1> SUFFICES ASSUME Nat \ T # {} PROVE FALSE
  OBVIOUS
<1>1. PICK x \in Nat \ T : \A y \in Nat \ T : x <= y
  BY LeastElement
<1>2. x # 0 /\ x - 1 \in Nat /\ x - 1 \notin Nat \ T
  BY <1>1
<1> QED
  BY <1>2

\* A function defined by recursion over 0 .. n exists, and is of one type.
LEMMA Iterates ==
  ASSUME NEW S, NEW base \in S, NEW n \in Nat, NEW step \in [1 .. n -> [S -> S]]
  PROVE  \E g \in [0 .. n -> S] :
           g[0] = base /\ \A i \in 1 .. n : g[i] = step[i][g[i - 1]]
<1> DEFINE Good(g, m) == g[0] = base /\ \A i \in 1 .. m : g[i] = step[i][g[i - 1]]
           T == {m \in Nat : m <= n => \E g \in [0 .. m -> S] : Good(g, m)}
<1>1. 0 \in T
  <2>1. [i \in 0 .. 0 |-> base] \in [0 .. 0 -> S] /\ Good([i \in 0 .. 0 |-> base], 0)
    OBVIOUS
  <2> QED
    BY <2>1
<1>2. ASSUME NEW m \in Nat, m \in T PROVE m + 1 \in T
  <2> SUFFICES ASSUME m + 1 <= n PROVE \E g \in [0 .. m + 1 -> S] : Good(g, m + 1)
    OBVIOUS
  <2>1. PICK g \in [0 .. m -> S] : Good(g, m)
    BY <1>2
  <2> DEFINE h == [i \in 0 .. m + 1 |-> IF i = m + 1 THEN step[m + 1][g[m]] ELSE g[i]]
  <2>2. g[m] \in S /\ step[m + 1] \in [S -> S]
    OBVIOUS
  <2>3. h \in [0 .. m + 1 -> S]
    BY <2>2
  <2>4. Good(h, m + 1)
    BY <2>1, <2>2
  <2> QED
    BY <2>3, <2>4
<1>3. n \in T
  <2> HIDE DEF T
  <2> QED
    BY <1>1, <1>2, SetInduction
<1> QED
  BY <1>3

\* That function, named.
Iteration(base, n, step) ==
  CHOOSE g : g = [i \in 0 .. n |-> IF i = 0 THEN base ELSE step[i][g[i - 1]]]

Iterated(g, base, n, step) == g[0] = base /\ \A i \in 1 .. n : g[i] = step[i][g[i - 1]]

\* It is what its definition says.
LEMMA IterationSteps ==
  ASSUME NEW S, NEW base, NEW n, NEW step,
         base \in S, n \in Nat, step \in [1 .. n -> [S -> S]]
  PROVE  /\ Iteration(base, n, step) \in [0 .. n -> S]
         /\ Iterated(Iteration(base, n, step), base, n, step)
<1> DEFINE Eq(g) == g = [i \in 0 .. n |-> IF i = 0 THEN base ELSE step[i][g[i - 1]]]
           q == Iteration(base, n, step)
<1>1. PICK g \in [0 .. n -> S] : g[0] = base /\ \A i \in 1 .. n : g[i] = step[i][g[i - 1]]
  BY Iterates
<1>2. Eq(g)
  BY <1>1
<1>3. Eq(q)
  <2>1. Eq(CHOOSE f : Eq(f))
    <3> HIDE DEF Eq
    <3> QED
      BY <1>2
  <2> QED
    BY <2>1, Zenon DEF Iteration
<1> HIDE DEF q
<1>4. q[0] = base /\ \A i \in 1 .. n : q[i] = step[i][q[i - 1]]
  BY <1>3
<1>5. \A i \in 0 .. n : q[i] = g[i]
  <2> DEFINE T == {i \in Nat : i <= n => q[i] = g[i]}
  <2>1. 0 \in T
    BY <1>1, <1>4
  <2>2. ASSUME NEW i \in Nat, i \in T PROVE i + 1 \in T
    <3>1. PICK j \in Nat : j = i + 1
      OBVIOUS
    <3> SUFFICES ASSUME j <= n PROVE q[j] = g[j]
      BY <3>1
    <3>2. j \in 1 .. n /\ q[j - 1] = g[j - 1]
      BY <2>2, <3>1
    <3>3. q[j] = step[j][q[j - 1]] /\ g[j] = step[j][g[j - 1]]
      BY <1>1, <1>4, <3>2
    <3> QED
      BY <3>2, <3>3
  <2> HIDE DEF T
  <2>3. \A i \in Nat : i \in T
    BY <2>1, <2>2, SetInduction
  <2> QED
    BY <2>3 DEF T
<1>6. q = g
  BY <1>3, <1>5
<1> QED
  BY <1>1, <1>6 DEF q, Iterated

-----------------------------------------------------------------------------
(* Sequences.                                                              *)

\* The tail of a sequence is a sequence, of what is left.
LEMMA FromType ==
  ASSUME NEW S, NEW s \in Seq(S), NEW n \in 1 .. Len(s) + 1
  PROVE  /\ From(s, n) \in Seq(S)
         /\ Len(From(s, n)) = Len(s) - n + 1
         /\ \A i \in 1 .. Len(s) - n + 1 : From(s, n)[i] = s[n + i - 1]
<1>1. \A i \in n .. Len(s) : s[i] \in S
  OBVIOUS
<1> QED
  BY <1>1, SubSeqProperties DEF From

\* The front of a sequence.
LEMMA FrontType ==
  ASSUME NEW S, NEW s \in Seq(S), NEW n \in 0 .. Len(s)
  PROVE  /\ SubSeq(s, 1, n) \in Seq(S)
         /\ Len(SubSeq(s, 1, n)) = n
         /\ \A i \in 1 .. n : SubSeq(s, 1, n)[i] = s[i]
<1>1. \A i \in 1 .. n : s[i] \in S
  OBVIOUS
<1> QED
  BY <1>1, SubSeqProperties

\* A sequence is what comes before a cut and what comes after it.
LEMMA Cut ==
  ASSUME NEW S, NEW s \in Seq(S), NEW n \in 0 .. Len(s)
  PROVE  SubSeq(s, 1, n) \o From(s, n + 1) = s
<1> DEFINE a == SubSeq(s, 1, n)
           b == From(s, n + 1)
<1>1. n + 1 \in 1 .. Len(s) + 1
  BY LenProperties
<1>2. /\ a \in Seq(S) /\ Len(a) = n
      /\ \A i \in 1 .. n : a[i] = s[i]
  BY FrontType
<1>3. /\ b \in Seq(S) /\ Len(b) = Len(s) - n
      /\ \A i \in 1 .. Len(s) - n : b[i] = s[n + i]
  BY <1>1, FromType
<1> HIDE DEF a, b
<1>4. /\ a \o b \in Seq(S) /\ Len(a \o b) = Len(a) + Len(b)
      /\ \A i \in 1 .. Len(a) + Len(b) : (a \o b)[i] = IF i <= Len(a) THEN a[i] ELSE b[i - Len(a)]
  BY <1>2, <1>3, ConcatProperties
<1>5. Len(a \o b) = Len(s)
  BY <1>2, <1>3, <1>4
<1>6. ASSUME NEW i \in 1 .. Len(s) PROVE (a \o b)[i] = s[i]
  BY <1>2, <1>3, <1>4
<1>7. a \o b = s
  BY <1>4, <1>5, <1>6, SeqEqual
<1> QED
  BY <1>7 DEF a, b

\* Both parts of a concatenation can be had back.
LEMMA Parts ==
  ASSUME NEW S, NEW a \in Seq(S), NEW b \in Seq(S)
  PROVE  SubSeq(a \o b, 1, Len(a)) = a /\ From(a \o b, Len(a) + 1) = b
<1>1. a \o b \in Seq(S) /\ Len(a \o b) = Len(a) + Len(b)
  BY ConcatProperties
<1>2. SubSeq(a \o b, 1, Len(a)) = a
  BY <1>1, FrontType, ConcatProperties, SeqEqual
<1>3. From(a \o b, Len(a) + 1) = b
  <2> DEFINE c == From(a \o b, Len(a) + 1)
  <2>1. Len(a) + 1 \in 1 .. Len(a \o b) + 1
    BY <1>1, LenProperties
  <2>2. /\ c \in Seq(S) /\ Len(c) = Len(b)
        /\ \A i \in 1 .. Len(b) : c[i] = (a \o b)[Len(a) + i]
    <3>0. Len(a) \in Nat /\ Len(b) \in Nat
      BY LenProperties
    <3>1. PICK t \in Seq(S) : t = a \o b
      BY <1>1
    <3>2. PICK m \in 1 .. Len(t) + 1 : m = Len(a) + 1
      BY <2>1, <3>1
    <3>3. /\ From(t, m) \in Seq(S)
          /\ Len(From(t, m)) = Len(t) - m + 1
          /\ \A i \in 1 .. Len(t) - m + 1 : From(t, m)[i] = t[m + i - 1]
      BY FromType
    <3>4. Len(t) - m + 1 = Len(b) /\ \A i \in 1 .. Len(b) : m + i - 1 = Len(a) + i
      BY <1>1, <3>0, <3>1, <3>2
    <3> QED
      BY <3>1, <3>2, <3>3, <3>4
  <2>3. ASSUME NEW i \in 1 .. Len(b) PROVE (a \o b)[Len(a) + i] = b[i]
    <3>1. Len(a) \in Nat /\ Len(b) \in Nat
      BY LenProperties
    <3>2. PICK j \in 1 .. Len(a) + Len(b) : j = Len(a) + i
      BY <3>1
    <3>3. ~ (j <= Len(a)) /\ j - Len(a) = i
      BY <3>1, <3>2
    <3> QED
      BY <3>2, <3>3, ConcatProperties
  <2> HIDE DEF c
  <2>4. c = b
    BY <2>2, <2>3, SeqEqual
  <2> QED
    BY <2>4 DEF c
<1> QED
  BY <1>2, <1>3

\* Concatenation is associative; the equation has a name so that it is used where
\* it is asked for.
Regrouped(a, b, c) == (a \o b) \o c = a \o (b \o c)

LEMMA Regroup ==
  ASSUME NEW S, NEW a, NEW b, NEW c, a \in Seq(S), b \in Seq(S), c \in Seq(S)
  PROVE  Regrouped(a, b, c)
BY ConcatAssociative DEF Regrouped

\* Of two concatenations that are equal, the longer first part has the other in
\* front of it.
LEMMA OverlapPlain ==
  ASSUME NEW S, NEW a \in Seq(S), NEW b \in Seq(S), NEW c \in Seq(S), NEW d \in Seq(S),
         a \o b = c \o d, Len(a) >= Len(c)
  PROVE  a = c \o From(a, Len(c) + 1) /\ From(a, Len(c) + 1) \o b = d
<1>1. SubSeq(a, 1, Len(c)) \in Seq(S) /\ From(a, Len(c) + 1) \in Seq(S)
  BY FrontType, FromType
<1>2. SubSeq(a, 1, Len(c)) = c
  <2>1. \A i \in 1 .. Len(c) : SubSeq(a, 1, Len(c))[i] = c[i]
    <3> SUFFICES ASSUME NEW i \in 1 .. Len(c) PROVE a[i] = c[i]
      BY FrontType
    <3>1. /\ Len(a) \in Nat /\ Len(b) \in Nat /\ Len(c) \in Nat /\ Len(d) \in Nat
      BY LenProperties
    <3>2. i \in 1 .. Len(a) + Len(b) /\ i <= Len(a)
      BY <3>1
    <3>3. i \in 1 .. Len(c) + Len(d) /\ i <= Len(c)
      BY <3>1
    <3>4. (a \o b)[i] = a[i]
      BY <3>2, ConcatProperties
    <3>5. (c \o d)[i] = c[i]
      BY <3>3, ConcatProperties
    <3> QED
      BY <3>4, <3>5
  <2> QED
    BY <1>1, <2>1, FrontType, SeqEqual
<1>3. a = c \o From(a, Len(c) + 1)
  <2>1. Len(c) \in 0 .. Len(a)
    BY LenProperties
  <2> QED
    BY <1>2, <2>1, Cut
<1>4. c \o (From(a, Len(c) + 1) \o b) = c \o d
  <2>1. PICK r \in Seq(S) : r = From(a, Len(c) + 1)
    BY <1>1
  <2>2. a = c \o r
    BY <1>3, <2>1
  <2>3. Regrouped(c, r, b)
    BY ONLY a \in Seq(S), b \in Seq(S), c \in Seq(S), r \in Seq(S), Regroup
  <2>4. c \o (r \o b) = c \o d
    BY <2>2, <2>3, Zenon DEF Regrouped
  <2> QED
    BY <2>1, <2>4
<1>5. From(a, Len(c) + 1) \o b \in Seq(S)
  BY <1>1, ConcatProperties
<1>6. From(a, Len(c) + 1) \o b = From(c \o (From(a, Len(c) + 1) \o b), Len(c) + 1)
  BY <1>5, Parts
<1>7. d = From(c \o d, Len(c) + 1)
  BY Parts
<1> QED
  BY <1>3, <1>4, <1>6, <1>7

Same(a, b, c, d) == a \o b = c \o d
Rest(a, b, c, d) ==
  a = c \o From(a, Len(c) + 1) /\ From(a, Len(c) + 1) \o b = d

\* Of two ways to cut one sequence, the first part of one begins with that of the other.
LEMMA Overlap ==
  ASSUME NEW S, NEW a, NEW b, NEW c, NEW d,
         a \in Seq(S), b \in Seq(S), c \in Seq(S), d \in Seq(S),
         Same(a, b, c, d), Len(a) >= Len(c)
  PROVE  Rest(a, b, c, d)
<1>1. a \o b = c \o d
  BY DEF Same
<1>2. a = c \o From(a, Len(c) + 1) /\ From(a, Len(c) + 1) \o b = d
  BY <1>1, OverlapPlain
<1> QED
  BY <1>2 DEF Rest

-----------------------------------------------------------------------------
(* Concatenations of sequences.                                            *)

LEMMA FlattenEmpty == FlattenSeq(<<>>) = <<>>
BY DEF FlattenSeq

\* The recursion of FlattenSeq, over any set of sequences closed under \o.
UpTo(ss) ==
  CHOOSE f : f = [i \in 1 .. Len(ss) |-> IF i = 1 THEN ss[i] ELSE f[i - 1] \o ss[i]]

Unrolled(f, ss, n) ==
  \A i \in 1 .. n : f[i] = IF i = 1 THEN ss[i] ELSE f[i - 1] \o ss[i]
Closed(U) == \A s, t \in U : s \o t \in U

\* The library's definition of FlattenSeq is a recursion that has a solution.
LEMMA FlattenRecursion ==
  ASSUME NEW U, NEW n, NEW ss, n \in Nat, n # 0, ss \in [1 .. n -> U], Len(ss) = n,
         Closed(U)
  PROVE  /\ UpTo(ss) \in [1 .. n -> U]
         /\ Unrolled(UpTo(ss), ss, n)
         /\ FlattenSeq(ss) = UpTo(ss)[n]
<1>0. PICK m \in Nat : n = m + 1
  <2>1. n - 1 \in Nat /\ n = (n - 1) + 1
    OBVIOUS
  <2> QED
    BY <2>1
<1> DEFINE step == [i \in 1 .. m |-> [s \in U |-> s \o ss[i + 1]]]
           h == Iteration(ss[1], m, step)
           Eq(g) == g = [i \in 1 .. Len(ss) |-> IF i = 1 THEN ss[i] ELSE g[i - 1] \o ss[i]]
<1>1. ss[1] \in U /\ \A i \in 1 .. m : ss[i + 1] \in U
  BY <1>0
<1>2. step \in [1 .. m -> [U -> U]]
  BY <1>1 DEF Closed
<1>3. h \in [0 .. m -> U] /\ Iterated(h, ss[1], m, step)
  <2> HIDE DEF step
  <2> QED
    BY <1>1, <1>2, IterationSteps
<1> HIDE DEF h
<1>4. \A i \in 1 .. m : h[i] = h[i - 1] \o ss[i + 1]
  <2> SUFFICES ASSUME NEW i \in 1 .. m PROVE h[i] = h[i - 1] \o ss[i + 1]
    OBVIOUS
  <2>1. h[i] = step[i][h[i - 1]]
    <3> HIDE DEF step
    <3> QED
      BY <1>3 DEF Iterated
  <2>2. h[i - 1] \in U
    BY <1>3
  <2> QED
    BY <2>1, <2>2
<1> HIDE DEF step
<1> DEFINE g == [i \in 1 .. n |-> h[i - 1]]
<1>5. ASSUME NEW i \in 1 .. n
      PROVE  h[i - 1] = IF i = 1 THEN ss[i] ELSE g[i - 1] \o ss[i]
  <2>1. CASE i = 1
    BY <1>3, <2>1 DEF Iterated
  <2>2. CASE i # 1
    <3>1. i - 1 \in 1 .. m /\ i - 1 \in 1 .. n /\ (i - 1) + 1 = i
      BY <1>0, <2>2
    <3>2. g[i - 1] = h[(i - 1) - 1]
      BY <3>1
    <3> HIDE DEF g
    <3>3. h[i - 1] = h[(i - 1) - 1] \o ss[(i - 1) + 1]
      BY <1>4, <3>1
    <3>4. h[i - 1] = g[i - 1] \o ss[i]
      BY <3>1, <3>2, <3>3
    <3> QED
      BY <2>2, <3>4
  <2> QED
    BY <2>1, <2>2
<1>6. Eq(g)
  BY <1>5
<1> DEFINE q == UpTo(ss)
<1>7. Eq(q)
  <2>1. Eq(CHOOSE f : Eq(f))
    <3> HIDE DEF Eq, g
    <3> QED
      BY <1>6
  <2> QED
    BY <2>1, Zenon DEF UpTo
<1>8. FlattenSeq(ss) = q[n]
  <2>1. Len(ss) # 0
    OBVIOUS
  <2>2. FlattenSeq(ss) = q[Len(ss)]
    BY <2>1, Zenon DEF FlattenSeq, UpTo
  <2> QED
    BY <2>2
<1> HIDE DEF q
<1>9. \A i \in 1 .. n : q[i] = IF i = 1 THEN ss[i] ELSE q[i - 1] \o ss[i]
  BY <1>7
<1> HIDE DEF Eq, g
<1>10. \A i \in 0 .. m : q[i + 1] = h[i]
  <2> DEFINE T == {i \in Nat : i <= m => q[i + 1] = h[i]}
  <2>1. 0 \in T
    BY <1>0, <1>3, <1>9 DEF Iterated
  <2>2. ASSUME NEW i \in Nat, i \in T PROVE i + 1 \in T
    <3>1. PICK j \in Nat : j = i + 1
      OBVIOUS
    <3> SUFFICES ASSUME j <= m PROVE q[j + 1] = h[j]
      BY <3>1
    <3>2. j \in 1 .. m /\ j + 1 \in 1 .. n /\ j + 1 # 1 /\ (j + 1) - 1 = j
      BY <1>0, <3>1
    <3>3. q[j + 1] = q[j] \o ss[j + 1]
      BY <1>9, <3>2
    <3>4. h[j] = h[j - 1] \o ss[j + 1]
      BY <1>4, <3>2
    <3>5. q[j] = h[j - 1]
      BY <2>2, <3>1
    <3> QED
      BY <3>3, <3>4, <3>5
  <2> HIDE DEF T
  <2>3. \A i \in Nat : i \in T
    BY <2>1, <2>2, SetInduction
  <2> QED
    BY <2>3 DEF T
<1>11. \A i \in 1 .. n : q[i] \in U
  <2> SUFFICES ASSUME NEW i \in 1 .. n PROVE q[i] \in U
    OBVIOUS
  <2>1. i - 1 \in 0 .. m /\ (i - 1) + 1 = i
    BY <1>0
  <2> QED
    BY <1>3, <1>10, <2>1
<1>12. q \in [1 .. n -> U]
  <2>1. q = [i \in 1 .. n |-> q[i]]
    BY <1>7 DEF Eq
  <2> QED
    BY <1>11, <2>1
<1> QED
  BY <1>8, <1>9, <1>12 DEF q, Unrolled

\* One more sequence at the end.
LEMMA FlattenAppend ==
  ASSUME NEW S, NEW U, U = Seq(S), NEW ss \in Seq(U), NEW s \in U
  PROVE  /\ FlattenSeq(ss) \in U
         /\ FlattenSeq(Append(ss, s)) = FlattenSeq(ss) \o s
<1>2. Closed(U)
  BY ConcatProperties DEF Closed
<1>3. PICK n \in Nat : n = Len(ss)
  BY LenProperties
<1> DEFINE tt == Append(ss, s)
           g == UpTo(tt)
           h == UpTo(ss)
<1>4. /\ ss \in [1 .. n -> U] /\ Len(tt) = n + 1 /\ tt \in [1 .. n + 1 -> U]
      /\ tt[n + 1] = s /\ \A i \in 1 .. n : tt[i] = ss[i]
  <2>1. tt \in Seq(U) /\ Len(tt) = n + 1
    BY <1>3, AppendProperties
  <2>2. ss \in [1 .. n -> U] /\ tt \in [1 .. n + 1 -> U]
    BY <1>3, <2>1, LenProperties
  <2>3. tt[n + 1] = s /\ \A i \in 1 .. n : tt[i] = ss[i]
    BY <1>3, AppendProperties
  <2> QED
    BY <2>1, <2>2, <2>3
<1> HIDE DEF tt
<1>5. /\ g \in [1 .. n + 1 -> U] /\ FlattenSeq(tt) = g[n + 1]
      /\ Unrolled(g, tt, n + 1)
  <2>1. n + 1 \in Nat /\ n + 1 # 0
    OBVIOUS
  <2> QED
    BY ONLY <1>2, <1>4, <2>1, FlattenRecursion
<1> HIDE DEF g, h
<1>6. CASE n = 0
  <2>1. ss = <<>>
    BY <1>3, <1>6, EmptySeq
  <2>2. FlattenSeq(ss) = <<>>
    BY <2>1, FlattenEmpty
  <2>3. FlattenSeq(tt) = s
    BY <1>4, <1>5, <1>6 DEF Unrolled
  <2>4. <<>> \in U /\ <<>> \o s = s
    BY ONLY U = Seq(S), s \in U, EmptySeq, ConcatEmptySeq
  <2> QED
    BY <2>2, <2>3, <2>4, Zenon DEF tt
<1>7. CASE n # 0
  <2>3. /\ h \in [1 .. n -> U] /\ FlattenSeq(ss) = h[n]
        /\ Unrolled(h, ss, n)
    <3>1. n \in Nat /\ n # 0 /\ ss \in [1 .. n -> U] /\ Len(ss) = n /\ Closed(U)
      BY <1>2, <1>3, <1>4, <1>7, Zenon
    <3>2. /\ UpTo(ss) \in [1 .. n -> U]
          /\ Unrolled(UpTo(ss), ss, n)
          /\ FlattenSeq(ss) = UpTo(ss)[n]
      BY ONLY <3>1, FlattenRecursion
    <3> QED
      BY <3>2, Zenon DEF h
  <2>4. \A i \in 1 .. n : h[i] = g[i]
    <3> DEFINE T == {i \in Nat : i \in 1 .. n => h[i] = g[i]}
    <3>1. 0 \in T
      OBVIOUS
    <3>2. ASSUME NEW i \in Nat, i \in T PROVE i + 1 \in T
      <4>1. PICK j \in Nat : j = i + 1
        OBVIOUS
      <4> SUFFICES ASSUME j \in 1 .. n PROVE h[j] = g[j]
        BY <4>1
      <4>2. h[j] = IF j = 1 THEN ss[j] ELSE h[j - 1] \o ss[j]
        BY <2>3 DEF Unrolled
      <4>3. g[j] = IF j = 1 THEN tt[j] ELSE g[j - 1] \o tt[j]
        <5>1. j \in 1 .. n + 1
          OBVIOUS
        <5> QED
          BY <1>5, <5>1 DEF Unrolled
      <4>4. tt[j] = ss[j] /\ (j # 1 => h[j - 1] = g[j - 1])
        BY <1>4, <3>2, <4>1
      <4> QED
        BY <4>2, <4>3, <4>4
    <3> HIDE DEF T
    <3>3. \A i \in Nat : i \in T
      BY <3>1, <3>2, SetInduction
    <3> QED
      BY <3>3 DEF T
  <2>5. g[n + 1] = g[n] \o tt[n + 1]
    <3>1. n + 1 \in 1 .. n + 1 /\ n + 1 # 1 /\ (n + 1) - 1 = n
      BY <1>7
    <3> QED
      BY <1>5, <3>1 DEF Unrolled
  <2>6. h[n] = g[n] /\ h[n] \in U
    BY <1>7, <2>3, <2>4
  <2> QED
    BY <1>4, <1>5, <2>3, <2>5, <2>6 DEF tt
<1> QED
  BY <1>6, <1>7

\* The concatenation of two lists of sequences.
LEMMA FlattenCat ==
  ASSUME NEW S, NEW U, U = Seq(S), NEW ss \in Seq(U), NEW tt \in Seq(U)
  PROVE  FlattenSeq(ss \o tt) = FlattenSeq(ss) \o FlattenSeq(tt)
<1> DEFINE Holds(t) == FlattenSeq(ss \o t) = FlattenSeq(ss) \o FlattenSeq(t)
           T == {n \in Nat : \A t \in Seq(U) : Len(t) = n => Holds(t)}
<1>0. ASSUME NEW t \in Seq(U), NEW s \in U
      PROVE  FlattenSeq(t) \in U /\ FlattenSeq(Append(t, s)) = FlattenSeq(t) \o s
  <2>1. FlattenSeq(t) \in U
    BY ONLY U = Seq(S), t \in Seq(U), s \in U, FlattenAppend
  <2>2. FlattenSeq(Append(t, s)) = FlattenSeq(t) \o s
    BY ONLY U = Seq(S), t \in Seq(U), s \in U, FlattenAppend, SMTT(20)
  <2> QED
    BY <2>1, <2>2
<1>a. <<>> \in U
  BY EmptySeq
<1>b. FlattenSeq(ss) \in U
  BY <1>0, <1>a
<1>1. 0 \in T
  <2> SUFFICES ASSUME NEW t \in Seq(U), Len(t) = 0 PROVE Holds(t)
    OBVIOUS
  <2>1. t = <<>>
    BY EmptySeq
  <2>2. ss \o t = ss
    BY <2>1, ConcatEmptySeq
  <2>3. FlattenSeq(t) = <<>>
    BY <2>1, FlattenEmpty
  <2>4. FlattenSeq(ss) \o <<>> = FlattenSeq(ss)
    BY <1>b, ConcatEmptySeq
  <2> QED
    BY <2>2, <2>3, <2>4
<1>2. ASSUME NEW n \in Nat, n \in T PROVE n + 1 \in T
  <2> SUFFICES ASSUME NEW t \in Seq(U), Len(t) = n + 1 PROVE Holds(t)
    OBVIOUS
  <2>1. t # <<>>
    BY EmptySeq
  <2>2. PICK u \in Seq(U), s \in U : t = Append(u, s)
    BY <2>1, SequenceEmptyOrAppend
  <2>3. Len(u) = n
    BY <2>2, AppendProperties, LenProperties
  <2>4. FlattenSeq(ss \o u) = FlattenSeq(ss) \o FlattenSeq(u)
    BY <1>2, <2>3
  <2>5. ss \o u \in Seq(U)
    BY ConcatProperties
  <2>6. ss \o t = Append(ss \o u, s)
    <3>1. t = u \o <<s>> /\ <<s>> \in Seq(U)
      BY <2>2, AppendIsConcat
    <3>2. Append(ss \o u, s) = (ss \o u) \o <<s>>
      BY <2>5, AppendIsConcat
    <3>3. PICK v \in Seq(U) : v = <<s>>
      BY <3>1
    <3>4. Regrouped(ss, u, v)
      BY ONLY ss \in Seq(U), u \in Seq(U), v \in Seq(U), Regroup
    <3> QED
      BY <3>1, <3>2, <3>3, <3>4, Zenon DEF Regrouped
  <2>7. FlattenSeq(t) = FlattenSeq(u) \o s /\ FlattenSeq(u) \in U
    BY <1>0, <2>2
  <2>8. FlattenSeq(ss \o t) = FlattenSeq(ss \o u) \o s
    BY <1>0, <2>5, <2>6
  <2>9. (FlattenSeq(ss) \o FlattenSeq(u)) \o s = FlattenSeq(ss) \o (FlattenSeq(u) \o s)
    <3>1. PICK x \in U, y \in U : x = FlattenSeq(ss) /\ y = FlattenSeq(u)
      BY <1>b, <2>7
    <3>2. Regrouped(x, y, s)
      BY ONLY U = Seq(S), x \in U, y \in U, s \in U, Regroup
    <3> QED
      BY <3>1, <3>2, Zenon DEF Regrouped
  <2> QED
    BY <2>4, <2>7, <2>8, <2>9
<1> HIDE DEF T
<1>3. \A n \in Nat : n \in T
  BY <1>1, <1>2, SetInduction
<1>4. Len(tt) \in Nat
  BY LenProperties
<1> QED
  BY <1>3, <1>4 DEF T

\* A sequence of one sequence.
LEMMA FlattenOne ==
  ASSUME NEW S, NEW U, U = Seq(S), NEW s \in U
  PROVE  FlattenSeq(<<s>>) = s
<1>1. PICK e \in Seq(U) : e = <<>>
  BY EmptySeq
<1>2. FlattenSeq(Append(e, s)) = FlattenSeq(e) \o s
  BY FlattenAppend
<1>3. <<>> \o s = s /\ Append(e, s) = <<s>>
  BY <1>1, ConcatEmptySeq
<1> QED
  BY <1>1, <1>2, <1>3, FlattenEmpty

-----------------------------------------------------------------------------
(* Integers and their bytes.                                               *)

\* The lowest digit of a number, and the others.
LEMMA Division ==
  ASSUME NEW n \in Nat
  PROVE  /\ n \div Base \in Nat /\ n % Base \in Byte
         /\ (Base * (n \div Base)) + (n % Base) = n
BY WireAssumption DEF Byte

\* The shifts of a number, step by step.
LEMMA ShiftSteps ==
  ASSUME NEW n \in Nat, NEW w \in Nat
  PROVE  /\ Shifts(n, w) \in [0 .. w -> Nat]
         /\ Shifts(n, w)[0] = n
         /\ \A i \in 1 .. w : Shifts(n, w)[i] = Shifts(n, w)[i - 1] \div Base
<1> DEFINE step == [i \in 1 .. w |-> [x \in Nat |-> x \div Base]]
           q == Shifts(n, w)
           g == Iteration(n, w, step)
           Eq(f) == f = [i \in 0 .. w |-> IF i = 0 THEN n ELSE f[i - 1] \div Base]
<1>1. step \in [1 .. w -> [Nat -> Nat]]
  BY Division
<1>2. g \in [0 .. w -> Nat] /\ Iterated(g, n, w, step)
  <2> HIDE DEF step
  <2> QED
    BY <1>1, IterationSteps
<1> HIDE DEF g
<1>3. \A i \in 1 .. w : g[i] = g[i - 1] \div Base
  <2> SUFFICES ASSUME NEW i \in 1 .. w PROVE g[i] = g[i - 1] \div Base
    OBVIOUS
  <2>1. g[i] = step[i][g[i - 1]]
    <3> HIDE DEF step
    <3> QED
      BY <1>2 DEF Iterated
  <2>2. g[i - 1] \in Nat
    BY <1>2
  <2> QED
    BY <2>1, <2>2
<1>4. Eq(g)
  BY <1>2, <1>3 DEF Iterated
<1>5. Eq(q)
  <2>1. Eq(CHOOSE f : Eq(f))
    <3> HIDE DEF Eq
    <3> QED
      BY <1>4
  <2> QED
    BY <2>1, Zenon DEF Shifts
<1> HIDE DEF q
<1>6. q[0] = n /\ \A i \in 1 .. w : q[i] = q[i - 1] \div Base
  BY <1>5
<1>7. \A i \in 0 .. w : q[i] \in Nat
  <2> DEFINE T == {i \in Nat : i <= w => q[i] \in Nat}
  <2>1. 0 \in T
    BY <1>6
  <2>2. ASSUME NEW i \in Nat, i \in T PROVE i + 1 \in T
    <3>1. PICK j \in Nat : j = i + 1
      OBVIOUS
    <3> SUFFICES ASSUME j <= w PROVE q[j] \in Nat
      BY <3>1
    <3>2. j \in 1 .. w /\ q[j - 1] \in Nat
      BY <2>2, <3>1
    <3>3. q[j] = q[j - 1] \div Base
      BY <1>6, <3>2
    <3> QED
      BY <3>2, <3>3, Division
  <2> HIDE DEF T
  <2>3. \A i \in Nat : i \in T
    BY <2>1, <2>2, SetInduction
  <2> QED
    BY <2>3 DEF T
<1>8. q \in [0 .. w -> Nat]
  BY <1>5, <1>7
<1> QED
  BY <1>6, <1>8 DEF q

\* to_be_bytes gives as many bytes as the width says.
LEMMA PutType ==
  ASSUME NEW n \in Nat, NEW w \in Nat
  PROVE  /\ Put(n, w) \in Seq(Byte) /\ Len(Put(n, w)) = w
         /\ \A i \in 1 .. w : Put(n, w)[i] = Shifts(n, w)[w - i] % Base
<1>1. \A i \in 1 .. w : Shifts(n, w)[w - i] \in Nat
  <2> SUFFICES ASSUME NEW i \in 1 .. w PROVE Shifts(n, w)[w - i] \in Nat
    OBVIOUS
  <2>1. w - i \in 0 .. w
    OBVIOUS
  <2> QED
    BY <2>1, ShiftSteps
<1>2. \A i \in 1 .. w : Shifts(n, w)[w - i] % Base \in Byte
  BY <1>1, Division
<1>3. Put(n, w) \in [1 .. w -> Byte]
  BY <1>2 DEF Put
<1>4. \A i \in 1 .. w : Put(n, w)[i] = Shifts(n, w)[w - i] % Base
  BY DEF Put
<1> HIDE DEF Put
<1>5. Put(n, w) \in Seq(Byte) /\ Len(Put(n, w)) = w
  <2>1. Put(n, w) \in Seq(Byte)
    BY <1>3, SeqDef
  <2>2. DOMAIN Put(n, w) = 1 .. w
    BY <1>3
  <2> QED
    BY <2>1, <2>2, LenProperties
<1> QED
  BY <1>4, <1>5

\* The recursion of Get.
Values(s) ==
  CHOOSE value : value = [i \in 0 .. Len(s) |-> IF i = 0 THEN 0 ELSE Base * value[i - 1] + s[i]]

\* from_be_bytes, step by step.
LEMMA GetSteps ==
  ASSUME NEW s \in Seq(Byte)
  PROVE  /\ Get(s) = Values(s)[Len(s)] /\ Get(s) \in Nat
         /\ Values(s)[0] = 0
         /\ \A i \in 1 .. Len(s) : Values(s)[i] = (Base * Values(s)[i - 1]) + s[i]
<1>0. Len(s) \in Nat /\ (\A i \in 1 .. Len(s) : s[i] \in Nat) /\ Base \in Nat
  <2>1. Len(s) \in Nat /\ Base \in Nat
    BY WireAssumption, LenProperties
  <2>2. Byte \subseteq Nat
    BY <2>1 DEF Byte
  <2>3. \A i \in 1 .. Len(s) : s[i] \in Byte
    OBVIOUS
  <2> QED
    BY <2>1, <2>2, <2>3
<1>1. PICK n \in Nat : n = Len(s)
  BY <1>0
<1> DEFINE step == [i \in 1 .. n |-> [x \in Nat |-> (Base * x) + s[i]]]
           q == Values(s)
           g == Iteration(0, n, step)
           Eq(f) == f = [i \in 0 .. Len(s) |-> IF i = 0 THEN 0 ELSE (Base * f[i - 1]) + s[i]]
<1>2. step \in [1 .. n -> [Nat -> Nat]]
  BY <1>0, <1>1
<1>3. g \in [0 .. n -> Nat] /\ Iterated(g, 0, n, step)
  <2> HIDE DEF step
  <2> QED
    BY <1>2, IterationSteps
<1> HIDE DEF g
<1>4. \A i \in 1 .. n : g[i] = (Base * g[i - 1]) + s[i]
  <2> SUFFICES ASSUME NEW i \in 1 .. n PROVE g[i] = (Base * g[i - 1]) + s[i]
    OBVIOUS
  <2>1. g[i] = step[i][g[i - 1]]
    <3> HIDE DEF step
    <3> QED
      BY <1>3 DEF Iterated
  <2>2. g[i - 1] \in Nat
    BY <1>3
  <2> QED
    BY <2>1, <2>2
<1>5. Eq(g)
  BY <1>1, <1>3, <1>4 DEF Iterated
<1>6. Eq(q)
  <2>1. Eq(CHOOSE f : Eq(f))
    <3> HIDE DEF Eq
    <3> QED
      BY <1>5
  <2> QED
    BY <2>1, Zenon DEF Values
<1>7. Get(s) = q[Len(s)]
  BY Zenon DEF Get, Values
<1> HIDE DEF q
<1>8. q[0] = 0 /\ \A i \in 1 .. n : q[i] = (Base * q[i - 1]) + s[i]
  BY <1>1, <1>6
<1>9. \A i \in 0 .. n : q[i] \in Nat
  <2> DEFINE T == {i \in Nat : i <= n => q[i] \in Nat}
  <2>1. 0 \in T
    BY <1>8
  <2>2. ASSUME NEW i \in Nat, i \in T PROVE i + 1 \in T
    <3>1. PICK j \in Nat : j = i + 1
      OBVIOUS
    <3> SUFFICES ASSUME j <= n PROVE q[j] \in Nat
      BY <3>1
    <3>2. j \in 1 .. n /\ q[j - 1] \in Nat
      BY <2>2, <3>1
    <3>3. q[j] = (Base * q[j - 1]) + s[j] /\ s[j] \in Nat
      BY <1>0, <1>1, <1>8, <3>2
    <3>4. Base * q[j - 1] \in Nat
      BY <1>0, <3>2
    <3> QED
      BY <3>3, <3>4
  <2> HIDE DEF T
  <2>3. \A i \in Nat : i \in T
    BY <2>1, <2>2, SetInduction
  <2> QED
    BY <2>3 DEF T
<1> QED
  BY <1>1, <1>7, <1>8, <1>9 DEF q

\* A number that fits is read back as it was written.
LEMMA GetPut ==
  ASSUME NEW w \in Nat, NEW n \in Word(w)
  PROVE  Get(Put(n, w)) = n
<1>0. n \in Nat /\ Shifts(n, w)[w] = 0
  BY DEF Word
<1> DEFINE s == Put(n, w)
           q == Values(s)
           h == Shifts(n, w)
<1>1. s \in Seq(Byte) /\ Len(s) = w /\ \A i \in 1 .. w : s[i] = h[w - i] % Base
  BY <1>0, PutType
<1>2. Get(s) = q[w] /\ q[0] = 0 /\ \A i \in 1 .. w : q[i] = (Base * q[i - 1]) + s[i]
  BY <1>1, GetSteps
<1>3. h[0] = n /\ h[w] = 0 /\ h \in [0 .. w -> Nat]
      /\ \A i \in 1 .. w : h[i] = h[i - 1] \div Base
  BY <1>0, ShiftSteps
<1> HIDE DEF q, s, h
<1>4. \A i \in 0 .. w : q[i] = h[w - i]
  <2> DEFINE T == {i \in Nat : i <= w => q[i] = h[w - i]}
  <2>1. 0 \in T
    BY <1>2, <1>3
  <2>2. ASSUME NEW i \in Nat, i \in T PROVE i + 1 \in T
    <3>1. PICK j \in Nat : j = i + 1
      OBVIOUS
    <3> SUFFICES ASSUME j <= w PROVE q[j] = h[w - j]
      BY <3>1
    <3>2. PICK k \in 1 .. w : k = w - i /\ k - 1 = w - j
      BY <3>1
    <3>3. q[j - 1] = h[k] /\ j \in 1 .. w
      BY <2>2, <3>1, <3>2
    <3>4. q[j] = (Base * h[k]) + s[j]
      BY <1>2, <3>3
    <3>5. s[j] = h[k - 1] % Base
      BY <1>1, <3>2, <3>3
    <3>6. h[k] = h[k - 1] \div Base /\ h[k - 1] \in Nat
      BY <1>3
    <3>7. q[j] = h[k - 1]
      BY <3>4, <3>5, <3>6, Division
    <3> QED
      BY <3>2, <3>7
  <2> HIDE DEF T
  <2>3. \A i \in Nat : i \in T
    BY <2>1, <2>2, SetInduction
  <2> QED
    BY <2>3 DEF T
<1>5. q[w] = h[w - w] /\ w - w = 0
  BY <1>4
<1> QED
  BY <1>2, <1>3, <1>5 DEF s

\* What is left after the first m elements.
LEMMA FromPast ==
  ASSUME NEW S, NEW s \in Seq(S), NEW m \in 0 .. Len(s)
  PROVE  /\ From(s, m + 1) \in Seq(S) /\ Len(From(s, m + 1)) = Len(s) - m
         /\ \A i \in 1 .. Len(s) - m : From(s, m + 1)[i] = s[m + i]
<1>1. PICK k \in 1 .. Len(s) + 1 : k = m + 1
  BY LenProperties
<1>2. /\ From(s, k) \in Seq(S) /\ Len(From(s, k)) = Len(s) - k + 1
      /\ \A i \in 1 .. Len(s) - k + 1 : From(s, k)[i] = s[k + i - 1]
  BY FromType
<1>3. Len(s) - k + 1 = Len(s) - m /\ \A i \in 1 .. Len(s) - m : k + i - 1 = m + i
  BY <1>1, LenProperties
<1> QED
  BY <1>1, <1>2, <1>3

\* Dropping twice is dropping once.
LEMMA FromFrom ==
  ASSUME NEW S, NEW s \in Seq(S), NEW m \in Nat, NEW n \in Nat, m + n <= Len(s)
  PROVE  From(From(s, m + 1), n + 1) = From(s, m + n + 1)
<1>1. PICK l \in Nat : l = Len(s)
  BY LenProperties
<1>2. PICK t \in Seq(S) : /\ t = From(s, m + 1) /\ Len(t) = l - m
                         /\ \A i \in 1 .. l - m : t[i] = s[m + i]
  <2>1. m \in 0 .. Len(s)
    BY <1>1
  <2> QED
    BY <1>1, <2>1, FromPast
<1>3. PICK u \in Seq(S) : /\ u = From(t, n + 1) /\ Len(u) = (l - m) - n
                         /\ \A i \in 1 .. (l - m) - n : u[i] = t[n + i]
  <2>1. n \in 0 .. Len(t) /\ Len(t) = l - m
    <3>1. Len(t) = l - m
      BY <1>2
    <3>2. m + n <= l
      BY <1>1
    <3> QED
      BY <3>1, <3>2
  <2>2. /\ From(t, n + 1) \in Seq(S) /\ Len(From(t, n + 1)) = Len(t) - n
        /\ \A i \in 1 .. Len(t) - n : From(t, n + 1)[i] = t[n + i]
    BY <2>1, FromPast
  <2> QED
    BY <2>1, <2>2
<1>4. PICK v \in Seq(S) : /\ v = From(s, m + n + 1) /\ Len(v) = l - (m + n)
                         /\ \A i \in 1 .. l - (m + n) : v[i] = s[(m + n) + i]
  <2>1. PICK p \in 0 .. Len(s) : p = m + n
    BY <1>1
  <2>2. /\ From(s, p + 1) \in Seq(S) /\ Len(From(s, p + 1)) = l - p
        /\ \A i \in 1 .. l - p : From(s, p + 1)[i] = s[p + i]
    BY <1>1, FromPast
  <2> QED
    BY <2>1, <2>2
<1>5. Len(u) = Len(v)
  BY <1>1, <1>3, <1>4
<1>6. ASSUME NEW i \in 1 .. Len(u) PROVE u[i] = v[i]
  <2>1. i \in 1 .. (l - m) - n /\ i \in 1 .. l - (m + n)
    BY <1>1, <1>3
  <2>2. PICK j \in 1 .. l - m : j = n + i
    BY <1>1, <2>1
  <2>3. PICK k : k = m + j /\ k = (m + n) + i
    BY <1>1, <2>2
  <2>4. u[i] = s[k]
    BY <1>2, <1>3, <2>1, <2>2, <2>3
  <2>5. v[i] = s[k]
    BY <1>4, <2>1, <2>3
  <2> QED
    BY <2>4, <2>5
<1>7. u = v
  BY <1>3, <1>4, <1>5, <1>6, SeqEqual
<1> QED
  BY <1>2, <1>3, <1>4, <1>7

\* What a list of sequences amounts to, cut between two of them.
LEMMA FlattenCuts ==
  ASSUME NEW S, NEW U, U = Seq(S), NEW ss \in Seq(U)
  PROVE  /\ \A i \in 1 .. Len(ss) :
              FlattenSeq(SubSeq(ss, 1, i)) = FlattenSeq(SubSeq(ss, 1, i - 1)) \o ss[i]
         /\ \A i \in 0 .. Len(ss) :
              /\ FlattenSeq(SubSeq(ss, 1, i)) \in U /\ FlattenSeq(From(ss, i + 1)) \in U
              /\ FlattenSeq(ss) = FlattenSeq(SubSeq(ss, 1, i)) \o FlattenSeq(From(ss, i + 1))
<1>0. Len(ss) \in Nat /\ <<>> \in U
  BY LenProperties, EmptySeq
<1>1. ASSUME NEW i \in 1 .. Len(ss)
      PROVE  FlattenSeq(SubSeq(ss, 1, i)) = FlattenSeq(SubSeq(ss, 1, i - 1)) \o ss[i]
  <2>1. SubSeq(ss, 1, i - 1) \in Seq(U) /\ ss[i] \in U
    <3>1. i - 1 \in 0 .. Len(ss)
      BY <1>0
    <3> QED
      BY <3>1, FrontType, ElementOfSeq
  <2>2. SubSeq(ss, 1, i) = SubSeq(ss, 1, i - 1) \o <<ss[i]>>
    <3>1. 1 \in 1 .. Len(ss) /\ i \in 1 .. Len(ss)
      BY <1>0
    <3> QED
      BY <3>1, SubSeqRecursiveSecond
  <2>3. SubSeq(ss, 1, i) = Append(SubSeq(ss, 1, i - 1), ss[i])
    BY <2>1, <2>2, AppendIsConcat
  <2>4. PICK a \in Seq(U), e \in U : a = SubSeq(ss, 1, i - 1) /\ e = ss[i]
    BY <2>1
  <2>5. FlattenSeq(Append(a, e)) = FlattenSeq(a) \o e
    BY FlattenAppend
  <2> QED
    BY <2>3, <2>4, <2>5
<1>2. ASSUME NEW i \in 0 .. Len(ss)
      PROVE  /\ FlattenSeq(SubSeq(ss, 1, i)) \in U /\ FlattenSeq(From(ss, i + 1)) \in U
             /\ FlattenSeq(ss) = FlattenSeq(SubSeq(ss, 1, i)) \o FlattenSeq(From(ss, i + 1))
  <2>1. SubSeq(ss, 1, i) \in Seq(U) /\ From(ss, i + 1) \in Seq(U)
    <3>1. i + 1 \in 1 .. Len(ss) + 1
      BY <1>0
    <3> QED
      BY <3>1, FrontType, FromType
  <2>2. SubSeq(ss, 1, i) \o From(ss, i + 1) = ss
    BY Cut
  <2>3. \A t \in Seq(U) : FlattenSeq(t) \in U
    BY <1>0, FlattenAppend
  <2>4. PICK a \in Seq(U) : a = SubSeq(ss, 1, i)
    BY <2>1
  <2>5. PICK b \in Seq(U) : b = From(ss, i + 1)
    BY <2>1
  <2>6. FlattenSeq(a \o b) = FlattenSeq(a) \o FlattenSeq(b)
    BY FlattenCat
  <2> QED
    BY <2>2, <2>3, <2>4, <2>5, <2>6
<1> QED
  BY <1>1, <1>2

-----------------------------------------------------------------------------
(* Fields.                                                                 *)

Types == {"u64", "u32", "u24", "u16", "u8", "bytes"}

\* What a field can carry, of at most max bytes.
FieldValues(type, max) ==
  IF type = "bytes" THEN {v \in Seq(Byte) : Len(v) <= max /\ Len(v) \in Word(W32)}
  ELSE Word(Width(type))

\* What is read of a field of which n bytes are needed.
FieldRead(v, buf_, n) == IF Len(buf_) < n THEN Failed("short") ELSE Parsed(<<v>>, From(buf_, n + 1))

LEMMA WidthType == \A type \in Types : Width(type) \in Nat
BY WireAssumption DEF Types, Width

LEMMA WordType == \A w : Word(w) \subseteq Nat
BY DEF Word

\* A field is written as bytes.
LEMMA FieldType ==
  ASSUME NEW type \in Types, NEW max, NEW v \in FieldValues(type, max)
  PROVE  PutField(type, v) \in Seq(Byte)
<1>1. CASE type = "bytes"
  <2>1. v \in Seq(Byte) /\ Len(v) \in Nat /\ W32 \in Nat
    BY <1>1, WireAssumption, LenProperties DEF FieldValues
  <2>2. Put(Len(v), W32) \in Seq(Byte)
    BY <2>1, PutType
  <2> QED
    BY <1>1, <2>1, <2>2, ConcatProperties DEF PutField
<1>2. CASE type # "bytes"
  <2>1. v \in Nat /\ Width(type) \in Nat
    BY <1>2, WidthType, WordType DEF FieldValues
  <2> QED
    BY <1>2, <2>1, PutType DEF PutField
<1> QED
  BY <1>1, <1>2

\* An integer at the front of a buffer.
WordRead(n, w, buf_, tail, more) ==
  /\ Get(SubSeq(buf_, 1, w)) = n
  /\ From(buf_, w + 1) \in Seq(Byte) /\ Len(From(buf_, w + 1)) = Len(buf_) - w
  /\ From(buf_, w + 1) \o tail = more

\* An integer is read back from a stream that was cut anywhere behind it.
LEMMA IntegerCut ==
  ASSUME NEW w, NEW n, NEW buf_, NEW tail, NEW more,
         w \in Nat, n \in Word(w), buf_ \in Seq(Byte), tail \in Seq(Byte), more \in Seq(Byte),
         Same(buf_, tail, Put(n, w), more), Len(buf_) >= w
  PROVE  WordRead(n, w, buf_, tail, more)
<1>1. PICK p \in Seq(Byte) : p = Put(n, w) /\ Len(p) = w
  BY PutType, WordType
<1>2. PICK r : r = From(buf_, w + 1)
  OBVIOUS
<1>3. buf_ = p \o r /\ r \o tail = more
  <2>1. Same(buf_, tail, p, more) /\ Len(buf_) >= Len(p)
    BY <1>1
  <2>2. Rest(buf_, tail, p, more)
    BY <2>1, Overlap
  <2> QED
    BY <1>1, <1>2, <2>2 DEF Rest
<1>4. r \in Seq(Byte) /\ Len(r) = Len(buf_) - w
  <2>1. Len(buf_) \in Nat
    BY LenProperties
  <2>2. PICK m \in 1 .. Len(buf_) + 1 : m = w + 1 /\ Len(buf_) - m + 1 = Len(buf_) - w
    BY <2>1
  <2>3. From(buf_, m) \in Seq(Byte) /\ Len(From(buf_, m)) = Len(buf_) - m + 1
    BY FromType
  <2> QED
    BY <1>2, <2>2, <2>3, Zenon
<1>5. SubSeq(buf_, 1, w) = p
  BY <1>1, <1>3, <1>4, Parts
<1> QED
  BY <1>1, <1>2, <1>3, <1>4, <1>5, GetPut DEF WordRead

\* A field is read back as it was written, and not before it is complete.
LEMMA FieldCut ==
  ASSUME NEW type, NEW max, NEW v, NEW buf_, NEW tail, NEW more,
         type \in Types, max \in Nat, v \in FieldValues(type, max),
         buf_ \in Seq(Byte), tail \in Seq(Byte), more \in Seq(Byte),
         Same(buf_, tail, PutField(type, v), more)
  PROVE  GetField(type, buf_, max) = FieldRead(v, buf_, Len(PutField(type, v)))
<1> DEFINE w == Width(type)
<1>0. w \in Nat /\ Len(buf_) \in Nat
  BY WidthType, LenProperties
<1>1. CASE type # "bytes"
  <2>1. v \in Word(w) /\ v \in Nat /\ PutField(type, v) = Put(v, w)
    BY <1>1, WordType DEF FieldValues, PutField
  <2>2. Len(PutField(type, v)) = w
    BY <1>0, <2>1, PutType
  <2>3. CASE Len(buf_) < w
    BY <1>0, <1>1, <2>2, <2>3 DEF GetField, FieldRead
  <2>4. CASE Len(buf_) >= w
    <3>1. Get(SubSeq(buf_, 1, w)) = v
      <4>1. WordRead(v, w, buf_, tail, more)
        BY <1>0, <2>1, <2>4, IntegerCut
      <4> QED
        BY <4>1 DEF WordRead
    <3>2. GetField(type, buf_, max) = Parsed(<<v>>, From(buf_, w + 1))
      BY <1>0, <1>1, <2>4, <3>1 DEF GetField
    <3>3. ~ (Len(buf_) < w)
      BY <1>0, <2>4
    <3> QED
      BY <2>2, <3>2, <3>3 DEF FieldRead
  <2> QED
    BY <1>0, <2>3, <2>4
<1>2. CASE type = "bytes"
  <2> DEFINE rest == From(buf_, w + 1)
             m == Len(v)
             after == v \o more
  <2>1. /\ v \in Seq(Byte) /\ m \in Nat /\ m <= max /\ m \in Word(w) /\ w = W32
        /\ PutField(type, v) = Put(m, w) \o v
    BY <1>2, LenProperties DEF FieldValues, Width, PutField
  <2>2. Put(m, w) \in Seq(Byte) /\ Len(Put(m, w)) = w
    BY <1>0, <2>1, PutType
  <2>3. Len(PutField(type, v)) = w + m
    BY <1>0, <2>1, <2>2, ConcatProperties
  <2>4. after \in Seq(Byte) /\ Same(buf_, tail, Put(m, w), after)
    <3>1. after \in Seq(Byte)
      BY <2>1, ConcatProperties
    <3>2. Regrouped(Put(m, w), v, more)
      BY <2>1, <2>2, Regroup
    <3> QED
      BY <2>1, <3>1, <3>2, Zenon DEF Regrouped, Same
  <2>5. CASE Len(buf_) < w
    <3>1. Len(buf_) < w + m
      BY <1>0, <2>1, <2>5
    <3> HIDE DEF w
    <3> QED
      BY <1>0, <1>2, <2>3, <2>5, <3>1 DEF GetField, FieldRead, w
  <2>6. CASE Len(buf_) >= w
    <3>1. /\ Get(SubSeq(buf_, 1, w)) = m
          /\ rest \in Seq(Byte) /\ Len(rest) = Len(buf_) - w
          /\ rest \o tail = after
      <4>1. WordRead(m, w, buf_, tail, after)
        BY <1>0, <2>1, <2>4, <2>6, IntegerCut
      <4> QED
        BY <4>1 DEF WordRead
    <3>2. GetField(type, buf_, max) =
            IF Len(rest) < m THEN Failed("short")
            ELSE Parsed(<<SubSeq(rest, 1, m)>>, From(rest, m + 1))
      <4>1. ~ (Len(buf_) < w) /\ ~ (m > max)
        BY <1>0, <2>1, <2>6
      <4> QED
        BY <1>0, <1>2, <2>6, <3>1, <4>1 DEF GetField
    <3>3. CASE Len(rest) < m
      <4>1. Len(buf_) < w + m
        BY <1>0, <2>1, <3>1, <3>3
      <4> QED
        BY <2>3, <3>2, <3>3, <4>1 DEF FieldRead
    <3>4. CASE ~ (Len(rest) < m)
      <4>1. ~ (Len(buf_) < w + m) /\ Len(rest) >= m
        BY <1>0, <2>1, <3>1, <3>4
      <4>2. rest = v \o From(rest, m + 1)
        <5>1. Same(rest, tail, v, more)
          BY <3>1 DEF Same
        <5>2. Rest(rest, tail, v, more)
          BY <2>1, <3>1, <4>1, <5>1, Overlap
        <5> QED
          BY <5>2 DEF Rest
      <4>3. From(rest, m + 1) \in Seq(Byte)
        <5>1. m + 1 \in 1 .. Len(rest) + 1
          BY <1>0, <2>1, <3>1, <4>1
        <5> QED
          BY <3>1, <5>1, FromType
      <4>4. SubSeq(rest, 1, m) = v
        <5>1. PICK r \in Seq(Byte) : r = From(rest, m + 1)
          BY <4>3
        <5>2. SubSeq(v \o r, 1, Len(v)) = v
          BY <2>1, Parts
        <5> QED
          BY <4>2, <5>1, <5>2, Zenon
      <4>5. From(rest, m + 1) = From(buf_, w + m + 1)
        <5>1. w + m <= Len(buf_)
          BY <1>0, <2>1, <4>1
        <5>2. PICK V : V = Byte /\ buf_ \in Seq(V) /\ w \in Nat /\ m \in Nat
          BY <1>0, <2>1
        <5>3. From(From(buf_, w + 1), m + 1) = From(buf_, w + m + 1)
          BY ONLY <5>1, <5>2, FromFrom
        <5> QED
          BY <2>1, <5>3
      <4> QED
        BY <2>3, <3>2, <3>4, <4>1, <4>4, <4>5 DEF FieldRead
    <3> QED
      BY <3>3, <3>4
  <2> QED
    BY <1>0, <2>5, <2>6
<1> QED
  BY <1>1, <1>2

-----------------------------------------------------------------------------
(* Layouts.                                                                *)

\* Values for each field of a layout, and what has been read of them when n bytes
\* are needed.
Fits(layout, values, max) ==
  /\ layout \in Seq(Types) /\ values \in Seq(Nat \cup Seq(Byte))
  /\ Len(values) = Len(layout)
  /\ \A i \in 1 .. Len(layout) : values[i] \in FieldValues(layout[i], max)

FieldsRead(values, buf_, n) ==
  IF Len(buf_) < n THEN Failed("short") ELSE Parsed(values, From(buf_, n + 1))

\* One more field, as GetFields reads it.
NextField(before, type, max) ==
  LET field == GetField(type, before.rest, max)
  IN  IF before.error # "none" THEN before
      ELSE IF field.error # "none" THEN field
      ELSE Parsed(before.values \o field.values, field.rest)

Advances(values, v, type, buf_, before, max) ==
  NextField(FieldsRead(values, buf_, Len(before)), type, max)
    = FieldsRead(values \o <<v>>, buf_, Len(before \o PutField(type, v)))

\* One more field of a message is read from the bytes that are there, or is missed.
LEMMA FieldStep ==
  ASSUME NEW type, NEW max, NEW v, NEW values, NEW buf_, NEW tail, NEW before, NEW more,
         type \in Types, max \in Nat, v \in FieldValues(type, max),
         buf_ \in Seq(Byte), tail \in Seq(Byte), before \in Seq(Byte), more \in Seq(Byte),
         Same(buf_, tail, before, PutField(type, v) \o more)
  PROVE  Advances(values, v, type, buf_, before, max)
<1> USE DEF Advances
<1>1. PICK p \in Seq(Byte) : p = PutField(type, v)
  BY FieldType
<1>2. PICK c \in Nat : c = Len(before)
  BY LenProperties
<1>3. Len(buf_) \in Nat /\ Len(p) \in Nat /\ Len(before \o p) = c + Len(p)
  BY <1>2, LenProperties, ConcatProperties
<1>4. p \o more \in Seq(Byte)
  BY ConcatProperties
<1>5. CASE Len(buf_) < c
  <2>1. FieldsRead(values, buf_, c) = Failed("short")
    BY <1>5 DEF FieldsRead
  <2>2. NextField(Failed("short"), type, max) = Failed("short")
    BY DEF NextField, Failed
  <2>3. Len(buf_) < c + Len(p)
    BY <1>3, <1>5
  <2>4. FieldsRead(values \o <<v>>, buf_, c + Len(p)) = Failed("short")
    BY <2>3 DEF FieldsRead
  <2> QED
    BY <1>1, <1>2, <1>3, <2>1, <2>2, <2>4
<1>6. CASE ~ (Len(buf_) < c)
  <2>1. PICK r : r = From(buf_, c + 1)
    OBVIOUS
  <2>2. r \in Seq(Byte) /\ Len(r) = Len(buf_) - c
    <3>1. PICK m \in 1 .. Len(buf_) + 1 : m = c + 1 /\ Len(buf_) - m + 1 = Len(buf_) - c
      BY <1>3, <1>6
    <3>2. From(buf_, m) \in Seq(Byte) /\ Len(From(buf_, m)) = Len(buf_) - m + 1
      BY FromType
    <3> QED
      BY <2>1, <3>1, <3>2, Zenon
  <2>3. Same(r, tail, p, more)
    <3>1. Same(buf_, tail, before, p \o more) /\ Len(buf_) >= Len(before)
      BY <1>1, <1>2, <1>3, <1>6
    <3>2. Rest(buf_, tail, before, p \o more)
      BY <1>4, <3>1, Overlap
    <3> QED
      BY <1>2, <2>1, <3>2 DEF Rest, Same
  <2>4. GetField(type, r, max) = FieldRead(v, r, Len(p))
    BY <1>1, <2>2, <2>3, FieldCut
  <2>5. FieldsRead(values, buf_, c) = Parsed(values, r)
    BY <1>6, <2>1 DEF FieldsRead
  <2>6. CASE Len(r) < Len(p)
    <3>1. GetField(type, r, max) = Failed("short")
      BY <2>4, <2>6 DEF FieldRead
    <3>2. NextField(Parsed(values, r), type, max) = Failed("short")
      BY <3>1 DEF NextField, Parsed, Failed
    <3>3. Len(buf_) < c + Len(p)
      BY <1>3, <2>2, <2>6
    <3>4. FieldsRead(values \o <<v>>, buf_, c + Len(p)) = Failed("short")
      BY <3>3 DEF FieldsRead
    <3> QED
      BY <1>1, <1>2, <1>3, <2>5, <3>2, <3>4
  <2>7. CASE ~ (Len(r) < Len(p))
    <3>1. GetField(type, r, max) = Parsed(<<v>>, From(r, Len(p) + 1))
      BY <2>4, <2>7 DEF FieldRead
    <3>2. NextField(Parsed(values, r), type, max) = Parsed(values \o <<v>>, From(r, Len(p) + 1))
      <4> DEFINE b == Parsed(values, r)
                 f == Parsed(<<v>>, From(r, Len(p) + 1))
      <4>1. b.error = "none" /\ b.values = values /\ b.rest = r
        BY DEF Parsed
      <4>2. f.error = "none" /\ f.values = <<v>> /\ f.rest = From(r, Len(p) + 1)
        BY DEF Parsed
      <4>3. GetField(type, r, max) = f
        BY <3>1
      <4> HIDE DEF b, f
      <4>4. NextField(b, type, max) = Parsed(b.values \o f.values, f.rest)
        BY <4>1, <4>2, <4>3 DEF NextField
      <4>5. NextField(b, type, max) = Parsed(values \o <<v>>, From(r, Len(p) + 1))
        BY <4>1, <4>2, <4>4, Zenon
      <4> QED
        BY <4>5 DEF b
    <3>3. ~ (Len(buf_) < c + Len(p)) /\ c + Len(p) <= Len(buf_)
      BY <1>3, <2>2, <2>7
    <3>4. From(r, Len(p) + 1) = From(buf_, c + Len(p) + 1)
      <4>1. PICK V : V = Byte /\ buf_ \in Seq(V)
        OBVIOUS
      <4>2. PICK m \in Nat : m = Len(p) /\ c \in Nat /\ c + m <= Len(buf_)
        BY <1>3, <2>2, <3>3, LenProperties
      <4>3. From(From(buf_, c + 1), m + 1) = From(buf_, c + m + 1)
        BY ONLY <4>1, <4>2, FromFrom
      <4> QED
        BY <2>1, <4>2, <4>3, Zenon
    <3>5. FieldsRead(values \o <<v>>, buf_, c + Len(p))
            = Parsed(values \o <<v>>, From(buf_, c + Len(p) + 1))
      BY <3>3 DEF FieldsRead
    <3> QED
      BY <1>1, <1>2, <1>3, <2>5, <3>2, <3>4, <3>5
  <2> QED
    BY <2>6, <2>7
<1> QED
  BY <1>5, <1>6

\* The recursion of GetFields.
Parses(layout, buf_, max) ==
  CHOOSE parse : parse = [i \in 0 .. Len(layout) |->
    IF i = 0 THEN Parsed(<<>>, buf_) ELSE NextField(parse[i - 1], layout[i], max)]

Steps(f, g0, layout, max) ==
  f[0] = g0 /\ \A i \in 1 .. Len(layout) : f[i] = NextField(f[i - 1], layout[i], max)

\* The parser is what any function with its steps computes.
LEMMA ParseSteps ==
  ASSUME NEW layout, NEW buf_, NEW max, NEW g,
         Len(layout) \in Nat, Steps(g, Parsed(<<>>, buf_), layout, max)
  PROVE  GetFields(layout, buf_, max) = g[Len(layout)]
<1> DEFINE n == Len(layout)
           Eq(f) == f = [i \in 0 .. n |->
             IF i = 0 THEN Parsed(<<>>, buf_) ELSE NextField(f[i - 1], layout[i], max)]
           h == [i \in 0 .. n |-> g[i]]
           q == Parses(layout, buf_, max)
<1>1. Eq(h)
  <2> HIDE DEF n
  <2>1. n \in Nat
    BY DEF n
  <2>2. g[0] = Parsed(<<>>, buf_) /\ \A i \in 1 .. n : g[i] = NextField(g[i - 1], layout[i], max)
    BY DEF Steps, n
  <2>3. ASSUME NEW i \in 0 .. n
        PROVE  h[i] = IF i = 0 THEN Parsed(<<>>, buf_) ELSE NextField(h[i - 1], layout[i], max)
    <3>1. CASE i = 0
      BY <2>2, <3>1
    <3>2. CASE i # 0
      <4>1. i \in 1 .. n /\ i - 1 \in 0 .. n
        BY <2>1, <3>2
      <4>2. h[i] = g[i] /\ h[i - 1] = g[i - 1]
        BY <4>1
      <4> QED
        BY <2>2, <3>2, <4>1, <4>2
    <3> QED
      BY <3>1, <3>2
  <2> QED
    BY <2>3
<1>2. Eq(q)
  <2>1. Eq(CHOOSE f : Eq(f))
    <3> HIDE DEF Eq
    <3> QED
      BY <1>1
  <2> QED
    BY <2>1, Zenon DEF Parses
<1>3. GetFields(layout, buf_, max) = q[n]
  BY DEF GetFields, Parses, NextField
<1> HIDE DEF q
<1>4. q[0] = Parsed(<<>>, buf_) /\ \A i \in 1 .. n : q[i] = NextField(q[i - 1], layout[i], max)
  BY <1>2
<1>5. g[0] = Parsed(<<>>, buf_) /\ \A i \in 1 .. n : g[i] = NextField(g[i - 1], layout[i], max)
  BY DEF Steps
<1>6. q[n] = g[n]
  <2> DEFINE T == {i \in Nat : i <= n => q[i] = g[i]}
  <2>1. 0 \in T
    BY <1>4, <1>5
  <2>2. ASSUME NEW i \in Nat, i \in T PROVE i + 1 \in T
    <3>1. PICK j \in Nat : j = i + 1
      OBVIOUS
    <3> SUFFICES ASSUME j <= n PROVE q[j] = g[j]
      BY <3>1
    <3>2. j \in 1 .. n /\ q[j - 1] = g[j - 1]
      BY <2>2, <3>1
    <3>3. q[j] = NextField(q[j - 1], layout[j], max) /\ g[j] = NextField(g[j - 1], layout[j], max)
      BY <1>4, <1>5, <3>2
    <3> QED
      BY <3>2, <3>3
  <2> HIDE DEF T
  <2>3. \A i \in Nat : i \in T
    BY <2>1, <2>2, SetInduction
  <2> QED
    BY <2>3 DEF T
<1> QED
  BY <1>3, <1>6

\* The fields of a layout are read back as they were written, and not before all of
\* them are there.
THEOREM FieldsCut ==
  ASSUME NEW layout, NEW values, NEW max, NEW buf_, NEW tail, NEW more,
         max \in Nat, Fits(layout, values, max),
         buf_ \in Seq(Byte), tail \in Seq(Byte), more \in Seq(Byte),
         Same(buf_, tail, PutFields(layout, values), more)
  PROVE  /\ PutFields(layout, values) \in Seq(Byte)
         /\ GetFields(layout, buf_, max)
              = FieldsRead(values, buf_, Len(PutFields(layout, values)))
<1> DEFINE n == Len(layout)
           pieces == [i \in DOMAIN layout |-> PutField(layout[i], values[i])]
           U == Seq(Byte)
           cum(i) == FlattenSeq(SubSeq(pieces, 1, i))
           rem(i) == FlattenSeq(From(pieces, i + 1))
           front(i) == SubSeq(values, 1, i)
           g == [i \in 0 .. n |-> FieldsRead(front(i), buf_, Len(cum(i)))]
<1>1. /\ n \in Nat /\ DOMAIN layout = 1 .. n /\ Len(values) = n
      /\ layout \in Seq(Types) /\ values \in Seq(Nat \cup Seq(Byte))
      /\ \A i \in 1 .. n : layout[i] \in Types /\ values[i] \in FieldValues(layout[i], max)
  BY LenProperties DEF Fits
<1>2. pieces \in Seq(U) /\ Len(pieces) = n /\ \A i \in 1 .. n : pieces[i] = PutField(layout[i], values[i])
  <2>1. \A i \in 1 .. n : PutField(layout[i], values[i]) \in U
    BY <1>1, FieldType
  <2> HIDE DEF n
  <2> QED
    BY <1>1, <2>1
<1> HIDE DEF pieces
<1>3. /\ \A i \in 1 .. n : cum(i) = cum(i - 1) \o pieces[i]
      /\ \A i \in 0 .. n : /\ cum(i) \in U /\ rem(i) \in U
                           /\ FlattenSeq(pieces) = cum(i) \o rem(i)
  <2>1. PICK V : V = U
    OBVIOUS
  <2>2. pieces \in Seq(V) /\ V = Seq(Byte)
    BY <1>2, <2>1
  <2> HIDE DEF n
  <2>3. /\ \A i \in 1 .. Len(pieces) :
             FlattenSeq(SubSeq(pieces, 1, i)) = FlattenSeq(SubSeq(pieces, 1, i - 1)) \o pieces[i]
        /\ \A i \in 0 .. Len(pieces) :
             /\ FlattenSeq(SubSeq(pieces, 1, i)) \in V /\ FlattenSeq(From(pieces, i + 1)) \in V
             /\ FlattenSeq(pieces)
                   = FlattenSeq(SubSeq(pieces, 1, i)) \o FlattenSeq(From(pieces, i + 1))
    BY ONLY <2>2, FlattenCuts
  <2> QED
    BY <1>2, <2>1, <2>3
<1>4. PutFields(layout, values) = FlattenSeq(pieces)
  BY DEF PutFields, pieces
<1>5. SubSeq(pieces, 1, n) = pieces /\ front(n) = values
  BY <1>1, <1>2, SubSeqFull
<1>6. Steps(g, Parsed(<<>>, buf_), layout, max)
  <2>1. g[0] = Parsed(<<>>, buf_)
    <3>1. SubSeq(pieces, 1, 0) = <<>> /\ front(0) = <<>>
      BY SubSeqEmpty
    <3>2. cum(0) = <<>>
      BY <3>1, FlattenEmpty
    <3>3. Len(cum(0)) = 0 /\ ~ (Len(buf_) < 0)
      BY <3>2, LenProperties
    <3>4. From(buf_, 1) = buf_
      BY SubSeqFull DEF From
    <3>5. FieldsRead(<<>>, buf_, 0) = Parsed(<<>>, buf_)
      BY <3>3, <3>4 DEF FieldsRead
    <3>6. 0 \in 0 .. n
      BY <1>1
    <3>7. g[0] = FieldsRead(front(0), buf_, Len(cum(0)))
      <4> HIDE DEF n, front, cum
      <4> QED
        BY <3>6
    <3> HIDE DEF g, cum, front
    <3> QED
      BY <3>1, <3>3, <3>5, <3>7 DEF front
  <2>2. ASSUME NEW i \in 1 .. n PROVE g[i] = NextField(g[i - 1], layout[i], max)
    <3>1. PICK j \in 0 .. n : j = i - 1
      BY <1>1
    <3>2. g[i] = FieldsRead(front(i), buf_, Len(cum(i))) /\ g[i - 1] = FieldsRead(front(j), buf_, Len(cum(j)))
      BY <1>1, <3>1
    <3> HIDE DEF g, cum, rem, front
    <3>3. PICK before \in U, more2 \in U : before = cum(j) /\ more2 = rem(i)
      BY <1>1, <1>3
    <3>4. cum(i) = before \o PutField(layout[i], values[i]) /\ PutField(layout[i], values[i]) \in U
      BY <1>1, <1>2, <1>3, <3>1, <3>3, FieldType
    <3>5. front(i) = front(j) \o <<values[i]>>
      <4>1. 1 \in 1 .. Len(values) /\ i \in 1 .. Len(values)
        BY <1>1
      <4> QED
        BY <1>1, <3>1, <4>1, SubSeqRecursiveSecond DEF front
    <3>6. Same(buf_, tail, before, PutField(layout[i], values[i]) \o (more2 \o more))
      <4>1. PICK p \in U : p = PutField(layout[i], values[i])
        BY <3>4
      <4>2. PutFields(layout, values) = (before \o p) \o more2
        <5>1. FlattenSeq(pieces) = cum(i) \o rem(i)
          <6>1. i \in 0 .. n
            BY <1>1
          <6> QED
            BY <1>3, <6>1
        <5> QED
          BY <1>4, <3>3, <3>4, <4>1, <5>1, Zenon
      <4>3. before \o p \in Seq(Byte) /\ p \o more2 \in Seq(Byte) /\ more2 \o more \in Seq(Byte)
        BY ConcatProperties
      <4>4. Regrouped(before \o p, more2, more) /\ Regrouped(before, p, more2 \o more)
        BY <4>3, Regroup
      <4>5. buf_ \o tail = PutFields(layout, values) \o more
        BY DEF Same
      <4>6. buf_ \o tail = before \o (p \o (more2 \o more))
        BY <4>2, <4>4, <4>5, Zenon DEF Regrouped
      <4> QED
        BY <4>1, <4>6 DEF Same
    <3>7. more2 \o more \in Seq(Byte)
      BY ConcatProperties
    <3>8. NextField(FieldsRead(front(j), buf_, Len(before)), layout[i], max)
            = FieldsRead(front(j) \o <<values[i]>>, buf_, Len(before \o PutField(layout[i], values[i])))
      <4>1. PICK type \in Types, v \in {values[i]} : type = layout[i] /\ v = values[i] /\ v \in FieldValues(type, max)
        BY <1>1
      <4>2. PICK w \in Seq(Byte) : w = more2 \o more
        BY <3>7
      <4>3. PICK f : f = front(j)
        OBVIOUS
      <4>4. Same(buf_, tail, before, PutField(type, v) \o w)
        BY <3>6, <4>1, <4>2
      <4>5. Advances(f, v, type, buf_, before, max)
        BY <4>1, <4>4, FieldStep
      <4> QED
        BY <4>1, <4>3, <4>5 DEF Advances
    <3> QED
      BY <3>2, <3>3, <3>4, <3>5, <3>8
  <2> HIDE DEF g
  <2> QED
    BY <2>1, <2>2 DEF Steps
<1>7. GetFields(layout, buf_, max) = g[n]
  <2> HIDE DEF g
  <2> QED
    BY <1>1, <1>6, ParseSteps
<1>8. g[n] = FieldsRead(values, buf_, Len(FlattenSeq(pieces)))
  <2>1. n \in 0 .. n
    BY <1>1
  <2>2. g[n] = FieldsRead(front(n), buf_, Len(cum(n)))
    <3> HIDE DEF n, front, cum
    <3> QED
      BY <2>1
  <2> HIDE DEF g
  <2> QED
    BY <1>5, <2>2
<1>9. FlattenSeq(pieces) \in Seq(Byte)
  <2>1. n \in 0 .. n
    BY <1>1
  <2>2. cum(n) \in U
    <3> HIDE DEF n, cum, rem
    <3> QED
      BY <1>3, <2>1
  <2> QED
    BY <1>5, <2>2
<1> QED
  BY <1>4, <1>7, <1>8, <1>9

-----------------------------------------------------------------------------
(* A tag and the fields its layout says.                                   *)

TagRead(tag, layout, values, max, buf_) ==
  /\ PutFields(layout, values) \in Seq(Byte)
  /\ <<tag>> \o PutFields(layout, values) \in Seq(Byte)
  /\ Len(<<tag>> \o PutFields(layout, values)) = Len(PutFields(layout, values)) + 1
  /\ buf_ # <<>> =>
       /\ buf_[1] = tag /\ Tail(buf_) = From(buf_, 2)
       /\ Tail(buf_) \in Seq(Byte) /\ Len(Tail(buf_)) = Len(buf_) - 1
       /\ GetFields(layout, Tail(buf_), max)
            = FieldsRead(values, Tail(buf_), Len(PutFields(layout, values)))

\* Fields are written as bytes.
LEMMA PutFieldsType ==
  ASSUME NEW layout, NEW values, NEW max, max \in Nat, Fits(layout, values, max)
  PROVE  PutFields(layout, values) \in Seq(Byte)
<1>1. PICK p : p = PutFields(layout, values)
  OBVIOUS
<1> DEFINE n == Len(layout)
           pieces == [i \in DOMAIN layout |-> PutField(layout[i], values[i])]
<1>2. /\ n \in Nat /\ DOMAIN layout = 1 .. n
      /\ \A i \in 1 .. n : layout[i] \in Types /\ values[i] \in FieldValues(layout[i], max)
  BY LenProperties DEF Fits
<1>3. PICK V : V = Seq(Byte)
  OBVIOUS
<1>4. pieces \in Seq(V)
  <2>1. \A i \in 1 .. n : PutField(layout[i], values[i]) \in V
    BY <1>2, <1>3, FieldType
  <2> HIDE DEF n
  <2> QED
    BY <1>2, <2>1
<1>5. SubSeq(pieces, 1, Len(pieces)) = pieces /\ Len(pieces) \in 0 .. Len(pieces)
  BY <1>4, SubSeqFull, LenProperties
<1> HIDE DEF pieces
<1>6. FlattenSeq(SubSeq(pieces, 1, Len(pieces))) \in V
  BY <1>3, <1>4, <1>5, FlattenCuts
<1> QED
  BY <1>3, <1>5, <1>6 DEF PutFields, pieces

\* A tag is taken off, and the fields behind it are read.
LEMMA TagCut ==
  ASSUME NEW tag, NEW layout, NEW values, NEW max, NEW buf_, NEW tail, NEW more,
         tag \in Byte, max \in Nat, Fits(layout, values, max),
         buf_ \in Seq(Byte), tail \in Seq(Byte), more \in Seq(Byte),
         Same(buf_, tail, <<tag>> \o PutFields(layout, values), more)
  PROVE  TagRead(tag, layout, values, max, buf_)
<1>1. PICK f \in Seq(Byte) : f = PutFields(layout, values)
  BY PutFieldsType
<1>2. PICK t \in Seq(Byte) : t = <<tag>>
  <2>1. <<tag>> \in Seq(Byte)
    OBVIOUS
  <2> QED
    BY <2>1, Zenon
<1>3. Len(t) = 1 /\ t[1] = tag
  BY <1>2
<1>4. t \o f \in Seq(Byte) /\ Len(t \o f) = Len(f) + 1 /\ f \o more \in Seq(Byte)
  <2>1. t \o f \in Seq(Byte) /\ Len(t \o f) = Len(t) + Len(f)
    BY ConcatProperties
  <2>2. f \o more \in Seq(Byte)
    BY ConcatProperties
  <2>3. Len(f) \in Nat
    BY LenProperties
  <2> QED
    BY <1>3, <2>1, <2>2, <2>3
<1>5. ASSUME buf_ # <<>>
      PROVE  /\ buf_[1] = tag /\ Tail(buf_) = From(buf_, 2)
             /\ Tail(buf_) \in Seq(Byte) /\ Len(Tail(buf_)) = Len(buf_) - 1
             /\ GetFields(layout, Tail(buf_), max) = FieldsRead(values, Tail(buf_), Len(f))
  <2>1. Len(buf_) \in Nat /\ Len(buf_) >= 1 /\ Len(buf_) >= Len(t)
    BY <1>3, <1>5, LenProperties
  <2>2. PICK r : r = Tail(buf_)
    OBVIOUS
  <2>3. r \in Seq(Byte) /\ Len(r) = Len(buf_) - 1 /\ r = From(buf_, 2)
    BY <1>5, <2>1, <2>2 DEF From
  <2>4. Same(buf_, tail, t, f \o more)
    <3>1. Regrouped(t, f, more)
      BY Regroup
    <3>2. buf_ \o tail = (t \o f) \o more
      BY <1>1, <1>2 DEF Same
    <3> QED
      BY <3>1, <3>2, Zenon DEF Same, Regrouped
  <2>5. Rest(buf_, tail, t, f \o more)
    BY <1>4, <2>1, <2>4, Overlap
  <2>6. buf_ = t \o r /\ r \o tail = f \o more
    <3>1. Len(t) + 1 = 2
      BY <1>3
    <3> QED
      BY <2>3, <2>5, <3>1 DEF Rest
  <2>7. buf_[1] = tag
    BY <1>3, <2>3, <2>6, ConcatProperties, LenProperties
  <2>8. Same(r, tail, PutFields(layout, values), more)
    BY <1>1, <2>6 DEF Same
  <2>9. GetFields(layout, r, max) = FieldsRead(values, r, Len(PutFields(layout, values)))
    BY <2>3, <2>8, FieldsCut
  <2> QED
    BY <1>1, <2>2, <2>3, <2>7, <2>9
<1> QED
  BY <1>1, <1>2, <1>4, <1>5 DEF TagRead

-----------------------------------------------------------------------------
(* Signals.                                                                *)

WellFormed(s) ==
  /\ s.kind \in SignalKinds /\ s = Signal(s.kind, s.fields)
  /\ Fits(SignalLayout(s.kind), s.fields, MaxReliableData)

SignalRead(s, buf_) ==
  /\ EncodeSignal(s) \in Seq(Byte) /\ Len(EncodeSignal(s)) > 0
  /\ DecodeSignal(buf_) = IF Len(buf_) < Len(EncodeSignal(s)) THEN More
                          ELSE Decoded(s, From(buf_, Len(EncodeSignal(s)) + 1))

\* Every kind of signal has a tag of its own (TunnelSignal::encode).
LEMMA SignalTags ==
  /\ \A kind \in SignalKinds : SignalTag[kind] \in Byte
  /\ \A x, y \in SignalKinds : SignalTag[x] = SignalTag[y] => x = y
<1>1. SignalKinds = {"count", "nack", "request", "data", "highWater", "credit", "ack"}
  BY DEF SignalKinds, SignalTag
<1>2. \A kind \in SignalKinds : SignalTag[kind] \in 1 .. 7
  BY <1>1 DEF SignalTag
<1>3. 1 .. 7 \subseteq Byte
  BY WireAssumption DEF Byte
<1>4. \A x, y \in SignalKinds : SignalTag[x] = SignalTag[y] => x = y
  BY <1>1 DEF SignalTag
<1> QED
  BY <1>2, <1>3, <1>4

\* A signal is decoded as it was encoded, and not before its last byte is there.
THEOREM SignalCut ==
  ASSUME NEW s, NEW buf_, NEW tail, NEW more,
         WellFormed(s), buf_ \in Seq(Byte), tail \in Seq(Byte), more \in Seq(Byte),
         Same(buf_, tail, EncodeSignal(s), more)
  PROVE  SignalRead(s, buf_)
<1> DEFINE layout == SignalLayout(s.kind)
           tag == SignalTag[s.kind]
           f == PutFields(layout, s.fields)
           n == Len(f) + 1
           after == From(buf_, n + 1)
<1>1. /\ s.kind \in SignalKinds /\ s = Signal(s.kind, s.fields)
      /\ Fits(layout, s.fields, MaxReliableData) /\ MaxReliableData \in Nat
      /\ tag \in Byte
  BY WireAssumption, SignalTags DEF WellFormed
<1>2. EncodeSignal(s) = <<tag>> \o f
  BY DEF EncodeSignal
<1>3. TagRead(tag, layout, s.fields, MaxReliableData, buf_)
  BY <1>1, <1>2, TagCut
<1>4. /\ f \in Seq(Byte) /\ EncodeSignal(s) \in Seq(Byte) /\ Len(EncodeSignal(s)) = n
  BY <1>2, <1>3 DEF TagRead
<1>5. Len(f) \in Nat /\ Len(buf_) \in Nat /\ n \in Nat /\ n > 0
  BY <1>4, LenProperties
<1>6. CASE buf_ = <<>>
  <2>1. Len(buf_) < n
    BY <1>5, <1>6
  <2>2. DecodeSignal(buf_) = More
    BY <1>6 DEF DecodeSignal
  <2> QED
    BY <1>4, <1>5, <2>1, <2>2 DEF SignalRead
<1>7. CASE buf_ # <<>>
  <2>1. PICK t : t = Tail(buf_)
    OBVIOUS
  <2>2. /\ buf_[1] = tag /\ t = From(buf_, 2)
        /\ t \in Seq(Byte) /\ Len(t) = Len(buf_) - 1
        /\ GetFields(layout, t, MaxReliableData) = FieldsRead(s.fields, t, Len(f))
    BY <1>3, <1>7, <2>1 DEF TagRead
  <2>3. (CHOOSE x \in SignalKinds : SignalTag[x] = buf_[1]) = s.kind
    BY <1>1, <2>2, SignalTags
  <2>4. PICK got_ : got_ = GetFields(layout, t, MaxReliableData)
    OBVIOUS
  <2>5. DecodeSignal(buf_) =
          CASE Incomplete(got_) -> More
            [] ~Incomplete(got_) /\ got_.error # "none" -> Skip(buf_)
            [] ~Incomplete(got_) /\ got_.error = "none" -> Decoded(Signal(s.kind, got_.values), got_.rest)
    <3>1. \E kind \in SignalKinds : SignalTag[kind] = buf_[1]
      BY <1>1, <2>2
    <3> HIDE DEF tag, layout
    <3> QED
      BY <1>7, <2>1, <2>3, <2>4, <3>1, Zenon DEF DecodeSignal, layout
  <2>6. CASE Len(buf_) < n
    <3>1. Len(t) < Len(f)
      BY <1>5, <2>2, <2>6
    <3>2. got_ = Failed("short")
      BY <2>2, <2>4, <3>1 DEF FieldsRead
    <3>3. Incomplete(got_)
      BY <3>2 DEF Incomplete, Failed
    <3>4. DecodeSignal(buf_) = More
      BY <2>5, <3>3
    <3> QED
      BY <1>4, <1>5, <2>6, <3>4 DEF SignalRead
  <2>7. CASE ~ (Len(buf_) < n)
    <3>1. ~ (Len(t) < Len(f)) /\ 1 + Len(f) <= Len(buf_)
      BY <1>5, <2>2, <2>7
    <3>2. got_ = Parsed(s.fields, From(t, Len(f) + 1))
      BY <2>2, <2>4, <3>1 DEF FieldsRead
    <3>3. From(t, Len(f) + 1) = From(buf_, n + 1)
      <4>1. PICK m \in Nat, j \in Nat : m = 1 /\ j = Len(f)
        BY <1>5
      <4>2. From(From(buf_, m + 1), j + 1) = From(buf_, m + j + 1)
        BY <3>1, <4>1, FromFrom
      <4>3. m + 1 = 2 /\ m + j + 1 = n + 1
        BY <1>5, <4>1
      <4> QED
        BY <2>2, <4>1, <4>2, <4>3
    <3>4. got_.error = "none" /\ got_.values = s.fields /\ got_.rest = From(buf_, n + 1)
      BY <3>2, <3>3 DEF Parsed
    <3>5. ~Incomplete(got_)
      BY <3>4 DEF Incomplete
    <3>6. DecodeSignal(buf_) = Decoded(s, From(buf_, n + 1))
      BY <1>1, <2>5, <3>4, <3>5
    <3> QED
      BY <1>4, <1>5, <2>7, <3>6 DEF SignalRead
  <2> QED
    BY <2>6, <2>7
<1> QED
  BY <1>6, <1>7

-----------------------------------------------------------------------------
(* Control messages.                                                       *)

Sendable(m) ==
  /\ m.kind \in ControlKinds /\ m = Signal(m.kind, m.fields)
  /\ Fits(ControlLayout(m.kind), m.fields, MaxField)
  /\ Len(EncodeMessage(m)) <= MaxControlMsg

\* Every kind of control message has a tag of its own (Message::encode).
LEMMA ControlTags ==
  /\ \A kind \in ControlKinds : ControlTag[kind] \in Byte
  /\ \A x, y \in ControlKinds : ControlTag[x] = ControlTag[y] => x = y
<1>1. ControlKinds = {"hello", "helloAck", "openTarget", "openTargetAck", "openTargetErr",
                      "fecReconfig", "blockNack", "ping", "pong", "goodbye"}
  BY DEF ControlKinds, ControlTag
<1>2. \A kind \in ControlKinds : ControlTag[kind] \in 1 .. 10
  BY <1>1 DEF ControlTag
<1>3. 1 .. 10 \subseteq Byte
  BY WireAssumption DEF Byte
<1>4. \A x, y \in ControlKinds : ControlTag[x] = ControlTag[y] => x = y
  BY <1>1 DEF ControlTag
<1> QED
  BY <1>2, <1>3, <1>4

LEMMA EmptyType ==
  ASSUME NEW S
  PROVE  /\ <<>> \in Seq(S) /\ Len(<<>>) = 0
         /\ \A s \in Seq(S) : s \o <<>> = s /\ <<>> \o s = s
BY ConcatEmptySeq

\* The whole of a message is decoded as it was encoded.
LEMMA MessageWhole ==
  ASSUME NEW m, Sendable(m)
  PROVE  EncodeMessage(m) \in Seq(Byte) /\ DecodeMessage(EncodeMessage(m)) = m
<1> DEFINE layout == ControlLayout(m.kind)
           tag == ControlTag[m.kind]
           f == PutFields(layout, m.fields)
<1>1. /\ m.kind \in ControlKinds /\ m = Signal(m.kind, m.fields)
      /\ Fits(layout, m.fields, MaxField) /\ MaxField \in Nat
      /\ tag \in Byte
  BY WireAssumption, ControlTags DEF Sendable
<1>2. PICK body : body = EncodeMessage(m) /\ body = <<tag>> \o f
  BY DEF EncodeMessage
<1>3. f \in Seq(Byte) /\ body \in Seq(Byte) /\ Len(body) = Len(f) + 1
  <2>1. PICK g \in Seq(Byte) : g = f
    BY <1>1, PutFieldsType
  <2>2. <<tag>> \in Seq(Byte)
    BY <1>1
  <2>3. PICK t \in Seq(Byte) : t = <<tag>> /\ Len(t) = 1
    BY <2>2
  <2>4. t \o g \in Seq(Byte) /\ Len(t \o g) = Len(t) + Len(g) /\ Len(g) \in Nat
    BY ConcatProperties, LenProperties
  <2> QED
    BY <1>2, <2>1, <2>3, <2>4
<1>4. Len(f) \in Nat
  BY <1>3, LenProperties
<1>5. Same(body, <<>>, <<tag>> \o f, <<>>) /\ <<>> \in Seq(Byte)
  BY <1>2, <1>3, EmptyType DEF Same
<1>6. TagRead(tag, layout, m.fields, MaxField, body)
  BY <1>1, <1>3, <1>5, TagCut
<1>7. body # <<>>
  BY <1>3, <1>4, EmptyType
<1>8. PICK t : t = Tail(body)
  OBVIOUS
<1>9. /\ body[1] = tag /\ t \in Seq(Byte) /\ Len(t) = Len(f)
      /\ GetFields(layout, t, MaxField) = FieldsRead(m.fields, t, Len(f))
  BY <1>3, <1>4, <1>6, <1>7, <1>8 DEF TagRead
<1>10. PICK got_ : got_ = GetFields(layout, t, MaxField)
  OBVIOUS
<1>11. got_.error = "none" /\ got_.values = m.fields
  <2>1. ~ (Len(t) < Len(f))
    BY <1>4, <1>9
  <2>2. got_ = Parsed(m.fields, From(t, Len(f) + 1))
    BY <1>9, <1>10, <2>1 DEF FieldsRead
  <2> QED
    BY <2>2 DEF Parsed
<1>12. (CHOOSE x \in ControlKinds : ControlTag[x] = body[1]) = m.kind
  BY <1>1, <1>9, ControlTags
<1>13. \E kind \in ControlKinds : ControlTag[kind] = body[1]
  BY <1>1, <1>9
<1>14. DecodeMessage(body) =
         IF got_.error = "none" THEN [kind |-> m.kind, fields |-> got_.values]
         ELSE [error |-> got_.error]
  <2> HIDE DEF tag, layout
  <2> QED
    BY <1>7, <1>8, <1>10, <1>12, <1>13, Zenon DEF DecodeMessage, layout
<1>15. DecodeMessage(body) = m
  BY <1>1, <1>11, <1>14 DEF Signal
<1> QED
  BY <1>2, <1>3, <1>15

\* A frame alone on the stream has arrived, is the message and leaves nothing.
FrameRead(m) ==
  /\ Frame(m) \in Seq(Byte) /\ Arrived(Frame(m))
  /\ FirstMessage(Frame(m)) = m /\ AfterFirst(Frame(m)) = <<>>

\* A message that ControlChannel::send takes is the one its recv gives.
THEOREM FrameWhole ==
  ASSUME NEW m, Sendable(m)
  PROVE  FrameRead(m)
<1>1. PICK body \in Seq(Byte) : body = EncodeMessage(m) /\ DecodeMessage(body) = m
  BY MessageWhole
<1>2. PICK n \in Nat : n = Len(body) /\ n <= MaxControlMsg /\ n \in Word(W32)
  BY <1>1, WireAssumption, LenProperties DEF Sendable
<1>3. PICK w \in Nat : w = W32
  BY WireAssumption
<1>4. PICK p \in Seq(Byte) : p = Put(n, w) /\ Len(p) = w
  BY PutType
<1>5. PICK wire_ \in Seq(Byte) : wire_ = p \o body /\ Len(wire_) = w + n
  <2>1. p \o body \in Seq(Byte) /\ Len(p \o body) = Len(p) + Len(body)
    BY ConcatProperties
  <2> QED
    BY <1>2, <1>4, <2>1
<1>6. Frame(m) = wire_
  BY <1>1, <1>2, <1>3, <1>4, <1>5 DEF Frame
<1>7. WordRead(n, w, wire_, <<>>, body)
  <2>1. Same(wire_, <<>>, Put(n, w), body) /\ <<>> \in Seq(Byte)
    BY <1>4, <1>5, EmptyType DEF Same
  <2>2. Len(wire_) >= w
    BY <1>5
  <2> QED
    BY <1>2, <1>3, <2>1, <2>2, IntegerCut
<1>8. Get(SubSeq(wire_, 1, w)) = n /\ From(wire_, w + 1) = body
  <2>1. From(wire_, w + 1) \in Seq(Byte) /\ From(wire_, w + 1) \o <<>> = body
    BY <1>7 DEF WordRead
  <2>2. From(wire_, w + 1) = body
    BY <2>1, EmptyType
  <2> QED
    BY <1>7, <2>2 DEF WordRead
<1>9. FrameLength(wire_) = n
  BY <1>3, <1>8 DEF FrameLength
<1>10. Arrived(wire_)
  BY <1>2, <1>3, <1>5, <1>9 DEF Arrived
<1>11. FirstMessage(wire_) = m
  <2>1. SubSeq(wire_, W32 + 1, W32 + FrameLength(wire_)) = body
    BY <1>3, <1>5, <1>8, <1>9 DEF From
  <2> QED
    BY <1>1, <2>1 DEF FirstMessage
<1>12. AfterFirst(wire_) = <<>>
  <2>1. PICK a \in Int, b \in Int : a = w + n + 1 /\ b = w + n /\ b < a
    OBVIOUS
  <2>2. SubSeq(wire_, a, b) = <<>>
    BY <2>1, SubSeqEmpty
  <2> QED
    BY <1>3, <1>5, <1>9, <2>1, <2>2 DEF AfterFirst, From
<1> QED
  BY <1>6, <1>10, <1>11, <1>12 DEF FrameRead

-----------------------------------------------------------------------------
(* The handshake.                                                          *)

\* What the server settles on is within its limits and fits the fields of the ack.
LEMMA ClampType ==
  ASSUME NEW fec \in Requests
  PROVE  /\ Clamp(fec) \in [size : Word(W16), k : Word(W16), ppm : Word(W16)]
         /\ Clamp(fec).size <= SafeMaxSize /\ Clamp(fec).k <= MaxBlockSize
         /\ Clamp(fec).ppm <= MaxPpm
<1>1. fec \in [size : Word(W16), k : Word(W16), ppm : Word(W16)]
  BY TransferAssumption
<1>2. {ServerSize, SafeMaxSize, MaxPpm, MaxBlockSize} \subseteq Word(W16)
  <2>1. MaxBlockSize \in 0 .. LargestK
    BY TransferAssumption DEF LargestK, AtLeast
  <2> QED
    BY <2>1, TransferAssumption
<1>3. \A n \in Word(W16) : n \in Nat
  BY WordType
<1>4. \A n, m \in Word(W16) : AtMost(n, m) \in Word(W16) /\ AtMost(n, m) <= m
  BY <1>3 DEF AtMost
<1> QED
  BY <1>1, <1>2, <1>4 DEF Clamp

\* The messages of the handshake are small enough to be sent.
LEMMA AckSendable ==
  ASSUME NEW fec \in Requests, Tokens # {}
  PROVE  Sendable(HelloAck(Clamp(fec)))
<1> DEFINE p == Clamp(fec)
           m == HelloAck(p)
<1>1. /\ p.size \in Word(W16) /\ p.k \in Word(W16) /\ p.ppm \in Word(W16) /\ Version \in Word(W16)
  BY ClampType, TransferAssumption
<1> HIDE DEF p
<1>2. /\ m.kind = "helloAck" /\ m.fields = <<Version, p.size, p.k, p.ppm>>
      /\ m = Signal(m.kind, m.fields)
  BY DEF HelloAck, Signal
<1>3. m.kind \in ControlKinds
  BY <1>2 DEF ControlKinds, ControlTag
<1>4. ControlLayout(m.kind) = <<"u16", "u16", "u16", "u16">>
  BY <1>2 DEF ControlLayout
<1>5. \A v \in Word(W16) : v \in FieldValues("u16", MaxField) /\ v \in Nat \cup Seq(Byte)
  BY WordType DEF FieldValues, Width
<1>6. Fits(ControlLayout(m.kind), m.fields, MaxField)
  <2>1. m.fields \in Seq(Nat \cup Seq(Byte)) /\ Len(m.fields) = 4
    BY <1>1, <1>2, <1>5
  <2>2. ControlLayout(m.kind) \in Seq(Types) /\ Len(ControlLayout(m.kind)) = 4
    BY <1>4 DEF Types
  <2>3. \A i \in 1 .. 4 : m.fields[i] \in Word(W16) /\ ControlLayout(m.kind)[i] = "u16"
    BY <1>1, <1>2, <1>4
  <2> QED
    BY <1>5, <2>1, <2>2, <2>3 DEF Fits
<1>7. Len(EncodeMessage(m)) <= MaxControlMsg
  BY TransferAssumption DEF p
<1> QED
  BY <1>2, <1>3, <1>6, <1>7 DEF Sendable, p

LEMMA HelloSendable ==
  ASSUME NEW t \in Tokens, NEW fec \in Requests
  PROVE  Sendable(Hello(t, fec))
<1> DEFINE m == Hello(t, fec)
<1>1. /\ fec.size \in Word(W16) /\ fec.k \in Word(W16) /\ fec.ppm \in Word(W16)
      /\ Version \in Word(W16) /\ t \in Seq(Byte) /\ Len(t) <= MaxField
  BY TransferAssumption
<1>2. /\ m.kind = "hello" /\ m.fields = <<Version, t, fec.size, fec.k, fec.ppm>>
      /\ m = Signal(m.kind, m.fields)
  BY DEF Hello, Signal
<1>3. m.kind \in ControlKinds
  BY <1>2 DEF ControlKinds, ControlTag
<1>4. ControlLayout(m.kind) = <<"u16", "bytes", "u16", "u16", "u16">>
  BY <1>2 DEF ControlLayout
<1>5. \A v \in Word(W16) : v \in FieldValues("u16", MaxField) /\ v \in Nat \cup Seq(Byte)
  BY WordType DEF FieldValues, Width
<1>6. t \in FieldValues("bytes", MaxField)
  <2>1. Len(t) \in 0 .. MaxField
    BY <1>1, WireAssumption, LenProperties
  <2> QED
    BY <1>1, <2>1, WireAssumption DEF FieldValues
<1>7. Fits(ControlLayout(m.kind), m.fields, MaxField)
  <2>1. m.fields \in Seq(Nat \cup Seq(Byte)) /\ Len(m.fields) = 5
    BY <1>1, <1>2, <1>5
  <2>2. ControlLayout(m.kind) \in Seq(Types) /\ Len(ControlLayout(m.kind)) = 5
    BY <1>4 DEF Types
  <2>3. \A i \in {1, 3, 4, 5} : m.fields[i] \in Word(W16) /\ ControlLayout(m.kind)[i] = "u16"
    BY <1>1, <1>2, <1>4
  <2>4. m.fields[2] = t /\ ControlLayout(m.kind)[2] = "bytes"
    BY <1>2, <1>4
  <2>5. \A i \in 1 .. 5 : i = 2 \/ i \in {1, 3, 4, 5}
    OBVIOUS
  <2>6. \A i \in 1 .. 5 : m.fields[i] \in FieldValues(ControlLayout(m.kind)[i], MaxField)
    BY <1>5, <1>6, <2>3, <2>4, <2>5
  <2> QED
    BY <2>1, <2>2, <2>6 DEF Fits
<1>8. Len(EncodeMessage(m)) <= MaxControlMsg
  BY TransferAssumption
<1> QED
  BY <1>2, <1>3, <1>7, <1>8 DEF Sendable

\* A number below Base has one byte and fits every field.
LEMMA SmallWord ==
  ASSUME NEW n \in 0 .. 10, NEW w \in Nat \ {0}
  PROVE  n \in Word(w)
<1>1. n \in Nat /\ n < Base /\ Base \in Nat
  BY WireAssumption
<1> DEFINE q == Shifts(n, w)
           T == {i \in Nat : i \in 1 .. w => q[i] = 0}
<1>2. q[0] = n /\ \A i \in 1 .. w : q[i] = q[i - 1] \div Base
  BY <1>1, ShiftSteps
<1> HIDE DEF q
<1>3. n \div Base = 0 /\ 0 \div Base = 0
  BY <1>1
<1>4. 0 \in T
  OBVIOUS
<1>5. ASSUME NEW i \in Nat, i \in T PROVE i + 1 \in T
  <2>1. PICK j \in Nat : j = i + 1
    OBVIOUS
  <2> SUFFICES ASSUME j \in 1 .. w PROVE q[j] = 0
    BY <2>1
  <2>2. q[j] = q[j - 1] \div Base /\ j - 1 = i
    BY <1>2, <2>1
  <2>3. CASE i = 0
    BY <1>2, <1>3, <2>2, <2>3
  <2>4. CASE i # 0
    <3>1. i \in 1 .. w
      BY <2>1, <2>4
    <3>2. q[i] = 0
      BY <1>5, <3>1
    <3> QED
      BY <1>3, <2>2, <3>2
  <2> QED
    BY <2>3, <2>4
<1> HIDE DEF T
<1>6. w \in T
  BY <1>4, <1>5, SetInduction
<1> QED
  BY <1>1, <1>6 DEF T, q, Word

LEMMA ErrorSendable ==
  ASSUME Tokens # {}, Requests # {}
  PROVE  Sendable(AuthError)
<1> DEFINE m == AuthError
<1>1. /\ m.kind = "openTargetErr" /\ m.fields = <<0, <<Version>> >>
      /\ m = Signal(m.kind, m.fields)
  BY DEF AuthError, Signal
<1>2. m.kind \in ControlKinds
  BY <1>1 DEF ControlKinds, ControlTag
<1>3. ControlLayout(m.kind) = <<"u64", "bytes">>
  BY <1>1 DEF ControlLayout
<1>4. 0 \in FieldValues("u64", MaxField)
  BY SmallWord, WireAssumption DEF FieldValues, Width
<1>5. <<Version>> \in FieldValues("bytes", MaxField) /\ <<Version>> \in Seq(Byte)
  <2>1. <<Version>> \in Seq(Byte) /\ Len(<<Version>>) = 1
    BY WireAssumption DEF Version, Byte
  <2>2. 1 \in Word(W32)
    BY SmallWord, WireAssumption
  <2>3. 1 <= MaxField
    BY WireAssumption
  <2> QED
    BY <2>1, <2>2, <2>3 DEF FieldValues
<1>6. Fits(ControlLayout(m.kind), m.fields, MaxField)
  <2>1. m.fields \in Seq(Nat \cup Seq(Byte)) /\ Len(m.fields) = 2
    BY <1>1, <1>5
  <2>2. ControlLayout(m.kind) \in Seq(Types) /\ Len(ControlLayout(m.kind)) = 2
    BY <1>3 DEF Types
  <2>3. \A i \in 1 .. 2 : m.fields[i] \in FieldValues(ControlLayout(m.kind)[i], MaxField)
    <3>1. \A i \in 1 .. 2 : i = 1 \/ i = 2
      OBVIOUS
    <3> QED
      BY <1>1, <1>3, <1>4, <1>5, <3>1
  <2> QED
    BY <2>1, <2>2, <2>3 DEF Fits
<1>7. Len(EncodeMessage(m)) <= MaxControlMsg
  BY TransferAssumption
<1> QED
  BY <1>1, <1>2, <1>6, <1>7 DEF Sendable

\* What each kind of message says to the peer that hears it.
LEMMA HelloHeard ==
  ASSUME NEW t \in Tokens, NEW fec \in Requests
  PROVE  LET m == Hello(t, fec) IN
         /\ FrameRead(m) /\ IsMessage(m, "hello")
         /\ m.fields[1] = Version /\ m.fields[2] = t /\ Fec(m.fields, 3) = fec
<1>1. fec \in [size : Word(W16), k : Word(W16), ppm : Word(W16)]
  BY TransferAssumption
<1>2. fec = [size |-> fec.size, k |-> fec.k, ppm |-> fec.ppm]
  BY <1>1
<1>3. FrameRead(Hello(t, fec))
  BY HelloSendable, FrameWhole
<1> QED
  BY <1>2, <1>3 DEF Hello, Signal, IsMessage, Fec

\* A HelloAck is read as such, with the parameters in it.
LEMMA AckHeard ==
  ASSUME Tokens # {}, NEW fec \in Requests
  PROVE  LET m == HelloAck(Clamp(fec)) IN
         /\ FrameRead(m) /\ IsMessage(m, "helloAck")
         /\ m.fields[1] = Version /\ Fec(m.fields, 2) = Clamp(fec)
<1>1. PICK p : p = Clamp(fec)
  OBVIOUS
<1>2. p = [size |-> p.size, k |-> p.k, ppm |-> p.ppm]
  BY <1>1 DEF Clamp
<1>3. FrameRead(HelloAck(p))
  BY <1>1, AckSendable, FrameWhole
<1> QED
  BY <1>1, <1>2, <1>3 DEF HelloAck, Signal, IsMessage, Fec

\* A refusal is read, and is no HelloAck.
LEMMA ErrorHeard ==
  ASSUME Tokens # {}, Requests # {}
  PROVE  FrameRead(AuthError) /\ ~IsMessage(AuthError, "helloAck")
<1>1. FrameRead(AuthError)
  BY ErrorSendable, FrameWhole
<1> QED
  BY <1>1 DEF AuthError, Signal, IsMessage

LEMMA NothingArrived == ~Arrived(<<>>)
BY WireAssumption, EmptyType DEF Arrived

\* The three stages of the handshake: the hello is on its way or unanswered, the
\* server has answered with the parameters it settled on, or has turned the client
\* away.
Asked ==
  /\ params["server"] = <<>> /\ params["client"] = <<>> /\ refused = {}
  /\ toClient = <<>>
  /\ \E fec \in Requests : toServer = Frame(Hello(token, fec))
Accepted ==
  /\ PskMatches(token) /\ refused = {} /\ toServer = <<>>
  /\ \E fec \in Requests :
       /\ params["server"] = <<Clamp(fec)>>
       /\ \/ params["client"] = <<>> /\ toClient = Frame(HelloAck(Clamp(fec)))
          \/ params["client"] = <<Clamp(fec)>> /\ toClient = <<>>
TurnedAway ==
  /\ ~PskMatches(token) /\ toServer = <<>>
  /\ params["server"] = <<>> /\ params["client"] = <<>>
  /\ \/ refused = {"server"} /\ toClient = Frame(AuthError)
     \/ refused = Peer /\ toClient = <<>>

Negotiation ==
  /\ token \in Tokens /\ Requests # {}
  /\ params = [p \in Peer |-> params[p]]
  /\ Asked \/ Accepted \/ TurnedAway

LEMMA NegotiationInit == Init => Negotiation
<1> SUFFICES ASSUME Init PROVE Negotiation
  OBVIOUS
<1>1. /\ token \in Tokens /\ Requests # {}
      /\ \E fec \in Requests : toServer = Frame(Hello(token, fec))
      /\ toClient = <<>> /\ params = [p \in Peer |-> <<>>] /\ refused = {}
  BY DEF Init
<1>2. params["server"] = <<>> /\ params["client"] = <<>>
  BY <1>1 DEF Peer
<1>3. Asked
  BY <1>1, <1>2 DEF Asked
<1> QED
  BY <1>1, <1>3 DEF Negotiation

\* handshake_server moves to the second or to the third stage.
LEMMA NegotiationAnswers ==
  ASSUME Negotiation, ServerAnswers
  PROVE  Negotiation'
<1>1. Asked
  BY DEF Negotiation, Accepted, TurnedAway, ServerAnswers, Peer
<1>2. PICK fec \in Requests : toServer = Frame(Hello(token, fec))
  BY <1>1 DEF Asked
<1>3. PICK m : m = Hello(token, fec)
  OBVIOUS
<1>4. /\ token \in Tokens /\ Requests # {}
      /\ params = [p \in Peer |-> params[p]]
      /\ params["server"] = <<>> /\ params["client"] = <<>> /\ refused = {}
  BY <1>1 DEF Asked, Negotiation
<1>5. /\ FirstMessage(toServer) = m /\ AfterFirst(toServer) = <<>>
      /\ m.fields[2] = token /\ Fec(m.fields, 3) = fec
  BY <1>2, <1>3, <1>4, HelloHeard DEF FrameRead
<1>6. token' = token /\ toServer' = <<>>
  BY <1>5 DEF ServerAnswers
<1>7. CASE /\ PskMatches(token)
           /\ params' = [params EXCEPT !["server"] = <<Clamp(fec)>>]
           /\ toClient' = Frame(HelloAck(Echo(fec)))
           /\ refused' = refused
  <2>1. params'["server"] = <<Clamp(fec)>> /\ params'["client"] = <<>>
        /\ params' = [p \in Peer |-> params'[p]]
    BY <1>4, <1>7 DEF Peer
  <2>2. toClient' = Frame(HelloAck(Clamp(fec))) /\ refused' = {}
    BY <1>4, <1>7 DEF Echo
  <2>3. Accepted'
    BY <1>6, <1>7, <2>1, <2>2 DEF Accepted, PskMatches
  <2> QED
    BY <1>4, <1>6, <2>1, <2>3 DEF Negotiation
<1>8. CASE /\ ~PskMatches(token)
           /\ toClient' = Frame(AuthError)
           /\ refused' = refused \cup {"server"}
           /\ params' = params
  <2>1. TurnedAway'
    BY <1>4, <1>6, <1>8 DEF TurnedAway, PskMatches
  <2> QED
    BY <1>4, <1>6, <1>8, <2>1 DEF Negotiation
<1> QED
  BY <1>5, <1>7, <1>8 DEF ServerAnswers

\* handshake_client ends the handshake.
LEMMA NegotiationHears ==
  ASSUME Negotiation, ClientHears
  PROVE  Negotiation'
<1>1. /\ token \in Tokens /\ Requests # {} /\ params = [p \in Peer |-> params[p]]
      /\ token' = token /\ toServer' = toServer
  BY DEF Negotiation, ClientHears
<1>2. params["client"] = <<>> /\ "client" \notin refused /\ toClient # <<>>
      /\ toClient' = AfterFirst(toClient)
  BY NothingArrived DEF ClientHears
<1>3. CASE Accepted
  <2>1. PICK fec \in Requests :
          /\ params["server"] = <<Clamp(fec)>>
          /\ \/ params["client"] = <<>> /\ toClient = Frame(HelloAck(Clamp(fec)))
             \/ params["client"] = <<Clamp(fec)>> /\ toClient = <<>>
    BY <1>3 DEF Accepted
  <2>2. toClient = Frame(HelloAck(Clamp(fec)))
    BY <1>2, <2>1
  <2>3. PICK m : m = HelloAck(Clamp(fec))
    OBVIOUS
  <2>4. /\ FirstMessage(toClient) = m /\ AfterFirst(toClient) = <<>>
        /\ IsMessage(m, "helloAck") /\ m.fields[1] = Version /\ Fec(m.fields, 2) = Clamp(fec)
    BY <1>1, <2>2, <2>3, AckHeard DEF FrameRead
  <2>5. params' = [params EXCEPT !["client"] = <<Clamp(fec)>>] /\ refused' = refused
    BY <2>4 DEF ClientHears
  <2>6. /\ params'["client"] = <<Clamp(fec)>> /\ params'["server"] = <<Clamp(fec)>>
        /\ params' = [p \in Peer |-> params'[p]]
    BY <1>1, <2>1, <2>5 DEF Peer
  <2>7. Accepted'
    BY <1>1, <1>2, <1>3, <2>4, <2>5, <2>6 DEF Accepted, PskMatches
  <2> QED
    BY <1>1, <2>6, <2>7 DEF Negotiation
<1>4. CASE TurnedAway
  <2>1. toClient = Frame(AuthError) /\ refused = {"server"}
    BY <1>2, <1>4 DEF TurnedAway
  <2>2. FirstMessage(toClient) = AuthError /\ AfterFirst(toClient) = <<>>
        /\ ~IsMessage(AuthError, "helloAck")
    BY <1>1, <2>1, ErrorHeard DEF FrameRead
  <2>3. params' = params /\ refused' = refused \cup {"client"}
    BY <2>2 DEF ClientHears
  <2>4. TurnedAway'
    BY <1>1, <1>2, <1>4, <2>1, <2>2, <2>3 DEF TurnedAway, PskMatches, Peer
  <2> QED
    BY <1>1, <2>3, <2>4 DEF Negotiation
<1> QED
  BY <1>2, <1>3, <1>4 DEF Negotiation, Asked

\* All other actions leave the control stream alone.
LEMMA ControlKept ==
  ASSUME [Next]_vars
  PROVE  ServerAnswers \/ ClientHears \/ UNCHANGED controlVars
<1>1. ASSUME Next PROVE ServerAnswers \/ ClientHears \/ UNCHANGED controlVars
  <2>1. ASSUME Handshake PROVE ServerAnswers \/ ClientHears \/ UNCHANGED controlVars
    BY <2>1 DEF Handshake, Announce, Register
  <2>2. ASSUME Upstream PROVE UNCHANGED controlVars
    BY <2>2 DEF Upstream, EmitBlock, ReadEof, AdditionalRepair, SendCopy, SendOther
  <2>3. ASSUME Reader PROVE UNCHANGED controlVars
    BY <2>3 DEF Reader, ReadWire
  <2>4. ASSUME Downstream PROVE UNCHANGED controlVars
    BY <2>4 DEF Downstream, SymbolArrives, CopyArrives, Degrade
  <2> QED
    BY <1>1, <2>1, <2>2, <2>3, <2>4 DEF Next
<1> QED
  BY <1>1 DEF vars

LEMMA NegotiationStep ==
  Negotiation /\ [Next]_vars => Negotiation'
<1> SUFFICES ASSUME Negotiation, [Next]_vars PROVE Negotiation'
  OBVIOUS
<1>1. ASSUME UNCHANGED controlVars PROVE Negotiation'
  BY <1>1 DEF controlVars, Negotiation, Asked, Accepted, TurnedAway, PskMatches
<1> QED
  BY <1>1, NegotiationAnswers, NegotiationHears, ControlKept

\* The handshake is always in one of its three stages (handshake_client and
\* handshake_server over ControlChannel).
THEOREM SpecNegotiation == Spec => []Negotiation
BY NegotiationInit, NegotiationStep, PTL DEF Spec

LEMMA NegotiationAgrees == Negotiation => HandshakeAgrees
<1> SUFFICES ASSUME Negotiation PROVE HandshakeAgrees
  OBVIOUS
<1>1. CASE Asked
  BY <1>1 DEF Asked, HandshakeAgrees
<1>2. CASE Accepted
  BY <1>2 DEF Accepted, HandshakeAgrees
<1>3. CASE TurnedAway
  BY <1>3 DEF TurnedAway, HandshakeAgrees
<1> QED
  BY <1>1, <1>2, <1>3 DEF Negotiation

\* Both ends work with the same parameters, those that the server settled on, and
\* only with the right token; a client with another is never let in (handshake_server,
\* handshake_client, psk_matches).
THEOREM HandshakeSafe == Spec => []HandshakeAgrees
BY SpecNegotiation, NegotiationAgrees, PTL

-----------------------------------------------------------------------------
(* Signals one after the other.                                            *)

\* All signals there are.
Signals ==
  {s \in [kind : SignalKinds, fields : Seq(Nat \cup Seq(Byte))] :
     Fits(SignalLayout(s.kind), s.fields, MaxReliableData)}

\* Every signal that is sent can be written in the layout of its kind.
LEMMA SignalsWellFormed ==
  ASSUME NEW s \in Signals
  PROVE  WellFormed(s)
<1>1. s = [kind |-> s.kind, fields |-> s.fields] /\ s.kind \in SignalKinds
  BY DEF Signals
<1> QED
  BY <1>1 DEF Signals, WellFormed, Signal

\* No signal is written as nothing.
LEMMA SignalBytes ==
  ASSUME NEW s, WellFormed(s)
  PROVE  EncodeSignal(s) \in Seq(Byte) /\ Len(EncodeSignal(s)) \in Nat \ {0}
<1>1. PICK f \in Seq(Byte) : f = PutFields(SignalLayout(s.kind), s.fields)
  BY PutFieldsType, WireAssumption DEF WellFormed
<1>2. PICK t \in Seq(Byte) : t = <<SignalTag[s.kind]>>
  <2>1. <<SignalTag[s.kind]>> \in Seq(Byte)
    <3>1. SignalTag[s.kind] \in Byte
      BY SignalTags DEF WellFormed
    <3> QED
      BY <3>1
  <2> QED
    BY <2>1, Zenon
<1>3. Len(t) = 1
  BY <1>2
<1>4. t \o f \in Seq(Byte) /\ Len(t \o f) = Len(t) + Len(f) /\ Len(f) \in Nat
  BY ConcatProperties, LenProperties
<1> QED
  BY <1>1, <1>2, <1>3, <1>4 DEF EncodeSignal

EncodedIn(ss) == Encoded(ss) \in Seq(Byte)

\* The encodings of some signals.
LEMMA EncodedPieces ==
  ASSUME NEW U, U = Seq(Byte), NEW ss \in Seq(Signals)
  PROVE  [i \in DOMAIN ss |-> EncodeSignal(ss[i])] \in Seq(U)
<1>1. DOMAIN ss = 1 .. Len(ss) /\ Len(ss) \in Nat /\ \A i \in 1 .. Len(ss) : ss[i] \in Signals
  BY LenProperties
<1>2. \A i \in 1 .. Len(ss) : EncodeSignal(ss[i]) \in U
  BY <1>1, SignalsWellFormed, SignalBytes
<1>3. PICK n \in Nat : n = Len(ss)
  BY <1>1, Zenon
<1> QED
  BY <1>1, <1>2, <1>3

EncodedCat(ss, tt) == Encoded(ss \o tt) = Encoded(ss) \o Encoded(tt)

\* The encoding of some signals and some more is that of the former and that of the
\* latter.
LEMMA EncodedConcat ==
  ASSUME NEW ss, NEW tt, ss \in Seq(Signals), tt \in Seq(Signals)
  PROVE  EncodedCat(ss, tt) /\ EncodedIn(ss)
<1> DEFINE U == Seq(Byte)
           pieces(x) == [i \in DOMAIN x |-> EncodeSignal(x[i])]
<1>1. PICK u \in Seq(Signals) : u = ss \o tt /\ Len(u) = Len(ss) + Len(tt)
  BY ConcatProperties
<1>2. PICK p, q, r : p = pieces(ss) /\ q = pieces(tt) /\ r = pieces(u)
  OBVIOUS
<1>3. /\ Len(ss) \in Nat /\ Len(tt) \in Nat /\ DOMAIN ss = 1 .. Len(ss) /\ DOMAIN tt = 1 .. Len(tt)
      /\ DOMAIN u = 1 .. Len(u) /\ Len(u) \in Nat
  BY LenProperties
<1>4. /\ p \in Seq(U) /\ q \in Seq(U) /\ r \in Seq(U)
  BY <1>2, EncodedPieces
<1>5. Len(p) = Len(ss) /\ Len(q) = Len(tt) /\ Len(r) = Len(u)
  BY <1>2, <1>3
<1>6. \A i \in 1 .. Len(ss) : u[i] = ss[i]
  BY <1>1, <1>3, ConcatProperties
<1>7. \A i \in 1 .. Len(tt) : u[Len(ss) + i] = tt[i]
  <2> SUFFICES ASSUME NEW i \in 1 .. Len(tt) PROVE u[Len(ss) + i] = tt[i]
    OBVIOUS
  <2>1. PICK j \in 1 .. Len(ss) + Len(tt) : j = Len(ss) + i /\ ~ (j <= Len(ss)) /\ j - Len(ss) = i
    BY <1>3
  <2> QED
    BY <1>1, <2>1, ConcatProperties
<1>8. r = p \o q
  <2>1. PICK w : w = p \o q
    OBVIOUS
  <2>2. w \in Seq(U) /\ Len(w) = Len(p) + Len(q)
    BY <1>4, <2>1, ConcatProperties
  <2>3. ASSUME NEW i \in 1 .. Len(r) PROVE r[i] = w[i]
    <3>1. CASE i <= Len(ss)
      <4>1. i \in 1 .. Len(ss) /\ i \in 1 .. Len(p) + Len(q) /\ i <= Len(p)
        BY <1>1, <1>3, <1>5, <3>1
      <4>2. w[i] = p[i]
        BY <1>4, <2>1, <4>1, ConcatProperties
      <4>3. r[i] = EncodeSignal(u[i]) /\ p[i] = EncodeSignal(ss[i])
        BY <1>2, <1>3, <1>5, <4>1
      <4> QED
        BY <1>6, <4>1, <4>2, <4>3
    <3>2. CASE ~ (i <= Len(ss))
      <4>1. PICK j \in 1 .. Len(tt) : i = Len(ss) + j /\ j = i - Len(ss)
        BY <1>1, <1>3, <1>5, <3>2
      <4>2. i \in 1 .. Len(p) + Len(q) /\ ~ (i <= Len(p)) /\ i - Len(p) = j
        BY <1>1, <1>3, <1>5, <3>2, <4>1
      <4>3. w[i] = q[j]
        BY <1>4, <2>1, <4>2, ConcatProperties
      <4>4. r[i] = EncodeSignal(u[i]) /\ q[j] = EncodeSignal(tt[j])
        BY <1>2, <1>3, <1>5, <4>1
      <4> QED
        BY <1>7, <4>1, <4>3, <4>4
    <3> QED
      BY <3>1, <3>2
  <2>4. Len(r) = Len(w)
    BY <1>1, <1>5, <2>2
  <2> QED
    BY <1>4, <2>1, <2>2, <2>3, <2>4, SeqEqual
<1>9. FlattenSeq(r) = FlattenSeq(p) \o FlattenSeq(q)
  <2>1. PICK V : V = U
    OBVIOUS
  <2> QED
    BY <1>4, <1>8, <2>1, FlattenCat
<1>10. FlattenSeq(p) \in U
  <2>1. PICK V : V = U
    OBVIOUS
  <2>2. SubSeq(p, 1, Len(p)) = p /\ Len(p) \in 0 .. Len(p)
    BY <1>3, <1>4, <1>5, SubSeqFull
  <2>3. p \in Seq(V)
    BY <1>4, <2>1
  <2> HIDE DEF U
  <2>4. FlattenSeq(SubSeq(p, 1, Len(p))) \in V
    BY <2>1, <2>2, <2>3, FlattenCuts DEF U
  <2> QED
    BY <2>1, <2>2, <2>4
<1> QED
  BY <1>1, <1>2, <1>9, <1>10 DEF EncodedCat, EncodedIn, Encoded

\* One signal, and none.
LEMMA EncodedOne ==
  ASSUME NEW s \in Signals
  PROVE  Encoded(<<s>>) = EncodeSignal(s) /\ <<s>> \in Seq(Signals)
<1>1. PICK e \in Seq(Byte) : e = EncodeSignal(s)
  BY SignalsWellFormed, SignalBytes
<1>2. [i \in DOMAIN <<s>> |-> EncodeSignal(<<s>>[i])] = <<e>>
  BY <1>1
<1>3. PICK V : V = Seq(Byte)
  OBVIOUS
<1>4. FlattenSeq(<<e>>) = e
  BY <1>3, FlattenOne
<1> QED
  BY <1>1, <1>2, <1>4 DEF Encoded

LEMMA EncodedNone == Encoded(<<>>) = <<>>
<1>1. [i \in DOMAIN <<>> |-> EncodeSignal(<<>>[i])] = <<>>
  OBVIOUS
<1> QED
  BY <1>1, FlattenEmpty DEF Encoded

-----------------------------------------------------------------------------
(* The reader's loop.                                                      *)

DataOf(ss) == {ss[i] : i \in {n \in 1 .. Len(ss) : ss[n].kind = "data"}}

\* What the loop may have made of a buffer that, with what is still under way,
\* holds the signals ss.
Taken(s, j, ss, tail) ==
  s.got = SubSeq(ss, 1, j) /\ s.rest \o tail = Encoded(From(ss, j + 1))
Loop(ss, tail) ==
  {s \in [rest : Seq(Byte), got : Seq(Signals), copies : Seq(DataOf(ss)), skipped : {FALSE}] :
     \E j \in 0 .. Len(ss) : Taken(s, j, ss, tail)}

\* Bytes taken off leave less.
LEMMA ShorterRest ==
  \A a \in Nat, b \in Nat \ {0} : a >= b => b + 1 \in 1 .. a + 1 /\ a - (b + 1) + 1 < a
OBVIOUS

\* One pass of the loop takes a whole signal off the buffer, the next of those that
\* were sent, or finds that its bytes are not all there.
LEMMA PassStep ==
  ASSUME NEW ss, NEW tail, NEW s, ss \in Seq(Signals), tail \in Seq(Byte), s \in Loop(ss, tail)
  PROVE  /\ Pass(s) \in Loop(ss, tail)
         /\ \/ DecodeSignal(s.rest) = More /\ Pass(s) = s
            \/ Len(Pass(s).rest) < Len(s.rest)
<1>1. PICK r \in Seq(Byte), j \in 0 .. Len(ss) : r = s.rest /\ Taken(s, j, ss, tail)
  BY DEF Loop
<1>2. /\ s.got = SubSeq(ss, 1, j) /\ r \o tail = Encoded(From(ss, j + 1))
      /\ s = [rest |-> r, got |-> s.got, copies |-> s.copies, skipped |-> FALSE]
      /\ s.copies \in Seq(DataOf(ss)) /\ s.got \in Seq(Signals)
  BY <1>1 DEF Taken, Loop
<1>3. Len(ss) \in Nat /\ Len(r) \in Nat /\ j \in Nat
  BY LenProperties
<1>4. ASSUME DecodeSignal(r) = More PROVE Pass(s) = s
  BY <1>1, <1>4 DEF Pass, More
<1>5. CASE DecodeSignal(r) = More
  BY <1>1, <1>4, <1>5
<1>6. CASE DecodeSignal(r) # More
  <2>1. r # <<>>
    BY <1>6 DEF DecodeSignal
  <2>2. j < Len(ss)
    <3> SUFFICES ASSUME j = Len(ss) PROVE FALSE
      BY <1>3
    <3>1. From(ss, j + 1) = <<>>
      BY <1>3, SubSeqEmpty DEF From
    <3>2. r \o tail = <<>>
      BY <1>2, <3>1, EncodedNone
    <3>3. Len(r \o tail) = Len(r) + Len(tail) /\ Len(tail) \in Nat
      BY ConcatProperties, LenProperties
    <3>4. Len(r) = 0
      BY <1>3, <3>2, <3>3, EmptyType
    <3> QED
      BY <2>1, <3>4, EmptySeq
  <2>3. PICK k \in 1 .. Len(ss) : k = j + 1
    BY <1>3, <2>2
  <2>4. PICK x \in Signals : x = ss[k]
    BY LenProperties
  <2>5. PICK e \in Seq(Byte) : e = EncodeSignal(x) /\ Len(e) \in Nat \ {0} /\ WellFormed(x)
    BY SignalsWellFormed, SignalBytes
  <2>6. PICK after \in Seq(Signals) : after = From(ss, k + 1)
    <3>1. k + 1 \in 1 .. Len(ss) + 1
      BY <1>3
    <3> QED
      BY <3>1, FromType
  <2>7. From(ss, k) = <<x>> \o after
    <3>1. Len(ss) \in k .. Len(ss)
      BY <1>3
    <3> QED
      BY <2>4, <2>6, <3>1, SubSeqRecursiveFirst DEF From
  <2>8. PICK m \in Seq(Byte) : m = Encoded(after)
    BY <2>6, EncodedConcat DEF EncodedIn
  <2>9. r \o tail = e \o m
    <3>1. PICK one \in Seq(Signals) : one = <<x>> /\ Encoded(one) = e
      BY <2>5, EncodedOne
    <3>2. EncodedCat(one, after)
      BY EncodedConcat
    <3> QED
      BY <1>2, <2>3, <2>7, <2>8, <3>1, <3>2 DEF EncodedCat
  <2>10. Same(r, tail, e, m)
    BY <2>9 DEF Same
  <2>11. SignalRead(x, r)
    BY <2>5, <2>10, SignalCut
  <2>12. PICK r2 : r2 = From(r, Len(e) + 1)
    OBVIOUS
  <2>13. DecodeSignal(r) = Decoded(x, r2) /\ Len(r) >= Len(e)
    BY <1>3, <1>6, <2>5, <2>11, <2>12 DEF SignalRead
  <2>14. Rest(r, tail, e, m)
    BY <2>10, <2>13, Overlap
  <2>15. r2 \o tail = m
    BY <2>12, <2>14 DEF Rest
  <2>16. r2 \in Seq(Byte) /\ Len(r2) < Len(r)
    <3>1. PICK i \in 1 .. Len(r) + 1 : i = Len(e) + 1 /\ Len(r) - i + 1 < Len(r)
      <4>1. PICK a \in Nat, b \in Nat \ {0} : a = Len(r) /\ b = Len(e) /\ a >= b
        BY <1>3, <2>5, <2>13
      <4>2. b + 1 \in 1 .. a + 1 /\ a - (b + 1) + 1 < a
        BY <4>1, ShorterRest
      <4> QED
        BY <4>1, <4>2
    <3>2. From(r, i) \in Seq(Byte) /\ Len(From(r, i)) = Len(r) - i + 1
      BY FromType
    <3> QED
      BY <2>12, <3>1, <3>2
  <2>17. PICK g \in Seq(Signals) : g = Append(s.got, x) /\ g = SubSeq(ss, 1, k)
    <3>1. SubSeq(ss, 1, k) = SubSeq(ss, 1, j) \o <<x>>
      <4>1. 1 \in 1 .. Len(ss) /\ k \in 1 .. Len(ss) /\ k - 1 = j
        BY <1>3, <2>3
      <4> QED
        BY <2>4, <4>1, SubSeqRecursiveSecond
    <3>2. Append(s.got, x) = s.got \o <<x>> /\ Append(s.got, x) \in Seq(Signals)
      BY <1>2, AppendIsConcat, AppendProperties
    <3> QED
      BY <1>2, <3>1, <3>2
  <2>18. PICK c \in Seq(DataOf(ss)) : c = IF x.kind = "data" THEN Append(s.copies, x) ELSE s.copies
    <3>1. CASE x.kind = "data"
      <4>1. x \in DataOf(ss)
        BY <2>4, <3>1 DEF DataOf
      <4>2. Append(s.copies, x) \in Seq(DataOf(ss))
        BY <1>2, <4>1, AppendProperties
      <4> QED
        BY <3>1, <4>2
    <3>2. CASE x.kind # "data"
      BY <1>2, <3>2
    <3> QED
      BY <3>1, <3>2
  <2>19. Pass(s) = [rest |-> r2, got |-> g, copies |-> c, skipped |-> FALSE]
    <3>1. PICK d : d = DecodeSignal(s.rest)
      OBVIOUS
    <3>2. d.what = "signal" /\ d.signal = x /\ d.rest = r2
      BY <1>1, <2>13, <3>1 DEF Decoded
    <3>3. Pass(s) = [s EXCEPT !.rest = r2, !.got = Append(@, x),
                              !.copies = IF x.kind = "data" THEN Append(@, x) ELSE @]
      BY <3>1, <3>2 DEF Pass
    <3>4. PICK g0, c0 : g0 = s.got /\ c0 = s.copies
      OBVIOUS
    <3>5. s = [rest |-> r, got |-> g0, copies |-> c0, skipped |-> FALSE]
      BY <1>2, <3>4
    <3>6. Pass(s) = [rest |-> r2, got |-> Append(g0, x),
                     copies |-> IF x.kind = "data" THEN Append(c0, x) ELSE c0, skipped |-> FALSE]
      BY <3>3, <3>5
    <3> QED
      BY <2>17, <2>18, <3>4, <3>6
  <2>20. k \in 0 .. Len(ss) /\ Taken(Pass(s), k, ss, tail)
    BY <1>3, <2>6, <2>8, <2>15, <2>17, <2>19 DEF Taken
  <2> QED
    BY <1>1, <2>16, <2>19, <2>20 DEF Loop
<1> QED
  BY <1>5, <1>6

Start(bytes) == [rest |-> bytes, got |-> <<>>, copies |-> <<>>, skipped |-> FALSE]

\* The recursion of Drained.
Passes(bytes) ==
  CHOOSE drain : drain = [i \in 0 .. Len(bytes) |->
    IF i = 0 THEN [rest |-> bytes, got |-> <<>>, copies |-> <<>>, skipped |-> FALSE]
    ELSE Pass(drain[i - 1])]

Passed(bytes, n) ==
  /\ Passes(bytes)[0] = Start(bytes)
  /\ \A i \in 1 .. n : Passes(bytes)[i] = Pass(Passes(bytes)[i - 1])
  /\ Drained(bytes) = Passes(bytes)[n]

\* The passes, one by one.
LEMMA PassesSteps ==
  ASSUME NEW S, NEW bytes, NEW n, n \in Nat, n = Len(bytes), Start(bytes) \in S,
         \A s \in S : Pass(s) \in S
  PROVE  Passed(bytes, n)
<1> DEFINE base == Start(bytes)
           step == [i \in 1 .. n |-> [s \in S |-> Pass(s)]]
           h == Iteration(base, n, step)
           Eq(f) == f = [i \in 0 .. Len(bytes) |->
             IF i = 0 THEN [rest |-> bytes, got |-> <<>>, copies |-> <<>>, skipped |-> FALSE]
             ELSE Pass(f[i - 1])]
           q == Passes(bytes)
<1>1. step \in [1 .. n -> [S -> S]]
  OBVIOUS
<1>2. h \in [0 .. n -> S] /\ Iterated(h, base, n, step)
  <2> HIDE DEF step, base
  <2> QED
    BY <1>1, IterationSteps DEF base
<1> HIDE DEF h
<1>3. h[0] = base /\ \A i \in 1 .. n : h[i] = Pass(h[i - 1])
  <2>1. h[0] = base /\ \A i \in 1 .. n : h[i] = step[i][h[i - 1]]
    BY <1>2 DEF Iterated
  <2>2. ASSUME NEW i \in 1 .. n PROVE h[i] = Pass(h[i - 1])
    <3>1. i - 1 \in 0 .. n
      OBVIOUS
    <3>2. h[i - 1] \in S
      BY <1>2, <3>1
    <3> QED
      BY <2>1, <3>2
  <2> QED
    BY <2>1, <2>2
<1>4. Eq(h)
  <2>1. ASSUME NEW i \in 0 .. n PROVE h[i] = IF i = 0 THEN base ELSE Pass(h[i - 1])
    <3>1. CASE i = 0
      BY <1>3, <3>1
    <3>2. CASE i # 0
      <4>1. i \in 1 .. n
        BY <3>2
      <4> QED
        BY <1>3, <3>2, <4>1
    <3> QED
      BY <3>1, <3>2
  <2> QED
    BY <1>2, <2>1 DEF Start
<1>5. Eq(q)
  <2>1. Eq(CHOOSE f : Eq(f))
    <3> HIDE DEF Eq
    <3> QED
      BY <1>4
  <2> QED
    BY <2>1, Zenon DEF Passes
<1>6. Drained(bytes) = q[n]
  BY Zenon DEF Drained, Passes
<1> HIDE DEF q
<1>7. q[0] = base /\ \A i \in 1 .. n : q[i] = Pass(q[i - 1])
  <2>1. q = [i \in 0 .. n |-> IF i = 0 THEN base ELSE Pass(q[i - 1])]
    BY <1>5 DEF Start
  <2> HIDE DEF base
  <2>2. 0 \in 0 .. n /\ \A i \in 1 .. n : i \in 0 .. n /\ i # 0
    OBVIOUS
  <2> QED
    BY <2>1, <2>2
<1> QED
  BY <1>6, <1>7 DEF q, Passed

\* All whole signals are taken off the buffer, in order and nothing else.
LEMMA DrainedAll ==
  ASSUME NEW ss, NEW tail, NEW bytes,
         ss \in Seq(Signals), tail \in Seq(Byte), bytes \in Seq(Byte),
         bytes \o tail = Encoded(ss)
  PROVE  /\ Drained(bytes) \in Loop(ss, tail)
         /\ DecodeSignal(Drained(bytes).rest) = More
<1>1. PICK n \in Nat : n = Len(bytes)
  BY LenProperties
<1>2. PICK S : S = Loop(ss, tail)
  OBVIOUS
<1>3. Start(bytes) \in S
  <2>1. SubSeq(ss, 1, 0) = <<>>
    BY SubSeqEmpty
  <2>2. From(ss, 1) = ss
    BY SubSeqFull DEF From
  <2>3. /\ Start(bytes).got = <<>> /\ Start(bytes).rest = bytes
        /\ Start(bytes) \in [rest : Seq(Byte), got : Seq(Signals), copies : Seq(DataOf(ss)),
                             skipped : {FALSE}]
    BY EmptyType DEF Start
  <2>4. 0 \in 0 .. Len(ss)
    BY LenProperties
  <2>5. Taken(Start(bytes), 0, ss, tail)
    BY <2>1, <2>2, <2>3 DEF Taken
  <2> QED
    BY <1>2, <2>3, <2>4, <2>5 DEF Loop
<1>4. \A s \in S : Pass(s) \in S
  BY <1>2, PassStep
<1> DEFINE q == Passes(bytes)
           Left(s, m) == DecodeSignal(s.rest) = More \/ Len(s.rest) <= m
           T == {i \in Nat : i <= n => q[i] \in S /\ Left(q[i], n - i)}
<1>5. /\ q[0] = Start(bytes) /\ \A i \in 1 .. n : q[i] = Pass(q[i - 1])
      /\ Drained(bytes) = q[n]
  <2>1. Passed(bytes, n)
    BY <1>1, <1>3, <1>4, PassesSteps
  <2> QED
    BY <2>1 DEF Passed
<1> HIDE DEF q
<1>6. 0 \in T
  BY <1>1, <1>3, <1>5 DEF Start
<1>7. ASSUME NEW i \in Nat, i \in T PROVE i + 1 \in T
  <2>1. PICK j \in Nat : j = i + 1
    OBVIOUS
  <2> SUFFICES ASSUME j <= n PROVE q[j] \in S /\ Left(q[j], n - j)
    BY <2>1
  <2>2. PICK s \in S : s = q[i] /\ Left(s, n - i)
    BY <1>7, <2>1
  <2>3. q[j] = Pass(s)
    BY <1>5, <2>1, <2>2
  <2>4. /\ Pass(s) \in S
        /\ \/ DecodeSignal(s.rest) = More /\ Pass(s) = s
           \/ Len(Pass(s).rest) < Len(s.rest)
    BY <1>2, PassStep
  <2>5. s.rest \in Seq(Byte) /\ Pass(s).rest \in Seq(Byte)
    BY <1>2, <2>4 DEF Loop
  <2>6. Len(s.rest) \in Nat /\ Len(Pass(s).rest) \in Nat
    BY <2>5, LenProperties
  <2>7. Left(Pass(s), n - j)
    <3>2. CASE DecodeSignal(s.rest) # More
      <4>1. Len(Pass(s).rest) < Len(s.rest) /\ Len(s.rest) <= n - i
        BY <2>2, <2>4, <3>2
      <4>2. Len(Pass(s).rest) <= n - j
        <5>1. PICK a \in Nat, b \in Nat : a = Len(Pass(s).rest) /\ b = Len(s.rest)
          BY <2>6
        <5>2. a < b /\ b <= n - i
          BY <4>1, <5>1
        <5>3. a <= n - j
          BY <2>1, <5>2
        <5> QED
          BY <5>1, <5>3
      <4> QED
        BY <4>2
    <3>3. CASE DecodeSignal(s.rest) = More
      <4>1. Pass(s) = s
        BY <3>3 DEF Pass, More
      <4> QED
        BY <3>3, <4>1
    <3> QED
      BY <3>2, <3>3
  <2> QED
    BY <2>3, <2>4, <2>7
<1> HIDE DEF T
<1>8. n \in T
  BY <1>6, <1>7, SetInduction
<1>9. q[n] \in S /\ Left(q[n], 0)
  BY <1>8 DEF T
<1>10. DecodeSignal(q[n].rest) = More
  <2>1. q[n].rest \in Seq(Byte)
    BY <1>2, <1>9 DEF Loop
  <2>2. Len(q[n].rest) <= 0 => q[n].rest = <<>>
    BY <2>1, LenProperties, EmptySeq
  <2>3. DecodeSignal(<<>>) = More
    BY DEF DecodeSignal
  <2> HIDE DEF q
  <2> QED
    BY <1>9, <2>1, <2>2, <2>3, LenProperties
<1> QED
  BY <1>2, <1>5, <1>9, <1>10

-----------------------------------------------------------------------------
(* Blocks.                                                                 *)

\* Larger factors, larger product.
LEMMA TimesMonotone ==
  ASSUME NEW a \in Nat, NEW b \in Nat, NEW c \in Nat, NEW d \in Nat, a <= b, c <= d
  PROVE  a * c <= b * d
<1>1. a * c <= a * d
  OBVIOUS
<1>2. a * d <= b * d
  OBVIOUS
<1>3. a * c \in Nat /\ a * d \in Nat /\ b * d \in Nat
  OBVIOUS
<1> QED
  BY <1>1, <1>2, <1>3

\* Both ends have the same geometry once the client knows the parameters, and a
\* block of it fits a reliable copy.
Geometry ==
  /\ SymbolSize("client") \in Nat \ {0} /\ K("client") \in 1 .. LargestK
  /\ SymbolSize("server") = SymbolSize("client") /\ K("server") = K("client")
  /\ MaxPayload(SymbolSize("client"), K("client")) \in Int
  /\ MaxPayload(SymbolSize("client"), K("client")) <= MaxReliableData

\* Both ends cut and pad with the same geometry, whose blocks are no larger than a
\* reliable copy may be.
LEMMA NegotiatedGeometry ==
  ASSUME Negotiation, params["client"] # <<>>
  PROVE  Geometry
<1>1. PICK fec \in Requests : params["server"] = <<Clamp(fec)>> /\ params["client"] = <<Clamp(fec)>>
  BY DEF Negotiation, Asked, Accepted, TurnedAway
<1>2. PICK p : p = Clamp(fec) /\ p.size \in Nat /\ p.k \in Nat
               /\ p.size <= SafeMaxSize /\ p.k <= MaxBlockSize
  BY ClampType, WordType
<1>3. params["server"][1] = p /\ params["client"][1] = p
  BY <1>1, <1>2
<1>4. SafeMaxSize \in Nat /\ MaxBlockSize \in Nat /\ DefaultK \in Nat \ {0} /\ W32 \in Nat
      /\ MaxReliableData \in Nat
  BY TransferAssumption, WireAssumption, WordType
<1> DEFINE s == AtLeast(p.size, 1)
           k == IF p.k = 0 THEN DefaultK ELSE p.k
           S == AtLeast(SafeMaxSize, 1)
<1>5. s \in Nat \ {0} /\ S \in Nat /\ s <= S
  BY <1>2, <1>4 DEF AtLeast
<1>6. k \in 1 .. LargestK /\ LargestK \in Nat
  BY <1>2, <1>4 DEF LargestK, AtLeast
<1>7. MaxPayload(S, LargestK) <= MaxReliableData
  BY TransferAssumption
<1> HIDE DEF s, k, S
<1>8. k \in Nat /\ k <= LargestK
  BY <1>6
<1>9. s * k <= S * LargestK
  BY <1>5, <1>6, <1>8, TimesMonotone
<1>10. s * k \in Nat /\ S * LargestK \in Nat
  BY <1>5, <1>6, <1>8
<1>11. s * k - W32 \in Int /\ s * k - W32 <= MaxReliableData
  BY <1>4, <1>7, <1>9, <1>10 DEF MaxPayload, LEN_PREFIX
<1>12. /\ SymbolSize("client") = s /\ SymbolSize("server") = s
       /\ K("client") = k /\ K("server") = k
  BY <1>3 DEF SymbolSize, K, ResolveK, s, k
<1> QED
  BY <1>5, <1>6, <1>11, <1>12 DEF Geometry, MaxPayload, LEN_PREFIX

\* The parameters stay as they are once the client knows them.
LEMMA ParamsKept ==
  ASSUME Negotiation, [Next]_vars, params["client"] # <<>>
  PROVE  params' = params
<1>1. params["server"] # <<>>
  BY DEF Negotiation, Asked, Accepted, TurnedAway
<1> QED
  BY <1>1, ControlKept DEF ServerAnswers, ClientHears, controlVars

Block == [payload : Seq(Byte), k : Nat, repair : 0 .. MaxRepair]
Contents(bs) == [i \in 1 .. Len(bs) |-> bs[i].payload]

\* A block holds something, at most what fits, and has as many symbols as it needs.
Filled(block) ==
  /\ Len(block.payload) \in 1 .. MaxPayload(SymbolSize("client"), K("client"))
  /\ block.k = ActualK(Len(block.payload), SymbolSize("client"), K("client"))

Sending ==
  /\ tunnel \in {"none", "announced", "open"}
  /\ tunnel # "none" => params["client"] # <<>>
  /\ tunnel = "none" => blocks = <<>>
  /\ read \in 0 .. Len(App) /\ eof \in BOOLEAN
  /\ blocks \in Seq(Block) /\ Len(blocks) <= MaxBlocks
  /\ \A i \in 1 .. Len(blocks) : Filled(blocks[i])
  /\ FlattenSeq(Contents(blocks)) = SubSeq(App, 1, read)

LEMMA SendingInit == Init => Sending
<1> SUFFICES ASSUME Init PROVE Sending
  OBVIOUS
<1>1. tunnel = "none" /\ blocks = <<>> /\ read = 0 /\ eof = FALSE
  BY DEF Init
<1>2. Contents(<<>>) = <<>>
  BY EmptyType DEF Contents
<1>3. SubSeq(App, 1, 0) = <<>>
  BY SubSeqEmpty
<1>4. App \in Seq(Byte) /\ Len(App) \in Nat /\ MaxBlocks \in Nat
  BY TransferAssumption, LenProperties
<1>5. <<>> \in Seq(Block) /\ Len(<<>>) = 0
  BY EmptyType
<1>6. FlattenSeq(Contents(blocks)) = SubSeq(App, 1, read)
  BY <1>1, <1>2, <1>3, FlattenEmpty
<1>7. blocks \in Seq(Block) /\ Len(blocks) = 0 /\ read \in 0 .. Len(App)
  BY <1>1, <1>4, <1>5
<1>8. Len(blocks) <= MaxBlocks /\ \A i \in 1 .. Len(blocks) : Filled(blocks[i])
  BY <1>4, <1>7
<1> QED
  BY <1>1, <1>6, <1>7, <1>8 DEF Sending

\* A block has a symbol at least, and not more than the configured ones.
LEMMA ActualKType ==
  ASSUME NEW n \in Nat, NEW size \in Nat \ {0}, NEW maxK \in Nat \ {0}
  PROVE  ActualK(n, size, maxK) \in 1 .. maxK
<1>1. W32 \in Nat
  BY WireAssumption
<1>2. PICK q : q = (n + W32 + size - 1) \div size
  OBVIOUS
<1>3. q \in Nat
  <2>1. n + W32 + size - 1 \in Nat
    BY <1>1
  <2> QED
    BY <1>2, <2>1
<1>4. ActualK(n, size, maxK) = IF n = 0 THEN 1 ELSE AtLeast(AtMost(AtLeast(q, 1), maxK), 1)
  BY <1>2 DEF ActualK, LEN_PREFIX
<1> QED
  BY <1>3, <1>4 DEF AtLeast, AtMost

\* The payloads of some blocks.
LEMMA ContentsType ==
  ASSUME NEW bs \in Seq(Block)
  PROVE  /\ Contents(bs) \in Seq(Seq(Byte)) /\ Len(Contents(bs)) = Len(bs)
         /\ \A i \in 1 .. Len(bs) : Contents(bs)[i] = bs[i].payload
<1>1. Len(bs) \in Nat /\ \A i \in 1 .. Len(bs) : bs[i].payload \in Seq(Byte)
  <2>1. Len(bs) \in Nat /\ bs \in [1 .. Len(bs) -> Block]
    BY LenProperties
  <2>2. \A x \in Block : x.payload \in Seq(Byte)
    BY DEF Block
  <2>3. \A i \in 1 .. Len(bs) : bs[i] \in Block
    BY <2>1
  <2> QED
    BY <2>1, <2>2, <2>3
<1> QED
  BY <1>1 DEF Contents

\* The front of a sequence, in two parts.
LEMMA FrontJoin ==
  ASSUME NEW S, NEW s \in Seq(S), NEW a \in Nat, NEW b \in Nat, a <= b, b <= Len(s)
  PROVE  /\ SubSeq(s, 1, a) \o SubSeq(s, a + 1, b) = SubSeq(s, 1, b)
         /\ SubSeq(s, a + 1, b) \in Seq(S) /\ Len(SubSeq(s, a + 1, b)) = b - a
         /\ \A i \in 1 .. b - a : SubSeq(s, a + 1, b)[i] = s[a + i]
<1>1. Len(s) \in Nat
  BY LenProperties
<1>2. PICK x, y, z : x = SubSeq(s, 1, a) /\ y = SubSeq(s, a + 1, b) /\ z = SubSeq(s, 1, b)
  OBVIOUS
<1>3. /\ x \in Seq(S) /\ Len(x) = a /\ \A i \in 1 .. a : x[i] = s[i]
  <2>1. a \in 0 .. Len(s)
    BY <1>1
  <2> QED
    BY <1>2, <2>1, FrontType
<1>4. /\ z \in Seq(S) /\ Len(z) = b /\ \A i \in 1 .. b : z[i] = s[i]
  <2>1. b \in 0 .. Len(s)
    BY <1>1
  <2> QED
    BY <1>2, <2>1, FrontType
<1>5. /\ y \in Seq(S) /\ Len(y) = b - a /\ \A i \in 1 .. b - a : y[i] = s[a + i]
  <2>1. PICK m \in Int : m = a + 1
    OBVIOUS
  <2>2. \A i \in m .. b : s[i] \in S
    BY <1>1, <2>1, LenProperties
  <2>3. /\ SubSeq(s, m, b) \in Seq(S)
        /\ Len(SubSeq(s, m, b)) = IF m <= b THEN b - m + 1 ELSE 0
        /\ \A i \in 1 .. b - m + 1 : SubSeq(s, m, b)[i] = s[m + i - 1]
    BY <2>2, SubSeqProperties
  <2>4. b - m + 1 = b - a /\ (m <= b \/ b - a = 0) /\ \A i \in 1 .. b - a : m + i - 1 = a + i
    BY <2>1
  <2> QED
    BY <1>2, <2>1, <2>3, <2>4
<1>6. x \o y = z
  <2>1. PICK w : w = x \o y
    OBVIOUS
  <2>2. /\ w \in Seq(S) /\ Len(w) = Len(x) + Len(y)
        /\ \A i \in 1 .. Len(x) + Len(y) : w[i] = IF i <= Len(x) THEN x[i] ELSE y[i - Len(x)]
    BY <1>3, <1>5, <2>1, ConcatProperties
  <2>3. Len(w) = b
    BY <1>3, <1>5, <2>2
  <2>4. ASSUME NEW i \in 1 .. b PROVE w[i] = z[i]
    <3>1. w[i] = IF i <= a THEN x[i] ELSE y[i - a]
      BY <1>3, <1>5, <2>2
    <3>2. CASE i <= a
      BY <1>3, <1>4, <3>1, <3>2
    <3>3. CASE ~ (i <= a)
      <4>1. PICK j \in 1 .. b - a : j = i - a /\ a + j = i
        BY <3>3
      <4> QED
        BY <1>4, <1>5, <3>1, <3>3, <4>1
    <3> QED
      BY <3>2, <3>3
  <2> QED
    BY <1>4, <2>1, <2>2, <2>3, <2>4, SeqEqual
<1> QED
  BY <1>2, <1>5, <1>6

\* One more block, behind the others.
Emitted(n, repair) ==
  /\ Len(blocks') = Len(blocks) + 1
  /\ \A i \in 1 .. Len(blocks) : blocks'[i] = blocks[i]
  /\ blocks'[Len(blocks) + 1]
       = [payload |-> SubSeq(App, read + 1, read + n),
          k |-> ActualK(n, SymbolSize("client"), K("client")), repair |-> repair]

\* A block that is read continues what was read before it.
LEMMA SendingEmits ==
  ASSUME Negotiation, Sending, NEW n \in 1 .. Len(App), NEW repair \in 0 .. MaxRepair,
         EmitBlock(n, repair)
  PROVE  Sending' /\ Emitted(n, repair)
<1> DEFINE size == SymbolSize("client")
           maxK == K("client")
<1>0. App \in Seq(Byte) /\ Len(App) \in Nat /\ Len(blocks) \in Nat /\ MaxBlocks \in Nat
  BY TransferAssumption, LenProperties DEF Sending
<1>1. /\ params' = params /\ tunnel' = tunnel /\ eof' = eof
      /\ tunnel # "none" /\ read' = read + n
      /\ read + n <= Len(App) /\ n <= MaxPayload(size, maxK) /\ Len(blocks) < MaxBlocks
  BY DEF EmitBlock, Running, controlVars, routeVars
<1>2. PICK payload : payload = SubSeq(App, read + 1, read + n)
  OBVIOUS
<1>3. read \in Nat /\ n \in Nat /\ n > 0
  BY <1>0 DEF Sending
<1>4. /\ payload \in Seq(Byte) /\ Len(payload) = n
      /\ SubSeq(App, 1, read) \o payload = SubSeq(App, 1, read + n)
  <2>1. PICK b \in Nat : b = read + n /\ read <= b /\ b <= Len(App) /\ b - read = n
    BY <1>0, <1>1, <1>3
  <2>2. /\ SubSeq(App, 1, read) \o SubSeq(App, read + 1, b) = SubSeq(App, 1, b)
        /\ SubSeq(App, read + 1, b) \in Seq(Byte) /\ Len(SubSeq(App, read + 1, b)) = b - read
    <3>1. App \in Seq(Byte) /\ read \in Nat
      BY <1>0, <1>3
    <3> QED
      <4>1. PICK V : V = Byte /\ App \in Seq(V)
        BY <3>1
      <4> QED
        BY ONLY <2>1, <3>1, <4>1, FrontJoin
  <2> QED
    BY <1>2, <2>1, <2>2
<1>5. size \in Nat \ {0} /\ maxK \in 1 .. LargestK
  BY <1>1, NegotiatedGeometry DEF Sending, Geometry
<1>6. PICK k \in Nat : k = ActualK(n, size, maxK)
  <2>1. maxK \in Nat \ {0}
    BY <1>5
  <2> HIDE DEF maxK, size
  <2> QED
    BY <1>3, <1>5, <2>1, ActualKType
<1>7. PICK x \in Block : x = [payload |-> payload, k |-> k, repair |-> repair]
  BY <1>4 DEF Block
<1>8. blocks' = Append(blocks, x)
  BY <1>2, <1>4, <1>6, <1>7 DEF EmitBlock
<1>9. /\ blocks' \in Seq(Block) /\ Len(blocks') = Len(blocks) + 1
      /\ \A i \in 1 .. Len(blocks) : blocks'[i] = blocks[i]
      /\ blocks'[Len(blocks) + 1] = x
  BY <1>8, AppendProperties DEF Sending
<1>10. Filled(x)
  <2>1. n \in 1 .. MaxPayload(size, maxK)
    <3>1. MaxPayload(size, maxK) \in Int
      BY <1>1, NegotiatedGeometry DEF Sending, Geometry
    <3> QED
      BY <1>1, <1>3, <3>1
  <2>2. x.payload = payload /\ x.k = k
    BY <1>7
  <2> QED
    BY <1>4, <1>6, <2>1, <2>2 DEF Filled
<1>11. \A i \in 1 .. Len(blocks') : Filled(blocks'[i])
  <2>1. ASSUME NEW i \in 1 .. Len(blocks') PROVE Filled(blocks'[i])
    <3>1. i \in 1 .. Len(blocks) \/ i = Len(blocks) + 1
      BY <1>0, <1>9
    <3> QED
      BY <1>9, <1>10, <3>1 DEF Sending
  <2> QED
    BY <2>1
<1>13. \A i \in 1 .. Len(blocks') : Filled(blocks[i])'
  <2>1. size' = size /\ maxK' = maxK
    BY <1>1 DEF SymbolSize, K
  <2> QED
    BY <1>11, <2>1 DEF Filled
<1>14. FlattenSeq(Contents(blocks')) = SubSeq(App, 1, read')
  <2>1. Contents(blocks') = Append(Contents(blocks), payload)
    <3>1. PICK c : c = Contents(blocks)
      OBVIOUS
    <3>2. /\ c \in Seq(Seq(Byte)) /\ Len(c) = Len(blocks)
          /\ \A i \in 1 .. Len(blocks) : c[i] = blocks[i].payload
      BY <3>1, ContentsType DEF Sending
    <3>3. PICK d : d = Contents(blocks')
      OBVIOUS
    <3>4. /\ d \in Seq(Seq(Byte)) /\ Len(d) = Len(blocks')
          /\ \A i \in 1 .. Len(blocks') : d[i] = blocks'[i].payload
      BY <1>9, <3>3, ContentsType
    <3>5. PICK e : e = Append(c, payload)
      OBVIOUS
    <3>6. /\ e \in Seq(Seq(Byte)) /\ Len(e) = Len(blocks) + 1
          /\ \A i \in 1 .. Len(blocks) : e[i] = c[i]
          /\ e[Len(blocks) + 1] = payload
      BY <1>4, <3>2, <3>5, AppendProperties
    <3>7. ASSUME NEW i \in 1 .. Len(d) PROVE d[i] = e[i]
      <4>1. i \in 1 .. Len(blocks) \/ i = Len(blocks) + 1
        BY <1>0, <1>9, <3>4
      <4>2. ASSUME i \in 1 .. Len(blocks) PROVE d[i] = e[i]
        BY <1>9, <3>2, <3>4, <3>6, <4>2
      <4>3. ASSUME i = Len(blocks) + 1 PROVE d[i] = e[i]
        <5>1. d[Len(blocks) + 1] = blocks'[Len(blocks) + 1].payload
          BY <1>9, <3>4, <4>3
        <5>2. d[Len(blocks) + 1] = payload
          BY <1>7, <1>9, <5>1
        <5> QED
          BY <3>6, <4>3, <5>2, Zenon
      <4> QED
        BY <4>1, <4>2, <4>3
    <3>8. d = e
      BY <1>9, <3>4, <3>6, <3>7, SeqEqual
    <3> QED
      BY <3>1, <3>3, <3>5, <3>8
  <2>2. PICK V : V = Seq(Byte)
    OBVIOUS
  <2>3. PICK c \in Seq(V) : c = Contents(blocks)
    BY <2>2, ContentsType DEF Sending
  <2>4. FlattenSeq(Append(c, payload)) = FlattenSeq(c) \o payload
    <3>1. PICK y \in V : y = payload
      BY <1>4, <2>2
    <3>2. FlattenSeq(Append(c, y)) = FlattenSeq(c) \o y
      BY ONLY V = Seq(Byte), c \in Seq(V), y \in V, FlattenAppend
    <3> QED
      BY <3>1, <3>2, Zenon
  <2> QED
    BY <1>1, <1>4, <2>1, <2>3, <2>4 DEF Sending
<1>15. read' \in 0 .. Len(App) /\ Len(blocks') <= MaxBlocks
  BY <1>0, <1>1, <1>3, <1>9
<1>16. Emitted(n, repair)
  BY <1>2, <1>6, <1>7, <1>9 DEF Emitted
<1> QED
  BY <1>1, <1>9, <1>13, <1>14, <1>15, <1>16 DEF Sending

\* A block that gets one more repair symbol keeps its contents.
Extended(b) ==
  /\ Len(blocks') = Len(blocks)
  /\ \A i \in 1 .. Len(blocks) :
       /\ blocks'[i].payload = blocks[i].payload /\ blocks'[i].k = blocks[i].k
       /\ blocks'[i].repair = IF i = b + 1 THEN blocks[i].repair + 1 ELSE blocks[i].repair

\* Repair adds nothing to what was read.
LEMMA SendingExtends ==
  ASSUME Negotiation, Sending, NEW b \in 0 .. Len(blocks) - 1, AdditionalRepair(b)
  PROVE  Sending' /\ Extended(b)
<1>1. /\ params' = params /\ tunnel' = tunnel /\ eof' = eof /\ read' = read
      /\ blocks[b + 1].repair < MaxRepair
      /\ blocks' = [blocks EXCEPT ![b + 1].repair = @ + 1]
  BY DEF AdditionalRepair, controlVars, routeVars
<1>2. PICK n \in Nat : n = Len(blocks) /\ blocks \in [1 .. n -> Block] /\ DOMAIN blocks = 1 .. n
  BY LenProperties DEF Sending
<1>3. PICK j \in 1 .. n : j = b + 1
  BY <1>2
<1>4. /\ blocks[j].payload \in Seq(Byte) /\ blocks[j].k \in Nat /\ blocks[j].repair \in 0 .. MaxRepair
      /\ blocks[j] = [payload |-> blocks[j].payload, k |-> blocks[j].k, repair |-> blocks[j].repair]
  BY <1>2 DEF Block
<1>5. PICK x \in Block : x = [blocks[j] EXCEPT !.repair = @ + 1]
                         /\ x.payload = blocks[j].payload /\ x.k = blocks[j].k
                         /\ x.repair = blocks[j].repair + 1
  <2>1. MaxRepair \in Nat /\ blocks[j].repair + 1 \in 0 .. MaxRepair
    BY <1>1, <1>3, <1>4, TransferAssumption
  <2>2. [blocks[j] EXCEPT !.repair = @ + 1]
          = [payload |-> blocks[j].payload, k |-> blocks[j].k, repair |-> blocks[j].repair + 1]
    BY <1>4
  <2> QED
    BY <1>4, <2>1, <2>2 DEF Block
<1>6. blocks' = [blocks EXCEPT ![j] = x]
  BY <1>1, <1>2, <1>3, <1>5
<1>7. /\ blocks' \in [1 .. n -> Block] /\ blocks'[j] = x
      /\ \A i \in 1 .. n : i # j => blocks'[i] = blocks[i]
  BY <1>2, <1>6
<1>8. blocks' \in Seq(Block) /\ Len(blocks') = n
  BY <1>2, <1>7
<1>9. /\ \A i \in 1 .. n : blocks'[i].payload = blocks[i].payload /\ blocks'[i].k = blocks[i].k
  BY <1>5, <1>7
<1>10. Contents(blocks') = Contents(blocks)
  <2>1. Len(blocks) = n
    BY <1>2
  <2> QED
    BY <1>8, <1>9, <2>1 DEF Contents
<1>11. \A i \in 1 .. n : Filled(blocks[i])'
  <2>1. SymbolSize("client")' = SymbolSize("client") /\ K("client")' = K("client")
    BY <1>1 DEF SymbolSize, K
  <2>2. \A i \in 1 .. n : Filled(blocks[i])
    BY <1>2 DEF Sending
  <2> QED
    BY <1>9, <2>1, <2>2 DEF Filled
<1>12. n # 0 /\ tunnel # "none"
  <2>1. n # 0
    BY <1>3
  <2>2. blocks # <<>>
    BY <1>2, <2>1, EmptyType
  <2> QED
    BY <2>1, <2>2 DEF Sending
<1>13. Extended(b)
  <2>1. \A i \in 1 .. n : blocks'[i].repair
          = IF i = b + 1 THEN blocks[i].repair + 1 ELSE blocks[i].repair
    BY <1>3, <1>5, <1>7
  <2> QED
    BY <1>2, <1>8, <1>9, <2>1 DEF Extended
<1> QED
  BY <1>1, <1>2, <1>8, <1>10, <1>11, <1>12, <1>13 DEF Sending

LEMMA SendingStep ==
  ASSUME Negotiation, Sending, [Next]_vars
  PROVE  Sending'
<1>1. ASSUME UNCHANGED <<params, tunnel, upVars>> PROVE Sending'
  BY <1>1 DEF Sending, upVars, Filled, SymbolSize, K
<1>2. ASSUME UNCHANGED <<tunnel, upVars>>, ServerAnswers \/ ClientHears PROVE Sending'
  <2>1. params["client"] = <<>>
    BY <1>2, ParamsKept, NegotiationStep DEF Negotiation, Asked, Accepted, TurnedAway, ServerAnswers, ClientHears
  <2>2. tunnel = "none" /\ blocks = <<>>
    BY <2>1 DEF Sending
  <2>3. \A i \in 1 .. Len(blocks) : FALSE
    BY <2>2, EmptyType
  <2> QED
    BY <1>2, <2>2, <2>3 DEF Sending, upVars
<1>3. CASE Handshake
  <2>1. CASE ServerAnswers \/ ClientHears
    BY <1>2, <2>1 DEF ServerAnswers, ClientHears, routeVars
  <2>2. CASE Announce
    BY <2>2 DEF Announce, Sending, controlVars, upVars, Filled, SymbolSize, K
  <2>3. CASE Register
    BY <2>3 DEF Register, Sending, controlVars, upVars, Filled, SymbolSize, K
  <2> QED
    BY <1>3, <2>1, <2>2, <2>3 DEF Handshake
<1>4. CASE Upstream
  <2>1. ASSUME NEW n \in 1 .. Len(App), NEW repair \in 0 .. MaxRepair, EmitBlock(n, repair)
        PROVE  Sending'
    BY <2>1, SendingEmits
  <2>2. ASSUME ReadEof PROVE Sending'
    BY <2>2 DEF ReadEof, Sending, controlVars, routeVars, Filled, SymbolSize, K
  <2>3. ASSUME NEW b \in 0 .. Len(blocks) - 1, AdditionalRepair(b) PROVE Sending'
    BY <2>3, SendingExtends
  <2>4. ASSUME NEW b \in 0 .. Len(blocks) - 1, SendCopy(b) PROVE Sending'
    BY <1>1, <2>4 DEF SendCopy, controlVars, routeVars
  <2>5. ASSUME NEW s \in OtherSignals, SendOther(s) PROVE Sending'
    BY <1>1, <2>5 DEF SendOther, controlVars, routeVars
  <2> QED
    BY <1>4, <2>1, <2>2, <2>3, <2>4, <2>5 DEF Upstream
<1>5. CASE Reader
  BY <1>1, <1>5 DEF Reader, ReadWire, controlVars, routeVars
<1>6. CASE Downstream
  <2>1. UNCHANGED <<params, tunnel, upVars>>
    BY <1>6 DEF Downstream, SymbolArrives, CopyArrives, Degrade, controlVars, routeVars
  <2> QED
    BY <1>1, <2>1
<1>7. CASE UNCHANGED vars
  BY <1>1, <1>7 DEF vars, controlVars, routeVars
<1> QED
  BY <1>3, <1>4, <1>5, <1>6, <1>7 DEF Next

-----------------------------------------------------------------------------
(* The signal stream.                                                      *)

\* Every signal that the tasks send is one the codec reads back.
LEMMA NumberSignal ==
  ASSUME NEW b \in 0 .. MaxBlocks, NEW kind \in {"highWater", "count"}
  PROVE  Signal(kind, <<b>>) \in Signals
<1>1. b \in Word(W64) /\ b \in Nat
  BY TransferAssumption
<1> DEFINE s == Signal(kind, <<b>>)
<1>2. s.kind = kind /\ s.fields = <<b>> /\ s = [kind |-> s.kind, fields |-> s.fields]
  BY DEF Signal
<1> HIDE DEF s
<1>3. SignalLayout(s.kind) = <<"u64">>
  BY <1>2 DEF SignalLayout
<1>4. s.kind \in SignalKinds
  BY <1>2 DEF SignalKinds, SignalTag
<1>5. b \in FieldValues("u64", MaxReliableData)
  BY <1>1 DEF FieldValues, Width
<1>6. s.fields \in Seq(Nat \cup Seq(Byte)) /\ Len(s.fields) = 1
  <2>1. b \in Nat \cup Seq(Byte)
    BY <1>1
  <2>2. <<b>> \in Seq(Nat \cup Seq(Byte)) /\ Len(<<b>>) = 1
    BY <2>1
  <2> QED
    BY <1>2, <2>2
<1>7. <<"u64">> \in Seq(Types) /\ Len(<<"u64">>) = 1
  BY DEF Types
<1>8. \A i \in 1 .. 1 : s.fields[i] = b /\ <<"u64">>[i] = "u64"
  BY <1>2
<1>9. Fits(SignalLayout(s.kind), s.fields, MaxReliableData)
  BY <1>3, <1>5, <1>6, <1>7, <1>8 DEF Fits
<1>10. s \in [kind : SignalKinds, fields : Seq(Nat \cup Seq(Byte))]
  BY <1>2, <1>4, <1>6
<1> QED
  BY <1>9, <1>10 DEF Signals, s

LEMMA CopySignal ==
  ASSUME NEW b \in 0 .. MaxBlocks, NEW payload \in Seq(Byte), Len(payload) <= MaxReliableData
  PROVE  Signal("data", <<b, payload>>) \in Signals
<1>1. b \in Word(W64) /\ b \in Nat
  BY TransferAssumption
<1> DEFINE s == Signal("data", <<b, payload>>)
<1>2. /\ s.kind = "data" /\ s.fields = <<b, payload>>
      /\ s = [kind |-> s.kind, fields |-> s.fields]
  BY DEF Signal
<1> HIDE DEF s
<1>3. SignalLayout(s.kind) = <<"u64", "bytes">>
  BY <1>2 DEF SignalLayout
<1>4. s.kind \in SignalKinds
  BY <1>2 DEF SignalKinds, SignalTag
<1>5. b \in FieldValues("u64", MaxReliableData)
  BY <1>1 DEF FieldValues, Width
<1>6. payload \in FieldValues("bytes", MaxReliableData)
  <2>1. Len(payload) \in 0 .. MaxReliableData
    BY WireAssumption, LenProperties
  <2> QED
    BY <2>1, WireAssumption DEF FieldValues
<1>7. s.fields \in Seq(Nat \cup Seq(Byte)) /\ Len(s.fields) = 2
  <2>1. b \in Nat \cup Seq(Byte) /\ payload \in Nat \cup Seq(Byte)
    BY <1>1
  <2>2. <<b, payload>> \in Seq(Nat \cup Seq(Byte)) /\ Len(<<b, payload>>) = 2
    BY <2>1
  <2> QED
    BY <1>2, <2>2
<1>8. <<"u64", "bytes">> \in Seq(Types) /\ Len(<<"u64", "bytes">>) = 2
  BY DEF Types
<1>9. \A i \in 1 .. 2 : s.fields[i] \in FieldValues(<<"u64", "bytes">>[i], MaxReliableData)
  <2>1. \A i \in 1 .. 2 : i = 1 \/ i = 2
    OBVIOUS
  <2> QED
    BY <1>2, <1>5, <1>6, <2>1
<1>10. Fits(SignalLayout(s.kind), s.fields, MaxReliableData)
  BY <1>3, <1>7, <1>8, <1>9 DEF Fits
<1>11. s \in [kind : SignalKinds, fields : Seq(Nat \cup Seq(Byte))]
  BY <1>2, <1>4, <1>7
<1> QED
  BY <1>10, <1>11 DEF Signals, s

LEMMA OtherSignal ==
  ASSUME NEW s \in OtherSignals
  PROVE  s \in Signals /\ s.kind # "data"
<1>1. /\ s = Signal(s.kind, s.fields) /\ s.kind \in {"nack", "request", "credit", "ack"}
      /\ s.fields \in [DOMAIN SignalLayout(s.kind) -> Nat]
      /\ \A i \in DOMAIN s.fields : s.fields[i] \in Word(Width(SignalLayout(s.kind)[i]))
  BY TransferAssumption
<1>2. s.kind \in SignalKinds /\ s.kind # "data"
  BY <1>1 DEF SignalKinds, SignalTag
<1>3. PICK layout : layout = SignalLayout(s.kind)
  OBVIOUS
<1>4. layout = <<"u64", "u32", "u32">> \/ layout = <<"u64">>
  BY <1>1, <1>3 DEF SignalLayout
<1>5. /\ layout \in Seq(Types) /\ Len(layout) \in Nat /\ DOMAIN layout = 1 .. Len(layout)
      /\ \A i \in 1 .. Len(layout) : layout[i] # "bytes"
  <2>1. CASE layout = <<"u64", "u32", "u32">>
    <3>1. layout \in Seq(Types) /\ Len(layout) = 3
      BY <2>1 DEF Types
    <3>2. \A i \in 1 .. 3 : layout[i] # "bytes"
      <4>1. \A i \in 1 .. 3 : i = 1 \/ i = 2 \/ i = 3
        OBVIOUS
      <4> QED
        BY <2>1, <4>1
    <3> QED
      BY <3>1, <3>2, LenProperties
  <2>2. CASE layout = <<"u64">>
    <3>1. layout \in Seq(Types) /\ Len(layout) = 1
      BY <2>2 DEF Types
    <3>2. \A i \in 1 .. 1 : layout[i] # "bytes"
      BY <2>2
    <3> QED
      BY <3>1, <3>2, LenProperties
  <2> QED
    BY <1>4, <2>1, <2>2
<1>6. PICK n \in Nat : n = Len(layout)
  BY <1>5, Zenon
<1>7. s.fields \in [1 .. n -> Nat]
  BY <1>1, <1>3, <1>5, <1>6
<1>8. s.fields \in Seq(Nat \cup Seq(Byte)) /\ Len(s.fields) = n
  BY <1>7
<1>9. \A i \in 1 .. n : s.fields[i] \in FieldValues(layout[i], MaxReliableData)
  BY <1>1, <1>3, <1>5, <1>6, <1>7 DEF FieldValues
<1>10. Fits(layout, s.fields, MaxReliableData)
  BY <1>5, <1>6, <1>8, <1>9 DEF Fits
<1>11. s \in [kind : SignalKinds, fields : Seq(Nat \cup Seq(Byte))]
  BY <1>1, <1>2, <1>8 DEF Signal
<1> QED
  BY <1>2, <1>3, <1>10, <1>11 DEF Signals

\* The signals taken are the first ones sent, the rest is in the buffer or under
\* way, and no whole signal waits in the buffer.
InFlight ==
  /\ Len(got) \in 0 .. Len(signals) /\ got = SubSeq(signals, 1, Len(got))
  /\ Encoded(From(signals, Len(got) + 1)) = buf \o wire
  /\ DecodeSignal(buf) = More

Streaming ==
  /\ signals \in Seq(Signals) /\ wire \in Seq(Byte) /\ buf \in Seq(Byte)
  /\ skipped = FALSE
  /\ tunnel = "none" => signals = <<>> /\ wire = <<>>
  /\ tunnel # "open" => got = <<>> /\ buf = <<>>
  /\ tunnel = "announced" => wire = Put(StreamId, W64) \o Encoded(signals)
  /\ tunnel = "open" => route = <<StreamId>> /\ InFlight

LEMMA StreamingInit == Init => Streaming
BY EmptyType DEF Init, Streaming

\* One more signal on the stream.
LEMMA StreamingSends ==
  ASSUME Streaming, NEW s \in Signals, Send(s), tunnel \in {"announced", "open"},
         UNCHANGED <<tunnel, route, buf, got, skipped>>
  PROVE  Streaming'
<1>1. PICK e \in Seq(Byte) : e = EncodeSignal(s)
  BY SignalsWellFormed, SignalBytes
<1>2. PICK one \in Seq(Signals) : one = <<s>> /\ Encoded(one) = e
  BY <1>1, EncodedOne
<1>3. signals \in Seq(Signals) /\ wire \in Seq(Byte) /\ buf \in Seq(Byte) /\ skipped = FALSE
  BY DEF Streaming
<1>4. wire' = wire \o e /\ wire' \in Seq(Byte)
  BY <1>1, <1>3, ConcatProperties DEF Send
<1>5. /\ signals' = Append(signals, s) /\ signals' = signals \o one /\ signals' \in Seq(Signals)
      /\ Len(signals') = Len(signals) + 1 /\ Len(signals) \in Nat
  BY <1>2, <1>3, AppendProperties, AppendIsConcat, LenProperties DEF Send
<1>6. CASE tunnel = "announced"
  <2>1. wire = Put(StreamId, W64) \o Encoded(signals)
    BY <1>6 DEF Streaming
  <2>2. PICK x \in Seq(Byte), p \in Seq(Byte) : x = Encoded(signals) /\ p = Put(StreamId, W64)
    <3>1. StreamId \in Nat /\ W64 \in Nat
      BY TransferAssumption, WireAssumption, WordType
    <3> QED
      BY <1>2, <1>3, <3>1, PutType, EncodedConcat DEF EncodedIn
  <2>3. EncodedCat(signals, one) /\ Regrouped(p, x, e)
    BY <1>3, EncodedConcat, Regroup
  <2>4. wire' = Put(StreamId, W64) \o Encoded(signals')
    BY <1>2, <1>4, <1>5, <2>1, <2>2, <2>3 DEF EncodedCat, Regrouped
  <2> QED
    BY <1>3, <1>4, <1>5, <1>6, <2>4 DEF Streaming
<1>7. CASE tunnel = "open"
  <2>1. /\ route = <<StreamId>> /\ Len(got) \in 0 .. Len(signals)
        /\ got = SubSeq(signals, 1, Len(got)) /\ DecodeSignal(buf) = More
        /\ Encoded(From(signals, Len(got) + 1)) = buf \o wire
    BY <1>7 DEF Streaming, InFlight
  <2>2. PICK n \in 0 .. Len(signals) : n = Len(got)
    BY <2>1, Zenon
  <2>3. PICK z \in Seq(Signals) : z = signals'
    BY <1>5
  <2>4. SubSeq(z, 1, n) = SubSeq(signals, 1, n)
    <3>1. /\ SubSeq(signals, 1, n) \in Seq(Signals) /\ Len(SubSeq(signals, 1, n)) = n
          /\ \A i \in 1 .. n : SubSeq(signals, 1, n)[i] = signals[i]
      BY <1>3, FrontType
    <3>2. n \in 0 .. Len(z) /\ n \in Nat
      BY <1>5, <2>3
    <3>3. /\ SubSeq(z, 1, n) \in Seq(Signals) /\ Len(SubSeq(z, 1, n)) = n
          /\ \A i \in 1 .. n : SubSeq(z, 1, n)[i] = z[i]
      BY <3>2, FrontType
    <3>4. \A i \in 1 .. n : z[i] = signals[i]
      <4>1. \A i \in 1 .. Len(signals) : Append(signals, s)[i] = signals[i]
        BY <1>3, AppendProperties
      <4> QED
        BY <1>5, <2>3, <4>1
    <3> QED
      BY <3>1, <3>3, <3>4, SeqEqual
  <2>5. PICK after \in Seq(Signals) : after = From(signals, n + 1)
    <3>1. n + 1 \in 1 .. Len(signals) + 1
      BY <1>5
    <3> QED
      BY <1>3, <3>1, FromType
  <2>6. From(z, n + 1) = after \o one
    <3>1. PICK front \in Seq(Signals) : front = SubSeq(signals, 1, n) /\ Len(front) = n
      BY <1>3, FrontType
    <3>2. signals = front \o after
      BY <1>3, <2>5, <3>1, Cut
    <3>3. Regrouped(front, after, one) /\ after \o one \in Seq(Signals)
      BY Regroup, ConcatProperties
    <3>4. z = front \o (after \o one)
      BY <1>5, <2>3, <3>2, <3>3, Zenon DEF Regrouped
    <3>5. PICK w \in Seq(Signals) : w = after \o one
      BY <3>3
    <3>6. From(front \o w, Len(front) + 1) = w
      BY Parts
    <3> QED
      BY <3>1, <3>4, <3>5, <3>6
  <2>7. PICK m \in Seq(Byte) : m = Encoded(after)
    BY EncodedConcat DEF EncodedIn
  <2>8. EncodedCat(after, one) /\ Regrouped(buf, wire, e)
    BY <1>3, EncodedConcat, Regroup
  <2>9. Encoded(From(z, n + 1)) = buf \o (wire \o e)
    BY <1>2, <2>1, <2>2, <2>5, <2>6, <2>8, Zenon DEF EncodedCat, Regrouped
  <2>10. n \in 0 .. Len(z)
    BY <1>5, <2>3
  <2>11. InFlight'
    BY <1>4, <2>1, <2>2, <2>3, <2>4, <2>9, <2>10 DEF InFlight
  <2> QED
    BY <1>3, <1>4, <1>5, <1>7, <2>1, <2>11 DEF Streaming
<1> QED
  BY <1>6, <1>7

\* The server takes the stream id off the stream and finds the signals after it.
LEMMA StreamingRegisters ==
  ASSUME Streaming, Register
  PROVE  Streaming'
<1>1. /\ tunnel = "announced" /\ Len(wire) >= W64 /\ tunnel' = "open"
      /\ route' = <<Get(SubSeq(wire, 1, W64))>> /\ wire' = From(wire, W64 + 1)
      /\ UNCHANGED <<signals, buf, got, skipped>>
  BY DEF Register, readerVars
<1>2. /\ signals \in Seq(Signals) /\ wire \in Seq(Byte) /\ skipped = FALSE
      /\ got = <<>> /\ buf = <<>> /\ wire = Put(StreamId, W64) \o Encoded(signals)
  BY <1>1 DEF Streaming
<1>3. PICK w \in Nat, n \in Nat : w = W64 /\ n = StreamId /\ n \in Word(w)
  BY TransferAssumption, WireAssumption, WordType
<1>4. PICK x \in Seq(Byte) : x = Encoded(signals)
  BY <1>2, EncodedConcat DEF EncodedIn
<1>5. Same(wire, <<>>, Put(n, w), x) /\ <<>> \in Seq(Byte)
  BY <1>2, <1>3, <1>4, EmptyType DEF Same
<1>6. WordRead(n, w, wire, <<>>, x)
  BY <1>1, <1>2, <1>3, <1>5, IntegerCut
<1>7. route' = <<StreamId>> /\ wire' \in Seq(Byte) /\ wire' = x
  <2>1. From(wire, w + 1) \in Seq(Byte) /\ From(wire, w + 1) \o <<>> = x /\ Get(SubSeq(wire, 1, w)) = n
    BY <1>6 DEF WordRead
  <2>2. From(wire, w + 1) = x
    BY <2>1, EmptyType
  <2> QED
    BY <1>1, <1>3, <2>1, <2>2
<1>8. /\ SubSeq(signals, 1, 0) = <<>> /\ From(signals, 1) = signals /\ Len(<<>>) = 0
      /\ Len(signals) \in Nat
  BY <1>2, SubSeqEmpty, SubSeqFull, EmptyType, LenProperties DEF From
<1>9. InFlight'
  <2>1. Len(got') = 0 /\ got' = <<>> /\ buf' = <<>> /\ signals' = signals
    BY <1>1, <1>2, <1>8
  <2>2. DecodeSignal(<<>>) = More
    BY DEF DecodeSignal
  <2>3. <<>> \o x = x
    BY EmptyType
  <2> QED
    BY <1>4, <1>7, <1>8, <2>1, <2>2, <2>3 DEF InFlight
<1> QED
  BY <1>1, <1>2, <1>7, <1>9, EmptyType DEF Streaming

\* The front of a tail, behind what comes before it.
FrontGrown(s, g, j) == SubSeq(s, 1, g) \o SubSeq(From(s, g + 1), 1, j) = SubSeq(s, 1, g + j)

\* The front of a sequence grows by what the rest loses.
LEMMA FromFront ==
  ASSUME NEW S, NEW s, NEW g, NEW j, s \in Seq(S), g \in Nat, j \in Nat, g + j <= Len(s)
  PROVE  FrontGrown(s, g, j)
<1>1. Len(s) \in Nat
  BY LenProperties
<1>2. PICK m \in Nat : m = g + j /\ g <= m /\ m <= Len(s) /\ m - g = j
  BY <1>1
<1>3. /\ SubSeq(s, 1, g) \o SubSeq(s, g + 1, m) = SubSeq(s, 1, m)
      /\ SubSeq(s, g + 1, m) \in Seq(S) /\ Len(SubSeq(s, g + 1, m)) = m - g
      /\ \A i \in 1 .. m - g : SubSeq(s, g + 1, m)[i] = s[g + i]
  BY <1>2, FrontJoin
<1>4. PICK t : t = From(s, g + 1)
  OBVIOUS
<1>5. /\ t \in Seq(S) /\ Len(t) = Len(s) - g
      /\ \A i \in 1 .. Len(s) - g : t[i] = s[g + i]
  <2>1. PICK n \in 1 .. Len(s) + 1 : n = g + 1 /\ Len(s) - n + 1 = Len(s) - g
    BY <1>1, <1>2
  <2>2. /\ From(s, n) \in Seq(S) /\ Len(From(s, n)) = Len(s) - n + 1
        /\ \A i \in 1 .. Len(s) - n + 1 : From(s, n)[i] = s[n + i - 1]
    BY FromType
  <2>3. \A i \in 1 .. Len(s) - g : n + i - 1 = g + i
    BY <2>1
  <2> QED
    BY <1>4, <2>1, <2>2, <2>3, Zenon
<1>6. /\ SubSeq(t, 1, j) \in Seq(S) /\ Len(SubSeq(t, 1, j)) = j
      /\ \A i \in 1 .. j : SubSeq(t, 1, j)[i] = t[i]
  <2>1. j \in 0 .. Len(t)
    BY <1>1, <1>2, <1>5
  <2> QED
    BY <1>5, <2>1, FrontType
<1>7. SubSeq(t, 1, j) = SubSeq(s, g + 1, m)
  <2>1. \A i \in 1 .. j : i \in 1 .. Len(s) - g /\ i \in 1 .. m - g
    BY <1>1, <1>2
  <2>2. \A i \in 1 .. j : SubSeq(t, 1, j)[i] = SubSeq(s, g + 1, m)[i]
    BY <1>3, <1>5, <1>6, <2>1
  <2>3. PICK x \in Seq(S), y \in Seq(S) : x = SubSeq(t, 1, j) /\ y = SubSeq(s, g + 1, m)
    BY <1>3, <1>6
  <2>4. Len(x) = Len(y) /\ \A i \in 1 .. Len(x) : x[i] = y[i]
    BY <1>2, <1>3, <1>6, <2>2, <2>3
  <2>5. x = y
    BY ONLY x \in Seq(S), y \in Seq(S), <2>4, SeqEqual
  <2> QED
    BY <2>3, <2>5
<1> QED
  BY <1>2, <1>3, <1>4, <1>7 DEF FrontGrown

\* One read takes the whole signals that it completes.
LEMMA StreamingReads ==
  ASSUME Streaming, NEW n \in Chunks, ReadWire(n)
  PROVE  /\ Streaming'
         /\ \E d \in Loop(From(signals, Len(got) + 1), wire') :
              got' = got \o d.got /\ relData' = relData \o d.copies
<1>1. /\ tunnel = "open" /\ n <= Len(wire) /\ wire' = From(wire, n + 1)
      /\ UNCHANGED <<tunnel, route, signals>>
  BY DEF ReadWire, routeVars
<1>2. PICK bytes : bytes = buf \o SubSeq(wire, 1, n)
  OBVIOUS
<1>3. PICK d : d = Drained(bytes)
  OBVIOUS
<1>4. buf' = d.rest /\ got' = got \o d.got /\ skipped' = (skipped \/ d.skipped)
      /\ relData' = relData \o d.copies
  BY <1>2, <1>3 DEF ReadWire
<1>5. /\ signals \in Seq(Signals) /\ wire \in Seq(Byte) /\ buf \in Seq(Byte) /\ skipped = FALSE
      /\ route = <<StreamId>> /\ Len(got) \in 0 .. Len(signals)
      /\ got = SubSeq(signals, 1, Len(got))
      /\ Encoded(From(signals, Len(got) + 1)) = buf \o wire
  BY <1>1 DEF Streaming, InFlight
<1>6. n \in Nat /\ Len(wire) \in Nat /\ Len(signals) \in Nat
  BY <1>5, LenProperties, TransferAssumption
<1>7. PICK taken \in Seq(Byte), tail \in Seq(Byte) :
        taken = SubSeq(wire, 1, n) /\ tail = wire' /\ taken \o tail = wire
  <2>1. n \in 0 .. Len(wire) /\ n + 1 \in 1 .. Len(wire) + 1
    BY <1>1, <1>6
  <2>2. SubSeq(wire, 1, n) \in Seq(Byte)
    BY <1>5, <2>1, FrontType
  <2>3. From(wire, n + 1) \in Seq(Byte)
    BY <1>5, <2>1, FromType
  <2>4. SubSeq(wire, 1, n) \o From(wire, n + 1) = wire
    BY <1>5, <2>1, Cut
  <2> QED
    BY <1>1, <2>2, <2>3, <2>4
<1>8. PICK g \in Nat : g = Len(got) /\ g <= Len(signals) /\ got = SubSeq(signals, 1, g)
  <2>1. Len(got) \in Nat /\ Len(got) <= Len(signals)
    BY <1>5, <1>6
  <2> QED
    BY <1>5, <2>1, Zenon
<1>9. PICK ss \in Seq(Signals) : ss = From(signals, g + 1) /\ Len(ss) = Len(signals) - g
  <2>1. PICK m \in 1 .. Len(signals) + 1 : m = g + 1 /\ Len(signals) - m + 1 = Len(signals) - g
    <3>1. g \in 0 .. Len(signals)
      BY <1>6, <1>8
    <3>2. g + 1 \in 1 .. Len(signals) + 1 /\ Len(signals) - (g + 1) + 1 = Len(signals) - g
      BY ONLY <1>6, <3>1
    <3> QED
      BY <3>2
  <2>2. From(signals, m) \in Seq(Signals) /\ Len(From(signals, m)) = Len(signals) - m + 1
    BY <1>5, FromType
  <2> QED
    BY <2>1, <2>2, Zenon
<1>10. bytes \in Seq(Byte) /\ bytes \o tail = Encoded(ss)
  <2>1. bytes \in Seq(Byte)
    BY <1>2, <1>5, <1>7, ConcatProperties
  <2>2. Regrouped(buf, taken, tail)
    BY <1>5, Regroup
  <2> QED
    BY <1>2, <1>5, <1>7, <1>8, <1>9, <2>1, <2>2 DEF Regrouped
<1>11. d \in Loop(ss, tail) /\ DecodeSignal(d.rest) = More
  BY <1>3, <1>10, DrainedAll
<1>12. PICK j \in 0 .. Len(ss) : Taken(d, j, ss, tail)
  BY <1>11 DEF Loop
<1>13. /\ d.rest \in Seq(Byte) /\ d.skipped = FALSE
       /\ d.got = SubSeq(ss, 1, j) /\ d.rest \o tail = Encoded(From(ss, j + 1))
  BY <1>11, <1>12 DEF Loop, Taken
<1>14. PICK h \in Nat : h = g + j /\ h <= Len(signals) /\ j \in Nat
  <2>1. PICK a \in Nat, b \in Nat : a = Len(ss) /\ b = Len(signals) /\ a = b - g
    BY <1>6, <1>9, LenProperties
  <2>2. j \in 0 .. a
    BY <2>1
  <2>3. g + j \in Nat /\ g + j <= b /\ j \in Nat
    BY ONLY <2>1, <2>2, g \in Nat
  <2> QED
    BY <2>1, <2>3
<1>15. got' = SubSeq(signals, 1, h)
  <2>1. FrontGrown(signals, g, j)
    BY <1>5, <1>8, <1>14, FromFront
  <2> QED
    BY <1>4, <1>8, <1>9, <1>13, <1>14, <2>1, Zenon DEF FrontGrown
<1>16. Len(got') = h /\ h \in 0 .. Len(signals)
  <2>1. h \in 0 .. Len(signals)
    BY <1>6, <1>14
  <2>2. PICK V : V = Signals /\ signals \in Seq(V)
    BY <1>5
  <2>3. Len(SubSeq(signals, 1, h)) = h
    BY ONLY <2>1, <2>2, FrontType
  <2> QED
    BY <1>15, <2>1, <2>3
<1>17. From(ss, j + 1) = From(signals, h + 1)
  <2>1. PICK V : V = Signals /\ signals \in Seq(V)
    BY <1>5
  <2>2. j \in Nat /\ g + j <= Len(signals)
    BY <1>8, <1>14
  <2>3. From(From(signals, g + 1), j + 1) = From(signals, g + j + 1)
    BY ONLY <2>1, g \in Nat, <2>2, FromFrom
  <2> QED
    BY <1>9, <1>14, <2>3
<1>18. InFlight'
  BY <1>1, <1>4, <1>7, <1>11, <1>13, <1>15, <1>16, <1>17 DEF InFlight
<1>19. Streaming'
  BY <1>1, <1>4, <1>5, <1>7, <1>13, <1>18 DEF Streaming
<1> QED
  BY <1>4, <1>7, <1>8, <1>9, <1>11, <1>19

\* A block fits into a copy.
LEMMA SentBlock ==
  ASSUME Negotiation, Sending, NEW b \in 0 .. Len(blocks) - 1
  PROVE  /\ tunnel \in {"announced", "open"} /\ b \in 0 .. MaxBlocks
         /\ blocks[b + 1] \in Block /\ Filled(blocks[b + 1])
         /\ Signal("data", <<b, blocks[b + 1].payload>>) \in Signals
<1>1. PICK n \in Nat : n = Len(blocks) /\ n <= MaxBlocks /\ MaxBlocks \in Nat
                       /\ blocks \in [1 .. n -> Block]
  BY LenProperties, TransferAssumption DEF Sending
<1>2. PICK j \in 1 .. n : j = b + 1
  BY <1>1
<1>3. b \in 0 .. MaxBlocks /\ n # 0
  BY <1>1, <1>2
<1>4. tunnel \in {"announced", "open"} /\ params["client"] # <<>>
  <2>1. blocks # <<>>
    BY <1>1, <1>3, EmptyType
  <2> QED
    BY <2>1 DEF Sending
<1>5. blocks[j] \in Block /\ Filled(blocks[j])
  BY <1>1, <1>2 DEF Sending
<1>6. blocks[j].payload \in Seq(Byte)
  BY <1>5 DEF Block
<1>7. Len(blocks[j].payload) <= MaxReliableData
  <2>1. PICK m \in Nat, x \in Int, y \in Nat :
          /\ m = Len(blocks[j].payload) /\ y = MaxReliableData
          /\ x = MaxPayload(SymbolSize("client"), K("client"))
    BY <1>4, <1>6, NegotiatedGeometry, WireAssumption, LenProperties DEF Geometry
  <2>2. m <= x /\ x <= y
    BY <1>4, <1>5, <2>1, NegotiatedGeometry DEF Geometry, Filled
  <2> QED
    BY <2>1, <2>2
<1>8. Signal("data", <<b, blocks[j].payload>>) \in Signals
  BY <1>3, <1>6, <1>7, CopySignal
<1> QED
  BY <1>2, <1>3, <1>4, <1>5, <1>8

LEMMA StreamingStep ==
  ASSUME Negotiation, Sending, Streaming, [Next]_vars
  PROVE  Streaming'
<1>1. ASSUME UNCHANGED <<tunnel, route, streamVars, readerVars>> PROVE Streaming'
  BY <1>1 DEF Streaming, InFlight, streamVars, readerVars
<1>2. ASSUME NEW s \in Signals, Send(s), Running, UNCHANGED <<routeVars, readerVars>>
      PROVE  Streaming'
  <2>1. tunnel \in {"announced", "open"}
    BY <1>2 DEF Running, Sending
  <2> QED
    BY <1>2, <2>1, StreamingSends DEF routeVars, readerVars
<1>3. CASE Handshake
  <2>1. CASE ServerAnswers \/ ClientHears
    BY <1>1, <2>1 DEF ServerAnswers, ClientHears, routeVars
  <2>2. CASE Announce
    <3>1. /\ tunnel = "none" /\ tunnel' = "announced" /\ wire' = Put(StreamId, W64)
          /\ UNCHANGED <<signals, buf, got, skipped>>
      BY <2>2 DEF Announce, readerVars
    <3>2. signals = <<>> /\ got = <<>> /\ buf = <<>> /\ skipped = FALSE
      BY <3>1 DEF Streaming
    <3>3. PICK p \in Seq(Byte) : p = Put(StreamId, W64)
      BY PutType, TransferAssumption, WireAssumption, WordType
    <3>4. p \o <<>> = p /\ Encoded(<<>>) = <<>> /\ <<>> \in Seq(Byte) /\ <<>> \in Seq(Signals)
      BY EmptyType, EncodedNone
    <3> QED
      BY <3>1, <3>2, <3>3, <3>4 DEF Streaming
  <2>3. CASE Register
    BY <2>3, StreamingRegisters
  <2> QED
    BY <1>3, <2>1, <2>2, <2>3 DEF Handshake
<1>4. CASE Upstream
  <2>0. Len(blocks) \in Nat /\ Len(blocks) <= MaxBlocks /\ MaxBlocks \in Nat
    BY LenProperties, TransferAssumption DEF Sending
  <2>1. ASSUME NEW n \in 1 .. Len(App), NEW repair \in 0 .. MaxRepair, EmitBlock(n, repair)
        PROVE  Streaming'
    <3>1. Len(blocks) + 1 \in 0 .. MaxBlocks
      BY <2>0, <2>1 DEF EmitBlock
    <3>2. Signal("highWater", <<Len(blocks) + 1>>) \in Signals
      BY <3>1, NumberSignal
    <3> QED
      BY <1>2, <2>1, <3>2 DEF EmitBlock
  <2>2. ASSUME ReadEof PROVE Streaming'
    <3>1. Len(blocks) \in 0 .. MaxBlocks
      BY <2>0
    <3>2. Signal("count", <<Len(blocks)>>) \in Signals
      BY <3>1, NumberSignal
    <3> QED
      BY <1>2, <2>2, <3>2 DEF ReadEof, BlockTotal
  <2>3. ASSUME NEW b \in 0 .. Len(blocks) - 1, AdditionalRepair(b) PROVE Streaming'
    BY <1>1, <2>3 DEF AdditionalRepair, routeVars
  <2>4. ASSUME NEW b \in 0 .. Len(blocks) - 1, SendCopy(b) PROVE Streaming'
    <3>1. Running /\ Signal("data", <<b, blocks[b + 1].payload>>) \in Signals
      BY SentBlock DEF Running
    <3> QED
      BY <1>2, <2>4, <3>1 DEF SendCopy
  <2>5. ASSUME NEW s \in OtherSignals, SendOther(s) PROVE Streaming'
    BY <1>2, <2>5, OtherSignal DEF SendOther
  <2> QED
    BY <1>4, <2>1, <2>2, <2>3, <2>4, <2>5 DEF Upstream
<1>5. CASE Reader
  BY <1>5, StreamingReads DEF Reader
<1>6. CASE Downstream
  <2>1. UNCHANGED <<tunnel, route, streamVars, readerVars>>
    BY <1>6 DEF Downstream, SymbolArrives, CopyArrives, Degrade, routeVars
  <2> QED
    BY <1>1, <2>1
<1>7. CASE UNCHANGED vars
  BY <1>1, <1>7 DEF vars, routeVars
<1> QED
  BY <1>3, <1>4, <1>5, <1>6, <1>7 DEF Next

\* What was read is what the blocks hold, and the signals that were sent are those
\* the reader has decoded, with those in its buffer and those under way (the upstream
\* task, the signal writer, the signal reader's drain loop).
THEOREM SpecStreaming == Spec => [](Sending /\ Streaming)
<1>1. Init => Sending /\ Streaming
  BY SendingInit, StreamingInit
<1>2. Negotiation /\ (Sending /\ Streaming) /\ [Next]_vars => (Sending /\ Streaming)'
  BY SendingStep, StreamingStep
<1> QED
  BY <1>1, <1>2, SpecNegotiation, PTL DEF Spec

\* When nothing is under way, a buffer without a whole signal holds nothing.
LEMMA StreamingIntact == Streaming => SignalsIntact
<1> SUFFICES ASSUME Streaming, tunnel = "open"
             PROVE  /\ ~skipped
                    /\ IsPrefix(got, signals)
                    /\ Encoded(From(signals, Len(got) + 1)) = buf \o wire
                    /\ wire = <<>> => got = signals
  BY DEF SignalsIntact
<1>1. /\ signals \in Seq(Signals) /\ buf \in Seq(Byte) /\ skipped = FALSE
      /\ Len(got) \in 0 .. Len(signals) /\ got = SubSeq(signals, 1, Len(got))
      /\ Encoded(From(signals, Len(got) + 1)) = buf \o wire /\ DecodeSignal(buf) = More
  BY DEF Streaming, InFlight
<1>2. PICK g \in 0 .. Len(signals) : g = Len(got)
  BY <1>1, Zenon
<1>3. got \in Seq(Signals)
  BY <1>1, <1>2, FrontType
<1>4. IsPrefix(got, signals)
  <2>1. SubSeq(got, 1, Len(got)) = got
    BY <1>3, SubSeqFull
  <2>2. Len(got) <= Len(signals)
    BY <1>1, LenProperties
  <2> QED
    BY <1>1, <2>1, <2>2 DEF IsPrefix
<1>5. ASSUME wire = <<>> PROVE got = signals
  <2>1. Len(signals) \in Nat
    BY <1>1, LenProperties
  <2>2. CASE g = Len(signals)
    BY <1>1, <1>2, <2>2, SubSeqFull
  <2>3. CASE g # Len(signals)
    <3>1. PICK k \in 1 .. Len(signals) : k = g + 1
      BY <2>1, <2>3
    <3>2. PICK x \in Signals : x = signals[k]
      BY <1>1, LenProperties
    <3>3. PICK after \in Seq(Signals) : after = From(signals, k + 1)
      <4>1. k + 1 \in 1 .. Len(signals) + 1
        BY <2>1
      <4> QED
        BY <1>1, <4>1, FromType
    <3>4. From(signals, k) = <<x>> \o after
      <4>1. Len(signals) \in k .. Len(signals)
        BY <2>1
      <4> QED
        BY <1>1, <3>2, <3>3, <4>1, SubSeqRecursiveFirst DEF From
    <3>5. PICK e \in Seq(Byte) : e = EncodeSignal(x) /\ WellFormed(x)
      BY SignalsWellFormed, SignalBytes
    <3>6. PICK m \in Seq(Byte) : m = Encoded(after)
      BY EncodedConcat DEF EncodedIn
    <3>7. buf \o <<>> = e \o m
      <4>1. PICK one \in Seq(Signals) : one = <<x>> /\ Encoded(one) = e
        BY <3>5, EncodedOne
      <4>2. EncodedCat(one, after)
        BY EncodedConcat
      <4> QED
        BY <1>1, <1>2, <1>5, <3>1, <3>4, <3>6, <4>1, <4>2 DEF EncodedCat
    <3>8. Same(buf, <<>>, e, m) /\ <<>> \in Seq(Byte)
      BY <3>7, EmptyType DEF Same
    <3>9. SignalRead(x, buf)
      BY <1>1, <3>5, <3>8, SignalCut
    <3>10. ~ (Len(buf) < Len(e))
      <4>1. buf = e \o m
        BY <1>1, <3>7, EmptyType
      <4>2. Len(e \o m) = Len(e) + Len(m) /\ Len(e) \in Nat /\ Len(m) \in Nat
        BY ConcatProperties, LenProperties
      <4> QED
        BY <4>1, <4>2
    <3>11. DecodeSignal(buf) = Decoded(x, From(buf, Len(e) + 1))
      BY <3>5, <3>9, <3>10 DEF SignalRead
    <3>12. DecodeSignal(buf) # More
      BY <3>11 DEF Decoded, More
    <3> QED
      BY <1>1, <3>12
  <2> QED
    BY <2>2, <2>3
<1> QED
  BY <1>1, <1>4, <1>5

\* Wherever the reads cut the stream, whatever bytes the payloads hold: the reader
\* decodes the signals that were sent, in order, drops no byte and leaves no whole
\* signal behind (TunnelSignal::decode and the drain loop of the signal reader).
THEOREM SignalsSafe == Spec => []SignalsIntact
BY SpecStreaming, StreamingIntact, PTL

-----------------------------------------------------------------------------
(* Symbols.                                                                *)

\* What the header of a datagram says.
HeaderRead(bytes, b, k, esi) ==
  LET h == ParseHeader(bytes)
  IN  h.stream = StreamId /\ h.block = b /\ h.k = k /\ h.esi = esi

\* The header is read as it was written: its fields have room for every block, every
\* geometry and every symbol of a block.
LEMMA HeaderWhole ==
  ASSUME NEW b \in 0 .. MaxBlocks, NEW k \in 0 .. LargestK, NEW esi \in 0 .. LargestK + MaxRepair,
         NEW flags \in {0, REPAIR}
  PROVE  HeaderRead(EncodeHeader(StreamId, b, k, esi, flags), b, k, esi)
<1>1. b \in Word(W64) /\ StreamId \in Word(W64) /\ k \in Word(W16) /\ esi \in Word(W24)
  BY TransferAssumption
<1>2. flags \in Word(1) /\ flags \in 0 .. 10
  <2>1. flags \in 0 .. 10
    BY DEF REPAIR
  <2> QED
    BY <2>1, SmallWord
<1>3. PICK v : v = <<StreamId, b, k, esi, flags>>
  OBVIOUS
<1>4. \A w : \A n \in Word(w) : n \in Nat \cup Seq(Byte)
  BY WordType
<1>5. v \in Seq(Nat \cup Seq(Byte)) /\ Len(v) = 5
  <2>1. /\ StreamId \in Nat \cup Seq(Byte) /\ b \in Nat \cup Seq(Byte) /\ k \in Nat \cup Seq(Byte)
        /\ esi \in Nat \cup Seq(Byte) /\ flags \in Nat \cup Seq(Byte)
    BY <1>1, <1>2, <1>4
  <2> QED
    BY <1>3, <2>1
<1>6. HeaderLayout \in Seq(Types) /\ Len(HeaderLayout) = 5
  BY DEF HeaderLayout, Types
<1>7. \A i \in 1 .. 5 : v[i] \in FieldValues(HeaderLayout[i], 0)
  <2>1. \A i \in 1 .. 5 : i = 1 \/ i = 2 \/ i = 3 \/ i = 4 \/ i = 5
    OBVIOUS
  <2>2. /\ HeaderLayout[1] = "u64" /\ HeaderLayout[2] = "u64" /\ HeaderLayout[3] = "u16"
        /\ HeaderLayout[4] = "u24" /\ HeaderLayout[5] = "u8"
    BY DEF HeaderLayout
  <2>3. /\ FieldValues("u64", 0) = Word(W64) /\ FieldValues("u16", 0) = Word(W16)
        /\ FieldValues("u24", 0) = Word(W24) /\ FieldValues("u8", 0) = Word(1)
    BY DEF FieldValues, Width
  <2>4. v[1] = StreamId /\ v[2] = b /\ v[3] = k /\ v[4] = esi /\ v[5] = flags
    BY <1>3
  <2> QED
    BY <1>1, <1>2, <2>1, <2>2, <2>3, <2>4
<1>8. Fits(HeaderLayout, v, 0)
  BY <1>5, <1>6, <1>7 DEF Fits
<1>9. PICK bytes \in Seq(Byte) : bytes = PutFields(HeaderLayout, v)
  BY <1>8, PutFieldsType
<1>10. Same(bytes, <<>>, PutFields(HeaderLayout, v), <<>>) /\ <<>> \in Seq(Byte)
  BY <1>9, EmptyType DEF Same
<1>11. GetFields(HeaderLayout, bytes, 0) = FieldsRead(v, bytes, Len(bytes))
  BY <1>8, <1>9, <1>10, FieldsCut
<1>12. ~ (Len(bytes) < Len(bytes))
  BY LenProperties
<1>13. GetFields(HeaderLayout, bytes, 0).values = v
  BY <1>11, <1>12 DEF FieldsRead, Parsed
<1>14. ParseHeader(bytes) = [stream |-> v[1], block |-> v[2], k |-> v[3], esi |-> v[4],
                             flags |-> v[5] % KnownFlags]
  BY <1>13 DEF ParseHeader
<1>15. EncodeHeader(StreamId, b, k, esi, flags) = bytes
  BY <1>3, <1>9 DEF EncodeHeader
<1> QED
  BY <1>3, <1>14, <1>15 DEF HeaderRead

\* A padded block has the bytes of its symbols, the length and the payload first.
LEMMA PadType ==
  ASSUME NEW payload \in Seq(Byte), NEW size \in Nat, NEW k \in Nat
  PROVE  /\ PadBlock(payload, size, k) \in Seq(Byte)
         /\ Len(PadBlock(payload, size, k)) = size * k
         /\ \A i \in 1 .. size * k :
              i <= Len(Put(Len(payload), W32) \o payload) =>
                PadBlock(payload, size, k)[i] = (Put(Len(payload), W32) \o payload)[i]
<1>1. PICK m \in Nat : m = size * k
  OBVIOUS
<1>2. W32 \in Nat /\ Len(payload) \in Nat /\ 0 \in Byte
  BY WireAssumption, LenProperties DEF Byte
<1>3. PICK all \in Seq(Byte) : all = Put(Len(payload), W32) \o payload
  BY <1>2, PutType, ConcatProperties
<1>4. PICK n \in Nat : n = Len(all) /\ \A i \in 1 .. n : all[i] \in Byte
  BY LenProperties
<1>5. PICK p : p = [i \in 1 .. m |-> IF i <= n THEN all[i] ELSE 0]
  OBVIOUS
<1>6. p \in [1 .. m -> Byte] /\ \A i \in 1 .. m : i <= n => p[i] = all[i]
  BY <1>2, <1>4, <1>5
<1>7. p \in Seq(Byte) /\ Len(p) = m
  BY <1>6
<1>8. PadBlock(payload, size, k) = p
  BY <1>1, <1>3, <1>4, <1>5 DEF PadBlock
<1> QED
  BY <1>1, <1>3, <1>4, <1>6, <1>7, <1>8

\* The symbols of a block have room for its length and its payload.
LEMMA RoomFor ==
  ASSUME NEW n \in Nat, n # 0, NEW size \in Nat \ {0}, NEW maxK \in Nat \ {0},
         n <= MaxPayload(size, maxK)
  PROVE  W32 + n <= size * ActualK(n, size, maxK)
<1>1. W32 \in Nat \ {0}
  BY WireAssumption
<1>2. PICK all \in Nat : all = n + W32
  BY <1>1
<1>3. PICK q \in Nat : q = (all + size - 1) \div size
  OBVIOUS
<1>4. PICK r \in Nat : r = (all + size - 1) % size /\ r < size /\ all + size - 1 = (size * q) + r
  BY <1>3
<1>5. PICK x \in Nat : x = size * q /\ all + size - 1 = x + r
  BY <1>4
<1>6. all <= x
  BY <1>4, <1>5
<1>7. PICK k \in 1 .. maxK : k = ActualK(n, size, maxK)
  BY ActualKType
<1>8. k = AtLeast(AtMost(AtLeast(q, 1), maxK), 1)
  BY <1>2, <1>3, <1>7 DEF ActualK, LEN_PREFIX
<1>9. k = maxK \/ k >= q
  BY <1>8 DEF AtLeast, AtMost
<1>10. CASE k = maxK
  <2>1. PICK y \in Nat : y = size * maxK
    OBVIOUS
  <2>2. n <= y - W32
    BY <2>1 DEF MaxPayload, LEN_PREFIX
  <2>3. W32 + n <= y
    BY <1>1, <2>2
  <2> QED
    BY <1>7, <1>10, <2>1, <2>3
<1>11. CASE k >= q
  <2>1. size * q <= size * k
    BY <1>11, TimesMonotone
  <2>2. PICK y \in Nat : y = size * k
    OBVIOUS
  <2>3. W32 + n <= y
    BY <1>1, <1>2, <1>5, <1>6, <2>1, <2>2
  <2> QED
    BY <1>7, <2>2, <2>3
<1> QED
  BY <1>9, <1>10, <1>11

\* What was padded is had back.
THEOREM Unpadded ==
  ASSUME NEW payload \in Seq(Byte), NEW size \in Nat, NEW k \in Nat,
         Len(payload) \in Word(W32), W32 + Len(payload) <= size * k
  PROVE  UnpadBlock(PadBlock(payload, size, k)) = <<payload>>
<1>1. PICK w \in Nat, n \in Nat, m \in Nat :
        w = W32 /\ n = Len(payload) /\ m = size * k /\ n \in Word(w) /\ w + n <= m
  BY WireAssumption, LenProperties
<1>2. PICK put \in Seq(Byte) : put = Put(n, w) /\ Len(put) = w /\ Get(put) = n
  BY <1>1, PutType, GetPut
<1>3. PICK all \in Seq(Byte) :
        /\ all = put \o payload /\ Len(all) = w + n
        /\ \A i \in 1 .. w + n : all[i] = IF i <= w THEN put[i] ELSE payload[i - w]
  <2>1. /\ put \o payload \in Seq(Byte) /\ Len(put \o payload) = Len(put) + Len(payload)
        /\ \A i \in 1 .. Len(put) + Len(payload) :
             (put \o payload)[i] = IF i <= Len(put) THEN put[i] ELSE payload[i - Len(put)]
    BY ConcatProperties
  <2>2. PICK all \in Seq(Byte) : all = put \o payload
    BY <2>1
  <2>3. /\ Len(all) = Len(put) + Len(payload)
        /\ \A i \in 1 .. Len(put) + Len(payload) :
             all[i] = IF i <= Len(put) THEN put[i] ELSE payload[i - Len(put)]
    BY <2>1, <2>2
  <2>4. Len(put) = w /\ Len(payload) = n
    BY <1>1, <1>2
  <2>5. /\ Len(all) = w + n
        /\ \A i \in 1 .. w + n : all[i] = IF i <= w THEN put[i] ELSE payload[i - w]
    BY ONLY <2>3, <2>4
  <2> QED
    BY <2>2, <2>5
<1>4. PICK p \in Seq(Byte) : /\ p = PadBlock(payload, size, k) /\ Len(p) = m
                            /\ \A i \in 1 .. m : i <= w + n => p[i] = all[i]
  <2>1. /\ PadBlock(payload, size, k) \in Seq(Byte)
        /\ Len(PadBlock(payload, size, k)) = size * k
        /\ \A i \in 1 .. size * k :
             i <= Len(Put(Len(payload), W32) \o payload) =>
               PadBlock(payload, size, k)[i] = (Put(Len(payload), W32) \o payload)[i]
    BY PadType
  <2>2. Put(Len(payload), W32) \o payload = all /\ Len(all) = w + n
    BY <1>1, <1>2, <1>3
  <2> QED
    BY <1>1, <2>1, <2>2
<1>5. \A i \in 1 .. w : i \in 1 .. m /\ i \in 1 .. w + n /\ i <= w /\ i <= w + n
  BY <1>1
<1>6. SubSeq(p, 1, w) = put
  <2>1. w \in 0 .. Len(p)
    BY <1>1, <1>4
  <2>2. /\ SubSeq(p, 1, w) \in Seq(Byte) /\ Len(SubSeq(p, 1, w)) = w
        /\ \A i \in 1 .. w : SubSeq(p, 1, w)[i] = p[i]
    BY <2>1, FrontType
  <2>3. \A i \in 1 .. w : p[i] = put[i]
    BY <1>3, <1>4, <1>5
  <2> QED
    BY <1>2, <2>2, <2>3, SeqEqual
<1>7. PICK end \in Nat : end = w + n /\ w <= end /\ end <= m /\ end - w = n
  BY <1>1
<1>8. SubSeq(p, w + 1, end) = payload
  <2>1. /\ SubSeq(p, w + 1, end) \in Seq(Byte) /\ Len(SubSeq(p, w + 1, end)) = n
        /\ \A i \in 1 .. n : SubSeq(p, w + 1, end)[i] = p[w + i]
    <3>1. end <= Len(p)
      BY <1>4, <1>7
    <3>2. /\ SubSeq(p, w + 1, end) \in Seq(Byte) /\ Len(SubSeq(p, w + 1, end)) = end - w
          /\ \A i \in 1 .. end - w : SubSeq(p, w + 1, end)[i] = p[w + i]
      BY <1>7, <3>1, FrontJoin
    <3> QED
      BY <1>7, <3>2
  <2>2. ASSUME NEW i \in 1 .. n PROVE p[w + i] = payload[i]
    <3>1. PICK j \in 1 .. w + n : j = w + i /\ j \in 1 .. m /\ ~ (j <= w) /\ j - w = i /\ j <= w + n
      BY <1>1
    <3> QED
      BY <1>3, <1>4, <3>1
  <2> QED
    BY <1>1, <2>1, <2>2, SeqEqual
<1>9. ~ (Len(p) < W32) /\ ~ (end > Len(p))
  BY <1>1, <1>4, <1>7
<1>10. LEN_PREFIX + Get(SubSeq(p, 1, LEN_PREFIX)) = end
  BY <1>1, <1>2, <1>6, <1>7 DEF LEN_PREFIX
<1>11. UnpadBlock(p) = <<SubSeq(p, w + 1, end)>>
  BY <1>1, <1>9, <1>10 DEF UnpadBlock, LEN_PREFIX
<1> QED
  BY <1>4, <1>8, <1>11

\* The symbols of one block, each with the index in its header.
OfBlock(symbols, padded, size, k) ==
  /\ symbols # {} /\ Len(padded) = size * k
  /\ \A s \in symbols : s.esi = s.data.esi /\ s.data.of = padded

\* They decode to the payload or to nothing, and to the payload when the block's own
\* symbols are among them.
DecodesTo(symbols, payload, size, k) ==
  /\ Payloads(symbols, size, k) \subseteq {<<>>, <<payload>>}
  /\ 0 .. k - 1 \subseteq {s.esi : s \in symbols} =>
       Payloads(symbols, size, k) = {<<payload>>}

LEMMA DecodedRight ==
  ASSUME NEW symbols, NEW padded, NEW payload, NEW size, NEW k,
         OfBlock(symbols, padded, size, k), UnpadBlock(padded) = <<payload>>
  PROVE  DecodesTo(symbols, payload, size, k)
<1>1. {s.data.of : s \in symbols} = {padded}
  BY DEF OfBlock
<1>2. Cardinality({padded}) = 1
  BY FS_Singleton
<1>3. (CHOOSE x \in {padded} : TRUE) = padded
  OBVIOUS
<1>4. \A s \in symbols : s.esi = s.data.esi /\ Len(s.data.of) = size * k
  BY DEF OfBlock
<1>5. /\ RaptorQ(symbols, size, k) \subseteq {<<>>, <<padded>>}
      /\ 0 .. k - 1 \subseteq {s.esi : s \in symbols} => RaptorQ(symbols, size, k) = {<<padded>>}
  <2>1. RaptorQ(symbols, size, k)
          = IF 0 .. k - 1 \subseteq {s.esi : s \in symbols} THEN {<<padded>>}
            ELSE IF Cardinality({s.esi : s \in symbols}) >= k THEN {<<>>, <<padded>>}
            ELSE {<<>>}
    BY <1>1, <1>2, <1>3, <1>4, Zenon DEF RaptorQ
  <2> QED
    BY <2>1
<1>6. (IF <<padded>> = <<>> THEN <<>> ELSE UnpadBlock(<<padded>>[1])) = <<payload>>
  OBVIOUS
<1>7. Payloads(symbols, size, k)
        = {IF block = <<>> THEN <<>> ELSE UnpadBlock(block[1]) : block \in RaptorQ(symbols, size, k)}
  BY DEF Payloads
<1> DEFINE R == RaptorQ(symbols, size, k)
           F(block) == IF block = <<>> THEN <<>> ELSE UnpadBlock(block[1])
<1>8. F(<<>>) = <<>> /\ F(<<padded>>) = <<payload>>
  BY <1>6
<1>9. Payloads(symbols, size, k) = {F(block) : block \in R}
  BY <1>7
<1> HIDE DEF F, R
<1>10. ASSUME R \subseteq {<<>>, <<padded>>} PROVE {F(block) : block \in R} \subseteq {<<>>, <<payload>>}
  BY <1>8, <1>10
<1>11. ASSUME R = {<<padded>>} PROVE {F(block) : block \in R} = {<<payload>>}
  BY <1>8, <1>11
<1> QED
  BY <1>5, <1>9, <1>10, <1>11 DEF R, DecodesTo

-----------------------------------------------------------------------------
(* The sender's blocks and their symbols.                                  *)

Padded(b) == PadBlock(blocks[b + 1].payload, SymbolSize("client"), blocks[b + 1].k)

\* What every block has: symbols within the limits, with room for its payload.
Shaped(b) ==
  /\ b \in Ids /\ params["client"] # <<>>
  /\ blocks[b + 1].payload \in Seq(Byte) /\ blocks[b + 1].payload # <<>>
  /\ blocks[b + 1].k \in 1 .. K("client") /\ blocks[b + 1].k \in 1 .. LargestK
  /\ blocks[b + 1].repair \in 0 .. MaxRepair
  /\ Padded(b) \in Seq(Byte) /\ Len(Padded(b)) = SymbolSize("client") * blocks[b + 1].k
  /\ UnpadBlock(Padded(b)) = <<blocks[b + 1].payload>>

\* Every block that was sent has room for its payload and its prefix, and its padding
\* can be taken off.
LEMMA BlockShape ==
  ASSUME Negotiation, Sending, NEW b \in 0 .. Len(blocks) - 1
  PROVE  Shaped(b)
<1>1. PICK j : j = b + 1
  OBVIOUS
<1>2. blocks[j] \in Block /\ Filled(blocks[j]) /\ tunnel \in {"announced", "open"}
  BY <1>1, SentBlock
<1>3. params["client"] # <<>> /\ Geometry
  BY <1>2, NegotiatedGeometry DEF Sending
<1>4. b \in Ids
  <2>1. PICK n \in Nat, m \in Nat : n = Len(blocks) /\ m = MaxBlocks /\ n <= m
    BY TransferAssumption, LenProperties DEF Sending
  <2> QED
    BY <2>1 DEF Ids
<1>5. PICK payload \in Seq(Byte), k \in Nat, repair \in 0 .. MaxRepair :
        payload = blocks[j].payload /\ k = blocks[j].k /\ repair = blocks[j].repair
  BY <1>2 DEF Block
<1>6. PICK size \in Nat \ {0}, maxK \in 1 .. LargestK :
        size = SymbolSize("client") /\ maxK = K("client")
  BY <1>3 DEF Geometry
<1>7. PICK max \in Int : max = MaxPayload(size, maxK) /\ max <= MaxReliableData
  BY <1>3, <1>6 DEF Geometry
<1>8. PICK n \in Nat : n = Len(payload) /\ n \in 1 .. max
  <2>1. Len(payload) \in 1 .. max
    BY <1>2, <1>5, <1>6, <1>7 DEF Filled
  <2> QED
    BY <2>1
<1>9. LargestK \in Nat /\ maxK \in Nat \ {0}
  BY <1>6, TransferAssumption DEF LargestK, AtLeast
<1>10. k = ActualK(n, size, maxK) /\ k \in 1 .. maxK /\ k \in 1 .. LargestK
  <2>1. k = ActualK(n, size, maxK)
    BY <1>2, <1>5, <1>6, <1>8 DEF Filled
  <2>2. k \in 1 .. maxK
    BY <1>9, <2>1, ActualKType
  <2> QED
    BY <1>6, <1>9, <2>1, <2>2
<1>11. W32 + n <= size * k
  <2>1. n # 0 /\ n <= MaxPayload(size, maxK)
    BY <1>7, <1>8
  <2> QED
    BY <1>9, <1>10, <2>1, RoomFor
<1>12. n \in Word(W32)
  <2>1. MaxReliableData \in Nat /\ 0 .. MaxReliableData \subseteq Word(W32)
    BY WireAssumption
  <2>2. n \in 0 .. MaxReliableData
    BY <1>7, <1>8, <2>1
  <2> QED
    BY <2>1, <2>2
<1>13. PICK p \in Seq(Byte) : p = PadBlock(payload, size, k) /\ Len(p) = size * k
                              /\ UnpadBlock(p) = <<payload>>
  <2>1. size \in Nat /\ k \in Nat
    BY <1>6, <1>9, <1>10
  <2>2. /\ PadBlock(payload, size, k) \in Seq(Byte)
        /\ Len(PadBlock(payload, size, k)) = size * k
    BY <1>8, <2>1, PadType
  <2>3. UnpadBlock(PadBlock(payload, size, k)) = <<payload>>
    BY <1>8, <1>11, <1>12, <2>1, Unpadded
  <2> QED
    BY <2>2, <2>3
<1>14. Padded(b) = p
  BY <1>1, <1>5, <1>6, <1>13 DEF Padded
<1>15. payload # <<>>
  BY <1>8, EmptyType
<1> QED
  BY <1>1, <1>3, <1>4, <1>5, <1>6, <1>10, <1>13, <1>14, <1>15 DEF Shaped

\* The blocks there are stay as they are, but for the number of their symbols.
Kept ==
  /\ Len(blocks) <= Len(blocks')
  /\ \A b \in 0 .. Len(blocks) - 1 :
       /\ blocks'[b + 1].payload = blocks[b + 1].payload /\ blocks'[b + 1].k = blocks[b + 1].k
       /\ Padded(b)' = Padded(b)

\* A step that adds no block keeps the others.
LEMMA KeptSame ==
  ASSUME Negotiation, Sending, [Next]_vars, blocks' = blocks
  PROVE  Kept
<1>1. Len(blocks) <= Len(blocks')
  BY LenProperties DEF Sending
<1>2. ASSUME NEW b \in 0 .. Len(blocks) - 1 PROVE Padded(b)' = Padded(b)
  <2>1. params["client"] # <<>>
    BY BlockShape DEF Shaped
  <2>2. SymbolSize("client")' = SymbolSize("client")
    BY <2>1, ParamsKept DEF SymbolSize
  <2> QED
    BY <2>2 DEF Padded
<1> QED
  BY <1>1, <1>2 DEF Kept

\* The datagram of an index of a block.
Mint(p) == Symbol(StreamId, p[1], blocks[p[1] + 1].k, p[2], Padded(p[1]))
Piece(b, i) == [esi |-> i, data |-> [esi |-> i, of |-> Padded(b)]]

\* What was minted is under way, has arrived or is lost for good on its way.
Minting == seen \subseteq Minted /\ air = {Mint(p) : p \in Minted \ seen}

LEMMA MintedOf ==
  \A b, i : <<b, i>> \in Minted <=>
    b \in 0 .. Len(blocks) - 1 /\ i \in 0 .. blocks[b + 1].k + blocks[b + 1].repair - 1
BY DEF Minted

LEMMA MintedPairs ==
  \A p \in Minted : p = <<p[1], p[2]>>
BY DEF Minted

\* A datagram is for the block and has the index it was minted with.
MintRead(b, i) ==
  /\ HeaderRead(Mint(<<b, i>>).header, b, blocks[b + 1].k, i)
  /\ Mint(<<b, i>>).data = [esi |-> i, of |-> Padded(b)]

\* The receiver reads from a datagram the block, the index and the number of symbols
\* that the sender wrote into it.
LEMMA MintWhole ==
  ASSUME Negotiation, Sending, NEW b, NEW i, <<b, i>> \in Minted
  PROVE  b \in 0 .. Len(blocks) - 1 /\ i \in Nat /\ MintRead(b, i)
<1>1. b \in 0 .. Len(blocks) - 1 /\ i \in 0 .. blocks[b + 1].k + blocks[b + 1].repair - 1
  BY MintedOf
<1>2. Shaped(b)
  BY <1>1, BlockShape
<1>3. PICK k \in 1 .. LargestK, r \in 0 .. MaxRepair :
        k = blocks[b + 1].k /\ r = blocks[b + 1].repair
  BY <1>2 DEF Shaped
<1>4. LargestK \in Nat /\ MaxRepair \in Nat
  BY TransferAssumption DEF LargestK, AtLeast
<1>5. i \in 0 .. LargestK + MaxRepair /\ i \in Nat /\ k \in 0 .. LargestK
  <2>1. PICK x \in Nat, y \in Nat : x = LargestK /\ y = MaxRepair
    BY <1>4
  <2>2. k \in 1 .. x /\ r \in 0 .. y /\ i \in 0 .. k + r - 1
    BY <1>1, <1>3, <2>1
  <2>3. i \in 0 .. x + y /\ i \in Nat /\ k \in 0 .. x
    BY ONLY <2>2, x \in Nat, y \in Nat
  <2> QED
    BY <2>1, <2>3
<1>6. b \in 0 .. MaxBlocks
  BY <1>2, TransferAssumption DEF Shaped, Ids
<1>7. PICK flags \in {0, REPAIR} : flags = IF i >= k THEN REPAIR ELSE 0
  OBVIOUS
<1>8. HeaderRead(EncodeHeader(StreamId, b, k, i, flags), b, k, i)
  BY <1>5, <1>6, HeaderWhole
<1>9. /\ Mint(<<b, i>>).header = EncodeHeader(StreamId, b, k, i, flags)
      /\ Mint(<<b, i>>).data = [esi |-> i, of |-> Padded(b)]
  BY <1>3, <1>7 DEF Mint, Symbol
<1> QED
  BY <1>1, <1>3, <1>5, <1>8, <1>9 DEF MintRead

\* No two of them are alike.
LEMMA MintOnce ==
  ASSUME Negotiation, Sending, NEW p \in Minted, NEW q \in Minted, Mint(p) = Mint(q)
  PROVE  p = q
<1>1. MintRead(p[1], p[2]) /\ MintRead(q[1], q[2])
  BY MintedPairs, MintWhole
<1>2. Mint(<<p[1], p[2]>>) = Mint(<<q[1], q[2]>>)
  BY MintedPairs
<1>3. p[1] = q[1] /\ p[2] = q[2]
  BY <1>1, <1>2 DEF MintRead, HeaderRead
<1> QED
  BY <1>3, MintedPairs

\* Some more are minted.
LEMMA MintingGrows ==
  ASSUME Minting, NEW new, Minted' = Minted \cup new, seen' = seen, new \cap Minted = {},
         air' = air \cup {Mint(p)' : p \in new}, \A p \in Minted : Mint(p)' = Mint(p)
  PROVE  Minting'
<1>1. seen \subseteq Minted /\ air = {Mint(p) : p \in Minted \ seen}
  BY DEF Minting
<1>2. (Minted \cup new) \ seen = (Minted \ seen) \cup new
  BY <1>1
<1>3. air = {Mint(p)' : p \in Minted \ seen}
  BY <1>1
<1>4. air' = {Mint(p)' : p \in (Minted \cup new) \ seen}
  BY <1>2, <1>3
<1> QED
  BY <1>1, <1>4 DEF Minting

\* The datagrams that were minted do not depend on what is sent later.
LEMMA MintKept ==
  ASSUME Negotiation, Sending, Kept
  PROVE  \A p \in Minted : Mint(p)' = Mint(p)
<1> SUFFICES ASSUME NEW p \in Minted PROVE Mint(p)' = Mint(p)
  OBVIOUS
<1>1. PICK b : b = p[1] /\ b \in 0 .. Len(blocks) - 1
  BY MintedPairs, MintedOf
<1>2. blocks'[b + 1].k = blocks[b + 1].k /\ Padded(b)' = Padded(b)
  BY <1>1 DEF Kept
<1> QED
  BY <1>1, <1>2 DEF Mint

\* One of them arrives.
LEMMA MintingArrives ==
  ASSUME Negotiation, Sending, Minting, NEW q \in Minted \ seen, Minted' = Minted,
         air' = air \ {Mint(q)}, seen' = seen \cup {q}, \A p \in Minted : Mint(p)' = Mint(p)
  PROVE  Minting'
<1>1. seen \subseteq Minted /\ air = {Mint(p) : p \in Minted \ seen}
  BY DEF Minting
<1>2. seen' \subseteq Minted'
  BY <1>1
<1>3. \A p \in Minted : Mint(p) = Mint(q) => p = q
  BY MintOnce
<1>4. air' = {Mint(p) : p \in Minted \ (seen \cup {q})}
  BY <1>1, <1>3
<1>5. {Mint(p) : p \in Minted \ (seen \cup {q})} = {Mint(p)' : p \in Minted \ (seen \cup {q})}
  OBVIOUS
<1> QED
  BY <1>2, <1>4, <1>5 DEF Minting

\* A new block mints its source symbols and the repair the ratio adds.
LEMMA EmitKeeps ==
  ASSUME Negotiation, Sending, Minting, NEW n \in 1 .. Len(App), NEW repair \in 0 .. MaxRepair,
         EmitBlock(n, repair)
  PROVE  Kept /\ Minting'
<1>1. Len(blocks) \in Nat /\ params' = params /\ seen' = seen
  BY LenProperties DEF Sending, EmitBlock, controlVars
<1>2. Emitted(n, repair)
  BY SendingEmits
<1>3. Kept
  <2>1. ASSUME NEW b \in 0 .. Len(blocks) - 1 PROVE blocks'[b + 1] = blocks[b + 1]
    <3>1. PICK j \in 1 .. Len(blocks) : j = b + 1
      BY <1>1
    <3> QED
      BY <1>2, <3>1 DEF Emitted
  <2>2. SymbolSize("client")' = SymbolSize("client")
    BY <1>1 DEF SymbolSize
  <2>3. Len(blocks) <= Len(blocks')
    BY <1>1, <1>2 DEF Emitted
  <2> QED
    BY <2>1, <2>2, <2>3 DEF Kept, Padded
<1>4. PICK b \in Nat : b = Len(blocks)
  BY <1>1
<1>5. PICK size, payload, k :
        /\ size = SymbolSize("client") /\ payload = SubSeq(App, read + 1, read + n)
        /\ k = ActualK(n, size, K("client"))
  OBVIOUS
<1>6. blocks'[b + 1].payload = payload /\ blocks'[b + 1].k = k /\ blocks'[b + 1].repair = repair
  BY <1>2, <1>4, <1>5 DEF Emitted
<1> DEFINE new == {b} \X (0 .. k + repair - 1)
<1>7. Minted' = Minted \cup new
  <2>1. 0 .. Len(blocks') - 1 = (0 .. Len(blocks) - 1) \cup {b}
    BY <1>1, <1>2, <1>4 DEF Emitted
  <2>2. ASSUME NEW c \in 0 .. Len(blocks) - 1
        PROVE  blocks'[c + 1].k = blocks[c + 1].k /\ blocks'[c + 1].repair = blocks[c + 1].repair
    <3>1. PICK j \in 1 .. Len(blocks) : j = c + 1
      BY <1>1
    <3> QED
      BY <1>2, <3>1 DEF Emitted
  <2>3. \A p : p \in Minted <=>
          \E c \in 0 .. Len(blocks) - 1 :
            p \in {c} \X (0 .. blocks[c + 1].k + blocks[c + 1].repair - 1)
    BY DEF Minted
  <2>4. \A p : p \in Minted' <=>
          \E c \in 0 .. Len(blocks') - 1 :
            p \in {c} \X (0 .. blocks'[c + 1].k + blocks'[c + 1].repair - 1)
    BY DEF Minted
  <2>5. new = {b} \X (0 .. blocks'[b + 1].k + blocks'[b + 1].repair - 1)
    BY <1>6
  <2> HIDE DEF new
  <2>6. ASSUME NEW p, p \in Minted' PROVE p \in Minted \cup new
    <3>1. PICK c \in 0 .. Len(blocks') - 1 :
            p \in {c} \X (0 .. blocks'[c + 1].k + blocks'[c + 1].repair - 1)
      BY <2>4, <2>6
    <3>2. CASE c = b
      BY <2>5, <3>1, <3>2
    <3>3. CASE c \in 0 .. Len(blocks) - 1
      BY <2>2, <2>3, <3>1, <3>3
    <3> QED
      BY <2>1, <3>2, <3>3
  <2>7. ASSUME NEW p, p \in Minted PROVE p \in Minted'
    <3>1. PICK c \in 0 .. Len(blocks) - 1 :
            p \in {c} \X (0 .. blocks[c + 1].k + blocks[c + 1].repair - 1)
      BY <2>3, <2>7
    <3> QED
      BY <2>1, <2>2, <2>4, <3>1
  <2>8. ASSUME NEW p, p \in new PROVE p \in Minted'
    BY <2>1, <2>4, <2>5, <2>8
  <2> QED
    BY <2>6, <2>7, <2>8
<1>8. new \cap Minted = {}
  BY <1>4, MintedOf
<1>9. air' = air \cup {Mint(p)' : p \in new}
  <2>1. air' = air \cup Symbols(StreamId, b, payload, size, k, 0, k + repair - 1)
    BY <1>4, <1>5 DEF EmitBlock
  <2>2. PICK padded : padded = PadBlock(payload, size, k)
    OBVIOUS
  <2>3. Symbols(StreamId, b, payload, size, k, 0, k + repair - 1)
          = {Symbol(StreamId, b, k, esi, padded) : esi \in 0 .. k + repair - 1}
    BY <2>2 DEF Symbols
  <2>4. Padded(b)' = padded
    BY <1>1, <1>5, <1>6, <2>2 DEF Padded, SymbolSize
  <2>5. \A p \in new : Mint(p)' = Symbol(StreamId, b, k, p[2], padded)
    BY <1>6, <2>4 DEF Mint
  <2>6. {Mint(p)' : p \in new} = {Symbol(StreamId, b, k, esi, padded) : esi \in 0 .. k + repair - 1}
    <3>1. \A p \in new : p[2] \in 0 .. k + repair - 1
      OBVIOUS
    <3>2. \A esi \in 0 .. k + repair - 1 : <<b, esi>> \in new /\ <<b, esi>>[2] = esi
      OBVIOUS
    <3> HIDE DEF new
    <3>3. \A esi \in 0 .. k + repair - 1 : Mint(<<b, esi>>)' = Symbol(StreamId, b, k, esi, padded)
      BY <2>5, <3>2
    <3>4. ASSUME NEW p \in new
          PROVE  Mint(p)' \in {Symbol(StreamId, b, k, esi, padded) : esi \in 0 .. k + repair - 1}
      BY <2>5, <3>1
    <3>5. ASSUME NEW esi \in 0 .. k + repair - 1
          PROVE  Symbol(StreamId, b, k, esi, padded) \in {Mint(p)' : p \in new}
      BY <3>2, <3>3
    <3> QED
      BY <3>4, <3>5
  <2> QED
    BY <2>1, <2>3, <2>6
<1>10. \A p \in Minted : Mint(p)' = Mint(p)
  BY <1>3, MintKept
<1> HIDE DEF new
<1> QED
  BY <1>1, <1>3, <1>7, <1>8, <1>9, <1>10, MintingGrows

\* Additional repair mints the next index of its block.
LEMMA ExtendKeeps ==
  ASSUME Negotiation, Sending, Minting, NEW b \in 0 .. Len(blocks) - 1, AdditionalRepair(b)
  PROVE  Kept /\ Minting'
<1>1. Len(blocks) \in Nat /\ params' = params /\ seen' = seen
  BY LenProperties DEF Sending, AdditionalRepair, controlVars
<1>2. Extended(b) /\ Shaped(b)
  BY SendingExtends, BlockShape
<1>3. ASSUME NEW c \in 0 .. Len(blocks) - 1
      PROVE  /\ blocks'[c + 1].payload = blocks[c + 1].payload
             /\ blocks'[c + 1].k = blocks[c + 1].k
             /\ blocks'[c + 1].repair = IF c = b THEN blocks[c + 1].repair + 1
                                        ELSE blocks[c + 1].repair
  <2>1. PICK j \in 1 .. Len(blocks) : j = c + 1 /\ (j = b + 1 <=> c = b)
    BY <1>1
  <2> QED
    BY <1>2, <2>1 DEF Extended
<1>4. Kept
  <2>1. SymbolSize("client")' = SymbolSize("client")
    BY <1>1 DEF SymbolSize
  <2>2. Len(blocks) <= Len(blocks')
    BY <1>1, <1>2 DEF Extended
  <2> QED
    BY <1>3, <2>1, <2>2 DEF Kept, Padded
<1>5. PICK k \in Nat, r \in Nat, padded \in {Padded(b)} :
        k = blocks[b + 1].k /\ r = blocks[b + 1].repair /\ padded = Padded(b)
  <2>1. LargestK \in Nat
    BY TransferAssumption DEF LargestK, AtLeast
  <2> QED
    BY <1>2, <2>1 DEF Shaped
<1>6. PICK i \in Nat : i = k + r
  OBVIOUS
<1> DEFINE new == {<<b, i>>}
<1>7. Minted' = Minted \cup new
  <2>1. Len(blocks') = Len(blocks)
    BY <1>2 DEF Extended
  <2>2. \A p : p \in Minted <=>
          \E c \in 0 .. Len(blocks) - 1 :
            p \in {c} \X (0 .. blocks[c + 1].k + blocks[c + 1].repair - 1)
    BY DEF Minted
  <2>3. \A p : p \in Minted' <=>
          \E c \in 0 .. Len(blocks) - 1 :
            p \in {c} \X (0 .. blocks'[c + 1].k + blocks'[c + 1].repair - 1)
    BY <2>1 DEF Minted
  <2>4. 0 .. k + (r + 1) - 1 = (0 .. k + r - 1) \cup {i}
    BY <1>6
  <2>5. blocks'[b + 1].k = k /\ blocks'[b + 1].repair = r + 1
    BY <1>3, <1>5
  <2>6. ASSUME NEW p, p \in Minted' PROVE p \in Minted \cup new
    <3>1. PICK c \in 0 .. Len(blocks) - 1 :
            p \in {c} \X (0 .. blocks'[c + 1].k + blocks'[c + 1].repair - 1)
      BY <2>3, <2>6
    <3>2. CASE c = b
      <4>1. p \in {b} \X (0 .. k + r - 1) \/ p = <<b, i>>
        BY <2>4, <2>5, <3>1, <3>2
      <4> QED
        BY <1>5, <2>2, <4>1
    <3>3. CASE c # b
      BY <1>3, <2>2, <3>1, <3>3
    <3> QED
      BY <3>2, <3>3
  <2>7. ASSUME NEW p, p \in Minted PROVE p \in Minted'
    <3>1. PICK c \in 0 .. Len(blocks) - 1 :
            p \in {c} \X (0 .. blocks[c + 1].k + blocks[c + 1].repair - 1)
      BY <2>2, <2>7
    <3>2. CASE c = b
      <4>1. p \in {b} \X (0 .. k + (r + 1) - 1)
        BY <1>5, <2>4, <3>1, <3>2
      <4> QED
        BY <2>3, <2>5, <4>1
    <3>3. CASE c # b
      BY <1>3, <2>3, <3>1, <3>3
    <3> QED
      BY <3>2, <3>3
  <2>8. <<b, i>> \in Minted'
    <3>1. <<b, i>> \in {b} \X (0 .. k + (r + 1) - 1)
      BY <2>4
    <3> QED
      BY <2>3, <2>5, <3>1
  <2> QED
    BY <2>6, <2>7, <2>8
<1>8. new \cap Minted = {}
  <2>1. <<b, i>> \in Minted => i \in 0 .. blocks[b + 1].k + blocks[b + 1].repair - 1
    BY MintedOf
  <2>2. <<b, i>> \notin Minted
    BY <1>5, <1>6, <2>1
  <2> QED
    BY <2>2
<1>9. air' = air \cup {Mint(p)' : p \in new}
  <2>1. air' = air \cup Symbols(StreamId, b, blocks[b + 1].payload, SymbolSize("client"), k, i, i)
    BY <1>5, <1>6 DEF AdditionalRepair, RepairFrom
  <2>2. Symbols(StreamId, b, blocks[b + 1].payload, SymbolSize("client"), k, i, i)
          = {Symbol(StreamId, b, k, i, padded)}
    <3>1. i .. i = {i}
      OBVIOUS
    <3> QED
      BY <1>5, <3>1 DEF Symbols, Padded
  <2>3. Mint(<<b, i>>)' = Symbol(StreamId, b, k, i, padded)
    <3>1. blocks'[b + 1].k = k /\ Padded(b)' = padded
      BY <1>4, <1>5 DEF Kept
    <3> QED
      BY <3>1 DEF Mint
  <2> QED
    BY <2>1, <2>2, <2>3
<1>10. \A p \in Minted : Mint(p)' = Mint(p)
  BY <1>4, MintKept
<1> HIDE DEF new
<1> QED
  BY <1>1, <1>4, <1>7, <1>8, <1>9, <1>10, MintingGrows

\* The arrival of a datagram, as that of a symbol of a block.
ArrivalOf(b, i) ==
  /\ <<b, i>> \in Minted \ seen
  /\ seen' = seen \cup {<<b, i>>} /\ air' = air \ {Mint(<<b, i>>)}
  /\ \E h : /\ h.block = b /\ h.esi = i /\ h.k = blocks[b + 1].k
            /\ \/ b >= next /\ OnSymbol(h, [esi |-> i, of |-> Padded(b)])
               \/ b < next /\ UNCHANGED <<pool, ready, next, written>>

\* Every datagram that arrives is a symbol of a block that was sent, and its first
\* arrival.
LEMMA SymbolArrival ==
  ASSUME Negotiation, Sending, Minting, NEW d \in air, SymbolArrives(d)
  PROVE  \E b \in 0 .. Len(blocks) - 1, i \in Nat : ArrivalOf(b, i)
<1>1. PICK p \in Minted \ seen : d = Mint(p)
  BY DEF Minting
<1>2. PICK b, i : p = <<b, i>>
  BY <1>1, MintedPairs
<1>3. b \in 0 .. Len(blocks) - 1 /\ i \in Nat /\ MintRead(b, i)
  BY <1>1, <1>2, MintWhole
<1>4. PICK h : h = ParseHeader(d.header)
  OBVIOUS
<1>5. /\ h.block = b /\ h.k = blocks[b + 1].k /\ h.esi = i
      /\ d.data = [esi |-> i, of |-> Padded(b)]
  BY <1>1, <1>2, <1>3, <1>4 DEF MintRead, HeaderRead
<1>6. /\ air' = air \ {d} /\ seen' = seen \cup {<<h.block, h.esi>>}
      /\ \/ h.block >= next /\ OnSymbol(h, d.data)
         \/ h.block < next /\ UNCHANGED <<pool, ready, next, written>>
  BY <1>4 DEF SymbolArrives
<1>7. seen' = seen \cup {<<b, i>>} /\ air' = air \ {Mint(<<b, i>>)} /\ <<b, i>> \in Minted \ seen
  BY <1>1, <1>2, <1>5, <1>6
<1>8. \/ b >= next /\ OnSymbol(h, [esi |-> i, of |-> Padded(b)])
      \/ b < next /\ UNCHANGED <<pool, ready, next, written>>
  BY <1>5, <1>6
<1> QED
  BY <1>3, <1>5, <1>7, <1>8 DEF ArrivalOf

LEMMA MintingInit == Init => Minting
<1> SUFFICES ASSUME Init PROVE Minting
  OBVIOUS
<1>1. seen = {} /\ air = {} /\ blocks = <<>>
  BY DEF Init
<1>2. 0 .. Len(blocks) - 1 = {}
  BY <1>1, EmptyType
<1>3. Minted = {}
  BY <1>2 DEF Minted
<1> QED
  BY <1>1, <1>3 DEF Minting

LEMMA MintingStep ==
  ASSUME Negotiation, Sending, Minting, [Next]_vars
  PROVE  Kept /\ Minting'
<1>1. ASSUME UNCHANGED <<blocks, air, seen>> PROVE Kept /\ Minting'
  <2>1. Kept
    BY <1>1, KeptSame
  <2>2. \A p \in Minted : Mint(p)' = Mint(p)
    BY <2>1, MintKept
  <2>3. PICK new : new = {}
    OBVIOUS
  <2>4. Minted' = Minted /\ {Mint(p)' : p \in new} = {}
    BY <1>1, <2>3 DEF Minted
  <2>5. /\ Minted' = Minted \cup new /\ new \cap Minted = {} /\ seen' = seen
        /\ air' = air \cup {Mint(p)' : p \in new}
    BY <1>1, <2>3, <2>4
  <2> QED
    BY <2>1, <2>2, <2>5, MintingGrows
<1>2. CASE Handshake
  <2>1. UNCHANGED <<blocks, air, seen>>
    BY <1>2 DEF Handshake, ServerAnswers, ClientHears, Announce, Register, upVars
  <2> QED
    BY <1>1, <2>1
<1>3. CASE Upstream
  <2>1. ASSUME NEW n \in 1 .. Len(App), NEW repair \in 0 .. MaxRepair, EmitBlock(n, repair)
        PROVE  Kept /\ Minting'
    BY <2>1, EmitKeeps
  <2>2. ASSUME NEW b \in 0 .. Len(blocks) - 1, AdditionalRepair(b) PROVE Kept /\ Minting'
    BY <2>2, ExtendKeeps
  <2>3. ASSUME ReadEof \/ (\E b \in 0 .. Len(blocks) - 1 : SendCopy(b))
               \/ (\E s \in OtherSignals : SendOther(s))
        PROVE  Kept /\ Minting'
    <3>1. UNCHANGED <<blocks, air, seen>>
      BY <2>3 DEF ReadEof, SendCopy, SendOther, upVars
    <3> QED
      BY <1>1, <3>1
  <2> QED
    BY <1>3, <2>1, <2>2, <2>3 DEF Upstream
<1>4. CASE Reader
  <2>1. UNCHANGED <<blocks, air, seen>>
    BY <1>4 DEF Reader, ReadWire, upVars
  <2> QED
    BY <1>1, <2>1
<1>5. CASE Downstream
  <2>1. ASSUME NEW d \in air, SymbolArrives(d) PROVE Kept /\ Minting'
    <3>1. blocks' = blocks
      BY <2>1 DEF SymbolArrives, upVars
    <3>2. Kept
      BY <3>1, KeptSame
    <3>3. PICK b, i : ArrivalOf(b, i)
      BY <2>1, SymbolArrival
    <3>4. Minted' = Minted
      BY <3>1 DEF Minted
    <3>5. /\ <<b, i>> \in Minted \ seen /\ seen' = seen \cup {<<b, i>>}
          /\ air' = air \ {Mint(<<b, i>>)}
      BY <3>3 DEF ArrivalOf
    <3>6. \A p \in Minted : Mint(p)' = Mint(p)
      BY <3>2, MintKept
    <3> QED
      BY <3>2, <3>4, <3>5, <3>6, MintingArrives
  <2>2. ASSUME CopyArrives \/ (\E b \in Ids : Degrade(b)) PROVE Kept /\ Minting'
    <3>1. UNCHANGED <<blocks, air, seen>>
      BY <2>2 DEF CopyArrives, Degrade, upVars
    <3> QED
      BY <1>1, <3>1
  <2> QED
    BY <1>5, <2>1, <2>2 DEF Downstream
<1>6. CASE UNCHANGED vars
  BY <1>1, <1>6 DEF vars, upVars
<1> QED
  BY <1>2, <1>3, <1>4, <1>5, <1>6 DEF Next

\* The datagrams under way are those of the indices that were given out and have not
\* arrived (emit and emit_additional_repair).
THEOREM SpecMinting == Spec => []Minting
<1>1. Negotiation /\ Sending /\ Minting /\ [Next]_vars => Minting'
  BY MintingStep
<1> QED
  BY <1>1, MintingInit, SpecNegotiation, SpecStreaming, PTL DEF Spec

LEMMA MintedFinite ==
  ASSUME Negotiation, Sending
  PROVE  IsFiniteSet(Minted)
<1>1. PICK n \in Nat, m \in Nat : n = MaxBlocks /\ m = LargestK + MaxRepair
  BY TransferAssumption DEF LargestK, AtLeast
<1>2. LargestK \in Nat /\ MaxRepair \in Nat
  BY TransferAssumption DEF LargestK, AtLeast
<1>3. \A p \in Minted : p \in (0 .. n) \X (0 .. m)
  <2> SUFFICES ASSUME NEW p \in Minted PROVE p \in (0 .. n) \X (0 .. m)
    OBVIOUS
  <2>1. PICK b, i : p = <<b, i>>
    BY MintedPairs
  <2>2. b \in 0 .. Len(blocks) - 1 /\ i \in 0 .. blocks[b + 1].k + blocks[b + 1].repair - 1
    BY <2>1, MintedOf
  <2>3. Shaped(b)
    BY <2>2, BlockShape
  <2>4. PICK k \in 1 .. LargestK, r \in 0 .. MaxRepair :
          k = blocks[b + 1].k /\ r = blocks[b + 1].repair
    BY <2>3 DEF Shaped
  <2>5. b \in 0 .. n
    BY <1>1, <2>3 DEF Shaped, Ids
  <2>6. i \in 0 .. m
    <3>1. PICK x \in Nat, y \in Nat : x = LargestK /\ y = MaxRepair
      BY <1>2
    <3>2. k \in 1 .. x /\ r \in 0 .. y /\ i \in 0 .. k + r - 1 /\ m = x + y
      BY <1>1, <2>2, <2>4, <3>1
    <3> QED
      BY ONLY <3>2, x \in Nat, y \in Nat
  <2> QED
    BY <2>1, <2>5, <2>6
<1>4. IsFiniteSet(0 .. n) /\ IsFiniteSet(0 .. m)
  BY FS_Interval
<1>5. IsFiniteSet((0 .. n) \X (0 .. m))
  BY <1>4, FS_Product
<1> QED
  BY <1>3, <1>5, FS_Subset

\* No datagram stands for two symbols, so that they can be counted.
LEMMA MintingFresh == Negotiation /\ Sending /\ Minting => EsisFresh
<1> SUFFICES ASSUME Negotiation, Sending, Minting PROVE EsisFresh
  OBVIOUS
<1>1. seen \subseteq Minted /\ air = {Mint(p) : p \in Minted \ seen}
  BY DEF Minting
<1>2. IsFiniteSet(Minted) /\ Cardinality(Minted) \in Nat
  BY MintedFinite, FS_CardinalityType
<1>3. IsFiniteSet(seen) /\ Cardinality(seen) \in Nat
  BY <1>1, <1>2, FS_Subset, FS_CardinalityType
<1> DEFINE left == Minted \ seen
<1>4. IsFiniteSet(left) /\ Cardinality(left) = Cardinality(Minted) - Cardinality(seen)
  <2>1. Minted \cap seen = seen
    BY <1>1
  <2> QED
    BY <1>2, <2>1, FS_Difference
<1>5. PICK f : f = [p \in left |-> Mint(p)]
  OBVIOUS
<1>6. f \in Bijection(left, air)
  <2>1. f \in [left -> air] /\ \A p \in left : f[p] = Mint(p)
    BY <1>1, <1>5
  <2>2. \A p, q \in left : f[p] = f[q] => p = q
    BY <2>1, MintOnce
  <2>3. \A d \in air : \E p \in left : f[p] = d
    BY <1>1, <2>1
  <2>4. IsInjective(f)
    BY <2>1, <2>2 DEF IsInjective
  <2> HIDE DEF left
  <2> QED
    BY <2>1, <2>3, <2>4 DEF Bijection, Injection, Surjection
<1>7. Cardinality(air) = Cardinality(left)
  <2>1. ExistsBijection(left, air)
    BY <1>6 DEF ExistsBijection
  <2> HIDE DEF left
  <2> QED
    BY <1>4, <2>1, FS_Bijection
<1> QED
  BY <1>2, <1>3, <1>4, <1>7 DEF EsisFresh

\* No symbol is ever minted twice, by whatever order of blocks, NACKs and top-ups: as
\* many datagrams are under way or arrived as there are indices given out
\* (additional_repair and repair_sent).
THEOREM EsisSafe == Spec => []EsisFresh
BY SpecNegotiation, SpecStreaming, SpecMinting, MintingFresh, PTL

-----------------------------------------------------------------------------
(* Reliable copies.                                                        *)

\* A sequence over a set is one over every larger set.
LEMMA SeqWithin ==
  ASSUME NEW S, NEW T, S \subseteq T, NEW s \in Seq(S)
  PROVE  s \in Seq(T)
<1>1. Len(s) \in Nat /\ s \in [1 .. Len(s) -> S]
  BY LenProperties
<1>2. s \in [1 .. Len(s) -> T]
  BY <1>1
<1> QED
  BY <1>1, <1>2

\* The copies among some of the signals are among the copies of all.
LEMMA DataWithin ==
  ASSUME NEW ss \in Seq(Signals), NEW g \in 0 .. Len(ss)
  PROVE  DataOf(From(ss, g + 1)) \subseteq DataOf(ss)
<1>1. PICK m \in Nat, n \in Nat : m = Len(ss) /\ n = m - g /\ g + n = m
  BY LenProperties
<1>2. PICK t : t = From(ss, g + 1) /\ Len(t) = n /\ \A i \in 1 .. n : t[i] = ss[g + i]
  <2>1. /\ Len(From(ss, g + 1)) = Len(ss) - g
        /\ \A i \in 1 .. Len(ss) - g : From(ss, g + 1)[i] = ss[g + i]
    BY FromPast
  <2> QED
    BY <1>1, <2>1
<1>3. ASSUME NEW i \in 1 .. n, t[i].kind = "data" PROVE t[i] \in DataOf(ss)
  <2>1. PICK j \in 1 .. m : j = g + i
    BY <1>1
  <2>2. t[i] = ss[j] /\ ss[j].kind = "data"
    BY <1>2, <1>3, <2>1
  <2> QED
    BY <1>1, <2>2 DEF DataOf
<1> QED
  BY <1>2, <1>3 DEF DataOf

LEMMA DataAppended ==
  ASSUME NEW ss \in Seq(Signals), NEW s \in Signals
  PROVE  \A x \in DataOf(Append(ss, s)) : x \in DataOf(ss) \/ (x = s /\ s.kind = "data")
<1>1. PICK t \in Seq(Signals), n \in Nat :
        /\ t = Append(ss, s) /\ n = Len(ss) /\ Len(t) = n + 1
        /\ (\A i \in 1 .. n : t[i] = ss[i]) /\ t[n + 1] = s
  <2>1. PICK t \in Seq(Signals) : t = Append(ss, s)
    BY AppendProperties
  <2>2. /\ Len(Append(ss, s)) = Len(ss) + 1 /\ Append(ss, s)[Len(ss) + 1] = s
        /\ \A i \in 1 .. Len(ss) : Append(ss, s)[i] = ss[i]
    BY AppendProperties
  <2>3. PICK n \in Nat : n = Len(ss)
    BY LenProperties
  <2> QED
    BY <2>1, <2>2, <2>3
<1>2. ASSUME NEW i \in 1 .. n + 1, t[i].kind = "data"
      PROVE  t[i] \in DataOf(ss) \/ (t[i] = s /\ s.kind = "data")
  <2>1. CASE i \in 1 .. n
    <3>1. ss[i] = t[i] /\ ss[i].kind = "data" /\ i \in 1 .. Len(ss)
      BY <1>1, <1>2, <2>1
    <3>2. ss[i] \in DataOf(ss)
      BY <3>1 DEF DataOf
    <3>3. t[i] = ss[i]
      BY <3>1
    <3> QED
      BY <3>2, <3>3, Zenon
  <2>2. CASE i = n + 1
    BY <1>1, <1>2, <2>2
  <2> QED
    BY <2>1, <2>2
<1> QED
  BY <1>1, <1>2 DEF DataOf

\* Every copy that was sent holds a block, the one it names.
CopySet == {Signal("data", <<b, blocks[b + 1].payload>>) : b \in 0 .. Len(blocks) - 1}
Copying == DataOf(signals) \subseteq CopySet /\ relData \in Seq(CopySet)

LEMMA CopyingInit == Init => Copying
BY EmptyType DEF Init, Copying, DataOf

\* What a copy holds stays what its block holds.
LEMMA CopySetKept ==
  ASSUME Sending, Kept
  PROVE  CopySet \subseteq CopySet'
<1>1. Len(blocks) \in Nat
  BY LenProperties DEF Sending
<1>2. ASSUME NEW b \in 0 .. Len(blocks) - 1
      PROVE  /\ blocks'[b + 1].payload = blocks[b + 1].payload /\ b \in 0 .. Len(blocks') - 1
  <2>1. blocks'[b + 1].payload = blocks[b + 1].payload /\ Len(blocks) <= Len(blocks')
    BY DEF Kept
  <2> QED
    BY <1>1, <2>1
<1> QED
  BY <1>2 DEF CopySet

\* A signal is sent, and if it is a copy it holds a block.
LEMMA CopyingSends ==
  ASSUME Sending, Streaming, Copying, Kept, NEW s \in Signals, Send(s), relData' = relData,
         s.kind = "data" => s \in CopySet
  PROVE  Copying'
<1>1. CopySet \subseteq CopySet'
  BY CopySetKept
<1>2. relData' \in Seq(CopySet')
  BY <1>1, SeqWithin DEF Copying
<1>3. signals \in Seq(Signals) /\ signals' = Append(signals, s)
  BY DEF Streaming, Send
<1>4. \A x \in DataOf(signals') : x \in DataOf(signals) \/ (x = s /\ s.kind = "data")
  BY <1>3, DataAppended
<1> QED
  BY <1>1, <1>2, <1>4 DEF Copying

\* What the drain loop hands on are copies that were sent.
LEMMA CopyingReads ==
  ASSUME Sending, Streaming, Copying, Kept, NEW n \in Chunks, ReadWire(n)
  PROVE  Copying'
<1>1. CopySet \subseteq CopySet' /\ signals' = signals
  BY CopySetKept DEF ReadWire
<1>2. PICK d \in Loop(From(signals, Len(got) + 1), wire') : relData' = relData \o d.copies
  BY StreamingReads
<1>3. d.copies \in Seq(DataOf(From(signals, Len(got) + 1)))
  BY <1>2 DEF Loop
<1>4. DataOf(From(signals, Len(got) + 1)) \subseteq DataOf(signals)
  <2>1. signals \in Seq(Signals) /\ Len(got) \in 0 .. Len(signals)
    BY DEF ReadWire, Streaming, InFlight
  <2> QED
    BY <2>1, DataWithin
<1>5. DataOf(signals) \subseteq CopySet /\ relData \in Seq(CopySet)
  BY DEF Copying
<1>6. d.copies \in Seq(CopySet)
  BY <1>3, <1>4, <1>5, SeqWithin
<1>7. relData' \in Seq(CopySet)
  BY <1>2, <1>5, <1>6, ConcatProperties
<1>8. relData' \in Seq(CopySet')
  BY <1>1, <1>7, SeqWithin
<1> QED
  BY <1>1, <1>5, <1>8 DEF Copying

LEMMA CopyingStep ==
  ASSUME Negotiation, Sending, Streaming, Minting, Copying, [Next]_vars
  PROVE  Copying'
<1>0. Kept
  BY MintingStep
<1>1. ASSUME UNCHANGED <<signals, relData>> PROVE Copying'
  <2>1. CopySet \subseteq CopySet'
    BY <1>0, CopySetKept
  <2>2. relData' \in Seq(CopySet')
    BY <1>1, <2>1, SeqWithin DEF Copying
  <2> QED
    BY <1>1, <2>1, <2>2 DEF Copying
<1>2. CASE Handshake
  BY <1>1, <1>2 DEF Handshake, ServerAnswers, ClientHears, Announce, Register, streamVars, receiveVars
<1>3. CASE Upstream
  <2>0. Len(blocks) \in Nat /\ Len(blocks) <= MaxBlocks /\ MaxBlocks \in Nat
    BY LenProperties, TransferAssumption DEF Sending
  <2>1. ASSUME NEW n \in 1 .. Len(App), NEW repair \in 0 .. MaxRepair, EmitBlock(n, repair)
        PROVE  Copying'
    <3>1. Len(blocks) + 1 \in 0 .. MaxBlocks
      BY <2>0, <2>1 DEF EmitBlock
    <3>2. PICK s \in Signals : s = Signal("highWater", <<Len(blocks) + 1>>)
      BY <3>1, NumberSignal
    <3>3. Send(s) /\ relData' = relData /\ s.kind # "data"
      BY <2>1, <3>2 DEF EmitBlock, receiveVars, Signal
    <3> QED
      BY <1>0, <3>3, CopyingSends
  <2>2. ASSUME ReadEof PROVE Copying'
    <3>1. Len(blocks) \in 0 .. MaxBlocks
      BY <2>0
    <3>2. PICK s \in Signals : s = Signal("count", <<Len(blocks)>>)
      BY <3>1, NumberSignal
    <3>3. Send(s) /\ relData' = relData /\ s.kind # "data"
      BY <2>2, <3>2 DEF ReadEof, BlockTotal, receiveVars, Signal
    <3> QED
      BY <1>0, <3>3, CopyingSends
  <2>3. ASSUME NEW b \in 0 .. Len(blocks) - 1, AdditionalRepair(b) PROVE Copying'
    BY <1>1, <2>3 DEF AdditionalRepair, streamVars, receiveVars
  <2>4. ASSUME NEW b \in 0 .. Len(blocks) - 1, SendCopy(b) PROVE Copying'
    <3>1. PICK s \in Signals : s = Signal("data", <<b, blocks[b + 1].payload>>)
      BY SentBlock
    <3>2. Send(s) /\ relData' = relData /\ s \in CopySet
      BY <2>4, <3>1 DEF SendCopy, receiveVars, CopySet
    <3> QED
      BY <1>0, <3>2, CopyingSends
  <2>5. ASSUME NEW s \in OtherSignals, SendOther(s) PROVE Copying'
    <3>1. s \in Signals /\ s.kind # "data" /\ Send(s) /\ relData' = relData
      BY <2>5, OtherSignal DEF SendOther, receiveVars
    <3> QED
      BY <1>0, <3>1, CopyingSends
  <2> QED
    BY <1>3, <2>1, <2>2, <2>3, <2>4, <2>5 DEF Upstream
<1>4. CASE Reader
  BY <1>0, <1>4, CopyingReads DEF Reader
<1>5. CASE Downstream
  <2>1. ASSUME (\E d \in air : SymbolArrives(d)) \/ (\E b \in Ids : Degrade(b)) PROVE Copying'
    BY <1>1, <2>1 DEF SymbolArrives, Degrade, streamVars
  <2>2. ASSUME CopyArrives PROVE Copying'
    <3>1. relData # <<>> /\ relData' = Tail(relData) /\ signals' = signals
      BY <2>2 DEF CopyArrives, streamVars
    <3>2. relData' \in Seq(CopySet)
      BY <3>1, HeadTailProperties DEF Copying
    <3>3. CopySet \subseteq CopySet'
      BY <1>0, CopySetKept
    <3>4. relData' \in Seq(CopySet')
      BY <3>2, <3>3, SeqWithin
    <3> QED
      BY <3>1, <3>3, <3>4 DEF Copying
  <2> QED
    BY <1>5, <2>1, <2>2 DEF Downstream
<1>6. CASE UNCHANGED vars
  BY <1>1, <1>6 DEF vars, streamVars, receiveVars
<1> QED
  BY <1>2, <1>3, <1>4, <1>5, <1>6 DEF Next

-----------------------------------------------------------------------------
(* The receiver.                                                           *)

Pieces == [esi : Nat, data : [esi : Nat, of : Seq(Byte)]]
Managers == [k : Nat, symbols : SUBSET Pieces, degraded : BOOLEAN]

\* A manager has the geometry of its block and symbols of that block only.
Managed(b) ==
  pool[b] # NoManager =>
    /\ b \in 0 .. Len(blocks) - 1 /\ pool[b].k = blocks[b + 1].k
    /\ \A s \in pool[b].symbols : s = Piece(b, s.esi)
Held(b) ==
  ready[b] # <<>> => b \in 0 .. Len(blocks) - 1 /\ ready[b] = blocks[b + 1].payload

Receiving ==
  /\ next \in 0 .. Len(blocks)
  /\ written = FlattenSeq(SubSeq(Contents(blocks), 1, next))
  /\ ready \in [Ids -> Seq(Byte)] /\ pool \in [Ids -> Managers]
  /\ \A b \in Ids : Held(b) /\ Managed(b)

LEMMA ReceivingInit == Init => Receiving
<1> SUFFICES ASSUME Init PROVE Receiving
  OBVIOUS
<1>1. /\ next = 0 /\ written = <<>> /\ blocks = <<>>
      /\ pool = [b \in Ids |-> NoManager] /\ ready = [b \in Ids |-> <<>>]
  BY DEF Init
<1>2. next \in 0 .. Len(blocks)
  BY <1>1, EmptyType
<1>3. written = FlattenSeq(SubSeq(Contents(blocks), 1, next))
  <2>1. SubSeq(Contents(blocks), 1, 0) = <<>>
    BY SubSeqEmpty
  <2> QED
    BY <1>1, <2>1, FlattenEmpty
<1>4. ready \in [Ids -> Seq(Byte)] /\ pool \in [Ids -> Managers]
  BY <1>1 DEF NoManager, Managers
<1>5. \A b \in Ids : Held(b) /\ Managed(b)
  BY <1>1 DEF Held, Managed
<1> QED
  BY <1>2, <1>3, <1>4, <1>5 DEF Receiving

\* What is written does not depend on blocks that come later.
LEMMA ContentsKept ==
  ASSUME Sending, Sending', Kept, NEW n \in 0 .. Len(blocks)
  PROVE  /\ n \in 0 .. Len(blocks')
         /\ SubSeq(Contents(blocks'), 1, n) = SubSeq(Contents(blocks), 1, n)
<1>1. PICK c : c = Contents(blocks)
  OBVIOUS
<1>2. PICK d : d = Contents(blocks')
  OBVIOUS
<1>3. /\ c \in Seq(Seq(Byte)) /\ Len(c) = Len(blocks) /\ Len(blocks) \in Nat
      /\ \A i \in 1 .. Len(blocks) : c[i] = blocks[i].payload
  BY <1>1, ContentsType, LenProperties DEF Sending
<1>4. /\ d \in Seq(Seq(Byte)) /\ Len(d) = Len(blocks') /\ Len(blocks') \in Nat
      /\ \A i \in 1 .. Len(blocks') : d[i] = blocks'[i].payload
  BY <1>2, ContentsType, LenProperties DEF Sending
<1>5. Len(blocks) <= Len(blocks')
  BY DEF Kept
<1>6. n \in 0 .. Len(c) /\ n \in 0 .. Len(d)
  BY <1>3, <1>4, <1>5
<1>7. ASSUME NEW i \in 1 .. n PROVE d[i] = c[i]
  <2>1. PICK b \in 0 .. Len(blocks) - 1 : i = b + 1
    <3>1. i - 1 \in 0 .. Len(blocks) - 1 /\ i = (i - 1) + 1
      BY <1>3
    <3> QED
      BY <3>1
  <2>2. blocks'[i].payload = blocks[i].payload
    BY <2>1 DEF Kept
  <2>3. i \in 1 .. Len(blocks) /\ i \in 1 .. Len(blocks')
    BY <1>3, <1>4, <1>5
  <2> QED
    BY <1>3, <1>4, <2>2, <2>3
<1>8. SubSeq(c, 1, n) \in Seq(Seq(Byte)) /\ Len(SubSeq(c, 1, n)) = n
      /\ \A i \in 1 .. n : SubSeq(c, 1, n)[i] = c[i]
  BY <1>3, <1>6, FrontType
<1>9. SubSeq(d, 1, n) \in Seq(Seq(Byte)) /\ Len(SubSeq(d, 1, n)) = n
      /\ \A i \in 1 .. n : SubSeq(d, 1, n)[i] = d[i]
  BY <1>4, <1>6, FrontType
<1>10. SubSeq(d, 1, n) = SubSeq(c, 1, n)
  BY <1>7, <1>8, <1>9, SeqEqual
<1> QED
  BY <1>1, <1>2, <1>4, <1>6, <1>10

\* A step of another task, which may add a block.
LEMMA ReceivingKept ==
  ASSUME Sending, Sending', Kept, Receiving, UNCHANGED <<next, written, ready, pool>>
  PROVE  Receiving'
<1>1. /\ next' \in 0 .. Len(blocks')
      /\ written' = FlattenSeq(SubSeq(Contents(blocks'), 1, next'))
  BY ContentsKept DEF Receiving
<1>2. ASSUME NEW b \in 0 .. Len(blocks) - 1
      PROVE  /\ b \in 0 .. Len(blocks') - 1
             /\ blocks'[b + 1].payload = blocks[b + 1].payload /\ blocks'[b + 1].k = blocks[b + 1].k
             /\ Padded(b)' = Padded(b)
  <2>1. Len(blocks) \in Nat /\ Len(blocks') \in Nat
    BY LenProperties DEF Sending
  <2>2. /\ blocks'[b + 1].payload = blocks[b + 1].payload /\ blocks'[b + 1].k = blocks[b + 1].k
        /\ Padded(b)' = Padded(b) /\ Len(blocks) <= Len(blocks')
    BY DEF Kept
  <2> QED
    BY <2>1, <2>2
<1>3. ASSUME NEW b \in Ids PROVE Held(b)' /\ Managed(b)'
  <2>1. Held(b) /\ Managed(b)
    BY DEF Receiving
  <2>2. Held(b)'
    BY <1>2, <2>1 DEF Held
  <2>3. Managed(b)'
    BY <1>2, <2>1 DEF Managed, Piece
  <2> QED
    BY <2>2, <2>3
<1> QED
  BY <1>1, <1>3 DEF Receiving

\* A block is settled once it is written, waits for its turn or waits for its copy.
Decided(b) == b < next \/ ready[b] # <<>> \/ pool[b].degraded

Settles(b) ==
  /\ next <= next' /\ pool' = [pool EXCEPT ![b] = NoManager]
  /\ \A c \in Ids : c = b \/ Decided(c) => Decided(c)'

\* drain_ready writes the blocks that follow what is written, each the one that was
\* sent.
LEMMA DeliverReceives ==
  ASSUME Negotiation, Sending, Receiving, blocks' = blocks, params' = params,
         NEW b \in 0 .. Len(blocks) - 1, b >= next, Deliver(b, blocks[b + 1].payload)
  PROVE  Receiving' /\ Settles(b)
<1>1. PICK n \in Nat, m \in Nat, x \in Nat :
        n = Len(blocks) /\ m = MaxBlocks /\ x = next /\ n <= m /\ x <= n
  <2>1. Len(blocks) \in Nat /\ MaxBlocks \in Nat /\ Len(blocks) <= MaxBlocks
    BY TransferAssumption, LenProperties DEF Sending
  <2>2. next \in Nat /\ next <= Len(blocks)
    BY <2>1 DEF Receiving
  <2> QED
    BY <2>1, <2>2
<1>2. PICK payload \in Seq(Byte) : payload = blocks[b + 1].payload /\ payload # <<>>
  BY BlockShape DEF Shaped
<1>3. b \in Ids /\ Ids = 0 .. m - 1
  BY <1>1, BlockShape DEF Shaped, Ids
<1>4. ready \in [Ids -> Seq(Byte)] /\ pool \in [Ids -> Managers]
      /\ \A c \in Ids : Held(c) /\ Managed(c)
  BY DEF Receiving
<1>5. PICK held : held = [ready EXCEPT ![b] = payload]
  OBVIOUS
<1>6. /\ held \in [Ids -> Seq(Byte)] /\ held[b] = payload
      /\ \A c \in Ids : c # b => held[c] = ready[c]
  BY <1>3, <1>4, <1>5
<1>7. ASSUME NEW c \in Ids, held[c] # <<>>
      PROVE  c \in 0 .. n - 1 /\ held[c] = blocks[c + 1].payload
  <2>1. CASE c = b
    BY <1>1, <1>2, <1>6, <2>1
  <2>2. CASE c # b
    BY <1>1, <1>4, <1>6, <1>7, <2>2 DEF Held
  <2> QED
    BY <2>1, <2>2
<1>8. PICK floor \in next .. MaxBlocks :
        /\ \A c \in next .. floor - 1 : held[c] # <<>>
        /\ next' = floor
        /\ written' = written \o FlattenSeq([i \in 1 .. floor - next |-> held[next + i - 1]])
        /\ ready' = [c \in Ids |-> IF c < floor THEN <<>> ELSE held[c]]
        /\ pool' = [pool EXCEPT ![b] = NoManager]
  <2>1. Deliver(b, payload)
    BY <1>2
  <2> DEFINE settled(h) ==
        \E floor \in next .. MaxBlocks :
          /\ \A c \in next .. floor - 1 : h[c] # <<>>
          /\ floor < MaxBlocks => h[floor] = <<>>
          /\ next' = floor
          /\ written' = written \o FlattenSeq([i \in 1 .. floor - next |-> h[next + i - 1]])
          /\ ready' = [c \in Ids |-> IF c < floor THEN <<>> ELSE h[c]]
          /\ pool' = [pool EXCEPT ![b] = NoManager]
  <2>2. settled([ready EXCEPT ![b] = payload])
    BY <2>1, Zenon DEF Deliver
  <2>3. settled(held)
    <3> HIDE DEF settled
    <3> QED
      BY <1>5, <2>2, Zenon
  <2> QED
    BY <2>3
<1>9. PICK y \in Nat : y = floor /\ x <= y /\ y <= m /\ y <= n
  <2>1. floor \in Nat /\ x <= floor /\ floor <= m
    BY <1>1, <1>8
  <2>2. ASSUME ~ (floor <= n) PROVE FALSE
    <3>1. n \in next .. floor - 1 /\ n \in Ids
      BY <1>1, <1>3, <2>1, <2>2
    <3>2. held[n] # <<>>
      BY <1>8, <3>1
    <3>3. n \in 0 .. n - 1
      BY <1>7, <3>1, <3>2
    <3> QED
      BY <3>3
  <2> QED
    BY <2>1, <2>2
<1>10. PICK U : U = Seq(Byte)
  OBVIOUS
<1>11. PICK c \in Seq(U) : /\ c = Contents(blocks) /\ Len(c) = n
                          /\ \A i \in 1 .. n : c[i] = blocks[i].payload
  <2>1. /\ Contents(blocks) \in Seq(Seq(Byte)) /\ Len(Contents(blocks)) = Len(blocks)
        /\ \A i \in 1 .. Len(blocks) : Contents(blocks)[i] = blocks[i].payload
    BY ContentsType DEF Sending
  <2> QED
    BY <1>1, <1>10, <2>1
<1>12. PICK part : part = [i \in 1 .. y - x |-> held[x + i - 1]]
  OBVIOUS
<1>13. /\ SubSeq(c, 1, x) \o SubSeq(c, x + 1, y) = SubSeq(c, 1, y)
       /\ SubSeq(c, x + 1, y) \in Seq(U) /\ Len(SubSeq(c, x + 1, y)) = y - x
       /\ \A i \in 1 .. y - x : SubSeq(c, x + 1, y)[i] = c[x + i]
  BY <1>9, <1>11, FrontJoin
<1>14. part = SubSeq(c, x + 1, y)
  <2>1. ASSUME NEW i \in 1 .. y - x PROVE held[x + i - 1] = c[x + i] /\ held[x + i - 1] \in U
    <3>1. PICK j \in Nat : j = x + i - 1 /\ j \in next .. floor - 1 /\ j \in Ids /\ x + i = j + 1
                           /\ j + 1 \in 1 .. n
      BY <1>1, <1>3, <1>9
    <3>2. held[j] = blocks[j + 1].payload
      BY <1>7, <1>8, <3>1
    <3> QED
      BY <1>6, <1>10, <1>11, <3>1, <3>2
  <2>2. part \in Seq(U) /\ Len(part) = y - x
    <3>1. PICK l \in Nat : l = y - x
      BY <1>9
    <3>2. part \in [1 .. l -> U]
      BY <1>12, <2>1, <3>1
    <3>3. PICK f \in [1 .. l -> U] : f = part
      BY <3>2
    <3>4. f \in Seq(U) /\ Len(f) = l
      BY ONLY l \in Nat, f \in [1 .. l -> U]
    <3> QED
      BY <3>1, <3>3, <3>4, Zenon
  <2>3. \A i \in 1 .. y - x : part[i] = SubSeq(c, x + 1, y)[i]
    BY <1>12, <1>13, <2>1
  <2> QED
    BY <1>13, <2>2, <2>3, SeqEqual
<1>15. written' = FlattenSeq(SubSeq(c, 1, y))
  <2>1. PICK s \in Seq(U), t \in Seq(U) : s = SubSeq(c, 1, x) /\ t = SubSeq(c, x + 1, y)
    <3>1. x \in 0 .. Len(c)
      BY <1>1, <1>11
    <3> QED
      BY <1>13, <3>1, FrontType
  <2>2. written = FlattenSeq(s)
    BY <1>1, <1>11, <2>1 DEF Receiving
  <2>3. FlattenSeq(s \o t) = FlattenSeq(s) \o FlattenSeq(t)
    <3>1. U = Seq(Byte)
      BY <1>10
    <3> QED
      BY ONLY <3>1, s \in Seq(U), t \in Seq(U), FlattenCat
  <2>4. written' = written \o FlattenSeq(t)
    BY <1>1, <1>8, <1>9, <1>12, <1>14, <2>1
  <2> QED
    BY <1>13, <2>1, <2>2, <2>3, <2>4
<1>16. ready' \in [Ids -> Seq(Byte)] /\ pool' \in [Ids -> Managers]
  <2>1. NoManager \in Managers
    BY DEF NoManager, Managers
  <2>2. <<>> \in Seq(Byte)
    BY EmptyType
  <2> QED
    BY <1>3, <1>4, <1>6, <1>8, <2>1, <2>2
<1>17. ASSUME NEW d \in Ids PROVE Held(d)' /\ Managed(d)'
  <2>1. ready'[d] # <<>> => ready'[d] = held[d]
    BY <1>8
  <2>2. Held(d)'
    BY <1>1, <1>7, <2>1 DEF Held
  <2>3. pool'[d] # NoManager => pool'[d] = pool[d]
    BY <1>3, <1>4, <1>8
  <2>4. Piece(d, 0)' = Piece(d, 0) /\ \A i : Piece(d, i)' = Piece(d, i)
    BY DEF Piece, Padded, SymbolSize
  <2>5. Managed(d)'
    BY <1>4, <2>3, <2>4 DEF Managed
  <2> QED
    BY <2>2, <2>5
<1>18. next' \in 0 .. Len(blocks') /\ written' = FlattenSeq(SubSeq(Contents(blocks'), 1, next'))
  <2>1. next' = y /\ blocks' = blocks
    BY <1>8, <1>9
  <2>2. next' \in 0 .. Len(blocks')
    BY <1>1, <1>9, <2>1
  <2>3. SubSeq(Contents(blocks'), 1, next') = SubSeq(c, 1, y)
    BY <1>11, <2>1, Zenon
  <2> QED
    BY <1>15, <2>2, <2>3
<1>19. Receiving'
  BY <1>16, <1>17, <1>18 DEF Receiving
<1>20. ASSUME NEW d \in Ids, d = b \/ Decided(d) PROVE Decided(d)'
  <2>1. next' = y /\ (d < y \/ ready'[d] = held[d])
    BY <1>8, <1>9
  <2>2. CASE d = b
    BY <1>2, <1>6, <2>1, <2>2 DEF Decided
  <2>3. CASE d # b
    <3>1. pool'[d] = pool[d] /\ held[d] = ready[d]
      BY <1>3, <1>4, <1>6, <1>8, <2>3
    <3>2. d < next => d < y
      BY <1>1, <1>3, <1>9
    <3> QED
      BY <1>20, <2>1, <2>3, <3>1, <3>2 DEF Decided
  <2> QED
    BY <2>2, <2>3
<1> QED
  BY <1>1, <1>8, <1>9, <1>19, <1>20 DEF Settles

\* What the arrival of a symbol does to a block that is not written yet.
Esis(b) == {s.esi : s \in pool[b].symbols}
Recorded(b, i) ==
  \/ pool[b].degraded /\ UNCHANGED <<pool, ready, next, written>>
  \/ Settles(b)
  \/ /\ UNCHANGED <<ready, next, written>>
     /\ \A c \in Ids : c # b => pool'[c] = pool[c]
     /\ pool'[b].symbols = pool[b].symbols \cup {Piece(b, i)} /\ ~pool[b].degraded
     /\ ~ (0 .. blocks[b + 1].k - 1 \subseteq Esis(b)')

\* on_symbol writes nothing but the block the symbol is of, and keeps a symbol only of
\* a block that it cannot decode.
LEMMA SymbolReceives ==
  ASSUME Negotiation, Sending, Receiving, blocks' = blocks, params' = params,
         NEW b \in 0 .. Len(blocks) - 1, b >= next, NEW i \in Nat,
         NEW h, h.block = b, h.esi = i, h.k = blocks[b + 1].k,
         OnSymbol(h, [esi |-> i, of |-> Padded(b)])
  PROVE  Receiving' /\ Recorded(b, i)
<1>1. Shaped(b) /\ Geometry
  BY BlockShape, NegotiatedGeometry DEF Shaped
<1>2. PICK size \in Nat, k \in Nat, payload \in Seq(Byte), padded \in Seq(Byte) :
        /\ size = SymbolSize("server") /\ k = blocks[b + 1].k /\ k \in 1 .. K("server")
        /\ payload = blocks[b + 1].payload /\ padded = Padded(b)
        /\ Len(padded) = size * k /\ UnpadBlock(padded) = <<payload>>
  <2>1. /\ SymbolSize("server") = SymbolSize("client") /\ K("server") = K("client")
        /\ SymbolSize("client") \in Nat
    BY <1>1 DEF Geometry
  <2>2. PICK maxK \in Nat : maxK = K("client") /\ blocks[b + 1].k \in 1 .. maxK
    <3>1. LargestK \in Nat
      BY TransferAssumption DEF LargestK, AtLeast
    <3> QED
      BY <1>1, <3>1 DEF Geometry, Shaped
  <2>3. /\ blocks[b + 1].payload \in Seq(Byte) /\ Padded(b) \in Seq(Byte)
        /\ Len(Padded(b)) = SymbolSize("client") * blocks[b + 1].k
        /\ UnpadBlock(Padded(b)) = <<blocks[b + 1].payload>>
    BY <1>1 DEF Shaped
  <2> QED
    BY <2>1, <2>2, <2>3
<1>3. b \in Ids
  BY <1>1 DEF Shaped
<1>4. /\ ready \in [Ids -> Seq(Byte)] /\ pool \in [Ids -> Managers]
      /\ \A c \in Ids : Held(c) /\ Managed(c)
  BY DEF Receiving
<1>5. PICK piece : piece = Piece(b, i)
  OBVIOUS
<1>6. piece \in Pieces /\ piece = [esi |-> h.esi, data |-> [esi |-> i, of |-> Padded(b)]]
  BY <1>2, <1>5 DEF Piece, Pieces
<1>7. PICK symbols : symbols = pool[b].symbols \cup {piece}
  OBVIOUS
<1>8. symbols \in SUBSET Pieces /\ \A s \in symbols : s = Piece(b, s.esi)
  <2>1. \A s \in pool[b].symbols : s \in Pieces /\ s = Piece(b, s.esi)
    <3>1. CASE pool[b] = NoManager
      BY <3>1 DEF NoManager
    <3>2. CASE pool[b] # NoManager
      BY <1>3, <1>4, <3>2 DEF Managed, Managers
    <3> QED
      BY <3>1, <3>2
  <2>2. piece = Piece(b, piece.esi)
    BY <1>5 DEF Piece
  <2> QED
    BY <1>6, <1>7, <2>1, <2>2
<1>9. OfBlock(symbols, padded, size, k)
  <2>1. \A s \in symbols : s.esi = s.data.esi /\ s.data.of = padded
    BY <1>2, <1>8 DEF Piece
  <2> QED
    BY <1>2, <1>7, <2>1 DEF OfBlock
<1>10. DecodesTo(symbols, payload, size, k)
  BY <1>2, <1>9, DecodedRight
<1>11. PICK kk : kk = IF pool[b] # NoManager THEN pool[b].k ELSE BlockK(h)
  OBVIOUS
<1>12. kk = k
  <2>1. CASE pool[b] # NoManager
    BY <1>2, <1>3, <1>4, <1>11, <2>1 DEF Managed
  <2>2. CASE pool[b] = NoManager
    <3>1. PICK maxK \in Nat : maxK = K("server")
      <4>1. LargestK \in Nat
        BY TransferAssumption DEF LargestK, AtLeast
      <4> QED
        BY <1>1, <4>1 DEF Geometry
    <3> QED
      BY <1>2, <1>11, <2>2, <3>1 DEF BlockK, AtLeast, AtMost
  <2> QED
    BY <2>1, <2>2
<1>13. \/ pool[b].degraded /\ UNCHANGED <<pool, ready, next, written>>
       \/ /\ ~pool[b].degraded
          /\ \E p \in Payloads(symbols, size, k) :
               \/ p # <<>> /\ Deliver(b, p[1])
               \/ /\ p = <<>>
                  /\ pool' = [pool EXCEPT ![b].k = k, ![b].symbols = symbols]
                  /\ UNCHANGED <<ready, next, written>>
  <2> DEFINE after(bb, sz, sy, k_) ==
        \/ pool[bb].degraded /\ UNCHANGED <<pool, ready, next, written>>
        \/ /\ ~pool[bb].degraded
           /\ \E p \in Payloads(sy, sz, k_) :
                \/ p # <<>> /\ Deliver(bb, p[1])
                \/ /\ p = <<>>
                   /\ pool' = [pool EXCEPT ![bb].k = k_, ![bb].symbols = sy]
                   /\ UNCHANGED <<ready, next, written>>
  <2>1. after(h.block, SymbolSize("server"),
              pool[h.block].symbols \cup {[esi |-> h.esi, data |-> [esi |-> i, of |-> Padded(b)]]},
              IF pool[h.block] # NoManager THEN pool[h.block].k ELSE BlockK(h))
    BY Zenon DEF OnSymbol
  <2>2. pool[h.block].symbols \cup {[esi |-> h.esi, data |-> [esi |-> i, of |-> Padded(b)]]} = symbols
    BY <1>6, <1>7
  <2>3. (IF pool[h.block] # NoManager THEN pool[h.block].k ELSE BlockK(h)) = k
    BY <1>11, <1>12
  <2>4. after(b, size, symbols, k)
    <3> HIDE DEF after
    <3> QED
      BY <1>2, <2>1, <2>2, <2>3, Zenon
  <2> QED
    BY <2>4
<1>14. CASE pool[b].degraded /\ UNCHANGED <<pool, ready, next, written>>
  <2>1. Receiving'
    <3>1. \A c \in Ids : Held(c)' /\ Managed(c)'
      BY <1>4, <1>14 DEF Held, Managed, Piece, Padded, SymbolSize
    <3> QED
      BY <1>14, <3>1 DEF Receiving
  <2> QED
    BY <1>14, <2>1 DEF Recorded
<1>15. CASE Deliver(b, payload)
  BY <1>2, <1>15, DeliverReceives DEF Recorded
<1>16. CASE /\ ~pool[b].degraded /\ <<>> \in Payloads(symbols, size, k)
            /\ pool' = [pool EXCEPT ![b].k = k, ![b].symbols = symbols]
            /\ UNCHANGED <<ready, next, written>>
  <2>1. PICK q \in Managers : q = pool[b]
    BY <1>3, <1>4
  <2>2. PICK m \in Managers : /\ m = [pool[b] EXCEPT !.k = k, !.symbols = symbols]
                              /\ m.k = k /\ m.symbols = symbols
    <3>1. PICK x, y, z : q = [k |-> x, symbols |-> y, degraded |-> z]
      BY <2>1 DEF Managers
    <3>3. [q EXCEPT !.k = k, !.symbols = symbols] = [k |-> k, symbols |-> symbols, degraded |-> z]
      <4>1. PICK w : w = [q EXCEPT !.k = k]
        OBVIOUS
      <4>2. w = [k |-> k, symbols |-> y, degraded |-> z]
        BY ONLY <3>1, <4>1
      <4>3. [w EXCEPT !.symbols = symbols] = [k |-> k, symbols |-> symbols, degraded |-> z]
        BY ONLY <4>2
      <4>4. [q EXCEPT !.k = k, !.symbols = symbols] = [w EXCEPT !.symbols = symbols]
        BY <4>1, Zenon
      <4> QED
        BY <4>3, <4>4
    <3>2. q.degraded \in BOOLEAN
      BY <2>1 DEF Managers
    <3> QED
      BY <1>2, <1>8, <2>1, <3>1, <3>2, <3>3 DEF Managers
  <2>3. pool' = [pool EXCEPT ![b] = m]
    BY <1>3, <1>4, <1>16, <2>2
  <2>4. pool' \in [Ids -> Managers] /\ pool'[b] = m /\ \A c \in Ids : c # b => pool'[c] = pool[c]
    BY <1>3, <1>4, <2>3
  <2>5. \A c, j : Piece(c, j)' = Piece(c, j)
    BY DEF Piece, Padded, SymbolSize
  <2>6. ASSUME NEW c \in Ids PROVE Held(c)' /\ Managed(c)'
    <3>1. Held(c)'
      BY <1>4, <1>16 DEF Held
    <3>2. CASE c = b
      BY <1>2, <1>8, <2>2, <2>4, <2>5, <3>1, <3>2 DEF Managed
    <3>3. CASE c # b
      BY <1>4, <2>4, <2>5, <3>1, <3>3 DEF Managed
    <3> QED
      BY <3>2, <3>3
  <2>7. Receiving'
    BY <1>4, <1>16, <2>4, <2>6 DEF Receiving
  <2>8. ~ (0 .. k - 1 \subseteq {s.esi : s \in symbols})
    <3>1. <<>> # <<payload>>
      OBVIOUS
    <3>2. Payloads(symbols, size, k) # {<<payload>>}
      BY <1>16, <3>1
    <3> QED
      BY <1>10, <3>2, Zenon DEF DecodesTo
  <2> QED
    BY <1>2, <1>5, <1>7, <1>16, <2>2, <2>4, <2>7, <2>8 DEF Recorded, Esis
<1>17. ASSUME NEW p \in Payloads(symbols, size, k), p # <<>>, Deliver(b, p[1])
       PROVE  Deliver(b, payload)
  <2>1. p = <<payload>>
    BY <1>10, <1>17 DEF DecodesTo
  <2>2. p[1] = payload
    BY <2>1
  <2> QED
    BY <1>17, <2>2
<1> QED
  BY <1>13, <1>14, <1>15, <1>16, <1>17

\* on_reliable_block delivers the block the copy names, or ignores a copy of one that
\* is written.
LEMMA CopyReceives ==
  ASSUME Negotiation, Sending, Copying, Receiving, CopyArrives
  PROVE  /\ Receiving' /\ seen' = seen /\ blocks' = blocks
         /\ \/ UNCHANGED <<pool, ready, next>>
            \/ \E b \in 0 .. Len(blocks) - 1 : Settles(b)
<1>1. /\ blocks' = blocks /\ params' = params /\ seen' = seen /\ relData # <<>>
      /\ LET b == Head(relData).fields[1] IN
           \/ b >= next /\ Deliver(b, Head(relData).fields[2])
           \/ b < next /\ UNCHANGED <<pool, ready, next, written>>
  BY DEF CopyArrives, upVars, controlVars
<1>2. PICK x \in CopySet : x = Head(relData)
  BY <1>1, HeadTailProperties DEF Copying
<1>3. PICK b \in 0 .. Len(blocks) - 1 : x = Signal("data", <<b, blocks[b + 1].payload>>)
  BY <1>2 DEF CopySet
<1>4. Head(relData).fields[1] = b /\ Head(relData).fields[2] = blocks[b + 1].payload
  BY <1>2, <1>3 DEF Signal
<1>5. \/ b >= next /\ Deliver(b, blocks[b + 1].payload)
      \/ b < next /\ UNCHANGED <<pool, ready, next, written>>
  BY <1>1, <1>4
<1>6. CASE b >= next /\ Deliver(b, blocks[b + 1].payload)
  BY <1>1, <1>6, DeliverReceives
<1>7. CASE UNCHANGED <<pool, ready, next, written>>
  <2>1. \A c \in Ids : Held(c)' /\ Managed(c)'
    BY <1>1, <1>7 DEF Receiving, Held, Managed, Piece, Padded, SymbolSize
  <2>2. Receiving'
    BY <1>1, <1>7, <2>1 DEF Receiving
  <2> QED
    BY <1>1, <1>7, <2>2
<1> QED
  BY <1>5, <1>6, <1>7

\* What the arrival of a datagram changes.
Arrives(b, i) ==
  /\ seen' = seen \cup {<<b, i>>} /\ blocks' = blocks
  /\ \/ Recorded(b, i)
     \/ b < next /\ UNCHANGED <<pool, ready, next>>

\* A datagram of a block that is written is ignored.
LEMMA ArrivalReceives ==
  ASSUME Negotiation, Sending, Minting, Receiving, NEW d \in air, SymbolArrives(d)
  PROVE  Receiving' /\ \E b \in 0 .. Len(blocks) - 1, i \in Nat : Arrives(b, i)
<1>1. blocks' = blocks /\ params' = params
  BY DEF SymbolArrives, upVars, controlVars
<1>2. \E b \in 0 .. Len(blocks) - 1, i \in Nat : ArrivalOf(b, i)
  BY SymbolArrival
<1>3. PICK b \in 0 .. Len(blocks) - 1, i \in Nat : ArrivalOf(b, i)
  BY <1>2
<1>4. PICK h : /\ h.block = b /\ h.esi = i /\ h.k = blocks[b + 1].k
               /\ \/ b >= next /\ OnSymbol(h, [esi |-> i, of |-> Padded(b)])
                  \/ b < next /\ UNCHANGED <<pool, ready, next, written>>
  BY <1>3 DEF ArrivalOf
<1>5. seen' = seen \cup {<<b, i>>}
  BY <1>3 DEF ArrivalOf
<1>6. CASE b >= next /\ OnSymbol(h, [esi |-> i, of |-> Padded(b)])
  <2>1. Receiving' /\ Recorded(b, i)
    BY <1>1, <1>4, <1>6, SymbolReceives
  <2> QED
    BY <1>1, <1>5, <2>1 DEF Arrives
<1>7. CASE b < next /\ UNCHANGED <<pool, ready, next, written>>
  <2>1. \A c \in Ids : Held(c)' /\ Managed(c)'
    BY <1>1, <1>7 DEF Receiving, Held, Managed, Piece, Padded, SymbolSize
  <2>2. Receiving'
    BY <1>1, <1>7, <2>1 DEF Receiving
  <2> QED
    BY <1>1, <1>5, <1>7, <2>2 DEF Arrives
<1> QED
  BY <1>4, <1>6, <1>7

\* A block given up for its copy keeps its symbols.
LEMMA DegradeReceives ==
  ASSUME Negotiation, Sending, Receiving, NEW b \in Ids, Degrade(b)
  PROVE  /\ Receiving' /\ UNCHANGED <<seen, blocks, ready, next>>
         /\ pool'[b].degraded /\ \A c \in Ids : c # b => pool'[c] = pool[c]
<1>1. /\ pool[b] # NoManager /\ pool' = [pool EXCEPT ![b].degraded = TRUE]
      /\ UNCHANGED <<seen, blocks, params, ready, next, written>>
  BY DEF Degrade, upVars, controlVars
<1>2. /\ ready \in [Ids -> Seq(Byte)] /\ pool \in [Ids -> Managers]
      /\ \A c \in Ids : Held(c) /\ Managed(c)
  BY DEF Receiving
<1>3. PICK q \in Managers : q = pool[b]
  BY <1>2
<1>4. PICK x \in Nat, y \in SUBSET Pieces, z \in BOOLEAN :
        q = [k |-> x, symbols |-> y, degraded |-> z]
  BY <1>3 DEF Managers
<1>5. PICK m : m = [q EXCEPT !.degraded = TRUE]
  OBVIOUS
<1>6. m = [k |-> x, symbols |-> y, degraded |-> TRUE]
  BY ONLY <1>4, <1>5
<1>7. m \in Managers /\ m.k = q.k /\ m.symbols = q.symbols /\ m.degraded
  BY <1>4, <1>6 DEF Managers
<1>8. pool' = [pool EXCEPT ![b] = m]
  BY <1>1, <1>2, <1>3, <1>5
<1>9. pool' \in [Ids -> Managers] /\ pool'[b] = m /\ \A c \in Ids : c # b => pool'[c] = pool[c]
  BY <1>2, <1>7, <1>8
<1>10. \A c, j : Piece(c, j)' = Piece(c, j)
  BY <1>1 DEF Piece, Padded, SymbolSize
<1>11. ASSUME NEW c \in Ids PROVE Held(c)' /\ Managed(c)'
  <2>1. Held(c)'
    BY <1>1, <1>2 DEF Held
  <2>2. CASE c = b
    BY <1>1, <1>2, <1>3, <1>7, <1>9, <1>10, <2>1, <2>2 DEF Managed
  <2>3. CASE c # b
    BY <1>1, <1>2, <1>9, <1>10, <2>1, <2>3 DEF Managed
  <2> QED
    BY <2>2, <2>3
<1>12. Receiving'
  BY <1>1, <1>2, <1>9, <1>11 DEF Receiving
<1> QED
  BY <1>1, <1>7, <1>9, <1>12

LEMMA ReceivingStep ==
  ASSUME Negotiation, Sending, Minting, Copying, Receiving, [Next]_vars
  PROVE  Receiving'
<1>1. Sending' /\ Kept
  BY SendingStep, MintingStep
<1>2. CASE Handshake
  BY <1>1, <1>2, ReceivingKept
     DEF Handshake, ServerAnswers, ClientHears, Announce, Register, receiveVars
<1>3. CASE Upstream
  BY <1>1, <1>3, ReceivingKept
     DEF Upstream, EmitBlock, ReadEof, AdditionalRepair, SendCopy, SendOther, receiveVars
<1>4. CASE Reader
  BY <1>1, <1>4, ReceivingKept DEF Reader, ReadWire
<1>5. CASE Downstream
  BY <1>5, ArrivalReceives, CopyReceives, DegradeReceives DEF Downstream
<1>6. CASE UNCHANGED vars
  BY <1>1, <1>6, ReceivingKept DEF vars, receiveVars
<1> QED
  BY <1>2, <1>3, <1>4, <1>5, <1>6 DEF Next

\* Every manager holds symbols of its own block under that block's geometry, every
\* ready block and every copy is one that was sent, and what is written is the blocks
\* below next_deliver (FecReceiver and the downstream task).
THEOREM SpecReceiving == Spec => [](Copying /\ Receiving)
<1>1. Init => Copying /\ Receiving
  BY CopyingInit, ReceivingInit
<1>2. Negotiation /\ Sending /\ Streaming /\ Minting /\ Copying /\ Receiving /\ [Next]_vars
        => Copying' /\ Receiving'
  BY CopyingStep, ReceivingStep
<1> QED
  BY <1>1, <1>2, SpecNegotiation, SpecStreaming, SpecMinting, PTL DEF Spec

\* What is written is a beginning of what the client's application wrote.
LEMMA ReceivingInOrder ==
  Sending /\ Streaming /\ Receiving => BytesInOrder
<1> SUFFICES ASSUME Sending, Streaming, Receiving PROVE BytesInOrder
  OBVIOUS
<1>1. PICK c : c = Contents(blocks)
  OBVIOUS
<1>2. /\ c \in Seq(Seq(Byte)) /\ Len(c) = Len(blocks) /\ Len(blocks) \in Nat
      /\ FlattenSeq(c) = SubSeq(App, 1, read) /\ read \in 0 .. Len(App)
  BY <1>1, ContentsType, LenProperties DEF Sending
<1>3. PICK x \in Nat, n \in Nat : x = next /\ n = Len(c) /\ x <= n /\ n = Len(blocks)
  <2>1. next \in 0 .. Len(blocks)
    BY DEF Receiving
  <2>2. next \in Nat /\ next <= Len(blocks)
    BY <1>2, <2>1
  <2> QED
    BY <1>2, <2>2
<1>4. App \in Seq(Byte) /\ Len(App) \in Nat
  BY TransferAssumption, LenProperties
<1>5. PICK U : U = Seq(Byte)
  OBVIOUS
<1>6. PICK s \in Seq(U), t \in Seq(U) : s = SubSeq(c, 1, x) /\ t = SubSeq(c, x + 1, n) /\ s \o t = c
  <2>1. c \in Seq(U) /\ x \in 0 .. n /\ n \in 0 .. Len(c)
    BY <1>2, <1>3, <1>5
  <2>2. SubSeq(c, 1, x) \o SubSeq(c, x + 1, n) = SubSeq(c, 1, n)
        /\ SubSeq(c, x + 1, n) \in Seq(U) /\ SubSeq(c, 1, x) \in Seq(U)
    <3>1. x <= n /\ n <= Len(c) /\ x \in 0 .. Len(c) /\ x \in Nat /\ n \in Nat
      BY <1>3
    <3>2. SubSeq(c, 1, x) \in Seq(U)
      BY <2>1, <3>1, FrontType
    <3>3. /\ SubSeq(c, 1, x) \o SubSeq(c, x + 1, n) = SubSeq(c, 1, n)
          /\ SubSeq(c, x + 1, n) \in Seq(U)
      BY <2>1, <3>1, FrontJoin
    <3> QED
      BY <3>2, <3>3
  <2>3. SubSeq(c, 1, n) = c
    BY <1>3, <2>1, SubSeqFull
  <2> QED
    BY <2>2, <2>3
<1>7. PICK w \in Seq(Byte), v \in Seq(Byte) : w = FlattenSeq(s) /\ v = FlattenSeq(t)
  <2>1. <<>> \in U
    BY <1>5, EmptyType
  <2>2. FlattenSeq(s) \in U
    BY <1>5, <1>6, <2>1, FlattenAppend
  <2>3. FlattenSeq(t) \in U
    BY <1>5, <1>6, <2>1, FlattenAppend
  <2> QED
    BY <1>5, <2>2, <2>3
<1>8. written = w /\ w \o v = SubSeq(App, 1, read)
  <2>1. FlattenSeq(s \o t) = FlattenSeq(s) \o FlattenSeq(t)
    BY <1>5, FlattenCat
  <2>2. written = FlattenSeq(s)
    <3>1. written = FlattenSeq(SubSeq(Contents(blocks), 1, next))
      BY DEF Receiving
    <3> QED
      BY <1>1, <1>3, <1>6, <3>1
  <2> QED
    BY <1>2, <1>6, <1>7, <2>1, <2>2
<1>9. PICK a \in Nat, r \in Nat :
        /\ a = Len(w) /\ r = read /\ a <= r /\ r <= Len(App)
        /\ \A i \in 1 .. a : w[i] = App[i]
  <2>1. PICK a \in Nat, z \in Nat : a = Len(w) /\ z = Len(v) /\ Len(w \o v) = a + z
                                    /\ \A i \in 1 .. a : (w \o v)[i] = w[i]
    BY ConcatProperties, LenProperties
  <2>2. PICK r \in Nat : r = read /\ r <= Len(App)
    BY <1>2, <1>4
  <2>3. Len(SubSeq(App, 1, r)) = r /\ \A i \in 1 .. r : SubSeq(App, 1, r)[i] = App[i]
    BY <1>2, <1>4, <2>2, FrontType
  <2>4. a <= r
    BY <1>8, <2>1, <2>2, <2>3
  <2>5. \A i \in 1 .. a : w[i] = App[i]
    <3>1. \A i \in 1 .. a : i \in 1 .. r
      BY <2>4
    <3> QED
      BY <1>8, <2>1, <2>2, <2>3, <3>1
  <2> QED
    BY <2>1, <2>2, <2>4, <2>5
<1>10. w = SubSeq(App, 1, a)
  <2>1. a \in 0 .. Len(App)
    BY <1>4, <1>9
  <2>2. SubSeq(App, 1, a) \in Seq(Byte) /\ Len(SubSeq(App, 1, a)) = a
        /\ \A i \in 1 .. a : SubSeq(App, 1, a)[i] = App[i]
    BY <1>4, <2>1, FrontType
  <2> QED
    BY <1>9, <2>2, SeqEqual
<1>11. IsPrefix(written, App) /\ Len(written) <= read
  <2>1. Len(written) = a /\ a <= Len(App)
    BY <1>4, <1>8, <1>9
  <2>2. written = SubSeq(App, 1, Len(written))
    BY <1>8, <1>10, <2>1
  <2> QED
    BY <1>9, <2>1, <2>2 DEF IsPrefix
<1>12. ASSUME next = Len(blocks) PROVE Len(written) = read
  <2>1. x = n
    BY <1>3, <1>12
  <2>2. s = c
    BY <1>2, <1>3, <1>5, <1>6, <2>1, SubSeqFull
  <2>3. written = SubSeq(App, 1, read)
    BY <1>2, <1>7, <1>8, <2>2
  <2> QED
    BY <1>2, <1>4, <2>3, FrontType
<1>13. tunnel = "open" => route = <<StreamId>>
  BY DEF Streaming
<1> QED
  BY <1>11, <1>12, <1>13 DEF BytesInOrder

\* What is written to the server's socket is what was read from the client's, whatever
\* symbols and copies it came by and whatever is lost; all of it once every block is
\* delivered; and the datagrams are routed to this tunnel (pad_block, actual_k_for, the
\* symbol header, add_symbol, unpad_block, drain_ready).
THEOREM BytesSafe == Spec => []BytesInOrder
BY SpecStreaming, SpecReceiving, ReceivingInOrder, PTL

-----------------------------------------------------------------------------
(* Enough symbols.                                                         *)

\* A block that is not decided holds every symbol of it that arrived, and they are
\* not all of its own.
Waiting(b) ==
  /\ \A i \in Nat : <<b, i>> \in seen => Piece(b, i) \in pool[b].symbols
  /\ ~ (0 .. blocks[b + 1].k - 1 \subseteq Esis(b))
Deciding == \A b \in 0 .. Len(blocks) - 1 : Decided(b) \/ Waiting(b)

LEMMA DecidingInit == Init => Deciding
<1> SUFFICES ASSUME Init, NEW b \in 0 .. Len(blocks) - 1 PROVE FALSE
  BY DEF Deciding
<1>1. blocks = <<>>
  BY DEF Init
<1> QED
  BY <1>1, EmptyType

\* A block that waits goes on waiting when nothing of it arrives.
LEMMA WaitingKept ==
  ASSUME Kept, NEW b \in 0 .. Len(blocks) - 1, Waiting(b), pool'[b].symbols = pool[b].symbols,
         \A i : <<b, i>> \in seen' => <<b, i>> \in seen
  PROVE  Waiting(b)'
<1>1. blocks'[b + 1].k = blocks[b + 1].k /\ Padded(b)' = Padded(b)
  BY DEF Kept
<1>2. \A i : Piece(b, i)' = Piece(b, i)
  BY <1>1 DEF Piece
<1>3. Esis(b)' = Esis(b)
  BY DEF Esis
<1> QED
  BY <1>1, <1>2, <1>3 DEF Waiting

LEMMA BlocksShaped == Negotiation /\ Sending => \A b \in 0 .. Len(blocks) - 1 : Shaped(b)
BY BlockShape

LEMMA BlocksStayShaped ==
  (Negotiation /\ Sending)' => (\A b \in 0 .. Len(blocks) - 1 : Shaped(b))'
BY BlocksShaped, PTL

\* Nothing of a new block has arrived.
LEMMA FreshWaits ==
  ASSUME Negotiation', Sending, Sending', Minting, Receiving, UNCHANGED <<pool, seen>>,
         NEW b \in 0 .. Len(blocks') - 1, b \notin 0 .. Len(blocks) - 1
  PROVE  Waiting(b)'
<1>1. Shaped(b)'
  BY BlocksStayShaped
<1>2. 0 \in 0 .. blocks'[b + 1].k - 1 /\ b \in Ids
  <2>1. b \in Ids /\ blocks'[b + 1].k \in 1 .. LargestK /\ LargestK \in Nat
    BY <1>1, TransferAssumption DEF Shaped, LargestK, AtLeast
  <2> QED
    BY <2>1
<1>3. pool[b] = NoManager
  BY <1>2 DEF Receiving, Managed
<1>4. \A i : <<b, i>> \notin seen
  BY MintedOf DEF Minting
<1>5. Esis(b)' = {}
  BY <1>3 DEF Esis, NoManager
<1> QED
  BY <1>2, <1>4, <1>5 DEF Waiting

\* The blocks that are decided stay so; the others' symbols are those there were, and
\* none of theirs has arrived.
LEMMA DecidingKept ==
  ASSUME Negotiation', Sending, Sending', Kept, Minting, Receiving, Deciding, seen' = seen,
         blocks' = blocks \/ pool' = pool,
         \A b \in 0 .. Len(blocks) - 1 :
           \/ Decided(b)'
           \/ ~Decided(b) /\ pool'[b].symbols = pool[b].symbols
  PROVE  Deciding'
<1> SUFFICES ASSUME NEW b \in 0 .. Len(blocks') - 1 PROVE Decided(b)' \/ Waiting(b)'
  BY DEF Deciding
<1>1. CASE b \in 0 .. Len(blocks) - 1
  <2>1. CASE ~Decided(b) /\ pool'[b].symbols = pool[b].symbols
    <3>1. Waiting(b)
      BY <1>1, <2>1 DEF Deciding
    <3> QED
      BY <1>1, <2>1, <3>1, WaitingKept
  <2> QED
    BY <1>1, <2>1
<1>2. CASE b \notin 0 .. Len(blocks) - 1
  <2>1. pool' = pool
    BY <1>2
  <2> QED
    BY <1>2, <2>1, FreshWaits
<1> QED
  BY <1>1, <1>2

\* Delivering one block leaves the symbols of the others alone.
LEMMA DecidingSettles ==
  ASSUME Negotiation, Sending, Receiving, NEW a \in 0 .. Len(blocks) - 1, Settles(a)
  PROVE  \A b \in 0 .. Len(blocks) - 1 :
           \/ Decided(b)'
           \/ ~Decided(b) /\ b # a /\ pool'[b].symbols = pool[b].symbols
<1> SUFFICES ASSUME NEW b \in 0 .. Len(blocks) - 1
             PROVE  Decided(b)' \/ (~Decided(b) /\ b # a /\ pool'[b].symbols = pool[b].symbols)
  OBVIOUS
<1>1. b \in Ids /\ a \in Ids /\ pool \in [Ids -> Managers]
  BY BlockShape DEF Shaped, Receiving
<1>2. b = a \/ Decided(b) => Decided(b)'
  BY <1>1 DEF Settles
<1>3. b # a => pool'[b] = pool[b]
  BY <1>1 DEF Settles
<1> QED
  BY <1>2, <1>3

\* A symbol that arrives decides its block or leaves it short of source symbols.
LEMMA DecidingArrives ==
  ASSUME Negotiation, Sending, Receiving, Deciding, Kept,
         NEW a \in 0 .. Len(blocks) - 1, NEW j \in Nat, Arrives(a, j)
  PROVE  Deciding'
<1>1. blocks' = blocks /\ seen' = seen \cup {<<a, j>>}
  BY DEF Arrives
<1> SUFFICES ASSUME NEW b \in 0 .. Len(blocks) - 1 PROVE Decided(b)' \/ Waiting(b)'
  BY <1>1 DEF Deciding
<1>2. b \in Ids /\ a \in Ids /\ Ids = 0 .. MaxBlocks - 1
  BY BlockShape DEF Shaped, Ids
<1>3. ASSUME b # a, pool'[b].symbols = pool[b].symbols, ~Decided(b) PROVE Waiting(b)'
  <2>1. Waiting(b)
    BY <1>3 DEF Deciding
  <2>2. \A i : <<b, i>> \in seen' => <<b, i>> \in seen
    BY <1>1, <1>3
  <2> QED
    BY <1>3, <2>1, <2>2, WaitingKept
<1>4. CASE UNCHANGED <<pool, ready, next>> /\ Decided(a)
  <2>1. Decided(b) => Decided(b)'
    BY <1>4 DEF Decided
  <2> QED
    BY <1>3, <1>4, <2>1
<1>5. CASE Settles(a)
  BY <1>3, <1>5, DecidingSettles
<1>6. CASE /\ UNCHANGED <<ready, next, written>>
           /\ \A c \in Ids : c # a => pool'[c] = pool[c]
           /\ pool'[a].symbols = pool[a].symbols \cup {Piece(a, j)} /\ ~pool[a].degraded
           /\ ~ (0 .. blocks[a + 1].k - 1 \subseteq Esis(a)')
  <2>1. CASE b # a
    <3>1. Decided(b) => Decided(b)'
      BY <1>2, <1>6, <2>1 DEF Decided
    <3> QED
      BY <1>2, <1>3, <1>6, <2>1, <3>1
  <2>2. CASE b = a
    <3>1. CASE Decided(b)
      <4>1. Decided(b)'
        BY <1>6, <2>2, <3>1 DEF Decided
      <4> QED
        BY <4>1
    <3>2. CASE ~Decided(b)
      <4>1. Waiting(a)
        BY <2>2, <3>2 DEF Deciding
      <4>2. \A i : Piece(a, i)' = Piece(a, i)
        BY DEF Kept, Piece
      <4>3. ASSUME NEW i \in Nat, <<a, i>> \in seen' PROVE Piece(a, i)' \in pool'[a].symbols
        <5>1. <<a, i>> \in seen \/ i = j
          BY <1>1, <4>3
        <5> QED
          BY <1>6, <4>1, <4>2, <5>1 DEF Waiting
      <4> QED
        BY <1>1, <1>6, <2>2, <4>3 DEF Waiting
    <3> QED
      BY <3>1, <3>2
  <2> QED
    BY <2>1, <2>2
<1>7. Recorded(a, j) \/ (a < next /\ UNCHANGED <<pool, ready, next>>)
  BY DEF Arrives
<1> QED
  BY <1>4, <1>5, <1>6, <1>7 DEF Recorded, Decided

LEMMA DecidingStep ==
  ASSUME Negotiation, Sending, Minting, Copying, Receiving, Deciding, [Next]_vars
  PROVE  Deciding'
<1>1. Negotiation' /\ Sending' /\ Kept
  BY NegotiationStep, SendingStep, MintingStep
<1>2. \A b \in 0 .. Len(blocks) - 1 : b \in Ids
  BY BlockShape DEF Shaped
<1>3. ASSUME UNCHANGED <<pool, ready, next, seen>> PROVE Deciding'
  <2>1. \A b \in Ids : Decided(b)' <=> Decided(b)
    BY <1>3 DEF Decided
  <2> QED
    BY <1>1, <1>2, <1>3, <2>1, DecidingKept
<1>4. CASE Handshake
  BY <1>3, <1>4 DEF Handshake, ServerAnswers, ClientHears, Announce, Register, receiveVars
<1>5. CASE Upstream
  BY <1>3, <1>5 DEF Upstream, EmitBlock, ReadEof, AdditionalRepair, SendCopy, SendOther, receiveVars
<1>6. CASE Reader
  BY <1>3, <1>6 DEF Reader, ReadWire
<1>7. CASE Downstream
  <2>1. ASSUME NEW d \in air, SymbolArrives(d) PROVE Deciding'
    <3>1. \E b \in 0 .. Len(blocks) - 1, i \in Nat : Arrives(b, i)
      BY <2>1, ArrivalReceives
    <3>2. PICK b \in 0 .. Len(blocks) - 1, i \in Nat : Arrives(b, i)
      BY <3>1
    <3> QED
      BY <1>1, <3>2, DecidingArrives
  <2>2. CASE CopyArrives
    <3>1. seen' = seen /\ blocks' = blocks
      BY <2>2, CopyReceives
    <3>2. CASE UNCHANGED <<pool, ready, next>>
      BY <1>3, <3>1, <3>2
    <3>3. ASSUME NEW a \in 0 .. Len(blocks) - 1, Settles(a) PROVE Deciding'
      <4>1. \A b \in 0 .. Len(blocks) - 1 :
              \/ Decided(b)'
              \/ ~Decided(b) /\ pool'[b].symbols = pool[b].symbols
        BY <3>3, DecidingSettles
      <4> QED
        BY <1>1, <3>1, <4>1, DecidingKept
    <3> QED
      BY <2>2, <3>2, <3>3, CopyReceives
  <2>3. ASSUME NEW a \in Ids, Degrade(a) PROVE Deciding'
    <3>1. /\ UNCHANGED <<seen, blocks, ready, next>> /\ pool'[a].degraded
          /\ \A c \in Ids : c # a => pool'[c] = pool[c]
      BY <2>3, DegradeReceives
    <3>2. \A b \in 0 .. Len(blocks) - 1 :
            \/ Decided(b)'
            \/ ~Decided(b) /\ pool'[b].symbols = pool[b].symbols
      BY <1>2, <3>1 DEF Decided
    <3> QED
      BY <1>1, <3>1, <3>2, DecidingKept
  <2> QED
    BY <1>7, <2>1, <2>2, <2>3 DEF Downstream
<1>8. CASE UNCHANGED vars
  BY <1>3, <1>8 DEF vars, receiveVars
<1> QED
  BY <1>4, <1>5, <1>6, <1>7, <1>8 DEF Next

\* A block that is neither delivered nor given up holds every symbol of it that
\* arrived, and these do not include all source symbols (on_symbol and add_symbol).
THEOREM SpecDeciding == Spec => []Deciding
<1>1. Negotiation /\ Sending /\ Minting /\ (Copying /\ Receiving) /\ Deciding /\ [Next]_vars
        => Deciding'
  BY DecidingStep
<1> QED
  BY <1>1, DecidingInit, SpecNegotiation, SpecStreaming, SpecMinting, SpecReceiving, PTL DEF Spec

LEMMA DecidingSuffices ==
  Negotiation /\ Sending /\ Deciding => SourceSymbolsSuffice
<1> SUFFICES ASSUME Negotiation, Sending, Deciding, NEW b \in 0 .. Len(blocks) - 1,
                    \A i \in 0 .. blocks[b + 1].k - 1 : <<b, i>> \in seen
             PROVE  Decided(b)
  BY DEF SourceSymbolsSuffice, Decided
<1>1. blocks[b + 1].k \in Nat
  <2>1. Shaped(b)
    BY BlockShape
  <2>2. LargestK \in Nat
    BY TransferAssumption DEF LargestK, AtLeast
  <2> QED
    BY <2>1, <2>2 DEF Shaped
<1>2. CASE Waiting(b)
  <2>1. ASSUME NEW i \in 0 .. blocks[b + 1].k - 1 PROVE i \in Esis(b)
    <3>1. i \in Nat /\ <<b, i>> \in seen
      BY <1>1
    <3>2. Piece(b, i) \in pool[b].symbols
      BY <1>2, <3>1 DEF Waiting
    <3>3. Piece(b, i).esi = i
      BY DEF Piece
    <3> QED
      BY <3>2, <3>3 DEF Esis
  <2>2. 0 .. blocks[b + 1].k - 1 \subseteq Esis(b)
    BY <2>1
  <2> QED
    BY <1>2, <2>2 DEF Waiting
<1> QED
  BY <1>2 DEF Deciding

\* Once the source symbols of a block have all arrived, in whatever order and company,
\* the block is written or waits for its turn, unless it was given up for its copy
\* (actual_k_for, pad_block, SymbolHeader.actual_k, on_symbol).
THEOREM SymbolsSuffice == Spec => []SourceSymbolsSuffice
BY SpecNegotiation, SpecStreaming, SpecDeciding, DecidingSuffices, PTL

-----------------------------------------------------------------------------
(* Types.                                                                  *)

\* The parameters are within the limits of the server (clamp_fec).
LEMMA NegotiationTyped ==
  ASSUME Negotiation
  PROVE  /\ token \in Tokens /\ toServer \in Seq(Byte) /\ toClient \in Seq(Byte)
         /\ \A p \in Peer : params[p] # <<>> =>
              /\ params[p][1].size <= SafeMaxSize /\ params[p][1].k <= MaxBlockSize
              /\ params[p][1].ppm <= MaxPpm
         /\ refused \subseteq Peer
<1>1. token \in Tokens /\ Requests # {} /\ <<>> \in Seq(Byte)
  BY EmptyType DEF Negotiation
<1>2. \A p \in Peer : p = "client" \/ p = "server"
  BY DEF Peer
<1>3. CASE Asked
  <2>1. PICK fec \in Requests : toServer = Frame(Hello(token, fec))
    BY <1>3 DEF Asked
  <2>2. toServer \in Seq(Byte)
    BY <1>1, <2>1, HelloHeard DEF FrameRead
  <2> QED
    BY <1>1, <1>2, <1>3, <2>2 DEF Asked
<1>4. CASE Accepted
  <2>1. PICK fec \in Requests :
          /\ params["server"] = <<Clamp(fec)>>
          /\ \/ params["client"] = <<>> /\ toClient = Frame(HelloAck(Clamp(fec)))
             \/ params["client"] = <<Clamp(fec)>> /\ toClient = <<>>
    BY <1>4 DEF Accepted
  <2>2. toClient \in Seq(Byte)
    BY <1>1, <2>1, AckHeard DEF FrameRead
  <2>3. ASSUME NEW p \in Peer, params[p] # <<>> PROVE params[p][1] = Clamp(fec)
    BY <1>2, <2>1, <2>3
  <2>4. /\ Clamp(fec).size <= SafeMaxSize /\ Clamp(fec).k <= MaxBlockSize
        /\ Clamp(fec).ppm <= MaxPpm
    BY ClampType
  <2> QED
    BY <1>1, <1>4, <2>2, <2>3, <2>4 DEF Accepted
<1>5. CASE TurnedAway
  <2>1. toClient \in Seq(Byte)
    BY <1>1, <1>5, ErrorHeard DEF TurnedAway, FrameRead
  <2> QED
    BY <1>1, <1>2, <1>5, <2>1 DEF TurnedAway, Peer
<1> QED
  BY <1>3, <1>4, <1>5 DEF Negotiation

\* What is written is bytes.
LEMMA WrittenTyped ==
  ASSUME Sending, Receiving
  PROVE  written \in Seq(Byte) /\ next \in 0 .. MaxBlocks
<1>1. PICK c : c = Contents(blocks)
  OBVIOUS
<1>2. c \in Seq(Seq(Byte)) /\ Len(c) = Len(blocks) /\ Len(blocks) \in Nat /\ Len(blocks) <= MaxBlocks
  BY <1>1, ContentsType, LenProperties DEF Sending
<1>3. next \in 0 .. Len(blocks) /\ written = FlattenSeq(SubSeq(Contents(blocks), 1, next))
  BY DEF Receiving
<1>4. PICK U : U = Seq(Byte)
  OBVIOUS
<1>5. PICK s \in Seq(U) : s = SubSeq(c, 1, next)
  <2>1. c \in Seq(U) /\ next \in 0 .. Len(c)
    BY <1>2, <1>3, <1>4
  <2> QED
    BY <2>1, FrontType
<1>6. FlattenSeq(s) \in U
  <2>1. <<>> \in U
    BY <1>4, EmptyType
  <2> QED
    BY <1>4, <2>1, FlattenAppend
<1>7. next \in 0 .. MaxBlocks
  BY <1>2, <1>3, TransferAssumption
<1> QED
  BY <1>1, <1>3, <1>4, <1>5, <1>6, <1>7

LEMMA Typed ==
  Negotiation /\ Sending /\ Streaming /\ Receiving => TypeOK
<1> SUFFICES ASSUME Negotiation, Sending, Streaming, Receiving PROVE TypeOK
  OBVIOUS
<1>1. /\ tunnel \in {"none", "announced", "open"}
      /\ read \in 0 .. Len(App) /\ eof \in BOOLEAN /\ Len(blocks) <= MaxBlocks
  BY DEF Sending
<1>2. wire \in Seq(Byte) /\ buf \in Seq(Byte)
  BY DEF Streaming
<1>3. \A b \in Ids : ready[b] \in Seq(Byte)
  BY DEF Receiving
<1> QED
  BY <1>1, <1>2, <1>3, NegotiationTyped, WrittenTyped DEF TypeOK

\* Every variable has its type, and the parameters in use are within the server's
\* limits, in every reachable state (clamp_fec).
THEOREM TypeSafe == Spec => []TypeOK
BY SpecNegotiation, SpecStreaming, SpecReceiving, Typed, PTL

-----------------------------------------------------------------------------
(* The byte stream.                                                        *)

\* The total is announced at the end of the client's side, when no block can follow.
TrueTotal(s, done, n) == s.kind = "count" => done /\ s.fields[1] = n
Counting == \A i \in 1 .. Len(signals) : TrueTotal(signals[i], eof, Len(blocks))

LEMMA CountingInit == Init => Counting
BY EmptyType DEF Init, Counting

\* A signal is sent, and if it is the total it is the true one.
LEMMA CountingSends ==
  ASSUME Streaming, NEW s \in Signals, Send(s), TrueTotal(s, eof', Len(blocks')),
         \A i \in 1 .. Len(signals) : TrueTotal(signals[i], eof', Len(blocks'))
  PROVE  Counting'
<1>1. signals \in Seq(Signals) /\ signals' = Append(signals, s)
  BY DEF Streaming, Send
<1>2. PICK n \in Nat : n = Len(signals) /\ Len(signals') = n + 1
  BY <1>1, LenProperties
<1>3. (\A i \in 1 .. n : signals'[i] = signals[i]) /\ signals'[n + 1] = s
  BY <1>1, <1>2
<1>4. ASSUME NEW i \in 1 .. n + 1 PROVE TrueTotal(signals'[i], eof', Len(blocks'))
  <2>1. CASE i \in 1 .. n
    BY <1>2, <1>3, <2>1
  <2>2. CASE i = n + 1
    BY <1>3, <2>2
  <2> QED
    BY <2>1, <2>2
<1> QED
  BY <1>2, <1>4 DEF Counting

LEMMA CountingStep ==
  ASSUME Negotiation, Sending, Streaming, Counting, [Next]_vars
  PROVE  Counting'
<1>1. ASSUME signals' = signals, eof' = eof, Len(blocks') = Len(blocks) PROVE Counting'
  BY <1>1 DEF Counting
<1>2. ASSUME NEW s \in Signals, Send(s), s.kind # "count", eof' = eof, blocks' = blocks
      PROVE  Counting'
  <2>1. \A i \in 1 .. Len(signals) : TrueTotal(signals[i], eof', Len(blocks'))
    BY <1>2 DEF Counting
  <2>2. TrueTotal(s, eof', Len(blocks'))
    BY <1>2 DEF TrueTotal
  <2> QED
    BY <1>2, <2>1, <2>2, CountingSends
<1>3. ASSUME ~eof PROVE \A i \in 1 .. Len(signals) : \A e, n : TrueTotal(signals[i], e, n)
  BY <1>3 DEF Counting, TrueTotal
<1>4. CASE Handshake
  BY <1>1, <1>4 DEF Handshake, ServerAnswers, ClientHears, Announce, Register, streamVars, upVars
<1>5. CASE Upstream
  <2>0. Len(blocks) \in Nat /\ Len(blocks) <= MaxBlocks /\ MaxBlocks \in Nat
    BY LenProperties, TransferAssumption DEF Sending
  <2>1. ASSUME NEW n \in 1 .. Len(App), NEW repair \in 0 .. MaxRepair, EmitBlock(n, repair)
        PROVE  Counting'
    <3>1. Len(blocks) + 1 \in 0 .. MaxBlocks
      BY <2>0, <2>1 DEF EmitBlock
    <3>2. PICK s \in Signals : s = Signal("highWater", <<Len(blocks) + 1>>)
      BY <3>1, NumberSignal
    <3>3. Send(s) /\ ~eof
      BY <2>1, <3>2 DEF EmitBlock
    <3>4. TrueTotal(s, eof', Len(blocks'))
      BY <3>2 DEF TrueTotal, Signal
    <3> QED
      BY <1>3, <3>3, <3>4, CountingSends
  <2>2. ASSUME ReadEof PROVE Counting'
    <3>1. Len(blocks) \in 0 .. MaxBlocks
      BY <2>0
    <3>2. PICK s \in Signals : s = Signal("count", <<Len(blocks)>>)
      BY <3>1, NumberSignal
    <3>3. Send(s) /\ ~eof /\ eof' = TRUE /\ blocks' = blocks
      BY <2>2, <3>2 DEF ReadEof, BlockTotal
    <3>4. TrueTotal(s, eof', Len(blocks'))
      BY <3>2, <3>3 DEF TrueTotal, Signal
    <3> QED
      BY <1>3, <3>3, <3>4, CountingSends
  <2>3. ASSUME NEW b \in 0 .. Len(blocks) - 1, AdditionalRepair(b) PROVE Counting'
    <3>1. Len(blocks') = Len(blocks)
      BY <2>3, SendingExtends DEF Extended
    <3> QED
      BY <1>1, <2>3, <3>1 DEF AdditionalRepair, streamVars
  <2>4. ASSUME NEW b \in 0 .. Len(blocks) - 1, SendCopy(b) PROVE Counting'
    <3>1. PICK s \in Signals : s = Signal("data", <<b, blocks[b + 1].payload>>)
      BY SentBlock
    <3>2. Send(s) /\ s.kind # "count" /\ eof' = eof /\ blocks' = blocks
      BY <2>4, <3>1 DEF SendCopy, upVars, Signal
    <3> QED
      BY <1>2, <3>2
  <2>5. ASSUME NEW s \in OtherSignals, SendOther(s) PROVE Counting'
    <3>1. s.kind # "count"
      BY TransferAssumption
    <3>2. s \in Signals /\ Send(s) /\ eof' = eof /\ blocks' = blocks
      BY <2>5, OtherSignal DEF SendOther, upVars
    <3> QED
      BY <1>2, <3>1, <3>2
  <2> QED
    BY <1>5, <2>1, <2>2, <2>3, <2>4, <2>5 DEF Upstream
<1>6. CASE Reader
  BY <1>1, <1>6 DEF Reader, ReadWire, upVars
<1>7. CASE Downstream
  <2>1. signals' = signals /\ eof' = eof /\ blocks' = blocks
    BY <1>7 DEF Downstream, SymbolArrives, CopyArrives, Degrade, upVars, streamVars
  <2> QED
    BY <1>1, <2>1
<1>8. CASE UNCHANGED vars
  BY <1>1, <1>8 DEF vars, upVars, streamVars
<1> QED
  BY <1>4, <1>5, <1>6, <1>7, <1>8 DEF Next

\* The announced total is the number of the blocks, for good (BlockCount).
THEOREM SpecCounting == Spec => []Counting
<1>1. Negotiation /\ Sending /\ Streaming /\ Counting /\ [Next]_vars => Counting'
  BY CountingStep
<1> QED
  BY <1>1, CountingInit, SpecNegotiation, SpecStreaming, PTL DEF Spec

\* A beginning of the text is a beginning of every longer one.
Opening(n) == SubSeq(App, 1, n)

LEMMA Fronts ==
  ASSUME NEW a \in 0 .. Len(App), NEW b \in a .. Len(App)
  PROVE  Bytes!IsPrefix(Opening(a), Opening(b))
<1>1. App \in Seq(Byte) /\ Len(App) \in Nat
  BY TransferAssumption, LenProperties
<1>2. a \in Nat /\ b \in 0 .. Len(App) /\ a <= b
  BY <1>1
<1>3. PICK x \in Seq(Byte) : x = Opening(a) /\ Len(x) = a /\ \A i \in 1 .. a : x[i] = App[i]
  BY <1>1, FrontType, Zenon DEF Opening
<1>4. PICK y \in Seq(Byte) : y = Opening(b) /\ Len(y) = b /\ \A i \in 1 .. b : y[i] = App[i]
  BY <1>1, <1>2, FrontType, Zenon DEF Opening
<1>5. PICK z \in Seq(Byte) : z = SubSeq(y, 1, a) /\ Len(z) = a /\ \A i \in 1 .. a : z[i] = y[i]
  <2>1. a \in 0 .. Len(y)
    BY <1>1, <1>2, <1>4
  <2> QED
    BY <2>1, FrontType, Zenon
<1>6. \A i \in 1 .. a : x[i] = z[i]
  <2>1. \A i \in 1 .. a : i \in 1 .. b
    BY <1>1, <1>2
  <2> QED
    BY <1>3, <1>4, <1>5, <2>1
<1>7. x = z
  BY <1>3, <1>5, <1>6, SeqEqual
<1>8. SubSeq(x, 1, a) = x
  BY <1>3, SubSeqFull
<1> QED
  BY <1>2, <1>3, <1>4, <1>5, <1>7, <1>8 DEF Bytes!IsPrefix

\* What is written is the beginning of the text of its length, and all that was read
\* once every block is delivered.
Fronted ==
  /\ Len(App) \in Nat /\ read \in 0 .. Len(App) /\ Len(written) \in 0 .. read
  /\ written = Opening(Len(written))
  /\ next = Len(blocks) => written = Opening(read)

LEMMA WrittenFront == Sending /\ Streaming /\ Receiving => Fronted
<1> SUFFICES ASSUME Sending, Streaming, Receiving PROVE Fronted
  OBVIOUS
<1>1. BytesInOrder /\ written \in Seq(Byte) /\ read \in 0 .. Len(App)
  BY ReceivingInOrder, WrittenTyped DEF Sending
<1>2. Len(written) \in Nat /\ Len(App) \in Nat
  BY <1>1, TransferAssumption, LenProperties
<1>3. written = Opening(Len(written))
  BY <1>1, SubSeqFull DEF BytesInOrder, IsPrefix, Opening
<1>4. Len(written) <= read /\ (next = Len(blocks) => Len(written) = read)
  BY <1>1 DEF BytesInOrder
<1> QED
  BY <1>1, <1>2, <1>3, <1>4 DEF Fronted

\* No step takes back what was written.
LEMMA WrittenGrows ==
  ASSUME Sending, Sending', Kept, Receiving, Receiving', next <= next'
  PROVE  Len(written) <= Len(written')
<1>1. PICK c : c = Contents(blocks')
  OBVIOUS
<1>2. PICK U : U = Seq(Byte)
  OBVIOUS
<1>3. c \in Seq(U) /\ Len(c) = Len(blocks') /\ Len(blocks') \in Nat
  BY <1>1, <1>2, ContentsType, LenProperties DEF Sending
<1>4. PICK x \in Nat, y \in Nat : x = next /\ y = next' /\ x <= y /\ y <= Len(c)
  <2>1. Len(blocks) \in Nat /\ next \in 0 .. Len(blocks) /\ next' \in 0 .. Len(blocks')
    BY LenProperties DEF Sending, Receiving
  <2> QED
    BY <1>3, <2>1
<1>5. written = FlattenSeq(SubSeq(c, 1, x)) /\ written' = FlattenSeq(SubSeq(c, 1, y))
  <2>1. SubSeq(Contents(blocks'), 1, next) = SubSeq(Contents(blocks), 1, next)
    BY ContentsKept DEF Receiving
  <2> QED
    BY <1>1, <1>4, <2>1 DEF Receiving
<1>6. PICK s \in Seq(U), t \in Seq(U) :
        s = SubSeq(c, 1, x) /\ t = SubSeq(c, x + 1, y) /\ s \o t = SubSeq(c, 1, y)
  <2>1. x \in 0 .. Len(c)
    BY <1>3, <1>4
  <2>2. SubSeq(c, 1, x) \in Seq(U)
    BY <1>3, <2>1, FrontType
  <2>3. SubSeq(c, x + 1, y) \in Seq(U) /\ SubSeq(c, 1, x) \o SubSeq(c, x + 1, y) = SubSeq(c, 1, y)
    BY <1>3, <1>4, FrontJoin
  <2> QED
    BY <2>2, <2>3
<1>7. FlattenSeq(s \o t) = FlattenSeq(s) \o FlattenSeq(t)
  <2>1. U = Seq(Byte)
    BY <1>2
  <2> QED
    BY ONLY <2>1, s \in Seq(U), t \in Seq(U), FlattenCat
<1>8. FlattenSeq(s) \in U /\ FlattenSeq(t) \in U
  <2>1. <<>> \in U
    BY <1>2, EmptyType
  <2> QED
    BY <1>2, <1>6, <2>1, FlattenAppend
<1>9. PICK v \in Seq(Byte), w \in Seq(Byte) : v = FlattenSeq(s) /\ w = FlattenSeq(t)
  BY <1>2, <1>8
<1>10. Len(v) <= Len(v \o w)
  BY ConcatProperties, LenProperties
<1> QED
  BY <1>5, <1>6, <1>7, <1>9, <1>10

\* No step takes back a delivery.
LEMMA NextGrows ==
  ASSUME Negotiation, Sending, Minting, Copying, Receiving, [Next]_vars
  PROVE  next <= next'
<1>1. next \in Nat
  BY LenProperties DEF Sending, Receiving
<1>2. ASSUME next' = next PROVE next <= next'
  BY <1>1, <1>2
<1>3. ASSUME NEW d \in air, SymbolArrives(d) PROVE next <= next'
  <2>1. PICK b \in 0 .. Len(blocks) - 1, i \in Nat : Arrives(b, i)
    BY <1>3, ArrivalReceives
  <2> QED
    BY <1>1, <2>1 DEF Arrives, Recorded, Settles
<1>4. ASSUME CopyArrives PROVE next <= next'
  BY <1>1, <1>4, CopyReceives DEF Settles
<1>5. CASE Handshake
  BY <1>2, <1>5 DEF Handshake, ServerAnswers, ClientHears, Announce, Register, receiveVars
<1>6. CASE Upstream
  BY <1>2, <1>6 DEF Upstream, EmitBlock, ReadEof, AdditionalRepair, SendCopy, SendOther, receiveVars
<1>7. CASE Reader
  BY <1>2, <1>7 DEF Reader, ReadWire
<1>8. CASE Downstream
  BY <1>2, <1>3, <1>4, <1>8 DEF Downstream, Degrade
<1>9. CASE UNCHANGED vars
  BY <1>2, <1>9 DEF vars, receiveVars
<1> QED
  BY <1>5, <1>6, <1>7, <1>8, <1>9 DEF Next

\* A signal that was decoded stays so.
LEMMA GotGrows ==
  ASSUME Streaming, [Next]_vars
  PROVE  \A i \in DOMAIN got : i \in DOMAIN got' /\ got'[i] = got[i]
<1>1. ASSUME got' = got PROVE \A i \in DOMAIN got : i \in DOMAIN got' /\ got'[i] = got[i]
  BY <1>1
<1>2. CASE Reader
  <2>1. PICK n \in Chunks : ReadWire(n)
    BY <1>2 DEF Reader
  <2>2. PICK d \in Loop(From(signals, Len(got) + 1), wire') : got' = got \o d.got
    BY <2>1, StreamingReads
  <2>3. got \in Seq(Signals)
    <3>1. signals \in Seq(Signals) /\ Len(got) \in 0 .. Len(signals)
          /\ got = SubSeq(signals, 1, Len(got))
      BY <2>1 DEF ReadWire, Streaming, InFlight
    <3> QED
      BY <3>1, FrontType
  <2>4. d.got \in Seq(Signals)
    BY <2>2 DEF Loop
  <2>5. PICK g \in Seq(Signals) : g = d.got
    BY <2>4
  <2>6. DOMAIN got = 1 .. Len(got) /\ DOMAIN (got \o g) = 1 .. Len(got) + Len(g)
        /\ Len(got) \in Nat /\ Len(g) \in Nat /\ \A i \in 1 .. Len(got) : (got \o g)[i] = got[i]
    BY <2>3, <2>5, ConcatProperties, LenProperties
  <2> QED
    BY <2>2, <2>5, <2>6
<1>3. CASE Handshake
  BY <1>1, <1>3 DEF Handshake, ServerAnswers, ClientHears, Announce, Register, readerVars
<1>4. CASE Upstream
  BY <1>1, <1>4 DEF Upstream, EmitBlock, ReadEof, AdditionalRepair, SendCopy, SendOther, readerVars
<1>5. CASE Downstream
  BY <1>1, <1>5 DEF Downstream, SymbolArrives, CopyArrives, Degrade, readerVars
<1>6. CASE UNCHANGED vars
  BY <1>1, <1>6 DEF vars, readerVars
<1> QED
  BY <1>2, <1>3, <1>4, <1>5, <1>6 DEF Next

\* The loop ends only at the true total.
Ending ==
  Ended => /\ eof /\ next = Len(blocks)
           /\ \E i \in DOMAIN got : got[i].kind = "count" /\ got[i].fields[1] = next

LEMMA EndedMeans == Sending /\ Streaming /\ Receiving /\ Counting => Ending
<1> SUFFICES ASSUME Sending, Streaming, Receiving, Counting, Ended
             PROVE  /\ eof /\ next = Len(blocks)
                    /\ \E i \in DOMAIN got : got[i].kind = "count" /\ got[i].fields[1] = next
  BY DEF Ending
<1>1. PICK i \in DOMAIN got : got[i].kind = "count" /\ next >= got[i].fields[1]
  BY DEF Ended
<1>2. PICK n \in Nat, g \in Nat :
        /\ signals \in Seq(Signals) /\ n = Len(signals) /\ g = Len(got) /\ g \in 0 .. n
        /\ got = SubSeq(signals, 1, g)
  <2>1. got # <<>>
    BY <1>1, EmptyType
  <2>2. tunnel = "open" /\ signals \in Seq(Signals)
    BY <2>1 DEF Streaming, Sending
  <2>3. PICK n \in Nat : n = Len(signals)
    BY <2>2, LenProperties
  <2>4. InFlight
    BY <2>2, Zenon DEF Streaming
  <2>5. Len(got) \in 0 .. Len(signals) /\ got = SubSeq(signals, 1, Len(got))
    BY <2>4, Zenon DEF InFlight
  <2>6. PICK g \in 0 .. n : g = Len(got) /\ got = SubSeq(signals, 1, g)
    BY <2>3, <2>5, Zenon
  <2>7. g \in Nat
    BY <2>3, <2>6
  <2> QED
    BY <2>2, <2>3, <2>6, <2>7
<1>3. got \in Seq(Signals) /\ Len(got) = g /\ \A j \in 1 .. g : got[j] = signals[j]
  BY <1>2, FrontType
<1>4. i \in 1 .. n /\ got[i] = signals[i]
  <2>1. i \in 1 .. g
    BY <1>1, <1>3, LenProperties
  <2> QED
    BY <1>2, <1>3, <2>1
<1>5. eof /\ got[i].fields[1] = Len(blocks)
  BY <1>1, <1>2, <1>4 DEF Counting, TrueTotal
<1>6. next = Len(blocks)
  <2>1. Len(blocks) \in Nat /\ next \in 0 .. Len(blocks) /\ next >= Len(blocks)
    BY <1>1, <1>5, LenProperties DEF Sending, Receiving
  <2> QED
    BY <2>1
<1> QED
  BY <1>1, <1>5, <1>6

\* What a step does to the client's side.
LEMMA SideSteps ==
  ASSUME Sending, Sending', Streaming, [Next]_vars
  PROVE  \/ /\ ~eof /\ ~eof' /\ read <= read' /\ UNCHANGED <<got, next, written>>
         \/ ~eof /\ eof' = TRUE /\ UNCHANGED <<read, got, next, written>>
         \/ UNCHANGED <<read, eof>>
<1>1. ASSUME NEW n \in 1 .. Len(App), NEW repair \in 0 .. MaxRepair, EmitBlock(n, repair)
      PROVE  ~eof /\ ~eof' /\ read <= read' /\ UNCHANGED <<got, next, written>>
  <2>1. ~eof /\ eof' = eof /\ read' = read + n /\ UNCHANGED <<got, next, written>>
    BY <1>1 DEF EmitBlock, readerVars, receiveVars
  <2>2. read \in Nat /\ n \in Nat
    BY DEF Sending
  <2> QED
    BY <2>1, <2>2
<1>2. ASSUME ReadEof
      PROVE  ~eof /\ eof' = TRUE /\ UNCHANGED <<read, got, next, written>>
  BY <1>2 DEF ReadEof, readerVars, receiveVars
<1>3. CASE Handshake
  BY <1>3 DEF Handshake, ServerAnswers, ClientHears, Announce, Register, upVars
<1>4. CASE Upstream
  BY <1>1, <1>2, <1>4 DEF Upstream, AdditionalRepair, SendCopy, SendOther, upVars
<1>5. CASE Reader
  BY <1>5 DEF Reader, ReadWire, upVars
<1>6. CASE Downstream
  BY <1>6 DEF Downstream, SymbolArrives, CopyArrives, Degrade, upVars
<1>7. CASE UNCHANGED vars
  BY <1>7 DEF vars, upVars
<1> QED
  BY <1>3, <1>4, <1>5, <1>6, <1>7 DEF Next

\* Once the loop may end, nothing changes for either application.
LEMMA EndedStays ==
  ASSUME Sending, Sending', Streaming, Receiving, Receiving', Fronted, Fronted',
         Ending, Ending', [Next]_vars, next <= next', Ended
  PROVE  Ended' /\ UNCHANGED <<read, eof, written>>
<1>1. eof /\ next = Len(blocks)
  BY DEF Ending
<1>2. PICK i \in DOMAIN got : got[i].kind = "count" /\ got[i].fields[1] = next
  BY DEF Ending
<1>3. i \in DOMAIN got' /\ got'[i] = got[i]
  BY GotGrows
<1>4. next' \in Nat /\ next \in Nat
  BY LenProperties DEF Sending, Receiving
<1>5. Ended'
  BY <1>2, <1>3, <1>4 DEF Ended
<1>6. UNCHANGED <<read, eof>>
  BY <1>1, SideSteps
<1>7. written = Opening(read)
  BY <1>1 DEF Fronted
<1>8. next' = Len(blocks')
  BY <1>5 DEF Ending
<1>9. written' = Opening(read')
  BY <1>8, Zenon DEF Fronted
<1> QED
  BY <1>5, <1>6, <1>7, <1>9

LEMMA BytesInit == Init => Bytes!StreamInit
<1> SUFFICES ASSUME Init PROVE Bytes!StreamInit
  OBVIOUS
<1>1. read = 0 /\ eof = FALSE /\ written = <<>> /\ got = <<>>
  BY DEF Init
<1>2. SubSeq(App, 1, read) = <<>>
  BY <1>1, SubSeqEmpty
<1>3. Ended = FALSE
  BY <1>1, EmptyType DEF Ended
<1> QED
  BY <1>1, <1>2, <1>3 DEF Bytes!StreamInit

\* Every step is one of the byte stream or invisible in it.
LEMMA BytesStep ==
  ASSUME Sending, Sending', Streaming, Receiving, Receiving', Fronted, Fronted',
         Ending, Ending', [Next]_vars, next <= next', Len(written) <= Len(written')
  PROVE  [Bytes!Write \/ Bytes!CloseWrite \/ Bytes!Deliver]_(Bytes!byteVars)
<1>1. /\ Len(App) \in Nat /\ read \in 0 .. Len(App) /\ Len(written) \in 0 .. read
      /\ written = Opening(Len(written))
  BY DEF Fronted
<1>2. /\ read' \in 0 .. Len(App) /\ Len(written') \in 0 .. read'
      /\ written' = Opening(Len(written'))
      /\ next' = Len(blocks') => written' = Opening(read')
  BY Zenon DEF Fronted
<1>3. CASE Ended
  <2>1. Ended' /\ UNCHANGED <<read, eof, written>>
    BY <1>3, EndedStays
  <2>2. Ended = TRUE /\ Ended' = TRUE
    BY <1>3, <2>1 DEF Ended
  <2> QED
    BY <2>1, <2>2 DEF Bytes!byteVars
<1>4. ASSUME ~Ended, ~eof, ~eof', read <= read', UNCHANGED <<got, next, written>>
      PROVE  Bytes!Write
  <2>1. read' \in read .. Len(App)
    BY <1>1, <1>2, <1>4
  <2>2. Bytes!IsPrefix(SubSeq(App, 1, read), SubSeq(App, 1, read'))
    BY <1>1, <2>1, Fronts DEF Opening
  <2>3. Ended' = Ended
    BY <1>4 DEF Ended
  <2>4. eof' = eof
    BY <1>4 DEF Sending
  <2> QED
    BY <1>4, <2>2, <2>3, <2>4 DEF Bytes!Write
<1>5. ASSUME ~eof, eof' = TRUE, UNCHANGED <<read, got, next, written>>
      PROVE  Bytes!CloseWrite
  <2>1. Ended' = Ended
    BY <1>5 DEF Ended
  <2> QED
    BY <1>5, <2>1 DEF Bytes!CloseWrite
<1>6. ASSUME ~Ended, UNCHANGED <<read, eof>> PROVE Bytes!Deliver
  <2>1. Len(written') \in Len(written) .. Len(App) /\ read \in Len(written') .. Len(App)
        /\ Len(written) \in 0 .. Len(App) /\ Len(written') \in 0 .. Len(App)
    BY <1>1, <1>2, <1>6
  <2>2. Bytes!IsPrefix(written, written')
    <3>1. Bytes!IsPrefix(Opening(Len(written)), Opening(Len(written')))
      BY <2>1, Fronts
    <3> QED
      BY <1>1, <1>2, <3>1
  <2>3. Bytes!IsPrefix(written', SubSeq(App, 1, read))
    <3>1. Bytes!IsPrefix(Opening(Len(written')), Opening(read))
      BY <2>1, Fronts
    <3> QED
      BY <1>2, <3>1 DEF Opening
  <2>4. Ended' \in {FALSE, eof /\ written' = SubSeq(App, 1, read)}
    <3>1. CASE Ended'
      <4>1. eof' /\ next' = Len(blocks')
        BY <3>1 DEF Ending
      <4>2. eof /\ written' = SubSeq(App, 1, read)
        BY <1>2, <1>6, <4>1 DEF Opening
      <4>3. Ended' = TRUE
        BY <3>1 DEF Ended
      <4> QED
        BY <4>2, <4>3
    <3>2. CASE ~Ended'
      BY <3>2 DEF Ended
    <3> QED
      BY <3>1, <3>2
  <2> QED
    BY <1>6, <2>2, <2>3, <2>4 DEF Bytes!Deliver
<1> QED
  BY <1>3, <1>4, <1>5, <1>6, SideSteps

\* One direction of a tunnel implements the byte stream: for every text and every way
\* to cut, lose, repair, copy and reorder it, the server's socket is given a beginning
\* of what was read from the client's, which only grows, and the loop of the downstream
\* task ends only when the client's side is at its end and every byte is written
\* (run_fec_tunnel).
THEOREM ImplementsBytes == Spec => ByteContract
<1> DEFINE All == /\ Negotiation /\ Sending /\ Streaming /\ Minting /\ Copying /\ Receiving
                  /\ Fronted /\ Ending
<1>1. Spec => []All
  BY SpecNegotiation, SpecStreaming, SpecMinting, SpecReceiving, SpecCounting, WrittenFront,
     EndedMeans, PTL
<1>2. All /\ All' /\ [Next]_vars
        => [Bytes!Write \/ Bytes!CloseWrite \/ Bytes!Deliver]_(Bytes!byteVars)
  <2>1. SUFFICES ASSUME All, All', [Next]_vars
                 PROVE  [Bytes!Write \/ Bytes!CloseWrite \/ Bytes!Deliver]_(Bytes!byteVars)
    OBVIOUS
  <2>2. Kept
    BY <2>1, MintingStep
  <2>3. next <= next'
    BY <2>1, NextGrows
  <2>4. Len(written) <= Len(written')
    BY <2>1, <2>2, <2>3, WrittenGrows
  <2> QED
    BY <2>1, <2>3, <2>4, BytesStep
<1> QED
  BY <1>1, <1>2, BytesInit, PTL DEF Spec, ByteContract, Bytes!StreamSpec
=============================================================================
