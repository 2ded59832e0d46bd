--------------------------- MODULE MsgBuild_proofs ---------------------------
(***************************************************************************)
(* Theorems about JConfig.tla and MsgBuild.tla, for any files, texts and   *)
(* number of pages.                                                        *)
(*                                                                         *)
(* ReadCorrect: the names in a list are never there twice (Proper), so what*)
(* the list says can be told without the order in which it is searched     *)
(* (Holds), and an operation by what it changes of that (AddGroup,         *)
(* WriteString).  A line does to the answers what it says (Parsed).        *)
(*                                                                         *)
(* PagesCorrect: a pass is a substitution, and one substitution after      *)
(* another is a single one (SubstTwice), which replaces all the tokens of  *)
(* the passes so far (Fill) as long as no value has a token in it.         *)
(* PageInv says that of the buffer that is read next, of a page the other  *)
(* thread has not crossed: two pages that are being made have crossed, so  *)
(* the other thread has not touched the values of this one (OneJob).       *)
(*                                                                         *)
(* FlattenSeq and the folds over a text are recursive functions: what they *)
(* do is shown by the least length, or the shortest text, for which it     *)
(* would be different.                                                     *)
(***************************************************************************)
EXTENDS MsgBuild, SequenceTheorems, WellFoundedInduction, TLAPS

-----------------------------------------------------------------------------
(* FlattenSeq, which strsub_Replace's results are put together with, is a  *)
(* recursive function: that there is a function such as it asks for is     *)
(* shown first.                                                            *)

Joined(f, s, n) == f = [k \in 1 .. n |-> IF k = 1 THEN s[k] ELSE f[k - 1] \o s[k]]

\* What such a function is at a place.
LEMMA JoinedAt ==
  ASSUME NEW f, NEW s, NEW n \in Nat, Joined(f, s, n), NEW k \in 1 .. n
  PROVE  f[k] = IF k = 1 THEN s[k] ELSE f[k - 1] \o s[k]
BY DEF Joined

LEMMA Lowest ==
  ASSUME NEW S \in SUBSET Nat, S # {}
  PROVE  \E x \in S : \A y \in S : x <= y
<1>1. PICK x \in S : \A y \in S : ~ (<<y, x>> \in OpToRel(<, Nat))
  BY WFMin, NatLessThanWellFounded
<1>2. ASSUME NEW y \in S PROVE x <= y
  <2>1. y < x => <<y, x>> \in OpToRel(<, Nat)
    BY DEF OpToRel
  <2>2. ~ (y < x)
    BY <1>1, <2>1
  <2>3. QED
    BY <2>2
<1>3. QED
  BY <1>2

LEMMA JoinedExists ==
  ASSUME NEW s, NEW n \in Nat
  PROVE  \E f : Joined(f, s, n)
<1> DEFINE None == {m \in Nat : ~ \E f : Joined(f, s, m)}
<1> SUFFICES ASSUME None # {} PROVE FALSE
  OBVIOUS
<1>1. None \in SUBSET Nat
  OBVIOUS
<1>2. PICK m \in None : \A y \in None : m <= y
  <2> HIDE DEF None
  <2>1. QED
    BY <1>1, Lowest
<1>3. m \in Nat /\ ~ \E f : Joined(f, s, m)
  OBVIOUS
<1>4. m # 0
  <2>1. Joined([k \in 1 .. 0 |-> s], s, 0)
    <3>1. \A k : k \notin 1 .. 0
      OBVIOUS
    <3>2. QED
      BY <3>1, Zenon DEF Joined
  <2>2. QED
    BY <1>3, <2>1
<1>5. PICK g : Joined(g, s, m - 1)
  <2>1. m - 1 \in Nat /\ m - 1 \notin None
    BY <1>2, <1>3, <1>4
  <2>2. QED
    BY <2>1
<1> DEFINE f == [k \in 1 .. m |-> IF k < m THEN g[k]
                                  ELSE IF k = 1 THEN s[k] ELSE g[k - 1] \o s[k]]
<1>6. Joined(f, s, m)
  <2>1. ASSUME NEW k \in 1 .. m PROVE f[k] = IF k = 1 THEN s[k] ELSE f[k - 1] \o s[k]
    <3>1. CASE k < m
      <4>1. k \in 1 .. m - 1 /\ f[k] = g[k]
        BY <1>3, <3>1
      <4>2. g[k] = IF k = 1 THEN s[k] ELSE g[k - 1] \o s[k]
        BY <1>5, <4>1 DEF Joined
      <4>3. k # 1 => f[k - 1] = g[k - 1]
        BY <1>3, <3>1
      <4>4. QED
        BY <4>1, <4>2, <4>3
    <3>2. CASE k = m
      <4>1. f[k] = IF k = 1 THEN s[k] ELSE g[k - 1] \o s[k]
        BY <3>2
      <4>2. k # 1 => f[k - 1] = g[k - 1]
        BY <1>3, <3>2
      <4>3. QED
        BY <4>1, <4>2
    <3>3. QED
      BY <1>3, <3>1, <3>2
  <2>2. f = [k \in 1 .. m |-> f[k]]
    OBVIOUS
  <2> HIDE DEF f
  <2>3. QED
    BY <2>1, <2>2 DEF Joined
<1>7. QED
  BY <1>3, <1>6

LEMMA FlattenIs ==
  ASSUME NEW s, NEW n \in Nat \ {0}, Len(s) = n
  PROVE  \E f : Joined(f, s, n) /\ FlattenSeq(s) = f[n]
<1> DEFINE flatten == CHOOSE f : Joined(f, s, n)
<1>1. FlattenSeq(s) = flatten[n]
  BY DEF FlattenSeq, Joined
<1>2. Joined(flatten, s, n)
  <2>1. \E f : Joined(f, s, n)
    BY JoinedExists
  <2>2. QED
    BY <2>1
<1>3. QED
  BY <1>1, <1>2

\* Two such functions agree where what they join does.
LEMMA JoinedAgree ==
  ASSUME NEW f, NEW s, NEW m \in Nat, Joined(f, s, m),
         NEW g, NEW t, NEW n \in Nat, Joined(g, t, n), n <= m,
         \A k \in 1 .. n : s[k] = t[k]
  PROVE  \A k \in 1 .. n : f[k] = g[k]
<1> DEFINE Other == {k \in 1 .. n : f[k] # g[k]}
<1> SUFFICES ASSUME Other # {} PROVE FALSE
  OBVIOUS
<1>1. Other \in SUBSET Nat
  OBVIOUS
<1>2. PICK k \in Other : \A y \in Other : k <= y
  <2> HIDE DEF Other
  <2>1. QED
    BY <1>1, Lowest
<1>3. k \in 1 .. n /\ k \in 1 .. m /\ f[k] # g[k]
  OBVIOUS
<1>4. /\ f[k] = IF k = 1 THEN s[k] ELSE f[k - 1] \o s[k]
      /\ g[k] = IF k = 1 THEN t[k] ELSE g[k - 1] \o t[k]
  BY <1>3 DEF Joined
<1>5. CASE k = 1
  BY <1>3, <1>4, <1>5
<1>6. CASE k # 1
  <2>1. k - 1 \in 1 .. n /\ k - 1 \notin Other
    BY <1>2, <1>3, <1>6
  <2>2. f[k - 1] = g[k - 1]
    BY <2>1
  <2>3. QED
    BY <1>3, <1>4, <1>6, <2>2
<1>7. QED
  BY <1>5, <1>6

LEMMA FlattenEmpty == FlattenSeq(<<>>) = <<>>
BY DEF FlattenSeq

LEMMA FlattenOne == ASSUME NEW x PROVE FlattenSeq(<<x>>) = x
<1> DEFINE s == <<x>>
<1>1. Len(s) = 1 /\ s[1] = x /\ 1 \in Nat \ {0}
  OBVIOUS
<1> HIDE DEF s
<1>2. PICK f : Joined(f, s, 1) /\ FlattenSeq(s) = f[1]
  BY <1>1, FlattenIs
<1>3. f[1] = s[1]
  BY <1>2 DEF Joined
<1>4. QED
  BY <1>1, <1>2, <1>3 DEF s

LEMMA FlattenAppend ==
  ASSUME NEW A, NEW s \in Seq(Seq(A)), NEW x \in Seq(A), FlattenSeq(s) \in Seq(A)
  PROVE  FlattenSeq(Append(s, x)) = FlattenSeq(s) \o x
<1>1. CASE s = <<>>
  <2>1. Append(s, x) = <<x>>
    BY <1>1
  <2>2. FlattenSeq(Append(s, x)) = x /\ FlattenSeq(s) = <<>>
    BY <1>1, <2>1, FlattenEmpty, FlattenOne
  <2>3. QED
    BY <2>2, ConcatEmptySeq
<1>2. CASE s # <<>>
  <2> DEFINE t == Append(s, x)
             n == Len(s)
  <2>1. /\ n \in Nat \ {0} /\ Len(t) = n + 1 /\ n + 1 \in Nat \ {0}
        /\ \A k \in 1 .. n : t[k] = s[k]
        /\ t[n + 1] = x
    BY <1>2, AppendProperties
  <2> HIDE DEF t, n
  <2>2. PICK f : Joined(f, t, n + 1) /\ FlattenSeq(t) = f[n + 1]
    BY <2>1, FlattenIs
  <2>3. PICK g : Joined(g, s, n) /\ FlattenSeq(s) = g[n]
    <3>1. Len(s) = n
      BY DEF n
    <3>2. QED
      BY <2>1, <3>1, FlattenIs
  <2>4. f[n] = g[n]
    <3>1. \A k \in 1 .. n : f[k] = g[k]
      <4>1. n \in Nat /\ n + 1 \in Nat /\ n <= n + 1
        BY <2>1
      <4>2. QED
        BY <2>1, <2>2, <2>3, <4>1, JoinedAgree
    <3>2. QED
      BY <2>1, <3>1
  <2>5. f[n + 1] = f[n] \o x
    <3> DEFINE m == n + 1
    <3>1. m \in Nat /\ m \in 1 .. m /\ m # 1 /\ m - 1 = n /\ t[m] = x
      BY <2>1
    <3>2. Joined(f, t, m)
      BY <2>2
    <3> HIDE DEF m
    <3>3. f[m] = IF m = 1 THEN t[m] ELSE f[m - 1] \o t[m]
      BY <3>1, <3>2, JoinedAt
    <3>4. f[m] = f[n] \o x
      BY <3>1, <3>3
    <3>5. QED
      BY <3>4 DEF m
  <2>6. QED
    BY <2>2, <2>3, <2>4, <2>5 DEF t
<1>3. QED
  BY <1>1, <1>2

\* A set of sequences that has the empty one, and with a sequence all that are
\* one longer, has all sequences.
LEMMA Shortest ==
  ASSUME NEW A, NEW Bad \in SUBSET Seq(A), Bad # {}, <<>> \notin Bad
  PROVE  \E s \in Seq(A), x \in A : Append(s, x) \in Bad /\ s \notin Bad
<1> DEFINE Lens == {Len(s) : s \in Bad}
<1>1. Lens \in SUBSET Nat /\ Lens # {}
  <2>1. \A t \in Bad : Len(t) \in Nat
    OBVIOUS
  <2>2. QED
    BY <2>1
<1>2. PICK n \in Lens : \A m \in Lens : n <= m
  <2> HIDE DEF Lens
  <2>1. QED
    BY <1>1, Lowest
<1>3. PICK s \in Bad : Len(s) = n
  OBVIOUS
<1>4. s \in Seq(A) /\ s # <<>>
  OBVIOUS
<1>5. PICK t \in Seq(A) : \E x \in A : s = Append(t, x)
  BY <1>4, SequenceEmptyOrAppend
<1>6. PICK x \in A : s = Append(t, x)
  BY <1>5
<1>7. Len(s) = Len(t) + 1 /\ Len(t) \in Nat
  BY <1>6, AppendProperties, LenProperties
<1>8. t \notin Bad
  <2>1. Len(t) \notin Lens
    <3> HIDE DEF Lens
    <3>1. QED
      BY <1>2, <1>3, <1>7
  <2>2. QED
    BY <2>1
<1>9. QED
  BY <1>3, <1>6, <1>8

LEMMA FlattenType ==
  ASSUME NEW A, NEW s \in Seq(Seq(A))
  PROVE  FlattenSeq(s) \in Seq(A)
<1> DEFINE Bad == {t \in Seq(Seq(A)) : FlattenSeq(t) \notin Seq(A)}
<1> SUFFICES ASSUME Bad # {} PROVE FALSE
  OBVIOUS
<1>1. <<>> \notin Bad
  <2>1. <<>> \in Seq(A)
    OBVIOUS
  <2>2. QED
    BY <2>1, FlattenEmpty
<1>2. PICK t \in Seq(Seq(A)) : \E x \in Seq(A) : Append(t, x) \in Bad /\ t \notin Bad
  <2>1. Bad \in SUBSET Seq(Seq(A))
    OBVIOUS
  <2> HIDE DEF Bad
  <2>2. QED
    BY <1>1, <2>1, Shortest
<1>3. PICK x \in Seq(A) : Append(t, x) \in Bad /\ t \notin Bad
  BY <1>2
<1>4. FlattenSeq(t) \in Seq(A) /\ FlattenSeq(Append(t, x)) \notin Seq(A)
  BY <1>3
<1>5. FlattenSeq(Append(t, x)) = FlattenSeq(t) \o x
  BY <1>4, FlattenAppend
<1>6. QED
  BY <1>4, <1>5, ConcatProperties

-----------------------------------------------------------------------------
(* Substitution: each symbol of t replaced by what g has for it.           *)

Pieces(t, g) == [i \in DOMAIN t |-> g[t[i]]]
Subst(t, g) == FlattenSeq(Pieces(t, g))

LEMMA PiecesType ==
  ASSUME NEW A, NEW t \in Seq(A), NEW g \in [A -> Seq(A)]
  PROVE  /\ Pieces(t, g) \in Seq(Seq(A)) /\ Len(Pieces(t, g)) = Len(t)
         /\ \A i \in 1 .. Len(t) : Pieces(t, g)[i] = g[t[i]]
<1>1. Len(t) \in Nat /\ DOMAIN t = 1 .. Len(t) /\ \A i \in 1 .. Len(t) : t[i] \in A
  OBVIOUS
<1>2. Pieces(t, g) = [i \in 1 .. Len(t) |-> g[t[i]]]
  BY <1>1 DEF Pieces
<1>3. \A i \in 1 .. Len(t) : g[t[i]] \in Seq(A)
  BY <1>1
<1> DEFINE n == Len(t)
           S == Seq(A)
           p == [i \in 1 .. n |-> g[t[i]]]
<1>4. \A i \in 1 .. n : g[t[i]] \in S
  BY <1>3
<1>5. n \in Nat
  BY <1>1
<1> HIDE DEF n, S
<1>6. p \in Seq(S) /\ Len(p) = n /\ \A i \in 1 .. n : p[i] = g[t[i]]
  BY <1>4, <1>5
<1>7. QED
  BY <1>2, <1>6 DEF n, S

LEMMA SubstType ==
  ASSUME NEW A, NEW t \in Seq(A), NEW g \in [A -> Seq(A)]
  PROVE  Subst(t, g) \in Seq(A)
<1>1. Pieces(t, g) \in Seq(Seq(A))
  BY PiecesType
<1>2. Subst(t, g) = FlattenSeq(Pieces(t, g))
  BY DEF Subst, Pieces
<1>3. QED
  BY <1>1, <1>2, FlattenType

LEMMA SubstEmpty ==
  ASSUME NEW A, NEW g \in [A -> Seq(A)]
  PROVE  Subst(<<>>, g) = <<>>
<1>1. <<>> \in Seq(A) /\ Len(<<>>) = 0
  OBVIOUS
<1>2. Pieces(<<>>, g) \in Seq(Seq(A)) /\ Len(Pieces(<<>>, g)) = 0
  BY <1>1, PiecesType
<1>3. Pieces(<<>>, g) = <<>>
  BY <1>2
<1>4. QED
  BY <1>3, FlattenEmpty DEF Subst, Pieces

LEMMA SubstAppend ==
  ASSUME NEW A, NEW t \in Seq(A), NEW x \in A, NEW g \in [A -> Seq(A)]
  PROVE  Subst(Append(t, x), g) = Subst(t, g) \o g[x]
<1> DEFINE u == Append(t, x)
           p == Pieces(t, g)
           q == Pieces(u, g)
<1>1. /\ u \in Seq(A) /\ Len(u) = Len(t) + 1 /\ Len(t) \in Nat
      /\ \A i \in 1 .. Len(t) : u[i] = t[i]
      /\ u[Len(t) + 1] = x
  BY AppendProperties, LenProperties
<1> HIDE DEF u
<1>2. /\ p \in Seq(Seq(A)) /\ Len(p) = Len(t)
      /\ \A i \in 1 .. Len(t) : p[i] = g[t[i]]
  BY PiecesType
<1>3. /\ q \in Seq(Seq(A)) /\ Len(q) = Len(t) + 1
      /\ \A i \in 1 .. Len(t) + 1 : q[i] = g[u[i]]
  BY <1>1, PiecesType
<1> HIDE DEF p, q
<1>4. g[x] \in Seq(A)
  OBVIOUS
<1>5. q = Append(p, g[x])
  <2> DEFINE S == Seq(A)
             y == g[x]
             r == Append(p, y)
  <2>1. p \in Seq(S) /\ q \in Seq(S) /\ y \in S
    BY <1>2, <1>3, <1>4
  <2> HIDE DEF S
  <2>2. /\ r \in Seq(S) /\ Len(r) = Len(p) + 1
        /\ \A i \in 1 .. Len(p) : r[i] = p[i]
        /\ r[Len(p) + 1] = y
    <3> HIDE DEF y
    <3>1. QED
      BY <2>1, AppendProperties
  <2> HIDE DEF r
  <2>3. ASSUME NEW i \in 1 .. Len(q) PROVE q[i] = r[i]
    <3>1. CASE i = Len(t) + 1
      BY <1>1, <1>2, <1>3, <2>2, <3>1
    <3>2. CASE i # Len(t) + 1
      <4>1. i \in 1 .. Len(t)
        BY <1>1, <1>3, <2>3, <3>2
      <4>2. QED
        BY <1>1, <1>2, <1>3, <2>2, <4>1
    <3>3. QED
      BY <3>1, <3>2
  <2>4. Len(q) = Len(r)
    BY <1>2, <1>3, <2>2
  <2>5. q = r
    BY <2>1, <2>2, <2>3, <2>4, SeqEqual
  <2>6. QED
    BY <2>5 DEF r
<1>6. FlattenSeq(p) \in Seq(A)
  BY <1>2, FlattenType
<1>7. FlattenSeq(q) = FlattenSeq(p) \o g[x]
  BY <1>2, <1>4, <1>5, <1>6, FlattenAppend
<1>8. QED
  BY <1>7 DEF Subst, Pieces, p, q, u

LEMMA SubstConcat ==
  ASSUME NEW A, NEW t \in Seq(A), NEW u \in Seq(A), NEW g \in [A -> Seq(A)]
  PROVE  Subst(t \o u, g) = Subst(t, g) \o Subst(u, g)
<1>0. \A p, q, r \in Seq(A) : (p \o q) \o r = p \o (q \o r)
  OBVIOUS
<1> DEFINE Bad == {v \in Seq(A) : Subst(t \o v, g) # Subst(t, g) \o Subst(v, g)}
<1> SUFFICES ASSUME Bad # {} PROVE FALSE
  OBVIOUS
<1>1. <<>> \notin Bad
  <2>1. <<>> \in Seq(A) /\ t \o <<>> = t /\ Subst(t, g) \in Seq(A)
    BY SubstType, ConcatEmptySeq
  <2>2. Subst(<<>>, g) = <<>>
    BY SubstEmpty
  <2>3. Subst(t, g) \o <<>> = Subst(t, g)
    BY <2>1, ConcatEmptySeq
  <2>4. QED
    BY <2>1, <2>2, <2>3
<1>2. PICK v \in Seq(A) : \E x \in A : Append(v, x) \in Bad /\ v \notin Bad
  <2>1. Bad \in SUBSET Seq(A)
    OBVIOUS
  <2> HIDE DEF Bad
  <2>2. QED
    BY <1>1, <2>1, Shortest
<1>3. PICK x \in A : Append(v, x) \in Bad /\ v \notin Bad
  BY <1>2
<1>4. /\ Subst(t \o v, g) = Subst(t, g) \o Subst(v, g)
      /\ Subst(t \o Append(v, x), g) # Subst(t, g) \o Subst(Append(v, x), g)
  BY <1>3
<1> HIDE DEF Bad
<1>5. t \o Append(v, x) = Append(t \o v, x) /\ t \o v \in Seq(A)
  <2> DEFINE w == t \o v
             y == <<x>>
  <2>1. y \in Seq(A) /\ w \in Seq(A)
    BY ConcatProperties
  <2>2. Append(v, x) = v \o y /\ Append(w, x) = w \o y
    BY <2>1, AppendIsConcat
  <2>3. w \o y = t \o (v \o y)
    <3> HIDE DEF w, y
    <3>1. (t \o v) \o y = t \o (v \o y)
      BY <1>0, <2>1, Zenon
    <3>2. QED
      BY <3>1 DEF w
  <2>4. QED
    BY <2>1, <2>2, <2>3
<1>6. Subst(Append(t \o v, x), g) = Subst(t \o v, g) \o g[x]
  BY <1>5, SubstAppend
<1>7. Subst(Append(v, x), g) = Subst(v, g) \o g[x]
  BY SubstAppend
<1>8. g[x] \in Seq(A) /\ Subst(t, g) \in Seq(A) /\ Subst(v, g) \in Seq(A)
  BY SubstType
<1>9. (Subst(t, g) \o Subst(v, g)) \o g[x] = Subst(t, g) \o (Subst(v, g) \o g[x])
  <2> DEFINE a == Subst(t, g)
             b == Subst(v, g)
             c == g[x]
  <2>1. a \in Seq(A) /\ b \in Seq(A) /\ c \in Seq(A)
    BY <1>8
  <2>4. \A r \in Seq(A) : (a \o b) \o r = a \o (b \o r)
    <3> HIDE DEF a, b
    <3>1. QED
      BY <1>0, <2>1, Zenon
  <2> HIDE DEF a, b, c
  <2>2. (a \o b) \o c = a \o (b \o c)
    BY <2>1, <2>4, Zenon
  <2>3. QED
    BY <2>2, Zenon DEF a, b, c
<1>10. QED
  BY <1>4, <1>5, <1>6, <1>7, <1>9

\* One substitution after another is the substitution of what the first one gives.
Composed(A, g, h, k) == \A x \in A : k[x] = Subst(g[x], h)

IsMap(A, g) == g \in [A -> Seq(A)]
IsText(A, t) == t \in Seq(A)

LEMMA SubstTwice ==
  ASSUME NEW A, NEW t, IsText(A, t), NEW g, IsMap(A, g), NEW h, IsMap(A, h), NEW k, IsMap(A, k),
         Composed(A, g, h, k)
  PROVE  Subst(Subst(t, g), h) = Subst(t, k)
<1> USE DEF IsText, IsMap
<1>0. \A p, q \in Seq(A) : Subst(p \o q, h) = Subst(p, h) \o Subst(q, h)
  BY SubstConcat
<1> DEFINE Bad == {v \in Seq(A) : Subst(Subst(v, g), h) # Subst(v, k)}
<1> SUFFICES ASSUME Bad # {} PROVE FALSE
  OBVIOUS
<1>1. <<>> \notin Bad
  <2>1. Subst(<<>>, g) = <<>> /\ Subst(<<>>, h) = <<>> /\ Subst(<<>>, k) = <<>>
    BY SubstEmpty
  <2>2. QED
    BY <2>1
<1>2. PICK v \in Seq(A) : \E x \in A : Append(v, x) \in Bad /\ v \notin Bad
  <2>1. Bad \in SUBSET Seq(A)
    OBVIOUS
  <2> HIDE DEF Bad
  <2>2. QED
    BY <1>1, <2>1, Shortest
<1>3. PICK x \in A : Append(v, x) \in Bad /\ v \notin Bad
  BY <1>2
<1>4. /\ Subst(Subst(v, g), h) = Subst(v, k)
      /\ Subst(Subst(Append(v, x), g), h) # Subst(Append(v, x), k)
  BY <1>3
<1> HIDE DEF Bad
<1>5. Subst(Append(v, x), g) = Subst(v, g) \o g[x] /\ Subst(Append(v, x), k) = Subst(v, k) \o k[x]
  BY SubstAppend
<1>6. Subst(v, g) \in Seq(A) /\ g[x] \in Seq(A)
  BY SubstType
<1>7. Subst(Subst(v, g) \o g[x], h) = Subst(Subst(v, g), h) \o Subst(g[x], h)
  <2> DEFINE a == Subst(v, g)
             b == g[x]
  <2>1. a \in Seq(A) /\ b \in Seq(A)
    BY <1>6
  <2> HIDE DEF a, b
  <2>2. Subst(a \o b, h) = Subst(a, h) \o Subst(b, h)
    BY <1>0, <2>1, Zenon
  <2>3. QED
    BY <2>2, Zenon DEF a, b
<1>8. QED
  BY <1>4, <1>5, <1>7 DEF Composed

\* A substitution that is about none of the symbols of a text.
LEMMA SubstNone ==
  ASSUME NEW A, NEW t \in Seq(A), NEW g \in [A -> Seq(A)],
         \A i \in 1 .. Len(t) : g[t[i]] = <<t[i]>>
  PROVE  Subst(t, g) = t
<1> DEFINE B == {x \in A : g[x] = <<x>>}
           Bad == {v \in Seq(B) : Subst(v, g) # v}
<1>0. \A i \in 1 .. Len(t) : t[i] \in B
  OBVIOUS
<1>1. t \in Seq(B) /\ \A v \in Seq(B) : v \in Seq(A)
  <2>1. B \subseteq A /\ \A x \in B : x \in A /\ g[x] = <<x>>
    OBVIOUS
  <2> HIDE DEF B
  <2>2. t = [i \in 1 .. Len(t) |-> t[i]] /\ Len(t) \in Nat
    OBVIOUS
  <2>3. t \in Seq(B)
    <3> DEFINE n == Len(t)
    <3>1. n \in Nat /\ \A i \in 1 .. n : t[i] \in B
      BY <1>0, <2>2
    <3> HIDE DEF n
    <3>2. [i \in 1 .. n |-> t[i]] \in Seq(B)
      BY <3>1
    <3>3. QED
      BY <2>2, <3>2 DEF n
  <2>4. QED
    BY <2>1, <2>3, SeqMonotonic
<1>2. \A x \in B : x \in A /\ g[x] = <<x>>
  OBVIOUS
<1> HIDE DEF B
<1> SUFFICES ASSUME Bad # {} PROVE FALSE
  BY <1>1
<1>3. <<>> \notin Bad
  BY SubstEmpty
<1>4. PICK v \in Seq(B) : \E x \in B : Append(v, x) \in Bad /\ v \notin Bad
  <2>1. Bad \in SUBSET Seq(B)
    OBVIOUS
  <2> HIDE DEF Bad
  <2>2. QED
    BY <1>3, <2>1, Shortest
<1>5. PICK x \in B : Append(v, x) \in Bad /\ v \notin Bad
  BY <1>4
<1>6. Subst(v, g) = v /\ Subst(Append(v, x), g) # Append(v, x)
  BY <1>5
<1> HIDE DEF Bad
<1>7. Subst(Append(v, x), g) = Subst(v, g) \o g[x]
  BY <1>1, <1>2, SubstAppend
<1>8. Append(v, x) = v \o <<x>>
  BY AppendIsConcat
<1>9. QED
  BY <1>2, <1>6, <1>7, <1>8

-----------------------------------------------------------------------------
(* The lists of the configuration: names are unique, so it does not matter *)
(* how they are searched.                                                  *)

Vals == Values \union {Missing}
VarLists == Seq([name : Vars, value : Vals])
Lists == Seq([name : Spellings, vars : VarLists])

Unique(list) == \A i, j \in DOMAIN list : list[i].name = list[j].name => i = j

Proper(gs) ==
  /\ gs \in Lists
  /\ Unique(gs)
  /\ \A i \in DOMAIN gs : Unique(gs[i].vars)

\* In the group of name n variable v has the value x.
VarHas(vs, v, x) == \E j \in DOMAIN vs : vs[j] = [name |-> v, value |-> x]
Holds(gs, n, v, x) == \E i \in DOMAIN gs : gs[i].name = n /\ VarHas(gs[i].vars, v, x)

LEMMA MinOf ==
  ASSUME NEW S \in SUBSET Nat, S # {}
  PROVE  Min(S) \in S /\ \A y \in S : Min(S) <= y
<1>1. PICK x \in S : \A y \in S : x <= y
  BY Lowest
<1>2. QED
  BY <1>1 DEF Min

\* A search of a list by name.
Find(list, n) == SelectInSeq(list, LAMBDA r : r.name = n)

LEMMA FindIs ==
  ASSUME NEW list, Len(list) \in Nat, NEW n
  PROVE  /\ Find(list, n) \in 0 .. Len(list)
         /\ Find(list, n) # 0 => list[Find(list, n)].name = n
         /\ Find(list, n) = 0 => \A i \in 1 .. Len(list) : list[i].name # n
<1> DEFINE I == {i \in 1 .. Len(list) : list[i].name = n}
<1>1. Find(list, n) = IF I # {} THEN Min(I) ELSE 0
  BY DEF Find, SelectInSeq
<1>2. CASE I = {}
  BY <1>1, <1>2
<1>3. CASE I # {}
  <2>1. I \in SUBSET Nat
    OBVIOUS
  <2>2. Min(I) \in I
    <3> HIDE DEF I
    <3>1. QED
      BY <1>3, <2>1, MinOf
  <2>3. QED
    BY <1>1, <1>3, <2>2
<1>4. QED
  BY <1>2, <1>3

LEMMA FindThat ==
  ASSUME NEW list, Len(list) \in Nat, DOMAIN list = 1 .. Len(list), Unique(list),
         NEW i \in DOMAIN list
  PROVE  Find(list, list[i].name) = i
<1> DEFINE f == Find(list, list[i].name)
<1>1. /\ f \in 0 .. Len(list)
      /\ f # 0 => list[f].name = list[i].name
      /\ f = 0 => \A j \in 1 .. Len(list) : list[j].name # list[i].name
  BY FindIs
<1> HIDE DEF f
<1>2. f # 0
  BY <1>1
<1>3. f \in DOMAIN list
  BY <1>1, <1>2
<1>4. f = i
  BY <1>1, <1>2, <1>3 DEF Unique
<1>5. QED
  BY <1>4 DEF f

LEMMA FindGroup == ASSUME NEW gs, NEW g PROVE find_group(gs, g) = Find(gs, strip(g))
BY DEF find_group, Find

LEMMA FindVar ==
  ASSUME NEW gs, NEW g, NEW v
  PROVE  find_var(gs, g, v) = IF find_group(gs, g) # 0
                                THEN Find(gs[find_group(gs, g)].vars, v) ELSE 0
BY DEF find_var, has_group, Find

\* What a list is.
LEMMA ListIs ==
  ASSUME NEW gs, gs \in Lists
  PROVE  /\ Len(gs) \in Nat /\ DOMAIN gs = 1 .. Len(gs)
         /\ \A i \in DOMAIN gs : /\ gs[i].name \in Spellings /\ gs[i].vars \in VarLists
                                 /\ gs[i] = [name |-> gs[i].name, vars |-> gs[i].vars]
<1>1. /\ Len(gs) \in Nat /\ DOMAIN gs = 1 .. Len(gs)
      /\ \A i \in DOMAIN gs : gs[i] \in [name : Spellings, vars : VarLists]
  <2> DEFINE R == [name : Spellings, vars : VarLists]
  <2>1. gs \in Seq(R)
    BY DEF Lists
  <2> HIDE DEF R
  <2>2. Len(gs) \in Nat /\ DOMAIN gs = 1 .. Len(gs) /\ \A i \in DOMAIN gs : gs[i] \in R
    BY <2>1
  <2>3. QED
    BY <2>2 DEF R
<1>2. QED
  BY <1>1

LEMMA VarsAre ==
  ASSUME NEW vs, vs \in VarLists
  PROVE  /\ Len(vs) \in Nat /\ DOMAIN vs = 1 .. Len(vs)
         /\ \A j \in DOMAIN vs : /\ vs[j].name \in Vars /\ vs[j].value \in Vals
                                 /\ vs[j] = [name |-> vs[j].name, value |-> vs[j].value]
<1>1. /\ Len(vs) \in Nat /\ DOMAIN vs = 1 .. Len(vs)
      /\ \A j \in DOMAIN vs : vs[j] \in [name : Vars, value : Vals]
  <2> DEFINE R == [name : Vars, value : Vals]
  <2>1. vs \in Seq(R)
    BY DEF VarLists
  <2> HIDE DEF R
  <2>2. Len(vs) \in Nat /\ DOMAIN vs = 1 .. Len(vs) /\ \A j \in DOMAIN vs : vs[j] \in R
    BY <2>1
  <2>3. QED
    BY <2>2 DEF R
<1>2. QED
  BY <1>1

\* Looking up what is there, and what is not.
LEMMA ReadsWhatHolds ==
  ASSUME NEW gs, Proper(gs), NEW g, NEW v, NEW def
  PROVE  /\ \A x : Holds(gs, strip(g), v, x) => read_string(gs, g, v, def) = x
         /\ (\A x : ~ Holds(gs, strip(g), v, x)) => read_string(gs, g, v, def) = def
<1> DEFINE p == find_group(gs, g)
           q == find_var(gs, g, v)
<1>1. /\ Len(gs) \in Nat /\ DOMAIN gs = 1 .. Len(gs)
      /\ \A i \in DOMAIN gs : gs[i].vars \in VarLists
  BY ListIs DEF Proper
<1>2. read_string(gs, g, v, def) = IF q = 0 THEN def ELSE gs[p].vars[q].value
  BY DEF read_string
<1>3. p = Find(gs, strip(g)) /\ q = IF p # 0 THEN Find(gs[p].vars, v) ELSE 0
  BY FindGroup, FindVar
<1> HIDE DEF p, q
<1>4. ASSUME NEW x, Holds(gs, strip(g), v, x) PROVE read_string(gs, g, v, def) = x
  <2>1. PICK i \in DOMAIN gs : gs[i].name = strip(g) /\ VarHas(gs[i].vars, v, x)
    BY <1>4 DEF Holds
  <2>2. PICK j \in DOMAIN gs[i].vars : gs[i].vars[j] = [name |-> v, value |-> x]
    BY <2>1 DEF VarHas
  <2>3. p = i
    BY <1>1, <1>3, <2>1, FindThat DEF Proper
  <2>4. q = j
    <3> DEFINE vs == gs[i].vars
    <3>1. vs \in VarLists /\ Unique(vs) /\ vs[j].name = v /\ j \in DOMAIN vs
      BY <1>1, <2>2 DEF Proper
    <3>2. q = Find(vs, v)
      BY <1>1, <1>3, <2>3
    <3> HIDE DEF vs
    <3>3. QED
      BY <3>1, <3>2, FindThat, VarsAre
  <2>5. j # 0
    BY <1>1, <2>2, VarsAre
  <2>6. QED
    BY <1>2, <2>2, <2>3, <2>4, <2>5
<1>5. ASSUME \A x : ~ Holds(gs, strip(g), v, x) PROVE read_string(gs, g, v, def) = def
  <2>1. SUFFICES ASSUME q # 0 PROVE FALSE
    BY <1>2
  <2>2. p # 0 /\ q = Find(gs[p].vars, v)
    BY <1>3, <2>1
  <2>3. p \in DOMAIN gs /\ gs[p].name = strip(g)
    BY <1>1, <1>3, <2>2, FindIs
  <2>4. Len(gs[p].vars) \in Nat /\ DOMAIN gs[p].vars = 1 .. Len(gs[p].vars)
    BY <1>1, <2>3, VarsAre
  <2>5. q \in DOMAIN gs[p].vars /\ gs[p].vars[q].name = v
    BY <2>1, <2>2, <2>4, FindIs
  <2>6. gs[p].vars[q] = [name |-> v, value |-> gs[p].vars[q].value]
    BY <1>1, <2>3, <2>5, VarsAre
  <2>7. Holds(gs, strip(g), v, gs[p].vars[q].value)
    BY <2>3, <2>5, <2>6 DEF Holds, VarHas
  <2>8. QED
    BY <1>5, <2>7
<1>6. QED
  BY <1>4, <1>5

\* What the operations do to the lists.
VarFirst(vs, v, x) == <<[name |-> v, value |-> x]>> \o vs
VarWith(vs, q, x) == [vs EXCEPT ![q].value = x]
GroupFirst(gs, n) == <<[name |-> n, vars |-> <<>>]>> \o gs
GroupWith(gs, p, vs) == [gs EXCEPT ![p].vars = vs]

\* A variable put in front of a list that does not have it.
LEMMA VarPut ==
  ASSUME NEW vs, vs \in VarLists, Unique(vs), NEW v \in Vars, NEW x \in Vals, Find(vs, v) = 0,
         NEW new, new = VarFirst(vs, v, x)
  PROVE  /\ new \in VarLists /\ Unique(new)
         /\ 1 \in DOMAIN new /\ new[1] = [name |-> v, value |-> x] /\ Find(new, v) = 1
         /\ \A w, y : w # v => (VarHas(new, w, y) <=> VarHas(vs, w, y))
<1> DEFINE R == [name : Vars, value : Vals]
           r1 == [name |-> v, value |-> x]
<1>1. /\ Len(vs) \in Nat /\ DOMAIN vs = 1 .. Len(vs) /\ vs \in Seq(R)
      /\ \A j \in DOMAIN vs : vs[j].name # v
  <2>1. Len(vs) \in Nat /\ DOMAIN vs = 1 .. Len(vs)
    BY VarsAre
  <2>2. vs \in Seq(R)
    BY DEF VarLists
  <2>3. QED
    BY <2>1, <2>2, FindIs
<1>2. r1 \in R /\ r1.name = v
  OBVIOUS
<1>3. new = <<r1>> \o vs
  BY DEF VarFirst
<1> HIDE DEF R, r1
<1>4. /\ new \in Seq(R) /\ Len(new) = Len(vs) + 1 /\ DOMAIN new = 1 .. Len(vs) + 1
      /\ new[1] = r1 /\ \A j \in 2 .. Len(vs) + 1 : new[j] = vs[j - 1] /\ j - 1 \in DOMAIN vs
  BY <1>1, <1>2, <1>3
<1>5. \A j \in DOMAIN vs : j + 1 \in DOMAIN new /\ new[j + 1] = vs[j] /\ j + 1 # 1
  BY <1>1, <1>4
<1>6. \A j \in DOMAIN new : j # 1 => /\ j - 1 \in DOMAIN vs /\ new[j] = vs[j - 1]
                                     /\ vs[j - 1].name # v
  BY <1>1, <1>4
<1>7. Unique(new)
  <2>1. ASSUME NEW i \in DOMAIN new, NEW j \in DOMAIN new, new[i].name = new[j].name
        PROVE  i = j
    <3>1. CASE i = 1 \/ j = 1
      BY <1>2, <1>4, <1>6, <2>1, <3>1
    <3>2. CASE i # 1 /\ j # 1
      <4>1. i - 1 \in DOMAIN vs /\ j - 1 \in DOMAIN vs /\ vs[i - 1].name = vs[j - 1].name
        BY <1>6, <2>1, <3>2
      <4>2. i - 1 = j - 1
        BY <4>1 DEF Unique
      <4>3. QED
        BY <1>1, <1>4, <4>2
    <3>3. QED
      BY <3>1, <3>2
  <2>2. QED
    BY <2>1 DEF Unique
<1>8. 1 \in DOMAIN new /\ Len(new) \in Nat /\ DOMAIN new = 1 .. Len(new)
  BY <1>1, <1>4
<1>9. Find(new, v) = 1
  <2>1. new[1].name = v
    BY <1>2, <1>4
  <2>2. QED
    BY <1>7, <1>8, <2>1, FindThat
<1>10. ASSUME NEW r, r.name # v
       PROVE  (\E j \in DOMAIN new : new[j] = r) <=> (\E j \in DOMAIN vs : vs[j] = r)
  <2>1. ASSUME NEW j \in DOMAIN new, new[j] = r PROVE \E k \in DOMAIN vs : vs[k] = r
    <3>1. j # 1
      BY <1>2, <1>4, <1>10, <2>1
    <3>2. QED
      BY <1>6, <2>1, <3>1
  <2>2. ASSUME NEW j \in DOMAIN vs, vs[j] = r PROVE \E k \in DOMAIN new : new[k] = r
    BY <1>5, <2>2
  <2>3. QED
    BY <2>1, <2>2
<1>11. ASSUME NEW w, NEW y, w # v PROVE VarHas(new, w, y) <=> VarHas(vs, w, y)
  <2> DEFINE r == [name |-> w, value |-> y]
  <2>1. r.name # v
    BY <1>11
  <2>2. VarHas(new, w, y) <=> \E j \in DOMAIN new : new[j] = r
    BY DEF VarHas
  <2>3. VarHas(vs, w, y) <=> \E j \in DOMAIN vs : vs[j] = r
    BY DEF VarHas
  <2> HIDE DEF r
  <2>4. QED
    BY <1>10, <2>1, <2>2, <2>3
<1>12. new \in VarLists
  BY <1>4 DEF VarLists, R
<1>13. QED
  BY <1>4, <1>7, <1>8, <1>9, <1>11, <1>12 DEF r1

\* A variable given a value.
LEMMA VarSet ==
  ASSUME NEW vs, vs \in VarLists, Unique(vs), NEW q \in DOMAIN vs, NEW x \in Vals,
         NEW new, new = VarWith(vs, q, x)
  PROVE  /\ new \in VarLists /\ Unique(new)
         /\ \A v, y : VarHas(new, v, y) <=> IF v = vs[q].name THEN y = x ELSE VarHas(vs, v, y)
<1> DEFINE R == [name : Vars, value : Vals]
           e == [name |-> vs[q].name, value |-> x]
<1>1. /\ Len(vs) \in Nat /\ DOMAIN vs = 1 .. Len(vs) /\ vs \in Seq(R)
      /\ \A j \in DOMAIN vs : /\ vs[j].name \in Vars /\ vs[j].value \in Vals
                              /\ vs[j] = [name |-> vs[j].name, value |-> vs[j].value]
  <2>1. vs \in Seq(R)
    BY DEF VarLists
  <2> HIDE DEF R
  <2>2. QED
    BY <2>1, VarsAre
<1>2. new = [vs EXCEPT ![q] = e]
  <2>1. [vs[q] EXCEPT !.value = x] = e
    BY <1>1
  <2>2. QED
    BY <2>1 DEF VarWith
<1>3. e \in R /\ e.name = vs[q].name /\ e.value = x
  BY <1>1
<1> HIDE DEF R, e
<1>4. /\ new \in Seq(R) /\ DOMAIN new = DOMAIN vs /\ new[q] = e
      /\ \A j \in DOMAIN vs : j # q => new[j] = vs[j]
  BY <1>1, <1>2, <1>3
<1>5. \A j \in DOMAIN vs : new[j].name = vs[j].name
  BY <1>3, <1>4
<1>6. Unique(new)
  BY <1>4, <1>5 DEF Unique
<1>7. ASSUME NEW v, NEW y
      PROVE  VarHas(new, v, y) <=> IF v = vs[q].name THEN y = x ELSE VarHas(vs, v, y)
  <2>1. CASE v = vs[q].name
    <3>1. y = x => new[q] = [name |-> v, value |-> y]
      BY <1>4, <2>1 DEF e
    <3>2. ASSUME NEW j \in DOMAIN new, new[j] = [name |-> v, value |-> y] PROVE y = x
      <4>1. new[j].name = v /\ new[j].value = y
        BY <3>2
      <4>2. j = q
        BY <1>4, <1>5, <2>1, <4>1 DEF Unique
      <4>3. QED
        BY <1>3, <1>4, <4>1, <4>2
    <3>3. QED
      BY <1>4, <2>1, <3>1, <3>2 DEF VarHas
  <2>2. CASE v # vs[q].name
    <3>1. \A j \in DOMAIN vs : \/ new[j] = [name |-> v, value |-> y]
                               \/ vs[j] = [name |-> v, value |-> y]
                               => j # q
      <4>1. e # [name |-> v, value |-> y] /\ vs[q] # [name |-> v, value |-> y]
        <5>1. [name |-> v, value |-> y].name = v
          OBVIOUS
        <5>2. QED
          BY <1>3, <2>2, <5>1
      <4>2. QED
        BY <1>4, <4>1
    <3>2. QED
      BY <1>4, <2>2, <3>1 DEF VarHas
  <2>3. QED
    BY <2>1, <2>2
<1>8. new \in VarLists
  BY <1>4 DEF VarLists, R
<1>9. QED
  BY <1>6, <1>7, <1>8

\* A new group in front of the list.
LEMMA GroupPut ==
  ASSUME NEW gs, Proper(gs), NEW n \in Spellings, Find(gs, n) = 0,
         NEW new, new = GroupFirst(gs, n)
  PROVE  /\ Proper(new)
         /\ 1 \in DOMAIN new /\ new[1] = [name |-> n, vars |-> <<>>] /\ Find(new, n) = 1
         /\ \A m, v, y : Holds(new, m, v, y) <=> Holds(gs, m, v, y)
<1> DEFINE R == [name : Spellings, vars : VarLists]
           r1 == [name |-> n, vars |-> <<>>]
<1>1. /\ Len(gs) \in Nat /\ DOMAIN gs = 1 .. Len(gs) /\ gs \in Seq(R)
      /\ \A j \in DOMAIN gs : gs[j].name # n
  <2>1. Len(gs) \in Nat /\ DOMAIN gs = 1 .. Len(gs)
    BY ListIs DEF Proper
  <2>2. gs \in Seq(R)
    BY DEF Lists, Proper
  <2>3. QED
    BY <2>1, <2>2, FindIs
<1>2. r1 \in R /\ r1.name = n /\ r1.vars = <<>>
  <2>1. <<>> \in VarLists
    BY DEF VarLists
  <2>2. QED
    BY <2>1
<1>3. new = <<r1>> \o gs
  BY DEF GroupFirst
<1> HIDE DEF R, r1
<1>4. /\ new \in Seq(R) /\ Len(new) = Len(gs) + 1 /\ DOMAIN new = 1 .. Len(gs) + 1
      /\ new[1] = r1 /\ \A j \in 2 .. Len(gs) + 1 : new[j] = gs[j - 1] /\ j - 1 \in DOMAIN gs
  BY <1>1, <1>2, <1>3
<1>5. \A j \in DOMAIN gs : j + 1 \in DOMAIN new /\ new[j + 1] = gs[j] /\ j + 1 # 1
  BY <1>1, <1>4
<1>6. \A j \in DOMAIN new : j # 1 => /\ j - 1 \in DOMAIN gs /\ new[j] = gs[j - 1]
                                     /\ gs[j - 1].name # n
  BY <1>1, <1>4
<1>7. Unique(new)
  <2>1. ASSUME NEW i \in DOMAIN new, NEW j \in DOMAIN new, new[i].name = new[j].name
        PROVE  i = j
    <3>1. CASE i = 1 \/ j = 1
      BY <1>2, <1>4, <1>6, <2>1, <3>1
    <3>2. CASE i # 1 /\ j # 1
      <4>1. i - 1 \in DOMAIN gs /\ j - 1 \in DOMAIN gs /\ gs[i - 1].name = gs[j - 1].name
        BY <1>6, <2>1, <3>2
      <4>2. i - 1 = j - 1
        BY <4>1 DEF Unique, Proper
      <4>3. QED
        BY <1>1, <1>4, <4>2
    <3>3. QED
      BY <3>1, <3>2
  <2>2. QED
    BY <2>1 DEF Unique
<1>8. 1 \in DOMAIN new /\ Len(new) \in Nat /\ DOMAIN new = 1 .. Len(new)
  BY <1>1, <1>4
<1>9. Find(new, n) = 1
  <2>1. new[1].name = n
    BY <1>2, <1>4
  <2>2. QED
    BY <1>7, <1>8, <2>1, FindThat
<1>10. ASSUME NEW m, NEW v, NEW y PROVE Holds(new, m, v, y) <=> Holds(gs, m, v, y)
  <2>1. ASSUME NEW j \in DOMAIN new, new[j].name = m,
               VarHas(new[j].vars, v, y)
        PROVE  Holds(gs, m, v, y)
    <3>1. j # 1
      BY <1>2, <1>4, <2>1 DEF VarHas
    <3>2. QED
      BY <1>6, <2>1, <3>1 DEF Holds
  <2>2. ASSUME NEW j \in DOMAIN gs, gs[j].name = m,
               VarHas(gs[j].vars, v, y)
        PROVE  Holds(new, m, v, y)
    <3>1. PICK i \in DOMAIN new : new[i] = gs[j]
      BY <1>5
    <3>2. QED
      BY <2>2, <3>1 DEF Holds
  <2>3. QED
    BY <2>1, <2>2 DEF Holds
<1>11. \A i \in DOMAIN new : Unique(new[i].vars)
  <2>1. Unique(<<>>)
    BY DEF Unique
  <2>2. QED
    BY <1>2, <1>4, <1>6, <2>1 DEF Proper
<1>12. Proper(new)
  BY <1>4, <1>7, <1>11 DEF Proper, Lists, R
<1>13. QED
  BY <1>4, <1>8, <1>9, <1>10, <1>12 DEF r1

\* A group given other variables.
LEMMA GroupSet ==
  ASSUME NEW gs, Proper(gs), NEW p \in DOMAIN gs, NEW vs, vs \in VarLists, Unique(vs),
         NEW new, new = GroupWith(gs, p, vs)
  PROVE  /\ Proper(new) /\ p \in DOMAIN new /\ new[p] = [name |-> gs[p].name, vars |-> vs]
         /\ \A n : Find(gs, n) = p => Find(new, n) = p
         /\ \A n, v, y : Holds(new, n, v, y)
                           <=> IF n = gs[p].name
                                 THEN VarHas(vs, v, y) ELSE Holds(gs, n, v, y)
<1> DEFINE R == [name : Spellings, vars : VarLists]
           e == [name |-> gs[p].name, vars |-> vs]
<1>1. /\ Len(gs) \in Nat /\ DOMAIN gs = 1 .. Len(gs) /\ gs \in Seq(R)
      /\ \A j \in DOMAIN gs : /\ gs[j].name \in Spellings /\ gs[j].vars \in VarLists
                              /\ gs[j] = [name |-> gs[j].name, vars |-> gs[j].vars]
  <2>1. gs \in Seq(R) /\ gs \in Lists
    BY DEF Lists, Proper
  <2> HIDE DEF R
  <2>2. QED
    BY <2>1, ListIs
<1>2. new = [gs EXCEPT ![p] = e]
  <2>1. [gs[p] EXCEPT !.vars = vs] = e
    BY <1>1
  <2>2. QED
    BY <2>1 DEF GroupWith
<1>3. e \in R /\ e.name = gs[p].name /\ e.vars = vs
  BY <1>1
<1> HIDE DEF R, e
<1>4. /\ new \in Seq(R) /\ DOMAIN new = DOMAIN gs /\ new[p] = e /\ Len(new) = Len(gs)
      /\ \A j \in DOMAIN gs : j # p => new[j] = gs[j]
  BY <1>1, <1>2, <1>3
<1>5. \A j \in DOMAIN gs : new[j].name = gs[j].name
  BY <1>3, <1>4
<1>6. Unique(new)
  BY <1>4, <1>5 DEF Unique, Proper
<1>7. \A i \in DOMAIN new : Unique(new[i].vars)
  BY <1>3, <1>4 DEF Proper
<1>8. ASSUME NEW n, Find(gs, n) = p PROVE Find(new, n) = p
  <2>1. p # 0 /\ gs[p].name = n
    BY <1>1, <1>8, FindIs
  <2>2. new[p].name = n /\ DOMAIN new = 1 .. Len(new) /\ Len(new) \in Nat /\ p \in DOMAIN new
    BY <1>1, <1>4, <1>5, <2>1
  <2>3. QED
    BY <1>6, <2>2, FindThat
<1>9. ASSUME NEW n, NEW v, NEW y
      PROVE  Holds(new, n, v, y)
               <=> IF n = gs[p].name THEN VarHas(vs, v, y) ELSE Holds(gs, n, v, y)
  <2>1. CASE n = gs[p].name
    <3>1. \A i \in DOMAIN new : new[i].name = n <=> i = p
      BY <1>4, <1>5, <2>1 DEF Unique, Proper
    <3>2. QED
      BY <1>3, <1>4, <2>1, <3>1 DEF Holds
  <2>2. CASE n # gs[p].name
    <3>1. \A i \in DOMAIN gs : gs[i].name = n => i # p
      BY <2>2
    <3>2. QED
      BY <1>4, <1>5, <2>2, <3>1 DEF Holds
  <2>3. QED
    BY <2>1, <2>2
<1>10. Proper(new)
  BY <1>4, <1>6, <1>7 DEF Proper, Lists, R
<1>11. QED
  BY <1>4, <1>8, <1>9, <1>10 DEF e

\* A heading adds a group, or finds it there.
LEMMA AddGroup ==
  ASSUME NEW gs, Proper(gs), NEW g \in Spellings
  PROVE  LET new == add_group(gs, g)
             p == find_group(new, g)
         IN  /\ Proper(new)
             /\ p \in DOMAIN new /\ p # 0 /\ new[p].name = strip(g)
             /\ IF find_group(gs, g) # 0 THEN new = gs ELSE new[p].vars = <<>>
             /\ \A n, v, y : Holds(new, n, v, y) <=> Holds(gs, n, v, y)
<1> DEFINE n == strip(g)
           new == add_group(gs, g)
           p == find_group(new, g)
<1>1. n \in Spellings /\ find_group(gs, g) = Find(gs, n) /\ p = Find(new, n)
  BY JConfigAssumption, FindGroup
<1>2. new = IF Find(gs, n) # 0 THEN gs ELSE GroupFirst(gs, n)
  BY <1>1 DEF add_group, has_group, GroupFirst
<1>3. CASE Find(gs, n) # 0
  <2>1. Len(gs) \in Nat /\ DOMAIN gs = 1 .. Len(gs)
    BY ListIs DEF Proper
  <2>2. new = gs
    BY <1>2, <1>3
  <2>3. p \in DOMAIN gs /\ p # 0 /\ gs[p].name = n
    <3> HIDE DEF n, new, p
    <3>1. QED
      BY <1>1, <1>3, <2>1, <2>2, FindIs
  <2> HIDE DEF new, p
  <2>4. QED
    BY <1>1, <1>3, <2>2, <2>3 DEF new, p
<1>4. CASE Find(gs, n) = 0
  <2>1. new = GroupFirst(gs, n)
    BY <1>2, <1>4
  <2> HIDE DEF n, new, p
  <2>2. /\ Proper(new)
        /\ 1 \in DOMAIN new /\ new[1] = [name |-> n, vars |-> <<>>] /\ Find(new, n) = 1
        /\ \A m, v, y : Holds(new, m, v, y) <=> Holds(gs, m, v, y)
    BY <1>1, <1>4, <2>1, GroupPut
  <2>3. p = 1 /\ new[p].name = n /\ new[p].vars = <<>>
    BY <1>1, <2>2
  <2>4. QED
    BY <1>1, <1>4, <2>2, <2>3 DEF n, new, p
<1>5. QED
  BY <1>3, <1>4

\* An assignment gives the variable the value, and no other variable another.
LEMMA WriteString ==
  ASSUME NEW gs, Proper(gs), NEW g \in Spellings, NEW v \in Vars, NEW x \in Values
  PROVE  LET new == write_string(gs, g, v, x) IN
         /\ Proper(new)
         /\ \A n, w, y : Holds(new, n, w, y) <=> IF n = strip(g) /\ w = v THEN y = x
                                                 ELSE Holds(gs, n, w, y)
<1> DEFINE n == strip(g)
           gs1 == add_group(gs, g)
           p == find_group(gs1, g)
           vs0 == gs1[p].vars
           vs1 == IF Find(vs0, v) # 0 THEN vs0 ELSE VarFirst(vs0, v, Missing)
           q == Find(vs1, v)
           vs2 == VarWith(vs1, q, x)
           with == add_var(gs, g, v)
           new == write_string(gs, g, v, x)
<1>1. /\ Proper(gs1) /\ p \in DOMAIN gs1 /\ p # 0 /\ gs1[p].name = n /\ p = Find(gs1, n)
      /\ find_group(gs, g) # 0 => gs1 = gs
      /\ find_group(gs, g) = 0 => vs0 = <<>>
      /\ \A m, w, y : Holds(gs1, m, w, y) <=> Holds(gs, m, w, y)
  BY AddGroup, FindGroup
<1>2. x \in Vals /\ Missing \in Vals
  BY DEF Vals
<1>3. vs0 \in VarLists /\ Unique(vs0) /\ Len(vs0) \in Nat /\ DOMAIN vs0 = 1 .. Len(vs0)
  <2> HIDE DEF gs1, p
  <2>1. vs0 \in VarLists /\ Unique(vs0)
    BY <1>1, ListIs DEF Proper
  <2> HIDE DEF vs0
  <2>2. QED
    BY <2>1, VarsAre
<1>4. /\ vs1 \in VarLists /\ Unique(vs1) /\ q \in DOMAIN vs1 /\ q # 0 /\ vs1[q].name = v
      /\ \A w, y : w # v => (VarHas(vs1, w, y) <=> VarHas(vs0, w, y))
  <2> HIDE DEF vs0
  <2>1. CASE Find(vs0, v) # 0
    <3>1. vs1 = vs0 /\ q = Find(vs0, v)
      BY <2>1
    <3> HIDE DEF vs1, q
    <3>2. q \in DOMAIN vs0 /\ q # 0 /\ vs0[q].name = v
      BY <1>3, <2>1, <3>1, FindIs
    <3>3. QED
      BY <1>3, <3>1, <3>2
  <2>2. CASE Find(vs0, v) = 0
    <3>1. vs1 = VarFirst(vs0, v, Missing)
      BY <2>2
    <3> HIDE DEF vs1
    <3>2. /\ vs1 \in VarLists /\ Unique(vs1)
          /\ 1 \in DOMAIN vs1 /\ vs1[1] = [name |-> v, value |-> Missing] /\ q = 1
          /\ \A w, y : w # v => (VarHas(vs1, w, y) <=> VarHas(vs0, w, y))
      BY <1>2, <1>3, <2>2, <3>1, VarPut
    <3> HIDE DEF q
    <3>3. QED
      BY <3>2
  <2>3. QED
    BY <2>1, <2>2
<1>5. /\ vs2 \in VarLists /\ Unique(vs2)
      /\ \A w, y : VarHas(vs2, w, y) <=> IF w = v THEN y = x ELSE VarHas(vs1, w, y)
  <2> HIDE DEF vs1, q
  <2> DEFINE vs3 == vs2
  <2>1. vs3 = VarWith(vs1, q, x)
    OBVIOUS
  <2> HIDE DEF vs3
  <2>2. /\ vs3 \in VarLists /\ Unique(vs3)
        /\ \A w, y : VarHas(vs3, w, y) <=> IF w = vs1[q].name THEN y = x ELSE VarHas(vs1, w, y)
    BY <1>2, <1>4, <2>1, VarSet
  <2>3. QED
    BY <1>4, <2>2 DEF vs3
<1>6. find_var(gs, g, v) # 0 <=> Find(vs0, v) # 0
  <2>1. find_var(gs, g, v) = IF find_group(gs, g) # 0
                               THEN Find(gs[find_group(gs, g)].vars, v) ELSE 0
    BY FindVar
  <2>2. CASE find_group(gs, g) # 0
    BY <1>1, <2>1, <2>2
  <2>3. CASE find_group(gs, g) = 0
    <3>1. vs0 = <<>>
      BY <1>1, <2>3
    <3>2. Find(<<>>, v) = 0
      <4>1. Len(<<>>) = 0
        OBVIOUS
      <4>2. Find(<<>>, v) \in 0 .. Len(<<>>)
        BY <4>1, FindIs
      <4>3. QED
        BY <4>1, <4>2
    <3>3. QED
      BY <2>1, <2>3, <3>1, <3>2
  <2>4. QED
    BY <2>2, <2>3
<1>7. with = GroupWith(gs1, p, vs1)
  <2>1. CASE find_var(gs, g, v) # 0
    <3>1. with = gs
      BY <2>1 DEF add_var
    <3>2. find_group(gs, g) # 0
      BY <2>1, FindVar
    <3>3. gs1 = gs /\ vs1 = gs1[p].vars
      BY <1>1, <1>6, <2>1, <3>2
    <3>4. gs1 \in Lists
      BY <1>1 DEF Proper
    <3> HIDE DEF gs1, p, vs1
    <3>5. gs1 = [gs1 EXCEPT ![p].vars = gs1[p].vars]
      <4>1. gs1[p] = [gs1[p] EXCEPT !.vars = gs1[p].vars]
        BY <1>1, <3>4, ListIs
      <4>2. gs1 = [i \in DOMAIN gs1 |-> gs1[i]]
        <5> DEFINE R == [name : Spellings, vars : VarLists]
        <5>1. gs1 \in Seq(R)
          BY <3>4 DEF Lists
        <5> HIDE DEF R
        <5>2. QED
          BY <5>1
      <4>3. QED
        BY <1>1, <4>1, <4>2
    <3>6. QED
      BY <3>1, <3>3, <3>5 DEF GroupWith
  <2>2. CASE find_var(gs, g, v) = 0
    <3>1. with = [gs1 EXCEPT ![p].vars = <<[name |-> v, value |-> Missing]>> \o @]
      BY <2>2 DEF add_var
    <3>2. vs1 = <<[name |-> v, value |-> Missing]>> \o gs1[p].vars
      BY <1>6, <2>2 DEF VarFirst
    <3>3. QED
      BY <1>1, <3>1, <3>2 DEF GroupWith
  <2>3. QED
    BY <2>1, <2>2
<1>8. /\ Proper(with) /\ p \in DOMAIN with /\ with[p] = [name |-> n, vars |-> vs1]
      /\ Find(with, n) = p
      /\ \A m, w, y : Holds(with, m, w, y)
           <=> IF m = n THEN VarHas(vs1, w, y) ELSE Holds(gs1, m, w, y)
  <2> HIDE DEF gs1, p, vs1, with, n
  <2>1. QED
    BY <1>1, <1>4, <1>7, GroupSet
<1>9. find_group(with, g) = p /\ find_var(with, g, v) = q
  <2>1. find_group(with, g) = p
    BY <1>8, FindGroup
  <2>2. find_var(with, g, v) = Find(with[p].vars, v)
    BY <1>1, <2>1, FindVar
  <2>3. QED
    BY <1>8, <2>1, <2>2
<1>10. new = GroupWith(with, p, vs2)
  <2>1. new = [with EXCEPT ![p].vars[q].value = x]
    BY <1>9 DEF write_string
  <2>2. with[p].vars = vs1
    BY <1>8
  <2> HIDE DEF with, p, q, vs1
  <2>3. QED
    BY <2>1, <2>2 DEF GroupWith, VarWith
<1>11. /\ Proper(new)
       /\ \A m, w, y : Holds(new, m, w, y)
            <=> IF m = n THEN VarHas(vs2, w, y) ELSE Holds(with, m, w, y)
  <2>1. with[p].name = n
    BY <1>8
  <2> HIDE DEF p, vs2, with, new, n
  <2>2. /\ Proper(with) /\ p \in DOMAIN with /\ vs2 \in VarLists /\ Unique(vs2)
        /\ new = GroupWith(with, p, vs2)
    BY <1>5, <1>8, <1>10
  <2>3. /\ Proper(new)
        /\ \A m, w, y : Holds(new, m, w, y)
             <=> IF m = with[p].name THEN VarHas(vs2, w, y) ELSE Holds(with, m, w, y)
    BY <2>2, GroupSet
  <2>4. QED
    BY <2>1, <2>3
<1>12. ASSUME NEW w, NEW y, w # v
       PROVE  VarHas(vs1, w, y) <=> Holds(gs, n, w, y)
  <2>1. Holds(gs1, n, w, y) <=> VarHas(vs0, w, y)
    <3> HIDE DEF gs1, p, n
    <3>1. \A i \in DOMAIN gs1 : gs1[i].name = n <=> i = p
      BY <1>1 DEF Proper, Unique
    <3>2. QED
      BY <1>1, <3>1 DEF Holds
  <2> HIDE DEF vs0, vs1, gs1, n
  <2>2. QED
    BY <1>1, <1>4, <1>12, <2>1
<1>13. ASSUME NEW m, NEW w, NEW y
       PROVE  Holds(new, m, w, y) <=> IF m = n /\ w = v THEN y = x ELSE Holds(gs, m, w, y)
  <2> HIDE DEF vs1, vs2, with, new, n, gs1
  <2>1. CASE m = n
    BY <1>5, <1>11, <1>12, <2>1
  <2>2. CASE m # n
    BY <1>1, <1>8, <1>11, <2>2
  <2>3. QED
    BY <2>1, <2>2
<1>14. QED
  BY <1>11, <1>13

\* Lists with the same values are read alike; an assignment changes what is read
\* of its variable.
LEMMA ReadsSame ==
  ASSUME NEW gs, Proper(gs), NEW hs, Proper(hs),
         \A n, v, y : Holds(hs, n, v, y) <=> Holds(gs, n, v, y),
         NEW g, NEW v, NEW def
  PROVE  read_string(hs, g, v, def) = read_string(gs, g, v, def)
<1>1. CASE \E x : Holds(gs, strip(g), v, x)
  <2>1. PICK x : Holds(gs, strip(g), v, x)
    BY <1>1
  <2>2. Holds(hs, strip(g), v, x)
    BY <2>1
  <2>3. QED
    BY <2>1, <2>2, ReadsWhatHolds
<1>2. CASE \A x : ~ Holds(gs, strip(g), v, x)
  <2>1. \A x : ~ Holds(hs, strip(g), v, x)
    BY <1>2
  <2>2. QED
    BY <1>2, <2>1, ReadsWhatHolds
<1>3. QED
  BY <1>1, <1>2

LEMMA ReadsWritten ==
  ASSUME NEW gs, Proper(gs), NEW h \in Spellings, NEW v \in Vars, NEW x \in Values,
         NEW new, new = write_string(gs, h, v, x),
         NEW g, NEW w, NEW def
  PROVE  read_string(new, g, w, def) = IF strip(g) = strip(h) /\ w = v THEN x
                                       ELSE read_string(gs, g, w, def)
<1>1. /\ Proper(new)
      /\ \A n, u, y : Holds(new, n, u, y) <=> IF n = strip(h) /\ u = v THEN y = x
                                              ELSE Holds(gs, n, u, y)
  BY WriteString
<1>2. CASE strip(g) = strip(h) /\ w = v
  <2>1. Holds(new, strip(g), w, x)
    BY <1>1, <1>2
  <2>2. QED
    BY <1>1, <1>2, <2>1, ReadsWhatHolds
<1>3. CASE ~ (strip(g) = strip(h) /\ w = v)
  <2>1. \A y : Holds(new, strip(g), w, y) <=> Holds(gs, strip(g), w, y)
    BY <1>1, <1>3
  <2>2. CASE \E y : Holds(gs, strip(g), w, y)
    <3>1. PICK y : Holds(gs, strip(g), w, y)
      BY <2>2
    <3>2. Holds(new, strip(g), w, y)
      BY <2>1, <3>1
    <3>3. QED
      BY <1>1, <1>3, <3>1, <3>2, ReadsWhatHolds
  <2>3. CASE \A y : ~ Holds(gs, strip(g), w, y)
    <3>1. \A y : ~ Holds(new, strip(g), w, y)
      BY <2>1, <2>3
    <3>2. QED
      BY <1>1, <1>3, <2>3, <3>1, ReadsWhatHolds
  <2>4. QED
    BY <2>2, <2>3
<1>4. QED
  BY <1>2, <1>3

-----------------------------------------------------------------------------
(* The configuration while it is read, and after.                          *)

ConfigInv ==
  /\ start \in {"begin", "reading", "done", "failed"}
  /\ Proper(groups)
  /\ \A n, v, y : Holds(groups, n, v, y) => y \in Values
  /\ group \in Spellings
  /\ fed \in Nat
  /\ buffer \in Lines \union {Unread}
  /\ fed > 0 => buffer \in Lines

LEMMA LineIs ==
  ASSUME NEW l \in Lines
  PROVE  /\ l.kind \in {"heading", "unclosed", "other", "assignment"}
         /\ l.kind = "heading" => l.group \in Spellings
         /\ l.kind = "assignment" => l.var \in Vars /\ l.value \in Values
         /\ l # Unread
BY DEF Lines, Line, Unread

\* What a line does to the lists.
LEMMA Parsed ==
  ASSUME Proper(groups), \A n, v, y : Holds(groups, n, v, y) => y \in Values,
         group \in Spellings, NEW l \in Lines, Parse(l)
  PROVE  /\ Proper(groups') /\ group' \in Spellings
         /\ \A n, v, y : Holds(groups', n, v, y) => y \in Values
         /\ strip(group') = IF l.kind = "heading" THEN strip(l.group) ELSE strip(group)
         /\ \A g, v, def : read_string(groups', g, v, def) =
              IF l.kind = "assignment" /\ strip(g) = strip(group) /\ v = l.var THEN l.value
              ELSE read_string(groups, g, v, def)
<1>1. /\ l.kind \in {"heading", "unclosed", "other", "assignment"}
      /\ l.kind = "heading" => l.group \in Spellings
      /\ l.kind = "assignment" => l.var \in Vars /\ l.value \in Values
  BY LineIs
<1>2. group' = IF l.kind = "heading" THEN l.group ELSE group
  BY DEF Parse
<1>3. CASE l.kind = "heading"
  <2>1. groups' = add_group(groups, l.group)
    BY <1>3 DEF Parse
  <2>2. /\ Proper(groups')
        /\ \A n, v, y : Holds(groups', n, v, y) <=> Holds(groups, n, v, y)
    BY <1>1, <1>3, <2>1, AddGroup
  <2>3. \A g, v, def : read_string(groups', g, v, def) = read_string(groups, g, v, def)
    BY <2>2, ReadsSame
  <2>4. QED
    BY <1>1, <1>2, <1>3, <2>2, <2>3
<1>4. CASE l.kind = "assignment"
  <2> DEFINE a == l.var
             b == l.value
  <2>1. groups' = write_string(groups, group, a, b)
    BY <1>4 DEF Parse
  <2>2. a \in Vars /\ b \in Values
    BY <1>1, <1>4
  <2> HIDE DEF a, b
  <2>3. /\ Proper(groups')
        /\ \A n, v, y : Holds(groups', n, v, y) <=> IF n = strip(group) /\ v = a THEN y = b
                                                    ELSE Holds(groups, n, v, y)
    BY <2>1, <2>2, WriteString
  <2>4. \A g, v, def : read_string(groups', g, v, def) =
          IF strip(g) = strip(group) /\ v = a THEN b ELSE read_string(groups, g, v, def)
    BY <2>1, <2>2, ReadsWritten
  <2>5. \A n, v, y : Holds(groups', n, v, y) => y \in Values
    BY <2>2, <2>3
  <2>6. group' = group
    BY <1>2, <1>4
  <2>7. QED
    BY <1>4, <2>3, <2>4, <2>5, <2>6 DEF a, b
<1>5. CASE l.kind \in {"unclosed", "other"}
  <2>1. groups' = groups /\ group' = group
    BY <1>5 DEF Parse
  <2>2. QED
    BY <1>5, <2>1
<1>6. QED
  BY <1>1, <1>3, <1>4, <1>5

LEMMA ConfigInit == ASSUME JInit PROVE ConfigInv
<1>1. groups = <<>> /\ group \in Spellings /\ start = "begin" /\ buffer = Unread /\ fed = 0
  BY JConfigAssumption DEF JInit
<1>2. Proper(<<>>)
  <2>1. <<>> \in Lists
    BY DEF Lists
  <2>2. QED
    BY <2>1 DEF Proper, Unique
<1>3. \A n, v, y : ~ Holds(<<>>, n, v, y)
  BY DEF Holds
<1>4. QED
  BY <1>1, <1>2, <1>3 DEF ConfigInv

LEMMA ConfigNext == ASSUME ConfigInv, Starting \/ UNCHANGED configVars PROVE ConfigInv'
<1> USE DEF ConfigInv
<1>1. CASE ConfigInitFails \/ OpenFails \/ Open
  <2>1. /\ groups' = groups /\ group' = group /\ buffer' = buffer /\ fed' = fed
        /\ start' \in {"failed", "done", "reading"}
    BY <1>1 DEF ConfigInitFails, OpenFails, Open
  <2>2. QED
    BY <2>1
<1>2. CASE ReadLine
  <2>1. PICK l \in Lines : buffer' = l /\ Parse(l)
    BY <1>2 DEF ReadLine
  <2>2. /\ Proper(groups') /\ group' \in Spellings
        /\ \A n, v, y : Holds(groups', n, v, y) => y \in Values
    BY <2>1, Parsed
  <2>3. start' = start /\ fed' = fed + 1
    BY <1>2 DEF ReadLine
  <2>4. QED
    BY <2>1, <2>2, <2>3
<1>3. CASE ReadNothing
  <2>1. PICK l \in Lines : Parse(l)
    BY <1>3 DEF ReadNothing
  <2>2. /\ Proper(groups') /\ group' \in Spellings
        /\ \A n, v, y : Holds(groups', n, v, y) => y \in Values
    BY <2>1, Parsed
  <2>3. start' = start /\ fed' = fed /\ buffer' = buffer
    BY <1>3 DEF ReadNothing
  <2>4. QED
    BY <2>2, <2>3
<1>4. CASE Close
  BY <1>4, JConfigAssumption DEF Close
<1>5. CASE UNCHANGED configVars
  BY <1>5 DEF configVars
<1>6. QED
  BY <1>1, <1>2, <1>3, <1>4, <1>5 DEF Starting

-----------------------------------------------------------------------------
(* The configuration answers as its file says.                             *)

Keys == {strip(s) : s \in Spellings} \X Vars
Answers == [x \in Keys |-> read_string(groups, x[1], x[2], Missing)]

LEMMA SaidInit == ASSUME JInit PROVE Said!Init
<1>1. \A g, v : find_var(<<>>, g, v) = 0
  <2> TAKE g, v
  <2>1. find_group(<<>>, g) = Find(<<>>, strip(g))
    BY FindGroup
  <2>2. Len(<<>>) = 0
    OBVIOUS
  <2>3. Find(<<>>, strip(g)) \in 0 .. Len(<<>>)
    BY <2>2, FindIs
  <2>4. find_group(<<>>, g) = 0
    BY <2>1, <2>2, <2>3
  <2>5. QED
    BY <2>4, FindVar
<1>2. \A g, v : read_string(<<>>, g, v, Missing) = Missing
  BY <1>1 DEF read_string
<1>3. groups = <<>> /\ buffer = Unread
  BY DEF JInit
<1>4. QED
  BY <1>2, <1>3 DEF Said!Init

LEMMA SaidTake ==
  ASSUME ConfigInv, NEW l \in Lines, Parse(l), buffer' = l PROVE Said!Take(l)
<1>1. /\ strip(group') = IF l.kind = "heading" THEN strip(l.group) ELSE strip(group)
      /\ \A g, v, def : read_string(groups', g, v, def) =
           IF l.kind = "assignment" /\ strip(g) = strip(group) /\ v = l.var THEN l.value
           ELSE read_string(groups, g, v, def)
  BY Parsed DEF ConfigInv
<1>2. group \in Spellings /\ (l.kind = "assignment" => l.var \in Vars)
  BY LineIs DEF ConfigInv
<1>3. Answers' = IF l.kind = "assignment" THEN [Answers EXCEPT ![<<strip(group), l.var>>] = l.value]
                 ELSE Answers
  <2>1. \A x \in Keys : Answers'[x] = IF l.kind = "assignment" /\ x = <<strip(group), l.var>>
                                        THEN l.value ELSE Answers[x]
    <3> TAKE x \in Keys
    <3>1. PICK s \in Spellings, v \in Vars : x = <<strip(s), v>>
      BY DEF Keys
    <3>2. strip(x[1]) = x[1] /\ x[1] = strip(s) /\ x[2] = v
      BY <3>1, JConfigAssumption
    <3>3. Answers'[x] = read_string(groups', x[1], x[2], Missing)
      BY DEF Answers, Keys
    <3>4. Answers[x] = read_string(groups, x[1], x[2], Missing)
      BY DEF Answers
    <3>5. x = <<strip(group), l.var>> <=> x[1] = strip(group) /\ x[2] = l.var
      BY <3>1
    <3>6. QED
      BY <1>1, <3>2, <3>3, <3>4, <3>5
  <2>2. Answers' = [x \in Keys |-> Answers'[x]] /\ Answers = [x \in Keys |-> Answers[x]]
    BY DEF Answers, Keys
  <2>3. QED
    BY <2>1, <2>2
<1>4. QED
  BY <1>1, <1>3 DEF Said!Take, Answers, Keys

LEMMA SaidNext ==
  ASSUME EmptyFile = FALSE, ConfigInv, Starting \/ UNCHANGED configVars
  PROVE  [Said!Next]_(Said!vars)
<1>1. CASE ConfigInitFails \/ OpenFails \/ Open \/ UNCHANGED configVars
  <2>1. groups' = groups /\ group' = group /\ buffer' = buffer
    BY <1>1 DEF ConfigInitFails, OpenFails, Open, configVars
  <2>2. QED
    BY <2>1 DEF Said!vars
<1>2. CASE ReadLine
  <2>1. PICK l \in Lines : buffer' = l /\ Parse(l)
    BY <1>2 DEF ReadLine
  <2>2. QED
    BY <2>1, SaidTake DEF Said!Next
<1>3. CASE ReadNothing
  <2>1. buffer \in Lines /\ buffer # Unread
    BY <1>3, LineIs DEF ReadNothing, ConfigInv
  <2>2. Parse(buffer) /\ buffer' = buffer
    BY <1>3, <2>1 DEF ReadNothing
  <2>3. QED
    BY <2>1, <2>2, SaidTake DEF Said!Next
<1>4. CASE Close
  BY <1>4 DEF Close, Said!Next, Said!Close
<1>5. QED
  BY <1>1, <1>2, <1>3, <1>4 DEF Starting

\* For any file that is not empty, config_readStr answers as the lines read so far
\* say, at every point of jconfig_open and after it: a later assignment counts, and
\* the last line counts once though it may be parsed twice.
THEOREM ReadCorrect == ASSUME EmptyFile = FALSE PROVE Spec => ReadAsWritten
<1>1. Init => ConfigInv /\ Said!Init
  BY ConfigInit, SaidInit DEF Init
<1>2. [Next]_vars => Starting \/ UNCHANGED configVars
  BY DEF Next, vars, MakeAlert, MakeAccept, ReadTemplate, SetAlert, SetAccept, ChkAudio,
         ReplacePass, Pass, Finish
<1>3. ConfigInv /\ [Next]_vars => ConfigInv'
  BY <1>2, ConfigNext
<1>4. ConfigInv /\ [Next]_vars => [Said!Next]_(Said!vars)
  BY <1>2, SaidNext
<1>5. QED
  BY <1>1, <1>3, <1>4, PTL DEF Spec, ReadAsWritten, Said!Spec

-----------------------------------------------------------------------------
(* A pass replaces one token; the passes so far have replaced the tokens   *)
(* before it.                                                              *)

One(A, rep, with) == [x \in A |-> IF x = rep THEN with ELSE <<x>>]

Count == 1 .. 8

\* The tokens of the passes before the k-th, each with its value in w.
Fill(A, w, k) == [x \in A |-> IF \E j \in Count : j < k /\ match[j] = x
                                THEN w[CHOOSE j \in Count : match[j] = x] ELSE <<x>>]

LEMMA MatchIs ==
  /\ Len(match) = 8 /\ DOMAIN match = Count
  /\ \A i, j \in Count : match[i] = match[j] => i = j
  /\ \A i \in Count : match[i] \in Tokens
  /\ \A x \in Tokens : \E i \in Count : match[i] = x
BY DEF match, Tokens, Count

LEMMA ReplaceIs ==
  ASSUME NEW A, NEW t \in Seq(A), NEW rep, NEW with
  PROVE  Replace(t, rep, with) = Subst(t, One(A, rep, with))
<1>1. DOMAIN t = 1 .. Len(t) /\ \A i \in DOMAIN t : t[i] \in A
  OBVIOUS
<1>2. [i \in DOMAIN t |-> IF t[i] = rep THEN with ELSE <<t[i]>>]
        = [i \in DOMAIN t |-> One(A, rep, with)[t[i]]]
  BY <1>1 DEF One
<1>3. QED
  BY <1>2 DEF Replace, Subst, Pieces

LEMMA SubstOne ==
  ASSUME NEW A, NEW x \in A, NEW g \in [A -> Seq(A)]
  PROVE  Subst(<<x>>, g) = g[x]
<1>1. <<>> \in Seq(A) /\ Append(<<>>, x) = <<x>>
  OBVIOUS
<1>2. Subst(Append(<<>>, x), g) = Subst(<<>>, g) \o g[x]
  BY <1>1, SubstAppend
<1>3. Subst(<<>>, g) = <<>>
  BY SubstEmpty
<1>4. <<>> \o g[x] = g[x]
  <2>1. g[x] \in Seq(A)
    OBVIOUS
  <2>2. \A s \in Seq(A) : <<>> \o s = s
    OBVIOUS
  <2>3. QED
    BY <2>1, <2>2
<1>5. QED
  BY <1>1, <1>2, <1>3, <1>4

LEMMA FillType ==
  ASSUME NEW A, NEW w, \A j \in Count : w[j] \in Seq(A), NEW k
  PROVE  Fill(A, w, k) \in [A -> Seq(A)]
<1>1. ASSUME NEW x \in A, \E j \in Count : j < k /\ match[j] = x
      PROVE  (CHOOSE j \in Count : match[j] = x) \in Count
  BY <1>1
<1>2. \A x \in A : <<x>> \in Seq(A)
  OBVIOUS
<1>3. \A x \in A : (IF \E j \in Count : j < k /\ match[j] = x
                      THEN w[CHOOSE j \in Count : match[j] = x] ELSE <<x>>) \in Seq(A)
  BY <1>1, <1>2
<1>4. QED
  BY <1>3 DEF Fill

\* What has been filled in.
LEMMA FillAt ==
  ASSUME NEW A, NEW w, NEW k \in Nat, NEW x \in A
  PROVE  /\ \A j \in Count : match[j] = x => Fill(A, w, k)[x] = IF j < k THEN w[j] ELSE <<x>>
         /\ x \notin Tokens => Fill(A, w, k)[x] = <<x>>
<1>1. Fill(A, w, k)[x] = IF \E j \in Count : j < k /\ match[j] = x
                           THEN w[CHOOSE j \in Count : match[j] = x] ELSE <<x>>
  BY DEF Fill
<1>2. ASSUME NEW j \in Count, match[j] = x
      PROVE  Fill(A, w, k)[x] = IF j < k THEN w[j] ELSE <<x>>
  <2>1. \A i \in Count : match[i] = x => i = j
    BY <1>2, MatchIs
  <2>2. (CHOOSE i \in Count : match[i] = x) = j
    BY <1>2, <2>1
  <2>3. QED
    BY <1>1, <1>2, <2>1, <2>2
<1>3. ASSUME x \notin Tokens PROVE Fill(A, w, k)[x] = <<x>>
  BY <1>1, <1>3, MatchIs
<1>4. QED
  BY <1>2, <1>3

\* Before the first pass the text is the template.
LEMMA FillFirst ==
  ASSUME NEW A, NEW t \in Seq(A), NEW w, \A j \in Count : w[j] \in Seq(A)
  PROVE  Subst(t, Fill(A, w, 1)) = t
<1>1. \A x \in A : Fill(A, w, 1)[x] = <<x>>
  BY DEF Fill, Count
<1>2. Fill(A, w, 1) \in [A -> Seq(A)]
  BY FillType
<1>3. \A i \in 1 .. Len(t) : t[i] \in A
  OBVIOUS
<1>4. QED
  BY <1>1, <1>2, <1>3, SubstNone

\* A pass replaces the next token, and none in the values put in before.
LEMMA FillNext ==
  ASSUME NEW A, Tokens \subseteq A, NEW t \in Seq(A), NEW w,
         \A j \in Count : w[j] \in Seq(A \ Tokens), NEW k \in Count
  PROVE  Replace(Subst(t, Fill(A, w, k)), match[k], w[k]) = Subst(t, Fill(A, w, k + 1))
<1> DEFINE g == Fill(A, w, k)
           h == One(A, match[k], w[k])
           n == k + 1
           f == Fill(A, w, n)
<1>0. k \in Nat /\ n \in Nat /\ \A j \in Count : (j < n <=> j < k \/ j = k) /\ ~ (k < k)
  BY DEF Count
<1>1. \A j \in Count : w[j] \in Seq(A)
  <2>1. \A s \in Seq(A \ Tokens) : s \in Seq(A)
    OBVIOUS
  <2>2. QED
    BY <2>1
<1>2. g \in [A -> Seq(A)] /\ f \in [A -> Seq(A)]
  BY <1>1, FillType
<1>3. h \in [A -> Seq(A)]
  <2>1. \A x \in A : <<x>> \in Seq(A)
    OBVIOUS
  <2>2. w[k] \in Seq(A)
    BY <1>1
  <2>3. \A x \in A : (IF x = match[k] THEN w[k] ELSE <<x>>) \in Seq(A)
    BY <2>1, <2>2
  <2>4. QED
    BY <2>3 DEF One
<1>4. \A x \in A : h[x] = IF x = match[k] THEN w[k] ELSE <<x>>
  BY DEF One
<1>5. \A x \in A : /\ \A j \in Count : match[j] = x => g[x] = IF j < k THEN w[j] ELSE <<x>>
                   /\ x \notin Tokens => g[x] = <<x>>
  BY <1>0, FillAt
<1> HIDE DEF n
<1>6. \A x \in A : /\ \A j \in Count : match[j] = x => f[x] = IF j < n THEN w[j] ELSE <<x>>
                   /\ x \notin Tokens => f[x] = <<x>>
  BY <1>0, FillAt
<1> HIDE DEF f, g, h
<1>7. \A x \in A : Subst(<<x>>, h) = h[x]
  BY <1>3, SubstOne
<1>8. \A j \in Count : Subst(w[j], h) = w[j]
  <2> TAKE j \in Count
  <2>1. w[j] \in Seq(A) /\ \A i \in 1 .. Len(w[j]) : w[j][i] \in A \ Tokens
    BY <1>1
  <2>2. match[k] \in Tokens
    BY MatchIs
  <2>3. \A i \in 1 .. Len(w[j]) : h[w[j][i]] = <<w[j][i]>>
    BY <1>4, <2>1, <2>2
  <2>4. QED
    BY <1>3, <2>1, <2>3, SubstNone
<1>9. \A x \in A : f[x] = Subst(g[x], h)
  <2> TAKE x \in A
  <2>1. CASE x \notin Tokens
    <3>1. x # match[k]
      BY <2>1, MatchIs
    <3>2. f[x] = <<x>> /\ g[x] = <<x>> /\ h[x] = <<x>>
      BY <1>4, <1>5, <1>6, <2>1, <3>1
    <3>3. QED
      BY <1>7, <3>2
  <2>2. CASE x \in Tokens
    <3>1. PICK j \in Count : match[j] = x
      BY <2>2, MatchIs
    <3>2. g[x] = (IF j < k THEN w[j] ELSE <<x>>) /\ f[x] = (IF j < n THEN w[j] ELSE <<x>>)
      BY <1>5, <1>6, <3>1
    <3>3. CASE j < k
      BY <1>0, <1>8, <3>2, <3>3
    <3>4. CASE j = k
      <4>1. g[x] = <<x>> /\ f[x] = w[k] /\ h[x] = w[k]
        BY <1>0, <1>4, <3>1, <3>2, <3>4
      <4>2. QED
        BY <1>7, <4>1
    <3>5. CASE ~ (j < k) /\ j # k
      <4>1. x # match[k]
        BY <3>1, <3>5, MatchIs
      <4>2. g[x] = <<x>> /\ f[x] = <<x>> /\ h[x] = <<x>>
        BY <1>0, <1>4, <3>2, <3>5, <4>1
      <4>3. QED
        BY <1>7, <4>2
    <3>6. QED
      BY <3>3, <3>4, <3>5
  <2>3. QED
    BY <2>1, <2>2
<1>10. Subst(Subst(t, g), h) = Subst(t, f)
  <2>1. Composed(A, g, h, f)
    BY <1>9 DEF Composed
  <2>2. IsText(A, t) /\ IsMap(A, g) /\ IsMap(A, h) /\ IsMap(A, f)
    BY <1>2, <1>3 DEF IsText, IsMap
  <2>3. QED
    BY <2>1, <2>2, SubstTwice
<1>11. Subst(t, g) \in Seq(A)
  BY <1>2, SubstType
<1>12. Replace(Subst(t, g), match[k], w[k]) = Subst(Subst(t, g), h)
  BY <1>11, ReplaceIs DEF h
<1>13. QED
  BY <1>10, <1>12 DEF g, f, n

-----------------------------------------------------------------------------
(* The shape of the variables.                                             *)

Fields == {"pc", "dept", "alarm", "level", "color", "template", "buf2", "orig", "dest", "pass"}
IsJob(r) == r = [f \in Fields |-> r[f]]

\* The buffer a pass reads and the one it writes.
Buffers(r) ==
  /\ r.pc \in {"idle", "set", "audio", "replace"}
  /\ r.pass \in 1 .. 9
  /\ r.pc # "replace" => r.pass = 1
  /\ IF r.pass = 1 THEN r.orig = "template" /\ r.dest = "buf2"
     ELSE <<r.orig, r.dest>> \in {<<"buf2", "outbuf">>, <<"outbuf", "buf2">>}

Shape ==
  /\ job = [c \in Makers |-> job[c]]
  /\ \A c \in Makers : IsJob(job[c]) /\ Buffers(job[c])
  /\ outbuf = [c \in Makers |-> outbuf[c]]
  /\ pages \in 0 .. MaxPages
  /\ crossed \subseteq Makers

LEMMA ShapeInit == ASSUME Init PROVE Shape
<1>1. IsJob(Idle) /\ Buffers(Idle)
  BY DEF IsJob, Fields, Buffers, Idle
<1>2. job = [c \in Makers |-> Idle]
  BY DEF Init
<1>3. outbuf = [c \in Makers |-> NoText]
  BY DEF Init
<1>4. pages = 0 /\ crossed = {}
  BY DEF Init
<1>5. \A c \in Makers : job[c] = Idle /\ outbuf[c] = NoText
  BY <1>2, <1>3
<1>6. QED
  BY <1>1, <1>2, <1>3, <1>4, <1>5, MsgBuildAssumption DEF Shape

\* What each step does to the call it is a step of.
LEMMA Begins ==
  ASSUME Shape, NEW c \in Makers, NEW dept, NEW alarm, NEW level, NEW color,
         ReadTemplate(c, dept, alarm, level, color)
  PROVE  /\ IsJob(job'[c]) /\ job'[c].pc = "set" /\ job'[c].dept = dept /\ job'[c].alarm = alarm
         /\ job'[c].level = level /\ job'[c].color = color /\ job'[c].template \in TemplateTexts
         /\ job'[c].orig = "template" /\ job'[c].dest = "buf2" /\ job'[c].pass = 1
         /\ job' = [d \in Makers |-> job'[d]] /\ \A d \in Makers : d # c => job'[d] = job[d]
         /\ pages' = pages + 1 /\ pages < MaxPages /\ outbuf' = outbuf /\ crossed' = crossed
<1>1. PICK t \in TemplateTexts :
        job' = [job EXCEPT ![c] = [Idle EXCEPT !.pc = "set", !.dept = dept, !.alarm = alarm,
                                               !.level = level, !.color = color, !.template = t]]
  BY DEF ReadTemplate
<1>2. job = [d \in Makers |-> job[d]]
  BY DEF Shape
<1>3. /\ job'[c] = [Idle EXCEPT !.pc = "set", !.dept = dept, !.alarm = alarm, !.level = level,
                                !.color = color, !.template = t]
      /\ job' = [d \in Makers |-> job'[d]] /\ \A d \in Makers : d # c => job'[d] = job[d]
  BY <1>1, <1>2
<1>4. IsJob(Idle) /\ Idle.orig = "template" /\ Idle.dest = "buf2" /\ Idle.pass = 1
  BY DEF Idle, IsJob, Fields
<1>5. /\ IsJob(job'[c]) /\ job'[c].pc = "set" /\ job'[c].dept = dept /\ job'[c].alarm = alarm
      /\ job'[c].level = level /\ job'[c].color = color /\ job'[c].template = t
      /\ job'[c].orig = "template" /\ job'[c].dest = "buf2" /\ job'[c].pass = 1
  BY <1>3, <1>4 DEF IsJob, Fields
<1>6. pages' = pages + 1 /\ pages < MaxPages /\ outbuf' = outbuf /\ crossed' = crossed
  BY DEF ReadTemplate, MayBegin
<1>7. QED
  BY <1>3, <1>5, <1>6

\* A step that only takes the call on to another place.
MovesOn(c, to) ==
  /\ IsJob(job'[c]) /\ job'[c].pc = to
  /\ \A f \in Fields \ {"pc"} : job'[c][f] = job[c][f]
  /\ job' = [d \in Makers |-> job'[d]] /\ \A d \in Makers : d # c => job'[d] = job[d]

LEMMA Moving ==
  ASSUME Shape, NEW c \in Makers, NEW to, job' = [job EXCEPT ![c].pc = to] PROVE MovesOn(c, to)
<1>1. job = [d \in Makers |-> job[d]] /\ IsJob(job[c])
  BY DEF Shape
<1>2. /\ job'[c] = [job[c] EXCEPT !.pc = to]
      /\ job' = [d \in Makers |-> job'[d]] /\ \A d \in Makers : d # c => job'[d] = job[d]
  BY <1>1
<1>3. QED
  BY <1>1, <1>2 DEF MovesOn, IsJob, Fields

LEMMA Passes ==
  ASSUME Shape, NEW c \in Makers, job[c].pc = "replace", job[c].pass <= Len(match),
         NEW with, Pass(c, with), NEW text,
         text = Replace(Text(c, job[c].orig), match[job[c].pass], with)
  PROVE  /\ IsJob(job'[c])
         /\ \A f \in Fields \ {"buf2", "orig", "dest", "pass"} : job'[c][f] = job[c][f]
         /\ job'[c].buf2 = IF job[c].dest = "buf2" THEN text ELSE job[c].buf2
         /\ job'[c].orig = job[c].dest
         /\ job'[c].dest = IF job[c].pass = 1 THEN "outbuf" ELSE job[c].orig
         /\ job'[c].pass = job[c].pass + 1
         /\ job' = [d \in Makers |-> job'[d]] /\ \A d \in Makers : d # c => job'[d] = job[d]
         /\ outbuf' = [d \in Makers |-> outbuf'[d]]
         /\ outbuf'[c] = IF job[c].dest = "outbuf" THEN text ELSE outbuf[c]
         /\ job[c].pc = "replace" /\ job[c].pass <= 8 /\ pages' = pages /\ crossed' = crossed
<1>1. job = [d \in Makers |-> job[d]] /\ IsJob(job[c]) /\ outbuf = [d \in Makers |-> outbuf[d]]
  BY DEF Shape
<1>2. /\ outbuf' = IF job[c].dest = "outbuf" THEN [outbuf EXCEPT ![c] = text] ELSE outbuf
      /\ job' = [job EXCEPT ![c].buf2 = IF job[c].dest = "buf2" THEN text ELSE @,
                            ![c].orig = job[c].dest,
                            ![c].dest = IF job[c].pass = 1 THEN "outbuf" ELSE job[c].orig,
                            ![c].pass = @ + 1]
  BY DEF Pass
<1>3. job[c].pc = "replace" /\ job[c].pass <= 8 /\ pages' = pages /\ crossed' = crossed
  BY MatchIs DEF Pass
<1>4. /\ outbuf' = [d \in Makers |-> outbuf'[d]]
      /\ outbuf'[c] = IF job[c].dest = "outbuf" THEN text ELSE outbuf[c]
  BY <1>1, <1>2
<1>5. job' = [d \in Makers |-> job'[d]] /\ \A d \in Makers : d # c => job'[d] = job[d]
  BY <1>1, <1>2
<1>6. job'[c] = [job[c] EXCEPT !.buf2 = IF job[c].dest = "buf2" THEN text ELSE @,
                               !.orig = job[c].dest,
                               !.dest = IF job[c].pass = 1 THEN "outbuf" ELSE job[c].orig,
                               !.pass = @ + 1]
  BY <1>1, <1>2
<1>7. /\ IsJob(job'[c])
      /\ \A f \in Fields \ {"buf2", "orig", "dest", "pass"} : job'[c][f] = job[c][f]
      /\ job'[c].buf2 = IF job[c].dest = "buf2" THEN text ELSE job[c].buf2
      /\ job'[c].orig = job[c].dest
      /\ job'[c].dest = IF job[c].pass = 1 THEN "outbuf" ELSE job[c].orig
      /\ job'[c].pass = job[c].pass + 1
  BY <1>1, <1>6 DEF IsJob, Fields
<1>8. QED
  BY <1>3, <1>4, <1>5, <1>7

LEMMA Finishes ==
  ASSUME Shape, NEW c \in Makers, Finish(c)
  PROVE  /\ job'[c] = Idle
         /\ job' = [d \in Makers |-> job'[d]] /\ \A d \in Makers : d # c => job'[d] = job[d]
         /\ outbuf' = [d \in Makers |-> outbuf'[d]] /\ pages' = pages /\ crossed' = crossed
         /\ job[c].pc = "replace" /\ job[c].pass = 9
         /\ outbuf'[c] = Text(c, job[c].orig)
<1>1. /\ job = [d \in Makers |-> job[d]] /\ outbuf = [d \in Makers |-> outbuf[d]]
      /\ Buffers(job[c])
  BY DEF Shape
<1>2. /\ job[c].pc = "replace" /\ job[c].pass > 8 /\ job' = [job EXCEPT ![c] = Idle]
      /\ outbuf' = IF job[c].orig # "outbuf" THEN [outbuf EXCEPT ![c] = job[c].buf2] ELSE outbuf
      /\ pages' = pages /\ crossed' = crossed
  BY MatchIs DEF Finish
<1>3. job[c].pass = 9 /\ job[c].orig \in {"buf2", "outbuf"}
  BY <1>1, <1>2 DEF Buffers
<1>4. outbuf'[c] = Text(c, job[c].orig)
  BY <1>1, <1>2, <1>3 DEF Text
<1>5. QED
  BY <1>1, <1>2, <1>3, <1>4

LEMMA ShapeNext == ASSUME Shape, [Next]_vars PROVE Shape'
<1>0. MaxPages \in Nat
  BY MsgBuildAssumption
<1>1. ASSUME NEW c \in Makers, NEW dept, NEW alarm, NEW level, NEW color,
             ReadTemplate(c, dept, alarm, level, color)
      PROVE  Shape'
  <2>2. IsJob(job'[c]) /\ Buffers(job'[c])
    BY <1>1, Begins DEF Buffers
  <2>3. /\ job' = [d \in Makers |-> job'[d]] /\ \A d \in Makers : d # c => job'[d] = job[d]
        /\ pages' = pages + 1 /\ pages < MaxPages /\ outbuf' = outbuf /\ crossed' = crossed
    BY <1>1, Begins
  <2>4. \A d \in Makers : IsJob(job'[d]) /\ Buffers(job'[d])
    BY <2>2, <2>3 DEF Shape
  <2>5. QED
    BY <1>0, <2>3, <2>4 DEF Shape
<1>2. ASSUME NEW c \in Makers, NEW to \in {"audio", "replace"}, job' = [job EXCEPT ![c].pc = to],
             job[c].pc # "replace", outbuf' = outbuf, pages' = pages, crossed' \subseteq Makers
      PROVE  Shape'
  <2>1. MovesOn(c, to)
    BY <1>2, Moving
  <2>2. QED
    BY <1>2, <2>1 DEF Shape, Buffers, MovesOn, Fields
<1>3. ASSUME NEW c \in Makers, ReplacePass(c) PROVE Shape'
  <2>1. PICK with \in replace[job[c].pass] : Pass(c, with)
    BY <1>3 DEF ReplacePass
  <2> DEFINE text == Replace(Text(c, job[c].orig), match[job[c].pass], with)
  <2> HIDE DEF text
  <2>2. /\ IsJob(job'[c]) /\ job'[c].pc = job[c].pc /\ job'[c].pass = job[c].pass + 1
        /\ job'[c].orig = job[c].dest
        /\ job'[c].dest = IF job[c].pass = 1 THEN "outbuf" ELSE job[c].orig
        /\ job' = [d \in Makers |-> job'[d]] /\ \A d \in Makers : d # c => job'[d] = job[d]
        /\ outbuf' = [d \in Makers |-> outbuf'[d]]
        /\ job[c].pc = "replace" /\ job[c].pass <= 8 /\ pages' = pages /\ crossed' = crossed
    BY <1>3, <2>1, Passes DEF text, Fields, ReplacePass
  <2>4. Buffers(job'[c])
    <3>1. Buffers(job[c])
      BY DEF Shape
    <3>2. QED
      BY <2>2, <3>1 DEF Buffers
  <2>5. \A d \in Makers : IsJob(job'[d]) /\ Buffers(job'[d])
    BY <2>2, <2>4 DEF Shape
  <2>6. QED
    BY <2>2, <2>5 DEF Shape
<1>4. ASSUME NEW c \in Makers, Finish(c) PROVE Shape'
  <2>1. IsJob(Idle) /\ Buffers(Idle)
    BY DEF IsJob, Fields, Buffers, Idle
  <2>2. QED
    BY <1>4, <2>1, Finishes DEF Shape
<1>5. CASE UNCHANGED <<statics, outbuf, job, pages, crossed>>
  BY <1>5 DEF Shape, IsJob, Buffers
<1>6. CASE MakeAlert \/ MakeAccept
  BY <1>1, <1>6 DEF MakeAlert, MakeAccept, Makers
<1>7. CASE SetAlert \/ SetAccept
  <2>1. crossed' \subseteq Makers
    BY <1>7 DEF SetAlert, SetAccept, MayCross, Shape
  <2>2. QED
    BY <1>2, <1>7, <2>1 DEF SetAlert, SetAccept, Makers
<1>8. CASE \E c \in Makers : ChkAudio(c)
  BY <1>2, <1>8 DEF ChkAudio, Shape
<1>9. QED
  BY <1>3, <1>4, <1>5, <1>6, <1>7, <1>8 DEF Next, vars

LEMMA ConfigSteps == ASSUME [Next]_vars PROVE Starting \/ UNCHANGED configVars
BY DEF Next, vars, MakeAlert, MakeAccept, ReadTemplate, SetAlert, SetAccept, ChkAudio,
       ReplacePass, Pass, Finish

\* The variables have the values they should, whether the threads make pages at the
\* same time or not: a pass never writes the buffer it reads, and the configuration
\* holds no variable without a value.
THEOREM TypeCorrect == Spec => []TypeOK
<1>1. Init => ConfigInv /\ Shape
  BY ConfigInit, ShapeInit DEF Init
<1>2. ConfigInv /\ Shape /\ [Next]_vars => (ConfigInv /\ Shape)'
  <2> SUFFICES ASSUME ConfigInv, Shape, [Next]_vars PROVE ConfigInv' /\ Shape'
    OBVIOUS
  <2>1. QED
    BY ConfigSteps, ConfigNext, ShapeNext
<1>3. ConfigInv /\ Shape => TypeOK
  <2> SUFFICES ASSUME ConfigInv, Shape PROVE TypeOK
    OBVIOUS
  <2>1. ASSUME NEW i \in DOMAIN groups, NEW j \in DOMAIN groups[i].vars
        PROVE  groups[i].vars[j].value \in Values
    <3>1. groups[i].vars \in VarLists
      BY ListIs DEF ConfigInv, Proper
    <3>2. groups[i].vars[j] = [name |-> groups[i].vars[j].name, value |-> groups[i].vars[j].value]
      BY <3>1, VarsAre
    <3>3. Holds(groups, groups[i].name, groups[i].vars[j].name, groups[i].vars[j].value)
      BY <3>2 DEF Holds, VarHas
    <3>4. QED
      BY <3>3 DEF ConfigInv
  <2>2. ASSUME NEW c \in Makers
        PROVE  /\ job[c].pc \in {"idle", "set", "audio", "replace"}
               /\ job[c].pass \in 1 .. Len(match) + 1
               /\ job[c].orig # job[c].dest
               /\ job[c].pass > 1 => {job[c].orig, job[c].dest} = {"buf2", "outbuf"}
    <3>1. Buffers(job[c])
      BY DEF Shape
    <3>2. Len(match) + 1 = 9
      BY MatchIs
    <3>3. QED
      BY <3>1, <3>2 DEF Buffers
  <2>3. /\ start \in {"begin", "reading", "done", "failed"} /\ pages \in 0 .. MaxPages
        /\ crossed \subseteq Makers
    BY DEF ConfigInv, Shape
  <2>4. QED
    BY <2>1, <2>2, <2>3 DEF TypeOK
<1>4. QED
  BY <1>1, <1>2, <1>3, PTL DEF Spec

-----------------------------------------------------------------------------
(* The texts, for values without tokens.                                   *)

Free(A) == Seq(A \ Tokens)

Fits(A) ==
  /\ Tokens \subseteq A
  /\ TemplateTexts \subseteq Seq(A)
  /\ Values \union Departments \union AlarmNumbers \union Accepting \subseteq Free(A)
  /\ \A l \in Levels : l.text \in Free(A) /\ l.color \in Free(A)
  /\ OurAddress \in Free(A)
  /\ \A i \in 1 .. 3 : AudioDefault(i) \in Free(A)

Answered == start \in {"done", "failed"}

\* What a call has been given, what it has set, and what it has made so far.
Given(A, c) ==
  /\ Answered
  /\ job[c].template \in Seq(A)
  /\ job[c].dept \in Free(A) /\ job[c].level \in Free(A)
  /\ c = Runner => job[c].alarm \in Free(A) /\ job[c].color \in Free(A)

SetBy(c) ==
  /\ server = OurAddress /\ deptName = job[c].dept /\ levelStr = job[c].level
  /\ c = Runner => barColor = job[c].color /\ alarmStr = job[c].alarm

\* What the tokens stand for while a page is made and the names fit.
now8 == <<barColor, server, deptName, alarmStr, levelStr, audioStr[1], audioStr[2], audioStr[3]>>

Made(A, c) ==
  /\ \A i \in 1 .. 3 : audioStr[i] = AudioName(i)
  /\ Text(c, job[c].orig) = Subst(job[c].template, Fill(A, now8, job[c].pass))

\* A page for which something is promised.
Sound(c) == c \notin crossed /\ NamesFit

JobInv(A, c) ==
  /\ job[c].pc # "idle" => Given(A, c)
  /\ Busy(c) /\ Sound(c) => SetBy(c)
  /\ job[c].pc = "replace" /\ Sound(c) => Made(A, c)

Names ==
  \A i \in 1 .. 3 : IF Answered THEN audioStr[i] \in {NoText, strncpy(AudioName(i))}
                     ELSE audioStr[i] = NoText

PageInv(A) ==
  /\ \A c, d \in Makers : Busy(c) /\ Busy(d) /\ c # d => c \in crossed
  /\ Names
  /\ barColor \in Free(A) /\ alarmStr \in Free(A)
  /\ \A c \in Makers : JobInv(A, c)

LEMMA NamesThatFit ==
  ASSUME NamesFit, NEW i \in 1 .. 3
  PROVE  strncpy(AudioName(i)) = AudioName(i) /\ Reads(AudioName(i)) = {AudioName(i)}
BY DEF NamesFit, strncpy, Reads

LEMMA NoTextFree == \A A : NoText \in Free(A)
BY DEF NoText, Free

LEMMA AudioFree ==
  ASSUME NEW A, Fits(A), ConfigInv, NEW i \in 1 .. 3 PROVE AudioName(i) \in Free(A)
<1> DEFINE def == AudioDefault(i)
           r == read_string(groups, "phones", AudioVars[i], def)
<1>1. def \in Free(A) /\ Values \subseteq Free(A)
  BY DEF Fits
<1> HIDE DEF def
<1>2. r \in Values \union {def}
  <2> DEFINE v == AudioVars[i]
             g == "phones"
  <2> HIDE DEF v, g
  <2>1. CASE \E x : Holds(groups, strip(g), v, x)
    <3>1. PICK x : Holds(groups, strip(g), v, x)
      BY <2>1
    <3>2. x \in Values
      BY <3>1 DEF ConfigInv
    <3>3. read_string(groups, g, v, def) = x
      BY <3>1, ReadsWhatHolds DEF ConfigInv
    <3>4. QED
      BY <3>2, <3>3 DEF g, v
  <2>2. CASE \A x : ~ Holds(groups, strip(g), v, x)
    <3>1. read_string(groups, g, v, def) = def
      BY <2>2, ReadsWhatHolds DEF ConfigInv
    <3>2. QED
      BY <3>1 DEF g, v
  <2>3. QED
    BY <2>1, <2>2
<1>3. AudioName(i) = IF start = "done" THEN r ELSE def
  BY DEF AudioName, readStr, def
<1>4. QED
  BY <1>1, <1>2, <1>3

LEMMA PageInit == ASSUME Init, NEW A PROVE PageInv(A)
<1>1. \A c \in Makers : job[c].pc = "idle"
  BY DEF Init, Idle
<1>2. start = "begin" /\ \A i \in 1 .. 3 : audioStr[i] = NoText
  BY DEF Init, JInit
<1>3. barColor = NoText /\ alarmStr = NoText
  BY DEF Init
<1>4. QED
  BY <1>1, <1>2, <1>3, NoTextFree DEF PageInv, JobInv, Answered, Busy, Names

\* The values of a page for which something is promised.
LEMMA NowFree ==
  ASSUME NEW A, Fits(A), ConfigInv, barColor \in Free(A), alarmStr \in Free(A),
         server \in Free(A), deptName \in Free(A), levelStr \in Free(A),
         NamesFit, \A i \in 1 .. 3 : audioStr[i] = AudioName(i)
  PROVE  /\ \A j \in Count : now8[j] \in Free(A)
         /\ \A j \in Count : replace[j] = {now8[j]}
<1>1. audioStr[1] \in Free(A) /\ audioStr[2] \in Free(A) /\ audioStr[3] \in Free(A)
  BY AudioFree
<1>2. \A j \in Count : j \in {1, 2, 3, 4, 5, 6, 7, 8}
  BY DEF Count
<1>3. /\ now8[1] = barColor /\ now8[2] = server /\ now8[3] = deptName
      /\ now8[4] = alarmStr /\ now8[5] = levelStr
      /\ now8[6] = audioStr[1] /\ now8[7] = audioStr[2] /\ now8[8] = audioStr[3]
  BY DEF now8
<1>4. /\ replace[1] = {barColor} /\ replace[2] = {server} /\ replace[3] = {deptName}
      /\ replace[4] = {alarmStr} /\ replace[5] = {levelStr}
      /\ replace[6] = Reads(audioStr[1]) /\ replace[7] = Reads(audioStr[2])
      /\ replace[8] = Reads(audioStr[3])
  BY DEF replace
<1>5. /\ Reads(audioStr[1]) = {audioStr[1]} /\ Reads(audioStr[2]) = {audioStr[2]}
      /\ Reads(audioStr[3]) = {audioStr[3]}
  <2>1. 1 \in 1 .. 3 /\ 2 \in 1 .. 3 /\ 3 \in 1 .. 3
    OBVIOUS
  <2>2. QED
    BY <2>1, NamesThatFit
<1> HIDE DEF Count
<1>6. \A j \in Count : now8[j] \in Free(A)
  BY <1>1, <1>2, <1>3
<1>7. \A j \in Count : replace[j] = {now8[j]}
  BY <1>2, <1>3, <1>4, <1>5
<1>8. QED
  BY <1>6, <1>7

\* In a step of a call the configuration is as it was.
LEMMA AudioStays ==
  ASSUME UNCHANGED configVars
  PROVE  /\ Answered' = Answered /\ NamesFit' = NamesFit
         /\ \A i \in 1 .. 3 : AudioName(i)' = AudioName(i)
BY DEF configVars, Answered, AudioName, readStr, NamesFit

\* A thread that does nothing: its page is as it was, or the two pages are made at
\* the same time.
LEMMA OtherJob ==
  ASSUME NEW A, PageInv(A), UNCHANGED configVars, NEW d \in Makers, job'[d] = job[d],
         d \in crossed => d \in crossed',
         \/ ~Busy(d)
         \/ d \in crossed'
         \/ UNCHANGED statics /\ outbuf'[d] = outbuf[d]
  PROVE  JobInv(A, d)'
<1>1. JobInv(A, d) /\ Busy(d)' = Busy(d)
  BY DEF PageInv, Busy
<1>2. Answered' = Answered /\ NamesFit' = NamesFit /\ \A i \in 1 .. 3 : AudioName(i)' = AudioName(i)
  BY AudioStays
<1>3. Given(A, d)' = Given(A, d)
  BY <1>2 DEF Given
<1>4. job[d].pc # "idle" => Given(A, d)'
  BY <1>1, <1>3 DEF JobInv
<1>5. CASE ~Busy(d)
  <2>1. job'[d].pc # "replace" /\ ~Busy(d)'
    BY <1>1, <1>5 DEF Busy
  <2>2. QED
    BY <1>4, <2>1 DEF JobInv
<1>6. CASE d \in crossed'
  BY <1>4, <1>6 DEF JobInv, Sound
<1>7. CASE UNCHANGED statics /\ outbuf'[d] = outbuf[d]
  <2>1. /\ server' = server /\ deptName' = deptName /\ levelStr' = levelStr
        /\ barColor' = barColor /\ alarmStr' = alarmStr /\ audioStr' = audioStr /\ now8' = now8
    BY <1>7 DEF statics, now8
  <2>2. SetBy(d)' = SetBy(d)
    BY <2>1 DEF SetBy
  <2>3. Text(d, job[d].orig)' = Text(d, job[d].orig)
    BY <1>7 DEF Text
  <2>4. Made(A, d)' = Made(A, d)
    BY <1>2, <2>1, <2>3 DEF Made
  <2>5. Sound(d)' => Sound(d)
    BY <1>2 DEF Sound
  <2>6. QED
    BY <1>1, <1>4, <2>2, <2>4, <2>5 DEF JobInv
<1>8. QED
  BY <1>5, <1>6, <1>7

\* So only the call whose step it is has to be looked at.
LEMMA OneJob ==
  ASSUME NEW A, PageInv(A), UNCHANGED configVars, NEW c \in Makers,
         \A d \in Makers : d # c => job'[d] = job[d],
         \A d \in Makers : d # c /\ d \in crossed => d \in crossed',
         \A d \in Makers : d # c /\ Busy(d) =>
            d \in crossed' \/ (UNCHANGED statics /\ outbuf'[d] = outbuf[d]),
         \A d \in Makers : d # c /\ Busy(d) /\ Busy(c)' => c \in crossed' /\ d \in crossed',
         JobInv(A, c)', Names', barColor' \in Free(A), alarmStr' \in Free(A)
  PROVE  PageInv(A)'
<1>1. \A d \in Makers : JobInv(A, d)'
  <2> TAKE d \in Makers
  <2>1. CASE d = c
    BY <2>1
  <2>2. CASE d # c
    BY <2>2, OtherJob
  <2>3. QED
    BY <2>1, <2>2
<1>2. \A d \in Makers : d # c => Busy(d)' = Busy(d)
  BY DEF Busy
<1>3. \A d, e \in Makers : Busy(d)' /\ Busy(e)' /\ d # e => d \in crossed'
  <2> TAKE d, e \in Makers
  <2>1. HAVE Busy(d)' /\ Busy(e)' /\ d # e
  <2>2. CASE d = c
    BY <1>2, <2>1, <2>2
  <2>3. CASE e = c
    BY <1>2, <2>1, <2>3
  <2>4. CASE d # c /\ e # c
    BY <1>2, <2>1, <2>4 DEF PageInv
  <2>5. QED
    BY <2>2, <2>3, <2>4
<1>4. QED
  BY <1>1, <1>3 DEF PageInv

\* The names that are there stay right.
LEMMA NamesStay ==
  ASSUME Names, UNCHANGED configVars, audioStr' = audioStr PROVE Names'
BY AudioStays DEF Names, strncpy

\* Each step of a page keeps what is known of it.
LEMMA PageBegins ==
  ASSUME NEW A, Fits(A), Shape, PageInv(A), NEW c \in Makers,
         NEW dept \in Departments, NEW alarm, NEW level \in Free(A), NEW color,
         c = Runner => alarm \in Free(A) /\ color \in Free(A),
         ReadTemplate(c, dept, alarm, level, color)
  PROVE  PageInv(A)'
<1>1. /\ job'[c].pc = "set" /\ job'[c].dept = dept /\ job'[c].alarm = alarm
      /\ job'[c].level = level /\ job'[c].color = color /\ job'[c].template \in TemplateTexts
      /\ \A d \in Makers : d # c => job'[d] = job[d]
  BY Begins
<1>2. Answered /\ crossed' = crossed /\ outbuf' = outbuf
  BY DEF ReadTemplate, MayBegin, Answered
<1>3. UNCHANGED configVars /\ UNCHANGED statics
  BY DEF ReadTemplate
<1>4. Answered'
  BY <1>2, <1>3, AudioStays
<1>5. audioStr' = audioStr /\ barColor' = barColor /\ alarmStr' = alarmStr
  BY <1>3 DEF statics
<1>6. dept \in Free(A) /\ job'[c].template \in Seq(A)
  BY <1>1 DEF Fits
<1>7. Given(A, c)'
  BY <1>1, <1>4, <1>6 DEF Given
<1>8. ~Busy(c)' /\ job'[c].pc # "replace"
  BY <1>1 DEF Busy
<1>9. JobInv(A, c)'
  BY <1>7, <1>8 DEF JobInv
<1>10. Names'
  BY <1>3, <1>5, NamesStay DEF PageInv
<1>11. barColor' \in Free(A) /\ alarmStr' \in Free(A)
  BY <1>5 DEF PageInv
<1>12. QED
  BY <1>1, <1>2, <1>3, <1>8, <1>9, <1>10, <1>11, OneJob

LEMMA PageSet ==
  ASSUME NEW A, Fits(A), Shape, PageInv(A), NEW c \in Makers, job[c].pc = "set",
         job' = [job EXCEPT ![c].pc = "audio"], UNCHANGED <<configVars, audioStr>>,
         server' = OurAddress, deptName' = job[c].dept, levelStr' = job[c].level,
         IF c = Runner THEN barColor' = job[c].color /\ alarmStr' = job[c].alarm
         ELSE barColor' = barColor /\ alarmStr' = alarmStr,
         outbuf' = outbuf, MayCross(c)
  PROVE  PageInv(A)'
<1>1. MovesOn(c, "audio")
  BY Moving
<1>2. /\ job'[c].pc = "audio" /\ job'[c].dept = job[c].dept /\ job'[c].alarm = job[c].alarm
      /\ job'[c].level = job[c].level /\ job'[c].color = job[c].color
      /\ job'[c].template = job[c].template
      /\ \A d \in Makers : d # c => job'[d] = job[d]
  BY <1>1 DEF MovesOn, Fields
<1>3. Given(A, c)
  BY DEF PageInv, JobInv
<1>4. Answered'
  BY <1>3, AudioStays DEF Given
<1>5. Given(A, c)'
  BY <1>2, <1>3, <1>4 DEF Given
<1>6. SetBy(c)'
  BY <1>2 DEF SetBy
<1>7. JobInv(A, c)'
  BY <1>2, <1>5, <1>6 DEF JobInv
<1>8. barColor' \in Free(A) /\ alarmStr' \in Free(A)
  BY <1>3 DEF Given, PageInv
<1>9. Names'
  BY NamesStay DEF PageInv
<1>10. /\ \A d \in Makers : d # c /\ d \in crossed => d \in crossed'
       /\ \A d \in Makers : d # c /\ Busy(d) => c \in crossed' /\ d \in crossed'
  BY DEF MayCross
<1>11. QED
  BY <1>2, <1>7, <1>8, <1>9, <1>10, OneJob

LEMMA PageAudio ==
  ASSUME NEW A, Fits(A), ConfigInv, Shape, PageInv(A), NEW c \in Makers, ChkAudio(c)
  PROVE  PageInv(A)'
<1>0. job[c].pc = "audio" /\ UNCHANGED configVars
  BY DEF ChkAudio
<1>1. MovesOn(c, "replace")
  BY Moving DEF ChkAudio
<1>2. /\ job'[c].pc = "replace" /\ job'[c].dept = job[c].dept /\ job'[c].alarm = job[c].alarm
      /\ job'[c].level = job[c].level /\ job'[c].color = job[c].color
      /\ job'[c].template = job[c].template
      /\ job'[c].orig = job[c].orig /\ job'[c].pass = job[c].pass
      /\ \A d \in Makers : d # c => job'[d] = job[d]
  BY <1>1 DEF MovesOn, Fields
<1>3. Given(A, c) /\ (Sound(c) => SetBy(c)) /\ Busy(c)
  BY <1>0 DEF PageInv, JobInv, Busy
<1>4. /\ Answered /\ Answered' /\ NamesFit' = NamesFit
      /\ \A i \in 1 .. 3 : AudioName(i)' = AudioName(i)
  BY <1>0, <1>3, AudioStays DEF Given
<1>5. Given(A, c)'
  BY <1>2, <1>3, <1>4 DEF Given
<1>6. /\ server' = server /\ deptName' = deptName /\ levelStr' = levelStr
      /\ barColor' = barColor /\ alarmStr' = alarmStr /\ crossed' = crossed /\ outbuf' = outbuf
  BY DEF ChkAudio
<1>7. Sound(c)' = Sound(c) /\ SetBy(c)' = SetBy(c)
  BY <1>2, <1>4, <1>6 DEF Sound, SetBy
<1>8. \A i \in 1 .. 3 : audioStr'[i] = strncpy(AudioName(i))
  <2>1. \A i \in 1 .. 3 : audioStr[i] \in {NoText, strncpy(AudioName(i))}
    BY <1>4 DEF PageInv, Names
  <2>2. audioStr' = [i \in 1 .. 3 |->
                      IF audioStr[i] = NoText THEN strncpy(AudioName(i)) ELSE audioStr[i]]
    BY DEF ChkAudio
  <2>3. QED
    BY <2>1, <2>2
<1>9. job'[c].orig = "template" /\ job'[c].pass = 1
  BY <1>0, <1>2 DEF Shape, Buffers
<1>10. ASSUME Sound(c) PROVE Made(A, c)'
  <2>1. \A i \in 1 .. 3 : audioStr'[i] = AudioName(i)
    BY <1>8, <1>10, NamesThatFit DEF Sound
  <2>2. /\ barColor' \in Free(A) /\ server' \in Free(A) /\ deptName' \in Free(A)
        /\ alarmStr' \in Free(A) /\ levelStr' \in Free(A)
    BY <1>3, <1>6, <1>10 DEF Given, SetBy, PageInv, Fits
  <2>3. \A j \in Count : now8'[j] \in Seq(A)
    <3>1. /\ now8'[1] = barColor' /\ now8'[2] = server' /\ now8'[3] = deptName'
          /\ now8'[4] = alarmStr' /\ now8'[5] = levelStr'
          /\ now8'[6] = audioStr'[1] /\ now8'[7] = audioStr'[2] /\ now8'[8] = audioStr'[3]
      BY DEF now8
    <3>2. audioStr'[1] \in Free(A) /\ audioStr'[2] \in Free(A) /\ audioStr'[3] \in Free(A)
      BY <2>1, AudioFree
    <3>3. \A j \in Count : j \in {1, 2, 3, 4, 5, 6, 7, 8}
      BY DEF Count
    <3>4. \A j \in Count : now8'[j] \in Free(A)
      <4> HIDE DEF Count
      <4>1. QED
        BY <2>2, <3>1, <3>2, <3>3
    <3>5. \A s \in Free(A) : s \in Seq(A)
      BY DEF Free
    <3>6. QED
      BY <3>4, <3>5
  <2>4. Text(c, job[c].orig)' = Subst(job'[c].template, Fill(A, now8', job'[c].pass))
    <3> DEFINE t == job'[c].template
               w == now8'
    <3>1. t \in Seq(A) /\ \A j \in Count : w[j] \in Seq(A)
      BY <1>5, <2>3 DEF Given
    <3> HIDE DEF t, w
    <3>2. Subst(t, Fill(A, w, 1)) = t
      BY <3>1, FillFirst
    <3>3. Text(c, job[c].orig)' = t
      BY <1>9 DEF Text, t
    <3>4. QED
      BY <1>9, <3>2, <3>3 DEF t, w
  <2>5. QED
    BY <1>4, <2>1, <2>4 DEF Made
<1>11. JobInv(A, c)'
  BY <1>3, <1>5, <1>7, <1>10 DEF JobInv
<1>12. barColor' \in Free(A) /\ alarmStr' \in Free(A)
  BY <1>6 DEF PageInv
<1>13. Names'
  <2>1. \A i \in 1 .. 3 : audioStr'[i] = strncpy(AudioName(i)')
    BY <1>4, <1>8
  <2>2. \A i \in 1 .. 3 : audioStr'[i] = strncpy(AudioName(i))'
    BY <2>1 DEF strncpy
  <2>3. QED
    BY <1>4, <2>2 DEF Names
<1>14. \A d \in Makers : d # c /\ Busy(d) => d \in crossed' /\ c \in crossed'
  BY <1>3, <1>6 DEF PageInv
<1>15. QED
  BY <1>0, <1>2, <1>6, <1>11, <1>12, <1>13, <1>14, OneJob

LEMMA PagePass ==
  ASSUME NEW A, Fits(A), ConfigInv, Shape, PageInv(A), NEW c \in Makers, ReplacePass(c)
  PROVE  PageInv(A)'
<1>a. /\ job[c].pc = "replace" /\ job[c].pass <= Len(match)
      /\ \E with \in replace[job[c].pass] : Pass(c, with)
  BY DEF ReplacePass
<1>b. PICK with \in replace[job[c].pass] : Pass(c, with)
  BY <1>a
<1> DEFINE text == Replace(Text(c, job[c].orig), match[job[c].pass], with)
<1>0. UNCHANGED configVars /\ UNCHANGED statics /\ crossed' = crossed
  BY <1>b DEF Pass
<1> HIDE DEF text
<1>1. /\ \A f \in Fields \ {"buf2", "orig", "dest", "pass"} : job'[c][f] = job[c][f]
      /\ job'[c].buf2 = IF job[c].dest = "buf2" THEN text ELSE job[c].buf2
      /\ job'[c].orig = job[c].dest
      /\ job'[c].pass = job[c].pass + 1
      /\ \A d \in Makers : d # c => job'[d] = job[d]
      /\ outbuf'[c] = IF job[c].dest = "outbuf" THEN text ELSE outbuf[c]
      /\ job[c].pc = "replace" /\ job[c].pass <= 8
  BY <1>a, <1>b, Passes DEF text
<1>2. /\ job'[c].pc = "replace" /\ job'[c].dept = job[c].dept /\ job'[c].alarm = job[c].alarm
      /\ job'[c].level = job[c].level /\ job'[c].color = job[c].color
      /\ job'[c].template = job[c].template
  BY <1>1 DEF Fields
<1>3. Given(A, c) /\ Busy(c) /\ (Sound(c) => SetBy(c) /\ Made(A, c))
  BY <1>1 DEF PageInv, JobInv, Busy
<1>4. Answered' /\ NamesFit' = NamesFit /\ \A i \in 1 .. 3 : AudioName(i)' = AudioName(i)
  BY <1>0, <1>3, AudioStays DEF Given
<1>5. Given(A, c)'
  BY <1>2, <1>3, <1>4 DEF Given
<1>6. /\ server' = server /\ deptName' = deptName /\ levelStr' = levelStr
      /\ barColor' = barColor /\ alarmStr' = alarmStr /\ audioStr' = audioStr
      /\ now8' = now8
  BY <1>0 DEF statics, now8
<1>7. SetBy(c)' = SetBy(c) /\ Sound(c)' = Sound(c)
  BY <1>0, <1>2, <1>4, <1>6 DEF SetBy, Sound
<1>8. job[c].pass \in Count /\ job[c].dest \in {"buf2", "outbuf"}
  BY <1>1 DEF Shape, Buffers, Count
<1>9. ASSUME Sound(c) PROVE text = Subst(job[c].template, Fill(A, now8, job[c].pass + 1))
  <2> DEFINE t == job[c].template
             w == now8
             k == job[c].pass
  <2>1. Tokens \subseteq A /\ t \in Seq(A) /\ k \in Count
    BY <1>3, <1>8 DEF Fits, Given
  <2>2. /\ barColor \in Free(A) /\ server \in Free(A) /\ deptName \in Free(A)
        /\ alarmStr \in Free(A) /\ levelStr \in Free(A)
    BY <1>3, <1>9 DEF Given, SetBy, PageInv, Fits
  <2>3. (\A j \in Count : w[j] \in Free(A)) /\ \A j \in Count : replace[j] = {w[j]}
    BY <1>3, <1>9, <2>2, NowFree DEF Made, Sound
  <2>4. \A j \in Count : w[j] \in Seq(A \ Tokens)
    BY <2>3 DEF Free
  <2>5. with = w[k]
    BY <2>1, <2>3
  <2>6. text = Replace(Subst(t, Fill(A, w, k)), match[k], w[k])
    BY <1>3, <1>9, <2>5 DEF text, Made
  <2> HIDE DEF t, w, k
  <2>7. text = Subst(t, Fill(A, w, k + 1))
    BY <2>1, <2>4, <2>6, FillNext
  <2>8. QED
    BY <2>7 DEF t, w, k
<1>10. Text(c, job[c].orig)' = text
  BY <1>1, <1>8 DEF Text
<1>11. ASSUME Sound(c) PROVE Made(A, c)'
  <2>1. \A i \in 1 .. 3 : audioStr'[i] = AudioName(i)'
    BY <1>3, <1>4, <1>6, <1>11 DEF Made
  <2>2. Text(c, job[c].orig)' = Subst(job'[c].template, Fill(A, now8', job'[c].pass))
    BY <1>1, <1>2, <1>6, <1>9, <1>10, <1>11
  <2>3. QED
    BY <2>1, <2>2 DEF Made
<1>12. JobInv(A, c)'
  BY <1>3, <1>5, <1>7, <1>11 DEF JobInv
<1>13. barColor' \in Free(A) /\ alarmStr' \in Free(A)
  BY <1>6 DEF PageInv
<1>14. Names'
  BY <1>0, <1>6, NamesStay DEF PageInv
<1>15. \A d \in Makers : d # c /\ Busy(d) => d \in crossed' /\ c \in crossed'
  BY <1>0, <1>3 DEF PageInv
<1>16. QED
  BY <1>0, <1>1, <1>12, <1>13, <1>14, <1>15, OneJob

LEMMA PageFinish ==
  ASSUME NEW A, Shape, PageInv(A), NEW c \in Makers, Finish(c)
  PROVE  PageInv(A)'
<1>1. /\ job'[c].pc = "idle" /\ job[c].pc = "replace"
      /\ \A d \in Makers : d # c => job'[d] = job[d]
  BY Finishes DEF Idle
<1>2. UNCHANGED configVars /\ UNCHANGED statics /\ crossed' = crossed
  BY DEF Finish
<1>3. barColor' = barColor /\ alarmStr' = alarmStr /\ audioStr' = audioStr
  BY <1>2 DEF statics
<1>4. Busy(c) /\ ~Busy(c)'
  BY <1>1 DEF Busy
<1>5. JobInv(A, c)'
  BY <1>1, <1>4 DEF JobInv
<1>6. barColor' \in Free(A) /\ alarmStr' \in Free(A)
  BY <1>3 DEF PageInv
<1>7. Names'
  BY <1>2, <1>3, NamesStay DEF PageInv
<1>8. \A d \in Makers : d # c /\ Busy(d) => d \in crossed'
  BY <1>2, <1>4 DEF PageInv
<1>9. QED
  BY <1>1, <1>2, <1>4, <1>5, <1>6, <1>7, <1>8, OneJob

\* While the configuration is read nothing is made, and no name is known.
LEMMA PageStarting ==
  ASSUME NEW A, PageInv(A), Starting, UNCHANGED <<statics, outbuf, job, pages, crossed>>
  PROVE  PageInv(A)'
<1>1. ~Answered
  BY DEF Answered, Starting, ConfigInitFails, OpenFails, Open, ReadLine, ReadNothing, Close
<1>2. \A c \in Makers : job[c].pc = "idle"
  BY <1>1 DEF PageInv, JobInv, Given
<1>3. job' = job /\ barColor' = barColor /\ alarmStr' = alarmStr /\ audioStr' = audioStr
  BY DEF statics
<1>4. \A c \in Makers : job'[c].pc = "idle" /\ ~Busy(c)'
  BY <1>2, <1>3 DEF Busy
<1>5. \A c \in Makers : JobInv(A, c)'
  BY <1>4 DEF JobInv
<1>6. \A i \in 1 .. 3 : audioStr'[i] = NoText
  BY <1>1, <1>3 DEF PageInv, Names
<1>7. barColor' \in Free(A) /\ alarmStr' \in Free(A)
  BY <1>3 DEF PageInv
<1>8. QED
  BY <1>4, <1>5, <1>6, <1>7 DEF PageInv, Names

LEMMA PageNext ==
  ASSUME NEW A, Fits(A), ConfigInv, Shape, PageInv(A), [Next]_vars
  PROVE  PageInv(A)'
<1>1. CASE Starting /\ UNCHANGED <<statics, outbuf, job, pages, crossed>>
  BY <1>1, PageStarting
<1>2. CASE MakeAlert
  <2>1. PICK dept \in Departments : \E alarm \in AlarmNumbers, level \in Levels :
          ReadTemplate(Runner, dept, alarm, level.text, level.color)
    BY <1>2 DEF MakeAlert
  <2>2. PICK alarm \in AlarmNumbers : \E level \in Levels :
          ReadTemplate(Runner, dept, alarm, level.text, level.color)
    BY <2>1
  <2>3. PICK level \in Levels : ReadTemplate(Runner, dept, alarm, level.text, level.color)
    BY <2>2
  <2> DEFINE text == level.text
             color == level.color
  <2>4. alarm \in Free(A) /\ text \in Free(A) /\ color \in Free(A)
    BY DEF Fits
  <2>5. Runner \in Makers /\ ReadTemplate(Runner, dept, alarm, text, color)
    BY <2>3 DEF Makers
  <2> HIDE DEF text, color
  <2>6. QED
    BY <2>4, <2>5, PageBegins
<1>3. CASE MakeAccept
  <2>1. PICK dept \in Departments : \E text \in Accepting :
          ReadTemplate(Server, dept, NoText, text, NoText)
    BY <1>3 DEF MakeAccept
  <2>2. PICK text \in Accepting : ReadTemplate(Server, dept, NoText, text, NoText)
    BY <2>1
  <2>3. text \in Free(A) /\ Server \in Makers /\ Server # Runner
    BY DEF Fits, Makers, Server, Runner
  <2>4. QED
    BY <2>2, <2>3, PageBegins
<1>4. CASE SetAlert
  <2>1. Runner \in Makers
    BY DEF Makers
  <2>2. QED
    BY <1>4, <2>1, PageSet DEF SetAlert
<1>5. CASE SetAccept
  <2>1. Server \in Makers /\ Server # Runner
    BY DEF Makers, Server, Runner
  <2>2. QED
    BY <1>5, <2>1, PageSet DEF SetAccept
<1>6. CASE \E c \in Makers : ChkAudio(c) \/ ReplacePass(c) \/ Finish(c)
  <2>1. PICK c \in Makers : ChkAudio(c) \/ ReplacePass(c) \/ Finish(c)
    BY <1>6
  <2>2. QED
    BY <2>1, PageAudio, PagePass, PageFinish
<1>7. CASE UNCHANGED vars
  <2>1. /\ UNCHANGED configVars /\ UNCHANGED statics
        /\ job' = job /\ outbuf' = outbuf /\ crossed' = crossed
    BY <1>7 DEF vars
  <2>2. barColor' = barColor /\ alarmStr' = alarmStr /\ audioStr' = audioStr
    BY <2>1 DEF statics
  <2>3. Names'
    BY <2>1, <2>2, NamesStay DEF PageInv
  <2>4. \A c \in Makers : JobInv(A, c)'
    BY <2>1, OtherJob
  <2>5. \A c \in Makers : Busy(c)' = Busy(c)
    BY <2>1 DEF Busy
  <2>6. QED
    BY <2>1, <2>2, <2>3, <2>4, <2>5 DEF PageInv
<1>8. QED
  BY <1>1, <1>2, <1>3, <1>4, <1>5, <1>6, <1>7 DEF Next

\* A finished page.
LEMMA PageMade ==
  ASSUME NEW A, Fits(A), Shape, PageInv(A), NEW c \in Makers, Finish(c),
         c \notin crossed, NamesFit
  PROVE  outbuf'[c] = Filled(c)
<1> DEFINE t == job[c].template
           w == now8
           f == Fill(A, w, 9)
<1>1. /\ job[c].pc = "replace" /\ job[c].pass = 9 /\ outbuf'[c] = Text(c, job[c].orig)
  BY Finishes
<1>2. Given(A, c) /\ SetBy(c) /\ Made(A, c)
  BY <1>1 DEF PageInv, JobInv, Busy, Sound
<1>3. outbuf'[c] = Subst(t, f)
  BY <1>1, <1>2 DEF Made
<1>4. t \in Seq(A)
  BY <1>2 DEF Given
<1>5. \A j \in Count : Meant(c, match[j]) = w[j]
  <2>1. \A j \in Count : j \in {1, 2, 3, 4, 5, 6, 7, 8}
    BY DEF Count
  <2>2. /\ w[1] = barColor /\ w[2] = OurAddress /\ w[3] = job[c].dept
        /\ w[4] = alarmStr /\ w[5] = job[c].level
        /\ w[6] = AudioName(1) /\ w[7] = AudioName(2) /\ w[8] = AudioName(3)
    BY <1>2 DEF SetBy, Made, now8
  <2>3. c = Runner => barColor = job[c].color /\ alarmStr = job[c].alarm
    BY <1>2 DEF SetBy
  <2>4. /\ match[1] = "[COLOR]" /\ match[2] = "[SERVER]" /\ match[3] = "[DEPT]"
        /\ match[4] = "[ALARM]" /\ match[5] = "[LEVEL]"
        /\ match[6] = "[AUDIO1]" /\ match[7] = "[AUDIO2]" /\ match[8] = "[AUDIO3]"
    BY DEF match
  <2>5. /\ Meant(c, "[COLOR]") = w[1] /\ Meant(c, "[SERVER]") = w[2]
        /\ Meant(c, "[DEPT]") = w[3] /\ Meant(c, "[ALARM]") = w[4]
        /\ Meant(c, "[LEVEL]") = w[5]
    BY <2>2, <2>3 DEF Meant
  <2>6. ASSUME NEW i \in 1 .. 3, NEW x \in {"[AUDIO1]", "[AUDIO2]", "[AUDIO3]"}, match[5 + i] = x
        PROVE  Meant(c, x) = AudioName(i)
    <3>1. (CHOOSE k \in 1 .. 3 : match[5 + k] = x) = i
      <4>1. \A k \in 1 .. 3 : 5 + k \in Count
        BY DEF Count
      <4>2. \A k \in 1 .. 3 : match[5 + k] = x => k = i
        BY <2>6, <4>1, MatchIs
      <4>3. QED
        BY <2>6, <4>2
    <3>2. QED
      BY <2>6, <3>1 DEF Meant
  <2>7. /\ Meant(c, "[AUDIO1]") = w[6] /\ Meant(c, "[AUDIO2]") = w[7] /\ Meant(c, "[AUDIO3]") = w[8]
    <3>1. 1 \in 1 .. 3 /\ 2 \in 1 .. 3 /\ 3 \in 1 .. 3 /\ 5 + 1 = 6 /\ 5 + 2 = 7 /\ 5 + 3 = 8
      OBVIOUS
    <3>2. QED
      BY <2>2, <2>4, <2>6, <3>1
  <2> HIDE DEF Count, w
  <2>8. QED
    BY <2>1, <2>4, <2>5, <2>7
<1>6. \A x \in A : f[x] = IF x \in Tokens THEN Meant(c, x) ELSE <<x>>
  <2> TAKE x \in A
  <2>0. 9 \in Nat /\ \A j \in Count : j < 9
    BY DEF Count
  <2> HIDE DEF w
  <2>1. /\ \A j \in Count : match[j] = x => f[x] = IF j < 9 THEN w[j] ELSE <<x>>
        /\ x \notin Tokens => f[x] = <<x>>
    BY <2>0, FillAt
  <2>2. QED
    BY <1>5, <2>0, <2>1, MatchIs
<1>7. Filled(c) = FlattenSeq([i \in DOMAIN t |-> IF t[i] \in Tokens THEN Meant(c, t[i])
                                                 ELSE <<t[i]>>])
  BY DEF Filled
<1> HIDE DEF t, f
<1>8. [i \in DOMAIN t |-> IF t[i] \in Tokens THEN Meant(c, t[i]) ELSE <<t[i]>>]
        = [i \in DOMAIN t |-> f[t[i]]]
  <2>1. \A i \in DOMAIN t : t[i] \in A
    BY <1>4
  <2>2. \A i \in DOMAIN t : (IF t[i] \in Tokens THEN Meant(c, t[i]) ELSE <<t[i]>>) = f[t[i]]
    BY <1>6, <2>1
  <2>3. QED
    BY <2>2
<1>9. QED
  BY <1>3, <1>7, <1>8 DEF Subst, Pieces

\* The two threads make pages through the same static variables, when they like.
\* The page that msgBuild_makeAlertMsg or msgBuild_makeAcceptMsg returns is its
\* template with every token replaced, for any templates, texts and configuration in
\* which no value has a token in it, if the other thread did not make a page
\* meanwhile, whatever it did before, and if there is room for the names of the
\* audio files.
THEOREM PagesCorrect ==
  ASSUME NEW Symbols, TemplateTexts \subseteq Seq(Symbols),
         Values \union Departments \union AlarmNumbers \union Accepting
           \subseteq Seq(Symbols \ Tokens)
  PROVE  Spec => PageAsMeant
<1> DEFINE Ours == {"green", "yellow", "red", "2nd Request", "3rd Request", "address:port",
                    "audio1.wav", "audio2.wav", "audio3.wav"}
           A == Symbols \union Tokens \union Ours
<1>1. Fits(A)
  <2>1. \A s \in Seq(Symbols) : s \in Seq(A)
    <3>1. Symbols \subseteq A
      OBVIOUS
    <3> HIDE DEF A
    <3>2. QED
      BY <3>1
  <2>2. \A s \in Seq(Symbols \ Tokens) : s \in Free(A)
    <3>1. Symbols \ Tokens \subseteq A \ Tokens
      OBVIOUS
    <3> HIDE DEF A
    <3>2. QED
      BY <3>1 DEF Free
  <2>3. \A x \in Ours : <<x>> \in Free(A)
    <3>1. \A x \in Ours : x \in A \ Tokens
      <4>1. ASSUME NEW x \in Tokens PROVE x \notin Ours
        <5>1. PICK i \in {1, 2, 3, 4, 5, 6, 7, 8} : match[i] = x
          BY MatchIs DEF Count
        <5>2. x \in {"[COLOR]", "[SERVER]", "[DEPT]", "[ALARM]", "[LEVEL]",
                    "[AUDIO1]", "[AUDIO2]", "[AUDIO3]"}
          <6> HIDE DEF A, Ours
          <6>1. QED
            BY <5>1 DEF match
        <5> HIDE DEF A
        <5>3. QED
          BY <5>2
      <4>2. QED
        BY <4>1
    <3> HIDE DEF A, Ours
    <3>2. QED
      BY <3>1 DEF Free
  <2>4. /\ <<"green">> \in Free(A) /\ <<"yellow">> \in Free(A) /\ <<"red">> \in Free(A)
        /\ <<"2nd Request">> \in Free(A) /\ <<"3rd Request">> \in Free(A)
        /\ <<"address:port">> \in Free(A) /\ <<"audio1.wav">> \in Free(A)
        /\ <<"audio2.wav">> \in Free(A) /\ <<"audio3.wav">> \in Free(A)
    <3> HIDE DEF A
    <3>1. QED
      BY <2>3
  <2>5. /\ \A l \in Levels : l.text \in Free(A) /\ l.color \in Free(A)
        /\ OurAddress \in Free(A) /\ \A i \in 1 .. 3 : AudioDefault(i) \in Free(A)
    <3> HIDE DEF A, Ours
    <3>1. \A l \in Levels : l.text \in Free(A) /\ l.color \in Free(A)
      <4> TAKE l \in Levels
      <4>1. CASE l = [text |-> NoText, color |-> <<"green">>]
        BY <2>4, <4>1, NoTextFree
      <4>2. CASE l = [text |-> <<"2nd Request">>, color |-> <<"yellow">>]
        BY <2>4, <4>2
      <4>3. CASE l = [text |-> <<"3rd Request">>, color |-> <<"red">>]
        BY <2>4, <4>3
      <4>4. QED
        BY <4>1, <4>2, <4>3 DEF Levels
    <3>2. OurAddress \in Free(A)
      BY <2>4 DEF OurAddress
    <3>3. ASSUME NEW i \in {1, 2, 3} PROVE AudioDefault(i) \in Free(A)
      <4>1. AudioDefault(i) \in {<<"audio1.wav">>, <<"audio2.wav">>, <<"audio3.wav">>}
        BY DEF AudioDefault, AudioDefaults
      <4>2. QED
        BY <2>4, <4>1
    <3>4. \A i \in 1 .. 3 : i \in {1, 2, 3}
      OBVIOUS
    <3>5. QED
      BY <3>1, <3>2, <3>3, <3>4
  <2>6. Tokens \subseteq A
    OBVIOUS
  <2> HIDE DEF A
  <2>7. QED
    BY <2>1, <2>2, <2>5, <2>6 DEF Fits
<1> HIDE DEF A
<1>2. Init => ConfigInv /\ Shape /\ PageInv(A)
  BY ConfigInit, ShapeInit, PageInit DEF Init
<1>3. ConfigInv /\ Shape /\ PageInv(A) /\ [Next]_vars => (ConfigInv /\ Shape /\ PageInv(A))'
  <2> SUFFICES ASSUME ConfigInv, Shape, PageInv(A), [Next]_vars
               PROVE  ConfigInv' /\ Shape' /\ PageInv(A)'
    OBVIOUS
  <2>1. ConfigInv' /\ Shape'
    BY ConfigSteps, ConfigNext, ShapeNext
  <2>2. PageInv(A)'
    BY <1>1, PageNext
  <2>3. QED
    BY <2>1, <2>2
<1>4. ConfigInv /\ Shape /\ PageInv(A) /\ [Next]_vars
        => [\A c \in Makers :
              Finish(c) /\ c \notin crossed /\ NamesFit => outbuf'[c] = Filled(c)]_vars
  BY <1>1, PageMade
<1>5. QED
  BY <1>2, <1>3, <1>4, PTL DEF Spec, PageAsMeant
=============================================================================
