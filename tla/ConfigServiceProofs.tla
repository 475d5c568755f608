------------------------ MODULE ConfigServiceProofs ------------------------
(***************************************************************************)
(* ConfigService for every number of requests, any names, bodies, policies *)
(* and failures: no two names share a file, and the files hold what was    *)
(* written to them.                                                        *)
(***************************************************************************)
EXTENDS ConfigService, FiniteSetTheorems, SequenceTheorems, WellFoundedInduction, TLAPS

-----------------------------------------------------------------------------
(* Induction, and the sequences made of sequences                          *)

Below == {p \in Nat \X Nat : p[1] < p[2]}

\* Induction over the numbers, as a fact about sets of them.
LEMMA SetInduction ==
  ASSUME NEW T, 0 \in T, \A n \in Nat : n \in T => n + 1 \in T
  PROVE  Nat \subseteq T
PROOF
  <1> DEFINE U == {n \in Nat : n \notin T}
  <1> SUFFICES ASSUME U # {} PROVE FALSE
    OBVIOUS
  <1>1. IsWellFoundedOn(Below, Nat)
    BY NatLessThanWellFounded DEF Below, OpToRel
  <1>2. PICK x \in U : \A y \in U : ~(<<y, x>> \in Below)
    <2>1. U \subseteq Nat
      OBVIOUS
    <2> HIDE DEF U
    <2> QED
      BY <1>1, <2>1, WFMin
  <1>3. x \in Nat /\ x # 0 /\ x - 1 \in Nat /\ x - 1 < x
    BY <1>2
  <1>4. x - 1 \in T
    BY <1>2, <1>3 DEF Below
  <1> QED
    BY <1>2, <1>3, <1>4

\* The function by which FlattenSeq is defined.
Flattens(g, seqs) ==
  g = [i \in 1 .. Len(seqs) |-> IF i = 1 THEN seqs[i] ELSE g[i - 1] \o seqs[i]]

LEMMA FlattenExists ==
  ASSUME NEW S, NEW seqs \in Seq(S)
  PROVE  \E g : Flattens(g, seqs)
PROOF
  <1> DEFINE Upto(g, n) == g = [i \in 1 .. n |-> IF i = 1 THEN seqs[i] ELSE g[i - 1] \o seqs[i]]
             T == {n \in Nat : \E g : Upto(g, n)}
  <1>1. 0 \in T
    <2> DEFINE g0 == [i \in 1 .. 0 |-> 0]
    <2>1. Upto(g0, 0)
      OBVIOUS
    <2> QED
      BY <2>1
  <1>2. \A n \in Nat : n \in T => n + 1 \in T
    <2> SUFFICES ASSUME NEW n \in Nat, n \in T PROVE n + 1 \in T
      OBVIOUS
    <2> PICK g : Upto(g, n)
      OBVIOUS
    <2> DEFINE h == [i \in 1 .. n + 1 |->
                       IF i = 1 THEN seqs[i] ELSE g[i - 1] \o seqs[i]]
    <2>1. \A i \in 1 .. n : g[i] = IF i = 1 THEN seqs[i] ELSE g[i - 1] \o seqs[i]
      OBVIOUS
    <2>2. \A i \in 1 .. n : h[i] = g[i]
      <3> SUFFICES ASSUME NEW i \in 1 .. n PROVE h[i] = g[i]
        OBVIOUS
      <3>1. i \in 1 .. n + 1
        OBVIOUS
      <3>2. h[i] = IF i = 1 THEN seqs[i] ELSE g[i - 1] \o seqs[i]
        BY <3>1
      <3> HIDE DEF h, Upto
      <3> QED
        BY <2>1, <3>2
    <2>3. \A i \in 1 .. n + 1 : h[i] = IF i = 1 THEN seqs[i] ELSE h[i - 1] \o seqs[i]
      <3> SUFFICES ASSUME NEW i \in 1 .. n + 1, i # 1 PROVE h[i] = h[i - 1] \o seqs[i]
        OBVIOUS
      <3>1. i - 1 \in 1 .. n
        OBVIOUS
      <3>2. h[i - 1] = g[i - 1]
        BY <3>1, <2>2
      <3> QED
        BY <3>2
    <2>4. Upto(h, n + 1)
      <3>1. h = [i \in 1 .. n + 1 |-> h[i]]
        OBVIOUS
      <3> HIDE DEF h
      <3> QED
        BY <3>1, <2>3
    <2>5. \E f : Upto(f, n + 1)
      <3> HIDE DEF h, Upto
      <3> QED
        BY <2>4
    <2>6. n + 1 \in Nat
      OBVIOUS
    <2> HIDE DEF Upto
    <2> QED
      BY <2>5, <2>6
  <1>3. Nat \subseteq T
    <2> HIDE DEF T
    <2> QED
      BY <1>1, <1>2, SetInduction
  <1>4. Len(seqs) \in T
    BY <1>3, LenProperties
  <1> QED
    BY <1>4 DEF Flattens

LEMMA FlattenIs ==
  ASSUME NEW S, NEW seqs \in Seq(S), seqs # <<>>
  PROVE  \E g : Flattens(g, seqs) /\ FlattenSeq(seqs) = g[Len(seqs)]
PROOF
  <1> DEFINE G == CHOOSE g : Flattens(g, seqs)
  <1>1. Flattens(G, seqs)
    BY FlattenExists
  <1>2. Len(seqs) # 0
    BY EmptySeq, LenProperties
  <1>3. FlattenSeq(seqs) = G[Len(seqs)]
    BY <1>2 DEF FlattenSeq, Flattens
  <1> QED
    BY <1>1, <1>3

-----------------------------------------------------------------------------
(* Names and paths                                                         *)

LEMMA EncodedFacts ==
  ASSUME NEW c
  PROVE  /\ c \in {" ", "%"} => Len(Encoded(c)) = 3 /\ Encoded(c)[1] = "%"
         /\ c \notin {" ", "%"} => Encoded(c) = <<c>> /\ Len(Encoded(c)) = 1 /\ Encoded(c)[1] = c
PROOF
  <1>1. CASE c = " "
    <2>1. Encoded(c) = <<"%", "2", "0">>
      BY <1>1 DEF Encoded
    <2>2. Len(Encoded(c)) = 3 /\ Encoded(c)[1] = "%"
      BY <2>1
    <2>3. ~(c \notin {" ", "%"})
      BY <1>1
    <2> QED
      BY <2>2, <2>3
  <1>2. CASE c = "%"
    <2>1. Encoded(c) = <<"%", "2", "5">>
      BY <1>2 DEF Encoded
    <2>2. Len(Encoded(c)) = 3 /\ Encoded(c)[1] = "%"
      BY <2>1
    <2>3. ~(c \notin {" ", "%"})
      BY <1>2
    <2> QED
      BY <2>2, <2>3
  <1>3. CASE c \notin {" ", "%"}
    <2>1. Encoded(c) = <<c>>
      BY <1>3 DEF Encoded
    <2>2. Len(Encoded(c)) = 1 /\ Encoded(c)[1] = c
      BY <2>1
    <2> QED
      BY <1>3, <2>1, <2>2
  <1> QED
    BY <1>1, <1>2, <1>3

LEMMA EncodedIn ==
  ASSUME NEW U, {"%", "2", "0", "5"} \subseteq U, NEW c \in U
  PROVE  Encoded(c) \in Seq(U)
PROOF
  <1>1. "%" \in U /\ "2" \in U /\ "0" \in U /\ "5" \in U
    OBVIOUS
  <1>2. <<"%", "2", "0">> \in Seq(U) /\ <<"%", "2", "5">> \in Seq(U) /\ <<c>> \in Seq(U)
    BY <1>1
  <1> QED
    BY <1>2 DEF Encoded

\* No code is the beginning of another.
LEMMA PrefixCode ==
  ASSUME NEW c, NEW d, Len(Encoded(c)) <= Len(Encoded(d)),
         \A i \in 1 .. Len(Encoded(c)) : Encoded(c)[i] = Encoded(d)[i]
  PROVE  c = d
PROOF
  <1>1. CASE c \notin {" ", "%"}
    <2>1. Encoded(d)[1] = c
      <3>1. Len(Encoded(c)) = 1 /\ Encoded(c)[1] = c
        BY <1>1, EncodedFacts
      <3> QED
        BY <3>1
    <2>2. d \notin {" ", "%"}
      BY <2>1, <1>1, EncodedFacts
    <2> QED
      BY <2>1, <2>2, EncodedFacts
  <1>2. CASE c \in {" ", "%"}
    <2>1. Len(Encoded(c)) = 3
      BY <1>2, EncodedFacts
    <2>2. d \in {" ", "%"}
      <3>1. d \notin {" ", "%"} => Len(Encoded(d)) = 1
        BY EncodedFacts
      <3>2. Len(Encoded(d)) # 1
        BY <2>1
      <3> QED
        BY <3>1, <3>2
    <2>3. Encoded(c)[3] = Encoded(d)[3]
      BY <2>1
    <2>4. Encoded(" ")[3] = "0" /\ Encoded("%")[3] = "5"
      BY DEF Encoded
    <2> QED
      BY <1>2, <2>2, <2>3, <2>4
  <1> QED
    BY <1>1, <1>2

\* p[n]: the first n sequences, joined.
Joins(p, seqs, U) ==
  /\ p \in [0 .. Len(seqs) -> Seq(U)]
  /\ p[0] = <<>>
  /\ \A n \in 1 .. Len(seqs) : p[n] = p[n - 1] \o seqs[n]

\* FlattenSeq joins one sequence after the other.
LEMMA FlattenSteps ==
  ASSUME NEW U, NEW seqs \in Seq(Seq(U))
  PROVE  \E p : Joins(p, seqs, U) /\ FlattenSeq(seqs) = p[Len(seqs)]
PROOF
  <1> DEFINE N == Len(seqs)
  <1>0. N \in Nat /\ \A n \in 1 .. N : seqs[n] \in Seq(U)
    OBVIOUS
  <1>1. CASE seqs = <<>>
    <2> DEFINE p == [n \in 0 .. 0 |-> <<>>]
    <2>1. N = 0 /\ FlattenSeq(seqs) = <<>>
      BY <1>1, EmptySeq DEF FlattenSeq
    <2>2. p \in [0 .. N -> Seq(U)] /\ p[0] = <<>>
      BY <2>1
    <2>3. (\A n \in 1 .. N : p[n] = p[n - 1] \o seqs[n]) /\ FlattenSeq(seqs) = p[N]
      BY <2>1, <2>2
    <2> HIDE DEF p
    <2> QED
      BY <2>2, <2>3 DEF Joins
  <1>2. CASE seqs # <<>>
    <2>1. PICK g : Flattens(g, seqs) /\ FlattenSeq(seqs) = g[N]
      BY <1>2, FlattenIs
    <2> DEFINE p == [n \in 0 .. N |-> IF n = 0 THEN <<>> ELSE g[n]]
    <2>2. N # 0
      BY <1>2, EmptySeq
    <2>3. \A i \in 1 .. N : g[i] = IF i = 1 THEN seqs[i] ELSE g[i - 1] \o seqs[i]
      BY <2>1 DEF Flattens
    <2>4. p[0] = <<>> /\ \A n \in 1 .. N : p[n] = g[n]
      BY <1>0
    <2>5. \A n \in 1 .. N : p[n] = p[n - 1] \o seqs[n]
      <3> SUFFICES ASSUME NEW n \in 1 .. N PROVE p[n] = p[n - 1] \o seqs[n]
        OBVIOUS
      <3>1. CASE n = 1
        BY <1>0, <2>3, <2>4, <3>1, ConcatEmptySeq
      <3>2. CASE n # 1
        <4>1. n - 1 \in 1 .. N
          BY <3>2, <1>0
        <4> QED
          BY <3>2, <4>1, <2>3, <2>4
      <3> QED
        BY <3>1, <3>2
    <2>6. \A n \in Nat : n \in 0 .. N => p[n] \in Seq(U)
      <3> DEFINE T == {n \in Nat : n \in 0 .. N => p[n] \in Seq(U)}
      <3> HIDE DEF p
      <3>1. 0 \in T
        <4>1. <<>> \in Seq(U)
          OBVIOUS
        <4> QED
          BY <2>4, <4>1
      <3>2. \A n \in Nat : n \in T => n + 1 \in T
        <4> SUFFICES ASSUME NEW n \in Nat, n \in T, n + 1 \in 0 .. N PROVE p[n + 1] \in Seq(U)
          OBVIOUS
        <4>1. n \in 0 .. N /\ n + 1 \in 1 .. N /\ (n + 1) - 1 = n
          BY <1>0
        <4>2. p[n] \in Seq(U) /\ seqs[n + 1] \in Seq(U)
          BY <4>1, <1>0
        <4>3. p[n + 1] = p[n] \o seqs[n + 1]
          BY <4>1, <2>5
        <4> QED
          BY <4>2, <4>3, ConcatProperties
      <3> HIDE DEF T
      <3>3. Nat \subseteq T
        BY <3>1, <3>2, SetInduction
      <3> QED
        BY <3>3 DEF T
    <2>7. p = [n \in 0 .. N |-> p[n]]
      OBVIOUS
    <2> HIDE DEF p
    <2>8. p \in [0 .. N -> Seq(U)]
      BY <2>6, <2>7, <1>0
    <2>9. FlattenSeq(seqs) = p[N]
      BY <2>1, <2>2, <2>4, <1>0
    <2> QED
      BY <2>4, <2>5, <2>8, <2>9 DEF Joins
  <1> QED
    BY <1>1, <1>2

\* What it has joined at first stays the beginning.
LEMMA Beginning ==
  ASSUME NEW U, NEW seqs \in Seq(Seq(U)), NEW p, Joins(p, seqs, U)
  PROVE  \A k \in 0 .. Len(seqs) : \A n \in k .. Len(seqs) :
           Len(p[k]) <= Len(p[n]) /\ \A j \in 1 .. Len(p[k]) : p[n][j] = p[k][j]
PROOF
  <1> SUFFICES ASSUME NEW k \in 0 .. Len(seqs)
               PROVE  \A n \in k .. Len(seqs) :
                        Len(p[k]) <= Len(p[n]) /\ \A j \in 1 .. Len(p[k]) : p[n][j] = p[k][j]
    OBVIOUS
  <1> DEFINE N == Len(seqs)
             Begins(n) == Len(p[k]) <= Len(p[n]) /\ \A j \in 1 .. Len(p[k]) : p[n][j] = p[k][j]
             T == {i \in Nat : k + i <= N => Begins(k + i)}
  <1>0. N \in Nat /\ k \in Nat /\ \A n \in 1 .. N : seqs[n] \in Seq(U)
    OBVIOUS
  <1>j. /\ p \in [0 .. N -> Seq(U)]
        /\ \A n \in 1 .. N : p[n] = p[n - 1] \o seqs[n]
    BY DEF Joins
  <1>1. 0 \in T
    BY <1>0, <1>j, LenProperties
  <1>2. \A i \in Nat : i \in T => i + 1 \in T
    <2> SUFFICES ASSUME NEW i \in Nat, i \in T, k + (i + 1) <= N PROVE Begins(k + (i + 1))
      OBVIOUS
    <2> DEFINE n == k + i
    <2>1. n \in 0 .. N /\ n + 1 \in 1 .. N /\ (n + 1) - 1 = n /\ k + (i + 1) = n + 1 /\ k + i <= N
      BY <1>0
    <2>2. Begins(n)
      BY <2>1
    <2> HIDE DEF n
    <2>3. p[n] \in Seq(U) /\ seqs[n + 1] \in Seq(U) /\ p[k] \in Seq(U)
      BY <2>1, <1>0, <1>j
    <2>4. p[n + 1] = p[n] \o seqs[n + 1]
      BY <2>1, <1>j
    <2> DEFINE x == p[n]
               y == seqs[n + 1]
               z == p[n + 1]
    <2>5. /\ x \in Seq(U) /\ y \in Seq(U) /\ z = x \o y /\ Len(p[k]) \in Nat
          /\ Len(p[k]) <= Len(x) /\ \A j \in 1 .. Len(p[k]) : x[j] = p[k][j]
      BY <2>2, <2>3, <2>4, LenProperties
    <2> HIDE DEF x, y, z
    <2>6. Len(z) = Len(x) + Len(y) /\ Len(x) \in Nat /\ Len(y) \in Nat
      BY <2>5, ConcatProperties, LenProperties
    <2>7. Len(p[k]) <= Len(z)
      BY <2>5, <2>6
    <2>8. ASSUME NEW j \in 1 .. Len(p[k]) PROVE z[j] = p[k][j]
      <3>1. j \in 1 .. Len(x) + Len(y) /\ j <= Len(x)
        BY <2>5, <2>6
      <3>2. (x \o y)[j] = x[j]
        BY <3>1, <2>5, ConcatProperties
      <3> QED
        BY <3>2, <2>5
    <2> QED
      BY <2>1, <2>7, <2>8 DEF z
  <1>3. Nat \subseteq T
    <2> HIDE DEF T
    <2> QED
      BY <1>1, <1>2, SetInduction
  <1>4. ASSUME NEW n \in k .. N PROVE Begins(n)
    <2>1. n - k \in Nat /\ k + (n - k) = n /\ n <= N
      BY <1>0
    <2>2. n - k \in T
      BY <2>1, <1>3
    <2> HIDE DEF Begins
    <2> QED
      BY <2>1, <2>2
  <1> QED
    BY <1>4

\* It has them in the whole.
Whole(p, seqs) ==
  \A n \in 0 .. Len(seqs) : /\ Len(p[n]) <= Len(FlattenSeq(seqs))
                            /\ \A j \in 1 .. Len(p[n]) : FlattenSeq(seqs)[j] = p[n][j]

LEMMA Joining ==
  ASSUME NEW U, NEW seqs \in Seq(Seq(U))
  PROVE  \E p : Joins(p, seqs, U) /\ FlattenSeq(seqs) = p[Len(seqs)] /\ Whole(p, seqs)
PROOF
  <1>1. PICK p : Joins(p, seqs, U) /\ FlattenSeq(seqs) = p[Len(seqs)]
    BY FlattenSteps
  <1>2. \A k \in 0 .. Len(seqs) : \A n \in k .. Len(seqs) :
          Len(p[k]) <= Len(p[n]) /\ \A j \in 1 .. Len(p[k]) : p[n][j] = p[k][j]
    BY <1>1, Beginning
  <1>3. \A k \in 0 .. Len(seqs) : Len(seqs) \in k .. Len(seqs)
    BY LenProperties
  <1>4. Whole(p, seqs)
    BY <1>1, <1>2, <1>3 DEF Whole
  <1> QED
    BY <1>1, <1>4

\* Two names with one encoding agree in every character they both have.
LEMMA SameEncoding ==
  ASSUME NEW U, {"%", "2", "0", "5"} \subseteq U, NEW a \in Seq(U), NEW b \in Seq(U),
         percentEncode(a) = percentEncode(b), Len(a) <= Len(b)
  PROVE  a = b
PROOF
  <1> DEFINE ea == [i \in DOMAIN a |-> Encoded(a[i])]
             eb == [i \in DOMAIN b |-> Encoded(b[i])]
  <1>1. /\ ea \in Seq(Seq(U)) /\ Len(ea) = Len(a) /\ \A i \in 1 .. Len(a) : ea[i] = Encoded(a[i])
        /\ eb \in Seq(Seq(U)) /\ Len(eb) = Len(b) /\ \A i \in 1 .. Len(b) : eb[i] = Encoded(b[i])
    <2>1. \A i \in 1 .. Len(a) : Encoded(a[i]) \in Seq(U)
      BY EncodedIn, ElementOfSeq
    <2>2. \A i \in 1 .. Len(b) : Encoded(b[i]) \in Seq(U)
      BY EncodedIn, ElementOfSeq
    <2>3. DOMAIN a = 1 .. Len(a) /\ DOMAIN b = 1 .. Len(b) /\ Len(a) \in Nat /\ Len(b) \in Nat
      OBVIOUS
    <2>4. ea \in Seq(Seq(U)) /\ Len(ea) = Len(a)
      BY <2>1, <2>3
    <2>5. eb \in Seq(Seq(U)) /\ Len(eb) = Len(b)
      BY <2>2, <2>3
    <2> QED
      BY <2>3, <2>4, <2>5
  <1>2. FlattenSeq(ea) = FlattenSeq(eb)
    BY DEF percentEncode
  <1> DEFINE M == Len(a)
             N == Len(b)
  <1>3. M \in Nat /\ N \in Nat /\ M <= N
    BY LenProperties
  <1> HIDE DEF ea, eb
  <1>4. PICK p : Joins(p, ea, U) /\ FlattenSeq(ea) = p[Len(ea)] /\ Whole(p, ea)
    BY <1>1, Joining
  <1>5. PICK q : Joins(q, eb, U) /\ FlattenSeq(eb) = q[Len(eb)] /\ Whole(q, eb)
    BY <1>1, Joining
  <1> DEFINE x == p[M]
  <1>6. x = p[Len(ea)] /\ x = q[Len(eb)]
    BY <1>1, <1>2, <1>4, <1>5
  <1> HIDE DEF x
  <1> USE DEF Joins, Whole
  <1>7. ASSUME NEW n \in 1 .. M
        PROVE  /\ p[n - 1] \in Seq(U) /\ Encoded(a[n]) \in Seq(U)
               /\ p[n] = p[n - 1] \o Encoded(a[n])
               /\ \A j \in 1 .. Len(p[n]) : x[j] = p[n][j]
    <2>1. n - 1 \in 0 .. Len(ea) /\ n \in 0 .. Len(ea) /\ Len(ea) \in n .. Len(ea)
      BY <1>1, <1>3
    <2>2. \A j \in 1 .. Len(p[n]) : p[Len(ea)][j] = p[n][j]
      BY <1>1, <1>2, <1>4, <1>5, <1>6, <2>1
    <2>3. ea[n] = Encoded(a[n]) /\ ea[n] \in Seq(U)
      BY <1>1, ElementOfSeq
    <2> QED
      BY <1>1, <1>4, <1>6, <2>1, <2>2, <2>3
  <1>8. ASSUME NEW n \in 1 .. N
        PROVE  /\ q[n - 1] \in Seq(U) /\ Encoded(b[n]) \in Seq(U)
               /\ q[n] = q[n - 1] \o Encoded(b[n])
               /\ \A j \in 1 .. Len(q[n]) : x[j] = q[n][j]
               /\ Len(q[n]) <= Len(x)
    <2>1. n - 1 \in 0 .. Len(eb) /\ n \in 0 .. Len(eb) /\ Len(eb) \in n .. Len(eb)
      BY <1>1, <1>3
    <2>2. Len(q[n]) <= Len(q[Len(eb)]) /\ \A j \in 1 .. Len(q[n]) : q[Len(eb)][j] = q[n][j]
      BY <1>1, <1>2, <1>4, <1>5, <1>6, <2>1
    <2>3. eb[n] = Encoded(b[n]) /\ eb[n] \in Seq(U)
      BY <1>1, ElementOfSeq
    <2> QED
      BY <1>1, <1>5, <1>6, <2>1, <2>2, <2>3
  \* Equal beginnings go on with the code of one character.
  <1>9. ASSUME NEW n \in 1 .. M, p[n - 1] = q[n - 1] PROVE a[n] = b[n] /\ p[n] = q[n]
    <2> DEFINE y == p[n - 1]
               e == Encoded(a[n])
               f == Encoded(b[n])
    <2>1. n \in 1 .. N
      BY <1>3
    <2>2. /\ y \in Seq(U) /\ e \in Seq(U) /\ f \in Seq(U) /\ p[n] = y \o e /\ q[n] = y \o f
          /\ \A j \in 1 .. Len(y \o e) : x[j] = (y \o e)[j]
          /\ \A j \in 1 .. Len(y \o f) : x[j] = (y \o f)[j]
      <3>1. p[n - 1] \in Seq(U) /\ e \in Seq(U) /\ p[n] = p[n - 1] \o e
        BY <1>7
      <3>2. \A j \in 1 .. Len(p[n]) : x[j] = p[n][j]
        BY <1>7
      <3>3. f \in Seq(U) /\ q[n] = q[n - 1] \o f
        BY <1>8, <2>1
      <3>4. \A j \in 1 .. Len(q[n]) : x[j] = q[n][j]
        BY <1>8, <2>1
      <3> QED
        BY <3>1, <3>2, <3>3, <3>4, <1>9
    <2> HIDE DEF y, e, f
    <2>3. \A i \in 1 .. Len(e) : x[Len(y) + i] = e[i]
      <3> SUFFICES ASSUME NEW i \in 1 .. Len(e) PROVE x[Len(y) + i] = e[i]
        OBVIOUS
      <3>1. Len(y) \in Nat /\ Len(e) \in Nat
        BY <2>2, LenProperties
      <3>2. Len(y) + i \in 1 .. Len(y) + Len(e) /\ ~(Len(y) + i <= Len(y)) /\ (Len(y) + i) - Len(y) = i
        BY <3>1
      <3>3. Len(y \o e) = Len(y) + Len(e) /\ (y \o e)[Len(y) + i] = e[i]
        BY <2>2, <3>2, ConcatProperties
      <3> QED
        BY <2>2, <3>2, <3>3
    <2>4. \A i \in 1 .. Len(f) : x[Len(y) + i] = f[i]
      <3> SUFFICES ASSUME NEW i \in 1 .. Len(f) PROVE x[Len(y) + i] = f[i]
        OBVIOUS
      <3>1. Len(y) \in Nat /\ Len(f) \in Nat
        BY <2>2, LenProperties
      <3>2. Len(y) + i \in 1 .. Len(y) + Len(f) /\ ~(Len(y) + i <= Len(y)) /\ (Len(y) + i) - Len(y) = i
        BY <3>1
      <3>3. Len(y \o f) = Len(y) + Len(f) /\ (y \o f)[Len(y) + i] = f[i]
        BY <2>2, <3>2, ConcatProperties
      <3> QED
        BY <2>2, <3>2, <3>3
    <2>5. Len(e) \in Nat /\ Len(f) \in Nat
      BY <2>2, LenProperties
    <2>6. CASE Len(e) <= Len(f)
      <3>1. ASSUME NEW i \in 1 .. Len(e) PROVE e[i] = f[i]
        <4>1. i \in 1 .. Len(f)
          BY <2>5, <2>6
        <4> QED
          BY <2>3, <2>4, <4>1
      <3>2. a[n] = b[n]
        BY <2>6, <3>1, PrefixCode DEF e, f
      <3> QED
        BY <2>2, <3>2 DEF e, f
    <2>7. CASE Len(f) <= Len(e)
      <3>1. ASSUME NEW i \in 1 .. Len(f) PROVE f[i] = e[i]
        <4>1. i \in 1 .. Len(e)
          BY <2>5, <2>7
        <4> QED
          BY <2>3, <2>4, <4>1
      <3>2. b[n] = a[n]
        BY <2>7, <3>1, PrefixCode DEF e, f
      <3> QED
        BY <2>2, <3>2 DEF e, f
    <2> QED
      BY <2>5, <2>6, <2>7
  <1>10. \A n \in Nat : n <= M => p[n] = q[n] /\ \A i \in 1 .. n : a[i] = b[i]
    <2> DEFINE T == {n \in Nat : n <= M => p[n] = q[n] /\ \A i \in 1 .. n : a[i] = b[i]}
    <2> HIDE DEF M
    <2>1. 0 \in T
      BY <1>4, <1>5
    <2>2. \A n \in Nat : n \in T => n + 1 \in T
      <3> SUFFICES ASSUME NEW n \in Nat, n \in T, n + 1 <= M
                   PROVE  p[n + 1] = q[n + 1] /\ \A i \in 1 .. n + 1 : a[i] = b[i]
        OBVIOUS
      <3>1. n <= M /\ n + 1 \in 1 .. M /\ (n + 1) - 1 = n
        BY <1>3
      <3>2. p[n] = q[n] /\ \A i \in 1 .. n : a[i] = b[i]
        BY <3>1
      <3>3. p[n + 1] = q[n + 1] /\ a[n + 1] = b[n + 1]
        BY <3>1, <3>2, <1>9
      <3>4. \A i \in 1 .. n + 1 : i = n + 1 \/ i \in 1 .. n
        OBVIOUS
      <3> QED
        BY <3>2, <3>3, <3>4
    <2> HIDE DEF T
    <2>3. Nat \subseteq T
      BY <2>1, <2>2, SetInduction
    <2> QED
      BY <2>3 DEF T
  <1>11. p[M] = q[M] /\ \A i \in 1 .. M : a[i] = b[i]
    BY <1>3, <1>10
  <1>12. M = N
    <2> SUFFICES ASSUME M < N PROVE FALSE
      BY <1>3
    <2> DEFINE e == Encoded(b[M + 1])
               y == q[M]
    <2>1. M + 1 \in 1 .. N /\ (M + 1) - 1 = M
      BY <1>3
    <2>2. y \in Seq(U) /\ e \in Seq(U) /\ q[M + 1] = y \o e /\ Len(q[M + 1]) <= Len(x)
      BY <1>8, <2>1
    <2>3. Len(e) = 1 \/ Len(e) = 3
      BY EncodedFacts
    <2>4. x = y
      BY <1>11 DEF x
    <2> HIDE DEF e, y
    <2>5. Len(y \o e) = Len(y) + Len(e) /\ Len(y) \in Nat
      BY <2>2, ConcatProperties, LenProperties
    <2>6. Len(y \o e) <= Len(y)
      BY <2>2, <2>4
    <2> DEFINE k == Len(e)
               l == Len(y)
    <2>7. l \in Nat /\ l + k <= l /\ (k = 1 \/ k = 3)
      BY <2>3, <2>5, <2>6
    <2> HIDE DEF k, l
    <2> QED
      BY <2>7
  <1> QED
    BY <1>11, <1>12, SeqEqual

\* percentEncode gives different names different files, whatever characters they
\* have: the escape character is escaped itself.
THEOREM NamesApart ==
  \A m, n \in ItemNames : percentEncode(m) = percentEncode(n) => m = n
PROOF
  <1> SUFFICES ASSUME NEW m \in ItemNames, NEW n \in ItemNames, percentEncode(m) = percentEncode(n)
               PROVE  m = n
    OBVIOUS
  <1> DEFINE U == {m[i] : i \in DOMAIN m} \cup {n[i] : i \in DOMAIN n} \cup {"%", "2", "0", "5"}
  <1>1. m \in Seq({m[i] : i \in DOMAIN m}) /\ n \in Seq({n[i] : i \in DOMAIN n})
    BY ConfigAssumption
  <1>2. \A i \in 1 .. Len(m) : m[i] \in U
    BY <1>1
  <1>3. \A i \in 1 .. Len(n) : n[i] \in U
    BY <1>1
  <1>4. {"%", "2", "0", "5"} \subseteq U
    OBVIOUS
  <1> HIDE DEF U
  <1>5. m \in Seq(U) /\ n \in Seq(U)
    BY <1>1, <1>2, <1>3
  <1>6. Len(m) <= Len(n) \/ Len(n) <= Len(m)
    BY <1>5, LenProperties
  <1> QED
    BY <1>4, <1>5, <1>6, SameEncoding

-----------------------------------------------------------------------------
(* The inductive invariant: types                                          *)

Paths == Scopes \X FileNames
Texts == Bodies \cup {Empty, Mixed}
File == [text : Texts, time : Nat, times : SUBSET Nat]

FilesType ==
  /\ policy \in Policies /\ clock \in Nat
  /\ inode \in Seq(File)
  /\ \A i \in DOMAIN inode : inode[i].time \in inode[i].times /\ inode[i].times \subseteq 1 .. clock
  /\ link \in [Paths -> 0 .. Len(inode)]
  /\ dir \in [Scopes -> SUBSET (1 .. clock)]
  /\ store \in [Scopes -> [ItemNames -> Bodies \cup {NotFound}]]
  /\ torn \subseteq DOMAIN inode

Fields == {"op", "pc", "scope", "name", "body", "lastmod", "at", "fd", "seen", "first",
           "data", "entries", "table", "gone", "answers", "quiet", "wanted", "missed", "thrown"}

\* Which requests get how far.
Stage(q) ==
  /\ q.pc \in {"resolve", "start", "checked", "write", "stat", "check", "unlink", "entry",
               "read", "send", "done"}
  /\ q.pc \in {"write", "stat"} => q.op = "put"
  /\ q.pc = "write" => q.fd # 0
  /\ q.pc = "checked" => q.op \in {"put", "delete", "deleteTree"}
  /\ q.pc = "check" => q.op = "deleteTree"
  /\ q.pc = "unlink" => q.op = "delete"
  /\ q.pc = "entry" => OnFolder(q) /\ q.op # "list"
  /\ q.pc = "read" => q.op \in {"get", "getFolder"}
  /\ q.pc = "send" => q.op = "get"

\* A folder's listing names for every file the scopes it was seen in, and the
\* visitor of the files stops when there are no more of them.
Listed(q) ==
  q.op = "getFolder" =>
    /\ DOMAIN q.table \subseteq FileNames
    /\ \A f \in DOMAIN q.table : q.table[f] # {} /\ q.table[f] \subseteq q.scope .. Plugin
    /\ q.pc \in {"entry", "read"} => q.entries # {} /\ q.entries \subseteq DOMAIN q.table

\* Before it is done a request has been answered only by entries that failed.
Failure == [code |-> 500, data |-> NoData]
Replies(q) ==
  /\ q.gone \in Nat
  /\ q.gone # 0 => q.pc \in {"entry", "done"} /\ OnFolder(q) /\ Writer(q)
  /\ Busy(q) => q.answers \in Seq({Failure}) /\ Len(q.answers) = q.gone /\ ~q.thrown
  /\ q.pc = "done" => \/ Len(q.answers) = (IF q.gone > 1 THEN q.gone ELSE 1) /\ ~q.thrown
                      \/ q.answers = <<>> /\ q.thrown
  /\ q.pc = "done" /\ q.thrown => q.op \in {"get", "allowed"}

IsRequest(q) ==
  /\ Fields \subseteq DOMAIN q
  /\ q.op \in {"put", "delete", "get", "allowed", "list", "deleteTree", "deleteFolder", "getFolder"}
  /\ q.scope \in Scopes /\ q.name \in ItemNames /\ (q.op = "put" => q.body \in Bodies)
  /\ q.lastmod \in Nat /\ q.fd \in Nat
  /\ q.at \in q.scope .. Plugin
  /\ q.first \in BOOLEAN /\ q.quiet \in BOOLEAN /\ q.missed \in BOOLEAN
  /\ Stage(q) /\ Listed(q) /\ Replies(q)

RequestsType ==
  /\ DOMAIN req = Requests
  /\ \A r \in Requests : req[r].pc # "unsent" =>
       IsRequest(req[r]) /\ req[r].lastmod <= clock /\ req[r].fd <= Len(inode)

TypeInv == FilesType /\ RequestsType

-----------------------------------------------------------------------------
(* The inductive invariant: the files                                      *)

\* No file has two paths.
LinksApart == \A p, q \in Paths : link[p] = link[q] /\ link[p] # 0 => p = q

PathOf(q) == getPathForScope(q.scope, percentEncode(q.name))
Writing(q) == q.pc = "write"

\* Who writes a file has it under its own path, if it has one, and finds it as
\* it opened it, unless somebody else has opened it as well.
WriterInv ==
  \A r \in Requests :
    LET q == req[r] IN
    Writing(q) =>
      /\ q.fd \in DOMAIN inode
      /\ \A p \in Paths : link[p] = q.fd => p = PathOf(q)
      /\ \A x \in Requests \ {r} : Writing(req[x]) /\ req[x].fd = q.fd => q.fd \in torn
      /\ q.fd \notin torn => inode[q.fd].text = Empty

WholeInv == LinksApart /\ WriterInv /\ FileWhole

FirstCode(q) == q.answers[1].code

-----------------------------------------------------------------------------
(* One request: what the operators that go on with it make of it           *)

\* A request stays the one that was sent.
Same(q, p) ==
  /\ p.op = q.op /\ p.scope = q.scope /\ p.name = q.name /\ p.body = q.body
  /\ p.lastmod = q.lastmod /\ p.quiet = q.quiet /\ p.wanted = q.wanted

LEMMA AppendFacts ==
  ASSUME NEW S, NEW s \in Seq(S), NEW x
  PROVE  /\ Len(Append(s, x)) = Len(s) + 1
         /\ x \in S => Append(s, x) \in Seq(S)
         /\ s = <<>> => Append(s, x)[1] = x
         /\ s # <<>> => Append(s, x)[1] = s[1]
PROOF
  <1> DEFINE T == S \cup {x}
  <1>1. s \in Seq(T) /\ x \in T
    OBVIOUS
  <1> HIDE DEF T
  <1>2. /\ Len(Append(s, x)) = Len(s) + 1
        /\ \A i \in 1 .. Len(s) : Append(s, x)[i] = s[i]
        /\ Append(s, x)[Len(s) + 1] = x
    BY <1>1, AppendProperties
  <1>3. s = <<>> => Len(s) + 1 = 1
    BY EmptySeq
  <1>4. s # <<>> => 1 \in 1 .. Len(s)
    BY EmptySeq, LenProperties
  <1> QED
    BY <1>2, <1>3, <1>4, AppendProperties

LEMMA AnswerFacts ==
  ASSUME NEW q, IsRequest(q), Busy(q), q.gone = 0, NEW code, NEW data
  PROVE  LET p == Answer(q, code, data) IN
         /\ IsRequest(p) /\ Same(q, p) /\ p.pc = "done" /\ p.fd = q.fd /\ p.missed = q.missed
         /\ ~p.thrown /\ FirstCode(p) = code /\ p.answers[1].data = data /\ Len(p.answers) = 1
         /\ p.gone = 0
PROOF
  <1> DEFINE x == [code |-> code, data |-> data]
             p == Answer(q, code, data)
  <1>1. q.answers \in Seq({Failure}) /\ Len(q.answers) = 0 /\ ~q.thrown
    BY DEF IsRequest, Replies
  <1>2. q.answers = <<>>
    BY <1>1, EmptySeq
  <1>3. Len(Append(q.answers, x)) = 1 /\ Append(q.answers, x)[1] = x
    BY <1>1, <1>2, AppendFacts
  <1>4. p = [q EXCEPT !.pc = "done", !.answers = Append(q.answers, x)]
    BY DEF Answer
  <1> DEFINE a == Append(q.answers, x)
  <1> HIDE DEF a, x
  <1>5. Fields \subseteq DOMAIN q
    BY DEF IsRequest
  <1>6. /\ DOMAIN p = DOMAIN q /\ p.pc = "done" /\ p.answers = a
        /\ \A f \in Fields \ {"pc", "answers"} : p[f] = q[f]
    BY <1>4, <1>5 DEF Fields, a
  <1> HIDE DEF p
  <1>7. /\ p.op = q.op /\ p.scope = q.scope /\ p.name = q.name /\ p.body = q.body
        /\ p.lastmod = q.lastmod /\ p.quiet = q.quiet /\ p.wanted = q.wanted /\ p.fd = q.fd
        /\ p.at = q.at /\ p.first = q.first /\ p.missed = q.missed /\ p.table = q.table
        /\ p.gone = q.gone /\ p.thrown = q.thrown
    BY <1>6 DEF Fields
  <1>8. IsRequest(p)
    BY <1>1, <1>3, <1>5, <1>6, <1>7 DEF IsRequest, Stage, Listed, Replies, Busy, a
  <1>9. p.answers[1] = x /\ x.code = code /\ x.data = data
    BY <1>3, <1>6 DEF a, x
  <1> QED
    BY <1>1, <1>3, <1>6, <1>7, <1>8, <1>9 DEF Same, FirstCode, p, a

Free == {"pc", "at", "fd", "seen", "first", "data", "entries", "table", "missed"}

\* A request goes on that has not been answered.
LEMMA GoesOn ==
  ASSUME NEW q, IsRequest(q), Busy(q), NEW p, DOMAIN p = DOMAIN q,
         \A f \in Fields \ Free : p[f] = q[f],
         Busy(p), q.gone = 0 \/ p.pc = "entry",
         p.at \in q.scope .. Plugin, p.fd \in Nat, p.first \in BOOLEAN, p.missed \in BOOLEAN,
         Stage(p), Listed(p)
  PROVE  IsRequest(p) /\ Same(q, p)
PROOF
  <1>1. /\ p.op = q.op /\ p.scope = q.scope /\ p.name = q.name /\ p.body = q.body
        /\ p.lastmod = q.lastmod /\ p.quiet = q.quiet /\ p.wanted = q.wanted
        /\ p.gone = q.gone /\ p.thrown = q.thrown /\ p.answers = q.answers
    BY DEF Fields, Free
  <1>2. Replies(p)
    BY <1>1 DEF IsRequest, Replies, Busy, OnFolder, Writer
  <1> QED
    BY <1>1, <1>2 DEF IsRequest, Same

LEMMA ThrownFacts ==
  ASSUME NEW q, IsRequest(q), Busy(q), q.gone = 0, q.op \in {"get", "allowed"}
  PROVE  LET p == Thrown(q) IN
         /\ IsRequest(p) /\ Same(q, p) /\ p.pc = "done" /\ p.fd = q.fd /\ p.thrown
         /\ p.missed = q.missed
PROOF
  <1> DEFINE p == Thrown(q)
  <1>1. q.answers \in Seq({Failure}) /\ Len(q.answers) = 0
    BY DEF IsRequest, Replies
  <1>2. q.answers = <<>>
    BY <1>1, EmptySeq
  <1>3. Fields \subseteq DOMAIN q
    BY DEF IsRequest
  <1>4. /\ DOMAIN p = DOMAIN q /\ p.pc = "done" /\ p.thrown = TRUE
        /\ \A f \in Fields \ {"pc", "thrown"} : p[f] = q[f]
    BY <1>3 DEF Fields, Thrown
  <1> HIDE DEF p
  <1>5. /\ p.op = q.op /\ p.scope = q.scope /\ p.name = q.name /\ p.body = q.body
        /\ p.lastmod = q.lastmod /\ p.quiet = q.quiet /\ p.wanted = q.wanted /\ p.fd = q.fd
        /\ p.at = q.at /\ p.first = q.first /\ p.missed = q.missed /\ p.table = q.table
        /\ p.gone = q.gone /\ p.answers = q.answers
    BY <1>4 DEF Fields
  <1>6. IsRequest(p)
    BY <1>2, <1>3, <1>4, <1>5 DEF IsRequest, Stage, Listed, Replies, Busy
  <1> QED
    BY <1>4, <1>5, <1>6 DEF Same, p

-----------------------------------------------------------------------------
(* Every operation goes on with the request it belongs to                  *)

\* The operations change the request they belong to, to p, and no other.
Moves(r, p) ==
  /\ req' = [req EXCEPT ![r] = p] /\ IsRequest(p) /\ Same(req[r], p)
  /\ p.fd <= Len(inode')

LEMMA Sent ==
  ASSUME TypeInv, NEW r \in Requests, Busy(req[r])
  PROVE  IsRequest(req[r]) /\ req[r].lastmod <= clock /\ req[r].fd <= Len(inode) /\ Fields \subseteq DOMAIN req[r]
  BY DEF TypeInv, RequestsType, Busy, IsRequest

LEMMA FilesFacts ==
  ASSUME TypeInv
  PROVE  /\ Len(inode) \in Nat /\ clock \in Nat /\ DOMAIN inode = 1 .. Len(inode)
         /\ \A s \in Scopes, n \in ItemNames : InodeAt(s, percentEncode(n)) \in 0 .. Len(inode)
         /\ \A s \in Scopes, f \in FileNames : InodeAt(s, f) \in 0 .. Len(inode)
         /\ \A i \in 1 .. Len(inode) : inode[i].text \in Texts /\ inode[i].time \in Nat /\ inode[i].time <= clock
PROOF
  <1>1. inode \in Seq(File) /\ link \in [Paths -> 0 .. Len(inode)] /\ clock \in Nat
    BY DEF TypeInv, FilesType
  <1>2. Len(inode) \in Nat /\ DOMAIN inode = 1 .. Len(inode)
    BY <1>1
  <1>3. \A s \in Scopes, f \in FileNames : InodeAt(s, f) \in 0 .. Len(inode)
    BY <1>1 DEF InodeAt, getPathForScope, Paths
  <1>4. \A n \in ItemNames : percentEncode(n) \in FileNames
    BY DEF FileNames
  <1>5. \A i \in 1 .. Len(inode) : inode[i] \in File
    BY <1>1
  <1>6. \A i \in 1 .. Len(inode) : inode[i].time \in inode[i].times /\ inode[i].times \subseteq 1 .. clock
    BY <1>2 DEF TypeInv, FilesType
  <1>7. ASSUME NEW i \in 1 .. Len(inode)
        PROVE  inode[i].text \in Texts /\ inode[i].time \in Nat /\ inode[i].time <= clock
    BY <1>1, <1>5, <1>6 DEF File
  <1> QED
    BY <1>1, <1>2, <1>3, <1>4, <1>7

LEMMA determineResourceMoves ==
  ASSUME TypeInv, NEW r \in Requests, Busy(req[r]), determineResource(r)
  PROVE  /\ Moves(r, [req[r] EXCEPT !.pc = "start"])
         /\ UNCHANGED <<inode, link, store, torn>>
PROOF
  <1> DEFINE q == req[r]
             p == [q EXCEPT !.pc = "start"]
  <1>1. IsRequest(q) /\ q.fd <= Len(inode) /\ Fields \subseteq DOMAIN q /\ q.pc = "resolve" /\ Busy(q)
    BY Sent DEF determineResource
  <1>2. req' = [req EXCEPT ![r] = p] /\ UNCHANGED <<inode, link, store, torn>>
    BY DEF determineResource, Set
  <1> HIDE DEF q
  <1>3. /\ DOMAIN p = DOMAIN q /\ p.pc = "start"
        /\ \A f \in Fields \ {"pc"} : p[f] = q[f]
    BY <1>1 DEF Fields
  <1> HIDE DEF p
  <1>4. /\ p.op = q.op /\ p.scope = q.scope /\ p.at = q.at /\ p.fd = q.fd /\ p.first = q.first
        /\ p.missed = q.missed /\ p.table = q.table
    BY <1>3 DEF Fields
  <1>5. q.gone = 0 /\ Busy(p) /\ Stage(p) /\ Listed(p)
    BY <1>1, <1>3, <1>4 DEF IsRequest, Replies, Busy, Stage, Listed
  <1>6. q.at \in q.scope .. Plugin /\ q.fd \in Nat /\ q.first \in BOOLEAN /\ q.missed \in BOOLEAN
    BY <1>1 DEF IsRequest
  <1>7. IsRequest(p) /\ Same(q, p)
    BY <1>1, <1>3, <1>4, <1>5, <1>6, GoesOn DEF Free
  <1> QED
    BY <1>1, <1>2, <1>4, <1>7 DEF Moves, p, q

LEMMA OpenFacts ==
  ASSUME TypeInv, NEW q, IsRequest(q), Busy(q), q.gone = 0, q.op \in {"get", "getFolder"},
         q.op = "getFolder" => q.pc = "entry",
         NEW f \in FileNames, InodeAt(q.at, f) # 0
  PROVE  LET p == Open(q, f) IN
         /\ IsRequest(p) /\ Same(q, p) /\ p.pc = "read"
         /\ p.fd = InodeAt(q.at, f) /\ p.fd <= Len(inode) /\ p.seen = inode[p.fd].time
         /\ p.at = q.at /\ p.first = q.first /\ p.data = q.data /\ p.table = q.table
         /\ p.entries = q.entries /\ p.missed = q.missed /\ p.gone = 0
PROOF
  <1> DEFINE p == Open(q, f)
             i == InodeAt(q.at, f)
             t == inode[i].time
  <1>1. Fields \subseteq DOMAIN q /\ q.at \in Scopes
    BY DEF IsRequest, Scopes, User, Plugin
  <1>2. i \in Nat /\ i <= Len(inode)
    BY <1>1, FilesFacts
  <1>3. p = [q EXCEPT !.fd = i, !.pc = "read", !.seen = t]
    BY DEF Open
  <1> HIDE DEF i, t
  <1>4. /\ DOMAIN p = DOMAIN q /\ p.pc = "read" /\ p.fd = i /\ p.seen = t
        /\ \A g \in Fields \ {"pc", "fd", "seen"} : p[g] = q[g]
    BY <1>1, <1>3 DEF Fields
  <1> HIDE DEF p
  <1>5. /\ p.op = q.op /\ p.scope = q.scope /\ p.at = q.at /\ p.first = q.first
        /\ p.missed = q.missed /\ p.table = q.table /\ p.entries = q.entries /\ p.data = q.data
        /\ p.gone = q.gone
    BY <1>4 DEF Fields
  <1>6. Busy(p) /\ Stage(p) /\ Listed(p)
    BY <1>4, <1>5 DEF IsRequest, Busy, Stage, Listed
  <1>7. p.at \in q.scope .. Plugin /\ p.fd \in Nat /\ p.first \in BOOLEAN /\ p.missed \in BOOLEAN
    BY <1>2, <1>4, <1>5 DEF IsRequest
  <1>8. IsRequest(p) /\ Same(q, p)
    BY <1>1, <1>4, <1>6, <1>7, GoesOn DEF Free
  <1> QED
    BY <1>2, <1>4, <1>5, <1>8 DEF p, i, t

\* To another scope, still at the start.
LEMMA ScopeFacts ==
  ASSUME NEW q, IsRequest(q), q.pc = "start", NEW s \in q.scope .. Plugin
  PROVE  LET p == [q EXCEPT !.at = s] IN
         /\ IsRequest(p) /\ Same(q, p) /\ p.pc = "start" /\ p.fd = q.fd /\ p.at = s
         /\ p.first = q.first /\ p.data = q.data /\ p.table = q.table /\ p.missed = q.missed
         /\ p.gone = 0
PROOF
  <1> DEFINE p == [q EXCEPT !.at = s]
  <1>1. Fields \subseteq DOMAIN q /\ Busy(q) /\ q.gone = 0
    BY DEF IsRequest, Busy, Replies
  <1>2. /\ DOMAIN p = DOMAIN q /\ p.at = s
        /\ \A g \in Fields \ {"at"} : p[g] = q[g]
    BY <1>1 DEF Fields
  <1> HIDE DEF p
  <1>3. /\ p.op = q.op /\ p.scope = q.scope /\ p.pc = q.pc /\ p.first = q.first
        /\ p.missed = q.missed /\ p.table = q.table /\ p.data = q.data /\ p.fd = q.fd /\ p.gone = q.gone
    BY <1>2 DEF Fields
  <1>4. Busy(p) /\ Stage(p) /\ Listed(p)
    BY <1>2, <1>3 DEF IsRequest, Busy, Stage, Listed
  <1>5. p.at \in q.scope .. Plugin /\ p.fd \in Nat /\ p.first \in BOOLEAN /\ p.missed \in BOOLEAN
    BY <1>2, <1>3 DEF IsRequest
  <1>6. IsRequest(p) /\ Same(q, p)
    BY <1>1, <1>2, <1>4, <1>5, GoesOn DEF Free
  <1> QED
    BY <1>1, <1>2, <1>3, <1>6 DEF p

LEMMA NameFacts ==
  ASSUME NEW q, IsRequest(q)
  PROVE  percentEncode(q.name) \in FileNames
  BY DEF IsRequest, FileNames

LEMMA GoneFacts ==
  ASSUME NEW q, IsRequest(q), q.pc # "done", q.pc # "entry" \/ q.op = "getFolder"
  PROVE  q.gone = 0
  BY DEF IsRequest, Replies, OnFolder, Writer

LEMMA getJsonForAggregationNoneAsyncMoves ==
  ASSUME TypeInv, NEW r \in Requests, Busy(req[r]), getJsonForAggregationNoneAsync(r)
  PROVE  \E p : Moves(r, p)
PROOF
  <1> DEFINE q == req[r]
             f == percentEncode(q.name)
  <1>1. IsRequest(q) /\ q.fd <= Len(inode) /\ Busy(q)
    BY Sent
  <1>2. f \in FileNames
    BY <1>1, NameFacts
  <1>3. q.op = "get" /\ q.gone = 0 /\ inode' = inode
    BY <1>1, GoneFacts DEF getJsonForAggregationNoneAsync, ReadOnly, IsRequest, Stage, OnFolder
  <1>4. /\ q.pc = "start" \/ q.pc = "read"
        /\ \/ InodeAt(q.at, f) # 0 /\ Set(r, Open(q, f))
           \/ /\ q.pc = "start" /\ getNextBroadestScope(q.at) # 0
              /\ Set(r, [q EXCEPT !.at = getNextBroadestScope(q.at)])
           \/ \E code, data : Set(r, Answer(q, code, data))
    BY DEF getJsonForAggregationNoneAsync
  <1>5. CASE InodeAt(q.at, f) # 0 /\ Set(r, Open(q, f))
    <2> DEFINE p == Open(q, f)
    <2>1. IsRequest(p) /\ Same(q, p) /\ p.fd <= Len(inode)
      BY <1>1, <1>2, <1>3, <1>5, OpenFacts
    <2> QED
      BY <1>3, <1>5, <2>1 DEF Moves, Set
  <1>6. CASE /\ q.pc = "start" /\ getNextBroadestScope(q.at) # 0
             /\ Set(r, [q EXCEPT !.at = getNextBroadestScope(q.at)])
    <2> DEFINE s == getNextBroadestScope(q.at)
               p == [q EXCEPT !.at = s]
    <2>1. s \in q.scope .. Plugin
      BY <1>1, <1>6 DEF getNextBroadestScope, IsRequest, Scopes, User, Plugin
    <2> HIDE DEF s
    <2>2. IsRequest(p) /\ Same(q, p) /\ p.fd = q.fd
      BY <1>1, <1>6, <2>1, ScopeFacts
    <2> QED
      BY <1>1, <1>3, <1>6, <2>2 DEF Moves, Set, s
  <1>7. CASE \E code, data : Set(r, Answer(q, code, data))
    <2>1. PICK code, data : Set(r, Answer(q, code, data))
      BY <1>7
    <2> DEFINE p == Answer(q, code, data)
    <2>2. IsRequest(p) /\ Same(q, p) /\ p.fd = q.fd
      BY <1>1, <1>3, AnswerFacts
    <2> QED
      BY <1>1, <1>3, <2>1, <2>2 DEF Moves, Set
  <1> QED
    BY <1>4, <1>5, <1>6, <1>7

LEMMA AnswerMoves ==
  ASSUME NEW r \in Requests, IsRequest(req[r]), Busy(req[r]), req[r].gone = 0,
         req[r].fd <= Len(inode), inode' = inode,
         NEW code, NEW data, Set(r, Answer(req[r], code, data))
  PROVE  Moves(r, Answer(req[r], code, data))
PROOF
  <1> DEFINE q == req[r]
             p == Answer(q, code, data)
  <1>1. IsRequest(p) /\ Same(q, p) /\ p.fd = q.fd
    BY AnswerFacts
  <1> QED
    BY <1>1 DEF Moves, Set

LEMMA getPathForAggregationNoneAsyncMoves ==
  ASSUME TypeInv, NEW r \in Requests, Busy(req[r]), getPathForAggregationNoneAsync(r)
  PROVE  \E p : Moves(r, p)
PROOF
  <1> DEFINE q == req[r]
             i == InodeAt(q.at, percentEncode(q.name))
  <1>1. IsRequest(q) /\ q.fd <= Len(inode) /\ Busy(q) /\ Fields \subseteq DOMAIN q
    BY Sent
  <1>2. q.op = "get" /\ q.gone = 0 /\ inode' = inode
    BY <1>1, GoneFacts DEF getPathForAggregationNoneAsync, ReadOnly, IsRequest, Stage, OnFolder
  <1>3. \/ \E code, data : Set(r, Answer(q, code, data))
        \/ Set(r, [q EXCEPT !.pc = "send"])
        \/ /\ getNextBroadestScope(q.at) # 0 /\ q.pc = "start"
           /\ Set(r, [q EXCEPT !.at = getNextBroadestScope(q.at)])
    BY <1>2 DEF getPathForAggregationNoneAsync
  <1>4. ASSUME NEW code, NEW data, Set(r, Answer(q, code, data)) PROVE \E p : Moves(r, p)
    BY <1>1, <1>2, <1>4, AnswerMoves
  <1>5. CASE Set(r, [q EXCEPT !.pc = "send"])
    <2> DEFINE p == [q EXCEPT !.pc = "send"]
    <2>1. req' = [req EXCEPT ![r] = p]
      BY <1>5 DEF Set
    <2> HIDE DEF q
    <2>2. DOMAIN p = DOMAIN q /\ p.pc = "send" /\ \A g \in Fields \ {"pc"} : p[g] = q[g]
      BY <1>1 DEF Fields
    <2> HIDE DEF p
    <2>3. /\ p.op = q.op /\ p.scope = q.scope /\ p.at = q.at /\ p.first = q.first
          /\ p.missed = q.missed /\ p.table = q.table /\ p.fd = q.fd
      BY <2>2 DEF Fields
    <2>4. Busy(p) /\ Stage(p) /\ Listed(p)
      BY <1>1, <1>2, <2>2, <2>3 DEF IsRequest, Busy, Stage, Listed
    <2>5. p.at \in q.scope .. Plugin /\ p.fd \in Nat /\ p.first \in BOOLEAN /\ p.missed \in BOOLEAN
      BY <1>1, <2>3 DEF IsRequest
    <2>6. IsRequest(p) /\ Same(q, p)
      BY <1>1, <1>2, <2>2, <2>4, <2>5, GoesOn DEF Free
    <2> QED
      BY <1>1, <1>2, <2>1, <2>3, <2>6 DEF Moves, q
  <1>6. CASE /\ getNextBroadestScope(q.at) # 0 /\ q.pc = "start"
             /\ Set(r, [q EXCEPT !.at = getNextBroadestScope(q.at)])
    <2> DEFINE s == getNextBroadestScope(q.at)
               p == [q EXCEPT !.at = s]
    <2>1. s \in q.scope .. Plugin
      BY <1>1, <1>6 DEF getNextBroadestScope, IsRequest, Scopes, User, Plugin
    <2> HIDE DEF s
    <2>2. IsRequest(p) /\ Same(q, p) /\ p.fd = q.fd
      BY <1>1, <1>6, <2>1, ScopeFacts
    <2> QED
      BY <1>1, <1>2, <1>6, <2>2 DEF Moves, Set, s
  <1> QED
    BY <1>3, <1>4, <1>5, <1>6

LEMMA NarrowerFacts ==
  ASSUME NEW q, IsRequest(q), Busy(q), q.gone = 0, q.at # q.scope,
         NEW first \in BOOLEAN, NEW data
  PROVE  LET p == Narrower(q, first, data) IN
         /\ IsRequest(p) /\ Same(q, p) /\ p.pc = "start" /\ p.fd = q.fd /\ p.at = q.at - 1
         /\ p.first = first /\ p.data = data /\ p.table = q.table /\ p.missed = q.missed
         /\ p.gone = 0
PROOF
  <1> DEFINE p == Narrower(q, first, data)
             s == getNextNarrowestScope(q.at)
  <1>1. Fields \subseteq DOMAIN q
    BY DEF IsRequest
  <1>2. s \in q.scope .. Plugin /\ s = q.at - 1
    BY DEF IsRequest, getNextNarrowestScope, Scopes, User, Plugin
  <1>3. p = [q EXCEPT !.pc = "start", !.at = s, !.first = first, !.data = data]
    BY DEF Narrower
  <1> HIDE DEF s
  <1>4. /\ DOMAIN p = DOMAIN q /\ p.pc = "start" /\ p.at = s /\ p.first = first /\ p.data = data
        /\ \A g \in Fields \ {"pc", "at", "first", "data"} : p[g] = q[g]
    BY <1>1, <1>3 DEF Fields
  <1> HIDE DEF p
  <1>5. /\ p.op = q.op /\ p.scope = q.scope /\ p.missed = q.missed /\ p.table = q.table
        /\ p.fd = q.fd /\ p.gone = q.gone
    BY <1>4 DEF Fields
  <1>6. Busy(p) /\ Stage(p) /\ Listed(p)
    BY <1>4, <1>5 DEF IsRequest, Busy, Stage, Listed
  <1>7. p.at \in q.scope .. Plugin /\ p.fd \in Nat /\ p.first \in BOOLEAN /\ p.missed \in BOOLEAN
    BY <1>2, <1>4, <1>5 DEF IsRequest
  <1>8. IsRequest(p) /\ Same(q, p)
    BY <1>1, <1>4, <1>6, <1>7, GoesOn DEF Free
  <1> QED
    BY <1>2, <1>4, <1>5, <1>8 DEF p

\* What Aggregated may do.
LEMMA AggregatedCases ==
  ASSUME NEW q, IsRequest(q), NEW data
  PROVE  LET first == q.first /\ data = NotFound
             all == IF data = NotFound \/ (data = NoData /\ ~q.first) THEN q.data
                    ELSE IF q.first THEN data ELSE overrideJsonProperties(q.data, data) IN
         \/ /\ data # NotFound /\ ~q.first /\ data # NoData /\ q.data = NoData
            /\ Aggregated(q, data) = Thrown(q)
         \/ /\ ~(data # NotFound /\ ~q.first /\ data # NoData /\ q.data = NoData)
            /\ \/ q.at # q.scope /\ Aggregated(q, data) = Narrower(q, first, all)
               \/ q.at = q.scope /\ first /\ Aggregated(q, data) = Answer(q, 204, NotFound)
               \/ q.at = q.scope /\ ~first /\ Aggregated(q, data) = Answer(q, 200, all)
  BY DEF Aggregated, EndScope

LEMMA AggregatedFacts ==
  ASSUME NEW q, IsRequest(q), Busy(q), q.gone = 0, q.op = "get", NEW data
  PROVE  LET p == Aggregated(q, data) IN IsRequest(p) /\ Same(q, p) /\ p.fd = q.fd
PROOF
  <1> DEFINE first == q.first /\ data = NotFound
             all == IF data = NotFound \/ (data = NoData /\ ~q.first) THEN q.data
                    ELSE IF q.first THEN data ELSE overrideJsonProperties(q.data, data)
             p == Aggregated(q, data)
  <1>1. \/ p = Thrown(q)
        \/ q.at # q.scope /\ p = Narrower(q, first, all)
        \/ p = Answer(q, 204, NotFound)
        \/ p = Answer(q, 200, all)
    BY AggregatedCases
  <1>2. first \in BOOLEAN
    OBVIOUS
  <1> HIDE DEF p, first, all
  <1>3. ASSUME p = Thrown(q) PROVE IsRequest(p) /\ Same(q, p) /\ p.fd = q.fd
    BY <1>3, ThrownFacts
  <1>4. ASSUME q.at # q.scope, p = Narrower(q, first, all) PROVE IsRequest(p) /\ Same(q, p) /\ p.fd = q.fd
    BY <1>2, <1>4, NarrowerFacts
  <1>5. ASSUME p = Answer(q, 204, NotFound) PROVE IsRequest(p) /\ Same(q, p) /\ p.fd = q.fd
    BY <1>5, AnswerFacts
  <1>6. ASSUME p = Answer(q, 200, all) PROVE IsRequest(p) /\ Same(q, p) /\ p.fd = q.fd
    BY <1>6, AnswerFacts
  <1>7. IsRequest(p) /\ Same(q, p) /\ p.fd = q.fd
    BY <1>1, <1>3, <1>4, <1>5, <1>6
  <1> QED
    BY <1>7 DEF p

LEMMA getAggregatedJsonAsyncMoves ==
  ASSUME TypeInv, NEW r \in Requests, Busy(req[r]), getAggregatedJsonAsync(r)
  PROVE  \E p : Moves(r, p)
PROOF
  <1> DEFINE q == req[r]
             f == percentEncode(q.name)
  <1>1. IsRequest(q) /\ q.fd <= Len(inode) /\ Busy(q) /\ f \in FileNames
    BY Sent, NameFacts
  <1>2. q.op = "get" /\ q.gone = 0 /\ inode' = inode
    BY <1>1, GoneFacts DEF getAggregatedJsonAsync, ReadOnly, IsRequest, Stage, OnFolder
  <1>3. \/ InodeAt(q.at, f) # 0 /\ Set(r, Open(q, f))
        \/ \E data : Set(r, Aggregated(q, data))
    BY DEF getAggregatedJsonAsync
  <1>4. CASE InodeAt(q.at, f) # 0 /\ Set(r, Open(q, f))
    <2> DEFINE p == Open(q, f)
    <2>1. IsRequest(p) /\ Same(q, p) /\ p.fd <= Len(inode)
      BY <1>1, <1>2, <1>4, OpenFacts
    <2> QED
      BY <1>2, <1>4, <2>1 DEF Moves, Set
  <1>5. ASSUME NEW data, Set(r, Aggregated(q, data)) PROVE \E p : Moves(r, p)
    <2> DEFINE p == Aggregated(q, data)
    <2>1. IsRequest(p) /\ Same(q, p) /\ p.fd = q.fd
      BY <1>1, <1>2, AggregatedFacts
    <2> QED
      BY <1>1, <1>2, <1>5, <2>1 DEF Moves, Set
  <1> QED
    BY <1>3, <1>4, <1>5

LEMMA getAllowedPluginsMoves ==
  ASSUME TypeInv, NEW r \in Requests, Busy(req[r]), getAllowedPlugins(r)
  PROVE  \E p : Moves(r, p)
PROOF
  <1> DEFINE q == req[r]
  <1>1. IsRequest(q) /\ q.fd <= Len(inode) /\ Busy(q)
    BY Sent
  <1>2. q.op = "allowed" /\ q.gone = 0 /\ inode' = inode
    BY <1>1, GoneFacts DEF getAllowedPlugins, ReadOnly
  <1>3. Set(r, Thrown(q)) \/ \E code, data : Set(r, Answer(q, code, data))
    BY DEF getAllowedPlugins
  <1>4. CASE Set(r, Thrown(q))
    <2> DEFINE p == Thrown(q)
    <2>1. IsRequest(p) /\ Same(q, p) /\ p.fd = q.fd
      BY <1>1, <1>2, ThrownFacts
    <2> QED
      BY <1>1, <1>2, <1>4, <2>1 DEF Moves, Set
  <1>5. ASSUME NEW code, NEW data, Set(r, Answer(q, code, data)) PROVE \E p : Moves(r, p)
    BY <1>1, <1>2, <1>5, AnswerMoves
  <1> QED
    BY <1>3, <1>4, <1>5

LEMMA getFileListingMoves ==
  ASSUME TypeInv, NEW r \in Requests, Busy(req[r]), getFileListing(r)
  PROVE  \E p : Moves(r, p)
PROOF
  <1> DEFINE q == req[r]
  <1>1. IsRequest(q) /\ q.fd <= Len(inode) /\ Busy(q)
    BY Sent
  <1>2. q.gone = 0 /\ inode' = inode
    BY <1>1, GoneFacts DEF getFileListing, ReadOnly
  <1>3. \E code, data : Set(r, Answer(q, code, data))
    BY DEF getFileListing
  <1> QED
    BY <1>1, <1>2, <1>3, AnswerMoves

\* The listing of one more directory.
Seen(q) ==
  LET here == {f \in FileNames : InodeAt(q.at, f) # 0}
      before(f) == IF f \in DOMAIN q.table THEN q.table[f] ELSE {}
  IN  [f \in DOMAIN q.table \cup here |-> before(f) \cup (IF f \in here THEN {q.at} ELSE {})]

LEMMA SeenFacts ==
  ASSUME NEW q, IsRequest(q), q.op = "getFolder"
  PROVE  /\ DOMAIN Seen(q) \subseteq FileNames
         /\ \A f \in DOMAIN Seen(q) : Seen(q)[f] # {} /\ Seen(q)[f] \subseteq q.scope .. Plugin
PROOF
  <1> DEFINE here == {f \in FileNames : InodeAt(q.at, f) # 0}
  <1>1. q.at \in q.scope .. Plugin
    BY DEF IsRequest
  <1>2. \A f \in DOMAIN q.table : q.table[f] # {} /\ q.table[f] \subseteq q.scope .. Plugin
    BY DEF IsRequest, Listed
  <1>3. DOMAIN Seen(q) = DOMAIN q.table \cup here
    BY DEF Seen
  <1>s. DOMAIN Seen(q) \subseteq FileNames
    BY <1>3 DEF IsRequest, Listed
  <1>4. ASSUME NEW f \in DOMAIN Seen(q)
        PROVE  Seen(q)[f] = (IF f \in DOMAIN q.table THEN q.table[f] ELSE {})
                             \cup (IF f \in here THEN {q.at} ELSE {})
    BY <1>3, <1>4 DEF Seen
  <1> HIDE DEF here
  <1>5. ASSUME NEW f \in DOMAIN Seen(q)
        PROVE  Seen(q)[f] # {} /\ Seen(q)[f] \subseteq q.scope .. Plugin
    <2>1. f \in DOMAIN q.table \/ f \in here
      BY <1>3
    <2>2. CASE f \in DOMAIN q.table
      BY <1>1, <1>2, <1>4, <2>2
    <2>3. CASE f \notin DOMAIN q.table
      BY <1>1, <1>4, <2>1, <2>3
    <2> QED
      BY <2>2, <2>3
  <1> QED
    BY <1>5, <1>s

LEMMA getFileListingAsyncCases ==
  ASSUME NEW r \in Requests, getFileListingAsync(r)
  PROVE  LET q == req[r] IN
         /\ q.op = "getFolder" /\ q.pc = "start" /\ ReadOnly
         /\ \/ policy = "binary" /\ Set(r, Answer(q, 400, NoData))
            \/ /\ policy # "binary" /\ q.at # q.scope
               /\ Set(r, [Narrower(q, TRUE, NoData) EXCEPT !.table = Seen(q)])
            \/ /\ policy # "binary" /\ q.at = q.scope /\ DOMAIN Seen(q) = {}
               /\ Set(r, Answer(q, 204, NotFound))
            \/ /\ policy # "binary" /\ q.at = q.scope /\ DOMAIN Seen(q) # {}
               /\ Set(r, [q EXCEPT !.table = Seen(q), !.entries = DOMAIN Seen(q),
                                   !.pc = "entry", !.data = <<>>])
  BY DEF getFileListingAsync, Seen

\* The listing goes to the next directory, or is complete.
LEMMA TableFacts ==
  ASSUME NEW q, IsRequest(q), q.op = "getFolder", q.pc = "start", q.at # q.scope
  PROVE  LET p == [Narrower(q, TRUE, NoData) EXCEPT !.table = Seen(q)] IN
         /\ IsRequest(p) /\ Same(q, p) /\ p.fd = q.fd /\ p.pc = "start" /\ p.at = q.at - 1
         /\ p.table = Seen(q) /\ p.missed = q.missed
PROOF
  <1> DEFINE n == Narrower(q, TRUE, NoData)
             t == Seen(q)
             p == [n EXCEPT !.table = t]
  <1>1. Busy(q) /\ q.gone = 0
    BY GoneFacts DEF Busy
  <1>2. /\ IsRequest(n) /\ Same(q, n) /\ n.fd = q.fd /\ n.pc = "start" /\ n.at = q.at - 1
        /\ n.missed = q.missed /\ n.gone = 0
    <2> DEFINE b == TRUE
    <2>1. b \in BOOLEAN
      OBVIOUS
    <2> HIDE DEF b
    <2>2. LET m == Narrower(q, b, NoData) IN
          /\ IsRequest(m) /\ Same(q, m) /\ m.fd = q.fd /\ m.pc = "start" /\ m.at = q.at - 1
          /\ m.missed = q.missed /\ m.gone = 0
      BY <1>1, <2>1, NarrowerFacts
    <2> QED
      BY <2>2 DEF b
  <1>3. DOMAIN t \subseteq FileNames /\ \A f \in DOMAIN t : t[f] # {} /\ t[f] \subseteq q.scope .. Plugin
    BY SeenFacts
  <1> HIDE DEF n, t
  <1>4. Fields \subseteq DOMAIN n
    BY <1>2 DEF IsRequest
  <1>5. DOMAIN p = DOMAIN n /\ p.table = t /\ \A g \in Fields \ {"table"} : p[g] = n[g]
    BY <1>4 DEF Fields
  <1> HIDE DEF p
  <1>6. /\ p.op = n.op /\ p.scope = n.scope /\ p.pc = n.pc /\ p.first = n.first /\ p.at = n.at
        /\ p.missed = n.missed /\ p.fd = n.fd
    BY <1>5 DEF Fields
  <1>7. n.scope = q.scope /\ Busy(n)
    BY <1>2 DEF Same, Busy
  <1>8. Busy(p) /\ Stage(p) /\ Listed(p)
    BY <1>2, <1>3, <1>5, <1>6, <1>7 DEF IsRequest, Busy, Stage, Listed
  <1>9. p.at \in n.scope .. Plugin /\ p.fd \in Nat /\ p.first \in BOOLEAN /\ p.missed \in BOOLEAN
    BY <1>2, <1>6 DEF IsRequest
  <1>10. IsRequest(p) /\ Same(n, p)
    BY <1>2, <1>5, <1>7, <1>8, <1>9, GoesOn DEF Free
  <1> QED
    BY <1>2, <1>5, <1>6, <1>10 DEF Same, p, n, t

LEMMA EntriesFacts ==
  ASSUME NEW q, IsRequest(q), q.op = "getFolder", q.pc = "start", DOMAIN Seen(q) # {}
  PROVE  LET p == [q EXCEPT !.table = Seen(q), !.entries = DOMAIN Seen(q),
                            !.pc = "entry", !.data = <<>>] IN
         /\ IsRequest(p) /\ Same(q, p) /\ p.fd = q.fd /\ p.pc = "entry" /\ p.table = Seen(q)
         /\ p.entries = DOMAIN Seen(q) /\ p.data = <<>> /\ p.missed = q.missed
PROOF
  <1> DEFINE t == Seen(q)
             e == DOMAIN Seen(q)
             p == [q EXCEPT !.table = t, !.entries = e, !.pc = "entry", !.data = <<>>]
  <1>1. Busy(q) /\ q.gone = 0 /\ Fields \subseteq DOMAIN q
    BY GoneFacts DEF Busy, IsRequest
  <1>2. e = DOMAIN t /\ e # {} /\ e \subseteq FileNames /\ \A f \in DOMAIN t : t[f] # {} /\ t[f] \subseteq q.scope .. Plugin
    BY SeenFacts
  <1> HIDE DEF t, e
  <1>3. /\ DOMAIN p = DOMAIN q /\ p.table = t /\ p.entries = e /\ p.pc = "entry" /\ p.data = <<>>
        /\ \A g \in Fields \ {"table", "entries", "pc", "data"} : p[g] = q[g]
    BY <1>1 DEF Fields
  <1> HIDE DEF p
  <1>4. /\ p.op = q.op /\ p.scope = q.scope /\ p.first = q.first /\ p.at = q.at
        /\ p.missed = q.missed /\ p.fd = q.fd
    BY <1>3 DEF Fields
  <1>5. Busy(p) /\ Stage(p) /\ Listed(p)
    BY <1>2, <1>3, <1>4 DEF IsRequest, Busy, Stage, Listed, OnFolder
  <1>6. p.at \in q.scope .. Plugin /\ p.fd \in Nat /\ p.first \in BOOLEAN /\ p.missed \in BOOLEAN
    BY <1>4 DEF IsRequest
  <1>7. IsRequest(p) /\ Same(q, p)
    BY <1>1, <1>3, <1>5, <1>6, GoesOn DEF Free
  <1> QED
    BY <1>3, <1>4, <1>7 DEF p, t, e

LEMMA getFileListingAsyncMoves ==
  ASSUME TypeInv, NEW r \in Requests, Busy(req[r]), getFileListingAsync(r)
  PROVE  \E p : Moves(r, p)
PROOF
  <1> DEFINE q == req[r]
  <1>1. IsRequest(q) /\ q.fd <= Len(inode) /\ Busy(q)
    BY Sent
  <1>2. q.op = "getFolder" /\ q.pc = "start" /\ q.gone = 0 /\ inode' = inode
    BY <1>1, getFileListingAsyncCases, GoneFacts DEF ReadOnly
  <1>3. \/ \E code, data : Set(r, Answer(q, code, data))
        \/ q.at # q.scope /\ Set(r, [Narrower(q, TRUE, NoData) EXCEPT !.table = Seen(q)])
        \/ /\ DOMAIN Seen(q) # {}
           /\ Set(r, [q EXCEPT !.table = Seen(q), !.entries = DOMAIN Seen(q),
                               !.pc = "entry", !.data = <<>>])
    BY getFileListingAsyncCases
  <1>4. ASSUME NEW code, NEW data, Set(r, Answer(q, code, data)) PROVE \E p : Moves(r, p)
    BY <1>1, <1>2, <1>4, AnswerMoves
  <1>5. CASE q.at # q.scope /\ Set(r, [Narrower(q, TRUE, NoData) EXCEPT !.table = Seen(q)])
    <2> DEFINE p == [Narrower(q, TRUE, NoData) EXCEPT !.table = Seen(q)]
    <2>1. IsRequest(p) /\ Same(q, p) /\ p.fd = q.fd
      BY <1>1, <1>2, <1>5, TableFacts
    <2> QED
      BY <1>1, <1>2, <1>5, <2>1 DEF Moves, Set
  <1>6. CASE /\ DOMAIN Seen(q) # {}
             /\ Set(r, [q EXCEPT !.table = Seen(q), !.entries = DOMAIN Seen(q),
                                 !.pc = "entry", !.data = <<>>])
    <2> DEFINE p == [q EXCEPT !.table = Seen(q), !.entries = DOMAIN Seen(q),
                              !.pc = "entry", !.data = <<>>]
    <2>1. IsRequest(p) /\ Same(q, p) /\ p.fd = q.fd
      BY <1>1, <1>2, <1>6, EntriesFacts
    <2> QED
      BY <1>1, <1>2, <1>6, <2>1 DEF Moves, Set
  <1> QED
    BY <1>3, <1>4, <1>5, <1>6

\* A request that has not been answered is answered once.
LEMMA Ends ==
  ASSUME NEW q, IsRequest(q), Busy(q), q.gone = 0, NEW p, DOMAIN p = DOMAIN q,
         \A f \in Fields \ (Free \cup {"answers"}) : p[f] = q[f],
         p.pc = "done", NEW x, p.answers = Append(q.answers, x),
         p.at \in q.scope .. Plugin, p.fd \in Nat, p.first \in BOOLEAN, p.missed \in BOOLEAN,
         Listed(p)
  PROVE  /\ IsRequest(p) /\ Same(q, p) /\ p.answers[1] = x /\ Len(p.answers) = 1 /\ ~p.thrown
         /\ p.gone = 0
PROOF
  <1>1. /\ p.op = q.op /\ p.scope = q.scope /\ p.name = q.name /\ p.body = q.body
        /\ p.lastmod = q.lastmod /\ p.quiet = q.quiet /\ p.wanted = q.wanted
        /\ p.gone = q.gone /\ p.thrown = q.thrown
    BY DEF Fields, Free
  <1>2. q.answers \in Seq({Failure}) /\ Len(q.answers) = 0 /\ ~q.thrown
    BY DEF IsRequest, Replies
  <1>3. q.answers = <<>>
    BY <1>2, EmptySeq
  <1>4. Len(p.answers) = 1 /\ p.answers[1] = x
    BY <1>2, <1>3, AppendFacts
  <1>5. Replies(p) /\ Stage(p)
    BY <1>1, <1>2, <1>4 DEF Replies, Busy, Stage
  <1> QED
    BY <1>1, <1>2, <1>4, <1>5 DEF IsRequest, Same

LEMMA CollectFacts ==
  ASSUME NEW q, IsRequest(q), q.op = "getFolder", q.pc \in {"entry", "read"}, NEW f, NEW data
  PROVE  LET p == Collect(q, f, data) IN
         /\ IsRequest(p) /\ Same(q, p) /\ p.fd = q.fd
         /\ p.pc = "entry" \/ (p.pc = "done" /\ ~p.thrown)
PROOF
  <1> DEFINE names == DOMAIN q.data \cup (IF data = NotFound THEN {} ELSE {f})
             d == [g \in names |-> IF g = f THEN data ELSE q.data[g]]
             e == q.entries \ {f}
             all == [q EXCEPT !.entries = e, !.pc = "entry", !.data = d]
             p == Collect(q, f, data)
  <1>1. Busy(q) /\ q.gone = 0 /\ Fields \subseteq DOMAIN q
    BY GoneFacts DEF Busy, IsRequest
  <1>2. p = IF all.entries = {} THEN Answer(all, 200, all.data) ELSE all
    BY DEF Collect
  <1>3. e \subseteq q.entries
    OBVIOUS
  <1> HIDE DEF d, e
  <1>4. /\ DOMAIN all = DOMAIN q /\ all.entries = e /\ all.pc = "entry" /\ all.data = d
        /\ \A g \in Fields \ {"entries", "pc", "data"} : all[g] = q[g]
    BY <1>1 DEF Fields
  <1> HIDE DEF all
  <1>5. /\ all.op = q.op /\ all.scope = q.scope /\ all.first = q.first /\ all.at = q.at
        /\ all.missed = q.missed /\ all.fd = q.fd /\ all.table = q.table /\ all.answers = q.answers
    BY <1>4 DEF Fields
  <1>6. all.at \in q.scope .. Plugin /\ all.fd \in Nat /\ all.first \in BOOLEAN /\ all.missed \in BOOLEAN
    BY <1>5 DEF IsRequest
  <1>7. CASE e # {}
    <2>1. p = all
      BY <1>2, <1>4, <1>7
    <2>2. Busy(all) /\ Stage(all) /\ Listed(all)
      BY <1>3, <1>4, <1>5, <1>7 DEF IsRequest, Busy, Stage, Listed, OnFolder
    <2>3. IsRequest(all) /\ Same(q, all)
      BY <1>1, <1>4, <1>6, <2>2, GoesOn DEF Free
    <2> QED
      BY <1>4, <1>5, <1>7, <2>1, <2>3 DEF p, d, e
  <1>8. CASE e = {}
    <2> DEFINE x == [code |-> 200, data |-> d]
    <2>1. p = [all EXCEPT !.pc = "done", !.answers = Append(all.answers, x)]
      BY <1>2, <1>4, <1>8 DEF Answer
    <2> DEFINE a == Append(all.answers, x)
    <2>2. a = Append(q.answers, x)
      BY <1>5
    <2> HIDE DEF a, x
    <2>3. Fields \subseteq DOMAIN all
      BY <1>1, <1>4
    <2>4. /\ DOMAIN p = DOMAIN all /\ p.pc = "done" /\ p.answers = a
          /\ \A g \in Fields \ {"pc", "answers"} : p[g] = all[g]
      BY <2>1, <2>3 DEF Fields, a
    <2> HIDE DEF p
    <2>5. /\ p.op = q.op /\ p.scope = q.scope /\ p.first = q.first /\ p.at = q.at
          /\ p.missed = q.missed /\ p.fd = q.fd /\ p.table = q.table /\ p.entries = e /\ p.data = d
      BY <1>4, <1>5, <2>4 DEF Fields
    <2>6. \A g \in Fields \ (Free \cup {"answers"}) : p[g] = q[g]
      BY <1>4, <2>4 DEF Fields, Free
    <2>7. Listed(p)
      BY <2>4, <2>5 DEF Listed, IsRequest
    <2>8. p.at \in q.scope .. Plugin /\ p.fd \in Nat /\ p.first \in BOOLEAN /\ p.missed \in BOOLEAN
      BY <1>5, <1>6, <2>5
    <2>9. /\ IsRequest(p) /\ Same(q, p) /\ p.answers[1] = x /\ Len(p.answers) = 1 /\ ~p.thrown
      <3>1. DOMAIN p = DOMAIN q /\ p.pc = "done" /\ p.answers = Append(q.answers, x)
        BY <1>4, <2>2, <2>4
      <3> QED
        BY <1>1, <2>6, <2>7, <2>8, <3>1, Ends
    <2> QED
      BY <1>8, <2>4, <2>5, <2>9 DEF p, d, e, x
  <1> QED
    BY <1>7, <1>8

\* The file to be visited next.
Visited(q) == CHOOSE g \in q.entries : TRUE

LEMMA NearestFacts ==
  ASSUME NEW S, S \subseteq Scopes, S # {}
  PROVE  Nearest(S) \in S /\ \A t \in S : Nearest(S) <= t
PROOF
  <1>1. \E s \in S : \A t \in S : s <= t
    <2>1. S \subseteq 1 .. 5
      BY DEF Scopes, User, Plugin
    <2>2. CASE 1 \in S
      BY <2>1, <2>2
    <2>3. CASE 1 \notin S /\ 2 \in S
      <3>1. \A t \in S : 2 <= t
        BY <2>1, <2>3
      <3> QED
        BY <2>3, <3>1
    <2>4. CASE 1 \notin S /\ 2 \notin S /\ 3 \in S
      <3>1. \A t \in S : 3 <= t
        BY <2>1, <2>4
      <3> QED
        BY <2>4, <3>1
    <2>5. CASE 1 \notin S /\ 2 \notin S /\ 3 \notin S /\ 4 \in S
      <3>1. \A t \in S : 4 <= t
        BY <2>1, <2>5
      <3> QED
        BY <2>5, <3>1
    <2>6. CASE 1 \notin S /\ 2 \notin S /\ 3 \notin S /\ 4 \notin S
      <3>1. \A t \in S : t = 5
        BY <2>1, <2>6
      <3> QED
        BY <3>1
    <2> QED
      BY <2>2, <2>3, <2>4, <2>5, <2>6
  <1> QED
    BY <1>1 DEF Nearest

\* The visitor goes to the narrowest scope a file was seen in.
LEMMA VisitFacts ==
  ASSUME NEW q, IsRequest(q), q.op = "getFolder", q.pc = "entry"
  PROVE  LET s == Nearest(q.table[Visited(q)])
             p == [q EXCEPT !.at = s] IN
         /\ Visited(q) \in q.entries /\ Visited(q) \in FileNames /\ s \in q.table[Visited(q)] /\ s \in q.scope .. Plugin
         /\ IsRequest(p) /\ Same(q, p) /\ p.pc = "entry" /\ p.at = s /\ p.fd = q.fd
         /\ p.data = q.data /\ p.entries = q.entries /\ p.table = q.table /\ p.gone = 0
         /\ p.missed = q.missed
PROOF
  <1> DEFINE f == Visited(q)
             s == Nearest(q.table[f])
             p == [q EXCEPT !.at = s]
  <1>1. Busy(q) /\ q.gone = 0 /\ Fields \subseteq DOMAIN q
    BY GoneFacts DEF Busy, IsRequest
  <1>2. f \in q.entries /\ f \in DOMAIN q.table /\ f \in FileNames
    BY DEF IsRequest, Listed, Visited
  <1>3. q.table[f] # {} /\ q.table[f] \subseteq q.scope .. Plugin
    BY <1>2 DEF IsRequest, Listed
  <1>4. q.table[f] \subseteq Scopes
    BY <1>3 DEF IsRequest, Scopes, User, Plugin
  <1>5. s \in q.table[f] /\ s \in q.scope .. Plugin
    BY <1>3, <1>4, NearestFacts
  <1> HIDE DEF f, s
  <1>6. DOMAIN p = DOMAIN q /\ p.at = s /\ \A g \in Fields \ {"at"} : p[g] = q[g]
    BY <1>1 DEF Fields
  <1> HIDE DEF p
  <1>7. /\ p.op = q.op /\ p.scope = q.scope /\ p.pc = q.pc /\ p.first = q.first /\ p.fd = q.fd
        /\ p.missed = q.missed /\ p.table = q.table /\ p.entries = q.entries /\ p.data = q.data
        /\ p.gone = q.gone
    BY <1>6 DEF Fields
  <1>8. Busy(p) /\ Stage(p) /\ Listed(p)
    BY <1>7 DEF IsRequest, Busy, Stage, Listed, OnFolder
  <1>9. p.at \in q.scope .. Plugin /\ p.fd \in Nat /\ p.first \in BOOLEAN /\ p.missed \in BOOLEAN
    BY <1>5, <1>6, <1>7 DEF IsRequest
  <1>10. IsRequest(p) /\ Same(q, p)
    BY <1>1, <1>6, <1>8, <1>9, GoesOn DEF Free
  <1> QED
    BY <1>1, <1>2, <1>5, <1>6, <1>7, <1>10 DEF p, s, f

LEMMA configFileVisitorAsyncCases ==
  ASSUME NEW r \in Requests, configFileVisitorAsync(r)
  PROVE  LET q == req[r]
             f == Visited(q)
             there == [q EXCEPT !.at = Nearest(q.table[f])] IN
         /\ q.op = "getFolder" /\ policy = "none" /\ ReadOnly
         /\ \/ /\ q.pc = "entry" /\ InodeAt(there.at, f) = 0 /\ Set(r, Collect(q, f, NotFound))
            \/ /\ q.pc = "entry" /\ InodeAt(there.at, f) # 0 /\ Set(r, Open(there, f))
            \/ /\ q.pc = "read" /\ \E data \in Readings(q) : Set(r, Collect(q, f, data))
  BY DEF configFileVisitorAsync, Visited


LEMMA configFileVisitorAsyncMoves ==
  ASSUME TypeInv, NEW r \in Requests, Busy(req[r]), configFileVisitorAsync(r)
  PROVE  \E p : Moves(r, p)
PROOF
  <1> DEFINE q == req[r]
             f == Visited(q)
             there == [q EXCEPT !.at = Nearest(q.table[f])]
  <1>1. IsRequest(q) /\ q.fd <= Len(inode) /\ Busy(q)
    BY Sent
  <1>2. q.op = "getFolder" /\ inode' = inode
    BY configFileVisitorAsyncCases DEF ReadOnly
  <1>3. \/ q.pc = "entry" /\ InodeAt(there.at, f) # 0 /\ Set(r, Open(there, f))
        \/ q.pc \in {"entry", "read"} /\ \E data : Set(r, Collect(q, f, data))
    BY configFileVisitorAsyncCases
  <1>4. CASE q.pc = "entry" /\ InodeAt(there.at, f) # 0 /\ Set(r, Open(there, f))
    <2> DEFINE p == Open(there, f)
    <2>1. /\ IsRequest(there) /\ Same(q, there) /\ there.pc = "entry" /\ there.gone = 0
          /\ f \in FileNames
      BY <1>1, <1>2, <1>4, VisitFacts
    <2>2. there.op = "getFolder" /\ Busy(there)
      BY <1>2, <2>1 DEF Same, Busy
    <2> HIDE DEF there
    <2>3. IsRequest(p) /\ Same(there, p) /\ p.fd <= Len(inode)
      BY <1>4, <2>1, <2>2, OpenFacts
    <2>4. Same(q, p)
      BY <2>1, <2>3 DEF Same
    <2> QED
      BY <1>2, <1>4, <2>3, <2>4 DEF Moves, Set
  <1>5. ASSUME NEW data, q.pc \in {"entry", "read"}, Set(r, Collect(q, f, data)) PROVE \E p : Moves(r, p)
    <2> DEFINE g == f
    <2>1. req' = [req EXCEPT ![r] = Collect(q, g, data)] /\ q.pc \in {"entry", "read"}
      BY <1>5 DEF Set
    <2> HIDE DEF q, g
    <2>2. LET c == Collect(q, g, data) IN IsRequest(c) /\ Same(q, c) /\ c.fd = q.fd
      BY <1>1, <1>2, <2>1, CollectFacts
    <2> QED
      BY <1>1, <1>2, <2>1, <2>2 DEF Moves, q
  <1> QED
    BY <1>3, <1>4, <1>5

LEMMA configFileOverrideVisitorMoves ==
  ASSUME TypeInv, NEW r \in Requests, Busy(req[r]), configFileOverrideVisitor(r)
  PROVE  \E p : Moves(r, p)
PROOF
  <1> DEFINE q == req[r]
  <1>1. IsRequest(q) /\ q.fd <= Len(inode) /\ Busy(q)
    BY Sent
  <1>2. q.gone = 0 /\ inode' = inode
    BY <1>1, GoneFacts DEF configFileOverrideVisitor, ReadOnly
  <1>3. \E code, data : Set(r, Answer(q, code, data))
    BY DEF configFileOverrideVisitor
  <1> QED
    BY <1>1, <1>2, <1>3, AnswerMoves

LEMMA putDoneMoves ==
  ASSUME TypeInv, NEW r \in Requests, Busy(req[r]), putDone(r)
  PROVE  \E p : Moves(r, p) /\ p.pc = "done" /\ p.missed = req[r].missed
PROOF
  <1> DEFINE q == req[r]
  <1>1. IsRequest(q) /\ q.fd <= Len(inode) /\ Busy(q)
    BY Sent
  <1>2. q.gone = 0 /\ inode' = inode
    BY <1>1, GoneFacts DEF putDone, ReadOnly
  <1> DEFINE data == inode[q.fd].time
  <1>3. Set(r, Answer(q, 201, data))
    BY DEF putDone
  <1> HIDE DEF data
  <1>4. Moves(r, Answer(q, 201, data))
    BY <1>1, <1>2, <1>3, AnswerMoves
  <1> QED
    BY <1>1, <1>2, <1>4, AnswerFacts

\* On to the next stage.
LEMMA PcFacts ==
  ASSUME NEW q, IsRequest(q), Busy(q), q.gone = 0, NEW c \in {"checked", "stat", "unlink"},
         c = "stat" => q.op = "put",
         c = "checked" => q.op \in {"put", "delete", "deleteTree"},
         c = "unlink" => q.op = "delete"
  PROVE  LET p == [q EXCEPT !.pc = c] IN
         /\ IsRequest(p) /\ Same(q, p) /\ p.pc = c /\ p.fd = q.fd /\ p.missed = q.missed /\ p.gone = 0
PROOF
  <1> DEFINE p == [q EXCEPT !.pc = c]
  <1>1. Fields \subseteq DOMAIN q
    BY DEF IsRequest
  <1>2. DOMAIN p = DOMAIN q /\ p.pc = c /\ \A g \in Fields \ {"pc"} : p[g] = q[g]
    BY <1>1 DEF Fields
  <1> HIDE DEF p
  <1>3. /\ p.op = q.op /\ p.scope = q.scope /\ p.at = q.at /\ p.first = q.first /\ p.fd = q.fd
        /\ p.missed = q.missed /\ p.table = q.table /\ p.gone = q.gone
    BY <1>2 DEF Fields
  <1>4. Busy(p) /\ Stage(p) /\ Listed(p)
    BY <1>2, <1>3 DEF IsRequest, Busy, Stage, Listed
  <1>5. p.at \in q.scope .. Plugin /\ p.fd \in Nat /\ p.first \in BOOLEAN /\ p.missed \in BOOLEAN
    BY <1>3 DEF IsRequest
  <1>6. IsRequest(p) /\ Same(q, p)
    BY <1>1, <1>2, <1>4, <1>5, GoesOn DEF Free
  <1> QED
    BY <1>2, <1>3, <1>6 DEF p

\* The time stamp is compared with the file that is there now.
LEMMA restCheckMoves ==
  ASSUME TypeInv, NEW r \in Requests, Busy(req[r]), restCheckModifiedTimestamp(r)
  PROVE  LET q == req[r]
             i == InodeAt(q.scope, percentEncode(q.name)) IN
         \E p : /\ Moves(r, p)
                /\ \/ /\ p.pc = "checked"
                      /\ q.lastmod = 0 \/ p.missed \/ (i # 0 /\ inode[i].time = q.lastmod)
                   \/ p.pc = "done" /\ FirstCode(p) = 500 /\ ~p.thrown
PROOF
  <1> DEFINE q == req[r]
             i == InodeAt(q.scope, percentEncode(q.name))
             c == [q EXCEPT !.pc = "checked"]
             m == [c EXCEPT !.missed = TRUE]
  <1>1. /\ IsRequest(q) /\ q.fd <= Len(inode) /\ Busy(q) /\ q.op \in {"put", "delete"} /\ q.pc = "start"
        /\ inode' = inode
    BY Sent DEF restCheckModifiedTimestamp, ReadOnly
  <1>2. q.gone = 0
    BY <1>1, GoneFacts
  <1>3. \/ q.lastmod = 0 /\ Set(r, c)
        \/ Set(r, m)
        \/ i # 0 /\ inode[i].time = q.lastmod /\ Set(r, c)
        \/ Set(r, Answer(q, 500, NoData))
    BY DEF restCheckModifiedTimestamp, SameTimestamp
  <1>4. IsRequest(c) /\ Same(q, c) /\ c.pc = "checked" /\ c.fd = q.fd /\ c.gone = 0
    BY <1>1, <1>2, PcFacts
  <1>5. ASSUME Set(r, c) PROVE Moves(r, c)
    BY <1>1, <1>4, <1>5 DEF Moves, Set
  <1>6. CASE Set(r, m)
    <2>1. req' = [req EXCEPT ![r] = m] /\ Fields \subseteq DOMAIN c /\ Busy(c)
      BY <1>4, <1>6 DEF Set, IsRequest, Busy
    <2> HIDE DEF c
    <2>2. DOMAIN m = DOMAIN c /\ m.missed = TRUE /\ \A g \in Fields \ {"missed"} : m[g] = c[g]
      BY <2>1 DEF Fields
    <2> HIDE DEF m
    <2>3. /\ m.op = c.op /\ m.scope = c.scope /\ m.at = c.at /\ m.first = c.first /\ m.fd = c.fd
          /\ m.table = c.table /\ m.gone = c.gone /\ m.pc = c.pc
      BY <2>2 DEF Fields
    <2>4. Busy(m) /\ Stage(m) /\ Listed(m)
      BY <1>4, <2>2, <2>3 DEF IsRequest, Busy, Stage, Listed
    <2>5. m.at \in c.scope .. Plugin /\ m.fd \in Nat /\ m.first \in BOOLEAN /\ m.missed \in BOOLEAN
      BY <1>4, <2>2, <2>3 DEF IsRequest
    <2>6. IsRequest(m) /\ Same(c, m)
      BY <1>4, <2>1, <2>2, <2>4, <2>5, GoesOn DEF Free
    <2>7. Moves(r, m)
      BY <1>1, <1>4, <2>1, <2>3, <2>6 DEF Moves, Same
    <2> QED
      BY <1>4, <2>2, <2>3, <2>7
  <1>7. CASE Set(r, Answer(q, 500, NoData))
    <2> DEFINE n == 500
    <2>1. Set(r, Answer(q, n, NoData))
      BY <1>7
    <2> HIDE DEF n
    <2>2. Moves(r, Answer(q, n, NoData))
      BY <1>1, <1>2, <2>1, AnswerMoves
    <2>3. LET p == Answer(q, n, NoData) IN p.pc = "done" /\ FirstCode(p) = n /\ ~p.thrown
      BY <1>1, <1>2, AnswerFacts
    <2> QED
      BY <2>2, <2>3 DEF n
  <1> HIDE DEF c, m, i
  <1> QED
    BY <1>3, <1>4, <1>5, <1>6, <1>7 DEF i

LEMMA openForWritingMoves ==
  ASSUME TypeInv, NEW r \in Requests, Busy(req[r]), openForWriting(r)
  PROVE  LET q == req[r]
             i == link[PathOf(q)] IN
         \E p : /\ Moves(r, p) /\ p.pc = "write" /\ p.missed = q.missed
                /\ p.fd = IF i = 0 THEN Len(inode) + 1 ELSE i
PROOF
  <1> DEFINE q == req[r]
             i == link[PathOf(q)]
             fd == IF i = 0 THEN Len(inode) + 1 ELSE i
             file == Touched(i, TextAtOpen(i))
             p == [q EXCEPT !.pc = "write", !.fd = fd]
  <1>1. IsRequest(q) /\ Busy(q) /\ Fields \subseteq DOMAIN q /\ q.op = "put" /\ q.pc = "checked"
    BY Sent DEF openForWriting
  <1>2. q.gone = 0
    BY <1>1, GoneFacts
  <1>3. req' = [req EXCEPT ![r] = p]
    BY DEF openForWriting, Set, PathOf
  <1>4. PathOf(q) \in Paths
    BY <1>1, NameFacts DEF PathOf, Paths, getPathForScope, IsRequest
  <1>5. Len(inode) \in Nat /\ i \in 0 .. Len(inode) /\ inode \in Seq(File)
    BY <1>4, FilesFacts DEF TypeInv, FilesType
  <1>6. inode' = IF i = 0 THEN Append(inode, file) ELSE [inode EXCEPT ![i] = file]
    BY DEF openForWriting, PathOf
  <1> HIDE DEF file, i
  <1>7. fd \in Nat /\ fd # 0 /\ fd <= Len(inode')
    <2>1. CASE i = 0
      BY <1>5, <1>6, <2>1, AppendFacts
    <2>2. CASE i # 0
      BY <1>5, <1>6, <2>2
    <2> QED
      BY <2>1, <2>2
  <1> HIDE DEF q, fd
  <1>8. DOMAIN p = DOMAIN q /\ p.pc = "write" /\ p.fd = fd /\ \A g \in Fields \ {"pc", "fd"} : p[g] = q[g]
    BY <1>1 DEF Fields
  <1> HIDE DEF p
  <1>9. /\ p.op = q.op /\ p.scope = q.scope /\ p.at = q.at /\ p.first = q.first
        /\ p.table = q.table /\ p.gone = q.gone /\ p.missed = q.missed
    BY <1>8 DEF Fields
  <1>10. Busy(p) /\ Stage(p) /\ Listed(p)
    BY <1>1, <1>7, <1>8, <1>9 DEF IsRequest, Busy, Stage, Listed
  <1>11. p.at \in q.scope .. Plugin /\ p.fd \in Nat /\ p.first \in BOOLEAN /\ p.missed \in BOOLEAN
    BY <1>1, <1>7, <1>8, <1>9 DEF IsRequest
  <1>12. IsRequest(p) /\ Same(q, p)
    BY <1>1, <1>2, <1>8, <1>10, <1>11, GoesOn DEF Free
  <1>13. Moves(r, p)
    BY <1>3, <1>7, <1>8, <1>12 DEF Moves, q
  <1> QED
    BY <1>8, <1>9, <1>13 DEF fd, i, q

LEMMA writeCallbackMoves ==
  ASSUME TypeInv, NEW r \in Requests, Busy(req[r]), writeCallback(r)
  PROVE  LET q == req[r] IN
         /\ Len(inode') = Len(inode)
         /\ \E p : /\ Moves(r, p) /\ p.fd = q.fd
                   /\ \/ p.pc = "stat" /\ p.missed = q.missed
                      \/ p.pc = "done" /\ FirstCode(p) = 500
PROOF
  <1> DEFINE q == req[r]
             c == [q EXCEPT !.pc = "stat"]
  <1>1. IsRequest(q) /\ Busy(q) /\ q.fd <= Len(inode) /\ q.op = "put" /\ q.pc = "write"
    BY Sent DEF writeCallback
  <1>2. q.gone = 0 /\ inode \in Seq(File)
    BY <1>1, GoneFacts DEF TypeInv, FilesType
  <1>3. \E x : inode' = [inode EXCEPT ![q.fd] = x]
    BY DEF writeCallback
  <1>4. PICK x : inode' = [inode EXCEPT ![q.fd] = x]
    BY <1>3
  <1>5. Len(inode') = Len(inode)
    <2> DEFINE n == Len(inode)
               g == [i \in 1 .. n |-> IF i = q.fd THEN x ELSE inode[i]]
    <2>1. DOMAIN inode = 1 .. n /\ n \in Nat /\ \A i \in 1 .. n : inode[i] \in File
      BY <1>2
    <2>2. inode' = g
      BY <1>4, <2>1
    <2> HIDE DEF n
    <2>3. g \in Seq(File \cup {x}) /\ Len(g) = n
      BY <2>1
    <2> QED
      BY <2>2, <2>3 DEF n
  <1>6. Set(r, c) \/ Set(r, Answer(q, 500, NoData))
    BY DEF writeCallback
  <1>7. IsRequest(c) /\ Same(q, c) /\ c.pc = "stat" /\ c.fd = q.fd /\ c.missed = q.missed
    BY <1>1, <1>2, PcFacts
  <1>8. ASSUME Set(r, c) PROVE Moves(r, c)
    BY <1>1, <1>5, <1>7, <1>8 DEF Moves, Set
  <1>9. CASE Set(r, Answer(q, 500, NoData))
    <2> DEFINE n == 500
               p == Answer(q, n, NoData)
    <2>1. req' = [req EXCEPT ![r] = p]
      BY <1>9 DEF Set
    <2> HIDE DEF n
    <2>2. IsRequest(p) /\ Same(q, p) /\ p.pc = "done" /\ FirstCode(p) = n /\ p.fd = q.fd
      BY <1>1, <1>2, AnswerFacts
    <2> HIDE DEF p
    <2>3. Moves(r, p)
      BY <1>1, <1>5, <2>1, <2>2 DEF Moves
    <2> QED
      BY <1>5, <2>2, <2>3 DEF n
  <1> HIDE DEF c
  <1> QED
    BY <1>5, <1>6, <1>7, <1>8, <1>9

LEMMA deleteFileMoves ==
  ASSUME TypeInv, NEW r \in Requests, Busy(req[r]), deleteFile(r)
  PROVE  \E p : Moves(r, p)
PROOF
  <1> DEFINE q == req[r]
             c == [q EXCEPT !.pc = "unlink"]
  <1>1. /\ IsRequest(q) /\ Busy(q) /\ q.fd <= Len(inode) /\ q.op = "delete"
        /\ q.pc \in {"checked", "unlink"} /\ inode' = inode
    BY Sent DEF deleteFile
  <1>2. q.gone = 0
    BY <1>1, GoneFacts
  <1>3. Set(r, c) \/ \E code, data : Set(r, Answer(q, code, data))
    BY DEF deleteFile
  <1>4. CASE Set(r, c)
    <2>1. IsRequest(c) /\ Same(q, c) /\ c.fd = q.fd
      BY <1>1, <1>2, PcFacts
    <2> QED
      BY <1>1, <1>4, <2>1 DEF Moves, Set
  <1>5. ASSUME NEW code, NEW data, Set(r, Answer(q, code, data)) PROVE \E p : Moves(r, p)
    BY <1>1, <1>2, <1>5, AnswerMoves
  <1> QED
    BY <1>3, <1>4, <1>5

\* The deletion of a folder goes on.
LEMMA FolderGoesOn ==
  ASSUME NEW q, IsRequest(q), Busy(q), OnFolder(q), Writer(q), NEW p, DOMAIN p = DOMAIN q,
         \A g \in Fields \ {"pc", "entries", "table"} : p[g] = q[g],
         p.pc \in {"check", "checked", "entry"},
         p.pc # "entry" => q.op = "deleteTree" /\ q.gone = 0
  PROVE  IsRequest(p) /\ Same(q, p) /\ p.fd = q.fd /\ p.gone = q.gone /\ p.answers = q.answers
PROOF
  <1>1. /\ p.op = q.op /\ p.scope = q.scope /\ p.at = q.at /\ p.first = q.first /\ p.fd = q.fd
        /\ p.gone = q.gone /\ p.missed = q.missed /\ p.answers = q.answers
    BY DEF Fields
  <1>2. Busy(p) /\ Stage(p) /\ Listed(p)
    BY <1>1 DEF IsRequest, Busy, Stage, Listed, OnFolder, Writer
  <1>3. p.at \in q.scope .. Plugin /\ p.fd \in Nat /\ p.first \in BOOLEAN /\ p.missed \in BOOLEAN
    BY <1>1 DEF IsRequest
  <1>4. IsRequest(p) /\ Same(q, p)
    BY <1>2, <1>3, GoesOn DEF Free
  <1> QED
    BY <1>1, <1>4

\* It is refused when the directory is newer than what the client knows.
LEMMA checkResourceMoves ==
  ASSUME TypeInv, NEW r \in Requests, Busy(req[r]), checkResourceModifiedTimestamp(r)
  PROVE  LET q == req[r] IN
         \E p : /\ Moves(r, p)
                /\ \/ p.pc \in {"check", "checked"} /\ (q.pc = "start" => q.lastmod = 0 \/ ~FolderModified(q))
                   \/ p.pc = "done" /\ FirstCode(p) = 500
PROOF
  <1> DEFINE q == req[r]
             here == {f \in FileNames : InodeAt(q.scope, f) # 0}
             c == [q EXCEPT !.pc = "checked"]
  <1>1. /\ IsRequest(q) /\ Busy(q) /\ q.fd <= Len(inode) /\ q.op = "deleteTree"
        /\ q.pc \in {"start", "check"} /\ inode' = inode /\ Fields \subseteq DOMAIN q
    BY Sent DEF checkResourceModifiedTimestamp, ReadOnly
  <1>2. q.gone = 0 /\ OnFolder(q) /\ Writer(q)
    BY <1>1, GoneFacts DEF OnFolder, Writer
  <1>3. \/ Set(r, Answer(q, 500, NoData))
        \/ /\ q.pc = "start" => q.lastmod = 0 \/ ~FolderModified(q)
           /\ \/ Set(r, c)
              \/ \E e : Set(r, [q EXCEPT !.pc = "check", !.entries = e])
              \/ Set(r, [c EXCEPT !.entries = {}])
              \/ q.pc = "check" /\ \E e : Set(r, [q EXCEPT !.entries = e])
    <2> HIDE DEF c
    <2>1. CASE q.pc = "start"
      BY <2>1 DEF checkResourceModifiedTimestamp, c
    <2>2. CASE q.pc = "check"
      BY <2>2 DEF checkResourceModifiedTimestamp, c
    <2> QED
      BY <1>1, <2>1, <2>2
  <1>4. CASE Set(r, Answer(q, 500, NoData))
    <2> DEFINE n == 500
    <2>1. Set(r, Answer(q, n, NoData))
      BY <1>4
    <2> HIDE DEF n
    <2>2. Moves(r, Answer(q, n, NoData))
      BY <1>1, <1>2, <2>1, AnswerMoves
    <2>3. LET p == Answer(q, n, NoData) IN p.pc = "done" /\ FirstCode(p) = n
      BY <1>1, <1>2, AnswerFacts
    <2> QED
      BY <2>2, <2>3 DEF n
  <1>5. ASSUME NEW p, req' = [req EXCEPT ![r] = p], DOMAIN p = DOMAIN q, p.pc \in {"check", "checked"},
               \A g \in Fields \ {"pc", "entries", "table"} : p[g] = q[g]
        PROVE  Moves(r, p) /\ p.pc \in {"check", "checked"}
    <2>1. IsRequest(p) /\ Same(q, p) /\ p.fd = q.fd
      BY <1>1, <1>2, <1>5, FolderGoesOn
    <2> QED
      BY <1>1, <1>5, <2>1 DEF Moves
  <1>6. ASSUME \/ Set(r, c)
               \/ \E e : Set(r, [q EXCEPT !.pc = "check", !.entries = e])
               \/ Set(r, [c EXCEPT !.entries = {}])
               \/ q.pc = "check" /\ \E e : Set(r, [q EXCEPT !.entries = e])
        PROVE  \E p : Moves(r, p) /\ p.pc \in {"check", "checked"}
    <2> DEFINE Case(p) == /\ req' = [req EXCEPT ![r] = p] /\ DOMAIN p = DOMAIN q
                          /\ p.pc \in {"check", "checked"}
                          /\ \A g \in Fields \ {"pc", "entries", "table"} : p[g] = q[g]
    <2>1. CASE Set(r, c)
      <3>1. req' = [req EXCEPT ![r] = c]
        BY <2>1 DEF Set
      <3> HIDE DEF q
      <3>2. Case(c)
        BY <1>1, <3>1 DEF Fields
      <3> HIDE DEF c
      <3> QED
        BY <1>5, <3>2
    <2>2. ASSUME NEW e, Set(r, [q EXCEPT !.pc = "check", !.entries = e])
          PROVE  \E p : Moves(r, p) /\ p.pc \in {"check", "checked"}
      <3> DEFINE p == [q EXCEPT !.pc = "check", !.entries = e]
      <3>1. req' = [req EXCEPT ![r] = p]
        BY <2>2 DEF Set
      <3> HIDE DEF q
      <3>2. Case(p)
        BY <1>1, <3>1 DEF Fields
      <3> HIDE DEF p
      <3> QED
        BY <1>5, <3>2
    <2>3. CASE Set(r, [c EXCEPT !.entries = {}])
      <3> DEFINE p == [c EXCEPT !.entries = {}]
      <3>1. req' = [req EXCEPT ![r] = p]
        BY <2>3 DEF Set
      <3> HIDE DEF q
      <3>2. Case(p)
        BY <1>1, <3>1 DEF Fields
      <3> HIDE DEF p
      <3> QED
        BY <1>5, <3>2
    <2>4. ASSUME q.pc = "check", NEW e, Set(r, [q EXCEPT !.entries = e])
          PROVE  \E p : Moves(r, p) /\ p.pc \in {"check", "checked"}
      <3> DEFINE p == [q EXCEPT !.entries = e]
      <3>1. req' = [req EXCEPT ![r] = p]
        BY <2>4 DEF Set
      <3> HIDE DEF q
      <3>2. Case(p)
        BY <1>1, <2>4, <3>1 DEF Fields
      <3> HIDE DEF p
      <3> QED
        BY <1>5, <3>2
    <2> QED
      BY <1>6, <2>1, <2>2, <2>3, <2>4
  <1> QED
    BY <1>3, <1>4, <1>6

\* An entry that fails is answered at once.
LEMMA EntryFailedFacts ==
  ASSUME NEW q, IsRequest(q), OnFolder(q), Writer(q), q.pc = "entry", NEW f
  PROVE  LET p == EntryFailed(q, f) IN IsRequest(p) /\ Same(q, p) /\ p.fd = q.fd /\ p.pc \in {"entry", "done"}
PROOF
  <1> DEFINE x == [code |-> 500, data |-> NoData]
             e == q.entries \ {f}
             n == q.gone + 1
             c == IF q.entries = {f} THEN "done" ELSE q.pc
             a == Append(q.answers, x)
             p == EntryFailed(q, f)
  <1>1. Fields \subseteq DOMAIN q /\ Busy(q)
    BY DEF IsRequest, Busy
  <1>2. p = [q EXCEPT !.entries = e, !.gone = n, !.pc = c, !.answers = a]
    BY DEF EntryFailed
  <1>3. q.answers \in Seq({Failure}) /\ Len(q.answers) = q.gone /\ q.gone \in Nat /\ ~q.thrown
    BY <1>1 DEF IsRequest, Replies
  <1>4. x \in {Failure}
    BY DEF Failure
  <1>5. Len(a) = n /\ a \in Seq({Failure}) /\ n \in Nat /\ n # 0
    <2> HIDE DEF x
    <2>1. Len(Append(q.answers, x)) = Len(q.answers) + 1 /\ Append(q.answers, x) \in Seq({Failure})
      BY <1>3, <1>4, AppendFacts
    <2> QED
      BY <1>3, <2>1
  <1>6. c = "done" \/ c = "entry"
    OBVIOUS
  <1> HIDE DEF x, e, n, c, a
  <1>7. /\ DOMAIN p = DOMAIN q /\ p.gone = n /\ p.pc = c /\ p.answers = a
        /\ \A g \in Fields \ {"entries", "gone", "pc", "answers"} : p[g] = q[g]
    BY <1>1, <1>2 DEF Fields
  <1> HIDE DEF p
  <1>8. /\ p.op = q.op /\ p.scope = q.scope /\ p.name = q.name /\ p.body = q.body
        /\ p.lastmod = q.lastmod /\ p.quiet = q.quiet /\ p.wanted = q.wanted /\ p.fd = q.fd
        /\ p.at = q.at /\ p.first = q.first /\ p.missed = q.missed /\ p.table = q.table
        /\ p.thrown = q.thrown
    BY <1>7 DEF Fields
  <1>9. q.op \in {"deleteFolder", "deleteTree"}
    BY DEF OnFolder, Writer
  <1>10. Replies(p)
    <2>1. n > 1 \/ n = 1
      BY <1>5
    <2> QED
      BY <1>3, <1>5, <1>6, <1>7, <1>8, <1>9, <2>1 DEF Replies, Busy, OnFolder, Writer
  <1>11. Stage(p) /\ Listed(p)
    BY <1>6, <1>7, <1>8, <1>9 DEF Stage, Listed, OnFolder
  <1>12. IsRequest(p) /\ Same(q, p)
    BY <1>1, <1>7, <1>8, <1>10, <1>11 DEF IsRequest, Same
  <1> QED
    BY <1>6, <1>7, <1>8, <1>12 DEF p

\* An entry is complete; the last one answers unless another has failed.
LEMMA EntryDoneFacts ==
  ASSUME NEW q, IsRequest(q), OnFolder(q), Writer(q), q.pc = "entry", NEW f
  PROVE  LET p == EntryDone(q, f) IN IsRequest(p) /\ Same(q, p) /\ p.fd = q.fd /\ p.pc \in {"entry", "done"}
PROOF
  <1> DEFINE e == q.entries \ {f}
             t == [q EXCEPT !.entries = e]
             d == [t EXCEPT !.pc = "done"]
             p == EntryDone(q, f)
  <1>1. Fields \subseteq DOMAIN q /\ Busy(q)
    BY DEF IsRequest, Busy
  <1>2. \/ p = t
        \/ q.gone = 0 /\ p = Answer(t, 200, NoData)
        \/ q.gone # 0 /\ p = d
    BY DEF EntryDone
  <1> HIDE DEF e, p
  <1>3. DOMAIN t = DOMAIN q /\ \A g \in Fields \ {"entries"} : t[g] = q[g]
    BY <1>1 DEF Fields
  <1> HIDE DEF t
  <1>4. t.pc = "entry" /\ \A g \in Fields \ {"pc", "entries", "table"} : t[g] = q[g]
    BY <1>3 DEF Fields
  <1>5. IsRequest(t) /\ Same(q, t) /\ t.fd = q.fd /\ t.gone = q.gone
    BY <1>1, <1>3, <1>4, FolderGoesOn
  <1>6. Busy(t) /\ Fields \subseteq DOMAIN t
    BY <1>4, <1>5 DEF Busy, IsRequest
  <1>7. CASE p = t
    BY <1>4, <1>5, <1>7 DEF p
  <1>8. CASE q.gone = 0 /\ p = Answer(t, 200, NoData)
    <2> DEFINE n == 200
               z == Answer(t, n, NoData)
    <2> HIDE DEF n
    <2>1. IsRequest(z) /\ Same(t, z) /\ z.pc = "done" /\ z.fd = t.fd
      BY <1>5, <1>6, <1>8, AnswerFacts
    <2>2. p = z
      BY <1>8 DEF n
    <2> HIDE DEF z
    <2> QED
      BY <1>5, <2>1, <2>2 DEF Same, p
  <1>9. CASE q.gone # 0 /\ p = d
    <2>1. DOMAIN d = DOMAIN t /\ d.pc = "done" /\ \A g \in Fields \ {"pc"} : d[g] = t[g]
      BY <1>6 DEF Fields
    <2> HIDE DEF d
    <2>2. /\ d.op = t.op /\ d.scope = t.scope /\ d.name = t.name /\ d.body = t.body
          /\ d.lastmod = t.lastmod /\ d.quiet = t.quiet /\ d.wanted = t.wanted /\ d.fd = t.fd
          /\ d.at = t.at /\ d.first = t.first /\ d.missed = t.missed /\ d.table = t.table
          /\ d.thrown = t.thrown /\ d.gone = t.gone /\ d.answers = t.answers
      BY <2>1 DEF Fields
    <2>3. t.gone \in Nat /\ t.gone # 0 /\ OnFolder(t) /\ Writer(t) /\ Len(t.answers) = t.gone /\ ~t.thrown
      BY <1>4, <1>5, <1>6, <1>9 DEF IsRequest, Replies
    <2>4. Replies(d)
      <3>1. Len(d.answers) = IF d.gone > 1 THEN d.gone ELSE 1
        BY <2>2, <2>3
      <3> QED
        BY <2>1, <2>2, <2>3, <3>1 DEF Replies, Busy, OnFolder, Writer
    <2>5. Stage(d) /\ Listed(d)
      BY <1>5, <2>1, <2>2 DEF Stage, Listed, IsRequest
    <2>6. IsRequest(d) /\ Same(t, d)
      BY <1>5, <1>6, <2>1, <2>2, <2>4, <2>5 DEF IsRequest, Same
    <2> QED
      BY <1>5, <1>9, <2>1, <2>2, <2>6 DEF Same, p
  <1> QED
    BY <1>2, <1>7, <1>8, <1>9

LEMMA deleteFilesMoves ==
  ASSUME TypeInv, NEW r \in Requests, Busy(req[r]), deleteFilesInFolder(r)
  PROVE  \E p : Moves(r, p) /\ p.pc \in {"entry", "done"}
PROOF
  <1> DEFINE q == req[r]
             here == {f \in FileNames : InodeAt(q.scope, f) # 0}
             stat == [f \in here |-> "stat"]
             start == [q EXCEPT !.pc = "entry", !.entries = here, !.table = stat]
             to(f, next) == [q EXCEPT !.table[f] = next]
  <1>1. /\ IsRequest(q) /\ Busy(q) /\ q.fd <= Len(inode) /\ OnFolder(q) /\ Writer(q)
        /\ inode' = inode /\ Fields \subseteq DOMAIN q
    BY Sent DEF deleteFilesInFolder
  <1>2. \/ q.pc # "entry" /\ (Set(r, Answer(q, 200, NoData)) \/ Set(r, start))
        \/ q.pc = "entry" /\ \E f, next : Set(r, to(f, next)) \/ Set(r, EntryFailed(q, f)) \/ Set(r, EntryDone(q, f))
    <2>1. CASE q.pc = "entry"
      <3>1. \E f : \/ \E next : Set(r, to(f, next))
                   \/ Set(r, EntryFailed(q, f)) \/ Set(r, EntryDone(q, f))
        BY <2>1 DEF deleteFilesInFolder
      <3> QED
        BY <2>1, <3>1
    <2>2. CASE q.pc # "entry"
      BY <2>2 DEF deleteFilesInFolder
    <2> QED
      BY <2>1, <2>2
  <1>3. CASE q.pc # "entry" /\ Set(r, Answer(q, 200, NoData))
    <2> DEFINE n == 200
    <2>1. Set(r, Answer(q, n, NoData)) /\ q.gone = 0
      BY <1>1, <1>3, GoneFacts DEF Busy
    <2> HIDE DEF n
    <2>2. Moves(r, Answer(q, n, NoData))
      BY <1>1, <2>1, AnswerMoves
    <2>3. LET p == Answer(q, n, NoData) IN p.pc = "done"
      BY <1>1, <2>1, AnswerFacts
    <2> QED
      BY <2>2, <2>3
  <1>4. ASSUME NEW p, req' = [req EXCEPT ![r] = p], DOMAIN p = DOMAIN q, p.pc = "entry",
               \A g \in Fields \ {"pc", "entries", "table"} : p[g] = q[g]
        PROVE  Moves(r, p) /\ p.pc \in {"entry", "done"}
    <2>1. IsRequest(p) /\ Same(q, p) /\ p.fd = q.fd
      BY <1>1, <1>4, FolderGoesOn
    <2> QED
      BY <1>1, <1>4, <2>1 DEF Moves
  <1>5. CASE q.pc # "entry" /\ Set(r, start)
    <2>1. req' = [req EXCEPT ![r] = start]
      BY <1>5 DEF Set
    <2> HIDE DEF q, stat, here
    <2>2. /\ DOMAIN start = DOMAIN q /\ start.pc = "entry"
          /\ \A g \in Fields \ {"pc", "entries", "table"} : start[g] = q[g]
      BY <1>1 DEF Fields
    <2> HIDE DEF start
    <2> QED
      BY <1>4, <2>1, <2>2
  <1>6. ASSUME NEW f, NEW next, q.pc = "entry", Set(r, to(f, next))
        PROVE  \E p : Moves(r, p) /\ p.pc \in {"entry", "done"}
    <2> DEFINE t == [q.table EXCEPT ![f] = next]
               p == [q EXCEPT !.table = t]
    <2>1. req' = [req EXCEPT ![r] = p]
      BY <1>6 DEF Set
    <2> HIDE DEF q, t
    <2>2. DOMAIN p = DOMAIN q /\ \A g \in Fields \ {"table"} : p[g] = q[g]
      BY <1>1 DEF Fields
    <2> HIDE DEF p
    <2>3. p.pc = "entry" /\ \A g \in Fields \ {"pc", "entries", "table"} : p[g] = q[g]
      BY <1>6, <2>2 DEF Fields
    <2> QED
      BY <1>4, <2>1, <2>2, <2>3
  <1>7. ASSUME NEW p, req' = [req EXCEPT ![r] = p], IsRequest(p), Same(q, p), p.fd = q.fd,
               p.pc \in {"entry", "done"}
        PROVE  Moves(r, p) /\ p.pc \in {"entry", "done"}
    BY <1>1, <1>7 DEF Moves
  <1>8. ASSUME NEW f, q.pc = "entry", Set(r, EntryFailed(q, f))
        PROVE  \E p : Moves(r, p) /\ p.pc \in {"entry", "done"}
    <2>1. LET p == EntryFailed(q, f) IN IsRequest(p) /\ Same(q, p) /\ p.fd = q.fd /\ p.pc \in {"entry", "done"}
      BY <1>1, <1>8, EntryFailedFacts
    <2> QED
      BY <1>7, <1>8, <2>1 DEF Set
  <1>9. ASSUME NEW f, q.pc = "entry", Set(r, EntryDone(q, f))
        PROVE  \E p : Moves(r, p) /\ p.pc \in {"entry", "done"}
    <2>1. LET p == EntryDone(q, f) IN IsRequest(p) /\ Same(q, p) /\ p.fd = q.fd /\ p.pc \in {"entry", "done"}
      BY <1>1, <1>9, EntryDoneFacts
    <2> QED
      BY <1>7, <1>9, <2>1 DEF Set
  <1> HIDE DEF start, to
  <1> QED
    BY <1>2, <1>3, <1>5, <1>6, <1>8, <1>9

-----------------------------------------------------------------------------
(* The kinds of steps                                                      *)

\* GET, and what it does to its own request only.
Reads(r) == ~Writer(req[r]) /\ ReadOnly /\ \E p : Moves(r, p)

\* DELETE, once it has been allowed.
Deletes(r) ==
  LET q == req[r] IN
  /\ q.op \in {"delete", "deleteFolder", "deleteTree"}
  /\ \E p : /\ Moves(r, p)
            /\ q.op = "deleteTree" => q.pc \in {"checked", "entry"} /\ p.pc \in {"entry", "done"}
  /\ UNCHANGED <<policy, inode, faults, torn>>
  /\ \/ KeepFiles
     \/ \E f \in {percentEncode(n) : n \in Names(q)} : Unlink(q.scope, f)

LEMMA NotWriter ==
  ASSUME NEW q, q.op \in {"get", "allowed", "list", "getFolder"}
  PROVE  ~Writer(q)
  BY DEF Writer

LEMMA ReadSteps ==
  ASSUME TypeInv, NEW r \in Requests, Busy(req[r]),
         \/ getJsonForAggregationNoneAsync(r) \/ getPathForAggregationNoneAsync(r)
         \/ getAggregatedJsonAsync(r) \/ getAllowedPlugins(r) \/ getFileListing(r)
         \/ getFileListingAsync(r) \/ configFileVisitorAsync(r) \/ configFileOverrideVisitor(r)
  PROVE  Reads(r)
PROOF
  <1>1. CASE getJsonForAggregationNoneAsync(r)
    <2>1. req[r].op = "get" /\ ReadOnly
      BY <1>1 DEF getJsonForAggregationNoneAsync
    <2> QED
      BY <1>1, <2>1, NotWriter, getJsonForAggregationNoneAsyncMoves DEF Reads
  <1>2. CASE getPathForAggregationNoneAsync(r)
    <2>1. req[r].op = "get" /\ ReadOnly
      BY <1>2 DEF getPathForAggregationNoneAsync
    <2> QED
      BY <1>2, <2>1, NotWriter, getPathForAggregationNoneAsyncMoves DEF Reads
  <1>3. CASE getAggregatedJsonAsync(r)
    <2>1. req[r].op = "get" /\ ReadOnly
      BY <1>3 DEF getAggregatedJsonAsync
    <2> QED
      BY <1>3, <2>1, NotWriter, getAggregatedJsonAsyncMoves DEF Reads
  <1>4. CASE getAllowedPlugins(r)
    <2>1. req[r].op = "allowed" /\ ReadOnly
      BY <1>4 DEF getAllowedPlugins
    <2> QED
      BY <1>4, <2>1, NotWriter, getAllowedPluginsMoves DEF Reads
  <1>5. CASE getFileListing(r)
    <2>1. req[r].op = "list" /\ ReadOnly
      BY <1>5 DEF getFileListing
    <2> QED
      BY <1>5, <2>1, NotWriter, getFileListingMoves DEF Reads
  <1>6. CASE getFileListingAsync(r)
    <2>1. req[r].op = "getFolder" /\ ReadOnly
      BY <1>6, getFileListingAsyncCases
    <2> QED
      BY <1>6, <2>1, NotWriter, getFileListingAsyncMoves DEF Reads
  <1>7. CASE configFileVisitorAsync(r)
    <2>1. req[r].op = "getFolder" /\ ReadOnly
      BY <1>7, configFileVisitorAsyncCases
    <2> QED
      BY <1>7, <2>1, NotWriter, configFileVisitorAsyncMoves DEF Reads
  <1>8. CASE configFileOverrideVisitor(r)
    <2>1. req[r].op = "getFolder" /\ ReadOnly
      BY <1>8 DEF configFileOverrideVisitor
    <2> QED
      BY <1>8, <2>1, NotWriter, configFileOverrideVisitorMoves DEF Reads
  <1> QED
    BY <1>1, <1>2, <1>3, <1>4, <1>5, <1>6, <1>7, <1>8

LEMMA DeleteSteps ==
  ASSUME TypeInv, NEW r \in Requests, Busy(req[r]), deleteFile(r) \/ deleteFilesInFolder(r)
  PROVE  Deletes(r)
PROOF
  <1> DEFINE q == req[r]
  <1>1. IsRequest(q)
    BY Sent
  <1>2. CASE deleteFile(r)
    <2>1. q.op = "delete" /\ UNCHANGED <<policy, inode, faults, torn>>
      BY <1>2 DEF deleteFile
    <2>2. KeepFiles \/ Unlink(q.scope, percentEncode(q.name))
      BY <1>2 DEF deleteFile
    <2>3. Names(q) = {q.name}
      BY <2>1 DEF Names, OnFolder
    <2>4. \E p : Moves(r, p)
      BY <1>2, deleteFileMoves
    <2>5. q.op # "deleteTree"
      BY <2>1
    <2> QED
      BY <2>1, <2>2, <2>3, <2>4, <2>5 DEF Deletes
  <1>3. CASE deleteFilesInFolder(r)
    <2>1. /\ OnFolder(q) /\ Writer(q) /\ UNCHANGED <<policy, inode, faults, torn>>
          /\ q.op = "deleteTree" => q.pc \in {"checked", "entry"}
      BY <1>3 DEF deleteFilesInFolder
    <2>2. KeepFiles \/ \E f \in FileNames : Unlink(q.scope, f)
      BY <1>3 DEF deleteFilesInFolder
    <2>3. FileNames = {percentEncode(n) : n \in Names(q)} /\ q.op \in {"deleteFolder", "deleteTree"}
      BY <2>1 DEF Names, FileNames, OnFolder, Writer
    <2>4. \E p : Moves(r, p) /\ p.pc \in {"entry", "done"}
      BY <1>3, deleteFilesMoves
    <2> QED
      BY <2>1, <2>2, <2>3, <2>4 DEF Deletes
  <1> QED
    BY <1>2, <1>3

LEMMA Steps ==
  ASSUME TypeInv, Next
  PROVE  \E r \in Requests :
           \/ Send(r)
           \/ /\ Busy(req[r])
              /\ \/ determineResource(r) \/ Reads(r)
                 \/ restCheckModifiedTimestamp(r) \/ openForWriting(r) \/ writeCallback(r) \/ putDone(r)
                 \/ checkResourceModifiedTimestamp(r) \/ Deletes(r)
  BY ReadSteps, DeleteSteps DEF Next

-----------------------------------------------------------------------------
(* Sending a request                                                       *)

\* A request that has just been sent.
Fresh(q) ==
  /\ Fields \subseteq DOMAIN q
  /\ q.op \in {"put", "delete", "get", "allowed", "list", "deleteTree", "deleteFolder", "getFolder"}
  /\ q.scope \in Scopes /\ q.name \in ItemNames /\ (q.op = "put" => q.body \in Bodies)
  /\ q.lastmod \in Nat /\ q.lastmod <= clock /\ q.at \in q.scope .. Plugin
  /\ q.pc = "resolve" /\ q.fd = 0 /\ q.first = TRUE /\ q.table = <<>> /\ q.gone = 0
  /\ q.answers = <<>> /\ q.missed = FALSE /\ q.thrown = FALSE

LEMMA FreshNew ==
  ASSUME clock \in Nat,
         NEW op \in {"put", "delete", "get", "allowed", "list", "deleteTree", "deleteFolder", "getFolder"},
         NEW s \in Scopes, NEW n \in ItemNames, NEW b, op = "put" => b \in Bodies
  PROVE  /\ Fresh(New(op, s, n, b)) /\ New(op, s, n, b).scope = s
         /\ New(op, s, n, b).at = s
PROOF
  <1> DEFINE q == New(op, s, n, b)
  <1>1. /\ Fields \subseteq DOMAIN q /\ q.op = op /\ q.scope = s /\ q.name = n /\ q.body = b
        /\ q.lastmod = 0 /\ q.at = s /\ q.pc = "resolve" /\ q.fd = 0 /\ q.first = TRUE
        /\ q.table = <<>> /\ q.gone = 0 /\ q.answers = <<>> /\ q.missed = FALSE /\ q.thrown = FALSE
    BY DEF New, Fields
  <1>2. s \in s .. Plugin
    BY DEF Scopes, User, Plugin
  <1> HIDE DEF q
  <1>3. Fresh(q)
    BY <1>1, <1>2 DEF Fresh
  <1> QED
    BY <1>1, <1>3 DEF q

LEMMA FreshTimed ==
  ASSUME clock \in Nat, NEW q, Fresh(q), NEW t \in Nat, t <= clock
  PROVE  Fresh([q EXCEPT !.lastmod = t])
PROOF
  <1> DEFINE p == [q EXCEPT !.lastmod = t]
  <1>1. DOMAIN p = DOMAIN q /\ p.lastmod = t /\ \A g \in Fields \ {"lastmod"} : p[g] = q[g]
    BY DEF Fresh, Fields
  <1> HIDE DEF p
  <1>2. /\ p.op = q.op /\ p.scope = q.scope /\ p.name = q.name /\ p.body = q.body
        /\ p.at = q.at /\ p.pc = q.pc /\ p.fd = q.fd /\ p.first = q.first
        /\ p.table = q.table /\ p.gone = q.gone /\ p.answers = q.answers /\ p.missed = q.missed
        /\ p.thrown = q.thrown
    BY <1>1 DEF Fields
  <1>3. Fresh(p)
    BY <1>1, <1>2 DEF Fresh
  <1> QED
    BY <1>3 DEF p

LEMMA FreshAt ==
  ASSUME NEW q, Fresh(q), NEW a \in q.scope .. Plugin
  PROVE  Fresh([q EXCEPT !.at = a])
PROOF
  <1> DEFINE p == [q EXCEPT !.at = a]
  <1>1. DOMAIN p = DOMAIN q /\ p.at = a /\ \A g \in Fields \ {"at"} : p[g] = q[g]
    BY DEF Fresh, Fields
  <1> HIDE DEF p
  <1>2. /\ p.op = q.op /\ p.scope = q.scope /\ p.name = q.name /\ p.body = q.body
        /\ p.lastmod = q.lastmod /\ p.pc = q.pc /\ p.fd = q.fd /\ p.first = q.first
        /\ p.table = q.table /\ p.gone = q.gone /\ p.answers = q.answers /\ p.missed = q.missed
        /\ p.thrown = q.thrown
    BY <1>1 DEF Fields
  <1>3. Fresh(p)
    BY <1>1, <1>2 DEF Fresh
  <1> QED
    BY <1>3 DEF p

LEMMA FreshMarked ==
  ASSUME NEW q, Fresh(q), NEW w, NEW u
  PROVE  LET p == [q EXCEPT !.wanted = w, !.quiet = u] IN
         /\ Fresh(p) /\ p.wanted = w /\ p.quiet = u /\ p.op = q.op /\ p.scope = q.scope /\ p.name = q.name
PROOF
  <1> DEFINE p == [q EXCEPT !.wanted = w, !.quiet = u]
  <1>1. DOMAIN p = DOMAIN q /\ p.wanted = w /\ p.quiet = u /\ \A g \in Fields \ {"wanted", "quiet"} : p[g] = q[g]
    BY DEF Fresh, Fields
  <1> HIDE DEF p
  <1>2. /\ p.op = q.op /\ p.scope = q.scope /\ p.name = q.name /\ p.body = q.body /\ p.at = q.at
        /\ p.lastmod = q.lastmod /\ p.pc = q.pc /\ p.fd = q.fd /\ p.first = q.first
        /\ p.table = q.table /\ p.gone = q.gone /\ p.answers = q.answers /\ p.missed = q.missed
        /\ p.thrown = q.thrown
    BY <1>1 DEF Fields
  <1>3. Fresh(p)
    BY <1>1, <1>2 DEF Fresh
  <1> QED
    BY <1>1, <1>2, <1>3 DEF p

LEMMA FreshIsRequest ==
  ASSUME NEW q, Fresh(q), q.quiet \in BOOLEAN
  PROVE  IsRequest(q)
PROOF
  <1>1. DOMAIN q.table = {}
    BY DEF Fresh
  <1>2. Stage(q) /\ Listed(q)
    BY <1>1 DEF Fresh, Stage, Listed
  <1>3. q.answers \in Seq({Failure}) /\ Len(q.answers) = 0
    BY DEF Fresh
  <1>4. Replies(q)
    BY <1>3 DEF Fresh, Replies, Busy
  <1>5. q.first = TRUE /\ q.missed = FALSE /\ q.fd \in Nat
    BY DEF Fresh
  <1>6. q.first \in BOOLEAN /\ q.missed \in BOOLEAN
    BY <1>5, Zenon
  <1> QED
    BY <1>2, <1>4, <1>5, <1>6 DEF Fresh, IsRequest

\* The inputs: a time stamp a client may know is not later than now.
LEMMA InputFacts ==
  ASSUME TypeInv
  PROVE  \A q \in Inputs : Fresh(q)
PROOF
  <1> DEFINE n0 == CHOOSE n \in ItemNames : TRUE
             b0 == CHOOSE b \in Bodies : TRUE
             at(rq) == [rq EXCEPT !.at = IF rq.op = "get" /\ policy # "override" THEN rq.scope ELSE Plugin]
             timed(op, s, n, b) == {[New(op, s, n, b) EXCEPT !.lastmod = t] : t \in Times(s, n)}
             tree(s) == {[New("deleteTree", s, n0, b0) EXCEPT !.lastmod = t] : t \in {0} \cup dir[s]}
  <1>1. clock \in Nat /\ dir \in [Scopes -> SUBSET (1 .. clock)]
    BY DEF TypeInv, FilesType
  <1>2. WritableScopes \subseteq Scopes /\ {User, Instance, Plugin} \subseteq Scopes
    BY DEF WritableScopes, Scopes, User, Instance, Plugin
  <1>3. n0 \in ItemNames
    BY ConfigAssumption
  <1> HIDE DEF n0
  <1>4. ASSUME NEW s \in Scopes, NEW n \in ItemNames, NEW t \in Times(s, n) PROVE t \in Nat /\ t <= clock
    <2> DEFINE i == InodeAt(s, percentEncode(n))
    <2>1. t = 0 \/ (i # 0 /\ t \in inode[i].times)
      BY DEF Times
    <2>2. i \in 0 .. Len(inode) /\ Len(inode) \in Nat /\ DOMAIN inode = 1 .. Len(inode)
      BY FilesFacts
    <2> HIDE DEF i
    <2>3. i # 0 => inode[i].times \subseteq 1 .. clock
      BY <2>2 DEF TypeInv, FilesType
    <2> QED
      BY <1>1, <2>1, <2>3
  <1>5. ASSUME NEW op \in {"put", "delete"}, NEW s \in WritableScopes, NEW n \in ItemNames, NEW b,
               op = "put" => b \in Bodies, NEW q \in timed(op, s, n, b)
        PROVE  Fresh(q)
    <2>1. PICK t \in Times(s, n) : q = [New(op, s, n, b) EXCEPT !.lastmod = t]
      OBVIOUS
    <2>2. Fresh(New(op, s, n, b))
      BY <1>1, <1>2, <1>5, FreshNew
    <2>3. t \in Nat /\ t <= clock
      BY <1>2, <1>4
    <2> QED
      BY <1>1, <2>1, <2>2, <2>3, FreshTimed
  <1>6. ASSUME NEW s \in WritableScopes, NEW q \in tree(s) PROVE Fresh(q)
    <2>1. PICK t \in {0} \cup dir[s] : q = [New("deleteTree", s, n0, b0) EXCEPT !.lastmod = t]
      OBVIOUS
    <2>2. Fresh(New("deleteTree", s, n0, b0))
      BY <1>1, <1>2, <1>3, FreshNew
    <2>3. t \in Nat /\ t <= clock
      BY <1>1, <1>2
    <2> QED
      BY <1>1, <2>1, <2>2, <2>3, FreshTimed
  <1>7. ASSUME NEW op \in {"get", "getFolder"}, NEW s \in Scopes, NEW n \in ItemNames
        PROVE  Fresh(at(New(op, s, n, b0)))
    <2> DEFINE q == New(op, s, n, b0)
               a == IF q.op = "get" /\ policy # "override" THEN q.scope ELSE Plugin
    <2>1. Fresh(q)
      BY <1>1, FreshNew
    <2> HIDE DEF q
    <2>2. a \in q.scope .. Plugin
      BY <2>1 DEF Fresh, Scopes, User, Plugin
    <2> HIDE DEF a
    <2>3. Fresh([q EXCEPT !.at = a])
      BY <2>1, <2>2, FreshAt
    <2> QED
      BY <2>3 DEF a, q
  <1>8. ASSUME NEW op \in {"allowed", "list", "deleteFolder"}, NEW s \in WritableScopes
        PROVE  Fresh(New(op, s, n0, b0))
    BY <1>1, <1>2, <1>3, FreshNew
  <1>9. Inputs = (UNION {timed("put", s, n, b) : s \in WritableScopes, n \in ItemNames, b \in Bodies})
      \cup (UNION {timed("delete", s, n, b0) : s \in WritableScopes, n \in ItemNames})
      \cup {at(New("get", s, n, b0)) : s \in {User, Instance, Plugin}, n \in ItemNames}
      \cup {New("allowed", s, n0, b0) : s \in WritableScopes}
      \cup {New("list", s, n0, b0) : s \in WritableScopes}
      \cup (UNION {tree(s) : s \in WritableScopes})
      \cup {New("deleteFolder", s, n0, b0) : s \in WritableScopes}
      \cup {at(New("getFolder", s, n0, b0)) : s \in WritableScopes}
    BY DEF Inputs, n0
  <1> HIDE DEF timed, tree, at, b0
  <1> SUFFICES ASSUME NEW q \in Inputs PROVE Fresh(q)
    OBVIOUS
  <1>10. \/ \E s \in WritableScopes, n \in ItemNames, b \in Bodies : q \in timed("put", s, n, b)
         \/ \E s \in WritableScopes, n \in ItemNames : q \in timed("delete", s, n, b0)
         \/ \E s \in {User, Instance, Plugin}, n \in ItemNames : q = at(New("get", s, n, b0))
         \/ \E s \in WritableScopes : q = New("allowed", s, n0, b0)
         \/ \E s \in WritableScopes : q = New("list", s, n0, b0)
         \/ \E s \in WritableScopes : q \in tree(s)
         \/ \E s \in WritableScopes : q = New("deleteFolder", s, n0, b0)
         \/ \E s \in WritableScopes : q = at(New("getFolder", s, n0, b0))
    BY <1>9
  <1>11. CASE \E s \in WritableScopes, n \in ItemNames, b \in Bodies : q \in timed("put", s, n, b)
    BY <1>5, <1>11
  <1>12. CASE \E s \in WritableScopes, n \in ItemNames : q \in timed("delete", s, n, b0)
    BY <1>5, <1>12
  <1>13. CASE \E s \in {User, Instance, Plugin}, n \in ItemNames : q = at(New("get", s, n, b0))
    BY <1>2, <1>7, <1>13
  <1>14. CASE \E s \in WritableScopes : q = at(New("getFolder", s, n0, b0))
    BY <1>2, <1>3, <1>7, <1>14
  <1> QED
    BY <1>6, <1>8, <1>10, <1>11, <1>12, <1>13, <1>14

\* What one more request does: it is quiet only if no writer of its names is
\* there and its files are whole; it makes the requests it disturbs known.
Arrived(p) ==
  /\ Fresh(p) /\ p.quiet \in BOOLEAN
  /\ p.quiet => /\ \A y \in Requests : Busy(req[y]) => ~Clash(req[y], p)
                /\ \A s \in Scopes, n \in Names(p) : InodeAt(s, percentEncode(n)) \notin torn
  /\ p.op = "deleteTree" => p.wanted = LatestTime(dir[p.scope])

Disturbed(q) == [q EXCEPT !.quiet = FALSE]

LEMMA SendFacts ==
  ASSUME TypeInv, NEW r \in Requests, Send(r)
  PROVE  /\ req[r].pc = "unsent" /\ ReadOnly
         /\ \E p : /\ Arrived(p)
                   /\ req' = [x \in Requests |->
                        IF x = r THEN p
                        ELSE IF Busy(req[x]) /\ Clash(req[x], p) THEN Disturbed(req[x]) ELSE req[x]]
PROOF
  <1>1. req[r].pc = "unsent" /\ ReadOnly
    BY DEF Send, ReadOnly
  <1>2. PICK q \in Inputs :
          LET clash(x) == Busy(req[x]) /\ Clash(req[x], q)
              broken == \E s \in Scopes, n \in Names(q) : InodeAt(s, percentEncode(n)) \in torn
          IN  req' = [x \in Requests |->
                IF x = r
                THEN [q EXCEPT !.wanted = WantedBy(q),
                               !.quiet = ~broken /\ \A y \in Requests : ~clash(y)]
                ELSE IF clash(x) THEN [req[x] EXCEPT !.quiet = FALSE] ELSE req[x]]
    BY DEF Send
  <1> DEFINE broken == \E s \in Scopes, n \in Names(q) : InodeAt(s, percentEncode(n)) \in torn
             u == ~broken /\ \A y \in Requests : ~(Busy(req[y]) /\ Clash(req[y], q))
             w == WantedBy(q)
             p == [q EXCEPT !.wanted = w, !.quiet = u]
  <1>3. Fresh(q)
    BY InputFacts
  <1>4. u \in BOOLEAN
    OBVIOUS
  <1>5. u => /\ \A y \in Requests : Busy(req[y]) => ~Clash(req[y], q)
             /\ \A s \in Scopes, n \in Names(q) : InodeAt(s, percentEncode(n)) \notin torn
    OBVIOUS
  <1>6. q.op = "deleteTree" => w = LatestTime(dir[q.scope])
    BY Zenon DEF WantedBy
  <1>7. req' = [x \in Requests |->
          IF x = r THEN p
          ELSE IF Busy(req[x]) /\ Clash(req[x], q) THEN Disturbed(req[x]) ELSE req[x]]
    BY <1>2 DEF Disturbed
  <1> HIDE DEF u, w
  <1>8. /\ Fresh(p) /\ p.wanted = w /\ p.quiet = u /\ p.op = q.op /\ p.scope = q.scope /\ p.name = q.name
    <2>1. \A a, b : LET z == [q EXCEPT !.wanted = a, !.quiet = b] IN
            /\ Fresh(z) /\ z.wanted = a /\ z.quiet = b /\ z.op = q.op /\ z.scope = q.scope /\ z.name = q.name
      BY <1>3, FreshMarked
    <2> QED
      BY <2>1, Zenon
  <1> HIDE DEF p
  <1>9. Names(p) = Names(q) /\ \A x : Clash(x, p) <=> Clash(x, q)
    BY <1>8 DEF Names, OnFolder, Clash, Writer
  <1>10. req' = [x \in Requests |->
          IF x = r THEN p
          ELSE IF Busy(req[x]) /\ Clash(req[x], p) THEN Disturbed(req[x]) ELSE req[x]]
    BY <1>7, <1>9
  <1>11. Arrived(p)
    BY <1>4, <1>5, <1>6, <1>8, <1>9 DEF Arrived
  <1> QED
    BY <1>1, <1>10, <1>11

LEMMA DisturbedFacts ==
  ASSUME NEW q, IsRequest(q)
  PROVE  LET p == Disturbed(q) IN
         /\ IsRequest(p) /\ p.quiet = FALSE
         /\ \A g \in Fields \ {"quiet"} : p[g] = q[g]
         /\ p.op = q.op /\ p.scope = q.scope /\ p.name = q.name /\ p.pc = q.pc /\ p.fd = q.fd
         /\ p.lastmod = q.lastmod /\ p.missed = q.missed /\ p.thrown = q.thrown /\ p.answers = q.answers
         /\ p.wanted = q.wanted
PROOF
  <1> DEFINE p == Disturbed(q)
  <1>1. /\ Fields \subseteq DOMAIN q
    BY DEF IsRequest
  <1>2. DOMAIN p = DOMAIN q /\ p.quiet = FALSE /\ \A g \in Fields \ {"quiet"} : p[g] = q[g]
    BY <1>1 DEF Fields, Disturbed
  <1> HIDE DEF p
  <1>3. /\ p.op = q.op /\ p.scope = q.scope /\ p.name = q.name /\ p.body = q.body /\ p.pc = q.pc
        /\ p.lastmod = q.lastmod /\ p.wanted = q.wanted /\ p.fd = q.fd
        /\ p.at = q.at /\ p.first = q.first /\ p.missed = q.missed /\ p.table = q.table
        /\ p.entries = q.entries /\ p.gone = q.gone /\ p.thrown = q.thrown /\ p.answers = q.answers
    BY <1>2 DEF Fields
  <1>4. p.quiet \in BOOLEAN
    BY <1>2
  <1>5. Stage(p) /\ Listed(p) /\ Replies(p)
    BY <1>3 DEF IsRequest, Stage, Listed, Replies, Busy, OnFolder, Writer
  <1>6. IsRequest(p)
    BY <1>1, <1>2, <1>3, <1>4, <1>5 DEF IsRequest
  <1> QED
    BY <1>2, <1>3, <1>6 DEF p

-----------------------------------------------------------------------------
(* Types                                                                   *)

LEMMA MovesType ==
  ASSUME TypeInv, NEW r \in Requests, Busy(req[r]), NEW p, Moves(r, p),
         clock' \in Nat, clock <= clock', Len(inode') \in Nat, Len(inode) <= Len(inode')
  PROVE  RequestsType'
PROOF
  <1>1. DOMAIN req = Requests /\ \A x \in Requests : req[x].pc # "unsent" =>
          IsRequest(req[x]) /\ req[x].lastmod <= clock /\ req[x].fd <= Len(inode)
    BY DEF TypeInv, RequestsType
  <1>2. DOMAIN req' = Requests /\ \A x \in Requests : req'[x] = IF x = r THEN p ELSE req[x]
    BY <1>1 DEF Moves
  <1>3. IsRequest(p) /\ p.lastmod <= clock' /\ p.fd <= Len(inode')
    BY Sent, FilesFacts DEF Moves, Same, IsRequest
  <1>4. ASSUME NEW x \in Requests, req'[x].pc # "unsent"
        PROVE  IsRequest(req'[x]) /\ req'[x].lastmod <= clock' /\ req'[x].fd <= Len(inode')
    <2>1. CASE x = r
      BY <1>2, <1>3, <2>1
    <2>2. CASE x # r
      <3>1. req'[x] = req[x] /\ IsRequest(req[x]) /\ req[x].lastmod <= clock /\ req[x].fd <= Len(inode)
        BY <1>1, <1>2, <1>4, <2>2
      <3>2. req[x].lastmod \in Nat /\ req[x].fd \in Nat
        BY <3>1 DEF IsRequest
      <3> QED
        BY <3>1, <3>2, FilesFacts
    <2> QED
      BY <2>1, <2>2
  <1> QED
    BY <1>2, <1>4 DEF RequestsType

LEMMA SendType ==
  ASSUME TypeInv, NEW r \in Requests, Send(r)
  PROVE  TypeInv'
PROOF
  <1>1. UNCHANGED <<policy, inode, link, dir, clock, faults, store, torn>>
    BY SendFacts DEF ReadOnly
  <1>2. PICK p : /\ Arrived(p)
                 /\ req' = [x \in Requests |->
                      IF x = r THEN p
                      ELSE IF Busy(req[x]) /\ Clash(req[x], p) THEN Disturbed(req[x]) ELSE req[x]]
    BY SendFacts
  <1>3. IsRequest(p) /\ p.lastmod <= clock /\ p.fd <= Len(inode)
    <2>1. Fresh(p) /\ p.quiet \in BOOLEAN
      BY <1>2, Zenon DEF Arrived
    <2>2. p.lastmod <= clock /\ p.fd = 0 /\ Len(inode) \in Nat
      BY <2>1, FilesFacts DEF Fresh
    <2> QED
      BY <2>1, <2>2, FreshIsRequest
  <1>4. ASSUME NEW x \in Requests, req'[x].pc # "unsent"
        PROVE  IsRequest(req'[x]) /\ req'[x].lastmod <= clock /\ req'[x].fd <= Len(inode)
    <2>1. CASE x = r
      BY <1>2, <1>3, <2>1
    <2>2. CASE x # r /\ Busy(req[x]) /\ req'[x] = Disturbed(req[x])
      <3>1. IsRequest(req[x]) /\ req[x].lastmod <= clock /\ req[x].fd <= Len(inode)
        BY <2>2, Sent
      <3>2. LET d == Disturbed(req[x]) IN IsRequest(d) /\ d.fd = req[x].fd /\ d.lastmod = req[x].lastmod
        BY <3>1, DisturbedFacts
      <3> QED
        BY <2>2, <3>1, <3>2
    <2>3. CASE x # r /\ req'[x] = req[x]
      BY <1>4, <2>3 DEF TypeInv, RequestsType
    <2> QED
      BY <1>2, <2>1, <2>2, <2>3
  <1>5. RequestsType'
    BY <1>1, <1>2, <1>4 DEF RequestsType
  <1>6. FilesType'
    BY <1>1 DEF TypeInv, FilesType
  <1> QED
    BY <1>5, <1>6 DEF TypeInv

\* A file that is written: its new time is one of its times.
LEMMA TouchedFacts ==
  ASSUME TypeInv, NEW i \in 0 .. Len(inode), NEW text \in Texts
  PROVE  LET f == Touched(i, text) IN
         /\ f \in File /\ f.time \in f.times /\ f.times \subseteq 1 .. clock + 1
         /\ f.time = clock + 1 /\ f.text = text
PROOF
  <1> DEFINE f == Touched(i, text)
             old == IF i = 0 THEN {} ELSE inode[i].times
  <1>1. clock \in Nat /\ DOMAIN inode = 1 .. Len(inode) /\ Len(inode) \in Nat
    BY FilesFacts
  <1>2. old \subseteq 1 .. clock
    <2>1. i # 0 => inode[i].times \subseteq 1 .. clock
      BY <1>1 DEF TypeInv, FilesType
    <2> QED
      BY <2>1
  <1>3. f = [text |-> text, time |-> clock + 1, times |-> {clock + 1} \cup old]
    BY DEF Touched
  <1> HIDE DEF old, f
  <1>4. {clock + 1} \cup old \subseteq 1 .. clock + 1
    BY <1>1, <1>2
  <1> QED
    BY <1>1, <1>3, <1>4 DEF File, f

\* Writing to a file that is there.
LEMMA RewriteType ==
  ASSUME TypeInv, NEW i \in DOMAIN inode, NEW text \in Texts,
         inode' = [inode EXCEPT ![i] = Touched(i, text)], clock' = clock + 1
  PROVE  /\ inode' \in Seq(File) /\ DOMAIN inode' = DOMAIN inode /\ Len(inode') = Len(inode)
         /\ \A k \in DOMAIN inode' : inode'[k].time \in inode'[k].times /\ inode'[k].times \subseteq 1 .. clock'
         /\ inode'[i].text = text /\ inode'[i].time = clock'
PROOF
  <1> DEFINE f == Touched(i, text)
  <1>1. i \in 0 .. Len(inode)
    BY FilesFacts
  <1>2. f \in File /\ f.time \in f.times /\ f.times \subseteq 1 .. clock + 1 /\ f.time = clock + 1 /\ f.text = text
    BY <1>1, TouchedFacts
  <1> HIDE DEF f
  <1>3. inode \in Seq(File) /\ clock \in Nat
    BY DEF TypeInv, FilesType
  <1>4. inode' \in Seq(File) /\ DOMAIN inode' = DOMAIN inode /\ Len(inode') = Len(inode)
    BY <1>2, <1>3 DEF f
  <1>5. ASSUME NEW k \in DOMAIN inode'
        PROVE  inode'[k].time \in inode'[k].times /\ inode'[k].times \subseteq 1 .. clock'
    <2>1. CASE k = i
      BY <1>2, <2>1 DEF f
    <2>2. CASE k # i
      <3>1. inode'[k] = inode[k] /\ k \in DOMAIN inode
        BY <1>4, <2>2
      <3>2. inode[k].time \in inode[k].times /\ inode[k].times \subseteq 1 .. clock
        BY <3>1 DEF TypeInv, FilesType
      <3> QED
        BY <1>3, <3>1, <3>2
    <2> QED
      BY <2>1, <2>2
  <1>6. inode'[i] = f
    BY DEF f
  <1> QED
    BY <1>2, <1>4, <1>5, <1>6

\* A new file.
LEMMA CreateType ==
  ASSUME TypeInv, NEW text \in Texts, inode' = Append(inode, Touched(0, text)), clock' = clock + 1
  PROVE  /\ inode' \in Seq(File) /\ Len(inode') = Len(inode) + 1
         /\ \A k \in DOMAIN inode : inode'[k] = inode[k]
         /\ \A k \in DOMAIN inode' : inode'[k].time \in inode'[k].times /\ inode'[k].times \subseteq 1 .. clock'
         /\ inode'[Len(inode) + 1].text = text /\ inode'[Len(inode) + 1].time = clock'
PROOF
  <1> DEFINE f == Touched(0, text)
  <1>1. Len(inode) \in Nat /\ 0 \in 0 .. Len(inode)
    BY FilesFacts
  <1>2. f \in File /\ f.time \in f.times /\ f.times \subseteq 1 .. clock + 1 /\ f.time = clock + 1 /\ f.text = text
    BY <1>1, TouchedFacts
  <1> HIDE DEF f
  <1>3. inode \in Seq(File) /\ clock \in Nat
    BY DEF TypeInv, FilesType
  <1>4. inode' \in Seq(File) /\ Len(inode') = Len(inode) + 1 /\ DOMAIN inode = 1 .. Len(inode)
        /\ DOMAIN inode' = 1 .. Len(inode) + 1
    BY <1>2, <1>3 DEF f
  <1>5. inode'[Len(inode) + 1] = f /\ \A k \in 1 .. Len(inode) : inode'[k] = inode[k]
    BY <1>2, <1>3, AppendProperties DEF f
  <1>6. ASSUME NEW k \in DOMAIN inode'
        PROVE  inode'[k].time \in inode'[k].times /\ inode'[k].times \subseteq 1 .. clock'
    <2>1. CASE k = Len(inode) + 1
      BY <1>2, <1>5, <2>1
    <2>2. CASE k # Len(inode) + 1
      <3>1. k \in 1 .. Len(inode)
        BY <1>1, <1>4, <2>2
      <3>2. inode'[k] = inode[k] /\ k \in DOMAIN inode
        BY <1>4, <1>5, <3>1
      <3>3. inode[k].time \in inode[k].times /\ inode[k].times \subseteq 1 .. clock
        BY <3>2 DEF TypeInv, FilesType
      <3> QED
        BY <1>3, <3>2, <3>3
    <2> QED
      BY <2>1, <2>2
  <1> QED
    BY <1>2, <1>4, <1>5, <1>6

LEMMA determineResourceType ==
  ASSUME TypeInv, NEW r \in Requests, Busy(req[r]), determineResource(r)
  PROVE  TypeInv'
PROOF
  <1> DEFINE missing == {s \in WritableScopes : dir[s] = {}}
  <1>1. clock \in Nat /\ dir \in [Scopes -> SUBSET (1 .. clock)] /\ Len(inode) \in Nat
    BY FilesFacts DEF TypeInv, FilesType
  <1>2. /\ clock' = IF missing = {} THEN clock ELSE clock + 1
        /\ dir' = [s \in Scopes |-> IF s \in missing THEN {clock + 1} ELSE dir[s]]
        /\ UNCHANGED <<policy, inode, link, store, torn>>
    BY DEF determineResource
  <1> HIDE DEF missing
  <1>3. clock' \in Nat /\ clock <= clock' /\ (missing # {} => clock' = clock + 1)
    BY <1>1, <1>2
  <1>4. dir' \in [Scopes -> SUBSET (1 .. clock')]
    <2>1. ASSUME NEW s \in Scopes PROVE (IF s \in missing THEN {clock + 1} ELSE dir[s]) \subseteq 1 .. clock'
      <3>1. CASE s \in missing
        BY <1>1, <1>3, <3>1
      <3>2. CASE s \notin missing
        BY <1>1, <1>3, <3>2
      <3> QED
        BY <3>1, <3>2
    <2> QED
      BY <1>2, <2>1
  <1>5. \A i \in DOMAIN inode' : inode'[i].time \in inode'[i].times /\ inode'[i].times \subseteq 1 .. clock'
    <2>1. \A i \in DOMAIN inode : inode[i].time \in inode[i].times /\ inode[i].times \subseteq 1 .. clock
      BY DEF TypeInv, FilesType
    <2> QED
      BY <1>1, <1>2, <1>3, <2>1
  <1>6. FilesType'
    BY <1>2, <1>3, <1>4, <1>5 DEF TypeInv, FilesType
  <1>7. RequestsType'
    <2> DEFINE p == [req[r] EXCEPT !.pc = "start"]
    <2>1. Moves(r, p)
      BY determineResourceMoves
    <2> HIDE DEF p
    <2> QED
      BY <1>1, <1>2, <1>3, <2>1, MovesType
  <1> QED
    BY <1>6, <1>7 DEF TypeInv

LEMMA ReadOnlyType ==
  ASSUME TypeInv, NEW r \in Requests, Busy(req[r]), ReadOnly, NEW p, Moves(r, p)
  PROVE  TypeInv'
PROOF
  <1>1. clock \in Nat /\ Len(inode) \in Nat /\ UNCHANGED <<policy, inode, link, dir, clock, store, torn>>
    BY FilesFacts DEF ReadOnly
  <1>2. RequestsType'
    <2>1. clock' \in Nat /\ clock <= clock' /\ Len(inode') \in Nat /\ Len(inode) <= Len(inode')
      BY <1>1
    <2> QED
      BY <2>1, MovesType
  <1>3. FilesType'
    BY <1>1 DEF TypeInv, FilesType
  <1> QED
    BY <1>2, <1>3 DEF TypeInv

LEMMA NewDirTime ==
  ASSUME TypeInv, NEW s \in Scopes, clock' = clock + 1,
         dir' = [dir EXCEPT ![s] = @ \cup {clock + 1}] \/ dir' = dir
  PROVE  dir' \in [Scopes -> SUBSET (1 .. clock')]
PROOF
  <1>1. clock \in Nat /\ dir \in [Scopes -> SUBSET (1 .. clock)]
    BY DEF TypeInv, FilesType
  <1>2. \A t \in Scopes : dir[t] \subseteq 1 .. clock'
    BY <1>1
  <1>3. dir[s] \cup {clock + 1} \in SUBSET (1 .. clock')
    BY <1>1
  <1> QED
    BY <1>1, <1>2, <1>3

LEMMA UnlinkType ==
  ASSUME TypeInv, NEW s \in Scopes, NEW f \in FileNames, Unlink(s, f),
         UNCHANGED <<policy, inode, faults, torn>>
  PROVE  FilesType'
PROOF
  <1> DEFINE path == getPathForScope(s, f)
             gone == [n \in ItemNames |-> IF percentEncode(n) = f THEN NotFound ELSE store[s][n]]
  <1>1. path \in Paths
    BY DEF Paths, getPathForScope
  <1>2. /\ link' = [link EXCEPT ![path] = 0] /\ dir' = [dir EXCEPT ![s] = @ \cup {clock + 1}]
        /\ clock' = clock + 1 /\ store' = [store EXCEPT ![s] = gone]
    BY DEF Unlink
  <1>3. clock \in Nat /\ Len(inode) \in Nat
    BY FilesFacts
  <1>4. link \in [Paths -> 0 .. Len(inode)] /\ store \in [Scopes -> [ItemNames -> Bodies \cup {NotFound}]]
    BY DEF TypeInv, FilesType
  <1>5. gone \in [ItemNames -> Bodies \cup {NotFound}]
    BY <1>4
  <1> HIDE DEF gone, path
  <1>6. link' \in [Paths -> 0 .. Len(inode)] /\ store' \in [Scopes -> [ItemNames -> Bodies \cup {NotFound}]]
    BY <1>1, <1>2, <1>3, <1>4, <1>5
  <1>7. dir' \in [Scopes -> SUBSET (1 .. clock')]
    BY <1>2, NewDirTime
  <1>8. \A i \in DOMAIN inode : inode[i].time \in inode[i].times /\ inode[i].times \subseteq 1 .. clock'
    <2>1. \A i \in DOMAIN inode : inode[i].time \in inode[i].times /\ inode[i].times \subseteq 1 .. clock
      BY DEF TypeInv, FilesType
    <2> QED
      BY <1>2, <1>3, <2>1
  <1> QED
    BY <1>2, <1>3, <1>6, <1>7, <1>8 DEF TypeInv, FilesType

LEMMA DeletesType ==
  ASSUME TypeInv, NEW r \in Requests, Busy(req[r]), Deletes(r)
  PROVE  TypeInv'
PROOF
  <1> DEFINE q == req[r]
  <1>1. IsRequest(q) /\ clock \in Nat /\ Len(inode) \in Nat
    BY Sent, FilesFacts
  <1>2. PICK p : Moves(r, p)
    BY DEF Deletes
  <1>3. UNCHANGED <<policy, inode, faults, torn>>
    BY DEF Deletes
  <1>4. CASE KeepFiles
    BY <1>2, <1>3, <1>4, ReadOnlyType DEF KeepFiles, ReadOnly
  <1>5. ASSUME NEW f \in {percentEncode(n) : n \in Names(q)}, Unlink(q.scope, f) PROVE TypeInv'
    <2>1. f \in FileNames /\ q.scope \in Scopes
      BY <1>1 DEF Names, FileNames, IsRequest
    <2>2. FilesType'
      BY <1>3, <1>5, <2>1, UnlinkType
    <2>3. clock' = clock + 1
      BY <1>5 DEF Unlink
    <2>4. RequestsType'
      BY <1>1, <1>2, <1>3, <2>3, MovesType
    <2> QED
      BY <2>2, <2>4 DEF TypeInv
  <1> QED
    BY <1>4, <1>5 DEF Deletes

LEMMA PathFacts ==
  ASSUME NEW q, IsRequest(q)
  PROVE  PathOf(q) \in Paths /\ PathOf(q) = getPathForScope(q.scope, percentEncode(q.name)) /\ q.scope \in Scopes
  BY NameFacts DEF PathOf, Paths, getPathForScope, IsRequest

LEMMA openForWritingType ==
  ASSUME TypeInv, NEW r \in Requests, Busy(req[r]), openForWriting(r)
  PROVE  TypeInv'
PROOF
  <1> DEFINE q == req[r]
             path == PathOf(q)
             i == link[path]
             fd == IF i = 0 THEN Len(inode) + 1 ELSE i
             file == Touched(i, TextAtOpen(i))
  <1>1. IsRequest(q) /\ clock \in Nat /\ Len(inode) \in Nat /\ DOMAIN inode = 1 .. Len(inode)
    BY Sent, FilesFacts
  <1>2. path \in Paths /\ q.scope \in Scopes
    BY <1>1, PathFacts
  <1>3. link \in [Paths -> 0 .. Len(inode)] /\ i \in 0 .. Len(inode)
    BY <1>2 DEF TypeInv, FilesType
  <1>4. TextAtOpen(i) \in Texts
    BY DEF TextAtOpen, Texts
  <1>5. /\ inode' = IF i = 0 THEN Append(inode, file) ELSE [inode EXCEPT ![i] = file]
        /\ link' = [link EXCEPT ![path] = fd]
        /\ dir' = [dir EXCEPT ![q.scope] = @ \cup {clock + 1}] \/ dir' = dir
        /\ clock' = clock + 1
        /\ torn' = IF \E x \in Requests : req[x].pc = "write" /\ req[x].fd = i
                   THEN torn \cup {i} ELSE torn \ {i}
        /\ UNCHANGED <<policy, faults, store>>
    BY DEF openForWriting, PathOf
  <1>6. /\ inode' \in Seq(File) /\ Len(inode) <= Len(inode') /\ fd \in 1 .. Len(inode')
        /\ \A k \in DOMAIN inode' : inode'[k].time \in inode'[k].times /\ inode'[k].times \subseteq 1 .. clock'
    <2>1. CASE i = 0
      <3>1. inode' = Append(inode, Touched(0, TextAtOpen(i)))
        BY <1>5, <2>1
      <3>2. /\ inode' \in Seq(File) /\ Len(inode') = Len(inode) + 1
            /\ \A k \in DOMAIN inode' : inode'[k].time \in inode'[k].times /\ inode'[k].times \subseteq 1 .. clock'
        BY <1>4, <1>5, <3>1, CreateType
      <3> QED
        BY <1>1, <2>1, <3>2
    <2>2. CASE i # 0
      <3>1. inode' = [inode EXCEPT ![i] = Touched(i, TextAtOpen(i))] /\ i \in DOMAIN inode
        BY <1>1, <1>3, <1>5, <2>2
      <3>2. /\ inode' \in Seq(File) /\ Len(inode') = Len(inode)
            /\ \A k \in DOMAIN inode' : inode'[k].time \in inode'[k].times /\ inode'[k].times \subseteq 1 .. clock'
        BY <1>4, <1>5, <3>1, RewriteType
      <3> QED
        BY <1>1, <1>3, <2>2, <3>2
    <2> QED
      BY <2>1, <2>2
  <1> HIDE DEF fd, file, path, i
  <1>7. Len(inode') \in Nat /\ DOMAIN inode' = 1 .. Len(inode')
    BY <1>6
  <1>8. link' \in [Paths -> 0 .. Len(inode')]
    <2>1. 0 .. Len(inode) \subseteq 0 .. Len(inode') /\ fd \in 0 .. Len(inode')
      BY <1>1, <1>6, <1>7
    <2> QED
      BY <1>2, <1>3, <1>5, <2>1
  <1>9. dir' \in [Scopes -> SUBSET (1 .. clock')]
    BY <1>2, <1>5, NewDirTime
  <1>10. torn' \subseteq DOMAIN inode'
    <2>1. torn \subseteq 1 .. Len(inode')
      <3>1. torn \subseteq 1 .. Len(inode)
        BY <1>1 DEF TypeInv, FilesType
      <3> QED
        BY <1>1, <1>6, <1>7, <3>1
    <2>2. (\E x \in Requests : req[x].pc = "write" /\ req[x].fd = i) => i # 0
      BY DEF TypeInv, RequestsType, IsRequest, Stage
    <2>3. i # 0 => i \in 1 .. Len(inode')
      BY <1>1, <1>3, <1>6, <1>7
    <2> QED
      BY <1>5, <1>7, <2>1, <2>2, <2>3
  <1>11. FilesType'
    BY <1>1, <1>5, <1>6, <1>7, <1>8, <1>9, <1>10 DEF TypeInv, FilesType
  <1>12. RequestsType'
    BY <1>1, <1>5, <1>6, <1>7, openForWritingMoves, MovesType
  <1> QED
    BY <1>11, <1>12 DEF TypeInv

\* The data is written, or the write fails after a part of it.
LEMMA writeCallbackCases ==
  ASSUME TypeInv, NEW r \in Requests, Busy(req[r]), writeCallback(r)
  PROVE  LET q == req[r] IN
         /\ q.op = "put" /\ q.pc = "write" /\ q.fd \in DOMAIN inode /\ q.body \in Bodies
         /\ clock' = clock + 1 /\ UNCHANGED <<policy, link, dir>>
         /\ \E text \in Texts :
              /\ inode' = [inode EXCEPT ![q.fd] = Touched(q.fd, text)]
              /\ \/ /\ inode[q.fd].text = Empty => text = q.body
                    /\ store' = IF InodeAt(q.scope, percentEncode(q.name)) = q.fd
                                THEN [store EXCEPT ![q.scope][q.name] = q.body] ELSE store
                    /\ Set(r, [q EXCEPT !.pc = "stat"])
                    /\ UNCHANGED <<faults, torn>>
                 \/ /\ torn' = torn \cup {q.fd} /\ store' = store
                    /\ Set(r, Answer(q, 500, NoData))
PROOF
  <1> DEFINE q == req[r]
  <1>1. IsRequest(q) /\ q.fd <= Len(inode) /\ q.op = "put" /\ q.pc = "write"
    BY Sent DEF writeCallback
  <1>2. q.fd \in Nat /\ q.fd # 0 /\ q.body \in Bodies
    BY <1>1 DEF IsRequest, Stage
  <1>3. q.fd \in DOMAIN inode /\ inode[q.fd].text \in Texts
    BY <1>1, <1>2, FilesFacts
  <1>4. \A text \in WrittenOver(inode[q.fd].text, q.body) :
          text \in Texts /\ (inode[q.fd].text = Empty => text = q.body)
    BY <1>2 DEF WrittenOver, Texts
  <1>5. Mixed \in Texts
    BY DEF Texts
  <1>6. clock' = clock + 1 /\ UNCHANGED <<policy, link, dir>>
    BY DEF writeCallback
  <1>7. CASE /\ \E text \in WrittenOver(inode[q.fd].text, q.body) :
                  inode' = [inode EXCEPT ![q.fd] = Touched(q.fd, text)]
             /\ store' = IF InodeAt(q.scope, percentEncode(q.name)) = q.fd
                         THEN [store EXCEPT ![q.scope][q.name] = q.body] ELSE store
             /\ Set(r, [q EXCEPT !.pc = "stat"])
             /\ UNCHANGED <<faults, torn>>
    BY <1>1, <1>2, <1>3, <1>4, <1>6, <1>7
  <1>8. CASE /\ \E text \in {inode[q.fd].text, Mixed} :
                  inode' = [inode EXCEPT ![q.fd] = Touched(q.fd, text)]
             /\ torn' = torn \cup {q.fd}
             /\ Set(r, Answer(q, 500, NoData))
             /\ UNCHANGED store
    BY <1>1, <1>2, <1>3, <1>5, <1>6, <1>8
  <1> QED
    BY <1>7, <1>8 DEF writeCallback

LEMMA writeCallbackType ==
  ASSUME TypeInv, NEW r \in Requests, Busy(req[r]), writeCallback(r)
  PROVE  TypeInv'
PROOF
  <1> DEFINE q == req[r]
  <1>1. /\ clock \in Nat /\ Len(inode) \in Nat
        /\ q.fd \in DOMAIN inode /\ q.body \in Bodies /\ q.scope \in Scopes /\ q.name \in ItemNames
        /\ clock' = clock + 1 /\ UNCHANGED <<policy, link, dir>>
    BY Sent, FilesFacts, writeCallbackCases DEF IsRequest
  <1>2. PICK text \in Texts : inode' = [inode EXCEPT ![q.fd] = Touched(q.fd, text)]
    BY writeCallbackCases
  <1>3. store' = store \/ store' = [store EXCEPT ![q.scope][q.name] = q.body]
    BY writeCallbackCases
  <1>4. torn' = torn \/ torn' = torn \cup {q.fd}
    BY writeCallbackCases
  <1>5. /\ inode' \in Seq(File) /\ DOMAIN inode' = DOMAIN inode /\ Len(inode') = Len(inode)
        /\ \A k \in DOMAIN inode' : inode'[k].time \in inode'[k].times /\ inode'[k].times \subseteq 1 .. clock'
    BY <1>1, <1>2, RewriteType
  <1>6. store' \in [Scopes -> [ItemNames -> Bodies \cup {NotFound}]]
    <2>1. store \in [Scopes -> [ItemNames -> Bodies \cup {NotFound}]]
      BY DEF TypeInv, FilesType
    <2>2. [store[q.scope] EXCEPT ![q.name] = q.body] \in [ItemNames -> Bodies \cup {NotFound}]
      BY <1>1, <2>1
    <2> QED
      BY <1>1, <1>3, <2>1, <2>2
  <1>7. dir' \in [Scopes -> SUBSET (1 .. clock')]
    <2>1. dir \in [Scopes -> SUBSET (1 .. clock)] /\ 1 .. clock \subseteq 1 .. clock'
      BY <1>1 DEF TypeInv, FilesType
    <2> QED
      BY <1>1, <2>1
  <1>8. torn' \subseteq DOMAIN inode'
    BY <1>1, <1>4, <1>5 DEF TypeInv, FilesType
  <1>9. FilesType'
    BY <1>1, <1>5, <1>6, <1>7, <1>8 DEF TypeInv, FilesType
  <1>10. RequestsType'
    BY <1>1, <1>5, writeCallbackMoves, MovesType
  <1> QED
    BY <1>9, <1>10 DEF TypeInv

LEMMA StepType ==
  ASSUME TypeInv, [Next]_vars
  PROVE  TypeInv'
PROOF
  <1>1. CASE UNCHANGED vars
    <2>1. FilesType'
      BY <1>1 DEF TypeInv, FilesType, vars
    <2>2. RequestsType'
      BY <1>1 DEF TypeInv, RequestsType, vars
    <2> QED
      BY <2>1, <2>2 DEF TypeInv
  <1>2. CASE Next
    <2>1. PICK r \in Requests :
           \/ Send(r)
           \/ /\ Busy(req[r])
              /\ \/ determineResource(r) \/ Reads(r)
                 \/ restCheckModifiedTimestamp(r) \/ openForWriting(r) \/ writeCallback(r) \/ putDone(r)
                 \/ checkResourceModifiedTimestamp(r) \/ Deletes(r)
      BY <1>2, Steps
    <2>2. CASE Busy(req[r]) /\ Reads(r)
      BY <2>2, ReadOnlyType DEF Reads
    <2>3. CASE Busy(req[r]) /\ restCheckModifiedTimestamp(r)
      BY <2>3, ReadOnlyType, restCheckMoves DEF restCheckModifiedTimestamp
    <2>4. CASE Busy(req[r]) /\ putDone(r)
      BY <2>4, ReadOnlyType, putDoneMoves DEF putDone
    <2>5. CASE Busy(req[r]) /\ checkResourceModifiedTimestamp(r)
      BY <2>5, ReadOnlyType, checkResourceMoves DEF checkResourceModifiedTimestamp
    <2> QED
      BY <2>1, <2>2, <2>3, <2>4, <2>5, SendType, determineResourceType, openForWritingType,
         writeCallbackType, DeletesType
  <1> QED
    BY <1>1, <1>2

-----------------------------------------------------------------------------
(* The initial states                                                      *)

\* A sequence made of a finite set has its members, all of them.
LEMMA SetToSeqFacts ==
  ASSUME NEW S, IsFiniteSet(S)
  PROVE  /\ SetToSeq(S) \in Seq(S) /\ Len(SetToSeq(S)) = Cardinality(S) /\ Cardinality(S) \in Nat
         /\ \A x \in S : \E i \in 1 .. Cardinality(S) : SetToSeq(S)[i] = x
PROOF
  <1> DEFINE n == Cardinality(S)
             s == SetToSeq(S)
  <1>1. n \in Nat /\ ExistsBijection(1 .. n, S)
    BY FS_CardinalityType
  <1>2. PICK f \in Bijection(1 .. n, S) : TRUE
    BY <1>1 DEF ExistsBijection
  <1>3. f \in [1 .. n -> S] /\ IsInjective(f)
    BY <1>2 DEF Bijection, Injection, IsInjective
  <1>4. s \in [1 .. n -> S] /\ IsInjective(s)
    BY <1>3 DEF SetToSeq
  <1>5. s \in Seq(S) /\ Len(s) = n
    BY <1>1, <1>4
  <1>6. s \in Injection(1 .. n, S)
    BY <1>4 DEF Injection
  <1>7. IsFiniteSet(1 .. n) /\ Cardinality(1 .. n) = n
    BY <1>1, FS_Interval
  <1>8. s \in Surjection(1 .. n, S)
    BY <1>6, <1>7, FS_Injection
  <1>9. \A x \in S : \E i \in 1 .. n : s[i] = x
    BY <1>8 DEF Surjection
  <1> QED
    BY <1>1, <1>5, <1>9

\* The times of a directory have a last one.
HasLast(S) == S = {} \/ \E t \in S : \A u \in S : u <= t
DirInv == \A s \in Scopes : HasLast(dir[s])

LEMMA InitFiles ==
  ASSUME Init
  PROVE  FilesType /\ LinksApart /\ FileWhole /\ DirInv
PROOF
  <1> DEFINE S == {p \in Scopes \X ItemNames : store[p[1]][p[2]] # NotFound}
             files == SetToSeq(S)
             path(i) == getPathForScope(files[i][1], percentEncode(files[i][2]))
  <1>1. policy \in Policies /\ store \in [Scopes -> [ItemNames -> Bodies \cup {NotFound}]] /\ torn = {}
    BY ConfigAssumption DEF Init
  <1>2. IsFiniteSet(S)
    <2>1. IsFiniteSet(Scopes)
      <3>1. 1 \in Int /\ 5 \in Int
        OBVIOUS
      <3>2. IsFiniteSet(1 .. 5)
        BY <3>1, FS_Interval, Zenon
      <3> QED
        BY <3>2 DEF Scopes, User, Plugin
    <2>2. IsFiniteSet(Scopes \X ItemNames)
      BY <2>1, ConfigAssumption, FS_Product
    <2> QED
      BY <2>2, FS_Subset
  <1>3. /\ files \in Seq(S) /\ Len(files) \in Nat /\ DOMAIN files = 1 .. Len(files)
        /\ \A x \in S : \E i \in 1 .. Len(files) : files[i] = x
    <2> HIDE DEF S
    <2>1. /\ files \in Seq(S) /\ Len(files) = Cardinality(S) /\ Cardinality(S) \in Nat
          /\ \A x \in S : \E i \in 1 .. Cardinality(S) : files[i] = x
      BY <1>2, SetToSeqFacts
    <2> HIDE DEF files
    <2> QED
      BY <2>1
  <1>4. /\ inode = [i \in DOMAIN files |->
                      [text |-> store[files[i][1]][files[i][2]], time |-> i, times |-> {i}]]
        /\ link = [p \in Scopes \X FileNames |->
                      IF \E i \in DOMAIN files : path(i) = p
                      THEN CHOOSE i \in DOMAIN files : path(i) = p ELSE 0]
        /\ clock = Len(files) + 1
        /\ dir = [s \in Scopes |-> IF \E n \in ItemNames : store[s][n] # NotFound
                                   THEN {clock} ELSE {}]
    BY DEF Init
  <1>5. ASSUME NEW i \in 1 .. Len(files)
        PROVE  /\ files[i][1] \in Scopes /\ files[i][2] \in ItemNames
               /\ files[i] = <<files[i][1], files[i][2]>>
               /\ store[files[i][1]][files[i][2]] \in Bodies
    <2> HIDE DEF files
    <2>1. files[i] \in S
      <3> HIDE DEF S
      <3> QED
        BY <1>3
    <2> DEFINE e == files[i]
    <2>2. e \in Scopes \X ItemNames /\ store[e[1]][e[2]] # NotFound
      BY <2>1
    <2> HIDE DEF e
    <2>3. e[1] \in Scopes /\ e[2] \in ItemNames /\ e = <<e[1], e[2]>>
      BY <2>2
    <2>4. store[e[1]] \in [ItemNames -> Bodies \cup {NotFound}]
      BY <1>1, <2>3
    <2>5. store[e[1]][e[2]] \in Bodies
      BY <2>2, <2>3, <2>4
    <2> QED
      BY <2>3, <2>5 DEF e
  <1> DEFINE n == Len(files)
  <1>6. n \in Nat /\ DOMAIN files = 1 .. n /\ clock = n + 1
    BY <1>3, <1>4
  <1> HIDE DEF n, files, S
  <1>7. inode \in Seq(File) /\ Len(inode) = n /\ DOMAIN inode = 1 .. n
    <2>1. ASSUME NEW i \in 1 .. n
          PROVE  [text |-> store[files[i][1]][files[i][2]], time |-> i, times |-> {i}] \in File
      <3> DEFINE t == store[files[i][1]][files[i][2]]
      <3>1. t \in Texts
        BY <1>5 DEF Texts, n
      <3> HIDE DEF t
      <3>2. [text |-> t, time |-> i, times |-> {i}] \in File
        BY <1>6, <3>1 DEF File
      <3> QED
        BY <3>2 DEF t
    <2> DEFINE file(i) == [text |-> store[files[i][1]][files[i][2]], time |-> i, times |-> {i}]
    <2>2. inode = [i \in 1 .. n |-> file(i)] /\ \A i \in 1 .. n : file(i) \in File
      BY <1>4, <1>6, <2>1
    <2> HIDE DEF file
    <2> QED
      BY <1>6, <2>2
  <1>8. ASSUME NEW i \in 1 .. n
        PROVE  /\ inode[i].text = store[files[i][1]][files[i][2]]
               /\ inode[i].time = i /\ inode[i].times = {i}
    BY <1>4, <1>6
  <1>9. ASSUME NEW p \in Paths
        PROVE  /\ link[p] \in 0 .. n /\ (link[p] # 0 => path(link[p]) = p)
               /\ link[p] = 0 => \A i \in 1 .. n : path(i) # p
    <2>1. CASE \E i \in 1 .. n : path(i) = p
      <3>1. link[p] = CHOOSE i \in 1 .. n : path(i) = p
        BY <1>4, <1>6, <2>1 DEF Paths
      <3> HIDE DEF path
      <3>2. link[p] \in 1 .. n /\ path(link[p]) = p
        BY <2>1, <3>1
      <3> QED
        BY <1>6, <3>2
    <2>2. CASE ~ \E i \in 1 .. n : path(i) = p
      BY <1>4, <1>6, <2>2 DEF Paths
    <2> QED
      BY <2>1, <2>2
  <1>10. DOMAIN link = Paths /\ link = [p \in Paths |-> link[p]]
    BY <1>4 DEF Paths
  <1>11. FilesType
    <2>1. link \in [Paths -> 0 .. Len(inode)]
      BY <1>7, <1>9, <1>10
    <2>2. dir \in [Scopes -> SUBSET (1 .. clock)] /\ clock \in Nat
      BY <1>4, <1>6
    <2>3. \A i \in DOMAIN inode : inode[i].time \in inode[i].times /\ inode[i].times \subseteq 1 .. clock
      BY <1>6, <1>7, <1>8
    <2> QED
      BY <1>1, <1>7, <2>1, <2>2, <2>3 DEF FilesType
  <1>12. LinksApart
    BY <1>9 DEF LinksApart
  <1>13. FileWhole
    <2> SUFFICES ASSUME NEW s \in Scopes, NEW m \in ItemNames
                 PROVE  LET i == InodeAt(s, percentEncode(m)) IN
                        IF i = 0 THEN store[s][m] = NotFound ELSE inode[i].text = store[s][m]
      BY DEF FileWhole
    <2> DEFINE p == getPathForScope(s, percentEncode(m))
               i == link[p]
    <2>1. p \in Paths /\ p = <<s, percentEncode(m)>> /\ InodeAt(s, percentEncode(m)) = i
      BY DEF Paths, FileNames, getPathForScope, InodeAt
    <2>2. CASE i = 0
      <3> SUFFICES ASSUME store[s][m] # NotFound PROVE FALSE
        BY <2>1, <2>2
      <3>1. <<s, m>> \in S
        BY DEF S
      <3>2. PICK j \in 1 .. n : files[j] = <<s, m>>
        BY <1>3, <3>1 DEF n
      <3>3. path(j) = p
        BY <3>2
      <3> QED
        BY <1>9, <2>1, <2>2, <3>3
    <2>3. CASE i # 0
      <3>1. i \in 1 .. n /\ path(i) = p
        BY <1>6, <1>9, <2>1, <2>3
      <3>2. files[i][1] \in Scopes /\ files[i][2] \in ItemNames
        BY <1>5, <3>1 DEF n
      <3>3. files[i][1] = s /\ percentEncode(files[i][2]) = percentEncode(m)
        BY <2>1, <3>1 DEF getPathForScope
      <3>4. files[i][2] = m
        BY <3>2, <3>3, NamesApart
      <3> QED
        BY <1>8, <2>1, <2>3, <3>1, <3>3, <3>4
    <2> QED
      BY <2>2, <2>3
  <1>14. DirInv
    <2> SUFFICES ASSUME NEW s \in Scopes PROVE HasLast(dir[s])
      BY DEF DirInv
    <2>1. dir[s] = {} \/ dir[s] = {clock}
      BY <1>4
    <2> QED
      BY <1>6, <2>1 DEF HasLast
  <1> QED
    BY <1>11, <1>12, <1>13, <1>14

LEMMA InitType ==
  ASSUME Init
  PROVE  TypeInv
PROOF
  <1>1. req = [r \in Requests |-> [pc |-> "unsent"]]
    BY DEF Init
  <1>2. RequestsType
    BY <1>1 DEF RequestsType
  <1> QED
    BY <1>2, InitFiles DEF TypeInv

LEMMA TypeGives ==
  ASSUME TypeInv
  PROVE  TypeOK
PROOF
  <1>1. link \in [Scopes \X FileNames -> 0 .. Len(inode)]
    BY DEF TypeInv, FilesType, Paths
  <1>2. \A r \in Requests : req[r].pc # "unsent" => req[r].at \in req[r].scope .. Plugin
    BY DEF TypeInv, RequestsType, IsRequest
  <1> QED
    BY <1>1, <1>2 DEF TypeInv, FilesType, TypeOK

\* Paths name files, modification times are those of the clock, and a read stays
\* between the asked scope and the plugin's defaults, whatever requests are sent
\* and however they interleave.
THEOREM TypeCorrect == Spec => []TypeOK
PROOF
  <1>1. Init => TypeInv
    BY InitType
  <1>2. TypeInv /\ [Next]_vars => TypeInv'
    BY StepType
  <1>3. TypeInv => TypeOK
    BY TypeGives
  <1> QED
    BY <1>1, <1>2, <1>3, PTL DEF Spec

-----------------------------------------------------------------------------
(* The files                                                               *)

LEMMA SamePath ==
  ASSUME NEW s \in Scopes, NEW t \in Scopes, NEW m \in ItemNames, NEW n \in ItemNames,
         getPathForScope(s, percentEncode(m)) = getPathForScope(t, percentEncode(n))
  PROVE  s = t /\ m = n
  BY NamesApart DEF getPathForScope

\* Nobody starts or ends to write.
SameWriters ==
  \A x \in Requests :
    /\ Writing(req'[x]) <=> Writing(req[x])
    /\ Writing(req[x]) => req'[x].fd = req[x].fd /\ PathOf(req'[x]) = PathOf(req[x])

LEMMA MovesWriters ==
  ASSUME TypeInv, NEW r \in Requests, Busy(req[r]), NEW p, Moves(r, p),
         ~Writing(req[r]), ~Writing(p)
  PROVE  SameWriters
PROOF
  <1>1. \A x \in Requests : req'[x] = IF x = r THEN p ELSE req[x]
    BY DEF Moves, TypeInv, RequestsType
  <1> QED
    BY <1>1 DEF SameWriters

LEMMA SendWriters ==
  ASSUME TypeInv, NEW r \in Requests, Send(r)
  PROVE  SameWriters
PROOF
  <1>1. PICK p : /\ Arrived(p)
                 /\ req' = [x \in Requests |->
                      IF x = r THEN p
                      ELSE IF Busy(req[x]) /\ Clash(req[x], p) THEN Disturbed(req[x]) ELSE req[x]]
    BY SendFacts
  <1>2. req[r].pc = "unsent" /\ p.pc = "resolve"
    BY <1>1, SendFacts DEF Arrived, Fresh
  <1>3. ASSUME NEW x \in Requests
        PROVE  /\ Writing(req'[x]) <=> Writing(req[x])
               /\ Writing(req[x]) => req'[x].fd = req[x].fd /\ PathOf(req'[x]) = PathOf(req[x])
    <2>1. CASE x = r
      BY <1>1, <1>2, <2>1 DEF Writing
    <2>2. CASE x # r /\ Busy(req[x]) /\ req'[x] = Disturbed(req[x])
      <3>1. IsRequest(req[x])
        BY <2>2, Sent
      <3>2. LET d == Disturbed(req[x]) IN
            /\ d.pc = req[x].pc /\ d.fd = req[x].fd /\ d.scope = req[x].scope /\ d.name = req[x].name
        BY <3>1, DisturbedFacts
      <3> QED
        BY <2>2, <3>2 DEF Writing, PathOf
    <2>3. CASE x # r /\ req'[x] = req[x]
      BY <2>3
    <2> QED
      BY <1>1, <2>1, <2>2, <2>3
  <1> QED
    BY <1>3 DEF SameWriters

LEMMA WholeKept ==
  ASSUME WholeInv, UNCHANGED <<inode, link, store, torn>>, SameWriters
  PROVE  WholeInv'
PROOF
  <1>1. LinksApart'
    BY DEF WholeInv, LinksApart
  <1>2. WriterInv'
    BY DEF WholeInv, WriterInv, SameWriters
  <1>3. FileWhole'
    <2> SUFFICES ASSUME NEW s \in Scopes, NEW n \in ItemNames
                 PROVE  LET i == InodeAt(s, percentEncode(n)) IN
                        IF i = 0 THEN store[s][n] = NotFound
                        ELSE \/ i \in torn
                             \/ \E r \in Requests : req'[r].pc = "write" /\ req'[r].fd = i
                             \/ inode[i].text = store[s][n]
      BY DEF FileWhole, InodeAt
    <2>1. LET i == InodeAt(s, percentEncode(n)) IN
          IF i = 0 THEN store[s][n] = NotFound
          ELSE \/ i \in torn
               \/ \E r \in Requests : req[r].pc = "write" /\ req[r].fd = i
               \/ inode[i].text = store[s][n]
      BY DEF WholeInv, FileWhole
    <2>2. \A i : (\E r \in Requests : req[r].pc = "write" /\ req[r].fd = i)
                   => \E r \in Requests : req'[r].pc = "write" /\ req'[r].fd = i
      BY DEF SameWriters, Writing
    <2> QED
      BY <2>1, <2>2
  <1> QED
    BY <1>1, <1>2, <1>3 DEF WholeInv

\* A file that is deleted has no path, and its name nothing under it.
LEMMA UnlinkWhole ==
  ASSUME TypeInv, WholeInv, NEW s \in Scopes, NEW f \in FileNames, Unlink(s, f),
         UNCHANGED <<inode, torn>>, SameWriters
  PROVE  WholeInv'
PROOF
  <1> DEFINE path == getPathForScope(s, f)
  <1>1. path \in Paths /\ path = <<s, f>>
    BY DEF Paths, getPathForScope
  <1>2. /\ link' = [link EXCEPT ![path] = 0]
        /\ store' = [store EXCEPT ![s] = [n \in ItemNames |-> IF percentEncode(n) = f THEN NotFound ELSE store[s][n]]]
    BY DEF Unlink
  <1>3. link \in [Paths -> 0 .. Len(inode)] /\ store \in [Scopes -> [ItemNames -> Bodies \cup {NotFound}]]
    BY DEF TypeInv, FilesType
  <1>4. \A p \in Paths : link'[p] = IF p = path THEN 0 ELSE link[p]
    BY <1>2, <1>3
  <1>5. \A t \in Scopes, n \in ItemNames :
          store'[t][n] = IF t = s /\ percentEncode(n) = f THEN NotFound ELSE store[t][n]
    BY <1>2, <1>3
  <1>6. LinksApart'
    BY <1>4 DEF WholeInv, LinksApart
  <1>7. WriterInv'
    <2> SUFFICES ASSUME NEW r \in Requests, Writing(req'[r])
                 PROVE  LET q == req'[r] IN
                        /\ q.fd \in DOMAIN inode
                        /\ \A p \in Paths : link'[p] = q.fd => p = PathOf(q)
                        /\ \A x \in Requests \ {r} : Writing(req'[x]) /\ req'[x].fd = q.fd => q.fd \in torn
                        /\ q.fd \notin torn => inode[q.fd].text = Empty
      BY DEF WriterInv
    <2>1. Writing(req[r]) /\ req'[r].fd = req[r].fd /\ PathOf(req'[r]) = PathOf(req[r])
      BY DEF SameWriters
    <2>2. req[r].fd # 0
      BY <2>1 DEF Writing, TypeInv, RequestsType, IsRequest, Stage
    <2> QED
      BY <1>4, <2>1, <2>2 DEF WholeInv, WriterInv, SameWriters
  <1>8. FileWhole'
    <2> SUFFICES ASSUME NEW t \in Scopes, NEW n \in ItemNames
                 PROVE  LET i == link'[getPathForScope(t, percentEncode(n))] IN
                        IF i = 0 THEN store'[t][n] = NotFound
                        ELSE \/ i \in torn
                             \/ \E r \in Requests : req'[r].pc = "write" /\ req'[r].fd = i
                             \/ inode[i].text = store'[t][n]
      BY DEF FileWhole, InodeAt
    <2> DEFINE p == getPathForScope(t, percentEncode(n))
    <2>1. p \in Paths /\ p = <<t, percentEncode(n)>>
      BY DEF Paths, FileNames, getPathForScope
    <2>2. CASE p = path
      BY <1>1, <1>4, <1>5, <2>1, <2>2
    <2>3. CASE p # path
      <3>1. link'[p] = link[p] /\ store'[t][n] = store[t][n]
        BY <1>1, <1>4, <1>5, <2>1, <2>3
      <3>2. LET i == link[p] IN
            IF i = 0 THEN store[t][n] = NotFound
            ELSE \/ i \in torn
                 \/ \E r \in Requests : req[r].pc = "write" /\ req[r].fd = i
                 \/ inode[i].text = store[t][n]
        BY DEF WholeInv, FileWhole, InodeAt
      <3>3. \A i : (\E r \in Requests : req[r].pc = "write" /\ req[r].fd = i)
                     => \E r \in Requests : req'[r].pc = "write" /\ req'[r].fd = i
        BY DEF SameWriters, Writing
      <3> QED
        BY <3>1, <3>2, <3>3
    <2> QED
      BY <2>2, <2>3
  <1> QED
    BY <1>6, <1>7, <1>8 DEF WholeInv

\* open with "w": the file is there, empty, and newer than all others.
Opens(r) ==
  LET q == req[r]
      i == link[PathOf(q)]
      fd == IF i = 0 THEN Len(inode) + 1 ELSE i IN
  /\ q.op = "put" /\ q.pc = "checked"
  /\ fd \in DOMAIN inode' /\ DOMAIN inode \subseteq DOMAIN inode' /\ (i = 0 => fd \notin DOMAIN inode)
  /\ \A k \in DOMAIN inode : k # fd => inode'[k] = inode[k]
  /\ inode'[fd].text = Empty /\ inode'[fd].time = clock + 1
  /\ \A p \in Paths : link'[p] = IF p = PathOf(q) THEN fd ELSE link[p]
  /\ \/ (\E x \in Requests : Writing(req[x]) /\ req[x].fd = fd) /\ torn' = torn \cup {fd}
     \/ ~(\E x \in Requests : Writing(req[x]) /\ req[x].fd = fd) /\ torn' = torn \ {fd}
  /\ UNCHANGED <<policy, store>> /\ clock' = clock + 1
  /\ \E p : Moves(r, p) /\ p.pc = "write" /\ p.missed = q.missed /\ p.fd = fd

LEMMA openForWritingOpens ==
  ASSUME TypeInv, NEW r \in Requests, Busy(req[r]), openForWriting(r)
  PROVE  Opens(r)
PROOF
  <1> DEFINE q == req[r]
             path == PathOf(q)
             i == link[path]
             fd == IF i = 0 THEN Len(inode) + 1 ELSE i
             file == Touched(i, TextAtOpen(i))
  <1>1. /\ IsRequest(q) /\ clock \in Nat /\ Len(inode) \in Nat /\ DOMAIN inode = 1 .. Len(inode)
        /\ q.op = "put" /\ q.pc = "checked"
    BY Sent, FilesFacts DEF openForWriting
  <1>2. path \in Paths
    BY <1>1, PathFacts
  <1>3. link \in [Paths -> 0 .. Len(inode)] /\ i \in 0 .. Len(inode) /\ torn \subseteq 1 .. Len(inode)
    BY <1>1, <1>2 DEF TypeInv, FilesType
  <1>4. TextAtOpen(i) = Empty /\ TextAtOpen(i) \in Texts
    BY DEF TextAtOpen, Texts
  <1>5. /\ inode' = IF i = 0 THEN Append(inode, file) ELSE [inode EXCEPT ![i] = file]
        /\ link' = [link EXCEPT ![path] = fd]
        /\ clock' = clock + 1
        /\ torn' = IF \E x \in Requests : req[x].pc = "write" /\ req[x].fd = i
                   THEN torn \cup {i} ELSE torn \ {i}
        /\ UNCHANGED <<policy, faults, store>>
    BY DEF openForWriting, PathOf
  <1>6. /\ fd \in DOMAIN inode' /\ DOMAIN inode \subseteq DOMAIN inode' /\ (i = 0 => fd \notin DOMAIN inode)
        /\ \A k \in DOMAIN inode : k # fd => inode'[k] = inode[k]
        /\ inode'[fd].text = Empty /\ inode'[fd].time = clock + 1
    <2>1. CASE i = 0
      <3>1. inode' = Append(inode, Touched(0, TextAtOpen(i)))
        BY <1>5, <2>1
      <3>2. /\ inode' \in Seq(File) /\ Len(inode') = Len(inode) + 1
            /\ \A k \in DOMAIN inode : inode'[k] = inode[k]
            /\ inode'[Len(inode) + 1].text = TextAtOpen(i) /\ inode'[Len(inode) + 1].time = clock'
        BY <1>4, <1>5, <3>1, CreateType
      <3>3. DOMAIN inode' = 1 .. Len(inode) + 1
        BY <3>2
      <3> QED
        BY <1>1, <1>4, <1>5, <2>1, <3>2, <3>3
    <2>2. CASE i # 0
      <3>1. inode' = [inode EXCEPT ![i] = Touched(i, TextAtOpen(i))] /\ i \in DOMAIN inode
        BY <1>1, <1>3, <1>5, <2>2
      <3>2. /\ DOMAIN inode' = DOMAIN inode
            /\ inode'[i].text = TextAtOpen(i) /\ inode'[i].time = clock'
        BY <1>4, <1>5, <3>1, RewriteType
      <3> QED
        BY <1>4, <1>5, <2>2, <3>1, <3>2
    <2> QED
      BY <2>1, <2>2
  <1>7. \A p \in Paths : link'[p] = IF p = path THEN fd ELSE link[p]
    BY <1>3, <1>5
  <1>8. \/ (\E x \in Requests : Writing(req[x]) /\ req[x].fd = fd) /\ torn' = torn \cup {fd}
        \/ ~(\E x \in Requests : Writing(req[x]) /\ req[x].fd = fd) /\ torn' = torn \ {fd}
    <2>1. \A x \in Requests : Writing(req[x]) => req[x].fd \in Nat /\ req[x].fd # 0 /\ req[x].fd <= Len(inode)
      BY DEF Writing, TypeInv, RequestsType, IsRequest, Stage
    <2>2. CASE i = 0
      <3>1. fd \notin torn /\ 0 \notin torn /\ fd = Len(inode) + 1
        BY <1>1, <1>3, <2>2
      <3>2. ~(\E x \in Requests : Writing(req[x]) /\ req[x].fd = fd)
        BY <1>1, <2>1, <3>1
      <3>3. ~(\E x \in Requests : req[x].pc = "write" /\ req[x].fd = i)
        BY <2>1, <2>2 DEF Writing
      <3>4. torn' = torn
        BY <1>5, <2>2, <3>1, <3>3
      <3> QED
        BY <3>1, <3>2, <3>4
    <2>3. CASE i # 0
      BY <1>5, <2>3 DEF Writing
    <2> QED
      BY <2>2, <2>3
  <1>9. \E p : Moves(r, p) /\ p.pc = "write" /\ p.missed = q.missed /\ p.fd = fd
    BY openForWritingMoves
  <1> QED
    BY <1>1, <1>5, <1>6, <1>7, <1>8, <1>9 DEF Opens

LEMMA OpenWhole ==
  ASSUME TypeInv, WholeInv, NEW r \in Requests, Busy(req[r]), Opens(r)
  PROVE  WholeInv'
PROOF
  <1> DEFINE q == req[r]
             path == PathOf(q)
             i == link[path]
             fd == IF i = 0 THEN Len(inode) + 1 ELSE i
  <1>1. /\ q.op = "put" /\ q.pc = "checked" /\ store' = store
        /\ fd \in DOMAIN inode' /\ DOMAIN inode \subseteq DOMAIN inode' /\ (i = 0 => fd \notin DOMAIN inode)
        /\ \A k \in DOMAIN inode : k # fd => inode'[k] = inode[k]
        /\ inode'[fd].text = Empty
        /\ \A p \in Paths : link'[p] = IF p = path THEN fd ELSE link[p]
    BY DEF Opens
  <1>2. \/ (\E x \in Requests : Writing(req[x]) /\ req[x].fd = fd) /\ torn' = torn \cup {fd}
        \/ ~(\E x \in Requests : Writing(req[x]) /\ req[x].fd = fd) /\ torn' = torn \ {fd}
    BY DEF Opens
  <1>3. PICK p : Moves(r, p) /\ p.pc = "write" /\ p.fd = fd
    BY DEF Opens
  <1>4. DOMAIN inode = 1 .. Len(inode) /\ Len(inode) \in Nat /\ \A u \in Paths : link[u] \in 0 .. Len(inode)
    BY FilesFacts DEF TypeInv, FilesType
  <1>5. IsRequest(q) /\ path \in Paths
    BY Sent, PathFacts
  <1>6. PathOf(p) = path /\ \A x \in Requests : req'[x] = IF x = r THEN p ELSE req[x]
    BY <1>3 DEF Moves, Same, PathOf, TypeInv, RequestsType
  <1>7. fd # 0 /\ \A u \in Paths : link[u] = fd => u = path
    <2>1. CASE i = 0
      BY <1>4, <2>1
    <2>2. CASE i # 0
      BY <1>5, <2>2 DEF WholeInv, LinksApart
    <2> QED
      BY <2>1, <2>2
  <1> HIDE DEF fd, i, path, q
  <1>8. ASSUME NEW x \in Requests, Writing(req[x])
        PROVE  req[x].fd \in DOMAIN inode /\ x # r
    BY <1>1, <1>8 DEF WholeInv, WriterInv, Writing, q
  <1>9. LinksApart'
    BY <1>1, <1>7 DEF WholeInv, LinksApart
  <1>10. WriterInv'
    <2> SUFFICES ASSUME NEW x \in Requests, Writing(req'[x])
                 PROVE  LET z == req'[x] IN
                        /\ z.fd \in DOMAIN inode'
                        /\ \A u \in Paths : link'[u] = z.fd => u = PathOf(z)
                        /\ \A y \in Requests \ {x} : Writing(req'[y]) /\ req'[y].fd = z.fd => z.fd \in torn'
                        /\ z.fd \notin torn' => inode'[z.fd].text = Empty
      BY DEF WriterInv
    <2>1. CASE x = r
      <3>1. req'[x] = p
        BY <1>6, <2>1
      <3>2. \A y \in Requests \ {x} : Writing(req'[y]) /\ req'[y].fd = fd => fd \in torn'
        BY <1>2, <1>6, <2>1
      <3> QED
        BY <1>1, <1>3, <1>6, <1>7, <3>1, <3>2
    <2>2. CASE x # r
      <3>1. req'[x] = req[x]
        BY <1>6, <2>2
      <3>2. /\ req[x].fd \in DOMAIN inode
            /\ \A u \in Paths : link[u] = req[x].fd => u = PathOf(req[x])
            /\ \A y \in Requests \ {x} : Writing(req[y]) /\ req[y].fd = req[x].fd => req[x].fd \in torn
            /\ req[x].fd \notin torn => inode[req[x].fd].text = Empty
        BY <3>1 DEF WholeInv, WriterInv
      <3>3. CASE req[x].fd = fd
        <4>1. fd \in torn'
          BY <1>2, <3>1, <3>3
        <4>2. \A u \in Paths : link'[u] = fd => u = PathOf(req[x])
          <5>1. i # 0
            BY <1>1, <3>2, <3>3
          <5>2. link[path] = fd
            BY <5>1 DEF fd, i
          <5> QED
            BY <1>1, <1>5, <1>7, <3>2, <3>3, <5>2
        <4> QED
          BY <1>1, <3>1, <3>3, <4>1, <4>2
      <3>4. CASE req[x].fd # fd
        <4>1. req[x].fd \in torn' <=> req[x].fd \in torn
          BY <1>2, <3>4
        <4>2. \A y \in Requests \ {x} : Writing(req'[y]) /\ req'[y].fd = req[x].fd => req[x].fd \in torn'
          BY <1>3, <1>6, <3>2, <3>4, <4>1
        <4>3. \A u \in Paths : link'[u] = req[x].fd => u = PathOf(req[x])
          BY <1>1, <3>2, <3>4
        <4> QED
          BY <1>1, <3>1, <3>2, <3>4, <4>1, <4>2, <4>3
      <3> QED
        BY <3>3, <3>4
    <2> QED
      BY <2>1, <2>2
  <1>11. FileWhole'
    <2> SUFFICES ASSUME NEW t \in Scopes, NEW n \in ItemNames
                 PROVE  LET j == link'[getPathForScope(t, percentEncode(n))] IN
                        IF j = 0 THEN store[t][n] = NotFound
                        ELSE \/ j \in torn'
                             \/ \E x \in Requests : req'[x].pc = "write" /\ req'[x].fd = j
                             \/ inode'[j].text = store[t][n]
      BY <1>1 DEF FileWhole, InodeAt
    <2> DEFINE u == getPathForScope(t, percentEncode(n))
    <2>1. u \in Paths
      BY DEF Paths, FileNames, getPathForScope
    <2>2. CASE u = path
      <3>1. link'[u] = fd
        BY <1>1, <2>1, <2>2
      <3>2. req'[r].pc = "write" /\ req'[r].fd = fd
        BY <1>3, <1>6
      <3> QED
        BY <1>7, <3>1, <3>2
    <2>3. CASE u # path
      <3> DEFINE j == link[u]
      <3>1. link'[u] = j /\ j # fd
        BY <1>1, <1>7, <2>1, <2>3
      <3>2. IF j = 0 THEN store[t][n] = NotFound
            ELSE \/ j \in torn
                 \/ \E x \in Requests : req[x].pc = "write" /\ req[x].fd = j
                 \/ inode[j].text = store[t][n]
        BY DEF WholeInv, FileWhole, InodeAt
      <3>3. j \in 0 .. Len(inode)
        BY <1>4, <2>1
      <3> HIDE DEF j
      <3>4. ASSUME j # 0, \E x \in Requests : req[x].pc = "write" /\ req[x].fd = j
            PROVE  \E x \in Requests : req'[x].pc = "write" /\ req'[x].fd = j
        BY <1>6, <1>8, <3>4 DEF Writing
      <3>5. j # 0 => inode'[j] = inode[j] /\ (j \in torn => j \in torn')
        BY <1>1, <1>2, <1>4, <3>1, <3>3
      <3> QED
        BY <3>1, <3>2, <3>4, <3>5 DEF j
    <2> QED
      BY <2>2, <2>3
  <1> QED
    BY <1>9, <1>10, <1>11 DEF WholeInv

LEMMA WriteWhole ==
  ASSUME TypeInv, WholeInv, NEW r \in Requests, Busy(req[r]), writeCallback(r)
  PROVE  WholeInv'
PROOF
  <1> DEFINE q == req[r]
             path == PathOf(q)
             fd == q.fd
  <1>1. /\ q.op = "put" /\ q.pc = "write" /\ fd \in DOMAIN inode /\ q.body \in Bodies
        /\ clock' = clock + 1 /\ UNCHANGED <<policy, link, dir>>
    BY writeCallbackCases
  <1>2. PICK text \in Texts :
          /\ inode' = [inode EXCEPT ![fd] = Touched(fd, text)]
          /\ \/ /\ inode[fd].text = Empty => text = q.body
                /\ store' = IF InodeAt(q.scope, percentEncode(q.name)) = fd
                            THEN [store EXCEPT ![q.scope][q.name] = q.body] ELSE store
                /\ UNCHANGED <<faults, torn>>
             \/ torn' = torn \cup {fd} /\ store' = store
    BY writeCallbackCases
  <1>3. DOMAIN inode' = DOMAIN inode /\ inode'[fd].text = text /\ \A k \in DOMAIN inode : k # fd => inode'[k] = inode[k]
    <2>1. DOMAIN inode' = DOMAIN inode /\ inode'[fd].text = text
      BY <1>1, <1>2, RewriteType
    <2> QED
      BY <1>2, <2>1
  <1>4. PICK p : Moves(r, p) /\ ~Writing(p)
    BY writeCallbackMoves DEF Writing
  <1>5. \A x \in Requests : req'[x] = IF x = r THEN p ELSE req[x]
    BY <1>4 DEF Moves, TypeInv, RequestsType
  <1>6. IsRequest(q) /\ path \in Paths /\ q.scope \in Scopes /\ q.name \in ItemNames
    BY Sent, PathFacts DEF IsRequest
  <1>7. /\ \A u \in Paths : link[u] = fd => u = path
        /\ \A x \in Requests \ {r} : Writing(req[x]) /\ req[x].fd = fd => fd \in torn
        /\ fd \notin torn => inode[fd].text = Empty
    BY <1>1 DEF WholeInv, WriterInv, Writing
  <1>8. path = getPathForScope(q.scope, percentEncode(q.name)) /\ InodeAt(q.scope, percentEncode(q.name)) = link[path]
    BY DEF PathOf, InodeAt
  <1>9. fd # 0
    BY <1>1, FilesFacts
  <1>10. torn \subseteq torn' /\ \A k : k # fd /\ k \in torn' => k \in torn
    BY <1>2
  <1>11. ASSUME NEW t \in Scopes, NEW n \in ItemNames, store'[t][n] # store[t][n]
         PROVE  /\ t = q.scope /\ n = q.name /\ link[path] = fd /\ store'[t][n] = q.body
                /\ inode[fd].text = Empty => text = q.body
    <2>1. store \in [Scopes -> [ItemNames -> Bodies \cup {NotFound}]]
      BY DEF TypeInv, FilesType
    <2> QED
      BY <1>2, <1>6, <1>8, <1>11, <2>1
  <1>12. LinksApart'
    BY <1>1 DEF WholeInv, LinksApart
  <1>13. WriterInv'
    <2> SUFFICES ASSUME NEW x \in Requests, Writing(req'[x])
                 PROVE  LET z == req'[x] IN
                        /\ z.fd \in DOMAIN inode'
                        /\ \A u \in Paths : link'[u] = z.fd => u = PathOf(z)
                        /\ \A y \in Requests \ {x} : Writing(req'[y]) /\ req'[y].fd = z.fd => z.fd \in torn'
                        /\ z.fd \notin torn' => inode'[z.fd].text = Empty
      BY DEF WriterInv
    <2> HIDE DEF q, fd, path
    <2>1. x # r /\ req'[x] = req[x]
      BY <1>4, <1>5
    <2>2. /\ req[x].fd \in DOMAIN inode
          /\ \A u \in Paths : link[u] = req[x].fd => u = PathOf(req[x])
          /\ \A y \in Requests \ {x} : Writing(req[y]) /\ req[y].fd = req[x].fd => req[x].fd \in torn
          /\ req[x].fd \notin torn => inode[req[x].fd].text = Empty
      BY <2>1 DEF WholeInv, WriterInv
    <2>3. \A y \in Requests \ {x} : Writing(req'[y]) /\ req'[y].fd = req[x].fd => req[x].fd \in torn'
      BY <1>4, <1>5, <1>10, <2>2
    <2>4. req[x].fd = fd => fd \in torn'
      BY <1>7, <1>10, <2>1
    <2>5. req[x].fd \notin torn' => inode'[req[x].fd].text = Empty
      BY <1>3, <1>10, <2>2, <2>4
    <2> QED
      BY <1>1, <1>3, <2>1, <2>2, <2>3, <2>5
  <1>14. FileWhole'
    <2> SUFFICES ASSUME NEW t \in Scopes, NEW n \in ItemNames
                 PROVE  LET j == link[getPathForScope(t, percentEncode(n))] IN
                        IF j = 0 THEN store'[t][n] = NotFound
                        ELSE \/ j \in torn'
                             \/ \E x \in Requests : req'[x].pc = "write" /\ req'[x].fd = j
                             \/ inode'[j].text = store'[t][n]
      BY <1>1 DEF FileWhole, InodeAt
    <2> DEFINE u == getPathForScope(t, percentEncode(n))
               j == link[u]
    <2>1. u \in Paths /\ j \in 0 .. Len(inode) /\ DOMAIN inode = 1 .. Len(inode) /\ Len(inode) \in Nat
      BY FilesFacts DEF Paths, FileNames, getPathForScope, InodeAt
    <2>2. IF j = 0 THEN store[t][n] = NotFound
          ELSE \/ j \in torn
               \/ \E x \in Requests : req[x].pc = "write" /\ req[x].fd = j
               \/ inode[j].text = store[t][n]
      BY DEF WholeInv, FileWhole, InodeAt
    <2>3. CASE j = fd
      <3>1. u = path
        BY <1>7, <2>1, <2>3
      <3>2. t = q.scope /\ n = q.name
        BY <1>6, <1>8, <3>1, SamePath
      <3>3. CASE fd \in torn'
        BY <1>9, <2>3, <3>3
      <3>4. CASE fd \notin torn'
        <4>1. fd \notin torn /\ inode[fd].text = Empty
          BY <1>7, <1>10, <3>4
        <4>2. store' = [store EXCEPT ![q.scope][q.name] = q.body] /\ text = q.body
          BY <1>2, <1>8, <2>3, <3>1, <3>4, <4>1
        <4>3. store'[t][n] = q.body
          <5>1. store \in [Scopes -> [ItemNames -> Bodies \cup {NotFound}]]
            BY DEF TypeInv, FilesType
          <5> QED
            BY <1>6, <3>2, <4>2, <5>1
        <4> QED
          BY <1>3, <1>9, <2>3, <4>2, <4>3
      <3> QED
        BY <3>3, <3>4
    <2>4. CASE j # fd
      <3>1. store'[t][n] = store[t][n]
        BY <1>8, <1>11, <2>4
      <3> HIDE DEF j, q, fd, u
      <3>2. (\E x \in Requests : req[x].pc = "write" /\ req[x].fd = j)
              => \E x \in Requests : req'[x].pc = "write" /\ req'[x].fd = j
        BY <1>5, <2>4 DEF fd, q
      <3>3. j # 0 => inode'[j] = inode[j]
        BY <1>3, <2>1, <2>4
      <3> QED
        BY <1>10, <2>2, <3>1, <3>2, <3>3 DEF j, u
    <2> QED
      BY <2>3, <2>4
  <1> QED
    BY <1>12, <1>13, <1>14 DEF WholeInv

LEMMA StepWhole ==
  ASSUME TypeInv, WholeInv, [Next]_vars
  PROVE  WholeInv'
PROOF
  <1>1. CASE UNCHANGED vars
    <2>1. SameWriters /\ UNCHANGED <<inode, link, store, torn>>
      BY <1>1 DEF SameWriters, vars
    <2> QED
      BY <2>1, WholeKept
  <1>2. CASE Next
    <2>1. PICK r \in Requests :
           \/ Send(r)
           \/ /\ Busy(req[r])
              /\ \/ determineResource(r) \/ Reads(r)
                 \/ restCheckModifiedTimestamp(r) \/ openForWriting(r) \/ writeCallback(r) \/ putDone(r)
                 \/ checkResourceModifiedTimestamp(r) \/ Deletes(r)
      BY <1>2, Steps
    <2>2. CASE Send(r)
      BY <2>2, SendFacts, SendWriters, WholeKept DEF ReadOnly
    <2>3. ASSUME Busy(req[r]), NEW p, Moves(r, p), ~Writing(req[r]), ~Writing(p),
                 UNCHANGED <<inode, link, store, torn>>
          PROVE  WholeInv'
      BY <2>3, MovesWriters, WholeKept
    <2>4. ASSUME Busy(req[r]), req[r].op # "put" PROVE ~Writing(req[r]) /\ \A p : Moves(r, p) => ~Writing(p)
      BY <2>4, Sent DEF Moves, Same, IsRequest, Stage, Writing
    <2>5. CASE Busy(req[r]) /\ determineResource(r)
      <3> DEFINE p == [req[r] EXCEPT !.pc = "start"]
      <3>1. Moves(r, p) /\ UNCHANGED <<inode, link, store, torn>>
        BY <2>5, determineResourceMoves
      <3>2. req[r].pc = "resolve" /\ p.pc = "start"
        BY <2>5, Sent DEF determineResource, Fields
      <3> HIDE DEF p
      <3> QED
        BY <2>3, <2>5, <3>1, <3>2 DEF Writing
    <2>6. CASE Busy(req[r]) /\ Reads(r)
      BY <2>3, <2>4, <2>6 DEF Reads, ReadOnly, Writer
    <2>7. CASE Busy(req[r]) /\ restCheckModifiedTimestamp(r)
      <3>1. req[r].pc = "start" /\ UNCHANGED <<inode, link, store, torn>>
        BY <2>7 DEF restCheckModifiedTimestamp, ReadOnly
      <3>2. \E p : Moves(r, p) /\ p.pc \in {"checked", "done"}
        BY <2>7, restCheckMoves
      <3> QED
        BY <2>3, <2>7, <3>1, <3>2 DEF Writing
    <2>8. CASE Busy(req[r]) /\ putDone(r)
      <3>1. req[r].pc = "stat" /\ UNCHANGED <<inode, link, store, torn>>
        BY <2>8 DEF putDone, ReadOnly
      <3>2. \E p : Moves(r, p) /\ p.pc = "done"
        BY <2>8, putDoneMoves
      <3> QED
        BY <2>3, <2>8, <3>1, <3>2 DEF Writing
    <2>9. CASE Busy(req[r]) /\ checkResourceModifiedTimestamp(r)
      <3>1. req[r].op # "put" /\ UNCHANGED <<inode, link, store, torn>>
        BY <2>9 DEF checkResourceModifiedTimestamp, ReadOnly
      <3>2. \E p : Moves(r, p)
        BY <2>9, checkResourceMoves
      <3> QED
        BY <2>3, <2>4, <2>9, <3>1, <3>2
    <2>10. CASE Busy(req[r]) /\ Deletes(r)
      <3>1. PICK p : Moves(r, p)
        BY <2>10 DEF Deletes
      <3>2. req[r].op # "put" /\ UNCHANGED <<policy, inode, faults, torn>> /\ IsRequest(req[r])
        BY <2>10, Sent DEF Deletes
      <3>3. ~Writing(req[r]) /\ ~Writing(p)
        BY <2>4, <2>10, <3>1, <3>2
      <3>4. CASE KeepFiles
        BY <2>3, <2>10, <3>1, <3>2, <3>3, <3>4 DEF KeepFiles
      <3>5. ASSUME NEW f \in {percentEncode(n) : n \in Names(req[r])}, Unlink(req[r].scope, f) PROVE WholeInv'
        <4>1. f \in FileNames /\ req[r].scope \in Scopes
          BY <3>2 DEF Names, FileNames, IsRequest
        <4>2. SameWriters
          BY <2>10, <3>1, <3>3, MovesWriters
        <4> QED
          BY <3>2, <3>5, <4>1, <4>2, UnlinkWhole
      <3> QED
        BY <2>10, <3>4, <3>5 DEF Deletes
    <2>11. CASE Busy(req[r]) /\ openForWriting(r)
      BY <2>11, openForWritingOpens, OpenWhole
    <2>12. CASE Busy(req[r]) /\ writeCallback(r)
      BY <2>12, WriteWhole
    <2> QED
      BY <2>1, <2>2, <2>5, <2>6, <2>7, <2>8, <2>9, <2>10, <2>11, <2>12
  <1> QED
    BY <1>1, <1>2

\* A file nobody is writing holds exactly the object of the last PUT under its
\* name, except after overlapping PUTs of that name or a failed write, however
\* many PUTs, deletions and reads interleave at every call of fs.
THEOREM FilesWhole == Spec => []FileWhole
PROOF
  <1>1. Init => TypeInv /\ WholeInv
    <2> SUFFICES ASSUME Init PROVE TypeInv /\ WholeInv
      OBVIOUS
    <2>1. \A r \in Requests : ~Writing(req[r])
      BY DEF Init, Writing
    <2> QED
      BY <2>1, InitType, InitFiles DEF WholeInv, WriterInv
  <1>2. TypeInv /\ WholeInv /\ [Next]_vars => TypeInv' /\ WholeInv'
    BY StepType, StepWhole
  <1>3. WholeInv => FileWhole
    BY DEF WholeInv
  <1> QED
    BY <1>1, <1>2, <1>3, PTL DEF Spec
=============================================================================
