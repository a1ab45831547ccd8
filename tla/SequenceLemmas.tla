--------------------------- MODULE SequenceLemmas ---------------------------
(***************************************************************************)
(* Lemmas about what the modules are built from: sequences of which one    *)
(* element is put in or taken out, and values computed one after another,  *)
(* as recursive functions do.                                              *)
(***************************************************************************)
EXTENDS Integers, SequencesExt, SequenceTheorems, WellFoundedInduction, TLAPS

\* A set of natural numbers that has an element has a smallest one.
LEMMA Smallest ==
    ASSUME NEW T \in SUBSET Nat, T # {}
    PROVE  \E x \in T : \A y \in T : x <= y
<1>1. PICK x \in T : \A y \in T : ~ (<<y, x>> \in OpToRel(<, Nat))
    BY NatLessThanWellFounded, WFMin
<1>2. \A y \in T : <<y, x>> \in OpToRel(<, Nat) <=> y < x
    BY DEF OpToRel
<1>3. \A y \in T : ~ (y < x)
    BY <1>1, <1>2, Zenon
<1> HIDE <1>1, <1>2
<1> QED BY <1>3, SMT

\* What InsertAt makes of a sequence, element by element.
LEMMA InsertAtElements ==
    ASSUME NEW S, NEW s \in Seq(S), NEW e \in S, NEW p \in 1..(Len(s) + 1)
    PROVE  /\ InsertAt(s, p, e) \in Seq(S)
           /\ Len(InsertAt(s, p, e)) = Len(s) + 1
           /\ \A i \in 1..(Len(s) + 1) :
                 InsertAt(s, p, e)[i] = IF i < p THEN s[i] ELSE IF i = p THEN e ELSE s[i - 1]
<1> DEFINE a == SubSeq(s, 1, p - 1)
           b == SubSeq(s, p, Len(s))
           ae == a \o <<e>>
           w == ae \o b
<1>1. DOMAIN s = 1..Len(s) /\ Len(s) \in Nat /\ \A i \in 1..Len(s) : s[i] \in S
    BY LenProperties, ElementOfSeq
<1>2. /\ a \in Seq(S) /\ Len(a) = p - 1
      /\ \A i \in 1..(p - 1) : a[i] = s[i]
    <2>1. \A i \in 1..(p - 1) : s[i] \in S
        BY <1>1
    <2>2. p - 1 \in Int /\ (1 <= p - 1 \/ p - 1 = 0)
        BY <1>1
    <2> QED BY <2>1, <2>2, SubSeqProperties
<1>3. /\ b \in Seq(S) /\ Len(b) = Len(s) - p + 1
      /\ \A i \in 1..(Len(s) - p + 1) : b[i] = s[p + i - 1]
    <2>1. \A i \in p..Len(s) : s[i] \in S
        BY <1>1
    <2>2. p \in Int /\ Len(s) \in Int /\ (p <= Len(s) \/ p = Len(s) + 1)
        BY <1>1
    <2> QED BY <1>1, <2>1, <2>2, SubSeqProperties
<1>4. <<e>> \in Seq(S) /\ Len(<<e>>) = 1 /\ <<e>>[1] = e
    OBVIOUS
<1> HIDE DEF a, b
<1>5. /\ ae \in Seq(S)
      /\ Len(ae) = p
      /\ \A i \in 1..p : ae[i] = IF i < p THEN s[i] ELSE e
    <2>1. /\ ae \in Seq(S)
          /\ Len(ae) = Len(a) + 1
          /\ \A i \in 1..(Len(a) + 1) :
                ae[i] = IF i <= Len(a) THEN a[i] ELSE <<e>>[i - Len(a)]
        BY <1>2, <1>4, ConcatProperties
    <2> QED BY <1>1, <1>2, <1>4, <2>1
<1> HIDE DEF ae
<1>6. /\ w \in Seq(S)
      /\ Len(w) = Len(ae) + Len(b)
      /\ \A i \in 1..(Len(ae) + Len(b)) : w[i] = IF i <= Len(ae) THEN ae[i] ELSE b[i - Len(ae)]
    BY <1>3, <1>5, ConcatProperties
<1> HIDE DEF w
<1>7. /\ w \in Seq(S)
      /\ Len(w) = Len(s) + 1
      /\ \A i \in 1..(Len(s) + 1) : w[i] = IF i < p THEN s[i] ELSE IF i = p THEN e ELSE s[i - 1]
    <2>1. Len(w) = Len(s) + 1
        BY <1>1, <1>3, <1>5, <1>6
    <2>2. ASSUME NEW i \in 1..(Len(s) + 1)
          PROVE  w[i] = IF i < p THEN s[i] ELSE IF i = p THEN e ELSE s[i - 1]
        <3>1. CASE i <= p
            BY <1>1, <1>3, <1>5, <1>6, <3>1
        <3>2. CASE i > p
            <4>1. i - p \in 1..(Len(s) - p + 1)
                BY <1>1, <3>2
            <4>2. w[i] = b[i - p]
                BY <1>1, <1>3, <1>5, <1>6, <3>2
            <4>3. b[i - p] = s[p + (i - p) - 1]
                BY <1>3, <4>1
            <4>4. p + (i - p) - 1 = i - 1
                BY <1>1
            <4> QED BY <1>1, <3>2, <4>2, <4>3, <4>4
        <3> QED BY <1>1, <3>1, <3>2
    <2> QED BY <1>6, <2>1, <2>2
<1> QED BY <1>7 DEF w, ae, a, b, InsertAt

\* What RemoveAt makes of a sequence, element by element.
LEMMA RemoveAtElements ==
    ASSUME NEW S, NEW s \in Seq(S), NEW p \in 1..Len(s)
    PROVE  /\ RemoveAt(s, p) \in Seq(S)
           /\ Len(RemoveAt(s, p)) = Len(s) - 1
           /\ \A i \in 1..(Len(s) - 1) : RemoveAt(s, p)[i] = IF i < p THEN s[i] ELSE s[i + 1]
<1> DEFINE a == SubSeq(s, 1, p - 1)
           b == SubSeq(s, p + 1, Len(s))
           w == a \o b
<1>1. DOMAIN s = 1..Len(s) /\ Len(s) \in Nat /\ \A i \in 1..Len(s) : s[i] \in S
    BY LenProperties, ElementOfSeq
<1>2. /\ a \in Seq(S) /\ Len(a) = p - 1
      /\ \A i \in 1..(p - 1) : a[i] = s[i]
    <2>1. \A i \in 1..(p - 1) : s[i] \in S
        BY <1>1
    <2>2. p - 1 \in Int /\ (1 <= p - 1 \/ p - 1 = 0)
        BY <1>1
    <2> QED BY <2>1, <2>2, SubSeqProperties
<1>3. /\ b \in Seq(S) /\ Len(b) = Len(s) - p
      /\ \A i \in 1..(Len(s) - p) : b[i] = s[p + i]
    <2>1. \A i \in (p + 1)..Len(s) : s[i] \in S
        BY <1>1
    <2>2. p \in Nat /\ p + 1 \in Int /\ Len(s) \in Int
        BY <1>1
    <2>3. p <= Len(s)
        BY <1>1
    <2>4. /\ b \in Seq(S)
          /\ Len(b) = IF p + 1 <= Len(s) THEN Len(s) - (p + 1) + 1 ELSE 0
          /\ \A i \in 1..(Len(s) - (p + 1) + 1) : b[i] = s[(p + 1) + i - 1]
        BY <2>1, <2>2, SubSeqProperties
    <2> HIDE DEF b
    <2>5. Len(b) = Len(s) - p
        BY <2>2, <2>3, <2>4
    <2>6. ASSUME NEW i \in 1..(Len(s) - p) PROVE b[i] = s[p + i]
        <3>1. i \in 1..(Len(s) - (p + 1) + 1) /\ (p + 1) + i - 1 = p + i
            BY <2>2
        <3>2. b[i] = s[(p + 1) + i - 1]
            BY <2>4, <3>1
        <3> QED BY <3>1, <3>2
    <2> QED BY <2>4, <2>5, <2>6
<1> HIDE DEF a, b
<1>4. /\ w \in Seq(S)
      /\ Len(w) = Len(a) + Len(b)
      /\ \A i \in 1..(Len(a) + Len(b)) : w[i] = IF i <= Len(a) THEN a[i] ELSE b[i - Len(a)]
    BY <1>2, <1>3, ConcatProperties
<1> HIDE DEF w
<1>5. /\ w \in Seq(S)
      /\ Len(w) = Len(s) - 1
      /\ \A i \in 1..(Len(s) - 1) : w[i] = IF i < p THEN s[i] ELSE s[i + 1]
    <2>1. Len(w) = Len(s) - 1
        BY <1>1, <1>2, <1>3, <1>4
    <2>2. ASSUME NEW i \in 1..(Len(s) - 1)
          PROVE  w[i] = IF i < p THEN s[i] ELSE s[i + 1]
        <3>0. i \in 1..(Len(a) + Len(b)) /\ Len(a) = p - 1 /\ p \in Nat
            BY <1>1, <1>2, <1>3
        <3>w. w[i] = IF i <= p - 1 THEN a[i] ELSE b[i - (p - 1)]
            BY <1>4, <3>0
        <3>1. CASE i < p
            BY <1>2, <3>0, <3>w, <3>1
        <3>2. CASE i >= p
            <4>1. i - (p - 1) \in 1..(Len(s) - p)
                BY <1>1, <3>2
            <4>2. w[i] = b[i - (p - 1)]
                BY <3>0, <3>w, <3>2
            <4>3. b[i - (p - 1)] = s[p + (i - (p - 1))]
                BY <1>3, <4>1
            <4>4. p + (i - (p - 1)) = i + 1
                BY <1>1
            <4> QED BY <1>1, <3>2, <4>2, <4>3, <4>4
        <3> QED BY <1>1, <3>1, <3>2
    <2> QED BY <1>4, <2>1, <2>2
<1> QED BY <1>5 DEF w, a, b, RemoveAt

\* What stays when one is taken off a list.
LEMMA Remaining ==
    ASSUME NEW S, NEW s \in Seq(S), NEW k \in DOMAIN s
    PROVE  LET r == RemoveAt(s, k)
           IN  /\ r \in Seq(S)
               /\ \A i \in DOMAIN r : \E j \in DOMAIN s : j # k /\ r[i] = s[j]
               /\ \A i, l \in DOMAIN r : i # l =>
                    \E j, m \in DOMAIN s : j # m /\ r[i] = s[j] /\ r[l] = s[m]
               /\ \A j \in DOMAIN s : j # k => \E i \in DOMAIN r : r[i] = s[j]
<1> DEFINE r == RemoveAt(s, k)
           p(i) == IF i < k THEN i ELSE i + 1
<1>1. DOMAIN s = 1..Len(s) /\ Len(s) \in Nat /\ k \in 1..Len(s)
    BY LenProperties
<1>2. /\ r \in Seq(S) /\ Len(r) = Len(s) - 1
      /\ \A i \in 1..(Len(s) - 1) : r[i] = IF i < k THEN s[i] ELSE s[i + 1]
    BY <1>1, RemoveAtElements
<1>3. DOMAIN r = 1..(Len(s) - 1)
    BY <1>2, LenProperties
<1> HIDE DEF r
<1>4. \A i \in DOMAIN r : p(i) \in DOMAIN s /\ p(i) # k /\ r[i] = s[p(i)]
    BY <1>1, <1>2, <1>3
<1>5. \A i, l \in DOMAIN r : i # l => p(i) # p(l)
    BY <1>1, <1>3
<1>6. ASSUME NEW j \in DOMAIN s, j # k PROVE \E i \in DOMAIN r : r[i] = s[j]
    <2>1. CASE j < k
        <3>1. j \in DOMAIN r /\ r[j] = s[j]
            BY <1>1, <1>2, <1>3, <2>1
        <3> QED BY <3>1
    <2>2. CASE j > k
        <3>1. j - 1 \in DOMAIN r /\ ~(j - 1 < k) /\ (j - 1) + 1 = j
            BY <1>1, <1>3, <2>2
        <3>2. r[j - 1] = s[j]
            BY <1>2, <1>3, <3>1
        <3> QED BY <3>1, <3>2
    <2> QED BY <1>1, <1>6, <2>1, <2>2
<1> HIDE DEF p
<1>7. \A i \in DOMAIN r : \E j \in DOMAIN s : j # k /\ r[i] = s[j]
    BY <1>4
<1>8. \A i, l \in DOMAIN r : i # l =>
         \E j, m \in DOMAIN s : j # m /\ r[i] = s[j] /\ r[l] = s[m]
    BY <1>4, <1>5
<1> QED BY <1>2, <1>6, <1>7, <1>8 DEF r

-----------------------------------------------------------------------------
(* One value after another.                                                    *)

\* The values f[0] to f[N], each from the one before it by a function of its place.
Steps(S, N) == [1..N -> [S -> S]]

Computes(f, S, N, start, G) ==
    f \in [0..N -> S] /\ f[0] = start /\ \A n \in 1..N : f[n] = G[n][f[n - 1]]

\* What is computed one element after another exists: the least place that could
\* not be computed has one before it that could.
LEMMA RecursionExists ==
    ASSUME NEW S, NEW N \in Nat, NEW start \in S, NEW G \in Steps(S, N)
    PROVE  \E f : Computes(f, S, N, start, G)
<1> USE DEF Steps, Computes
<1> DEFINE Done(f, m) == /\ f \in [0..m -> S] /\ f[0] = start
                         /\ \A n \in 1..m : f[n] = G[n][f[n - 1]]
           Missing == {m \in 0..N : ~ \E f : Done(f, m)}
<1>1. SUFFICES ASSUME Missing # {} PROVE FALSE
    <2>1. N \in 0..N
        OBVIOUS
    <2> QED BY <2>1
<1>2. PICK m \in Missing : \A k \in Missing : m <= k
    <2>1. Missing \in SUBSET Nat
        OBVIOUS
    <2> HIDE DEF Missing
    <2> QED BY <1>1, <2>1, Smallest
<1>3. m \in 0..N /\ ~ \E f : Done(f, m)
    OBVIOUS
<1>4. CASE m = 0
    <2>1. Done([n \in 0..0 |-> start], 0)
        OBVIOUS
    <2> QED BY <1>3, <1>4, <2>1
<1>5. CASE m # 0
    <2>1. m - 1 \in 0..N /\ ~(m <= m - 1)
        BY <1>3, <1>5
    <2>2. m - 1 \notin Missing
        <3> HIDE DEF Missing
        <3> QED BY <1>2, <2>1
    <2>3. PICK g : Done(g, m - 1)
        BY <2>1, <2>2
    <2> DEFINE f == [n \in 0..m |-> IF n = m THEN G[m][g[m - 1]] ELSE g[n]]
    <2>4. g[m - 1] \in S
        BY <1>3, <1>5, <2>3
    <2>5. G[m][g[m - 1]] \in S
        BY <1>3, <1>5, <2>4
    <2>6. \A n \in 0..m : n # m => n \in 0..(m - 1)
        BY <1>3
    <2>7. f \in [0..m -> S]
        BY <2>3, <2>5, <2>6
    <2>8. f[0] = start
        BY <1>3, <1>5, <2>3
    <2>9. ASSUME NEW n \in 1..m PROVE f[n] = G[n][f[n - 1]]
        <3>1. n - 1 \in 0..m /\ n - 1 # m /\ n \in 0..m
            BY <1>3
        <3>2. f[n - 1] = g[n - 1]
            BY <3>1
        <3>3. CASE n = m
            BY <3>1, <3>2, <3>3
        <3>4. CASE n # m
            <4>1. n \in 1..(m - 1) /\ f[n] = g[n]
                BY <1>3, <3>1, <3>4
            <4> QED BY <2>3, <3>2, <4>1
        <3> QED BY <3>3, <3>4
    <2> HIDE DEF f
    <2>10. Done(f, m)
        BY <2>7, <2>8, <2>9
    <2> QED BY <1>3, <2>10
<1> QED BY <1>4, <1>5

\* Functions of the same places that start alike and go on alike are the same.
LEMMA SameOneByOne ==
    ASSUME NEW N \in Nat, NEW f, NEW g,
           f = [n \in 0..N |-> f[n]], g = [n \in 0..N |-> g[n]], f[0] = g[0],
           \A n \in 1..N : f[n - 1] = g[n - 1] => f[n] = g[n]
    PROVE  f[N] = g[N]
<1> DEFINE Wrong == {n \in 0..N : f[n] # g[n]}
<1>1. Wrong = {}
    <2> SUFFICES ASSUME Wrong # {} PROVE FALSE
        OBVIOUS
    <2>1. PICK n \in Wrong : \A k \in Wrong : n <= k
        <3>1. Wrong \in SUBSET Nat
            OBVIOUS
        <3> HIDE DEF Wrong
        <3> QED BY <3>1, Smallest
    <2>2. n \in 0..N /\ f[n] # g[n]
        OBVIOUS
    <2>3. n \in 1..N /\ n - 1 \in 0..N /\ ~(n <= n - 1)
        BY <2>2
    <2>4. f[n - 1] = g[n - 1]
        BY <2>1, <2>3
    <2> QED BY <2>2, <2>3, <2>4
<1>2. N \in 0..N
    OBVIOUS
<1> QED BY <1>1, <1>2

=============================================================================
