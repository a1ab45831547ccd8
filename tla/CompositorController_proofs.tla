--------------------- MODULE CompositorController_proofs ---------------------
(***************************************************************************)
(* Proofs about CompositorController, for any sets of clients, displays,   *)
(* keys and modifiers and for both ways of bubbling keys.                  *)
(***************************************************************************)
EXTENDS CompositorController, SequenceLemmas

-----------------------------------------------------------------------------
(* Lemmas about the list operations.                                       *)

NoRepeat(s) == \A i, j \in DOMAIN s : s[i] = s[j] => i = j

\* Contains, spelled with the domain of the sequence.
LEMMA ContainsDomain ==
    ASSUME NEW s \in Seq(Clients), NEW c
    PROVE  Contains(s, c) <=> \E i \in DOMAIN s : s[i] = c
  BY LenProperties DEF Contains

\* Erasing a listed name removes exactly that name.
LEMMA WithoutProperties ==
    ASSUME NEW s \in Seq(Clients), NEW c, NoRepeat(s), Contains(s, c)
    PROVE  /\ Without(s, c) \in Seq(Clients)
           /\ NoRepeat(Without(s, c))
           /\ \A d : Contains(Without(s, c), d) <=> Contains(s, d) /\ d # c
<1> DEFINE n == IndexOf(s, c)
           w == Without(s, c)
<1>1. n \in 1..Len(s) /\ s[n] = c
  BY ContainsDomain, LenProperties DEF IndexOf
<1>2. DOMAIN s = 1..Len(s) /\ Len(s) \in Nat
  BY LenProperties
<1>3. w = RemoveAt(s, n)
  BY DEF Without
<1> HIDE DEF n, w
<1>6. /\ w \in Seq(Clients)
      /\ Len(w) = Len(s) - 1
      /\ \A i \in 1..(Len(s) - 1) : w[i] = IF i < n THEN s[i] ELSE s[i + 1]
  BY <1>1, <1>3, RemoveAtElements
<1>7. DOMAIN w = 1..(Len(s) - 1)
  BY <1>6, LenProperties
<1>8. NoRepeat(w)
  BY SMTT(20), <1>1, <1>2, <1>6, <1>7 DEF NoRepeat
<1>9. ASSUME NEW d PROVE Contains(w, d) <=> Contains(s, d) /\ d # c
  <2>1. ASSUME Contains(w, d) PROVE Contains(s, d) /\ d # c
    <3>1. PICK i \in 1..(Len(s) - 1) : w[i] = d
      BY <2>1, <1>6 DEF Contains
    <3>2. PICK j \in 1..Len(s) : j # n /\ s[j] = d
      <4>1. i < n => i \in 1..Len(s) /\ i # n /\ s[i] = d
        BY <3>1, <1>2, <1>6
      <4>2. ~(i < n) => i + 1 \in 1..Len(s) /\ i + 1 # n /\ s[i + 1] = d
        BY <3>1, <1>1, <1>2, <1>6
      <4>3. QED BY <4>1, <4>2
    <3>3. d # c
      BY <3>2, <1>1, <1>2 DEF NoRepeat
    <3>4. QED BY <3>2, <3>3 DEF Contains
  <2>2. ASSUME Contains(s, d), d # c PROVE Contains(w, d)
    <3>1. PICK j \in 1..Len(s) : s[j] = d
      BY <2>2 DEF Contains
    <3>2. j # n
      BY <3>1, <2>2, <1>1
    <3>3. CASE j < n
      BY <3>3, <3>1, <1>1, <1>2, <1>6 DEF Contains
    <3>4. CASE j > n
      <4>1. j - 1 \in 1..Len(w) /\ w[j - 1] = d
        BY <3>4, <3>1, <1>1, <1>2, <1>6
      <4>2. QED BY <4>1 DEF Contains
    <3>5. QED BY <3>2, <3>3, <3>4, <1>1, <3>1
  <2>3. QED BY <2>1, <2>2
<1>10. QED BY <1>6, <1>8, <1>9 DEF w


\* A sequence with one new name spliced in at position p.
IsSplice(w, s, p, c) ==
    /\ w \in Seq(Clients)
    /\ Len(w) = Len(s) + 1
    /\ p \in 1..(Len(s) + 1)
    /\ \A i \in 1..(Len(s) + 1) :
          w[i] = IF i < p THEN s[i] ELSE IF i = p THEN c ELSE s[i - 1]

\* Splicing in a name that is not there adds exactly that name.
LEMMA SpliceProperties ==
    ASSUME NEW s \in Seq(Clients), NEW c, NEW w, NEW p, IsSplice(w, s, p, c),
           NoRepeat(s), ~Contains(s, c)
    PROVE  /\ w \in Seq(Clients)
           /\ NoRepeat(w)
           /\ \A d : Contains(w, d) <=> Contains(s, d) \/ d = c
<1>1. /\ DOMAIN s = 1..Len(s) /\ Len(s) \in Nat
      /\ DOMAIN w = 1..(Len(s) + 1) /\ Len(w) = Len(s) + 1
      /\ p \in 1..(Len(s) + 1)
  BY LenProperties DEF IsSplice
<1>2. \A i \in 1..(Len(s) + 1) :
         w[i] = IF i < p THEN s[i] ELSE IF i = p THEN c ELSE s[i - 1]
  BY DEF IsSplice
<1>3. \A i \in 1..Len(s) : s[i] # c
  BY DEF Contains
<1>4. ASSUME NEW i \in 1..(Len(s) + 1), NEW j \in 1..(Len(s) + 1), w[i] = w[j]
      PROVE  i = j
  <2>1. CASE i = p
    <3>1. w[j] = c
      BY <1>2, <1>4, <2>1
    <3>2. CASE j < p
      BY <3>1, <3>2, <1>1, <1>2, <1>3
    <3>3. CASE j > p
      <4>1. w[j] = s[j - 1] /\ j - 1 \in 1..Len(s)
        BY <3>3, <1>1, <1>2
      <4>2. QED BY <4>1, <3>1, <1>3
    <3>4. QED BY <2>1, <3>2, <3>3, <1>1
  <2>2. CASE j = p
    <3>1. w[i] = c
      BY <1>2, <1>4, <2>2
    <3>2. CASE i < p
      BY <3>1, <3>2, <1>1, <1>2, <1>3
    <3>3. CASE i > p
      <4>1. w[i] = s[i - 1] /\ i - 1 \in 1..Len(s)
        BY <3>3, <1>1, <1>2
      <4>2. QED BY <4>1, <3>1, <1>3
    <3>4. QED BY <2>2, <3>2, <3>3, <1>1
  <2>3. CASE i # p /\ j # p
    <3> DEFINE ii == IF i < p THEN i ELSE i - 1
               jj == IF j < p THEN j ELSE j - 1
    <3>1. ii \in 1..Len(s) /\ jj \in 1..Len(s) /\ w[i] = s[ii] /\ w[j] = s[jj]
      BY <2>3, <1>1, <1>2
    <3>2. ii = jj
      BY <3>1, <1>1, <1>4 DEF NoRepeat
    <3>3. QED BY <3>2, <2>3, <1>1
  <2>4. QED BY <2>1, <2>2, <2>3
<1>5. NoRepeat(w)
  BY <1>1, <1>4 DEF NoRepeat
<1>6. ASSUME NEW d PROVE Contains(w, d) <=> Contains(s, d) \/ d = c
  <2>1. ASSUME Contains(w, d), d # c PROVE Contains(s, d)
    <3>1. PICK i \in 1..(Len(s) + 1) : w[i] = d
      BY <2>1, <1>1 DEF Contains
    <3>2. i # p
      BY <3>1, <2>1, <1>2
    <3>3. /\ (IF i < p THEN i ELSE i - 1) \in 1..Len(s)
          /\ s[IF i < p THEN i ELSE i - 1] = d
      BY <3>1, <3>2, <1>1, <1>2
    <3>4. QED BY <3>3 DEF Contains
  <2>2. ASSUME d = c PROVE Contains(w, d)
    BY <2>2, <1>1, <1>2 DEF Contains
  <2>3. ASSUME Contains(s, d) PROVE Contains(w, d)
    <3>1. PICK j \in 1..Len(s) : s[j] = d
      BY <2>3 DEF Contains
    <3>2. CASE j < p
      <4>1. j \in 1..Len(w) /\ w[j] = d
        BY <3>1, <3>2, <1>1, <1>2
      <4>2. QED BY <4>1 DEF Contains
    <3>3. CASE ~(j < p)
      <4>1. j + 1 \in 1..Len(w) /\ w[j + 1] = d
        BY <3>1, <3>3, <1>1, <1>2
      <4>2. QED BY <4>1 DEF Contains
    <3>4. QED BY <3>2, <3>3
  <2>4. QED BY <2>1, <2>2, <2>3
<1>7. QED BY <1>5, <1>6 DEF IsSplice

LEMMA PutInFrontIsSplice ==
    ASSUME NEW s \in Seq(Clients), NEW c \in Clients
    PROVE  IsSplice(PutInFront(s, c), s, 1, c)
<1>1. <<c>> \in Seq(Clients) /\ Len(<<c>>) = 1 /\ <<c>>[1] = c
  OBVIOUS
<1>2. Len(s) \in Nat
  BY LenProperties
<1>3. /\ <<c>> \o s \in Seq(Clients)
      /\ Len(<<c>> \o s) = 1 + Len(s)
      /\ \A i \in 1..(1 + Len(s)) :
            (<<c>> \o s)[i] = IF i <= 1 THEN <<c>>[i] ELSE s[i - 1]
  BY <1>1, ConcatProperties
<1> DEFINE w == <<c>> \o s
<1> HIDE DEF w
<1>4. /\ w \in Seq(Clients)
      /\ Len(w) = 1 + Len(s)
      /\ \A i \in 1..(1 + Len(s)) : w[i] = IF i <= 1 THEN <<c>>[i] ELSE s[i - 1]
  BY <1>3 DEF w
<1>5. IsSplice(w, s, 1, c)
  BY <1>1, <1>2, <1>4 DEF IsSplice
<1>6. QED BY <1>5 DEF w, PutInFront

LEMMA AppendIsSplice ==
    ASSUME NEW s \in Seq(Clients), NEW c \in Clients
    PROVE  IsSplice(Append(s, c), s, Len(s) + 1, c)
<1>1. Len(s) \in Nat
  BY LenProperties
<1>2. QED BY <1>1, AppendProperties DEF IsSplice

LEMMA InsertAtIsSplice ==
    ASSUME NEW s \in Seq(Clients), NEW c \in Clients, NEW p \in 1..(Len(s) + 1)
    PROVE  IsSplice(InsertAt(s, p, c), s, p, c)
<1> DEFINE a == SubSeq(s, 1, p - 1)
           b == SubSeq(s, p, Len(s))
           ac == a \o <<c>>
           w == ac \o b
<1>1. DOMAIN s = 1..Len(s) /\ Len(s) \in Nat
  BY LenProperties
<1>2. /\ a \in Seq(Clients) /\ Len(a) = p - 1
      /\ \A i \in 1..(p - 1) : a[i] = s[i]
  <2>1. \A i \in 1..(p - 1) : s[i] \in Clients
    BY <1>1, ElementOfSeq
  <2>2. p - 1 \in Int /\ (1 <= p - 1 \/ p - 1 = 0)
    BY <1>1
  <2>3. QED BY <2>1, <2>2, SubSeqProperties
<1>3. /\ b \in Seq(Clients) /\ Len(b) = Len(s) - p + 1
      /\ \A i \in 1..(Len(s) - p + 1) : b[i] = s[p + i - 1]
  <2>1. \A i \in p..Len(s) : s[i] \in Clients
    BY <1>1, ElementOfSeq
  <2>2. p \in Int /\ Len(s) \in Int /\ (p <= Len(s) \/ p = Len(s) + 1)
    BY <1>1
  <2>3. QED BY <1>1, <2>1, <2>2, SubSeqProperties
<1>4. <<c>> \in Seq(Clients) /\ Len(<<c>>) = 1 /\ <<c>>[1] = c
  OBVIOUS
<1> HIDE DEF a, b
<1>5. /\ ac \in Seq(Clients)
      /\ Len(ac) = Len(a) + 1
      /\ \A i \in 1..(Len(a) + 1) : ac[i] = IF i <= Len(a) THEN a[i] ELSE <<c>>[i - Len(a)]
  BY <1>2, <1>4, ConcatProperties
<1>6. /\ ac \in Seq(Clients)
      /\ Len(ac) = p
      /\ \A i \in 1..p : ac[i] = IF i < p THEN s[i] ELSE c
  BY <1>1, <1>2, <1>4, <1>5
<1> HIDE DEF ac
<1>7. /\ w \in Seq(Clients)
      /\ Len(w) = Len(ac) + Len(b)
      /\ \A i \in 1..(Len(ac) + Len(b)) : w[i] = IF i <= Len(ac) THEN ac[i] ELSE b[i - Len(ac)]
  BY <1>3, <1>6, ConcatProperties
<1> HIDE DEF w
<1>8. IsSplice(w, s, p, c)
  BY SMTT(20), <1>1, <1>3, <1>6, <1>7 DEF IsSplice
<1>9. QED BY <1>8 DEF w, ac, a, b, InsertAt

\* A name is erased from the first of two joined lists or from the second, ...
LEMMA RemoveInFront ==
    ASSUME NEW s \in Seq(Clients), NEW t \in Seq(Clients), NEW n \in 1..Len(s)
    PROVE  RemoveAt(s \o t, n) = RemoveAt(s, n) \o t
<1> DEFINE st == s \o t
           r == RemoveAt(s, n)
           u == RemoveAt(st, n)
           w == r \o t
<1>1. /\ st \in Seq(Clients) /\ Len(st) = Len(s) + Len(t)
      /\ \A i \in 1..(Len(s) + Len(t)) : st[i] = IF i <= Len(s) THEN s[i] ELSE t[i - Len(s)]
  BY ConcatProperties
<1>2. Len(s) \in Nat /\ Len(t) \in Nat
  BY LenProperties
<1>3. /\ r \in Seq(Clients) /\ Len(r) = Len(s) - 1
      /\ \A i \in 1..(Len(s) - 1) : r[i] = IF i < n THEN s[i] ELSE s[i + 1]
  BY RemoveAtElements
<1> HIDE DEF st, r
<1>4. n \in 1..Len(st)
  BY <1>1, <1>2
<1>5. /\ u \in Seq(Clients) /\ Len(u) = Len(st) - 1
      /\ \A i \in 1..(Len(st) - 1) : u[i] = IF i < n THEN st[i] ELSE st[i + 1]
  BY <1>1, <1>4, RemoveAtElements
<1>6. /\ w \in Seq(Clients) /\ Len(w) = Len(r) + Len(t)
      /\ \A i \in 1..(Len(r) + Len(t)) : w[i] = IF i <= Len(r) THEN r[i] ELSE t[i - Len(r)]
  BY <1>3, ConcatProperties
<1> HIDE DEF u, w
<1>7. Len(u) = Len(w) /\ Len(u) = Len(s) + Len(t) - 1
  BY <1>1, <1>2, <1>3, <1>5, <1>6
<1>8. ASSUME NEW i \in 1..Len(u) PROVE u[i] = w[i]
  <2>1. CASE i < n
    BY <2>1, <1>1, <1>2, <1>3, <1>5, <1>6, <1>7
  <2>2. CASE ~(i < n) /\ i <= Len(s) - 1
    BY <2>2, <1>1, <1>2, <1>3, <1>5, <1>6, <1>7
  <2>3. CASE ~(i < n) /\ ~(i <= Len(s) - 1)
    <3>1. /\ u[i] = st[i + 1] /\ w[i] = t[i - (Len(s) - 1)]
          /\ i + 1 \in 1..(Len(s) + Len(t)) /\ ~(i + 1 <= Len(s))
      BY <2>3, <1>1, <1>2, <1>3, <1>5, <1>6, <1>7
    <3>2. st[i + 1] = t[i + 1 - Len(s)] /\ i + 1 - Len(s) = i - (Len(s) - 1)
      BY <3>1, <1>1, <1>2, <1>7
    <3>3. QED BY <3>1, <3>2
  <2>4. QED BY <2>1, <2>2, <2>3
<1>9. u = w
  BY <1>5, <1>6, <1>7, <1>8, SeqEqual
<1>10. QED BY <1>9 DEF u, w, st, r

LEMMA RemoveBehind ==
    ASSUME NEW s \in Seq(Clients), NEW t \in Seq(Clients), NEW n \in 1..Len(t)
    PROVE  RemoveAt(s \o t, Len(s) + n) = s \o RemoveAt(t, n)
<1> DEFINE st == s \o t
           r == RemoveAt(t, n)
           u == RemoveAt(st, Len(s) + n)
           w == s \o r
<1>1. /\ st \in Seq(Clients) /\ Len(st) = Len(s) + Len(t)
      /\ \A i \in 1..(Len(s) + Len(t)) : st[i] = IF i <= Len(s) THEN s[i] ELSE t[i - Len(s)]
  BY ConcatProperties
<1>2. Len(s) \in Nat /\ Len(t) \in Nat
  BY LenProperties
<1>3. /\ r \in Seq(Clients) /\ Len(r) = Len(t) - 1
      /\ \A i \in 1..(Len(t) - 1) : r[i] = IF i < n THEN t[i] ELSE t[i + 1]
  BY RemoveAtElements
<1> HIDE DEF st, r
<1>4. Len(s) + n \in 1..Len(st)
  BY <1>1, <1>2
<1>5. /\ u \in Seq(Clients) /\ Len(u) = Len(st) - 1
      /\ \A i \in 1..(Len(st) - 1) : u[i] = IF i < Len(s) + n THEN st[i] ELSE st[i + 1]
  BY <1>1, <1>4, RemoveAtElements
<1>6. /\ w \in Seq(Clients) /\ Len(w) = Len(s) + Len(r)
      /\ \A i \in 1..(Len(s) + Len(r)) : w[i] = IF i <= Len(s) THEN s[i] ELSE r[i - Len(s)]
  BY <1>3, ConcatProperties
<1> HIDE DEF u, w
<1>7. Len(u) = Len(w) /\ Len(u) = Len(s) + Len(t) - 1
  BY <1>1, <1>2, <1>3, <1>5, <1>6
<1>8. ASSUME NEW i \in 1..Len(u) PROVE u[i] = w[i]
  <2>1. CASE i <= Len(s)
    BY SMTT(30), <2>1, <1>1, <1>2, <1>3, <1>5, <1>6, <1>7
  <2>2. CASE ~(i <= Len(s)) /\ i < Len(s) + n
    <3>1. i - Len(s) \in 1..(Len(t) - 1) /\ i - Len(s) < n
      BY <2>2, <1>2, <1>7
    <3>2. u[i] = st[i] /\ w[i] = r[i - Len(s)]
      BY <2>2, <1>2, <1>5, <1>6, <1>7
    <3>3. st[i] = t[i - Len(s)]
      BY <2>2, <1>1, <1>2, <1>7
    <3>4. QED BY <3>1, <3>2, <3>3, <1>3
  <2>3. CASE ~(i < Len(s) + n)
    <3>1. /\ u[i] = st[i + 1] /\ w[i] = r[i - Len(s)] /\ i - Len(s) \in 1..(Len(t) - 1)
          /\ i + 1 \in 1..(Len(s) + Len(t)) /\ ~(i + 1 <= Len(s)) /\ ~(i - Len(s) < n)
      BY <2>3, <1>1, <1>2, <1>3, <1>5, <1>6, <1>7
    <3> DEFINE k == i + 1
    <3>2. k \in 1..(Len(s) + Len(t)) /\ ~(k <= Len(s))
      BY <3>1
    <3> HIDE DEF k
    <3>3. st[k] = t[k - Len(s)]
      BY <3>2, <1>1
    <3>4. st[i + 1] = t[i + 1 - Len(s)]
      BY <3>3 DEF k
    <3>5. r[i - Len(s)] = t[i - Len(s) + 1]
      BY <3>1, <1>3
    <3>6. i + 1 - Len(s) = i - Len(s) + 1
      BY <1>2, <1>7
    <3>7. QED BY <3>1, <3>4, <3>5, <3>6
  <2>4. QED BY <2>1, <2>2, <2>3
<1>9. u = w
  BY <1>5, <1>6, <1>7, <1>8, SeqEqual
<1>10. QED BY <1>9 DEF u, w, st, r

\* ... and spliced into the first or into the second.
LEMMA SpliceInFront ==
    ASSUME NEW s \in Seq(Clients), NEW t \in Seq(Clients), NEW c \in Clients,
           NEW p, NEW w, IsSplice(w, s, p, c)
    PROVE  /\ p \in 1..(Len(s \o t) + 1)
           /\ w \o t = InsertAt(s \o t, p, c)
<1> DEFINE st == s \o t
           u == InsertAt(st, p, c)
           v == w \o t
<1>1. /\ st \in Seq(Clients) /\ Len(st) = Len(s) + Len(t)
      /\ \A i \in 1..(Len(s) + Len(t)) : st[i] = IF i <= Len(s) THEN s[i] ELSE t[i - Len(s)]
  BY ConcatProperties
<1>2. Len(s) \in Nat /\ Len(t) \in Nat
  BY LenProperties
<1>3. /\ w \in Seq(Clients) /\ Len(w) = Len(s) + 1 /\ p \in 1..(Len(s) + 1)
      /\ \A i \in 1..(Len(s) + 1) : w[i] = IF i < p THEN s[i] ELSE IF i = p THEN c ELSE s[i - 1]
  BY DEF IsSplice
<1> HIDE DEF st
<1>4. p \in 1..(Len(st) + 1)
  BY <1>1, <1>2, <1>3
<1>5. /\ u \in Seq(Clients) /\ Len(u) = Len(st) + 1
      /\ \A i \in 1..(Len(st) + 1) : u[i] = IF i < p THEN st[i] ELSE IF i = p THEN c ELSE st[i - 1]
  <2>1. IsSplice(u, st, p, c)
    BY <1>1, <1>4, InsertAtIsSplice
  <2> HIDE DEF u
  <2>2. QED BY <2>1 DEF IsSplice
<1>6. /\ v \in Seq(Clients) /\ Len(v) = Len(w) + Len(t)
      /\ \A i \in 1..(Len(w) + Len(t)) : v[i] = IF i <= Len(w) THEN w[i] ELSE t[i - Len(w)]
  BY <1>3, ConcatProperties
<1> HIDE DEF u, v
<1>7. Len(u) = Len(v) /\ Len(u) = Len(s) + Len(t) + 1
  BY <1>1, <1>2, <1>3, <1>5, <1>6
<1>8. ASSUME NEW i \in 1..Len(u) PROVE u[i] = v[i]
  <2>1. CASE i < p
    <3>1. i \in 1..(Len(s) + Len(t)) /\ i <= Len(s)
      BY <2>1, <1>2, <1>3, <1>7
    <3>2. u[i] = s[i]
      BY <2>1, <3>1, <1>1, <1>5, <1>7
    <3>3. v[i] = w[i]
      BY <3>1, <1>2, <1>3, <1>6, <1>7
    <3>4. QED BY <2>1, <3>1, <3>2, <3>3, <1>2, <1>3
  <2>2. CASE i = p
    BY <2>2, <1>1, <1>2, <1>3, <1>5, <1>6, <1>7
  <2>3. CASE i > p /\ i <= Len(s) + 1
    <3>1. u[i] = st[i - 1] /\ v[i] = s[i - 1] /\ i - 1 \in 1..(Len(s) + Len(t)) /\ i - 1 <= Len(s)
      BY <2>3, <1>1, <1>2, <1>3, <1>5, <1>6, <1>7
    <3>2. QED BY <3>1, <1>1
  <2>4. CASE i > p /\ i > Len(s) + 1
    <3>1. /\ u[i] = st[i - 1] /\ v[i] = t[i - (Len(s) + 1)]
          /\ i - 1 \in 1..(Len(s) + Len(t)) /\ ~(i - 1 <= Len(s))
      BY <2>4, <1>1, <1>2, <1>3, <1>5, <1>6, <1>7
    <3>2. st[i - 1] = t[i - 1 - Len(s)] /\ i - 1 - Len(s) = i - (Len(s) + 1)
      BY <3>1, <1>1, <1>2, <1>7
    <3>3. QED BY <3>1, <3>2
  <2>5. QED BY <2>1, <2>2, <2>3, <2>4, <1>3, <1>7
<1>9. u = v
  BY <1>5, <1>6, <1>7, <1>8, SeqEqual
<1>10. QED BY <1>4, <1>9 DEF u, v, st

LEMMA SpliceBehind ==
    ASSUME NEW s \in Seq(Clients), NEW t \in Seq(Clients), NEW c \in Clients,
           NEW p, NEW w, IsSplice(w, t, p, c)
    PROVE  /\ Len(s) + p \in 1..(Len(s \o t) + 1)
           /\ s \o w = InsertAt(s \o t, Len(s) + p, c)
<1> DEFINE st == s \o t
           n == Len(s) + p
           u == InsertAt(st, n, c)
           v == s \o w
<1>1. /\ st \in Seq(Clients) /\ Len(st) = Len(s) + Len(t)
      /\ \A i \in 1..(Len(s) + Len(t)) : st[i] = IF i <= Len(s) THEN s[i] ELSE t[i - Len(s)]
  BY ConcatProperties
<1>2. Len(s) \in Nat /\ Len(t) \in Nat
  BY LenProperties
<1>3. /\ w \in Seq(Clients) /\ Len(w) = Len(t) + 1 /\ p \in 1..(Len(t) + 1)
      /\ \A i \in 1..(Len(t) + 1) : w[i] = IF i < p THEN t[i] ELSE IF i = p THEN c ELSE t[i - 1]
  BY DEF IsSplice
<1>0. n = Len(s) + p
  OBVIOUS
<1> HIDE DEF st, n
<1>4. n \in 1..(Len(st) + 1)
  BY <1>0, <1>1, <1>2, <1>3
<1>5. /\ u \in Seq(Clients) /\ Len(u) = Len(st) + 1
      /\ \A i \in 1..(Len(st) + 1) : u[i] = IF i < n THEN st[i] ELSE IF i = n THEN c ELSE st[i - 1]
  <2>1. IsSplice(u, st, n, c)
    BY <1>1, <1>4, InsertAtIsSplice
  <2> HIDE DEF u
  <2>2. QED BY <2>1 DEF IsSplice
<1>6. /\ v \in Seq(Clients) /\ Len(v) = Len(s) + Len(w)
      /\ \A i \in 1..(Len(s) + Len(w)) : v[i] = IF i <= Len(s) THEN s[i] ELSE w[i - Len(s)]
  BY <1>3, ConcatProperties
<1> HIDE DEF u, v
<1>7. Len(u) = Len(v) /\ Len(u) = Len(s) + Len(t) + 1
  BY <1>1, <1>2, <1>3, <1>5, <1>6
<1>8. ASSUME NEW i \in 1..Len(u) PROVE u[i] = v[i]
  <2>1. CASE i <= Len(s)
    <3>1. u[i] = st[i] /\ v[i] = s[i]
      BY <2>1, <1>0, <1>1, <1>2, <1>3, <1>5, <1>6, <1>7
    <3>2. QED BY <2>1, <3>1, <1>1, <1>2
  <2>2. CASE ~(i <= Len(s)) /\ i < n
    <3>1. u[i] = st[i] /\ v[i] = w[i - Len(s)]
      BY <2>2, <1>1, <1>2, <1>3, <1>5, <1>6, <1>7
    <3>2. i - Len(s) \in 1..(Len(t) + 1) /\ i - Len(s) < p
      BY <2>2, <1>0, <1>2, <1>3, <1>7
    <3>3. w[i - Len(s)] = t[i - Len(s)]
      BY <3>2, <1>3
    <3>4. st[i] = t[i - Len(s)]
      BY <2>2, <1>0, <1>1, <1>2, <1>3, <1>7
    <3>5. QED BY <3>1, <3>3, <3>4
  <2>3. CASE i = n
    <3>1. u[i] = c
      BY <2>3, <1>4, <1>5
    <3>2. i - Len(s) = p /\ ~(i <= Len(s))
      BY <2>3, <1>0, <1>2, <1>3
    <3>3. v[i] = w[p]
      BY <3>2, <1>3, <1>6, <1>7
    <3>4. QED BY <3>1, <3>3, <1>3
  <2>4. CASE i > n
    <3>1. /\ u[i] = st[i - 1] /\ v[i] = w[i - Len(s)]
          /\ i - 1 \in 1..(Len(s) + Len(t)) /\ ~(i - 1 <= Len(s))
          /\ i - Len(s) \in 1..(Len(t) + 1) /\ i - Len(s) > p
      BY <2>4, <1>0, <1>1, <1>2, <1>3, <1>5, <1>6, <1>7
    <3>2. st[i - 1] = t[i - 1 - Len(s)]
      BY <3>1, <1>1
    <3>3. w[i - Len(s)] = t[i - Len(s) - 1]
      BY SMTT(20), <3>1, <1>3
    <3>4. i - 1 - Len(s) = i - Len(s) - 1
      BY <1>2, <1>7
    <3>5. QED BY <3>1, <3>2, <3>3, <3>4
  <2>5. QED BY <2>1, <2>2, <2>3, <2>4, <1>0, <1>2, <1>3, <1>4, <1>7
<1>9. u = v
  BY <1>5, <1>6, <1>7, <1>8, SeqEqual
<1>10. QED BY <1>4, <1>9 DEF u, v, st, n

-----------------------------------------------------------------------------
(* The inductive invariant.  The safety invariants are not inductive by     *)
(* themselves: that a copy of a CompositorInfo stays valid depends on the   *)
(* lists holding each name once, and on which objects are managed, killed   *)
(* and lost being disjoint.                                                 *)

ListsInv ==
    /\ \A l \in ListNames : NoRepeat(compositorLists[l])
    /\ \A c : \A l1, l2 \in ListNames :
          Contains(compositorLists[l1], c) /\ Contains(compositorLists[l2], c) => l1 = l2
    /\ \A c \in Clients : compositor[c] \in Compositors <=> Listed(c)

ObjectsInv ==
    /\ \A c1, c2 \in Clients :
          compositor[c1] = compositor[c2] /\ compositor[c1] \in Compositors => c1 = c2
    /\ lost \cap Managed = {}
    /\ gDeletedCompositors \cap Managed = {}
    /\ gDeletedCompositors \cap lost = {}

GoodFocus(f) ==
    \/ f = NoFocus
    \/ /\ f.name \in Clients
       /\ f.compositor \in Compositors
       /\ f.compositor = compositor[f.name] \/ f.compositor \in lost

GoodIntercepts(map) ==
    \A k \in Keys : \A e \in map[k] :
        e.compositor \in {NoCompositor, compositor[e.client]} \cup lost

IInv ==
    /\ TypeOK
    /\ ListsInv
    /\ ObjectsInv
    /\ GoodFocus(gFocusedCompositor)
    /\ GoodIntercepts(gKeyInterceptInfoMap)

LEMMA InitIInv == Init => IInv
<1> SUFFICES ASSUME Init PROVE IInv
  OBVIOUS
<1>1. TypeOK
  <2>1. <<>> \in Seq(Clients) /\ <<>> \in Seq(KeyListenerInfo)
    OBVIOUS
  <2>2. QED BY <2>1 DEF Init, TypeOK, NoFocus, NoListeners, NothingSent, OrNone
<1>2. ListsInv
  <2>1. \A c : \A l \in ListNames : ~Contains(compositorLists[l], c)
    BY DEF Init, Contains
  <2>2. \A l \in ListNames : NoRepeat(compositorLists[l])
    BY DEF Init, NoRepeat
  <2>3. QED BY <2>1, <2>2, ConstantsAssumption DEF Init, ListsInv, Listed
<1>3. Managed = {}
  BY DEF Init, Managed, Objects
<1>4. ObjectsInv
  BY <1>3, ConstantsAssumption DEF Init, ObjectsInv
<1>5. GoodFocus(gFocusedCompositor) /\ GoodIntercepts(gKeyInterceptInfoMap)
  BY DEF Init, GoodFocus, GoodIntercepts
<1>6. QED BY <1>1, <1>2, <1>4, <1>5 DEF IInv

-----------------------------------------------------------------------------
(* Steps that rearrange the lists.                                         *)

\* A listed client is in exactly one list, the one ListOf finds.
LEMMA ListOfProperties ==
    ASSUME ListsInv, NEW c, Listed(c)
    PROVE  /\ ListOf(c) \in ListNames
           /\ Contains(compositorLists[ListOf(c)], c)
           /\ \A l \in ListNames : Contains(compositorLists[l], c) => l = ListOf(c)
  BY DEF ListsInv, Listed, ListOf, ListNames

\* Putting a permutation of its names into one list keeps the invariant.
LEMMA RestackIInv ==
    ASSUME IInv, NEW l \in ListNames, NEW s \in Seq(Clients), NoRepeat(s),
           \A d : Contains(s, d) <=> Contains(compositorLists[l], d),
           Restack(l, s)
    PROVE  IInv'
<1>1. /\ compositorLists' = [compositorLists EXCEPT ![l] = s]
      /\ compositorLists' \in [ListNames -> Seq(Clients)]
      /\ UNCHANGED <<compositor, keyListeners, lost, gFocusedCompositor,
                     gPendingKeyUpListeners, gKeyInterceptInfoMap, mReceivedKeyPress,
                     gDeletedCompositors, mInputEventsEnabled>>
      /\ sent' = NothingSent
  BY DEF Restack, IInv, TypeOK, routing
<1>2. TypeOK'
  BY <1>1 DEF IInv, TypeOK, NothingSent
<1>3. \A d : \A m \in ListNames :
         Contains(compositorLists[m], d)' <=> Contains(compositorLists[m], d)
  BY ZenonT(40), <1>1 DEF IInv, TypeOK, Contains
<1>4. \A m \in ListNames : NoRepeat(compositorLists'[m])
  BY <1>1 DEF IInv, TypeOK, ListsInv
<1>5. \A d : Listed(d)' <=> Listed(d)
  BY <1>3 DEF Listed
<1>6. ListsInv'
  <2>1. \A m \in ListNames : NoRepeat(compositorLists[m])'
    BY <1>4 DEF NoRepeat
  <2>2. \A d : \A l1, l2 \in ListNames :
           Contains(compositorLists[l1], d)' /\ Contains(compositorLists[l2], d)' => l1 = l2
    BY <1>3 DEF IInv, ListsInv
  <2>3. \A d \in Clients : compositor'[d] \in Compositors <=> Listed(d)'
    BY <1>1, <1>5 DEF IInv, ListsInv
  <2>4. QED BY <2>1, <2>2, <2>3 DEF ListsInv
<1>7. /\ ObjectsInv'
      /\ GoodFocus(gFocusedCompositor)'
      /\ GoodIntercepts(gKeyInterceptInfoMap)'
  BY <1>1 DEF IInv, ObjectsInv, Managed, GoodFocus, GoodIntercepts
<1>8. QED BY <1>2, <1>6, <1>7 DEF IInv

\* The names left in a list once a listed client is taken out of it.
LEMMA WithoutListed ==
    ASSUME IInv, NEW c, Listed(c)
    PROVE  LET l == ListOf(c)
               s == Without(compositorLists[l], c)
           IN  /\ l \in ListNames /\ compositorLists[l] \in Seq(Clients)
               /\ s \in Seq(Clients) /\ NoRepeat(s)
               /\ \A d : Contains(s, d) <=> Contains(compositorLists[l], d) /\ d # c
               /\ ~Contains(s, c)
               /\ c \in Clients
<1>1. /\ ListOf(c) \in ListNames
      /\ Contains(compositorLists[ListOf(c)], c)
  BY ListOfProperties DEF IInv
<1>2. /\ compositorLists[ListOf(c)] \in Seq(Clients)
      /\ NoRepeat(compositorLists[ListOf(c)])
  BY <1>1 DEF IInv, TypeOK, ListsInv
<1>3. c \in Clients
  BY <1>1, <1>2, ElementOfSeq DEF Contains
<1>4. QED BY <1>1, <1>2, <1>3, WithoutProperties

LEMMA MoveToFrontIInv ==
    ASSUME IInv, NEW c \in Clients, MoveToFront(c)
    PROVE  IInv'
<1> DEFINE l == ListOf(c)
           s == Without(compositorLists[l], c)
           t == PutInFront(s, c)
<1>1. Listed(c) /\ Restack(l, t)
  BY DEF MoveToFront
<1>2. /\ l \in ListNames /\ compositorLists[l] \in Seq(Clients)
      /\ s \in Seq(Clients) /\ NoRepeat(s) /\ ~Contains(s, c)
      /\ \A d : Contains(s, d) <=> Contains(compositorLists[l], d) /\ d # c
      /\ Contains(compositorLists[l], c)
  BY <1>1, WithoutListed, ListOfProperties DEF IInv
<1> HIDE DEF l, s
<1>3. t \in Seq(Clients) /\ NoRepeat(t) /\ \A d : Contains(t, d) <=> Contains(s, d) \/ d = c
  BY <1>2, PutInFrontIsSplice, SpliceProperties
<1>4. \A d : Contains(t, d) <=> Contains(compositorLists[l], d)
  BY <1>2, <1>3
<1> HIDE DEF t
<1>5. QED BY <1>1, <1>2, <1>3, <1>4, RestackIInv

LEMMA MoveToBackIInv ==
    ASSUME IInv, NEW c \in Clients, MoveToBack(c)
    PROVE  IInv'
<1> DEFINE l == ListOf(c)
           s == Without(compositorLists[l], c)
           t == Append(s, c)
<1>1. Listed(c) /\ Restack(l, t)
  BY DEF MoveToBack
<1>2. /\ l \in ListNames /\ compositorLists[l] \in Seq(Clients)
      /\ s \in Seq(Clients) /\ NoRepeat(s) /\ ~Contains(s, c)
      /\ \A d : Contains(s, d) <=> Contains(compositorLists[l], d) /\ d # c
      /\ Contains(compositorLists[l], c)
  BY <1>1, WithoutListed, ListOfProperties DEF IInv
<1> HIDE DEF l, s
<1>3. t \in Seq(Clients) /\ NoRepeat(t) /\ \A d : Contains(t, d) <=> Contains(s, d) \/ d = c
  BY <1>2, AppendIsSplice, SpliceProperties
<1>4. \A d : Contains(t, d) <=> Contains(compositorLists[l], d)
  BY <1>2, <1>3
<1> HIDE DEF t
<1>5. QED BY <1>1, <1>2, <1>3, <1>4, RestackIInv

\* Erasing a listed client: its name, object and listeners go together.
LEMMA DropFromListProperties ==
    ASSUME IInv, NEW c \in Clients, Listed(c), DropFromList(c)
    PROVE  /\ compositorLists' \in [ListNames -> Seq(Clients)]
           /\ compositor' \in [Clients -> OrNone]
           /\ keyListeners' \in [Clients -> [Keys \cup {AnyKey} -> Seq(KeyListenerInfo)]]
           /\ ListsInv'
           /\ compositor[c] \in Compositors \cap Managed
           /\ Managed' = Managed \ {compositor[c]}
           /\ compositor'[c] = NoCompositor
           /\ \A d \in Clients \ {c} : compositor'[d] = compositor[d]
<1> DEFINE l == ListOf(c)
           s == Without(compositorLists[l], c)
<1>1. /\ l \in ListNames /\ compositorLists[l] \in Seq(Clients)
      /\ s \in Seq(Clients) /\ NoRepeat(s)
      /\ \A d : Contains(s, d) <=> Contains(compositorLists[l], d) /\ d # c
      /\ \A m \in ListNames : Contains(compositorLists[m], c) => m = l
  BY WithoutListed, ListOfProperties DEF IInv
<1>2. /\ compositorLists' = [compositorLists EXCEPT ![l] = s]
      /\ compositor' = [compositor EXCEPT ![c] = NoCompositor]
      /\ keyListeners' = [keyListeners EXCEPT ![c] = NoListeners]
  BY DEF DropFromList
<1> HIDE DEF l, s
<1>3. NoListeners \in [Keys \cup {AnyKey} -> Seq(KeyListenerInfo)]
  BY DEF NoListeners
<1>4. /\ compositorLists' \in [ListNames -> Seq(Clients)]
      /\ compositor' \in [Clients -> OrNone]
      /\ keyListeners' \in [Clients -> [Keys \cup {AnyKey} -> Seq(KeyListenerInfo)]]
  BY <1>1, <1>2, <1>3 DEF IInv, TypeOK, OrNone
<1>5. /\ compositor'[c] = NoCompositor
      /\ \A d \in Clients \ {c} : compositor'[d] = compositor[d]
  BY <1>2 DEF IInv, TypeOK
<1>6. compositor[c] \in Compositors
  BY DEF IInv, ListsInv
<1>7. \A d \in Clients \ {c} : compositor[d] # compositor[c]
  BY <1>6 DEF IInv, ObjectsInv
<1>8. Managed' = Managed \ {compositor[c]}
  BY <1>5, <1>7 DEF Managed, Objects
<1>9. compositor[c] \in Compositors \cap Managed
  BY <1>6, ConstantsAssumption DEF Managed, Objects
<1>10. \A d : \A m \in ListNames :
          Contains(compositorLists[m], d)' <=> Contains(compositorLists[m], d) /\ d # c
  <2>1. SUFFICES ASSUME NEW d, NEW m \in ListNames
                 PROVE  Contains(compositorLists'[m], d)
                          <=> Contains(compositorLists[m], d) /\ d # c
    BY DEF Contains
  <2>2. compositorLists'[m] = IF m = l THEN s ELSE compositorLists[m]
    BY <1>2 DEF IInv, TypeOK
  <2>3. QED BY <2>2, <1>1
<1>11. ListsInv'
  <2>1. \A m \in ListNames : NoRepeat(compositorLists'[m])
    BY <1>1, <1>2 DEF IInv, TypeOK, ListsInv
  <2>2. \A d : Listed(d)' <=> Listed(d) /\ d # c
    BY <1>10 DEF Listed
  <2>3. \A d \in Clients : compositor'[d] \in Compositors <=> Listed(d)'
    BY <2>2, <1>5, ConstantsAssumption DEF IInv, ListsInv
  <2>4. \A d : \A l1, l2 \in ListNames :
           Contains(compositorLists[l1], d)' /\ Contains(compositorLists[l2], d)' => l1 = l2
    BY <1>10 DEF IInv, ListsInv
  <2>5. \A m \in ListNames : NoRepeat(compositorLists[m])'
    BY <2>1 DEF NoRepeat
  <2>6. QED BY <2>3, <2>4, <2>5 DEF ListsInv
<1>12. QED BY <1>4, <1>5, <1>8, <1>9, <1>11

LEMMA MoveBehindIInv ==
    ASSUME IInv, NEW c \in Clients, NEW target \in Clients, MoveBehind(c, target)
    PROVE  IInv'
<1> DEFINE l == ListOf(c)
           s == Without(compositorLists[l], c)
           p == IndexOf(s, target) + 1
           t == InsertAt(s, p, c)
<1>1. Listed(c) /\ Listed(target) /\ ListOf(target) = l
  BY DEF MoveBehind
<1>2. CASE c # target
  <2>1. /\ l \in ListNames /\ compositorLists[l] \in Seq(Clients)
        /\ s \in Seq(Clients) /\ NoRepeat(s) /\ ~Contains(s, c)
        /\ \A d : Contains(s, d) <=> Contains(compositorLists[l], d) /\ d # c
        /\ Contains(compositorLists[l], c)
        /\ Contains(compositorLists[l], target)
    BY <1>1, WithoutListed, ListOfProperties DEF IInv
  <2>2. Restack(l, t)
    BY <1>2 DEF MoveBehind
  <2> HIDE DEF l, s
  <2>3. p \in 1..(Len(s) + 1)
    <3>1. \E i \in DOMAIN s : s[i] = target
      BY <2>1, <1>2, ContainsDomain
    <3>2. IndexOf(s, target) \in 1..Len(s) /\ Len(s) \in Nat
      BY <3>1, <2>1, LenProperties DEF IndexOf
    <3>3. QED BY <3>2
  <2> HIDE DEF p
  <2>4. t \in Seq(Clients) /\ NoRepeat(t) /\ \A d : Contains(t, d) <=> Contains(s, d) \/ d = c
    BY <2>1, <2>3, InsertAtIsSplice, SpliceProperties
  <2>5. \A d : Contains(t, d) <=> Contains(compositorLists[l], d)
    BY <2>1, <2>4
  <2> HIDE DEF t
  <2>6. QED BY <2>1, <2>2, <2>4, <2>5, RestackIInv
<1>3. CASE c = target
  <2>1. /\ DropFromList(c)
        /\ lost' = lost \cup {compositor[c]}
        /\ sent' = NothingSent
        /\ UNCHANGED <<gFocusedCompositor, gPendingKeyUpListeners, gKeyInterceptInfoMap,
                       mReceivedKeyPress, gDeletedCompositors, mInputEventsEnabled>>
    BY <1>3 DEF MoveBehind, routing
  <2>2. /\ compositorLists' \in [ListNames -> Seq(Clients)]
        /\ compositor' \in [Clients -> OrNone]
        /\ keyListeners' \in [Clients -> [Keys \cup {AnyKey} -> Seq(KeyListenerInfo)]]
        /\ ListsInv'
        /\ compositor[c] \in Compositors \cap Managed
        /\ Managed' = Managed \ {compositor[c]}
        /\ compositor'[c] = NoCompositor
        /\ \A d \in Clients \ {c} : compositor'[d] = compositor[d]
    BY <1>1, <2>1, DropFromListProperties
  <2>3. TypeOK'
    BY <2>1, <2>2 DEF IInv, TypeOK, NothingSent
  <2>4. ObjectsInv'
    BY <2>1, <2>2, ConstantsAssumption DEF IInv, ObjectsInv
  <2>5. GoodFocus(gFocusedCompositor)'
    BY <2>1, <2>2 DEF IInv, GoodFocus
  <2>6. GoodIntercepts(gKeyInterceptInfoMap)'
    <3>1. \A k \in Keys : \A e \in gKeyInterceptInfoMap[k] : e.client \in Clients
      BY DEF IInv, TypeOK, KeyInterceptInfo
    <3>2. QED BY <2>1, <2>2, <3>1 DEF IInv, GoodIntercepts
  <2>7. QED BY <2>2, <2>3, <2>4, <2>5, <2>6 DEF IInv
<1>4. QED BY <1>2, <1>3

LEMMA KillIInv ==
    ASSUME IInv, NEW c \in Clients, Kill(c)
    PROVE  IInv'
<1>1. /\ Listed(c)
      /\ DropFromList(c)
      /\ gDeletedCompositors' = gDeletedCompositors \cup {compositor[c]}
      /\ gKeyInterceptInfoMap' = [k \in Keys |-> Unbind(gKeyInterceptInfoMap[k], c)]
      /\ gFocusedCompositor' = FocusAfterKill(c)
      /\ sent' = NothingSent
      /\ UNCHANGED <<lost, gPendingKeyUpListeners, mReceivedKeyPress, mInputEventsEnabled>>
  BY DEF Kill
<1>2. /\ compositorLists' \in [ListNames -> Seq(Clients)]
      /\ compositor' \in [Clients -> OrNone]
      /\ keyListeners' \in [Clients -> [Keys \cup {AnyKey} -> Seq(KeyListenerInfo)]]
      /\ ListsInv'
      /\ compositor[c] \in Compositors \cap Managed
      /\ Managed' = Managed \ {compositor[c]}
      /\ compositor'[c] = NoCompositor
      /\ \A d \in Clients \ {c} : compositor'[d] = compositor[d]
  BY <1>1, DropFromListProperties
<1>3. \A k \in Keys : \A e \in Unbind(gKeyInterceptInfoMap[k], c) :
         /\ e \in KeyInterceptInfo
         /\ e.compositor \in {NoCompositor, compositor'[e.client]} \cup lost
  <2>1. SUFFICES ASSUME NEW k \in Keys, NEW e0 \in gKeyInterceptInfoMap[k]
                 PROVE  LET e == IF e0.client = c
                                   THEN [e0 EXCEPT !.compositor = NoCompositor] ELSE e0
                        IN  /\ e \in KeyInterceptInfo
                            /\ e.compositor \in {NoCompositor, compositor'[e.client]} \cup lost
    BY DEF Unbind
  <2>2. e0 \in KeyInterceptInfo
    BY DEF IInv, TypeOK
  <2>3. CASE e0.client = c
    BY <2>2, <2>3 DEF KeyInterceptInfo, OrNone
  <2>4. CASE e0.client # c
    <3>1. e0.compositor \in {NoCompositor, compositor[e0.client]} \cup lost
      BY DEF IInv, GoodIntercepts
    <3>2. compositor'[e0.client] = compositor[e0.client]
      BY <2>2, <2>4, <1>2 DEF KeyInterceptInfo
    <3>3. QED BY <2>2, <2>4, <3>1, <3>2
  <2>5. QED BY <2>3, <2>4
<1>4. gKeyInterceptInfoMap' \in [Keys -> SUBSET KeyInterceptInfo]
  BY <1>1, <1>3
<1>5. gFocusedCompositor' \in [name : Clients \cup {NoClient}, compositor : OrNone]
  BY <1>1 DEF FocusAfterKill, NoFocus, OrNone, IInv, TypeOK
<1>6. TypeOK'
  BY <1>1, <1>2, <1>4, <1>5 DEF IInv, TypeOK, NothingSent
<1>7. ObjectsInv'
  BY <1>1, <1>2, ConstantsAssumption DEF IInv, ObjectsInv
<1>8. GoodFocus(gFocusedCompositor)'
  BY <1>1, <1>2 DEF IInv, GoodFocus, FocusAfterKill
<1>9. GoodIntercepts(gKeyInterceptInfoMap)'
  BY <1>1, <1>3 DEF GoodIntercepts
<1>10. QED BY <1>2, <1>6, <1>7, <1>8, <1>9 DEF IInv

\* The names after a client moves to the other list.
LEMMA SetTopmostIInv ==
    ASSUME IInv, NEW c \in Clients, NEW topmost \in BOOLEAN, NEW focus \in BOOLEAN,
           SetTopmost(c, topmost, focus)
    PROVE  IInv'
<1> DEFINE from == ListOf(c)
           to   == IF topmost THEN "gTopmostCompositorList" ELSE "gCompositorList"
           s    == Without(compositorLists[from], c)
           t    == PutInFront(compositorLists[to], c)
<1>1. /\ Listed(c) /\ from # to
      /\ compositorLists' = [compositorLists EXCEPT
                               ![from] = Without(@, c), ![to] = PutInFront(@, c)]
      /\ \/ Focus(c)
         \/ UNCHANGED <<gPendingKeyUpListeners, gFocusedCompositor>>
      /\ sent' = NothingSent
      /\ UNCHANGED <<compositor, keyListeners, lost, gKeyInterceptInfoMap,
                     mReceivedKeyPress, gDeletedCompositors, mInputEventsEnabled>>
  BY DEF SetTopmost
<1>2. /\ from \in ListNames /\ to \in ListNames
      /\ s \in Seq(Clients) /\ NoRepeat(s)
      /\ \A d : Contains(s, d) <=> Contains(compositorLists[from], d) /\ d # c
      /\ \A m \in ListNames : Contains(compositorLists[m], c) => m = from
      /\ compositorLists[to] \in Seq(Clients) /\ NoRepeat(compositorLists[to])
  BY <1>1, WithoutListed, ListOfProperties DEF IInv, TypeOK, ListsInv, ListNames
<1>3. ~Contains(compositorLists[to], c)
  BY <1>1, <1>2
<1>4. /\ t \in Seq(Clients) /\ NoRepeat(t)
      /\ \A d : Contains(t, d) <=> Contains(compositorLists[to], d) \/ d = c
  BY <1>2, <1>3, PutInFrontIsSplice, SpliceProperties
<1>5. \A m \in ListNames : compositorLists'[m] = IF m = from THEN s ELSE t
  BY <1>1, <1>2 DEF IInv, TypeOK, ListNames
<1>6. compositorLists' \in [ListNames -> Seq(Clients)]
  <2>1. compositorLists' = [m \in ListNames |-> compositorLists'[m]]
    BY <1>1 DEF IInv, TypeOK
  <2>2. QED BY <2>1, <1>2, <1>4, <1>5
<1> HIDE DEF from, to, s, t
<1>7. \A d : \A m \in ListNames :
         Contains(compositorLists[m], d)'
           <=> IF d = c THEN m = to ELSE Contains(compositorLists[m], d)
  <2>1. SUFFICES ASSUME NEW d, NEW m \in ListNames
                 PROVE  Contains(compositorLists'[m], d)
                          <=> IF d = c THEN m = to ELSE Contains(compositorLists[m], d)
    BY DEF Contains
  <2>2. m = from \/ m = to
    BY <1>1, <1>2 DEF ListNames
  <2>3. QED BY <2>2, <1>1, <1>2, <1>4, <1>5
<1>8. \A d : Listed(d)' <=> Listed(d)
  BY <1>1, <1>2, <1>7 DEF Listed
<1>9. ListsInv'
  <2>1. \A m \in ListNames : NoRepeat(compositorLists'[m])
    BY <1>2, <1>4, <1>5
  <2>2. \A m \in ListNames : NoRepeat(compositorLists[m])'
    BY <2>1 DEF NoRepeat
  <2>3. \A d : \A l1, l2 \in ListNames :
           Contains(compositorLists[l1], d)' /\ Contains(compositorLists[l2], d)' => l1 = l2
    BY <1>7 DEF IInv, ListsInv
  <2>4. \A d \in Clients : compositor'[d] \in Compositors <=> Listed(d)'
    BY <1>1, <1>8 DEF IInv, ListsInv
  <2>5. QED BY <2>2, <2>3, <2>4 DEF ListsInv
<1>10. compositor[c] \in Compositors
  BY <1>1 DEF IInv, ListsInv
<1>11. /\ gFocusedCompositor' \in [name : Clients \cup {NoClient}, compositor : OrNone]
       /\ gPendingKeyUpListeners' \subseteq Compositors
       /\ GoodFocus(gFocusedCompositor)'
  BY <1>1, <1>10 DEF Focus, Queue, Objects, IInv, TypeOK, GoodFocus, OrNone
<1>12. TypeOK'
  BY <1>1, <1>6, <1>11 DEF IInv, TypeOK, NothingSent
<1>13. ObjectsInv' /\ GoodIntercepts(gKeyInterceptInfoMap)'
  BY <1>1 DEF IInv, ObjectsInv, Managed, GoodIntercepts
<1>14. QED BY <1>9, <1>11, <1>12, <1>13 DEF IInv

-----------------------------------------------------------------------------
(* A new display.                                                          *)

LEMMA AddDisplayIInv ==
    ASSUME IInv, NEW c \in Clients, ~Listed(c), NEW o \in Compositors,
           NEW topmost \in BOOLEAN, NEW takesFocus \in BOOLEAN,
           AddDisplay(c, o, topmost, takesFocus)
    PROVE  IInv'
<1> DEFINE l == IF topmost THEN "gTopmostCompositorList" ELSE "gCompositorList"
           t == PutInFront(compositorLists[l], c)
<1>1. /\ o \in Compositors \ Referenced
      /\ compositorLists' = [compositorLists EXCEPT ![l] = t]
      /\ compositor' = [compositor EXCEPT ![c] = o]
      /\ gFocusedCompositor' \in {[name |-> c, compositor |-> o], gFocusedCompositor}
      /\ mReceivedKeyPress' = mReceivedKeyPress \ {o}
      /\ mInputEventsEnabled' = mInputEventsEnabled \cup {o}
      /\ lost' = lost \ {o}
      /\ sent' = NothingSent
      /\ UNCHANGED <<keyListeners, gPendingKeyUpListeners, gDeletedCompositors,
                     gKeyInterceptInfoMap>>
  BY DEF AddDisplay
<1>2. l \in ListNames /\ compositorLists[l] \in Seq(Clients) /\ NoRepeat(compositorLists[l])
  BY DEF ListNames, IInv, TypeOK, ListsInv
<1>3. \A m \in ListNames : ~Contains(compositorLists[m], c)
  BY DEF Listed
<1>4. /\ t \in Seq(Clients) /\ NoRepeat(t)
      /\ \A d : Contains(t, d) <=> Contains(compositorLists[l], d) \/ d = c
  BY <1>2, <1>3, PutInFrontIsSplice, SpliceProperties
<1> HIDE DEF l, t
<1>5. compositorLists' \in [ListNames -> Seq(Clients)]
  BY <1>1, <1>4 DEF IInv, TypeOK
<1>6. \A m \in ListNames : compositorLists'[m] = IF m = l THEN t ELSE compositorLists[m]
  BY <1>1 DEF IInv, TypeOK
<1>7. \A d : \A m \in ListNames :
         Contains(compositorLists[m], d)'
           <=> IF d = c THEN m = l ELSE Contains(compositorLists[m], d)
  <2>1. SUFFICES ASSUME NEW d, NEW m \in ListNames
                 PROVE  Contains(compositorLists'[m], d)
                          <=> IF d = c THEN m = l ELSE Contains(compositorLists[m], d)
    BY DEF Contains
  <2>2. QED BY <1>3, <1>4, <1>6
<1>8. \A d : Listed(d)' <=> Listed(d) \/ d = c
  BY <1>2, <1>7 DEF Listed
<1>9. /\ compositor'[c] = o
      /\ \A d \in Clients \ {c} : compositor'[d] = compositor[d]
  BY <1>1 DEF IInv, TypeOK
<1>10. ListsInv'
  <2>1. \A m \in ListNames : NoRepeat(compositorLists'[m])
    BY <1>4, <1>6 DEF IInv, ListsInv
  <2>2. \A m \in ListNames : NoRepeat(compositorLists[m])'
    BY <2>1 DEF NoRepeat
  <2>3. \A d : \A l1, l2 \in ListNames :
           Contains(compositorLists[l1], d)' /\ Contains(compositorLists[l2], d)' => l1 = l2
    BY <1>7 DEF IInv, ListsInv
  <2>4. \A d \in Clients : compositor'[d] \in Compositors <=> Listed(d)'
    BY <1>8, <1>9 DEF IInv, ListsInv
  <2>5. QED BY <2>2, <2>3, <2>4 DEF ListsInv
<1>11. compositor[c] = NoCompositor
  BY DEF IInv, ListsInv, TypeOK, OrNone
<1>12. /\ o \notin Managed
       /\ o \notin gDeletedCompositors
       /\ o # gFocusedCompositor.compositor
       /\ \A k \in Keys : \A e \in gKeyInterceptInfoMap[k] : e.compositor # o
  BY <1>1, ConstantsAssumption DEF Referenced, Bound, Objects
<1>13. Managed' = Managed \cup {o}
  <2>1. Managed' = {compositor'[d] : d \in Clients} \ {NoCompositor}
    BY DEF Managed, Objects
  <2>2. Managed = {compositor[d] : d \in Clients} \ {NoCompositor}
    BY DEF Managed, Objects
  <2>3. QED BY <2>1, <2>2, <1>9, <1>11, ConstantsAssumption
<1>14. TypeOK'
  <2>1. compositor' \in [Clients -> OrNone]
    BY <1>1 DEF IInv, TypeOK, OrNone
  <2>2. gFocusedCompositor' \in [name : Clients \cup {NoClient}, compositor : OrNone]
    BY <1>1 DEF IInv, TypeOK, OrNone
  <2>3. QED BY <1>1, <1>5, <2>1, <2>2 DEF IInv, TypeOK, NothingSent
<1>15. ObjectsInv'
  <2>1. \A d \in Clients \ {c} : compositor[d] # o
    BY <1>12, ConstantsAssumption DEF Managed, Objects
  <2>2. \A c1, c2 \in Clients :
           compositor'[c1] = compositor'[c2] /\ compositor'[c1] \in Compositors => c1 = c2
    BY <1>9, <2>1 DEF IInv, ObjectsInv
  <2>3. lost' \cap Managed' = {} /\ gDeletedCompositors' \cap Managed' = {}
    BY <1>1, <1>12, <1>13 DEF IInv, ObjectsInv
  <2>4. gDeletedCompositors' \cap lost' = {}
    BY <1>1 DEF IInv, ObjectsInv
  <2>5. QED BY <2>2, <2>3, <2>4 DEF ObjectsInv
<1>16. GoodFocus(gFocusedCompositor)'
  <2>1. CASE gFocusedCompositor' = [name |-> c, compositor |-> o]
    BY <2>1, <1>9 DEF GoodFocus
  <2>2. CASE gFocusedCompositor' = gFocusedCompositor
    <3>1. gFocusedCompositor.compositor \in Compositors
            => gFocusedCompositor.compositor # compositor[c]
      BY <1>11, ConstantsAssumption
    <3>2. QED BY <2>2, <3>1, <1>1, <1>9, <1>12 DEF IInv, GoodFocus
  <2>3. QED BY <2>1, <2>2, <1>1
<1>17. GoodIntercepts(gKeyInterceptInfoMap)'
  <2>1. ASSUME NEW k \in Keys, NEW e \in gKeyInterceptInfoMap[k]
        PROVE  e.compositor \in {NoCompositor, compositor'[e.client]} \cup lost'
    <3>1. e.client \in Clients
      BY DEF IInv, TypeOK, KeyInterceptInfo
    <3>2. e.compositor \in {NoCompositor, compositor[e.client]} \cup lost /\ e.compositor # o
      BY <1>12 DEF IInv, GoodIntercepts
    <3>3. QED BY <3>1, <3>2, <1>1, <1>9, <1>11
  <2>2. QED BY <2>1, <1>1 DEF GoodIntercepts
<1>18. QED BY <1>10, <1>14, <1>15, <1>16, <1>17 DEF IInv

-----------------------------------------------------------------------------
(* Steps that leave the lists alone.                                       *)

\* The lists and the objects in them being as they were, only the focus and
\* the intercept entries can break the invariant.
LEMMA KeepListsIInv ==
    ASSUME IInv, TypeOK', UNCHANGED <<compositorLists, compositor, lost>>,
           gDeletedCompositors' \subseteq gDeletedCompositors,
           GoodFocus(gFocusedCompositor'), GoodIntercepts(gKeyInterceptInfoMap')
    PROVE  IInv'
<1>1. ListsInv'
  BY DEF IInv, ListsInv, NoRepeat, Contains, Listed
<1>2. ObjectsInv'
  BY DEF IInv, ObjectsInv, Managed
<1>3. GoodFocus(gFocusedCompositor)' /\ GoodIntercepts(gKeyInterceptInfoMap)'
  BY DEF GoodFocus, GoodIntercepts
<1>4. QED BY <1>1, <1>2, <1>3 DEF IInv

LEMMA SetFocusIInv ==
    ASSUME IInv, NEW c \in Clients, SetFocus(c)
    PROVE  IInv'
<1>1. compositor[c] \in Compositors
  BY DEF SetFocus, IInv, ListsInv
<1>2. TypeOK'
  BY <1>1 DEF SetFocus, Focus, Queue, Objects, lists, IInv, TypeOK, OrNone, NothingSent
<1>3. GoodFocus(gFocusedCompositor')
  BY <1>1 DEF SetFocus, Focus, GoodFocus
<1>4. QED BY <1>2, <1>3, KeepListsIInv DEF SetFocus, lists, IInv

LEMMA EnableInputEventsIInv ==
    ASSUME IInv, NEW c \in Clients, NEW enable \in BOOLEAN, EnableInputEvents(c, enable)
    PROVE  IInv'
<1>1. compositor[c] \in Compositors
  BY DEF EnableInputEvents, IInv, ListsInv
<1>2. TypeOK'
  BY <1>1 DEF EnableInputEvents, lists, routing, IInv, TypeOK, NothingSent
<1>3. QED BY <1>2, KeepListsIInv DEF EnableInputEvents, lists, routing, IInv

LEMMA DrawIInv ==
    ASSUME IInv, Draw
    PROVE  IInv'
<1>1. TypeOK'
  BY DEF Draw, lists, routing, IInv, TypeOK, NothingSent
<1>2. QED BY <1>1, KeepListsIInv DEF Draw, lists, routing, IInv

LEMMA SetKeyInterceptIInv ==
    ASSUME IInv, NEW c \in Clients, NEW k \in Keys, NEW f \in Flags, NEW always \in BOOLEAN,
           SetKeyIntercept(c, k, f, always)
    PROVE  IInv'
<1> DEFINE new == [client |-> c, flags |-> f, always |-> always, compositor |-> compositor[c]]
           old == {e \in gKeyInterceptInfoMap[k] : e.client = c /\ e.flags = f}
<1>1. /\ gKeyInterceptInfoMap' = [gKeyInterceptInfoMap EXCEPT ![k] = (@ \ old) \cup {new}]
      /\ sent' = NothingSent
      /\ UNCHANGED <<compositorLists, compositor, keyListeners, lost, gFocusedCompositor,
                     gPendingKeyUpListeners, mReceivedKeyPress, gDeletedCompositors,
                     mInputEventsEnabled>>
  BY DEF SetKeyIntercept, lists
<1>2. new \in KeyInterceptInfo
  BY DEF KeyInterceptInfo, IInv, TypeOK
<1>3. new.compositor = compositor[new.client]
  OBVIOUS
<1> HIDE DEF new, old
<1>4. TypeOK'
  BY <1>1, <1>2 DEF IInv, TypeOK, NothingSent
<1>5. \A j \in Keys : gKeyInterceptInfoMap'[j] \subseteq gKeyInterceptInfoMap[j] \cup {new}
  BY <1>1 DEF IInv, TypeOK
<1>6. GoodIntercepts(gKeyInterceptInfoMap')
  BY <1>3, <1>5 DEF IInv, GoodIntercepts
<1>7. QED BY <1>1, <1>4, <1>6, KeepListsIInv DEF IInv

\* Dropping intercept entries, with or without a key-up, keeps the invariant.
LEMMA FewerInterceptsIInv ==
    ASSUME IInv, UNCHANGED lists, NEW map \in [Keys -> SUBSET KeyInterceptInfo],
           \A k \in Keys : map[k] \subseteq gKeyInterceptInfoMap[k],
           gKeyInterceptInfoMap' = map,
           gPendingKeyUpListeners' \subseteq Compositors,
           sent' = NothingSent,
           UNCHANGED <<gFocusedCompositor, mReceivedKeyPress, gDeletedCompositors,
                       mInputEventsEnabled>>
    PROVE  IInv'
<1>1. TypeOK'
  BY DEF lists, IInv, TypeOK, NothingSent
<1>2. GoodIntercepts(gKeyInterceptInfoMap')
  BY DEF IInv, GoodIntercepts
<1>3. QED BY <1>1, <1>2, KeepListsIInv DEF lists, IInv

LEMMA RemoveKeyInterceptIInv ==
    ASSUME IInv, NEW c, NEW k \in Keys, NEW f \in Flags, RemoveKeyIntercept(c, k, f)
    PROVE  IInv'
<1> DEFINE kept(j) == IF k = WildcardKey
                        THEN {e \in gKeyInterceptInfoMap[j] : e.client # c}
                        ELSE gKeyInterceptInfoMap[j]
           gone == {e \in kept(k) : /\ e.flags = f
                                    /\ c = AllClients \/ (c = e.client /\ Listed(c))}
           map == [j \in Keys |-> IF j = k THEN kept(j) \ gone ELSE kept(j)]
<1>1. /\ gKeyInterceptInfoMap' = map
      /\ gPendingKeyUpListeners' = Queue({e.compositor : e \in gone})
      /\ sent' = NothingSent
      /\ UNCHANGED <<lists, gFocusedCompositor, mReceivedKeyPress, gDeletedCompositors,
                     mInputEventsEnabled>>
  BY DEF RemoveKeyIntercept
<1>2. \A j \in Keys : map[j] \subseteq gKeyInterceptInfoMap[j]
  OBVIOUS
<1>3. map \in [Keys -> SUBSET KeyInterceptInfo]
  <2>1. \A j \in Keys : gKeyInterceptInfoMap[j] \subseteq KeyInterceptInfo
    BY DEF IInv, TypeOK
  <2>2. map = [j \in Keys |-> map[j]]
    OBVIOUS
  <2> HIDE DEF map
  <2>3. QED BY <1>2, <2>1, <2>2
<1>4. gPendingKeyUpListeners' \subseteq Compositors
  BY <1>1 DEF Queue, IInv, TypeOK
<1> HIDE DEF map, gone
<1>5. QED BY <1>1, <1>2, <1>3, <1>4, FewerInterceptsIInv

LEMMA RemoveAllKeyInterceptsIInv ==
    ASSUME IInv, RemoveAllKeyIntercepts
    PROVE  IInv'
<1>1. [k \in Keys |-> {}] \in [Keys -> SUBSET KeyInterceptInfo]
  OBVIOUS
<1>2. gPendingKeyUpListeners' \subseteq Compositors
  BY DEF RemoveAllKeyIntercepts, IInv, TypeOK
<1>3. QED BY <1>1, <1>2, FewerInterceptsIInv DEF RemoveAllKeyIntercepts

\* Changing listeners, with or without a key-up, keeps the invariant.
LEMMA ChangeListenersIInv ==
    ASSUME IInv,
           keyListeners' \in [Clients -> [Keys \cup {AnyKey} -> Seq(KeyListenerInfo)]],
           gPendingKeyUpListeners' \subseteq Compositors,
           sent' = NothingSent,
           UNCHANGED <<compositorLists, compositor, lost, gFocusedCompositor,
                       gKeyInterceptInfoMap, mReceivedKeyPress, gDeletedCompositors,
                       mInputEventsEnabled>>
    PROVE  IInv'
<1>1. TypeOK'
  BY DEF IInv, TypeOK, NothingSent
<1>2. QED BY <1>1, KeepListsIInv DEF IInv

LEMMA AddKeyListenerIInv ==
    ASSUME IInv, NEW c \in Clients, NEW k \in Keys \cup {AnyKey}, NEW f \in Flags,
           NEW activate \in BOOLEAN, NEW propagate \in BOOLEAN,
           AddKeyListener(c, k, f, activate, propagate)
    PROVE  IInv'
<1> DEFINE info == [flags |-> f, activate |-> activate, propagate |-> propagate]
           old == keyListeners[c][k]
           changed == [i \in DOMAIN old |-> IF i \in ListenersAt(c, k, f) THEN info ELSE old[i]]
           new == IF ListenersAt(c, k, f) = {} THEN Append(old, info) ELSE changed
<1>1. keyListeners' = [keyListeners EXCEPT ![c][k] = new]
  BY DEF AddKeyListener
<1>2. old \in Seq(KeyListenerInfo)
  BY DEF IInv, TypeOK
<1>3. info \in KeyListenerInfo
  BY DEF KeyListenerInfo
<1> HIDE DEF info, old
<1>4. Append(old, info) \in Seq(KeyListenerInfo)
  BY <1>2, <1>3
<1>5. changed \in Seq(KeyListenerInfo)
  <2>1. Len(old) \in Nat /\ DOMAIN old = 1..Len(old)
    BY <1>2, LenProperties
  <2>2. \A i \in 1..Len(old) : old[i] \in KeyListenerInfo
    BY <1>2, ElementOfSeq
  <2>3. changed = [i \in 1..Len(old) |-> changed[i]]
    BY <2>1
  <2>4. \A i \in 1..Len(old) : changed[i] \in KeyListenerInfo
    BY <2>1, <2>2, <1>3
  <2> HIDE DEF changed
  <2>5. changed \in [1..Len(old) -> KeyListenerInfo]
    BY <2>3, <2>4
  <2>6. QED BY <2>1, <2>5, IsASeq
<1> HIDE DEF changed
<1>6. new \in Seq(KeyListenerInfo)
  BY <1>4, <1>5
<1> HIDE DEF new
<1>7. keyListeners' \in [Clients -> [Keys \cup {AnyKey} -> Seq(KeyListenerInfo)]]
  BY <1>1, <1>6 DEF IInv, TypeOK
<1>8. QED BY <1>7, ChangeListenersIInv DEF AddKeyListener, routing, IInv, TypeOK

\* Erasing one listener from a sequence of them leaves a sequence.
LEMMA RemoveAtType ==
    ASSUME NEW S, NEW s \in Seq(S), NEW n \in DOMAIN s
    PROVE  RemoveAt(s, n) \in Seq(S)
<1>1. DOMAIN s = 1..Len(s) /\ Len(s) \in Nat
  BY LenProperties
<1>2. \A i \in 1..Len(s) : s[i] \in S
  BY ElementOfSeq
<1>3. SubSeq(s, 1, n - 1) \in Seq(S)
  BY <1>1, <1>2, SubSeqProperties
<1>4. SubSeq(s, n + 1, Len(s)) \in Seq(S)
  BY <1>1, <1>2, SubSeqProperties
<1>5. QED BY <1>3, <1>4, ConcatProperties DEF RemoveAt

LEMMA RemoveKeyListenerIInv ==
    ASSUME IInv, NEW c \in Clients, NEW k \in Keys \cup {AnyKey}, NEW f \in Flags,
           RemoveKeyListener(c, k, f)
    PROVE  IInv'
<1>1. PICK i \in ListenersAt(c, k, f) :
         keyListeners' = [keyListeners EXCEPT ![c][k] = RemoveAt(@, i)]
  BY DEF RemoveKeyListener
<1>2. i \in DOMAIN keyListeners[c][k] /\ keyListeners[c][k] \in Seq(KeyListenerInfo)
  BY DEF ListenersAt, IInv, TypeOK
<1>3. RemoveAt(keyListeners[c][k], i) \in Seq(KeyListenerInfo)
  BY <1>2, RemoveAtType
<1>4. keyListeners' \in [Clients -> [Keys \cup {AnyKey} -> Seq(KeyListenerInfo)]]
  BY <1>1, <1>3 DEF IInv, TypeOK
<1>5. gPendingKeyUpListeners' \subseteq Compositors
  BY DEF RemoveKeyListener, Queue, IInv, TypeOK
<1>6. QED BY <1>4, <1>5, ChangeListenersIInv DEF RemoveKeyListener

LEMMA RemoveAllKeyListenersIInv ==
    ASSUME IInv, RemoveAllKeyListeners
    PROVE  IInv'
<1>1. NoListeners \in [Keys \cup {AnyKey} -> Seq(KeyListenerInfo)]
  BY DEF NoListeners
<1>2. keyListeners' \in [Clients -> [Keys \cup {AnyKey} -> Seq(KeyListenerInfo)]]
  BY <1>1 DEF RemoveAllKeyListeners, IInv, TypeOK
<1>3. QED BY <1>2, ChangeListenersIInv DEF RemoveAllKeyListeners, routing, IInv, TypeOK

-----------------------------------------------------------------------------
(* Key dispatch.  Every stage of it turns a good routing record into a good *)
(* one, and presses only displays in the lists or lost from them.           *)

RoutingInv(r) ==
    /\ r \in Routing
    /\ GoodFocus(r.focused)
    /\ GoodIntercepts(r.intercepts)
    /\ r.presses \subseteq Managed \cup lost

LEMMA CurrentRoutingInv ==
    ASSUME IInv
    PROVE  RoutingInv(CurrentRouting)
  BY DEF IInv, TypeOK, CurrentRouting, RoutingInv, Routing

\* The objects a press may go to.
LEMMA ManagedOrLost ==
    ASSUME IInv, NEW o \in Compositors,
           \/ \E c \in Clients : o = compositor[c]
           \/ o \in lost
    PROVE  o \in Managed \cup lost
  BY ConstantsAssumption DEF Managed, Objects

LEMMA PressOnInv ==
    ASSUME NEW r, RoutingInv(r), NEW S \in SUBSET Compositors, S \subseteq Managed \cup lost
    PROVE  RoutingInv(PressOn(r, S))
  BY DEF RoutingInv, Routing, PressOn

LEMMA ReleaseOnInv ==
    ASSUME IInv, NEW r, RoutingInv(r), NEW S
    PROVE  RoutingInv(ReleaseOn(r, S))
<1>1. r \in Routing /\ r.pressed \subseteq Compositors
  BY DEF RoutingInv, Routing
<1>2. S \cap r.pressed \cap mInputEventsEnabled \subseteq Compositors
  BY <1>1
<1>3. QED BY <1>1, <1>2 DEF RoutingInv, Routing, ReleaseOn

\* Binding the entries whose client exists by now binds them to its display.
LEMMA RebindInv ==
    ASSUME IInv, NEW r, RoutingInv(r), NEW k \in Keys
    PROVE  RoutingInv(Rebind(r, k))
<1> DEFINE bind(e) == IF e.compositor = NoCompositor
                        THEN [e EXCEPT !.compositor = compositor[e.client]] ELSE e
           S == {bind(e) : e \in r.intercepts[k]}
           b == Rebind(r, k)
<1>1. r \in Routing /\ r.intercepts \in [Keys -> SUBSET KeyInterceptInfo]
  BY DEF RoutingInv, Routing
<1>2. b = [r EXCEPT !.intercepts = [r.intercepts EXCEPT ![k] = S]]
  BY <1>1 DEF Rebind, Routing
<1>3. ASSUME NEW e \in r.intercepts[k]
      PROVE  /\ bind(e) \in KeyInterceptInfo
             /\ bind(e).compositor \in {NoCompositor, compositor[bind(e).client]} \cup lost
  <2>1. e \in KeyInterceptInfo
    BY <1>1
  <2>2. compositor[e.client] \in OrNone
    BY <2>1 DEF KeyInterceptInfo, IInv, TypeOK
  <2>3. e.compositor \in {NoCompositor, compositor[e.client]} \cup lost
    BY DEF RoutingInv, GoodIntercepts
  <2>4. CASE e.compositor = NoCompositor
    BY <2>1, <2>2, <2>4 DEF KeyInterceptInfo
  <2>5. CASE e.compositor # NoCompositor
    BY <2>1, <2>3, <2>5
  <2>6. QED BY <2>4, <2>5
<1>4. /\ S \subseteq KeyInterceptInfo
      /\ \A e \in S : e.compositor \in {NoCompositor, compositor[e.client]} \cup lost
  BY <1>3
<1> HIDE DEF S, b
<1> DEFINE map == [r.intercepts EXCEPT ![k] = S]
<1>5. /\ map \in [Keys -> SUBSET KeyInterceptInfo]
      /\ GoodIntercepts(map)
  BY <1>1, <1>4 DEF GoodIntercepts, RoutingInv
<1>6. b = [r EXCEPT !.intercepts = map]
  BY <1>2
<1> HIDE DEF map
<1>7. /\ b \in Routing
      /\ b.focused = r.focused /\ b.presses = r.presses /\ b.intercepts = map
  BY <1>1, <1>5, <1>6 DEF Routing
<1>8. QED BY <1>5, <1>7 DEF RoutingInv, b

LEMMA InterceptorsManaged ==
    ASSUME IInv, NEW r, RoutingInv(r), NEW k \in Keys, NEW f
    PROVE  /\ Interceptors(r, k, f) \subseteq Compositors
           /\ Interceptors(r, k, f) \subseteq Managed \cup lost
<1> SUFFICES ASSUME NEW e \in Matching(r, k, f)
             PROVE  e.compositor \in Compositors /\ e.compositor \in Managed \cup lost
  BY DEF Interceptors
<1>1. e.compositor \in Compositors /\ e \in r.intercepts[k]
  BY DEF Matching, IInv, TypeOK
<1>2. e.client \in Clients
  BY <1>1 DEF RoutingInv, Routing, KeyInterceptInfo
<1>3. e.compositor = compositor[e.client] \/ e.compositor \in lost
  BY <1>1, ConstantsAssumption DEF RoutingInv, GoodIntercepts
<1>4. QED BY <1>1, <1>2, <1>3, ManagedOrLost

LEMMA FocusManaged ==
    ASSUME IInv, NEW f, GoodFocus(f), f.compositor # NoCompositor
    PROVE  f.compositor \in Compositors /\ f.compositor \in Managed \cup lost
  BY ManagedOrLost DEF GoodFocus, NoFocus

\* The displays bubbleKey walks over are enabled ones of gCompositorList.
LEMMA VisitedManaged ==
    ASSUME IInv, NEW r, NEW k, NEW f, NEW i \in Visited(r, k, f)
    PROVE  LET c == compositorLists["gCompositorList"][i]
           IN  /\ c \in Clients
               /\ compositor[c] \in Compositors
               /\ compositor[c] \in Managed \cup lost
<1> DEFINE s == compositorLists["gCompositorList"]
<1>1. s \in Seq(Clients)
  BY DEF IInv, TypeOK, ListNames
<1>2. i \in DOMAIN s /\ compositor[s[i]] \in mInputEventsEnabled
  BY DEF Visited, Eligible
<1>3. s[i] \in Clients
  BY <1>1, <1>2
<1>4. compositor[s[i]] \in Compositors
  BY <1>2 DEF IInv, TypeOK
<1>5. QED BY <1>3, <1>4, ManagedOrLost

LEMMA ReceiversManaged ==
    ASSUME IInv, NEW r, NEW k, NEW f
    PROVE  /\ Receivers(r, k, f) \subseteq Compositors
           /\ Receivers(r, k, f) \subseteq Managed \cup lost
  BY VisitedManaged DEF Receivers

\* The focus a listener takes is on a listed display.
LEMMA ActivateInv ==
    ASSUME IInv, NEW r, RoutingInv(r), NEW k, NEW f
    PROVE  RoutingInv(Activate(r, k, f))
<1> DEFINE s == compositorLists["gCompositorList"]
           activators == {i \in Visited(r, k, f) :
                             Activates(s[i], k, f) /\ s[i] # r.focused.name}
           last == {i \in activators : \A j \in activators : j <= i}
           Info(i) == [name |-> s[i], compositor |-> compositor[s[i]]]
           losers == {r.focused.compositor} \cup {compositor[s[i]] : i \in activators \ last}
           i0 == CHOOSE i \in last : TRUE
<1>1. CASE last = {}
  BY <1>1 DEF Activate
<1>2. CASE last # {}
  <2>1. i0 \in Visited(r, k, f)
    BY <1>2
  <2>2. Activate(r, k, f) = [r EXCEPT !.focused = Info(i0), !.pending = HandOver(r, losers)]
    BY <1>2 DEF Activate
  <2>3. s[i0] \in Clients /\ compositor[s[i0]] \in Compositors
    BY <2>1, VisitedManaged
  <2> HIDE DEF i0, s, losers, last
  <2>4. /\ Info(i0) \in [name : Clients \cup {NoClient}, compositor : OrNone]
        /\ GoodFocus(Info(i0))
    BY <2>3 DEF OrNone, GoodFocus
  <2>5. HandOver(r, losers) \subseteq Compositors
    BY DEF HandOver, RoutingInv, Routing
  <2> HIDE DEF Info
  <2>6. QED BY <2>2, <2>4, <2>5 DEF RoutingInv, Routing
<1>3. QED BY <1>1, <1>2

LEMMA BubblePressInv ==
    ASSUME IInv, NEW r, RoutingInv(r), NEW k \in Keys, NEW f
    PROVE  RoutingInv(BubblePress(r, k, f))
<1> DEFINE S == Receivers(r, k, f)
           d == PressOn(r, S)
           q == [d EXCEPT !.pending = @ \cup S]
<1>1. S \subseteq Compositors /\ S \subseteq Managed \cup lost
  BY ReceiversManaged
<1> HIDE DEF S
<1>2. RoutingInv(d)
  BY <1>1, PressOnInv
<1> HIDE DEF d
<1>3. RoutingInv(q)
  BY <1>1, <1>2 DEF RoutingInv, Routing
<1>4. BubblePress(r, k, f) = Activate(q, k, f)
  BY DEF BubblePress, q, d, S
<1> HIDE DEF q
<1>5. QED BY <1>3, <1>4, ActivateInv

LEMMA BubbleReleaseInv ==
    ASSUME IInv, NEW r, RoutingInv(r), NEW k \in Keys, NEW f
    PROVE  RoutingInv(BubbleRelease(r, k, f))
  BY ReleaseOnInv, ActivateInv DEF BubbleRelease

LEMMA PressInv ==
    ASSUME IInv, NEW r, RoutingInv(r), NEW k \in Keys, NEW f
    PROVE  RoutingInv(Press(r, k, f))
<1> DEFINE b == Rebind(r, k)
<1>1. RoutingInv(b)
  BY RebindInv
<1>2. Press(r, k, f) =
        IF Matching(b, k, f) # {} THEN PressOn(b, Interceptors(b, k, f))
        ELSE IF r.focused.compositor = NoCompositor THEN b
        ELSE BubblePress(PressOn(b, {r.focused.compositor}), k, f)
  BY DEF Press
<1> HIDE DEF b
<1>3. CASE Matching(b, k, f) # {}
  BY <1>1, <1>2, <1>3, InterceptorsManaged, PressOnInv
<1>4. CASE Matching(b, k, f) = {} /\ r.focused.compositor = NoCompositor
  BY <1>1, <1>2, <1>4
<1>5. CASE Matching(b, k, f) = {} /\ r.focused.compositor # NoCompositor
  <2>1. {r.focused.compositor} \subseteq Compositors /\ {r.focused.compositor} \subseteq Managed \cup lost
    BY <1>5, FocusManaged DEF RoutingInv
  <2>2. RoutingInv(PressOn(b, {r.focused.compositor}))
    BY <1>1, <2>1, PressOnInv
  <2>3. Press(r, k, f) = BubblePress(PressOn(b, {r.focused.compositor}), k, f)
    BY <1>2, <1>5
  <2>4. QED BY <2>2, <2>3, BubblePressInv
<1>6. QED BY <1>3, <1>4, <1>5

LEMMA FlushPendingInv ==
    ASSUME IInv, NEW r, RoutingInv(r)
    PROVE  RoutingInv(FlushPending(r))
<1> DEFINE d == ReleaseOn(r, r.pending)
<1>1. RoutingInv(d)
  BY ReleaseOnInv
<1>2. FlushPending(r) = [d EXCEPT !.pending = {}]
  BY DEF FlushPending
<1> HIDE DEF d
<1>3. QED BY <1>1, <1>2 DEF RoutingInv, Routing

LEMMA ReleaseInv ==
    ASSUME IInv, NEW r, RoutingInv(r), NEW k \in Keys, NEW f
    PROVE  RoutingInv(Release(r, k, f))
<1> DEFINE b == Rebind(r, k)
           d == IF Matching(b, k, f) # {} THEN ReleaseOn(b, Interceptors(b, k, f))
                ELSE IF r.focused.compositor = NoCompositor THEN b
                ELSE BubbleRelease(ReleaseOn(b, {r.focused.compositor}), k, f)
<1>1. RoutingInv(b)
  BY RebindInv
<1>2. Release(r, k, f) = FlushPending(d)
  BY DEF Release
<1> HIDE DEF b
<1>3. RoutingInv(ReleaseOn(b, Interceptors(b, k, f)))
  BY <1>1, ReleaseOnInv
<1>4. RoutingInv(BubbleRelease(ReleaseOn(b, {r.focused.compositor}), k, f))
  BY <1>1, ReleaseOnInv, BubbleReleaseInv
<1>5. RoutingInv(d)
  BY <1>1, <1>3, <1>4
<1> HIDE DEF d
<1>6. QED BY <1>2, <1>5, FlushPendingInv

LEMMA SetRoutingIInv ==
    ASSUME IInv, NEW r, RoutingInv(r), SetRouting(r)
    PROVE  IInv' /\ sent'.presses \subseteq Managed \cup lost
<1>1. TypeOK'
  BY DEF SetRouting, lists, RoutingInv, Routing, IInv, TypeOK
<1>2. sent'.presses = r.presses
  BY DEF SetRouting
<1>3. /\ GoodFocus(gFocusedCompositor') /\ GoodIntercepts(gKeyInterceptInfoMap')
      /\ UNCHANGED <<compositorLists, compositor, lost, gDeletedCompositors>>
  BY DEF SetRouting, RoutingInv, lists
<1>4. QED BY <1>1, <1>2, <1>3, KeepListsIInv DEF RoutingInv

LEMMA KeyEventIInv ==
    ASSUME IInv, NEW k \in Keys, NEW f \in Flags, OnKeyPress(k, f) \/ OnKeyRelease(k, f)
    PROVE  IInv' /\ sent'.presses \subseteq Managed \cup lost
<1>1. RoutingInv(CurrentRouting) /\ RoutingInv(Press(CurrentRouting, k, f))
  BY CurrentRoutingInv, PressInv
<1>2. CASE OnKeyPress(k, f)
  BY <1>1, <1>2, SetRoutingIInv DEF OnKeyPress
<1>3. CASE OnKeyRelease(k, f)
  <2> DEFINE r == IF k \in PowerKeys /\ ~PowerReleaseOnly
                    THEN Press(CurrentRouting, k, f) ELSE CurrentRouting
  <2>1. RoutingInv(r)
    BY <1>1
  <2>2. SetRouting(Release(r, k, f))
    BY <1>3 DEF OnKeyRelease
  <2> HIDE DEF r
  <2>3. QED BY <2>1, <2>2, ReleaseInv, SetRoutingIInv
<1>4. QED BY <1>2, <1>3

-----------------------------------------------------------------------------
(* The invariant of the specification and what follows from it.            *)

\* Every call and every key event keeps the invariant and presses only
\* displays that are in the lists or were lost from them.
LEMMA NextIInv ==
    ASSUME IInv, Next
    PROVE  IInv' /\ sent'.presses \subseteq Managed \cup lost
<1>1. ASSUME NEW c \in Clients, Display(c)
      PROVE  IInv' /\ sent'.presses = {}
  <2>1. ASSUME NEW topmost \in BOOLEAN, NEW focus \in BOOLEAN, CreateDisplay(c, topmost, focus)
        PROVE  IInv' /\ sent'.presses = {}
    <3>1. PICK o \in Compositors :
             AddDisplay(c, o, topmost, focus \/ (~topmost /\ NothingListed))
      BY <2>1 DEF CreateDisplay
    <3>2. ~Listed(c) /\ (focus \/ (~topmost /\ NothingListed)) \in BOOLEAN
      BY <2>1 DEF CreateDisplay
    <3>3. sent'.presses = {}
      BY <3>1 DEF AddDisplay, NothingSent
    <3>4. QED BY <3>1, <3>2, <3>3, AddDisplayIInv
  <2>2. ASSUME NEW topmost \in BOOLEAN, NEW focus \in BOOLEAN, LaunchApplication(c, topmost, focus)
        PROVE  IInv' /\ sent'.presses = {}
    <3>1. PICK o \in Compositors :
             AddDisplay(c, o, topmost, (topmost /\ focus) \/ (~topmost /\ NothingListed))
      BY <2>2 DEF LaunchApplication
    <3>2. ~Listed(c) /\ ((topmost /\ focus) \/ (~topmost /\ NothingListed)) \in BOOLEAN
      BY <2>2 DEF LaunchApplication
    <3>3. sent'.presses = {}
      BY <3>1 DEF AddDisplay, NothingSent
    <3>4. QED BY <3>1, <3>2, <3>3, AddDisplayIInv
  <2>3. ASSUME NEW topmost \in BOOLEAN, NEW focus \in BOOLEAN, SetTopmost(c, topmost, focus)
        PROVE  IInv' /\ sent'.presses = {}
    BY <2>3, SetTopmostIInv DEF SetTopmost, NothingSent
  <2>4. ASSUME MoveToFront(c) PROVE IInv' /\ sent'.presses = {}
    BY <2>4, MoveToFrontIInv DEF MoveToFront, Restack, NothingSent
  <2>5. ASSUME MoveToBack(c) PROVE IInv' /\ sent'.presses = {}
    BY <2>5, MoveToBackIInv DEF MoveToBack, Restack, NothingSent
  <2>6. ASSUME NEW target \in Clients, MoveBehind(c, target) PROVE IInv' /\ sent'.presses = {}
    BY <2>6, MoveBehindIInv DEF MoveBehind, Restack, NothingSent
  <2>7. ASSUME SetFocus(c) PROVE IInv' /\ sent'.presses = {}
    BY <2>7, SetFocusIInv DEF SetFocus, NothingSent
  <2>8. ASSUME Kill(c) PROVE IInv' /\ sent'.presses = {}
    BY <2>8, KillIInv DEF Kill, NothingSent
  <2>9. ASSUME NEW enable \in BOOLEAN, EnableInputEvents(c, enable)
        PROVE  IInv' /\ sent'.presses = {}
    BY <2>9, EnableInputEventsIInv DEF EnableInputEvents, NothingSent
  <2>10. QED BY <1>1, <2>1, <2>2, <2>3, <2>4, <2>5, <2>6, <2>7, <2>8, <2>9 DEF Display
<1>2. ASSUME Intercept PROVE IInv' /\ sent'.presses = {}
  <2>1. ASSUME NEW c \in Clients, NEW k \in Keys, NEW f \in Flags, NEW always \in BOOLEAN,
               SetKeyIntercept(c, k, f, always)
        PROVE  IInv' /\ sent'.presses = {}
    BY <2>1, SetKeyInterceptIInv DEF SetKeyIntercept, NothingSent
  <2>2. ASSUME NEW c, NEW k \in Keys, NEW f \in Flags, RemoveKeyIntercept(c, k, f)
        PROVE  IInv' /\ sent'.presses = {}
    <3>1. IInv'
      BY <2>2, RemoveKeyInterceptIInv
    <3>2. QED BY <2>2, <3>1 DEF RemoveKeyIntercept, NothingSent
  <2>3. ASSUME RemoveAllKeyIntercepts PROVE IInv' /\ sent'.presses = {}
    BY <2>3, RemoveAllKeyInterceptsIInv DEF RemoveAllKeyIntercepts, NothingSent
  <2>4. QED BY <1>2, <2>1, <2>2, <2>3 DEF Intercept
<1>3. ASSUME Listen PROVE IInv' /\ sent'.presses = {}
  <2>1. ListenKeys \subseteq Keys \cup {AnyKey}
    BY ConstantsAssumption
  <2>2. ASSUME NEW c \in Clients, NEW k \in ListenKeys, NEW f \in Flags,
               NEW activate \in BOOLEAN, NEW propagate \in BOOLEAN,
               AddKeyListener(c, k, f, activate, propagate)
        PROVE  IInv' /\ sent'.presses = {}
    <3>1. k \in Keys \cup {AnyKey}
      BY <2>1
    <3>2. IInv'
      BY <2>2, <3>1, AddKeyListenerIInv
    <3>3. QED BY <2>2, <3>2 DEF AddKeyListener, NothingSent
  <2>3. ASSUME NEW c \in Clients, NEW k \in ListenKeys, NEW f \in Flags, RemoveKeyListener(c, k, f)
        PROVE  IInv' /\ sent'.presses = {}
    BY <2>1, <2>3, RemoveKeyListenerIInv DEF RemoveKeyListener, NothingSent
  <2>4. ASSUME RemoveAllKeyListeners PROVE IInv' /\ sent'.presses = {}
    BY <2>4, RemoveAllKeyListenersIInv DEF RemoveAllKeyListeners, NothingSent
  <2>5. QED BY <1>3, <2>2, <2>3, <2>4 DEF Listen
<1>4. ASSUME KeyEvent PROVE IInv' /\ sent'.presses \subseteq Managed \cup lost
  BY <1>4, KeyEventIInv DEF KeyEvent
<1>5. ASSUME Draw PROVE IInv' /\ sent'.presses = {}
  BY <1>5, DrawIInv DEF Draw, NothingSent
<1>6. QED BY <1>1, <1>2, <1>3, <1>4, <1>5 DEF Next

\* A call that changes nothing keeps the invariant.
LEMMA StutterIInv ==
    ASSUME IInv, UNCHANGED vars
    PROVE  IInv'
<1>1. TypeOK'
  BY DEF vars, lists, routing, IInv, TypeOK
<1>2. QED BY <1>1, KeepListsIInv DEF vars, lists, routing, IInv

\* The invariant holds of every state of the specification.
THEOREM Invariance == Spec => []IInv
<1>1. IInv /\ [Next]_vars => IInv'
  BY NextIInv, StutterIInv
<1>2. QED BY InitIInv, <1>1, PTL DEF Spec

\* Every variable keeps its type: in particular a display is only queued for a
\* key-up, killed or lost while it is an object and not a null pointer.
THEOREM TypeCorrectness == Spec => []TypeOK
<1>1. IInv => TypeOK
  BY DEF IInv
<1>2. QED BY Invariance, <1>1, PTL

\* However displays are created, moved, made topmost and killed, no name is
\* twice in the z-order.
THEOREM NamesAreUnique == Spec => []UniqueNames
<1>1. IInv => UniqueNames
  <2> SUFFICES ASSUME IInv, NEW l1 \in ListNames, NEW l2 \in ListNames,
                      NEW i \in DOMAIN compositorLists[l1],
                      NEW j \in DOMAIN compositorLists[l2],
                      compositorLists[l1][i] = compositorLists[l2][j]
               PROVE  l1 = l2 /\ i = j
    BY DEF UniqueNames
  <2>1. compositorLists[l1] \in Seq(Clients) /\ compositorLists[l2] \in Seq(Clients)
    BY DEF IInv, TypeOK
  <2>2. /\ Contains(compositorLists[l1], compositorLists[l1][i])
        /\ Contains(compositorLists[l2], compositorLists[l2][j])
    BY <2>1, ContainsDomain
  <2>3. l1 = l2
    BY <2>2 DEF IInv, ListsInv
  <2>4. QED BY <2>3 DEF IInv, ListsInv, NoRepeat
<1>2. QED BY Invariance, <1>1, PTL

\* The copy of the focused client's CompositorInfo is never stale.
THEOREM FocusStaysManaged == Spec => []FocusIsManaged
<1>1. IInv => FocusIsManaged
  BY DEF IInv, GoodFocus, FocusIsManaged
<1>2. QED BY Invariance, <1>1, PTL

\* Neither is the compositor an intercept entry holds.
THEOREM InterceptsStayManaged == Spec => []InterceptsAreManaged
<1>1. IInv => InterceptsAreManaged
  BY DEF IInv, GoodIntercepts, InterceptsAreManaged
<1>2. QED BY Invariance, <1>1, PTL

\* Once killed, a display is held by the key-up queue at most.
THEOREM DeletedIsUnreferenced == Spec => []DeletedUnreferenced
<1>1. IInv => DeletedUnreferenced
  <2> SUFFICES ASSUME IInv, NEW o \in gDeletedCompositors,
                      o \in Managed \cup Bound \cup {gFocusedCompositor.compositor}
               PROVE  FALSE
    BY DEF DeletedUnreferenced
  <2>1. o \in Compositors /\ o \notin Managed /\ o \notin lost
    BY DEF IInv, TypeOK, ObjectsInv
  <2>2. \A c \in Clients : o # compositor[c]
    BY <2>1, ConstantsAssumption DEF Managed, Objects
  <2>3. CASE o \in Bound
    <3>1. PICK k \in Keys : \E e \in gKeyInterceptInfoMap[k] : e.compositor = o
      BY <2>3 DEF Bound, Objects
    <3>2. PICK e \in gKeyInterceptInfoMap[k] : e.compositor = o
      BY <3>1
    <3>3. e.client \in Clients
      BY DEF IInv, TypeOK, KeyInterceptInfo
    <3>4. QED BY <2>1, <2>2, <3>2, <3>3, ConstantsAssumption DEF IInv, GoodIntercepts
  <2>4. CASE o = gFocusedCompositor.compositor
    BY <2>1, <2>2, <2>4, ConstantsAssumption DEF IInv, GoodFocus, NoFocus
  <2>5. QED BY <2>1, <2>3, <2>4
<1>2. QED BY Invariance, <1>1, PTL

\* No key press is sent to a display that kill() took out of the lists.
THEOREM PressesAreManaged == Spec => PressOnlyToManaged
<1>1. IInv /\ [Next]_vars => [sent'.presses \subseteq Managed \cup lost]_vars
  BY NextIInv
<1>2. QED BY Invariance, <1>1, PTL DEF Spec, PressOnlyToManaged

-----------------------------------------------------------------------------
(* The two lists implement the z-order of ZOrder: what a call does to one   *)
(* list is what one call of ZOrder does to both together.                   *)

Upper == compositorLists["gTopmostCompositorList"]
Lower  == compositorLists["gCompositorList"]

\* With only topmost clients in front and none of them behind, a topmost
\* client may stand anywhere in front, any other anywhere behind.
LEMMA PlacesOfLayers ==
    ASSUME NEW s \in Seq(Clients), NEW t \in Seq(Clients),
           \A i \in DOMAIN s : s[i] \in ToSet(Upper),
           \A i \in DOMAIN t : t[i] \notin ToSet(Upper)
    PROVE  /\ Abstract!Places(s \o t, TRUE) = 1..(Len(s) + 1)
           /\ Abstract!Places(s \o t, FALSE) = (Len(s) + 1)..(Len(s) + Len(t) + 1)
<1> DEFINE st == s \o t
           top == ToSet(Upper)
<1>1. /\ st \in Seq(Clients) /\ Len(st) = Len(s) + Len(t)
      /\ \A i \in 1..(Len(s) + Len(t)) : st[i] = IF i <= Len(s) THEN s[i] ELSE t[i - Len(s)]
  BY ConcatProperties
<1>2. Len(s) \in Nat /\ Len(t) \in Nat /\ DOMAIN s = 1..Len(s) /\ DOMAIN t = 1..Len(t)
  BY LenProperties
<1>3. /\ Abstract!Places(st, TRUE) = {i \in 1..(Len(st) + 1) : \A j \in DOMAIN st : j < i => st[j] \in top}
      /\ Abstract!Places(st, FALSE) = {i \in 1..(Len(st) + 1) : \A j \in DOMAIN st : j >= i => st[j] \notin top}
  BY DEF Abstract!Places, Abstract!ToSet, ToSet, Upper
<1> HIDE DEF st, top
<1>4. DOMAIN st = 1..(Len(s) + Len(t))
  BY <1>1, LenProperties
<1>5. \A j \in DOMAIN st : st[j] \in top <=> j <= Len(s)
  <2> SUFFICES ASSUME NEW j \in DOMAIN st PROVE st[j] \in top <=> j <= Len(s)
    OBVIOUS
  <2>1. CASE j <= Len(s)
    BY <2>1, <1>1, <1>2, <1>4 DEF top
  <2>2. CASE ~(j <= Len(s))
    <3>1. j - Len(s) \in DOMAIN t /\ st[j] = t[j - Len(s)]
      BY <2>2, <1>1, <1>2, <1>4
    <3>2. QED BY <3>1, <2>2 DEF top
  <2>3. QED BY <2>1, <2>2
<1>6. Abstract!Places(st, TRUE) = 1..(Len(s) + 1)
  <2>1. ASSUME NEW i \in Abstract!Places(st, TRUE) PROVE i \in 1..(Len(s) + 1)
    <3>1. i \in 1..(Len(s) + Len(t) + 1) /\ \A j \in DOMAIN st : j < i => j <= Len(s)
      BY <1>1, <1>3, <1>5
    <3>2. CASE i > Len(s) + 1
      <4>1. i - 1 \in DOMAIN st /\ i - 1 < i /\ ~(i - 1 <= Len(s))
        BY <3>1, <3>2, <1>2, <1>4
      <4>2. QED BY <4>1, <3>1
    <3>3. QED BY <3>1, <3>2, <1>2
  <2>2. ASSUME NEW i \in 1..(Len(s) + 1) PROVE i \in Abstract!Places(st, TRUE)
    <3>1. i \in 1..(Len(st) + 1)
      BY <1>1, <1>2
    <3>2. \A j \in DOMAIN st : j < i => st[j] \in top
      BY <1>2, <1>4, <1>5
    <3>3. QED BY <3>1, <3>2, <1>3
  <2>3. QED BY <2>1, <2>2
<1>7. Abstract!Places(st, FALSE) = (Len(s) + 1)..(Len(s) + Len(t) + 1)
  <2>1. ASSUME NEW i \in Abstract!Places(st, FALSE) PROVE i \in (Len(s) + 1)..(Len(s) + Len(t) + 1)
    <3>1. i \in 1..(Len(s) + Len(t) + 1) /\ \A j \in DOMAIN st : j >= i => ~(j <= Len(s))
      BY <1>1, <1>3, <1>5
    <3>2. CASE i <= Len(s)
      <4>1. i \in DOMAIN st /\ i >= i
        BY <3>1, <3>2, <1>2, <1>4
      <4>2. QED BY <4>1, <3>1, <3>2
    <3>3. QED BY <3>1, <3>2, <1>2
  <2>2. ASSUME NEW i \in (Len(s) + 1)..(Len(s) + Len(t) + 1) PROVE i \in Abstract!Places(st, FALSE)
    <3>1. i \in 1..(Len(st) + 1)
      BY <1>1, <1>2
    <3>2. \A j \in DOMAIN st : j >= i => st[j] \notin top
      BY <1>2, <1>4, <1>5
    <3>3. QED BY <3>1, <3>2, <1>3
  <2>3. QED BY <2>1, <2>2
<1>8. QED BY <1>6, <1>7 DEF st

\* The names of the z-order, each in one place of it.
LEMMA ShownNames ==
    ASSUME IInv
    PROVE  /\ Upper \in Seq(Clients) /\ Lower \in Seq(Clients)
           /\ NoRepeat(Upper) /\ NoRepeat(Lower)
           /\ \A c : c \in ToSet(Upper) <=> Contains(Upper, c)
           /\ \A c : c \in Abstract!Shown <=> Contains(Upper, c) \/ Contains(Lower, c)
           /\ \A c : ~(Contains(Upper, c) /\ Contains(Lower, c))
           /\ \A c : Listed(c) <=> c \in Abstract!Shown
<1>1. Upper \in Seq(Clients) /\ Lower \in Seq(Clients) /\ NoRepeat(Upper) /\ NoRepeat(Lower)
  BY DEF IInv, TypeOK, ListsInv, ListNames, Upper, Lower
<1>2. \A c : ~(Contains(Upper, c) /\ Contains(Lower, c))
  <2>1. "gTopmostCompositorList" # "gCompositorList"
    OBVIOUS
  <2>2. QED BY <2>1 DEF IInv, ListsInv, ListNames, Upper, Lower
<1>3. \A c : c \in ToSet(Upper) <=> Contains(Upper, c)
  BY <1>1, ContainsDomain DEF ToSet
<1>4. ASSUME NEW c PROVE c \in Abstract!Shown <=> Contains(Upper, c) \/ Contains(Lower, c)
  <2> DEFINE st == Upper \o Lower
  <2>1. /\ st \in Seq(Clients) /\ Len(st) = Len(Upper) + Len(Lower)
        /\ \A i \in 1..(Len(Upper) + Len(Lower)) :
              st[i] = IF i <= Len(Upper) THEN Upper[i] ELSE Lower[i - Len(Upper)]
    BY <1>1, ConcatProperties
  <2>2. Len(Upper) \in Nat /\ Len(Lower) \in Nat
    BY <1>1, LenProperties
  <2>3. c \in Abstract!Shown <=> \E i \in DOMAIN st : st[i] = c
    BY DEF Abstract!Shown, Abstract!ToSet, getZOrder, Upper, Lower
  <2> HIDE DEF st
  <2>4. DOMAIN st = 1..(Len(Upper) + Len(Lower))
    BY <2>1, LenProperties
  <2>5. ASSUME NEW i \in DOMAIN st, st[i] = c PROVE Contains(Upper, c) \/ Contains(Lower, c)
    <3>1. CASE i <= Len(Upper)
      <4>1. i \in 1..Len(Upper) /\ Upper[i] = c
        BY <3>1, <2>1, <2>2, <2>4, <2>5
      <4>2. QED BY <4>1 DEF Contains
    <3>2. CASE ~(i <= Len(Upper))
      <4>1. i - Len(Upper) \in 1..Len(Lower) /\ Lower[i - Len(Upper)] = c
        BY <3>2, <2>1, <2>2, <2>4, <2>5
      <4>2. QED BY <4>1 DEF Contains
    <3>3. QED BY <3>1, <3>2
  <2>6. ASSUME Contains(Upper, c) PROVE \E i \in DOMAIN st : st[i] = c
    <3>1. PICK j \in 1..Len(Upper) : Upper[j] = c
      BY <2>6 DEF Contains
    <3>2. j \in DOMAIN st /\ st[j] = c
      BY <3>1, <2>1, <2>2, <2>4
    <3>3. QED BY <3>2
  <2>7. ASSUME Contains(Lower, c) PROVE \E i \in DOMAIN st : st[i] = c
    <3>1. PICK j \in 1..Len(Lower) : Lower[j] = c
      BY <2>7 DEF Contains
    <3>2. Len(Upper) + j \in 1..(Len(Upper) + Len(Lower)) /\ ~(Len(Upper) + j <= Len(Upper))
      BY <3>1, <2>2
    <3>3. st[Len(Upper) + j] = Lower[Len(Upper) + j - Len(Upper)]
      BY <3>2, <2>1
    <3>4. Len(Upper) + j - Len(Upper) = j
      BY <3>1, <2>2
    <3>5. QED BY <3>1, <3>2, <3>3, <3>4, <2>4
  <2>8. QED BY <2>3, <2>5, <2>6, <2>7
<1>5. \A c : Listed(c) <=> Contains(Upper, c) \/ Contains(Lower, c)
  BY DEF Listed, ListNames, Upper, Lower
<1>6. QED BY <1>1, <1>2, <1>3, <1>4, <1>5

\* Taking a client out of the z-order takes it out of its list.
LEMMA RemainingIsWithout ==
    ASSUME IInv, NEW c
    PROVE  /\ Contains(Upper, c) => Abstract!Remaining(c) = Without(Upper, c) \o Lower
           /\ Contains(Lower, c) => Abstract!Remaining(c) = Upper \o Without(Lower, c)
<1> DEFINE st == Upper \o Lower
           n == Abstract!PlaceOf(c)
<1>0. /\ Upper \in Seq(Clients) /\ Lower \in Seq(Clients)
      /\ NoRepeat(Upper) /\ NoRepeat(Lower)
      /\ ~(Contains(Upper, c) /\ Contains(Lower, c))
  BY ShownNames
<1>1. /\ st \in Seq(Clients) /\ Len(st) = Len(Upper) + Len(Lower)
      /\ \A i \in 1..(Len(Upper) + Len(Lower)) :
            st[i] = IF i <= Len(Upper) THEN Upper[i] ELSE Lower[i - Len(Upper)]
  BY <1>0, ConcatProperties
<1>2. Len(Upper) \in Nat /\ Len(Lower) \in Nat
  BY <1>0, LenProperties
<1>3. n = (CHOOSE i \in DOMAIN st : st[i] = c) /\ Abstract!Remaining(c) = RemoveAt(st, n)
  BY DEF Abstract!PlaceOf, Abstract!Remaining, Abstract!RemoveAt, RemoveAt, getZOrder, Upper, Lower
<1>4. DOMAIN st = 1..(Len(Upper) + Len(Lower))
  BY <1>1, LenProperties
<1> HIDE DEF st, n
<1>5. CASE Contains(Upper, c)
  <2> DEFINE m == IndexOf(Upper, c)
  <2>1. m \in 1..Len(Upper) /\ Upper[m] = c
    BY <1>0, <1>5, ContainsDomain, LenProperties DEF IndexOf
  <2> HIDE DEF m
  <2>2. m \in DOMAIN st /\ st[m] = c
    BY <2>1, <1>1, <1>2, <1>4
  <2>3. n \in DOMAIN st /\ st[n] = c
    BY <2>2, <1>3
  <2>4. n = m
    <3>1. CASE n <= Len(Upper)
      <4>1. n \in DOMAIN Upper /\ m \in DOMAIN Upper /\ Upper[n] = Upper[m]
        BY <3>1, <2>1, <2>3, <1>0, <1>1, <1>2, <1>4, LenProperties
      <4>2. QED BY <4>1, <1>0 DEF NoRepeat
    <3>2. CASE ~(n <= Len(Upper))
      <4>1. n - Len(Upper) \in 1..Len(Lower) /\ Lower[n - Len(Upper)] = c
        BY <3>2, <2>3, <1>1, <1>2, <1>4
      <4>2. Contains(Lower, c)
        BY <4>1 DEF Contains
      <4>3. QED BY <4>2, <1>0, <1>5
    <3>3. QED BY <3>1, <3>2
  <2>5. RemoveAt(Upper \o Lower, m) = RemoveAt(Upper, m) \o Lower
    BY <1>0, <2>1, RemoveInFront
  <2>6. Abstract!Remaining(c) = Without(Upper, c) \o Lower
    BY <2>4, <2>5, <1>3 DEF Without, m, st
  <2>7. QED BY <2>6, <1>0, <1>5
<1>6. CASE Contains(Lower, c)
  <2> DEFINE m == IndexOf(Lower, c)
  <2>1. m \in 1..Len(Lower) /\ Lower[m] = c
    BY <1>0, <1>6, ContainsDomain, LenProperties DEF IndexOf
  <2> HIDE DEF m
  <2>2. Len(Upper) + m \in DOMAIN st /\ st[Len(Upper) + m] = c
    <3> DEFINE x == Len(Upper) + m
    <3>1. x \in 1..(Len(Upper) + Len(Lower)) /\ ~(x <= Len(Upper)) /\ x - Len(Upper) = m
      BY <2>1, <1>2
    <3> HIDE DEF x
    <3>2. st[x] = Lower[x - Len(Upper)]
      BY <3>1, <1>1
    <3>3. x \in DOMAIN st /\ st[x] = c
      BY <2>1, <3>1, <3>2, <1>4
    <3>4. QED BY <3>3 DEF x
  <2>3. n \in DOMAIN st /\ st[n] = c
    BY <2>2, <1>3
  <2>4. n = Len(Upper) + m
    <3>1. CASE n <= Len(Upper)
      <4>1. n \in 1..Len(Upper) /\ Upper[n] = c
        BY <3>1, <2>3, <1>1, <1>2, <1>4
      <4>2. Contains(Upper, c)
        BY <4>1 DEF Contains
      <4>3. QED BY <4>2, <1>0, <1>6
    <3>2. CASE ~(n <= Len(Upper))
      <4>1. n - Len(Upper) \in 1..Len(Lower) /\ Lower[n - Len(Upper)] = c
        BY <3>2, <2>3, <1>1, <1>2, <1>4
      <4>2. n - Len(Upper) = m
        BY <4>1, <2>1, <1>0, LenProperties DEF NoRepeat
      <4>3. QED BY <4>2, <1>2, <1>4, <2>3, <2>1
    <3>3. QED BY <3>1, <3>2
  <2>5. RemoveAt(Upper \o Lower, Len(Upper) + m) = Upper \o RemoveAt(Lower, m)
    BY <1>0, <2>1, RemoveBehind
  <2>6. Abstract!Remaining(c) = Upper \o Without(Lower, c)
    BY <2>4, <2>5, <1>3 DEF Without, m, st
  <2>7. QED BY <2>6, <1>0, <1>6
<1>7. QED BY <1>5, <1>6

\* The list a listed client is in, and what is left of both without it.
LEMMA LayerOf ==
    ASSUME IInv, NEW c, Listed(c)
    PROVE  /\ c \in Clients
           /\ \/ Contains(Upper, c) /\ ListOf(c) = "gTopmostCompositorList"
              \/ Contains(Lower, c) /\ ListOf(c) = "gCompositorList"
           /\ Contains(Upper, c) =>
                LET r == Without(Upper, c) IN
                /\ r \in Seq(Clients)
                /\ Abstract!Remaining(c) = r \o Lower
                /\ \A d : Contains(r, d) <=> Contains(Upper, d) /\ d # c
                /\ \A i \in DOMAIN r : r[i] \in ToSet(Upper)
                /\ \A i \in DOMAIN Lower : Lower[i] \notin ToSet(Upper)
           /\ Contains(Lower, c) =>
                LET r == Without(Lower, c) IN
                /\ r \in Seq(Clients)
                /\ Abstract!Remaining(c) = Upper \o r
                /\ \A d : Contains(r, d) <=> Contains(Lower, d) /\ d # c
                /\ \A i \in DOMAIN Upper : Upper[i] \in ToSet(Upper)
                /\ \A i \in DOMAIN r : r[i] \notin ToSet(Upper)
<1>1. /\ Upper \in Seq(Clients) /\ Lower \in Seq(Clients)
      /\ NoRepeat(Upper) /\ NoRepeat(Lower)
      /\ \A d : d \in ToSet(Upper) <=> Contains(Upper, d)
      /\ \A d : ~(Contains(Upper, d) /\ Contains(Lower, d))
  BY ShownNames
<1>2. Contains(Upper, c) \/ Contains(Lower, c)
  BY DEF Listed, ListNames, Upper, Lower
<1>3. c \in Clients
  BY <1>1, <1>2, ElementOfSeq DEF Contains
<1>4. \/ Contains(Upper, c) /\ ListOf(c) = "gTopmostCompositorList"
      \/ Contains(Lower, c) /\ ListOf(c) = "gCompositorList"
  BY <1>1, <1>2 DEF ListOf, Upper, Lower
<1>5. ASSUME Contains(Upper, c)
      PROVE  LET r == Without(Upper, c) IN
             /\ r \in Seq(Clients)
             /\ Abstract!Remaining(c) = r \o Lower
             /\ \A d : Contains(r, d) <=> Contains(Upper, d) /\ d # c
             /\ \A i \in DOMAIN r : r[i] \in ToSet(Upper)
             /\ \A i \in DOMAIN Lower : Lower[i] \notin ToSet(Upper)
  <2> DEFINE r == Without(Upper, c)
  <2>1. /\ r \in Seq(Clients)
        /\ \A d : Contains(r, d) <=> Contains(Upper, d) /\ d # c
    BY <1>1, <1>5, WithoutProperties
  <2>2. Abstract!Remaining(c) = r \o Lower
    BY <1>5, RemainingIsWithout
  <2> HIDE DEF r
  <2>3. ASSUME NEW i \in DOMAIN r PROVE r[i] \in ToSet(Upper)
    BY <2>1, <1>1, ContainsDomain
  <2>4. ASSUME NEW i \in DOMAIN Lower PROVE Lower[i] \notin ToSet(Upper)
    BY <1>1, ContainsDomain
  <2>5. QED BY <2>1, <2>2, <2>3, <2>4 DEF r
<1>6. ASSUME Contains(Lower, c)
      PROVE  LET r == Without(Lower, c) IN
             /\ r \in Seq(Clients)
             /\ Abstract!Remaining(c) = Upper \o r
             /\ \A d : Contains(r, d) <=> Contains(Lower, d) /\ d # c
             /\ \A i \in DOMAIN Upper : Upper[i] \in ToSet(Upper)
             /\ \A i \in DOMAIN r : r[i] \notin ToSet(Upper)
  <2> DEFINE r == Without(Lower, c)
  <2>1. /\ r \in Seq(Clients)
        /\ \A d : Contains(r, d) <=> Contains(Lower, d) /\ d # c
    BY <1>1, <1>6, WithoutProperties
  <2>2. Abstract!Remaining(c) = Upper \o r
    BY <1>6, RemainingIsWithout
  <2> HIDE DEF r
  <2>3. ASSUME NEW i \in DOMAIN Upper PROVE Upper[i] \in ToSet(Upper)
    BY DEF ToSet
  <2>4. ASSUME NEW i \in DOMAIN r PROVE r[i] \notin ToSet(Upper)
    <3>1. Contains(Lower, r[i])
      BY <2>1, <2>4, ContainsDomain
    <3>2. QED BY <3>1, <1>1
  <2>5. QED BY <2>1, <2>2, <2>3, <2>4 DEF r
<1>7. QED BY <1>3, <1>4, <1>5, <1>6

\* The set of names of a sequence that holds the same names as another.
LEMMA SameNames ==
    ASSUME NEW s \in Seq(Clients), NEW D, \A d : Contains(s, d) <=> d \in D
    PROVE  ToSet(s) = D
  BY ContainsDomain DEF ToSet

\* A client put back into its list at another place moves within its layer.
LEMMA RestackMoves ==
    ASSUME IInv, NEW c, Listed(c), NEW p, NEW w,
           IsSplice(w, Without(compositorLists[ListOf(c)], c), p, c),
           Restack(ListOf(c), w)
    PROVE  Abstract!Move(c)
<1>1. /\ c \in Clients /\ c \in Abstract!Shown
      /\ Upper \in Seq(Clients) /\ Lower \in Seq(Clients)
      /\ \A d : d \in ToSet(Upper) <=> Contains(Upper, d)
      /\ \A d : ~(Contains(Upper, d) /\ Contains(Lower, d))
      /\ w \in Seq(Clients)
  BY ShownNames, LayerOf DEF IsSplice
<1>2. compositorLists' = [compositorLists EXCEPT ![ListOf(c)] = w]
      /\ DOMAIN compositorLists = ListNames
  BY DEF Restack, IInv, TypeOK
<1>3. CASE Contains(Upper, c)
  <2> DEFINE r == Without(Upper, c)
  <2>1. ListOf(c) = "gTopmostCompositorList"
    BY <1>1, <1>3, LayerOf
  <2>2. Upper' = w /\ Lower' = Lower
    BY <1>2, <2>1 DEF Upper, Lower, ListNames
  <2>3. /\ r \in Seq(Clients)
        /\ Abstract!Remaining(c) = r \o Lower
        /\ \A d : Contains(r, d) <=> Contains(Upper, d) /\ d # c
        /\ \A i \in DOMAIN r : r[i] \in ToSet(Upper)
        /\ \A i \in DOMAIN Lower : Lower[i] \notin ToSet(Upper)
    BY <1>3, LayerOf
  <2>4. IsSplice(w, r, p, c)
    BY <2>1 DEF Upper
  <2> HIDE DEF r
  <2>5. getZOrder' = InsertAt(r \o Lower, p, c)
    <3>1. w \o Lower = InsertAt(r \o Lower, p, c)
      BY SMTT(30), <2>3, <2>4, <1>1, SpliceInFront
    <3>2. getZOrder' = Upper' \o Lower'
      BY DEF getZOrder, Upper, Lower
    <3>3. QED BY <3>1, <3>2, <2>2
  <2>6. p \in Abstract!Places(r \o Lower, TRUE)
    BY <2>3, <2>4, <1>1, PlacesOfLayers DEF IsSplice
  <2>7. ToSet(Upper') = ToSet(Upper)
    <3>1. NoRepeat(r) /\ ~Contains(r, c)
      BY <1>1, <1>3, <2>3, ShownNames, WithoutProperties DEF r
    <3>2. \A d : Contains(w, d) <=> Contains(r, d) \/ d = c
      BY <2>3, <2>4, <3>1, SpliceProperties
    <3>3. \A d : Contains(w, d) <=> d \in ToSet(Upper)
      BY <3>2, <2>3, <1>1, <1>3
    <3>4. QED BY <3>3, <1>1, <2>2, SameNames
  <2>8. c \in ToSet(Upper)
    BY <1>1, <1>3
  <2>9. QED
    BY <1>1, <2>3, <2>5, <2>6, <2>7, <2>8
    DEF Abstract!Move, Abstract!InsertAt, InsertAt, Upper
<1>4. CASE Contains(Lower, c)
  <2> DEFINE r == Without(Lower, c)
  <2>1. ListOf(c) = "gCompositorList"
    BY <1>1, <1>4, LayerOf
  <2>2. Upper' = Upper /\ Lower' = w
    BY <1>2, <2>1 DEF Upper, Lower, ListNames
  <2>3. /\ r \in Seq(Clients)
        /\ Abstract!Remaining(c) = Upper \o r
        /\ \A i \in DOMAIN Upper : Upper[i] \in ToSet(Upper)
        /\ \A i \in DOMAIN r : r[i] \notin ToSet(Upper)
    BY <1>4, LayerOf
  <2>4. IsSplice(w, r, p, c)
    BY <2>1 DEF Lower
  <2> HIDE DEF r
  <2>5. getZOrder' = InsertAt(Upper \o r, Len(Upper) + p, c)
    <3>1. Upper \o w = InsertAt(Upper \o r, Len(Upper) + p, c)
      BY SMTT(20), <2>3, <2>4, <1>1, SpliceBehind
    <3>2. getZOrder' = Upper' \o Lower'
      BY DEF getZOrder, Upper, Lower
    <3>3. QED BY <3>1, <3>2, <2>2
  <2>6. Len(Upper) + p \in Abstract!Places(Upper \o r, FALSE)
    <3>1. p \in 1..(Len(r) + 1) /\ Len(r) \in Nat /\ Len(Upper) \in Nat
      BY <2>3, <2>4, <1>1, LenProperties DEF IsSplice
    <3>2. Abstract!Places(Upper \o r, FALSE) = (Len(Upper) + 1)..(Len(Upper) + Len(r) + 1)
      BY <2>3, <1>1, PlacesOfLayers
    <3> DEFINE n == Len(Upper) + p
    <3>3. n \in (Len(Upper) + 1)..(Len(Upper) + Len(r) + 1)
      BY <3>1
    <3> HIDE DEF n
    <3>4. n \in Abstract!Places(Upper \o r, FALSE)
      BY <3>2, <3>3
    <3>5. QED BY <3>4 DEF n
  <2>7. c \notin ToSet(Upper)
    BY <1>1, <1>4
  <2>8. (c \in ToSet(Upper)) = FALSE /\ ToSet(Upper') = ToSet(Upper)
    BY <2>2, <2>7
  <2> DEFINE n == Len(Upper) + p
  <2> HIDE DEF n
  <2>9. \E i \in Abstract!Places(Upper \o r, FALSE) : getZOrder' = InsertAt(Upper \o r, i, c)
    <3>1. n \in Abstract!Places(Upper \o r, FALSE) /\ getZOrder' = InsertAt(Upper \o r, n, c)
      BY <2>5, <2>6 DEF n
    <3>2. QED BY <3>1
  <2>10. QED
    BY <1>1, <2>3, <2>8, <2>9 DEF Abstract!Move, Abstract!InsertAt, InsertAt, Upper
<1>5. QED BY <1>3, <1>4, LayerOf

\* The least place of an interval is its first.
LEMMA FirstOfInterval ==
    ASSUME NEW a \in Nat, NEW b \in Nat, a <= b, NEW S, S = a..b
    PROVE  a \in S /\ \A j \in S : a <= j
  OBVIOUS

\* A client put in front of a list appears in front of its layer.
LEMMA AddDisplayAppears ==
    ASSUME IInv, NEW c \in Clients, ~Listed(c), NEW o, NEW topmost \in BOOLEAN,
           NEW focus \in BOOLEAN, AddDisplay(c, o, topmost, focus)
    PROVE  Abstract!Appear(c, topmost)
<1>1. /\ c \notin Abstract!Shown
      /\ Upper \in Seq(Clients) /\ Lower \in Seq(Clients)
      /\ NoRepeat(Upper) /\ NoRepeat(Lower)
      /\ \A d : d \in ToSet(Upper) <=> Contains(Upper, d)
      /\ \A d : ~(Contains(Upper, d) /\ Contains(Lower, d))
      /\ ~Contains(Upper, c) /\ ~Contains(Lower, c)
  BY ShownNames
<1>2. /\ compositorLists' = [compositorLists EXCEPT
            ![IF topmost THEN "gTopmostCompositorList" ELSE "gCompositorList"]
               = PutInFront(@, c)]
      /\ DOMAIN compositorLists = ListNames
  BY DEF AddDisplay, IInv, TypeOK
<1>3. /\ \A i \in DOMAIN Upper : Upper[i] \in ToSet(Upper)
      /\ \A i \in DOMAIN Lower : Lower[i] \notin ToSet(Upper)
  BY <1>1, ContainsDomain DEF ToSet
<1>4. getZOrder = Upper \o Lower /\ getZOrder' = Upper' \o Lower'
  BY DEF getZOrder, Upper, Lower
<1>5. Len(Upper) \in Nat /\ Len(Lower) \in Nat
  BY <1>1, LenProperties
<1>6. CASE topmost
  <2> DEFINE w == PutInFront(Upper, c)
  <2>1. Upper' = w /\ Lower' = Lower
    BY <1>2, <1>6 DEF Upper, Lower, ListNames
  <2>2. IsSplice(w, Upper, 1, c)
    BY <1>1, PutInFrontIsSplice
  <2> HIDE DEF w
  <2>3. w \o Lower = InsertAt(Upper \o Lower, 1, c)
    BY <1>1, <2>2, SpliceInFront
  <2>4. ToSet(Upper') = ToSet(Upper) \cup {c}
    <3>1. w \in Seq(Clients) /\ \A d : Contains(w, d) <=> Contains(Upper, d) \/ d = c
      BY <1>1, <2>2, SpliceProperties
    <3>2. \A d : Contains(w, d) <=> d \in ToSet(Upper) \cup {c}
      BY <1>1, <3>1
    <3>3. QED BY <2>1, <3>1, <3>2, SameNames
  <2>5. Abstract!Places(getZOrder, TRUE) = 1..(Len(Upper) + 1)
    BY <1>1, <1>3, <1>4, PlacesOfLayers
  <2>6. /\ 1 \in Abstract!Places(getZOrder, TRUE)
        /\ \A j \in Abstract!Places(getZOrder, TRUE) : 1 <= j
        /\ getZOrder' = InsertAt(getZOrder, 1, c)
    <3>1. 1 \in Nat /\ Len(Upper) + 1 \in Nat /\ 1 <= Len(Upper) + 1
      BY <1>5
    <3>2. 1 \in Abstract!Places(getZOrder, TRUE) /\ \A j \in Abstract!Places(getZOrder, TRUE) : 1 <= j
      BY <2>5, <3>1, FirstOfInterval
    <3>3. QED BY <1>4, <2>1, <2>3, <3>2
  <2>7. topmost = TRUE
    BY <1>6
  <2>8. QED BY <1>1, <2>4, <2>6, <2>7
    DEF Abstract!Appear, Abstract!PutInFront, Abstract!InsertAt, InsertAt, Upper
<1>7. CASE ~topmost
  <2> DEFINE w == PutInFront(Lower, c)
             n == Len(Upper) + 1
  <2>1. Upper' = Upper /\ Lower' = w
    BY <1>2, <1>7 DEF Upper, Lower, ListNames
  <2>2. IsSplice(w, Lower, 1, c)
    BY <1>1, PutInFrontIsSplice
  <2> HIDE DEF w
  <2>3. Upper \o w = InsertAt(Upper \o Lower, n, c)
    BY SMTT(20), <1>1, <2>2, SpliceBehind
  <2>4. ToSet(Upper') = ToSet(Upper) \ {c}
    BY <1>1, <2>1
  <2>5. Abstract!Places(getZOrder, FALSE) = (Len(Upper) + 1)..(Len(Upper) + Len(Lower) + 1)
    BY <1>1, <1>3, <1>4, PlacesOfLayers
  <2>6. /\ n \in Abstract!Places(getZOrder, FALSE)
        /\ \A j \in Abstract!Places(getZOrder, FALSE) : n <= j
    <3>1. n \in Nat /\ Len(Upper) + Len(Lower) + 1 \in Nat /\ n <= Len(Upper) + Len(Lower) + 1
      BY <1>5
    <3> HIDE DEF n
    <3>2. Abstract!Places(getZOrder, FALSE) = n..(Len(Upper) + Len(Lower) + 1)
      BY <2>5 DEF n
    <3>3. QED BY <3>1, <3>2, FirstOfInterval
  <2> HIDE DEF n
  <2>7. getZOrder' = InsertAt(getZOrder, n, c)
    BY <1>4, <2>1, <2>3
  <2>8. topmost = FALSE
    BY <1>7
  <2>9. QED BY <1>1, <2>4, <2>6, <2>7, <2>8
    DEF Abstract!Appear, Abstract!PutInFront, Abstract!InsertAt, InsertAt, Upper
<1>8. QED BY <1>6, <1>7

\* A client erased from its list disappears from the z-order.
LEMMA DropFromListDisappears ==
    ASSUME IInv, NEW c, Listed(c), DropFromList(c)
    PROVE  Abstract!Disappear(c)
<1>1. /\ c \in Abstract!Shown
      /\ Upper \in Seq(Clients) /\ Lower \in Seq(Clients)
      /\ \A d : d \in ToSet(Upper) <=> Contains(Upper, d)
      /\ \A d : ~(Contains(Upper, d) /\ Contains(Lower, d))
  BY ShownNames
<1>2. /\ compositorLists' = [compositorLists EXCEPT ![ListOf(c)] = Without(@, c)]
      /\ DOMAIN compositorLists = ListNames
  BY DEF DropFromList, IInv, TypeOK
<1>3. getZOrder' = Upper' \o Lower'
  BY DEF getZOrder, Upper, Lower
<1>4. CASE Contains(Upper, c)
  <2> DEFINE r == Without(Upper, c)
  <2>1. ListOf(c) = "gTopmostCompositorList"
    BY <1>1, <1>4, LayerOf
  <2>2. Upper' = r /\ Lower' = Lower
    BY <1>2, <2>1 DEF Upper, Lower, ListNames
  <2>3. /\ r \in Seq(Clients)
        /\ Abstract!Remaining(c) = r \o Lower
        /\ \A d : Contains(r, d) <=> Contains(Upper, d) /\ d # c
    BY <1>4, LayerOf
  <2> HIDE DEF r
  <2>4. ToSet(Upper') = ToSet(Upper) \ {c}
    <3>1. \A d : Contains(r, d) <=> d \in ToSet(Upper) \ {c}
      BY <1>1, <2>3
    <3>2. QED BY <2>2, <2>3, <3>1, SameNames
  <2>5. QED BY <1>1, <1>3, <2>2, <2>3, <2>4 DEF Abstract!Disappear, Upper
<1>5. CASE Contains(Lower, c)
  <2> DEFINE r == Without(Lower, c)
  <2>1. ListOf(c) = "gCompositorList"
    BY <1>1, <1>5, LayerOf
  <2>2. Upper' = Upper /\ Lower' = r
    BY <1>2, <2>1 DEF Upper, Lower, ListNames
  <2>3. Abstract!Remaining(c) = Upper \o r
    BY <1>5, LayerOf
  <2> HIDE DEF r
  <2>4. ToSet(Upper') = ToSet(Upper) \ {c}
    BY <1>1, <1>5, <2>2
  <2>5. QED BY <1>1, <1>3, <2>2, <2>3, <2>4 DEF Abstract!Disappear, Upper
<1>6. QED BY <1>4, <1>5, LayerOf

\* A client that becomes topmost, or no longer is, goes to the front of its
\* new layer.
LEMMA SetTopmostChangesLayer ==
    ASSUME IInv, NEW c \in Clients, NEW topmost \in BOOLEAN, NEW focus \in BOOLEAN,
           SetTopmost(c, topmost, focus)
    PROVE  Abstract!ChangeLayer(c)
<1>0. Listed(c)
  BY DEF SetTopmost
<1>1. /\ c \in Abstract!Shown
      /\ Upper \in Seq(Clients) /\ Lower \in Seq(Clients)
      /\ NoRepeat(Upper) /\ NoRepeat(Lower)
      /\ \A d : d \in ToSet(Upper) <=> Contains(Upper, d)
      /\ \A d : ~(Contains(Upper, d) /\ Contains(Lower, d))
  BY <1>0, ShownNames
<1>2. LET from == ListOf(c)
          to   == IF topmost THEN "gTopmostCompositorList" ELSE "gCompositorList"
      IN  /\ from # to
          /\ compositorLists' = [compositorLists EXCEPT
                                   ![from] = Without(@, c), ![to] = PutInFront(@, c)]
          /\ DOMAIN compositorLists = ListNames
  BY DEF SetTopmost, IInv, TypeOK
<1>3. getZOrder' = Upper' \o Lower'
  BY DEF getZOrder, Upper, Lower
<1>4. Len(Upper) \in Nat /\ Len(Lower) \in Nat
  BY <1>1, LenProperties
<1>5. CASE Contains(Upper, c)
  <2> DEFINE r == Without(Upper, c)
             w == PutInFront(Lower, c)
             n == Len(r) + 1
  <2>1. ListOf(c) = "gTopmostCompositorList"
    BY <1>0, <1>1, <1>5, LayerOf
  <2>2. Upper' = r /\ Lower' = w
    BY <1>2, <2>1 DEF Upper, Lower, ListNames
  <2>3. /\ r \in Seq(Clients)
        /\ Abstract!Remaining(c) = r \o Lower
        /\ \A d : Contains(r, d) <=> Contains(Upper, d) /\ d # c
        /\ \A i \in DOMAIN r : r[i] \in ToSet(Upper)
        /\ \A i \in DOMAIN Lower : Lower[i] \notin ToSet(Upper)
    BY <1>0, <1>5, LayerOf
  <2>4. IsSplice(w, Lower, 1, c)
    BY <1>1, PutInFrontIsSplice
  <2> HIDE DEF r, w
  <2>5. r \o w = InsertAt(r \o Lower, n, c)
    <3>1. r \in Seq(Clients) /\ Lower \in Seq(Clients)
      BY <1>1, <2>3
    <3>2. \A p : IsSplice(w, Lower, p, c) => r \o w = InsertAt(r \o Lower, Len(r) + p, c)
      BY <3>1, SpliceBehind
    <3>4. r \o w = InsertAt(r \o Lower, Len(r) + 1, c)
      BY <2>4, <3>2
    <3>3. QED BY <3>4
  <2>6. ToSet(Upper') = ToSet(Upper) \ {c}
    <3>1. \A d : Contains(r, d) <=> d \in ToSet(Upper) \ {c}
      BY <1>1, <2>3
    <3>2. QED BY <2>2, <2>3, <3>1, SameNames
  <2>7. Abstract!Places(r \o Lower, FALSE) = (Len(r) + 1)..(Len(r) + Len(Lower) + 1)
    BY <1>1, <2>3, PlacesOfLayers
  <2>8. /\ n \in Abstract!Places(r \o Lower, FALSE)
        /\ \A j \in Abstract!Places(r \o Lower, FALSE) : n <= j
    <3>1. Len(r) \in Nat
      BY <2>3, LenProperties
    <3>2. n \in Nat /\ Len(r) + Len(Lower) + 1 \in Nat /\ n <= Len(r) + Len(Lower) + 1
      BY <1>4, <3>1
    <3> HIDE DEF n
    <3>3. Abstract!Places(r \o Lower, FALSE) = n..(Len(r) + Len(Lower) + 1)
      BY <2>7 DEF n
    <3>4. QED BY <3>2, <3>3, FirstOfInterval
  <2> HIDE DEF n
  <2>9. getZOrder' = InsertAt(r \o Lower, n, c)
    BY <1>3, <2>2, <2>5
  <2>10. (c \notin ToSet(Upper)) = FALSE
    BY <1>1, <1>5
  <2>11. Abstract!PutInFront(c, r \o Lower, FALSE)
    BY <2>6, <2>8, <2>9 DEF Abstract!PutInFront, Abstract!InsertAt, InsertAt, Upper
  <2>12. QED BY <1>1, <2>3, <2>10, <2>11 DEF Abstract!ChangeLayer, Upper
<1>6. CASE Contains(Lower, c)
  <2> DEFINE r == Without(Lower, c)
             w == PutInFront(Upper, c)
  <2>1. ListOf(c) = "gCompositorList"
    BY <1>0, <1>1, <1>6, LayerOf
  <2>2. Upper' = w /\ Lower' = r
    BY <1>2, <2>1 DEF Upper, Lower, ListNames
  <2>3. /\ r \in Seq(Clients)
        /\ Abstract!Remaining(c) = Upper \o r
        /\ \A i \in DOMAIN Upper : Upper[i] \in ToSet(Upper)
        /\ \A i \in DOMAIN r : r[i] \notin ToSet(Upper)
    BY <1>0, <1>6, LayerOf
  <2>4. IsSplice(w, Upper, 1, c)
    BY <1>1, PutInFrontIsSplice
  <2> HIDE DEF r, w
  <2>5. w \o r = InsertAt(Upper \o r, 1, c)
    BY <1>1, <2>3, <2>4, SpliceInFront
  <2>6. ToSet(Upper') = ToSet(Upper) \cup {c}
    <3>1. w \in Seq(Clients) /\ \A d : Contains(w, d) <=> Contains(Upper, d) \/ d = c
      BY <1>1, <1>6, <2>4, SpliceProperties
    <3>2. \A d : Contains(w, d) <=> d \in ToSet(Upper) \cup {c}
      BY <1>1, <3>1
    <3>3. QED BY <2>2, <3>1, <3>2, SameNames
  <2>7. Abstract!Places(Upper \o r, TRUE) = 1..(Len(Upper) + 1)
    BY <1>1, <2>3, PlacesOfLayers
  <2>8. /\ 1 \in Abstract!Places(Upper \o r, TRUE)
        /\ \A j \in Abstract!Places(Upper \o r, TRUE) : 1 <= j
    <3>1. 1 \in Nat /\ Len(Upper) + 1 \in Nat /\ 1 <= Len(Upper) + 1
      BY <1>4
    <3>2. QED BY <2>7, <3>1, FirstOfInterval
  <2>9. getZOrder' = InsertAt(Upper \o r, 1, c)
    BY <1>3, <2>2, <2>5
  <2>10. (c \notin ToSet(Upper)) = TRUE
    BY <1>1, <1>6
  <2>11. Abstract!PutInFront(c, Upper \o r, TRUE)
    BY <2>6, <2>8, <2>9 DEF Abstract!PutInFront, Abstract!InsertAt, InsertAt, Upper
  <2>12. QED BY <1>1, <2>3, <2>10, <2>11 DEF Abstract!ChangeLayer, Upper
<1>7. QED BY <1>0, <1>5, <1>6, LayerOf

\* A client put behind another moves, one put behind itself is lost.
LEMMA MoveBehindMoves ==
    ASSUME IInv, NEW c \in Clients, NEW target \in Clients, MoveBehind(c, target)
    PROVE  Abstract!Move(c) \/ Abstract!Disappear(c)
<1> DEFINE l == ListOf(c)
           s == Without(compositorLists[l], c)
           p == IndexOf(s, target) + 1
<1>1. Listed(c) /\ Listed(target) /\ ListOf(target) = l
  BY DEF MoveBehind
<1>2. CASE c # target
  <2>1. /\ s \in Seq(Clients)
        /\ \A d : Contains(s, d) <=> Contains(compositorLists[l], d) /\ d # c
        /\ Contains(compositorLists[l], target)
    BY <1>1, WithoutListed, ListOfProperties DEF IInv
  <2>2. Restack(l, InsertAt(s, p, c))
    BY <1>2 DEF MoveBehind
  <2> HIDE DEF l, s
  <2>3. p \in 1..(Len(s) + 1)
    <3>1. \E i \in DOMAIN s : s[i] = target
      BY <2>1, <1>2, ContainsDomain
    <3>2. IndexOf(s, target) \in 1..Len(s) /\ Len(s) \in Nat
      BY <3>1, <2>1, LenProperties DEF IndexOf
    <3>3. QED BY <3>2
  <2> HIDE DEF p
  <2>4. IsSplice(InsertAt(s, p, c), s, p, c)
    BY <2>1, <2>3, InsertAtIsSplice
  <2>5. QED BY <1>1, <2>2, <2>4, RestackMoves DEF l, s
<1>3. CASE c = target
  BY <1>1, <1>3, DropFromListDisappears DEF MoveBehind
<1>4. QED BY <1>2, <1>3

\* So does one put in front of all of its list or behind them.
LEMMA FrontOrBackMoves ==
    ASSUME IInv, NEW c, MoveToFront(c) \/ MoveToBack(c)
    PROVE  Abstract!Move(c)
<1> DEFINE l == ListOf(c)
           s == Without(compositorLists[l], c)
<1>1. Listed(c)
  BY DEF MoveToFront, MoveToBack
<1>2. s \in Seq(Clients) /\ c \in Clients
  BY <1>1, WithoutListed
<1>3. \/ Restack(l, PutInFront(s, c))
      \/ Restack(l, Append(s, c))
  BY DEF MoveToFront, MoveToBack
<1> HIDE DEF s
<1>4. /\ IsSplice(PutInFront(s, c), s, 1, c)
      /\ IsSplice(Append(s, c), s, Len(s) + 1, c)
  BY <1>2, PutInFrontIsSplice, AppendIsSplice
<1>5. QED BY <1>1, <1>3, <1>4, RestackMoves DEF s

\* What does not touch the lists does not touch the z-order.
LEMMA SameZOrder ==
    ASSUME UNCHANGED compositorLists
    PROVE  UNCHANGED Abstract!zvars
  BY DEF Abstract!zvars, getZOrder

\* Every call maps to one call on the z-order, or to none.
LEMMA DisplayStep ==
    ASSUME IInv, NEW c \in Clients, Display(c)
    PROVE  Abstract!Next \/ UNCHANGED Abstract!zvars
<1> USE DEF Abstract!Next
<1>1. ASSUME NEW topmost \in BOOLEAN, NEW focus \in BOOLEAN, CreateDisplay(c, topmost, focus)
      PROVE  Abstract!Appear(c, topmost)
  <2>1. PICK o \in Compositors :
           AddDisplay(c, o, topmost, focus \/ (~topmost /\ NothingListed))
    BY <1>1 DEF CreateDisplay
  <2>2. ~Listed(c) /\ (focus \/ (~topmost /\ NothingListed)) \in BOOLEAN
    BY <1>1 DEF CreateDisplay
  <2>3. QED BY <2>1, <2>2, AddDisplayAppears
<1>2. ASSUME NEW topmost \in BOOLEAN, NEW focus \in BOOLEAN, LaunchApplication(c, topmost, focus)
      PROVE  Abstract!Appear(c, topmost)
  <2>1. PICK o \in Compositors :
           AddDisplay(c, o, topmost, (topmost /\ focus) \/ (~topmost /\ NothingListed))
    BY <1>2 DEF LaunchApplication
  <2>2. ~Listed(c) /\ ((topmost /\ focus) \/ (~topmost /\ NothingListed)) \in BOOLEAN
    BY <1>2 DEF LaunchApplication
  <2>3. QED BY <2>1, <2>2, AddDisplayAppears
<1>3. ASSUME NEW topmost \in BOOLEAN, NEW focus \in BOOLEAN, SetTopmost(c, topmost, focus)
      PROVE  Abstract!ChangeLayer(c)
  BY <1>3, SetTopmostChangesLayer
<1>4. ASSUME MoveToFront(c) \/ MoveToBack(c) PROVE Abstract!Move(c)
  BY <1>4, FrontOrBackMoves
<1>5. ASSUME NEW target \in Clients, MoveBehind(c, target)
      PROVE  Abstract!Move(c) \/ Abstract!Disappear(c)
  BY <1>5, MoveBehindMoves
<1>6. ASSUME Kill(c) PROVE Abstract!Disappear(c)
  BY <1>6, DropFromListDisappears DEF Kill
<1>7. ASSUME SetFocus(c) PROVE UNCHANGED Abstract!zvars
  BY <1>7, SameZOrder DEF SetFocus, lists
<1>8. ASSUME NEW enable \in BOOLEAN, EnableInputEvents(c, enable)
      PROVE  UNCHANGED Abstract!zvars
  BY <1>8, SameZOrder DEF EnableInputEvents, lists
<1>9. QED BY <1>1, <1>2, <1>3, <1>4, <1>5, <1>6, <1>7, <1>8 DEF Display

\* The two lists implement the one z-order of ZOrder.
THEOREM ZOrderIsImplemented == Spec => ZOrderIsKept
<1>1. Init => Abstract!Init
  <2> SUFFICES ASSUME Init PROVE getZOrder = <<>> /\ ToSet(compositorLists["gTopmostCompositorList"]) = {}
    BY DEF Abstract!Init
  <2>1. /\ compositorLists["gTopmostCompositorList"] = <<>>
        /\ compositorLists["gCompositorList"] = <<>>
    BY DEF Init, ListNames
  <2>2. <<>> \o <<>> = <<>>
    BY EmptySeq, ConcatEmptySeq
  <2>3. ToSet(<<>>) = {}
    BY DEF ToSet
  <2>4. QED BY <2>1, <2>2, <2>3 DEF getZOrder
<1>2. IInv /\ [Next]_vars => [Abstract!Next]_(Abstract!zvars)
  <2> SUFFICES ASSUME IInv, [Next]_vars PROVE Abstract!Next \/ UNCHANGED Abstract!zvars
    OBVIOUS
  <2>1. CASE \E c \in Clients : Display(c)
    BY <2>1, DisplayStep
  <2>2. CASE Intercept
    BY <2>2, SameZOrder
    DEF Intercept, SetKeyIntercept, RemoveKeyIntercept, RemoveAllKeyIntercepts, lists
  <2>3. CASE Listen
    BY ZenonT(40), <2>3, SameZOrder
    DEF Listen, AddKeyListener, RemoveKeyListener, RemoveAllKeyListeners
  <2>4. CASE KeyEvent
    BY <2>4, SameZOrder DEF KeyEvent, OnKeyPress, OnKeyRelease, SetRouting, lists
  <2>5. CASE Draw
    BY <2>5, SameZOrder DEF Draw, lists
  <2>6. CASE UNCHANGED vars
    BY <2>6, SameZOrder DEF vars, lists
  <2>7. QED BY <2>1, <2>2, <2>3, <2>4, <2>5, <2>6 DEF Next
<1>3. QED BY Invariance, <1>1, <1>2, PTL DEF Spec, ZOrderIsKept, Abstract!Spec

-----------------------------------------------------------------------------
(* One entry for a client, a key and its modifiers: an invariant beside     *)
(* IInv, because binding an entry needs its type.                           *)

OneEntryEach(S) ==
    \A e1, e2 \in S : e1.client = e2.client /\ e1.flags = e2.flags => e1 = e2

\* Binding and unbinding change nothing but the compositor, and that alike for
\* what is alike.
LEMMA RebindKeepsOne ==
    ASSUME IInv, NEW r, RoutingInv(r), NEW k \in Keys,
           \A j \in Keys : OneEntryEach(r.intercepts[j])
    PROVE  \A j \in Keys : OneEntryEach(Rebind(r, k).intercepts[j])
<1> DEFINE bind(e) == IF e.compositor = NoCompositor
                        THEN [e EXCEPT !.compositor = compositor[e.client]] ELSE e
           S == {bind(e) : e \in r.intercepts[k]}
<1>1. r \in Routing /\ r.intercepts \in [Keys -> SUBSET KeyInterceptInfo]
  BY DEF RoutingInv, Routing
<1>2. Rebind(r, k).intercepts = [r.intercepts EXCEPT ![k] = S]
  BY <1>1 DEF Rebind, Routing
<1>3. ASSUME NEW e \in r.intercepts[k]
      PROVE  bind(e).client = e.client /\ bind(e).flags = e.flags
  <2>1. e \in KeyInterceptInfo
    BY <1>1
  <2>2. QED BY <2>1 DEF KeyInterceptInfo
<1>4. OneEntryEach(S)
  <2> SUFFICES ASSUME NEW b1 \in S, NEW b2 \in S, b1.client = b2.client, b1.flags = b2.flags
               PROVE  b1 = b2
    BY DEF OneEntryEach
  <2>1. PICK e1 \in r.intercepts[k] : b1 = bind(e1)
    OBVIOUS
  <2>2. PICK e2 \in r.intercepts[k] : b2 = bind(e2)
    OBVIOUS
  <2> HIDE DEF bind, S
  <2>3. e1.client = e2.client /\ e1.flags = e2.flags
    BY <1>3, <2>1, <2>2
  <2>4. e1 = e2
    BY <2>3 DEF OneEntryEach
  <2>5. QED BY <2>1, <2>2, <2>4
<1> HIDE DEF S
<1>5. QED BY <1>1, <1>2, <1>4

LEMMA UnbindKeepsOne ==
    ASSUME NEW S \in SUBSET KeyInterceptInfo, OneEntryEach(S), NEW c
    PROVE  OneEntryEach(Unbind(S, c))
<1> DEFINE unbind(e) == IF e.client = c THEN [e EXCEPT !.compositor = NoCompositor] ELSE e
<1>1. ASSUME NEW e \in S
      PROVE  unbind(e).client = e.client /\ unbind(e).flags = e.flags
  BY DEF KeyInterceptInfo
<1>2. Unbind(S, c) = {unbind(e) : e \in S}
  BY DEF Unbind
<1> HIDE DEF unbind
<1> SUFFICES ASSUME NEW u1 \in Unbind(S, c), NEW u2 \in Unbind(S, c),
                    u1.client = u2.client, u1.flags = u2.flags
             PROVE  u1 = u2
  BY DEF OneEntryEach
<1>3. PICK e1 \in S : u1 = unbind(e1)
  BY <1>2
<1>4. PICK e2 \in S : u2 = unbind(e2)
  BY <1>2
<1>5. e1.client = e2.client /\ e1.flags = e2.flags
  BY <1>1, <1>3, <1>4
<1>6. e1 = e2
  BY <1>5 DEF OneEntryEach
<1>7. QED BY <1>3, <1>4, <1>6

\* Past the binding no stage of the dispatch touches the entries.
LEMMA StagesKeepIntercepts ==
    ASSUME NEW r, r \in Routing, NEW S, NEW k, NEW f
    PROVE  /\ PressOn(r, S).intercepts = r.intercepts
           /\ ReleaseOn(r, S).intercepts = r.intercepts
           /\ Activate(r, k, f).intercepts = r.intercepts
           /\ FlushPending(r).intercepts = r.intercepts
<1>1. PressOn(r, S).intercepts = r.intercepts
  BY DEF PressOn, Routing
<1>2. ReleaseOn(r, S).intercepts = r.intercepts
  BY DEF ReleaseOn, Routing
<1>3. FlushPending(r).intercepts = r.intercepts
  BY DEF FlushPending, ReleaseOn, Routing
<1>4. ASSUME NEW a, NEW b
      PROVE  [r EXCEPT !.focused = a, !.pending = b].intercepts = r.intercepts
  BY DEF Routing
<1>5. Activate(r, k, f).intercepts = r.intercepts
  BY <1>4 DEF Activate
<1>6. QED BY <1>1, <1>2, <1>3, <1>5

LEMMA PressKeepsOne ==
    ASSUME IInv, NEW r, RoutingInv(r), NEW k \in Keys, NEW f,
           \A j \in Keys : OneEntryEach(r.intercepts[j])
    PROVE  \A j \in Keys : OneEntryEach(Press(r, k, f).intercepts[j])
<1> DEFINE b == Rebind(r, k)
<1>1. RoutingInv(b) /\ \A j \in Keys : OneEntryEach(b.intercepts[j])
  BY RebindInv, RebindKeepsOne
<1>2. Press(r, k, f) =
        IF Matching(b, k, f) # {} THEN PressOn(b, Interceptors(b, k, f))
        ELSE IF r.focused.compositor = NoCompositor THEN b
        ELSE BubblePress(PressOn(b, {r.focused.compositor}), k, f)
  BY DEF Press
<1> HIDE DEF b
<1>3. b \in Routing
  BY <1>1 DEF RoutingInv
<1>4. CASE Matching(b, k, f) # {}
  BY <1>1, <1>2, <1>3, <1>4, StagesKeepIntercepts
<1>5. CASE Matching(b, k, f) = {} /\ r.focused.compositor = NoCompositor
  BY <1>1, <1>2, <1>5
<1>6. CASE Matching(b, k, f) = {} /\ r.focused.compositor # NoCompositor
  <2> DEFINE p == PressOn(b, {r.focused.compositor})
             S == Receivers(p, k, f)
             q == [PressOn(p, S) EXCEPT !.pending = @ \cup S]
  <2>1. {r.focused.compositor} \subseteq Compositors /\ {r.focused.compositor} \subseteq Managed \cup lost
    BY <1>6, FocusManaged DEF RoutingInv
  <2>2. RoutingInv(p) /\ p.intercepts = b.intercepts
    BY <1>1, <1>3, <2>1, PressOnInv, StagesKeepIntercepts
  <2>3. Press(r, k, f) = BubblePress(p, k, f)
    BY <1>2, <1>6
  <2> HIDE DEF p
  <2>4. S \subseteq Compositors /\ S \subseteq Managed \cup lost
    BY <2>2, ReceiversManaged
  <2>5. PressOn(p, S) \in Routing /\ PressOn(p, S).intercepts = p.intercepts
    BY <2>2, <2>4, PressOnInv, StagesKeepIntercepts DEF RoutingInv
  <2>6. BubblePress(p, k, f) = Activate(q, k, f)
    BY DEF BubblePress
  <2> HIDE DEF S
  <2>7. q \in Routing /\ q.intercepts = p.intercepts
    BY <2>4, <2>5 DEF Routing
  <2> HIDE DEF q
  <2>8. QED BY <1>1, <2>2, <2>3, <2>6, <2>7, StagesKeepIntercepts
<1>7. QED BY <1>4, <1>5, <1>6

LEMMA ReleaseKeepsOne ==
    ASSUME IInv, NEW r, RoutingInv(r), NEW k \in Keys, NEW f,
           \A j \in Keys : OneEntryEach(r.intercepts[j])
    PROVE  \A j \in Keys : OneEntryEach(Release(r, k, f).intercepts[j])
<1> DEFINE b == Rebind(r, k)
           p == ReleaseOn(b, {r.focused.compositor})
           q == ReleaseOn(p, Receivers(p, k, f))
           d == IF Matching(b, k, f) # {} THEN ReleaseOn(b, Interceptors(b, k, f))
                ELSE IF r.focused.compositor = NoCompositor THEN b
                ELSE BubbleRelease(p, k, f)
<1>1. RoutingInv(b) /\ \A j \in Keys : OneEntryEach(b.intercepts[j])
  BY RebindInv, RebindKeepsOne
<1>2. Release(r, k, f) = FlushPending(d)
  BY DEF Release
<1>3. BubbleRelease(p, k, f) = Activate(q, k, f)
  BY DEF BubbleRelease
<1> HIDE DEF b
<1>4. RoutingInv(p) /\ p.intercepts = b.intercepts
  BY <1>1, ReleaseOnInv, StagesKeepIntercepts DEF RoutingInv
<1>5. RoutingInv(BubbleRelease(p, k, f))
  BY <1>4, BubbleReleaseInv
<1>6. RoutingInv(q) /\ q.intercepts = b.intercepts
  BY <1>4, ReleaseOnInv, StagesKeepIntercepts DEF RoutingInv
<1>7. BubbleRelease(p, k, f).intercepts = b.intercepts
  BY <1>3, <1>6, StagesKeepIntercepts DEF RoutingInv
<1>8. /\ RoutingInv(ReleaseOn(b, Interceptors(b, k, f)))
      /\ ReleaseOn(b, Interceptors(b, k, f)).intercepts = b.intercepts
  BY <1>1, ReleaseOnInv, StagesKeepIntercepts DEF RoutingInv
<1> HIDE DEF p, q
<1>9. RoutingInv(d) /\ d.intercepts = b.intercepts
  BY <1>1, <1>5, <1>7, <1>8
<1> HIDE DEF d
<1>10. QED BY <1>1, <1>2, <1>9, StagesKeepIntercepts DEF RoutingInv

LEMMA KeyEventKeepsOne ==
    ASSUME IInv, OneInterceptPerClient, KeyEvent
    PROVE  OneInterceptPerClient'
<1>1. PICK k \in Keys, f \in Flags : OnKeyPress(k, f) \/ OnKeyRelease(k, f)
  BY DEF KeyEvent
<1>2. RoutingInv(CurrentRouting) /\ \A j \in Keys : OneEntryEach(CurrentRouting.intercepts[j])
  BY CurrentRoutingInv DEF OneInterceptPerClient, OneEntryEach, CurrentRouting
<1> DEFINE p == Press(CurrentRouting, k, f)
<1>3. RoutingInv(p) /\ \A j \in Keys : OneEntryEach(p.intercepts[j])
  BY <1>2, PressInv, PressKeepsOne
<1> SUFFICES ASSUME NEW r, SetRouting(r), \A j \in Keys : OneEntryEach(r.intercepts[j])
             PROVE  OneInterceptPerClient'
  <2>1. CASE OnKeyPress(k, f)
    BY <1>2, <1>3, <2>1 DEF OnKeyPress
  <2>2. CASE OnKeyRelease(k, f)
    <3> DEFINE r == IF k \in PowerKeys /\ ~PowerReleaseOnly THEN p ELSE CurrentRouting
    <3>1. SetRouting(Release(r, k, f))
      BY <2>2 DEF OnKeyRelease
    <3>2. RoutingInv(r) /\ \A j \in Keys : OneEntryEach(r.intercepts[j])
      BY <1>2, <1>3
    <3> HIDE DEF r
    <3>3. QED BY <3>1, <3>2, ReleaseKeepsOne
  <2>3. QED BY <1>1, <2>1, <2>2
<1>4. gKeyInterceptInfoMap' = r.intercepts
  BY DEF SetRouting
<1>5. QED BY <1>4 DEF OneInterceptPerClient, OneEntryEach

\* setKeyIntercept takes the old entry out, the others only take entries away.
LEMMA InterceptKeepsOne ==
    ASSUME IInv, OneInterceptPerClient, Intercept
    PROVE  OneInterceptPerClient'
<1>1. gKeyInterceptInfoMap \in [Keys -> SUBSET KeyInterceptInfo]
  BY DEF IInv, TypeOK
<1>2. ASSUME NEW c \in Clients, NEW k \in Keys, NEW f \in Flags, NEW always \in BOOLEAN,
             SetKeyIntercept(c, k, f, always)
      PROVE  OneInterceptPerClient'
  <2> DEFINE new == [client |-> c, flags |-> f, always |-> always, compositor |-> compositor[c]]
             old == {e \in gKeyInterceptInfoMap[k] : e.client = c /\ e.flags = f}
             S == (gKeyInterceptInfoMap[k] \ old) \cup {new}
  <2>1. gKeyInterceptInfoMap' = [gKeyInterceptInfoMap EXCEPT ![k] = S]
    BY <1>2 DEF SetKeyIntercept
  <2>2. OneEntryEach(S)
    BY DEF OneEntryEach, OneInterceptPerClient
  <2> HIDE DEF S
  <2>3. QED BY <1>1, <2>1, <2>2 DEF OneInterceptPerClient, OneEntryEach
<1>3. ASSUME NEW c \in Clients \cup {AllClients}, NEW k \in Keys, NEW f \in Flags,
             RemoveKeyIntercept(c, k, f)
      PROVE  OneInterceptPerClient'
  <2>1. \A j \in Keys : gKeyInterceptInfoMap'[j] \subseteq gKeyInterceptInfoMap[j]
    BY <1>3 DEF RemoveKeyIntercept
  <2>2. QED BY <2>1 DEF OneInterceptPerClient
<1>4. ASSUME RemoveAllKeyIntercepts
      PROVE  OneInterceptPerClient'
  BY <1>4 DEF RemoveAllKeyIntercepts, OneInterceptPerClient
<1>5. QED BY <1>2, <1>3, <1>4 DEF Intercept

LEMMA DisplayKeepsOne ==
    ASSUME IInv, OneInterceptPerClient, NEW c \in Clients, Display(c)
    PROVE  OneInterceptPerClient'
<1>1. CASE Kill(c)
  <2>1. gKeyInterceptInfoMap' = [k \in Keys |-> Unbind(gKeyInterceptInfoMap[k], c)]
    BY <1>1 DEF Kill
  <2>2. \A k \in Keys : gKeyInterceptInfoMap[k] \in SUBSET KeyInterceptInfo
    BY DEF IInv, TypeOK
  <2>3. ASSUME NEW k \in Keys PROVE OneEntryEach(gKeyInterceptInfoMap'[k])
    <3>1. OneEntryEach(gKeyInterceptInfoMap[k])
      BY DEF OneInterceptPerClient, OneEntryEach
    <3>2. QED BY <2>1, <2>2, <3>1, UnbindKeepsOne
  <2>4. QED BY <2>3 DEF OneInterceptPerClient, OneEntryEach
<1>2. CASE ~Kill(c)
  <2>1. UNCHANGED gKeyInterceptInfoMap
    BY <1>2 DEF Display, CreateDisplay, LaunchApplication, AddDisplay, SetTopmost, MoveToFront,
                MoveToBack, MoveBehind, Restack, SetFocus, EnableInputEvents, routing
  <2>2. QED BY <2>1 DEF OneInterceptPerClient
<1>3. QED BY <1>1, <1>2

\* Whatever is registered, changed, bound, unbound and removed, a client has one
\* entry for a key and its modifiers, and gets the key once.
THEOREM InterceptsStaySingle == Spec => []OneInterceptPerClient
<1>1. Init => OneInterceptPerClient
  BY DEF Init, OneInterceptPerClient
<1>2. IInv /\ OneInterceptPerClient /\ [Next]_vars => OneInterceptPerClient'
  <2> SUFFICES ASSUME IInv, OneInterceptPerClient, [Next]_vars
               PROVE  OneInterceptPerClient'
    OBVIOUS
  <2>1. CASE \E c \in Clients : Display(c)
    BY <2>1, DisplayKeepsOne
  <2>2. CASE Intercept
    BY <2>2, InterceptKeepsOne
  <2>3. CASE Listen
    <3>1. UNCHANGED gKeyInterceptInfoMap
      <4>1. ASSUME NEW c \in Clients, NEW k, NEW f, NEW activate, NEW propagate,
                   AddKeyListener(c, k, f, activate, propagate)
            PROVE  UNCHANGED gKeyInterceptInfoMap
        BY <4>1 DEF AddKeyListener, routing
      <4>2. ASSUME NEW c \in Clients, NEW k, NEW f, RemoveKeyListener(c, k, f)
            PROVE  UNCHANGED gKeyInterceptInfoMap
        BY <4>2 DEF RemoveKeyListener
      <4>3. ASSUME RemoveAllKeyListeners
            PROVE  UNCHANGED gKeyInterceptInfoMap
        BY <4>3 DEF RemoveAllKeyListeners, routing
      <4>4. QED BY <2>3, <4>1, <4>2, <4>3 DEF Listen
    <3>2. QED BY <3>1 DEF OneInterceptPerClient
  <2>4. CASE KeyEvent
    BY <2>4, KeyEventKeepsOne
  <2>5. CASE Draw
    BY <2>5 DEF Draw, routing, OneInterceptPerClient
  <2>6. CASE UNCHANGED vars
    BY <2>6 DEF vars, routing, OneInterceptPerClient
  <2>7. QED BY <2>1, <2>2, <2>3, <2>4, <2>5, <2>6 DEF Next
<1>3. QED BY Invariance, <1>1, <1>2, PTL DEF Spec

-----------------------------------------------------------------------------
(* The press of a power key and its release in one call.                    *)

\* Who activates himself takes the focus; who loses it with a key down is
\* queued, and nothing else changes.
LEMMA ActivateQueues ==
    ASSUME NEW r, r \in Routing, NEW k, NEW f
    PROVE  /\ Activate(r, k, f).pressed = r.pressed
           /\ Activate(r, k, f).intercepts = r.intercepts
           /\ Activate(r, k, f).presses = r.presses
           /\ Activate(r, k, f).releases = r.releases
           /\ r.pending \subseteq Activate(r, k, f).pending
           /\ \A o \in Compositors \cap r.pressed :
                 o = r.focused.compositor =>
                    \/ o \in Activate(r, k, f).pending
                    \/ Activate(r, k, f).focused = r.focused
<1> DEFINE s == compositorLists["gCompositorList"]
           activators == {i \in Visited(r, k, f) :
                             Activates(s[i], k, f) /\ s[i] # r.focused.name}
           last == {i \in activators : \A j \in activators : j <= i}
           Info(i) == [name |-> s[i], compositor |-> compositor[s[i]]]
           losers == {r.focused.compositor} \cup {compositor[s[i]] : i \in activators \ last}
           i0 == CHOOSE i \in last : TRUE
           a == Activate(r, k, f)
<1>1. CASE last = {}
  <2>1. a = r
    BY <1>1 DEF Activate
  <2>2. QED BY <2>1
<1>2. CASE last # {}
  <2>1. a = [r EXCEPT !.focused = Info(i0), !.pending = HandOver(r, losers)]
    BY <1>2 DEF Activate
  <2>2. r.focused.compositor \in losers
    OBVIOUS
  <2> HIDE DEF i0, last, losers, Info, a
  <2>3. /\ a.pressed = r.pressed /\ a.intercepts = r.intercepts /\ a.pending = HandOver(r, losers)
        /\ a.presses = r.presses /\ a.releases = r.releases
    BY <2>1 DEF Routing
  <2>4. r.pending \subseteq HandOver(r, losers)
    BY DEF HandOver
  <2>5. ASSUME NEW o \in Compositors \cap r.pressed, o = r.focused.compositor
        PROVE  o \in HandOver(r, losers)
    BY <2>2, <2>5, ConstantsAssumption DEF HandOver, Objects
  <2>6. QED BY <2>3, <2>4, <2>5 DEF a
<1>3. QED BY <1>1, <1>2

\* What a stage of a release leaves of the one before: whoever has a key down
\* still has it or got the release, and no queued display is forgotten.
Keeps(r, q) ==
    /\ q.presses = r.presses
    /\ r.releases \subseteq q.releases
    /\ r.pending \subseteq q.pending
    /\ r.pressed \cap mInputEventsEnabled \subseteq q.pressed \cup q.releases

LEMMA ReleaseOnKeeps ==
    ASSUME NEW r, r \in Routing, NEW S
    PROVE  /\ Keeps(r, ReleaseOn(r, S))
           /\ S \cap r.pressed \cap mInputEventsEnabled \subseteq ReleaseOn(r, S).releases
  BY DEF Keeps, ReleaseOn, Routing

LEMMA ActivateKeeps ==
    ASSUME NEW r, r \in Routing, NEW k, NEW f
    PROVE  Keeps(r, Activate(r, k, f))
  BY ActivateQueues DEF Keeps

\* Binding twice binds no more than binding once, and changes nothing else.
LEMMA RebindTwice ==
    ASSUME NEW r, r \in Routing, NEW q, q \in Routing, NEW k \in Keys
    PROVE  LET b == Rebind(r, k) IN
           /\ b.focused = r.focused /\ b.pending = r.pending /\ b.pressed = r.pressed
           /\ b.presses = r.presses /\ b.releases = r.releases
           /\ q.intercepts = b.intercepts => Rebind(q, k).intercepts = b.intercepts
<1> DEFINE bind(e) == IF e.compositor = NoCompositor
                        THEN [e EXCEPT !.compositor = compositor[e.client]] ELSE e
           S == {bind(e) : e \in r.intercepts[k]}
           T == {bind(e) : e \in q.intercepts[k]}
           map == [r.intercepts EXCEPT ![k] = S]
<1>1. /\ r.intercepts \in [Keys -> SUBSET KeyInterceptInfo]
      /\ q.intercepts \in [Keys -> SUBSET KeyInterceptInfo]
  BY DEF Routing
<1>2. /\ Rebind(r, k) = [r EXCEPT !.intercepts = map]
      /\ Rebind(q, k) = [q EXCEPT !.intercepts = [q.intercepts EXCEPT ![k] = T]]
  BY <1>1 DEF Rebind, Routing
<1>3. ASSUME NEW e \in r.intercepts[k] PROVE bind(bind(e)) = bind(e)
  <2>1. e \in KeyInterceptInfo
    BY <1>1
  <2>2. CASE e.compositor = NoCompositor
    <3>1. bind(e).client = e.client /\ bind(e).compositor = compositor[e.client]
      BY <2>1, <2>2 DEF KeyInterceptInfo
    <3>2. [bind(e) EXCEPT !.compositor = compositor[bind(e).client]] = bind(e)
      BY <2>1, <2>2, <3>1 DEF KeyInterceptInfo
    <3>3. QED BY <3>2
  <2>3. CASE e.compositor # NoCompositor
    BY <2>3
  <2>4. QED BY <2>2, <2>3
<1>4. map[k] = S
  BY <1>1
<1>5. q.intercepts = map => T = S
  <2> SUFFICES ASSUME q.intercepts[k] = S PROVE T = S
    BY <1>4
  <2> HIDE DEF bind
  <2>1. \A e \in S : bind(e) = e
    BY <1>3
  <2>2. T = {bind(e) : e \in S}
    OBVIOUS
  <2> HIDE DEF S, T
  <2>3. QED BY <2>1, <2>2
<1>6. q.intercepts = map => [q.intercepts EXCEPT ![k] = T] = map
  BY <1>1, <1>5
<1> HIDE DEF S, T, map
<1>7. QED BY <1>2, <1>6 DEF Routing

\* A release reaches all that are queued and all it is routed to, and it
\* presses nobody.
LEMMA ReleaseReaches ==
    ASSUME IInv, NEW r, RoutingInv(r), NEW k \in Keys, NEW f
    PROVE  LET b == Rebind(r, k)
               q == Release(r, k, f)
           IN  /\ q.presses = r.presses
               /\ \A o \in r.pressed \cap mInputEventsEnabled :
                     \/ o \in r.pending
                     \/ Matching(b, k, f) # {} /\ o \in Interceptors(b, k, f)
                     \/ Matching(b, k, f) = {} /\ o = r.focused.compositor /\ o # NoCompositor
                     => o \in q.releases
<1> DEFINE b == Rebind(r, k)
           p == ReleaseOn(b, {r.focused.compositor})
           t == ReleaseOn(p, Receivers(p, k, f))
           i == ReleaseOn(b, Interceptors(b, k, f))
           d == IF Matching(b, k, f) # {} THEN i
                ELSE IF r.focused.compositor = NoCompositor THEN b
                ELSE BubbleRelease(p, k, f)
           q == ReleaseOn(d, d.pending)
<1>1. /\ RoutingInv(b) /\ r \in Routing
      /\ b.pending = r.pending /\ b.pressed = r.pressed /\ b.presses = r.presses
  BY RebindInv, RebindTwice DEF RoutingInv
<1>2. Release(r, k, f) = [q EXCEPT !.pending = {}]
  BY DEF Release, FlushPending
<1>3. BubbleRelease(p, k, f) = Activate(t, k, f)
  BY DEF BubbleRelease
<1> HIDE DEF b
<1>4. /\ RoutingInv(p) /\ Keeps(b, p)
      /\ {r.focused.compositor} \cap b.pressed \cap mInputEventsEnabled \subseteq p.releases
  BY <1>1, ReleaseOnInv, ReleaseOnKeeps DEF RoutingInv
<1>5. /\ RoutingInv(i) /\ Keeps(b, i)
      /\ Interceptors(b, k, f) \cap b.pressed \cap mInputEventsEnabled \subseteq i.releases
  BY <1>1, ReleaseOnInv, ReleaseOnKeeps DEF RoutingInv
<1> HIDE DEF p, i
<1>6. RoutingInv(t) /\ Keeps(p, t)
  BY <1>4, ReleaseOnInv, ReleaseOnKeeps DEF RoutingInv
<1> HIDE DEF t
<1>7. RoutingInv(Activate(t, k, f)) /\ Keeps(t, Activate(t, k, f))
  BY <1>6, ActivateInv, ActivateKeeps DEF RoutingInv
<1>8. /\ RoutingInv(d) /\ Keeps(b, d)
      /\ Matching(b, k, f) # {} =>
            Interceptors(b, k, f) \cap b.pressed \cap mInputEventsEnabled \subseteq d.releases
      /\ Matching(b, k, f) = {} /\ r.focused.compositor # NoCompositor =>
            {r.focused.compositor} \cap b.pressed \cap mInputEventsEnabled \subseteq d.releases
  <2>1. CASE Matching(b, k, f) # {}
    BY <1>5, <2>1
  <2>2. CASE Matching(b, k, f) = {} /\ r.focused.compositor = NoCompositor
    BY <1>1, <2>2 DEF Keeps
  <2>3. CASE Matching(b, k, f) = {} /\ r.focused.compositor # NoCompositor
    <3>1. d = Activate(t, k, f)
      BY <1>3, <2>3
    <3> HIDE DEF d
    <3>2. QED BY <1>4, <1>6, <1>7, <2>3, <3>1 DEF Keeps
  <2>4. QED BY <2>1, <2>2, <2>3
<1> HIDE DEF d
<1>9. /\ q \in Routing /\ Keeps(d, q)
      /\ d.pending \cap d.pressed \cap mInputEventsEnabled \subseteq q.releases
  BY <1>8, ReleaseOnInv, ReleaseOnKeeps DEF RoutingInv
<1> HIDE DEF q
<1>10. Release(r, k, f).presses = q.presses /\ Release(r, k, f).releases = q.releases
  BY <1>2, <1>9 DEF Routing
<1>11. Release(r, k, f).presses = r.presses
  BY <1>1, <1>8, <1>9, <1>10 DEF Keeps
<1>12. ASSUME NEW o \in r.pressed \cap mInputEventsEnabled,
              \/ o \in r.pending
              \/ Matching(b, k, f) # {} /\ o \in Interceptors(b, k, f)
              \/ Matching(b, k, f) = {} /\ o = r.focused.compositor /\ o # NoCompositor
       PROVE  o \in q.releases
  <2>1. o \in b.pressed
    BY <1>1
  <2>2. CASE o \in r.pending
    BY <1>1, <1>8, <1>9, <2>1, <2>2 DEF Keeps
  <2>3. CASE o \in d.releases
    BY <1>9, <2>3 DEF Keeps
  <2>4. QED BY <1>8, <1>12, <2>1, <2>2, <2>3
<1>13. QED BY <1>10, <1>11, <1>12 DEF b

\* Whoever gets a press is queued for the release, intercepts the key or has
\* the focus, whatever the walk over the listeners did to it.
LEMMA PressIsRemembered ==
    ASSUME IInv, NEW r, RoutingInv(r), r.presses = {}, NEW k \in Keys, NEW f
    PROVE  LET b == Rebind(r, k)
               p == Press(r, k, f)
           IN  /\ p.intercepts = b.intercepts
               /\ \A o \in p.presses :
                     /\ o \in p.pressed \cap mInputEventsEnabled
                     /\ \/ o \in p.pending
                        \/ /\ Matching(b, k, f) # {} /\ o \in Interceptors(b, k, f)
                           /\ p.focused = b.focused
                        \/ /\ Matching(b, k, f) = {}
                           /\ o = p.focused.compositor /\ o # NoCompositor
<1> DEFINE b == Rebind(r, k)
           I == Interceptors(b, k, f)
           i == PressOn(b, I)
           p == PressOn(b, {r.focused.compositor})
           S == Receivers(p, k, f)
           d == PressOn(p, S)
           q == [d EXCEPT !.pending = @ \cup S]
           a == Activate(q, k, f)
<1>1. /\ RoutingInv(b) /\ r \in Routing
      /\ b.focused = r.focused /\ b.presses = {}
  BY RebindInv, RebindTwice DEF RoutingInv
<1>2. Press(r, k, f) = IF Matching(b, k, f) # {} THEN i
                       ELSE IF r.focused.compositor = NoCompositor THEN b
                       ELSE a
  BY DEF Press, BubblePress
<1> HIDE DEF b
<1>3. CASE Matching(b, k, f) # {}
  <2> HIDE DEF I
  <2>1. /\ i.intercepts = b.intercepts /\ i.focused = b.focused
        /\ i.presses = I \cap mInputEventsEnabled
        /\ i.pressed = b.pressed \cup I
    BY <1>1 DEF PressOn, RoutingInv, Routing
  <2> HIDE DEF i
  <2>2. QED BY <1>2, <1>3, <2>1 DEF b, I
<1>4. CASE Matching(b, k, f) = {} /\ r.focused.compositor = NoCompositor
  <2>1. Press(r, k, f) = b
    BY <1>2, <1>4
  <2>2. QED BY <1>1, <2>1 DEF b
<1>5. CASE Matching(b, k, f) = {} /\ r.focused.compositor # NoCompositor
  <2>1. /\ {r.focused.compositor} \subseteq Compositors
        /\ {r.focused.compositor} \subseteq Managed \cup lost
    BY <1>5, FocusManaged DEF RoutingInv
  <2>2. RoutingInv(p)
    BY <1>1, <2>1, PressOnInv
  <2>3. /\ p.pressed = b.pressed \cup {r.focused.compositor}
        /\ p.presses = {r.focused.compositor} \cap mInputEventsEnabled
        /\ p.intercepts = b.intercepts /\ p.focused = b.focused
    BY <1>1 DEF PressOn, RoutingInv, Routing
  <2> HIDE DEF p
  <2>4. S \subseteq Compositors /\ S \subseteq Managed \cup lost
    BY ReceiversManaged
  <2> HIDE DEF S
  <2>5. /\ d \in Routing
        /\ d.pressed = p.pressed \cup S /\ d.pending = p.pending
        /\ d.presses = p.presses \cup (S \cap mInputEventsEnabled)
        /\ d.intercepts = p.intercepts /\ d.focused = p.focused
    BY <2>2, <2>4, PressOnInv DEF PressOn, RoutingInv, Routing
  <2> HIDE DEF d
  <2>6. /\ q \in Routing
        /\ q.pressed = b.pressed \cup {r.focused.compositor} \cup S
        /\ q.presses = ({r.focused.compositor} \cup S) \cap mInputEventsEnabled
        /\ S \subseteq q.pending
        /\ q.intercepts = b.intercepts /\ q.focused = r.focused
    BY <1>1, <2>3, <2>4, <2>5 DEF Routing
  <2> HIDE DEF q
  <2>7. /\ a.pressed = q.pressed /\ a.intercepts = b.intercepts /\ a.presses = q.presses
        /\ q.pending \subseteq a.pending
        /\ \A o \in Compositors \cap q.pressed :
              o = r.focused.compositor => o \in a.pending \/ a.focused = r.focused
    BY <2>6, ActivateQueues
  <2> HIDE DEF a
  <2>8. Press(r, k, f) = a
    BY <1>2, <1>5
  <2>9. ASSUME NEW o \in a.presses
        PROVE  /\ o \in a.pressed \cap mInputEventsEnabled
               /\ o \in a.pending \/ (o = a.focused.compositor /\ o # NoCompositor)
    <3>1. CASE o \in S
      BY <2>6, <2>7, <2>9, <3>1
    <3>2. CASE o = r.focused.compositor
      BY <1>5, <2>1, <2>6, <2>7, <2>9, <3>2
    <3>3. QED BY <2>6, <2>7, <2>9, <3>1, <3>2
  <2>10. QED BY <1>5, <2>7, <2>8, <2>9 DEF b
<1>6. QED BY <1>3, <1>4, <1>5

\* A press and the release after it reach the same displays.
LEMMA PressIsReleased ==
    ASSUME IInv, NEW r, RoutingInv(r), r.presses = {}, NEW k \in Keys, NEW f
    PROVE  LET q == Release(Press(r, k, f), k, f) IN q.presses \subseteq q.releases
<1> DEFINE b == Rebind(r, k)
           p == Press(r, k, f)
           c == Rebind(p, k)
           q == Release(p, k, f)
<1>1. /\ p.intercepts = b.intercepts
      /\ \A o \in p.presses :
            /\ o \in p.pressed \cap mInputEventsEnabled
            /\ \/ o \in p.pending
               \/ /\ Matching(b, k, f) # {} /\ o \in Interceptors(b, k, f)
                  /\ p.focused = b.focused
               \/ /\ Matching(b, k, f) = {}
                  /\ o = p.focused.compositor /\ o # NoCompositor
  BY PressIsRemembered
<1>2. RoutingInv(p) /\ p \in Routing /\ r \in Routing
  BY PressInv DEF RoutingInv
<1> HIDE DEF p
<1>3. c.intercepts = b.intercepts /\ c.focused = p.focused
  BY <1>1, <1>2, RebindTwice
<1>4. /\ q.presses = p.presses
      /\ \A o \in p.pressed \cap mInputEventsEnabled :
            \/ o \in p.pending
            \/ Matching(c, k, f) # {} /\ o \in Interceptors(c, k, f)
            \/ Matching(c, k, f) = {} /\ o = p.focused.compositor /\ o # NoCompositor
            => o \in q.releases
  BY <1>2, ReleaseReaches
<1> HIDE DEF b, c, q
<1>5. /\ Matching(c, k, f) = Matching(b, k, f)
      /\ p.focused = b.focused => Interceptors(c, k, f) = Interceptors(b, k, f)
  BY <1>3 DEF Matching, Interceptors
<1>6. \A o \in p.presses : o \in q.releases
  BY <1>1, <1>4, <1>5
<1>7. QED BY <1>4, <1>6 DEF q, p

\* The made-up press of a power key is released in the same call on every
\* display that got it.
THEOREM PowerKeysArePaired == Spec => PowerKeyPaired
<1>1. ASSUME IInv, NEW k \in PowerKeys, NEW f \in Flags, OnKeyRelease(k, f)
      PROVE  sent'.presses \subseteq sent'.releases
  <2>1. k \in Keys
    BY ConstantsAssumption
  <2>2. RoutingInv(CurrentRouting) /\ CurrentRouting.presses = {}
    BY <1>1, CurrentRoutingInv DEF CurrentRouting
  <2>3. CASE PowerReleaseOnly
    <3> DEFINE q == Release(CurrentRouting, k, f)
    <3>1. q.presses = {}
      BY <1>1, <2>1, <2>2, ReleaseReaches
    <3>2. sent' = [presses |-> q.presses, releases |-> q.releases]
      BY <1>1, <2>3 DEF OnKeyRelease, SetRouting
    <3> HIDE DEF q
    <3>3. QED BY <3>1, <3>2
  <2>4. CASE ~PowerReleaseOnly
    <3> DEFINE q == Release(Press(CurrentRouting, k, f), k, f)
    <3>1. q.presses \subseteq q.releases
      BY <1>1, <2>1, <2>2, PressIsReleased
    <3>2. sent' = [presses |-> q.presses, releases |-> q.releases]
      BY <1>1, <2>4 DEF OnKeyRelease, SetRouting
    <3> HIDE DEF q
    <3>3. QED BY <3>1, <3>2
  <2>5. QED BY <2>3, <2>4
<1>2. IInv => [\A k \in PowerKeys, f \in Flags :
                  OnKeyRelease(k, f) => sent'.presses \subseteq sent'.releases]_vars
  BY <1>1
<1>3. QED BY Invariance, <1>2, PTL DEF PowerKeyPaired

=============================================================================
