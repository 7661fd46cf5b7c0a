----------------------------- MODULE ListLemmas -----------------------------
(***************************************************************************)
(* Induction and recursion over lists, in the first-order form the provers *)
(* can use: a set of naturals that holds 0 and every successor holds them  *)
(* all, and a list can be walked to build a value.  On these rest the      *)
(* facts about FlattenSeq, Only and Total that the loops of the agent      *)
(* need: what they return of one entry more, of two lists joined, and      *)
(* which entries they keep.                                                *)
(***************************************************************************)
EXTENDS Integers, Lists, FiniteSetTheorems, WellFoundedInduction, TLAPS

\* Every inhabited set of naturals has a least element.
LEMMA LeastNatural ==
    ASSUME NEW T \in SUBSET Nat, T # {}
    PROVE  \E x \in T : \A y \in T : x <= y
  <1> DEFINE R == {p \in Nat \X Nat : p[1] < p[2]}
  <1>1. IsWellFoundedOn(R, Nat)
    BY NatLessThanWellFounded DEF OpToRel
  <1>2. \A x, y \in Nat : y < x => <<y, x>> \in R
    OBVIOUS
  <1> HIDE DEF R
  <1>3. PICK x \in T : \A y \in T : ~(<<y, x>> \in R)
    BY <1>1, WFMin
  <1>4. \A y \in T : x \in Nat /\ y \in Nat /\ ~(y < x)
    BY <1>2, <1>3
  <1> QED
    BY <1>4

\* Induction: what holds of 0 and of every successor holds of all.
LEMMA SetInduction ==
    ASSUME NEW I \in SUBSET Nat, 0 \in I, \A n \in I : n + 1 \in I
    PROVE  I = Nat
  <1> SUFFICES ASSUME Nat \ I # {} PROVE FALSE
    OBVIOUS
  <1>1. PICK x \in Nat \ I : \A y \in Nat \ I : x <= y
    BY LeastNatural
  <1>2. x - 1 \in Nat /\ x - 1 \in I
    BY <1>1
  <1> QED
    BY <1>2

\* The numbers from one to n are n.
LEMMA OneTo == ASSUME NEW n \in Nat PROVE IsFiniteSet(1..n) /\ Cardinality(1..n) = n
  <1>1. /\ IsFiniteSet(1..n)
        /\ Cardinality(1..n) = IF 1 > n THEN 0 ELSE n - 1 + 1
    BY FS_Interval
  <1> QED
    BY <1>1

\* Some of the numbers from one to n are at most n.
LEMMA SomeOf == ASSUME NEW n \in Nat, NEW S \in SUBSET (1..n) PROVE IsFiniteSet(S) /\ Cardinality(S) \in 0..n
  <1>1. IsFiniteSet(1..n) /\ Cardinality(1..n) = n
    BY OneTo
  <1>2. IsFiniteSet(S) /\ Cardinality(S) <= Cardinality(1..n)
    BY <1>1, FS_Subset
  <1>3. Cardinality(S) \in Nat
    BY <1>2, FS_CardinalityType
  <1> QED
    BY <1>1, <1>2, <1>3

\* A walk of n steps that builds one value after another.
Walk(g, n, D, base, F) ==
    /\ g \in [0..n -> D] /\ g[0] = base
    /\ \A k \in 1..n : g[k] = F[<<k, g[k - 1]>>]

\* Recursion: there is such a walk, whatever its step.
LEMMA WalkExists ==
    ASSUME NEW D, NEW base \in D, NEW n \in Nat, NEW F \in [(1..n) \X D -> D]
    PROVE  \E g : Walk(g, n, D, base, F)
  <1> DEFINE I == {m \in Nat : m <= n => \E g : Walk(g, m, D, base, F)}
  <1>1. 0 \in I
    <2>1. Walk([k \in 0..0 |-> base], 0, D, base, F)
      BY DEF Walk
    <2> QED
      BY <2>1
  <1>2. ASSUME NEW m \in I PROVE m + 1 \in I
    <2> SUFFICES ASSUME m + 1 <= n PROVE \E g : Walk(g, m + 1, D, base, F)
      OBVIOUS
    <2>1. PICK g : Walk(g, m, D, base, F)
      BY <1>2
    <2> DEFINE v == F[<<m + 1, g[m]>>]
               h == [k \in 0..(m + 1) |-> IF k = m + 1 THEN v ELSE g[k]]
    <2>2. g \in [0..m -> D] /\ g[0] = base /\ \A k \in 1..m : g[k] = F[<<k, g[k - 1]>>]
      BY <2>1 DEF Walk
    <2>3. v \in D
      <3>1. <<m + 1, g[m]>> \in (1..n) \X D
        BY <2>2
      <3> QED
        BY <3>1
    <2>4. h \in [0..(m + 1) -> D] /\ h[0] = base /\ h[m + 1] = v /\ h[m] = g[m]
      <3> HIDE DEF v
      <3> QED
        BY <2>2, <2>3
    <2>5. ASSUME NEW k \in 1..(m + 1) PROVE h[k] = F[<<k, h[k - 1]>>]
      <3>1. CASE k = m + 1
        <4>1. k - 1 = m
          BY <3>1
        <4> HIDE DEF h
        <4> QED
          BY <2>4, <3>1, <4>1
      <3>2. CASE k # m + 1
        <4>1. k \in 1..m /\ k - 1 \in 0..m /\ h[k] = g[k] /\ h[k - 1] = g[k - 1]
          <5> HIDE DEF v
          <5> QED
            BY <3>2
        <4> QED
          BY <2>2, <4>1
      <3> QED
        BY <3>1, <3>2
    <2> HIDE DEF h
    <2> QED
      BY <2>4, <2>5 DEF Walk
  <1>3. I = Nat
    <2> HIDE DEF I
    <2>1. I \in SUBSET Nat
      BY DEF I
    <2> QED
      BY <1>1, <1>2, <2>1, SetInduction
  <1> QED
    BY <1>3

\* Two walks take the same n steps.
Agree(F, G, n, D) == \A k \in 1..n, d \in D : F[<<k, d>>] = G[<<k, d>>]

\* Two walks that agree on their steps agree on what they build.
LEMMA WalksAgree ==
    ASSUME NEW D, NEW base, NEW n \in Nat, NEW m \in Nat, m <= n, NEW F, NEW G, NEW g, NEW h,
           Walk(g, n, D, base, F), Walk(h, m, D, base, G),
           Agree(F, G, m, D)
    PROVE  \A k \in 0..m : g[k] = h[k]
  <1> DEFINE I == {k \in Nat : k <= m => g[k] = h[k]}
  <1>1. 0 \in I
    BY DEF Walk
  <1>2. ASSUME NEW k \in I PROVE k + 1 \in I
    <2> SUFFICES ASSUME k + 1 <= m PROVE g[k + 1] = h[k + 1]
      OBVIOUS
    <2>1. k + 1 \in 1..n /\ k + 1 \in 1..m /\ (k + 1) - 1 = k /\ k \in 0..m
      OBVIOUS
    <2>2. g[k] = h[k] /\ h[k] \in D
      BY <1>2, <2>1 DEF Walk
    <2>3. g[k + 1] = F[<<k + 1, g[k]>>] /\ h[k + 1] = G[<<k + 1, h[k]>>]
      BY <2>1 DEF Walk
    <2> QED
      BY <2>1, <2>2, <2>3 DEF Agree
  <1>3. I = Nat
    <2> HIDE DEF I
    <2>1. I \in SUBSET Nat
      BY DEF I
    <2> QED
      BY <1>1, <1>2, <2>1, SetInduction
  <1> QED
    BY <1>3

\* A walk one step longer takes its last step from where the other ended.
LEMMA WalkOneMore ==
    ASSUME NEW D, NEW base, NEW n \in Nat, NEW F, NEW G, NEW g, NEW h,
           Walk(g, n + 1, D, base, F), Walk(h, n, D, base, G), Agree(F, G, n, D)
    PROVE  g[n + 1] = F[<<n + 1, h[n]>>] /\ h[n] \in D
  <1>1. \A k \in 0..n : g[k] = h[k]
    <2>1. n + 1 \in Nat /\ n <= n + 1
      OBVIOUS
    <2> QED
      BY <2>1, WalksAgree
  <1>2. n + 1 \in 1..(n + 1) /\ (n + 1) - 1 = n /\ n \in 0..n
    OBVIOUS
  <1>3. g[n + 1] = F[<<n + 1, g[n]>>] /\ h[n] \in D
    BY <1>2 DEF Walk
  <1> QED
    BY <1>1, <1>2, <1>3

\* Two lists with the same elements at the same places are the same list.
LEMMA SameList ==
    ASSUME NEW T, NEW s \in Seq(T), NEW t \in Seq(T), Len(s) = Len(t),
           \A k \in 1..Len(s) : s[k] = t[k]
    PROVE  s = t
  <1>1. s = [k \in 1..Len(s) |-> s[k]] /\ t = [k \in 1..Len(t) |-> t[k]]
    OBVIOUS
  <1> QED
    BY <1>1

\* The list of one element, and of none.
LEMMA OneOrNone ==
    ASSUME NEW T, NEW e \in T
    PROVE  <<e>> \in Seq(T) /\ Len(<<e>>) = 1 /\ <<>> \in Seq(T) /\ Len(<<>>) = 0
  OBVIOUS

\* Append, element by element.
LEMMA Appended ==
    ASSUME NEW T, NEW l \in Seq(T), NEW e \in T
    PROVE  /\ Append(l, e) \in Seq(T) /\ Len(l) \in Nat /\ Len(Append(l, e)) = Len(l) + 1
           /\ Append(l, e)[Len(l) + 1] = e
           /\ \A k \in 1..Len(l) : Append(l, e)[k] = l[k]
           /\ Append(l, e) = l \o <<e>> /\ <<e>> \in Seq(T)
  OBVIOUS

\* Appending to a joined list appends to its second part.
LEMMA JoinedAppend ==
    ASSUME NEW T, NEW l \in Seq(T), NEW m \in Seq(T), NEW e \in T
    PROVE  /\ l \o Append(m, e) = Append(l \o m, e)
           /\ l \o m \in Seq(T) /\ l \o <<>> = l
  OBVIOUS

IsFront(m, e, l) == l = Append(m, e)

\* A list that is not empty is one element more than its front.
LEMMA ListFront ==
    ASSUME NEW T, NEW l \in Seq(T), NEW n \in Nat, Len(l) = n + 1
    PROVE  \E m \in Seq(T) : \E e \in T : Len(m) = n /\ IsFront(m, e, l)
  <1>1. PICK m \in Seq(T) : Len(m) = n /\ \A k \in 1..n : m[k] = l[k]
    <2>1. SubSeq(l, 1, n) \in Seq(T)
      OBVIOUS
    <2>2. Len(SubSeq(l, 1, n)) = n
      OBVIOUS
    <2>3. \A k \in 1..n : SubSeq(l, 1, n)[k] = l[k]
      OBVIOUS
    <2> QED
      BY <2>1, <2>2, <2>3
  <1>2. PICK e \in T : e = l[n + 1]
    OBVIOUS
  <1>3. PICK u \in Seq(T) : u = Append(m, e)
    <2>1. Append(m, e) \in Seq(T)
      BY Appended
    <2> QED
      BY <2>1, Zenon
  <1>4. Len(u) = n + 1 /\ u[n + 1] = e /\ \A k \in 1..n : u[k] = m[k]
    BY <1>1, <1>3
  <1>5. ASSUME NEW k \in 1..Len(l) PROVE l[k] = u[k]
    <2>1. k \in 1..n \/ k = n + 1
      OBVIOUS
    <2> QED
      BY <1>1, <1>2, <1>4, <2>1, Zenon
  <1>6. l = u
    BY <1>4, <1>5, SameList
  <1> QED
    BY <1>1, <1>3, <1>6, Zenon DEF IsFront

\* Induction over lists: what holds of the empty list and of a list with one
\* element more holds of every list.
LEMMA ListInduction ==
    ASSUME NEW T, NEW P \in SUBSET Seq(T), <<>> \in P,
           \A l \in P, e \in T : Append(l, e) \in P
    PROVE  P = Seq(T)
  <1> DEFINE I == {n \in Nat : \A l \in Seq(T) : Len(l) = n => l \in P}
  <1>1. 0 \in I
    <2>1. \A l \in Seq(T) : Len(l) = 0 => l = <<>>
      OBVIOUS
    <2> QED
      BY <2>1
  <1>2. ASSUME NEW n \in Nat, n \in I PROVE n + 1 \in I
    <2> SUFFICES ASSUME NEW l \in Seq(T), Len(l) = n + 1 PROVE l \in P
      OBVIOUS
    <2>2. \E m \in Seq(T) : \E e \in T : Len(m) = n /\ IsFront(m, e, l)
      <3> HIDE DEF I
      <3> QED
        BY ListFront
    <2>4. PICK m \in Seq(T) : \E e \in T : Len(m) = n /\ IsFront(m, e, l)
      BY <2>2, Zenon
    <2>5. PICK e \in T : Len(m) = n /\ IsFront(m, e, l)
      BY <2>4, Zenon
    <2>3. m \in P
      BY <1>2, <2>5
    <2> QED
      BY <2>3, <2>5, Zenon DEF IsFront
  <1>3. I = Nat
    <2> HIDE DEF I
    <2>1. I \in SUBSET Nat
      BY DEF I
    <2> QED
      BY <1>1, <1>2, <2>1, SetInduction
  <1>4. \A l \in Seq(T) : Len(l) \in Nat
    OBVIOUS
  <1> QED
    BY <1>3, <1>4

\* Joining two lists joins what is in them.
LEMMA JoinedSet ==
    ASSUME NEW T, NEW s \in Seq(T), NEW t \in Seq(T)
    PROVE  ToSet(s \o t) = ToSet(s) \cup ToSet(t)
  <1> DEFINE u == s \o t
  <1>1. /\ Len(s) \in Nat /\ Len(t) \in Nat /\ u \in Seq(T) /\ Len(u) = Len(s) + Len(t)
        /\ DOMAIN s = 1..Len(s) /\ DOMAIN t = 1..Len(t) /\ DOMAIN u = 1..(Len(s) + Len(t))
        /\ \A i \in 1..Len(s) : u[i] = s[i]
        /\ \A i \in 1..Len(t) : u[Len(s) + i] = t[i]
    OBVIOUS
  <1> HIDE DEF u
  <1>2. ASSUME NEW y \in ToSet(u) PROVE y \in ToSet(s) \cup ToSet(t)
    <2>1. PICK i \in 1..(Len(s) + Len(t)) : u[i] = y
      BY <1>1 DEF ToSet
    <2>2. CASE i <= Len(s)
      BY <1>1, <2>1, <2>2, SMTT(30) DEF ToSet
    <2>3. CASE i > Len(s)
      <3>1. i - Len(s) \in 1..Len(t) /\ Len(s) + (i - Len(s)) = i
        BY <1>1, <2>3
      <3>2. t[i - Len(s)] = y
        BY <1>1, <2>1, <3>1
      <3> QED
        BY <1>1, <3>1, <3>2 DEF ToSet
    <2> QED
      BY <1>1, <2>2, <2>3
  <1>3. ASSUME NEW y \in ToSet(s) PROVE y \in ToSet(u)
    <2>1. PICK i \in 1..Len(s) : s[i] = y
      BY <1>1 DEF ToSet
    <2>2. i \in 1..(Len(s) + Len(t)) /\ u[i] = y
      BY <1>1, <2>1
    <2> QED
      BY <1>1, <2>2 DEF ToSet
  <1>4. ASSUME NEW y \in ToSet(t) PROVE y \in ToSet(u)
    <2>1. PICK i \in 1..Len(t) : t[i] = y
      BY <1>1 DEF ToSet
    <2>2. Len(s) + i \in 1..(Len(s) + Len(t)) /\ u[Len(s) + i] = y
      BY <1>1, <2>1
    <2> QED
      BY <1>1, <2>2 DEF ToSet
  <1> QED
    BY <1>2, <1>3, <1>4 DEF u

\* A joined list cut where it was joined.
LEMMA CutJoin ==
    ASSUME NEW T, NEW s \in Seq(T), NEW t \in Seq(T)
    PROVE  /\ SubSeq(s \o t, 1, Len(s)) = s
           /\ SubSeq(s \o t, Len(s) + 1, Len(s \o t)) = t
           /\ SubSeq(s, 1, Len(s)) = s
           /\ SubSeq(s, Len(s) + 1, Len(s)) = <<>>
  <1> DEFINE u == s \o t
             a == SubSeq(u, 1, Len(s))
             b == SubSeq(u, Len(s) + 1, Len(u))
  <1>1. /\ u \in Seq(T) /\ Len(u) = Len(s) + Len(t) /\ Len(s) \in Nat /\ Len(t) \in Nat
        /\ \A k \in 1..Len(s) : u[k] = s[k]
        /\ \A k \in 1..Len(t) : u[Len(s) + k] = t[k]
    OBVIOUS
  <1> HIDE DEF u
  <1>2. a \in Seq(T) /\ Len(a) = Len(s) /\ \A k \in 1..Len(s) : a[k] = u[k]
    BY <1>1
  <1>3. b \in Seq(T) /\ Len(b) = Len(t) /\ \A k \in 1..Len(t) : b[k] = u[Len(s) + k]
    <2>1. b \in Seq(T) /\ Len(b) = Len(t)
      BY <1>1
    <2>2. ASSUME NEW k \in 1..Len(t) PROVE b[k] = u[Len(s) + k]
      <3>1. b[k] = u[(Len(s) + 1) + k - 1] /\ (Len(s) + 1) + k - 1 = Len(s) + k
        BY <1>1
      <3> QED
        BY <3>1
    <2> QED
      BY <2>1, <2>2
  <1> HIDE DEF a, b
  <1>4. a = s
    BY <1>1, <1>2, SameList
  <1>5. b = t
    BY <1>1, <1>3, SameList
  <1>6. SubSeq(s, 1, Len(s)) = s /\ SubSeq(s, Len(s) + 1, Len(s)) = <<>>
    OBVIOUS
  <1> QED
    BY <1>4, <1>5, <1>6 DEF a, b, u

-----------------------------------------------------------------------------
(* FlattenSeq.                                                             *)

\* The step of FlattenSeq's walk.
Joining(s, T) == [p \in (1..Len(s)) \X Seq(T) |-> p[2] \o s[p[1]]]

\* FlattenSeq is a walk that joins the lists one after another.
LEMMA FlattenWalk ==
    ASSUME NEW T, NEW s \in Seq(Seq(T))
    PROVE  \E g : /\ Walk(g, Len(s), Seq(T), <<>>, Joining(s, T))
                  /\ FlattenSeq(s) = g[Len(s)]
  <1> DEFINE n == Len(s)
             F == Joining(s, T)
  <1>1. n \in Nat /\ F \in [(1..n) \X Seq(T) -> Seq(T)] /\ <<>> \in Seq(T)
    <2>1. \A p \in (1..n) \X Seq(T) : p[2] \o s[p[1]] \in Seq(T)
      OBVIOUS
    <2> QED
      BY <2>1 DEF Joining
  <1>2. PICK g : Walk(g, n, Seq(T), <<>>, F)
    <2> HIDE DEF n, F
    <2> QED
      BY <1>1, WalkExists
  <1>3. ASSUME NEW k \in 1..n PROVE g[k] = g[k - 1] \o s[k]
    <2>1. k - 1 \in 0..n /\ g \in [0..n -> Seq(T)] /\ g[k] = F[<<k, g[k - 1]>>]
      BY <1>1, <1>2 DEF Walk
    <2>2. <<k, g[k - 1]>> \in (1..n) \X Seq(T)
      BY <2>1
    <2> QED
      BY <2>1, <2>2 DEF Joining
  <1>6. n # 0 => g[1] = s[1]
    <2> SUFFICES ASSUME n # 0 PROVE g[1] = s[1]
      OBVIOUS
    <2>1. 1 \in 1..n /\ 1 - 1 = 0 /\ s[1] \in Seq(T)
      BY <1>1
    <2>2. g[1] = g[0] \o s[1] /\ g[0] = <<>>
      <3> HIDE DEF n
      <3> QED
        BY <1>2, <1>3, <2>1 DEF Walk
    <2> QED
      BY <2>1, <2>2
  <1>4. CASE n = 0
    <2>1. s = <<>> /\ FlattenSeq(s) = s /\ g[0] = <<>>
      BY <1>2, <1>4 DEF FlattenSeq, Walk
    <2> QED
      BY <1>2, <1>4, <2>1
  <1>5. CASE n # 0
    <2> DEFINE Solves(f) == f = [i \in 1..n |-> IF i = 1 THEN s[i] ELSE f[i - 1] \o s[i]]
               f0 == [i \in 1..n |-> g[i]]
               f1 == CHOOSE f : Solves(f)
    <2>1. Solves(f0)
      <3>1. ASSUME NEW i \in 1..n PROVE g[i] = IF i = 1 THEN s[i] ELSE f0[i - 1] \o s[i]
        <4>1. CASE i = 1
          BY <1>5, <1>6, <4>1
        <4>2. CASE i # 1
          <5>1. i - 1 \in 1..n
            BY <4>2
          <5> QED
            BY <1>3, <4>2, <5>1
        <4> QED
          BY <4>1, <4>2
      <3> QED
        BY <3>1
    <2>2. Solves(f1)
      <3> HIDE DEF f0, Solves
      <3> QED
        BY <2>1
    <2>3. FlattenSeq(s) = f1[n]
      BY <1>5 DEF FlattenSeq
    <2>4. \A k \in Nat : k \in 1..n => f1[k] = g[k]
      <3> DEFINE I == {k \in Nat : k \in 1..n => f1[k] = g[k]}
      <3> HIDE DEF f1
      <3>1. 0 \in I
        OBVIOUS
      <3>2. ASSUME NEW k \in I PROVE k + 1 \in I
        <4> SUFFICES ASSUME k + 1 \in 1..n PROVE f1[k + 1] = g[k + 1]
          OBVIOUS
        <4>1. f1[k + 1] = IF k + 1 = 1 THEN s[k + 1] ELSE f1[(k + 1) - 1] \o s[k + 1]
          BY <2>2
        <4>2. CASE k = 0
          BY <1>5, <1>6, <4>1, <4>2
        <4>3. CASE k # 0
          <5>1. k \in 1..n /\ (k + 1) - 1 = k /\ k + 1 # 1 /\ f1[k] = g[k]
            BY <4>3
          <5>2. f1[k + 1] = f1[k] \o s[k + 1]
            BY <4>1, <5>1, Zenon
          <5>3. g[k + 1] = g[(k + 1) - 1] \o s[k + 1]
            <6> HIDE DEF I
            <6> QED
              BY <1>3
          <5> QED
            BY <5>1, <5>2, <5>3
        <4> QED
          BY <4>2, <4>3
      <3>3. I = Nat
        <4> HIDE DEF I
        <4>1. I \in SUBSET Nat
          BY DEF I
        <4> QED
          BY <3>1, <3>2, <4>1, SetInduction
      <3> QED
        BY <3>3
    <2> HIDE DEF f1
    <2> QED
      BY <1>1, <1>2, <1>5, <2>3, <2>4
  <1> QED
    BY <1>4, <1>5

\* Flattening a list of lists makes a list, and nothing of nothing.
LEMMA FlattenType ==
    ASSUME NEW T, NEW s \in Seq(Seq(T))
    PROVE  FlattenSeq(s) \in Seq(T) /\ (s = <<>> => FlattenSeq(s) = <<>>)
  <1>1. PICK g : /\ Walk(g, Len(s), Seq(T), <<>>, Joining(s, T)) /\ FlattenSeq(s) = g[Len(s)]
    BY FlattenWalk
  <1> QED
    BY <1>1 DEF Walk

\* One more list is joined at the end.
LEMMA FlattenAppend ==
    ASSUME NEW T, NEW s \in Seq(Seq(T)), NEW e \in Seq(T)
    PROVE  FlattenSeq(Append(s, e)) = FlattenSeq(s) \o e
  <1> DEFINE t == Append(s, e)
             n == Len(s)
  <1>1. /\ t \in Seq(Seq(T)) /\ Len(t) = n + 1 /\ n \in Nat /\ t[n + 1] = e
        /\ \A k \in 1..n : t[k] = s[k]
    OBVIOUS
  <1> HIDE DEF t
  <1>2. PICK g : Walk(g, n + 1, Seq(T), <<>>, Joining(t, T)) /\ FlattenSeq(t) = g[n + 1]
    BY <1>1, FlattenWalk
  <1>3. PICK h : Walk(h, n, Seq(T), <<>>, Joining(s, T)) /\ FlattenSeq(s) = h[n]
    BY <1>1, FlattenWalk
  <1>4. Agree(Joining(t, T), Joining(s, T), n, Seq(T))
    BY <1>1, SMTT(30) DEF Joining, Agree
  <1>5. g[n + 1] = Joining(t, T)[<<n + 1, h[n]>>] /\ h[n] \in Seq(T)
    <2> HIDE DEF n
    <2> QED
      BY <1>1, <1>2, <1>3, <1>4, WalkOneMore
  <1>6. g[n + 1] = h[n] \o e
    <2>1. <<n + 1, h[n]>> \in (1..Len(t)) \X Seq(T)
      BY <1>1, <1>5
    <2> QED
      BY <1>1, <1>5, <2>1 DEF Joining
  <1> QED
    BY <1>2, <1>3, <1>6 DEF t

\* A table of lists flattened up to n + 1 is the one up to n and the last.
LEMMA FlattenTable ==
    ASSUME NEW T, NEW n \in Nat, NEW f, \A k \in 1..(n + 1) : f[k] \in Seq(T)
    PROVE  /\ FlattenSeq([k \in 1..(n + 1) |-> f[k]]) =
                  FlattenSeq([k \in 1..n |-> f[k]]) \o f[n + 1]
           /\ FlattenSeq([k \in 1..n |-> f[k]]) \in Seq(T)
  <1> DEFINE s == [k \in 1..n |-> f[k]]
             t == [k \in 1..(n + 1) |-> f[k]]
  <1>1. /\ s \in Seq(Seq(T)) /\ Len(s) = n /\ t \in Seq(Seq(T)) /\ Len(t) = n + 1
        /\ \A k \in 1..n : s[k] = f[k] /\ t[k] = f[k]
        /\ t[n + 1] = f[n + 1] /\ f[n + 1] \in Seq(T)
    OBVIOUS
  <1> HIDE DEF s, t
  <1>2. t = Append(s, f[n + 1])
    <2> DEFINE u == Append(s, f[n + 1])
    <2>1. u \in Seq(Seq(T)) /\ Len(u) = n + 1 /\ u[n + 1] = f[n + 1]
          /\ \A k \in 1..n : u[k] = s[k]
      BY <1>1
    <2> HIDE DEF u
    <2>2. ASSUME NEW k \in 1..(n + 1) PROVE t[k] = u[k]
      <3>1. k \in 1..n \/ k = n + 1
        OBVIOUS
      <3> QED
        BY <1>1, <2>1, <3>1, Zenon
    <2> QED
      BY <1>1, <2>1, <2>2, SameList DEF u
  <1>3. FlattenSeq(t) = FlattenSeq(s) \o f[n + 1] /\ FlattenSeq(s) \in Seq(T)
    BY <1>1, <1>2, FlattenAppend, FlattenType
  <1> QED
    BY <1>3 DEF s, t

-----------------------------------------------------------------------------
(* Only.                                                                   *)

\* Nothing is kept of nothing.
LEMMA OnlyNothing == ASSUME NEW W PROVE Only(<<>>, W) = <<>>
  <1> DEFINE none == [i \in DOMAIN <<>> |-> IF <<>>[i] \in W THEN <<<<>>[i]>> ELSE <<>>]
  <1>1. none = <<>> /\ <<>> \in Seq(Seq({}))
    OBVIOUS
  <1>2. Only(<<>>, W) = FlattenSeq(none)
    BY DEF Only
  <1> HIDE DEF none
  <1> QED
    BY <1>1, <1>2, FlattenType

\* An element more is kept when it is wanted.
LEMMA OnlyOneMore ==
    ASSUME NEW T, NEW W, NEW l \in Seq(T), NEW e \in T
    PROVE  /\ Only(l, W) \in Seq(T)
           /\ e \in W => Only(Append(l, e), W) = Append(Only(l, W), e)
           /\ e \notin W => Only(Append(l, e), W) = Only(l, W)
  <1> DEFINE One(x) == IF x \in W THEN <<x>> ELSE <<>>
             Parts(x) == [i \in DOMAIN x |-> One(x[i])]
  <1>1. ASSUME NEW x \in Seq(T)
        PROVE  Parts(x) \in Seq(Seq(T)) /\ Only(x, W) = FlattenSeq(Parts(x))
    <2>1. \A i \in 1..Len(x) : One(x[i]) \in Seq(T)
      OBVIOUS
    <2>2. DOMAIN x = 1..Len(x) /\ Len(x) \in Nat
      OBVIOUS
    <2>3. Only(x, W) = FlattenSeq(Parts(x))
      BY DEF Only
    <2> HIDE DEF One
    <2> QED
      BY <2>1, <2>2, <2>3
  <1>3. Only(l, W) \in Seq(T)
    <2> HIDE DEF Parts
    <2> QED
      BY <1>1, FlattenType
  <1>4. /\ e \in W => Only(Append(l, e), W) = Append(Only(l, W), e)
        /\ e \notin W => Only(Append(l, e), W) = Only(l, W)
    <2>1. One(e) \in Seq(T)
      OBVIOUS
    <2>2. Append(l, e) \in Seq(T)
      OBVIOUS
    <2>3. Parts(Append(l, e)) = Append(Parts(l), One(e))
      <3> DEFINE a == Append(l, e)
                 n == Len(l)
                 p == Parts(a)
                 q == Append(Parts(l), One(e))
      <3>1. /\ n \in Nat /\ DOMAIN a = 1..(n + 1) /\ DOMAIN l = 1..n
            /\ a[n + 1] = e /\ \A k \in 1..n : a[k] = l[k]
        OBVIOUS
      <3>2. Parts(l) \in Seq(Seq(T)) /\ Len(Parts(l)) = n /\ p \in Seq(Seq(T))
        <4>1. Parts(l) \in Seq(Seq(T)) /\ p \in Seq(Seq(T))
          BY <1>1, <2>2
        <4>2. DOMAIN Parts(l) = 1..n
          BY <3>1
        <4> QED
          BY <3>1, <4>1, <4>2
      <3> HIDE DEF a, One
      <3>3. p = [k \in 1..(n + 1) |-> One(a[k])]
        BY <3>1
      <3>4. \A k \in 1..n : Parts(l)[k] = One(l[k])
        BY <3>1
      <3> HIDE DEF p, Parts, n
      <3>5. /\ q \in Seq(Seq(T)) /\ Len(q) = n + 1 /\ q[n + 1] = One(e)
            /\ \A k \in 1..n : q[k] = One(l[k])
        <4>1. PICK P \in Seq(Seq(T)), o \in Seq(T) : P = Parts(l) /\ o = One(e)
          BY <2>1, <3>2
        <4>2. /\ Append(P, o) \in Seq(Seq(T)) /\ Len(Append(P, o)) = Len(P) + 1
              /\ Append(P, o)[Len(P) + 1] = o /\ \A k \in 1..Len(P) : Append(P, o)[k] = P[k]
          OBVIOUS
        <4>3. q = Append(P, o) /\ Len(P) = n
          BY <3>2, <4>1
        <4> HIDE DEF q
        <4> QED
          BY <3>4, <4>1, <4>2, <4>3
      <3>6. Len(p) = n + 1
        BY <3>1, <3>2, <3>3
      <3> HIDE DEF q
      <3>7. ASSUME NEW k \in 1..(n + 1) PROVE p[k] = q[k]
        <4>1. k \in 1..n \/ k = n + 1
          BY <3>1
        <4>2. p[k] = One(a[k])
          BY <3>3
        <4> QED
          BY <3>1, <3>5, <4>1, <4>2, Zenon
      <3>8. p = q
        BY <3>2, <3>5, <3>6, <3>7, SameList
      <3> QED
        BY <3>8 DEF p, q, a
    <2>4. Only(Append(l, e), W) = Only(l, W) \o One(e)
      <3> HIDE DEF Parts, One
      <3> QED
        BY <1>1, <2>1, <2>2, <2>3, FlattenAppend
    <2>5. Only(l, W) \in Seq(T)
      BY <1>3
    <2> QED
      BY <2>4, <2>5
  <1> QED
    BY <1>3, <1>4

\* One element more is in the list, and nothing else is.
LEMMA AppendedSet ==
    ASSUME NEW T, NEW l \in Seq(T), NEW e \in T
    PROVE  ToSet(Append(l, e)) = ToSet(l) \cup {e}
  <1>1. Append(l, e) = l \o <<e>> /\ <<e>> \in Seq(T)
    BY Appended
  <1>2. ToSet(<<e>>) = {e}
    BY DEF ToSet
  <1>3. ToSet(l \o <<e>>) = ToSet(l) \cup ToSet(<<e>>)
    BY <1>1, JoinedSet, ZenonT(40)
  <1> QED
    BY <1>1, <1>2, <1>3, Zenon

\* What is kept is what is in the list and wanted.
LEMMA OnlySet ==
    ASSUME NEW T, NEW W
    PROVE  \A l \in Seq(T) : ToSet(Only(l, W)) = ToSet(l) \cap W
  <1> DEFINE P == {l \in Seq(T) : ToSet(Only(l, W)) = ToSet(l) \cap W}
  <1>1. <<>> \in P
    <2>1. <<>> \in Seq(T) /\ Only(<<>>, W) = <<>> /\ ToSet(<<>>) = {}
      BY OnlyNothing DEF ToSet
    <2> QED
      BY <2>1
  <1>2. ASSUME NEW l \in P, NEW e \in T PROVE Append(l, e) \in P
    <2>4. l \in Seq(T) /\ ToSet(Only(l, W)) = ToSet(l) \cap W
      OBVIOUS
    <2> HIDE DEF P
    <2>1. /\ Append(l, e) \in Seq(T) /\ Only(l, W) \in Seq(T)
          /\ e \in W => Only(Append(l, e), W) = Append(Only(l, W), e)
          /\ e \notin W => Only(Append(l, e), W) = Only(l, W)
      BY <2>4, OnlyOneMore, Appended
    <2>2. ToSet(Append(l, e)) = ToSet(l) \cup {e}
      BY <2>4, AppendedSet
    <2>3. ToSet(Append(Only(l, W), e)) = ToSet(Only(l, W)) \cup {e}
      BY <2>1, AppendedSet
    <2>5. ToSet(Only(Append(l, e), W)) = ToSet(Append(l, e)) \cap W
      <3>1. CASE e \in W
        BY <2>1, <2>2, <2>3, <2>4, <3>1
      <3>2. CASE e \notin W
        BY <2>1, <2>2, <2>4, <3>2
      <3> QED
        BY <3>1, <3>2
    <2> QED
      BY <2>1, <2>5 DEF P
  <1>3. P = Seq(T)
    <2> HIDE DEF P
    <2>1. P \in SUBSET Seq(T)
      BY DEF P
    <2> QED
      BY <1>1, <1>2, <2>1, ListInduction
  <1> QED
    BY <1>3

\* Everything is kept when all of it is wanted, nothing when none of it is.
LEMMA OnlyAllOrNone ==
    ASSUME NEW T, NEW W
    PROVE  \A l \in Seq(T) : /\ ToSet(l) \subseteq W => Only(l, W) = l
                             /\ ToSet(l) \cap W = {} => Only(l, W) = <<>>
  <1> DEFINE P == {l \in Seq(T) : /\ ToSet(l) \subseteq W => Only(l, W) = l
                                  /\ ToSet(l) \cap W = {} => Only(l, W) = <<>>}
  <1>1. <<>> \in P
    <2>1. <<>> \in Seq(T) /\ Only(<<>>, W) = <<>>
      BY OnlyNothing
    <2> QED
      BY <2>1
  <1>2. ASSUME NEW l \in P, NEW e \in T PROVE Append(l, e) \in P
    <2>2. /\ l \in Seq(T)
          /\ ToSet(l) \subseteq W => Only(l, W) = l
          /\ ToSet(l) \cap W = {} => Only(l, W) = <<>>
      BY <1>2
    <2> HIDE DEF P
    <2>1. /\ Append(l, e) \in Seq(T)
          /\ e \in W => Only(Append(l, e), W) = Append(Only(l, W), e)
          /\ e \notin W => Only(Append(l, e), W) = Only(l, W)
          /\ ToSet(Append(l, e)) = ToSet(l) \cup {e}
      BY <2>2, OnlyOneMore, Appended, AppendedSet
    <2>3. ToSet(Append(l, e)) \subseteq W => Only(Append(l, e), W) = Append(l, e)
      <3>1. ToSet(Append(l, e)) \subseteq W => e \in W /\ ToSet(l) \subseteq W
        BY <2>1
      <3> QED
        BY <2>1, <2>2, <3>1
    <2>4. ToSet(Append(l, e)) \cap W = {} => Only(Append(l, e), W) = <<>>
      <3>1. ToSet(Append(l, e)) \cap W = {} => e \notin W /\ ToSet(l) \cap W = {}
        BY <2>1
      <3> QED
        BY <2>1, <2>2, <3>1
    <2> QED
      BY <2>1, <2>3, <2>4 DEF P
  <1>3. P = Seq(T)
    <2> HIDE DEF P
    <2>1. P \in SUBSET Seq(T)
      BY DEF P
    <2> QED
      BY <1>1, <1>2, <2>1, ListInduction
  <1> QED
    BY <1>3

\* What is kept of two lists is what is kept of each.
LEMMA OnlyJoin ==
    ASSUME NEW T, NEW W, NEW l \in Seq(T)
    PROVE  \A m \in Seq(T) : Only(l \o m, W) = Only(l, W) \o Only(m, W)
  <1> DEFINE P == {m \in Seq(T) : Only(l \o m, W) = Only(l, W) \o Only(m, W)}
  <1>1. <<>> \in P
    <2>1. <<>> \in Seq(T) /\ Only(<<>>, W) = <<>> /\ l \o <<>> = l /\ Only(l, W) \in Seq(T)
      <3>1. <<>> \in Seq(T) /\ l \o <<>> = l
        OBVIOUS
      <3> QED
        BY <3>1, OnlyNothing, OnlyOneMore
    <2>2. Only(l, W) \o <<>> = Only(l, W)
      BY <2>1
    <2> QED
      BY <2>1, <2>2
  <1>2. ASSUME NEW m \in P, NEW e \in T PROVE Append(m, e) \in P
    <2>3. m \in Seq(T) /\ Only(l \o m, W) = Only(l, W) \o Only(m, W)
      OBVIOUS
    <2> HIDE DEF P
    <2>1. /\ Append(m, e) \in Seq(T) /\ l \o m \in Seq(T)
          /\ l \o Append(m, e) = Append(l \o m, e)
      BY <2>3, Appended, JoinedAppend
    <2>2. /\ Only(l, W) \in Seq(T) /\ Only(m, W) \in Seq(T)
          /\ e \in W => Only(Append(m, e), W) = Append(Only(m, W), e)
          /\ e \notin W => Only(Append(m, e), W) = Only(m, W)
      BY <2>3, OnlyOneMore
    <2>6. /\ e \in W => Only(Append(l \o m, e), W) = Append(Only(l \o m, W), e)
          /\ e \notin W => Only(Append(l \o m, e), W) = Only(l \o m, W)
      <3>1. PICK u \in Seq(T) : u = l \o m
        BY <2>1
      <3>2. /\ e \in W => Only(Append(u, e), W) = Append(Only(u, W), e)
            /\ e \notin W => Only(Append(u, e), W) = Only(u, W)
        BY OnlyOneMore
      <3> QED
        BY <3>1, <3>2
    <2>4. Append(Only(l, W) \o Only(m, W), e) = Only(l, W) \o Append(Only(m, W), e)
      <3>1. PICK a \in Seq(T), b \in Seq(T) : a = Only(l, W) /\ b = Only(m, W)
        BY <2>2
      <3>2. a \o Append(b, e) = Append(a \o b, e)
        BY JoinedAppend
      <3> QED
        BY <3>1, <3>2, Zenon
    <2>5. Only(l \o Append(m, e), W) = Only(l, W) \o Only(Append(m, e), W)
      <3>1. CASE e \in W
        BY <2>1, <2>2, <2>3, <2>4, <2>6, <3>1, Zenon
      <3>2. CASE e \notin W
        BY <2>1, <2>2, <2>3, <2>6, <3>2, Zenon
      <3> QED
        BY <3>1, <3>2
    <2> QED
      BY <2>1, <2>5 DEF P
  <1>3. P = Seq(T)
    <2> HIDE DEF P
    <2>1. P \in SUBSET Seq(T)
      BY DEF P
    <2> QED
      BY <1>1, <1>2, <2>1, ListInduction
  <1> QED
    BY <1>3

-----------------------------------------------------------------------------
(* Total.                                                                  *)

\* The step of Total's walk.
Adding(f, n) == [p \in (1..n) \X Nat |-> p[2] + f[p[1]]]

\* Total is a walk that adds one entry after another.
LEMMA TotalWalk ==
    ASSUME NEW n \in Nat, NEW f, \A k \in 1..n : f[k] \in Nat
    PROVE  \E g : Walk(g, n, Nat, 0, Adding(f, n)) /\ Total(f, n) = g[n]
  <1> DEFINE F == Adding(f, n)
  <1>1. F \in [(1..n) \X Nat -> Nat] /\ 0 \in Nat
    <2>1. \A p \in (1..n) \X Nat : p[2] + f[p[1]] \in Nat
      OBVIOUS
    <2> QED
      BY <2>1 DEF Adding
  <1>2. PICK g : Walk(g, n, Nat, 0, F)
    <2> HIDE DEF F
    <2> QED
      BY <1>1, WalkExists
  <1>3. ASSUME NEW k \in 1..n PROVE g[k] = g[k - 1] + f[k]
    <2>1. k - 1 \in 0..n /\ g \in [0..n -> Nat] /\ g[k] = F[<<k, g[k - 1]>>]
      BY <1>2 DEF Walk
    <2>2. <<k, g[k - 1]>> \in (1..n) \X Nat
      BY <2>1
    <2> QED
      BY <2>1, <2>2 DEF Adding
  <1> DEFINE Solves(s) == s = [k \in 0..n |-> IF k = 0 THEN 0 ELSE s[k - 1] + f[k]]
             s1 == CHOOSE s : Solves(s)
  <1>4. Solves(g)
    <2>1. g = [k \in 0..n |-> g[k]] /\ g[0] = 0
      BY <1>2 DEF Walk
    <2>2. ASSUME NEW k \in 0..n PROVE g[k] = IF k = 0 THEN 0 ELSE g[k - 1] + f[k]
      <3>1. (k = 0 \/ k \in 1..n) /\ (k \in 1..n => k # 0)
        OBVIOUS
      <3> QED
        BY <1>3, <2>1, <3>1, Zenon
    <2> QED
      BY <2>1, <2>2
  <1>5. Solves(s1)
    <2> HIDE DEF Solves
    <2> QED
      BY <1>4
  <1>6. Total(f, n) = s1[n]
    BY DEF Total
  <1>7. \A k \in Nat : k \in 0..n => s1[k] = g[k]
    <2> DEFINE I == {k \in Nat : k \in 0..n => s1[k] = g[k]}
    <2> HIDE DEF s1
    <2>1. 0 \in I
      BY <1>4, <1>5
    <2>2. ASSUME NEW k \in I PROVE k + 1 \in I
      <3> SUFFICES ASSUME k + 1 \in 0..n PROVE s1[k + 1] = g[k + 1]
        OBVIOUS
      <3>1. /\ s1[k + 1] = IF k + 1 = 0 THEN 0 ELSE s1[(k + 1) - 1] + f[k + 1]
            /\ g[k + 1] = IF k + 1 = 0 THEN 0 ELSE g[(k + 1) - 1] + f[k + 1]
        BY <1>4, <1>5
      <3>2. (k + 1) - 1 = k /\ k + 1 # 0 /\ s1[k] = g[k]
        OBVIOUS
      <3> QED
        BY <3>1, <3>2, Zenon
    <2>3. I = Nat
      <3> HIDE DEF I
      <3>1. I \in SUBSET Nat
        BY DEF I
      <3> QED
        BY <2>1, <2>2, <3>1, SetInduction
    <2> QED
      BY <2>3
  <1> HIDE DEF s1
  <1>8. s1[n] = g[n]
    BY <1>7
  <1> QED
    BY <1>2, <1>6, <1>8

\* One entry more is added.
LEMMA TotalOneMore ==
    ASSUME NEW n \in Nat, NEW f, \A k \in 1..(n + 1) : f[k] \in Nat
    PROVE  Total(f, n) \in Nat /\ Total(f, n + 1) = Total(f, n) + f[n + 1]
  <1>1. (\A k \in 1..n : f[k] \in Nat) /\ n + 1 \in Nat
    OBVIOUS
  <1>2. PICK g : Walk(g, n + 1, Nat, 0, Adding(f, n + 1)) /\ Total(f, n + 1) = g[n + 1]
    BY <1>1, TotalWalk
  <1>3. PICK h : Walk(h, n, Nat, 0, Adding(f, n)) /\ Total(f, n) = h[n]
    BY <1>1, TotalWalk
  <1>4. Agree(Adding(f, n + 1), Adding(f, n), n, Nat)
    BY DEF Agree, Adding
  <1>5. g[n + 1] = Adding(f, n + 1)[<<n + 1, h[n]>>] /\ h[n] \in Nat
    BY <1>2, <1>3, <1>4, WalkOneMore
  <1>6. <<n + 1, h[n]>> \in (1..(n + 1)) \X Nat
    BY <1>5
  <1>7. g[n + 1] = h[n] + f[n + 1]
    BY <1>5, <1>6 DEF Adding
  <1> QED
    BY <1>2, <1>3, <1>5, <1>7

\* Nothing adds up to nothing.
LEMMA TotalNothing == ASSUME NEW f PROVE Total(f, 0) = 0
  <1>1. (\A k \in 1..0 : f[k] \in Nat) /\ 0 \in Nat
    OBVIOUS
  <1>2. PICK g : Walk(g, 0, Nat, 0, Adding(f, 0)) /\ Total(f, 0) = g[0]
    BY <1>1, TotalWalk
  <1> QED
    BY <1>2 DEF Walk

\* Only the entries that are added matter.
LEMMA TotalSame ==
    ASSUME NEW n \in Nat, NEW f, NEW e, \A k \in 1..n : f[k] \in Nat /\ e[k] = f[k]
    PROVE  Total(e, n) = Total(f, n)
  <1>1. (\A k \in 1..n : f[k] \in Nat) /\ (\A k \in 1..n : e[k] \in Nat)
    OBVIOUS
  <1>2. PICK g : Walk(g, n, Nat, 0, Adding(e, n)) /\ Total(e, n) = g[n]
    BY <1>1, TotalWalk
  <1>3. PICK h : Walk(h, n, Nat, 0, Adding(f, n)) /\ Total(f, n) = h[n]
    BY <1>1, TotalWalk
  <1>4. Agree(Adding(e, n), Adding(f, n), n, Nat)
    BY DEF Agree, Adding
  <1>5. n <= n /\ n \in 0..n
    OBVIOUS
  <1>6. \A k \in 0..n : g[k] = h[k]
    BY <1>2, <1>3, <1>4, <1>5, WalksAgree
  <1> QED
    BY <1>2, <1>3, <1>5, <1>6
=============================================================================
